CONSTANTS
  Letters = {"<", "a", "b"}
  MaxText = 6
  MaxDelta = 3
  Presets <- AllPresets
  Scripts <- AllScripts
  Margin = 2
  Cap = 2
SPECIFICATION Spec
INVARIANTS SameTextAsJson NothingLostOrDoubled AnnouncementsArrive CompletionOnce HoldsBounded
