CONSTANTS
  Letters = {"<", "a", "b"}
  MaxText = 4
  MaxDelta = 2
  Presets <- AllPresets
  Scripts <- AllScripts
  Margin = 2
  Cap = 2
SPECIFICATION Spec
INVARIANT NeverDropsText
