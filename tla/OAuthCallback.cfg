CONSTANTS
  Modals = {"m1", "m2"}
  MaxFlows = 3
  CleanupTicks = 2
  PollTicks = 2
SPECIFICATION FairSpec
INVARIANTS CodeOnce LabelsAreTheirs
PROPERTIES TimerSpares PortIsReleased
