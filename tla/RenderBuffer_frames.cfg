SPECIFICATION Spec
CONSTANTS
  Capacity = 2
  MaxTicks = 5
INVARIANTS
  NoStaleCommand
  IntactUnlessOvertaken
PROPERTIES
  ImplementsMailbox
