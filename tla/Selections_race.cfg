SPECIFICATION Spec
CONSTANTS
  Groups = {"g"}
  Selectable = {"g"}
  Nodes = {"a", "b"}
  Profiles = {"p", "q"}
  NoNode = "-"
  MaxTasks = 2
  MaxChoices = 1
  MaxChanges = 0
CHECK_DEADLOCK FALSE
INVARIANT NewerSelectionStands
