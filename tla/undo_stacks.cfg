SPECIFICATION Spec
CONSTANTS
  Handler = {h1, h2}
  Setting = {"workspace", "mute", "theme"}
  WorkspaceCount = 2
  VolumeMax = 1
  MAX_UNDO = 2
  None = None
SYMMETRY Symmetry
INVARIANTS TypeOK StacksBounded WorkspaceInRange UndoRestores ExecutesAnnounced
