SPECIFICATION Spec
CONSTANTS
  Handler = {h1}
  Setting = {"volume", "mute"}
  WorkspaceCount = 2
  VolumeMax = 1
  MAX_UNDO = 2
  None = None
PROPERTY UndoCanBeRedone
