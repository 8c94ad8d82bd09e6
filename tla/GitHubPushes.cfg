SPECIFICATION Spec

CONSTANTS
    Versions = {"v1", "v2"}
    Bodies = {}
    MaxMishaps = 1
    MaxChanges = 1

PROPERTY PushesOnlyEdits
CHECK_DEADLOCK FALSE
