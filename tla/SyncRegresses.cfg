CONSTANTS
    Foundation = {"label"}
    Keys = {"first"}
    Commands = {c1, c2}
    Faults = 0
    Edits = 0
    Absent = Absent
SPECIFICATION Spec
PROPERTIES
    SyncForward
