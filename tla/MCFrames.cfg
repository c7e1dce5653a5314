SPECIFICATION Spec
CONSTANTS
    Size = 8
    MaxRead = 6
    Mark = 0
    Frames <- MCFrames
    MaxFrames = 3
    MaxConn = 3
    Base = 2
    Receivers = {"client.h", "MainActivity"}
    Zero = 0
    Null = Null
INVARIANTS Aligned NeverRefusesClean WaitsOnlyIfMerged
CHECK_DEADLOCK FALSE
