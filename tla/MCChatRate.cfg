SPECIFICATION Spec
CONSTANTS
    Talker = {p1}
    RingSize = 6
    Delta = 1
    Mutes = {}
    MaxClock = 8
INVARIANT FourASecond
CHECK_DEADLOCK FALSE
