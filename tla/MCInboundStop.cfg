SPECIFICATION Spec
CONSTANTS
    m1 = m1
    m2 = m2
    s1 = s1
    Message = {m1}
    Send = {}
    RawChannel = {"sms", "instagram_dm", "voice"}
    Answer = {"opt_out"}
    Consented = {}
    Settings <- MCSettings
    MaxDeliveries = 2
    Faults = {}
INVARIANTS EveryStopRecorded
