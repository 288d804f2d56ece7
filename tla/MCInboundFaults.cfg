SPECIFICATION Spec
CONSTANTS
    m1 = m1
    m2 = m2
    s1 = s1
    Message = {m1, m2}
    Send = {s1}
    RawChannel = {"sms", "instagram_dm", "voice"}
    Answer = {"opt_out", "complaint", "spam"}
    Consented = {"whatsapp"}
    Settings <- MCSettings
    MaxDeliveries = 2
    Faults = {"database", "crash", "answer"}
INVARIANTS TypeOK ToldIsFinal OptOutOnRecord OwnerDecides
SYMMETRY MCSymmetry
