SPECIFICATION Spec
CONSTANTS
    c1 = c1
    c2 = c2
    Contact = {c1}
    Email = {c1}
    Facts <- MCFacts
    Missing = {"card", "package"}
    MaxId = 2
    Faults = {"refused", "timeout", "auth", "database", "crash"}
INVARIANTS TypeOK RepeatHeals OneContactPerEmail
PROPERTIES GuardHolds MarkersStay
