SPECIFICATION FairMandateSpec
CONSTANTS
    Mandates = {m1, m2}
    Calls = {k1}
INVARIANTS
    OneMandateInForce
    ActiveIsGranted
PROPERTIES
    ExpiredMandateEnds
CHECK_DEADLOCK FALSE
