SPECIFICATION FairOutboxSpec
CONSTANTS
    Users = {u1}
    Installs = {i1}
    Tokens = {t1, t2}
    Sessions = {s1}
    MaxVersion = 2
    Messages = {m1}
    Workers = {w1, w2}
    MaxAttempts = 2
    BatchSize = 1
INVARIANTS
    LeaseProtects
    OnlyDeadTokensGo
    FinalStatusIsTrue
PROPERTIES
    MessageFinishes
CHECK_DEADLOCK FALSE
