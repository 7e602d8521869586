SPECIFICATION OutboxFairSpec
CONSTANTS
    u1 = u1  u2 = u2  e1 = e1  e2 = e2  d1 = d1  d2 = d2
    None = None
    Users = {u1}
    EventIds = {e1}
    Drains = {d1, d2}
    ClaimBatch = 2
    MaxEmailAttempts = 2
    MaxFaults = 2
    MaxChanges = 2
INVARIANT RecordMatchesRelay
PROPERTIES OutcomeIsFinal PendingSettles
