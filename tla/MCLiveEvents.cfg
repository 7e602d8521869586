SPECIFICATION LiveFairSpec
CONSTANTS
    u1 = u1  u2 = u2  s1 = s1  s2 = s2  n1 = n1  n2 = n2  p1 = p1  p2 = p2
    None = None
    Users = {u1}
    Streams = {s1}
    Owner <- MCOwner
    Notices = {n1}
    Recipients <- MCRecipients
    Changes = {p1}
    QueueSize = 1
    Window = 2
    Heartbeat = 3
INVARIANTS OnlyCommittedIsAnnounced NothingSilentlyMissed
PROPERTIES EveryoneHears NothingPastTheRecheck
