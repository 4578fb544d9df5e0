SPECIFICATION MCSpec
CONSTANTS
    Threads = {h1}
    Seeder = seeder
    MaxEvents = 2
    Clients = {c1, c2}
    MaxChanges = 2
    None = None
INVARIANTS  AcceptedUnlessCrossed
PROPERTIES PlayerComesRound QueueAnnounced
CHECK_DEADLOCK FALSE
