CONSTANTS
    Queries = {q1, q2, q3}
    Executors = {e1}
    None = None
    QueueLimit = 2
    MaxBurst = 1
SPECIFICATION ServiceFairSpec
INVARIANTS BoundedOvertaking ReturnsAlone
PROPERTIES EveryWaiterGetsTurn ShutdownCompletes
CHECK_DEADLOCK FALSE
