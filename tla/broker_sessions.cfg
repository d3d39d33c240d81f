SPECIFICATION FairSpec
CONSTANTS
    Books = {k1}
    Callers = {c1}
    Requests = {q1}
    MaxEvents = 3
INVARIANTS TypeOK EndedIsForgotten WaitingHasWaker LossIsPaged
PROPERTIES BooksWake
