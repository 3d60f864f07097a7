CONSTANTS
    Threads = {t1, t2}
    Contexts = {c1, c2}
    Handles = {q1, q2, q3}
    NoContext = NoContext
    NoEntry = NoEntry
    NullQueue = NullQueue
    App = App
    Rough = {c2}
    MaxRefs = 2
SPECIFICATION Spec
SYMMETRY Symmetry
CHECK_DEADLOCK FALSE
INVARIANTS QueueTypeOK OneOwnQueuePerThread LegalQueue
PROPERTIES EntryStable
