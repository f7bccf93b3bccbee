CONSTANTS
    Worker = {w1}
    Poller = poller
    Event = {e1, e2}
    NoEvent = noevent
    Notifiable = {e1, e2}
    Waitable = {e1, e2}
    Fd = {3, 4}
    NoFd = nofd
    MaxCount = 2
    Timeout = {1, 2}
    NoTimeout = none
    IntLimit = 2
    MaxAttached = 2
SPECIFICATION Spec
INVARIANTS FlagRestored TryWaitAlone ReadyIsWaitable
PROPERTIES SourcesServed TimedWaitEnds
CHECK_DEADLOCK FALSE
