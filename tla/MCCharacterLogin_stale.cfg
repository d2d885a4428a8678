SPECIFICATION Spec
CONSTANTS
    Chars = {c1}
    Delay = 2
    MaxSessions = 2
    MaxRequests = 2
    MaxVersion = 1
INVARIANT LoadsLastSave
CHECK_DEADLOCK FALSE
