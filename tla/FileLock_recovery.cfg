\* Three threads and two crashes: stale and half-written locks among competitors.
CONSTANTS
    Thread = {1, 2, 3}
    MaxCrashes = 2
SPECIFICATION Spec
PROPERTIES LoneRecoveryIsSafe MalformedKept ImplementsLock
