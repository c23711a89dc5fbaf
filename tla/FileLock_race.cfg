\* Two threads find the same stale lock.
CONSTANTS
    Thread = {1, 2}
    MaxCrashes = 1
SPECIFICATION Spec
INVARIANTS MutualExclusion
