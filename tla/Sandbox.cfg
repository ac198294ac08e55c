SPECIFICATION Spec
CONSTANTS
    Scripts = {s1, s2, s3}
    Workers = 2
    Nobody = Nobody
INVARIANTS TypeOK AloneIsFaithful QueuedIsAwaited HookRestored LostPoolOnlyTimesOut
CHECK_DEADLOCK FALSE
