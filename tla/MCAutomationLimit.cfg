SPECIFICATION Spec
CONSTANT
    MaxRuns = 1
INVARIANT
    TimeLimitIsAnError
