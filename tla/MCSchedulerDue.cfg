SPECIFICATION Spec
CONSTANTS
    Shot = {1, 2, 3}
    Delays = {1, 2}
    MaxTyped = 2
INVARIANT DueHaveRun
