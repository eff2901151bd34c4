CONSTANTS
    Calls <- MCCalls
SPECIFICATION Spec
INVARIANT LoadingWhilePending
