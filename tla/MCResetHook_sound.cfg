CONSTANTS
    Calls <- MCCalls
SPECIFICATION Spec
INVARIANT TypeOK LoadingSound
