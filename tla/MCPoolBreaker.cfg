CONSTANTS
    maxHost = 6
    Threshold = 5
    MaxInFlight = 6
SPECIFICATION PoolBreakerSpec
INVARIANTS ScanHasTarget BreakerConsistent
PROPERTIES AllocateReturns ImplementsAddressPool TrialFailureReopens BreakerRecovers
