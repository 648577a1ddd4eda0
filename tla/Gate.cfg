SPECIFICATION GateFairSpec
CONSTANTS
    sampling_period = 3
    throttle_wait = 2
    sample_size = 2
    deny_request_at = 5000
    MaxInFlight = 2
    MaxResponses = 4
    send_rate = 5
    Fraction = 2
    Second = 2
    MaxWaiting = 2
INVARIANTS
    GateTypeOK
    DenialIsBounded
    RateIsRespected
    OneLateRequest
PROPERTIES
    DenialLifts
    LimitReturns
    MessagesLeave
