SPECIFICATION FairSpec
CONSTANTS
    Process = {p1, p2}
    Nobody = Nobody
    TTL = 3
    Every = 1
    Lag = 0
INVARIANTS AtMostOneConsumer ConsumerOwnsLease
PROPERTIES LeaseNeverStolen SCSpec Takeover
CHECK_DEADLOCK FALSE
