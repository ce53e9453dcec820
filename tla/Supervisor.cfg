SPECIFICATION FairViewSpec
CONSTANTS
    Kinds = {"direct_live", "direct_file", "provider_live", "provider_vod"}
    MaxRestarts = 3
INVARIANTS
    ViewTypeOK
    StatusTellsTruth
    FailuresBounded
    OnlineIsConfirmed
PROPERTIES
    KeepsContract
    HungIsKilled
    FailingIsGivenUp
    OfflineIsNoticed
    OnlineIsNoticed
CHECK_DEADLOCK FALSE
