SPECIFICATION FairSpec
CONSTANTS
    Kinds = {"direct_live", "direct_file", "provider_live", "provider_vod"}
    MaxRestarts = 2
PROPERTY GivenUpShowsError
CHECK_DEADLOCK FALSE
