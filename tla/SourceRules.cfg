SPECIFICATION Spec
CONSTANTS
    MaxUrls = 3
    None = none
    Failed = failed
INVARIANTS TypeOK PageIsNeverPlayed VodIsPlayedFromCache FilesEnd BestAddressIsChosen
CHECK_DEADLOCK FALSE
