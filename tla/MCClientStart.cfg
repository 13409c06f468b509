SPECIFICATION Spec
CONSTANTS
    Jobs <- StartJobs
    Number <- Numbers
    BadPubTopics <- NotToPublish
    BadSubTopics <- Malformed
    Block = 2
    MaxLength = 3
    MaxFile = 4
    MaxChanges = 2
INVARIANTS TypeOK AcceptedAsDeclared ProxyAsWritten SettingsReachLibrary LoadedWhole
PROPERTIES UsesLibrary StartEnds
CHECK_DEADLOCK FALSE
