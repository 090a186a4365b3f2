CONSTANTS
    Thread = {t1, t2}
    Path = {p1}
    Document <- MCDocument
    Entries <- MCEntries
    Unparsable <- MCUnparsable
    NoConfig = NoConfig
    MaxStamp = 3
    MaxEdits = 2
    MaxAge = 1
SPECIFICATION FairSpec
INVARIANTS
    TypeOK
    ConfigFollowsFile
PROPERTIES
    EditsTakeEffect
