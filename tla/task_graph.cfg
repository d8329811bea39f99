CONSTANTS
    TaskIds <- MCTaskIds
    Addresses <- MCAddresses
    Files <- MCFiles
SPECIFICATION LoaderSpec
INVARIANTS
    VerdictCorrect
    PathIsChain
    LoadedAsWritten
    SpoiledIsRejected
PROPERTY
    SearchEnds
