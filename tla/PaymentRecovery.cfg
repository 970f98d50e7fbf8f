CONSTANTS
    Refs <- MCRefs
    PageSize = 2
    MaxCrashes = 1
SPECIFICATION FairSpec
INVARIANTS
    PassCovers
PROPERTIES
    EveryCandidateVisited
