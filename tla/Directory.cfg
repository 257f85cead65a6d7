CONSTANTS
    Files = 3
    Size <- Sizes
    Batch = 2
    Patterns <- TwoPatterns
    Rooms <- FourRooms
    MaxAsks = 2
    MaxGone = 1
SPECIFICATION FairSpec
INVARIANTS TypeOK ReadAheadInOrder
PROPERTIES ImplementsListing ListingEnds
