SPECIFICATION FairSpec
CONSTANTS
    i1 = i1
    i2 = i2
    i3 = i3
    i4 = i4
    i5 = i5
    Items <- FiveItems
    InitialLists <- StartLists
    PageSize = 2
    MaxChanges = 2
    MaxCalls = 2
INVARIANTS
    QuietListingIsExact
    AdditionsHideNothing
    RemovalsRepeatNothing
PROPERTY
    ListingEnds
CHECK_DEADLOCK FALSE
