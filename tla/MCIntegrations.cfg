SPECIFICATION FairSpec
CONSTANTS
    Programs = {p1, p2}
    Stubborn = {p1}
    Namespaces = {"a", "b"}
    MaxApplies = 2
    MaxFailures = 1
    Users = {u1, u2}
    Docs = {d1, d2}
    Parts = 2
    MaxOps = 2
    MaxTrouble = 1
    Counts <- MCCounts
    MaxSends = 2
    Helpers = {h1, h2}
    Size = 2
    MaxUses = 4
    MaxBreaks = 2
    Askers = {k1, k2}
    Patient = {k2}
    MaxRequests = 2
    MaxMishaps = 2
INVARIANTS
    QuietApplyIsExact
    PendingIsAttended
    NilMeansDone
    SendIsAccounted
    ClearIsAskedFor
    HelperKeepsItsWord
    AnswersAreTrue
PROPERTIES
    StubbornSucceeds
    ReLoginHelps
CHECK_DEADLOCK FALSE
