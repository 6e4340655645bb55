SPECIFICATION GroupSpec
CONSTANTS
    Account = {"lena", "ben"}
    Leader = "lena"
    Active = {"ben"}
    Invite = {"i1"}
    MaxUses <- MCMaxUses
    MaxRestarts = 1
INVARIANT
    GatheringHasRun
CHECK_DEADLOCK FALSE
