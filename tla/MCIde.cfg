CONSTANTS
    Attached = {0}
    Floating = {1}
    LbaSpace = 4
    CountSpace = 2
    Timeout = 2
    Lbas <- MCLbas
    Counts <- MCCounts
    Payloads = {"a"}
SPECIFICATION FairIdeSpec
INVARIANTS ReadExact WriteAllButLast CleanUnlessGaveUp
PROPERTIES CallsReturn
