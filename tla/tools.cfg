SPECIFICATION Spec
CONSTANTS
    d1 = d1
    d2 = d2
    d3 = d3
    f1 = f1
    f2 = f2
    f3 = f3
    Root = Root
    Nowhere = Nowhere
    Dirs = {d1, d2, d3}
    Files = {f1, f2, f3}
    Hidden = {d3}
    Locked = {d3}
    HR_IN_SECS = 2
    NUM_HOURS = 2
    Unit = 2
    Start = 17
    Latest = 18
    End = 20
    Processors = 2
    Seconds = {0, 1}
    Tools = {"mytimeout", "mytree", "mymtimes", "nix", "nothing"}
    Layouts <- MCLayouts
    Stamps <- MCStamps
    MaxChanges = 2
INVARIANTS
    TypeOK
    OnlyTheCommandIsKilled
    OutlivesOnlyIfMissed
    CountsAreRight
    ListingIsTheTree
    TimesAreOfTheRun
PROPERTIES
    ToolEnds
