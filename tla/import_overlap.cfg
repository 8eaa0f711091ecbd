\* Two runs that may overlap, two files.
CONSTANTS
    f1 = f1
    f2 = f2
    r1 = r1
    r2 = r2
    Files = {f1, f2}
    Runs = {r1, r2}
    None = None
    NoShow = NoShow
    ShowOf <- TheShow
    EpisodeOf <- TheEpisode
    TitleOf <- TheTitle
    VersionOf <- TheVersion
    ContentOf <- TheContent
    MaxFaults = 0
SPECIFICATION Spec
INVARIANT NoDuplicates
CHECK_DEADLOCK FALSE
