\* One run at a time and one file.
CONSTANTS
    f1 = f1
    f2 = f2
    r1 = r1
    r2 = r2
    Files = {f1}
    Runs = {r1}
    None = None
    NoShow = NoShow
    ShowOf <- TheShow
    EpisodeOf <- TheEpisode
    TitleOf <- TheTitle
    VersionOf <- TheVersion
    ContentOf <- TheContent
    MaxFaults = 1
SPECIFICATION FairSpec
PROPERTY EveryFileIsIndexed
CHECK_DEADLOCK FALSE
