\* Two runs that may overlap, an episode and a film of its title.
CONSTANTS
    f1 = f1
    f2 = f2
    r1 = r1
    r2 = r2
    Files = {f1, f2}
    Runs = {r1, r2}
    None = None
    NoShow = NoShow
    ShowOf <- TitleShow
    EpisodeOf <- TitleEpisode
    TitleOf <- TitleTitle
    VersionOf <- TitleVersion
    ContentOf <- TitleContent
    MaxFaults = 1
SPECIFICATION FairSpec
INVARIANT TypeOK
INVARIANT SerialRunsMakeNoDuplicates
INVARIANT ReferencesHold
INVARIANT ImportedIffIndexed
PROPERTY NoSilentLoss
PROPERTY FilesAreTakenUp
PROPERTY ImplementsLibrary
CHECK_DEADLOCK FALSE
