\* Two files in two layouts, one reindex, reconcile or stream at a time.
CONSTANTS
    m1 = m1
    m2 = m2
    m3 = m3
    s1 = s1
    Media = {m1, m2}
    Indexed = {m1}
    Sweeps = {s1}
    EditionOf <- TheEdition
    FilmOf <- TheFilm
    Folders = {"A", "B"}
    Starts <- TheStarts
    None = None
    Gone = Gone
    TimeoutLimit = 2
    MaxEvents = 1
SPECIFICATION FairSpec
INVARIANT TypeOK
INVARIANT RowsNameWholeFiles
PROPERTY PlayableStaysPlayable
PROPERTY OriginalsStay
 
CHECK_DEADLOCK FALSE
