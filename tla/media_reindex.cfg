\* Three indexed files of a library that was moved, one of which is moved once more.
CONSTANTS
    m1 = m1
    m2 = m2
    m3 = m3
    s1 = s1
    Media = {m1, m2, m3}
    Indexed = {m1, m2, m3}
    Sweeps = {s1}
    EditionOf <- ThreeEditions
    FilmOf <- ThreeFilms
    Folders = {"A", "B"}
    Starts <- ThreeStarts
    None = None
    Gone = Gone
    TimeoutLimit = 1
    MaxEvents = 1
SPECIFICATION FairSpec
PROPERTY MatchesAreUpdated
CHECK_DEADLOCK FALSE
