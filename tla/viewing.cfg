\* An administrator, a child and a newcomer; two requests at a time.
CONSTANTS
    t1 = t1
    t2 = t2
    f1 = f1
    f2 = f2
    m1 = m1
    m2 = m2
    None = None
    Threads = {t1, t2}
    Names = {"root", "kid", "new"}
    AllFilms = {f1, f2}
    FilmRow <- TheFilms
    MediaRow <- TheMedia
    First <- TheAccounts
    MaxUsers = 4
    MaxRequests = 4
    Switches = {"incognito", "excludeWatched"}
    Ages = {"0_6"}
    MaxPosition = 1
SYMMETRY ThreadSymmetry
SPECIFICATION Spec
INVARIANT TypeOK
INVARIANT OneAccountPerName
INVARIANT SecondEventOnlyByRace
INVARIANT OffersAreResumed
PROPERTY ClearedStaysCleared
PROPERTY IncognitoEventsAreUnseen
PROPERTY OthersAreUndisturbed
CHECK_DEADLOCK FALSE
