\* One user and one request at a time, who turns incognito mode on.
CONSTANTS
    t1 = t1
    t2 = t2
    f1 = f1
    f2 = f2
    m1 = m1
    m2 = m2
    None = None
    Threads = {t1}
    Names = {"root", "kid", "new"}
    AllFilms = {f1, f2}
    FilmRow <- TheFilms
    MediaRow <- TheMedia
    First <- TheAccounts
    MaxUsers = 4
    MaxRequests = 4
    Switches = {"incognito"}
    Ages = {"0_6"}
    MaxPosition = 1
SPECIFICATION Spec
PROPERTY IncognitoViewingsAreNotSaved
CHECK_DEADLOCK FALSE
