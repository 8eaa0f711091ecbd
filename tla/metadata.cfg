\* A film of two editions and a file's alias; two writers, at the same time or not.
CONSTANTS
    hd = hd
    uhd = uhd
    writer1 = writer1
    writer2 = writer2
    None = None
    Gone = Gone
    Films = {film}
    Media = {medium}
    Editions = {hd, uhd}
    Writers = {writer1, writer2}
    Posters = {poster1}
    MaxWork = 2
    MaxFiles = 2

SYMMETRY MCSymmetry
SPECIFICATION Spec
INVARIANT TypeOK
INVARIANT CoherentUnlessMixed
PROPERTY ManualPosterKept
PROPERTY FlagRaisedMeanwhileSurvives
PROPERTY NewConflictIsFlagged
CHECK_DEADLOCK FALSE
