\* Two siblings whose keys and pieces move between them.
CONSTANTS
    Norad = {1, 2}
    Key = {"S1", "S2"}
    Number <- Numbers
    Piece = {"P", "Q"}
    NoPiece = "-"
    SatcatFeeds <- SiblingSatcat
    GcatFeeds <- SiblingGcat
    MaxPublish = 3
    MaxSat = 4
SPECIFICATION Spec
INVARIANTS
    AnchoredKeyHasOneHome
PROPERTIES
    MovedKeyIsNeverOrphaned
\* MaxSat may stop a build that would create one more satellite.
CHECK_DEADLOCK FALSE
