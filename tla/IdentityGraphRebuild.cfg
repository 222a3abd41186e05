\* A build repeated over the same snapshots after a provisional key was renamed.
CONSTANTS
    Norad = {1}
    Key = {"S1", "A1"}
    Number <- Numbers
    Piece = {"P", "Q"}
    NoPiece = "-"
    SatcatFeeds <- FreshSatcat
    GcatFeeds <- FreshGcat
    MaxPublish = 3
    MaxSat = 4
SPECIFICATION Spec
PROPERTIES
    RebuildCreatesNothing
\* MaxSat may stop a build that would create one more satellite.
CHECK_DEADLOCK FALSE
