\* A provisional key renamed, anchored, folded into its twin.
CONSTANTS
    Norad = {1}
    Key = {"S1", "A1"}
    Number <- Numbers
    Piece = {"P", "Q"}
    NoPiece = "-"
    SatcatFeeds <- FreshSatcat
    GcatFeeds <- FreshGcat
    MaxPublish = 3
    MaxSat = 4
SPECIFICATION Spec
PROPERTIES
    AnchoredLosesOnlyToAnchor
\* MaxSat may stop a build that would create one more satellite.
CHECK_DEADLOCK FALSE
