\* Two filings, one behind the other, followed through failures, a refused value, a reissue and a
\* run by hand.
CONSTANTS
    Doc <- MCTwoFilings
    SchedNamed <- MCTwoFilings
    Linked = {1, 2}
    Issues <- MCIssues
    FirstServed <- MCTwoServed
    Later = {"truncated", "one"}
    Runs = {"nightly", "byhand"}
    MaxReissues = 1
    MaxByHand = 1
SPECIFICATION FilingSpec
PROPERTIES EventuallyExtracted
\* The bounds stop the runs.
CHECK_DEADLOCK FALSE
