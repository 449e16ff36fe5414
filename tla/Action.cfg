CONSTANTS
    Catalog <- MCCatalog
    Histories <- MCHistories
    File <- MCFile
    Content <- MCContent
    Committed <- MCCommitted
    FailAbove = 20
SPECIFICATION FairSpec
INVARIANTS
    QuietPullRequestAddsNoCode
    ConclusionKeepsItsEvidence
PROPERTY
    ReportReachesThePullRequest
CHECK_DEADLOCK FALSE
