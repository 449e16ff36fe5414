CONSTANTS
    Catalog <- MCCatalog
    Histories <- MCMemberHistories
    File <- MCFile
    Content <- MCContent
    Committed <- MCCommitted
    FailAbove = 20
SPECIFICATION Spec
INVARIANTS
    QuietPullRequestAddsNoCode
CHECK_DEADLOCK FALSE
