CONSTANTS
    ROB_SIZE = 2
    RS_SIZE = 3
    IssueOps <- MCIssueOps
    Values = {v0}
    v0 = v0
    Issues <- MCIssues
    NoInput = NoInput
    Free = Free
    MAX_AGE = 5
SPECIFICATION Spec
INVARIANT TypeOK
PROPERTY ImplementsIssueQueue
