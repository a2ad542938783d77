CONSTANTS
    a1 = a1
    a2 = a2
    h1 = h1
    h2 = h2
    Agents = {a1, a2}
    Approvers = {h1, h2}
    contract_approvers <- MCApprovers
    Threads = {t1, t2}
    None = None
    Raised = Raised
    MaxProposals = 2
    MaxDecisions = 5
    MaxFaults = 1
SPECIFICATION Spec
CHECK_DEADLOCK FALSE
INVARIANTS
    RepliesTellWhatRan
    StatusTellsWhatRan
PROPERTIES
    HeardStaysTrue
    VerdictIsReported
