\* Two planner threads and the API compete for two workflows and one campaign an hour; two media and three
\* channels; three versions of rules; two handlers and two workflows of a store; two
\* pictures of two tries each; two questions about two products.  One fault in every behaviour.
CONSTANTS
    Planners = {p1, p2}
    Api = api
    Keys = {post, report}
    Campaigns = {post}
    HourlyLimit = 2
    CampaignLimit = 1
    MaxPlans = 2
    MaxAsked = 2
    MaxHours = 1
    MaxMedia = 2
    Threads = {t1}
    MaxRules = 3
    MaxRequests = 3
    MaxStarts = 2
    Handlers = {h1, h2}
    MaxWorkflows = 2
    MaxCount = 2
    ImageTries = 2
    Callers = {c1, c2}
    Workers = 1
    MaxRetries = 1
    Threshold = 2
    MaxCalls = 3
    Products = {r1, r2}
    Limit = 2
    MaxSessions = 2
    MaxQuestions = 2
    MaxIncidents = 1
    MaxMessages = 4
    MaxFaults = 1
SYMMETRY Permutable
VIEW View
SPECIFICATION Spec
INVARIANTS
    LimitsHold
    ProposalsSettleOnce
    NothingTwice
    AnswersHold
    OneVersionServes
    OutcomesCounted
    WorkflowAndPostAgree
    WorkIsBounded
    PaidIsDelivered
    AnswersTellOfRuns
    CampaignSettles
    TopicKept
    AnswersRest
    StatusFollowsLog
CHECK_DEADLOCK FALSE
