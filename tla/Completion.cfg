SPECIFICATION FairSpec
CONSTANTS
    a1 = a1
    a2 = a2
    Agents = {a1, a2}
    Results = {"Completed"}
    MaxCalls = 2
INVARIANTS
    TypeOK
    LinkMatchesStatus
    LinkReleased
    NoticeUnlessAcknowledged
    CompletionAccountedFor
    SleepIsWoken
PROPERTIES
    WaitReturns
    NoticeIsTaken
