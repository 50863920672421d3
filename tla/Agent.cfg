SPECIFICATION AgentFairSpec
CONSTANTS
    s1 = s1
    s2 = s2
    s3 = s3
    repl = repl
    web = web
    Session = {s1, s2, s3}
    Socket = {web}
    Repl = repl
    MaxRounds = 2
    MaxContinuations = 1
    QueueLimit = 2
    Scenario <- Scenarios
INVARIANTS RequestIsValid TranscriptTellsHistory PromptsInOrder
PROPERTIES PromptsDrain
CHECK_DEADLOCK FALSE
