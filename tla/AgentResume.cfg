SPECIFICATION AgentSpec
CONSTANTS
    s1 = s1
    s2 = s2
    s3 = s3
    repl = repl
    web = web
    Session = {s1, s2, s3}
    Socket = {web}
    Repl = repl
    MaxRounds = 2
    MaxContinuations = 1
    QueueLimit = 2
    Scenario <- Interrupted
INVARIANTS ResumeBringsAllBack
CHECK_DEADLOCK FALSE
