\* Two merchants share the poller; one slot for two transactions, so that one
\* waits for it across a pause or a stop; one poll fails.
CONSTANTS
    Pollers = {m1, m2}
    Cache = 2
    PollTime = 1
    MaxMisses = 1
    Sends = {s1, s2}
    MaxOutstanding = 1
SPECIFICATION FairSpec
INVARIANTS TypeOK NothingIsCutOff
PROPERTIES PauseIsPrompt ResumeIsSeen StopEnds
