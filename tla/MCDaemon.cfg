CONSTANTS
    c1 = c1
    t1 = t1
    i1 = i1
    e1 = e1
    e2 = e2
    Cron = {t1}
    Intervals = {i1}
    Calendars = {c1}
    Period <- MCPeriod
    Source <- MCSource
    Lead = 6
    Poll = 1
    Events = {e1, e2}
    Start <- MCStart
    BookTimes = {0, 2}
    NumExts = 2
    MaxPoll = 1
    MaxRun = 1
    MaxTime = 8
SPECIFICATION FairSpec
INVARIANTS DaemonTypeOK EventsServed ExtensionsReleased
PROPERTIES DaemonEnds
