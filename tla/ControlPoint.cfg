\* A search, a subscription and its first event, and the end of the library.
SPECIFICATION FairSpec
CONSTANTS
  Main = Main  Searcher = Searcher  NoSid = NoSid  Search = Search
  r1 = r1  e1 = e1  s1 = s1
  Receiver = {r1}
  Notified = {e1}
  Sid = {s1}
  Horizon = 1
  MaxId = 2
  MaxWait = 1
  MaxResults = 1
INVARIANTS NextIsAwaited OneTimeoutEach EndIsQuiet
CHECK_DEADLOCK FALSE
PROPERTIES TimerAlive FirstEventKept SearchEnds StopReturns
