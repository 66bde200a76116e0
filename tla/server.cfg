SPECIFICATION Spec
CONSTANTS
  r1 = r1
  r2 = r2
  NoReport = NoReport
  Stray = Stray
  listener = listener
  NoConn = 0
  Reports <- MCReports
  Todo <- MCTodo
  Strays <- MCStrays
  MaxConns = 3
  MaxStrays = 1
  MaxFd = 2
  MaxUnwatched = 1
  BACKLOG = 2
INVARIANTS TypeOK BuffersApart NothingUnseen NobodyStranded ForwardedThenAnswered
PROPERTIES ServesReports DeviceIsAnswered
CHECK_DEADLOCK FALSE
