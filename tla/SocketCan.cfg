CONSTANTS
  Ports <- TwoPorts
  Handles = {h1, h2, h3}
  Daemons = {d1, d2}
  NULL = NULL
SPECIFICATION HistorySpec
CHECK_DEADLOCK FALSE
INVARIANTS ListSound AtMostOneDaemon DaemonServes
