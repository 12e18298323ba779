SPECIFICATION ListenerFairSpec
CONSTANTS
  Sessions = {s1, s2, s3}
  Peers = {p1}
  Fds = {f1, f2, f3}
  None = None
  Listener = Listener
  LISTEN_SOCKET_SIZE = 2
  CONNECT_TIME_OUT_SIZE = 0
INVARIANTS
  AnswersItsOwn
PROPERTIES
  EveryConnectAnswered
CHECK_DEADLOCK FALSE
