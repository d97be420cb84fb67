SPECIFICATION Spec
CONSTANTS
  c1 = c1
  c2 = c2
  NoClient = NoClient
  Clients = {c1, c2}
  redsocks_conn_max = 2
  Talkers = {c1}
  do_password = TRUE
  PipeSize = 1
  MaxSent = 2
  MaxReplied = 1
CHECK_DEADLOCK FALSE
INVARIANT
  BackoffRearmed
