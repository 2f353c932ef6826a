\* Hears: a chunk of the handshake may end inside a record
INIT Init
NEXT Next
CONSTANTS
  Senders = {s1, s2}
  Records = 3
  MaxSend = 3
  Ahead = 6
  Queries = 2
  Free = Free
INVARIANT Hears
CHECK_DEADLOCK FALSE
