\* What the comment at nxt_port_socket.c:1443 says of a socket that lives: violated.
SPECIFICATION Spec
CONSTANTS
  own = own
  oth = oth
  Threads = {own, oth}
  Owner = own
  Scripts <- Mixed
  SockCap = 1
  MaxFdMsgs = 1
  MaxFaults = 2
INVARIANT Armed
CHECK_DEADLOCK FALSE
