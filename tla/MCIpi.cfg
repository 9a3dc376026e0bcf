CONSTANTS
  c1 = c1
  c2 = c2
  c3 = c3
  Cpus = {c1, c2, c3}
  Senders = {c1, c2}
  Receivers = {c1, c2, c3}
  Kinds = {"reschedule", "call", "stop"}
SPECIFICATION MCSpec
INVARIANTS
  TypeOK
  NoLostIpi
  NoSpuriousIpi
PROPERTIES
  RequestsServed
  CallersReturn
CHECK_DEADLOCK FALSE
