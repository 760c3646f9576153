SPECIFICATION MCSpec
CONSTANTS
  Rooms = {r1}
  Viewers = {v1, v2}
  Senders = {s1, s2}
  Messages = {m1}
  Other = Other
  None = None
  Buffer = 1
INVARIANTS
  TypeOK
  NeverSendsOnClosed
PROPERTIES
  BroadcastsEnd
  LostViewersLeave
  WrittenUnlessSlow
