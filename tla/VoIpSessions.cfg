SPECIFICATION Spec
CONSTANTS
  phone = phone
  gate = gate
  u1 = u1
  u2 = u2
  u3 = u3
  c1 = c1
  c2 = c2
  k1 = k1
  k2 = k2
  far = far
  None = None
  Address = {phone, gate, far}
  SipCall = {c1, c2}
  SkinnyCall = {k1, k2}
  Session = {u1, u2, u3}
  Configs <- MCConfigs
  MinPackets = 3
  FewPackets = 2
  MaxCount = 4
  RawTimeout = 0
  TalkTimeout = 0
  RingTimeout = 1
  HoldTimeout = 1
  MaxAge = 2
SYMMETRY Sym
INVARIANTS
  TypeOK
  MapsAgree
  Attended
  HeardInTurn
  RecordsWhatTalks
  StopAllStops
CHECK_DEADLOCK FALSE
