SPECIFICATION Spec
CONSTANTS
  m1 = m1
  m2 = m2
  a = a
  b = b
  s = s
  Mac = {m1, m2}
  BadMac = BadMac
  NoMac = NoMac
  NoIp = NoIp
  NoEntry = NoEntry
  IntMax = 100
  Ip = {a, s}
  StaticEntries <- StaticS
  Editable = {}
  Excludable = {a}
  LeaseTime = 1
  Horizon = 3
  PfEnabled = FALSE
  RadEnabled = FALSE
  SelectMayFail = FALSE
  MidOpCrash = FALSE
  Xid = {0, 1}
  NoReply = NoReply
  Fatal = Fatal
  MaxXid <- OneEach
  Configs <- Example
INVARIANT LeaseExclusive
