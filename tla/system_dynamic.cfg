SPECIFICATION Spec
CONSTANTS
  m1 = m1
  m2 = m2
  a = a
  b = b
  s = s
  Mac = {m1, m2}
  BadMac = BadMac
  NoMac = NoMac
  NoIp = NoIp
  NoEntry = NoEntry
  IntMax = 100
  Ip = {a}
  StaticEntries = {}
  Editable = {}
  Excludable = {}
  LeaseTime = 1
  Horizon = 3
  PfEnabled = FALSE
  RadEnabled = FALSE
  SelectMayFail = FALSE
  MidOpCrash = TRUE
  Xid = {0, 1, 2}
  NoReply = NoReply
  Fatal = Fatal
  MaxXid <- TwoAndOne
  Configs <- Range1
INVARIANT LeaseExclusive
INVARIANT TableCoversUse
PROPERTY KeepsPromise
