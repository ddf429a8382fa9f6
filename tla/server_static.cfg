SPECIFICATION ServerSpec
CONSTANTS
  m1 = m1
  m2 = m2
  a = a
  b = b
  s = s
  Mac = {m1, m2}
  BadMac = BadMac
  NoMac = NoMac
  NoIp = NoIp
  NoEntry = NoEntry
  IntMax = 100
  Ip = {a, s}
  StaticEntries <- Printer
  Editable = {m1, m2}
  Excludable = {}
  LeaseTime = 1
  Horizon = 3
  PfEnabled = FALSE
  RadEnabled = FALSE
  SelectMayFail = TRUE
  MidOpCrash = TRUE
  Xid = {0}
  NoReply = NoReply
  Fatal = Fatal
  Configs <- Range1AndStatic
INVARIANT ReplyBacked
