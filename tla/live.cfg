SPECIFICATION LiveSpec
CONSTANTS
  m1 = m1
  m2 = m2
  a = a
  b = b
  Mac = {m1, m2}
  BadMac = BadMac
  NoMac = NoMac
  Ip = {a, b}
  NoIp = NoIp
  StaticEntries = {}
  NoEntry = NoEntry
  Editable = {}
  Excludable = {}
  Configs <- Range2
  LeaseTime = 1
  IntMax = 100
  Horizon = 3
  PfEnabled = FALSE
  RadEnabled = TRUE
  SelectMayFail = FALSE
  MidOpCrash = FALSE
  Xid = {0}
  NoReply = NoReply
  Fatal = Fatal
INVARIANT OneLeasePerMac
INVARIANT HolderAnnounced
PROPERTY OfferHonoured
PROPERTY AskingEndsBound
