SPECIFICATION AllocSpec
CONSTANTS
  m1 = m1
  m2 = m2
  a = a
  b = b
  s = s
  Mac = {m1, m2}
  BadMac = BadMac
  NoMac = NoMac
  NoIp = NoIp
  NoEntry = NoEntry
  IntMax = 100
  Ip = {a, s}
  StaticEntries <- Printer
  Editable = {m1, m2}
  Excludable = {}
  LeaseTime = 1
  Horizon = 3
  PfEnabled = TRUE
  RadEnabled = FALSE
  SelectMayFail = FALSE
  MidOpCrash = FALSE
  Configs <- Range1AndStatic
INVARIANT InternalNotAdmitted
