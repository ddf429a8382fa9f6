SPECIFICATION AllocSpec
CONSTANTS
  m1 = m1
  m2 = m2
  a = a
  b = b
  s = s
  Mac = {m1, m2}
  BadMac = BadMac
  NoMac = NoMac
  NoIp = NoIp
  NoEntry = NoEntry
  IntMax = 100
  Ip = {a, s}
  StaticEntries <- TwoEntries
  Editable = {m1, m2}
  Excludable = {a}
  LeaseTime = 1
  Horizon = 3
  PfEnabled = TRUE
  RadEnabled = FALSE
  SelectMayFail = TRUE
  MidOpCrash = FALSE
  Configs <- WithHosts
INVARIANT NewNotAdmitted
