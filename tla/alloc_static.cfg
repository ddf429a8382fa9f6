SPECIFICATION AllocSpec
CONSTANTS
  m1 = m1
  m2 = m2
  a = a
  b = b
  s = s
  Mac = {m1, m2}
  BadMac = m2
  NoMac = NoMac
  NoIp = NoIp
  NoEntry = NoEntry
  IntMax = 3
  Ip = {a, s}
  StaticEntries <- TwoEntries
  Editable = {m1, m2}
  Excludable = {a}
  LeaseTime = 1
  Horizon = 3
  PfEnabled = FALSE
  RadEnabled = FALSE
  SelectMayFail = TRUE
  MidOpCrash = TRUE
  Configs <- WithHosts
INVARIANT TypeOK
PROPERTY LeaseNotStolen
PROPERTY LeasesSurviveRestart
