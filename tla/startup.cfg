SPECIFICATION StartupSpec
CONSTANTS
  p1 = p1
  p2 = p2
  e0 = e0
  m1 = m1
  m2 = m2
  a = a
  Proc = {p1, p2}
  Iface = {e0}
  Pid = {1, 2, 3}
  LaunchMax = 3
  ForeignMax = 1
  Client = {m1, m2}
  NoClient = NoClient
  Address = {a}
INVARIANT OneDaemon
INVARIANT OneRecordPerIp
PROPERTY LeaseKept
PROPERTY StartEnds
