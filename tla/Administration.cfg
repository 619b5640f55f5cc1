SPECIFICATION AdministrationSpec
CONSTANTS
  Person = {p1, p2, p3}
  FirstAdmin = p1
  AccRequest = {q1, q2}
  Token = {t1, t2}
  UidMax = 1
  UidRetries = 2
  AccEdits = 3
  Admin = {a1, a2}
  Value = {1, 2}
  Cert = {1, 2}
  MasterKey = {1, 2}
  SetEdits = 3
  SetCrashes = 1
  Plugin = {f1, f2}
  ApiKey = {1, 2}
  KeyRequest = {k1, k2}
  KeyEdits = 2
  KeyLosses = 1
  KeyCrashes = 2
INVARIANTS
  SandboxIsOwn
  RevokedSessionsEnd
  SettingsSurvive
  ProxyHasTheKeys
CHECK_DEADLOCK FALSE
