SPECIFICATION MCSpec
CONSTANTS
  s1 = s1
  s2 = s2
  m1 = m1
  m2 = m2
  Subjects = {"owner"}
  Scopes = {s1, s2}
  Managers = {m1, m2}
  ManagerOf <- MCManagerOf
  Ttl = 6
  RenewInterval = 2
  Deadline = 4
  MaxReplyDelay = 2
  LocalScopes = {1, 2, 3, 4}
  Keys = {"key", "other"}
  KeyOf <- MCKeyOf
PROPERTY CloseReturns
CHECK_DEADLOCK FALSE
