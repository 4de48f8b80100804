SPECIFICATION Spec
CONSTANTS
  cycle = cycle
  web = web
  web2 = web2
  command = command
  c1 = c1
  c2 = c2
  k1 = k1
  k2 = k2
  k3 = k3
  Cycle = cycle
  None = None
  NoCreds = NoCreds
  Absent = Absent
  Public = Public
  NumAccounts = 1
  Codes = {c1}
  Creds = {k1}
  MaxAttempts = 1
  WebHandlers = {}
  Commands = {}
  MaxCrashes = 1
  GoodCreds = {k1}
  MaxAdmin = 0
SYMMETRY Symmetry
PROPERTY NeverSubmittedTwice
