SPECIFICATION FairSpec
CONSTANTS
  service = service
  a1 = a1
  s1 = s1
  s2 = s2
  Clients = {service}
  Accounts = {a1}
  Servers = {s1, s2}
  NoServer = NoServer
  MaxRecoveries = 3
  Cap = 2
  MaxCount = 3
  MaxRenewals = 2
INVARIANT TypeOK
INVARIANT SpentAsAsked
INVARIANT GivesUpForGoodReason
PROPERTY JobsEnd
PROPERTY ImplementsErrand
PROPERTY JobAdvances
