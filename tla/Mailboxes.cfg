SPECIFICATION FairSpec
CONSTANTS
  outlook = outlook
  imap = imap
  service = service
  command = command
  Names = {outlook, imap}
  Microsoft = {outlook}
  MaxId = 2
  Service = service
  Clients = {service, command}
  Password = Password
  None = None
  MaxToken = 4
  Deadline = 10
  Interval = 5
  SlowDown = 5
  MaxDemands = 2
  MaxMishaps = 1
INVARIANT TypeOK
INVARIANT TokenSurvives
INVARIANT OwnState
INVARIANT WaitBounded
PROPERTY AuthorizeEnds
PROPERTY AllTried
