SPECIFICATION FairSpec
CONSTANTS
  service = service
  command = command
  old = old
  Processes = {service, command, old}
  Service = service
  Last = 2
  Size <- MCSize
  Release <- MCRelease
  None = None
  MaxFaults = 2
INVARIANT TypeOK
INVARIANT AtOneLevel
INVARIANT Served
PROPERTY BackAtWork
PROPERTY ImplementsUpgrade
