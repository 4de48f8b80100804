SPECIFICATION FairSpec
CONSTANTS
  channel = channel
  mailbox = mailbox
  page = page
  c1 = c1
  c2 = c2
  k1 = k1
  service = service
  command = command
  NumAccounts = 1
  Codes = {c1, c2}
  Creds = {k1}
  NoCreds = NoCreds
  Absent = Absent
  Public = Public
  MaxAttempts = 1
  Channels = {channel}
  Mailboxes = {mailbox}
  Pages = {page}
  Owner <- MCOwner
  Registry <- MCRegistry
  Content <- MCContent
  Limit = 1
  Unreliable = {channel, mailbox}
  Service = service
  Pollers = {service, command}
  MaxUpsets = 1
INVARIANT TypeOK
INVARIANT NothingSkipped
PROPERTY NeverNarrowed
PROPERTY Collected
PROPERTY PollAdvances
