SPECIFICATION FairSpec
CONSTANTS
  inbox = inbox
  promotions = promotions
  m1 = m1
  m2 = m2
  m3 = m3
  m4 = m4
  service = service
  Folders = {inbox}
  Messages = {m1, m2, m3}
  Home <- MCHome
  Matching = {m1, m2}
  Old = {m1}
  Limit = 1
  Readers = {service}
  MaxFaults = 1
  MaxRenumberings = 1
INVARIANT TypeOK
INVARIANT NothingStranded
INVARIANT FetchedOnce
PROPERTY EventuallyDelivered
