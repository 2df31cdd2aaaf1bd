CONSTANTS
  Session = {x1, x2}
  Ip = {a1}
  BadIp = BadIp
  Boot = Boot
  None = None
  QueueMax = 1
  MaxOffers = 2
  MaxEpoch = 2
  MaxFaults = 1
  MaxReboots = 1
SPECIFICATION FairSpec
INVARIANTS
  TypeOK
  AddressKnown
  AppliedOnce
  AckIsTrue
  MailboxHonest
PROPERTY MailboxServed
