\* Two events with one delivery each, for the same channel.
CONSTANTS
  d1 = d1
  d2 = d2
  d3 = d3
  e1 = e1
  e2 = e2
  c1 = c1
  c2 = c2
  NoDelivery = NoDelivery
  Deliveries = {d1, d3}
  Events = {e1, e2}
  Channels = {c1}
  EventOf <- MCEventOf
  ChannelOf <- MCChannelOf
  Lease = 1
  Delays = 1
  RetryDelays <- MCRetryDelays
  MaxWait = 2
  MaxAttempts = 3
  Retention = 1
  MaxStale = 1
  MaxLag = 1
  MaxLate = 2
  MaxFaults = 1
  MaxRescues = 1
SPECIFICATION FairSpec
INVARIANTS TypeOK HeldRowIsOurs SentWasAccepted DuplicatesNeedAFault AttemptsBounded
PROPERTIES ImplementsContract RemovedChannelDeadLetters ImplementsFairContract
