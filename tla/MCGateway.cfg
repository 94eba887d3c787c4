\* One event for one channel; two requests for it at a time.
CONSTANTS
  d1 = d1
  d2 = d2
  e1 = e1
  c1 = c1
  c2 = c2
  NoDelivery = NoDelivery
  NoEvent = NoEvent
  Handlers = {h1, h2}
  Deliveries = {d1}
  Events = {e1}
  Channels = {c1}
  EventOf <- MCEventOf
  ChannelOf <- MCChannelOf
  Lease = 1
  Delays = 1
  RetryDelays <- MCRetryDelays
  MaxWait = 2
  MaxAttempts = 2
  Retention = 1
  MaxStale = 1
  MaxLag = 1
  MaxLate = 2
  MaxFaults = 2
  MaxRescues = 1
SPECIFICATION FairGatewaySpec
INVARIANTS GatewayTypeOK AcknowledgedIsOwed
PROPERTIES ImplementsQueue PostsAreSettled
