\* One event with three subscriptions, one of them with a secret that does not
\* decrypt; batches of two, two workers, two tries, two mishaps.
SPECIFICATION FairDeliverySpec
CONSTANTS
  e1 = e1
  s3 = s3
  Events = {e1}
  Subs = {s1, s2, s3}
  Senders = {w1, w2}
  NoDelivery = NoDelivery
  Unreadable <- BadSecret
  BatchLimit = 2
  MaxTries = 2
  SendFaults = 2
INVARIANTS ExclusiveSend AcceptedOnceButForMishaps
PROPERTIES EveryDeliverySettles KeepsDeliveryContract
CHECK_DEADLOCK FALSE
