\* Two requests and two connections, one key of their own, one order with two captured events.
SPECIFICATION FairSpec
CONSTANTS
  NoClient = NoClient
  NoKey = NoKey
  NoCall = NoCall
  Clients = {c1, c2}
  AppKeys = {k1}
  Orders = {o1}
  Captures = {p1, p2}
  Amounts = {1}
  MaxConnections = 2
  MaxEntries = 2
INVARIANTS LedgerMatchesBalance NeverOverdrawn EventCreditedOnce
PROPERTIES EveryRequestAnswered IsAccountLedger
CHECK_DEADLOCK FALSE
