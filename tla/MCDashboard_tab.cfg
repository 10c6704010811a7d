SPECIFICATION FairDashSpec
CONSTANTS
  Nobody = Nobody
  Users = {u1, u2}
  Tracked <- BalanceOnly
  Visited = {"wallet", "webhooks"}
  Kinds = {"withdraw", "rotate"}
  Endpoints = {e}
  MaxWrites = 2  MaxFaults = 1
INVARIANTS DashTypeOK InvalidationHonoured FormSentOnce SecretShownIsLast
PROPERTIES BalanceCatchesUp
