SPECIFICATION FairDeliverySpec
CONSTANTS
  Endpoints = {p1}
  Deliveries = {d1, d2}
  NoDelivery = noDelivery
  WebhookWorkers = {w1}
  Attempts = 2
  MaxStalls = 1
  MaxRotations = 1  MaxDisputes = 1  MaxCrashes = 1  MaxFaults = 1
INVARIANTS DeliveryTypeOK OutcomeIsTrue LostOnlyByFaults PostsBounded
PROPERTIES OutcomeStands EveryDeliverySettles UselessJobsRunOut
CHECK_DEADLOCK FALSE
