SPECIFICATION FairLockSpec
CONSTANTS
  r1 = r1  r2 = r2  r3 = r3
  Requests = {r1, r2, r3}
  IdempotencyKey <- Headers
  Amount <- Amounts
  TopUp = 250
  NoRequest = noRequest
  MaxAttempts = 2
  MaxCredits = 2
INVARIANTS LockInv NoCreditLost
PROPERTIES ImplementsWallet EveryRequestAnswered
CHECK_DEADLOCK FALSE
