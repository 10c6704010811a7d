SPECIFICATION PlatformSpec
CONSTANTS
  cli = cli  fre = fre  op = op  usdc = usdc
  MinDisputeDelay = 1  MaxExtraDisputeDelay = 0
  EscrowIds = {e1}
  Accounts = {cli, fre, op}
  Admins = {op}
  Operator = op
  Tokens = {usdc}
  Contract = contract  NoAccount = noAccount  NoEscrow = noEscrow
  Offers <- SaleOffers
  Deal <- LastingDeal
  FeeRates = {100}
  InitialBalance = 200
  OpeningBalance = 202
  MaxI128 = 100000
  Workers = {w1}
  Attempts = 2  MaxStalls = 1
  MaxRequests = 1  MaxFaults = 0  MaxCrashes = 0  MaxClaims = 0
  MaxLedger = 1
INVARIANTS HeldFundsStayReserved
CHECK_DEADLOCK FALSE
