SPECIFICATION TtlSpec
CONSTANTS
  cli = cli  fre = fre  adm = adm  usdc = usdc
  MinDisputeDelay = 1  MaxExtraDisputeDelay = 1
  EscrowIds = {e1}
  Accounts = {cli, fre, adm}
  Admins = {adm}
  Tokens = {usdc}
  Contract = contract  NoAccount = noAccount  NoEscrow = noEscrow
  Offers <- ExpiringOffers
  FeeRates = {100}
  InitialBalance = 20
  MaxI128 = 100000
  MaxLedger = 5
  Threshold = 1  Target = 3  MinTtl = 2
INVARIANTS TtlTypeOK LeaseHolds ClaimServedUnrestored
