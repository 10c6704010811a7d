SPECIFICATION FairSpec
CONSTANTS
  cli = cli  fre = fre  adm = adm  heir = heir  usdc = usdc  other = other
  MinDisputeDelay = 1  MaxExtraDisputeDelay = 1
  EscrowIds = {e1, e2}
  Accounts = {cli, fre, adm, heir}
  Admins = {adm}
  Tokens = {usdc, other}
  Contract = contract  NoAccount = noAccount  NoEscrow = noEscrow
  Offers <- PoolOffers
  FeeRates = {1000}
  InitialBalance = 40
  MaxI128 = 100000
  MaxLedger = 2
INVARIANTS Solvent
PROPERTIES ImplementsPromise ExpiryUnblocks
