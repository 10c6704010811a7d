SPECIFICATION Spec
CONSTANTS
  cli = cli  fre = fre  adm = adm  heir = heir  usdc = usdc  other = other
  MinDisputeDelay = 1  MaxExtraDisputeDelay = 1
  EscrowIds = {e1}
  Accounts = {cli, fre, adm, heir}
  Admins = {adm, heir}
  Tokens = {usdc}
  Contract = contract  NoAccount = noAccount  NoEscrow = noEscrow
  Offers <- VariedOffers
  FeeRates = {0, 1000, 1001}
  InitialBalance = 20
  MaxI128 = 100000
  MaxLedger = 4
INVARIANTS TypeOK SettlesExactly ApprovalsHonoured ProgressConsistent
PROPERTIES FinalIsFinal TermsFixed PaidByConsent ReturnedWithCause
