CONSTANTS
  shop = shop
  Process = {p1, p2}
  MaxWallet = 5
  Payee = {shop}
  Vaults0 <- MCVaults0
  Amount = {1}
  MIN_SOURCE_GAS = 1
  TopUp = 1
  GAS_RESERVE = 1
  MaxCommand = 3
SPECIFICATION Spec
INVARIANTS
  PaidAsApproved
  SentToKept
  AddressesOwned
PROPERTIES
  WalletKeysKept
CHECK_DEADLOCK FALSE
