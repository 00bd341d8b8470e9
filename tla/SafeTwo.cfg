CONSTANTS
  safe1 = safe1
  safe2 = safe2
  bob = bob
  NoSafe = NoSafe
  Process = {p1, p2}
  Address = {safe1, safe2}
  Payee = {shop}
  MaxWallet = 2
  Cosigner = {bob}
  User = User
  Setups <- MCSetups
  Chain0 <- MCChain0
  Lies = {"fields", "confirmations"}
  MaxNonce = 1
  MaxCommand = 2
  MaxChange = 1
SPECIFICATION Spec
INVARIANTS
  ExecutionAgreed
  NothingSentInVain
  LinkedIsDeployed
PROPERTIES
  IsMultisig
CHECK_DEADLOCK FALSE
