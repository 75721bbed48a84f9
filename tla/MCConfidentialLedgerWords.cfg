SPECIFICATION Spec
CONSTANTS
  Accounts = {alice, bob}
  Tokens = {usdc}
  AmountBits = 1
  WordBits = 2
  Modulus = 6
  Inputs = {0, 1, 5}
  NoRoot = NoRoot
  DropsSpent = TRUE
  MaxProofs = 3
  MaxRoot = 1
SYMMETRY Symmetry
CHECK_DEADLOCK FALSE
INVARIANTS CommittedConserved
