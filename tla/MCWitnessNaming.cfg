SPECIFICATION VectorSpec
CONSTANTS
  Extras = {"other", "account_sk", "amount", "commitment", "root_hi"}
  Fresh = "other"
  Edits = {"drop", "add", "rename", "reveal", "return", "reorder"}
  MaxExtra = 2
  Illegal = "Not-A-Name"
  MaxSlips = 3
CHECK_DEADLOCK FALSE
INVARIANTS
  TypeOK NamedAsRequested SecretsStayPrivate PreparedSolves
  LoadedVectorsRun GreenVectorsSolve
