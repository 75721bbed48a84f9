SPECIFICATION ServicesSpec
CONSTANTS
  Backends = {"mock", "ultrahonk"}
  Versions = {"v1", "v2"}
  Keys = {k1, k2}
  Supported <- Matrix
  Failing = {"ultrahonk"}
  None = None
  MaxRegistrations = 3
INVARIANTS TypeOK LatestProviderServes VerificationTypeOK
PROPERTIES VerifiedBeforeReturned UnanimousOrNot ReportedDisagreementIsReal
