SPECIFICATION FairSpec
CONSTANTS
  Sids = {1, 3}
  Kinds = {"get", "post"}
  FileLen = 3
  BodyLen = 1
  Default = 2
  Windows = {0, 3}
  ConnWindow = 1
  HighWater = 1
  OurCredit = 2
  MaxWindow = 15
  Wide = 256
  MaxFlight = 2
  MaxRare = 1
  Split = FALSE
CHECK_DEADLOCK FALSE
INVARIANTS CreditIsSound NobodySleeps
PROPERTY RequestsAreAnswered
