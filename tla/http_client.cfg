SPECIFICATION HttpSpec
CONSTANTS
  Tasks = {t1, t2}
  Descriptors = {0, 1}
  Responses <- MCResponses
  MaxRequests = 3
  MaxRetries = 1
  KvLen = 4
SYMMETRY TaskSymmetry
INVARIANTS
  OwnDescriptor
  ResourcesReturned
  HeadersAsSent
  HeadersFit
CHECK_DEADLOCK FALSE
