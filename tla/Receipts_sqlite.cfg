CONSTANTS
  c1 = c1  c2 = c2  c3 = c3
  k1 = k1  k2 = k2  b1 = b1  b2 = b2
  Client = {c1, c2, c3}
  Key = {k1}
  Body = {b1, b2}
  keyOf <- MCKeyOf
  bodyOf <- MCBodyOf
  Null = Null
  Serial = TRUE
  Prompt = TRUE
  MaxFailures = 2
  MaxCrashes = 2
SPECIFICATION ReceiptsSpec
INVARIANTS ReceiptsTypeOK OneHolder AtMostOncePerKey ReceiptTellsRun
PROPERTIES CompletedIsFinal ImplementsIdempotentMutation
