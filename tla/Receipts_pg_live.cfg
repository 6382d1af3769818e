CONSTANTS
  c1 = c1  c2 = c2  c3 = c3
  k1 = k1  k2 = k2  b1 = b1  b2 = b2
  Client = {c1, c2}
  Key = {k1}
  Body = {b1, b2}
  keyOf <- MCKeyOf
  bodyOf <- MCSameBody
  Null = Null
  Serial = FALSE
  Prompt = TRUE
  MaxFailures = 1
  MaxCrashes = 1
SPECIFICATION FairReceipts
INVARIANTS AnswersAreRuns
PROPERTIES EventuallyAnswered
