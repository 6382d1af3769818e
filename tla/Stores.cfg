CONSTANTS
  None = None  Unasked = Unasked
  Misfit = Misfit
  Values <- MCValues
  Me = 91
  Admin = 92
  Seed <- MCSeed
  Areas = {"people", "leads", "deals", "notes", "marks", "fields", "agents", "stages", "team"}
  MaxCalls = 2
  Names = {"acme", "expo"}
  Owners = {None, 92, 99}
  Filters <- MCFilters
SPECIFICATION Spec
INVARIANTS SameRows SameAnswers BoardsAddUp SidesAgree
CHECK_DEADLOCK FALSE
