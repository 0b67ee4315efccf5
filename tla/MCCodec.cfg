CONSTANTS
  B = 16
  Unset = Unset
  Id <- MCId
  Role <- MCRole
  Flags = {0, 1, 2, 3}
  Version = {1, 2}
  Other = {8, 9}
  Name <- MCName
  Value <- MCValue
  Cut = {0, 1, 9, 12}
  Behind = {0, 15}
  Junk = Junk
  Text = 41
  Faults = TRUE
  MaxPairs = 2
  MaxRecords = 2
SPECIFICATION FairSpec
INVARIANTS TypeOK ParamsUnderstood AstrayOnlyIfCut AnswersUnderstood
PROPERTY RecordHandled
