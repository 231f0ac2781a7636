SPECIFICATION ServiceSpec
CONSTANTS
  Fields = {blank, c1}
  BlankFields = blank
  Absent = absent
  NoForm = noForm
  MaxIds = 3
  MaxFetchFailures = 1
INVARIANT UniqueForm
