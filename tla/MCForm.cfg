\* Every row has a cell of its own.
SPECIFICATION MCSpec
CONSTANTS
  FieldRows = {email}
  SkillRows = {uikit}
  FieldCells = {cf}
  LabelCells = {cl}
  FieldTexts <- MCFieldTexts
  SkillTexts <- MCSkillTexts
  NoRow = noRow
  NoCell = noCell
  NoText = noText
  NotSent = notSent
  MaxForms = 2
  MaxEvents = 5
  Fields = {blank, c1, c2, c3}
  BlankFields = blank
  Absent = absent
  NoForm = noForm
  MaxIds = 6
  MaxFetchFailures = 2
INVARIANTS EditReachesStore ServiceTypeOK FormsBounded LoadedFormExists SubmittedGone
PROPERTIES KeepsDraft QueueDrains LoadEnds
