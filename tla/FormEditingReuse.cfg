\* More rows than cells: cells are handed from row to row.
SPECIFICATION Spec
CONSTANTS
  FieldRows = {email, name}
  SkillRows = {uikit, oop}
  FieldCells = {cf, cg}
  LabelCells = {cl}
  FieldTexts = {7}
  SkillTexts <- MCOddTexts
  NoRow = noRow
  NoCell = noCell
  NoText = noText
  NotSent = notSent
  MaxForms = 2
  MaxEvents = 4
INVARIANTS TypeOK ScoresInRange InStep QuietSubmitStaysBlank
PROPERTIES SubmittedFrozen
