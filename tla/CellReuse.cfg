SPECIFICATION Spec
CONSTANTS
  FieldRows = {}
  SkillRows = {uikit, oop}
  FieldCells = {}
  LabelCells = {cl}
  FieldTexts <- MCFieldTexts
  SkillTexts <- MCSkillTexts
  NoRow = noRow
  NoCell = noCell
  NoText = noText
  NotSent = notSent
  MaxForms = 1
  MaxEvents = 4
INVARIANT EditReachesStore
