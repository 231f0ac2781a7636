SPECIFICATION Spec
CONSTANTS
  FieldRows = {email}
  SkillRows = {}
  FieldCells = {cf}
  LabelCells = {}
  FieldTexts <- MCFieldTexts
  SkillTexts <- MCSkillTexts
  NoRow = noRow
  NoCell = noCell
  NoText = noText
  NotSent = notSent
  MaxForms = 2
  MaxEvents = 3
INVARIANT NewFormBlank
