----------------------------- MODULE FormProofs -----------------------------
(* What holds of the editing pipeline for every number of rows, cells, texts, *)
(* edits and submitted forms, and of CoreDataService for every number of      *)
(* forms, of failing fetches and of field values.                             *)
EXTENDS FormEditing, CoreDataService, SequenceTheorems, FiniteSetTheorems, TLAPS

(* The conversions stay within the texts.                                     *)
LEMMA ConversionTypes ==
    ASSUME NEW r \in Rows, NEW t \in Text
    PROVE  /\ Validate(r, t) \in Text
           /\ Attribute(r, t) \in Text
           /\ Shown(t) \in Text
           /\ Digits(t) \in Text
  BY DEF Validate, Attribute, Int16Of, Shown, Digits, Text, MaxScore, Blank, Unreadable, Letters

(* The blank form has a text for every row.                                   *)
LEMMA BlankFormType == BlankForm \in Contents
  BY DEF BlankForm, Contents, Text, Blank

(* configureOutputs gives every row the text of its attribute.                *)
LEMMA OutputsType ==
    ASSUME NEW m \in Contents
    PROVE  Outputs(m) = m
  BY DEF Outputs, Contents

(* What a sink is sent is a sequence of blocks.                               *)
LEMMA BlocksTypes ==
    ASSUME NEW r \in Rows, NEW n \in Nat, NEW rows \in Seq(Rows), NEW t \in Text
    PROVE  /\ TextBlocks(rows, t) \in Seq(Blocks)
           /\ FormBlocks(r, n) \in Seq(Blocks)
<1>1. DOMAIN rows = 1..Len(rows) /\ Len(rows) \in Nat /\ \A i \in 1..Len(rows) : rows[i] \in Rows
  OBVIOUS
<1>2. \A i \in DOMAIN rows : [kind |-> "text", row |-> rows[i], text |-> t] \in Blocks
  BY <1>1 DEF Blocks
<1>3. [kind |-> "form", row |-> r, text |-> Blank] \in Blocks
  BY DEF Blocks, Text
<1>4. TextBlocks(rows, t) \in Seq(Blocks)
  BY <1>1, <1>2, IsASeq DEF TextBlocks
<1> QED
  BY <1>3, <1>4, IsASeq DEF FormBlocks

(* The block that is next on the main queue, and what it leaves.              *)
LEMMA HeadBlock ==
    ASSUME NEW q \in Seq(Blocks), q # <<>>
    PROVE  /\ Head(q).row \in Rows /\ Head(q).text \in Text
           /\ Tail(q) \in Seq(Blocks)
<1>1. Head(q) \in Blocks /\ Tail(q) \in Seq(Blocks)
  BY HeadTailProperties
<1> QED
  BY <1>1 DEF Blocks

(* A cell shows a row of its own kind.                                        *)
LEMMA BindingTypes ==
    ASSUME NEW b \in Bindings, NEW c \in Cells
    PROVE  /\ b[c] \in Rows
           /\ c \in LabelCells => b[c] \in SkillRows
  BY CellsAssumption DEF Bindings, RowsOf

(* A cell may be given any row of its kind that no cell shows.                *)
LEMMA CellForBinding ==
    ASSUME NEW b \in Bindings, NEW c \in Cells, NEW r \in RowsOf(c), \A d \in Cells : b[d] # r
    PROVE  [b EXCEPT ![c] = r] \in Bindings
  BY DEF Bindings, RowsOf, Rows

(* Publishing a value leaves a text in every cell.                            *)
LEMMA PublishedType ==
    ASSUME TypeOK, NEW r \in Rows, NEW v \in Text
    PROVE  Published(r, v) \in [Cells -> Text]
  BY ConversionTypes DEF Published, TypeOK

(* Every variable keeps its type: in particular the queue only holds blocks   *)
(* for rows that exist, and the cells always show different rows.             *)
THEOREM TypeCorrect == Spec => []TypeOK
<1>1. Init => TypeOK
  <2> SUFFICES ASSUME Init PROVE TypeOK
    OBVIOUS
  <2>1. sent \in [1..MaxForms -> Contents \union {NotSent}]
    BY BlankFormType DEF Init
  <2>2. /\ value \in Contents /\ prop \in Contents /\ model \in Contents /\ saved \in Contents
        /\ formNo \in 1..MaxForms /\ events \in 0..MaxEvents
    BY BlankFormType, OutputsType, BoundsAssumption DEF Init
  <2>3. text \in [Cells -> Text]
    BY <2>2, BindingTypes DEF Init, Contents
  <2>4. sinks \in [Cells -> Seq(Rows)] /\ queue \in Seq(Blocks)
    BY EmptySeq DEF Init
  <2> QED
    BY <2>1, <2>2, <2>3, <2>4 DEF Init, TypeOK
<1>2. TypeOK /\ [Next]_vars => TypeOK'
  <2> SUFFICES ASSUME TypeOK, [Next]_vars PROVE TypeOK'
    OBVIOUS
  <2> USE DEF TypeOK
  <2>1. ASSUME NEW c \in Cells, EditingDidBegin(c) PROVE TypeOK'
    <3>1. \A d \in Cells : Shown(text[d]) \in Text
      BY DEF Shown, Text, Blank
    <3> QED
      BY <2>1, <3>1, BoundsAssumption DEF EditingDidBegin, UserEvent, formVars
  <2>2. ASSUME NEW c \in FieldCells, NEW t \in FieldTexts, FieldEditingChanged(c, t)
        PROVE  TypeOK'
    <3>1. c \in Cells /\ t \in Text
      BY TextsAssumption DEF Cells
    <3>2. text' \in [Cells -> Text]
      BY <2>2, <3>1 DEF FieldEditingChanged
    <3> QED
      BY <2>2, <3>2, BoundsAssumption DEF FieldEditingChanged, UserEvent, formVars
  <2>3. ASSUME NEW c \in FieldCells, FieldEditingDidEnd(c) PROVE TypeOK'
    <3>1. c \in Cells /\ bound[c] \in Rows /\ text[c] \in Text
      BY BindingTypes DEF Cells
    <3>2. sinks' \in [Cells -> Seq(Rows)] /\ sinks'[c] \in Seq(Rows)
      BY <2>3, <3>1 DEF FieldEditingDidEnd
    <3>3. queue' \in Seq(Blocks)
      BY <2>3, <3>1, <3>2, BlocksTypes, ConcatProperties DEF FieldEditingDidEnd
    <3> QED
      BY <2>3, <3>1, <3>2, <3>3 DEF FieldEditingDidEnd, formVars
  <2>4. ASSUME NEW c \in LabelCells, NEW t \in SkillTexts, LabelEditingChanged(c, t)
        PROVE  TypeOK'
    <3> DEFINE r == bound[c]
               v == Validate(r, value[r])
    <3>1. c \in Cells /\ r \in Rows /\ t \in Text
      BY BindingTypes, TextsAssumption DEF Cells
    <3>2. v \in Text /\ Shown(v) \in Text
      BY <3>1, ConversionTypes DEF Contents
    <3>3. text' \in [Cells -> Text]
      BY <2>4, <3>1, <3>2, PublishedType DEF LabelEditingChanged
    <3>4. value' \in Contents /\ sinks' \in [Cells -> Seq(Rows)]
      BY <2>4, <3>1, <3>2 DEF LabelEditingChanged, Contents
    <3> QED
      BY <2>4, <3>3, <3>4, BoundsAssumption DEF LabelEditingChanged, UserEvent, formVars
  <2>5. ASSUME NEW c \in LabelCells, LabelEditingDidEnd(c) PROVE TypeOK'
    <3>1. c \in Cells /\ bound[c] \in Rows /\ bound[c] \in SkillRows /\ text[c] \in Text
      BY BindingTypes DEF Cells
    <3>2. Digits(text[c]) \in Text /\ Shown(value[bound[c]]) \in Text
      BY <3>1, ConversionTypes DEF Contents
    <3>3. queue' \in Seq(Blocks)
      BY <2>5, <3>1, <3>2, BlocksTypes, ConcatProperties DEF LabelEditingDidEnd
    <3> QED
      BY <2>5, <3>1, <3>2, <3>3 DEF LabelEditingDidEnd, formVars
  <2>6. ASSUME NEW c \in Cells, NEW r \in Rows, CellFor(c, r) PROVE TypeOK'
    BY <2>6, CellForBinding DEF CellFor, formVars, Contents
  <2>7. CASE TextSinkTraps
    BY <2>7 DEF TextSinkTraps, viewVars, formVars
  <2>8. CASE TextSink
    <3> DEFINE r == Head(queue).row
               v == Validate(r, Head(queue).text)
    <3>1. /\ r \in Rows /\ Head(queue).text \in Text /\ Tail(queue) \in Seq(Blocks)
      BY <2>8, HeadBlock DEF TextSink, NextBlock
    <3>2. v \in Text
      BY <3>1, ConversionTypes
    <3>3. formSinks' \in [Rows -> Nat] /\ formSinks'[r] \in Nat
      BY <2>8, <3>1 DEF TextSink
    <3>4. queue' \in Seq(Blocks)
      BY <2>8, <3>1, <3>3, BlocksTypes, ConcatProperties, EmptySeq DEF TextSink, Text
    <3>5. text' \in [Cells -> Text] /\ value' \in Contents
      BY <2>8, <3>1, <3>2, PublishedType DEF TextSink, Contents
    <3> QED
      BY <2>8, <3>3, <3>4, <3>5 DEF TextSink, formVars
  <2>9. CASE FormSink
    <3> DEFINE r == Head(queue).row
    <3>1. r \in Rows /\ Tail(queue) \in Seq(Blocks)
      BY <2>9, HeadBlock DEF FormSink, NextBlock
    <3>2. value[r] \in Text /\ Attribute(r, value[r]) \in Text
      BY <3>1, ConversionTypes DEF Contents
    <3>3. model' \in Contents /\ prop' \in Contents
      BY <2>9, <3>1, <3>2 DEF FormSink, SetFielInfo, Contents
    <3>4. text' \in [Cells -> Text]
      BY <2>9, <3>1, <3>2, PublishedType DEF FormSink
    <3>5. sent' \in [1..MaxForms -> Contents \union {NotSent}]
      BY <2>9, <3>3 DEF FormSink, UpdateRemote
    <3> QED
      BY <2>9, <3>1, <3>3, <3>4, <3>5 DEF FormSink
  <2>10. CASE Submit
    <3>1. /\ formNo' \in 1..MaxForms /\ model' \in Contents /\ saved' \in Contents
          /\ value' \in Contents /\ prop' \in Contents
      BY <2>10, BlankFormType, OutputsType, BoundsAssumption DEF Submit, ConfigureOutputs
    <3>2. sent' \in [1..MaxForms -> Contents \union {NotSent}]
      BY <2>10, BlankFormType DEF Submit, UpdateRemote
    <3>3. text' \in [Cells -> Text]
      BY <2>10, <3>1, BindingTypes DEF Submit, Contents
    <3>4. /\ focus' \in Cells \union {NoCell} /\ sinks' \in [Cells -> Seq(Rows)]
          /\ queue' \in Seq(Blocks) /\ watch' \in [Cells -> SkillRows \union {NoRow}]
          /\ typed' \in [Rows -> Text \union {NoText}]
      <4>1. CASE ReloadKeepsFocus
        BY <4>1 DEF ReloadKeepsFocus
      <4>2. ASSUME NEW c \in Cells, ReloadEndsEditing(c) PROVE <3>4!:
        <5> DEFINE r == bound[c]
                   t == IF c \in FieldCells THEN text[c]
                        ELSE Digits(IF watch[c] = NoRow THEN text[c] ELSE Shown(BlankForm[watch[c]]))
        <5>1. r \in Rows /\ (c \notin FieldCells => r \in SkillRows)
          BY BindingTypes DEF Cells
        <5>2. text[c] \in Text /\ (watch[c] # NoRow => BlankForm[watch[c]] \in Text)
          BY BlankFormType DEF Contents, Rows
        <5>3. t \in Text
          BY <5>1, <5>2, ConversionTypes
        <5>4. sinks' \in [Cells -> Seq(Rows)] /\ sinks'[c] \in Seq(Rows)
          BY <4>2, <5>1 DEF ReloadEndsEditing
        <5>5. queue' \in Seq(Blocks)
          BY <4>2, <5>1, <5>3, <5>4, BlocksTypes, ConcatProperties DEF ReloadEndsEditing
        <5>6. typed' \in [Rows -> Text \union {NoText}]
          BY <4>2, <5>3 DEF ReloadEndsEditing
        <5> QED
          BY <4>2, <5>1, <5>4, <5>5, <5>6 DEF ReloadEndsEditing
      <4> QED
        BY <2>10, <4>1, <4>2 DEF Submit
    <3> QED
      BY <2>10, <3>1, <3>2, <3>3, <3>4 DEF Submit
  <2>11. CASE Relaunch
    <3> PICK b \in Bindings : Start(saved, b)
      BY <2>11 DEF Relaunch
    <3>1. text' \in [Cells -> Text]
      BY BindingTypes DEF Start, Contents
    <3>2. sent' \in [1..MaxForms -> Contents \union {NotSent}]
      BY DEF Start, UpdateRemote
    <3>3. value' \in Contents /\ prop' \in Contents
      BY OutputsType DEF Start, ConfigureOutputs
    <3>4. sinks' \in [Cells -> Seq(Rows)] /\ queue' \in Seq(Blocks)
      BY EmptySeq DEF Start
    <3> QED
      BY <2>11, <3>1, <3>2, <3>3, <3>4 DEF Start, Relaunch
  <2>12. CASE UNCHANGED vars
    BY <2>12 DEF vars, viewVars, formVars
  <2> QED
    BY <2>1, <2>2, <2>3, <2>4, <2>5, <2>6, <2>7, <2>8, <2>9, <2>10, <2>11, <2>12
    DEF Next, Deliver
<1> QED
  BY <1>1, <1>2, PTL DEF Spec

-----------------------------------------------------------------------------
(* The inductive invariant.  ScoresInRange and InStep are not inductive on    *)
(* their own: a score gets into the form from the value its row has when the  *)
(* block is served, so every value a row can have must already be validated   *)
(* (ValidatedValues), and a form that is to stay blank must have nothing in   *)
(* the queue (QuietQueue).                                                    *)
Scores == 0..MaxScore

ValidatedValues == \A r \in SkillRows : value[r] \in Scores \union {Blank}

QuietQueue == since = "quiet" => queue = <<>> /\ saved = BlankForm

RowsAgree == \A r \in Rows : ~Pending("form", r) => /\ Attribute(r, value[r]) = model[r]
                                                   /\ Attribute(r, prop[r]) = model[r]

CopiesAgree == saved = model /\ sent[formNo] \in {NotSent, model}

EditInv == /\ TypeOK /\ ValidatedValues /\ ScoresInRange
           /\ RowsAgree /\ CopiesAgree /\ QuietQueue

(* validateValue lets a score of 0 to 50 pass, or an empty text.              *)
LEMMA ValidateScores ==
    ASSUME NEW r \in SkillRows, NEW t \in Text, ~Traps(r, t)
    PROVE  Validate(r, t) \in Scores \union {Blank}
  BY DEF Traps, Validate, Scores, MaxScore, Text, Blank

(* What a valid text of a skill row becomes in the form is a score.           *)
LEMMA AttributeScores ==
    ASSUME NEW r \in SkillRows, NEW v \in Scores \union {Blank}
    PROVE  Attribute(r, v) \in Scores /\ (v \in Scores => Attribute(r, v) = v)
<1>1. CASE v = Blank
  BY <1>1 DEF Attribute, Int16Of, Scores, MaxScore, Blank
<1>2. CASE v \in Scores
  <2>1. v \in 0..32767
    BY <1>2 DEF Scores, MaxScore
  <2> QED
    BY <1>2, <2>1 DEF Attribute, Int16Of
<1> QED
  BY <1>1, <1>2

(* Validating a value that was validated before does not change what it       *)
(* stands for in the form.                                                    *)
LEMMA RevalidateHarmless ==
    ASSUME NEW r \in SkillRows, NEW v \in Scores \union {Blank}
    PROVE  /\ Validate(r, v) \in Scores \union {Blank}
           /\ Attribute(r, Validate(r, v)) = Attribute(r, v)
  BY DEF Attribute, Validate, Int16Of, Scores, MaxScore, Blank

(* The text of a field row is stored as it is.                                *)
LEMMA AttributeField ==
    ASSUME NEW r \in Rows, r \notin SkillRows, NEW v
    PROVE  Attribute(r, v) = v
  BY DEF Attribute

(* The blank form has scores in range, and storing it again changes nothing.  *)
LEMMA BlankFormScores ==
    /\ \A r \in SkillRows : BlankForm[r] \in Scores
    /\ \A r \in Rows : Attribute(r, BlankForm[r]) = BlankForm[r]
<1>1. \A r \in SkillRows : BlankForm[r] \in Scores
  BY DEF BlankForm, Scores, MaxScore, Rows
<1> QED
  BY <1>1, AttributeScores, AttributeField

(* A block stays in the queue when blocks are added behind it, and when the   *)
(* head is another block.                                                     *)
LEMMA HasConcat ==
    ASSUME NEW p \in Seq(Blocks), NEW q \in Seq(Blocks), NEW k, NEW r,
           HasBlock(p, k, r) \/ HasBlock(q, k, r)
    PROVE  HasBlock(p \o q, k, r)
<1>1. /\ DOMAIN p = 1..Len(p) /\ DOMAIN q = 1..Len(q)
      /\ Len(p) \in Nat /\ Len(q) \in Nat
      /\ DOMAIN (p \o q) = 1..(Len(p) + Len(q))
      /\ \A i \in 1..(Len(p) + Len(q)) : (p \o q)[i] = IF i <= Len(p) THEN p[i] ELSE q[i - Len(p)]
  BY ConcatProperties, LenProperties
<1>2. CASE HasBlock(p, k, r)
  BY <1>1, <1>2 DEF HasBlock
<1>3. CASE HasBlock(q, k, r)
  <2> PICK i \in DOMAIN q : q[i].kind = k /\ q[i].row = r
    BY <1>3 DEF HasBlock
  <2>1. Len(p) + i \in DOMAIN (p \o q) /\ (p \o q)[Len(p) + i] = q[i]
    BY <1>1
  <2> QED
    BY <2>1 DEF HasBlock
<1> QED
  BY <1>2, <1>3

(* A block that is not the first is still there when the first was served.    *)
LEMMA HasTail ==
    ASSUME NEW q \in Seq(Blocks), q # <<>>, NEW k, NEW r, HasBlock(q, k, r),
           Head(q).kind # k \/ Head(q).row # r
    PROVE  HasBlock(Tail(q), k, r)
<1> PICK i \in DOMAIN q : q[i].kind = k /\ q[i].row = r
  BY DEF HasBlock
<1>1. i # 1 /\ i \in 1..Len(q)
  BY HeadTailProperties, LenProperties
<1>2. i - 1 \in DOMAIN Tail(q) /\ Tail(q)[i - 1] = q[i]
  BY <1>1, HeadTailProperties
<1> QED
  BY <1>2 DEF HasBlock

(* The invariant holds when the application starts.                           *)
LEMMA EditInvInit == Init /\ TypeOK => EditInv
<1> SUFFICES ASSUME Init, TypeOK PROVE EditInv
  OBVIOUS
<1>1. value = BlankForm /\ prop = BlankForm /\ model = BlankForm /\ saved = BlankForm
  BY OutputsType, BlankFormType DEF Init
<1>2. sent[1] \in {NotSent, BlankForm} /\ \A i \in 1..MaxForms : sent[i] \in {NotSent, BlankForm}
  BY BoundsAssumption DEF Init
<1>3. ValidatedValues /\ ScoresInRange
  BY <1>1, <1>2, BlankFormScores DEF ValidatedValues, ScoresInRange, Scores
<1>4. RowsAgree
  BY <1>1, BlankFormScores DEF RowsAgree
<1> QED
  BY <1>1, <1>2, <1>3, <1>4 DEF Init, EditInv, CopiesAgree, QuietQueue

(* Steps that leave rows and form alone, and at most add to the queue.        *)
LEMMA EditInvView ==
    ASSUME EditInv, TypeOK', UNCHANGED <<value, formVars>>,
           \/ UNCHANGED <<queue, since>>
           \/ since' = "edited" /\ \E q \in Seq(Blocks) : queue' = queue \o q
    PROVE  EditInv'
<1> USE DEF EditInv
<1>1. \A r \in Rows : Pending("form", r) => Pending("form", r)'
  BY HasConcat DEF Pending, TypeOK
<1>2. RowsAgree'
  BY <1>1 DEF RowsAgree, formVars
<1> QED
  BY <1>2 DEF ValidatedValues, ScoresInRange, CopiesAgree, QuietQueue, formVars

(* Steps that start from a form whose scores are in range and that make rows, *)
(* view model and copies show that form.                                      *)
LEMMA EditInvFresh ==
    ASSUME TypeOK', NEW m \in Contents, \A r \in SkillRows : m[r] \in Scores,
           value' = m, prop' = m, model' = m, saved' = m
    PROVE  ValidatedValues' /\ RowsAgree'
<1>1. \A r \in Rows : Attribute(r, m[r]) = m[r]
  BY AttributeScores, AttributeField
<1> QED
  BY <1>1 DEF ValidatedValues, RowsAgree

(* Every user event and every served block keeps the invariant.               *)
LEMMA EditInvStep == EditInv /\ TypeOK' /\ [Next]_vars => EditInv'
<1> SUFFICES ASSUME EditInv, TypeOK', [Next]_vars PROVE EditInv'
  OBVIOUS
<1>a. TypeOK /\ ValidatedValues /\ ScoresInRange /\ RowsAgree /\ CopiesAgree /\ QuietQueue
  BY DEF EditInv
<1>1. ASSUME NEW c \in Cells, EditingDidBegin(c) PROVE EditInv'
  BY <1>1, EditInvView DEF EditingDidBegin
<1>2. ASSUME NEW c \in FieldCells, NEW t \in FieldTexts, FieldEditingChanged(c, t)
      PROVE  EditInv'
  BY <1>2, EditInvView DEF FieldEditingChanged
<1>3. ASSUME NEW c \in FieldCells, FieldEditingDidEnd(c) PROVE EditInv'
  <2>1. c \in Cells /\ bound[c] \in Rows /\ text[c] \in Text /\ sinks'[c] \in Seq(Rows)
    BY <1>a, BindingTypes DEF Cells, TypeOK
  <2>2. TextBlocks(sinks'[c], text[c]) \in Seq(Blocks)
    BY <2>1, BlocksTypes
  <2> QED
    BY <1>3, <2>2, EditInvView DEF FieldEditingDidEnd
<1>4. ASSUME NEW c \in LabelCells, NEW t \in SkillTexts, LabelEditingChanged(c, t)
      PROVE  EditInv'
  <2> DEFINE r == bound[c]
             v == Validate(r, value[r])
  <2>1. c \in Cells /\ r \in SkillRows /\ r \in Rows
    BY <1>a, BindingTypes DEF Cells, TypeOK
  <2>2. v \in Scores \union {Blank} /\ Attribute(r, v) = Attribute(r, value[r])
    BY <1>a, <2>1, RevalidateHarmless DEF ValidatedValues
  <2>3. value' = [value EXCEPT ![r] = v] /\ UNCHANGED <<formVars, queue, since>>
    BY <1>4 DEF LabelEditingChanged
  <2>4. ValidatedValues'
    BY <1>a, <2>1, <2>2, <2>3 DEF ValidatedValues, TypeOK, Contents
  <2>5. \A s \in Rows : Attribute(s, value'[s]) = Attribute(s, value[s])
    BY <1>a, <2>1, <2>2, <2>3 DEF TypeOK, Contents
  <2>6. RowsAgree'
    BY <1>a, <2>3, <2>5 DEF RowsAgree, Pending, formVars
  <2> QED
    BY <1>a, <2>3, <2>4, <2>6 DEF EditInv, ScoresInRange, CopiesAgree, QuietQueue, formVars
<1>5. ASSUME NEW c \in LabelCells, LabelEditingDidEnd(c) PROVE EditInv'
  <2>1. c \in Cells /\ bound[c] \in Rows /\ Digits(text[c]) \in Text /\ sinks[c] \in Seq(Rows)
    BY <1>a, BindingTypes, ConversionTypes DEF Cells, TypeOK
  <2>2. TextBlocks(sinks[c], Digits(text[c])) \in Seq(Blocks)
    BY <2>1, BlocksTypes
  <2> QED
    BY <1>5, <2>2, EditInvView DEF LabelEditingDidEnd
<1>6. ASSUME NEW c \in Cells, NEW r \in Rows, CellFor(c, r) PROVE EditInv'
  BY <1>6, EditInvView DEF CellFor
<1>7. CASE TextSinkTraps
  BY <1>7, EditInvView DEF TextSinkTraps
<1>8. CASE TextSink
  <2> DEFINE r == Head(queue).row
             t == Head(queue).text
             v == Validate(r, t)
  <2>1. /\ queue \in Seq(Blocks) /\ queue # <<>> /\ Head(queue).kind = "text"
        /\ ~Traps(r, t) /\ UNCHANGED <<formVars, since>>
        /\ value' = [value EXCEPT ![r] = v]
        /\ formSinks' = [formSinks EXCEPT ![r] = @ + 1]
        /\ queue' = Tail(queue) \o FormBlocks(r, formSinks'[r])
    BY <1>8, <1>a DEF TextSink, NextBlock, TypeOK
  <2>2. r \in Rows /\ t \in Text /\ Tail(queue) \in Seq(Blocks)
    BY <2>1, HeadBlock
  <2>3. formSinks'[r] \in Nat /\ formSinks'[r] >= 1
    BY <1>a, <2>1, <2>2 DEF TypeOK
  <2>4. FormBlocks(r, formSinks'[r]) \in Seq(Blocks)
    BY <2>2, <2>3, BlocksTypes, EmptySeq
  <2>5. HasBlock(FormBlocks(r, formSinks'[r]), "form", r)
    <3>1. 1 \in DOMAIN FormBlocks(r, formSinks'[r])
      BY <2>3 DEF FormBlocks
    <3> QED
      BY <3>1 DEF FormBlocks, HasBlock
  <2>6. HasBlock(queue', "form", r)
    BY <2>1, <2>2, <2>4, <2>5, HasConcat
  <2>7. \A s \in Rows : Pending("form", s) => Pending("form", s)'
    <3> SUFFICES ASSUME NEW s \in Rows, Pending("form", s) PROVE Pending("form", s)'
      OBVIOUS
    <3>1. HasBlock(Tail(queue), "form", s)
      BY <2>1, HasTail DEF Pending
    <3> QED
      BY <2>1, <2>2, <2>4, <3>1, HasConcat DEF Pending
  <2>8. \A s \in Rows : s # r => value'[s] = value[s]
    BY <1>a, <2>1, <2>2 DEF TypeOK, Contents
  <2>9. RowsAgree'
    <3>1. prop' = prop /\ model' = model
      BY <2>1 DEF formVars
    <3>2. \A s \in Rows : ~Pending("form", s)' => s # r /\ ~Pending("form", s)
      BY <2>6, <2>7 DEF Pending
    <3>3. \A s \in Rows : ~Pending("form", s)' => /\ Attribute(s, value'[s]) = model'[s]
                                                 /\ Attribute(s, prop'[s]) = model'[s]
      BY <1>a, <2>8, <3>1, <3>2 DEF RowsAgree
    <3> QED
      BY <3>3 DEF RowsAgree
  <2>10. ValidatedValues'
    <3>1. r \in SkillRows => v \in Scores \union {Blank}
      BY <2>1, <2>2, ValidateScores
    <3> QED
      BY <1>a, <2>1, <2>2, <3>1 DEF ValidatedValues, TypeOK, Contents, Rows
  <2>11. ScoresInRange' /\ CopiesAgree'
    BY <1>a, <2>1 DEF ScoresInRange, CopiesAgree, formVars
  <2>12. QuietQueue'
    BY <1>a, <2>1 DEF QuietQueue
  <2> QED
    BY <2>9, <2>10, <2>11, <2>12 DEF EditInv
<1>9. CASE FormSink
  <2> DEFINE r == Head(queue).row
             a == Attribute(r, value[r])
  <2>1. /\ queue \in Seq(Blocks) /\ queue # <<>> /\ Head(queue).kind = "form"
        /\ prop' = [prop EXCEPT ![r] = value[r]]
        /\ model' = [model EXCEPT ![r] = a] /\ saved' = model'
        /\ sent' = [sent EXCEPT ![formNo] = model']
        /\ queue' = Tail(queue) /\ UNCHANGED <<value, formNo, since>>
    BY <1>9, <1>a DEF FormSink, SetFielInfo, NextBlock, UpdateRemote, TypeOK
  <2>2. r \in Rows
    BY <2>1, HeadBlock
  <2>3. \A s \in Rows : s # r => /\ Pending("form", s) => Pending("form", s)'
                                /\ prop'[s] = prop[s] /\ model'[s] = model[s]
    <3>1. \A s \in Rows : s # r => (Pending("form", s) => Pending("form", s)')
      BY <2>1, HasTail DEF Pending
    <3>2. \A s \in Rows : s # r => prop'[s] = prop[s] /\ model'[s] = model[s]
      BY <1>a, <2>1, <2>2 DEF TypeOK, Contents
    <3> QED
      BY <3>1, <3>2
  <2>4. prop'[r] = value[r] /\ model'[r] = a
    BY <1>a, <2>1, <2>2 DEF TypeOK, Contents
  <2>5. RowsAgree'
    BY <1>a, <2>1, <2>3, <2>4 DEF RowsAgree
  <2>6. CopiesAgree'
    BY <1>a, <2>1 DEF CopiesAgree, TypeOK
  <2>7. \A s \in SkillRows : model'[s] \in Scores
    <3>1. r \in SkillRows => a \in Scores
      BY <1>a, AttributeScores DEF ValidatedValues
    <3> QED
      BY <1>a, <2>3, <2>4, <3>1 DEF ScoresInRange, Scores, Rows
  <2>8. ScoresInRange'
    <3>1. \A i \in 1..MaxForms : sent'[i] = IF i = formNo THEN model' ELSE sent[i]
      BY <1>a, <2>1 DEF TypeOK
    <3> QED
      BY <1>a, <2>1, <2>7, <3>1 DEF ScoresInRange, Scores
  <2> QED
    BY <1>a, <2>1, <2>5, <2>6, <2>8 DEF EditInv, ValidatedValues, QuietQueue
<1>10. CASE Submit
  <2>1. /\ value' = BlankForm /\ prop' = BlankForm /\ model' = BlankForm /\ saved' = BlankForm
        /\ formNo' = formNo + 1 /\ formNo + 1 \in 1..MaxForms
        /\ sent' = [sent EXCEPT ![formNo] = model, ![formNo + 1] = BlankForm]
    BY <1>10, <1>a, OutputsType, BlankFormType, BoundsAssumption
    DEF Submit, ConfigureOutputs, UpdateRemote, TypeOK
  <2>2. ValidatedValues' /\ RowsAgree'
    BY <2>1, EditInvFresh, BlankFormScores, BlankFormType
  <2>3. CopiesAgree'
    BY <1>a, <2>1 DEF CopiesAgree, TypeOK
  <2>4. ScoresInRange'
    BY <1>a, <2>1, BlankFormScores DEF ScoresInRange, Scores, TypeOK
  <2>5. QuietQueue'
    BY <1>10, <2>1 DEF Submit, QuietQueue
  <2> QED
    BY <2>2, <2>3, <2>4, <2>5 DEF EditInv
<1>11. CASE Relaunch
  <2> PICK b \in Bindings : Start(saved, b)
    BY <1>11 DEF Relaunch
  <2>1. /\ value' = saved /\ prop' = saved /\ model' = saved /\ saved' = saved
        /\ queue' = <<>> /\ UNCHANGED <<formNo, since>>
        /\ sent' \in {sent, [sent EXCEPT ![formNo] = saved]}
    BY <1>11, <1>a, OutputsType DEF Start, Relaunch, ConfigureOutputs, UpdateRemote, TypeOK
  <2>2. ValidatedValues' /\ RowsAgree'
    BY <1>a, <2>1, EditInvFresh DEF ScoresInRange, Scores, TypeOK
  <2>3. CopiesAgree'
    BY <1>a, <2>1 DEF CopiesAgree, TypeOK
  <2>4. ScoresInRange'
    BY <1>a, <2>1 DEF ScoresInRange, TypeOK
  <2>5. QuietQueue'
    BY <1>a, <2>1 DEF QuietQueue
  <2> QED
    BY <2>2, <2>3, <2>4, <2>5 DEF EditInv
<1>12. CASE UNCHANGED vars
  BY <1>12, EditInvView DEF vars
<1> QED
  BY <1>1, <1>2, <1>3, <1>4, <1>5, <1>6, <1>7, <1>8, <1>9, <1>10, <1>11, <1>12
  DEF Next, Deliver

(* EditInv holds in every reachable state.                                    *)
LEMMA EditInvariant == Spec => []EditInv
  BY TypeCorrect, EditInvInit, EditInvStep, PTL DEF Spec

(* No sequence of edits, deliveries, submits and relaunches puts a score      *)
(* outside 0..50 into the form, the store or an update for Firebase, although *)
(* validateValue is the only check and a text can reach a row through another *)
(* row's cell.                                                                *)
THEOREM ScoresStayInRange == Spec => []ScoresInRange
<1>1. EditInv => ScoresInRange
  BY DEF EditInv
<1> QED
  BY <1>1, EditInvariant, PTL

(* Every row, its property, the form, the store and the last update agree     *)
(* unless the row still has a cellDidChange in the queue.                     *)
THEOREM StaysInStep == Spec => []InStep
<1>1. EditInv => InStep
  BY DEF EditInv, RowsAgree, CopiesAgree, InStep
<1> QED
  BY <1>1, EditInvariant, PTL

(* After a submit with nothing under way the new form stays blank in every    *)
(* copy until some cell ends editing.                                         *)
THEOREM QuietSubmitIsBlank == Spec => []QuietSubmitStaysBlank
<1>1. EditInv => QuietSubmitStaysBlank
  <2> SUFFICES ASSUME EditInv, since = "quiet"
               PROVE  saved = BlankForm /\ \A r \in Rows : Attribute(r, value[r]) = BlankForm[r]
    BY DEF QuietSubmitStaysBlank
  <2>1. queue = <<>> /\ saved = BlankForm /\ model = BlankForm
    BY DEF EditInv, QuietQueue, CopiesAgree
  <2>2. \A r \in Rows : ~Pending("form", r)
    BY <2>1 DEF Pending, HasBlock
  <2> QED
    BY <2>1, <2>2 DEF EditInv, RowsAgree
<1> QED
  BY <1>1, EditInvariant, PTL

(* What Firebase was given for a submitted form is final: no block that was   *)
(* still in the queue, and no relaunch, sends that form again.                *)
THEOREM SubmittedStaysFrozen == Spec => SubmittedFrozen
<1>1. TypeOK /\ [Next]_vars => [\A i \in 1..MaxForms : i < formNo => sent'[i] = sent[i]]_vars
  <2> SUFFICES ASSUME TypeOK, Next, NEW i \in 1..MaxForms, i < formNo
               PROVE  sent'[i] = sent[i]
    OBVIOUS
  <2>1. formNo \in Nat /\ i \in Nat /\ i # formNo /\ i # formNo + 1
    BY DEF TypeOK
  <2>2. CASE FormSink
    BY <2>1, <2>2 DEF FormSink, UpdateRemote, TypeOK
  <2>3. CASE Submit
    BY <2>1, <2>3 DEF Submit, UpdateRemote, TypeOK
  <2>4. CASE Relaunch
    BY <2>1, <2>4 DEF Relaunch, Start, UpdateRemote, TypeOK
  <2>5. CASE UNCHANGED sent
    BY <2>5
  <2> QED
    BY <2>2, <2>3, <2>4, <2>5
    DEF Next, Deliver, EditingDidBegin, FieldEditingChanged, FieldEditingDidEnd,
        LabelEditingChanged, LabelEditingDidEnd, CellFor, TextSink, TextSinkTraps, formVars
<1> QED
  BY <1>1, TypeCorrect, PTL DEF Spec, SubmittedFrozen

-----------------------------------------------------------------------------
(* What the user commits in a cell reaches the store, whatever is interleaved *)
(* with its way through the queue, as long as the table hands no cell to      *)
(* another row while the process lives; the run cell_reuse shows what happens *)
(* otherwise.                                                                 *)
CellsStay == [][bound' = bound \/ Relaunch]_vars

IsText(q, i, r) == q[i].kind = "text" /\ q[i].row = r

(* The last text for row r in the queue q is t.                               *)
LastText(q, r, t) == \E i \in DOMAIN q : /\ IsText(q, i, r)
                                         /\ q[i].text = t
                                         /\ \A j \in DOMAIN q : j > i => ~IsText(q, j, r)

(* The row has taken in what was typed.                                       *)
Taken(r) == Attribute(r, value[r]) = Attribute(r, Validate(r, typed[r]))

(* A committed text is the last one under way to its row, or was taken in.    *)
OnItsWay == \A r \in Rows : typed[r] # NoText =>
               \/ LastText(queue, r, typed[r])
               \/ ~Pending("text", r) /\ Taken(r)

(* A cell delivers to the row it shows, and follows no other row.             *)
OwnSinks == \A c \in Cells : /\ \A i \in DOMAIN sinks[c] : sinks[c][i] = bound[c]
                             /\ watch[c] \in {NoRow, bound[c]}

(* A score cell in which nothing was typed shows what its row has: ending to  *)
(* edit it commits that, and there is nobody to deliver it to.                *)
Untouched == \A c \in LabelCells : sinks[c] = <<>> =>
                /\ ~Pending("text", bound[c])
                /\ text[c] \in {value[bound[c]], Shown(value[bound[c]])}

StoreInv == OnItsWay /\ OwnSinks /\ Untouched

(* Blocks are put behind those that wait.                                     *)
LEMMA ConcatBlocks ==
    ASSUME NEW p \in Seq(Blocks), NEW q \in Seq(Blocks)
    PROVE  /\ DOMAIN p = 1..Len(p) /\ DOMAIN q = 1..Len(q)
           /\ Len(p) \in Nat /\ Len(q) \in Nat
           /\ p \o q \in Seq(Blocks)
           /\ DOMAIN (p \o q) = 1..(Len(p) + Len(q))
           /\ \A i \in 1..Len(p) : (p \o q)[i] = p[i]
           /\ \A i \in 1..Len(q) : (p \o q)[Len(p) + i] = q[i]
  BY ConcatProperties, LenProperties

(* Blocks for other rows, or of the other kind, do not matter to a row.       *)
LEMMA LastConcat ==
    ASSUME NEW p \in Seq(Blocks), NEW q \in Seq(Blocks), NEW r, NEW t,
           LastText(p, r, t), ~HasBlock(q, "text", r)
    PROVE  LastText(p \o q, r, t)
<1> PICK i \in DOMAIN p : /\ IsText(p, i, r) /\ p[i].text = t
                          /\ \A j \in DOMAIN p : j > i => ~IsText(p, j, r)
  BY DEF LastText
<1>1. i \in DOMAIN (p \o q) /\ (p \o q)[i] = p[i]
  BY ConcatBlocks
<1>2. ASSUME NEW j \in DOMAIN (p \o q), j > i PROVE ~IsText(p \o q, j, r)
  <2>1. CASE j \in 1..Len(p)
    BY <1>2, <2>1, ConcatBlocks DEF IsText
  <2>2. CASE j \notin 1..Len(p)
    <3>1. j - Len(p) \in 1..Len(q) /\ (p \o q)[j] = q[j - Len(p)]
      BY <2>2, ConcatBlocks
    <3> QED
      BY <3>1, ConcatBlocks DEF HasBlock, IsText
  <2> QED
    BY <2>1, <2>2
<1> QED
  BY <1>1, <1>2 DEF LastText, IsText

(* A block that is in neither part is not in the whole.                       *)
LEMMA HasNotConcat ==
    ASSUME NEW p \in Seq(Blocks), NEW q \in Seq(Blocks), NEW k, NEW r,
           ~HasBlock(p, k, r), ~HasBlock(q, k, r)
    PROVE  ~HasBlock(p \o q, k, r)
<1> SUFFICES ASSUME NEW j \in DOMAIN (p \o q)
             PROVE  ~((p \o q)[j].kind = k /\ (p \o q)[j].row = r)
  BY DEF HasBlock
<1>1. CASE j \in 1..Len(p)
  BY <1>1, ConcatBlocks DEF HasBlock
<1>2. CASE j \notin 1..Len(p)
  <2>1. j - Len(p) \in 1..Len(q) /\ (p \o q)[j] = q[j - Len(p)]
    BY <1>2, ConcatBlocks
  <2> QED
    BY <2>1, ConcatBlocks DEF HasBlock
<1> QED
  BY <1>1, <1>2

(* A text sent to subscribers that are all row r.                             *)
LEMMA SentToOne ==
    ASSUME NEW p \in Seq(Blocks), NEW rows \in Seq(Rows), NEW r \in Rows, NEW t \in Text,
           \A i \in DOMAIN rows : rows[i] = r
    PROVE  /\ rows # <<>> => LastText(p \o TextBlocks(rows, t), r, t)
           /\ \A s \in Rows, k \in {"text", "form"} :
                 (s # r \/ k = "form") => ~HasBlock(TextBlocks(rows, t), k, s)
<1> DEFINE q == TextBlocks(rows, t)
<1>1. q \in Seq(Blocks) /\ DOMAIN rows = 1..Len(rows) /\ Len(rows) \in Nat
  BY BlocksTypes, EmptySeq
<1>2. /\ DOMAIN q = 1..Len(rows)
      /\ \A i \in 1..Len(rows) : q[i] = [kind |-> "text", row |-> r, text |-> t]
  BY <1>1 DEF TextBlocks
<1>3. Len(q) = Len(rows)
  BY <1>1, <1>2, LenProperties
<1>4. ASSUME rows # <<>> PROVE LastText(p \o q, r, t)
  <2>1. Len(rows) \in 1..Len(rows)
    BY <1>1, <1>4, EmptySeq
  <2>2. /\ Len(p) + Len(rows) \in DOMAIN (p \o q)
        /\ (p \o q)[Len(p) + Len(rows)] = [kind |-> "text", row |-> r, text |-> t]
        /\ \A j \in DOMAIN (p \o q) : ~(j > Len(p) + Len(rows))
    BY <1>1, <1>2, <1>3, <2>1, ConcatBlocks
  <2> HIDE DEF q
  <2> QED
    BY <2>2 DEF LastText, IsText
<1> QED
  BY <1>2, <1>4 DEF HasBlock

(* Taking the head off the queue.                                             *)
LEMMA LastTail ==
    ASSUME NEW q \in Seq(Blocks), q # <<>>, NEW r, NEW t, LastText(q, r, t)
    PROVE  \/ LastText(Tail(q), r, t)
           \/ /\ Head(q).kind = "text" /\ Head(q).row = r /\ Head(q).text = t
              /\ ~HasBlock(Tail(q), "text", r)
<1>1. /\ DOMAIN q = 1..Len(q) /\ Len(q) \in Nat /\ Head(q) = q[1] /\ Len(q) >= 1
      /\ DOMAIN Tail(q) = 1..(Len(q) - 1)
      /\ \A i \in 1..(Len(q) - 1) : Tail(q)[i] = q[i + 1]
  BY HeadTailProperties, LenProperties, EmptySeq
<1> PICK i \in DOMAIN q : /\ IsText(q, i, r) /\ q[i].text = t
                          /\ \A j \in DOMAIN q : j > i => ~IsText(q, j, r)
  BY DEF LastText
<1>2. CASE i = 1
  <2>1. \A j \in DOMAIN Tail(q) : ~IsText(Tail(q), j, r)
    BY <1>1, <1>2 DEF IsText
  <2> QED
    BY <1>1, <1>2, <2>1 DEF IsText, HasBlock
<1>3. CASE i # 1
  <2>1. i - 1 \in DOMAIN Tail(q) /\ Tail(q)[i - 1] = q[i]
    BY <1>1, <1>3
  <2>2. \A j \in DOMAIN Tail(q) : j > i - 1 => ~IsText(Tail(q), j, r)
    BY <1>1, <1>3 DEF IsText
  <2> QED
    BY <2>1, <2>2 DEF LastText, IsText
<1> QED
  BY <1>2, <1>3

(* Serving a block brings no block.                                           *)
LEMMA HasNotTail ==
    ASSUME NEW q \in Seq(Blocks), q # <<>>, NEW k, NEW r, ~HasBlock(q, k, r)
    PROVE  ~HasBlock(Tail(q), k, r)
<1>1. /\ DOMAIN q = 1..Len(q) /\ Len(q) \in Nat
      /\ DOMAIN Tail(q) = 1..(Len(q) - 1)
      /\ \A i \in 1..(Len(q) - 1) : Tail(q)[i] = q[i + 1]
  BY HeadTailProperties, LenProperties
<1> QED
  BY <1>1 DEF HasBlock

(* A last text for a row is a text that waits for it.                         *)
LEMMA LastIsPending ==
    ASSUME NEW q \in Seq(Blocks), NEW r, NEW t, LastText(q, r, t)
    PROVE  HasBlock(q, "text", r)
  BY DEF LastText, HasBlock, IsText

(* What is sent to the form is not a text for a cell view model.              *)
LEMMA FormBlocksNoText ==
    ASSUME NEW r, NEW n \in Nat, NEW s
    PROVE  ~HasBlock(FormBlocks(r, n), "text", s)
  BY DEF FormBlocks, HasBlock

(* Ending to edit a score cell in which nothing was typed commits what the    *)
(* row has.                                                                   *)
LEMMA UntouchedTaken ==
    ASSUME NEW r \in SkillRows, NEW v \in Scores \union {Blank}, NEW t \in {v, Shown(v)}
    PROVE  Attribute(r, v) = Attribute(r, Validate(r, Digits(t)))
<1>1. Digits(t) \in {t, Blank} /\ (t \in Nat => Digits(t) = t)
  BY DEF Digits, Letters, Blank
<1>2. CASE v = Blank \/ v = 0
  <2>1. t = Blank \/ t = 0
    BY <1>2 DEF Shown, Blank
  <2>2. Digits(t) = Blank \/ Digits(t) = 0
    BY <1>1, <2>1
  <2>3. Validate(r, Digits(t)) = Blank
    BY <2>2 DEF Validate, MaxScore, Blank
  <2> QED
    <3>1. Int16Of(Blank) = 0 /\ Int16Of(0) = 0
      BY DEF Int16Of, Blank
    <3> QED
      BY <1>2, <2>3, <3>1 DEF Attribute
<1>3. CASE v \in 1..MaxScore
  <2>1. t = v /\ v \in Nat
    BY <1>3 DEF Shown, MaxScore
  <2>2. Validate(r, Digits(t)) = v
    BY <1>1, <1>3, <2>1 DEF Validate, MaxScore
  <2> QED
    BY <2>2
<1>4. v = Blank \/ v = 0 \/ v \in 1..MaxScore
  BY DEF Scores, MaxScore
<1> QED
  BY <1>2, <1>3, <1>4

(* One subscriber more, the same as all before.                               *)
LEMMA AppendSame ==
    ASSUME NEW s \in Seq(Rows), NEW r \in Rows, \A i \in DOMAIN s : s[i] = r
    PROVE  /\ Append(s, r) # <<>>
           /\ \A i \in DOMAIN Append(s, r) : Append(s, r)[i] = r
<1>1. /\ DOMAIN s = 1..Len(s) /\ Len(s) \in Nat /\ Append(s, r) \in Seq(Rows)
      /\ Len(Append(s, r)) = Len(s) + 1 /\ DOMAIN Append(s, r) = 1..(Len(s) + 1)
      /\ Append(s, r)[Len(s) + 1] = r
      /\ \A i \in 1..Len(s) : Append(s, r)[i] = s[i]
  BY AppendProperties, LenProperties
<1> QED
  BY <1>1, EmptySeq

(* Steps that leave the queue, the rows and the subscriptions as they are.    *)
LEMMA StoreView ==
    ASSUME StoreInv, TypeOK, UNCHANGED <<value, queue, typed, bound, watch, sinks>>,
           \A c \in LabelCells : sinks[c] = <<>> => text'[c] \in {text[c], Shown(text[c]),
                                                              Shown(value[bound[c]])}
    PROVE  StoreInv'
<1>1. OnItsWay' /\ OwnSinks'
  BY DEF StoreInv, OnItsWay, OwnSinks, Taken, Pending
<1>2. \A v : Shown(Shown(v)) = Shown(v)
  BY DEF Shown, Blank
<1>3. Untouched'
  BY <1>2 DEF StoreInv, Untouched, Pending
<1> QED
  BY <1>1, <1>3 DEF StoreInv

(* Nothing is typed when the application starts.                              *)
LEMMA StoreInvInit == Init /\ TypeOK => StoreInv
<1> SUFFICES ASSUME Init, TypeOK PROVE StoreInv
  OBVIOUS
<1>1. \A r \in Rows : typed[r] = NoText
  BY DEF Init
<1>2. \A c \in Cells : sinks[c] = <<>> /\ watch[c] = NoRow /\ text[c] = value[bound[c]]
  BY DEF Init
<1>3. \A r : ~Pending("text", r)
  BY DEF Init, Pending, HasBlock
<1> QED
  BY <1>1, <1>2, <1>3 DEF StoreInv, OnItsWay, OwnSinks, Untouched, Cells

(* The cell that ends editing sends t to its subscribers, all of them its own *)
(* row, and t is what is typed from now on.                                   *)
LEMMA StoreSends ==
    ASSUME TypeOK, TypeOK', NEW c \in Cells, NEW t \in Text, NEW q \in Seq(Blocks),
           \A i \in DOMAIN sinks'[c] : sinks'[c][i] = bound[c],
           q = TextBlocks(sinks'[c], t), queue' = queue \o q, bound' = bound
    PROVE  /\ sinks'[c] # <<>> => LastText(queue', bound[c], t)
           /\ \A r \in Rows : \A u : (r # bound[c] \/ sinks'[c] = <<>>) =>
                 /\ LastText(queue, r, u) => LastText(queue', r, u)
                 /\ ~Pending("text", r) => ~Pending("text", r)'
<1>1. queue \in Seq(Blocks) /\ bound[c] \in Rows /\ sinks'[c] \in Seq(Rows)
  BY BindingTypes DEF TypeOK
<1>2. sinks'[c] # <<>> => LastText(queue', bound[c], t)
  BY <1>1, SentToOne
<1>3. ASSUME NEW r \in Rows, r # bound[c] \/ sinks'[c] = <<>> PROVE ~HasBlock(q, "text", r)
  <2>1. CASE r # bound[c]
    BY <1>1, <2>1, SentToOne
  <2>2. CASE sinks'[c] = <<>>
    BY <2>2 DEF TextBlocks, HasBlock
  <2> QED
    BY <1>3, <2>1, <2>2
<1>4. ASSUME NEW r \in Rows, NEW u, r # bound[c] \/ sinks'[c] = <<>>
      PROVE  /\ LastText(queue, r, u) => LastText(queue', r, u)
             /\ ~Pending("text", r) => ~Pending("text", r)'
  BY <1>1, <1>3, <1>4, LastConcat, HasNotConcat DEF Pending
<1> QED
  BY <1>2, <1>4

(* While cells keep their rows, every step keeps StoreInv.                    *)
LEMMA StoreInvStep ==
    ASSUME EditInv, TypeOK', StoreInv, Next, bound' = bound \/ Relaunch
    PROVE  StoreInv'
<1>a. /\ TypeOK /\ ValidatedValues /\ OnItsWay /\ OwnSinks /\ Untouched
      /\ queue \in Seq(Blocks)
  BY DEF EditInv, StoreInv, TypeOK
<1>0. CASE Relaunch
  <2> PICK b \in Bindings : Start(saved, b)
    BY <1>0 DEF Relaunch
  <2>1. /\ \A r \in Rows : typed'[r] = NoText
        /\ \A c \in Cells : sinks'[c] = <<>> /\ watch'[c] = NoRow
    BY DEF Start
  <2>2. \A c \in Cells : text'[c] = value'[bound'[c]]
    BY <1>a, OutputsType DEF Start, ConfigureOutputs, TypeOK
  <2>3. \A r : ~Pending("text", r)'
    BY DEF Start, Pending, HasBlock
  <2> QED
    BY <2>1, <2>2, <2>3 DEF StoreInv, OnItsWay, OwnSinks, Untouched, Cells
<1>b. SUFFICES ASSUME bound' = bound PROVE StoreInv'
  BY <1>0
<1>1. ASSUME NEW c \in Cells, EditingDidBegin(c) PROVE StoreInv'
  <2>1. \A d \in LabelCells : text'[d] \in {text[d], Shown(text[d])}
    BY <1>1, <1>a DEF EditingDidBegin, TypeOK, Cells
  <2> QED
    BY <1>1, <1>a, <2>1, StoreView DEF EditingDidBegin
<1>2. ASSUME NEW c \in FieldCells, NEW t \in FieldTexts, FieldEditingChanged(c, t)
      PROVE  StoreInv'
  <2>1. \A d \in LabelCells : text'[d] = text[d]
    BY <1>2, <1>a, CellsAssumption DEF FieldEditingChanged, TypeOK, Cells
  <2> QED
    BY <1>2, <1>a, <2>1, StoreView DEF FieldEditingChanged
<1>3. ASSUME NEW c \in FieldCells, FieldEditingDidEnd(c) PROVE StoreInv'
  <2> DEFINE q == TextBlocks(sinks'[c], text[c])
  <2>1. /\ c \in Cells /\ bound[c] \in Rows /\ text[c] \in Text /\ sinks'[c] \in Seq(Rows)
        /\ sinks[c] \in Seq(Rows) /\ bound' = bound /\ c \notin LabelCells
    BY <1>3, <1>a, BindingTypes, CellsAssumption DEF Cells, TypeOK, FieldEditingDidEnd
  <2>2. q \in Seq(Blocks) /\ queue' = queue \o q
    BY <1>3, <2>1, BlocksTypes, EmptySeq DEF FieldEditingDidEnd
  <2>3. sinks'[c] = Append(sinks[c], bound[c]) /\ \A d \in Cells : d # c => sinks'[d] = sinks[d]
    BY <1>3, <1>a, <2>1 DEF FieldEditingDidEnd, TypeOK
  <2>4. sinks'[c] # <<>> /\ \A i \in DOMAIN sinks'[c] : sinks'[c][i] = bound[c]
    <3>1. \A i \in DOMAIN sinks[c] : sinks[c][i] = bound[c]
      BY <1>a, <2>1 DEF OwnSinks
    <3>2. /\ Append(sinks[c], bound[c]) # <<>>
          /\ \A i \in DOMAIN Append(sinks[c], bound[c]) :
                Append(sinks[c], bound[c])[i] = bound[c]
      BY <2>1, <3>1, AppendSame
    <3> QED
      BY <2>3, <3>2
  <2>5. /\ LastText(queue', bound[c], text[c])
        /\ \A r \in Rows : \A u : r # bound[c] =>
              /\ LastText(queue, r, u) => LastText(queue', r, u)
              /\ ~Pending("text", r) => ~Pending("text", r)'
    BY <1>a, <2>1, <2>2, <2>4, StoreSends
  <2>6. UNCHANGED <<value, text, watch>> /\ typed' = [typed EXCEPT ![bound[c]] = text[c]]
    BY <1>3 DEF FieldEditingDidEnd
  <2>7. OnItsWay'
    BY <1>a, <2>1, <2>5, <2>6 DEF OnItsWay, Taken, TypeOK
  <2>8. OwnSinks'
    BY <1>a, <2>1, <2>3, <2>4, <2>6 DEF OwnSinks
  <2>9. Untouched'
    <3>1. \A d \in LabelCells : bound[d] # bound[c] /\ bound[d] \in Rows /\ sinks'[d] = sinks[d]
      BY <1>a, <2>1, <2>3, BindingTypes DEF TypeOK, Bindings, Cells
    <3> QED
      BY <1>a, <2>1, <2>5, <2>6, <3>1 DEF Untouched
  <2> QED
    BY <2>7, <2>8, <2>9 DEF StoreInv
<1>4. ASSUME NEW c \in LabelCells, NEW t \in SkillTexts, LabelEditingChanged(c, t)
      PROVE  StoreInv'
  <2> DEFINE r == bound[c]
             v == Validate(r, value[r])
  <2>1. c \in Cells /\ r \in SkillRows /\ r \in Rows /\ sinks[c] \in Seq(Rows)
    BY <1>a, BindingTypes DEF Cells, TypeOK
  <2>2. Attribute(r, v) = Attribute(r, value[r])
    BY <1>a, <2>1, RevalidateHarmless DEF ValidatedValues
  <2>3. /\ value' = [value EXCEPT ![r] = v] /\ UNCHANGED <<queue, typed, bound, watch>>
        /\ sinks' = [sinks EXCEPT ![c] = Append(@, r)]
    BY <1>4 DEF LabelEditingChanged
  <2>4. \A s \in Rows : Attribute(s, value'[s]) = Attribute(s, value[s])
    BY <1>a, <2>1, <2>2, <2>3 DEF TypeOK, Contents
  <2>5. OnItsWay'
    BY <1>a, <2>3, <2>4 DEF OnItsWay, Taken, Pending
  <2>6. sinks'[c] # <<>> /\ \A i \in DOMAIN sinks'[c] : sinks'[c][i] = bound[c]
    <3>1. \A i \in DOMAIN sinks[c] : sinks[c][i] = bound[c]
      BY <1>a, <2>1 DEF OwnSinks
    <3>2. /\ Append(sinks[c], bound[c]) # <<>>
          /\ \A i \in DOMAIN Append(sinks[c], bound[c]) :
                Append(sinks[c], bound[c])[i] = bound[c]
      BY <2>1, <3>1, AppendSame
    <3>3. sinks'[c] = Append(sinks[c], bound[c])
      BY <1>a, <2>1, <2>3 DEF TypeOK
    <3> QED
      BY <3>2, <3>3
  <2>7. \A d \in Cells : d # c => sinks'[d] = sinks[d]
    BY <1>a, <2>3 DEF TypeOK
  <2>8. OwnSinks'
    BY <1>a, <2>3, <2>6, <2>7 DEF OwnSinks
  <2>9. ASSUME NEW d \in LabelCells, sinks'[d] = <<>>
        PROVE  /\ ~Pending("text", bound[d])
               /\ text'[d] \in {value'[bound[d]], Shown(value'[bound[d]])}
    <3>1. d # c /\ d \in Cells /\ bound[d] # r /\ bound[d] \in Rows
      BY <1>a, <2>1, <2>6, <2>9, BindingTypes DEF Cells, TypeOK, Bindings
    <3>2. watch[d] # r
      BY <1>a, <2>1, <3>1, RowsAssumption DEF OwnSinks
    <3>3. text'[d] = text[d]
      BY <1>4, <1>a, <3>1, <3>2 DEF LabelEditingChanged, Published, TypeOK
    <3>4. value'[bound[d]] = value[bound[d]]
      BY <1>a, <2>3, <3>1 DEF TypeOK, Contents
    <3> QED
      BY <1>a, <2>7, <2>9, <3>1, <3>3, <3>4 DEF Untouched
  <2>10. Untouched'
    BY <2>3, <2>9 DEF Untouched, Pending
  <2> QED
    BY <2>5, <2>8, <2>10 DEF StoreInv
<1>5. ASSUME NEW c \in LabelCells, LabelEditingDidEnd(c) PROVE StoreInv'
  <2> DEFINE r == bound[c]
             t == Digits(text[c])
             q == TextBlocks(sinks'[c], t)
  <2>1. /\ c \in Cells /\ r \in Rows /\ r \in SkillRows /\ t \in Text /\ bound' = bound
        /\ sinks' = sinks /\ sinks'[c] \in Seq(Rows) /\ value' = value
    BY <1>5, <1>a, BindingTypes, ConversionTypes DEF Cells, TypeOK, LabelEditingDidEnd
  <2>2. q \in Seq(Blocks) /\ queue' = queue \o q
    BY <1>5, <2>1, BlocksTypes, EmptySeq DEF LabelEditingDidEnd
  <2>3. \A i \in DOMAIN sinks'[c] : sinks'[c][i] = bound[c]
    BY <1>a, <2>1 DEF OwnSinks
  <2>4. /\ sinks'[c] # <<>> => LastText(queue', r, t)
        /\ \A s \in Rows : \A u : (s # r \/ sinks'[c] = <<>>) =>
              /\ LastText(queue, s, u) => LastText(queue', s, u)
              /\ ~Pending("text", s) => ~Pending("text", s)'
    BY <1>a, <2>1, <2>2, <2>3, StoreSends
  <2>5. /\ typed' = [typed EXCEPT ![r] = t] /\ watch' = [watch EXCEPT ![c] = r]
        /\ text' = [text EXCEPT ![c] = Shown(value[r])]
    BY <1>5 DEF LabelEditingDidEnd
  <2>6. sinks'[c] = <<>> => ~Pending("text", r)' /\ Attribute(r, value[r]) = Attribute(r, Validate(r, t))
    <3>1. SUFFICES ASSUME sinks'[c] = <<>>
                   PROVE  ~Pending("text", r)' /\ Attribute(r, value[r]) = Attribute(r, Validate(r, t))
      OBVIOUS
    <3>2. ~Pending("text", r) /\ text[c] \in {value[r], Shown(value[r])}
      BY <1>a, <2>1, <3>1 DEF Untouched
    <3>3. value[r] \in Scores \union {Blank}
      BY <1>a, <2>1 DEF ValidatedValues
    <3> QED
      BY <2>1, <2>4, <3>1, <3>2, <3>3, UntouchedTaken
  <2>7. OnItsWay'
    <3> SUFFICES ASSUME NEW s \in Rows, typed'[s] # NoText
                 PROVE  LastText(queue', s, typed'[s]) \/ (~Pending("text", s)' /\ Taken(s)')
      BY DEF OnItsWay
    <3>1. CASE s = r
      BY <1>a, <2>1, <2>4, <2>5, <2>6, <3>1 DEF Taken, TypeOK
    <3>2. CASE s # r
      BY <1>a, <2>1, <2>4, <2>5, <3>2 DEF OnItsWay, Taken, TypeOK
    <3> QED
      BY <3>1, <3>2
  <2>8. OwnSinks'
    BY <1>a, <2>1, <2>5 DEF OwnSinks, TypeOK
  <2>9. Untouched'
    <3> SUFFICES ASSUME NEW d \in LabelCells, sinks'[d] = <<>>
                 PROVE  /\ ~Pending("text", bound[d])'
                        /\ text'[d] \in {value'[bound[d]], Shown(value'[bound[d]])}
      BY <2>1 DEF Untouched
    <3>1. /\ ~Pending("text", bound[d]) /\ text[d] \in {value[bound[d]], Shown(value[bound[d]])}
          /\ d \in Cells /\ bound[d] \in Rows
      BY <1>a, <2>1, BindingTypes DEF Untouched, Cells, TypeOK
    <3>2. d # c => bound[d] # r
      BY <1>a, <2>1, <3>1 DEF TypeOK, Bindings
    <3>3. ~Pending("text", bound[d])'
      BY <2>1, <2>4, <3>1, <3>2 DEF Pending
    <3>4. text'[d] \in {value'[bound[d]], Shown(value'[bound[d]])}
      BY <1>a, <2>1, <2>5, <3>1 DEF TypeOK
    <3> QED
      BY <3>3, <3>4
  <2> QED
    BY <2>7, <2>8, <2>9 DEF StoreInv
<1>6. ASSUME NEW c \in Cells, NEW r \in Rows, CellFor(c, r) PROVE StoreInv'
  BY <1>6, <1>a, <1>b DEF CellFor, TypeOK, Bindings
<1>7. CASE TextSinkTraps
  BY <1>7, <1>a, StoreView DEF TextSinkTraps, viewVars
<1>8. CASE TextSink
  <2> DEFINE r == Head(queue).row
             t == Head(queue).text
             v == Validate(r, t)
             q == FormBlocks(r, formSinks'[r])
  <2>1. /\ queue # <<>> /\ Head(queue).kind = "text"
        /\ value' = [value EXCEPT ![r] = v]
        /\ text' = Published(r, v)
        /\ queue' = Tail(queue) \o q
        /\ UNCHANGED <<bound, watch, sinks, typed>>
    BY <1>8, <1>a DEF TextSink, NextBlock, TypeOK
  <2>2. r \in Rows /\ t \in Text /\ Tail(queue) \in Seq(Blocks)
    BY <1>a, <2>1, HeadBlock
  <2>3. formSinks'[r] \in Nat /\ q \in Seq(Blocks)
    BY <2>2, BlocksTypes, EmptySeq DEF TypeOK
  <2>4. \A s : ~HasBlock(q, "text", s)
    BY <2>3, FormBlocksNoText
  <2>5. \A s : /\ ~HasBlock(Tail(queue), "text", s) => ~Pending("text", s)'
               /\ ~Pending("text", s) => ~Pending("text", s)'
               /\ \A u : LastText(Tail(queue), s, u) => LastText(queue', s, u)
    BY <1>a, <2>1, <2>2, <2>3, <2>4, HasNotConcat, HasNotTail, LastConcat DEF Pending
  <2>6. /\ value'[r] = v
        /\ \A s \in Rows : s # r => value'[s] = value[s]
    BY <1>a, <2>1, <2>2 DEF TypeOK, Contents
  <2>7. Pending("text", r)
    BY <1>a, <2>1, HeadTailProperties, LenProperties, EmptySeq DEF Pending, HasBlock
  <2>8. OnItsWay'
    <3> SUFFICES ASSUME NEW s \in Rows, typed[s] # NoText
                 PROVE  LastText(queue', s, typed[s]) \/ (~Pending("text", s)' /\ Taken(s)')
      BY <2>1 DEF OnItsWay
    <3>1. CASE LastText(queue, s, typed[s])
      <4>1. \/ LastText(Tail(queue), s, typed[s])
            \/ r = s /\ t = typed[s] /\ ~HasBlock(Tail(queue), "text", s)
        BY <1>a, <2>1, <3>1, LastTail
      <4> QED
        BY <2>1, <2>5, <2>6, <4>1 DEF Taken
    <3>2. CASE ~Pending("text", s) /\ Taken(s)
      BY <2>1, <2>5, <2>6, <2>7, <3>2 DEF Taken
    <3> QED
      BY <1>a, <3>1, <3>2 DEF OnItsWay
  <2>9. OwnSinks'
    BY <1>a, <2>1 DEF OwnSinks
  <2>10. Untouched'
    <3> SUFFICES ASSUME NEW d \in LabelCells, sinks[d] = <<>>
                 PROVE  /\ ~Pending("text", bound[d])'
                        /\ text'[d] \in {value'[bound[d]], Shown(value'[bound[d]])}
      BY <2>1 DEF Untouched, Pending
    <3>1. /\ ~Pending("text", bound[d]) /\ text[d] \in {value[bound[d]], Shown(value[bound[d]])}
          /\ d \in Cells /\ bound[d] \in Rows
      BY <1>a, BindingTypes DEF Untouched, Cells, TypeOK
    <3>2. bound[d] # r
      BY <2>7, <3>1
    <3>3. watch[d] # r
      BY <1>a, <2>2, <3>1, <3>2, RowsAssumption DEF OwnSinks
    <3> QED
      BY <2>1, <2>5, <2>6, <3>1, <3>2, <3>3 DEF Published
  <2> QED
    BY <2>8, <2>9, <2>10 DEF StoreInv
<1>9. CASE FormSink
  <2> DEFINE r == Head(queue).row
  <2>1. /\ queue # <<>> /\ Head(queue).kind = "form"
        /\ text' = Published(r, value[r])
        /\ queue' = Tail(queue)
        /\ UNCHANGED <<value, bound, watch, sinks, typed>>
    BY <1>9 DEF FormSink, NextBlock
  <2>2. \A s : /\ ~Pending("text", s) => ~Pending("text", s)'
               /\ \A u : LastText(queue, s, u) => LastText(queue', s, u)
    BY <1>a, <2>1, HasNotTail, LastTail DEF Pending
  <2>3. OnItsWay'
    BY <1>a, <2>1, <2>2 DEF OnItsWay, Taken
  <2>4. OwnSinks'
    BY <1>a, <2>1 DEF OwnSinks
  <2>5. r \in Rows
    BY <1>a, <2>1, HeadBlock
  <2>6. Untouched'
    <3> SUFFICES ASSUME NEW d \in LabelCells, sinks[d] = <<>>
                 PROVE  /\ ~Pending("text", bound[d])'
                        /\ text'[d] \in {value[bound[d]], Shown(value[bound[d]])}
      BY <2>1 DEF Untouched, Pending
    <3>1. /\ ~Pending("text", bound[d]) /\ text[d] \in {value[bound[d]], Shown(value[bound[d]])}
          /\ d \in Cells
      BY <1>a DEF Untouched, Cells
    <3>2. watch[d] = r => bound[d] = r
      BY <1>a, <2>5, <3>1, RowsAssumption DEF OwnSinks
    <3> QED
      BY <2>1, <2>2, <3>1, <3>2 DEF Published
  <2> QED
    BY <2>3, <2>4, <2>6 DEF StoreInv
<1>10. CASE Submit
  <2>1. \A c \in Cells : text'[c] = value'[bound[c]]
    BY <1>10, <1>b DEF Submit
  <2>2. CASE ReloadKeepsFocus
    <3>1. /\ typed' = [r \in Rows |-> IF Pending("text", r) THEN typed[r] ELSE NoText]
          /\ UNCHANGED <<sinks, queue, watch, bound>>
      BY <1>b, <2>2 DEF ReloadKeepsFocus
    <3>2. OnItsWay'
      BY <1>a, <3>1 DEF OnItsWay
    <3>3. OwnSinks'
      BY <1>a, <3>1 DEF OwnSinks
    <3>4. Untouched'
      BY <1>a, <2>1, <3>1 DEF Untouched, Pending, Cells
    <3> QED
      BY <3>2, <3>3, <3>4 DEF StoreInv
  <2>3. ASSUME NEW c \in Cells, ReloadEndsEditing(c) PROVE StoreInv'
    <3> DEFINE r == bound[c]
               t == IF c \in FieldCells THEN text[c]
                    ELSE Digits(IF watch[c] = NoRow THEN text[c] ELSE Shown(BlankForm[watch[c]]))
               q == TextBlocks(sinks'[c], t)
    <3>1. /\ r \in Rows /\ sinks'[c] \in Seq(Rows) /\ sinks[c] \in Seq(Rows)
          /\ text[c] \in Text /\ (watch[c] # NoRow => BlankForm[watch[c]] \in Text)
          /\ c \notin FieldCells => r \in SkillRows
      BY <1>a, BindingTypes, BlankFormType DEF TypeOK, Contents, Cells, Rows
    <3>2. t \in Text
      BY <3>1, ConversionTypes
    <3>3. /\ sinks' = IF c \in FieldCells THEN [sinks EXCEPT ![c] = Append(@, r)] ELSE sinks
          /\ queue' = queue \o q
          /\ typed' = [s \in Rows |-> IF s = r /\ sinks'[c] # <<>> THEN t
                                      ELSE IF Pending("text", s) THEN typed[s] ELSE NoText]
          /\ watch' = IF c \in FieldCells THEN watch ELSE [watch EXCEPT ![c] = r]
      BY <2>3 DEF ReloadEndsEditing
    <3>4. q \in Seq(Blocks)
      BY <3>1, <3>2, BlocksTypes, EmptySeq
    <3>5. /\ \A i \in DOMAIN sinks'[c] : sinks'[c][i] = r
          /\ \A d \in Cells : d # c => sinks'[d] = sinks[d]
      <4>1. CASE c \in FieldCells
        <5>1. sinks'[c] = Append(sinks[c], r) /\ \A d \in Cells : d # c => sinks'[d] = sinks[d]
          BY <1>a, <3>3, <4>1 DEF TypeOK
        <5> QED
          BY <1>a, <3>1, <5>1 DEF OwnSinks
      <4>2. CASE c \notin FieldCells
        BY <1>a, <3>3, <4>2 DEF OwnSinks
      <4> QED
        BY <4>1, <4>2
    <3> HIDE DEF t, q
    <3>6. /\ sinks'[c] # <<>> => LastText(queue', r, t)
          /\ \A s \in Rows : \A u : (s # r \/ sinks'[c] = <<>>) =>
                /\ LastText(queue, s, u) => LastText(queue', s, u)
                /\ ~Pending("text", s) => ~Pending("text", s)'
      BY <1>a, <1>b, <3>2, <3>3, <3>4, <3>5, StoreSends DEF q
    <3>7. OnItsWay'
      <4> SUFFICES ASSUME NEW s \in Rows, typed'[s] # NoText PROVE LastText(queue', s, typed'[s])
        BY DEF OnItsWay
      <4>1. CASE s = r /\ sinks'[c] # <<>>
        BY <3>3, <3>6, <4>1
      <4>2. CASE s # r \/ sinks'[c] = <<>>
        <5>1. Pending("text", s) /\ typed'[s] = typed[s]
          BY <3>3, <4>2
        <5>2. LastText(queue, s, typed[s])
          BY <1>a, <5>1 DEF OnItsWay
        <5> QED
          BY <3>6, <4>2, <5>1, <5>2
      <4> QED
        BY <4>1, <4>2
    <3>8. OwnSinks'
      BY <1>a, <1>b, <3>3, <3>5 DEF OwnSinks, TypeOK
    <3>9. Untouched'
      <4> SUFFICES ASSUME NEW d \in LabelCells, sinks'[d] = <<>> PROVE ~Pending("text", bound[d])'
        BY <1>b, <2>1 DEF Untouched, Pending, Cells
      <4>1. d \in Cells /\ bound[d] \in Rows /\ (d # c => bound[d] # r)
        BY <1>a, BindingTypes DEF Cells, TypeOK, Bindings
      <4>2. sinks[d] = <<>>
        BY <3>3, <3>5, <4>1, CellsAssumption
      <4>3. ~Pending("text", bound[d])
        BY <1>a, <4>2 DEF Untouched
      <4> QED
        BY <3>6, <4>1, <4>3, <1>b DEF Pending
    <3> QED
      BY <3>7, <3>8, <3>9 DEF StoreInv
  <2> QED
    BY <1>10, <2>2, <2>3 DEF Submit
<1> QED
  BY <1>0, <1>1, <1>2, <1>3, <1>4, <1>5, <1>6, <1>7, <1>8, <1>9, <1>10 DEF Next, Deliver

(* Every text a user commits is in the store once the main queue is empty, as *)
(* validateValue leaves it: through sinks that pile up with each edit, late   *)
(* deliveries, submits and relaunches, for every number of rows and cells.    *)
(* The hypothesis is that a cell stays with its row until the next launch.    *)
THEOREM CommittedReachesStore == Spec /\ CellsStay => []EditReachesStore
<1>1. StoreInv /\ EditInv => EditReachesStore
  <2> SUFFICES ASSUME StoreInv, EditInv, queue = <<>>, NEW r \in Rows, typed[r] # NoText
               PROVE  saved[r] = Attribute(r, Validate(r, typed[r]))
    BY DEF EditReachesStore
  <2>1. ~LastText(queue, r, typed[r]) /\ ~Pending("form", r)
    BY DEF LastText, Pending, HasBlock
  <2> QED
    BY <2>1 DEF StoreInv, OnItsWay, Taken, EditInv, RowsAgree, CopiesAgree
<1>2. StoreInv /\ UNCHANGED vars => StoreInv'
  BY DEF StoreInv, OnItsWay, OwnSinks, Untouched, Taken, Pending, vars, viewVars, formVars
<1>3. (StoreInv /\ EditInv /\ TypeOK' /\ [Next]_vars /\ [bound' = bound \/ Relaunch]_vars)
         => StoreInv'
  <2> SUFFICES ASSUME StoreInv, EditInv, TypeOK', [Next]_vars,
                      [bound' = bound \/ Relaunch]_vars
               PROVE  StoreInv'
    OBVIOUS
  <2>1. CASE UNCHANGED vars
    BY <1>2, <2>1
  <2>2. CASE Next /\ (bound' = bound \/ Relaunch)
    BY <2>2, StoreInvStep
  <2> QED
    BY <2>1, <2>2
<1> QED
  BY <1>1, <1>3, StoreInvInit, TypeCorrect, EditInvariant, PTL DEF Spec, CellsStay

-----------------------------------------------------------------------------
(* CoreDataService, with any bound on its forms and failing fetches.          *)

(* Adding a form to a store adds it to its set of forms.                      *)
LEMMA FormsAdd ==
    ASSUME NEW s \in [Ids -> Fields \union {Absent}], NEW i \in Ids
    PROVE  Forms([s EXCEPT ![i] = BlankFields]) = Forms(s) \union {i}
  BY FieldsAssumption DEF Forms

(* Changing the fields of a form that exists leaves the set of forms alone.   *)
LEMMA FormsEdit ==
    ASSUME NEW s \in [Ids -> Fields \union {Absent}], NEW i \in Forms(s), NEW c \in Fields
    PROVE  Forms([s EXCEPT ![i] = c]) = Forms(s)
  BY FieldsAssumption DEF Forms

(* A store with nothing in it has no forms.                                   *)
LEMMA FormsNothing == Forms(Nothing) = {}
  BY DEF Forms, Nothing

(* The forms of a store can be counted.                                       *)
LEMMA FormsFinite ==
    ASSUME NEW s
    PROVE  IsFiniteSet(Forms(s)) /\ Cardinality(Forms(s)) \in Nat
  <1>1. IsFiniteSet(Ids)
    BY FS_Interval, ServiceBoundsAssumption DEF Ids
  <1>2. Forms(s) \subseteq Ids
    BY DEF Forms
  <1> QED
    BY <1>1, <1>2, FS_Subset, FS_CardinalityType

-----------------------------------------------------------------------------
(* The type invariant of the service: the fields of every form, in memory and *)
(* in the file, are fields, and the bounds are respected.                     *)
THEOREM ServiceTypeCorrect == ServiceSpec => []ServiceTypeOK
<1>1. ServiceInit => ServiceTypeOK
  BY ServiceBoundsAssumption DEF ServiceInit, ServiceTypeOK, Nothing, Ids
<1>2. ServiceTypeOK /\ [ServiceNext]_serviceVars => ServiceTypeOK'
  <2> SUFFICES ASSUME ServiceTypeOK, [ServiceNext]_serviceVars PROVE ServiceTypeOK'
    OBVIOUS
  <2> USE FieldsAssumption, ServiceBoundsAssumption DEF ServiceTypeOK
  <2>1. CASE Launch
    BY <2>1 DEF Launch
  <2>2. CASE LoadForm
    BY <2>2 DEF LoadForm, Forms
  <2>3. CASE LoadNothing
    BY <2>3 DEF LoadNothing, FetchThrows
  <2>4. CASE MakeNewBlankForm
    BY <2>4 DEF MakeNewBlankForm, Ids
  <2>5. CASE Edit
    BY <2>5 DEF Edit
  <2>6. CASE SaveContext
    BY <2>6 DEF SaveContext
  <2>7. CASE Delete
    BY <2>7 DEF Delete, Nothing, Forms
  <2>8. CASE DeleteFails
    BY <2>8 DEF DeleteFails, FetchThrows
  <2>9. CASE OtherServiceLoad
    BY <2>9 DEF OtherServiceLoad, FetchThrows, Ids
  <2>10. CASE Crash
    BY <2>10 DEF Crash
  <2>11. CASE UNCHANGED serviceVars
    BY <2>11 DEF serviceVars
  <2> QED
    BY <2>1, <2>2, <2>3, <2>4, <2>5, <2>6, <2>7, <2>8, <2>9, <2>10, <2>11 DEF ServiceNext
<1> QED
  BY <1>1, <1>2, PTL DEF ServiceSpec

-----------------------------------------------------------------------------
(* The inductive invariant.  Safety speaks of the file; what makes it hold is *)
(* that the context always has the same forms as the file (Aligned), that ids *)
(* not yet generated are nowhere (Generated), and that makeNewBlankForm is    *)
(* only reached with room for one more form under the bound (Room).           *)
Aligned == Forms(context) = Forms(disk)

Generated == /\ Forms(disk) \subseteq 1..(nextId - 1)
             /\ submitted \subseteq 1..(nextId - 1)

Room == pc = "blank" => Cardinality(Forms(disk)) <= failures

NotLoaded == pc = "down" => form = NoForm

ServiceInv == /\ ServiceTypeOK /\ Aligned /\ Generated /\ Room /\ NotLoaded
              /\ FormsBounded /\ LoadedFormExists /\ SubmittedGone

(* The service starts with an empty store and context.                        *)
LEMMA ServiceInvInit == ServiceInit => ServiceInv
<1> SUFFICES ASSUME ServiceInit PROVE ServiceInv
  OBVIOUS
<1>1. ServiceTypeOK
  BY ServiceBoundsAssumption DEF ServiceInit, ServiceTypeOK, Nothing, Ids
<1>2. Forms(disk) = {} /\ Forms(context) = {}
  BY FormsNothing DEF ServiceInit
<1>3. Cardinality(Forms(disk)) = 0
  BY <1>2, FS_EmptySet
<1> QED
  BY <1>1, <1>2, <1>3, ServiceBoundsAssumption
  DEF ServiceInit, ServiceInv, Aligned, Generated, Room, NotLoaded, FormsBounded,
      LoadedFormExists, SubmittedGone

(* A step that writes the blank form of a fresh id to the file and adds it to *)
(* the context preserves what does not depend on pc.                          *)
LEMMA BlankAdded ==
    ASSUME ServiceInv, nextId \in Ids,
           Forms(disk)' = Forms(disk) \union {nextId},
           Forms(context)' = Forms(context) \union {nextId},
           nextId' = nextId + 1, submitted' = submitted
    PROVE  /\ Aligned' /\ Generated'
           /\ submitted' \intersect Forms(disk)' = {}
           /\ Cardinality(Forms(disk))' = Cardinality(Forms(disk)) + 1
<1>1. nextId \notin Forms(disk) /\ nextId \notin submitted
  BY DEF ServiceInv, Generated, ServiceTypeOK, Ids
<1>2. Cardinality(Forms(disk))' = Cardinality(Forms(disk)) + 1
  BY <1>1, FormsFinite, FS_AddElement
<1>3. Aligned' /\ Generated'
  BY ServiceBoundsAssumption DEF ServiceInv, Aligned, Generated, ServiceTypeOK, Ids
<1> QED
  BY <1>1, <1>2, <1>3 DEF ServiceInv, SubmittedGone

(* Every operation, crash and failing fetch keeps the invariant.              *)
LEMMA ServiceInvStep == ServiceInv /\ ServiceTypeOK' /\ [ServiceNext]_serviceVars => ServiceInv'
<1> SUFFICES ASSUME ServiceInv, ServiceTypeOK', [ServiceNext]_serviceVars PROVE ServiceInv'
  OBVIOUS
<1> USE DEF ServiceInv
<1>f. /\ Cardinality(Forms(disk)) \in Nat /\ Cardinality(Forms(context)) \in Nat
      /\ failures \in Nat
  BY FormsFinite, ServiceBoundsAssumption DEF ServiceTypeOK
<1>1. CASE Launch
  BY <1>1 DEF Launch, Aligned, Generated, Room, NotLoaded, FormsBounded, LoadedFormExists,
     SubmittedGone
<1>2. CASE LoadForm
  BY <1>2 DEF LoadForm, Aligned, Generated, Room, NotLoaded, FormsBounded, LoadedFormExists,
     SubmittedGone
<1>3. CASE LoadNothing
  <2>1. Cardinality(Forms(disk)) <= failures'
    BY <1>3, <1>f, FS_EmptySet DEF LoadNothing, FetchThrows, Aligned, FormsBounded
  <2>2. failures' \in Nat
    BY ServiceBoundsAssumption DEF ServiceTypeOK
  <2> QED
    BY <1>3, <1>f, <2>1, <2>2 DEF LoadNothing, Aligned, Generated, Room, NotLoaded, FormsBounded,
       LoadedFormExists, SubmittedGone
<1>4. CASE MakeNewBlankForm
  <2>1. Forms(context)' = Forms(context) \union {nextId}
    BY <1>4, FormsAdd DEF MakeNewBlankForm, ServiceTypeOK
  <2>2. Forms(disk)' = Forms(disk) \union {nextId}
    BY <1>4, <2>1 DEF MakeNewBlankForm, Aligned
  <2>3. /\ Aligned' /\ Generated' /\ submitted' \intersect Forms(disk)' = {}
        /\ Cardinality(Forms(disk))' = Cardinality(Forms(disk)) + 1
    BY <1>4, <2>1, <2>2, BlankAdded DEF MakeNewBlankForm
  <2>4. FormsBounded'
    BY <1>4, <1>f, <2>3 DEF MakeNewBlankForm, Room, FormsBounded
  <2>5. Room' /\ NotLoaded' /\ LoadedFormExists' /\ SubmittedGone'
    BY <1>4, <2>3 DEF MakeNewBlankForm, Room, NotLoaded, LoadedFormExists, SubmittedGone
  <2> QED
    BY <2>3, <2>4, <2>5
<1>5. CASE Edit
  <2>1. Forms(context)' = Forms(context)
    BY <1>5, FormsEdit DEF Edit, ServiceTypeOK, LoadedFormExists
  <2> QED
    BY <1>5, <2>1 DEF Edit, Aligned, Generated, Room, NotLoaded, FormsBounded, LoadedFormExists,
       SubmittedGone
<1>6. CASE SaveContext
  BY <1>6 DEF SaveContext, Aligned, Generated, Room, NotLoaded, FormsBounded, LoadedFormExists,
     SubmittedGone
<1>7. CASE Delete
  <2>1. Forms(context)' = {} /\ Forms(disk)' = {} /\ Cardinality(Forms(disk))' = 0
    BY <1>7, FormsNothing, FS_EmptySet DEF Delete
  <2>2. Aligned' /\ Generated'
    BY <1>7, <2>1 DEF Delete, Aligned, Generated
  <2>3. FormsBounded' /\ Room'
    BY <1>7, <1>f, <2>1 DEF Delete, FormsBounded, Room
  <2>4. NotLoaded' /\ LoadedFormExists' /\ SubmittedGone'
    BY <1>7, <2>1 DEF Delete, NotLoaded, LoadedFormExists, SubmittedGone
  <2> QED
    BY <2>2, <2>3, <2>4
<1>8. CASE DeleteFails
  BY <1>8, <1>f DEF DeleteFails, FetchThrows, Aligned, Generated, Room, NotLoaded, FormsBounded,
     LoadedFormExists, SubmittedGone
<1>9. CASE OtherServiceLoad
  <2>1. /\ Forms(context)' = Forms(context) \union {nextId}
        /\ Forms(disk)' = Forms(disk) \union {nextId}
    BY <1>9, FormsAdd DEF OtherServiceLoad, ServiceTypeOK
  <2>2. /\ Aligned' /\ Generated' /\ submitted' \intersect Forms(disk)' = {}
        /\ Cardinality(Forms(disk))' = Cardinality(Forms(disk)) + 1
    BY <1>9, <2>1, BlankAdded DEF OtherServiceLoad
  <2>3. FormsBounded'
    BY <1>9, <1>f, <2>2 DEF OtherServiceLoad, FetchThrows, FormsBounded
  <2>4. Room' /\ NotLoaded' /\ LoadedFormExists' /\ SubmittedGone'
    BY <1>9, <2>1, <2>2 DEF OtherServiceLoad, Room, NotLoaded, LoadedFormExists, SubmittedGone
  <2> QED
    BY <2>2, <2>3, <2>4
<1>10. CASE Crash
  <2>1. NoForm \notin submitted
    <3>1. submitted \subseteq Nat
      BY DEF ServiceTypeOK, Ids
    <3> QED
      BY <3>1, ServiceBoundsAssumption
  <2> QED
    BY <1>10, <2>1 DEF Crash, Aligned, Generated, Room, NotLoaded, FormsBounded,
       LoadedFormExists, SubmittedGone
<1>11. CASE UNCHANGED serviceVars
  BY <1>11 DEF serviceVars, Aligned, Generated, Room, NotLoaded, FormsBounded, LoadedFormExists,
     SubmittedGone
<1> QED
  BY <1>1, <1>2, <1>3, <1>4, <1>5, <1>6, <1>7, <1>8, <1>9, <1>10, <1>11 DEF ServiceNext

(* Whatever is interrupted and however often fetches throw, the file never    *)
(* holds more than one form beyond the failures.                              *)
THEOREM StoreBounded == ServiceSpec => []FormsBounded
<1>1. ServiceInv => FormsBounded
  BY DEF ServiceInv
<1> QED
  BY <1>1, ServiceTypeCorrect, ServiceInvInit, ServiceInvStep, PTL DEF ServiceSpec

(* Between its methods the service always has a form loaded that exists in    *)
(* memory and in the file: load() and delete() never leave a dead object.     *)
THEOREM LoadedFormAlive == ServiceSpec => []LoadedFormExists
<1>1. ServiceInv => LoadedFormExists
  BY DEF ServiceInv
<1> QED
  BY <1>1, ServiceTypeCorrect, ServiceInvInit, ServiceInvStep, PTL DEF ServiceSpec

(* delete() is final: no crash brings a submitted form back, and no new form  *)
(* takes its id.                                                              *)
THEOREM SubmittedStaysGone == ServiceSpec => []SubmittedGone
<1>1. ServiceInv => SubmittedGone
  BY DEF ServiceInv
<1> QED
  BY <1>1, ServiceTypeCorrect, ServiceInvInit, ServiceInvStep, PTL DEF ServiceSpec

-----------------------------------------------------------------------------
(* Without fetch failures the only form in the file is the one whose id was   *)
(* generated last, and makeNewBlankForm is only called on an empty file.      *)
OnlyNewest == /\ Forms(disk) \subseteq {nextId - 1}
              /\ pc = "blank" => Forms(disk) = {}

Undisturbed == failures = 0 => OnlyNewest

(* A step after which no fetch has failed is none in which one fails.         *)
LEMMA NoFetchFailed ==
    ServiceInv /\ [ServiceNext]_serviceVars /\ failures' = 0 => failures = 0 /\ ~FetchThrows
<1> SUFFICES ASSUME ServiceInv, [ServiceNext]_serviceVars, failures' = 0
             PROVE  failures = 0 /\ ~FetchThrows
  OBVIOUS
<1>1. failures \in Nat
  BY ServiceBoundsAssumption DEF ServiceInv, ServiceTypeOK
<1>2. ~FetchThrows
  BY <1>1 DEF FetchThrows
<1> QED
  BY <1>2 DEF ServiceNext, Launch, LoadForm, LoadNothing, MakeNewBlankForm, Edit, SaveContext,
     Delete, DeleteFails, OtherServiceLoad, Crash, serviceVars

(* As long as fetches succeed, every step leaves one form, the newest.        *)
LEMMA UndisturbedStep == ServiceInv /\ Undisturbed /\ [ServiceNext]_serviceVars => Undisturbed'
<1> SUFFICES ASSUME ServiceInv, Undisturbed, [ServiceNext]_serviceVars, failures' = 0
             PROVE  OnlyNewest'
  BY DEF Undisturbed
<1>1. OnlyNewest /\ ~FetchThrows
  BY NoFetchFailed DEF Undisturbed
<1>2. CASE MakeNewBlankForm
  <2>1. Forms(context)' = Forms(context) \union {nextId}
    BY <1>2, FormsAdd DEF MakeNewBlankForm, ServiceInv, ServiceTypeOK
  <2>2. Forms(disk)' = {nextId}
    BY <1>1, <1>2, <2>1 DEF MakeNewBlankForm, OnlyNewest, ServiceInv, Aligned
  <2>3. nextId' - 1 = nextId
    BY <1>2 DEF MakeNewBlankForm, ServiceInv, ServiceTypeOK
  <2> QED
    BY <1>1, <1>2, <2>2, <2>3 DEF MakeNewBlankForm, OnlyNewest
<1>3. CASE Delete
  BY <1>1, <1>3, FormsNothing DEF Delete, OnlyNewest
<1>4. CASE SaveContext
  BY <1>1, <1>4 DEF SaveContext, OnlyNewest, ServiceInv, Aligned
<1>5. CASE LoadNothing
  BY <1>1, <1>5 DEF LoadNothing, OnlyNewest, ServiceInv, Aligned
<1>6. CASE Launch \/ LoadForm \/ Edit \/ Crash \/ UNCHANGED serviceVars
  BY <1>1, <1>6 DEF Launch, LoadForm, Edit, Crash, serviceVars, OnlyNewest
<1> QED
  BY <1>1, <1>2, <1>3, <1>4, <1>5, <1>6 DEF ServiceNext, DeleteFails, OtherServiceLoad

(* Until a fetch fails every step of the service is a step of the draft it    *)
(* promises, or none.                                                         *)
LEMMA StepImplementsDraft ==
    ServiceInv /\ Undisturbed /\ ServiceInv' /\ [ServiceNext]_serviceVars
       => [failures' = 0 => Draft!DraftNext]_(Draft!draftVars)
<1> SUFFICES ASSUME ServiceInv, Undisturbed, ServiceInv', [ServiceNext]_serviceVars, failures' = 0
             PROVE  [Draft!DraftNext]_(Draft!draftVars)
  BY DEF Draft!draftVars
<1>1. OnlyNewest /\ OnlyNewest' /\ ~FetchThrows
  BY NoFetchFailed, UndisturbedStep DEF Undisturbed
<1>2. ~Empty => Forms(disk) = {nextId - 1} /\ nextId - 1 \in Ids
  BY <1>1 DEF Empty, OnlyNewest, Forms
<1> USE DEF Draft!DraftNext, Draft!draftVars
<1>3. CASE MakeNewBlankForm
  <2>1. Empty
    BY <1>1, <1>3 DEF MakeNewBlankForm, OnlyNewest, Empty
  <2>2. ~Empty' /\ nextId' - 1 = nextId /\ context'[nextId] = BlankFields /\ disk'[nextId] = BlankFields
    BY <1>3, FieldsAssumption DEF MakeNewBlankForm, Empty, Forms, ServiceInv, ServiceTypeOK
  <2> QED
    BY <2>1, <2>2
<1>4. CASE Delete
  <2>1. Empty'
    BY <1>4, FormsNothing DEF Delete, Empty
  <2>2. ~Empty /\ nextId' = nextId
    BY <1>4 DEF Delete, Empty, ServiceInv, Aligned
  <2> QED
    BY <2>1, <2>2 DEF Draft!DraftSubmit, ServiceInv, ServiceTypeOK
<1>5. CASE SaveContext
  <2>1. Empty' = Empty
    BY <1>5 DEF SaveContext, Empty, ServiceInv, Aligned
  <2> QED
    BY <1>5, <2>1 DEF SaveContext, Draft!DraftSave
<1>6. CASE Edit
  <2>1. Empty' = Empty /\ ~Empty /\ form = nextId - 1
    BY <1>2, <1>6 DEF Edit, Empty, ServiceInv, LoadedFormExists
  <2>2. context'[nextId - 1] \in Fields
    BY <1>2, <1>6, <2>1 DEF Edit, ServiceInv, ServiceTypeOK
  <2> QED
    BY <1>6, <2>1, <2>2 DEF Edit, Draft!DraftEdit
<1>7. CASE Crash
  <2>1. Empty' = Empty
    BY <1>7 DEF Crash, Empty
  <2> QED
    BY <1>7, <2>1 DEF Crash, Draft!DraftForget
<1>8. CASE Launch \/ LoadForm \/ LoadNothing \/ UNCHANGED serviceVars
  BY <1>8 DEF Launch, LoadForm, LoadNothing, serviceVars, Empty
<1> QED
  BY <1>1, <1>3, <1>4, <1>5, <1>6, <1>7, <1>8 DEF ServiceNext, DeleteFails, OtherServiceLoad

(* Until a fetch fails, CoreDataService implements FormStore: whatever is     *)
(* interrupted, there is one unfinished form, a crash returns it to its last  *)
(* save, and a submit replaces it by a blank one as if in one step, although  *)
(* the code writes the file twice.                                            *)
THEOREM ImplementsDraft == ServiceSpec => KeepsDraft
<1>1. ServiceInit => Draft!DraftInit /\ Undisturbed
  BY FormsNothing DEF ServiceInit, Draft!DraftInit, Undisturbed, OnlyNewest, Empty
<1> QED
  BY <1>1, UndisturbedStep, StepImplementsDraft, ServiceTypeCorrect, ServiceInvInit,
     ServiceInvStep, PTL
  DEF ServiceSpec, KeepsDraft
=============================================================================
