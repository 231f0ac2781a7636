---------------------------- MODULE FormEditing ----------------------------
(* How a text travels from a text field to the form: the table view cells     *)
(* (View/*TableViewCell.swift), one CellViewModel per row, and the one        *)
(* FormViewModel of the screen.  Everything runs on the main thread, but each *)
(* hop of a text is a Combine subscription with receive(on: DispatchQueue.    *)
(* main), so between two hops any other user event can be handled, and what   *)
(* was true when the text was sent may not be true when it arrives.           *)
EXTENDS Integers, Sequences

CONSTANTS FieldRows, SkillRows,    \* rows of form.plist: free text and 0..50 scores
          FieldCells, LabelCells,  \* reusable cells of the two kinds the table has made
          FieldTexts, SkillTexts,  \* what the user types into a cell of each kind
          NoRow, NoCell, NoText, NotSent,
          MaxForms,                \* bound: forms started
          MaxEvents                \* bound: times a user starts editing or types

Rows == FieldRows \union SkillRows
Cells == FieldCells \union LabelCells

(* A text that is a decimal numeral is represented by its number.  The other  *)
(* texts are told apart as far as Int(_) and the digit filter do.             *)
Blank == -1        \* ""
Unreadable == -2   \* digits, but Int(_) is nil: beyond Int.max, or not ASCII
Letters == -3      \* no digit in it
Text == Nat \union {Blank, Unreadable, Letters}

ASSUME RowsAssumption == FieldRows \intersect SkillRows = {} /\ NoRow \notin Rows
ASSUME CellsAssumption == FieldCells \intersect LabelCells = {} /\ NoCell \notin Cells
ASSUME TextsAssumption == /\ FieldTexts \subseteq Text /\ SkillTexts \subseteq Text
                          /\ NoText \notin Text
ASSUME BoundsAssumption == MaxForms \in Nat \ {0} /\ MaxEvents \in Nat

VARIABLES running,   \* the process is alive
          value,     \* CellViewModel.value of each row
          prop,      \* the FormViewModel property of each row
          model,     \* FormViewModel.model: the attributes of the current Form
          saved,     \* the same form in the persistent store
          formNo,    \* which form that is: its id
          sent,      \* per form, what FirebaseService.update was last given
          bound,     \* the row each cell shows (its cellVM)
          text,      \* textField.text of each cell
          watch,     \* the row whose $value drives a label cell's text
          sinks,     \* per cell, the rows subscribed to its didChange, in order
          formSinks, \* per row, how often FormViewModel listens to cellDidChange
          focus,     \* the cell being edited
          queue,     \* blocks waiting on the main queue
          events,    \* user events so far
          typed,     \* history: the text last committed in a row's own cell
          since      \* history: how the current form has fared since it was made

viewVars == <<bound, text, watch, focus>>
formVars == <<prop, model, saved, formNo, sent>>
vars == <<running, value, viewVars, formVars, sinks, formSinks, queue, events,
          typed, since>>

-----------------------------------------------------------------------------
(* Conversions.                                                               *)

MaxScore == 50

(* Int(value)! in validateValue stops the process.                            *)
Traps(r, t) == r \in SkillRows /\ t \notin Nat \union {Blank}

(* Slip in validateValue: the bound is off by one.                            *)
ValidateOffByOne(r, t) == IF r \in SkillRows /\ t > MaxScore + 1 THEN MaxScore
                          ELSE IF r \in SkillRows /\ t <= 0 THEN Blank ELSE t

(* CellViewModel.validateValue, where it does not trap.                       *)
Validate(r, t) == IF r \in SkillRows /\ t > MaxScore THEN MaxScore
                  ELSE IF r \in SkillRows /\ t <= 0 THEN Blank ELSE t

(* Slip: what Int16(_) does not read is stored as nil.                        *)
Int16OrNil(t) == IF t \in 0..32767 THEN t ELSE NoText

(* Int16(text) ?? 0                                                           *)
Int16Of(t) == IF t \in 0..32767 THEN t ELSE 0

(* What the observer of a row's property stores in the Form.                  *)
Attribute(r, t) == IF r \in SkillRows THEN Int16Of(t) ELSE t

(* The getters: String(describing:) makes the numeral of a score, so that an  *)
(* untouched score reads "0" and not "".                                      *)
Outputs(m) == [r \in Rows |-> m[r]]

BlankForm == [r \in Rows |-> IF r \in SkillRows THEN 0 ELSE Blank]

(* editingDidEnd of a label cell keeps the digits of a text.                  *)
Digits(t) == IF t = Letters THEN Blank ELSE t

(* A label cell shows "0" as "".                                              *)
Shown(v) == IF v = 0 THEN Blank ELSE v

-----------------------------------------------------------------------------
RowsOf(c) == IF c \in FieldCells THEN FieldRows ELSE SkillRows

(* The ways dequeueReusableCell can hand out the cells.                       *)
Bindings == {b \in [Cells -> Rows] : /\ \A c \in Cells : b[c] \in RowsOf(c)
                                     /\ \A c, d \in Cells : b[c] = b[d] => c = d}

(* Row r publishes v: the label cells that watch r show it.                   *)
Published(r, v) == [c \in Cells |-> IF watch[c] = r THEN Shown(v) ELSE text[c]]

TextBlocks(rows, t) == [i \in DOMAIN rows |-> [kind |-> "text", row |-> rows[i], text |-> t]]

FormBlocks(r, n) == [i \in 1..n |-> [kind |-> "form", row |-> r, text |-> Blank]]

HasBlock(q, kind, r) == \E i \in DOMAIN q : q[i].kind = kind /\ q[i].row = r

Pending(kind, r) == HasBlock(queue, kind, r)

(* Slip: updates go to the id of the first form.                              *)
UpdateFirst(m) == [sent EXCEPT ![1] = m]

(* FormViewModel.updateRemote: FirebaseService.update with all fields of the  *)
(* form, under the id of the form.                                            *)
UpdateRemote(m) == [sent EXCEPT ![formNo] = m]

(* setFielInfo and the observer of the property it sets.                      *)
SetFielInfo(r, t) == /\ prop' = [prop EXCEPT ![r] = t]
                     /\ model' = [model EXCEPT ![r] = Attribute(r, t)]

(* Slip: configureOutputs is not called.                                      *)
OutputsKept(m) == UNCHANGED <<prop, value>>

(* configureOutputs: every property is read from the form and published to    *)
(* its row.  Storing the property back into the form changes nothing there.   *)
ConfigureOutputs(m) == prop' = Outputs(m) /\ value' = Outputs(m)

UserEvent == /\ running
             /\ events < MaxEvents
             /\ events' = events + 1

-----------------------------------------------------------------------------
(* FormViewModel.init, makeBinding of every row and the first cells.  Whether *)
(* the observer of model runs inside init, and so sends the form, depends on  *)
(* the compiler.                                                              *)
Start(content, b) == /\ running' = TRUE
                     /\ model' = content
                     /\ ConfigureOutputs(content)
                     /\ bound' = b
                     /\ text' = [c \in Cells |-> content[b[c]]]
                     /\ watch' = [c \in Cells |-> NoRow]
                     /\ sinks' = [c \in Cells |-> <<>>]
                     /\ formSinks' = [r \in Rows |-> 0]
                     /\ focus' = NoCell
                     /\ queue' = <<>>
                     /\ typed' = [r \in Rows |-> NoText]
                     /\ \/ sent' = sent
                        \/ sent' = UpdateRemote(content)

(* The first launch, with the blank form that load() made.                    *)
Init == /\ running = TRUE
        /\ model = BlankForm /\ saved = BlankForm
        /\ prop = Outputs(BlankForm) /\ value = Outputs(BlankForm)
        /\ formNo = 1
        /\ sent \in {[i \in 1..MaxForms |-> NotSent],
                     [i \in 1..MaxForms |-> IF i = 1 THEN BlankForm ELSE NotSent]}
        /\ bound \in Bindings
        /\ text = [c \in Cells |-> value[bound[c]]]
        /\ watch = [c \in Cells |-> NoRow]
        /\ sinks = [c \in Cells |-> <<>>]
        /\ formSinks = [r \in Rows |-> 0]
        /\ focus = NoCell
        /\ queue = <<>>
        /\ events = 0
        /\ typed = [r \in Rows |-> NoText]
        /\ since = "quiet"

(* The process is killed, or has trapped, and the user starts it again.       *)
Relaunch == /\ \E b \in Bindings : Start(saved, b)
            /\ UNCHANGED <<saved, formNo, events, since>>

(* The user taps into a cell; editingDidBegin of a label cell clears a "0".   *)
EditingDidBegin(c) == /\ UserEvent
                      /\ focus = NoCell
                      /\ focus' = c
                      /\ text' = IF c \in LabelCells THEN [text EXCEPT ![c] = Shown(@)] ELSE text
                      /\ UNCHANGED <<running, value, bound, watch, formVars, sinks,
                                     formSinks, queue, typed, since>>

(* editingChanged of a field cell only logs.                                  *)
FieldEditingChanged(c, t) == /\ UserEvent
                             /\ focus = c
                             /\ t # text[c]
                             /\ text' = [text EXCEPT ![c] = t]
                             /\ UNCHANGED <<running, value, bound, watch, focus, formVars,
                                            sinks, formSinks, queue, typed, since>>

(* editingChanged of a label cell: textDidChange validates the value the row  *)
(* already has, which publishes it again unless it is empty, and subscribes   *)
(* the row to the cell once more.                                             *)
LabelEditingChanged(c, t) ==
    LET r == bound[c]
        v == Validate(r, value[r])
    IN  /\ UserEvent
        /\ focus = c
        /\ t # text[c]
        /\ value' = [value EXCEPT ![r] = v]
        /\ text' = IF value[r] = Blank THEN [text EXCEPT ![c] = t]
                   ELSE [Published(r, v) EXCEPT ![c] = IF watch[c] = r THEN Shown(v) ELSE t]
        /\ sinks' = [sinks EXCEPT ![c] = Append(@, r)]
        /\ UNCHANGED <<running, bound, watch, focus, formVars, formSinks, queue, typed, since>>

(* Slip: editingDidEnd sends before it subscribes.                            *)
FieldSendsFirst(c) == /\ running
                      /\ focus = c
                      /\ focus' = NoCell
                      /\ sinks' = [sinks EXCEPT ![c] = Append(@, bound[c])]
                      /\ queue' = queue \o TextBlocks(sinks[c], text[c])
                      /\ typed' = [typed EXCEPT ![bound[c]] = text[c]]
                      /\ since' = "edited"
                      /\ UNCHANGED <<running, value, bound, text, watch, formVars,
                                     formSinks, events>>

(* editingDidEnd of a field cell: subscribe the row, then send to everyone    *)
(* who ever subscribed to this cell.                                          *)
FieldEditingDidEnd(c) == /\ running
                         /\ focus = c
                         /\ focus' = NoCell
                         /\ sinks' = [sinks EXCEPT ![c] = Append(@, bound[c])]
                         /\ queue' = queue \o TextBlocks(sinks'[c], text[c])
                         /\ typed' = [typed EXCEPT ![bound[c]] = text[c]]
                         /\ since' = "edited"
                         /\ UNCHANGED <<running, value, bound, text, watch, formVars,
                                        formSinks, events>>

(* editingDidEnd of a label cell: send, then follow the row's $value, which   *)
(* at once replays the value from before the text just sent.                  *)
LabelEditingDidEnd(c) ==
    LET r == bound[c]
    IN  /\ running
        /\ focus = c
        /\ focus' = NoCell
        /\ queue' = queue \o TextBlocks(sinks[c], Digits(text[c]))
        /\ watch' = [watch EXCEPT ![c] = r]
        /\ text' = [text EXCEPT ![c] = Shown(value[r])]
        /\ typed' = [typed EXCEPT ![r] = Digits(text[c])]
        /\ since' = "edited"
        /\ UNCHANGED <<running, value, bound, formVars, sinks, formSinks, events>>

(* A row scrolls in: the cell of a row that scrolled out is dequeued and      *)
(* cellFor gives it the new row.  Its subscriptions stay.                     *)
CellFor(c, r) == /\ running
                 /\ focus # c
                 /\ r \in RowsOf(c)
                 /\ \A d \in Cells : bound[d] # r
                 /\ bound' = [bound EXCEPT ![c] = r]
                 /\ text' = [text EXCEPT ![c] = value[r]]
                 /\ UNCHANGED <<running, value, watch, focus, formVars, sinks, formSinks,
                                queue, events, typed, since>>

-----------------------------------------------------------------------------
NextBlock(kind) == /\ running
                   /\ queue # <<>>
                   /\ Head(queue).kind = kind

(* The sink of textDidChange traps on a text that Int(_) cannot read.         *)
TextSinkTraps == /\ NextBlock("text")
                 /\ Traps(Head(queue).row, Head(queue).text)
                 /\ running' = FALSE
                 /\ UNCHANGED <<value, viewVars, formVars, sinks, formSinks, queue,
                                events, typed, since>>

(* Slip: the row announces its change before the view model listens.          *)
TextSinkSendsFirst ==
    LET r == Head(queue).row
        v == Validate(r, Head(queue).text)
    IN  /\ NextBlock("text")
        /\ ~Traps(r, Head(queue).text)
        /\ value' = [value EXCEPT ![r] = v]
        /\ text' = Published(r, v)
        /\ formSinks' = [formSinks EXCEPT ![r] = @ + 1]
        /\ queue' = Tail(queue) \o FormBlocks(r, formSinks[r])
        /\ UNCHANGED <<running, bound, watch, focus, formVars, sinks, events, typed, since>>

(* The sink of textDidChange: keep the validated text, have the view model    *)
(* listen once more, and tell every one of its sinks.                         *)
TextSink ==
    LET r == Head(queue).row
        v == Validate(r, Head(queue).text)
    IN  /\ NextBlock("text")
        /\ ~Traps(r, Head(queue).text)
        /\ value' = [value EXCEPT ![r] = v]
        /\ text' = Published(r, v)
        /\ formSinks' = [formSinks EXCEPT ![r] = @ + 1]
        /\ queue' = Tail(queue) \o FormBlocks(r, formSinks'[r])
        /\ UNCHANGED <<running, bound, watch, focus, formVars, sinks, events, typed, since>>

(* Slip: setting the property makes the row announce itself again.            *)
FormSinkEchoes ==
    LET r == Head(queue).row
        v == value[r]
    IN  /\ NextBlock("form")
        /\ SetFielInfo(r, v)
        /\ text' = Published(r, v)
        /\ saved' = model'
        /\ sent' = UpdateRemote(model')
        /\ queue' = Append(Tail(queue), Head(queue))
        /\ UNCHANGED <<running, value, bound, watch, focus, formNo, sinks, formSinks,
                       events, typed, since>>

(* The sink of FormViewModel.cellDidChange: setFielInfo with the value the    *)
(* row has by now, saveContext, updateRemote.  Setting the property publishes *)
(* it to the row, whose value it is already.                                  *)
FormSink ==
    LET r == Head(queue).row
        v == value[r]
    IN  /\ NextBlock("form")
        /\ SetFielInfo(r, v)
        /\ text' = Published(r, v)
        /\ saved' = model'
        /\ sent' = UpdateRemote(model')
        /\ queue' = Tail(queue)
        /\ UNCHANGED <<running, value, bound, watch, focus, formNo, sinks, formSinks,
                       events, typed, since>>

-----------------------------------------------------------------------------
(* What reloadData does to a cell that is being edited is up to UIKit: it     *)
(* keeps the keyboard, or it resigns and editingDidEnd fires with the text of *)
(* the cell, which configureOutputs has just set if the cell watches a row.   *)
ReloadKeepsFocus ==
    /\ typed' = [r \in Rows |-> IF Pending("text", r) THEN typed[r] ELSE NoText]
    /\ UNCHANGED <<focus, sinks, queue, watch>>

ReloadEndsEditing(c) ==
    LET r == bound[c]
        t == IF c \in FieldCells THEN text[c]
             ELSE Digits(IF watch[c] = NoRow THEN text[c] ELSE Shown(BlankForm[watch[c]]))
    IN  /\ focus = c
        /\ focus' = NoCell
        /\ sinks' = IF c \in FieldCells THEN [sinks EXCEPT ![c] = Append(@, r)] ELSE sinks
        /\ queue' = queue \o TextBlocks(sinks'[c], t)
        /\ typed' = [s \in Rows |-> IF s = r /\ sinks'[c] # <<>> THEN t
                                    ELSE IF Pending("text", s) THEN typed[s] ELSE NoText]
        /\ watch' = IF c \in FieldCells THEN watch ELSE [watch EXCEPT ![c] = r]

(* submitButtonTouchUpAction: FormViewModel.submit (updateRemote, delete the  *)
(* form for a new blank one, model = form, whose observer sends it too,       *)
(* saveContext, configureOutputs) and reloadData, which deals out the cells   *)
(* anew.                                                                      *)
Submit == /\ running
          /\ formNo < MaxForms
          /\ formNo' = formNo + 1
          /\ sent' = [UpdateRemote(model) EXCEPT ![formNo + 1] = BlankForm]
          /\ model' = BlankForm
          /\ saved' = BlankForm
          /\ ConfigureOutputs(BlankForm)
          /\ bound' \in Bindings
          /\ \A c \in Cells : \E d \in Cells : bound'[c] = bound[d]
          /\ text' = [c \in Cells |-> value'[bound'[c]]]
          /\ ReloadKeepsFocus \/ \E c \in Cells : ReloadEndsEditing(c)
          /\ since' = IF queue' = <<>> THEN "quiet" ELSE "busy"
          /\ UNCHANGED <<running, formSinks, events>>

Deliver == TextSink \/ TextSinkTraps \/ FormSink

Next == \/ \E c \in Cells : EditingDidBegin(c)
        \/ \E c \in FieldCells : \/ \E t \in FieldTexts : FieldEditingChanged(c, t)
                                 \/ FieldEditingDidEnd(c)
        \/ \E c \in LabelCells : \/ \E t \in SkillTexts : LabelEditingChanged(c, t)
                                 \/ LabelEditingDidEnd(c)
        \/ \E c \in Cells, r \in Rows : CellFor(c, r)
        \/ Deliver
        \/ Submit
        \/ Relaunch

Spec == Init /\ [][Next]_vars

(* The main run loop serves its queue; the user need not do anything.         *)
FairSpec == Spec /\ WF_vars(Deliver)

-----------------------------------------------------------------------------
Contents == [Rows -> Text]

Blocks == [kind : {"text", "form"}, row : Rows, text : Text]

TypeOK == /\ running \in BOOLEAN
          /\ value \in Contents /\ prop \in Contents
          /\ model \in Contents /\ saved \in Contents
          /\ formNo \in 1..MaxForms
          /\ sent \in [1..MaxForms -> Contents \union {NotSent}]
          /\ bound \in Bindings
          /\ text \in [Cells -> Text]
          /\ watch \in [Cells -> SkillRows \union {NoRow}]
          /\ sinks \in [Cells -> Seq(Rows)]
          /\ formSinks \in [Rows -> Nat]
          /\ focus \in Cells \union {NoCell}
          /\ queue \in Seq(Blocks)
          /\ events \in 0..MaxEvents
          /\ typed \in [Rows -> Text \union {NoText}]
          /\ since \in {"quiet", "busy", "edited"}

(* validateValue is the only check of a score, and nothing rechecks what is   *)
(* read back: whatever is typed, sent to the wrong row or left in the queue,  *)
(* every score in memory, in the store and at Firebase is between 0 and 50.   *)
ScoresInRange == \A r \in SkillRows :
                    /\ model[r] \in 0..MaxScore
                    /\ saved[r] \in 0..MaxScore
                    /\ \A i \in 1..MaxForms : sent[i] # NotSent => sent[i][r] \in 0..MaxScore

(* The rows, the view model, the managed object, the store and the remote     *)
(* copy agree about every row for which no cellDidChange is under way: no hop *)
(* of an edit is lost, whatever happens between the hops.                     *)
InStep == /\ saved = model
          /\ sent[formNo] \in {NotSent, model}
          /\ \A r \in Rows : ~Pending("form", r) => /\ Attribute(r, value[r]) = model[r]
                                                   /\ Attribute(r, prop[r]) = model[r]

(* Once the main queue is empty, the store holds for each row the text that   *)
(* was last committed in that row's cell, as validated: the unfinished form   *)
(* is in "its latests state".                                                 *)
EditReachesStore == running /\ queue = <<>> =>
                      \A r \in Rows : typed[r] # NoText =>
                                         saved[r] = Attribute(r, Validate(r, typed[r]))

(* A form submitted when nothing was under way is followed by a form that     *)
(* stays blank, in every copy, until a cell ends editing.                     *)
QuietSubmitStaysBlank == since = "quiet" =>
                           /\ saved = BlankForm
                           /\ \A r \in Rows : Attribute(r, value[r]) = BlankForm[r]

(* "Show new UI form with empty fields": after any submit the new form stays  *)
(* blank until a cell ends editing.                                           *)
NewFormBlank == since # "edited" => saved = BlankForm

(* Firebase is never again given a form that was submitted: texts that arrive *)
(* after the submit do not change the submitted copy.                         *)
SubmittedFrozen == [][\A i \in 1..MaxForms : i < formNo => sent'[i] = sent[i]]_vars

(* "Edit Field": what the user types into a cell is what the cell then holds. *)
KeystrokeKept == [][\A c \in Cells : focus = c /\ focus' = c /\ events' > events =>
                       text'[c] # text[c]]_vars

(* Every block on the main queue is served, although each text that arrives   *)
(* puts more blocks there.                                                    *)
QueueDrains == queue # <<>> ~> queue = <<>> \/ ~running
-----------------------------------------------------------------------------
(* Texts for the model checker: an empty text, a score in range, one above    *)
(* the limit, and texts that are not numerals.                                *)
MCFieldTexts == {Blank, 7}
MCSkillTexts == {0, 7, 51}
MCOddTexts == {Letters, Unreadable, 51}
=============================================================================
