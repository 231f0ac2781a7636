---------------------------- MODULE FormDelivery ----------------------------
(* The three copies of a form put together: the object FormViewModel edits,   *)
(* the Core Data store, and the remote copy that FirebaseService.update       *)
(* makes.  A sink or a submit is several steps of the main thread, and the    *)
(* process can die between any two.  The writes that Firebase has not yet had *)
(* answered live in memory only (the application does not enable persistence) *)
(* and are sent again, in order, over each new connection.                    *)
(*                                                                            *)
(* What is in a form is the number of its last edit.  The steps inside load   *)
(* and fetches that fail are in CoreDataService, the way of a text to the     *)
(* sink in FormEditing, the connection itself in PersistentConnection.        *)
EXTENDS Integers, Sequences

CONSTANTS MaxForms,   \* bound: forms made
          MaxEdits,   \* bound: edits of one form
          MaxPuts,    \* bound: writes without an answer
          MaxFaults   \* bound: kills and lost connections

ASSUME BoundsAssumption == /\ MaxForms \in Nat \ {0} /\ MaxEdits \in Nat
                           /\ MaxPuts \in Nat /\ MaxFaults \in Nat

Ids == 1..MaxForms
Never == -1
Versions == 0..MaxEdits
Forms == [id : Ids, v : Versions]
Blank(i) == [id |-> i, v |-> 0]
NoForm == [id |-> 0, v |-> 0]

VARIABLES running,     \* the process is alive
          foreground,  \* the scene is in the foreground
          pc,          \* what the main thread does next
          model,       \* FormViewModel.model, an object of the context
          store,       \* the form in the persistent store, if any
          lastId,      \* ids generated so far
          online,      \* a connection that takes writes
          outbox,      \* writes without an answer: blocks for the queue of
                       \* Firebase, then outstandingPuts, in order
          applied,     \* how many of them the server has applied on this connection
          remote,      \* per form, what the server has
          faults,
          served,      \* history: per form, the last edit whose sink has ended
          acked,       \* history: per form, the last version with an answer
          submitted,   \* history: per form, the version that was submitted
          cut          \* history: forms that had a write under way in a killed process

app == <<running, foreground, pc>>
local == <<model, store, lastId>>
link == <<online, outbox, applied>>
history == <<served, acked, submitted, cut>>
vars == <<app, local, link, remote, faults, history>>

-----------------------------------------------------------------------------
(* FirebaseService.update: all fields of the form as one update, without a    *)
(* completion block.                                                          *)
update(f) == /\ Len(outbox) < MaxPuts
             /\ outbox' = Append(outbox, f)
             /\ cut' = cut \ {f.id}
             /\ UNCHANGED <<online, applied>>

AtStep(step) == running /\ pc = step

(* Slip: the sink sends before it saves.                                      *)
SinkSendsFirst ==
    /\ AtStep("idle")
    /\ model.v < MaxEdits
    /\ model' = [model EXCEPT !.v = @ + 1]
    /\ update(model')
    /\ pc' = "save"
    /\ UNCHANGED <<running, foreground, store, lastId, remote, faults, served, acked, submitted>>

(* Slip: the sink leaves saving to the change to the background.              *)
SinkNeverSaves ==
    /\ AtStep("idle")
    /\ model.v < MaxEdits
    /\ model' = [model EXCEPT !.v = @ + 1]
    /\ pc' = "send"
    /\ UNCHANGED <<running, foreground, store, lastId, link, remote, faults, history>>

(* The sink of cellDidChange, first step: setFielInfo.  It may be served      *)
(* after the scene has gone to the background.                                *)
setFielInfo == /\ AtStep("idle")
               /\ model.v < MaxEdits
               /\ model' = [model EXCEPT !.v = @ + 1]
               /\ pc' = "save"
               /\ UNCHANGED <<running, foreground, store, lastId, link, remote, faults, history>>

(* The sink, second step: saveContext.                                        *)
saveContext == /\ AtStep("save")
               /\ store' = model
               /\ pc' = "send"
               /\ UNCHANGED <<running, foreground, model, lastId, link, remote, faults, history>>

(* The sink, last step: updateRemote.                                         *)
updateRemote == /\ AtStep("send")
                /\ update(model)
                /\ served' = [served EXCEPT ![model.id] = model.v]
                /\ pc' = "idle"
                /\ UNCHANGED <<running, foreground, local, remote, faults, acked, submitted>>

(* Slip: submit leaves the sending to the sinks.                              *)
SubmitWithoutUpdate == /\ AtStep("idle")
                       /\ foreground
                       /\ lastId < MaxForms
                       /\ submitted' = [submitted EXCEPT ![model.id] = model.v]
                       /\ pc' = "delete"
                       /\ UNCHANGED <<running, foreground, local, link, remote, faults, served, acked, cut>>

(* submit, first step: updateRemote.                                          *)
submit == /\ AtStep("idle")
          /\ foreground
          /\ lastId < MaxForms
          /\ update(model)
          /\ submitted' = [submitted EXCEPT ![model.id] = model.v]
          /\ pc' = "delete"
          /\ UNCHANGED <<running, foreground, local, remote, faults, served, acked>>

(* submit: delete() up to its saveContext.                                    *)
delete == /\ AtStep("delete")
          /\ store' = NoForm
          /\ pc' = "blank"
          /\ UNCHANGED <<running, foreground, model, lastId, link, remote, faults, history>>

(* Slip: the new form is not given an id.                                     *)
NoNewId == /\ AtStep("blank")
           /\ store' = NoForm
           /\ pc' = "reload"
           /\ UNCHANGED <<running, foreground, model, lastId, link, remote, faults, history>>

(* submit: makeNewBlankForm with its save.                                    *)
makeNewBlankForm == /\ AtStep("blank")
                    /\ lastId < MaxForms
                    /\ store' = Blank(lastId + 1)
                    /\ lastId' = lastId + 1
                    /\ pc' = "reload"
                    /\ UNCHANGED <<running, foreground, model, link, remote, faults, history>>

(* submit, last steps: load, and model = form, whose observer sends the blank *)
(* form.  The saveContext that follows finds no changes.                      *)
reload == /\ AtStep("reload")
          /\ model' = store
          /\ update(store)
          /\ pc' = "idle"
          /\ UNCHANGED <<running, foreground, store, lastId, remote, faults, served, acked, submitted>>

(* A row or a cell makes a FormViewModel of its own.  Where the observer of   *)
(* model runs inside init, it sends the stored form.                          *)
OtherViewModel == /\ AtStep("idle")
                  /\ update(store)
                  /\ UNCHANGED <<app, local, remote, faults, served, acked, submitted>>

-----------------------------------------------------------------------------
(* sceneDidEnterBackground saves the container of AppDelegate.  Nothing ever  *)
(* changes an object there: the form is edited in another container.          *)
sceneDidEnterBackground == /\ AtStep("idle")
                           /\ foreground
                           /\ foreground' = FALSE
                           /\ UNCHANGED <<running, pc, local, link, remote, faults, history>>

sceneWillEnterForeground == /\ running
                            /\ ~foreground
                            /\ foreground' = TRUE
                            /\ UNCHANGED <<running, pc, local, link, remote, faults, history>>

Fault == faults < MaxFaults /\ faults' = faults + 1

Owed == {outbox[i].id : i \in DOMAIN outbox}
          \union IF pc \in {"save", "send"} THEN {model.id} ELSE {}

(* The system kills the process, suspended or not, or a save fails, which is  *)
(* a fatalError.                                                              *)
Kill == /\ running
        /\ Fault
        /\ running' = FALSE
        /\ foreground' = FALSE
        /\ pc' = "idle"
        /\ online' = FALSE /\ outbox' = <<>> /\ applied' = 0
        /\ cut' = cut \union Owed
        /\ UNCHANGED <<local, remote, served, acked, submitted>>

(* FormViewModel.init: load, which makes a blank form if there is none.       *)
(* Whether the observer of model then sends it depends on the compiler.       *)
Launch == /\ ~running
          /\ running' = TRUE
          /\ foreground' = TRUE
          /\ pc' = "idle"
          /\ store = NoForm => lastId < MaxForms
          /\ store' = IF store = NoForm THEN Blank(lastId + 1) ELSE store
          /\ lastId' = IF store = NoForm THEN lastId + 1 ELSE lastId
          /\ model' = store'
          /\ \/ UNCHANGED <<link, cut>>
             \/ update(store')
          /\ UNCHANGED <<remote, faults, served, acked, submitted>>

-----------------------------------------------------------------------------
(* Slip: the keys of outstandingPuts are not sorted.                          *)
NewestFirst(s) == [i \in DOMAIN s |-> s[Len(s) + 1 - i]]

(* The order in which writes are sent again.                                  *)
RestoreOrder(s) == s

(* Slip: a new connection starts without the writes of the last one.          *)
StartEmpty == /\ running /\ ~online
              /\ online' = TRUE
              /\ outbox' = <<>>
              /\ UNCHANGED <<app, local, applied, remote, faults, history>>

(* A connection is made, again after each loss; restoreState sends what has   *)
(* no answer.                                                                 *)
restoreState == /\ running /\ ~online
                /\ online' = TRUE
                /\ outbox' = RestoreOrder(outbox)
                /\ UNCHANGED <<app, local, applied, remote, faults, history>>

(* The connection is lost, and with it the answers that were under way.       *)
onDisconnect == /\ online
                /\ Fault
                /\ online' = FALSE
                /\ applied' = 0
                /\ UNCHANGED <<app, local, outbox, remote, history>>

(* The server applies the next write.                                         *)
ServerApplies == /\ online
                 /\ applied < Len(outbox)
                 /\ applied' = applied + 1
                 /\ remote' = [remote EXCEPT ![outbox[applied + 1].id] = outbox[applied + 1].v]
                 /\ UNCHANGED <<app, local, online, outbox, faults, history>>

(* The answer of the oldest write arrives.                                    *)
Acknowledged == /\ online
                /\ applied > 0
                /\ acked' = [acked EXCEPT ![Head(outbox).id] = Head(outbox).v]
                /\ outbox' = Tail(outbox)
                /\ applied' = applied - 1
                /\ UNCHANGED <<app, local, online, remote, faults, served, submitted, cut>>

-----------------------------------------------------------------------------
(* The first launch, with the blank form that load has made.                  *)
Init == /\ running = TRUE /\ foreground = TRUE /\ pc = "idle"
        /\ model = Blank(1) /\ store = Blank(1) /\ lastId = 1
        /\ online = FALSE /\ outbox = <<>> /\ applied = 0
        /\ remote = [i \in Ids |-> Never]
        /\ faults = 0
        /\ served = [i \in Ids |-> Never]
        /\ acked = [i \in Ids |-> Never]
        /\ submitted = [i \in Ids |-> Never]
        /\ cut = {}

MainThread == \/ saveContext \/ updateRemote
              \/ delete \/ makeNewBlankForm \/ reload
Firebase == restoreState \/ ServerApplies \/ Acknowledged

Next == \/ setFielInfo \/ submit \/ OtherViewModel
        \/ MainThread
        \/ sceneDidEnterBackground \/ sceneWillEnterForeground
        \/ Kill \/ Launch
        \/ Firebase \/ onDisconnect

(* Straight-line code on the main thread goes on; a running application gets  *)
(* a connection sooner or later, and the server works.  Nobody need edit,     *)
(* submit or launch.  Kills and lost connections are finite.                  *)
Fairness == WF_vars(MainThread) /\ WF_vars(restoreState)
              /\ WF_vars(ServerApplies) /\ WF_vars(Acknowledged)

Spec == Init /\ [][Next]_vars /\ Fairness

-----------------------------------------------------------------------------
TypeOK == /\ running \in BOOLEAN /\ foreground \in BOOLEAN /\ online \in BOOLEAN
          /\ pc \in {"idle", "save", "send", "delete", "blank", "reload"}
          /\ model \in Forms
          /\ store \in Forms \union {NoForm}
          /\ lastId \in Ids
          /\ outbox \in Seq(Forms)
          /\ applied \in Nat /\ applied <= Len(outbox)
          /\ remote \in [Ids -> Versions \union {Never}]
          /\ faults \in Nat
          /\ served \in [Ids -> Versions \union {Never}]
          /\ acked \in [Ids -> Versions \union {Never}]
          /\ submitted \in [Ids -> Versions \union {Never}]
          /\ cut \subseteq Ids

(* An edit is durable before any of it can reach the server: whatever the     *)
(* server has of the form in the store, or is about to get, a launch after a  *)
(* kill loads at least that.  (saveContext before updateRemote in the sink.)  *)
RemoteNotAhead == store # NoForm =>
                      /\ remote[store.id] <= store.v
                      /\ \A i \in DOMAIN outbox : outbox[i].id = store.id => outbox[i].v <= store.v

(* An edit whose sink has ended is in the store as long as its form is,       *)
(* whatever kills, launches and changes to the background follow.  The save   *)
(* of sceneDidEnterBackground contributes nothing to this.                    *)
ServedEditsDurable == store # NoForm => served[store.id] <= store.v

(* What the server has answered for stays: writes that are sent again over a  *)
(* new connection do not take a form back behind it.                          *)
AcknowledgedStays == \A i \in Ids : remote[i] >= acked[i]

(* With every write answered, the server has each served edit and each        *)
(* submitted form in its last version, unless a kill cut one of its writes.   *)
CopiedUnlessCut == (running /\ pc = "idle" /\ outbox = <<>>) =>
    \A i \in Ids \ cut : remote[i] >= served[i] /\ remote[i] >= submitted[i]

(* Offline times delay a submitted form but do not lose it: it reaches the    *)
(* server, unless the process is killed before the write is answered.         *)
SubmittedDelivered == \A i \in Ids :
    (submitted[i] # Never) ~> (remote[i] >= submitted[i] \/ i \in cut)
=============================================================================
