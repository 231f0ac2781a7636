-------------------------- MODULE CoreDataService --------------------------
(* Service/CoreDataService.swift: the managed object context and the sqlite   *)
(* file behind it.  The service runs on the main thread, so its methods do    *)
(* not interleave with each other; what can come between two of its durable   *)
(* writes is the death of the process.  Each action is one stretch of code    *)
(* up to and including at most one write to the file.                         *)
(*                                                                            *)
(* context and disk give each form id the fields of the Form object with that *)
(* id, or Absent.  Unsaved edits are where the two differ.                    *)
EXTENDS Naturals, FiniteSets

CONSTANTS Fields,            \* the values the fields of a form can have, taken together
          BlankFields,       \* the fields of a new Form object
          Absent,            \* no such object
          NoForm,            \* the value of `form` before the first load
          MaxIds,            \* bound: how many form ids a behaviour may generate
          MaxFetchFailures   \* bound: how many fetch requests may throw

ASSUME FieldsAssumption == BlankFields \in Fields /\ Absent \notin Fields
ASSUME ServiceBoundsAssumption == /\ MaxIds \in Nat \ {0}
                                  /\ MaxFetchFailures \in Nat
                                  /\ NoForm \notin Nat

VARIABLES disk,       \* the persistent store
          context,    \* persistentContainer.viewContext
          form,       \* CoreDataService.form: the id of the loaded object
          pc,         \* where the main thread is: the process is down, in load,
                      \* about to call makeNewBlankForm, or outside the service
          nextId,     \* UUID(): ids are never generated twice
          failures,   \* fetches that have thrown so far
          submitted   \* history: ids of the forms delete() removed

serviceVars == <<disk, context, form, pc, nextId, failures, submitted>>

Ids == 1..MaxIds

Forms(store) == {i \in Ids : store[i] # Absent}

Nothing == [i \in Ids |-> Absent]

-----------------------------------------------------------------------------
(* First launch after installation: the file holds no form.                   *)
ServiceInit == /\ disk = Nothing
               /\ context = Nothing
               /\ form = NoForm
               /\ pc = "down"
               /\ nextId = 1
               /\ failures = 0
               /\ submitted = {}

(* FormViewModel.init makes a service and calls load().                       *)
Launch == /\ pc = "down"
          /\ pc' = "load"
          /\ UNCHANGED <<disk, context, form, nextId, failures, submitted>>

(* A fetch request throws; `try?` turns the error into nil.                   *)
FetchThrows == failures < MaxFetchFailures /\ failures' = failures + 1

(* A slip in load: it takes the object of the last id without looking.        *)
LoadFormUnfetched == /\ pc = "load"
                     /\ form' = nextId
                     /\ pc' = "idle"
                     /\ UNCHANGED <<disk, context, nextId, failures, submitted>>

(* load, first branch: `self.form = forms.first!`.  The request has no sort   *)
(* descriptors, so any object may come first.                                 *)
LoadForm == /\ pc = "load"
            /\ form' \in Forms(context)
            /\ pc' = "idle"
            /\ UNCHANGED <<disk, context, nextId, failures, submitted>>

(* A slip in load: any nonempty result is refused as well.                    *)
LoadNothingAlways == /\ pc = "load"
                     /\ UNCHANGED failures
                     /\ pc' = "blank"
                     /\ UNCHANGED <<disk, context, form, nextId, submitted>>

(* load, second branch: the fetch threw or found no object.                   *)
LoadNothing == /\ pc = "load"
               /\ \/ Forms(context) = {} /\ UNCHANGED failures
                  \/ FetchThrows
               /\ pc' = "blank"
               /\ UNCHANGED <<disk, context, form, nextId, submitted>>

(* A slip in makeNewBlankForm: the new object gets an id already in use.      *)
ReuseLastId == /\ pc = "blank"
               /\ nextId \in Ids
               /\ LET i == IF nextId = 1 THEN 1 ELSE nextId - 1
                  IN  context' = [context EXCEPT ![i] = BlankFields]
               /\ disk' = context'
               /\ nextId' = IF nextId = 1 THEN 2 ELSE nextId
               /\ pc' = "load"
               /\ UNCHANGED <<form, failures, submitted>>

(* A slip in makeNewBlankForm: it returns without load being called again.    *)
BlankWithoutLoad == /\ pc = "blank"
                    /\ nextId \in Ids
                    /\ context' = [context EXCEPT ![nextId] = BlankFields]
                    /\ disk' = context'
                    /\ nextId' = nextId + 1
                    /\ pc' = "idle"
                    /\ UNCHANGED <<form, failures, submitted>>

(* A slip in makeNewBlankForm: the object is not inserted in this context.    *)
BlankElsewhere == /\ pc = "blank"
                  /\ pc' = "load"
                  /\ UNCHANGED <<disk, context, nextId, form, failures, submitted>>

(* makeNewBlankForm, which both callers follow by load().                     *)
MakeNewBlankForm == /\ pc = "blank"
                    /\ nextId \in Ids
                    /\ context' = [context EXCEPT ![nextId] = BlankFields]
                    /\ disk' = context'
                    /\ nextId' = nextId + 1
                    /\ pc' = "load"
                    /\ UNCHANGED <<form, failures, submitted>>

(* FormViewModel's property observers assign to attributes of the loaded      *)
(* object.                                                                    *)
Edit == /\ pc = "idle"
        /\ form \in Ids
        /\ \E c \in Fields : context' = [context EXCEPT ![form] = c]
        /\ UNCHANGED <<disk, form, pc, nextId, failures, submitted>>

(* saveContext.  An error of save() is a fatalError: see Crash.               *)
SaveContext == /\ pc = "idle"
               /\ context # disk
               /\ disk' = context
               /\ UNCHANGED <<context, form, pc, nextId, failures, submitted>>

(* A slip in delete: saveContext is left to makeNewBlankForm.                 *)
DeleteUnsaved == /\ pc = "idle"
                 /\ nextId + (MaxFetchFailures - failures) <= MaxIds
                 /\ Forms(context) # {}
                 /\ context' = Nothing
                 /\ submitted' = submitted \union Forms(context)
                 /\ pc' = "blank"
                 /\ UNCHANGED <<disk, form, nextId, failures>>

(* delete, first branch, up to its saveContext; makeNewBlankForm and load     *)
(* follow.  The bound leaves enough ids for the fetches that may still fail.  *)
Delete == /\ pc = "idle"
          /\ nextId + (MaxFetchFailures - failures) <= MaxIds
          /\ Forms(context) # {}
          /\ context' = Nothing
          /\ disk' = Nothing
          /\ submitted' = submitted \union Forms(context)
          /\ pc' = "blank"
          /\ UNCHANGED <<form, nextId, failures>>

(* delete, second branch: the fetch threw, nothing is deleted.                *)
DeleteFails == /\ pc = "idle"
               /\ FetchThrows
               /\ UNCHANGED <<disk, context, form, pc, nextId, submitted>>

(* Every CellViewModel makes a FormViewModel of its own, and with it a second *)
(* service and container, that lives until makeBinding replaces it.  Its load *)
(* reads the same file; it writes to it only when its fetch throws.  Assumed: *)
(* the next fetch of this service, as every fetch of Core Data, asks the file *)
(* and so finds the object that the other container inserted.                 *)
OtherServiceLoad == /\ pc = "idle"
                    /\ FetchThrows
                    /\ nextId \in Ids
                    /\ context' = [context EXCEPT ![nextId] = BlankFields]
                    /\ disk' = [disk EXCEPT ![nextId] = BlankFields]
                    /\ nextId' = nextId + 1
                    /\ UNCHANGED <<form, pc, submitted>>

(* The process dies: killed by the system, or fatalError in saveContext or    *)
(* in loadPersistentStores.  The next context is read from the file.          *)
Crash == /\ pc # "down"
         /\ pc' = "down"
         /\ context' = disk
         /\ form' = NoForm
         /\ UNCHANGED <<disk, nextId, failures, submitted>>

ServiceNext == \/ Launch \/ LoadForm \/ LoadNothing \/ MakeNewBlankForm
               \/ Edit \/ SaveContext \/ Delete \/ DeleteFails
               \/ OtherServiceLoad \/ Crash

ServiceSpec == ServiceInit /\ [][ServiceNext]_serviceVars

(* Methods run to completion unless the process dies; the caller is under no  *)
(* obligation to edit, save or submit.                                        *)
Fairness == WF_serviceVars(LoadForm \/ LoadNothing \/ MakeNewBlankForm)

ServiceFairSpec == ServiceSpec /\ Fairness

-----------------------------------------------------------------------------
ServiceTypeOK == /\ disk \in [Ids -> Fields \union {Absent}]
                 /\ context \in [Ids -> Fields \union {Absent}]
                 /\ form \in Ids \union {NoForm}
                 /\ pc \in {"down", "load", "blank", "idle"}
                 /\ nextId \in 1..(MaxIds + 1)
                 /\ failures \in 0..MaxFetchFailures
                 /\ submitted \in SUBSET Ids

(* The file holds at most one form more than there were failed fetches:       *)
(* without failures a form is never duplicated, whatever is interrupted.      *)
FormsBounded == Cardinality(Forms(disk)) <= 1 + failures

(* Whenever the service is not in the middle of a method, the loaded form is  *)
(* an object that exists, in memory and in the file: the view model never     *)
(* edits, saves or sends an object that delete() removed.                     *)
LoadedFormExists == pc = "idle" => form \in Forms(context) /\ form \in Forms(disk)

(* A submitted form is gone for good: it is not in the file after any crash,  *)
(* is never loaded again, and no new form takes its id, under which Firebase  *)
(* keeps the submitted copy.                                                  *)
SubmittedGone == /\ submitted \intersect Forms(disk) = {}
                 /\ form \in submitted => pc \in {"blank", "load"}

(* "Load first unique Form": there is one form to load.                       *)
UniqueForm == Cardinality(Forms(disk)) <= 1

(* load() always comes to an end with a form loaded, however often its        *)
(* fetches fail (finitely often) and wherever an earlier run was interrupted. *)
LoadEnds == pc \in {"load", "blank"} ~> pc \in {"idle", "down"}

-----------------------------------------------------------------------------
(* The store of the abstract specification.  Between the two saves of         *)
(* delete() the file is empty: the form of FormStore is then already the      *)
(* blank one that makeNewBlankForm, now or after a crash, will write.         *)
Empty == Forms(disk) = {}

Draft == INSTANCE FormStore
         WITH Contents <- Fields, Blank <- BlankFields,
              id      <- IF Empty THEN nextId ELSE nextId - 1,
              typed   <- IF Empty THEN BlankFields ELSE context[nextId - 1],
              durable <- IF Empty THEN BlankFields ELSE disk[nextId - 1]

(* As long as no fetch has failed, the service keeps the promise of FormStore:*)
(* one unfinished form, restored to its last save by a crash, replaced        *)
(* atomically by a blank one when submitted.                                  *)
KeepsDraft == /\ Draft!DraftInit
              /\ [][failures' = 0 => Draft!DraftNext]_(Draft!draftVars)
=============================================================================
