----------------------------- MODULE FormStore -----------------------------
(* What the persistence layer promises to the rest of the application: there  *)
(* is always exactly one unfinished form.  Its fields are edited in memory    *)
(* (typed), made durable by a save (durable), fall back to the last save when *)
(* the process dies, and are replaced, together with the identity of the      *)
(* form, by a blank form when the applicant submits.                          *)
EXTENDS Naturals

CONSTANTS Contents,  \* the values the fields of a form can have, taken together
          Blank      \* the fields of a form nobody has touched

VARIABLES id,       \* how many-th form this is: the identity of the unfinished form
          typed,    \* its fields as the running application sees them
          durable   \* its fields as the next launch will find them

draftVars == <<id, typed, durable>>

DraftInit == id = 1 /\ typed = Blank /\ durable = Blank

DraftEdit == typed' \in Contents /\ UNCHANGED <<id, durable>>

DraftSave == durable' = typed /\ UNCHANGED <<id, typed>>

DraftForget == typed' = durable /\ UNCHANGED <<id, durable>>

DraftSubmit == id' = id + 1 /\ typed' = Blank /\ durable' = Blank

DraftNext == DraftEdit \/ DraftSave \/ DraftForget \/ DraftSubmit

DraftSpec == DraftInit /\ [][DraftNext]_draftVars
=============================================================================
