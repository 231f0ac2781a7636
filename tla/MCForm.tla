------------------------------- MODULE MCForm -------------------------------
(* The applicant's side of the application on small instances: the pipeline   *)
(* from the text fields to the form, and the service that stores the form.    *)
(* Each is checked alone, whatever the other would do: one of them, part, runs *)
(* and the other stands still.                                                *)
EXTENDS FormEditing, CoreDataService

VARIABLE part   \* the component that runs

Editing(A) == part = "editing" /\ A /\ UNCHANGED <<serviceVars, part>>

Storing(A) == part = "service" /\ A /\ UNCHANGED <<vars, part>>

MCInit == Init /\ ServiceInit /\ part \in {"editing", "service"}

MCNext == Editing(Next) \/ Storing(ServiceNext)

(* The fairness of both.  That of the component at rest asks for nothing: no  *)
(* block waits and no process runs.                                           *)
MCSpec == MCInit /\ [][MCNext]_<<vars, serviceVars, part>> /\ WF_vars(Deliver) /\ Fairness
=============================================================================
