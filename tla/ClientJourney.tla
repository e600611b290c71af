---------------------------- MODULE ClientJourney ----------------------------
(***************************************************************************)
(* What the portal promises a client: the status it shows for each of      *)
(* their applications, and how that status may change. A client is asked   *)
(* for documents or told to wait; waiting always ends in a decision; after *)
(* a decision only the decision itself can change, and an application that *)
(* was accepted is never lost. Records, reviews, threads and crashes are   *)
(* below this level.                                                       *)
(***************************************************************************)
CONSTANT Apps

VARIABLE status

Outcomes == {"approved", "declined"}
Statuses == {"absent", "additional_documents_needed", "under_review"} \cup Outcomes

Init == status = [a \in Apps |-> "absent"]

Change(a, from, to) ==
    /\ status[a] \in from
    /\ \E s \in to : status' = [status EXCEPT ![a] = s]

(* The application is accepted, with or without a complete document file.  *)
Receive(a) ==
    Change(a, {"absent"}, {"additional_documents_needed", "under_review"})

(* The last missing document arrives. *)
CompleteFile(a) == Change(a, {"additional_documents_needed"}, {"under_review"})

Decide(a) == Change(a, {"under_review"}, Outcomes)

Reconsider(a) == Change(a, Outcomes, Outcomes)

Next == \E a \in Apps :
    Receive(a) \/ CompleteFile(a) \/ Decide(a) \/ Reconsider(a)

SafeSpec == Init /\ [][Next]_status

Spec == SafeSpec /\ \A a \in Apps : WF_status(Decide(a))
=============================================================================
