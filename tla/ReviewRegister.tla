--------------------------- MODULE ReviewRegister ---------------------------
(***************************************************************************)
(* What a store promises of one review id, whatever keeps it: a register.  *)
(* An escalation puts a case up for decision, in place of whatever was     *)
(* there; a decision sticks to the case it finds. ClientApplications uses  *)
(* reviews as such registers; Neo4j gives them by one MERGE per call.      *)
(***************************************************************************)
CONSTANTS Cases, Decisions

VARIABLE review

Absent == [state |-> "absent"]

Init == review = Absent

Escalate == \E c \in Cases : review' = [case |-> c, state |-> "pending"]

Decide ==
    /\ review # Absent
    /\ \E d \in Decisions : review' = [review EXCEPT !.state = d]

Next == Escalate \/ Decide

Spec == Init /\ [][Next]_review
=============================================================================
