------------------------------ MODULE MCStores ------------------------------
(* What is kept beside the reviews and applications: the knowledge graph,  *)
(* the portal accounts, the evaluation trend and the index of the search   *)
(* service. They share no state, so a behaviour is one of the four parts   *)
(* and the others stand still.                                             *)
EXTENDS GraphBackends, ClientAccounts, EvalLoop, AzureSearch

VARIABLE part

(* Two data directories: in both c1 refers to a document that is missing,  *)
(* in one the evidence and the owner lead nowhere too.                     *)
MCData ==
    {[country |-> [c \in Clients |-> IF c = "c1" THEN "GB" ELSE "US"],
      refs |-> [c \in Clients |-> IF c = "c1" THEN {"d1", "d2"} ELSE {}],
      documents |-> {"d1"}, about |-> [e \in Excerpts |-> whole.about],
      cites |-> [p \in Policies |-> "r1"],
      jurisdiction |-> [r \in Regulations |-> "GB"],
      ownedBy |-> [o \in Entities |-> whole.owner]] :
     whole \in {[about |-> "d1", owner |-> "c1"], [about |-> "d2", owner |-> None]}}

MCKeyOf == [a \in Spellings |-> IF a = "Ann" THEN "ann" ELSE a]

Init ==
    /\ part \in {"graph", "accounts", "evaluation", "search"}
    /\ GraphInit /\ AccountInit /\ EvalInit /\ SearchInit
    /\ part # "graph" => csv.about["e1"] = "d1"
    /\ part # "search" => graph = "neo4j"

GraphPart ==
    part = "graph" /\ GraphNext /\ UNCHANGED <<part, accountVars, evalVars, searchVars>>
AccountPart ==
    part = "accounts" /\ AccountNext /\ UNCHANGED <<part, graphVars, evalVars, searchVars>>
EvaluationPart ==
    part = "evaluation" /\ EvalNext /\ UNCHANGED <<part, graphVars, accountVars, searchVars>>
SearchPart ==
    part = "search" /\ SearchNext
    /\ UNCHANGED <<part, graphVars, accountVars, evalVars>>

Next == GraphPart \/ AccountPart \/ EvaluationPart \/ SearchPart

Spec == Init /\ [][Next]_<<part, graphVars, accountVars, evalVars, searchVars>>

(* The type invariants of the four modules, each of the part that moves.  *)
TypesOK ==
    /\ part = "graph" => GraphTypeOK
    /\ part = "accounts" => AccountTypeOK
    /\ part = "evaluation" => EvalTypeOK
    /\ part = "search" => SearchTypeOK
=============================================================================
