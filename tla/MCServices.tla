----------------------------- MODULE MCServices -----------------------------
(* What the process around the agents keeps: the ring of spans, the files  *)
(* under uploads/, the keys of the identity provider, the event bus and the*)
(* sanctions list. They share no state, so a behaviour is one of the five  *)
(* parts and the others stand still.                                       *)
EXTENDS SpanRing, UploadFiles, KeyCache, EventBus, SanctionsList

VARIABLE part

(* One name is on the watchlist in another order, one on the first edition *)
(* of the OFAC list in another order, and one is close to a name on it and *)
(* itself on the second.                                                   *)
MCNormalised ==
    [n \in Typed |-> IF n = "Volkov, Oleg" THEN <<"volkov", "oleg">>
                     ELSE IF n = "Star Red" THEN <<"star", "red">>
                     ELSE <<"red", "starr">>]
MCCalls == {<<"Volkov, Oleg", "Star Red">>, <<"Star Red">>, <<"Red Starr", "Star Red">>}
MCWatchlist == {<<"oleg", "volkov">>}
MCSpellings == {<<<<"red", "starr">>, <<"red", "star">>>>}
MCEditions == {{<<"red", "star">>}, {<<"red", "starr">>, <<"iron", "bank">>}}

Init ==
    /\ part \in {"spans", "uploads", "keys", "bus", "sanctions"}
    /\ RingInit /\ UploadInit /\ KeyInit /\ BusInit /\ ListInit
    /\ part # "keys" => published = SigningKeys

SpansPart ==
    part = "spans" /\ RingNext /\ UNCHANGED <<part, uploadVars, keyVars, busVars, listVars>>
UploadsPart ==
    part = "uploads" /\ UploadNext /\ UNCHANGED <<part, ringVars, keyVars, busVars, listVars>>
KeysPart ==
    part = "keys" /\ KeyNext /\ UNCHANGED <<part, ringVars, uploadVars, busVars, listVars>>
BusPart ==
    part = "bus" /\ BusNext /\ UNCHANGED <<part, ringVars, uploadVars, keyVars, listVars>>
SanctionsPart ==
    part = "sanctions" /\ ListNext
    /\ UNCHANGED <<part, ringVars, uploadVars, keyVars, busVars>>

Next == SpansPart \/ UploadsPart \/ KeysPart \/ BusPart \/ SanctionsPart

Spec == Init /\ [][Next]_<<part, ringVars, uploadVars, keyVars, busVars, listVars>>

(* The type invariants of the five modules, each of the part that moves.   *)
TypesOK ==
    /\ part = "spans" => RingTypeOK
    /\ part = "uploads" => UploadTypeOK
    /\ part = "keys" => KeyTypeOK
    /\ part = "bus" => BusTypeOK
    /\ part = "sanctions" => ListTypeOK
=============================================================================
