------------------------------ MODULE AzureSearch ------------------------------
(***************************************************************************)
(* The search index in Azure AI Search                                     *)
(* (app/services/azure_search_store.py), which all replicas write to and   *)
(* which outlives them. Every batch goes to a local "shadow" index first,  *)
(* for when the service does not answer. A replica that cannot reach the   *)
(* service when it makes a store works with a local one                    *)
(* (app/services/retrieval.py:52-63) until it makes the next.              *)
(*                                                                         *)
(* A replica serves one request at a time here; what threads do to one     *)
(* another in a retriever, and a corpus Neo4j does not deliver, is          *)
(* RetrievalIndex. Each document stands for its batch of chunks, and every *)
(* document has text.                                                      *)
(***************************************************************************)
EXTENDS Integers, FiniteSets

CONSTANTS
    Contents,      \* documents that may be uploaded
    Hosts,         \* replicas
    MaxServed, MaxOutages, MaxReboots   \* bounds: requests, calls that fail

ASSUME ContentsAssumption == IsFiniteSet(Contents) /\ {"policies", "none"} \cap Contents = {}
ASSUME SearchBounds == MaxServed \in Nat /\ MaxOutages \in Nat /\ MaxReboots \in Nat

VARIABLES
    graph,       \* the graph store: "memory", one per replica, or "neo4j"
    remote,      \* the batches in the service's index
    kept,        \* document nodes of each replica's graph store
    local,       \* per replica: its vector store, and the count remembered
    request,     \* per replica: what it serves
    added,       \* history: uploads answered by each replica since its start
    dropped,     \* history: ... of which the store was replaced since
    unsent,      \* history: batches some call for which failed
    served, outages, reboots

searchVars == <<graph, remote, kept, local, request, added, dropped, unsent,
                served, outages, reboots>>
counted == <<served, outages, reboots>>

CorpusBatch == "policies"     \* the batch of the graph's own texts
Batches == Contents \cup {CorpusBatch}
NeverIndexed == -1
NoStore == [service |-> FALSE, holds |-> {}, count |-> NeverIndexed]
Rest == [step |-> "idle", doc |-> "none", item |-> "none"]
Does(p, step) == request[p].step = step
NowDoes(p, step, item) == request' = [request EXCEPT ![p].step = step, ![p].item = item]

(* The nodes a replica can count; with Neo4j it sees none.                 *)
Counted(p) == IF graph = "memory" THEN Cardinality(kept[p]) ELSE 0

SearchInit ==
    /\ graph \in {"memory", "neo4j"}
    /\ remote = {} /\ unsent = {}
    /\ kept = [p \in Hosts |-> {}]
    /\ local = [p \in Hosts |-> NoStore]
    /\ request = [p \in Hosts |-> Rest]
    /\ added = [p \in Hosts |-> {}] /\ dropped = [p \in Hosts |-> {}]
    /\ served = 0 /\ outages = 0 /\ reboots = 0

-----------------------------------------------------------------------------
(* A call of the service is answered, or it is not. *)
Outage ==
    /\ outages < MaxOutages
    /\ outages' = outages + 1
    /\ UNCHANGED <<served, reboots>>

(* A question, or an upload, whose node is in the graph by now. *)
Serve(p, doc) ==
    /\ Does(p, "idle") /\ served < MaxServed
    /\ served' = served + 1
    /\ request' = [request EXCEPT ![p] = [step |-> "ensure", doc |-> doc, item |-> "none"]]
    /\ kept' = IF doc \in Contents THEN [kept EXCEPT ![p] = @ \cup {doc}] ELSE kept
    /\ UNCHANGED <<graph, remote, local, added, dropped, unsent, outages, reboots>>

(* After the index is there: the upload's chunks, or the search. *)
GoesOn(p) ==
    IF request[p].doc \in Contents THEN NowDoes(p, "add", request[p].doc)
    ELSE NowDoes(p, "search", "none")

OutOfDate(p) ==
    IF graph = "memory" THEN local[p].count # Counted(p) ELSE local[p].count = NeverIndexed

Ensure(p) ==
    /\ Does(p, "ensure")
    /\ IF OutOfDate(p) THEN NowDoes(p, "make", "none") ELSE GoesOn(p)
    /\ UNCHANGED <<graph, remote, kept, local, added, dropped, unsent, counted>>

(* _new_vector_store: a store of the service if the index can be created   *)
(* or updated there, and a local one otherwise; build_index fills it.      *)
MakeStore(p, answers) ==
    /\ Does(p, "make")
    /\ local' = [local EXCEPT ![p] = [service |-> answers, holds |-> {}, count |-> @.count]]
    /\ dropped' = [dropped EXCEPT ![p] = added[p]]
    /\ NowDoes(p, "add", CorpusBatch)
    /\ IF answers THEN UNCHANGED counted ELSE Outage
    /\ UNCHANGED <<graph, remote, kept, added, unsent>>

(* Mutant: the service's store keeps no batch it is about to send. *)
ShadowedOnlyLocal(p, item) ==
    IF local[p].service THEN local[p].holds ELSE local[p].holds \cup {item}

(* what a replica's own index holds after a batch *)
Shadowed(p, item) == local[p].holds \cup {item}

AddBatch(p) ==
    /\ Does(p, "add")
    /\ local' = [local EXCEPT ![p].holds = Shadowed(p, request[p].item)]
    /\ NowDoes(p, IF local[p].service THEN "send" ELSE "settle", request[p].item)
    /\ UNCHANGED <<graph, remote, kept, added, dropped, unsent, counted>>

(* The batch is uploaded; whatever goes wrong is logged. A call that fails *)
(* may have been carried out.                                              *)
Send(p, answers) ==
    LET item == request[p].item
    IN  /\ Does(p, "send")
        /\ \/ remote' = remote \cup {item}
           \/ ~answers /\ remote' = remote
        /\ IF answers THEN UNCHANGED <<counted, unsent>>
           ELSE Outage /\ unsent' = unsent \cup {item}
        /\ NowDoes(p, "settle", item)
        /\ UNCHANGED <<graph, kept, local, added, dropped>>

(* build_index and index_chunks both remember the count of nodes *)
Settle(p) ==
    /\ Does(p, "settle")
    /\ local' = [local EXCEPT ![p].count = Counted(p)]
    /\ IF request[p].item = CorpusBatch
       THEN GoesOn(p) /\ UNCHANGED <<added, dropped>>
       ELSE /\ request' = [request EXCEPT ![p] = Rest]
            /\ added' = [added EXCEPT ![p] = @ \cup {request[p].item}]
            /\ dropped' = [dropped EXCEPT ![p] = @ \ {request[p].item}]
    /\ UNCHANGED <<graph, remote, kept, unsent, counted>>

(* What search ranks: the index of the service, or the replica's own. *)
Ranked(p, answers) == IF local[p].service /\ answers THEN remote ELSE local[p].holds

Search(p, answers) ==
    /\ Does(p, "search")
    /\ IF answers THEN UNCHANGED counted ELSE local[p].service /\ Outage
    /\ request' = [request EXCEPT ![p] = Rest]
    /\ UNCHANGED <<graph, remote, kept, local, added, dropped, unsent>>

(* A replica is stopped anywhere, and starts again with no index. *)
Reboot(p) ==
    /\ reboots < MaxReboots
    /\ reboots' = reboots + 1
    /\ kept' = IF graph = "memory" THEN [kept EXCEPT ![p] = {}] ELSE kept
    /\ local' = [local EXCEPT ![p] = NoStore]
    /\ request' = [request EXCEPT ![p] = Rest]
    /\ added' = [added EXCEPT ![p] = {}] /\ dropped' = [dropped EXCEPT ![p] = {}]
    /\ UNCHANGED <<graph, remote, unsent, served, outages>>

SearchNext ==
    \E p \in Hosts :
        \/ \E doc \in Contents \cup {"none"} : Serve(p, doc)
        \/ Ensure(p) \/ AddBatch(p) \/ Settle(p) \/ Reboot(p)
        \/ \E answers \in BOOLEAN : MakeStore(p, answers) \/ Send(p, answers) \/ Search(p, answers)

SearchSpec == SearchInit /\ [][SearchNext]_searchVars

-----------------------------------------------------------------------------
(* Properties. *)

SearchTypeOK ==
    /\ graph \in {"memory", "neo4j"}
    /\ remote \subseteq Batches /\ unsent \subseteq Batches
    /\ kept \in [Hosts -> SUBSET Contents]
    /\ local \in [Hosts -> [service : BOOLEAN, holds : SUBSET Batches,
                            count : {NeverIndexed} \cup 0 .. Cardinality(Contents)]]
    /\ request \in [Hosts -> [step : {"idle", "ensure", "make", "add", "send", "settle", "search"},
                              doc : Contents \cup {"none"}, item : Batches \cup {"none"}]]
    /\ added \in [Hosts -> SUBSET Contents] /\ dropped \in [Hosts -> SUBSET Contents]
    /\ \A p \in Hosts : dropped[p] \subseteq added[p]

(* Safety: "a search outage degrades to local retrieval instead of empty   *)
(* citations" (azure_search_store.py:15-18): whenever a replica searches,  *)
(* through outages, restarts and uploads to other replicas, it ranks the   *)
(* policies, and with the service every document any replica has added     *)
(* through it; without, those it added itself and has not rebuilt over. Of *)
(* batches the service did not confirm only the second is promised.        *)
SearchDegrades ==
    \A p \in Hosts : Does(p, "search") =>
        /\ {CorpusBatch} \cup (added[p] \ dropped[p]) \subseteq Ranked(p, FALSE)
        /\ graph = "neo4j" => dropped[p] = {}
        /\ local[p].service =>
              Ranked(p, FALSE) \subseteq Ranked(p, TRUE) \cup unsent
=================================================================================
