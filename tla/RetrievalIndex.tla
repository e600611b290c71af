---------------------------- MODULE RetrievalIndex ----------------------------
(***************************************************************************)
(* The search index of the copilot: GraphRAGRetriever                      *)
(* (app/services/retrieval.py) over the in-memory vector store             *)
(* (app/services/vector_store.py), fed by document uploads                 *)
(* (app/services/ingestion.py) and rebuilt from the graph store's corpus.  *)
(*                                                                         *)
(* Uploads and queries run on threads that share the retriever without a   *)
(* lock. The index is rebuilt whenever the number of graph nodes is not the*)
(* one remembered; with Neo4j, which shows no nodes, it is built once. A   *)
(* batch is added to a vector store in three steps: the ids are appended,  *)
(* the matrix is read, the longer matrix is put in its place.              *)
(*                                                                         *)
(* Each document stands for its batch of chunks, "corpus" for the batch of *)
(* policies, regulations and evidence.                                     *)
(***************************************************************************)
EXTENDS Integers, FiniteSets, Sequences, SequencesExt

CONSTANTS
    Docs,         \* contents that may be uploaded; equal contents, equal id
    Textless,     \* those no text can be extracted from
    Workers,      \* request threads
    MaxRequests,  \* bound: uploads, queries and evaluations
    MaxEvaluations,  \* bound: evaluations among them
    MaxFaults     \* bound: reads of the Neo4j corpus that raise

ASSUME DocsAssumption == {"corpus", "nothing", "none", "evaluation"} \cap Docs = {}
ASSUME TextlessAssumption == Textless \subseteq Docs
ASSUME BoundsAssumption == MaxRequests \in Nat /\ MaxEvaluations \in Nat /\ MaxFaults \in Nat

VARIABLES
    backend,     \* the graph store: "memory" or "neo4j"
    uploaded,    \* document nodes of the graph store
    retrievers,  \* GraphRAGRetriever objects: vector store and remembered count
    registered,  \* the one _retrievers holds, or 0
    stores,      \* InMemoryVectorStore objects: ids and matrix rows
    job,         \* the request each thread serves
    finished,    \* history: documents whose upload was answered, and evaluations
    overlapped,  \* history: two requests ever ran at once
    requests, faults

vars == <<backend, uploaded, retrievers, registered, stores, job, finished,
          overlapped, requests, faults>>

Corpus == "corpus"
Items == Docs \cup {Corpus}

(* GraphStore.nodes: the seeded ones are not counted. None for Neo4j.      *)
NodeCount == IF backend = "memory" THEN Cardinality(uploaded) ELSE 0

NeverBuilt == -1
NewStore == [ids |-> <<>>, rows |-> <<>>]

Idle == [pc |-> "idle"]
At(w, pc) == job[w].pc = pc
Goto(w, pc) == job' = [job EXCEPT ![w].pc = pc]
IsQuery(w) == job[w].doc = "none"
Evaluates(w) == job[w].doc = "evaluation"
Adds(w) == job[w].doc \in Docs

(* The retriever the thread holds, and the store that retriever has now.   *)
Mine(w) == retrievers[job[w].r]

(* What the registered retriever finds. *)
FoundBy(r) == ToSet(stores[retrievers[r].vs].rows)
Found == IF registered = 0 THEN {} ELSE FoundBy(registered)

Init ==
    /\ backend \in {"memory", "neo4j"}
    /\ uploaded = {} /\ retrievers = <<>> /\ registered = 0 /\ stores = <<>>
    /\ job = [w \in Workers |-> Idle]
    /\ finished = <<>> /\ overlapped = FALSE
    /\ requests = 0 /\ faults = 0

-----------------------------------------------------------------------------
(* Requests. *)

Begin(w, j) ==
    /\ At(w, "idle")
    /\ requests < MaxRequests
    /\ requests' = requests + 1
    /\ job' = [job EXCEPT ![w] = j]
    /\ overlapped' = (overlapped \/ \E v \in Workers : ~At(v, "idle"))

Request(doc) ==
    [pc |-> "get", doc |-> doc, r |-> 0, size |-> 0, item |-> Corpus, vs |-> 0,
     rows |-> <<>>]

Answered(w) == finished' = IF IsQuery(w) THEN finished ELSE Append(finished, job[w].doc)
Done(w) == job' = [job EXCEPT ![w] = Idle]

(* ingest_document, up to its index_chunks: the node is added, or written  *)
(* again if the content is known; without text there is nothing to index.  *)
Upload(w) ==
    /\ \E d \in Docs :
          /\ uploaded' = uploaded \cup {d}
          /\ Begin(w, IF d \in Textless THEN Idle ELSE Request(d))
          /\ finished' = IF d \in Textless THEN Append(finished, d) ELSE finished
    /\ UNCHANGED <<backend, retrievers, registered, stores, faults>>

Query(w) ==
    /\ Begin(w, Request("none"))
    /\ UNCHANGED <<backend, uploaded, retrievers, registered, stores, finished, faults>>

Evaluations ==
    Len(SelectSeq(finished, LAMBDA f : f = "evaluation"))
        + Cardinality({w \in Workers : ~At(w, "idle") /\ Evaluates(w)})

(* The ablation of an evaluation (eval/harness.py:215-227): it builds the  *)
(* index whether there is one or not, and then searches it.                *)
Evaluate(w) ==
    /\ Evaluations < MaxEvaluations
    /\ Begin(w, Request("evaluation"))
    /\ UNCHANGED <<backend, uploaded, retrievers, registered, stores, finished, faults>>

(* get_retriever: use the registered one or make one, with an empty store, *)
(* and register it.                                                        *)
GetRetriever(w) ==
    /\ At(w, "get")
    /\ IF registered # 0
       THEN /\ job' = [job EXCEPT ![w].pc = "ensure", ![w].r = registered]
            /\ UNCHANGED <<retrievers, stores>>
       ELSE /\ stores' = Append(stores, NewStore)
            /\ retrievers' = Append(retrievers,
                  [vs |-> Len(stores) + 1, count |-> NeverBuilt])
            /\ job' = [job EXCEPT ![w].pc = "register", ![w].r = Len(retrievers) + 1]
    /\ UNCHANGED <<backend, uploaded, registered, finished, overlapped,
                   requests, faults>>

Register(w) ==
    /\ At(w, "register")
    /\ registered' = job[w].r
    /\ Goto(w, "ensure")
    /\ UNCHANGED <<backend, uploaded, retrievers, stores, finished,
                   overlapped, requests, faults>>

(* _ensure_index, or the build_index of an evaluation *)
Stale(w) ==
    IF backend = "memory" THEN Mine(w).count # NodeCount
    ELSE Mine(w).count = NeverBuilt

(* Mutant: only a query builds the index. *)
EnsureIndexForQuery(w) ==
    /\ At(w, "ensure")
    /\ job' = [job EXCEPT
          ![w].pc = IF Adds(w) THEN "chunks"
                    ELSE IF Stale(w) \/ Evaluates(w) THEN "scan" ELSE "search",
          ![w].size = NodeCount]
    /\ UNCHANGED <<backend, uploaded, retrievers, registered, stores, finished,
                   overlapped, requests, faults>>

(* ... builds or not, before the request goes on *)
EnsureIndex(w) ==
    /\ At(w, "ensure")
    /\ job' = [job EXCEPT
          ![w].pc = IF Stale(w) \/ Evaluates(w) THEN "scan"
                    ELSE IF Adds(w) THEN "chunks" ELSE "search",
          ![w].size = NodeCount]
    /\ UNCHANGED <<backend, uploaded, retrievers, registered, stores, finished,
                   overlapped, requests, faults>>

(* build_index goes through the nodes; a node added before it is through   *)
(* makes Python raise, which fails a query and, silently, the indexing of  *)
(* an upload; one added before it starts does not. A corpus Neo4j does not *)
(* deliver is taken for an empty one.                                      *)
Scan(w) ==
    /\ At(w, "scan")
    /\ \/ /\ job' = [job EXCEPT ![w].pc = "replace", ![w].item = Corpus]
          /\ UNCHANGED <<finished, faults>>
       \/ /\ job[w].size # NodeCount
          /\ Done(w) /\ Answered(w) /\ UNCHANGED faults
       \/ /\ backend = "neo4j" /\ faults < MaxFaults
          /\ faults' = faults + 1
          /\ job' = [job EXCEPT ![w].pc = "replace", ![w].item = "nothing"]
          /\ UNCHANGED finished
    /\ UNCHANGED <<backend, uploaded, retrievers, registered, stores, overlapped,
                   requests>>

(* self.vector_store = a new, empty store *)
Replace(w) ==
    /\ At(w, "replace")
    /\ stores' = Append(stores, NewStore)
    /\ retrievers' = [retrievers EXCEPT ![job[w].r].vs = Len(stores) + 1]
    /\ Goto(w, IF job[w].item = "nothing" THEN "count" ELSE "ids")
    /\ UNCHANGED <<backend, uploaded, registered, finished, overlapped, requests,
                   faults>>

(* Mutant: an id that is listed is not listed again. *)
AppendIdsOnce(w) ==
    LET vs == Mine(w).vs
    IN  /\ At(w, "ids")
        /\ stores' = [stores EXCEPT ![vs].ids =
                        IF Contains(@, job[w].item) THEN @ ELSE Append(@, job[w].item)]
        /\ job' = [job EXCEPT ![w].pc = "read", ![w].vs = vs]
        /\ UNCHANGED <<backend, uploaded, retrievers, registered, finished,
                       overlapped, requests, faults>>

(* add_batch of the retriever's store as it is now: ids, texts, metadata,  *)
AppendIds(w) ==
    LET vs == Mine(w).vs
    IN  /\ At(w, "ids")
        /\ stores' = [stores EXCEPT ![vs].ids = Append(@, job[w].item)]
        /\ job' = [job EXCEPT ![w].pc = "read", ![w].vs = vs]
        /\ UNCHANGED <<backend, uploaded, retrievers, registered, finished,
                       overlapped, requests, faults>>

(* ... the matrix is read to be stacked on the new vectors,                *)
ReadMatrix(w) ==
    /\ At(w, "read")
    /\ job' = [job EXCEPT ![w].pc = "write", ![w].rows = stores[job[w].vs].rows]
    /\ UNCHANGED <<backend, uploaded, retrievers, registered, stores, finished,
                   overlapped, requests, faults>>

(* Mutant: the matrix is replaced by the new vectors. *)
WriteMatrixAlone(w) ==
    /\ At(w, "write")
    /\ stores' = [stores EXCEPT ![job[w].vs].rows = <<job[w].item>>]
    /\ Goto(w, IF job[w].item = Corpus THEN "count" ELSE "settle")
    /\ UNCHANGED <<backend, uploaded, retrievers, registered, finished, overlapped,
                   requests, faults>>

(* ... and the result is put in its place *)
WriteMatrix(w) ==
    /\ At(w, "write")
    /\ stores' = [stores EXCEPT ![job[w].vs].rows = Append(job[w].rows, job[w].item)]
    /\ Goto(w, IF job[w].item = Corpus THEN "count" ELSE "settle")
    /\ UNCHANGED <<backend, uploaded, retrievers, registered, finished, overlapped,
                   requests, faults>>

(* Mutant: the build remembers the number of items, as with Neo4j. *)
CountItems(w) ==
    /\ At(w, "count")
    /\ retrievers' = [retrievers EXCEPT ![job[w].r].count = 1]
    /\ Goto(w, IF Adds(w) THEN "chunks" ELSE "search")
    /\ UNCHANGED <<backend, uploaded, registered, stores, finished, overlapped,
                   requests, faults>>

(* the build remembers how many nodes there are by now *)
Count(w) ==
    /\ At(w, "count")
    /\ retrievers' = [retrievers EXCEPT ![job[w].r].count = NodeCount]
    /\ Goto(w, IF Adds(w) THEN "chunks" ELSE "search")
    /\ UNCHANGED <<backend, uploaded, registered, stores, finished, overlapped,
                   requests, faults>>

(* index_chunks: the document's own batch goes through add_batch too *)
IndexChunks(w) ==
    /\ At(w, "chunks")
    /\ job' = [job EXCEPT ![w].pc = "ids", ![w].item = job[w].doc]
    /\ UNCHANGED <<backend, uploaded, retrievers, registered, stores, finished,
                   overlapped, requests, faults>>

(* ... and the number of nodes is remembered again *)
Settle(w) ==
    /\ At(w, "settle")
    /\ retrievers' = [retrievers EXCEPT ![job[w].r].count = NodeCount]
    /\ Done(w) /\ Answered(w)
    /\ UNCHANGED <<backend, uploaded, registered, stores, overlapped, requests,
                   faults>>

(* retrieve scores the rows of the matrix there is; with no hit it answers *)
(* with _FALLBACK.                                                         *)
Search(w) ==
    /\ At(w, "search")
    /\ Done(w) /\ Answered(w)
    /\ UNCHANGED <<backend, uploaded, retrievers, registered, stores, overlapped,
                   requests, faults>>

Serve(w) ==
    \/ GetRetriever(w) \/ Register(w) \/ EnsureIndex(w) \/ Scan(w) \/ Replace(w)
    \/ AppendIds(w) \/ ReadMatrix(w) \/ WriteMatrix(w) \/ Count(w)
    \/ IndexChunks(w) \/ Settle(w) \/ Search(w)

Next == \E w \in Workers : Upload(w) \/ Query(w) \/ Evaluate(w) \/ Serve(w)

Spec == Init /\ [][Next]_vars

-----------------------------------------------------------------------------
(* Properties. *)

Pcs == {"get", "register", "ensure", "scan", "replace", "ids", "read", "write",
        "count", "chunks", "settle", "search"}

Requests == [pc : Pcs, doc : Docs \cup {"none", "evaluation"}, r : Nat, size : Nat,
             item : Items \cup {"nothing"}, vs : Nat, rows : Seq(Items)]

(* A thread past GetRetriever holds a retriever; one inside add_batch holds*)
(* a store.                                                                *)
JobOK(j) ==
    /\ j.pc # "get" => j.r \in DOMAIN retrievers
    /\ j.pc \in {"read", "write"} => j.vs \in DOMAIN stores
    /\ j.pc \in {"ids", "read", "write"} => j.item \in Items

(* Type invariant: references are to objects there are, counts to nodes    *)
(* there were.                                                             *)
TypeOK ==
    /\ backend \in {"memory", "neo4j"}
    /\ uploaded \subseteq Docs
    /\ stores \in Seq([ids : Seq(Items), rows : Seq(Items)])
    /\ retrievers \in Seq([vs : DOMAIN stores,
                           count : {NeverBuilt} \cup 0 .. NodeCount])
    /\ registered \in {0} \cup DOMAIN retrievers
    /\ job \in [Workers -> Requests \cup {Idle}]
    /\ \A w \in Workers : job[w] # Idle => JobOK(job[w])
    /\ finished \in Seq(Docs \cup {"evaluation"})
    /\ overlapped \in BOOLEAN
    /\ requests \in 0 .. MaxRequests
    /\ faults \in 0 .. MaxFaults

(* Safety, all interleavings: a row of the matrix always has an id, text   *)
(* and metadata at its index, so a search beside any number of uploads and *)
(* rebuilds does not run past the lists (vector_store.py:79-87, 93-106).   *)
RowsWithinIds ==
    \A s \in DOMAIN stores : Len(stores[s].rows) <= Len(stores[s].ids)

(* Safety: a query that runs with no other request around scores the       *)
(* corpus, whatever was uploaded before, unless Neo4j failed to deliver it *)
(* when the index was built (retrieval.py:108-117, 187-192).               *)
CorpusIsSearched ==
    ~overlapped /\ faults = 0 =>
        \A w \in Workers : At(w, "search") => Corpus \in FoundBy(job[w].r)

Quiet == \A w \in Workers : At(w, "idle")
HasText(d) == d \in Docs \ Textless

(* Safety: uploaded documents become "searchable by the copilot            *)
(* immediately" (ingestion.py:113-114): when no two requests ran at once,  *)
(* the document uploaded last is found, and with Neo4j every one is, until *)
(* an evaluation builds the index anew.                                    *)
LatestUploadFound ==
    Quiet /\ ~overlapped =>
        \A i \in DOMAIN finished :
            LET later == {finished[j] : j \in i + 1 .. Len(finished)}
            IN  /\ HasText(finished[i])
                /\ backend = "neo4j" \/ later \cap Docs = {}
                /\ "evaluation" \notin later
                => finished[i] \in Found

SearchIsComplete == CorpusIsSearched /\ LatestUploadFound

-----------------------------------------------------------------------------
(* What the repository says and the code does not keep.                    *)

(* Safety: the comment above says uploaded chunks are not dropped. Each    *)
(* upload adds a node, so the next one rebuilds the index without them.    *)
UploadsStayFound ==
    Quiet => \A i \in DOMAIN finished : HasText(finished[i]) => finished[i] \in Found
===============================================================================
