------------------------ MODULE RetrievalIndex_proofs ------------------------
(***************************************************************************)
(* Proofs about RetrievalIndex: types, that every row has an id, and that  *)
(* a search alone finds what it should, for any documents, threads and     *)
(* bounds.                                                                 *)
(*                                                                         *)
(* Rows and ids: a thread inside add_batch has listed an id and will write *)
(* a matrix it read earlier, so the matrix may grow or shrink by any       *)
(* interleaving. What is invariant is that each matrix there is, or that a *)
(* thread is about to write, has room among the ids for one more row of    *)
(* every thread inside add_batch (RowsFit).                                *)
(*                                                                         *)
(* Searches: while no two requests ran at once there is one retriever, the *)
(* request at hand knows its store, and what lasts of the uploads is in    *)
(* that store unless the request itself is about to make it outdated       *)
(* (Serial).                                                               *)
(*                                                                         *)
(* Texts: a recursive function is any solution of its equation, so one has *)
(* to be shown first, and then what every solution does, by looking at the *)
(* last place where it would not.                                          *)
(***************************************************************************)
EXTENDS MCRetrievalIndex, TLAPS, FiniteSetTheorems, WellFoundedInduction

(* Threads whose id is listed and whose row is not in the matrix yet.      *)
Pending(s) == {w \in Workers : job[w].pc \in {"read", "write"} /\ job[w].vs = s}

(* Every matrix there is or will be, with a row for each pending thread,   *)
(* fits the ids.                                                           *)
RowsFit ==
    \A s \in DOMAIN stores :
        /\ IsFiniteSet(Pending(s))
        /\ Len(stores[s].rows) + Cardinality(Pending(s)) <= Len(stores[s].ids)
        /\ \A w \in Pending(s) : job[w].pc = "write" =>
              Len(job[w].rows) + Cardinality(Pending(s)) <= Len(stores[s].ids)

(* What a request is at each point of its way. *)
WayOf(j) ==
    /\ j.pc \in {"chunks", "settle"} => j.doc \in Docs
    /\ j.pc = "replace" => j.item \in {Corpus, "nothing"}
    /\ j.pc \in {"ids", "read", "write"} =>
          j.item = Corpus \/ (j.item = j.doc /\ j.doc \in Docs)
    /\ j.pc = "settle" => j.item = j.doc

Way ==
    /\ IsFiniteSet(uploaded)
    /\ \A w \in Workers : job[w].pc # "idle" => WayOf(job[w])

(* The invariant of the induction over all interleavings.                  *)
IndexInv == TypeOK /\ Way /\ RowsFit

-----------------------------------------------------------------------------
(* While no two requests ran at once.                                      *)

OneRequest == \A v, w \in Workers : job[v].pc # "idle" /\ job[w].pc # "idle" => v = w

RowsOf(r) == stores[retrievers[r].vs].rows
HasCorpus(r) == Corpus \in ToSet(RowsOf(r))

(* The request at hand holds the registered retriever, or is making it,    *)
(* and what it read is what is there.                                      *)
SerialJob(j) ==
    /\ j.pc = "register" =>
          /\ registered = 0
          /\ retrievers[j.r].count = NeverBuilt
    /\ j.pc \notin {"idle", "get", "register"} => j.r = registered
    /\ j.pc = "scan" => j.size = NodeCount
    /\ j.pc \in {"read", "write"} => j.vs = retrievers[j.r].vs
    /\ j.pc = "write" => j.rows = RowsOf(j.r)

(* An index that was built holds the corpus, as long as Neo4j delivered it.*)
CorpusBetween ==
    registered # 0 /\ retrievers[registered].count # NeverBuilt => HasCorpus(registered)

CorpusJob(j) ==
    /\ j.pc \in {"get", "ensure"} => CorpusBetween
    /\ j.pc = "replace" => j.item = Corpus
    /\ j.pc \in {"ids", "read", "write"} => j.item = Corpus \/ HasCorpus(j.r)
    /\ j.pc \in {"count", "chunks", "settle", "search"} => HasCorpus(j.r)

(* The answered uploads that are still to be found: those with a text,     *)
(* after which nothing came that makes the index outdated.                 *)
Lasts(i) ==
    LET later == {finished[j] : j \in i + 1 .. Len(finished)}
    IN  /\ HasText(finished[i])
        /\ backend = "neo4j" \/ later \cap Docs = {}
        /\ "evaluation" \notin later
Lasting == {finished[i] : i \in {k \in DOMAIN finished : Lasts(k)}}

(* The next request does not build the index anew. *)
Fresh(r) == IF backend = "memory" THEN retrievers[r].count = NodeCount ELSE retrievers[r].count # NeverBuilt

LastingFound ==
    Lasting # {} => registered # 0 /\ Fresh(registered) /\ Lasting \subseteq FoundBy(registered)

(* A request that does not make the index outdated: it is not in the middle*)
(* of building it while there is something to lose.                        *)
Spares(j) == j.doc = "none" \/ (j.doc \in Docs /\ backend = "neo4j")
LastingJob(j) ==
    /\ j.pc # "idle" /\ Spares(j) /\ Lasting # {} =>
          /\ LastingFound
          /\ j.pc \in {"get", "ensure", "chunks", "ids", "read", "write", "settle", "search"}
          /\ j.pc \in {"ids", "read", "write"} => j.item = j.doc
    /\ j.pc = "settle" => j.doc \in FoundBy(j.r)
    /\ j.pc = "search" => j.doc \notin Docs

Serial ==
    ~overlapped =>
        /\ OneRequest
        /\ \A w \in Workers : SerialJob(job[w]) /\ LastingJob(job[w])
        /\ Quiet => LastingFound
        /\ faults = 0 =>
              /\ \A w \in Workers : CorpusJob(job[w])
              /\ Quiet => CorpusBetween

(* The invariant of the induction for searches.                            *)
SerialInv == IndexInv /\ Serial

-----------------------------------------------------------------------------

LEMMA NodeCountType ==
    ASSUME IsFiniteSet(uploaded)
    PROVE  NodeCount \in Nat /\ NodeCount # NeverBuilt
  <1>1. Cardinality(uploaded) \in Nat
    BY FS_CardinalityType
  <1> QED BY <1>1 DEF NodeCount, NeverBuilt

Counts == {NeverBuilt} \cup 0 .. NodeCount
Stored == [ids : Seq(Items), rows : Seq(Items)]
Jobs == [Workers -> Requests \cup {Idle}]

LEMMA Active ==
    ASSUME TypeOK, NEW w \in Workers, job[w].pc # "idle"
    PROVE  job[w] \in Requests /\ JobOK(job[w])
  BY DEF TypeOK, Idle

LEMMA SetPc ==
    ASSUME TypeOK, NEW w \in Workers, job[w].pc # "idle", NEW pc \in Pcs,
           job' = [job EXCEPT ![w].pc = pc]
    PROVE  /\ job' \in Jobs
           /\ job'[w] \in Requests /\ job'[w].pc = pc
           /\ job'[w].doc = job[w].doc /\ job'[w].r = job[w].r /\ job'[w].size = job[w].size
           /\ job'[w].item = job[w].item /\ job'[w].vs = job[w].vs /\ job'[w].rows = job[w].rows
           /\ \A v \in Workers \ {w} : job'[v] = job[v]
  <1> DEFINE j == [job[w] EXCEPT !.pc = pc]
  <1>1. job[w] \in Requests /\ job \in Jobs
    BY Active DEF TypeOK, Jobs
  <1>2. j \in Requests /\ j.pc = pc
    BY <1>1 DEF Requests
  <1>3. /\ j.doc = job[w].doc /\ j.r = job[w].r /\ j.size = job[w].size
        /\ j.item = job[w].item /\ j.vs = job[w].vs /\ j.rows = job[w].rows
    BY <1>1 DEF Requests
  <1>4. job' = [job EXCEPT ![w] = j]
    OBVIOUS
  <1> HIDE DEF j
  <1>5. job' \in Jobs /\ job'[w] = j /\ \A v \in Workers \ {w} : job'[v] = job[v]
    BY <1>1, <1>2, <1>4 DEF Jobs
  <1> QED BY <1>2, <1>3, <1>5

LEMMA SetIdle ==
    ASSUME TypeOK, NEW w \in Workers, job' = [job EXCEPT ![w] = Idle]
    PROVE  /\ job' \in Jobs /\ job'[w] = Idle /\ job'[w].pc = "idle"
           /\ \A v \in Workers \ {w} : job'[v] = job[v]
  BY DEF TypeOK, Jobs, Idle

LEMMA WiderSeq ==
    ASSUME NEW A, NEW B, A \subseteq B, NEW s \in Seq(A)
    PROVE  s \in Seq(B)
  OBVIOUS

LEMMA AddStore ==
    ASSUME TypeOK, stores' = Append(stores, NewStore)
    PROVE  /\ stores' \in Seq(Stored)
           /\ Len(stores') = Len(stores) + 1 /\ Len(stores) \in Nat
           /\ DOMAIN stores = 1 .. Len(stores) /\ DOMAIN stores' = 1 .. Len(stores) + 1
           /\ \A s \in DOMAIN stores : stores'[s] = stores[s]
           /\ stores'[Len(stores) + 1] = NewStore
  <1>1. NewStore \in Stored
    BY DEF NewStore, Stored
  <1> QED BY <1>1 DEF TypeOK, Stored

(* Threads beside the matrix leave the pending ones as they are.           *)
LEMMA PendingSame ==
    ASSUME NEW w \in Workers, \A v \in Workers \ {w} : job'[v] = job[v],
           job[w].pc \notin {"read", "write"}, job'[w].pc \notin {"read", "write"},
           NEW s
    PROVE  /\ Pending(s)' = Pending(s)
           /\ \A v \in Pending(s) : job'[v] = job[v]
  BY DEF Pending

LEMMA IndexStep ==
    ASSUME IndexInv, NEW w \in Workers,
           job' \in Jobs, \A v \in Workers \ {w} : job'[v] = job[v],
           job'[w].pc # "idle" => JobOK(job[w])' /\ WayOf(job[w])',
           backend' = backend, uploaded' = uploaded,
           finished' \in Seq(Docs \cup {"evaluation"}),
           overlapped' = overlapped, requests' = requests, faults' \in 0 .. MaxFaults,
           stores' \in Seq(Stored), DOMAIN stores \subseteq DOMAIN stores',
           retrievers' \in Seq([vs : DOMAIN stores', count : Counts]),
           DOMAIN retrievers \subseteq DOMAIN retrievers',
           registered' \in {0} \cup DOMAIN retrievers',
           RowsFit'
    PROVE  IndexInv'
  <1>1. NodeCount' = NodeCount
    BY DEF NodeCount
  <1>2. TypeOK'
    <2>1. ASSUME NEW v \in Workers, job'[v] # Idle PROVE JobOK(job[v])'
      <3>1. CASE v = w
        <4>1. job'[w] \in Requests
          BY <2>1, <3>1 DEF Jobs
        <4> QED BY <3>1, <4>1 DEF Requests, Pcs
      <3>2. CASE v # w
        <4>1. job'[v] = job[v] /\ JobOK(job[v])
          BY <3>2, <2>1 DEF IndexInv, TypeOK
        <4> QED BY <4>1 DEF JobOK
      <3> QED BY <3>1, <3>2
    <2> QED BY <1>1, <2>1 DEF IndexInv, TypeOK, Jobs, Stored, Counts
  <1>3. Way'
    <2>1. ASSUME NEW v \in Workers, job'[v].pc # "idle" PROVE WayOf(job[v])'
      <3>1. CASE v = w
        BY <3>1, <2>1
      <3>2. CASE v # w
        <4>1. job'[v] = job[v] /\ WayOf(job[v])
          BY <3>2, <2>1 DEF IndexInv, Way
        <4> QED BY <4>1 DEF WayOf
      <3> QED BY <3>1, <3>2
    <2> QED BY <2>1 DEF IndexInv, Way
  <1> QED BY <1>2, <1>3 DEF IndexInv

(* A step that touches no store, of a thread beside the matrix.            *)
LEMMA RowsKept ==
    ASSUME IndexInv, NEW w \in Workers, \A v \in Workers \ {w} : job'[v] = job[v],
           job[w].pc \notin {"read", "write"}, job'[w].pc \notin {"read", "write"},
           stores' = stores
    PROVE  RowsFit'
  <1>1. \A s : Pending(s)' = Pending(s) /\ \A v \in Pending(s) : job'[v] = job[v]
    BY PendingSame
  <1> QED BY <1>1 DEF IndexInv, RowsFit

(* ... and one that makes a store.                                         *)
LEMMA RowsKeptByNew ==
    ASSUME IndexInv, NEW w \in Workers, \A v \in Workers \ {w} : job'[v] = job[v],
           job[w].pc \notin {"read", "write"}, job'[w].pc \notin {"read", "write"},
           stores' = Append(stores, NewStore)
    PROVE  RowsFit'
  <1>1. \A s : Pending(s)' = Pending(s) /\ \A v \in Pending(s) : job'[v] = job[v]
    BY PendingSame
  <1>2. /\ Len(stores) \in Nat
        /\ DOMAIN stores = 1 .. Len(stores) /\ DOMAIN stores' = 1 .. Len(stores) + 1
        /\ \A s \in DOMAIN stores : stores'[s] = stores[s]
        /\ stores'[Len(stores) + 1] = NewStore
    BY AddStore DEF IndexInv
  <1>3. Pending(Len(stores) + 1) = {}
    <2> SUFFICES ASSUME NEW v \in Workers, job[v].pc \in {"read", "write"}, job[v].vs = Len(stores) + 1
                 PROVE  FALSE
      BY DEF Pending
    <2>1. JobOK(job[v])
      BY Active DEF IndexInv
    <2> QED BY <2>1, <1>2 DEF JobOK
  <1>4. ASSUME NEW s \in DOMAIN stores'
        PROVE  /\ IsFiniteSet(Pending(s))
               /\ Len(stores'[s].rows) + Cardinality(Pending(s)) <= Len(stores'[s].ids)
               /\ \A v \in Pending(s) : job[v].pc = "write" =>
                     Len(job[v].rows) + Cardinality(Pending(s)) <= Len(stores'[s].ids)
    <2>1. CASE s \in DOMAIN stores
      BY <1>2, <2>1 DEF IndexInv, RowsFit
    <2>2. CASE s = Len(stores) + 1
      <3>1. IsFiniteSet({}) /\ Cardinality({}) = 0
        BY FS_EmptySet
      <3>2. NewStore.rows = <<>> /\ NewStore.ids = <<>>
        BY DEF NewStore
      <3>3. stores'[s].rows = <<>> /\ stores'[s].ids = <<>> /\ Pending(s) = {}
        BY <1>2, <1>3, <2>2, <3>2
      <3>4. Len(<<>>) = 0
        OBVIOUS
      <3> QED BY <3>1, <3>3, <3>4
    <2> QED BY <1>2, <2>1, <2>2
  <1> QED BY <1>1, <1>4 DEF RowsFit

LEMMA Elements ==
    ASSUME NEW S, NEW s \in Seq(S)
    PROVE  DOMAIN s = 1 .. Len(s) /\ Len(s) \in Nat /\ \A i \in DOMAIN s : s[i] \in S
  OBVIOUS

LEMMA ObjectsTyped ==
    ASSUME TypeOK
    PROVE  /\ \A r \in DOMAIN retrievers :
                 /\ r \in Nat \ {0}
                 /\ retrievers[r] \in [vs : DOMAIN stores, count : Counts]
                 /\ retrievers[r].vs \in DOMAIN stores /\ retrievers[r].count \in Counts
           /\ \A s \in DOMAIN stores :
                 s \in Nat \ {0} /\ stores[s].rows \in Seq(Items) /\ stores[s].ids \in Seq(Items)
  <1>1. stores \in Seq(Stored) /\ retrievers \in Seq([vs : DOMAIN stores, count : Counts])
    BY DEF TypeOK, Stored, Counts
  <1>2. DOMAIN stores = 1 .. Len(stores) /\ \A s \in DOMAIN stores : stores[s] \in Stored
    BY <1>1, Elements
  <1>3. /\ DOMAIN retrievers = 1 .. Len(retrievers)
        /\ \A r \in DOMAIN retrievers : retrievers[r] \in [vs : DOMAIN stores, count : Counts]
    BY <1>1, Elements
  <1> QED BY <1>1, <1>2, <1>3 DEF Stored

LEMMA GetRetrieverDoes ==
    ASSUME IndexInv, NEW w \in Workers, GetRetriever(w)
    PROVE  /\ job' \in Jobs /\ job'[w] \in Requests /\ \A v \in Workers \ {w} : job'[v] = job[v]
           /\ job[w].pc = "get" /\ job'[w].doc = job[w].doc
           /\ \/ /\ registered # 0 /\ job'[w].pc = "ensure" /\ job'[w].r = registered
                 /\ retrievers' = retrievers /\ stores' = stores
              \/ /\ registered = 0 /\ job'[w].pc = "register" /\ job'[w].r = Len(retrievers) + 1
                 /\ stores' = Append(stores, NewStore)
                 /\ retrievers' = Append(retrievers, [vs |-> Len(stores) + 1, count |-> NeverBuilt])
  <1>1. job \in Jobs /\ job[w] \in Requests /\ job[w].pc = "get"
    BY Active DEF GetRetriever, IndexInv, At, TypeOK, Jobs
  <1>2. PICK pc \in {"ensure", "register"}, r \in Nat :
          /\ job' = [job EXCEPT ![w] = [job[w] EXCEPT !.pc = pc, !.r = r]]
          /\ \/ /\ registered # 0 /\ pc = "ensure" /\ r = registered
                /\ retrievers' = retrievers /\ stores' = stores
             \/ /\ registered = 0 /\ pc = "register" /\ r = Len(retrievers) + 1
                /\ stores' = Append(stores, NewStore)
                /\ retrievers' = Append(retrievers, [vs |-> Len(stores) + 1, count |-> NeverBuilt])
    <2>1. registered \in Nat /\ Len(retrievers) + 1 \in Nat
      BY DEF IndexInv, TypeOK
    <2>2. CASE registered # 0
      BY <2>1, <2>2 DEF GetRetriever
    <2>3. CASE registered = 0
      BY <2>1, <2>3 DEF GetRetriever
    <2> QED BY <2>2, <2>3
  <1> DEFINE j == [job[w] EXCEPT !.pc = pc, !.r = r]
  <1>3. j \in Requests /\ j.pc = pc /\ j.r = r /\ j.doc = job[w].doc
    BY <1>1, <1>2 DEF Requests, Pcs
  <1>4. job' = [job EXCEPT ![w] = j]
    BY <1>2
  <1> HIDE DEF j
  <1>5. job' \in Jobs /\ job'[w] = j /\ \A v \in Workers \ {w} : job'[v] = job[v]
    BY <1>1, <1>3, <1>4 DEF Jobs
  <1> QED BY <1>1, <1>2, <1>3, <1>5

LEMMA EnsureDoes ==
    ASSUME IndexInv, NEW w \in Workers, EnsureIndex(w)
    PROVE  /\ job' \in Jobs /\ job'[w] \in Requests /\ \A v \in Workers \ {w} : job'[v] = job[v]
           /\ job[w] \in Requests /\ job[w].pc = "ensure"
           /\ job'[w].pc = IF Stale(w) \/ Evaluates(w) THEN "scan"
                           ELSE IF Adds(w) THEN "chunks" ELSE "search"
           /\ job'[w].size = NodeCount /\ job'[w].doc = job[w].doc /\ job'[w].r = job[w].r
  <1>1. job \in Jobs /\ job[w] \in Requests /\ job[w].pc = "ensure"
    BY Active DEF EnsureIndex, IndexInv, At, TypeOK, Jobs
  <1>2. NodeCount \in Nat
    BY NodeCountType DEF IndexInv, Way
  <1> DEFINE pc == IF Stale(w) \/ Evaluates(w) THEN "scan" ELSE IF Adds(w) THEN "chunks" ELSE "search"
             n == NodeCount
             j == [job[w] EXCEPT !.pc = pc, !.size = n]
  <1>3. job' = [job EXCEPT ![w] = j]
    BY DEF EnsureIndex
  <1>4. pc \in Pcs /\ n \in Nat
    BY <1>2 DEF Pcs
  <1> HIDE DEF pc, n
  <1>5. j \in Requests /\ j.pc = pc /\ j.size = n /\ j.doc = job[w].doc /\ j.r = job[w].r
    BY <1>1, <1>4 DEF Requests
  <1> HIDE DEF j
  <1>6. job' \in Jobs /\ job'[w] = j /\ \A v \in Workers \ {w} : job'[v] = job[v]
    BY <1>1, <1>3, <1>5 DEF Jobs
  <1> QED BY <1>1, <1>5, <1>6 DEF pc, n

LEMMA ScanDoes ==
    ASSUME IndexInv, NEW w \in Workers, Scan(w)
    PROVE  /\ job' \in Jobs /\ \A v \in Workers \ {w} : job'[v] = job[v]
           /\ job[w] \in Requests /\ job[w].pc = "scan"
           /\ \/ /\ job'[w] \in Requests /\ job'[w].pc = "replace" /\ job'[w].r = job[w].r
                 /\ job'[w].doc = job[w].doc
                 /\ \/ job'[w].item = Corpus /\ faults' = faults
                    \/ job'[w].item = "nothing" /\ faults < MaxFaults /\ faults' = faults + 1
                 /\ finished' = finished
              \/ /\ job[w].size # NodeCount /\ job'[w] = Idle /\ faults' = faults
                 /\ finished' = IF job[w].doc = "none" THEN finished ELSE Append(finished, job[w].doc)
  <1>1. job \in Jobs /\ job[w] \in Requests /\ job[w].pc = "scan"
    BY Active DEF Scan, IndexInv, At, TypeOK, Jobs
  <1>2. ASSUME NEW item \in {Corpus, "nothing"},
               job' = [job EXCEPT ![w].pc = "replace", ![w].item = item]
        PROVE  /\ job' \in Jobs /\ \A v \in Workers \ {w} : job'[v] = job[v]
               /\ job'[w] \in Requests /\ job'[w].pc = "replace" /\ job'[w].r = job[w].r
               /\ job'[w].doc = job[w].doc /\ job'[w].item = item
    <2> DEFINE j == [job[w] EXCEPT !.pc = "replace", !.item = item]
    <2>1. job' = [job EXCEPT ![w] = j]
      BY <1>2
    <2>2. j \in Requests /\ j.pc = "replace" /\ j.item = item /\ j.doc = job[w].doc /\ j.r = job[w].r
      BY <1>1, <1>2 DEF Requests, Pcs, Items
    <2> HIDE DEF j
    <2>3. job' \in Jobs /\ job'[w] = j /\ \A v \in Workers \ {w} : job'[v] = job[v]
      BY <1>1, <2>1, <2>2 DEF Jobs
    <2> QED BY <2>2, <2>3
  <1>3. CASE job' = [job EXCEPT ![w].pc = "replace", ![w].item = Corpus] /\ UNCHANGED <<finished, faults>>
    BY <1>1, <1>2, <1>3
  <1>4. CASE job[w].size # NodeCount /\ Done(w) /\ Answered(w) /\ UNCHANGED faults
    <2>1. job' \in Jobs /\ job'[w] = Idle /\ \A v \in Workers \ {w} : job'[v] = job[v]
      BY <1>4, SetIdle DEF Done, IndexInv
    <2> QED BY <1>1, <1>4, <2>1 DEF Answered, IsQuery
  <1>5. CASE /\ faults < MaxFaults
             /\ faults' = faults + 1
             /\ job' = [job EXCEPT ![w].pc = "replace", ![w].item = "nothing"]
             /\ UNCHANGED finished
    BY <1>1, <1>2, <1>5
  <1> QED BY <1>3, <1>4, <1>5 DEF Scan

LEMMA AppendDoes ==
    ASSUME IndexInv, NEW w \in Workers, AppendIds(w)
    PROVE  /\ job' \in Jobs /\ job'[w] \in Requests /\ \A v \in Workers \ {w} : job'[v] = job[v]
           /\ job[w] \in Requests /\ job[w].pc = "ids" /\ job[w].r \in DOMAIN retrievers
           /\ job'[w].pc = "read" /\ job'[w].doc = job[w].doc /\ job'[w].r = job[w].r
           /\ job'[w].item = job[w].item /\ job[w].item \in Items
           /\ job'[w].vs = retrievers[job[w].r].vs /\ job'[w].vs \in DOMAIN stores
           /\ stores' = [stores EXCEPT ![job'[w].vs].ids = Append(@, job[w].item)]
  <1>1. job \in Jobs /\ job[w] \in Requests /\ job[w].pc = "ids" /\ job[w].r \in DOMAIN retrievers
        /\ job[w].item \in Items
    BY Active DEF AppendIds, IndexInv, At, TypeOK, Jobs, JobOK
  <1> DEFINE vs == retrievers[job[w].r].vs
             j == [job[w] EXCEPT !.pc = "read", !.vs = vs]
  <1>2. job' = [job EXCEPT ![w] = j] /\ stores' = [stores EXCEPT ![vs].ids = Append(@, job[w].item)]
    BY DEF AppendIds, Mine
  <1>3. vs \in DOMAIN stores
    BY <1>1, ObjectsTyped DEF IndexInv
  <1>3a. vs \in Nat
    BY <1>3, ObjectsTyped DEF IndexInv
  <1> HIDE DEF vs
  <1>4. /\ j \in Requests /\ j.pc = "read" /\ j.vs = vs /\ j.doc = job[w].doc /\ j.r = job[w].r
        /\ j.item = job[w].item
    BY <1>1, <1>3a DEF Requests, Pcs
  <1> HIDE DEF j
  <1>5. job' \in Jobs /\ job'[w] = j /\ \A v \in Workers \ {w} : job'[v] = job[v]
    BY <1>1, <1>2, <1>4 DEF Jobs
  <1> QED BY <1>1, <1>2, <1>3, <1>4, <1>5 DEF vs

LEMMA ReadDoes ==
    ASSUME IndexInv, NEW w \in Workers, ReadMatrix(w)
    PROVE  /\ job' \in Jobs /\ job'[w] \in Requests /\ \A v \in Workers \ {w} : job'[v] = job[v]
           /\ job[w] \in Requests /\ job[w].pc = "read" /\ job[w].vs \in DOMAIN stores
           /\ job'[w].pc = "write" /\ job'[w].doc = job[w].doc /\ job'[w].r = job[w].r
           /\ job'[w].item = job[w].item /\ job'[w].vs = job[w].vs
           /\ job'[w].rows = stores[job[w].vs].rows
  <1>1. job \in Jobs /\ job[w] \in Requests /\ job[w].pc = "read" /\ job[w].vs \in DOMAIN stores
    BY Active DEF ReadMatrix, IndexInv, At, TypeOK, Jobs, JobOK
  <1> DEFINE rows == stores[job[w].vs].rows
             j == [job[w] EXCEPT !.pc = "write", !.rows = rows]
  <1>2. job' = [job EXCEPT ![w] = j]
    BY DEF ReadMatrix
  <1>3. rows \in Seq(Items)
    BY <1>1, ObjectsTyped DEF IndexInv
  <1> HIDE DEF rows
  <1>4. /\ j \in Requests /\ j.pc = "write" /\ j.rows = rows /\ j.doc = job[w].doc /\ j.r = job[w].r
        /\ j.item = job[w].item /\ j.vs = job[w].vs
    BY <1>1, <1>3 DEF Requests, Pcs
  <1> HIDE DEF j
  <1>5. job' \in Jobs /\ job'[w] = j /\ \A v \in Workers \ {w} : job'[v] = job[v]
    BY <1>1, <1>2, <1>4 DEF Jobs
  <1> QED BY <1>1, <1>4, <1>5 DEF rows

LEMMA ChunksDoes ==
    ASSUME IndexInv, NEW w \in Workers, IndexChunks(w)
    PROVE  /\ job' \in Jobs /\ job'[w] \in Requests /\ \A v \in Workers \ {w} : job'[v] = job[v]
           /\ job[w] \in Requests /\ job[w].pc = "chunks" /\ job[w].doc \in Docs
           /\ job'[w].pc = "ids" /\ job'[w].doc = job[w].doc /\ job'[w].r = job[w].r
           /\ job'[w].item = job[w].doc
  <1>1. job \in Jobs /\ job[w] \in Requests /\ job[w].pc = "chunks" /\ job[w].doc \in Docs
    BY Active DEF IndexChunks, IndexInv, At, TypeOK, Jobs, Way, WayOf
  <1> DEFINE doc == job[w].doc
             j == [job[w] EXCEPT !.pc = "ids", !.item = doc]
  <1>2. job' = [job EXCEPT ![w] = j]
    BY DEF IndexChunks
  <1>3. doc \in Items
    BY <1>1 DEF Items
  <1> HIDE DEF doc
  <1>4. /\ j \in Requests /\ j.pc = "ids" /\ j.item = doc /\ j.doc = job[w].doc /\ j.r = job[w].r
    BY <1>1, <1>3 DEF Requests, Pcs
  <1> HIDE DEF j
  <1>5. job' \in Jobs /\ job'[w] = j /\ \A v \in Workers \ {w} : job'[v] = job[v]
    BY <1>1, <1>2, <1>4 DEF Jobs
  <1> QED BY <1>1, <1>4, <1>5 DEF doc

-----------------------------------------------------------------------------

LEMMA AnsweredType ==
    ASSUME IndexInv, NEW w \in Workers, job[w] \in Requests,
           finished' = IF job[w].doc = "none" THEN finished ELSE Append(finished, job[w].doc)
    PROVE  finished' \in Seq(Docs \cup {"evaluation"})
  <1>1. finished \in Seq(Docs \cup {"evaluation"}) /\ job[w].doc \in Docs \cup {"none", "evaluation"}
    BY DEF IndexInv, TypeOK, Requests
  <1> QED BY <1>1

(* What is as it was, when a step leaves the objects alone.                *)
LEMMA ObjectsStay ==
    ASSUME TypeOK
    PROVE  /\ stores \in Seq(Stored) /\ retrievers \in Seq([vs : DOMAIN stores, count : Counts])
           /\ registered \in {0} \cup DOMAIN retrievers /\ faults \in 0 .. MaxFaults
           /\ finished \in Seq(Docs \cup {"evaluation"})
  BY DEF TypeOK, Stored, Counts

LEMMA GetRetrieverInv == ASSUME IndexInv, NEW w \in Workers, GetRetriever(w) PROVE IndexInv'
  <1>0. TypeOK /\ NodeCount \in Nat
    BY NodeCountType DEF IndexInv, Way
  <1>u. UNCHANGED <<backend, uploaded, registered, finished, overlapped, requests, faults>>
    BY DEF GetRetriever
  <1>1. CASE registered # 0 /\ retrievers' = retrievers /\ stores' = stores
    <2>1. job'[w].pc = "ensure" /\ job'[w].r = registered
      BY <1>1, GetRetrieverDoes
    <2>2. JobOK(job[w])' /\ WayOf(job[w])'
      BY <1>0, <1>1, <2>1, ObjectsStay DEF JobOK, WayOf
    <2>3. RowsFit'
      BY <1>1, <2>1, GetRetrieverDoes, RowsKept
    <2> QED BY <1>u, <1>0, <1>1, <2>2, <2>3, ObjectsStay, GetRetrieverDoes, IndexStep
  <1>2. CASE /\ registered = 0 /\ job'[w].pc = "register" /\ job'[w].r = Len(retrievers) + 1
             /\ stores' = Append(stores, NewStore)
             /\ retrievers' = Append(retrievers, [vs |-> Len(stores) + 1, count |-> NeverBuilt])
    <2> DEFINE R == [vs : DOMAIN stores', count : Counts]
               new == [vs |-> Len(stores) + 1, count |-> NeverBuilt]
    <2>1. /\ stores' \in Seq(Stored) /\ Len(stores) \in Nat
          /\ DOMAIN stores \subseteq DOMAIN stores' /\ Len(stores) + 1 \in DOMAIN stores'
      BY <1>0, <1>2, AddStore
    <2>2. retrievers \in Seq(R)
      <3>1. [vs : DOMAIN stores, count : Counts] \subseteq R
        BY <2>1
      <3> QED BY <3>1, <1>0, ObjectsStay, WiderSeq
    <2>3. new \in R
      BY <2>1 DEF Counts
    <2> HIDE DEF R, new
    <2>4. /\ retrievers' \in Seq(R)
          /\ DOMAIN retrievers \subseteq DOMAIN retrievers' /\ job'[w].r \in DOMAIN retrievers'
      BY <1>2, <2>2, <2>3 DEF new
    <2>5. JobOK(job[w])' /\ WayOf(job[w])'
      BY <1>2, <2>4 DEF JobOK, WayOf
    <2>6. RowsFit'
      BY <1>2, GetRetrieverDoes, RowsKeptByNew
    <2> QED BY <1>u, <1>0, <1>2, <2>1, <2>4, <2>5, <2>6, ObjectsStay, GetRetrieverDoes, IndexStep DEF R
  <1> QED BY <1>1, <1>2, GetRetrieverDoes

LEMMA RegisterInv == ASSUME IndexInv, NEW w \in Workers, Register(w) PROVE IndexInv'
  <1>1. /\ job[w].pc = "register" /\ job[w] \in Requests /\ JobOK(job[w]) /\ TypeOK
        /\ job' = [job EXCEPT ![w].pc = "ensure"]
    BY Active DEF Register, At, Goto, IndexInv
  <1>2. /\ job' \in Jobs /\ job'[w].pc = "ensure" /\ job'[w].r = job[w].r
        /\ \A v \in Workers \ {w} : job'[v] = job[v]
    BY <1>1, SetPc DEF Pcs
  <1>3. job[w].r \in DOMAIN retrievers /\ registered' = job[w].r
    BY <1>1 DEF JobOK, Register
  <1>4. JobOK(job[w])' /\ WayOf(job[w])'
    BY <1>2, <1>3 DEF JobOK, WayOf, Register
  <1>5. RowsFit'
    BY <1>1, <1>2, RowsKept DEF Register
  <1> QED BY <1>1, <1>2, <1>3, <1>4, <1>5, ObjectsStay, IndexStep DEF Register

LEMMA EnsureInv == ASSUME IndexInv, NEW w \in Workers, EnsureIndex(w) PROVE IndexInv'
  <1>1. TypeOK /\ JobOK(job[w]) /\ job'[w].pc \in {"scan", "chunks", "search"}
        /\ (job'[w].pc = "chunks" => job'[w].doc \in Docs)
    BY EnsureDoes, Active DEF IndexInv, Adds
  <1>2. JobOK(job[w])' /\ WayOf(job[w])'
    BY <1>1, EnsureDoes DEF JobOK, WayOf, EnsureIndex
  <1>3. RowsFit'
    BY <1>1, EnsureDoes, RowsKept DEF EnsureIndex
  <1> QED BY <1>1, <1>2, <1>3, EnsureDoes, ObjectsStay, IndexStep DEF EnsureIndex

LEMMA ScanInv == ASSUME IndexInv, NEW w \in Workers, Scan(w) PROVE IndexInv'
  <1>0. TypeOK /\ JobOK(job[w]) /\ faults \in 0 .. MaxFaults /\ MaxFaults \in Nat
    BY ScanDoes, Active, BoundsAssumption DEF IndexInv, TypeOK
  <1>1. faults' \in 0 .. MaxFaults
    BY <1>0, ScanDoes
  <1>2. finished' \in Seq(Docs \cup {"evaluation"})
    BY <1>0, ScanDoes, AnsweredType, ObjectsStay
  <1>3. job'[w].pc \in {"replace", "idle"} /\ (job'[w].pc = "replace" => job'[w].item \in {Corpus, "nothing"} /\ job'[w].r = job[w].r)
    BY ScanDoes DEF Idle
  <1>4. job'[w].pc # "idle" => JobOK(job[w])' /\ WayOf(job[w])'
    BY <1>0, <1>3, ScanDoes DEF JobOK, WayOf, Scan
  <1>5. RowsFit'
    BY <1>3, ScanDoes, RowsKept DEF Scan
  <1> QED BY <1>0, <1>1, <1>2, <1>4, <1>5, ScanDoes, ObjectsStay, IndexStep DEF Scan

LEMMA ReplaceInv == ASSUME IndexInv, NEW w \in Workers, Replace(w) PROVE IndexInv'
  <1>1. /\ job[w].pc = "replace" /\ job[w] \in Requests /\ JobOK(job[w]) /\ TypeOK /\ WayOf(job[w])
        /\ job' = [job EXCEPT ![w].pc = IF job[w].item = "nothing" THEN "count" ELSE "ids"]
        /\ stores' = Append(stores, NewStore)
        /\ retrievers' = [retrievers EXCEPT ![job[w].r].vs = Len(stores) + 1]
    BY Active DEF Replace, At, Goto, IndexInv, Way
  <1>2. /\ job' \in Jobs /\ job'[w].pc = (IF job[w].item = "nothing" THEN "count" ELSE "ids")
        /\ job'[w].r = job[w].r /\ job'[w].item = job[w].item /\ job'[w].doc = job[w].doc
        /\ \A v \in Workers \ {w} : job'[v] = job[v]
    BY <1>1, SetPc DEF Pcs
  <1>3. /\ stores' \in Seq(Stored) /\ Len(stores) \in Nat
        /\ DOMAIN stores \subseteq DOMAIN stores' /\ Len(stores) + 1 \in DOMAIN stores'
    BY <1>1, AddStore
  <1> DEFINE R == [vs : DOMAIN stores', count : Counts]
  <1>4. retrievers \in Seq(R)
    <2>1. [vs : DOMAIN stores, count : Counts] \subseteq R
      BY <1>3
    <2>2. retrievers \in Seq([vs : DOMAIN stores, count : Counts])
      BY <1>1, ObjectsStay
    <2> HIDE DEF R
    <2> QED BY <2>1, <2>2, WiderSeq
  <1>5. job[w].r \in DOMAIN retrievers
    BY <1>1 DEF JobOK
  <1>6. retrievers' \in Seq(R) /\ DOMAIN retrievers' = DOMAIN retrievers
    <2>1. [retrievers[job[w].r] EXCEPT !.vs = Len(stores) + 1] \in R
      BY <1>1, <1>3, <1>5, ObjectsTyped
    <2> HIDE DEF R
    <2>2. retrievers' = [retrievers EXCEPT ![job[w].r] = [retrievers[job[w].r] EXCEPT !.vs = Len(stores) + 1]]
      BY <1>1
    <2> QED BY <1>4, <1>5, <2>1, <2>2
  <1> HIDE DEF R
  <1>7. JobOK(job[w])' /\ WayOf(job[w])'
    BY <1>1, <1>2, <1>5, <1>6 DEF JobOK, WayOf, Items
  <1>8. RowsFit'
    BY <1>1, <1>2, RowsKeptByNew
  <1> QED BY <1>1, <1>2, <1>3, <1>6, <1>7, <1>8, ObjectsStay, IndexStep DEF Replace, R

LEMMA ChunksInv == ASSUME IndexInv, NEW w \in Workers, IndexChunks(w) PROVE IndexInv'
  <1>1. TypeOK /\ JobOK(job[w])
    BY ChunksDoes, Active DEF IndexInv
  <1>2. JobOK(job[w])' /\ WayOf(job[w])'
    BY <1>1, ChunksDoes DEF JobOK, WayOf, IndexChunks, Items
  <1>3. RowsFit'
    BY <1>1, ChunksDoes, RowsKept DEF IndexChunks
  <1> QED BY <1>1, <1>2, <1>3, ChunksDoes, ObjectsStay, IndexStep DEF IndexChunks

LEMMA CountedType ==
    ASSUME IndexInv, NEW r \in DOMAIN retrievers, retrievers' = [retrievers EXCEPT ![r].count = NodeCount]
    PROVE  /\ retrievers' \in Seq([vs : DOMAIN stores, count : Counts])
           /\ DOMAIN retrievers' = DOMAIN retrievers
           /\ retrievers'[r].vs = retrievers[r].vs /\ retrievers'[r].count = NodeCount
           /\ \A q \in DOMAIN retrievers \ {r} : retrievers'[q] = retrievers[q]
  <1>1. NodeCount \in Counts /\ TypeOK
    BY NodeCountType DEF IndexInv, Way, Counts
  <1> DEFINE R == [vs : DOMAIN stores, count : Counts]
             new == [retrievers[r] EXCEPT !.count = NodeCount]
  <1>2. new \in R /\ new.vs = retrievers[r].vs /\ new.count = NodeCount
    BY <1>1, ObjectsTyped
  <1>3. retrievers' = [retrievers EXCEPT ![r] = new]
    OBVIOUS
  <1>4. retrievers \in Seq(R)
    BY <1>1, ObjectsStay
  <1> HIDE DEF R, new
  <1>5. retrievers' \in Seq(R)
    BY <1>2, <1>3, <1>4
  <1>6. DOMAIN retrievers' = DOMAIN retrievers /\ retrievers'[r] = new
        /\ \A q \in DOMAIN retrievers \ {r} : retrievers'[q] = retrievers[q]
    BY <1>3
  <1> QED BY <1>2, <1>5, <1>6 DEF R

LEMMA CountInv == ASSUME IndexInv, NEW w \in Workers, Count(w) PROVE IndexInv'
  <1>1. /\ job[w].pc = "count" /\ job[w] \in Requests /\ JobOK(job[w]) /\ TypeOK
        /\ job' = [job EXCEPT ![w].pc = IF Adds(w) THEN "chunks" ELSE "search"]
        /\ retrievers' = [retrievers EXCEPT ![job[w].r].count = NodeCount]
    BY Active DEF Count, At, Goto, IndexInv
  <1>2. /\ job' \in Jobs /\ job'[w].pc = (IF Adds(w) THEN "chunks" ELSE "search")
        /\ job'[w].r = job[w].r /\ job'[w].doc = job[w].doc
        /\ \A v \in Workers \ {w} : job'[v] = job[v]
    BY <1>1, SetPc DEF Pcs
  <1>3. job[w].r \in DOMAIN retrievers
    BY <1>1 DEF JobOK
  <1>4. JobOK(job[w])' /\ WayOf(job[w])'
    BY <1>1, <1>2, <1>3, CountedType DEF JobOK, WayOf, Adds
  <1>5. RowsFit'
    BY <1>1, <1>2, RowsKept DEF Count
  <1> QED BY <1>1, <1>2, <1>3, <1>4, <1>5, CountedType, ObjectsStay, IndexStep DEF Count

LEMMA SettleInv == ASSUME IndexInv, NEW w \in Workers, Settle(w) PROVE IndexInv'
  <1>1. /\ job[w].pc = "settle" /\ job[w] \in Requests /\ JobOK(job[w]) /\ TypeOK
        /\ job' = [job EXCEPT ![w] = Idle]
        /\ retrievers' = [retrievers EXCEPT ![job[w].r].count = NodeCount]
        /\ finished' = IF job[w].doc = "none" THEN finished ELSE Append(finished, job[w].doc)
    BY Active DEF Settle, At, Done, Answered, IsQuery, IndexInv
  <1>2. job' \in Jobs /\ job'[w].pc = "idle" /\ \A v \in Workers \ {w} : job'[v] = job[v]
    BY <1>1, SetIdle
  <1>3. job[w].r \in DOMAIN retrievers
    BY <1>1 DEF JobOK
  <1>4. finished' \in Seq(Docs \cup {"evaluation"})
    BY <1>1, AnsweredType
  <1>5. RowsFit'
    BY <1>1, <1>2, RowsKept DEF Settle
  <1> QED BY <1>1, <1>2, <1>3, <1>4, <1>5, CountedType, ObjectsStay, IndexStep DEF Settle

LEMMA SearchInv == ASSUME IndexInv, NEW w \in Workers, Search(w) PROVE IndexInv'
  <1>1. /\ job[w].pc = "search" /\ job[w] \in Requests /\ JobOK(job[w]) /\ TypeOK
        /\ job' = [job EXCEPT ![w] = Idle]
        /\ finished' = IF job[w].doc = "none" THEN finished ELSE Append(finished, job[w].doc)
    BY Active DEF Search, At, Done, Answered, IsQuery, IndexInv
  <1>2. job' \in Jobs /\ job'[w].pc = "idle" /\ \A v \in Workers \ {w} : job'[v] = job[v]
    BY <1>1, SetIdle
  <1>4. finished' \in Seq(Docs \cup {"evaluation"})
    BY <1>1, AnsweredType
  <1>5. RowsFit'
    BY <1>1, <1>2, RowsKept DEF Search
  <1> QED BY <1>1, <1>2, <1>4, <1>5, ObjectsStay, IndexStep DEF Search

LEMMA AppendIdsInv == ASSUME IndexInv, NEW w \in Workers, AppendIds(w) PROVE IndexInv'
  <1>s. PICK S \in DOMAIN stores : S = job'[w].vs
    BY AppendDoes
  <1> DEFINE n == Cardinality(Pending(S))
             ids == Append(stores[S].ids, job[w].item)
  <1>0. TypeOK /\ S \in DOMAIN stores /\ JobOK(job[w]) /\ WayOf(job[w])
    BY AppendDoes, Active DEF IndexInv, Way
  <1>1. stores[S] \in Stored /\ stores \in Seq(Stored) /\ ids \in Seq(Items) /\ Len(ids) = Len(stores[S].ids) + 1
        /\ Len(stores[S].ids) \in Nat /\ Len(stores[S].rows) \in Nat
    <2>1. stores \in Seq(Stored)
      BY <1>0, ObjectsStay
    <2>2. stores[S] \in Stored
      BY <1>0, <2>1, Elements
    <2>3. stores[S].ids \in Seq(Items) /\ stores[S].rows \in Seq(Items) /\ job[w].item \in Items
      BY <2>2, AppendDoes DEF Stored
    <2> QED BY <2>1, <2>2, <2>3
  <1>2. /\ stores' \in Seq(Stored) /\ DOMAIN stores' = DOMAIN stores
        /\ stores'[S].rows = stores[S].rows /\ stores'[S].ids = ids
        /\ \A s \in DOMAIN stores \ {S} : stores'[s] = stores[s]
    <2>1. stores' = [stores EXCEPT ![S].ids = ids]
      BY <1>s, AppendDoes
    <2> HIDE DEF ids
    <2> DEFINE new == [stores[S] EXCEPT !.ids = ids]
    <2>2. new \in Stored /\ new.rows = stores[S].rows /\ new.ids = ids
      BY <1>1 DEF Stored
    <2>3. stores' = [stores EXCEPT ![S] = new]
      BY <2>1
    <2> HIDE DEF new
    <2> QED BY <1>0, <1>1, <2>2, <2>3
  <1>3. /\ Pending(S)' = Pending(S) \cup {w} /\ w \notin Pending(S)
        /\ \A s : s # S => Pending(s)' = Pending(s)
        /\ \A v \in Workers \ {w} : job'[v] = job[v]
    <2>1. /\ job[w].pc = "ids" /\ job'[w].pc = "read" /\ job'[w].vs = S
          /\ \A v \in Workers \ {w} : job'[v] = job[v]
      BY <1>s, AppendDoes
    <2> QED BY <2>1 DEF Pending
  <1>4. /\ IsFiniteSet(Pending(S)) /\ n \in Nat
        /\ IsFiniteSet(Pending(S) \cup {w}) /\ Cardinality(Pending(S) \cup {w}) = n + 1
    BY <1>0, <1>3, FS_AddElement, FS_CardinalityType DEF IndexInv, RowsFit
  <1>r. /\ Len(stores[S].rows) + n <= Len(stores[S].ids)
        /\ \A v \in Pending(S) : job[v].pc = "write" => Len(job[v].rows) + n <= Len(stores[S].ids)
    BY <1>0 DEF IndexInv, RowsFit
  <1>w. \A v \in Pending(S) : job[v].pc = "write" => Len(job[v].rows) \in Nat
    <2> TAKE v \in Pending(S)
    <2> HAVE job[v].pc = "write"
    <2>1. job[v] \in Requests
      BY <1>0, Active DEF Pending
    <2> QED BY <2>1 DEF Requests
  <1>p. job'[w].pc = "read"
    BY AppendDoes
  <1> HIDE DEF n, ids
  <1>5. RowsFit'
    <2>1. ASSUME NEW s \in DOMAIN stores'
          PROVE  /\ IsFiniteSet(Pending(s)')
                 /\ Len(stores'[s].rows) + Cardinality(Pending(s)') <= Len(stores'[s].ids)
                 /\ \A v \in Pending(s)' : job'[v].pc = "write" =>
                       Len(job'[v].rows) + Cardinality(Pending(s)') <= Len(stores'[s].ids)
      <3>1. CASE s = S
        <4>1. Pending(s)' = Pending(S) \cup {w} /\ Cardinality(Pending(s)') = n + 1
          BY <1>3, <1>4, <3>1
        <4>2. Len(stores'[s].ids) = Len(stores[S].ids) + 1 /\ Len(stores'[s].rows) = Len(stores[S].rows)
          BY <1>1, <1>2, <3>1
        <4>3. ASSUME NEW v \in Pending(s)', job'[v].pc = "write"
              PROVE  Len(job'[v].rows) + n <= Len(stores[S].ids) /\ Len(job'[v].rows) \in Nat
          <5>1. v # w /\ v \in Pending(S) /\ job'[v] = job[v]
            BY <4>1, <4>3, <1>3, <1>p DEF Pending
          <5> QED BY <5>1, <4>3, <1>r, <1>w
        <4>4. Len(stores'[s].rows) + Cardinality(Pending(s)') <= Len(stores'[s].ids)
          BY <4>1, <4>2, <1>1, <1>4, <1>r
        <4>5. ASSUME NEW v \in Pending(s)', job'[v].pc = "write"
              PROVE  Len(job'[v].rows) + Cardinality(Pending(s)') <= Len(stores'[s].ids)
          BY <4>1, <4>2, <4>3, <4>5, <1>1, <1>4
        <4> QED BY <4>1, <4>4, <4>5, <1>4
      <3>2. CASE s # S
        <4>1. Pending(s)' = Pending(s) /\ stores'[s] = stores[s] /\ s \in DOMAIN stores
          BY <1>2, <1>3, <3>2
        <4>2. \A v \in Pending(s) : job'[v] = job[v]
          BY <1>3, AppendDoes DEF Pending
        <4> QED BY <4>1, <4>2 DEF IndexInv, RowsFit
      <3> QED BY <3>1, <3>2
    <2> QED BY <2>1 DEF RowsFit
  <1>6. JobOK(job[w])' /\ WayOf(job[w])'
    <2>1. job'[w].r \in DOMAIN retrievers' /\ S \in DOMAIN stores'
      BY <1>0, <1>2, AppendDoes DEF AppendIds
    <2>2. job'[w].vs = S
      BY <1>s
    <2> QED BY <2>1, <2>2, <1>0, AppendDoes DEF JobOK, WayOf
  <1>7. retrievers' \in Seq([vs : DOMAIN stores', count : Counts])
    BY <1>0, <1>2, ObjectsStay DEF AppendIds
  <1> QED BY <1>0, <1>2, <1>5, <1>6, <1>7, AppendDoes, ObjectsStay, IndexStep DEF AppendIds

LEMMA ReadInv == ASSUME IndexInv, NEW w \in Workers, ReadMatrix(w) PROVE IndexInv'
  <1>0. TypeOK /\ JobOK(job[w]) /\ WayOf(job[w])
    BY ReadDoes, Active DEF IndexInv, Way
  <1>1. JobOK(job[w])' /\ WayOf(job[w])'
    BY <1>0, ReadDoes DEF JobOK, WayOf, ReadMatrix
  <1>2. \A s : Pending(s)' = Pending(s)
    BY ReadDoes DEF Pending
  <1>3. stores' = stores
    BY DEF ReadMatrix
  <1>4. ASSUME NEW s \in DOMAIN stores, NEW v \in Pending(s), job'[v].pc = "write"
        PROVE  Len(job'[v].rows) + Cardinality(Pending(s)) <= Len(stores[s].ids)
    <2>1. CASE v = w
      <3>1. job'[v].rows = stores[s].rows
        BY <2>1, ReadDoes DEF Pending
      <3> QED BY <3>1 DEF IndexInv, RowsFit
    <2>2. CASE v # w
      BY <1>4, <2>2, ReadDoes DEF IndexInv, RowsFit, Pending
    <2> QED BY <2>1, <2>2
  <1>5. RowsFit'
    BY <1>2, <1>3, <1>4 DEF IndexInv, RowsFit
  <1> QED BY <1>0, <1>1, <1>3, <1>5, ReadDoes, ObjectsStay, IndexStep DEF ReadMatrix

LEMMA WriteDoes ==
    ASSUME IndexInv, NEW w \in Workers, WriteMatrix(w)
    PROVE  /\ job' \in Jobs /\ job'[w] \in Requests /\ \A v \in Workers \ {w} : job'[v] = job[v]
           /\ job[w] \in Requests /\ job[w].pc = "write" /\ job[w].item \in Items
           /\ job[w].vs \in DOMAIN stores
           /\ job'[w].pc = IF job[w].item = Corpus THEN "count" ELSE "settle"
           /\ job'[w].doc = job[w].doc /\ job'[w].r = job[w].r /\ job'[w].item = job[w].item
           /\ stores' \in Seq(Stored) /\ DOMAIN stores' = DOMAIN stores
           /\ stores'[job[w].vs].rows = Append(job[w].rows, job[w].item)
           /\ stores'[job[w].vs].ids = stores[job[w].vs].ids
           /\ \A s \in DOMAIN stores \ {job[w].vs} : stores'[s] = stores[s]
           /\ job[w].rows \in Seq(Items) /\ Len(job[w].rows) \in Nat
  <1>1. /\ job[w].pc = "write" /\ job[w] \in Requests /\ JobOK(job[w]) /\ TypeOK
        /\ job' = [job EXCEPT ![w].pc = IF job[w].item = Corpus THEN "count" ELSE "settle"]
        /\ stores' = [stores EXCEPT ![job[w].vs].rows = Append(job[w].rows, job[w].item)]
    BY Active DEF WriteMatrix, At, Goto, IndexInv
  <1>2. /\ job' \in Jobs /\ job'[w].pc = (IF job[w].item = Corpus THEN "count" ELSE "settle")
        /\ job'[w] \in Requests /\ job'[w].item = job[w].item
        /\ job'[w].r = job[w].r /\ job'[w].doc = job[w].doc
        /\ \A v \in Workers \ {w} : job'[v] = job[v]
    BY <1>1, SetPc DEF Pcs
  <1>3. job[w].vs \in DOMAIN stores /\ job[w].item \in Items
    BY <1>1 DEF JobOK
  <1> DEFINE S == job[w].vs
             rows == Append(job[w].rows, job[w].item)
             new == [stores[S] EXCEPT !.rows = rows]
  <1>4. job[w].rows \in Seq(Items) /\ rows \in Seq(Items)
    BY <1>1, <1>3 DEF Requests
  <1>5. stores' = [stores EXCEPT ![S] = new] /\ S \in DOMAIN stores
    BY <1>1, <1>3
  <1>6. stores \in Seq(Stored) /\ stores[S] \in Stored
    BY <1>1, <1>3, ObjectsStay, Elements
  <1> HIDE DEF rows, S
  <1>7. new \in Stored /\ new.rows = rows /\ new.ids = stores[S].ids
    BY <1>4, <1>6 DEF Stored
  <1> HIDE DEF new
  <1>8. /\ stores' \in Seq(Stored) /\ DOMAIN stores' = DOMAIN stores /\ stores'[S] = new
        /\ \A s \in DOMAIN stores \ {S} : stores'[s] = stores[s]
    BY <1>5, <1>6, <1>7
  <1>9. stores'[S].rows = rows /\ stores'[S].ids = stores[S].ids
    BY <1>7, <1>8
  <1>10. job[w].rows \in Seq(Items) /\ Len(job[w].rows) \in Nat
    BY <1>4
  <1>11. /\ stores'[job[w].vs].rows = Append(job[w].rows, job[w].item)
         /\ stores'[job[w].vs].ids = stores[job[w].vs].ids
         /\ \A s \in DOMAIN stores \ {job[w].vs} : stores'[s] = stores[s]
    BY <1>8, <1>9 DEF S, rows
  <1> QED BY <1>1, <1>2, <1>3, <1>8, <1>10, <1>11

LEMMA WriteInv == ASSUME IndexInv, NEW w \in Workers, WriteMatrix(w) PROVE IndexInv'
  <1>s. PICK S \in DOMAIN stores : S = job[w].vs
    BY WriteDoes
  <1> DEFINE n == Cardinality(Pending(S))
  <1>0. TypeOK /\ JobOK(job[w]) /\ WayOf(job[w]) /\ S \in DOMAIN stores
    BY WriteDoes, Active DEF IndexInv, Way
  <1>1. JobOK(job[w])' /\ WayOf(job[w])'
    BY <1>0, WriteDoes DEF JobOK, WayOf, WriteMatrix
  <1>2. /\ w \in Pending(S) /\ Pending(S)' = Pending(S) \ {w}
        /\ \A s : s # S => Pending(s)' = Pending(s)
    BY <1>s, WriteDoes DEF Pending
  <1>3. /\ IsFiniteSet(Pending(S)) /\ n \in Nat
        /\ IsFiniteSet(Pending(S) \ {w}) /\ Cardinality(Pending(S) \ {w}) = n - 1
    BY <1>0, <1>2, FS_RemoveElement, FS_CardinalityType DEF IndexInv, RowsFit
  <1>4. /\ Len(job[w].rows) + n <= Len(stores[S].ids)
        /\ \A v \in Pending(S) : job[v].pc = "write" => Len(job[v].rows) + n <= Len(stores[S].ids)
    BY <1>s, <1>0, <1>2, WriteDoes DEF IndexInv, RowsFit
  <1>5. Len(stores'[S].rows) = Len(job[w].rows) + 1 /\ stores'[S].ids = stores[S].ids
    BY <1>s, WriteDoes
  <1>6. \A v \in Pending(S) : job[v].pc = "write" => Len(job[v].rows) \in Nat
    <2> TAKE v \in Pending(S)
    <2> HAVE job[v].pc = "write"
    <2>1. job[v] \in Requests
      BY <1>0, Active DEF Pending
    <2> QED BY <2>1 DEF Requests
  <1>7. Len(stores[S].ids) \in Nat
    <2>1. stores[S].ids \in Seq(Items)
      BY <1>0, ObjectsTyped
    <2> QED BY <2>1
  <1> HIDE DEF n
  <1>8. RowsFit'
    <2>1. ASSUME NEW s \in DOMAIN stores'
          PROVE  /\ IsFiniteSet(Pending(s)')
                 /\ Len(stores'[s].rows) + Cardinality(Pending(s)') <= Len(stores'[s].ids)
                 /\ \A v \in Pending(s)' : job'[v].pc = "write" =>
                       Len(job'[v].rows) + Cardinality(Pending(s)') <= Len(stores'[s].ids)
      <3>1. CASE s = S
        <4>1. Pending(s)' = Pending(S) \ {w} /\ Cardinality(Pending(s)') = n - 1
          BY <1>2, <1>3, <3>1
        <4>2. \A v \in Pending(s)' : v \in Pending(S) /\ job'[v] = job[v]
          BY <4>1, WriteDoes DEF Pending
        <4>3. Len(stores'[s].rows) + Cardinality(Pending(s)') <= Len(stores'[s].ids)
          BY <3>1, <4>1, <1>3, <1>4, <1>5, <1>7, WriteDoes
        <4>4. ASSUME NEW v \in Pending(s)', job'[v].pc = "write"
              PROVE  Len(job'[v].rows) + Cardinality(Pending(s)') <= Len(stores'[s].ids)
          <5>1. Len(job[v].rows) + n <= Len(stores[S].ids) /\ Len(job[v].rows) \in Nat
            BY <4>2, <4>4, <1>4, <1>6
          <5> QED BY <5>1, <3>1, <4>1, <4>2, <1>3, <1>5, <1>7
        <4> QED BY <4>1, <4>3, <4>4, <1>3
      <3>2. CASE s # S
        <4>1. Pending(s)' = Pending(s) /\ s \in DOMAIN stores /\ stores'[s] = stores[s]
          BY <1>s, <1>2, <3>2, WriteDoes
        <4>2. \A v \in Pending(s) : job'[v] = job[v]
          BY <1>s, <3>2, WriteDoes DEF Pending
        <4> QED BY <4>1, <4>2 DEF IndexInv, RowsFit
      <3> QED BY <3>1, <3>2
    <2> QED BY <2>1 DEF RowsFit
  <1>9. retrievers' \in Seq([vs : DOMAIN stores', count : Counts])
    BY <1>0, WriteDoes, ObjectsStay DEF WriteMatrix
  <1> QED BY <1>0, <1>1, <1>8, <1>9, WriteDoes, ObjectsStay, IndexStep DEF WriteMatrix

LEMMA RequestType ==
    ASSUME NEW doc \in Docs \cup {"none", "evaluation"}
    PROVE  /\ Request(doc) \in Requests
           /\ Request(doc).pc = "get" /\ Request(doc).doc = doc
  BY DEF Request, Requests, Pcs, Items

(* A request begins: the thread was idle, and waits for the retriever next.*)
LEMMA BeginInv ==
    ASSUME IndexInv, NEW w \in Workers, NEW j \in Requests \cup {Idle}, Begin(w, j),
           j # Idle => j.pc = "get",
           uploaded \subseteq uploaded', uploaded' \subseteq Docs, IsFiniteSet(uploaded'),
           finished' \in Seq(Docs \cup {"evaluation"}),
           UNCHANGED <<backend, retrievers, registered, stores, faults>>
    PROVE  IndexInv'
  <1>0. TypeOK /\ job[w].pc = "idle"
    BY DEF IndexInv, Begin, At
  <1>1. job' \in Jobs /\ job'[w] = j /\ \A v \in Workers \ {w} : job'[v] = job[v]
    BY <1>0 DEF TypeOK, Jobs, Begin
  <1>2. j.pc \in {"idle", "get"}
    BY DEF Idle
  <1>3. NodeCount \in Nat /\ NodeCount' \in Nat /\ NodeCount <= NodeCount'
    <2>1. Cardinality(uploaded') \in Nat /\ Cardinality(uploaded) \in Nat
          /\ Cardinality(uploaded) <= Cardinality(uploaded')
      BY FS_Subset, FS_CardinalityType DEF IndexInv, Way
    <2> QED BY <2>1 DEF NodeCount
  <1>4. retrievers \in Seq([vs : DOMAIN stores, count : {NeverBuilt} \cup 0 .. NodeCount'])
    <2>1. [vs : DOMAIN stores, count : Counts] \subseteq [vs : DOMAIN stores, count : {NeverBuilt} \cup 0 .. NodeCount']
      BY <1>3 DEF Counts
    <2>2. retrievers \in Seq([vs : DOMAIN stores, count : Counts])
      BY <1>0, ObjectsStay
    <2> QED BY <2>1, <2>2, WiderSeq
  <1>5. requests' \in 0 .. MaxRequests /\ overlapped' \in BOOLEAN
    <2>1. requests \in 0 .. MaxRequests /\ MaxRequests \in Nat /\ overlapped \in BOOLEAN
      BY <1>0, BoundsAssumption DEF TypeOK
    <2> QED BY <2>1 DEF Begin
  <1>6. RowsFit'
    BY <1>0, <1>1, <1>2, RowsKept
  <1>7. ASSUME NEW v \in Workers, job'[v] # Idle PROVE JobOK(job[v])'
    <2>1. CASE v = w
      <3>1. job'[v].pc = "get"
        BY <1>1, <1>7, <2>1
      <3> QED BY <3>1 DEF JobOK
    <2>2. CASE v # w
      <3>1. job'[v] = job[v] /\ JobOK(job[v])
        BY <1>0, <1>1, <1>7, <2>2 DEF TypeOK
      <3> QED BY <3>1 DEF JobOK
    <2> QED BY <2>1, <2>2
  <1>8. TypeOK'
    BY <1>0, <1>1, <1>4, <1>5, <1>7 DEF TypeOK, Jobs
  <1>9. ASSUME NEW v \in Workers, job'[v].pc # "idle" PROVE WayOf(job[v])'
    <2>1. CASE v = w
      <3>1. job'[v].pc = "get"
        BY <1>1, <1>2, <1>9, <2>1
      <3> QED BY <3>1 DEF WayOf
    <2>2. CASE v # w
      <3>1. job'[v] = job[v] /\ WayOf(job[v])
        BY <1>1, <1>9, <2>2 DEF IndexInv, Way
      <3> QED BY <3>1 DEF WayOf
    <2> QED BY <2>1, <2>2
  <1> QED BY <1>6, <1>8, <1>9 DEF IndexInv, Way

LEMMA UploadInv == ASSUME IndexInv, NEW w \in Workers, Upload(w) PROVE IndexInv'
  <1>1. PICK d \in Docs :
          /\ uploaded' = uploaded \cup {d}
          /\ Begin(w, IF d \in Textless THEN Idle ELSE Request(d))
          /\ finished' = IF d \in Textless THEN Append(finished, d) ELSE finished
    BY DEF Upload
  <1> DEFINE j == IF d \in Textless THEN Idle ELSE Request(d)
  <1>2. j \in Requests \cup {Idle} /\ (j # Idle => j.pc = "get")
    BY RequestType
  <1>3. /\ uploaded' \subseteq Docs /\ uploaded \subseteq uploaded' /\ IsFiniteSet(uploaded')
        /\ finished' \in Seq(Docs \cup {"evaluation"})
    <2>1. uploaded \subseteq Docs /\ IsFiniteSet(uploaded) /\ finished \in Seq(Docs \cup {"evaluation"})
      BY DEF IndexInv, TypeOK, Way
    <2>2. IsFiniteSet(uploaded \cup {d})
      BY <2>1, FS_AddElement
    <2>3. Append(finished, d) \in Seq(Docs \cup {"evaluation"})
      BY <2>1
    <2> QED BY <1>1, <2>1, <2>2, <2>3
  <1>4. Begin(w, j)
    BY <1>1
  <1> HIDE DEF j
  <1> QED BY <1>2, <1>3, <1>4, BeginInv DEF Upload

LEMMA QueryInv ==
    ASSUME IndexInv, NEW w \in Workers, Query(w) \/ Evaluate(w)
    PROVE  IndexInv'
  <1>1. PICK doc \in {"none", "evaluation"} : Begin(w, Request(doc))
    BY DEF Query, Evaluate
  <1>2. Request(doc) \in Requests /\ Request(doc).pc = "get"
    BY RequestType
  <1>3. UNCHANGED <<backend, uploaded, retrievers, registered, stores, finished, faults>>
    BY DEF Query, Evaluate
  <1>4. /\ uploaded' \subseteq Docs /\ uploaded \subseteq uploaded' /\ IsFiniteSet(uploaded')
        /\ finished' \in Seq(Docs \cup {"evaluation"})
    BY <1>3 DEF IndexInv, TypeOK, Way
  <1> QED BY <1>1, <1>2, <1>3, <1>4, BeginInv

LEMMA IndexInitInv == Init => IndexInv
  <1> SUFFICES ASSUME Init PROVE IndexInv
    OBVIOUS
  <1> USE DEF Init
  <1>1. MaxRequests \in Nat /\ MaxFaults \in Nat
    BY BoundsAssumption
  <1>2. TypeOK
    <2>1. job \in [Workers -> Requests \cup {Idle}] /\ \A w \in Workers : job[w] = Idle
      OBVIOUS
    <2>2. stores \in Seq([ids : Seq(Items), rows : Seq(Items)])
          /\ finished \in Seq(Docs \cup {"evaluation"})
      OBVIOUS
    <2>3. retrievers \in Seq([vs : DOMAIN stores, count : {NeverBuilt} \cup 0 .. NodeCount])
      OBVIOUS
    <2>4. 0 \in 0 .. MaxRequests /\ 0 \in 0 .. MaxFaults
      BY <1>1
    <2> QED BY <2>1, <2>2, <2>3, <2>4 DEF TypeOK
  <1>3. Way
    BY FS_EmptySet DEF Way, Idle
  <1>4. RowsFit
    BY DEF RowsFit
  <1> QED BY <1>2, <1>3, <1>4 DEF IndexInv

LEMMA IndexNextInv == IndexInv /\ [Next]_vars => IndexInv'
  <1> SUFFICES ASSUME IndexInv, [Next]_vars PROVE IndexInv'
    OBVIOUS
  <1>1. CASE UNCHANGED vars
    BY <1>1 DEF vars, IndexInv, TypeOK, JobOK, NodeCount, Way, WayOf, RowsFit, Pending
  <1>2. CASE Next
    <2>1. PICK w \in Workers : Upload(w) \/ Query(w) \/ Evaluate(w) \/ Serve(w)
      BY <1>2 DEF Next
    <2>2. CASE Upload(w) \/ Query(w) \/ Evaluate(w)
      BY <2>2, UploadInv, QueryInv
    <2>3. CASE Serve(w)
      BY <2>3, GetRetrieverInv, RegisterInv, EnsureInv, ScanInv, ReplaceInv, AppendIdsInv,
         ReadInv, WriteInv, CountInv, ChunksInv, SettleInv, SearchInv DEF Serve
    <2> QED BY <2>1, <2>2, <2>3
  <1> QED BY <1>1, <1>2

(* The inductive invariant holds of every behaviour.                       *)
THEOREM IndexInvariance == Spec => []IndexInv
  BY IndexInitInv, IndexNextInv, PTL DEF Spec

(* References are to retrievers and stores there are, and counts to nodes  *)
(* there were, however threads interleave.                                 *)
THEOREM TypeCorrect == Spec => []TypeOK
  <1>1. IndexInv => TypeOK
    BY DEF IndexInv
  <1> QED BY <1>1, IndexInvariance, PTL

(* However add_batch interleaves with itself, with rebuilds and searches,  *)
(* every row of a matrix has an id, a text and metadata (vector_store.py:  *)
(* 79-87, 93-106).                                                         *)
THEOREM RowsHaveIds == Spec => []RowsWithinIds
  <1>1. IndexInv => RowsWithinIds
    <2> SUFFICES ASSUME IndexInv, NEW s \in DOMAIN stores
                 PROVE  Len(stores[s].rows) <= Len(stores[s].ids)
      BY DEF RowsWithinIds
    <2>1. /\ IsFiniteSet(Pending(s))
          /\ Len(stores[s].rows) + Cardinality(Pending(s)) <= Len(stores[s].ids)
      BY DEF IndexInv, RowsFit
    <2>2. Cardinality(Pending(s)) \in Nat
      BY <2>1, FS_CardinalityType
    <2>3. stores[s].rows \in Seq(Items) /\ stores[s].ids \in Seq(Items)
      BY ObjectsTyped DEF IndexInv
    <2>4. Len(stores[s].rows) \in Nat /\ Len(stores[s].ids) \in Nat
      BY <2>3
    <2> QED BY <2>1, <2>2, <2>4
  <1> QED BY <1>1, IndexInvariance, PTL

-----------------------------------------------------------------------------
(* One request at a time. *)

LEMMA SerialOf ==
    ASSUME IndexInv, Serial, ~overlapped, NEW w \in Workers, job[w].pc # "idle"
    PROVE  /\ SerialJob(job[w]) /\ LastingJob(job[w])
           /\ faults = 0 => CorpusJob(job[w])
           /\ \A v \in Workers \ {w} : job[v].pc = "idle"
  BY DEF Serial, OneRequest

LEMMA SerialStep ==
    ASSUME IndexInv, Serial, ~overlapped, NEW w \in Workers, job[w].pc # "idle",
           \A v \in Workers \ {w} : job'[v] = job[v],
           job'[w].pc # "idle" =>
               /\ SerialJob(job[w])' /\ LastingJob(job[w])'
               /\ faults' = 0 => CorpusJob(job[w])',
           job'[w].pc = "idle" => LastingFound' /\ (faults' = 0 => CorpusBetween')
    PROVE  Serial'
  <1>1. \A v \in Workers \ {w} : job'[v].pc = "idle"
    BY SerialOf
  <1>2. ASSUME NEW v \in Workers, job'[v].pc = "idle"
        PROVE  SerialJob(job[v])' /\ LastingJob(job[v])' /\ CorpusJob(job[v])'
    BY <1>2 DEF SerialJob, LastingJob, CorpusJob
  <1>3. \A v \in Workers : SerialJob(job[v])' /\ LastingJob(job[v])' /\ (faults' = 0 => CorpusJob(job[v])')
    BY <1>1, <1>2
  <1>4. OneRequest'
    BY <1>1 DEF OneRequest
  <1>5. Quiet' => job'[w].pc = "idle"
    BY DEF Quiet, At
  <1> QED BY <1>3, <1>4, <1>5 DEF Serial

LEMMA LastingSame ==
    ASSUME finished' = finished, backend' = backend
    PROVE  Lasting' = Lasting
  BY DEF Lasting, Lasts, HasText

LEMMA LastingAppend ==
    ASSUME TypeOK, NEW f \in Docs \cup {"evaluation"}, finished' = Append(finished, f), backend' = backend
    PROVE  /\ f = "evaluation" => Lasting' = {}
           /\ f \in Docs /\ backend = "memory" => Lasting' \subseteq {f}
           /\ f \in Docs => Lasting' \subseteq Lasting \cup {f}
           /\ f \in Textless => f \notin Lasting' \/ f \in Lasting
           /\ f \in Textless /\ backend = "memory" => Lasting' = {}
  <1>1. /\ Len(finished) \in Nat /\ Len(finished') = Len(finished) + 1
        /\ DOMAIN finished = 1 .. Len(finished) /\ DOMAIN finished' = 1 .. Len(finished) + 1
        /\ \A i \in DOMAIN finished : finished'[i] = finished[i]
        /\ finished'[Len(finished) + 1] = f
    BY DEF TypeOK
  <1>2. ASSUME NEW i \in DOMAIN finished, Lasts(i)'
        PROVE  /\ f # "evaluation" /\ (f \in Docs => backend = "neo4j")
               /\ finished'[i] \in Lasting
    <2> DEFINE was == {finished[j] : j \in i + 1 .. Len(finished)}
               is == {finished'[j] : j \in i + 1 .. Len(finished')}
    <2>1. was \subseteq is /\ f \in is
      BY <1>1
    <2>2. /\ HasText(finished'[i])
          /\ backend' = "neo4j" \/ is \cap Docs = {}
          /\ "evaluation" \notin is
      BY <1>2 DEF Lasts, HasText
    <2> HIDE DEF is
    <2>3. HasText(finished[i]) /\ (backend = "neo4j" \/ was \cap Docs = {}) /\ "evaluation" \notin was
      BY <1>1, <2>1, <2>2
    <2>4. Lasts(i)
      BY <2>3 DEF Lasts
    <2> QED BY <1>1, <2>1, <2>2, <2>4 DEF Lasting
  <1>3. ASSUME NEW x \in Lasting'
        PROVE  \/ x = f /\ HasText(f)
               \/ f # "evaluation" /\ (f \in Docs => backend = "neo4j") /\ x \in Lasting
    <2>1. PICK i \in DOMAIN finished' : Lasts(i)' /\ x = finished'[i]
      BY <1>3 DEF Lasting
    <2>2. CASE i = Len(finished) + 1
      <3>1. HasText(finished'[i])
        BY <2>1 DEF Lasts, HasText
      <3> QED BY <1>1, <2>1, <2>2, <3>1
    <2>3. CASE i \in DOMAIN finished
      BY <1>2, <2>1, <2>3
    <2> QED BY <1>1, <2>2, <2>3
  <1>4. "evaluation" \notin Docs
    BY DocsAssumption
  <1> QED BY <1>3, <1>4 DEF HasText

LEMMA FreshNow ==
    ASSUME IndexInv, NEW r \in DOMAIN retrievers, retrievers[r].count = NodeCount
    PROVE  Fresh(r)
  BY NodeCountType DEF IndexInv, Way, Fresh

(* The objects are as they were.                                           *)
LEMMA FoundSame ==
    ASSUME UNCHANGED <<backend, uploaded, retrievers, registered, stores, finished>>
    PROVE  /\ Lasting' = Lasting /\ LastingFound' = LastingFound /\ CorpusBetween' = CorpusBetween
           /\ \A r : RowsOf(r)' = RowsOf(r) /\ HasCorpus(r)' = HasCorpus(r) /\ Fresh(r)' = Fresh(r)
  BY DEF Lasting, Lasts, HasText, LastingFound, CorpusBetween, Fresh, FoundBy, RowsOf, HasCorpus, NodeCount

LEMMA GetRetrieverSerial ==
    ASSUME IndexInv, Serial, ~overlapped, NEW w \in Workers, GetRetriever(w)
    PROVE  Serial'
  <1>0. /\ job[w].pc = "get" /\ SerialJob(job[w]) /\ LastingJob(job[w])
        /\ faults = 0 => CorpusJob(job[w])
    BY GetRetrieverDoes, SerialOf
  <1>1. CASE registered # 0
    <2>1. UNCHANGED <<backend, uploaded, retrievers, registered, stores, finished, faults>>
      BY <1>1, GetRetrieverDoes DEF GetRetriever
    <2>2. job'[w].pc = "ensure" /\ job'[w].r = registered /\ job'[w].doc = job[w].doc
      BY <1>1, GetRetrieverDoes
    <2>3. SerialJob(job[w])'
      BY <2>1, <2>2 DEF SerialJob
    <2>4. LastingJob(job[w])'
      BY <1>0, <2>1, <2>2, FoundSame DEF LastingJob, Spares
    <2>5. faults' = 0 => CorpusJob(job[w])'
      BY <1>0, <2>1, <2>2, FoundSame DEF CorpusJob
    <2> QED BY <1>0, <2>2, <2>3, <2>4, <2>5, GetRetrieverDoes, SerialStep
  <1>2. CASE registered = 0
    <2>1. /\ job'[w].pc = "register" /\ job'[w].r = Len(retrievers) + 1 /\ job'[w].doc = job[w].doc
          /\ retrievers' = Append(retrievers, [vs |-> Len(stores) + 1, count |-> NeverBuilt])
          /\ registered' = 0 /\ Lasting' = Lasting /\ backend' = backend
      BY <1>2, GetRetrieverDoes, LastingSame DEF GetRetriever
    <2>2. retrievers'[Len(retrievers) + 1].count = NeverBuilt
      <3>1. retrievers \in Seq([vs : DOMAIN stores, count : Counts])
        BY ObjectsStay DEF IndexInv
      <3> QED BY <3>1, <2>1
    <2>3. SerialJob(job[w])'
      BY <2>1, <2>2 DEF SerialJob
    <2>4. Spares(job[w]) => Lasting = {}
      BY <1>0, <1>2 DEF LastingJob, LastingFound
    <2>5. LastingJob(job[w])'
      BY <2>1, <2>4 DEF LastingJob, Spares
    <2>6. CorpusJob(job[w])'
      BY <2>1 DEF CorpusJob
    <2> QED BY <1>0, <2>1, <2>3, <2>5, <2>6, GetRetrieverDoes, SerialStep
  <1> QED BY <1>1, <1>2

LEMMA RegisterSerial ==
    ASSUME IndexInv, Serial, ~overlapped, NEW w \in Workers, Register(w)
    PROVE  Serial'
  <1>0. /\ job[w].pc = "register" /\ SerialJob(job[w]) /\ LastingJob(job[w]) /\ TypeOK
        /\ job' = [job EXCEPT ![w].pc = "ensure"]
    BY SerialOf DEF Register, At, Goto, IndexInv
  <1>1. /\ job'[w].pc = "ensure" /\ job'[w].r = job[w].r /\ job'[w].doc = job[w].doc
        /\ \A v \in Workers \ {w} : job'[v] = job[v]
    BY <1>0, SetPc DEF Pcs
  <1>2. registered' = job[w].r /\ Lasting' = Lasting /\ UNCHANGED <<backend, retrievers>>
    BY LastingSame DEF Register
  <1>3. retrievers[job[w].r].count = NeverBuilt
    BY <1>0 DEF SerialJob
  <1>4. SerialJob(job[w])'
    BY <1>1, <1>2 DEF SerialJob
  <1>5. LastingJob(job[w])'
    BY <1>0, <1>1, <1>2 DEF LastingJob, Spares
  <1>6. CorpusJob(job[w])'
    BY <1>1, <1>2, <1>3 DEF CorpusJob, CorpusBetween
  <1> QED BY <1>0, <1>1, <1>4, <1>5, <1>6, SerialStep

LEMMA EnsureSerial ==
    ASSUME IndexInv, Serial, ~overlapped, NEW w \in Workers, EnsureIndex(w)
    PROVE  Serial'
  <1>0. /\ job[w].pc = "ensure" /\ SerialJob(job[w]) /\ LastingJob(job[w])
        /\ faults = 0 => CorpusJob(job[w])
    BY EnsureDoes, SerialOf
  <1>1. UNCHANGED <<backend, uploaded, retrievers, registered, stores, finished, faults>>
    BY DEF EnsureIndex
  <1>2. job[w].r = registered /\ registered \in DOMAIN retrievers
    <2>1. JobOK(job[w]) /\ job[w].r = registered
      BY <1>0, Active DEF IndexInv, SerialJob
    <2> QED BY <1>0, <2>1 DEF JobOK
  <1>3. NodeCount' = NodeCount /\ NodeCount # NeverBuilt
    BY <1>1, NodeCountType DEF NodeCount, IndexInv, Way
  <1>4. Stale(w) <=> ~Fresh(registered)
    BY <1>2, EnsureDoes DEF Stale, Mine, Fresh, IndexInv, TypeOK
  <1>5. ~Stale(w) => retrievers[registered].count # NeverBuilt
    BY <1>2, <1>3 DEF Stale, Mine
  <1>6. job'[w].pc \in {"scan", "chunks", "search"} /\ job'[w].r = job[w].r
        /\ job'[w].doc = job[w].doc /\ job'[w].size = NodeCount
    BY EnsureDoes
  <1>7. SerialJob(job[w])'
    BY <1>1, <1>2, <1>3, <1>6 DEF SerialJob
  <1>8. LastingJob(job[w])'
    <2>1. Spares(job[w]) /\ Lasting # {} => ~Stale(w) /\ ~Evaluates(w)
      BY <1>0, <1>4, DocsAssumption DEF LastingJob, LastingFound, Spares, Evaluates
    <2>2. job'[w].pc = "search" => job[w].doc \notin Docs
      BY EnsureDoes DEF Adds
    <2>3. Spares(job[w])' = Spares(job[w])
      BY <1>1, <1>6 DEF Spares
    <2> QED BY <1>0, <1>1, <1>6, <2>1, <2>2, <2>3, EnsureDoes, FoundSame DEF LastingJob
  <1>9. faults' = 0 => CorpusJob(job[w])'
    <2> SUFFICES ASSUME faults' = 0 PROVE CorpusJob(job[w])'
      OBVIOUS
    <2>1. CorpusBetween
      BY <1>0, <1>1 DEF CorpusJob
    <2>2. job'[w].pc \in {"chunks", "search"} => HasCorpus(registered)
      BY <1>2, <1>5, <2>1, EnsureDoes, ObjectsTyped DEF CorpusBetween, IndexInv
    <2>3. job'[w].pc \in {"chunks", "search"} => HasCorpus(job[w].r)'
      BY <1>1, <1>2, <1>6, <2>2 DEF HasCorpus, RowsOf
    <2> QED BY <1>6, <2>3 DEF CorpusJob
  <1> QED BY <1>0, <1>6, <1>7, <1>8, <1>9, EnsureDoes, SerialStep

LEMMA ScanSerial ==
    ASSUME IndexInv, Serial, ~overlapped, NEW w \in Workers, Scan(w)
    PROVE  Serial'
  <1>0. /\ job[w].pc = "scan" /\ SerialJob(job[w]) /\ LastingJob(job[w]) /\ job[w].size = NodeCount
    BY ScanDoes, SerialOf DEF SerialJob
  <1>1. /\ job'[w].pc = "replace" /\ job'[w].r = job[w].r /\ job'[w].doc = job[w].doc
        /\ finished' = finished
        /\ job'[w].item = Corpus \/ faults' = faults + 1
    BY <1>0, ScanDoes
  <1>2. UNCHANGED <<backend, registered>> /\ Lasting' = Lasting
    BY <1>1, LastingSame DEF Scan
  <1>3. SerialJob(job[w])'
    BY <1>0, <1>1, <1>2 DEF SerialJob
  <1>4. LastingJob(job[w])'
    BY <1>0, <1>1, <1>2 DEF LastingJob, Spares
  <1>5. faults' = 0 => CorpusJob(job[w])'
    <2>1. faults \in Nat
      BY BoundsAssumption DEF IndexInv, TypeOK
    <2> QED BY <1>1, <2>1 DEF CorpusJob
  <1> QED BY <1>0, <1>1, <1>3, <1>4, <1>5, ScanDoes, SerialStep

LEMMA ReplaceSerial ==
    ASSUME IndexInv, Serial, ~overlapped, NEW w \in Workers, Replace(w)
    PROVE  Serial'
  <1>0. /\ job[w].pc = "replace" /\ SerialJob(job[w]) /\ LastingJob(job[w]) /\ TypeOK
        /\ faults = 0 => CorpusJob(job[w])
        /\ job' = [job EXCEPT ![w].pc = IF job[w].item = "nothing" THEN "count" ELSE "ids"]
    BY SerialOf DEF Replace, At, Goto, IndexInv
  <1>1. /\ job'[w].pc = (IF job[w].item = "nothing" THEN "count" ELSE "ids")
        /\ job'[w].r = job[w].r /\ job'[w].doc = job[w].doc /\ job'[w].item = job[w].item
        /\ \A v \in Workers \ {w} : job'[v] = job[v]
    BY <1>0, SetPc DEF Pcs
  <1>2. UNCHANGED <<backend, registered, faults>> /\ Lasting' = Lasting
    BY LastingSame DEF Replace
  <1>3. SerialJob(job[w])'
    BY <1>0, <1>1, <1>2 DEF SerialJob
  <1>4. LastingJob(job[w])'
    BY <1>0, <1>1, <1>2 DEF LastingJob, Spares
  <1>5. faults' = 0 => CorpusJob(job[w])'
    BY <1>0, <1>1, <1>2 DEF CorpusJob, Corpus
  <1> QED BY <1>0, <1>1, <1>3, <1>4, <1>5, SerialStep

(* The rows are as they were, or have one more.                            *)
LEMMA FoundGrows ==
    ASSUME TypeOK, UNCHANGED <<backend, uploaded, retrievers, registered, finished>>,
           \A r \in DOMAIN retrievers : ToSet(RowsOf(r)) \subseteq ToSet(RowsOf(r)')
    PROVE  /\ Lasting' = Lasting
           /\ LastingFound => LastingFound'
           /\ CorpusBetween => CorpusBetween'
           /\ \A r \in DOMAIN retrievers : HasCorpus(r) => HasCorpus(r)'
  <1>1. Lasting' = Lasting
    BY LastingSame
  <1>2. \A r \in DOMAIN retrievers : HasCorpus(r) => HasCorpus(r)'
    BY DEF HasCorpus
  <1>3. registered # 0 => registered \in DOMAIN retrievers
    BY DEF TypeOK
  <1>4. LastingFound => LastingFound'
    <2> SUFFICES ASSUME LastingFound, Lasting' # {} PROVE registered' # 0 /\ Fresh(registered)' /\ Lasting' \subseteq FoundBy(registered)'
      BY DEF LastingFound
    <2>1. registered # 0 /\ Fresh(registered) /\ Lasting \subseteq FoundBy(registered)
      BY <1>1 DEF LastingFound
    <2>2. FoundBy(registered) \subseteq FoundBy(registered)'
      BY <1>3, <2>1 DEF FoundBy, RowsOf
    <2> QED BY <1>1, <2>1, <2>2 DEF Fresh, NodeCount
  <1> QED BY <1>1, <1>2, <1>3, <1>4 DEF CorpusBetween

LEMMA AppendSerial ==
    ASSUME IndexInv, Serial, ~overlapped, NEW w \in Workers, AppendIds(w)
    PROVE  Serial'
  <1>0. /\ job[w].pc = "ids" /\ SerialJob(job[w]) /\ LastingJob(job[w]) /\ TypeOK
        /\ faults = 0 => CorpusJob(job[w])
        /\ job[w].r \in DOMAIN retrievers
    BY AppendDoes, SerialOf DEF IndexInv
  <1>1. UNCHANGED <<backend, uploaded, retrievers, registered, finished, faults>>
    BY DEF AppendIds
  <1>2. \A s \in DOMAIN stores : stores'[s].rows = stores[s].rows
    <2>1. PICK S \in DOMAIN stores : stores' = [stores EXCEPT ![S].ids = Append(@, job[w].item)]
      BY AppendDoes
    <2> DEFINE ids == Append(stores[S].ids, job[w].item)
               new == [stores[S] EXCEPT !.ids = ids]
    <2>2. stores' = [stores EXCEPT ![S] = new]
      BY <2>1
    <2>3. stores[S] \in Stored
      BY <1>0, ObjectsStay, Elements
    <2> HIDE DEF ids
    <2>4. new.rows = stores[S].rows
      BY <2>3 DEF Stored
    <2> HIDE DEF new
    <2> QED BY <2>2, <2>4
  <1>3. \A r \in DOMAIN retrievers : RowsOf(r)' = RowsOf(r)
    BY <1>0, <1>1, <1>2, ObjectsTyped DEF RowsOf
  <1>4. /\ job'[w].pc = "read" /\ job'[w].r = job[w].r /\ job'[w].doc = job[w].doc
        /\ job'[w].item = job[w].item /\ job'[w].vs = retrievers[job[w].r].vs
    BY AppendDoes
  <1>5. SerialJob(job[w])'
    BY <1>0, <1>1, <1>4 DEF SerialJob
  <1>6. Lasting' = Lasting /\ (LastingFound => LastingFound')
        /\ \A r \in DOMAIN retrievers : HasCorpus(r) => HasCorpus(r)'
    BY <1>0, <1>1, <1>3, FoundGrows
  <1>7. LastingJob(job[w])'
    BY <1>0, <1>1, <1>4, <1>6 DEF LastingJob, Spares
  <1>8. faults' = 0 => CorpusJob(job[w])'
    <2> SUFFICES ASSUME faults' = 0 PROVE CorpusJob(job[w])'
      OBVIOUS
    <2>1. job[w].item = Corpus \/ HasCorpus(job[w].r)
      BY <1>0, <1>1 DEF CorpusJob
    <2>2. job'[w].item = Corpus \/ HasCorpus(job[w].r)'
      <3>1. PICK r \in DOMAIN retrievers : r = job[w].r
        BY <1>0
      <3>2. HasCorpus(job[w].r)' <=> HasCorpus(r)'
        BY <1>4, <3>1 DEF HasCorpus, RowsOf
      <3> QED BY <1>4, <1>6, <2>1, <3>1, <3>2
    <2> QED BY <1>4, <2>2 DEF CorpusJob
  <1> QED BY <1>0, <1>4, <1>5, <1>7, <1>8, AppendDoes, SerialStep

LEMMA ReadSerial ==
    ASSUME IndexInv, Serial, ~overlapped, NEW w \in Workers, ReadMatrix(w)
    PROVE  Serial'
  <1>0. /\ job[w].pc = "read" /\ SerialJob(job[w]) /\ LastingJob(job[w])
        /\ faults = 0 => CorpusJob(job[w])
    BY ReadDoes, SerialOf
  <1>1. UNCHANGED <<backend, uploaded, retrievers, registered, stores, finished, faults>>
    BY DEF ReadMatrix
  <1>2. /\ job'[w].pc = "write" /\ job'[w].r = job[w].r /\ job'[w].doc = job[w].doc
        /\ job'[w].item = job[w].item /\ job'[w].vs = job[w].vs
        /\ job'[w].rows = stores[job[w].vs].rows
    BY ReadDoes
  <1>3. SerialJob(job[w])'
    BY <1>0, <1>1, <1>2 DEF SerialJob, RowsOf
  <1>4. LastingJob(job[w])'
    BY <1>0, <1>1, <1>2, FoundSame DEF LastingJob, Spares
  <1>5. faults' = 0 => CorpusJob(job[w])'
    BY <1>0, <1>1, <1>2 DEF CorpusJob, HasCorpus, RowsOf
  <1> QED BY <1>0, <1>2, <1>3, <1>4, <1>5, ReadDoes, SerialStep

LEMMA AppendedSet ==
    ASSUME NEW S, NEW s \in Seq(S), NEW x \in S
    PROVE  ToSet(Append(s, x)) = ToSet(s) \cup {x}
  <1>1. /\ Len(Append(s, x)) = Len(s) + 1 /\ Len(s) \in Nat
        /\ \A i \in 1 .. Len(s) : Append(s, x)[i] = s[i]
        /\ Append(s, x)[Len(s) + 1] = x
        /\ DOMAIN s = 1 .. Len(s) /\ DOMAIN Append(s, x) = 1 .. Len(s) + 1
    OBVIOUS
  <1>2. 1 .. Len(s) + 1 = (1 .. Len(s)) \cup {Len(s) + 1}
    BY <1>1
  <1> QED BY <1>1, <1>2 DEF ToSet

LEMMA WriteSerial ==
    ASSUME IndexInv, Serial, ~overlapped, NEW w \in Workers, WriteMatrix(w)
    PROVE  Serial'
  <1>0. /\ job[w].pc = "write" /\ SerialJob(job[w]) /\ LastingJob(job[w]) /\ TypeOK
        /\ faults = 0 => CorpusJob(job[w])
        /\ JobOK(job[w]) /\ WayOf(job[w])
    BY WriteDoes, SerialOf, Active DEF IndexInv, Way
  <1>1. UNCHANGED <<backend, uploaded, retrievers, registered, finished, faults>>
    BY DEF WriteMatrix
  <1>2. PICK r \in DOMAIN retrievers : r = job[w].r
    BY <1>0 DEF JobOK
  <1>3. r = registered /\ job[w].vs = retrievers[r].vs /\ job[w].rows = RowsOf(r)
    BY <1>0, <1>2 DEF SerialJob
  <1>4. job[w].rows \in Seq(Items) /\ job[w].item \in Items
    BY WriteDoes
  <1>5. RowsOf(r)' = Append(RowsOf(r), job[w].item)
    BY <1>1, <1>3, WriteDoes DEF RowsOf
  <1>6. ToSet(RowsOf(r)') = ToSet(RowsOf(r)) \cup {job[w].item}
    BY <1>3, <1>4, <1>5, AppendedSet
  <1>7. \A q \in DOMAIN retrievers : ToSet(RowsOf(q)) \subseteq ToSet(RowsOf(q)')
    <2> TAKE q \in DOMAIN retrievers
    <2>1. CASE retrievers[q].vs = retrievers[r].vs
      BY <1>1, <1>6, <2>1 DEF RowsOf
    <2>2. CASE retrievers[q].vs # retrievers[r].vs
      <3>1. RowsOf(q)' = RowsOf(q)
        BY <1>0, <1>1, <1>3, <2>2, WriteDoes, ObjectsTyped DEF RowsOf
      <3> QED BY <3>1
    <2> QED BY <2>1, <2>2
  <1>8. Lasting' = Lasting /\ (LastingFound => LastingFound')
        /\ \A q \in DOMAIN retrievers : HasCorpus(q) => HasCorpus(q)'
    BY <1>0, <1>1, <1>7, FoundGrows
  <1>9. /\ job'[w].pc = (IF job[w].item = Corpus THEN "count" ELSE "settle")
        /\ job'[w].r = job[w].r /\ job'[w].doc = job[w].doc /\ job'[w].item = job[w].item
    BY WriteDoes
  <1>10. SerialJob(job[w])'
    BY <1>0, <1>1, <1>9 DEF SerialJob
  <1>11. LastingJob(job[w])'
    <2>1. Spares(job[w]) /\ Lasting # {} => job'[w].pc = "settle"
      <3>1. Spares(job[w]) /\ Lasting # {} => job[w].item = job[w].doc
        BY <1>0 DEF LastingJob
      <3>2. Spares(job[w]) => job[w].doc # Corpus
        BY DocsAssumption DEF Spares, Corpus
      <3> QED BY <1>9, <3>1, <3>2
    <2>2. job'[w].pc = "settle" => job[w].doc \in FoundBy(r)'
      <3>1. job'[w].pc = "settle" => job[w].item = job[w].doc
        BY <1>0, <1>9 DEF WayOf
      <3>2. job[w].item \in FoundBy(r)'
        BY <1>6 DEF FoundBy, RowsOf
      <3> QED BY <3>1, <3>2
    <2>3. job'[w].pc = "settle" => (job[w].doc \in FoundBy(job[w].r))'
      BY <1>2, <1>9, <2>2 DEF FoundBy
    <2> QED BY <1>0, <1>1, <1>8, <1>9, <2>1, <2>3 DEF LastingJob, Spares
  <1>12. faults' = 0 => CorpusJob(job[w])'
    <2> SUFFICES ASSUME faults' = 0 PROVE CorpusJob(job[w])'
      OBVIOUS
    <2>1. HasCorpus(r)'
      BY <1>0, <1>1, <1>2, <1>6, <1>8 DEF CorpusJob, HasCorpus
    <2>2. HasCorpus(job[w].r)'
      BY <1>2, <1>9, <2>1 DEF HasCorpus, RowsOf
    <2> QED BY <1>9, <2>2 DEF CorpusJob
  <1> QED BY <1>0, <1>9, <1>10, <1>11, <1>12, WriteDoes, SerialStep

(* Remembering the number of nodes changes what no retriever finds.        *)
LEMMA RowsAfterCount ==
    ASSUME IndexInv, NEW r \in DOMAIN retrievers, UNCHANGED stores,
           retrievers' = [retrievers EXCEPT ![r].count = NodeCount]
    PROVE  \A q \in DOMAIN retrievers :
               RowsOf(q)' = RowsOf(q) /\ (HasCorpus(q) => HasCorpus(q)') /\ FoundBy(q)' = FoundBy(q)
  <1>1. \A q \in DOMAIN retrievers : retrievers'[q].vs = retrievers[q].vs
    BY CountedType
  <1> QED BY <1>1 DEF RowsOf, HasCorpus, FoundBy

LEMMA CountSerial ==
    ASSUME IndexInv, Serial, ~overlapped, NEW w \in Workers, Count(w)
    PROVE  Serial'
  <1>0. /\ job[w].pc = "count" /\ SerialJob(job[w]) /\ LastingJob(job[w]) /\ TypeOK
        /\ faults = 0 => CorpusJob(job[w])
        /\ JobOK(job[w])
        /\ job' = [job EXCEPT ![w].pc = IF Adds(w) THEN "chunks" ELSE "search"]
    BY SerialOf, Active DEF Count, At, Goto, IndexInv
  <1>1. /\ job'[w].pc = (IF Adds(w) THEN "chunks" ELSE "search")
        /\ job'[w].r = job[w].r /\ job'[w].doc = job[w].doc
        /\ \A v \in Workers \ {w} : job'[v] = job[v]
    BY <1>0, SetPc DEF Pcs
  <1>2. PICK r \in DOMAIN retrievers : r = job[w].r
    BY <1>0 DEF JobOK
  <1>3. UNCHANGED <<backend, registered, faults, stores, finished>> /\ Lasting' = Lasting
    BY LastingSame DEF Count
  <1>4. HasCorpus(r) => HasCorpus(r)'
    BY <1>2, <1>3, RowsAfterCount DEF Count
  <1>5. SerialJob(job[w])'
    BY <1>0, <1>1, <1>3 DEF SerialJob
  <1>6. LastingJob(job[w])'
    BY <1>0, <1>1, <1>3 DEF LastingJob, Spares, Adds
  <1>7. faults' = 0 => CorpusJob(job[w])'
    <2> SUFFICES ASSUME faults' = 0 PROVE CorpusJob(job[w])'
      OBVIOUS
    <2>1. HasCorpus(r)'
      BY <1>0, <1>2, <1>3, <1>4 DEF CorpusJob
    <2>2. HasCorpus(job[w].r)'
      BY <1>1, <1>2, <2>1 DEF HasCorpus, RowsOf
    <2> QED BY <1>1, <2>2 DEF CorpusJob
  <1> QED BY <1>0, <1>1, <1>5, <1>6, <1>7, SerialStep

LEMMA ChunksSerial ==
    ASSUME IndexInv, Serial, ~overlapped, NEW w \in Workers, IndexChunks(w)
    PROVE  Serial'
  <1>0. /\ job[w].pc = "chunks" /\ SerialJob(job[w]) /\ LastingJob(job[w])
        /\ faults = 0 => CorpusJob(job[w])
    BY ChunksDoes, SerialOf
  <1>1. UNCHANGED <<backend, uploaded, retrievers, registered, stores, finished, faults>>
    BY DEF IndexChunks
  <1>2. /\ job'[w].pc = "ids" /\ job'[w].r = job[w].r /\ job'[w].doc = job[w].doc
        /\ job'[w].item = job[w].doc
    BY ChunksDoes
  <1>3. SerialJob(job[w])'
    BY <1>0, <1>1, <1>2 DEF SerialJob
  <1>4. LastingJob(job[w])'
    BY <1>0, <1>1, <1>2, FoundSame DEF LastingJob, Spares
  <1>5. faults' = 0 => CorpusJob(job[w])'
    BY <1>0, <1>1, <1>2 DEF CorpusJob, HasCorpus, RowsOf
  <1> QED BY <1>0, <1>2, <1>3, <1>4, <1>5, ChunksDoes, SerialStep

LEMMA SettleSerial ==
    ASSUME IndexInv, Serial, ~overlapped, NEW w \in Workers, Settle(w)
    PROVE  Serial'
  <1>0. /\ job[w].pc = "settle" /\ SerialJob(job[w]) /\ LastingJob(job[w]) /\ TypeOK
        /\ faults = 0 => CorpusJob(job[w])
        /\ JobOK(job[w]) /\ WayOf(job[w]) /\ job[w] \in Requests
        /\ job' = [job EXCEPT ![w] = Idle]
        /\ finished' = IF job[w].doc = "none" THEN finished ELSE Append(finished, job[w].doc)
    BY SerialOf, Active DEF Settle, At, Done, Answered, IsQuery, IndexInv, Way
  <1>1. job'[w].pc = "idle" /\ \A v \in Workers \ {w} : job'[v] = job[v]
    BY <1>0, SetIdle
  <1>2. PICK r \in DOMAIN retrievers : r = job[w].r
    BY <1>0 DEF JobOK
  <1>3. registered = r /\ registered' = r /\ r # 0 /\ UNCHANGED <<backend, uploaded, stores, faults>>
    BY <1>0, <1>2, ObjectsTyped DEF SerialJob, Settle
  <1>4. PICK d \in Docs : d = job[w].doc
    BY <1>0 DEF WayOf
  <1>5. finished' = Append(finished, d)
    BY <1>0, <1>4, DocsAssumption
  <1>6. d \in FoundBy(r)
    BY <1>0, <1>2, <1>4 DEF LastingJob
  <1>7. FoundBy(r)' = FoundBy(r) /\ (HasCorpus(r) => HasCorpus(r)')
    BY <1>2, <1>3, RowsAfterCount DEF Settle
  <1>8. Fresh(r)'
    <2>1. retrievers'[r].count = NodeCount /\ NodeCount' = NodeCount /\ NodeCount # NeverBuilt
      BY <1>2, <1>3, CountedType, NodeCountType DEF Settle, NodeCount, IndexInv, Way
    <2> QED BY <1>3, <2>1 DEF Fresh
  <1>9. Lasting' \subseteq FoundBy(r)
    <2>1. CASE backend = "memory"
      BY <1>0, <1>3, <1>4, <1>5, <1>6, <2>1, LastingAppend
    <2>2. CASE backend = "neo4j"
      <3>1. Lasting' \subseteq Lasting \cup {d}
        BY <1>0, <1>3, <1>4, <1>5, LastingAppend
      <3>2. Lasting # {} => LastingFound
        BY <1>0, <1>4, <2>2 DEF LastingJob, Spares
      <3>3. Lasting \subseteq FoundBy(r)
        BY <1>3, <3>2 DEF LastingFound
      <3> QED BY <1>6, <3>1, <3>3
    <2> QED BY <1>0, <2>1, <2>2 DEF TypeOK
  <1>10. LastingFound'
    <2>1. Fresh(registered)' /\ FoundBy(registered)' = FoundBy(r)
      BY <1>3, <1>7, <1>8 DEF Fresh, FoundBy
    <2> QED BY <1>3, <1>9, <2>1 DEF LastingFound
  <1>11. faults' = 0 => CorpusBetween'
    <2> SUFFICES ASSUME faults' = 0 PROVE CorpusBetween'
      OBVIOUS
    <2>1. HasCorpus(r)'
      BY <1>0, <1>2, <1>3, <1>7 DEF CorpusJob
    <2>2. HasCorpus(registered)'
      BY <1>3, <2>1 DEF HasCorpus, RowsOf
    <2> QED BY <2>2 DEF CorpusBetween
  <1> QED BY <1>0, <1>1, <1>10, <1>11, SerialStep

LEMMA SearchSerial ==
    ASSUME IndexInv, Serial, ~overlapped, NEW w \in Workers, Search(w)
    PROVE  Serial'
  <1>0. /\ job[w].pc = "search" /\ SerialJob(job[w]) /\ LastingJob(job[w]) /\ TypeOK
        /\ faults = 0 => CorpusJob(job[w])
        /\ job[w] \in Requests
        /\ job' = [job EXCEPT ![w] = Idle]
        /\ finished' = IF job[w].doc = "none" THEN finished ELSE Append(finished, job[w].doc)
    BY SerialOf, Active DEF Search, At, Done, Answered, IsQuery, IndexInv
  <1>1. job'[w].pc = "idle" /\ \A v \in Workers \ {w} : job'[v] = job[v]
    BY <1>0, SetIdle
  <1>2. UNCHANGED <<backend, uploaded, retrievers, registered, stores, faults>>
    BY DEF Search
  <1>3. LastingFound'
    <2>1. CASE job[w].doc = "none"
      <3>1. finished' = finished
        BY <1>0, <2>1
      <3>2. LastingFound
        BY <1>0, <2>1 DEF LastingJob, Spares, LastingFound
      <3> QED BY <1>2, <3>1, <3>2, FoundSame
    <2>2. CASE job[w].doc # "none"
      <3>1. job[w].doc = "evaluation"
        BY <1>0, <2>2 DEF LastingJob, Requests
      <3>2. Lasting' = {}
        BY <1>0, <1>2, <3>1, LastingAppend
      <3> QED BY <3>2 DEF LastingFound
    <2> QED BY <2>1, <2>2
  <1>4. faults' = 0 => CorpusBetween'
    <2>1. job[w].r = registered
      BY <1>0 DEF SerialJob
    <2> QED BY <1>0, <1>2, <2>1 DEF CorpusJob, CorpusBetween, HasCorpus, RowsOf
  <1> QED BY <1>0, <1>1, <1>3, <1>4, SerialStep

LEMMA BeginSerial ==
    ASSUME IndexInv, Serial, ~overlapped', NEW w \in Workers, NEW j \in Requests \cup {Idle},
           Begin(w, j), j # Idle => j.pc = "get",
           UNCHANGED <<backend, retrievers, registered, stores, faults>>,
           (j = Idle \/ Spares(j)) /\ Lasting' # {} /\ LastingFound => LastingFound'
    PROVE  Serial'
  <1>1. ~overlapped /\ \A v \in Workers : job[v].pc = "idle"
    BY DEF Begin, At, IndexInv, TypeOK
  <1>2. Quiet /\ LastingFound /\ (faults = 0 => CorpusBetween)
    BY <1>1 DEF Serial, Quiet, At
  <1>3. /\ job' \in Jobs /\ job'[w] = j /\ \A v \in Workers \ {w} : job'[v] = job[v]
    BY DEF IndexInv, TypeOK, Jobs, Begin
  <1>4. OneRequest' /\ \A v \in Workers \ {w} : job'[v].pc = "idle"
    BY <1>1, <1>3 DEF OneRequest
  <1>5. CorpusBetween' = CorpusBetween
    BY DEF CorpusBetween, HasCorpus, RowsOf
  <1>6. ASSUME NEW v \in Workers
        PROVE  SerialJob(job[v])' /\ LastingJob(job[v])' /\ (faults' = 0 => CorpusJob(job[v])')
    <2>1. CASE job'[v].pc = "idle"
      BY <2>1 DEF SerialJob, LastingJob, CorpusJob
    <2>2. CASE job'[v].pc # "idle"
      <3>1. v = w /\ job'[v] = j /\ j.pc = "get"
        BY <1>3, <1>4, <2>2 DEF Idle
      <3>2. SerialJob(job[v])'
        BY <3>1 DEF SerialJob
      <3>3. LastingJob(job[v])'
        <4>1. Spares(job[v])' <=> Spares(j)
          BY <3>1 DEF Spares
        <4> QED BY <1>2, <3>1, <4>1 DEF LastingJob
      <3>4. faults' = 0 => CorpusJob(job[v])'
        BY <1>2, <1>5, <3>1 DEF CorpusJob
      <3> QED BY <3>2, <3>3, <3>4
    <2> QED BY <2>1, <2>2
  <1>7. Quiet' => LastingFound'
    <2> SUFFICES ASSUME Quiet' PROVE LastingFound'
      OBVIOUS
    <2>1. j = Idle
      BY <1>3 DEF Quiet, At
    <2>2. CASE Lasting' = {}
      BY <2>2 DEF LastingFound
    <2> QED BY <1>2, <2>1, <2>2
  <1> QED BY <1>2, <1>4, <1>5, <1>6, <1>7 DEF Serial

LEMMA UploadSerial ==
    ASSUME IndexInv, Serial, ~overlapped', NEW w \in Workers, Upload(w)
    PROVE  Serial'
  <1>1. PICK d \in Docs :
          /\ Begin(w, IF d \in Textless THEN Idle ELSE Request(d))
          /\ finished' = IF d \in Textless THEN Append(finished, d) ELSE finished
    BY DEF Upload
  <1>2. UNCHANGED <<backend, retrievers, registered, stores, faults>>
    BY DEF Upload
  <1>3. backend \in {"memory", "neo4j"} /\ TypeOK
    BY DEF IndexInv, TypeOK
  <1>4. CASE d \in Textless
    <2>1. Lasting' # {} => backend = "neo4j" /\ Lasting' \subseteq Lasting
      BY <1>1, <1>2, <1>3, <1>4, LastingAppend
    <2>2. Lasting' # {} /\ LastingFound => LastingFound'
      BY <1>2, <2>1 DEF LastingFound, Fresh, FoundBy
    <2>3. Begin(w, Idle)
      BY <1>1, <1>4
    <2> QED BY <1>2, <2>2, <2>3, BeginSerial
  <1>5. CASE d \notin Textless
    <2>1. Lasting' = Lasting
      BY <1>1, <1>2, <1>5, LastingSame
    <2>2. Request(d) \in Requests /\ Request(d).pc = "get" /\ Request(d).doc = d
      BY RequestType
    <2>3. Request(d) # Idle
      BY <2>2 DEF Idle
    <2>4. Spares(Request(d)) /\ Lasting' # {} /\ LastingFound => LastingFound'
      BY <1>2, <2>1, <2>2, DocsAssumption DEF LastingFound, Fresh, FoundBy, Spares
    <2>5. Begin(w, Request(d))
      BY <1>1, <1>5
    <2> QED BY <1>2, <2>2, <2>3, <2>4, <2>5, BeginSerial
  <1> QED BY <1>4, <1>5

LEMMA QuerySerial ==
    ASSUME IndexInv, Serial, ~overlapped', NEW w \in Workers, Query(w) \/ Evaluate(w)
    PROVE  Serial'
  <1>1. PICK doc \in {"none", "evaluation"} : Begin(w, Request(doc))
    BY DEF Query, Evaluate
  <1>2. Request(doc) \in Requests /\ Request(doc).pc = "get"
    BY RequestType
  <1>3. UNCHANGED <<backend, uploaded, retrievers, registered, stores, finished, faults>>
    BY DEF Query, Evaluate
  <1>4. LastingFound => LastingFound'
    BY <1>3, FoundSame
  <1> QED BY <1>1, <1>2, <1>3, <1>4, BeginSerial

LEMMA SerialInit == Init => SerialInv
  <1> SUFFICES ASSUME Init PROVE Serial
    BY IndexInitInv DEF SerialInv
  <1>1. \A w \in Workers : job[w].pc = "idle"
    BY DEF Init, Idle
  <1>2. Lasting = {}
    BY DEF Init, Lasting
  <1> QED BY <1>1, <1>2 DEF Init, Serial, OneRequest, SerialJob, LastingJob, CorpusJob,
                             LastingFound, CorpusBetween

LEMMA SerialNext == SerialInv /\ [Next]_vars => SerialInv'
  <1> SUFFICES ASSUME IndexInv, Serial, [Next]_vars, ~overlapped' PROVE Serial'
    BY IndexNextInv DEF SerialInv, Serial
  <1>1. CASE UNCHANGED vars
    <2>1. UNCHANGED <<backend, uploaded, retrievers, registered, stores, job, finished, overlapped, faults>>
      BY <1>1 DEF vars
    <2> QED BY <2>1 DEF Serial, OneRequest, Quiet, At, SerialJob, LastingJob, CorpusJob, LastingFound,
               CorpusBetween, Lasting, Lasts, HasText, Fresh, FoundBy, RowsOf, HasCorpus, NodeCount, Spares
  <1>2. CASE Next
    <2>1. PICK w \in Workers : Upload(w) \/ Query(w) \/ Evaluate(w) \/ Serve(w)
      BY <1>2 DEF Next
    <2>2. CASE Upload(w) \/ Query(w) \/ Evaluate(w)
      BY <2>2, UploadSerial, QuerySerial
    <2>3. CASE Serve(w)
      <3>1. ~overlapped
        BY <2>3 DEF Serve, GetRetriever, Register, EnsureIndex, Scan, Replace, AppendIds,
           ReadMatrix, WriteMatrix, Count, IndexChunks, Settle, Search
      <3> QED BY <2>3, <3>1, GetRetrieverSerial, RegisterSerial, EnsureSerial, ScanSerial,
         ReplaceSerial, AppendSerial, ReadSerial, WriteSerial, CountSerial, ChunksSerial,
         SettleSerial, SearchSerial DEF Serve
    <2> QED BY <2>1, <2>2, <2>3
  <1> QED BY <1>1, <1>2

(* While no two requests ran at once, a query searches the corpus unless   *)
(* Neo4j failed to deliver it, and the document uploaded last - with Neo4j *)
(* every one since the index was built - is found (retrieval.py:108-117,   *)
(* ingestion.py:113-114).                                                  *)
THEOREM SearchComplete == Spec => []SearchIsComplete
  <1>1. SerialInv => SearchIsComplete
    <2> SUFFICES ASSUME IndexInv, Serial PROVE SearchIsComplete
      BY DEF SerialInv
    <2>1. CorpusIsSearched
      <3> SUFFICES ASSUME ~overlapped, faults = 0, NEW w \in Workers, job[w].pc = "search"
                   PROVE  Corpus \in FoundBy(job[w].r)
        BY DEF CorpusIsSearched, At
      <3>1. CorpusJob(job[w])
        BY SerialOf
      <3> QED BY <3>1 DEF CorpusJob, HasCorpus, RowsOf, FoundBy
    <2>2. LatestUploadFound
      <3> SUFFICES ASSUME Quiet, ~overlapped, NEW i \in DOMAIN finished, Lasts(i)
                   PROVE  finished[i] \in Found
        BY DEF LatestUploadFound, Lasts
      <3>1. finished[i] \in Lasting
        BY DEF Lasting
      <3>2. LastingFound
        BY DEF Serial
      <3> QED BY <3>1, <3>2 DEF LastingFound, Found
    <2> QED BY <2>1, <2>2 DEF SearchIsComplete
  <1>2. Spec => []SerialInv
    BY SerialInit, SerialNext, PTL DEF Spec
  <1> QED BY <1>1, <1>2, PTL

-----------------------------------------------------------------------------
(* ChunkText. The chunks of a text leave out no character and no short     *)
(* word, for every text, size of chunks and overlap.                       *)

(* A bounded set of places has a largest.                                  *)
LEMMA Largest ==
    ASSUME NEW S \in SUBSET Nat, S # {}, NEW top \in Nat, \A i \in S : i < top
    PROVE  Max(S) \in S /\ \A i \in S : i <= Max(S)
<1> DEFINE Gaps == {top - i : i \in S}
<1>1. Gaps \subseteq Nat /\ Gaps # {}
  <2>1. \A i \in S : top - i \in Nat
    OBVIOUS
  <2>2. QED
    BY <2>1
<1>2. PICK n \in Gaps : \A m \in Gaps : ~(<<m, n>> \in OpToRel(<, Nat))
  <2> HIDE DEF Gaps
  <2>1. QED
    BY <1>1, NatLessThanWellFounded, WFMin
<1>3. PICK x \in S : n = top - x
  OBVIOUS
<1>4. ASSUME NEW i \in S PROVE x >= i
  <2>1. top - i \in Gaps /\ top - i \in Nat /\ n \in Nat
    BY <1>1
  <2>2. ~(top - i < n)
    BY <1>2, <2>1 DEF OpToRel
  <2>3. QED
    BY <1>3, <2>2
<1>5. Max(S) \in S /\ \A i \in S : Max(S) >= i
  BY <1>4 DEF Max
<1>6. QED
  BY <1>5

(* A text has a length, and blanks at places of it.                        *)
LEMMA TextShape ==
    ASSUME NEW t \in Texts
    PROVE  t.length \in Nat \ {0} /\ t.blanks \subseteq Nat
<1>1. PICK n \in 1 .. MaxLength :
        t \in {[length |-> n, blanks |-> b] :
                  b \in {s \in SUBSET (1 .. n - 2) : \A i \in s : i + 1 \notin s}}
  BY DEF Texts
<1>2. PICK b \in SUBSET (1 .. n - 2) : t = [length |-> n, blanks |-> b]
  BY <1>1
<1>3. n \in Nat \ {0}
  BY SizesAssumption DEF SizesAssumption
<1>4. QED
  BY <1>2, <1>3

(* A chunk ends after its start and in the text; the next one starts after *)
(* it does, and leaves nothing out.                                        *)
LEMMA CutsAdvance ==
    ASSUME NEW t \in Texts, NEW s \in Nat, s < t.length
    PROVE  /\ t.length \in Nat /\ t.blanks \subseteq Nat
           /\ End(t, s) \in Nat /\ s < End(t, s) /\ End(t, s) <= t.length
           /\ NextStart(t, s) \in Nat /\ s < NextStart(t, s) /\ NextStart(t, s) <= End(t, s)
           /\ s + ChunkSize < t.length =>
                 IF Boundaries(t, s) = {} THEN End(t, s) = s + ChunkSize
                 ELSE End(t, s) \in t.blanks
<1>1. t.length \in Nat /\ t.blanks \subseteq Nat
  BY TextShape
<1>2. ChunkSize \in Nat /\ 0 < ChunkSize /\ ChunkOverlap \in Nat
  BY SizesAssumption DEF SizesAssumption
<1>3. CASE s + ChunkSize >= t.length
  <2>1. End(t, s) = t.length
    BY <1>3 DEF End
  <2>2. QED
    BY <1>1, <1>2, <1>3, <2>1 DEF NextStart
<1>4. CASE s + ChunkSize < t.length /\ Boundaries(t, s) = {}
  <2>1. End(t, s) = s + ChunkSize
    BY <1>1, <1>2, <1>4 DEF End
  <2>2. QED
    BY <1>1, <1>2, <1>4, <2>1 DEF NextStart
<1>5. CASE s + ChunkSize < t.length /\ Boundaries(t, s) # {}
  <2>1. End(t, s) = Max(Boundaries(t, s))
    BY <1>1, <1>2, <1>5 DEF End
  <2>2. Boundaries(t, s) \in SUBSET Nat /\ s + ChunkSize \in Nat
        /\ \A i \in Boundaries(t, s) : i < s + ChunkSize
    BY <1>1, <1>2 DEF Boundaries
  <2>3. End(t, s) \in Boundaries(t, s)
    BY <1>5, <2>1, <2>2, Largest
  <2>4. End(t, s) \in t.blanks /\ End(t, s) \in Nat /\ s < End(t, s) /\ End(t, s) < s + ChunkSize
    BY <2>2, <2>3 DEF Boundaries
  <2>5. QED
    BY <1>1, <1>2, <1>5, <2>4 DEF NextStart
<1>6. QED
  BY <1>1, <1>2, <1>3, <1>4, <1>5

(* A short word that starts in a chunk and does not end in it starts where *)
(* the next one does, or later.                                            *)
LEMMA ShortWordsFollow ==
    ASSUME NEW t \in Texts, NEW s \in Nat, s < t.length,
           NEW w \in Words(t), w[2] - w[1] < ChunkSize, s <= w[1], End(t, s) < w[2]
    PROVE  NextStart(t, s) <= w[1]
<1>1. /\ w[1] \in Nat /\ w[2] \in Nat /\ w[2] <= t.length
      /\ w[1] = 0 \/ w[1] - 1 \in t.blanks
      /\ \A i \in w[1] .. w[2] - 1 : i \notin t.blanks
  BY CutsAdvance DEF Words
<1>2. ChunkSize \in Nat /\ 0 < ChunkSize
  BY SizesAssumption DEF SizesAssumption
<1>3. s + ChunkSize < t.length
  <2>1. s + ChunkSize >= t.length => End(t, s) = t.length
    BY DEF End
  <2>2. QED
    BY <1>1, <1>2, <2>1, CutsAdvance
<1>4. CASE Boundaries(t, s) = {}
  <2>1. End(t, s) = s + ChunkSize
    BY <1>3, <1>4, CutsAdvance
  <2>2. w[1] > s
    BY <1>1, <1>2, <2>1
  <2>3. w[1] - 1 \in t.blanks /\ ~(s < w[1] - 1 /\ w[1] - 1 < s + ChunkSize)
    BY <1>1, <1>4, <2>2 DEF Boundaries
  <2>4. w[1] - 1 # s
    BY <1>1, <1>2, <2>1
  <2>5. End(t, s) < w[1]
    BY <1>1, <1>2, <2>1, <2>2, <2>3, <2>4
  <2>6. QED
    BY <1>1, <2>5, CutsAdvance
<1>5. CASE Boundaries(t, s) # {}
  <2>1. End(t, s) \in t.blanks /\ End(t, s) \in Nat
    BY <1>3, <1>5, CutsAdvance
  <2>2. ~(w[1] <= End(t, s))
    BY <1>1, <2>1
  <2>3. QED
    BY <1>1, <2>1, <2>2, CutsAdvance
<1>6. QED
  BY <1>4, <1>5

(* What a text is cut into from a place on contains the chunk at it, and   *)
(* what it is cut into from the next place on. The recursion is well       *)
(* defined: the chunks at all places that can be reached solve it.         *)
LEMMA ChunksExist ==
    ASSUME NEW t \in Texts
    PROVE  \E from :
              /\ ChunksOf(t) = from[0]
              /\ \A s \in 0 .. t.length - 1 :
                    /\ <<s, End(t, s)>> \in from[s]
                    /\ End(t, s) < t.length => from[NextStart(t, s)] \subseteq from[s]
<1> DEFINE D == 0 .. t.length + ChunkOverlap
           from[s \in D] ==
               {<<s, End(t, s)>>} \cup
               (IF End(t, s) >= t.length THEN {} ELSE from[NextStart(t, s)])
           Step(g) ==
               [s \in D |->
                   {<<s, End(t, s)>>} \cup
                   (IF End(t, s) >= t.length THEN {} ELSE g[NextStart(t, s)])]
           Closed(X) == \A r \in X : End(t, r) < t.length => NextStart(t, r) \in X
           Reach(s) == {r \in D : \A X \in SUBSET D : s \in X /\ Closed(X) => r \in X}
           f == [s \in D |-> {<<r, End(t, r)>> : r \in Reach(s)}]
<1>1. ChunksOf(t) = from[0]
  BY DEF ChunksOf
<1>2. from = CHOOSE g : g = Step(g)
  OBVIOUS
<1>3. t.length \in Nat \ {0} /\ ChunkOverlap \in Nat
  BY TextShape, SizesAssumption DEF SizesAssumption
<1>4. ASSUME NEW s \in D
      PROVE  IF s < t.length
             THEN End(t, s) \in Nat /\ End(t, s) <= t.length /\ NextStart(t, s) \in D
             ELSE End(t, s) = t.length
  <2>1. CASE s < t.length
    BY <1>3, <2>1, CutsAdvance
  <2>2. CASE ~(s < t.length)
    <3>1. s + ChunkSize >= t.length
      BY <1>3, <2>2, SizesAssumption DEF SizesAssumption
    <3>2. QED
      BY <2>2, <3>1 DEF End
  <2>3. QED
    BY <2>1, <2>2
<1> HIDE DEF D
<1>5. ASSUME NEW s \in D
      PROVE  Reach(s) = {s} \cup IF End(t, s) >= t.length THEN {} ELSE Reach(NextStart(t, s))
  <2> DEFINE n == NextStart(t, s)
  <2>1. CASE End(t, s) >= t.length
    <3>1. Closed({s}) /\ {s} \in SUBSET D
      BY <1>3, <1>4, <2>1
    <3>2. Reach(s) \subseteq {s}
      BY <3>1
    <3>3. s \in Reach(s)
      OBVIOUS
    <3>4. QED
      BY <2>1, <3>2, <3>3
  <2>2. CASE ~(End(t, s) >= t.length)
    <3>1. End(t, s) < t.length /\ n \in D
      BY <1>3, <1>4, <2>2
    <3>2. ASSUME NEW r \in Reach(n) PROVE r \in Reach(s)
      BY <3>1
    <3>3. ASSUME NEW r \in Reach(s), r # s PROVE r \in Reach(n)
      <4>1. SUFFICES ASSUME NEW X \in SUBSET D, n \in X, Closed(X) PROVE r \in X
        OBVIOUS
      <4>2. Closed(X \cup {s})
        BY <4>1
      <4>3. r \in X \cup {s}
        BY <4>2
      <4>4. QED
        BY <3>3, <4>3
    <3>4. s \in Reach(s)
      OBVIOUS
    <3>5. QED
      BY <2>2, <3>2, <3>3, <3>4
  <2>3. QED
    BY <2>1, <2>2
<1>6. f = Step(f)
  <2>1. ASSUME NEW s \in D PROVE f[s] = Step(f)[s]
    <3>1. CASE End(t, s) >= t.length
      <4>1. Reach(s) = {s}
        BY <1>5, <3>1
      <4> HIDE DEF Reach
      <4>2. QED
        BY <3>1, <4>1
    <3>2. CASE ~(End(t, s) >= t.length)
      <4>1. Reach(s) = {s} \cup Reach(NextStart(t, s)) /\ NextStart(t, s) \in D
        BY <1>3, <1>4, <1>5, <3>2
      <4> HIDE DEF Reach
      <4>2. f[NextStart(t, s)] = {<<r, End(t, r)>> : r \in Reach(NextStart(t, s))}
        BY <4>1
      <4>3. f[s] = {<<s, End(t, s)>>} \cup f[NextStart(t, s)]
        BY <4>1, <4>2
      <4>4. QED
        BY <3>2, <4>3
    <3>3. QED
      BY <3>1, <3>2
  <2> HIDE DEF Reach
  <2>2. QED
    BY <2>1
<1> HIDE DEF f, from
<1>7. from = Step(from)
  <2> HIDE DEF Step
  <2>1. QED
    BY <1>2, <1>6
<1>8. ASSUME NEW s \in 0 .. t.length - 1
      PROVE  /\ <<s, End(t, s)>> \in from[s]
             /\ End(t, s) < t.length => from[NextStart(t, s)] \subseteq from[s]
  <2>1. s \in D /\ End(t, s) \in Nat
    BY <1>3, CutsAdvance DEF D
  <2>2. from[s] = {<<s, End(t, s)>>} \cup
                  (IF End(t, s) >= t.length THEN {} ELSE from[NextStart(t, s)])
    <3>1. from[s] = Step(from)[s]
      BY <1>7
    <3>2. QED
      BY <2>1, <3>1
  <2>3. QED
    BY <1>3, <2>1, <2>2
<1>9. QED
  BY <1>1, <1>8

(* What is wrong at some places of a text is wrong at a last one.          *)
LEMMA LastPlace ==
    ASSUME NEW n \in Nat, NEW Wrong \in SUBSET (0 .. n - 1), Wrong # {}
    PROVE  \E s \in Wrong : \A r \in Wrong : r <= s
<1>1. Wrong \in SUBSET Nat /\ \A i \in Wrong : i < n
  OBVIOUS
<1>2. QED
  BY <1>1, Largest

(* The chunks skip no character, and keep every word shorter than a chunk  *)
(* in one piece: in the last place from which they did not, the chunk at   *)
(* that place or those from the next place on would do.                    *)
LEMMA TextKept ==
    ASSUME NEW t \in Texts
    PROVE  Covered(t) /\ WordsWhole(t)
<1>1. PICK from :
        /\ ChunksOf(t) = from[0]
        /\ \A s \in 0 .. t.length - 1 :
              /\ <<s, End(t, s)>> \in from[s]
              /\ End(t, s) < t.length => from[NextStart(t, s)] \subseteq from[s]
  BY ChunksExist
<1>2. t.length \in Nat \ {0} /\ 0 \in 0 .. t.length - 1
  BY TextShape
<1>3. ASSUME NEW s \in 0 .. t.length - 1
      PROVE  /\ End(t, s) \in Nat /\ s < End(t, s) /\ End(t, s) <= t.length
             /\ End(t, s) < t.length =>
                   /\ NextStart(t, s) \in 0 .. t.length - 1
                   /\ s < NextStart(t, s) /\ NextStart(t, s) <= End(t, s)
  BY <1>2, CutsAdvance
<1>4. Covered(t)
  <2>1. SUFFICES ASSUME NEW i \in 0 .. t.length - 1
                 PROVE  \E c \in from[0] : c[1] <= i /\ i < c[2]
    BY <1>1 DEF Covered
  <2> DEFINE Wrong == {s \in 0 .. i : ~\E c \in from[s] : c[1] <= i /\ i < c[2]}
  <2>2. SUFFICES ASSUME Wrong # {} PROVE FALSE
    BY <1>2
  <2>3. PICK s \in Wrong : \A r \in Wrong : r <= s
    <3>1. Wrong \in SUBSET (0 .. (i + 1) - 1) /\ i + 1 \in Nat
      OBVIOUS
    <3> HIDE DEF Wrong
    <3>2. QED
      BY <2>2, <3>1, LastPlace
  <2>4. s \in 0 .. t.length - 1 /\ s <= i /\ i \in Nat
    BY <1>2
  <2>5. <<s, End(t, s)>> \in from[s]
    BY <1>1, <2>4
  <2>6. End(t, s) <= i
    <3>1. ~(s <= i /\ i < End(t, s))
      BY <2>5
    <3>2. QED
      BY <1>3, <2>4, <3>1
  <2>7. /\ NextStart(t, s) \in 0 .. i /\ s < NextStart(t, s)
        /\ from[NextStart(t, s)] \subseteq from[s]
    <3>1. End(t, s) < t.length
      BY <1>2, <1>3, <2>4, <2>6
    <3>2. from[NextStart(t, s)] \subseteq from[s]
      BY <1>1, <2>4, <3>1
    <3>3. NextStart(t, s) \in 0 .. t.length - 1 /\ s < NextStart(t, s) /\ NextStart(t, s) <= End(t, s)
      BY <1>3, <2>4, <3>1
    <3>4. QED
      BY <3>2, <3>3, <1>3, <2>4, <2>6
  <2>8. NextStart(t, s) \in Wrong
    BY <2>7
  <2>9. NextStart(t, s) <= s
    BY <2>3, <2>8
  <2>10. QED
    BY <2>4, <2>7, <2>9
<1>5. WordsWhole(t)
  <2>1. SUFFICES ASSUME NEW w \in Words(t), w[2] - w[1] < ChunkSize
                 PROVE  \E c \in from[0] : c[1] <= w[1] /\ w[2] <= c[2]
    BY <1>1 DEF WordsWhole
  <2>2. w[1] \in 0 .. t.length - 1 /\ w[2] \in 1 .. t.length
    BY DEF Words
  <2> DEFINE Wrong == {s \in 0 .. w[1] : ~\E c \in from[s] : c[1] <= w[1] /\ w[2] <= c[2]}
  <2>3. SUFFICES ASSUME Wrong # {} PROVE FALSE
    BY <1>2, <2>2
  <2>4. PICK s \in Wrong : \A r \in Wrong : r <= s
    <3>1. Wrong \in SUBSET (0 .. (w[1] + 1) - 1) /\ w[1] + 1 \in Nat
      BY <2>2
    <3> HIDE DEF Wrong
    <3>2. QED
      BY <2>3, <3>1, LastPlace
  <2>5. s \in 0 .. t.length - 1 /\ s <= w[1] /\ s \in Nat /\ s < t.length
    BY <1>2, <2>2
  <2>6. <<s, End(t, s)>> \in from[s]
    BY <1>1, <2>5
  <2>7. End(t, s) < w[2]
    <3>1. ~(s <= w[1] /\ w[2] <= End(t, s))
      BY <2>6
    <3>2. QED
      BY <1>3, <2>2, <2>5, <3>1
  <2>8. NextStart(t, s) <= w[1]
    BY <2>1, <2>5, <2>7, ShortWordsFollow
  <2>9. /\ NextStart(t, s) \in 0 .. w[1] /\ s < NextStart(t, s)
        /\ from[NextStart(t, s)] \subseteq from[s]
    <3>1. End(t, s) < t.length
      BY <1>2, <1>3, <2>2, <2>5, <2>7
    <3>2. from[NextStart(t, s)] \subseteq from[s]
      BY <1>1, <2>5, <3>1
    <3>3. NextStart(t, s) \in 0 .. t.length - 1 /\ s < NextStart(t, s) /\ NextStart(t, s) <= End(t, s)
      BY <1>3, <2>5, <3>1
    <3>4. QED
      BY <3>2, <3>3, <1>3, <2>2, <2>5, <2>8
  <2>10. NextStart(t, s) \in Wrong
    BY <2>9
  <2>11. NextStart(t, s) <= s
    BY <2>4, <2>10
  <2>12. QED
    BY <2>5, <2>9, <2>11
<1>6. QED
  BY <1>4, <1>5

(* CutsKeepText: the chunks of a document leave out no character and no    *)
(* short word, for every text, size of chunks and overlap                  *)
(* (ingestion.py:42-59).                                                   *)
THEOREM TextsKept == Spec => []CutsKeepText
<1>1. CutsKeepText
  BY TextKept DEF CutsKeepText
<1>2. QED
  BY <1>1, PTL
=============================================================================
