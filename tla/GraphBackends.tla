---------------------------- MODULE GraphBackends ----------------------------
(***************************************************************************)
(* The knowledge graph in its two backends, side by side: GraphStore       *)
(* (app/services/graph_store.py), a dict of nodes and a list of edges that *)
(* one process fills at its start, and Neo4jStore                          *)
(* (app/services/neo4j_store.py), a database that several replicas fill    *)
(* statement by statement when they find it empty (app/api.py:69-84) and   *)
(* that scripts/seed_neo4j.py fills again on demand. Both take the same    *)
(* uploads, and both answer the questions of the client profile            *)
(* (app/agents/client_profiling.py) and of the retriever.                  *)
(*                                                                         *)
(* A node is its label and id; its other columns are read from the CSV row *)
(* it was made of, which never changes. Each Cypher statement commits on   *)
(* its own (session.run), so replicas interleave and stop between any two. *)
(***************************************************************************)
EXTENDS Integers, FiniteSets, Sequences, SequencesExt

CONSTANTS
    DataSets,          \* the data/ directories considered, see CsvData
    Clients, Documents, Excerpts, Policies, Regulations, Entities,
    Countries,
    Uploads,           \* contents uploaded while running, as document ids
    HighRisk,          \* entities in HIGH_RISK_COUNTRIES
    None,              \* an empty cell
    Pods, Script,      \* replicas, and a run of scripts/seed_neo4j.py
    MaxStarts, MaxStops, MaxUploads  \* bounds: starts, stops, uploads

(* clients.csv: country and pII_refs; documents.csv; evidence.csv: doc_id; *)
(* policies.csv: regulation_id; regulations.csv: jurisdiction;             *)
(* ownership.csv: client_id. A reference may lead nowhere.                 *)
CsvData ==
    [country: [Clients -> Countries], refs: [Clients -> SUBSET Documents],
     documents: SUBSET Documents, about: [Excerpts -> Documents],
     cites: [Policies -> Regulations \cup {None}],
     jurisdiction: [Regulations -> Countries \cup {"EU"}],
     ownedBy: [Entities -> Clients \cup {None}]]

ASSUME DataAssumption == DataSets \subseteq CsvData
ASSUME PodsAssumption == Script \notin Pods

(* An id shows what it is of: C123, D-0001, E-1, POL-.., REG-.., ENT-..;   *)
(* that of an upload has eight digits. There are rows to seed.             *)
Stranger == "stranger"
Kinds == <<Clients, Documents, Excerpts, Policies, Regulations, Entities, Uploads,
           {None, Stranger}>>
ASSUME IdsAssumption ==
    /\ \A i, j \in DOMAIN Kinds : i # j => Kinds[i] \cap Kinds[j] = {}
    /\ \A i \in DOMAIN Kinds : IsFiniteSet(Kinds[i])
    /\ Clients # {} /\ None # Stranger
ASSUME GraphBounds == MaxStarts \in Nat /\ MaxStops \in Nat /\ MaxUploads \in Nat

VARIABLES
    csv,        \* the data/ directory
    mem,        \* GraphStore: nodes, and relationships as a list
    neo,        \* the database: nodes and relationships
    seeder,     \* per replica and script: what it does, and the statement it is at
    index,      \* the retriever of each replica: built or not, and from which nodes
    completed,  \* history: some seeding reached its end
    early,      \* history: an upload came before its client's row, or an index before the data
    starts, stops, uploads

graphVars == <<csv, mem, neo, seeder, index, completed, early, starts, stops, uploads>>

Seeders == Pods \cup {Script}
Node(label, id) == <<label, id>>
Edge(from, type, to) == <<from, type, to>>
NoIndex == [built |-> FALSE, items |-> {}]
Labels == {"ClientProfile", "Document", "Evidence", "Policy", "Regulation", "Entity"}

-----------------------------------------------------------------------------
(* Seeding. *)

RowNodes ==
    <<{Node("ClientProfile", c) : c \in Clients},
      {Node("Document", d) : d \in csv.documents},
      {Node("Evidence", e) : e \in Excerpts},
      {Node("Policy", p) : p \in Policies},
      {Node("Regulation", r) : r \in Regulations},
      {Node("Entity", o) : o \in Entities}>>

Applies(r, c) == csv.jurisdiction[r] = csv.country[c] \/ csv.jurisdiction[r] = "EU"

(* The edges the rows ask for, per type, in the order they are made. *)
RowEdges ==
    <<{Edge(x[1], "CREATED_FROM", x[2]) : x \in
          {y \in Clients \X Documents : y[2] \in csv.refs[y[1]]}},
      {Edge(e, "SUPPORTS", csv.about[e]) : e \in Excerpts},
      {Edge(p, "CITES", csv.cites[p]) : p \in {q \in Policies : csv.cites[q] # None}},
      {Edge(o[2], "OWNED_BY", o[1]) : o \in
          {x \in Entities \X Clients : csv.ownedBy[x[1]] = x[2]}},
      {Edge(x[1], "APPLIES_TO", x[2]) : x \in
          {y \in Regulations \X Clients : Applies(y[1], y[2])}}>>

Ids(nodes) == {n[2] : n \in nodes}
AllRowNodes == UNION ToSet(RowNodes)

(* GraphStore._load_csv_rows and _build_relationships: an edge only if its *)
(* far end is a node, in a list. Their order never matters to a query, so  *)
(* that of one type is left to SetToSeq.                                   *)
LoadedEdges ==
    LET kept == [i \in 1 .. 5 |-> SetToSeq({e \in RowEdges[i] :
                    e[1] \in Ids(AllRowNodes) /\ e[3] \in Ids(AllRowNodes)})]
    IN  kept[1] \o kept[2] \o kept[3] \o kept[5] \o kept[4]

LoadedGraph == [nodes |-> AllRowNodes, relationships |-> LoadedEdges]

(* Neo4jStore.load_demo_data as the list of its statements: MERGE a node,  *)
(* or MATCH two nodes and MERGE an edge. That an entity and its edge take  *)
(* turns, row by row, and the hygiene of reviews before are left out.      *)
Statements ==
    LET rows(i) == SetToSeq(RowNodes[i])
        links(i) == SetToSeq(RowEdges[i])
    IN  rows(1) \o rows(2) \o rows(3) \o rows(4) \o rows(5)
        \o links(1) \o links(2) \o links(3) \o rows(6) \o links(4) \o links(5)

IsMerge(s) == Len(s) = 2

(* Mutant: an edge is made without looking for its ends. *)
AfterUnmatched(db, s) ==
    IF IsMerge(s) THEN [db EXCEPT !.nodes = @ \cup {s}]
    ELSE [db EXCEPT !.relationships = @ \cup {s}]

After(db, s) ==
    IF IsMerge(s) THEN [db EXCEPT !.nodes = @ \cup {s}]
    ELSE IF {s[1], s[3]} \subseteq Ids(db.nodes)
         THEN [db EXCEPT !.relationships = @ \cup {s}]
         ELSE db

Down == [does |-> "down", at |-> 0]
Checking == [does |-> "check", at |-> 0]
Seeding(i) == [does |-> "seed", at |-> i]
Up == [does |-> "up", at |-> 0]
Ended(s) == IF s = Script THEN Down ELSE Up

GraphInit ==
    /\ csv \in DataSets
    /\ mem = LoadedGraph
    /\ neo = [nodes |-> {}, relationships |-> {}]
    /\ seeder = [s \in Seeders |-> Down]
    /\ index = [p \in Pods |-> NoIndex]
    /\ completed = FALSE /\ early = FALSE
    /\ starts = 0 /\ stops = 0 /\ uploads = 0

Doing(s, what) == seeder[s].does = what
Goes(s, next) == seeder' = [seeder EXCEPT ![s] = next]
HasClients == \E c \in Clients : Node("ClientProfile", c) \in neo.nodes

(* The module of the API is imported, or the script is run. *)
Start(s) ==
    /\ Doing(s, "down")
    /\ starts < MaxStarts
    /\ starts' = starts + 1
    /\ Goes(s, IF s = Script THEN Seeding(1) ELSE Checking)
    /\ UNCHANGED <<csv, mem, neo, index, completed, early, stops, uploads>>

(* Only an empty graph is seeded: list_clients(limit=1). *)
CheckEmpty(p) ==
    /\ Doing(p, "check")
    /\ Goes(p, IF HasClients THEN Up ELSE Seeding(1))
    /\ UNCHANGED <<csv, mem, neo, index, completed, early, starts, stops, uploads>>

(* The next statement of load_demo_data; after the last the replica serves *)
(* and the script ends.                                                    *)
Seed(s) ==
    /\ Doing(s, "seed")
    /\ neo' = After(neo, Statements[seeder[s].at])
    /\ LET last == seeder[s].at = Len(Statements)
       IN  /\ Goes(s, IF last THEN Ended(s) ELSE Seeding(seeder[s].at + 1))
           /\ completed' = (completed \/ last)
    /\ UNCHANGED <<csv, mem, index, early, starts, stops, uploads>>

(* A statement raises: a replica serves all the same ("best-effort seed"), *)
(* the script prints and ends.                                             *)
SeedFails(s) ==
    /\ Doing(s, "check") \/ Doing(s, "seed")
    /\ stops < MaxStops
    /\ stops' = stops + 1
    /\ Goes(s, Ended(s))
    /\ UNCHANGED <<csv, mem, neo, index, completed, early, starts, uploads>>

(* A replica is killed, wherever it is, and loses its retriever. *)
Stop(p) ==
    /\ ~Doing(p, "down")
    /\ stops < MaxStops
    /\ stops' = stops + 1
    /\ Goes(p, Down)
    /\ index' = [index EXCEPT ![p] = NoIndex]
    /\ UNCHANGED <<csv, mem, neo, completed, early, starts, uploads>>

-----------------------------------------------------------------------------
(* Uploads and the retriever. *)

(* ingest_document reaches add_document of both stores, for any client and *)
(* any evidence named in the metadata. The dict and the list take them as  *)
(* they come; Cypher matches the client and the evidence first.            *)
AddDocument(d, c, e) ==
    LET ofClient == IF c = None THEN <<>> ELSE <<Edge(c, "CREATED_FROM", d)>>
        supports == IF e = None THEN <<>> ELSE <<Edge(e, "SUPPORTS", d)>>
    IN  /\ mem' = [nodes |-> mem.nodes \cup {Node("Document", d)},
                   relationships |-> mem.relationships \o ofClient \o supports]
        /\ LET withDocument == After(neo, Node("Document", d))
               withClient == IF c = None THEN withDocument
                             ELSE After(withDocument, Edge(c, "CREATED_FROM", d))
           IN  neo' = IF e = None THEN withClient ELSE After(withClient, Edge(e, "SUPPORTS", d))

Upload ==
    /\ uploads < MaxUploads
    /\ uploads' = uploads + 1
    /\ \E p \in Pods : Doing(p, "up")
    /\ \E d \in Uploads, c \in Clients \cup {None, Stranger}, e \in Excerpts \cup {None} :
          /\ AddDocument(d, c, e)
          /\ early' = (early \/ ({c, e} \cap Ids(AllRowNodes)) \ Ids(neo.nodes) # {})
    /\ UNCHANGED <<csv, seeder, index, completed, starts, stops>>

(* Documents have no column _node_text or retrieval_corpus would read.     *)
WithText == {"Policy", "Regulation", "Evidence"}
Corpus(nodes) == {n \in nodes : n[1] \in WithText}

(* The first question to a replica: _ensure_index reads retrieval_corpus   *)
(* once and for all.                                                       *)
BuildIndex(p) ==
    /\ Doing(p, "up")
    /\ ~index[p].built
    /\ index' = [index EXCEPT ![p] = [built |-> TRUE, items |-> Corpus(neo.nodes)]]
    /\ early' = (early \/ ~completed)
    /\ UNCHANGED <<csv, mem, neo, seeder, completed, starts, stops, uploads>>

GraphNext ==
    \/ \E s \in Seeders : Start(s) \/ Seed(s) \/ SeedFails(s)
    \/ \E p \in Pods : CheckEmpty(p) \/ Stop(p) \/ BuildIndex(p)
    \/ Upload

GraphSpec == GraphInit /\ [][GraphNext]_graphVars

-----------------------------------------------------------------------------
(* What the two stores answer. In memory a far end may be missing, and is  *)
(* skipped when the edge is read.                                          *)

MemIds == Ids(mem.nodes)
MemEdges == ToSet(mem.relationships)
MemFrom(x, type) == {e[3] : e \in {f \in MemEdges : f[1] = x /\ f[2] = type}}
MemTo(type, x) == {e[1] : e \in {f \in MemEdges : f[3] = x /\ f[2] = type}}
NeoFrom(x, type) == {e[3] : e \in {f \in neo.relationships : f[1] = x /\ f[2] = type}}
NeoTo(type, x) == {e[1] : e \in {f \in neo.relationships : f[3] = x /\ f[2] = type}}

(* get_related_documents, get_evidence, get_related_policies,              *)
(* get_ownership, get_regulations_by_jurisdiction of GraphStore            *)
MemDocuments(c) == MemFrom(c, "CREATED_FROM") \cap MemIds
MemEvidence(d) == {e \in Excerpts : Node("Evidence", e) \in mem.nodes /\ csv.about[e] = d}
MemPolicies(c) == (UNION {MemTo("CITES", r) : r \in MemTo("APPLIES_TO", c)}) \cap MemIds
MemOwners(c) == MemFrom(c, "OWNED_BY") \cap MemIds
MemRegulations(j) ==
    {r \in Regulations : Node("Regulation", r) \in mem.nodes /\ csv.jurisdiction[r] \in {j, "EU"}}

(* ... and of Neo4jStore *)
NeoDocuments(c) == NeoFrom(c, "CREATED_FROM")
NeoEvidence(d) == {e \in Excerpts : Node("Evidence", e) \in neo.nodes /\ csv.about[e] = d}
NeoPolicies(c) == UNION {NeoTo("CITES", r) : r \in NeoTo("APPLIES_TO", c)}
NeoOwners(c) == NeoFrom(c, "OWNED_BY")
NeoRegulations(j) ==
    {r \in Regulations : Node("Regulation", r) \in neo.nodes /\ csv.jurisdiction[r] \in {j, "EU"}}

(* The client profile over either store (client_profiling.py:42-61, 103-   *)
(* 154); its lists are compared as sets.                                   *)
Profile(documents, evidence, policies, regulations, owners) ==
    [documents |-> documents, evidence |-> UNION {evidence[d] : d \in documents},
     policies |-> policies, regulations |-> regulations, owners |-> owners,
     highRisk |-> owners \cap HighRisk # {}]

MemProfile(c) ==
    Profile(MemDocuments(c), [d \in MemDocuments(c) |-> MemEvidence(d)], MemPolicies(c),
            MemRegulations(csv.country[c]), MemOwners(c))
NeoProfile(c) ==
    Profile(NeoDocuments(c), [d \in NeoDocuments(c) |-> NeoEvidence(d)], NeoPolicies(c),
            NeoRegulations(csv.country[c]), NeoOwners(c))

(* graph_neighbors: the ends of the edges at x that have a text. In Cypher *)
(* x is looked for in every id column, so evidence about x and policies    *)
(* citing x stand for it too.                                              *)
OtherEnds(edges, x) ==
    {e[3] : e \in {f \in edges : f[1] = x}} \cup {e[1] : e \in {f \in edges : f[3] = x}}
Texts(nodes) == Ids(Corpus(nodes))
Aliases(x) ==
    {x} \cup {e \in Excerpts : csv.about[e] = x} \cup {p \in Policies : csv.cites[p] = x}

MemNeighbours(x) == OtherEnds(MemEdges, x) \cap Texts(mem.nodes)
NeoNeighbours(x) ==
    (UNION {OtherEnds(neo.relationships, y) : y \in Aliases(x)}) \cap Texts(neo.nodes)

(* _graph_augment leaves out what was already cited, x first of all *)
Augmented(neighbours, x) == neighbours \ {x}

-----------------------------------------------------------------------------
(* Properties. *)

GraphTypeOK ==
    /\ csv \in CsvData
    /\ mem.nodes \in SUBSET (Labels \X (Ids(AllRowNodes) \cup Uploads))
    /\ neo.nodes \in SUBSET (Labels \X (Ids(AllRowNodes) \cup Uploads))
    /\ seeder \in [Seeders -> {Down, Checking, Up} \cup {Seeding(i) : i \in 1 .. Len(Statements)}]
    /\ \A p \in Pods : index[p].items \subseteq Corpus(neo.nodes)
    /\ starts \in 0 .. MaxStarts /\ stops \in 0 .. MaxStops /\ uploads \in 0 .. MaxUploads

(* Safety: "so both backends behave identically" (graph_store.py:44-45):   *)
(* once some seeding has reached its end, and whatever replicas and        *)
(* scripts seed again, stop half way or are killed, every client has the   *)
(* same profile on Neo4j as in memory, every hit has the same graph        *)
(* neighbours, and every index is whole; unless a replica that found the   *)
(* first client row of a seeding under way already served.                 *)
BackendsAgree ==
    completed /\ ~early =>
        /\ \A c \in Clients : NeoProfile(c) = MemProfile(c)
        /\ \A x \in Policies \cup Regulations \cup Excerpts :
              Augmented(NeoNeighbours(x), x) = Augmented(MemNeighbours(x), x)
        /\ \A p \in Pods : index[p].built => index[p].items = Corpus(mem.nodes)

=============================================================================
