---------------------------- MODULE Stores_proofs -----------------------------
(***************************************************************************)
(* Theorems about what is kept beside the reviews and applications: the    *)
(* knowledge graph, the portal accounts, the evaluation trend and the      *)
(* search index, each for any value of its constants.                      *)
(***************************************************************************)
EXTENDS MCStores, SequenceTheorems, FiniteSetTheorems, WellFoundedInduction, TLAPS

LEMMA Members ==
    ASSUME NEW S, NEW s \in Seq(S)
    PROVE  /\ Len(s) \in Nat /\ DOMAIN s = 1 .. Len(s)
           /\ ToSet(s) \subseteq S /\ \A i \in 1 .. Len(s) : s[i] \in ToSet(s) /\ s[i] \in S
           /\ \A x \in ToSet(s) : \E i \in 1 .. Len(s) : x = s[i]
  <1>1. Len(s) \in Nat /\ DOMAIN s = 1 .. Len(s) /\ \A i \in 1 .. Len(s) : s[i] \in S
    OBVIOUS
  <1> QED BY <1>1 DEF ToSet

LEMMA Appends ==
    ASSUME NEW S, NEW s \in Seq(S), NEW e \in S
    PROVE  /\ Append(s, e) \in Seq(S) /\ Len(Append(s, e)) = Len(s) + 1
           /\ \A i \in 1 .. Len(s) : Append(s, e)[i] = s[i]
           /\ Append(s, e)[Len(s) + 1] = e
  OBVIOUS

(* A set of numbers up to n that is not empty has a greatest one.          *)
LEMMA Greatest ==
    ASSUME NEW n \in Nat, NEW S \in SUBSET (0 .. n), S # {}
    PROVE  \E m \in S : \A o \in S : o <= m
  <1> DEFINE T == {i \in Nat : n - i \in S}
  <1>1. T # {} /\ T \subseteq Nat
    <2>1. PICK s \in S : s \in 0 .. n
      OBVIOUS
    <2>2. n - s \in Nat /\ n - (n - s) = s
      BY <2>1
    <2> QED BY <2>1, <2>2
  <1>2. PICK i \in T : \A j \in T : ~(<<j, i>> \in OpToRel(<, Nat))
    BY <1>1, NatLessThanWellFounded, WFMin
  <1>3. \A j \in T : ~(j < i)
    BY <1>1, <1>2 DEF OpToRel
  <1>4. n - i \in S /\ i \in Nat
    OBVIOUS
  <1>5. ASSUME NEW o \in S PROVE o <= n - i
    <2>1. n - o \in Nat /\ n - (n - o) = o
      OBVIOUS
    <2>2. n - o \in T
      BY <2>1
    <2>3. ~(n - o < i)
      BY <1>3, <2>2
    <2> QED BY <1>4, <2>1, <2>3
  <1> QED BY <1>4, <1>5

-----------------------------------------------------------------------------
(* GraphBackends. Both graphs answer alike once a seeding has ended.       *)

(* The ids of the rows; uploaded documents; the edges the rows ask for,    *)
(* those that both ends of exist, and those an upload asks for.            *)
RowIds == Ids(AllRowNodes)
Uploaded == {Node("Document", u) : u \in Uploads}
AllRowEdges == UNION ToSet(RowEdges)
RowsMeet(s) == s[1] \in RowIds /\ s[3] \in RowIds
KeptEdges == {e \in AllRowEdges : RowsMeet(e)}
UploadEdges ==
    {Edge(x[1], "CREATED_FROM", x[2]) : x \in (Clients \cup {Stranger}) \X Uploads}
    \cup {Edge(x[1], "SUPPORTS", x[2]) : x \in Excerpts \X Uploads}

(* What the statements before the n-th left in the database.               *)
Done(db, s) == IF IsMerge(s) THEN s \in db.nodes ELSE RowsMeet(s) => s \in db.relationships
DoneBefore(db, n) == \A i \in 1 .. Len(Statements) : i < n => Done(db, Statements[i])

(* The two graphs: the database holds no more than the memory, and after   *)
(* uploads that were not early lacks edges of unknown clients only.        *)
Graphs ==
    /\ mem = [nodes |-> mem.nodes, relationships |-> mem.relationships]
    /\ neo = [nodes |-> neo.nodes, relationships |-> neo.relationships]
    /\ AllRowNodes \subseteq mem.nodes /\ mem.nodes \subseteq AllRowNodes \cup Uploaded
    /\ neo.nodes \subseteq mem.nodes /\ mem.nodes \cap Uploaded \subseteq neo.nodes
    /\ mem.relationships \in Seq(AllRowEdges \cup UploadEdges)
    /\ KeptEdges \subseteq MemEdges /\ MemEdges \subseteq KeptEdges \cup UploadEdges
    /\ neo.relationships \subseteq MemEdges
    /\ \A e \in neo.relationships : {e[1], e[3]} \subseteq Ids(neo.nodes)
    /\ ~early => \A e \in MemEdges \cap UploadEdges : e[1] # Stranger => e \in neo.relationships

(* A seeding has done the statements behind it, as nothing is taken out.   *)
Seeded ==
    /\ \A s \in Seeders : Doing(s, "seed") =>
          seeder[s].at \in 1 .. Len(Statements) /\ DoneBefore(neo, seeder[s].at)
    /\ completed => DoneBefore(neo, Len(Statements) + 1)

(* An index holds texts of the database, those of all rows in time.        *)
Indexed ==
    \A p \in Pods :
        /\ index[p].items \subseteq Corpus(neo.nodes)
        /\ ~early /\ index[p].built => index[p].items = Corpus(AllRowNodes)

GraphInv ==
    /\ csv \in DataSets
    /\ completed \in BOOLEAN /\ early \in BOOLEAN
    /\ index \in [Pods -> [built : BOOLEAN, items : SUBSET (Labels \X (RowIds \cup Uploads))]]
    /\ seeder \in [Seeders -> {Down, Checking, Up} \cup {Seeding(i) : i \in 1 .. Len(Statements)}]
    /\ starts \in 0 .. MaxStarts /\ stops \in 0 .. MaxStops /\ uploads \in 0 .. MaxUploads
    /\ Graphs /\ Seeded /\ Indexed

LEMMA SameRows ==
    ASSUME csv' = csv
    PROVE  RowNodes' = RowNodes /\ RowEdges' = RowEdges
  BY DEF RowNodes, RowEdges, Applies

LEMMA SameData ==
    ASSUME csv' = csv
    PROVE  /\ AllRowNodes' = AllRowNodes /\ AllRowEdges' = AllRowEdges
           /\ Statements' = Statements /\ RowIds' = RowIds
           /\ KeptEdges' = KeptEdges
  <1>1. RowNodes' = RowNodes /\ RowEdges' = RowEdges
    BY SameRows
  <1>2. AllRowNodes' = AllRowNodes /\ AllRowEdges' = AllRowEdges
    BY <1>1 DEF AllRowNodes, AllRowEdges
  <1>3. Statements' = Statements
    BY <1>1 DEF Statements
  <1>4. RowIds' = RowIds
    BY <1>2 DEF RowIds
  <1>5. KeptEdges' = KeptEdges
    BY <1>2, <1>4 DEF KeptEdges, RowsMeet
  <1> QED BY <1>2, <1>3, <1>4, <1>5

(* A finite set as a sequence has its elements and no others.              *)
LEMMA Listed ==
    ASSUME NEW S, IsFiniteSet(S)
    PROVE  SetToSeq(S) \in Seq(S) /\ ToSet(SetToSeq(S)) = S
  <1>1. PICK n \in Nat : ExistsBijection(1 .. n, S)
    BY FS_NatBijection
  <1>2. n = Cardinality(S)
    BY <1>1, FS_CountingElements
  <1>3. PICK g \in Bijection(1 .. Cardinality(S), S) : TRUE
    BY <1>1, <1>2 DEF ExistsBijection
  <1>4. g \in [1 .. Cardinality(S) -> S] /\ IsInjective(g)
    BY <1>3 DEF Bijection, Injection, IsInjective, Surjection
  <1>5. SetToSeq(S) \in [1 .. Cardinality(S) -> S] /\ IsInjective(SetToSeq(S))
    BY <1>4 DEF SetToSeq
  <1>a. PICK f : f = SetToSeq(S)
    OBVIOUS
  <1>6. f \in Seq(S)
    BY <1>1, <1>2, <1>5, <1>a
  <1>7. DOMAIN f = 1 .. Cardinality(S) /\ ToSet(f) \subseteq S
    BY <1>5, <1>a DEF ToSet
  <1>8. f \in Injection(1 .. Cardinality(S), ToSet(f))
    BY <1>5, <1>7, <1>a DEF Injection, IsInjective, ToSet
  <1>9. f \in Bijection(1 .. Cardinality(S), ToSet(f))
    <2>1. f \in [1 .. Cardinality(S) -> ToSet(f)]
      BY <1>8 DEF Injection
    <2>2. \A t \in ToSet(f) : \E i \in 1 .. Cardinality(S) : f[i] = t
      BY <1>7 DEF ToSet
    <2>3. f \in Surjection(1 .. Cardinality(S), ToSet(f))
      BY <2>1, <2>2 DEF Surjection
    <2> QED BY <1>8, <2>3 DEF Bijection
  <1>10. Cardinality(ToSet(f)) = Cardinality(S)
    <2>1. ExistsBijection(1 .. Cardinality(S), ToSet(f))
      BY <1>9 DEF ExistsBijection
    <2> QED BY <2>1, <1>1, <1>2, FS_CountingElements
  <1>11. ToSet(f) = S
    BY <1>7, <1>10, FS_Subset
  <1> QED BY <1>6, <1>11, <1>a

(* What the rows are, and that there are finitely many.                    *)
LEMMA OneKind ==
    ASSUME NEW x
    PROVE  /\ x \in Clients =>
              /\ x \notin Documents /\ x \notin Excerpts /\ x \notin Policies
              /\ x \notin Regulations /\ x \notin Entities /\ x \notin Uploads
              /\ x # None /\ x # Stranger
           /\ x \in Documents =>
              /\ x \notin Clients /\ x \notin Excerpts /\ x \notin Policies
              /\ x \notin Regulations /\ x \notin Entities /\ x \notin Uploads
              /\ x # None /\ x # Stranger
           /\ x \in Excerpts =>
              /\ x \notin Clients /\ x \notin Documents /\ x \notin Policies
              /\ x \notin Regulations /\ x \notin Entities /\ x \notin Uploads
              /\ x # None /\ x # Stranger
           /\ x \in Policies =>
              /\ x \notin Clients /\ x \notin Documents /\ x \notin Excerpts
              /\ x \notin Regulations /\ x \notin Entities /\ x \notin Uploads
              /\ x # None /\ x # Stranger
           /\ x \in Regulations =>
              /\ x \notin Clients /\ x \notin Documents /\ x \notin Excerpts
              /\ x \notin Policies /\ x \notin Entities /\ x \notin Uploads
              /\ x # None /\ x # Stranger
           /\ x \in Entities =>
              /\ x \notin Clients /\ x \notin Documents /\ x \notin Excerpts
              /\ x \notin Policies /\ x \notin Regulations /\ x \notin Uploads
              /\ x # None /\ x # Stranger
           /\ x \in Uploads =>
              /\ x \notin Clients /\ x \notin Documents /\ x \notin Excerpts
              /\ x \notin Policies /\ x \notin Regulations /\ x \notin Entities
              /\ x # None /\ x # Stranger
  <1>1. \A i, j \in DOMAIN Kinds : i # j => Kinds[i] \cap Kinds[j] = {}
    BY IdsAssumption
  <1>2. DOMAIN Kinds = 1 .. 8
    BY DEF Kinds
  <1>3. ASSUME NEW i \in 1 .. 8, NEW j \in 1 .. 8, i # j, x \in Kinds[i] PROVE x \notin Kinds[j]
    <2>1. Kinds[i] \cap Kinds[j] = {}
      BY <1>1, <1>2, <1>3
    <2> QED BY <2>1, <1>3
  <1>4. /\ Kinds[1] = Clients /\ Kinds[2] = Documents /\ Kinds[3] = Excerpts /\ Kinds[4] = Policies
        /\ Kinds[5] = Regulations /\ Kinds[6] = Entities /\ Kinds[7] = Uploads
        /\ (x = None \/ x = Stranger => x \in Kinds[8])
    BY DEF Kinds
  <1>5. x \in Clients =>
              /\ x \notin Documents /\ x \notin Excerpts /\ x \notin Policies
              /\ x \notin Regulations /\ x \notin Entities /\ x \notin Uploads
              /\ x # None /\ x # Stranger
    BY <1>3, <1>4
  <1>6. x \in Documents =>
              /\ x \notin Clients /\ x \notin Excerpts /\ x \notin Policies
              /\ x \notin Regulations /\ x \notin Entities /\ x \notin Uploads
              /\ x # None /\ x # Stranger
    BY <1>3, <1>4
  <1>7. x \in Excerpts =>
              /\ x \notin Clients /\ x \notin Documents /\ x \notin Policies
              /\ x \notin Regulations /\ x \notin Entities /\ x \notin Uploads
              /\ x # None /\ x # Stranger
    BY <1>3, <1>4
  <1>8. x \in Policies =>
              /\ x \notin Clients /\ x \notin Documents /\ x \notin Excerpts
              /\ x \notin Regulations /\ x \notin Entities /\ x \notin Uploads
              /\ x # None /\ x # Stranger
    BY <1>3, <1>4
  <1>9. x \in Regulations =>
              /\ x \notin Clients /\ x \notin Documents /\ x \notin Excerpts
              /\ x \notin Policies /\ x \notin Entities /\ x \notin Uploads
              /\ x # None /\ x # Stranger
    BY <1>3, <1>4
  <1>10. x \in Entities =>
              /\ x \notin Clients /\ x \notin Documents /\ x \notin Excerpts
              /\ x \notin Policies /\ x \notin Regulations /\ x \notin Uploads
              /\ x # None /\ x # Stranger
    BY <1>3, <1>4
  <1>11. x \in Uploads =>
              /\ x \notin Clients /\ x \notin Documents /\ x \notin Excerpts
              /\ x \notin Policies /\ x \notin Regulations /\ x \notin Entities
              /\ x # None /\ x # Stranger
    BY <1>3, <1>4
  <1> QED BY <1>5, <1>6, <1>7, <1>8, <1>9, <1>10, <1>11

LEMMA FiniteKinds ==
    /\ IsFiniteSet(Clients) /\ IsFiniteSet(Documents) /\ IsFiniteSet(Excerpts)
    /\ IsFiniteSet(Policies) /\ IsFiniteSet(Regulations) /\ IsFiniteSet(Entities)
  <1>1. /\ DOMAIN Kinds = 1 .. 8
        /\ Kinds[1] = Clients /\ Kinds[2] = Documents /\ Kinds[3] = Excerpts /\ Kinds[4] = Policies
        /\ Kinds[5] = Regulations /\ Kinds[6] = Entities
    BY DEF Kinds
  <1>2. \A i \in 1 .. 8 : IsFiniteSet(Kinds[i])
    BY <1>1, IdsAssumption
  <1> QED BY <1>1, <1>2

LEMMA NodeSets ==
    /\ DOMAIN RowNodes = 1 .. 6
    /\ RowNodes[1] = {Node("ClientProfile", c) : c \in Clients}
    /\ RowNodes[2] = {Node("Document", d) : d \in csv.documents}
    /\ RowNodes[3] = {Node("Evidence", e) : e \in Excerpts}
    /\ RowNodes[4] = {Node("Policy", p) : p \in Policies}
    /\ RowNodes[5] = {Node("Regulation", r) : r \in Regulations}
    /\ RowNodes[6] = {Node("Entity", o) : o \in Entities}
  BY DEF RowNodes

LEMMA EdgeSets ==
    /\ DOMAIN RowEdges = 1 .. 5
    /\ RowEdges[1] = {Edge(x[1], "CREATED_FROM", x[2]) :
                          x \in {y \in Clients \X Documents : y[2] \in csv.refs[y[1]]}}
    /\ RowEdges[2] = {Edge(e, "SUPPORTS", csv.about[e]) : e \in Excerpts}
    /\ RowEdges[3] = {Edge(p, "CITES", csv.cites[p]) : p \in {q \in Policies : csv.cites[q] # None}}
    /\ RowEdges[4] = {Edge(o[2], "OWNED_BY", o[1]) :
                          o \in {x \in Entities \X Clients : csv.ownedBy[x[1]] = x[2]}}
    /\ RowEdges[5] = {Edge(x[1], "APPLIES_TO", x[2]) :
                          x \in {y \in Regulations \X Clients : Applies(y[1], y[2])}}
  BY DEF RowEdges

LEMMA AllRows ==
    /\ AllRowNodes = RowNodes[1] \cup RowNodes[2] \cup RowNodes[3] \cup RowNodes[4]
                     \cup RowNodes[5] \cup RowNodes[6]
    /\ AllRowEdges = RowEdges[1] \cup RowEdges[2] \cup RowEdges[3] \cup RowEdges[4] \cup RowEdges[5]
  <1>1. ToSet(RowNodes) = {RowNodes[1], RowNodes[2], RowNodes[3], RowNodes[4], RowNodes[5], RowNodes[6]}
    <2>1. 1 .. 6 = {1, 2, 3, 4, 5, 6}
      OBVIOUS
    <2> QED BY <2>1, NodeSets DEF ToSet
  <1>2. ToSet(RowEdges) = {RowEdges[1], RowEdges[2], RowEdges[3], RowEdges[4], RowEdges[5]}
    <2>1. 1 .. 5 = {1, 2, 3, 4, 5}
      OBVIOUS
    <2> QED BY <2>1, EdgeSets DEF ToSet
  <1> QED BY <1>1, <1>2 DEF AllRowNodes, AllRowEdges

LEMMA IdsOfNodes ==
    ASSUME NEW l, NEW S
    PROVE  Ids({Node(l, x) : x \in S}) = S
  <1>1. ASSUME NEW y \in S PROVE y \in Ids({Node(l, x) : x \in S})
    <2>1. Node(l, y) \in {Node(l, x) : x \in S} /\ Node(l, y)[2] = y
      BY DEF Node
    <2> QED BY <2>1 DEF Ids
  <1>2. ASSUME NEW y \in Ids({Node(l, x) : x \in S}) PROVE y \in S
    <2>1. PICK n \in {Node(l, x) : x \in S} : y = n[2]
      BY DEF Ids
    <2> QED BY <2>1 DEF Node
  <1> QED BY <1>1, <1>2

LEMMA RowIdsAre ==
    RowIds = Clients \cup csv.documents \cup Excerpts \cup Policies \cup Regulations \cup Entities
  <1>2. /\ Ids(RowNodes[1]) = Clients /\ Ids(RowNodes[2]) = csv.documents
        /\ Ids(RowNodes[3]) = Excerpts /\ Ids(RowNodes[4]) = Policies
        /\ Ids(RowNodes[5]) = Regulations /\ Ids(RowNodes[6]) = Entities
    BY IdsOfNodes, NodeSets
  <1>3. Ids(AllRowNodes) = Ids(RowNodes[1]) \cup Ids(RowNodes[2]) \cup Ids(RowNodes[3])
                           \cup Ids(RowNodes[4]) \cup Ids(RowNodes[5]) \cup Ids(RowNodes[6])
    BY AllRows DEF Ids
  <1> QED BY <1>2, <1>3 DEF RowIds

LEMMA DataTypes ==
    ASSUME csv \in DataSets
    PROVE  /\ csv \in CsvData /\ csv.documents \in SUBSET Documents
           /\ \A e \in Excerpts : csv.about[e] \in Documents
           /\ \A p \in Policies : csv.cites[p] \in Regulations \cup {None}
  BY DataAssumption DEF CsvData

(* The edges by their types.                                               *)
EdgeOfKind(e) ==
    \/ /\ e[2] = "CREATED_FROM" /\ e[1] \in Clients \cup {Stranger}
       /\ e[3] \in Documents \cup Uploads
    \/ /\ e[2] = "SUPPORTS" /\ e[1] \in Excerpts /\ e[3] \in Documents \cup Uploads
    \/ /\ e[2] = "CITES" /\ e[1] \in Policies /\ e[3] \in Regulations /\ e[3] = csv.cites[e[1]]
    \/ e[2] = "OWNED_BY" /\ e[1] \in Clients /\ e[3] \in Entities
    \/ e[2] = "APPLIES_TO" /\ e[1] \in Regulations /\ e[3] \in Clients

LEMMA RowEdgeKinds ==
    ASSUME csv \in DataSets, NEW e \in AllRowEdges
    PROVE  /\ e[1] # Stranger /\ e[3] \notin Uploads /\ ~IsMerge(e) /\ EdgeOfKind(e)
           /\ e \in RowEdges[1] => e[1] \in Clients /\ e[3] \in Documents
           /\ e \in RowEdges[2] => e[1] \in Excerpts /\ e[3] \in Documents
           /\ e \in RowEdges[3] => e[1] \in Policies /\ e[3] \in Regulations
  <1>1. /\ \A x \in Excerpts : csv.about[x] \in Documents
        /\ \A p \in Policies : csv.cites[p] \in Regulations \cup {None}
    BY DataTypes
  <1>2. ASSUME e \in RowEdges[1]
        PROVE  /\ e[1] \in Clients /\ e[2] = "CREATED_FROM" /\ e[3] \in Documents /\ Len(e) = 3
    <2>1. PICK x \in Clients \X Documents : e = Edge(x[1], "CREATED_FROM", x[2])
      BY <1>2, EdgeSets
    <2> QED BY <2>1 DEF Edge
  <1>3. ASSUME e \in RowEdges[2]
        PROVE  /\ e[1] \in Excerpts /\ e[2] = "SUPPORTS" /\ e[3] \in Documents /\ Len(e) = 3
    <2>1. PICK x \in Excerpts : e = Edge(x, "SUPPORTS", csv.about[x])
      BY <1>3, EdgeSets
    <2> QED BY <2>1, <1>1 DEF Edge
  <1>4. ASSUME e \in RowEdges[3]
        PROVE  /\ e[1] \in Policies /\ e[2] = "CITES" /\ e[3] \in Regulations
               /\ e[3] = csv.cites[e[1]] /\ Len(e) = 3
    <2>1. PICK p \in Policies : e = Edge(p, "CITES", csv.cites[p]) /\ csv.cites[p] # None
      BY <1>4, EdgeSets
    <2> QED BY <2>1, <1>1 DEF Edge
  <1>5. ASSUME e \in RowEdges[4]
        PROVE  e[1] \in Clients /\ e[2] = "OWNED_BY" /\ e[3] \in Entities /\ Len(e) = 3
    <2>1. PICK x \in Entities \X Clients : e = Edge(x[2], "OWNED_BY", x[1])
      BY <1>5, EdgeSets
    <2> QED BY <2>1 DEF Edge
  <1>6. ASSUME e \in RowEdges[5]
        PROVE  e[1] \in Regulations /\ e[2] = "APPLIES_TO" /\ e[3] \in Clients /\ Len(e) = 3
    <2>1. PICK x \in Regulations \X Clients : e = Edge(x[1], "APPLIES_TO", x[2])
      BY <1>6, EdgeSets
    <2> QED BY <2>1 DEF Edge
  <1>7. e \in RowEdges[1] \/ e \in RowEdges[2] \/ e \in RowEdges[3] \/ e \in RowEdges[4] \/ e \in RowEdges[5]
    BY AllRows
  <1>8. EdgeOfKind(e)
    BY <1>2, <1>3, <1>4, <1>5, <1>6, <1>7 DEF EdgeOfKind
  <1>9. Len(e) = 3
    BY <1>2, <1>3, <1>4, <1>5, <1>6, <1>7
  <1>10. e[1] \in Clients \/ e[1] \in Excerpts \/ e[1] \in Policies \/ e[1] \in Regulations
    BY <1>2, <1>3, <1>4, <1>5, <1>6, <1>7
  <1>11. e[3] \in Documents \/ e[3] \in Regulations \/ e[3] \in Entities \/ e[3] \in Clients
    BY <1>2, <1>3, <1>4, <1>5, <1>6, <1>7
  <1>12. e[1] # Stranger
    BY <1>10, OneKind
  <1>13. e[3] \notin Uploads
    BY <1>11, OneKind
  <1> QED BY <1>2, <1>3, <1>4, <1>8, <1>9, <1>12, <1>13 DEF IsMerge

LEMMA UploadEdgeKinds ==
    ASSUME NEW e \in UploadEdges
    PROVE  e[3] \in Uploads /\ EdgeOfKind(e) /\ ~IsMerge(e)
  <1>1. CASE e \in {Edge(x[1], "CREATED_FROM", x[2]) : x \in (Clients \cup {Stranger}) \X Uploads}
    <2>1. PICK x \in (Clients \cup {Stranger}) \X Uploads : e = Edge(x[1], "CREATED_FROM", x[2])
      BY <1>1
    <2>2. /\ e[1] \in Clients \cup {Stranger} /\ e[2] = "CREATED_FROM" /\ e[3] \in Uploads
          /\ Len(e) = 3
      BY <2>1 DEF Edge
    <2> QED BY <2>2 DEF EdgeOfKind, IsMerge
  <1>2. CASE e \in {Edge(x[1], "SUPPORTS", x[2]) : x \in Excerpts \X Uploads}
    <2>1. PICK x \in Excerpts \X Uploads : e = Edge(x[1], "SUPPORTS", x[2])
      BY <1>2
    <2>2. e[1] \in Excerpts /\ e[2] = "SUPPORTS" /\ e[3] \in Uploads /\ Len(e) = 3
      BY <2>1 DEF Edge
    <2> QED BY <2>2 DEF EdgeOfKind, IsMerge
  <1> QED BY <1>1, <1>2 DEF UploadEdges

LEMMA NodesByKind ==
    ASSUME csv \in DataSets, NEW n \in AllRowNodes \cup Uploaded
    PROVE  /\ IsMerge(n) /\ n[1] \in Labels /\ n = Node(n[1], n[2])
           /\ n[2] \in RowIds \cup Uploads
           /\ n[1] \in WithText => n[2] \in Policies \cup Regulations \cup Excerpts
           /\ n \in AllRowNodes => n[2] \in RowIds
           /\ n \in Uploaded => n[2] \in Uploads /\ n[1] = "Document"
  <1>1. ASSUME NEW l, NEW S, n \in {Node(l, x) : x \in S}
        PROVE  n[1] = l /\ n[2] \in S /\ Len(n) = 2 /\ n = Node(n[1], n[2])
    <2>1. PICK x \in S : n = Node(l, x)
      BY <1>1
    <2> QED BY <2>1 DEF Node
  <1>2. /\ n \in Uploaded => n[1] = "Document" /\ n[2] \in Uploads /\ Len(n) = 2 /\ n = Node(n[1], n[2])
        /\ n \in RowNodes[1] => n[1] = "ClientProfile" /\ n[2] \in Clients /\ Len(n) = 2 /\ n = Node(n[1], n[2])
        /\ n \in RowNodes[2] => n[1] = "Document" /\ n[2] \in csv.documents /\ Len(n) = 2 /\ n = Node(n[1], n[2])
        /\ n \in RowNodes[3] => n[1] = "Evidence" /\ n[2] \in Excerpts /\ Len(n) = 2 /\ n = Node(n[1], n[2])
        /\ n \in RowNodes[4] => n[1] = "Policy" /\ n[2] \in Policies /\ Len(n) = 2 /\ n = Node(n[1], n[2])
        /\ n \in RowNodes[5] => n[1] = "Regulation" /\ n[2] \in Regulations /\ Len(n) = 2 /\ n = Node(n[1], n[2])
        /\ n \in RowNodes[6] => n[1] = "Entity" /\ n[2] \in Entities /\ Len(n) = 2 /\ n = Node(n[1], n[2])
    BY <1>1, NodeSets DEF Uploaded
  <1>3. \/ n \in Uploaded \/ n \in RowNodes[1] \/ n \in RowNodes[2] \/ n \in RowNodes[3]
        \/ n \in RowNodes[4] \/ n \in RowNodes[5] \/ n \in RowNodes[6]
    BY AllRows
  <1>4. n \in AllRowNodes => n[2] \in RowIds
    BY DEF RowIds, Ids
  <1>5. Len(n) = 2 /\ n = Node(n[1], n[2])
    BY <1>2, <1>3
  <1>6. n[1] \in Labels
    BY <1>2, <1>3 DEF Labels
  <1>7. n[1] \in WithText => n[2] \in Policies \cup Regulations \cup Excerpts
    BY <1>2, <1>3 DEF WithText
  <1> QED BY <1>2, <1>4, <1>5, <1>6, <1>7 DEF IsMerge

LEMMA FiniteRows ==
    ASSUME csv \in DataSets
    PROVE  /\ \A i \in 1 .. 6 : IsFiniteSet(RowNodes[i])
           /\ \A i \in 1 .. 5 : IsFiniteSet(RowEdges[i])
  <1>1. IsFiniteSet(csv.documents)
    BY DataTypes, FiniteKinds, FS_Subset
  <1>2. ASSUME NEW l, NEW S, IsFiniteSet(S) PROVE IsFiniteSet({Node(l, x) : x \in S})
    <2> DEFINE f == [x \in S |-> Node(l, x)]
    <2>1. {Node(l, x) : x \in S} = {f[x] : x \in S}
      OBVIOUS
    <2>2. IsFiniteSet({f[x] : x \in S})
      <3>1. f \in Surjection(S, {f[x] : x \in S})
        BY DEF Surjection
      <3> QED BY <1>2, <3>1, FS_Surjection
    <2> QED BY <2>1, <2>2
  <1>3. \A i \in 1 .. 6 : IsFiniteSet(RowNodes[i])
    BY <1>1, <1>2, FiniteKinds, NodeSets
  <1>4. ASSUME NEW S, NEW T, IsFiniteSet(S), IsFiniteSet(T), NEW l, NEW E \in SUBSET (S \X {l} \X T)
        PROVE  IsFiniteSet(E)
    <2> DEFINE f == [x \in S \X T |-> <<x[1], l, x[2]>>]
               all == {f[x] : x \in S \X T}
    <2>1. IsFiniteSet(S \X T)
      BY <1>4, FS_Product
    <2>2. IsFiniteSet(all)
      <3>1. f \in Surjection(S \X T, all)
        BY DEF Surjection
      <3> QED BY <2>1, <3>1, FS_Surjection
    <2>3. ASSUME NEW e \in E PROVE e \in all
      <3>1. PICK x \in S, y \in T : e = <<x, l, y>>
        OBVIOUS
      <3>2. f[<<x, y>>] = e
        BY <3>1
      <3> QED BY <3>2
    <2> QED BY <2>2, <2>3, FS_Subset
  <1>5. /\ RowEdges[1] \subseteq Clients \X {"CREATED_FROM"} \X Documents
        /\ RowEdges[2] \subseteq Excerpts \X {"SUPPORTS"} \X Documents
        /\ RowEdges[3] \subseteq Policies \X {"CITES"} \X Regulations
        /\ RowEdges[4] \subseteq Clients \X {"OWNED_BY"} \X Entities
        /\ RowEdges[5] \subseteq Regulations \X {"APPLIES_TO"} \X Clients
    <2>0. /\ \A x \in Excerpts : csv.about[x] \in Documents
          /\ \A p \in Policies : csv.cites[p] \in Regulations \cup {None}
      BY DataTypes
    <2>1. ASSUME NEW e \in RowEdges[1] PROVE e \in Clients \X {"CREATED_FROM"} \X Documents
      <3>1. PICK x \in Clients \X Documents : e = Edge(x[1], "CREATED_FROM", x[2])
        BY <2>1, EdgeSets
      <3> QED BY <3>1 DEF Edge
    <2>2. ASSUME NEW e \in RowEdges[2] PROVE e \in Excerpts \X {"SUPPORTS"} \X Documents
      <3>1. PICK x \in Excerpts : e = Edge(x, "SUPPORTS", csv.about[x])
        BY <2>2, EdgeSets
      <3> QED BY <2>0, <3>1 DEF Edge
    <2>3. ASSUME NEW e \in RowEdges[3] PROVE e \in Policies \X {"CITES"} \X Regulations
      <3>1. PICK p \in Policies : e = Edge(p, "CITES", csv.cites[p]) /\ csv.cites[p] # None
        BY <2>3, EdgeSets
      <3> QED BY <2>0, <3>1 DEF Edge
    <2>4. ASSUME NEW e \in RowEdges[4] PROVE e \in Clients \X {"OWNED_BY"} \X Entities
      <3>1. PICK x \in Entities \X Clients : e = Edge(x[2], "OWNED_BY", x[1])
        BY <2>4, EdgeSets
      <3> QED BY <3>1 DEF Edge
    <2>5. ASSUME NEW e \in RowEdges[5] PROVE e \in Regulations \X {"APPLIES_TO"} \X Clients
      <3>1. PICK x \in Regulations \X Clients : e = Edge(x[1], "APPLIES_TO", x[2])
        BY <2>5, EdgeSets
      <3> QED BY <3>1 DEF Edge
    <2> QED BY <2>1, <2>2, <2>3, <2>4, <2>5
  <1>6. /\ IsFiniteSet(RowEdges[1]) /\ IsFiniteSet(RowEdges[2]) /\ IsFiniteSet(RowEdges[3])
        /\ IsFiniteSet(RowEdges[4]) /\ IsFiniteSet(RowEdges[5])
    BY <1>4, <1>5, FiniteKinds
  <1>7. \A i \in 1 .. 5 : i = 1 \/ i = 2 \/ i = 3 \/ i = 4 \/ i = 5
    OBVIOUS
  <1>8. \A i \in 1 .. 5 : IsFiniteSet(RowEdges[i])
    BY <1>6, <1>7
  <1> QED BY <1>3, <1>8

(* In a list of statements every edge comes after the rows it joins.       *)
WellOrdered(s) ==
    \A i \in 1 .. Len(s) : ~IsMerge(s[i]) =>
        \A x \in RowIds : x = s[i][1] \/ x = s[i][3] =>
            \E j \in 1 .. Len(s) : j < i /\ IsMerge(s[j]) /\ s[j][2] = x

LEMMA Extends ==
    ASSUME NEW B, NEW s \in Seq(B), NEW t \in Seq(B)
    PROVE  /\ s \o t \in Seq(B) /\ Len(s \o t) = Len(s) + Len(t)
           /\ ToSet(s \o t) = ToSet(s) \cup ToSet(t)
           /\ \A i \in 1 .. Len(s) : (s \o t)[i] = s[i]
           /\ \A i \in 1 .. Len(t) : (s \o t)[Len(s) + i] = t[i]
  <1>1. /\ s \o t \in Seq(B) /\ Len(s \o t) = Len(s) + Len(t)
        /\ Len(s) \in Nat /\ Len(t) \in Nat
        /\ \A i \in 1 .. Len(s) : (s \o t)[i] = s[i]
        /\ \A i \in 1 .. Len(t) : (s \o t)[Len(s) + i] = t[i]
    OBVIOUS
  <1>2. ASSUME NEW x \in ToSet(s \o t) PROVE x \in ToSet(s) \cup ToSet(t)
    <2>1. PICK i \in 1 .. Len(s \o t) : x = (s \o t)[i]
      BY <1>1 DEF ToSet
    <2>2. CASE i <= Len(s)
      BY <1>1, <2>1, <2>2 DEF ToSet
    <2>3. CASE i > Len(s)
      <3>1. i - Len(s) \in 1 .. Len(t) /\ Len(s) + (i - Len(s)) = i
        BY <1>1, <2>1, <2>3
      <3>2. x = t[i - Len(s)]
        BY <1>1, <2>1, <3>1
      <3> QED BY <3>1, <3>2 DEF ToSet
    <2> QED BY <1>1, <2>1, <2>2, <2>3
  <1>3. ASSUME NEW x \in ToSet(s) PROVE x \in ToSet(s \o t)
    <2>1. PICK i \in 1 .. Len(s) : x = s[i]
      BY DEF ToSet
    <2>2. i \in 1 .. Len(s \o t) /\ x = (s \o t)[i]
      BY <1>1, <2>1
    <2> QED BY <1>1, <2>2 DEF ToSet
  <1>4. ASSUME NEW x \in ToSet(t) PROVE x \in ToSet(s \o t)
    <2>1. PICK i \in 1 .. Len(t) : x = t[i]
      BY DEF ToSet
    <2>2. Len(s) + i \in 1 .. Len(s \o t) /\ x = (s \o t)[Len(s) + i]
      BY <1>1, <2>1
    <2> QED BY <1>1, <2>2 DEF ToSet
  <1> QED BY <1>1, <1>2, <1>3, <1>4

LEMMA ExtendOrdered ==
    ASSUME NEW B, NEW s \in Seq(B), NEW t \in Seq(B), WellOrdered(s),
           \A e \in ToSet(t) : ~IsMerge(e) =>
               \A x \in RowIds : x = e[1] \/ x = e[3] =>
                   \E n \in ToSet(s) : IsMerge(n) /\ n[2] = x
    PROVE  WellOrdered(s \o t)
  <1>a. PICK u : u = s \o t
    OBVIOUS
  <1>1. /\ Len(u) = Len(s) + Len(t) /\ Len(s) \in Nat /\ Len(t) \in Nat
        /\ \A i \in 1 .. Len(s) : u[i] = s[i]
        /\ \A i \in 1 .. Len(t) : u[Len(s) + i] = t[i]
    BY <1>a, Extends
  <1>2. ASSUME NEW i \in 1 .. Len(u), ~IsMerge(u[i]), NEW x \in RowIds, x = u[i][1] \/ x = u[i][3]
        PROVE  \E j \in 1 .. Len(u) : j < i /\ IsMerge(u[j]) /\ u[j][2] = x
    <2>1. CASE i <= Len(s)
      <3>1. i \in 1 .. Len(s) /\ u[i] = s[i]
        BY <1>1, <2>1
      <3>2. PICK j \in 1 .. Len(s) : j < i /\ IsMerge(s[j]) /\ s[j][2] = x
        BY <1>2, <3>1 DEF WellOrdered
      <3>3. j \in 1 .. Len(u) /\ u[j] = s[j]
        BY <1>1
      <3> QED BY <3>2, <3>3
    <2>2. CASE i > Len(s)
      <3>1. i - Len(s) \in 1 .. Len(t) /\ Len(s) + (i - Len(s)) = i
        BY <1>1, <2>2
      <3>2. u[i] = t[i - Len(s)]
        BY <1>1, <3>1
      <3>3. u[i] \in ToSet(t)
        BY <3>1, <3>2 DEF ToSet
      <3>4. PICK n \in ToSet(s) : IsMerge(n) /\ n[2] = x
        BY <1>2, <3>3
      <3>5. PICK j \in 1 .. Len(s) : n = s[j]
        BY <3>4 DEF ToSet
      <3>6. j \in 1 .. Len(u) /\ u[j] = s[j] /\ j < i
        BY <1>1, <2>2
      <3> QED BY <3>4, <3>5, <3>6
    <2> QED BY <1>1, <2>1, <2>2
  <1>3. WellOrdered(u)
    BY <1>2 DEF WellOrdered
  <1> QED BY <1>a, <1>3

(* The statements make every row before an edge to it.                     *)
LEMMA StatementsOrdered ==
    ASSUME csv \in DataSets
    PROVE  /\ Statements \in Seq(AllRowNodes \cup AllRowEdges)
           /\ ToSet(Statements) = AllRowNodes \cup AllRowEdges
           /\ WellOrdered(Statements) /\ Len(Statements) \in Nat \ {0}
  <1> DEFINE B == AllRowNodes \cup AllRowEdges
             rows(i) == SetToSeq(RowNodes[i])
             links(i) == SetToSeq(RowEdges[i])
             s2 == rows(1) \o rows(2)
             s3 == s2 \o rows(3)
             s4 == s3 \o rows(4)
             s5 == s4 \o rows(5)
             s6 == s5 \o links(1)
             s7 == s6 \o links(2)
             s8 == s7 \o links(3)
             s9 == s8 \o rows(6)
             s10 == s9 \o links(4)
  <1>1. ASSUME NEW i \in 1 .. 6 PROVE rows(i) \in Seq(B) /\ ToSet(rows(i)) = RowNodes[i]
    <2>1. RowNodes[i] \subseteq B
      BY NodeSets DEF AllRowNodes, ToSet
    <2>2. rows(i) \in Seq(RowNodes[i]) /\ ToSet(rows(i)) = RowNodes[i]
      BY FiniteRows, Listed
    <2> QED BY <2>1, <2>2
  <1>2. ASSUME NEW i \in 1 .. 5 PROVE links(i) \in Seq(B) /\ ToSet(links(i)) = RowEdges[i]
    <2>1. RowEdges[i] \subseteq B
      BY EdgeSets DEF AllRowEdges, ToSet
    <2>2. links(i) \in Seq(RowEdges[i]) /\ ToSet(links(i)) = RowEdges[i]
      BY FiniteRows, Listed
    <2> QED BY <2>1, <2>2
  <1>3. Statements = s10 \o links(5)
    BY DEF Statements
  <1>4. /\ \A i \in 1 .. 6 : \A n \in RowNodes[i] : IsMerge(n)
        /\ \A i \in 1 .. 5 : \A e \in RowEdges[i] : ~IsMerge(e)
    <2>1. \A i \in 1 .. 6 : RowNodes[i] \subseteq AllRowNodes
      BY NodeSets DEF AllRowNodes, ToSet
    <2>2. \A i \in 1 .. 5 : RowEdges[i] \subseteq AllRowEdges
      BY EdgeSets DEF AllRowEdges, ToSet
    <2> QED BY <2>1, <2>2, NodesByKind, RowEdgeKinds
  <1> HIDE DEF B, rows, links
  <1>5. s2 \in Seq(B) /\ ToSet(s2) = RowNodes[1] \cup RowNodes[2] /\ WellOrdered(s2)
    <2>1. WellOrdered(rows(1))
      <3>1. \A i \in 1 .. Len(rows(1)) : rows(1)[i] \in ToSet(rows(1))
        BY <1>1 DEF ToSet
      <3> QED BY <1>1, <1>4, <3>1 DEF WellOrdered
    <2> QED BY <2>1, <1>1, <1>4, Extends, ExtendOrdered
  <1> HIDE DEF s2
  <1>6. s3 \in Seq(B) /\ ToSet(s3) = ToSet(s2) \cup RowNodes[3] /\ WellOrdered(s3)
    BY <1>5, <1>1, <1>4, Extends, ExtendOrdered
  <1> HIDE DEF s3
  <1>7. s4 \in Seq(B) /\ ToSet(s4) = ToSet(s3) \cup RowNodes[4] /\ WellOrdered(s4)
    BY <1>6, <1>1, <1>4, Extends, ExtendOrdered
  <1> HIDE DEF s4
  <1>8. s5 \in Seq(B) /\ ToSet(s5) = ToSet(s4) \cup RowNodes[5] /\ WellOrdered(s5)
    BY <1>7, <1>1, <1>4, Extends, ExtendOrdered
  <1> HIDE DEF s5
  <1>9. ASSUME NEW x \in RowIds, x \notin Entities
        PROVE  \E n \in ToSet(s5) : IsMerge(n) /\ n[2] = x
    <2>1. PICK n \in AllRowNodes : n[2] = x
      BY DEF RowIds, Ids
    <2>2. n \notin RowNodes[6]
      BY <1>9, <2>1, NodeSets DEF Node
    <2>3. n \in RowNodes[1] \cup RowNodes[2] \cup RowNodes[3] \cup RowNodes[4] \cup RowNodes[5]
      BY <2>2, AllRows
    <2>4. n \in ToSet(s5)
      BY <2>3, <1>5, <1>6, <1>7, <1>8
    <2> QED BY <2>1, <2>4, NodesByKind
  <1>10. ASSUME NEW i \in {1, 2, 3}, NEW e \in RowEdges[i], NEW x \in RowIds, x = e[1] \/ x = e[3]
         PROVE  \E n \in ToSet(s5) : IsMerge(n) /\ n[2] = x
    <2>1. e \in AllRowEdges
      BY <1>10, AllRows
    <2>2. e[1] \notin Entities /\ e[3] \notin Entities
      BY <2>1, RowEdgeKinds, <1>10, OneKind
    <2> QED BY <1>9, <1>10, <2>2
  <1>11. s6 \in Seq(B) /\ ToSet(s6) = ToSet(s5) \cup RowEdges[1] /\ WellOrdered(s6)
    BY <1>8, <1>2, <1>10, Extends, ExtendOrdered
  <1> HIDE DEF s6
  <1>12. s7 \in Seq(B) /\ ToSet(s7) = ToSet(s6) \cup RowEdges[2] /\ WellOrdered(s7)
    BY <1>11, <1>2, <1>10, Extends, ExtendOrdered
  <1> HIDE DEF s7
  <1>13. s8 \in Seq(B) /\ ToSet(s8) = ToSet(s7) \cup RowEdges[3] /\ WellOrdered(s8)
    BY <1>11, <1>12, <1>2, <1>10, Extends, ExtendOrdered
  <1> HIDE DEF s8
  <1>14. s9 \in Seq(B) /\ ToSet(s9) = ToSet(s8) \cup RowNodes[6] /\ WellOrdered(s9)
    BY <1>13, <1>1, <1>4, Extends, ExtendOrdered
  <1> HIDE DEF s9
  <1>15. ASSUME NEW x \in RowIds
         PROVE  \E n \in ToSet(s9) : IsMerge(n) /\ n[2] = x
    <2>1. PICK n \in AllRowNodes : n[2] = x
      BY DEF RowIds, Ids
    <2>2. n \in ToSet(s9)
      BY <2>1, AllRows, <1>5, <1>6, <1>7, <1>8, <1>11, <1>12, <1>13, <1>14
    <2> QED BY <2>1, <2>2, NodesByKind
  <1>16. s10 \in Seq(B) /\ ToSet(s10) = ToSet(s9) \cup RowEdges[4] /\ WellOrdered(s10)
    BY <1>14, <1>2, <1>15, Extends, ExtendOrdered
  <1> HIDE DEF s10
  <1>17. /\ Statements \in Seq(B) /\ ToSet(Statements) = ToSet(s10) \cup RowEdges[5]
         /\ WellOrdered(Statements)
    <2>1. \A x \in RowIds : \E n \in ToSet(s10) : IsMerge(n) /\ n[2] = x
      BY <1>15, <1>16
    <2> QED BY <1>3, <1>16, <1>2, <2>1, Extends, ExtendOrdered
  <1>18. ToSet(Statements) = AllRowNodes \cup AllRowEdges
    BY <1>5, <1>6, <1>7, <1>8, <1>11, <1>12, <1>13, <1>14, <1>16, <1>17, AllRows
  <1>19. Len(Statements) \in Nat \ {0}
    <2>1. PICK c \in Clients : TRUE
      BY IdsAssumption
    <2>2. Node("ClientProfile", c) \in ToSet(Statements)
      BY <1>18, AllRows, NodeSets
    <2>3. Len(Statements) \in Nat /\ DOMAIN Statements = 1 .. Len(Statements)
      BY <1>17
    <2> QED BY <2>2, <2>3 DEF ToSet
  <1> QED BY <1>17, <1>18, <1>19 DEF B

LEMMA LoadedAreKept ==
    ASSUME csv \in DataSets
    PROVE  LoadedEdges \in Seq(AllRowEdges) /\ ToSet(LoadedEdges) = KeptEdges
  <1> DEFINE of(i) == {e \in RowEdges[i] : e[1] \in Ids(AllRowNodes) /\ e[3] \in Ids(AllRowNodes)}
             kept5 == [i \in 1 .. 5 |-> SetToSeq(of(i))]
  <1>1. ASSUME NEW i \in 1 .. 5
        PROVE  kept5[i] \in Seq(AllRowEdges) /\ ToSet(kept5[i]) = of(i)
    <2>1. of(i) \subseteq AllRowEdges
      BY EdgeSets DEF AllRowEdges, ToSet
    <2>2. IsFiniteSet(of(i))
      BY FiniteRows, FS_Subset
    <2>3. SetToSeq(of(i)) \in Seq(of(i)) /\ ToSet(SetToSeq(of(i))) = of(i)
      BY <2>2, Listed
    <2> HIDE DEF of
    <2> QED BY <2>1, <2>3
  <1>2. LoadedEdges = kept5[1] \o kept5[2] \o kept5[3] \o kept5[5] \o kept5[4]
    BY DEF LoadedEdges
  <1>3. KeptEdges = of(1) \cup of(2) \cup of(3) \cup of(5) \cup of(4)
    BY AllRows DEF KeptEdges, RowsMeet, RowIds
  <1> HIDE DEF of, kept5
  <1> DEFINE s2 == kept5[1] \o kept5[2]
             s3 == s2 \o kept5[3]
             s4 == s3 \o kept5[5]
  <1>8. LoadedEdges = s4 \o kept5[4]
    BY <1>2
  <1>4. s2 \in Seq(AllRowEdges) /\ ToSet(s2) = of(1) \cup of(2)
    BY <1>1, Extends
  <1> HIDE DEF s2
  <1>5. s3 \in Seq(AllRowEdges) /\ ToSet(s3) = ToSet(s2) \cup of(3)
    BY <1>1, <1>4, Extends
  <1> HIDE DEF s3
  <1>6. s4 \in Seq(AllRowEdges) /\ ToSet(s4) = ToSet(s3) \cup of(5)
    BY <1>1, <1>5, Extends
  <1> HIDE DEF s4
  <1>7. LoadedEdges \in Seq(AllRowEdges) /\ ToSet(LoadedEdges) = ToSet(s4) \cup of(4)
    BY <1>1, <1>6, <1>8, Extends
  <1> QED BY <1>3, <1>4, <1>5, <1>6, <1>7

(* What a statement does to the graph: nothing is ever taken away.         *)
LEMMA AfterGrows ==
    ASSUME NEW db, db = [nodes |-> db.nodes, relationships |-> db.relationships], NEW s
    PROVE  /\ After(db, s) = [nodes |-> After(db, s).nodes, relationships |-> After(db, s).relationships]
           /\ db.nodes \subseteq After(db, s).nodes
           /\ db.relationships \subseteq After(db, s).relationships
           /\ IsMerge(s) => /\ After(db, s).nodes = db.nodes \cup {s}
                            /\ After(db, s).relationships = db.relationships
           /\ ~IsMerge(s) =>
                 /\ After(db, s).nodes = db.nodes
                 /\ After(db, s).relationships = db.relationships
                        \cup {e \in {s} : {s[1], s[3]} \subseteq Ids(db.nodes)}
  <1>1. CASE IsMerge(s)
    <2>1. After(db, s) = [nodes |-> db.nodes \cup {s}, relationships |-> db.relationships]
      BY <1>1 DEF After
    <2> QED BY <1>1, <2>1
  <1>2. CASE ~IsMerge(s) /\ {s[1], s[3]} \subseteq Ids(db.nodes)
    <2>1. After(db, s) = [nodes |-> db.nodes, relationships |-> db.relationships \cup {s}]
      BY <1>2 DEF After
    <2> QED BY <1>2, <2>1
  <1>3. CASE ~IsMerge(s) /\ ~({s[1], s[3]} \subseteq Ids(db.nodes))
    <2>1. After(db, s) = db
      BY <1>3 DEF After
    <2> QED BY <1>3, <2>1
  <1> QED BY <1>1, <1>2, <1>3

LEMMA DoneStays ==
    ASSUME NEW db, NEW later, db.nodes \subseteq later.nodes,
           db.relationships \subseteq later.relationships, NEW n, DoneBefore(db, n)
    PROVE  DoneBefore(later, n)
  BY DEF DoneBefore, Done

(* The statement at hand joins two rows that are made already.             *)
LEMMA StatementDone ==
    ASSUME csv \in DataSets, NEW db,
           db = [nodes |-> db.nodes, relationships |-> db.relationships],
           NEW i \in 1 .. Len(Statements), DoneBefore(db, i)
    PROVE  DoneBefore(After(db, Statements[i]), i + 1)
  <1>a. PICK s : s = Statements[i]
    OBVIOUS
  <1>b. PICK later : later = After(db, s)
    OBVIOUS
  <1>1. /\ db.nodes \subseteq later.nodes /\ db.relationships \subseteq later.relationships
        /\ IsMerge(s) => s \in later.nodes
        /\ ~IsMerge(s) /\ {s[1], s[3]} \subseteq Ids(db.nodes) => s \in later.relationships
    BY <1>b, AfterGrows
  <1>2. ASSUME ~IsMerge(s), RowsMeet(s) PROVE {s[1], s[3]} \subseteq Ids(db.nodes)
    <2>1. ASSUME NEW x \in RowIds, x = s[1] \/ x = s[3] PROVE x \in Ids(db.nodes)
      <3>1. PICK j \in 1 .. Len(Statements) : j < i /\ IsMerge(Statements[j]) /\ Statements[j][2] = x
        BY <1>2, <1>a, <2>1, StatementsOrdered DEF WellOrdered
      <3>2. Statements[j] \in db.nodes
        BY <3>1 DEF DoneBefore, Done
      <3> QED BY <3>1, <3>2 DEF Ids
    <2> QED BY <1>2, <2>1 DEF RowsMeet
  <1>3. Done(later, s)
    BY <1>1, <1>2 DEF Done
  <1>4. DoneBefore(later, i)
    BY <1>1, DoneStays
  <1>5. ASSUME NEW j \in 1 .. Len(Statements), j < i + 1 PROVE Done(later, Statements[j])
    <2>1. CASE j = i
      BY <1>3, <1>a, <2>1
    <2>2. CASE j < i
      BY <1>4, <2>2 DEF DoneBefore
    <2> QED BY <1>5, <2>1, <2>2, StatementsOrdered
  <1>6. DoneBefore(later, i + 1)
    BY <1>5 DEF DoneBefore
  <1> QED BY <1>6, <1>a, <1>b

LEMMA StatementMembers ==
    ASSUME csv \in DataSets, NEW i \in 1 .. Len(Statements)
    PROVE  /\ Statements[i] \in AllRowNodes \cup AllRowEdges
           /\ IsMerge(Statements[i]) => Statements[i] \in AllRowNodes
           /\ ~IsMerge(Statements[i]) => Statements[i] \in AllRowEdges
  <1>1. Statements[i] \in AllRowNodes \cup AllRowEdges
    <2>1. Statements \in Seq(AllRowNodes \cup AllRowEdges)
      BY StatementsOrdered
    <2> QED BY <2>1
  <1> QED BY <1>1, NodesByKind, RowEdgeKinds

LEMMA IdsGrow ==
    ASSUME NEW S, NEW T, S \subseteq T
    PROVE  Ids(S) \subseteq Ids(T)
  BY DEF Ids

(* The parts of the invariant after a step, which leaves the rows alone.   *)
LEMMA SeededNext ==
    ASSUME csv' = csv,
           \A s \in Seeders : seeder'[s].does = "seed" =>
               /\ seeder'[s].at \in 1 .. Len(Statements)
               /\ DoneBefore(neo', seeder'[s].at),
           completed' => DoneBefore(neo', Len(Statements) + 1)
    PROVE  Seeded'
  <1>1. Statements' = Statements /\ RowIds' = RowIds
    BY SameData
  <1> QED BY <1>1 DEF Seeded, Doing, DoneBefore, Done, RowsMeet

(* A graph that only grows leaves every seeding where it was.              *)
LEMMA SeededKept ==
    ASSUME csv' = csv, Seeded, neo.nodes \subseteq neo'.nodes,
           neo.relationships \subseteq neo'.relationships, completed' = completed,
           \A s \in Seeders : \/ seeder'[s] = seeder[s]
                              \/ seeder'[s].does # "seed"
                              \/ /\ seeder'[s].at = 1 /\ csv \in DataSets
    PROVE  Seeded'
  <1>1. ASSUME NEW s \in Seeders, seeder'[s].does = "seed"
        PROVE  seeder'[s].at \in 1 .. Len(Statements) /\ DoneBefore(neo', seeder'[s].at)
    <2>1. CASE seeder'[s] = seeder[s]
      <3>1. PICK n : n = seeder[s].at
        OBVIOUS
      <3>2. n \in 1 .. Len(Statements) /\ DoneBefore(neo, n)
        BY <1>1, <2>1, <3>1 DEF Seeded, Doing
      <3>3. DoneBefore(neo', n)
        BY <3>2, DoneStays
      <3> QED BY <2>1, <3>1, <3>2, <3>3
    <2>2. CASE seeder'[s].at = 1 /\ csv \in DataSets
      <3>1. Len(Statements) \in Nat \ {0}
        BY <2>2, StatementsOrdered
      <3>2. DoneBefore(neo', 1)
        BY <3>1 DEF DoneBefore
      <3> QED BY <2>2, <3>1, <3>2
    <2> QED BY <1>1, <2>1, <2>2
  <1>2. ASSUME completed' PROVE DoneBefore(neo', Len(Statements) + 1)
    <2>1. PICK n : n = Len(Statements) + 1
      OBVIOUS
    <2>2. DoneBefore(neo, n)
      BY <1>2, <2>1 DEF Seeded
    <2> QED BY <2>1, <2>2, DoneStays
  <1> QED BY <1>1, <1>2, SeededNext

(* Graphs and Indexed, of any stores.                                      *)
GraphsOf(m, n, soon) ==
    /\ m = [nodes |-> m.nodes, relationships |-> m.relationships]
    /\ n = [nodes |-> n.nodes, relationships |-> n.relationships]
    /\ AllRowNodes \subseteq m.nodes /\ m.nodes \subseteq AllRowNodes \cup Uploaded
    /\ n.nodes \subseteq m.nodes /\ m.nodes \cap Uploaded \subseteq n.nodes
    /\ m.relationships \in Seq(AllRowEdges \cup UploadEdges)
    /\ KeptEdges \subseteq ToSet(m.relationships)
    /\ ToSet(m.relationships) \subseteq KeptEdges \cup UploadEdges
    /\ n.relationships \subseteq ToSet(m.relationships)
    /\ \A e \in n.relationships : {e[1], e[3]} \subseteq Ids(n.nodes)
    /\ ~soon => \A e \in ToSet(m.relationships) \cap UploadEdges :
                    e[1] # Stranger => e \in n.relationships

LEMMA GraphsNext ==
    ASSUME csv' = csv
    PROVE  /\ Graphs <=> GraphsOf(mem, neo, early)
           /\ Graphs' <=> GraphsOf(mem', neo', early')
  <1>1. /\ AllRowNodes' = AllRowNodes /\ AllRowEdges' = AllRowEdges
        /\ KeptEdges' = KeptEdges
    BY SameData
  <1>2. Graphs <=> GraphsOf(mem, neo, early)
    BY DEF Graphs, GraphsOf, MemEdges
  <1>3. Graphs' <=> GraphsOf(mem', neo', early')
    BY <1>1 DEF Graphs, GraphsOf, MemEdges
  <1> QED BY <1>2, <1>3

LEMMA IndexedKept ==
    ASSUME csv' = csv, Indexed, neo.nodes \subseteq neo'.nodes, early => early',
           \A p \in Pods : index'[p] = index[p] \/ index'[p] = NoIndex
    PROVE  Indexed'
  <1>1. AllRowNodes' = AllRowNodes
    BY SameData
  <1>2. Corpus(neo.nodes) \subseteq Corpus(neo'.nodes)
    BY DEF Corpus
  <1>3. ASSUME NEW p \in Pods
        PROVE  /\ index'[p].items \subseteq Corpus(neo'.nodes)
               /\ ~early' /\ index'[p].built => index'[p].items = Corpus(AllRowNodes)
    BY <1>2 DEF Indexed, NoIndex
  <1> QED BY <1>1, <1>3 DEF Indexed, Corpus

(* The types of what the steps set.                                        *)
GraphRest ==
    /\ csv \in DataSets
    /\ completed \in BOOLEAN /\ early \in BOOLEAN
    /\ index \in [Pods -> [built : BOOLEAN, items : SUBSET (Labels \X (RowIds \cup Uploads))]]
    /\ seeder \in [Seeders -> {Down, Checking, Up} \cup {Seeding(i) : i \in 1 .. Len(Statements)}]
    /\ starts \in 0 .. MaxStarts /\ stops \in 0 .. MaxStops /\ uploads \in 0 .. MaxUploads

LEMMA GraphInvParts == GraphInv <=> GraphRest /\ Graphs /\ Seeded /\ Indexed
  BY DEF GraphInv, GraphRest

LEMMA RestNext ==
    ASSUME GraphRest, csv' = csv, completed' \in BOOLEAN, early' \in BOOLEAN,
           index' \in [Pods -> [built : BOOLEAN, items : SUBSET (Labels \X (RowIds \cup Uploads))]],
           seeder' \in [Seeders -> {Down, Checking, Up} \cup {Seeding(i) : i \in 1 .. Len(Statements)}],
           starts' \in 0 .. MaxStarts, stops' \in 0 .. MaxStops, uploads' \in 0 .. MaxUploads
    PROVE  GraphRest'
  <1>1. Statements' = Statements /\ RowIds' = RowIds
    BY SameData
  <1> QED BY <1>1 DEF GraphRest

LEMMA StartStep ==
    ASSUME GraphInv, NEW s \in Seeders, Start(s)
    PROVE  GraphInv'
  <1>t. GraphRest /\ Graphs /\ Seeded /\ Indexed
    BY GraphInvParts
  <1>1. /\ UNCHANGED <<csv, mem, neo, index, completed, early, stops, uploads>>
        /\ starts' = starts + 1 /\ starts < MaxStarts
        /\ seeder' = [seeder EXCEPT ![s] = IF s = Script THEN Seeding(1) ELSE Checking]
    BY DEF Start, Goes
  <1>2. Seeding(1) \in {Seeding(i) : i \in 1 .. Len(Statements)}
    BY <1>t, StatementsOrdered DEF GraphRest
  <1>3. seeder' \in [Seeders -> {Down, Checking, Up} \cup {Seeding(i) : i \in 1 .. Len(Statements)}]
    BY <1>t, <1>1, <1>2 DEF GraphRest
  <1>4. starts' \in 0 .. MaxStarts
    BY <1>t, <1>1, GraphBounds DEF GraphRest
  <1>5. GraphRest'
    BY <1>t, <1>1, <1>3, <1>4, RestNext DEF GraphRest
  <1>6. \A o \in Seeders : \/ seeder'[o] = seeder[o]
                           \/ seeder'[o].does # "seed"
                           \/ seeder'[o].at = 1 /\ csv \in DataSets
    BY <1>t, <1>1 DEF GraphRest, Seeding, Checking
  <1>7. Seeded'
    BY <1>t, <1>1, <1>6, SeededKept
  <1>8. Graphs'
    BY <1>t, <1>1, GraphsNext
  <1>9. Indexed'
    BY <1>t, <1>1, IndexedKept
  <1> QED BY <1>5, <1>7, <1>8, <1>9 DEF GraphInv, GraphRest

LEMMA CheckEmptyStep ==
    ASSUME GraphInv, NEW p \in Pods, CheckEmpty(p)
    PROVE  GraphInv'
  <1>t. GraphRest /\ Graphs /\ Seeded /\ Indexed /\ p \in Seeders
    BY GraphInvParts DEF Seeders
  <1>1. /\ UNCHANGED <<csv, mem, neo, index, completed, early, starts, stops, uploads>>
        /\ seeder' = [seeder EXCEPT ![p] = IF HasClients THEN Up ELSE Seeding(1)]
    BY DEF CheckEmpty, Goes
  <1>2. Seeding(1) \in {Seeding(i) : i \in 1 .. Len(Statements)}
    BY <1>t, StatementsOrdered DEF GraphRest
  <1>3. seeder' \in [Seeders -> {Down, Checking, Up} \cup {Seeding(i) : i \in 1 .. Len(Statements)}]
    BY <1>t, <1>1, <1>2 DEF GraphRest
  <1>5. GraphRest'
    BY <1>t, <1>1, <1>3, RestNext DEF GraphRest
  <1>6. \A o \in Seeders : \/ seeder'[o] = seeder[o]
                           \/ seeder'[o].does # "seed"
                           \/ seeder'[o].at = 1 /\ csv \in DataSets
    BY <1>t, <1>1 DEF GraphRest, Seeding, Up
  <1>7. Seeded'
    BY <1>t, <1>1, <1>6, SeededKept
  <1>8. Graphs'
    BY <1>t, <1>1, GraphsNext
  <1>9. Indexed'
    BY <1>t, <1>1, IndexedKept
  <1> QED BY <1>5, <1>7, <1>8, <1>9 DEF GraphInv, GraphRest

LEMMA SeedFailsStep ==
    ASSUME GraphInv, NEW s \in Seeders, SeedFails(s)
    PROVE  GraphInv'
  <1>t. GraphRest /\ Graphs /\ Seeded /\ Indexed
    BY GraphInvParts
  <1>1. /\ UNCHANGED <<csv, mem, neo, index, completed, early, starts, uploads>>
        /\ stops' = stops + 1 /\ stops < MaxStops
        /\ seeder' = [seeder EXCEPT ![s] = Ended(s)]
        /\ Ended(s) \in {Up, Down}
    BY DEF SeedFails, Goes, Ended
  <1>3. seeder' \in [Seeders -> {Down, Checking, Up} \cup {Seeding(i) : i \in 1 .. Len(Statements)}]
    BY <1>t, <1>1 DEF GraphRest
  <1>4. stops' \in 0 .. MaxStops
    BY <1>t, <1>1, GraphBounds DEF GraphRest
  <1>5. GraphRest'
    BY <1>t, <1>1, <1>3, <1>4, RestNext DEF GraphRest
  <1>6. \A o \in Seeders : \/ seeder'[o] = seeder[o]
                           \/ seeder'[o].does # "seed"
                           \/ seeder'[o].at = 1 /\ csv \in DataSets
    BY <1>t, <1>1 DEF GraphRest, Down, Up
  <1>7. Seeded'
    BY <1>t, <1>1, <1>6, SeededKept
  <1>8. Graphs'
    BY <1>t, <1>1, GraphsNext
  <1>9. Indexed'
    BY <1>t, <1>1, IndexedKept
  <1> QED BY <1>5, <1>7, <1>8, <1>9 DEF GraphInv, GraphRest

LEMMA StopStep ==
    ASSUME GraphInv, NEW p \in Pods, Stop(p)
    PROVE  GraphInv'
  <1>t. GraphRest /\ Graphs /\ Seeded /\ Indexed /\ p \in Seeders
    BY GraphInvParts DEF Seeders
  <1>1. /\ UNCHANGED <<csv, mem, neo, completed, early, starts, uploads>>
        /\ stops' = stops + 1 /\ stops < MaxStops
        /\ seeder' = [seeder EXCEPT ![p] = Down]
        /\ index' = [index EXCEPT ![p] = NoIndex]
    BY DEF Stop, Goes
  <1>2. NoIndex \in [built : BOOLEAN, items : SUBSET (Labels \X (RowIds \cup Uploads))]
    BY DEF NoIndex
  <1>3. seeder' \in [Seeders -> {Down, Checking, Up} \cup {Seeding(i) : i \in 1 .. Len(Statements)}]
    BY <1>t, <1>1 DEF GraphRest
  <1>4. stops' \in 0 .. MaxStops
    BY <1>t, <1>1, GraphBounds DEF GraphRest
  <1>10. index' \in [Pods -> [built : BOOLEAN, items : SUBSET (Labels \X (RowIds \cup Uploads))]]
    BY <1>t, <1>1, <1>2 DEF GraphRest
  <1>5. GraphRest'
    BY <1>t, <1>1, <1>3, <1>4, <1>10, RestNext DEF GraphRest
  <1>6. \A o \in Seeders : \/ seeder'[o] = seeder[o]
                           \/ seeder'[o].does # "seed"
                           \/ seeder'[o].at = 1 /\ csv \in DataSets
    BY <1>t, <1>1 DEF GraphRest, Down
  <1>7. Seeded'
    BY <1>t, <1>1, <1>6, SeededKept
  <1>8. Graphs'
    BY <1>t, <1>1, GraphsNext
  <1>11. \A o \in Pods : index'[o] = index[o] \/ index'[o] = NoIndex
    BY <1>t, <1>1 DEF GraphRest
  <1>9. Indexed'
    BY <1>t, <1>1, <1>11, IndexedKept
  <1> QED BY <1>5, <1>7, <1>8, <1>9 DEF GraphInv, GraphRest

(* A row's edge never has an end among the uploads.                        *)
LEMMA OwnRows ==
    ASSUME GraphsOf(mem, neo, early), csv \in DataSets, NEW e \in AllRowEdges,
           {e[1], e[3]} \subseteq Ids(neo.nodes)
    PROVE  e \in MemEdges
  <1>1. e[3] \notin Uploads /\ e[1] # Stranger /\ EdgeOfKind(e)
    BY RowEdgeKinds
  <1>2. e[1] \in Clients \/ e[1] \in Excerpts \/ e[1] \in Policies \/ e[1] \in Regulations
    BY <1>1 DEF EdgeOfKind
  <1>3. e[1] \notin Uploads
    BY <1>2, OneKind
  <1>4. ASSUME NEW x \in Ids(neo.nodes), x \notin Uploads PROVE x \in RowIds
    <2>1. PICK n \in neo.nodes : x = n[2]
      BY DEF Ids
    <2>2. n \in AllRowNodes \cup Uploaded
      BY <2>1 DEF GraphsOf
    <2> QED BY <1>4, <2>1, <2>2, NodesByKind
  <1>5. e \in KeptEdges
    BY <1>1, <1>3, <1>4 DEF KeptEdges, RowsMeet
  <1> QED BY <1>5 DEF GraphsOf, MemEdges

LEMMA SeedStep ==
    ASSUME GraphInv, NEW s \in Seeders, Seed(s)
    PROVE  GraphInv'
  <1>t. GraphRest /\ Graphs /\ Seeded /\ Indexed
    BY GraphInvParts
  <1>a. PICK i : i = seeder[s].at
    OBVIOUS
  <1>b. PICK t : t = Statements[i]
    OBVIOUS
  <1>1. /\ UNCHANGED <<csv, mem, index, early, starts, stops, uploads>>
        /\ neo' = After(neo, t)
        /\ seeder' = [seeder EXCEPT ![s] = IF i = Len(Statements) THEN Ended(s) ELSE Seeding(i + 1)]
        /\ completed' = (completed \/ i = Len(Statements))
        /\ seeder[s].does = "seed"
    BY <1>a, <1>b DEF Seed, Goes, Doing
  <1>c. csv \in DataSets /\ GraphsOf(mem, neo, early) /\ csv' = csv
    BY <1>t, <1>1, GraphsNext DEF GraphRest
  <1>2. i \in 1 .. Len(Statements) /\ DoneBefore(neo, i)
    BY <1>t, <1>1, <1>a DEF Seeded, Doing
  <1>3. Len(Statements) \in Nat \ {0}
    BY <1>c, StatementsOrdered
  <1>4. DoneBefore(neo', i + 1)
    <2>1. DoneBefore(After(neo, Statements[i]), i + 1)
      BY <1>c, <1>2, StatementDone DEF GraphsOf
    <2> QED BY <2>1, <1>1, <1>b
  <1>5. /\ neo' = [nodes |-> neo'.nodes, relationships |-> neo'.relationships]
        /\ neo.nodes \subseteq neo'.nodes /\ neo.relationships \subseteq neo'.relationships
        /\ IsMerge(t) => neo'.nodes = neo.nodes \cup {t} /\ neo'.relationships = neo.relationships
        /\ ~IsMerge(t) =>
              /\ neo'.nodes = neo.nodes
              /\ neo'.relationships = neo.relationships
                     \cup {e \in {t} : {t[1], t[3]} \subseteq Ids(neo.nodes)}
    <2>1. neo = [nodes |-> neo.nodes, relationships |-> neo.relationships]
      BY <1>c DEF GraphsOf
    <2>2. neo' = After(neo, t)
      BY <1>1
    <2> QED BY <2>1, <2>2, AfterGrows
  <1>6. (IsMerge(t) => t \in AllRowNodes) /\ (~IsMerge(t) => t \in AllRowEdges)
    BY <1>b, <1>c, <1>2, StatementMembers
  <1>7. GraphsOf(mem', neo', early')
    <2>1. mem' = mem /\ early' = early
      BY <1>1
    <2>2. neo'.nodes \subseteq mem.nodes
      BY <1>c, <1>5, <1>6 DEF GraphsOf
    <2>3. Ids(neo.nodes) \subseteq Ids(neo'.nodes)
      BY <1>5, IdsGrow
    <2>4. /\ neo'.relationships \subseteq ToSet(mem.relationships)
          /\ \A e \in neo'.relationships : {e[1], e[3]} \subseteq Ids(neo'.nodes)
      <3>1. CASE IsMerge(t)
        BY <1>c, <1>5, <2>3, <3>1 DEF GraphsOf
      <3>2. CASE ~IsMerge(t)
        <4>1. ASSUME {t[1], t[3]} \subseteq Ids(neo.nodes) PROVE t \in ToSet(mem.relationships)
          BY <1>c, <1>6, <3>2, <4>1, OwnRows DEF MemEdges
        <4> QED BY <1>c, <1>5, <2>3, <3>2, <4>1 DEF GraphsOf
      <3> QED BY <3>1, <3>2
    <2> QED BY <1>c, <1>5, <2>1, <2>2, <2>4 DEF GraphsOf
  <1>8. Graphs'
    BY <1>c, <1>7, GraphsNext
  <1>9. Seeded'
    <2>1. ASSUME NEW o \in Seeders, seeder'[o].does = "seed"
          PROVE  seeder'[o].at \in 1 .. Len(Statements) /\ DoneBefore(neo', seeder'[o].at)
      <3>1. CASE o = s
        <4>1. seeder'[s] = IF i = Len(Statements) THEN Ended(s) ELSE Seeding(i + 1)
          BY <1>t, <1>1 DEF GraphRest
        <4>2. Ended(s).does # "seed"
          BY DEF Ended, Down, Up
        <4>3. i # Len(Statements) /\ seeder'[s].at = i + 1
          BY <4>1, <4>2, <2>1, <3>1 DEF Seeding
        <4>4. i + 1 \in 1 .. Len(Statements)
          BY <1>2, <1>3, <4>3
        <4> QED BY <1>4, <3>1, <4>3, <4>4
      <3>2. CASE o # s
        <4>1. seeder'[o] = seeder[o]
          BY <1>t, <1>1, <3>2 DEF GraphRest
        <4>2. PICK n : n = seeder[o].at
          OBVIOUS
        <4>3. n \in 1 .. Len(Statements) /\ DoneBefore(neo, n)
          BY <1>t, <2>1, <4>1, <4>2 DEF Seeded, Doing
        <4>4. DoneBefore(neo', n)
          BY <1>5, <4>3, DoneStays
        <4> QED BY <4>1, <4>2, <4>3, <4>4
      <3> QED BY <3>1, <3>2
    <2>2. ASSUME completed' PROVE DoneBefore(neo', Len(Statements) + 1)
      <3>a. PICK n : n = Len(Statements) + 1
        OBVIOUS
      <3>1. CASE i = Len(Statements)
        BY <1>4, <3>1
      <3>2. CASE completed
        <4>1. DoneBefore(neo, n)
          BY <1>t, <3>a, <3>2 DEF Seeded
        <4>2. DoneBefore(neo', n)
          BY <1>5, <4>1, DoneStays
        <4> QED BY <3>a, <4>2
      <3> QED BY <2>2, <1>1, <3>1, <3>2
    <2> QED BY <1>c, <2>1, <2>2, SeededNext
  <1>10. Indexed'
    BY <1>t, <1>1, <1>5, IndexedKept
  <1>11. seeder' \in [Seeders -> {Down, Checking, Up} \cup {Seeding(j) : j \in 1 .. Len(Statements)}]
    <2>1. Ended(s) \in {Down, Up}
      BY DEF Ended
    <2>2. ASSUME i # Len(Statements) PROVE i + 1 \in 1 .. Len(Statements)
      BY <1>2, <1>3, <2>2
    <2>3. (IF i = Len(Statements) THEN Ended(s) ELSE Seeding(i + 1))
             \in {Down, Checking, Up} \cup {Seeding(j) : j \in 1 .. Len(Statements)}
      BY <2>1, <2>2
    <2> QED BY <1>t, <1>1, <2>3 DEF GraphRest
  <1>12. completed' \in BOOLEAN
    BY <1>1
  <1>13. GraphRest'
    BY <1>t, <1>1, <1>11, <1>12, RestNext DEF GraphRest
  <1> QED BY <1>8, <1>9, <1>10, <1>13 DEF GraphInv, GraphRest

(* One more edge, or none, in the list and in the database.                *)
OneLink(x, type, d) == IF x = None THEN <<>> ELSE <<Edge(x, type, d)>>
OneMore(db, x, type, d) == IF x = None THEN db ELSE After(db, Edge(x, type, d))

LEMMA LinkTyped ==
    ASSUME NEW B, NEW x, NEW type, NEW d, x # None => Edge(x, type, d) \in B
    PROVE  OneLink(x, type, d) \in Seq(B)
  BY DEF OneLink

LEMMA LinkMembers ==
    ASSUME NEW x, NEW type, NEW d
    PROVE  \A f : f \in ToSet(OneLink(x, type, d)) <=> x # None /\ f = Edge(x, type, d)
  <1>1. CASE x = None
    <2>1. OneLink(x, type, d) = <<>>
      BY <1>1 DEF OneLink
    <2> QED BY <1>1, <2>1 DEF ToSet
  <1>2. CASE x # None
    <2>1. OneLink(x, type, d) = <<Edge(x, type, d)>>
      BY <1>2 DEF OneLink
    <2> QED BY <1>2, <2>1 DEF ToSet
  <1> QED BY <1>1, <1>2

LEMMA Linked ==
    ASSUME NEW db, db = [nodes |-> db.nodes, relationships |-> db.relationships],
           NEW x, NEW type, NEW d, NEW later, later = OneMore(db, x, type, d)
    PROVE  /\ later = [nodes |-> later.nodes, relationships |-> later.relationships]
           /\ later.nodes = db.nodes /\ db.relationships \subseteq later.relationships
           /\ \A e \in later.relationships :
                 \/ e \in db.relationships
                 \/ /\ x # None /\ e = Edge(x, type, d)
                    /\ {e[1], e[3]} \subseteq Ids(db.nodes)
           /\ x # None /\ {x, d} \subseteq Ids(db.nodes) => Edge(x, type, d) \in later.relationships
  <1>a. PICK e : e = Edge(x, type, d)
    OBVIOUS
  <1>b. e[1] = x /\ e[3] = d /\ ~IsMerge(e)
    BY <1>a DEF Edge, IsMerge
  <1>1. CASE x = None
    <2>1. later = db
      BY <1>1 DEF OneMore
    <2> QED BY <1>1, <2>1
  <1>2. CASE x # None
    <2>1. later = After(db, e)
      BY <1>2, <1>a DEF OneMore
    <2>3. /\ later = [nodes |-> later.nodes, relationships |-> later.relationships]
          /\ later.nodes = db.nodes
          /\ later.relationships = db.relationships
                 \cup {f \in {e} : {e[1], e[3]} \subseteq Ids(db.nodes)}
      <3>1. /\ After(db, e) = [nodes |-> After(db, e).nodes,
                               relationships |-> After(db, e).relationships]
            /\ After(db, e).nodes = db.nodes
            /\ After(db, e).relationships = db.relationships
                   \cup {f \in {e} : {e[1], e[3]} \subseteq Ids(db.nodes)}
        BY <1>b, AfterGrows
      <3> QED BY <2>1, <3>1
    <2> QED BY <1>2, <1>a, <1>b, <2>3
  <1> QED BY <1>1, <1>2

LEMMA UploadStep ==
    ASSUME GraphInv, Upload
    PROVE  GraphInv'
  <1>t. GraphRest /\ Graphs /\ Seeded /\ Indexed
    BY GraphInvParts
  <1>1. /\ uploads < MaxUploads /\ uploads' = uploads + 1
        /\ UNCHANGED <<csv, seeder, index, completed, starts, stops>>
    BY DEF Upload
  <1>2. PICK d \in Uploads :
           \E c \in Clients \cup {None, Stranger}, e \in Excerpts \cup {None} :
              /\ AddDocument(d, c, e)
              /\ early' = (early \/ ({c, e} \cap Ids(AllRowNodes)) \ Ids(neo.nodes) # {})
    BY DEF Upload
  <1>3. PICK c \in Clients \cup {None, Stranger} :
           \E e \in Excerpts \cup {None} :
              /\ AddDocument(d, c, e)
              /\ early' = (early \/ ({c, e} \cap Ids(AllRowNodes)) \ Ids(neo.nodes) # {})
    BY <1>2
  <1>4. PICK e \in Excerpts \cup {None} :
              /\ AddDocument(d, c, e)
              /\ early' = (early \/ ({c, e} \cap Ids(AllRowNodes)) \ Ids(neo.nodes) # {})
    BY <1>3
  <1> DEFINE B == AllRowEdges \cup UploadEdges
             dn == Node("Document", d)
  <1>p1. PICK db1 : db1 = After(neo, dn)
    OBVIOUS
  <1>p2. PICK ofClient : ofClient = OneLink(c, "CREATED_FROM", d)
    OBVIOUS
  <1>p3. PICK supports : supports = OneLink(e, "SUPPORTS", d)
    OBVIOUS
  <1>p4. PICK db2 : db2 = OneMore(db1, c, "CREATED_FROM", d)
    OBVIOUS
  <1>p5. PICK db3 : db3 = OneMore(db2, e, "SUPPORTS", d)
    OBVIOUS
  <1>5. /\ mem' = [nodes |-> mem.nodes \cup {dn},
                   relationships |-> mem.relationships \o ofClient \o supports]
        /\ neo' = db3
    BY <1>4, <1>p1, <1>p2, <1>p3, <1>p4, <1>p5 DEF AddDocument, OneLink, OneMore
  <1>c. csv \in DataSets /\ GraphsOf(mem, neo, early) /\ csv' = csv
    BY <1>t, <1>1, GraphsNext DEF GraphRest
  <1>6. dn \in Uploaded /\ IsMerge(dn) /\ dn[2] = d
    BY DEF Uploaded, Node, IsMerge
  <1>7. /\ db1 = [nodes |-> db1.nodes, relationships |-> db1.relationships]
        /\ db1.nodes = neo.nodes \cup {dn} /\ db1.relationships = neo.relationships
    BY <1>c, <1>6, <1>p1, AfterGrows DEF GraphsOf
  <1>8. /\ c # None => Edge(c, "CREATED_FROM", d) \in UploadEdges
        /\ e # None => Edge(e, "SUPPORTS", d) \in UploadEdges
    <2>1. ASSUME c # None PROVE Edge(c, "CREATED_FROM", d) \in UploadEdges
      <3>1. PICK x : x = <<c, d>>
        OBVIOUS
      <3>2. x \in (Clients \cup {Stranger}) \X Uploads /\ x[1] = c /\ x[2] = d
        BY <2>1, <3>1
      <3> QED BY <3>2 DEF UploadEdges
    <2>2. ASSUME e # None PROVE Edge(e, "SUPPORTS", d) \in UploadEdges
      <3>1. PICK x : x = <<e, d>>
        OBVIOUS
      <3>2. x \in Excerpts \X Uploads /\ x[1] = e /\ x[2] = d
        BY <2>2, <3>1
      <3> QED BY <3>2 DEF UploadEdges
    <2> QED BY <2>1, <2>2
  <1> HIDE DEF dn
  <1>9. /\ ofClient \in Seq(B)
        /\ \A f : f \in ToSet(ofClient) <=> c # None /\ f = Edge(c, "CREATED_FROM", d)
        /\ db2 = [nodes |-> db2.nodes, relationships |-> db2.relationships]
        /\ db2.nodes = db1.nodes /\ db1.relationships \subseteq db2.relationships
        /\ db2.relationships \subseteq db1.relationships \cup ToSet(ofClient)
        /\ \A f \in db2.relationships \ db1.relationships : {f[1], f[3]} \subseteq Ids(db1.nodes)
        /\ {c, d} \subseteq Ids(db1.nodes) => ToSet(ofClient) \subseteq db2.relationships
    <2>1. ofClient \in Seq(B)
      BY <1>8, <1>p2, <1>p3, LinkTyped
    <2>2. \A f : f \in ToSet(ofClient) <=> c # None /\ f = Edge(c, "CREATED_FROM", d)
      BY <1>p2, <1>p3, LinkMembers
    <2>3. db1 = [nodes |-> db1.nodes, relationships |-> db1.relationships]
      BY <1>7
    <2>4. /\ db2 = [nodes |-> db2.nodes, relationships |-> db2.relationships]
          /\ db2.nodes = db1.nodes /\ db1.relationships \subseteq db2.relationships
          /\ \A f \in db2.relationships :
                \/ f \in db1.relationships
                \/ /\ c # None /\ f = Edge(c, "CREATED_FROM", d)
                   /\ {f[1], f[3]} \subseteq Ids(db1.nodes)
          /\ c # None /\ {c, d} \subseteq Ids(db1.nodes) =>
                Edge(c, "CREATED_FROM", d) \in db2.relationships
      BY <2>3, <1>p4, <1>p5, Linked
    <2> QED BY <2>1, <2>2, <2>4
  <1>10. /\ supports \in Seq(B)
         /\ \A f : f \in ToSet(supports) <=> e # None /\ f = Edge(e, "SUPPORTS", d)
         /\ db3 = [nodes |-> db3.nodes, relationships |-> db3.relationships]
         /\ db3.nodes = db2.nodes /\ db2.relationships \subseteq db3.relationships
         /\ db3.relationships \subseteq db2.relationships \cup ToSet(supports)
         /\ \A f \in db3.relationships \ db2.relationships : {f[1], f[3]} \subseteq Ids(db2.nodes)
         /\ {e, d} \subseteq Ids(db2.nodes) => ToSet(supports) \subseteq db3.relationships
    <2>1. supports \in Seq(B)
      BY <1>8, <1>p2, <1>p3, LinkTyped
    <2>2. \A f : f \in ToSet(supports) <=> e # None /\ f = Edge(e, "SUPPORTS", d)
      BY <1>p2, <1>p3, LinkMembers
    <2>3. db2 = [nodes |-> db2.nodes, relationships |-> db2.relationships]
      BY <1>9
    <2>4. /\ db3 = [nodes |-> db3.nodes, relationships |-> db3.relationships]
          /\ db3.nodes = db2.nodes /\ db2.relationships \subseteq db3.relationships
          /\ \A f \in db3.relationships :
                \/ f \in db2.relationships
                \/ /\ e # None /\ f = Edge(e, "SUPPORTS", d)
                   /\ {f[1], f[3]} \subseteq Ids(db2.nodes)
          /\ e # None /\ {e, d} \subseteq Ids(db2.nodes) =>
                Edge(e, "SUPPORTS", d) \in db3.relationships
      BY <2>3, <1>p4, <1>p5, Linked
    <2> QED BY <2>1, <2>2, <2>4
  <1>n. /\ neo' = [nodes |-> neo'.nodes, relationships |-> neo'.relationships]
        /\ neo'.nodes = db3.nodes /\ neo'.relationships = db3.relationships
    <2>1. neo' = db3
      BY <1>5
    <2> QED BY <2>1, <1>10
  <1>r. neo'.nodes = neo.nodes \cup {dn} /\ db1.nodes = neo'.nodes /\ db2.nodes = neo'.nodes
    <2>1. neo'.nodes = db3.nodes
      BY <1>n
    <2>2. db1.nodes = neo.nodes \cup {dn}
      BY <1>7
    <2> QED BY <2>1, <2>2, <1>9, <1>10
  <1>11. /\ mem'.relationships \in Seq(B)
         /\ ToSet(mem'.relationships) = MemEdges \cup ToSet(ofClient) \cup ToSet(supports)
    <2> DEFINE some == mem.relationships \o ofClient
    <2>1. some \in Seq(B) /\ ToSet(some) = MemEdges \cup ToSet(ofClient)
      BY <1>c, <1>9, Extends DEF GraphsOf, MemEdges
    <2>2. mem'.relationships = some \o supports
      BY <1>5
    <2> HIDE DEF some
    <2>3. some \o supports \in Seq(B) /\ ToSet(some \o supports) = ToSet(some) \cup ToSet(supports)
      BY <2>1, <1>10, Extends
    <2> QED BY <2>1, <2>2, <2>3
  <1>12. ToSet(ofClient) \subseteq UploadEdges /\ ToSet(supports) \subseteq UploadEdges
    BY <1>8, <1>9, <1>10
  <1>13. /\ neo' = [nodes |-> neo'.nodes, relationships |-> neo'.relationships]
         /\ neo'.nodes = neo.nodes \cup {dn}
         /\ neo.relationships \subseteq neo'.relationships
         /\ neo'.relationships \subseteq neo.relationships \cup ToSet(ofClient) \cup ToSet(supports)
         /\ \A f \in neo'.relationships \ neo.relationships : {f[1], f[3]} \subseteq Ids(neo'.nodes)
    <2>1. db1.relationships = neo.relationships
      BY <1>7
    <2>2. neo'.relationships = db3.relationships
      BY <1>n
    <2>3. neo' = [nodes |-> neo'.nodes, relationships |-> neo'.relationships]
      BY <1>n
    <2>4. neo.relationships \subseteq neo'.relationships
      BY <2>1, <2>2, <1>9, <1>10
    <2>5. neo'.relationships \subseteq neo.relationships \cup ToSet(ofClient) \cup ToSet(supports)
      BY <2>1, <2>2, <1>9, <1>10
    <2>6. \A f \in neo'.relationships \ neo.relationships : {f[1], f[3]} \subseteq Ids(neo'.nodes)
      <3>1. \A f \in neo'.relationships \ neo.relationships : {f[1], f[3]} \subseteq Ids(db1.nodes)
        BY <2>1, <2>2, <1>9, <1>10
      <3> QED BY <3>1, <1>r
    <2> QED BY <2>3, <2>4, <2>5, <2>6, <1>r
  <1>14. Ids(neo.nodes) \subseteq Ids(neo'.nodes) /\ d \in Ids(neo'.nodes)
    <2>1. Ids(neo.nodes) \subseteq Ids(neo'.nodes)
      BY <1>13, IdsGrow
    <2>2. d \in Ids(neo'.nodes)
      BY <1>13, <1>6 DEF Ids
    <2> QED BY <2>1, <2>2
  <1>15. neo'.nodes = db1.nodes /\ neo'.nodes = db2.nodes
    BY <1>r
  <1>16. ASSUME ~early', NEW x \in {c, e}, x # None, x # Stranger PROVE x \in Ids(neo'.nodes)
    <2>1. x \in RowIds
      BY <1>16, RowIdsAre
    <2>2. x \in Ids(neo.nodes)
      BY <1>16, <1>4, <2>1 DEF RowIds
    <2> QED BY <2>2, <1>14
  <1>17. ASSUME ~early', NEW f \in ToSet(mem'.relationships) \cap UploadEdges, f[1] # Stranger
         PROVE  f \in neo'.relationships
    <2>1. CASE f \in MemEdges
      <3>1. ~early
        BY <1>17, <1>4
      <3> QED BY <1>c, <1>13, <1>17, <2>1, <3>1 DEF GraphsOf, MemEdges
    <2>2. CASE f \in ToSet(ofClient)
      <3>1. c # None /\ f[1] = c
        BY <1>9, <2>2 DEF Edge
      <3>2. {c, d} \subseteq Ids(db1.nodes)
        BY <1>14, <1>15, <1>16, <1>17, <3>1
      <3>3. neo'.relationships = db3.relationships
        BY <1>n
      <3> QED BY <3>3, <1>9, <1>10, <2>2, <3>2
    <2>3. CASE f \in ToSet(supports)
      <3>1. e # None /\ f[1] = e
        BY <1>10, <2>3 DEF Edge
      <3>2. {e, d} \subseteq Ids(db2.nodes)
        BY <1>14, <1>15, <1>16, <1>17, <3>1
      <3>3. neo'.relationships = db3.relationships
        BY <1>n
      <3> QED BY <3>3, <1>10, <2>3, <3>2
    <2> QED BY <1>11, <1>17, <2>1, <2>2, <2>3
  <1>18. GraphsOf(mem', neo', early')
    <2>1. mem' = [nodes |-> mem'.nodes, relationships |-> mem'.relationships]
          /\ mem'.nodes = mem.nodes \cup {dn}
      BY <1>5
    <2>2. /\ AllRowNodes \subseteq mem'.nodes /\ mem'.nodes \subseteq AllRowNodes \cup Uploaded
          /\ neo'.nodes \subseteq mem'.nodes /\ mem'.nodes \cap Uploaded \subseteq neo'.nodes
      BY <1>c, <1>6, <1>13, <2>1 DEF GraphsOf
    <2>3. /\ KeptEdges \subseteq ToSet(mem'.relationships)
          /\ ToSet(mem'.relationships) \subseteq KeptEdges \cup UploadEdges
          /\ neo'.relationships \subseteq ToSet(mem'.relationships)
      BY <1>c, <1>11, <1>12, <1>13 DEF GraphsOf, MemEdges
    <2>4. \A f \in neo'.relationships : {f[1], f[3]} \subseteq Ids(neo'.nodes)
      <3>1. ASSUME NEW f \in neo.relationships PROVE {f[1], f[3]} \subseteq Ids(neo'.nodes)
        BY <1>c, <1>14 DEF GraphsOf
      <3> QED BY <1>13, <3>1
    <2> QED BY <1>11, <1>13, <1>17, <2>1, <2>2, <2>3, <2>4 DEF GraphsOf
  <1>19. Graphs'
    BY <1>c, <1>18, GraphsNext
  <1>20. Seeded'
    BY <1>t, <1>1, <1>13, SeededKept
  <1>21. Indexed'
    BY <1>t, <1>1, <1>4, <1>13, IndexedKept
  <1>22. uploads' \in 0 .. MaxUploads
    BY <1>t, <1>1, GraphBounds DEF GraphRest
  <1>23. early' \in BOOLEAN
    BY <1>4
  <1>24. GraphRest'
    BY <1>t, <1>1, <1>22, <1>23, RestNext DEF GraphRest
  <1> QED BY <1>19, <1>20, <1>21, <1>24 DEF GraphInv, GraphRest

(* A graph with every row has the texts of the rows: an upload has none.   *)
LEMMA CorpusOfRows ==
    ASSUME csv \in DataSets, NEW S, AllRowNodes \subseteq S, S \subseteq AllRowNodes \cup Uploaded
    PROVE  Corpus(S) = Corpus(AllRowNodes)
  <1>1. ASSUME NEW n \in Corpus(S) PROVE n \in AllRowNodes
    <2>1. n \in AllRowNodes \cup Uploaded /\ n[1] \in WithText
      BY DEF Corpus
    <2>2. "Document" \notin WithText
      BY DEF WithText
    <2> QED BY <2>1, <2>2, NodesByKind
  <1> QED BY <1>1 DEF Corpus

(* A seeding that reached its end left every row and every edge of the     *)
(* rows behind it.                                                         *)
LEMMA SeededWhole ==
    ASSUME csv \in DataSets, Seeded, completed
    PROVE  AllRowNodes \subseteq neo.nodes /\ KeptEdges \subseteq neo.relationships
  <1>1. /\ Statements \in Seq(AllRowNodes \cup AllRowEdges)
        /\ ToSet(Statements) = AllRowNodes \cup AllRowEdges /\ Len(Statements) \in Nat \ {0}
    BY StatementsOrdered
  <1>2. ASSUME NEW s \in AllRowNodes \cup AllRowEdges PROVE Done(neo, s)
    <2>1. PICK i \in DOMAIN Statements : s = Statements[i]
      BY <1>1 DEF ToSet
    <2>2. i \in 1 .. Len(Statements) /\ i < Len(Statements) + 1
      BY <1>1
    <2>3. \A j \in 1 .. Len(Statements) : j < Len(Statements) + 1 => Done(neo, Statements[j])
      BY DEF Seeded, DoneBefore
    <2> QED BY <2>1, <2>2, <2>3
  <1>3. ASSUME NEW n \in AllRowNodes PROVE n \in neo.nodes
    <2>1. IsMerge(n)
      BY NodesByKind
    <2> QED BY <1>2, <2>1 DEF Done
  <1>4. ASSUME NEW e \in KeptEdges PROVE e \in neo.relationships
    <2>1. e \in AllRowEdges /\ RowsMeet(e)
      BY DEF KeptEdges
    <2>2. ~IsMerge(e)
      BY <2>1, RowEdgeKinds
    <2> QED BY <1>2, <2>1, <2>2 DEF Done
  <1> QED BY <1>3, <1>4

(* The nodes of a graph, as pairs of a label and an id.                    *)
LEMMA NodesTyped ==
    ASSUME csv \in DataSets, NEW S, S \subseteq AllRowNodes \cup Uploaded
    PROVE  S \subseteq Labels \X (RowIds \cup Uploads)
  <1>1. ASSUME NEW n \in S PROVE n \in Labels \X (RowIds \cup Uploads)
    <2>1. n[1] \in Labels /\ n = Node(n[1], n[2]) /\ n[2] \in RowIds \cup Uploads
      BY NodesByKind
    <2>2. PICK l, x : l = n[1] /\ x = n[2]
      OBVIOUS
    <2>3. n = <<l, x>> /\ l \in Labels /\ x \in RowIds \cup Uploads
      BY <2>1, <2>2 DEF Node
    <2> QED BY <2>3
  <1> QED BY <1>1

LEMMA BuildIndexStep ==
    ASSUME GraphInv, NEW p \in Pods, BuildIndex(p)
    PROVE  GraphInv'
  <1>t. GraphRest /\ Graphs /\ Seeded /\ Indexed
    BY GraphInvParts
  <1>1. /\ UNCHANGED <<csv, mem, neo, seeder, completed, starts, stops, uploads>>
        /\ index' = [index EXCEPT ![p] = [built |-> TRUE, items |-> Corpus(neo.nodes)]]
        /\ early' = (early \/ ~completed)
    BY DEF BuildIndex
  <1>c. csv \in DataSets /\ GraphsOf(mem, neo, early) /\ csv' = csv
    BY <1>t, <1>1, GraphsNext DEF GraphRest
  <1>2. neo.nodes \subseteq AllRowNodes \cup Uploaded
    BY <1>c DEF GraphsOf
  <1>3. Corpus(neo.nodes) \in SUBSET (Labels \X (RowIds \cup Uploads))
    BY <1>c, <1>2, NodesTyped DEF Corpus
  <1>4. index' \in [Pods -> [built : BOOLEAN, items : SUBSET (Labels \X (RowIds \cup Uploads))]]
    BY <1>t, <1>1, <1>3 DEF GraphRest
  <1>5. early' \in BOOLEAN /\ completed' \in BOOLEAN
    BY <1>t, <1>1 DEF GraphRest
  <1>6. GraphRest'
    BY <1>t, <1>1, <1>4, <1>5, RestNext DEF GraphRest
  <1>7. Seeded'
    BY <1>t, <1>1, SeededKept
  <1>8. GraphsOf(mem', neo', early')
    BY <1>c, <1>1 DEF GraphsOf
  <1>9. Graphs'
    BY <1>c, <1>8, GraphsNext
  <1>10. ASSUME completed PROVE Corpus(neo.nodes) = Corpus(AllRowNodes)
    BY <1>10, <1>t, <1>c, <1>2, SeededWhole, CorpusOfRows
  <1>11. ASSUME NEW o \in Pods
         PROVE  /\ index'[o].items \subseteq Corpus(neo.nodes)
                /\ ~early' /\ index'[o].built => index'[o].items = Corpus(AllRowNodes)
    <2>1. CASE o = p
      <3>1. index'[o].items = Corpus(neo.nodes)
        BY <1>t, <1>1, <2>1 DEF GraphRest
      <3> QED BY <1>1, <1>10, <3>1
    <2>2. CASE o # p
      <3>1. index'[o] = index[o]
        BY <1>t, <1>1, <2>2 DEF GraphRest
      <3> QED BY <1>t, <1>1, <3>1 DEF Indexed
    <2> QED BY <2>1, <2>2
  <1>12. Indexed'
    <2>1. AllRowNodes' = AllRowNodes
      BY <1>c, SameData
    <2> QED BY <1>1, <1>11, <2>1 DEF Indexed, Corpus
  <1> QED BY <1>6, <1>7, <1>9, <1>12 DEF GraphInv, GraphRest

LEMMA GraphInitInv == GraphInit => GraphInv
  <1> SUFFICES ASSUME GraphInit PROVE GraphInv
    OBVIOUS
  <1>1. /\ csv \in DataSets
        /\ mem.nodes = AllRowNodes /\ mem.relationships = LoadedEdges
        /\ mem = [nodes |-> mem.nodes, relationships |-> mem.relationships]
        /\ neo = [nodes |-> {}, relationships |-> {}]
        /\ seeder = [s \in Seeders |-> Down] /\ index = [p \in Pods |-> NoIndex]
        /\ completed = FALSE /\ early = FALSE
        /\ starts = 0 /\ stops = 0 /\ uploads = 0
    BY DEF GraphInit, LoadedGraph
  <1>2. LoadedEdges \in Seq(AllRowEdges) /\ ToSet(LoadedEdges) = KeptEdges
    BY <1>1, LoadedAreKept
  <1>3. AllRowNodes \cap Uploaded = {}
    <2>1. ASSUME NEW n \in AllRowNodes, n \in Uploaded PROVE FALSE
      <3>1. n[2] \in Uploads /\ n[2] \in RowIds
        BY <1>1, <2>1, NodesByKind
      <3>2. n[2] \in Clients \cup csv.documents \cup Excerpts \cup Policies \cup Regulations \cup Entities
        BY <3>1, RowIdsAre
      <3>3. csv.documents \subseteq Documents
        BY <1>1, DataTypes
      <3> QED BY <3>1, <3>2, <3>3, OneKind
    <2> QED BY <2>1
  <1>4. ASSUME NEW e \in KeptEdges PROVE e \notin UploadEdges
    <2>1. e[3] \notin Uploads
      BY <1>1, RowEdgeKinds DEF KeptEdges
    <2> QED BY <2>1, UploadEdgeKinds
  <1>5. Graphs
    BY <1>1, <1>2, <1>3, <1>4 DEF Graphs, MemEdges
  <1>6. Seeded
    BY <1>1 DEF Seeded, Doing, Down
  <1>7. Indexed
    BY <1>1 DEF Indexed, NoIndex
  <1>8. GraphRest
    <2>1. NoIndex \in [built : BOOLEAN, items : SUBSET (Labels \X (RowIds \cup Uploads))]
      BY DEF NoIndex
    <2>2. index \in [Pods -> [built : BOOLEAN, items : SUBSET (Labels \X (RowIds \cup Uploads))]]
      BY <1>1, <2>1
    <2>3. seeder \in [Seeders -> {Down, Checking, Up} \cup {Seeding(i) : i \in 1 .. Len(Statements)}]
      BY <1>1
    <2>4. starts \in 0 .. MaxStarts /\ stops \in 0 .. MaxStops /\ uploads \in 0 .. MaxUploads
      BY <1>1, GraphBounds
    <2>5. completed \in BOOLEAN /\ early \in BOOLEAN
      BY <1>1
    <2> QED BY <1>1, <2>2, <2>3, <2>4, <2>5 DEF GraphRest
  <1> QED BY <1>5, <1>6, <1>7, <1>8, GraphInvParts

LEMMA GraphNextInv == GraphInv /\ [GraphNext]_graphVars => GraphInv'
  <1> SUFFICES ASSUME GraphInv, [GraphNext]_graphVars PROVE GraphInv'
    OBVIOUS
  <1>1. ASSUME NEW s \in Seeders, Start(s) PROVE GraphInv'
    BY <1>1, StartStep
  <1>2. ASSUME NEW s \in Seeders, Seed(s) PROVE GraphInv'
    BY <1>2, SeedStep
  <1>3. ASSUME NEW s \in Seeders, SeedFails(s) PROVE GraphInv'
    BY <1>3, SeedFailsStep
  <1>4. ASSUME NEW p \in Pods, CheckEmpty(p) PROVE GraphInv'
    BY <1>4, CheckEmptyStep
  <1>5. ASSUME NEW p \in Pods, Stop(p) PROVE GraphInv'
    BY <1>5, StopStep
  <1>6. ASSUME NEW p \in Pods, BuildIndex(p) PROVE GraphInv'
    BY <1>6, BuildIndexStep
  <1>7. CASE Upload
    BY <1>7, UploadStep
  <1>8. CASE UNCHANGED graphVars
    <2>1. UNCHANGED <<csv, mem, neo, index, seeder, completed, early, starts, stops, uploads>>
      BY <1>8 DEF graphVars
    <2>2. GraphRest /\ Graphs /\ Seeded /\ Indexed
      BY GraphInvParts
    <2>3. GraphRest'
      BY <2>1, <2>2, RestNext DEF GraphRest
    <2>4. Graphs'
      BY <2>1, <2>2, GraphsNext
    <2>5. Seeded'
      BY <2>1, <2>2, SeededKept
    <2>6. Indexed'
      BY <2>1, <2>2, IndexedKept
    <2> QED BY <2>3, <2>4, <2>5, <2>6 DEF GraphInv, GraphRest
  <1> QED BY <1>1, <1>2, <1>3, <1>4, <1>5, <1>6, <1>7, <1>8 DEF GraphNext

(* The rows, what seedings have done so far and what uploads added agree   *)
(* in every state, through overlapping seedings, failures and kills        *)
(* (graph_store.py, neo4j_store.py, api.py:69-84).                         *)
THEOREM GraphInvariance == GraphSpec => []GraphInv
  <1> QED BY GraphInitInv, GraphNextInv, PTL DEF GraphSpec

(* The invariant says what the index and the stores hold.                  *)
LEMMA GraphTyped == GraphInv => GraphTypeOK
  <1> SUFFICES ASSUME GraphInv PROVE GraphTypeOK
    OBVIOUS
  <1>t. GraphRest /\ Graphs /\ Seeded /\ Indexed
    BY GraphInvParts
  <1>1. csv \in DataSets /\ csv \in CsvData
    BY <1>t, DataTypes DEF GraphRest
  <1>2. mem.nodes \subseteq AllRowNodes \cup Uploaded /\ neo.nodes \subseteq AllRowNodes \cup Uploaded
    BY <1>t DEF Graphs
  <1>3. /\ mem.nodes \subseteq Labels \X (RowIds \cup Uploads)
        /\ neo.nodes \subseteq Labels \X (RowIds \cup Uploads)
    BY <1>1, <1>2, NodesTyped
  <1>4. \A p \in Pods : index[p].items \subseteq Corpus(neo.nodes)
    BY <1>t DEF Indexed
  <1> QED BY <1>1, <1>3, <1>4, <1>t DEF GraphTypeOK, GraphRest, RowIds

(* Both graphs hold rows and uploads only, an index only what the database *)
(* holds, and a seeding is at one of its statements (graph_store.py,       *)
(* neo4j_store.py).                                                        *)
THEOREM GraphTypeCorrect == GraphSpec => []GraphTypeOK
  <1> QED BY GraphInvariance, GraphTyped, PTL

(* What a completed seeding and uploads that were not early leave apart:   *)
(* edges of a client that is not known.                                    *)
LEMMA OnlyStrangers ==
    ASSUME GraphInv, completed, ~early
    PROVE  /\ neo.nodes = mem.nodes
           /\ \A e \in neo.relationships :
                 e \in MemEdges /\ EdgeOfKind(e) /\ e[1] \in MemIds /\ e[3] \in MemIds
           /\ \A e \in MemEdges :
                 /\ EdgeOfKind(e)
                 /\ e[1] # Stranger => e \in neo.relationships
  <1>t. GraphRest /\ Graphs /\ Seeded /\ Indexed
    BY GraphInvParts
  <1>1. csv \in DataSets
    BY <1>t DEF GraphRest
  <1>2. AllRowNodes \subseteq neo.nodes /\ KeptEdges \subseteq neo.relationships
    BY <1>t, <1>1, SeededWhole
  <1>3. neo.nodes = mem.nodes
    BY <1>t, <1>2 DEF Graphs
  <1>4. ASSUME NEW e \in MemEdges
        PROVE  EdgeOfKind(e) /\ (e[1] # Stranger => e \in neo.relationships)
    <2>1. CASE e \in KeptEdges
      BY <1>1, <1>2, <2>1, RowEdgeKinds DEF KeptEdges
    <2>2. CASE e \in UploadEdges
      BY <1>t, <2>2, UploadEdgeKinds DEF Graphs
    <2> QED BY <1>t, <2>1, <2>2 DEF Graphs
  <1>5. ASSUME NEW e \in neo.relationships
        PROVE  e \in MemEdges /\ e[1] \in MemIds /\ e[3] \in MemIds
    BY <1>t, <1>3 DEF Graphs, MemIds
  <1> QED BY <1>3, <1>4, <1>5

LEMMA SameProfile ==
    ASSUME GraphInv, completed, ~early, NEW c \in Clients
    PROVE  NeoProfile(c) = MemProfile(c)
  <1>1. neo.nodes = mem.nodes
    BY OnlyStrangers
  <1>2. \A e \in neo.relationships :
           e \in MemEdges /\ EdgeOfKind(e) /\ e[1] \in MemIds /\ e[3] \in MemIds
    BY OnlyStrangers
  <1>3. \A e \in MemEdges : EdgeOfKind(e) /\ (e[1] # Stranger => e \in neo.relationships)
    BY OnlyStrangers
  <1>4. NeoDocuments(c) = MemDocuments(c)
    <2>1. c # Stranger
      BY OneKind
    <2> QED BY <1>2, <1>3, <2>1 DEF NeoDocuments, MemDocuments, NeoFrom, MemFrom
  <1>5. NeoOwners(c) = MemOwners(c)
    <2>1. c # Stranger
      BY OneKind
    <2> QED BY <1>2, <1>3, <2>1 DEF NeoOwners, MemOwners, NeoFrom, MemFrom
  <1>6. \A d : NeoEvidence(d) = MemEvidence(d)
    BY <1>1 DEF NeoEvidence, MemEvidence
  <1>7. \A j : NeoRegulations(j) = MemRegulations(j)
    BY <1>1 DEF NeoRegulations, MemRegulations
  <1>8. NeoPolicies(c) = MemPolicies(c)
    <2>1. ASSUME NEW e \in MemEdges, e[2] = "APPLIES_TO" \/ e[2] = "CITES" PROVE e \in neo.relationships
      <3>1. e[1] \in Regulations \/ e[1] \in Policies
        BY <1>3, <2>1 DEF EdgeOfKind
      <3> QED BY <1>3, <3>1, OneKind
    <2>2. \A x : NeoTo("APPLIES_TO", x) = MemTo("APPLIES_TO", x) /\ NeoTo("CITES", x) = MemTo("CITES", x)
      BY <1>2, <2>1 DEF NeoTo, MemTo
    <2>3. \A x : NeoTo("CITES", x) \subseteq MemIds
      BY <1>2 DEF NeoTo
    <2>4. NeoPolicies(c) = UNION {MemTo("CITES", r) : r \in MemTo("APPLIES_TO", c)}
      BY <2>2 DEF NeoPolicies
    <2>5. \A r : MemTo("CITES", r) \subseteq MemIds
      BY <2>2, <2>3
    <2>6. UNION {MemTo("CITES", r) : r \in MemTo("APPLIES_TO", c)} \subseteq MemIds
      BY <2>5
    <2>7. PICK S : S = UNION {MemTo("CITES", r) : r \in MemTo("APPLIES_TO", c)}
      OBVIOUS
    <2>8. S \cap MemIds = S
      BY <2>6, <2>7
    <2>9. MemPolicies(c) = S \cap MemIds
      BY <2>7 DEF MemPolicies
    <2> QED BY <2>4, <2>7, <2>8, <2>9
  <1>9. [d \in NeoDocuments(c) |-> NeoEvidence(d)] = [d \in MemDocuments(c) |-> MemEvidence(d)]
    BY <1>4, <1>6
  <1> QED BY <1>4, <1>5, <1>7, <1>8, <1>9 DEF NeoProfile, MemProfile

LEMMA SameNeighbours ==
    ASSUME GraphInv, completed, ~early, NEW x \in Policies \cup Regulations \cup Excerpts
    PROVE  Augmented(NeoNeighbours(x), x) = Augmented(MemNeighbours(x), x)
  <1>1. neo.nodes = mem.nodes
    BY OnlyStrangers
  <1>2. \A e \in neo.relationships : e \in MemEdges /\ EdgeOfKind(e)
    BY OnlyStrangers
  <1>3. \A e \in MemEdges : EdgeOfKind(e) /\ (e[1] # Stranger => e \in neo.relationships)
    BY OnlyStrangers
  <1>4. x # Stranger /\ x \notin Documents /\ x \notin Uploads
    BY OneKind
  <1>5. OtherEnds(neo.relationships, x) = OtherEnds(MemEdges, x)
    <2>1. ASSUME NEW e \in MemEdges, e[1] = x \/ e[3] = x PROVE e \in neo.relationships
      <3>1. CASE e[1] = Stranger
        <4>1. Stranger \notin Clients /\ Stranger \notin Excerpts
              /\ Stranger \notin Policies /\ Stranger \notin Regulations
          BY OneKind
        <4>2. e[3] \in Documents \cup Uploads
          BY <1>3, <3>1, <4>1 DEF EdgeOfKind
        <4> QED BY <1>4, <2>1, <3>1, <4>2
      <3> QED BY <1>3, <3>1
    <2> QED BY <1>2, <2>1 DEF OtherEnds
  <1>6. ASSUME NEW y \in Aliases(x), y # x, NEW z \in OtherEnds(neo.relationships, y)
        PROVE  z = x
    <2>1. y \in Policies /\ csv.cites[y] = x
      <3>1. csv \in DataSets
        BY DEF GraphInv
      <3>2. \A e \in Excerpts : csv.about[e] \in Documents
        BY <3>1, DataTypes
      <3> QED BY <1>4, <1>6, <3>2 DEF Aliases
    <2>2. PICK e \in neo.relationships : (e[1] = y /\ z = e[3]) \/ (e[3] = y /\ z = e[1])
      <3>1. \/ z \in {e[3] : e \in {f \in neo.relationships : f[1] = y}}
            \/ z \in {e[1] : e \in {f \in neo.relationships : f[3] = y}}
        BY <1>6 DEF OtherEnds
      <3>2. CASE z \in {e[3] : e \in {f \in neo.relationships : f[1] = y}}
        <4>1. PICK g \in {f \in neo.relationships : f[1] = y} : z = g[3]
          BY <3>2
        <4>2. g \in neo.relationships /\ g[1] = y
          BY <4>1
        <4> QED BY <4>1, <4>2
      <3>3. CASE z \in {e[1] : e \in {f \in neo.relationships : f[3] = y}}
        <4>1. PICK g \in {f \in neo.relationships : f[3] = y} : z = g[1]
          BY <3>3
        <4>2. g \in neo.relationships /\ g[3] = y
          BY <4>1
        <4> QED BY <4>1, <4>2
      <3> QED BY <3>1, <3>2, <3>3
    <2>3. /\ y \notin Clients /\ y \notin Documents /\ y \notin Excerpts /\ y \notin Regulations
          /\ y \notin Entities /\ y \notin Uploads /\ y # Stranger
      BY <2>1, OneKind
    <2>4. EdgeOfKind(e)
      BY <1>2
    <2>5. e[1] = y /\ e[3] = csv.cites[y]
      BY <2>2, <2>3, <2>4 DEF EdgeOfKind
    <2> QED BY <2>1, <2>2, <2>3, <2>5, <2>4 DEF EdgeOfKind
  <1>7. NeoNeighbours(x) \ {x} = (OtherEnds(neo.relationships, x) \cap Texts(neo.nodes)) \ {x}
    <2>1. x \in Aliases(x)
      BY DEF Aliases
    <2>2. ASSUME NEW z, z # x
          PROVE  z \in UNION {OtherEnds(neo.relationships, y) : y \in Aliases(x)}
                 <=> z \in OtherEnds(neo.relationships, x)
      <3>1. ASSUME NEW y \in Aliases(x), z \in OtherEnds(neo.relationships, y)
            PROVE  z \in OtherEnds(neo.relationships, x)
        BY <1>6, <2>2, <3>1
      <3>2. OtherEnds(neo.relationships, x) \in {OtherEnds(neo.relationships, y) : y \in Aliases(x)}
        BY <2>1
      <3> QED BY <3>1, <3>2
    <2>3. PICK U : U = UNION {OtherEnds(neo.relationships, y) : y \in Aliases(x)}
      OBVIOUS
    <2>4. \A z : z # x => (z \in U <=> z \in OtherEnds(neo.relationships, x))
      BY <2>2, <2>3
    <2>5. NeoNeighbours(x) = U \cap Texts(neo.nodes)
      BY <2>3 DEF NeoNeighbours
    <2> QED BY <2>4, <2>5
  <1> QED BY <1>1, <1>5, <1>7 DEF MemNeighbours, Augmented

LEMMA SameCorpus ==
    ASSUME GraphInv, ~early, NEW p \in Pods, index[p].built
    PROVE  index[p].items = Corpus(mem.nodes)
  <1>t. GraphRest /\ Graphs /\ Indexed
    BY GraphInvParts
  <1>1. Corpus(mem.nodes) = Corpus(AllRowNodes)
    BY <1>t, CorpusOfRows DEF GraphRest, Graphs
  <1> QED BY <1>t, <1>1 DEF Indexed

LEMMA InvAgrees == GraphInv => BackendsAgree
  BY SameProfile, SameNeighbours, SameCorpus DEF BackendsAgree

(* Once some seeding has reached its end, whoever else seeds, stops or is  *)
(* killed, both graphs give every client the same profile and every hit    *)
(* the same neighbours, and an index is whole (app/api.py:69-84,           *)
(* neo4j_store.py load_demo_data, graph_store.py:44-45).                   *)
THEOREM BackendsAgreed == GraphSpec => []BackendsAgree
  <1> QED BY GraphInvariance, InvAgrees, PTL

-----------------------------------------------------------------------------
(* ClientAccounts. A repeat application extends the account, on every      *)
(* replica.                                                                *)

(* The form a replica is serving.                                          *)
Serving(p) == ~At(p, "idle")
FormOf(p) == IF At(p, "load") THEN intake[p] ELSE intake[p].form
Filed(form) == form.id \in 1 .. Len(filed) /\ filed[form.id] = form.company

(* Every application is signed up for once, by its own replica.            *)
FormsOnce ==
    /\ \A p \in Replicas : Serving(p) => Filed(FormOf(p))
    /\ \A p, q \in Replicas : p # q /\ Serving(p) /\ Serving(q) => FormOf(p).id # FormOf(q).id
    /\ \A k \in Keys : \A i \in 1 .. Len(asked[k]) :
          /\ Filed(asked[k][i])
          /\ \A p \in Replicas : Serving(p) => FormOf(p).id # asked[k][i].id
    /\ \A p \in Replicas : At(p, "save") => intake[p].form.address = intake[p].address

(* The account of an address as its sign-ups made it.                      *)
AsAsked(account, forms) ==
    IF forms = <<>> THEN account = NoAccount
    ELSE /\ account # NoAccount
         /\ account.password = forms[1].password
         /\ account.client = forms[Len(forms)].company
         /\ account.linked = [i \in 1 .. Len(forms) |-> forms[i].id]

Saving(p, k) == At(p, "save") /\ KeyOf[intake[p].address] = k

(* ... of an address without raises and overlaps: it is in the store only, *)
(* and the one who saves it has read it as it is.                          *)
Orderly(k) ==
    /\ AsAsked(accounts[k], asked[k])
    /\ \A p \in Replicas :
          /\ fallback[p][k] = NoAccount
          /\ Saving(p, k) => /\ intake[p].account = Registered(intake[p].form, accounts[k])
                             /\ \A q \in Replicas : Saving(q, k) => q = p

AccountInv == AccountTypeOK /\ FormsOnce /\ \A k \in Keys \ disturbed : Orderly(k)

-----------------------------------------------------------------------------

LEMMA KeysOK ==
    /\ Keys \subseteq Spellings
    /\ \A a \in Spellings : KeyOf[a] \in Keys /\ KeyFor(a) = KeyOf[a]
  BY KeyAssumption DEF Keys, KeyFor

Intakes == {NoIntake} \cup Forms \cup Saves
AnyAccount == Accounts \cup {NoAccount}

LEMMA AccountFields ==
    ASSUME AccountTypeOK
    PROVE  /\ filed \in Seq(Companies) /\ Len(filed) \in Nat
           /\ \A i \in 1 .. Len(filed) : filed[i] \in Companies
           /\ intake \in [Replicas -> Intakes]
           /\ \A p \in Replicas : At(p, "load") => intake[p] \in Forms /\ FormOf(p) = intake[p]
           /\ \A p \in Replicas : At(p, "save") => intake[p] \in Saves /\ FormOf(p) = intake[p].form
           /\ \A p \in Replicas : Serving(p) => FormOf(p) \in Forms
           /\ \A p \in Replicas : Serving(p) <=> At(p, "load") \/ At(p, "save")
           /\ \A k \in Keys : asked[k] \in Seq(Forms) /\ Len(asked[k]) \in Nat
           /\ \A k \in Keys : \A i \in 1 .. Len(asked[k]) : asked[k][i] \in Forms
           /\ accounts \in [Spellings -> AnyAccount]
           /\ fallback \in [Replicas -> [Spellings -> AnyAccount]]
  <1>1. filed \in Seq(Companies) /\ Len(filed) \in Nat /\ \A i \in 1 .. Len(filed) : filed[i] \in Companies
    BY Members DEF AccountTypeOK
  <1>2. intake \in [Replicas -> Intakes]
    BY DEF AccountTypeOK, Intakes
  <1>3. ASSUME NEW p \in Replicas
        PROVE  /\ At(p, "load") => intake[p] \in Forms /\ FormOf(p) = intake[p]
               /\ At(p, "save") => intake[p] \in Saves /\ FormOf(p) = intake[p].form /\ FormOf(p) \in Forms
               /\ Serving(p) <=> At(p, "load") \/ At(p, "save")
    <2>1. intake[p] = NoIntake \/ intake[p] \in Forms \/ intake[p] \in Saves
      BY <1>2 DEF Intakes
    <2>2. CASE intake[p] = NoIntake
      BY <2>2 DEF NoIntake, At, Serving
    <2>3. CASE intake[p] \in Forms
      <3>1. intake[p].step = "load"
        BY <2>3 DEF Forms
      <3> QED BY <2>3, <3>1 DEF At, Serving, FormOf
    <2>4. CASE intake[p] \in Saves
      <3>1. intake[p].step = "save" /\ intake[p].form \in Forms
        BY <2>4 DEF Saves
      <3> QED BY <2>4, <3>1 DEF At, Serving, FormOf
    <2> QED BY <2>1, <2>2, <2>3, <2>4
  <1>4. \A k \in Keys : asked[k] \in Seq(Forms)
    BY DEF AccountTypeOK
  <1>5. accounts \in [Spellings -> AnyAccount] /\ fallback \in [Replicas -> [Spellings -> AnyAccount]]
    BY DEF AccountTypeOK, AnyAccount
  <1>6. \A k \in Keys : Len(asked[k]) \in Nat /\ \A i \in 1 .. Len(asked[k]) : asked[k][i] \in Forms
    BY <1>4, Members
  <1> QED BY <1>1, <1>2, <1>3, <1>4, <1>5, <1>6

LEMMA RegisteredOK ==
    ASSUME NEW form \in Forms, NEW existing \in AnyAccount
    PROVE  Registered(form, existing) \in Accounts
  <1>1. form.password \in Passwords /\ form.company \in Companies /\ form.id \in 1 .. MaxApplications
    BY DEF Forms
  <1>2. CASE existing = NoAccount
    <2>1. <<form.id>> \in Seq(1 .. MaxApplications)
      BY <1>1
    <2> QED BY <1>1, <1>2, <2>1 DEF Registered, Accounts
  <1>3. CASE existing # NoAccount
    <2>1. existing.password \in Passwords /\ existing.linked \in Seq(1 .. MaxApplications)
      BY <1>3 DEF AnyAccount, Accounts
    <2>2. Append(existing.linked, form.id) \in Seq(1 .. MaxApplications)
      BY <1>1, <2>1
    <2> QED BY <1>1, <1>3, <2>1, <2>2 DEF Registered, Accounts
  <1> QED BY <1>2, <1>3

(* What signing up makes of an account that is as asked so far.            *)
LEMMA AskedNext ==
    ASSUME NEW account \in AnyAccount, NEW forms \in Seq(Forms), NEW form \in Forms,
           AsAsked(account, forms), \A i \in 1 .. Len(forms) : form.id # forms[i].id
    PROVE  AsAsked(Registered(form, account), Append(forms, form))
  <1> DEFINE r == Registered(form, account)
             fs == Append(forms, form)
  <1>1. /\ Len(forms) \in Nat /\ fs \in Seq(Forms) /\ Len(fs) = Len(forms) + 1
        /\ fs[Len(forms) + 1] = form /\ \A i \in 1 .. Len(forms) : fs[i] = forms[i]
    BY Appends
  <1>2. r \in Accounts /\ r # NoAccount
    BY RegisteredOK, NoAccountAssumption DEF Accounts
  <1>3. fs # <<>>
    BY <1>1
  <1>4. CASE forms = <<>>
    <2>1. account = NoAccount /\ Len(forms) = 0
      BY <1>4 DEF AsAsked
    <2>2. r.password = form.password /\ r.client = form.company /\ r.linked = <<form.id>>
      BY <2>1 DEF Registered
    <2> HIDE DEF r, fs
    <2>3. <<form.id>> = [i \in 1 .. 1 |-> fs[i].id]
      BY <1>1, <2>1
    <2> QED BY <1>1, <1>2, <1>3, <2>1, <2>2, <2>3 DEF AsAsked, r, fs
  <1>5. CASE forms # <<>>
    <2>1. /\ account # NoAccount /\ account.password = forms[1].password
          /\ account.linked = [i \in 1 .. Len(forms) |-> forms[i].id]
      BY <1>5 DEF AsAsked
    <2>2. Len(forms) \in Nat \ {0} /\ 1 \in 1 .. Len(forms)
      BY <1>1, <1>5
    <2>3. account.linked \in Seq(1 .. MaxApplications)
      BY <2>1 DEF AnyAccount, Accounts
    <2>4. DOMAIN account.linked = 1 .. Len(forms) /\ Len(account.linked) = Len(forms)
      BY <1>1, <2>1, <2>3
    <2>5. form.id \notin ToSet(account.linked)
      BY <2>1, <2>4 DEF ToSet
    <2>6. r.password = account.password /\ r.client = form.company /\ r.linked = Append(account.linked, form.id)
      BY <2>1, <2>5 DEF Registered
    <2> HIDE DEF r, fs
    <2>7. Append(account.linked, form.id) = [i \in 1 .. Len(forms) + 1 |-> fs[i].id]
      <3> DEFINE l == Append(account.linked, form.id)
      <3>1. form.id \in 1 .. MaxApplications
        BY DEF Forms
      <3>2. /\ l \in Seq(1 .. MaxApplications) /\ Len(l) = Len(forms) + 1
            /\ \A i \in 1 .. Len(forms) : l[i] = account.linked[i] /\ l[Len(forms) + 1] = form.id
        BY <2>3, <2>4, <3>1, Appends
      <3>3. l[Len(forms) + 1] = form.id
        BY <2>2, <3>2
      <3> HIDE DEF l
      <3>4. DOMAIN l = 1 .. Len(forms) + 1
        BY <3>2, Members
      <3>5. l = [i \in 1 .. Len(forms) + 1 |-> l[i]]
        BY <3>2, <3>4
      <3>6. \A i \in 1 .. Len(forms) + 1 : l[i] = fs[i].id
        <4> TAKE i \in 1 .. Len(forms) + 1
        <4>1. CASE i = Len(forms) + 1
          BY <1>1, <3>3, <4>1
        <4>2. CASE i # Len(forms) + 1
          <5>1. i \in 1 .. Len(forms)
            BY <1>1, <4>2
          <5> QED BY <1>1, <2>1, <3>2, <5>1
        <4> QED BY <4>1, <4>2
      <3> QED BY <3>5, <3>6 DEF l
    <2>8. fs[1] = forms[1]
      BY <1>1, <2>2
    <2> QED BY <1>1, <1>2, <1>3, <2>1, <2>6, <2>7, <2>8 DEF AsAsked, r, fs
  <1> QED BY <1>4, <1>5

-----------------------------------------------------------------------------
(* The actions.                                                            *)

LEMMA IntakeSet ==
    ASSUME AccountTypeOK, NEW p \in Replicas, NEW r \in Intakes, intake' = [intake EXCEPT ![p] = r]
    PROVE  /\ intake' \in [Replicas -> Intakes] /\ intake'[p] = r
           /\ \A q \in Replicas : q # p =>
                 /\ intake'[q] = intake[q] /\ FormOf(q)' = FormOf(q)
                 /\ \A step : At(q, step)' <=> At(q, step)
                 /\ Serving(q)' <=> Serving(q)
  <1>1. /\ intake' \in [Replicas -> Intakes] /\ intake'[p] = r
        /\ \A q \in Replicas : q # p => intake'[q] = intake[q]
    BY AccountFields
  <1> QED BY <1>1 DEF FormOf, At, Serving

LEMMA ApplyStep ==
    ASSUME AccountInv, NEW p \in Replicas, NEW company \in Companies, NEW address \in Spellings,
           NEW password \in Passwords, NEW signsUp \in BOOLEAN,
           Apply(p, company, address, password, signsUp)
    PROVE  AccountInv'
  <1>1. AccountTypeOK /\ At(p, "idle") /\ Len(filed) < MaxApplications
    BY DEF AccountInv, Apply
  <1> PICK n : n = Len(filed) + 1
    OBVIOUS
  <1>2. n \in 1 .. MaxApplications /\ n \notin 1 .. Len(filed) /\ Len(filed) \in Nat
    BY <1>1, AccountFields, AccountBounds
  <1> DEFINE r == IF signsUp
                  THEN [step |-> "load", address |-> address, password |-> password,
                        company |-> company, id |-> Len(filed) + 1]
                  ELSE NoIntake
  <1>3. /\ signsUp => r \in Forms /\ r.step = "load" /\ r.id = n /\ r.company = company
        /\ ~signsUp => r = NoIntake
    BY <1>2 DEF Forms
  <1>4. r \in Intakes
    BY <1>3 DEF Intakes
  <1>5. intake' = [intake EXCEPT ![p] = r] /\ filed' = Append(filed, company)
    BY DEF Apply
  <1>6. /\ accounts' = accounts /\ fallback' = fallback /\ asked' = asked /\ disturbed' = disturbed
        /\ raises' = raises /\ kills' = kills
    BY DEF Apply
  <1> HIDE DEF r
  <1>7. /\ intake' \in [Replicas -> Intakes] /\ intake'[p] = r
        /\ \A q \in Replicas : q # p =>
              /\ intake'[q] = intake[q] /\ FormOf(q)' = FormOf(q)
              /\ \A step : At(q, step)' <=> At(q, step)
              /\ Serving(q)' <=> Serving(q)
    BY <1>1, <1>4, <1>5, IntakeSet
  <1>8. /\ filed' \in Seq(Companies) /\ Len(filed') = n /\ filed'[n] = company
        /\ \A i \in 1 .. Len(filed) : filed'[i] = filed[i]
    BY <1>1, <1>5, AccountFields, Appends
  <1>9. AccountTypeOK'
    BY <1>1, <1>6, <1>7, <1>8 DEF AccountTypeOK, Intakes
  <1>10. ASSUME NEW f, Filed(f)
         PROVE  f.id \in 1 .. Len(filed') /\ filed'[f.id] = f.company /\ f.id # n
    BY <1>2, <1>8, <1>10 DEF Filed
  <1>11. Serving(p)' => signsUp /\ FormOf(p)' = r
    BY <1>3, <1>7 DEF Serving, At, FormOf, NoIntake
  <1>12. ~At(p, "save")'
    BY <1>3, <1>7 DEF At, NoIntake
  <1>13. FormsOnce'
    <2>1. ASSUME NEW q \in Replicas, Serving(q)'
          PROVE  Filed(FormOf(q))'
      <3>1. CASE q = p
        BY <1>2, <1>3, <1>8, <1>11, <2>1, <3>1 DEF Filed
      <3>2. CASE q # p
        <4> PICK f : f = FormOf(q)
          OBVIOUS
        <4>1. Filed(f) /\ FormOf(q)' = f
          BY <1>7, <2>1, <3>2 DEF AccountInv, FormsOnce
        <4> QED BY <1>10, <4>1 DEF Filed
      <3> QED BY <3>1, <3>2
    <2>2. ASSUME NEW q \in Replicas, NEW u \in Replicas, q # u, Serving(q)', Serving(u)'
          PROVE  FormOf(q)'.id # FormOf(u)'.id
      <3>1. \A v \in Replicas : v # p /\ Serving(v)' => FormOf(v)' = FormOf(v) /\ FormOf(v).id # n
        BY <1>7, <1>10 DEF AccountInv, FormsOnce
      <3>2. CASE q = p
        BY <1>3, <1>11, <2>2, <3>1, <3>2
      <3>3. CASE u = p
        BY <1>3, <1>11, <2>2, <3>1, <3>3
      <3>4. CASE q # p /\ u # p
        BY <1>7, <2>2, <3>1, <3>4 DEF AccountInv, FormsOnce
      <3> QED BY <3>2, <3>3, <3>4
    <2>3. ASSUME NEW k \in Keys, NEW i \in 1 .. Len(asked[k])
          PROVE  Filed(asked[k][i])' /\ \A q \in Replicas : Serving(q)' => FormOf(q)'.id # asked[k][i].id
      <3> PICK f : f = asked[k][i]
        OBVIOUS
      <3>1. Filed(f) /\ \A q \in Replicas : Serving(q) => FormOf(q).id # f.id
        BY DEF AccountInv, FormsOnce
      <3>2. f.id # n /\ Filed(f)'
        BY <1>10, <3>1 DEF Filed
      <3>3. \A q \in Replicas : Serving(q)' => FormOf(q)'.id # f.id
        BY <1>3, <1>7, <1>11, <3>1, <3>2
      <3> QED BY <1>6, <3>2, <3>3 DEF Filed
    <2>4. \A q \in Replicas : At(q, "save")' => intake'[q].form.address = intake'[q].address
      BY <1>7, <1>12 DEF AccountInv, FormsOnce
    <2> QED BY <1>6, <2>1, <2>2, <2>3, <2>4 DEF FormsOnce, Keys
  <1>14. \A q \in Replicas, k \in Keys : Saving(q, k)' => Saving(q, k) /\ intake'[q] = intake[q]
    BY <1>7, <1>12 DEF Saving
  <1>15. \A k \in Keys \ disturbed' : Orderly(k)'
    BY <1>6, <1>14 DEF AccountInv, Orderly
  <1> QED BY <1>6, <1>9, <1>13, <1>15 DEF AccountInv, Keys

LEMMA LoadStep ==
    ASSUME AccountInv, NEW p \in Replicas, NEW ok \in BOOLEAN, LoadAccount(p, ok)
    PROVE  AccountInv'
  <1>1. AccountTypeOK /\ At(p, "load") /\ Serving(p) /\ intake[p] \in Forms /\ FormOf(p) = intake[p]
    BY AccountFields DEF AccountInv, LoadAccount
  <1> PICK form \in Forms : form = intake[p]
    BY <1>1
  <1> PICK key \in Keys : key = KeyOf[form.address]
    BY KeysOK DEF Forms
  <1>2. form.address \in Spellings /\ KeyFor(form.address) = key /\ key \in Spellings
    BY KeysOK DEF Forms
  <1> PICK existing : existing = Load(p, form.address, ok)
    OBVIOUS
  <1>3. /\ existing \in AnyAccount
        /\ existing = IF ok /\ accounts[key] # NoAccount THEN accounts[key] ELSE fallback[p][key]
    BY <1>1, <1>2, AccountFields DEF Load
  <1> DEFINE r == [step |-> "save", address |-> form.address, form |-> form,
                   account |-> Registered(form, existing)]
  <1>4. /\ r \in Saves /\ r.step = "save" /\ r.form = form /\ r.address = form.address
        /\ r.account = Registered(form, existing)
    BY <1>2, <1>3, RegisteredOK DEF Saves
  <1>5. r \in Intakes
    BY <1>4 DEF Intakes
  <1>6. /\ intake' = [intake EXCEPT ![p] = r]
        /\ fallback' =
              IF existing # NoAccount /\ (~ok \/ accounts[key] = NoAccount)
              THEN [fallback EXCEPT ![p][key] = Registered(form, existing)]
              ELSE fallback
        /\ disturbed' = IF ok /\ Between(p, key) = {} THEN disturbed ELSE disturbed \cup {key}
    BY <1>2 DEF LoadAccount
  <1>7. /\ filed' = filed /\ accounts' = accounts /\ asked' = asked /\ kills' = kills
        /\ raises' \in 0 .. MaxRaises
    BY <1>1, AccountBounds DEF LoadAccount, Outcome, AccountTypeOK
  <1> HIDE DEF r
  <1>8. /\ intake' \in [Replicas -> Intakes] /\ intake'[p] = r
        /\ \A q \in Replicas : q # p =>
              /\ intake'[q] = intake[q] /\ FormOf(q)' = FormOf(q)
              /\ \A step : At(q, step)' <=> At(q, step)
              /\ Serving(q)' <=> Serving(q)
    BY <1>1, <1>5, <1>6, IntakeSet
  <1>9. FormOf(p)' = form /\ Serving(p)' /\ At(p, "save")'
    BY <1>4, <1>8 DEF FormOf, Serving, At
  <1>10. /\ fallback' \in [Replicas -> [Spellings -> AnyAccount]]
         /\ \A q \in Replicas, k \in Spellings : k # key => fallback'[q][k] = fallback[q][k]
         /\ existing = NoAccount \/ (ok /\ accounts[key] # NoAccount) => fallback' = fallback
    <2>1. fallback \in [Replicas -> [Spellings -> AnyAccount]]
      BY <1>1, AccountFields
    <2>2. Registered(form, existing) \in AnyAccount
      BY <1>3, RegisteredOK DEF AnyAccount
    <2> QED BY <1>2, <1>6, <2>1, <2>2
  <1>11. AccountTypeOK'
    <2>1. \A k \in Spellings \ Keys :
             accounts'[k] = NoAccount /\ \A q \in Replicas : fallback'[q][k] = NoAccount
      BY <1>1, <1>7, <1>10 DEF AccountTypeOK
    <2> QED BY <1>1, <1>6, <1>7, <1>8, <1>10, <2>1 DEF AccountTypeOK, Intakes, AnyAccount, Keys
  <1>12. \A q \in Replicas : (Serving(q)' <=> Serving(q)) /\ (Serving(q) => FormOf(q)' = FormOf(q))
    BY <1>1, <1>8, <1>9
  <1>13. FormsOnce'
    <2>1. \A q \in Replicas : At(q, "save")' => intake'[q].form.address = intake'[q].address
      BY <1>4, <1>8 DEF AccountInv, FormsOnce
    <2> QED BY <1>7, <1>12, <2>1 DEF AccountInv, FormsOnce, Filed, Keys
  <1>14. ASSUME NEW k \in Keys \ disturbed'
         PROVE  Orderly(k)'
    <2>1. k \notin disturbed /\ Orderly(k)
      BY <1>6, <1>14 DEF AccountInv
    <2>2. AsAsked(accounts'[k], asked'[k])
      BY <1>7, <2>1 DEF Orderly
    <2>3. CASE k # key
      <3>1. ~Saving(p, k)' /\ \A q \in Replicas :
               q # p => (Saving(q, k)' <=> Saving(q, k)) /\ intake'[q] = intake[q]
        BY <1>4, <1>8, <2>3 DEF Saving
      <3>2. \A q \in Replicas : fallback'[q][k] = NoAccount
        BY <1>10, <2>1, <2>3, KeysOK DEF Orderly
      <3> QED BY <1>7, <2>1, <2>2, <3>1, <3>2 DEF Orderly
    <2>4. CASE k = key
      <3>1. ok /\ Between(p, key) = {}
        BY <1>6, <1>14, <2>4
      <3>2. \A q \in Replicas : fallback[q][key] = NoAccount
        BY <2>1, <2>4 DEF Orderly
      <3>3. existing = accounts[key] /\ fallback' = fallback
        BY <1>3, <1>10, <3>1, <3>2
      <3>4. \A q \in Replicas : q # p => ~Saving(q, key)'
        BY <1>8, <3>1 DEF Between, Saving
      <3>5. Saving(p, key)' /\ intake'[p].account = Registered(intake'[p].form, accounts'[key])
        BY <1>4, <1>7, <1>8, <1>9, <3>3 DEF Saving
      <3> QED BY <2>2, <2>4, <3>2, <3>3, <3>4, <3>5 DEF Orderly
    <2> QED BY <2>3, <2>4
  <1> QED BY <1>7, <1>11, <1>13, <1>14 DEF AccountInv, Keys

LEMMA SaveStep ==
    ASSUME AccountInv, NEW p \in Replicas, NEW ok \in BOOLEAN, SaveAccount(p, ok)
    PROVE  AccountInv'
  <1>1. AccountTypeOK /\ At(p, "save") /\ Serving(p) /\ intake[p] \in Saves /\ FormOf(p) = intake[p].form
    BY AccountFields DEF AccountInv, SaveAccount
  <1> PICK form \in Forms, account \in Accounts, address \in Spellings :
             form = intake[p].form /\ account = intake[p].account /\ address = intake[p].address
    BY <1>1 DEF Saves
  <1> PICK key \in Keys : key = KeyOf[address] /\ key = KeyFor(address) /\ key \in Spellings
    BY KeysOK
  <1>2. /\ intake' = [intake EXCEPT ![p] = NoIntake] /\ filed' = filed /\ kills' = kills
        /\ ok => accounts' = [accounts EXCEPT ![key] = account] /\ fallback' = fallback
        /\ ~ok => fallback' = [fallback EXCEPT ![p][key] = account] /\ accounts' = accounts
        /\ asked' = [asked EXCEPT ![key] = Append(@, form)]
        /\ disturbed' = IF ok THEN disturbed ELSE disturbed \cup {key}
    BY DEF SaveAccount
  <1>3. raises' \in 0 .. MaxRaises
    BY <1>1, AccountBounds DEF SaveAccount, Outcome, AccountTypeOK
  <1>4. /\ intake' \in [Replicas -> Intakes] /\ intake'[p] = NoIntake
        /\ \A q \in Replicas : q # p =>
              /\ intake'[q] = intake[q] /\ FormOf(q)' = FormOf(q)
              /\ \A step : At(q, step)' <=> At(q, step)
              /\ Serving(q)' <=> Serving(q)
    <2>1. NoIntake \in Intakes
      BY DEF Intakes
    <2> QED BY <1>1, <1>2, <2>1, IntakeSet
  <1>5. ~Serving(p)' /\ ~At(p, "save")'
    BY <1>4 DEF Serving, At, NoIntake
  <1>6. /\ asked' \in [Keys -> Seq(Forms)] /\ asked'[key] = Append(asked[key], form)
        /\ \A k \in Keys : k # key => asked'[k] = asked[k]
    <2>1. asked \in [Keys -> Seq(Forms)]
      BY <1>1 DEF AccountTypeOK
    <2>2. Append(asked[key], form) \in Seq(Forms)
      BY <2>1, Appends
    <2> QED BY <1>2, <2>1, <2>2
  <1>7. /\ accounts' \in [Spellings -> AnyAccount] /\ fallback' \in [Replicas -> [Spellings -> AnyAccount]]
        /\ \A k \in Spellings : k # key =>
              accounts'[k] = accounts[k] /\ \A q \in Replicas : fallback'[q][k] = fallback[q][k]
        /\ ok => accounts'[key] = account
    <2>1. accounts \in [Spellings -> AnyAccount] /\ fallback \in [Replicas -> [Spellings -> AnyAccount]]
      BY <1>1, AccountFields
    <2>2. account \in AnyAccount
      BY DEF AnyAccount
    <2>3. CASE ok
      BY <1>2, <2>1, <2>2, <2>3
    <2>4. CASE ~ok
      BY <1>2, <2>1, <2>2, <2>4
    <2> QED BY <2>3, <2>4
  <1>8. AccountTypeOK'
    <2>1. \A k \in Spellings \ Keys :
             accounts'[k] = NoAccount /\ \A q \in Replicas : fallback'[q][k] = NoAccount
      BY <1>1, <1>7 DEF AccountTypeOK
    <2>2. disturbed' \subseteq Keys
      BY <1>1, <1>2 DEF AccountTypeOK
    <2> QED BY <1>1, <1>2, <1>3, <1>4, <1>6, <1>7, <2>1, <2>2 DEF AccountTypeOK, Intakes, AnyAccount, Keys
  <1>9. Filed(form) /\ \A q \in Replicas : q # p /\ Serving(q) => FormOf(q).id # form.id
    BY <1>1 DEF AccountInv, FormsOnce
  <1>10. ASSUME NEW k \in Keys, NEW i \in 1 .. Len(asked'[k])
         PROVE  (k = key /\ asked'[k][i] = form) \/ (i \in 1 .. Len(asked[k]) /\ asked'[k][i] = asked[k][i])
    <2>1. CASE k # key
      BY <1>6, <1>10, <2>1
    <2>2. CASE k = key
      <3>1. /\ Len(asked[key]) \in Nat /\ Len(asked'[key]) = Len(asked[key]) + 1
            /\ asked'[key][Len(asked[key]) + 1] = form
            /\ \A j \in 1 .. Len(asked[key]) : asked'[key][j] = asked[key][j]
        BY <1>1, <1>6, Appends, AccountFields
      <3>2. CASE i = Len(asked[key]) + 1
        BY <2>2, <3>1, <3>2
      <3>3. CASE i # Len(asked[key]) + 1
        <4>1. i \in 1 .. Len(asked[key])
          BY <1>10, <2>2, <3>1, <3>3
        <4> QED BY <2>2, <3>1, <4>1
      <3> QED BY <3>2, <3>3
    <2> QED BY <2>1, <2>2
  <1>11. FormsOnce'
    <2>1. \A q \in Replicas : Serving(q)' => Serving(q) /\ q # p /\ FormOf(q)' = FormOf(q)
      BY <1>4, <1>5
    <2>2. ASSUME NEW q \in Replicas, Serving(q)'
          PROVE  Filed(FormOf(q))'
      <3>1. Filed(FormOf(q)) /\ FormOf(q)' = FormOf(q)
        BY <2>1, <2>2 DEF AccountInv, FormsOnce
      <3> QED BY <1>2, <3>1 DEF Filed
    <2>3. ASSUME NEW k \in Keys, NEW i \in 1 .. Len(asked'[k])
          PROVE  Filed(asked[k][i])' /\ \A q \in Replicas : Serving(q)' => FormOf(q)'.id # asked'[k][i].id
      <3> PICK f : f = asked'[k][i]
        OBVIOUS
      <3>1. Filed(f) /\ \A q \in Replicas : Serving(q) /\ q # p => FormOf(q).id # f.id
        BY <1>9, <1>10 DEF AccountInv, FormsOnce
      <3> QED BY <1>2, <2>1, <3>1 DEF Filed
    <2>4. \A q \in Replicas : At(q, "save")' => intake'[q].form.address = intake'[q].address
      BY <1>4, <1>5 DEF AccountInv, FormsOnce
    <2>5. \A q, u \in Replicas : q # u /\ Serving(q)' /\ Serving(u)' => FormOf(q)'.id # FormOf(u)'.id
      BY <2>1 DEF AccountInv, FormsOnce
    <2> QED BY <2>2, <2>3, <2>4, <2>5 DEF FormsOnce, Keys
  <1>12. ASSUME NEW k \in Keys \ disturbed'
         PROVE  Orderly(k)'
    <2>1. k \notin disturbed /\ Orderly(k) /\ (k = key => ok)
      BY <1>2, <1>12 DEF AccountInv
    <2>2. \A q \in Replicas : Saving(q, k)' => q # p /\ Saving(q, k) /\ intake'[q] = intake[q]
      BY <1>4, <1>5 DEF Saving
    <2>3. CASE k # key
      <3>1. accounts'[k] = accounts[k] /\ asked'[k] = asked[k]
            /\ \A q \in Replicas : fallback'[q][k] = fallback[q][k]
        BY <1>6, <1>7, <2>3, KeysOK
      <3> QED BY <2>1, <2>2, <3>1 DEF Orderly
    <2>4. CASE k = key
      <3>1. Saving(p, key)
        BY <1>1 DEF Saving
      <3>2. account = Registered(form, accounts[key]) /\ \A q \in Replicas : Saving(q, key) => q = p
        BY <2>1, <2>4, <3>1 DEF Orderly
      <3>3. \A q \in Replicas : ~Saving(q, k)'
        BY <2>2, <2>4, <3>2
      <3>4. fallback' = fallback /\ accounts'[key] = account
        BY <1>2, <1>7, <2>1, <2>4
      <3>5. \A i \in 1 .. Len(asked[key]) : form.id # asked[key][i].id
        BY <1>1 DEF AccountInv, FormsOnce
      <3>6. AsAsked(accounts'[key], asked'[key])
        <4>1. accounts[key] \in AnyAccount /\ asked[key] \in Seq(Forms)
          BY <1>1, AccountFields
        <4>2. AsAsked(accounts[key], asked[key])
          BY <2>1, <2>4 DEF Orderly
        <4> QED BY <1>6, <3>2, <3>4, <3>5, <4>1, <4>2, AskedNext
      <3> QED BY <2>1, <2>4, <3>3, <3>4, <3>6 DEF Orderly
    <2> QED BY <2>3, <2>4
  <1> QED BY <1>8, <1>11, <1>12 DEF AccountInv, Keys

LEMMA KillStep ==
    ASSUME AccountInv, NEW p \in Replicas, Kill(p)
    PROVE  AccountInv'
  <1>1. AccountTypeOK
    BY DEF AccountInv
  <1>2. /\ intake' = [intake EXCEPT ![p] = NoIntake] /\ fallback' = [fallback EXCEPT ![p] = NoAccounts]
        /\ filed' = filed /\ accounts' = accounts /\ asked' = asked /\ disturbed' = disturbed
        /\ raises' = raises /\ kills' \in 0 .. MaxKills
    BY <1>1, AccountBounds DEF Kill, AccountTypeOK
  <1>3. /\ intake' \in [Replicas -> Intakes] /\ intake'[p] = NoIntake
        /\ \A q \in Replicas : q # p =>
              /\ intake'[q] = intake[q] /\ FormOf(q)' = FormOf(q)
              /\ \A step : At(q, step)' <=> At(q, step)
              /\ Serving(q)' <=> Serving(q)
    <2>1. NoIntake \in Intakes
      BY DEF Intakes
    <2> QED BY <1>1, <1>2, <2>1, IntakeSet
  <1>4. ~Serving(p)' /\ ~At(p, "save")'
    BY <1>3 DEF Serving, At, NoIntake
  <1>5. /\ fallback' \in [Replicas -> [Spellings -> AnyAccount]]
        /\ \A q \in Replicas, k \in Spellings : fallback[q][k] = NoAccount => fallback'[q][k] = NoAccount
    <2>1. fallback \in [Replicas -> [Spellings -> AnyAccount]]
      BY <1>1, AccountFields
    <2> QED BY <1>2, <2>1 DEF NoAccounts, AnyAccount
  <1>6. AccountTypeOK'
    BY <1>1, <1>2, <1>3, <1>5 DEF AccountTypeOK, Intakes, AnyAccount, Keys
  <1>7. FormsOnce'
    <2>1. \A q \in Replicas : Serving(q)' => Serving(q) /\ q # p /\ FormOf(q)' = FormOf(q)
      BY <1>3, <1>4
    <2>2. \A q \in Replicas : At(q, "save")' => intake'[q].form.address = intake'[q].address
      BY <1>3, <1>4 DEF AccountInv, FormsOnce
    <2> QED BY <1>2, <2>1, <2>2 DEF AccountInv, FormsOnce, Filed, Keys
  <1>8. ASSUME NEW k \in Keys \ disturbed'
        PROVE  Orderly(k)'
    <2>1. \A q \in Replicas : Saving(q, k)' => q # p /\ Saving(q, k) /\ intake'[q] = intake[q]
      BY <1>3, <1>4 DEF Saving
    <2>2. Orderly(k) /\ k \in Spellings
      BY <1>2, <1>8, KeysOK DEF AccountInv
    <2> QED BY <1>2, <1>5, <2>1, <2>2 DEF Orderly
  <1> QED BY <1>6, <1>7, <1>8 DEF AccountInv, Keys

LEMMA AccountInitInv ==
    ASSUME AccountInit
    PROVE  AccountInv
  <1>1. NoIntake.step = "idle" /\ NoIntake \in Intakes
    BY DEF NoIntake, Intakes
  <1>2. AccountTypeOK
    BY <1>1, KeysOK, AccountBounds DEF AccountInit, AccountTypeOK, Intakes, NoAccounts
  <1>3. FormsOnce
    BY <1>1 DEF AccountInit, FormsOnce, Serving, At
  <1>4. \A k \in Keys : Orderly(k)
    BY <1>1, KeysOK DEF AccountInit, Orderly, AsAsked, Saving, At, NoAccounts
  <1> QED BY <1>2, <1>3, <1>4 DEF AccountInv

LEMMA AccountNextInv ==
    ASSUME AccountInv, [AccountNext]_accountVars
    PROVE  AccountInv'
  <1>1. CASE UNCHANGED accountVars
    <2>1. /\ filed' = filed /\ accounts' = accounts /\ fallback' = fallback /\ intake' = intake
          /\ asked' = asked /\ disturbed' = disturbed /\ raises' = raises /\ kills' = kills
      BY <1>1 DEF accountVars
    <2>2. AccountTypeOK'
      BY <2>1 DEF AccountInv, AccountTypeOK, Keys
    <2>3. FormsOnce'
      BY <2>1 DEF AccountInv, FormsOnce, Serving, FormOf, At, Filed, Keys
    <2>4. \A k \in Keys \ disturbed' : Orderly(k)'
      BY <2>1 DEF AccountInv, Orderly, Saving, At
    <2> QED BY <2>1, <2>2, <2>3, <2>4 DEF AccountInv, Keys
  <1>2. ASSUME NEW p \in Replicas, NEW company \in Companies, NEW address \in Spellings,
               NEW password \in Passwords, NEW signsUp \in BOOLEAN,
               Apply(p, company, address, password, signsUp)
        PROVE  AccountInv'
    BY <1>2, ApplyStep
  <1> QED BY <1>1, <1>2, LoadStep, SaveStep, KillStep DEF AccountNext

(* Sign-ups under way and the accounts they made agree in every state      *)
(* (api.py:755-790, client_identity.py:54-123).                            *)
THEOREM AccountInvariance == AccountSpec => []AccountInv
  <1>1. AccountInit => AccountInv
    BY AccountInitInv
  <1>2. AccountInv /\ [AccountNext]_accountVars => AccountInv'
    BY AccountNextInv
  <1> QED BY <1>1, <1>2, PTL DEF AccountSpec

(* Forms, accounts and intakes keep their types                            *)
(* (client_identity.py:40-123).                                            *)
THEOREM AccountTypeCorrect == AccountSpec => []AccountTypeOK
  <1>1. AccountInv => AccountTypeOK
    BY DEF AccountInv
  <1> QED BY <1>1, AccountInvariance, PTL

(* Unless a store call for an address raised or two of its sign-ups        *)
(* overlapped, every replica reads the account its sign-ups made, and      *)
(* shows the newest application of that company                            *)
(* (client_identity.py:95-135, api.py:793-829).                            *)
THEOREM AccountsWhole == AccountSpec => []AccountsComplete
  <1>1. ASSUME AccountInv PROVE AccountsComplete
    <2> SUFFICES ASSUME NEW k \in Keys \ disturbed,
                        NEW address \in {a \in Spellings : KeyOf[a] = k}, NEW p \in Replicas
                 PROVE  IF Len(asked[k]) = 0 THEN Load(p, address, TRUE) = NoAccount
                        ELSE /\ Load(p, address, TRUE).linked =
                                   [i \in 1 .. Len(asked[k]) |-> asked[k][i].id]
                             /\ Load(p, address, TRUE).client = asked[k][Len(asked[k])].company
                             /\ \A password \in Passwords :
                                   Authenticates(p, address, password) <=> password = asked[k][1].password
                             /\ Shown(p, address) >= asked[k][Len(asked[k])].id
                             /\ filed[Shown(p, address)] = asked[k][Len(asked[k])].company
      BY DEF AccountsComplete
    <2> PICK n, account : n = Len(asked[k]) /\ account = Load(p, address, TRUE)
      OBVIOUS
    <2>1. AccountTypeOK /\ Orderly(k) /\ KeyFor(address) = k
      BY <1>1, KeysOK DEF AccountInv
    <2>2. AsAsked(accounts[k], asked[k]) /\ fallback[p][k] = NoAccount
      BY <2>1 DEF Orderly
    <2>3. account = accounts[k]
      BY <2>1, <2>2 DEF Load
    <2>4. asked[k] \in Seq(Forms) /\ n \in Nat
      BY <2>1, AccountFields
    <2>5. CASE n = 0
      <3>1. asked[k] = <<>>
        BY <2>4, <2>5, EmptySeq
      <3> QED BY <2>2, <2>3, <2>5, <3>1 DEF AsAsked
    <2>6. CASE n # 0
      <3>1. asked[k] # <<>> /\ n \in 1 .. n
        BY <2>4, <2>6
      <3>2. /\ account # NoAccount /\ account.password = asked[k][1].password
            /\ account.client = asked[k][n].company
            /\ account.linked = [i \in 1 .. n |-> asked[k][i].id]
        BY <2>2, <2>3, <3>1 DEF AsAsked
      <3>3. \A password \in Passwords :
               Authenticates(p, address, password) <=> password = asked[k][1].password
        BY <3>2 DEF Authenticates
      <3> DEFINE own == {i \in 1 .. Len(filed) : filed[i] = account.client}
      <3>4. Len(filed) \in Nat /\ Filed(asked[k][n])
        BY <1>1, <2>1, <3>1, AccountFields DEF AccountInv, FormsOnce
      <3>5. asked[k][n].id \in own
        BY <3>2, <3>4 DEF Filed
      <3>a. own \in SUBSET (0 .. Len(filed)) /\ own # {}
        <4>1. 1 .. Len(filed) \subseteq 0 .. Len(filed)
          BY <3>4
        <4> QED BY <3>5, <4>1
      <3> HIDE DEF own
      <3>6. PICK m \in own : \A o \in own : o <= m
        BY <3>4, <3>a, Greatest
      <3>7. Shown(p, address) = CHOOSE i \in own : \A j \in own : j <= i
        BY <3>a DEF Shown, LatestOf, own
      <3>8. Shown(p, address) \in own /\ \A o \in own : o <= Shown(p, address)
        BY <3>6, <3>7
      <3>9. Shown(p, address) >= asked[k][n].id /\ filed[Shown(p, address)] = asked[k][n].company
        BY <3>2, <3>5, <3>8, <3>4 DEF own
      <3> QED BY <2>6, <3>2, <3>3, <3>9
    <2> QED BY <2>5, <2>6
  <1> QED BY <1>1, AccountInvariance, PTL

-----------------------------------------------------------------------------
(* EvalLoop. The trend is the last evaluations that ended, and flagged     *)
(* questions are answered again.                                           *)

NoneTwice(s) == \A i, j \in 1 .. Len(s) : i < j => s[i] # s[j]
Running(p) == ~Step(p, "idle")
HasPoints(p) == Step(p, "read") \/ Step(p, "append")
UpTo(s, n) == \A i \in 1 .. Len(s) : s[i] <= n
Fresh(n, s) == \A i \in 1 .. Len(s) : s[i] # n

Numbers ==
    /\ \A p \in Evaluators : Running(p) =>
          /\ run[p].number <= ran
          /\ Fresh(run[p].number, trend.history)
          /\ \A q \in Evaluators : HasPoints(q) => Fresh(run[p].number, run[q].points)
          /\ \A q \in Evaluators : q # p /\ Running(q) => run[q].number # run[p].number
    /\ NoneTwice(trend.history) /\ UpTo(trend.history, ran)
    /\ \A q \in Evaluators : HasPoints(q) => NoneTwice(run[q].points) /\ UpTo(run[q].points, ran)

Newest(s) == IF Len(s) < KeepPoints THEN Len(s) ELSE KeepPoints

Undisturbed ==
    /\ \A p, q \in Evaluators : Running(p) /\ Running(q) => p = q
    /\ \A i, j \in 1 .. Len(ended) : i < j => ended[i] < ended[j]
    /\ UpTo(ended, ran) /\ trend.latest <= ran
    /\ ended # <<>> => ended[Len(ended)] <= trend.latest
    /\ Len(trend.history) = Newest(ended)
    /\ \A i \in 1 .. Len(trend.history) :
          trend.history[i] = ended[i + Len(ended) - Len(trend.history)]
    /\ \A p \in Evaluators : Running(p) =>
          /\ run[p].number = ran /\ UpTo(ended, ran - 1)
          /\ HasPoints(p) => trend.latest = ran
          /\ Step(p, "append") => run[p].points = trend.history

Rated ==
    \A p \in Evaluators : /\ Len(ratings[p]) <= rated
                          /\ Running(p) => run[p].ratedBefore <= Len(ratings[p])

EvalInv == EvalTypeOK /\ Numbers /\ (calm => Undisturbed) /\ Rated /\ FlagsMeasured

LEMMA KeptPoints ==
    ASSUME NEW B, NEW s \in Seq(B)
    PROVE  /\ LastPoints(s) \in Seq(B) /\ Len(LastPoints(s)) = Newest(s)
           /\ Newest(s) \in 0 .. Len(s) /\ Newest(s) <= KeepPoints
           /\ \A i \in 1 .. Newest(s) : LastPoints(s)[i] = s[i + Len(s) - Newest(s)]
  <1>1. KeepPoints \in Nat \ {0} /\ Len(s) \in Nat
    BY EvalBounds
  <1>2. CASE Len(s) <= KeepPoints
    <2>1. Newest(s) = Len(s) /\ LastPoints(s) = s
      BY <1>1, <1>2 DEF LastPoints, Newest
    <2> QED BY <1>1, <1>2, <2>1
  <1>3. CASE Len(s) > KeepPoints
    <2>1. /\ Newest(s) = KeepPoints
          /\ LastPoints(s) = SubSeq(s, Len(s) - KeepPoints + 1, Len(s))
      BY <1>1, <1>3 DEF LastPoints, Newest
    <2>2. Len(s) - KeepPoints + 1 \in 1 .. Len(s) /\ Len(s) \in 1 .. Len(s)
      BY <1>1, <1>3
    <2>3. LastPoints(s) \in Seq(B) /\ Len(LastPoints(s)) = KeepPoints
      BY <1>1, <2>1, <2>2
    <2>4. ASSUME NEW i \in 1 .. KeepPoints
          PROVE  LastPoints(s)[i] = s[i + Len(s) - KeepPoints]
      <3>1. LastPoints(s)[i] = s[Len(s) - KeepPoints + 1 + i - 1]
        BY <1>1, <2>1, <2>2, <2>4
      <3>2. Len(s) - KeepPoints + 1 + i - 1 = i + Len(s) - KeepPoints
        BY <1>1
      <3> QED BY <3>1, <3>2
    <2> QED BY <1>1, <1>3, <2>1, <2>3, <2>4
  <1> QED BY <1>1, <1>2, <1>3

LEMMA RunFields ==
    ASSUME EvalTypeOK, NEW p \in Evaluators
    PROVE  /\ run[p].step \in {"idle", "regress", "latest", "read", "append"}
           /\ ~Running(p) => run[p] = NoRun
           /\ Running(p) => /\ run[p].number \in 1 .. MaxRuns
                            /\ run[p].ratedBefore \in 0 .. MaxRatings
           /\ run[p].step \in {"latest", "read", "append"} =>
                 run[p].flagged \in SUBSET (Questions \X (1 .. MaxRatings))
           /\ HasPoints(p) => Running(p) /\ run[p].points \in Seq(1 .. MaxRuns)
  <1>1. run[p] \in {NoRun} \cup Runs \cup Reported \cup Kept
    BY DEF EvalTypeOK
  <1>2. CASE run[p] = NoRun
    BY <1>2 DEF NoRun, Running, HasPoints, Step
  <1>3. CASE run[p] \in Runs
    BY <1>3 DEF Runs, Running, HasPoints, Step
  <1>4. CASE run[p] \in Reported
    BY <1>4 DEF Reported, Running, HasPoints, Step
  <1>5. CASE run[p] \in Kept
    BY <1>5 DEF Kept, Running, HasPoints, Step
  <1> QED BY <1>1, <1>2, <1>3, <1>4, <1>5

LEMMA Bounded ==
    ASSUME EvalInv
    PROVE  /\ ran \in Nat /\ ran <= MaxRuns /\ MaxRuns \in Nat /\ KeepPoints \in Nat \ {0}
           /\ MaxRatings \in Nat /\ MaxMissed \in Nat /\ MaxRestarts \in Nat
           /\ rated \in Nat /\ rated <= MaxRatings /\ missed \in Nat /\ restarts \in Nat
           /\ DOMAIN run = Evaluators /\ DOMAIN ratings = Evaluators
           /\ \A p \in Evaluators :
                 /\ ratings[p] \in Seq([question : Questions, verdict : Verdicts])
                 /\ Len(ratings[p]) \in 0 .. MaxRatings
  <1>1. EvalTypeOK /\ Rated
    BY DEF EvalInv
  <1>2. /\ ran \in Nat /\ ran <= MaxRuns /\ MaxRuns \in Nat /\ KeepPoints \in Nat \ {0}
        /\ MaxRatings \in Nat /\ MaxMissed \in Nat /\ MaxRestarts \in Nat
        /\ rated \in Nat /\ rated <= MaxRatings /\ missed \in Nat /\ restarts \in Nat
    BY <1>1, EvalBounds DEF EvalTypeOK
  <1>3. DOMAIN run = Evaluators /\ DOMAIN ratings = Evaluators
    BY <1>1 DEF EvalTypeOK
  <1>4. ASSUME NEW p \in Evaluators
        PROVE  /\ ratings[p] \in Seq([question : Questions, verdict : Verdicts])
               /\ Len(ratings[p]) \in 0 .. MaxRatings
    <2>1. ratings[p] \in Seq([question : Questions, verdict : Verdicts])
      BY <1>1 DEF EvalTypeOK
    <2>2. Len(ratings[p]) \in Nat /\ Len(ratings[p]) <= rated
      BY <2>1, <1>1, Members DEF Rated
    <2> QED BY <1>2, <2>1, <2>2
  <1> QED BY <1>2, <1>3, <1>4

LEMMA FlaggedTyped ==
    ASSUME EvalInv, NEW p \in Evaluators
    PROVE  Flagged(p) \in SUBSET (Questions \X (1 .. MaxRatings))
  <1>1. Len(ratings[p]) \in 0 .. MaxRatings /\ MaxRatings \in Nat
    BY Bounded
  <1>2. ASSUME NEW q \in {r \in Questions : Wrong(p, r) # {}}
        PROVE  <<q, CHOOSE i \in Wrong(p, q) : \A j \in Wrong(p, q) : j <= i>>
                  \in Questions \X (1 .. MaxRatings)
    <2>1. PICK m \in Wrong(p, q) : \A j \in Wrong(p, q) : j <= m
      <3>1. Wrong(p, q) \in SUBSET (0 .. Len(ratings[p])) /\ Len(ratings[p]) \in Nat
        BY <1>1 DEF Wrong
      <3> HIDE DEF Wrong
      <3> QED BY <3>1, <1>2, Greatest
    <2>2. (CHOOSE i \in Wrong(p, q) : \A j \in Wrong(p, q) : j <= i) \in Wrong(p, q)
      BY <2>1
    <2>3. Wrong(p, q) \subseteq 1 .. MaxRatings
      BY <1>1 DEF Wrong
    <2> DEFINE latest == CHOOSE i \in Wrong(p, q) : \A j \in Wrong(p, q) : j <= i
    <2>4. latest \in 1 .. MaxRatings
      BY <2>2, <2>3
    <2>5. q \in Questions
      BY <1>2
    <2> HIDE DEF latest
    <2>6. <<q, latest>> \in Questions \X (1 .. MaxRatings)
      BY <2>4, <2>5
    <2> QED BY <2>6 DEF latest
  <1> QED BY <1>2 DEF Flagged

(* Types.                                                                  *)
LEMMA EvalTypeStep ==
    ASSUME EvalInv, [EvalNext]_evalVars
    PROVE  EvalTypeOK'
  <1> USE DEF EvalTypeOK
  <1>t. EvalTypeOK
    BY DEF EvalInv
  <1>b. /\ ran \in Nat /\ ran <= MaxRuns /\ MaxRuns \in Nat /\ KeepPoints \in Nat \ {0}
        /\ MaxRatings \in Nat /\ MaxMissed \in Nat /\ MaxRestarts \in Nat
        /\ \A p \in Evaluators : Len(ratings[p]) \in 0 .. MaxRatings
    BY Bounded
  <1>c. ASSUME NEW p \in Evaluators, Leaves(p)
        PROVE  run' \in [Evaluators -> {NoRun} \cup Runs \cup Reported \cup Kept]
    BY <1>c, <1>t DEF Leaves
  <1>d. ASSUME Raises PROVE missed' \in 0 .. MaxMissed /\ calm' \in BOOLEAN
    <2>1. missed' \in 0 .. MaxMissed
      <3>1. missed \in 0 .. MaxMissed /\ missed < MaxMissed /\ missed' = missed + 1
        BY <1>d, <1>t DEF Raises
      <3> QED BY <3>1, <1>b
    <2>2. calm' \in BOOLEAN
      BY <1>d DEF Raises
    <2> QED BY <2>1, <2>2
  <1>e. ASSUME NoRaise PROVE missed' \in 0 .. MaxMissed /\ calm' \in BOOLEAN
    BY <1>e, <1>t, <1>b DEF NoRaise
  <1>f. ASSUME NEW p \in Evaluators, NEW step \in {"read", "append"}, NEW points \in Seq(1 .. MaxRuns),
               run[p].step \in {"latest", "read"}, GoesTo(p, step, points)
        PROVE  run' \in [Evaluators -> {NoRun} \cup Runs \cup Reported \cup Kept]
    <2>1. /\ run[p].number \in 1 .. MaxRuns /\ run[p].ratedBefore \in 0 .. MaxRatings
          /\ run[p].flagged \in SUBSET (Questions \X (1 .. MaxRatings))
      BY <1>t, <1>f, RunFields DEF Running, Step
    <2>2. [step |-> step, number |-> run[p].number, ratedBefore |-> run[p].ratedBefore,
           flagged |-> run[p].flagged, points |-> points] \in Kept
      BY <2>1 DEF Kept
    <2> QED BY <1>t, <1>f, <2>2 DEF GoesTo
  <1>1. ASSUME NEW p \in Evaluators, NEW question \in Questions, NEW verdict \in Verdicts,
               Rate(p, question, verdict)
        PROVE  EvalTypeOK'
    <2>1. [question |-> question, verdict |-> verdict] \in [question : Questions, verdict : Verdicts]
      OBVIOUS
    <2>2. ratings[p] \in Seq([question : Questions, verdict : Verdicts])
      BY <1>t
    <2>3. Append(ratings[p], [question |-> question, verdict |-> verdict])
             \in Seq([question : Questions, verdict : Verdicts])
      BY <2>1, <2>2, Appends
    <2>4. ratings' \in [Evaluators -> Seq([question : Questions, verdict : Verdicts])]
      BY <1>1, <1>t, <2>3 DEF Rate
    <2>5. rated' \in 0 .. MaxRatings
      <3>1. rated \in 0 .. MaxRatings /\ rated < MaxRatings /\ rated' = rated + 1
        BY <1>1, <1>t DEF Rate
      <3> QED BY <3>1, <1>b
    <2> QED BY <1>1, <1>t, <2>4, <2>5 DEF Rate
  <1>2. ASSUME NEW p \in Evaluators, Score(p) PROVE EvalTypeOK'
    <2>1. [step |-> "regress", number |-> ran + 1, ratedBefore |-> Len(ratings[p])] \in Runs
      BY <1>2, <1>b DEF Score, Runs
    <2>2. run' \in [Evaluators -> {NoRun} \cup Runs \cup Reported \cup Kept]
      BY <1>2, <1>t, <2>1 DEF Score
    <2>3. calm' \in BOOLEAN
      BY <1>2 DEF Score
    <2>4. ran' \in 0 .. MaxRuns
      <3>1. ran \in 0 .. MaxRuns /\ ran < MaxRuns /\ ran' = ran + 1
        BY <1>2, <1>t DEF Score
      <3> QED BY <3>1, <1>b
    <2> QED BY <1>2, <1>t, <2>2, <2>3, <2>4 DEF Score
  <1>3. ASSUME NEW p \in Evaluators, Regress(p) PROVE EvalTypeOK'
    <2>1. run[p].number \in 1 .. MaxRuns /\ run[p].ratedBefore \in 0 .. MaxRatings
      BY <1>t, <1>3, RunFields DEF Regress, Step, Running
    <2>2. Flagged(p) \in SUBSET (Questions \X (1 .. MaxRatings))
      BY FlaggedTyped
    <2>3. [step |-> "latest", number |-> run[p].number,
           ratedBefore |-> run[p].ratedBefore, flagged |-> Flagged(p)] \in Reported
      BY <2>1, <2>2 DEF Reported
    <2>4. run' \in [Evaluators -> {NoRun} \cup Runs \cup Reported \cup Kept]
      BY <1>3, <1>t, <2>3 DEF Regress
    <2> QED BY <1>3, <1>t, <1>b, <2>4 DEF Regress
  <1>4. ASSUME NEW p \in Evaluators, PutLatest(p) PROVE EvalTypeOK'
    <2>1. run[p].number \in 1 .. MaxRuns /\ run[p].step = "latest"
      BY <1>t, <1>4, RunFields DEF PutLatest, Step, Running
    <2>2. CASE GoesTo(p, "read", <<>>) /\ NoRaise /\ trend' = [trend EXCEPT !.latest = run[p].number]
      <3>1. run' \in [Evaluators -> {NoRun} \cup Runs \cup Reported \cup Kept]
        <4>1. <<>> \in Seq(1 .. MaxRuns)
          OBVIOUS
        <4> QED BY <2>1, <2>2, <4>1, <1>f
      <3>2. trend'.latest \in 0 .. MaxRuns /\ trend'.history = trend.history
        BY <2>1, <2>2, <1>t, <1>b
      <3> QED BY <2>2, <3>1, <3>2, <1>e, <1>4, <1>t DEF PutLatest
    <2>3. CASE Raises /\ Leaves(p) /\ UNCHANGED trend
      BY <2>3, <1>c, <1>d, <1>4, <1>t DEF PutLatest
    <2> QED BY <1>4, <2>2, <2>3 DEF PutLatest
  <1>5. ASSUME NEW p \in Evaluators, ReadHistory(p) PROVE EvalTypeOK'
    <2>1. run[p].step = "read" /\ trend.history \in Seq(1 .. MaxRuns) /\ <<>> \in Seq(1 .. MaxRuns)
      BY <1>t, <1>5 DEF ReadHistory, Step
    <2>2. run' \in [Evaluators -> {NoRun} \cup Runs \cup Reported \cup Kept]
      <3>1. CASE GoesTo(p, "append", trend.history)
        BY <2>1, <3>1, <1>f
      <3>2. CASE GoesTo(p, "append", <<>>)
        BY <2>1, <3>2, <1>f
      <3> QED BY <1>5, <3>1, <3>2 DEF ReadHistory
    <2>3. missed' \in 0 .. MaxMissed /\ calm' \in BOOLEAN
      BY <1>5, <1>d, <1>e DEF ReadHistory
    <2> QED BY <1>5, <1>t, <2>2, <2>3 DEF ReadHistory
  <1>6. ASSUME NEW p \in Evaluators, PutHistory(p) PROVE EvalTypeOK'
    <2>1. /\ run[p].number \in 1 .. MaxRuns /\ run[p].points \in Seq(1 .. MaxRuns)
          /\ ended \in Seq(1 .. MaxRuns)
      BY <1>t, <1>6, RunFields DEF PutHistory, Step, Running, HasPoints
    <2>2. /\ Append(run[p].points, run[p].number) \in Seq(1 .. MaxRuns)
          /\ Append(ended, run[p].number) \in Seq(1 .. MaxRuns)
      BY <2>1, Appends
    <2>3. /\ LastPoints(Append(run[p].points, run[p].number)) \in Seq(1 .. MaxRuns)
          /\ Len(LastPoints(Append(run[p].points, run[p].number))) <= KeepPoints
      BY <2>2, KeptPoints
    <2>4. run' \in [Evaluators -> {NoRun} \cup Runs \cup Reported \cup Kept]
      BY <1>6, <1>c DEF PutHistory
    <2>5. CASE /\ trend' = [trend EXCEPT !.history = LastPoints(Append(run[p].points, run[p].number))]
               /\ ended' = Append(ended, run[p].number) /\ NoRaise
      <3>1. /\ trend'.latest \in 0 .. MaxRuns /\ trend'.history \in Seq(1 .. MaxRuns)
            /\ Len(trend'.history) <= KeepPoints /\ ended' \in Seq(1 .. MaxRuns)
        BY <2>2, <2>3, <2>5, <1>t
      <3> QED BY <2>4, <2>5, <3>1, <1>e, <1>6, <1>t DEF PutHistory
    <2>6. CASE Raises /\ UNCHANGED <<trend, ended>>
      BY <2>4, <2>6, <1>d, <1>6, <1>t DEF PutHistory
    <2> QED BY <1>6, <2>5, <2>6 DEF PutHistory
  <1>7. ASSUME NEW p \in Evaluators, Restart(p) PROVE EvalTypeOK'
    <2>1. ratings' \in [Evaluators -> Seq([question : Questions, verdict : Verdicts])]
      <3>1. <<>> \in Seq([question : Questions, verdict : Verdicts])
        OBVIOUS
      <3> QED BY <1>7, <1>t, <3>1 DEF Restart
    <2>3. restarts' \in 0 .. MaxRestarts
      <3>1. restarts \in 0 .. MaxRestarts /\ restarts < MaxRestarts /\ restarts' = restarts + 1
        BY <1>7, <1>t DEF Restart
      <3> QED BY <3>1, <1>b
    <2>2. run' \in [Evaluators -> {NoRun} \cup Runs \cup Reported \cup Kept]
      BY <1>7, <1>c DEF Restart
    <2> QED BY <1>7, <1>t, <2>1, <2>2, <2>3 DEF Restart
  <1>8. CASE UNCHANGED evalVars
    BY <1>8, <1>t DEF evalVars
  <1> QED BY <1>1, <1>2, <1>3, <1>4, <1>5, <1>6, <1>7, <1>8 DEF EvalNext


(* What each action leaves of an evaluation.                               *)
LEMMA ScoreSteps ==
    ASSUME EvalInv, NEW p \in Evaluators, Score(p)
    PROVE  /\ ~Running(p) /\ run'[p].number = ran + 1 /\ run'[p].step = "regress"
           /\ run'[p].ratedBefore = Len(ratings[p])
           /\ Running(p)' /\ ~HasPoints(p)'
           /\ \A q \in Evaluators \ {p} : run'[q] = run[q]
  BY Bounded DEF Score, Step, Running, HasPoints

LEMMA RegressSteps ==
    ASSUME EvalInv, NEW p \in Evaluators, Regress(p)
    PROVE  /\ Running(p) /\ ~HasPoints(p) /\ run'[p].number = run[p].number
           /\ run'[p].ratedBefore = run[p].ratedBefore /\ run'[p].flagged = Flagged(p)
           /\ Running(p)' /\ ~HasPoints(p)'
           /\ \A q \in Evaluators \ {p} : run'[q] = run[q]
  BY Bounded DEF Regress, Step, Running, HasPoints

LEMMA GoingSteps ==
    ASSUME EvalInv, NEW p \in Evaluators, NEW step \in {"read", "append"}, NEW points,
           GoesTo(p, step, points)
    PROVE  /\ run'[p].number = run[p].number /\ run'[p].step = step
           /\ run'[p].ratedBefore = run[p].ratedBefore /\ run'[p].flagged = run[p].flagged
           /\ run'[p].points = points
           /\ Running(p)' /\ HasPoints(p)'
           /\ \A q \in Evaluators \ {p} : run'[q] = run[q]
  BY Bounded DEF GoesTo, Step, Running, HasPoints

LEMMA LeavingSteps ==
    ASSUME EvalInv, NEW p \in Evaluators, Leaves(p)
    PROVE  /\ ~Running(p)' /\ ~HasPoints(p)' /\ run'[p].step = "idle"
           /\ \A q \in Evaluators \ {p} : run'[q] = run[q]
  BY Bounded DEF Leaves, NoRun, Step, Running, HasPoints

(* An evaluation another replica is at is what it was.                     *)
LEMMA Untouched ==
    ASSUME NEW q, run'[q] = run[q]
    PROVE  (Running(q)' <=> Running(q)) /\ (HasPoints(q)' <=> HasPoints(q))
  BY DEF Running, HasPoints, Step

(* Numbers: an evaluation keeps the number it drew until it is in the trend. *)
LEMMA NumbersFields ==
    ASSUME EvalInv, NEW p \in Evaluators, Running(p)
    PROVE  /\ run[p].number \in Nat /\ run[p].number <= ran
           /\ Fresh(run[p].number, trend.history)
           /\ \A q \in Evaluators : HasPoints(q) => Fresh(run[p].number, run[q].points)
           /\ \A q \in Evaluators : q # p /\ Running(q) => run[q].number # run[p].number
  <1>1. EvalTypeOK /\ Numbers
    BY DEF EvalInv
  <1>2. run[p].number \in Nat
    BY <1>1, RunFields
  <1> QED BY <1>1, <1>2 DEF Numbers

(* A step that gives no number, appends none, and may only end an          *)
(* evaluation or let it see the trend, or an empty one.                    *)
LEMMA NumbersKept ==
    ASSUME EvalInv, EvalTypeOK', NEW p \in Evaluators,
           ran' = ran, trend'.history = trend.history,
           \A q \in Evaluators \ {p} : run'[q] = run[q],
           Running(p)' => Running(p) /\ run'[p].number = run[p].number,
           HasPoints(p)' => \/ HasPoints(p) /\ run'[p].points = run[p].points
                            \/ run'[p].points = trend.history
                            \/ run'[p].points = <<>>
    PROVE  Numbers'
  <1>1. EvalTypeOK /\ Numbers
    BY DEF EvalInv
  <1>2. ASSUME NEW q \in Evaluators, HasPoints(q)'
        PROVE  \/ HasPoints(q) /\ run'[q].points = run[q].points
               \/ run'[q].points = trend.history
               \/ run'[q].points = <<>>
    BY <1>2, Untouched
  <1>3. ASSUME NEW q \in Evaluators, Running(q)'
        PROVE  Running(q) /\ run'[q].number = run[q].number
    BY <1>3, Untouched
  <1>4. ASSUME NEW q \in Evaluators, HasPoints(q)'
        PROVE  NoneTwice(run'[q].points) /\ UpTo(run'[q].points, ran)
    <2>1. NoneTwice(<<>>) /\ UpTo(<<>>, ran)
      BY DEF NoneTwice, UpTo
    <2> QED BY <1>1, <1>2, <1>4, <2>1 DEF Numbers
  <1>5. ASSUME NEW q \in Evaluators, Running(q)', NEW o \in Evaluators, HasPoints(o)'
        PROVE  Fresh(run'[q].number, run'[o].points)
    <2>1. Fresh(run[q].number, <<>>)
      BY DEF Fresh
    <2> QED BY <1>2, <1>3, <1>5, <2>1, NumbersFields
  <1>6. ASSUME NEW q \in Evaluators, Running(q)'
        PROVE  /\ run'[q].number <= ran'
               /\ Fresh(run'[q].number, trend'.history)
               /\ \A o \in Evaluators : o # q /\ Running(o)' => run'[o].number # run'[q].number
    BY <1>3, <1>6, NumbersFields
  <1>7. NoneTwice(trend'.history) /\ UpTo(trend'.history, ran')
    BY <1>1 DEF Numbers
  <1> QED BY <1>4, <1>5, <1>6, <1>7 DEF Numbers

LEMMA NumbersStep ==
    ASSUME EvalInv, EvalTypeOK', [EvalNext]_evalVars
    PROVE  Numbers'
  <1>t. EvalTypeOK /\ Numbers
    BY DEF EvalInv
  <1>1. ASSUME NEW p \in Evaluators, NEW question \in Questions, NEW verdict \in Verdicts,
               Rate(p, question, verdict)
        PROVE  Numbers'
    <2>1. UNCHANGED <<run, ran, trend>>
      BY <1>1 DEF Rate
    <2> QED BY <2>1, Untouched, NumbersKept
  <1>2. ASSUME NEW p \in Evaluators, Score(p) PROVE Numbers'
    <2>1. ran' = ran + 1 /\ trend' = trend /\ ran \in Nat
      BY <1>2, Bounded DEF Score
    <2>2. /\ ~Running(p) /\ run'[p].number = ran + 1 /\ Running(p)' /\ ~HasPoints(p)'
          /\ \A q \in Evaluators \ {p} : run'[q] = run[q]
      BY <1>2, ScoreSteps
    <2>3. ASSUME NEW q \in Evaluators \ {p}
          PROVE  /\ (Running(q)' <=> Running(q)) /\ (HasPoints(q)' <=> HasPoints(q))
                 /\ run'[q] = run[q]
      BY <2>2, Untouched
    <2>4. ASSUME NEW s \in Seq(1 .. MaxRuns), UpTo(s, ran)
          PROVE  UpTo(s, ran') /\ Fresh(ran + 1, s)
      <3>1. ASSUME NEW i \in 1 .. Len(s) PROVE s[i] <= ran' /\ s[i] # ran + 1
        <4>1. s[i] \in 1 .. MaxRuns /\ s[i] <= ran
          <5>1. s[i] \in 1 .. MaxRuns
            BY Members
          <5> QED BY <5>1, <2>4 DEF UpTo
        <4> QED BY <2>1, <4>1
      <3> QED BY <3>1 DEF UpTo, Fresh
    <2>5. NoneTwice(trend'.history) /\ UpTo(trend'.history, ran') /\ Fresh(ran + 1, trend'.history)
      BY <1>t, <2>1, <2>4 DEF Numbers, EvalTypeOK
    <2>6. ASSUME NEW q \in Evaluators, HasPoints(q)'
          PROVE  /\ NoneTwice(run'[q].points) /\ UpTo(run'[q].points, ran')
                 /\ Fresh(ran + 1, run'[q].points)
      <3>1. q # p /\ HasPoints(q) /\ run'[q] = run[q]
        BY <2>2, <2>3, <2>6
      <3>2. run[q].points \in Seq(1 .. MaxRuns) /\ NoneTwice(run[q].points) /\ UpTo(run[q].points, ran)
        BY <1>t, <3>1, RunFields DEF Numbers
      <3> QED BY <3>1, <3>2, <2>4
    <2>7. ASSUME NEW q \in Evaluators, Running(q)'
          PROVE  /\ run'[q].number <= ran'
                 /\ Fresh(run'[q].number, trend'.history)
                 /\ \A o \in Evaluators : HasPoints(o)' => Fresh(run'[q].number, run'[o].points)
                 /\ \A o \in Evaluators : o # q /\ Running(o)' => run'[o].number # run'[q].number
      <3>1. ASSUME NEW o \in Evaluators, o # p, Running(o)'
            PROVE  /\ run'[o] = run[o] /\ run[o].number \in Nat /\ run[o].number <= ran
                   /\ Fresh(run[o].number, trend.history)
                   /\ \A r \in Evaluators : HasPoints(r) => Fresh(run[o].number, run[r].points)
                   /\ \A r \in Evaluators : r # o /\ Running(r) => run[r].number # run[o].number
        BY <2>3, <3>1, NumbersFields
      <3>2. CASE q = p
        <4>1. ASSUME NEW o \in Evaluators, o # q, Running(o)' PROVE run'[o].number # run'[q].number
          BY <2>1, <2>2, <3>1, <3>2, <4>1
        <4> QED BY <2>1, <2>2, <2>5, <2>6, <3>2, <4>1
      <3>3. CASE q # p
        <4>1. ASSUME NEW o \in Evaluators, HasPoints(o)' PROVE Fresh(run'[q].number, run'[o].points)
          <5>1. o # p /\ HasPoints(o) /\ run'[o] = run[o]
            BY <2>2, <2>3, <4>1
          <5> QED BY <2>7, <3>1, <3>3, <5>1
        <4>2. ASSUME NEW o \in Evaluators, o # q, Running(o)' PROVE run'[o].number # run'[q].number
          <5>1. CASE o = p
            BY <5>1, <2>1, <2>2, <2>7, <3>1, <3>3
          <5>2. CASE o # p
            BY <5>2, <2>3, <2>7, <3>1, <3>3, <4>2
          <5> QED BY <5>1, <5>2
        <4>3. run'[q].number <= ran' /\ Fresh(run'[q].number, trend'.history)
          BY <2>1, <2>7, <3>1, <3>3
        <4> QED BY <4>1, <4>2, <4>3
      <3> QED BY <3>2, <3>3
    <2> QED BY <2>5, <2>6, <2>7 DEF Numbers
  <1>3. ASSUME NEW p \in Evaluators, Regress(p) PROVE Numbers'
    <2>1. ran' = ran /\ trend' = trend
      BY <1>3 DEF Regress
    <2> QED BY <1>3, <2>1, RegressSteps, NumbersKept
  <1>4. ASSUME NEW p \in Evaluators, PutLatest(p) PROVE Numbers'
    <2>1. ran' = ran /\ Running(p)
      BY <1>4 DEF PutLatest, Step, Running
    <2>2. CASE GoesTo(p, "read", <<>>) /\ trend' = [trend EXCEPT !.latest = run[p].number]
      <3>1. trend'.history = trend.history
        BY <2>2, <1>t DEF EvalTypeOK
      <3> QED BY <2>1, <2>2, <3>1, GoingSteps, NumbersKept
    <2>3. CASE Leaves(p) /\ UNCHANGED trend
      BY <2>1, <2>3, LeavingSteps, NumbersKept
    <2> QED BY <1>4, <2>2, <2>3 DEF PutLatest
  <1>5. ASSUME NEW p \in Evaluators, ReadHistory(p) PROVE Numbers'
    <2>1. ran' = ran /\ trend' = trend /\ Running(p)
      BY <1>5 DEF ReadHistory, Step, Running
    <2>2. CASE GoesTo(p, "append", trend.history)
      BY <2>1, <2>2, GoingSteps, NumbersKept
    <2>3. CASE GoesTo(p, "append", <<>>)
      BY <2>1, <2>3, GoingSteps, NumbersKept
    <2> QED BY <1>5, <2>2, <2>3 DEF ReadHistory
  <1>6. ASSUME NEW p \in Evaluators, PutHistory(p) PROVE Numbers'
    <2>1. /\ ran' = ran /\ Running(p) /\ HasPoints(p) /\ Leaves(p)
          /\ ~Running(p)' /\ ~HasPoints(p)' /\ \A q \in Evaluators \ {p} : run'[q] = run[q]
      BY <1>6, LeavingSteps DEF PutHistory, Step, Running, HasPoints
    <2>2. CASE trend' = [trend EXCEPT !.history = LastPoints(Append(run[p].points, run[p].number))]
      <3>a. PICK n : n = run[p].number
        OBVIOUS
      <3>b. PICK s : s = Append(run[p].points, n)
        OBVIOUS
      <3>c. PICK t : t = LastPoints(s)
        OBVIOUS
      <3>1. /\ n \in 1 .. MaxRuns /\ n <= ran /\ run[p].points \in Seq(1 .. MaxRuns) /\ ran \in Nat
            /\ Fresh(n, run[p].points) /\ NoneTwice(run[p].points) /\ UpTo(run[p].points, ran)
            /\ \A q \in Evaluators : HasPoints(q) => Fresh(n, run[q].points)
            /\ \A q \in Evaluators : q # p /\ Running(q) => run[q].number # n
        BY <1>t, <2>1, <3>a, RunFields, NumbersFields, Bounded DEF Numbers
      <3>2. /\ s \in Seq(1 .. MaxRuns) /\ Len(s) = Len(run[p].points) + 1 /\ s[Len(s)] = n
            /\ \A i \in 1 .. Len(run[p].points) : s[i] = run[p].points[i]
        BY <3>1, <3>b, Appends
      <3>3. /\ t \in Seq(1 .. MaxRuns) /\ Len(t) = Newest(s) /\ Len(t) \in 0 .. Len(s)
            /\ \A i \in 1 .. Len(t) : t[i] = s[i + Len(s) - Len(t)]
        <4>1. /\ LastPoints(s) \in Seq(1 .. MaxRuns) /\ Len(LastPoints(s)) = Newest(s)
              /\ Newest(s) \in 0 .. Len(s)
              /\ \A i \in 1 .. Newest(s) : LastPoints(s)[i] = s[i + Len(s) - Newest(s)]
          BY <3>2, KeptPoints
        <4> QED BY <3>c, <4>1
      <3>4. Len(run[p].points) \in Nat
        BY <3>1
      <3>5. ASSUME NEW i \in 1 .. Len(s) PROVE s[i] \in Nat /\ s[i] <= ran
        <4>1. CASE i = Len(s)
          BY <3>1, <3>2, <4>1
        <4>2. CASE i # Len(s)
          <5>1. i \in 1 .. Len(run[p].points)
            BY <3>2, <3>4, <4>2
          <5>2. s[i] = run[p].points[i] /\ run[p].points[i] <= ran
            BY <5>1, <3>1, <3>2 DEF UpTo
          <5>3. run[p].points[i] \in 1 .. MaxRuns
            BY <5>1, <3>1, Members
          <5> QED BY <5>2, <5>3
        <4> QED BY <4>1, <4>2
      <3>6. ASSUME NEW i \in 1 .. Len(s), NEW j \in 1 .. Len(s), i < j PROVE s[i] # s[j]
        <4>1. i \in 1 .. Len(run[p].points) /\ s[i] = run[p].points[i]
          BY <3>2, <3>4, <3>6
        <4>2. CASE j = Len(s)
          BY <4>1, <4>2, <3>1, <3>2 DEF Fresh
        <4>3. CASE j # Len(s)
          <5>1. j \in 1 .. Len(run[p].points) /\ s[j] = run[p].points[j]
            BY <3>2, <3>4, <4>3
          <5> QED BY <4>1, <5>1, <3>1, <3>6 DEF NoneTwice
        <4> QED BY <4>2, <4>3
      <3>7. ASSUME NEW i \in 1 .. Len(t) PROVE i + Len(s) - Len(t) \in 1 .. Len(s)
        BY <3>3, <3>2, <3>4
      <3>8. NoneTwice(t)
        <4> SUFFICES ASSUME NEW i \in 1 .. Len(t), NEW j \in 1 .. Len(t), i < j PROVE t[i] # t[j]
          BY DEF NoneTwice
        <4>1. i + Len(s) - Len(t) < j + Len(s) - Len(t)
          BY <3>2, <3>3, <3>4
        <4> QED BY <3>3, <3>6, <3>7, <4>1
      <3>9. UpTo(t, ran)
        BY <3>3, <3>5, <3>7 DEF UpTo
      <3>10. ASSUME NEW o \in Evaluators, o # p, Running(o) PROVE Fresh(run[o].number, t)
        <4>1. /\ run[o].number # n /\ Fresh(run[o].number, run[p].points)
          BY <2>1, <3>1, <3>10, NumbersFields
        <4>2. ASSUME NEW i \in 1 .. Len(s) PROVE s[i] # run[o].number
          <5>1. CASE i = Len(s)
            BY <3>2, <4>1, <5>1
          <5>2. CASE i # Len(s)
            <6>1. i \in 1 .. Len(run[p].points)
              BY <3>2, <3>4, <5>2
            <6> QED BY <6>1, <4>1, <3>2 DEF Fresh
          <5> QED BY <5>1, <5>2
        <4> QED BY <3>3, <3>7, <4>2 DEF Fresh
      <3>11. trend'.history = t
        BY <2>2, <3>a, <3>b, <3>c, <1>t DEF EvalTypeOK
      <3>12. ASSUME NEW o \in Evaluators
             PROVE  /\ Running(o)' => o # p /\ Running(o) /\ run'[o] = run[o]
                    /\ HasPoints(o)' => o # p /\ HasPoints(o) /\ run'[o] = run[o]
        BY <2>1, Untouched
      <3>13. ASSUME NEW o \in Evaluators, HasPoints(o)'
             PROVE  NoneTwice(run'[o].points) /\ UpTo(run'[o].points, ran')
        BY <1>t, <2>1, <3>12, <3>13 DEF Numbers
      <3>14. ASSUME NEW o \in Evaluators, Running(o)'
             PROVE  /\ run'[o].number <= ran'
                    /\ Fresh(run'[o].number, trend'.history)
                    /\ \A q \in Evaluators : HasPoints(q)' => Fresh(run'[o].number, run'[q].points)
                    /\ \A q \in Evaluators : q # o /\ Running(q)' => run'[q].number # run'[o].number
        BY <2>1, <3>10, <3>11, <3>12, <3>14, NumbersFields
      <3>15. NoneTwice(trend'.history) /\ UpTo(trend'.history, ran')
        BY <2>1, <3>8, <3>9, <3>11
      <3> QED BY <3>13, <3>14, <3>15 DEF Numbers
    <2>3. CASE UNCHANGED trend
      BY <2>1, <2>3, NumbersKept
    <2> QED BY <1>6, <2>2, <2>3 DEF PutHistory
  <1>7. ASSUME NEW p \in Evaluators, Restart(p) PROVE Numbers'
    <2>1. ran' = ran /\ trend' = trend /\ Leaves(p)
      BY <1>7 DEF Restart
    <2> QED BY <2>1, LeavingSteps, NumbersKept
  <1>8. CASE UNCHANGED evalVars
    <2>1. UNCHANGED <<run, ran, trend>>
      BY <1>8 DEF evalVars
    <2> QED BY <2>1, <1>t DEF Numbers, Running, HasPoints, Step
  <1> QED BY <1>1, <1>2, <1>3, <1>4, <1>5, <1>6, <1>7, <1>8 DEF EvalNext

(* Rated: an evaluation began with at most the ratings there are.          *)
LEMMA RatedStep ==
    ASSUME EvalInv, [EvalNext]_evalVars
    PROVE  Rated'
  <1>t. Rated /\ \A q \in Evaluators : Len(ratings[q]) \in Nat
    BY Bounded DEF EvalInv
  <1>r. rated \in Nat
    BY Bounded
  <1>a. ASSUME NEW p \in Evaluators, ratings' = ratings, rated' = rated,
               \A q \in Evaluators \ {p} : run'[q] = run[q],
               Running(p)' => Running(p) /\ run'[p].ratedBefore = run[p].ratedBefore
        PROVE  Rated'
    BY <1>t, <1>a, Untouched DEF Rated
  <1>1. ASSUME NEW p \in Evaluators, NEW question \in Questions, NEW verdict \in Verdicts,
               Rate(p, question, verdict)
        PROVE  Rated'
    <2>1. rated' = rated + 1 /\ run' = run
      BY <1>1 DEF Rate
    <2>2. Len(ratings'[p]) = Len(ratings[p]) + 1 /\ \A q \in Evaluators \ {p} : ratings'[q] = ratings[q]
      BY <1>1, Bounded, Appends DEF Rate
    <2> SUFFICES ASSUME NEW q \in Evaluators
                 PROVE  /\ Len(ratings'[q]) <= rated'
                        /\ Running(q)' => run'[q].ratedBefore <= Len(ratings'[q])
      BY DEF Rated
    <2>3. Len(ratings[q]) <= rated /\ (Running(q) => run[q].ratedBefore <= Len(ratings[q]))
      BY <1>t DEF Rated
    <2>4. Len(ratings'[q]) = Len(ratings[q]) \/ Len(ratings'[q]) = Len(ratings[q]) + 1
      BY <2>2
    <2>5. Len(ratings'[q]) <= rated'
      BY <1>t, <1>r, <2>1, <2>3, <2>4
    <2>6. ASSUME Running(q)' PROVE run'[q].ratedBefore <= Len(ratings'[q])
      <3>1. Running(q) /\ run'[q] = run[q]
        BY <2>1, <2>6, Untouched
      <3>2. run[q].ratedBefore \in 0 .. MaxRatings /\ MaxRatings \in Nat
        BY <3>1, RunFields, Bounded DEF EvalInv
      <3> QED BY <1>t, <2>3, <2>4, <3>1, <3>2
    <2> QED BY <2>5, <2>6
  <1>2. ASSUME NEW p \in Evaluators, Score(p) PROVE Rated'
    <2>1. ratings' = ratings /\ rated' = rated
      BY <1>2 DEF Score
    <2>2. run'[p].ratedBefore = Len(ratings[p]) /\ \A q \in Evaluators \ {p} : run'[q] = run[q]
      BY <1>2, ScoreSteps
    <2> QED BY <1>t, <2>1, <2>2, Untouched DEF Rated
  <1>3. ASSUME NEW p \in Evaluators, Regress(p) PROVE Rated'
    BY <1>3, <1>a, RegressSteps DEF Regress
  <1>4. ASSUME NEW p \in Evaluators, PutLatest(p) PROVE Rated'
    <2>1. ratings' = ratings /\ rated' = rated /\ Running(p)
      BY <1>4 DEF PutLatest, Step, Running
    <2>2. CASE GoesTo(p, "read", <<>>)
      BY <2>1, <2>2, <1>a, GoingSteps
    <2>3. CASE Leaves(p)
      BY <2>1, <2>3, <1>a, LeavingSteps
    <2> QED BY <1>4, <2>2, <2>3 DEF PutLatest
  <1>5. ASSUME NEW p \in Evaluators, ReadHistory(p) PROVE Rated'
    <2>1. ratings' = ratings /\ rated' = rated /\ Running(p)
      BY <1>5 DEF ReadHistory, Step, Running
    <2>2. CASE GoesTo(p, "append", trend.history)
      BY <2>1, <2>2, <1>a, GoingSteps
    <2>3. CASE GoesTo(p, "append", <<>>)
      BY <2>1, <2>3, <1>a, GoingSteps
    <2> QED BY <1>5, <2>2, <2>3 DEF ReadHistory
  <1>6. ASSUME NEW p \in Evaluators, PutHistory(p) PROVE Rated'
    BY <1>6, <1>a, LeavingSteps DEF PutHistory
  <1>7. ASSUME NEW p \in Evaluators, Restart(p) PROVE Rated'
    <2>1. rated' = rated /\ Leaves(p) /\ ratings'[p] = <<>>
          /\ \A q \in Evaluators \ {p} : ratings'[q] = ratings[q]
      BY <1>7, Bounded DEF Restart
    <2>2. ~Running(p)' /\ \A q \in Evaluators \ {p} : run'[q] = run[q]
      BY <2>1, LeavingSteps
    <2>3. Len(ratings'[p]) <= rated
      BY <1>r, <2>1
    <2> QED BY <1>t, <2>1, <2>2, <2>3, Untouched DEF Rated
  <1>8. CASE UNCHANGED evalVars
    BY <1>8, <1>t DEF evalVars, Rated, Running, Step
  <1> QED BY <1>1, <1>2, <1>3, <1>4, <1>5, <1>6, <1>7, <1>8 DEF EvalNext

(* What FlagsMeasured asks of one replica.                                 *)
Reporting(p) == run[p].step \in {"latest", "read", "append"}
Answers(f, rs, n, q) ==
    LET wrong == {i \in 1 .. Len(rs) : rs[i] = [question |-> q, verdict |-> "wrong"]}
        before == {i \in wrong : i <= n}
        measured == {e \in f : e[1] = q}
    IN  /\ before # {} => Cardinality(measured) = 1
        /\ \A e \in measured : e[2] \in wrong /\ \A i \in before : i <= e[2]

LEMMA FlagsOneByOne ==
    FlagsMeasured <=>
        \A p \in Evaluators : Reporting(p) =>
            \A q \in Questions : Answers(run[p].flagged, ratings[p], run[p].ratedBefore, q)
  BY DEF FlagsMeasured, Reporting, Answers, Wrong

(* flagged_questions answers to every rating made before.                  *)
LEMMA FlaggedAnswers ==
    ASSUME EvalInv, NEW p \in Evaluators, NEW n, NEW q \in Questions
    PROVE  Answers(Flagged(p), ratings[p], n, q)
  <1> DEFINE measured == {e \in Flagged(p) : e[1] = q}
             before == {i \in Wrong(p, q) : i <= n}
             latest(r) == CHOOSE i \in Wrong(p, r) : \A j \in Wrong(p, r) : j <= i
  <1>1. Flagged(p) = {<<r, latest(r)>> : r \in {o \in Questions : Wrong(p, o) # {}}}
    BY DEF Flagged
  <1>2. CASE Wrong(p, q) = {}
    <2>1. measured = {}
      BY <1>1, <1>2
    <2>2. before = {}
      BY <1>2
    <2> QED BY <2>1, <2>2 DEF Answers, Wrong
  <1>3. CASE Wrong(p, q) # {}
    <2>1. measured = {<<q, latest(q)>>}
      BY <1>1, <1>3
    <2>2. PICK m \in Wrong(p, q) : \A j \in Wrong(p, q) : j <= m
      <3>1. Wrong(p, q) \in SUBSET (0 .. Len(ratings[p])) /\ Len(ratings[p]) \in Nat
        BY Bounded DEF Wrong
      <3> HIDE DEF Wrong
      <3> QED BY <3>1, <1>3, Greatest
    <2>3. latest(q) \in Wrong(p, q) /\ \A j \in Wrong(p, q) : j <= latest(q)
      BY <2>2
    <2>4. Cardinality(measured) = 1
      BY <2>1, FS_Singleton
    <2> HIDE DEF latest
    <2>5. ASSUME NEW e \in measured
          PROVE  e[2] \in Wrong(p, q) /\ \A i \in before : i <= e[2]
      BY <2>1, <2>3
    <2> QED BY <2>4, <2>5 DEF Answers, Wrong
  <1> QED BY <1>2, <1>3

(* A rating made meanwhile is after those an evaluation began with.        *)
LEMMA AnswersKept ==
    ASSUME NEW B, NEW rs \in Seq(B), NEW e \in B, NEW f, NEW n \in Nat, NEW q,
           n <= Len(rs), Answers(f, rs, n, q)
    PROVE  Answers(f, Append(rs, e), n, q)
  <1> DEFINE wrong(s) == {i \in 1 .. Len(s) : s[i] = [question |-> q, verdict |-> "wrong"]}
             before(s) == {i \in wrong(s) : i <= n}
             measured == {x \in f : x[1] = q}
  <1>a. PICK longer : longer = Append(rs, e)
    OBVIOUS
  <1>1. /\ longer \in Seq(B) /\ Len(longer) = Len(rs) + 1 /\ Len(rs) \in Nat
        /\ \A i \in 1 .. Len(rs) : longer[i] = rs[i]
    BY <1>a, Appends, Members
  <1>2. before(longer) = before(rs)
    BY <1>1
  <1>3. wrong(rs) \subseteq wrong(longer)
    BY <1>1
  <1>4. /\ before(rs) # {} => Cardinality(measured) = 1
        /\ \A x \in measured : x[2] \in wrong(rs) /\ \A i \in before(rs) : i <= x[2]
    BY DEF Answers
  <1>5. Answers(f, longer, n, q) <=>
            /\ before(longer) # {} => Cardinality(measured) = 1
            /\ \A x \in measured : x[2] \in wrong(longer) /\ \A i \in before(longer) : i <= x[2]
    BY DEF Answers
  <1> HIDE DEF before, wrong, measured
  <1>6. Answers(f, longer, n, q)
    BY <1>2, <1>3, <1>4, <1>5
  <1> QED BY <1>a, <1>6

LEMMA FlagsStep ==
    ASSUME EvalInv, [EvalNext]_evalVars
    PROVE  FlagsMeasured'
  <1>t. FlagsMeasured /\ Rated /\ EvalTypeOK
    BY DEF EvalInv
  <1>b. \A p \in Evaluators : Reporting(p) =>
            \A q \in Questions : Answers(run[p].flagged, ratings[p], run[p].ratedBefore, q)
    BY <1>t, FlagsOneByOne
  <1>g. (\A p \in Evaluators : Reporting(p)' =>
            \A q \in Questions : Answers(run'[p].flagged, ratings'[p], run'[p].ratedBefore, q))
        => FlagsMeasured'
    BY DEF FlagsMeasured, Reporting, Answers, Wrong
  <1>a. ASSUME NEW p \in Evaluators,
               \A q \in Evaluators \ {p} : run'[q] = run[q] /\ ratings'[q] = ratings[q],
               Reporting(p)' => \A q \in Questions :
                   Answers(run'[p].flagged, ratings'[p], run'[p].ratedBefore, q)
        PROVE  FlagsMeasured'
    <2> SUFFICES ASSUME NEW o \in Evaluators, Reporting(o)', NEW q \in Questions
                 PROVE  Answers(run'[o].flagged, ratings'[o], run'[o].ratedBefore, q)
      BY <1>g
    <2>1. CASE o = p
      BY <1>a, <2>1
    <2>2. CASE o # p
      <3>1. run'[o] = run[o] /\ ratings'[o] = ratings[o]
        BY <1>a, <2>2
      <3>2. Reporting(o)
        BY <3>1 DEF Reporting
      <3> QED BY <1>b, <3>1, <3>2
    <2> QED BY <2>1, <2>2
  <1>c. ASSUME NEW p \in Evaluators, ratings' = ratings, Reporting(p),
               \A q \in Evaluators \ {p} : run'[q] = run[q],
               \/ run'[p].flagged = run[p].flagged /\ run'[p].ratedBefore = run[p].ratedBefore
               \/ ~Reporting(p)'
        PROVE  FlagsMeasured'
    BY <1>a, <1>b, <1>c
  <1>1. ASSUME NEW p \in Evaluators, NEW question \in Questions, NEW verdict \in Verdicts,
               Rate(p, question, verdict)
        PROVE  FlagsMeasured'
    <2>a. PICK e : e = [question |-> question, verdict |-> verdict]
      OBVIOUS
    <2>1. /\ run' = run /\ ratings'[p] = Append(ratings[p], e)
          /\ \A q \in Evaluators \ {p} : ratings'[q] = ratings[q]
      BY <1>1, <2>a, Bounded DEF Rate
    <2>2. ASSUME Reporting(p)', NEW q \in Questions
          PROVE  Answers(run'[p].flagged, ratings'[p], run'[p].ratedBefore, q)
      <3>1. Reporting(p) /\ Running(p)
        BY <2>1, <2>2 DEF Reporting, Running, Step
      <3>2. /\ run[p].ratedBefore \in Nat /\ run[p].ratedBefore <= Len(ratings[p])
            /\ ratings[p] \in Seq([question : Questions, verdict : Verdicts])
        <4>1. run[p].ratedBefore \in 0 .. MaxRatings /\ MaxRatings \in Nat
          BY <1>t, <3>1, RunFields, Bounded
        <4>2. run[p].ratedBefore <= Len(ratings[p])
          BY <1>t, <3>1 DEF Rated
        <4>3. ratings[p] \in Seq([question : Questions, verdict : Verdicts])
          BY Bounded
        <4> QED BY <4>1, <4>2, <4>3
      <3>3. e \in [question : Questions, verdict : Verdicts]
        BY <2>a
      <3>4. Answers(run[p].flagged, ratings[p], run[p].ratedBefore, q)
        BY <1>b, <3>1
      <3>5. Answers(run[p].flagged, Append(ratings[p], e), run[p].ratedBefore, q)
        BY <3>2, <3>3, <3>4, AnswersKept
      <3> QED BY <2>1, <3>5
    <2> QED BY <2>1, <2>2, <1>a
  <1>2. ASSUME NEW p \in Evaluators, Score(p) PROVE FlagsMeasured'
    <2>1. ratings' = ratings
      BY <1>2 DEF Score
    <2>2. ~Reporting(p)'
      BY <1>2, ScoreSteps DEF Reporting
    <2> QED BY <1>2, <2>1, <2>2, <1>a, ScoreSteps
  <1>3. ASSUME NEW p \in Evaluators, Regress(p) PROVE FlagsMeasured'
    <2>1. ratings' = ratings
      BY <1>3 DEF Regress
    <2>2. run'[p].flagged = Flagged(p) /\ \A q \in Evaluators \ {p} : run'[q] = run[q]
      BY <1>3, RegressSteps
    <2> QED BY <2>1, <2>2, <1>a, FlaggedAnswers
  <1>4. ASSUME NEW p \in Evaluators, PutLatest(p) PROVE FlagsMeasured'
    <2>1. ratings' = ratings /\ Reporting(p)
      BY <1>4 DEF PutLatest, Step, Reporting
    <2>2. CASE GoesTo(p, "read", <<>>)
      BY <2>1, <2>2, <1>c, GoingSteps
    <2>3. CASE Leaves(p)
      <3>1. ~Reporting(p)'
        BY <2>3, LeavingSteps DEF Reporting
      <3> QED BY <2>1, <2>3, <3>1, <1>c, LeavingSteps
    <2> QED BY <1>4, <2>2, <2>3 DEF PutLatest
  <1>5. ASSUME NEW p \in Evaluators, ReadHistory(p) PROVE FlagsMeasured'
    <2>1. ratings' = ratings /\ Reporting(p)
      BY <1>5 DEF ReadHistory, Step, Reporting
    <2>2. CASE GoesTo(p, "append", trend.history)
      BY <2>1, <2>2, <1>c, GoingSteps
    <2>3. CASE GoesTo(p, "append", <<>>)
      BY <2>1, <2>3, <1>c, GoingSteps
    <2> QED BY <1>5, <2>2, <2>3 DEF ReadHistory
  <1>6. ASSUME NEW p \in Evaluators, PutHistory(p) PROVE FlagsMeasured'
    <2>1. ratings' = ratings /\ Leaves(p)
      BY <1>6 DEF PutHistory
    <2>2. ~Reporting(p)'
      BY <2>1, LeavingSteps DEF Reporting
    <2> QED BY <2>1, <2>2, <1>a, LeavingSteps
  <1>7. ASSUME NEW p \in Evaluators, Restart(p) PROVE FlagsMeasured'
    <2>1. Leaves(p) /\ \A q \in Evaluators \ {p} : ratings'[q] = ratings[q]
      BY <1>7, Bounded DEF Restart
    <2>2. ~Reporting(p)'
      BY <2>1, LeavingSteps DEF Reporting
    <2> QED BY <2>1, <2>2, <1>a, LeavingSteps
  <1>8. CASE UNCHANGED evalVars
    BY <1>8, <1>t DEF evalVars, FlagsMeasured, Wrong
  <1> QED BY <1>1, <1>2, <1>3, <1>4, <1>5, <1>6, <1>7, <1>8 DEF EvalNext

(* Undisturbed: the trend while evaluations followed one another.          *)
Increasing(s) == \A i, j \in 1 .. Len(s) : i < j => s[i] < s[j]
TrendIs(s, h, n, latest) ==
    /\ Increasing(s) /\ UpTo(s, n) /\ latest <= n
    /\ s # <<>> => s[Len(s)] <= latest
    /\ Len(h) = Newest(s)
    /\ \A i \in 1 .. Len(h) : h[i] = s[i + Len(s) - Len(h)]
AtTheTrend(p) ==
    /\ run[p].number = ran /\ UpTo(ended, ran - 1)
    /\ HasPoints(p) => trend.latest = ran
    /\ Step(p, "append") => run[p].points = trend.history

LEMMA UndisturbedParts ==
    Undisturbed <=> /\ \A p, q \in Evaluators : Running(p) /\ Running(q) => p = q
                    /\ TrendIs(ended, trend.history, ran, trend.latest)
                    /\ \A p \in Evaluators : Running(p) => AtTheTrend(p)
  BY DEF Undisturbed, TrendIs, Increasing, AtTheTrend

(* A step of the evaluation that leaves the trend alone.                   *)
LEMMA UndisturbedKept ==
    ASSUME Undisturbed, NEW p \in Evaluators, UNCHANGED <<trend, ended, ran>>,
           \A q \in Evaluators \ {p} : run'[q] = run[q],
           Running(p)' => Running(p) /\ run'[p].number = run[p].number,
           HasPoints(p)' => HasPoints(p),
           Step(p, "append")' => run'[p].points = trend.history
    PROVE  Undisturbed'
  <1>1. ASSUME NEW q \in Evaluators, q # p
        PROVE  /\ (Running(q)' <=> Running(q)) /\ (AtTheTrend(q)' <=> AtTheTrend(q))
    BY <1>1 DEF Running, AtTheTrend, HasPoints, Step
  <1>2. Running(p)' => AtTheTrend(p)'
    BY UndisturbedParts DEF AtTheTrend
  <1>3. ASSUME NEW q \in Evaluators, Running(q)' PROVE Running(q) /\ AtTheTrend(q)'
    BY <1>1, <1>2, <1>3, UndisturbedParts
  <1>4. TrendIs(ended, trend.history, ran, trend.latest)'
    BY UndisturbedParts DEF TrendIs
  <1>5. \A q, o \in Evaluators : Running(q)' /\ Running(o)' => q = o
    BY <1>3, UndisturbedParts
  <1> QED BY <1>3, <1>4, <1>5 DEF Undisturbed, TrendIs, Increasing, AtTheTrend

(* The evaluation that ends joins the trend, and the oldest leaves it.     *)
LEMMA TrendGrows ==
    ASSUME NEW m \in Nat, NEW s \in Seq(1 .. m), NEW h \in Seq(1 .. m), NEW n \in 1 .. m,
           NEW latest, TrendIs(s, h, n, latest), UpTo(s, n - 1)
    PROVE  TrendIs(Append(s, n), LastPoints(Append(h, n)), n, n)
  <1>a. PICK longer : longer = Append(s, n)
    OBVIOUS
  <1>b. PICK points : points = Append(h, n)
    OBVIOUS
  <1>c. PICK cut : cut = LastPoints(points)
    OBVIOUS
  <1>1. /\ longer \in Seq(1 .. m) /\ Len(longer) = Len(s) + 1 /\ Len(s) \in Nat
        /\ longer[Len(s) + 1] = n /\ \A i \in 1 .. Len(s) : longer[i] = s[i]
    BY <1>a, Appends, Members
  <1>2. /\ points \in Seq(1 .. m) /\ Len(points) = Len(h) + 1 /\ Len(h) \in Nat
        /\ points[Len(h) + 1] = n /\ \A i \in 1 .. Len(h) : points[i] = h[i]
    BY <1>b, Appends, Members
  <1>3. /\ Len(cut) = Newest(points) /\ Newest(points) \in 0 .. Len(points)
        /\ \A i \in 1 .. Newest(points) : cut[i] = points[i + Len(points) - Newest(points)]
    BY <1>2, <1>c, KeptPoints
  <1>4. /\ Increasing(s) /\ Len(h) = Newest(s)
        /\ \A i \in 1 .. Len(h) : h[i] = s[i + Len(s) - Len(h)]
    BY DEF TrendIs
  <1>5. KeepPoints \in Nat \ {0}
    BY EvalBounds
  <1>6. Newest(points) = Newest(longer) /\ Newest(s) <= Len(s)
    <2>1. Len(h) = IF Len(s) < KeepPoints THEN Len(s) ELSE KeepPoints
      BY <1>4 DEF Newest
    <2>2. Newest(points) = IF Len(h) + 1 < KeepPoints THEN Len(h) + 1 ELSE KeepPoints
      BY <1>2 DEF Newest
    <2>3. Newest(longer) = IF Len(s) + 1 < KeepPoints THEN Len(s) + 1 ELSE KeepPoints
      BY <1>1 DEF Newest
    <2>4. Len(s) \in Nat /\ Len(h) \in Nat
      BY <1>1, <1>2
    <2>5. Newest(s) = Len(h)
      BY <1>4
    <2> QED BY <1>5, <2>1, <2>2, <2>3, <2>4, <2>5
  <1>7. ASSUME NEW i \in 1 .. Len(s) PROVE longer[i] \in Nat /\ longer[i] <= n - 1
    <2>1. s[i] \in 1 .. m /\ s[i] <= n - 1
      <3>1. s[i] \in 1 .. m
        BY Members
      <3> QED BY <3>1 DEF UpTo
    <2> QED BY <1>1, <2>1
  <1>8. ASSUME NEW i \in 1 .. Len(longer) PROVE longer[i] <= n
    <2>1. CASE i = Len(s) + 1
      BY <1>1, <2>1
    <2>2. CASE i # Len(s) + 1
      <3>1. i \in 1 .. Len(s)
        BY <1>1, <2>2
      <3> QED BY <3>1, <1>7
    <2> QED BY <2>1, <2>2
  <1>9. ASSUME NEW i \in 1 .. Len(longer), NEW j \in 1 .. Len(longer), i < j
        PROVE  longer[i] < longer[j]
    <2>1. i \in 1 .. Len(s)
      BY <1>1, <1>9
    <2>2. CASE j = Len(s) + 1
      BY <1>1, <1>7, <2>1, <2>2
    <2>3. CASE j # Len(s) + 1
      <3>1. j \in 1 .. Len(s)
        BY <1>1, <2>3
      <3> QED BY <1>1, <1>4, <1>9, <2>1, <3>1 DEF Increasing
    <2> QED BY <2>2, <2>3
  <1>10. ASSUME NEW i \in 1 .. Len(cut)
         PROVE  cut[i] = longer[i + Len(longer) - Len(cut)]
    <2>1. cut[i] = points[i + Len(points) - Len(cut)] /\ i + Len(points) - Len(cut) \in 1 .. Len(points)
      BY <1>2, <1>3
    <2>2. CASE i = Len(cut)
      <3>1. i + Len(points) - Len(cut) = Len(h) + 1 /\ i + Len(longer) - Len(cut) = Len(s) + 1
        BY <1>1, <1>2, <1>3, <2>2
      <3> QED BY <1>1, <1>2, <2>1, <3>1
    <2>3. CASE i # Len(cut)
      <3>a. PICK k : k = i + Len(points) - Len(cut)
        OBVIOUS
      <3>0. Len(cut) \in Nat /\ Len(cut) <= Len(h) + 1 /\ Len(h) <= Len(s)
        BY <1>2, <1>3, <1>4, <1>6
      <3>1. k \in 1 .. Len(h) /\ k + Len(s) - Len(h) = i + Len(longer) - Len(cut)
        <4>1. i \in Nat /\ i >= 1 /\ i < Len(cut)
          BY <2>3, <3>0
        <4>2. k = i + (Len(h) + 1) - Len(cut)
          BY <1>2, <3>a
        <4>3. k \in 1 .. Len(h)
          <5>a. PICK l : l = Len(h)
            OBVIOUS
          <5>b. PICK c : c = Len(cut)
            OBVIOUS
          <5>1. l \in Nat /\ c \in Nat /\ c <= l + 1 /\ i < c /\ k = i + (l + 1) - c
            BY <1>2, <3>0, <4>1, <4>2, <5>a, <5>b
          <5>2. k \in 1 .. l
            BY <5>1, <4>1
          <5> QED BY <5>2, <5>a
        <4> QED BY <1>1, <1>2, <3>0, <4>1, <4>2, <4>3
      <3>2. k + Len(s) - Len(h) \in 1 .. Len(s)
        BY <1>1, <1>2, <3>0, <3>1
      <3>3. points[k] = h[k] /\ h[k] = s[k + Len(s) - Len(h)]
        BY <1>2, <1>4, <3>1
      <3>4. longer[k + Len(s) - Len(h)] = s[k + Len(s) - Len(h)]
        BY <1>1, <3>2
      <3> QED BY <2>1, <3>a, <3>1, <3>3, <3>4
    <2> QED BY <2>2, <2>3
  <1>11. Increasing(longer) /\ UpTo(longer, n) /\ n <= n
    BY <1>8, <1>9 DEF Increasing, UpTo
  <1>12. longer[Len(longer)] <= n
    BY <1>1
  <1>13. TrendIs(longer, cut, n, n)
    BY <1>3, <1>6, <1>10, <1>11, <1>12 DEF TrendIs
  <1> QED BY <1>a, <1>b, <1>c, <1>13

LEMMA UndisturbedStep ==
    ASSUME EvalInv, EvalTypeOK', [EvalNext]_evalVars, calm'
    PROVE  Undisturbed'
  <1>t. EvalTypeOK /\ Numbers /\ ran \in Nat /\ ended \in Seq(1 .. MaxRuns) /\ MaxRuns \in Nat
    BY Bounded DEF EvalInv, EvalTypeOK
  <1>c. ASSUME calm
        PROVE  /\ Undisturbed
               /\ \A p, q \in Evaluators : Running(p) /\ Running(q) => p = q
               /\ TrendIs(ended, trend.history, ran, trend.latest)
               /\ \A p \in Evaluators : Running(p) => AtTheTrend(p)
    BY <1>c, UndisturbedParts DEF EvalInv
  <1>g. /\ \A p, q \in Evaluators : Running(p)' /\ Running(q)' => p = q
        /\ TrendIs(ended', trend'.history, ran', trend'.latest)
        /\ \A p \in Evaluators : Running(p)' => AtTheTrend(p)'
        => Undisturbed'
    BY DEF Undisturbed, TrendIs, Increasing, AtTheTrend
  <1>n. ~Raises
    BY DEF Raises
  <1>1. ASSUME NEW p \in Evaluators, NEW question \in Questions, NEW verdict \in Verdicts,
               Rate(p, question, verdict)
        PROVE  Undisturbed'
    <2>1. calm /\ UNCHANGED <<run, trend, ended, ran>>
      BY <1>1 DEF Rate
    <2> QED BY <1>c, <2>1 DEF Undisturbed, Running, HasPoints, Step
  <1>2. ASSUME NEW p \in Evaluators, Score(p) PROVE Undisturbed'
    <2>1. /\ calm /\ (\A q \in Evaluators : ~Running(q))
          /\ ran' = ran + 1 /\ trend' = trend /\ ended' = ended
      BY <1>2 DEF Score, Running
    <2>2. /\ run'[p].number = ran + 1 /\ ~HasPoints(p)' /\ Running(p)'
          /\ \A q \in Evaluators \ {p} : run'[q] = run[q]
      BY <1>2, ScoreSteps
    <2>3. ASSUME NEW q \in Evaluators, Running(q)' PROVE q = p
      BY <2>1, <2>2, <2>3, Untouched
    <2>4. UpTo(ended, ran) /\ trend.latest <= ran /\ trend.latest \in Nat
      BY <1>c, <1>t, <2>1 DEF TrendIs, EvalTypeOK
    <2>5. ASSUME NEW i \in 1 .. Len(ended) PROVE ended[i] \in 1 .. MaxRuns /\ ended[i] <= ran
      <3>1. ended[i] \in 1 .. MaxRuns
        BY <1>t, Members
      <3> QED BY <2>4, <3>1 DEF UpTo
    <2>6. UpTo(ended, ran') /\ UpTo(ended, ran' - 1) /\ trend.latest <= ran'
      BY <1>t, <2>1, <2>4, <2>5 DEF UpTo
    <2>7. TrendIs(ended', trend'.history, ran', trend'.latest)
      BY <1>c, <2>1, <2>6 DEF TrendIs
    <2>8. ~Step(p, "append")'
      BY <2>2 DEF HasPoints
    <2>9. AtTheTrend(p)'
      BY <2>1, <2>2, <2>6, <2>8 DEF AtTheTrend
    <2> QED BY <1>g, <2>3, <2>7, <2>9
  <1>3. ASSUME NEW p \in Evaluators, Regress(p) PROVE Undisturbed'
    <2>1. calm /\ UNCHANGED <<trend, ended, ran>>
      BY <1>3 DEF Regress
    <2>2. /\ Running(p) /\ ~HasPoints(p)' /\ run'[p].number = run[p].number
          /\ \A q \in Evaluators \ {p} : run'[q] = run[q]
      BY <1>3, RegressSteps
    <2>3. ~Step(p, "append")'
      BY <2>2 DEF HasPoints
    <2> QED BY <1>c, <2>1, <2>2, <2>3, UndisturbedKept
  <1>4. ASSUME NEW p \in Evaluators, PutLatest(p) PROVE Undisturbed'
    <2>1. /\ calm /\ trend' = [trend EXCEPT !.latest = run[p].number]
          /\ GoesTo(p, "read", <<>>) /\ UNCHANGED <<ran, ended>> /\ Running(p)
      BY <1>4, <1>n DEF PutLatest, NoRaise, Step, Running
    <2>2. /\ run'[p].number = run[p].number /\ run'[p].step = "read" /\ HasPoints(p)'
          /\ \A q \in Evaluators \ {p} : run'[q] = run[q]
      BY <2>1, GoingSteps
    <2>3. run[p].number = ran /\ UpTo(ended, ran - 1)
      BY <1>c, <2>1 DEF AtTheTrend
    <2>4. trend'.latest = ran /\ trend'.history = trend.history
      BY <1>t, <2>1, <2>3 DEF EvalTypeOK
    <2>5. ASSUME NEW q \in Evaluators, Running(q)' PROVE q = p
      BY <1>c, <2>1, <2>2, <2>5, Untouched
    <2>6. ended # <<>> => ended[Len(ended)] <= ran
      <3>1. ended # <<>> => Len(ended) \in 1 .. Len(ended)
        BY <1>t
      <3> QED BY <1>c, <2>1, <3>1 DEF TrendIs, UpTo
    <2>7. TrendIs(ended', trend'.history, ran', trend'.latest)
      BY <1>c, <1>t, <2>1, <2>4, <2>6 DEF TrendIs
    <2>8. AtTheTrend(p)'
      BY <2>1, <2>2, <2>3, <2>4 DEF AtTheTrend, Step
    <2> QED BY <1>g, <2>5, <2>7, <2>8
  <1>5. ASSUME NEW p \in Evaluators, ReadHistory(p) PROVE Undisturbed'
    <2>1. /\ calm /\ UNCHANGED <<trend, ended, ran>> /\ GoesTo(p, "append", trend.history)
          /\ Running(p) /\ HasPoints(p)
      BY <1>5, <1>n DEF ReadHistory, NoRaise, Step, Running, HasPoints
    <2> QED BY <1>c, <2>1, GoingSteps, UndisturbedKept
  <1>6. ASSUME NEW p \in Evaluators, PutHistory(p) PROVE Undisturbed'
    <2>1. /\ calm /\ Leaves(p) /\ ran' = ran
          /\ trend' = [trend EXCEPT !.history = LastPoints(Append(run[p].points, run[p].number))]
          /\ ended' = Append(ended, run[p].number)
          /\ Running(p) /\ HasPoints(p) /\ Step(p, "append")
      BY <1>6, <1>n DEF PutHistory, NoRaise, Step, Running, HasPoints
    <2>2. ~Running(p)' /\ \A q \in Evaluators \ {p} : run'[q] = run[q]
      BY <2>1, LeavingSteps
    <2>3. /\ run[p].number = ran /\ UpTo(ended, ran - 1) /\ trend.latest = ran
          /\ run[p].points = trend.history
      BY <1>c, <2>1 DEF AtTheTrend
    <2>4. ASSUME NEW q \in Evaluators PROVE ~Running(q)'
      BY <1>c, <2>1, <2>2, Untouched
    <2>5. /\ trend'.latest = ran /\ trend'.history = LastPoints(Append(trend.history, ran))
          /\ ended' = Append(ended, ran) /\ ran \in 1 .. MaxRuns
          /\ trend.history \in Seq(1 .. MaxRuns)
      BY <1>t, <2>1, <2>3, RunFields DEF EvalTypeOK
    <2>6. TrendIs(Append(ended, ran), LastPoints(Append(trend.history, ran)), ran, ran)
      BY <1>c, <1>t, <2>1, <2>3, <2>5, TrendGrows
    <2> QED BY <1>g, <2>1, <2>4, <2>5, <2>6
  <1>7. ASSUME NEW p \in Evaluators, Restart(p) PROVE Undisturbed'
    <2>1. calm /\ UNCHANGED <<trend, ended, ran>> /\ Leaves(p)
      BY <1>7 DEF Restart
    <2>2. ~Step(p, "append")'
      BY <2>1, LeavingSteps DEF Step
    <2> QED BY <1>c, <2>1, <2>2, LeavingSteps, UndisturbedKept
  <1>8. CASE UNCHANGED evalVars
    <2>1. calm /\ UNCHANGED <<run, trend, ended, ran>>
      BY <1>8 DEF evalVars
    <2> QED BY <1>c, <2>1 DEF Undisturbed, Running, HasPoints, Step
  <1> QED BY <1>1, <1>2, <1>3, <1>4, <1>5, <1>6, <1>7, <1>8 DEF EvalNext

LEMMA EvalInitInv == EvalInit => EvalInv
  <1> SUFFICES ASSUME EvalInit PROVE EvalInv
    OBVIOUS
  <1>1. KeepPoints \in Nat \ {0} /\ MaxRatings \in Nat /\ MaxRuns \in Nat /\ MaxMissed \in Nat
        /\ MaxRestarts \in Nat
    BY EvalBounds
  <1>2. ASSUME NEW p \in Evaluators PROVE ~Running(p) /\ ~HasPoints(p) /\ ratings[p] = <<>>
    BY DEF EvalInit, NoRun, Running, HasPoints, Step
  <1>3. EvalTypeOK
    BY <1>1 DEF EvalInit, EvalTypeOK, NoScores
  <1>4. trend.history = <<>> /\ trend.latest = 0 /\ ended = <<>> /\ ran = 0 /\ rated = 0
    BY DEF EvalInit, NoScores
  <1>5. Numbers
    BY <1>2, <1>4 DEF Numbers, NoneTwice, UpTo
  <1>6. Undisturbed
    BY <1>1, <1>2, <1>4 DEF Undisturbed, UpTo, Newest
  <1>7. Rated
    BY <1>2, <1>4 DEF Rated
  <1>8. FlagsMeasured
    BY DEF EvalInit, FlagsMeasured, NoRun
  <1> QED BY <1>3, <1>5, <1>6, <1>7, <1>8 DEF EvalInv

LEMMA EvalNextInv == EvalInv /\ [EvalNext]_evalVars => EvalInv'
  <1> SUFFICES ASSUME EvalInv, [EvalNext]_evalVars PROVE EvalInv'
    OBVIOUS
  <1>1. EvalTypeOK'
    BY EvalTypeStep
  <1>2. Numbers' /\ Rated' /\ FlagsMeasured'
    BY <1>1, NumbersStep, RatedStep, FlagsStep
  <1>3. calm' => Undisturbed'
    BY <1>1, UndisturbedStep
  <1> QED BY <1>1, <1>2, <1>3 DEF EvalInv

(* Numbers, the trend and the reported flags agree in every state, through *)
(* overlaps, raises and restarts (api.py:625-682, harness.py,              *)
(* feedback.py).                                                           *)
THEOREM EvalInvariance == EvalSpec => []EvalInv
  <1>1. EvalInit => EvalInv
    BY EvalInitInv
  <1>2. EvalInv /\ [EvalNext]_evalVars => EvalInv'
    BY EvalNextInv
  <1> QED BY <1>1, <1>2, PTL DEF EvalSpec

(* Ratings, runs and the trend keep their types, and the trend its limit   *)
(* (feedback.py:20-75, api.py:625-682).                                    *)
THEOREM EvalTypeCorrect == EvalSpec => []EvalTypeOK
  <1>1. EvalInv => EvalTypeOK
    BY DEF EvalInv
  <1> QED BY <1>1, EvalInvariance, PTL

(* A sequence that ends as another does is a suffix of it.                 *)
LEMMA Suffix ==
    ASSUME NEW B, NEW s \in Seq(B), NEW t \in Seq(B), Len(s) <= Len(t),
           \A i \in 1 .. Len(s) : s[i] = t[i + Len(t) - Len(s)]
    PROVE  IsSuffix(s, t)
  <1>1. Len(s) \in Nat /\ Len(t) \in Nat
    OBVIOUS
  <1>2. /\ Reverse(s) \in Seq(B) /\ Len(Reverse(s)) = Len(s)
        /\ \A i \in 1 .. Len(s) : Reverse(s)[i] = s[Len(s) - i + 1]
    BY <1>1 DEF Reverse
  <1>3. /\ Reverse(t) \in Seq(B) /\ Len(Reverse(t)) = Len(t)
        /\ \A i \in 1 .. Len(t) : Reverse(t)[i] = t[Len(t) - i + 1]
    BY <1>1 DEF Reverse
  <1>4. ASSUME NEW i \in 1 .. Len(s) PROVE Reverse(s)[i] = Reverse(t)[i]
    <2>1. Len(s) - i + 1 \in 1 .. Len(s) /\ Len(s) - i + 1 + Len(t) - Len(s) = Len(t) - i + 1
      BY <1>1
    <2>2. s[Len(s) - i + 1] = t[Len(t) - i + 1]
      BY <2>1
    <2>3. i \in 1 .. Len(t)
      BY <1>1
    <2> QED BY <1>2, <1>3, <2>2, <2>3
  <1>5. /\ SubSeq(Reverse(t), 1, Len(s)) \in Seq(B) /\ Len(SubSeq(Reverse(t), 1, Len(s))) = Len(s)
        /\ \A i \in 1 .. Len(s) : SubSeq(Reverse(t), 1, Len(s))[i] = Reverse(t)[i]
    BY <1>1, <1>3
  <1>6. SubSeq(Reverse(t), 1, Len(s)) = Reverse(s)
    BY <1>2, <1>4, <1>5
  <1> QED BY <1>1, <1>2, <1>3, <1>6 DEF IsSuffix, IsPrefix

(* No evaluation counts twice; while none overlapped and no store call     *)
(* raised the trend is the last that ended, in order; and every question   *)
(* flagged before a run is answered again, once (api.py:641-705,           *)
(* feedback.py:65-75, harness.py:258-282).                                 *)
THEOREM EvaluationsCounted == EvalSpec => []EvaluationsCount
  <1>1. ASSUME EvalInv PROVE EvaluationsCount
    <2>t. /\ EvalTypeOK /\ Numbers /\ FlagsMeasured /\ KeepPoints \in Nat \ {0} /\ MaxRuns \in Nat
          /\ ended \in Seq(1 .. MaxRuns) /\ trend.history \in Seq(1 .. MaxRuns)
          /\ trend.latest \in 0 .. MaxRuns
      BY <1>1, Bounded DEF EvalInv, EvalTypeOK
    <2>1. ASSUME NEW i \in 1 .. Len(trend.history), NEW j \in 1 .. Len(trend.history),
                 trend.history[i] = trend.history[j]
          PROVE  i = j
      <3>1. ~(i < j) /\ ~(j < i)
        BY <2>t, <2>1 DEF Numbers, NoneTwice
      <3> QED BY <3>1
    <2>2. ASSUME calm
          PROVE  /\ Len(trend.history) = IF Len(ended) < KeepPoints THEN Len(ended) ELSE KeepPoints
                 /\ IsSuffix(trend.history, ended)
                 /\ ended # <<>> =>
                       /\ Available /\ trend.latest >= Last(ended)
                       /\ trend.latest \in ToSet(ended) => trend.latest = Last(ended)
      <3>1. TrendIs(ended, trend.history, ran, trend.latest)
        BY <1>1, <2>2, UndisturbedParts DEF EvalInv
      <3>2. /\ Len(trend.history) = Newest(ended) /\ Increasing(ended)
            /\ ended # <<>> => ended[Len(ended)] <= trend.latest
            /\ \A i \in 1 .. Len(trend.history) :
                  trend.history[i] = ended[i + Len(ended) - Len(trend.history)]
        BY <3>1 DEF TrendIs
      <3>3. Len(trend.history) = IF Len(ended) < KeepPoints THEN Len(ended) ELSE KeepPoints
        BY <3>2 DEF Newest
      <3>4. IsSuffix(trend.history, ended)
        <4>1. Len(trend.history) <= Len(ended)
          BY <2>t, <3>3
        <4> QED BY <2>t, <3>2, <4>1, Suffix
      <3>5. ASSUME ended # <<>>
            PROVE  /\ Available /\ trend.latest >= Last(ended)
                   /\ trend.latest \in ToSet(ended) => trend.latest = Last(ended)
        <4>1. Len(ended) \in 1 .. Len(ended) /\ ended[Len(ended)] \in 1 .. MaxRuns
          <5>1. Len(ended) \in 1 .. Len(ended)
            BY <2>t, <3>5
          <5> QED BY <2>t, <5>1, Members
        <4>2. Last(ended) = ended[Len(ended)]
          BY DEF Last
        <4>3. trend.latest # 0 /\ trend.latest >= Last(ended)
          BY <2>t, <3>2, <3>5, <4>1, <4>2
        <4>4. ASSUME trend.latest \in ToSet(ended) PROVE trend.latest = Last(ended)
          <5>1. PICK i \in 1 .. Len(ended) : trend.latest = ended[i]
            BY <4>4 DEF ToSet
          <5>2. i < Len(ended) => ended[i] < ended[Len(ended)]
            BY <3>2, <4>1 DEF Increasing
          <5>3. i = Len(ended)
            BY <2>t, <4>1, <4>2, <4>3, <5>1, <5>2
          <5> QED BY <4>2, <5>1, <5>3
        <4> QED BY <4>3, <4>4 DEF Available, NoScores
      <3> QED BY <3>3, <3>4, <3>5
    <2>3. TrendComplete
      BY <2>1, <2>2 DEF TrendComplete
    <2> QED BY <2>t, <2>3 DEF EvaluationsCount
  <1> QED BY <1>1, EvalInvariance, PTL

-----------------------------------------------------------------------------
(* AzureSearch. An outage degrades to what is held locally.                *)

(* What a replica holds when it gets to a search, by where it is: the      *)
(* policies, once the index was built; the batch it is sending.            *)
Held(r, l) ==
    /\ r.step \in {"send", "settle"} => r.item \in l.holds /\ r.item \in Batches
    /\ r.step = "add" => r.item \in Batches
    /\ r.step = "send" => l.service
    /\ r.step \in {"search", "send", "settle", "add"} /\ r.item # CorpusBatch => CorpusBatch \in l.holds
    /\ r.step \in {"idle", "ensure"} /\ l.count # NeverIndexed => CorpusBatch \in l.holds
    /\ r.step = "search" => r.item # CorpusBatch

(* Uploads answered, and those of them the index does not have.            *)
Answered(r, l, a, d) ==
    /\ a \ d \subseteq l.holds
    /\ l.count = NeverIndexed => a = {}
    /\ graph = "neo4j" =>
          /\ d = {}
          /\ r.step = "make" => l.count = NeverIndexed

(* Only the batch that is on its way is on neither side.                   *)
Sent(r, l) ==
    l.service => l.holds \subseteq
        remote \cup unsent \cup (IF r.step = "send" THEN {r.item} ELSE {})

SearchInv ==
    /\ SearchTypeOK
    /\ \A p \in Hosts :
          /\ Held(request[p], local[p])
          /\ Answered(request[p], local[p], added[p], dropped[p])
          /\ Sent(request[p], local[p])

Replica(r, l, a, d) == Held(r, l) /\ Answered(r, l, a, d) /\ Sent(r, l)

LEMMA ContentsFinite ==
    ASSUME NEW S \in SUBSET Contents
    PROVE  Cardinality(S) \in 0 .. Cardinality(Contents)
  <1>1. IsFiniteSet(Contents) /\ Cardinality(Contents) \in Nat
    BY ContentsAssumption, FS_CardinalityType
  <1>2. IsFiniteSet(S) /\ Cardinality(S) <= Cardinality(Contents)
    BY <1>1, FS_Subset
  <1>3. Cardinality(S) \in Nat
    BY <1>2, FS_CardinalityType
  <1> QED BY <1>1, <1>2, <1>3

LEMMA CountedType ==
    ASSUME SearchTypeOK, NEW p \in Hosts
    PROVE  Counted(p) \in 0 .. Cardinality(Contents) /\ Counted(p) # NeverIndexed
  <1>1. kept[p] \in SUBSET Contents
    BY DEF SearchTypeOK
  <1>2. Cardinality(kept[p]) \in 0 .. Cardinality(Contents) /\ Cardinality({}) \in 0 .. Cardinality(Contents)
    BY <1>1, ContentsFinite
  <1>3. Cardinality(Contents) \in Nat
    BY ContentsAssumption, FS_CardinalityType
  <1> QED BY <1>2, <1>3 DEF Counted, NeverIndexed

LEMMA SearchInitInv == SearchInit => SearchInv
  <1> SUFFICES ASSUME SearchInit PROVE SearchInv
    OBVIOUS
  <1>1. SearchTypeOK
    BY DEF SearchInit, SearchTypeOK, NoStore, Rest
  <1>2. ASSUME NEW p \in Hosts PROVE Replica(request[p], local[p], added[p], dropped[p])
    <2>1. request[p] = Rest /\ local[p] = NoStore /\ added[p] = {} /\ dropped[p] = {}
      BY DEF SearchInit
    <2> QED BY <2>1 DEF Replica, Held, Answered, Sent, Rest, NoStore
  <1> QED BY <1>1, <1>2 DEF SearchInv, Replica

SearchSteps == {"idle", "ensure", "make", "add", "send", "settle", "search"}
Served == [step : SearchSteps, doc : Contents \cup {"none"}, item : Batches \cup {"none"}]
Stores ==
    [service : BOOLEAN, holds : SUBSET Batches,
     count : {NeverIndexed} \cup 0 .. Cardinality(Contents)]

LEMMA NowDoesType ==
    ASSUME request \in [Hosts -> Served], NEW p \in Hosts, NEW step \in SearchSteps,
           NEW item \in Batches \cup {"none"}, NowDoes(p, step, item)
    PROVE  /\ request' \in [Hosts -> Served]
           /\ request'[p].step = step /\ request'[p].doc = request[p].doc
           /\ request'[p].item = item
           /\ \A q \in Hosts \ {p} : request'[q] = request[q]
  BY DEF NowDoes, Served

LEMMA GoesOnType ==
    ASSUME request \in [Hosts -> Served], NEW p \in Hosts, GoesOn(p)
    PROVE  /\ request' \in [Hosts -> Served]
           /\ \A q \in Hosts \ {p} : request'[q] = request[q]
           /\ \/ /\ request'[p].step = "add" /\ request'[p].item \in Contents
              \/ /\ request'[p].step = "search" /\ request'[p].item = "none"
  <1>1. CASE request[p].doc \in Contents
    <2>1. NowDoes(p, "add", request[p].doc)
      BY <1>1 DEF GoesOn
    <2>2. request[p].doc \in Batches \cup {"none"} /\ "add" \in SearchSteps
      BY <1>1 DEF Batches, SearchSteps
    <2>3. request'[p].step = "add" /\ request'[p].item \in Contents
      BY <2>1, <2>2, <1>1, NowDoesType
    <2> QED BY <2>1, <2>2, <2>3, NowDoesType
  <1>2. CASE request[p].doc \notin Contents
    <2>1. NowDoes(p, "search", "none")
      BY <1>2 DEF GoesOn
    <2>2. "none" \in Batches \cup {"none"} /\ "search" \in SearchSteps
      BY DEF SearchSteps
    <2>3. request'[p].step = "search" /\ request'[p].item = "none"
      BY <2>1, <2>2, NowDoesType
    <2> QED BY <2>1, <2>2, <2>3, NowDoesType
  <1> QED BY <1>1, <1>2

(* A step of p leaves the other replicas as they are, and what the service *)
(* has, or failed to confirm, only grows.                                  *)
LEMMA ReplicaStep ==
    ASSUME SearchInv, NEW p \in Hosts, SearchTypeOK', graph' = graph,
           remote \subseteq remote', unsent \subseteq unsent',
           \A q \in Hosts \ {p} :
               /\ request'[q] = request[q] /\ local'[q] = local[q]
               /\ added'[q] = added[q] /\ dropped'[q] = dropped[q],
           Replica(request[p], local[p], added[p], dropped[p])'
    PROVE  SearchInv'
  <1>1. ASSUME NEW q \in Hosts \ {p}
        PROVE  Replica(request[q], local[q], added[q], dropped[q])'
    <2>1. Held(request[q], local[q]) /\ Answered(request[q], local[q], added[q], dropped[q])
          /\ Sent(request[q], local[q])
      BY DEF SearchInv
    <2>2. request'[q] = request[q] /\ local'[q] = local[q] /\ added'[q] = added[q] /\ dropped'[q] = dropped[q]
      OBVIOUS
    <2>3. Held(request[q], local[q])'
      BY <2>1, <2>2 DEF Held
    <2>4. Answered(request[q], local[q], added[q], dropped[q])'
      BY <2>1, <2>2 DEF Answered
    <2>5. Sent(request[q], local[q])'
      BY <2>1, <2>2 DEF Sent
    <2> QED BY <2>3, <2>4, <2>5 DEF Replica
  <1> QED BY <1>1 DEF SearchInv, Replica

LEMMA SearchTyped ==
    SearchTypeOK <=>
        /\ graph \in {"memory", "neo4j"}
        /\ remote \subseteq Batches /\ unsent \subseteq Batches
        /\ kept \in [Hosts -> SUBSET Contents]
        /\ local \in [Hosts -> Stores]
        /\ request \in [Hosts -> Served]
        /\ added \in [Hosts -> SUBSET Contents] /\ dropped \in [Hosts -> SUBSET Contents]
        /\ \A p \in Hosts : dropped[p] \subseteq added[p]
  BY DEF SearchTypeOK, Stores, Served, SearchSteps

LEMMA SearchTypedNext ==
    ASSUME graph' \in {"memory", "neo4j"},
           remote' \subseteq Batches, unsent' \subseteq Batches,
           kept' \in [Hosts -> SUBSET Contents],
           local' \in [Hosts -> Stores],
           request' \in [Hosts -> Served],
           added' \in [Hosts -> SUBSET Contents], dropped' \in [Hosts -> SUBSET Contents],
           \A p \in Hosts : dropped'[p] \subseteq added'[p]
    PROVE  SearchTypeOK'
  BY DEF SearchTypeOK, Stores, Served, SearchSteps

LEMMA ServeInv ==
    ASSUME SearchInv, NEW p \in Hosts, NEW doc \in Contents \cup {"none"}, Serve(p, doc)
    PROVE  SearchInv'
  <1> USE SearchTyped
  <1>0. SearchTypeOK
    BY DEF SearchInv
  <1> DEFINE r == [step |-> "ensure", doc |-> doc, item |-> "none"]
  <1>1. r \in Served
    BY DEF Served, SearchSteps
  <1>2. request' = [request EXCEPT ![p] = r]
    BY DEF Serve
  <1>3. request' \in [Hosts -> Served] /\ request'[p] = r
    BY <1>0, <1>1, <1>2
  <1>4. kept' \in [Hosts -> SUBSET Contents]
    BY <1>0 DEF Serve
  <1>5. SearchTypeOK'
    BY <1>0, <1>3, <1>4, SearchTypedNext DEF Serve
  <1>6. Replica(request[p], local[p], added[p], dropped[p])'
    <2>1. Held(request[p], local[p]) /\ Answered(request[p], local[p], added[p], dropped[p])
          /\ Sent(request[p], local[p]) /\ request[p].step = "idle"
      BY DEF SearchInv, Serve, Does
    <2> QED BY <2>1, <1>3 DEF Replica, Held, Answered, Sent, Serve
  <1> QED BY <1>2, <1>5, <1>6, <1>0, ReplicaStep DEF Serve

(* The host's part of the invariant, and the one to prove, in the steps    *)
(* that follow.                                                            *)
LEMMA InvOf ==
    ASSUME SearchInv, NEW p \in Hosts
    PROVE  /\ SearchTypeOK
           /\ graph \in {"memory", "neo4j"}
           /\ remote \subseteq Batches /\ unsent \subseteq Batches
           /\ kept \in [Hosts -> SUBSET Contents]
           /\ local \in [Hosts -> Stores]
           /\ request \in [Hosts -> Served]
           /\ added \in [Hosts -> SUBSET Contents] /\ dropped \in [Hosts -> SUBSET Contents]
           /\ \A q \in Hosts : dropped[q] \subseteq added[q]
           /\ Held(request[p], local[p])
           /\ Answered(request[p], local[p], added[p], dropped[p])
           /\ Sent(request[p], local[p])
  BY SearchTyped DEF SearchInv

LEMMA EnsureInv == ASSUME SearchInv, NEW p \in Hosts, Ensure(p) PROVE SearchInv'
  <1>0. Counted(p) # NeverIndexed
    BY CountedType DEF SearchInv
  <1>1. /\ request' \in [Hosts -> Served]
        /\ \A q \in Hosts \ {p} : request'[q] = request[q]
        /\ \/ /\ OutOfDate(p) /\ request'[p].step = "make" /\ request'[p].item = "none"
           \/ /\ ~OutOfDate(p)
              /\ \/ /\ request'[p].step = "add" /\ request'[p].item \in Contents
                 \/ /\ request'[p].step = "search" /\ request'[p].item = "none"
    <2>1. CASE OutOfDate(p)
      <3>1. NowDoes(p, "make", "none") /\ "make" \in SearchSteps
        BY <2>1 DEF Ensure, SearchSteps
      <3> QED BY <2>1, <3>1, InvOf, NowDoesType
    <2>2. CASE ~OutOfDate(p)
      <3>1. GoesOn(p)
        BY <2>2 DEF Ensure
      <3> QED BY <2>2, <3>1, InvOf, GoesOnType
    <2> QED BY <2>1, <2>2
  <1>2. SearchTypeOK'
    BY <1>1, InvOf, SearchTypedNext DEF Ensure
  <1>3. Replica(request[p], local[p], added[p], dropped[p])'
    <2>1. request[p].step = "ensure"
      BY DEF Ensure, Does
    <2>2. Held(request[p], local[p])'
      BY <2>1, <1>0, <1>1, InvOf DEF Ensure, Held, OutOfDate, Batches, CorpusBatch
    <2>3. Answered(request[p], local[p], added[p], dropped[p])'
      BY <2>1, <1>1, InvOf DEF Ensure, Answered, OutOfDate
    <2>4. Sent(request[p], local[p])'
      BY <2>1, <1>1, InvOf DEF Ensure, Sent
    <2> QED BY <2>2, <2>3, <2>4 DEF Replica
  <1> QED BY <1>1, <1>2, <1>3, ReplicaStep DEF Ensure

LEMMA MakeStoreInv ==
    ASSUME SearchInv, NEW p \in Hosts, NEW answers \in BOOLEAN, MakeStore(p, answers)
    PROVE  SearchInv'
  <1>0. request[p].step = "make"
    BY DEF MakeStore, Does
  <1>1. /\ request' \in [Hosts -> Served]
        /\ \A q \in Hosts \ {p} : request'[q] = request[q]
        /\ request'[p].step = "add" /\ request'[p].item = CorpusBatch
    BY InvOf, NowDoesType DEF MakeStore, SearchSteps, Batches
  <1>2. /\ local' \in [Hosts -> Stores]
        /\ \A q \in Hosts \ {p} : local'[q] = local[q]
        /\ local'[p] = [service |-> answers, holds |-> {}, count |-> local[p].count]
    BY InvOf DEF MakeStore, Stores
  <1>3. /\ \A q \in Hosts \ {p} : dropped'[q] = dropped[q]
        /\ dropped'[p] = added[p] /\ dropped' \in [Hosts -> SUBSET Contents]
    BY InvOf DEF MakeStore
  <1>4. SearchTypeOK'
    BY <1>1, <1>2, <1>3, InvOf, SearchTypedNext DEF MakeStore
  <1>5. Replica(request[p], local[p], added[p], dropped[p])'
    <2>1. Held(request[p], local[p])'
      BY <1>0, <1>1, <1>2 DEF Held, Batches
    <2>2. Answered(request[p], local[p], added[p], dropped[p])'
      BY <1>0, <1>1, <1>2, <1>3, InvOf DEF MakeStore, Answered
    <2>3. Sent(request[p], local[p])'
      BY <1>2 DEF Sent
    <2> QED BY <2>1, <2>2, <2>3 DEF Replica
  <1> QED BY <1>1, <1>2, <1>3, <1>4, <1>5, ReplicaStep DEF MakeStore

LEMMA AddBatchInv == ASSUME SearchInv, NEW p \in Hosts, AddBatch(p) PROVE SearchInv'
  <1>0. request[p].step = "add" /\ request[p].item \in Batches
    BY InvOf DEF AddBatch, Does, Held
  <1>1. /\ request' \in [Hosts -> Served]
        /\ \A q \in Hosts \ {p} : request'[q] = request[q]
        /\ request'[p].step = IF local[p].service THEN "send" ELSE "settle"
        /\ request'[p].item = request[p].item
    BY <1>0, InvOf, NowDoesType DEF AddBatch, SearchSteps
  <1>2. /\ local' \in [Hosts -> Stores]
        /\ \A q \in Hosts \ {p} : local'[q] = local[q]
        /\ local'[p].service = local[p].service /\ local'[p].count = local[p].count
        /\ local'[p].holds = local[p].holds \cup {request[p].item}
    BY <1>0, InvOf DEF AddBatch, Stores, Shadowed
  <1>3. SearchTypeOK'
    BY <1>1, <1>2, InvOf, SearchTypedNext DEF AddBatch
  <1>4. Replica(request[p], local[p], added[p], dropped[p])'
    <2>1. Held(request[p], local[p])'
      BY <1>0, <1>1, <1>2, InvOf DEF Held
    <2>2. Answered(request[p], local[p], added[p], dropped[p])'
      BY <1>0, <1>1, <1>2, InvOf DEF AddBatch, Answered
    <2>3. Sent(request[p], local[p])'
      BY <1>0, <1>1, <1>2, InvOf DEF AddBatch, Sent
    <2> QED BY <2>1, <2>2, <2>3 DEF Replica
  <1> QED BY <1>1, <1>2, <1>3, <1>4, ReplicaStep DEF AddBatch

LEMMA SendInv ==
    ASSUME SearchInv, NEW p \in Hosts, NEW answers \in BOOLEAN, Send(p, answers)
    PROVE  SearchInv'
  <1>0. request[p].step = "send" /\ request[p].item \in Batches
    BY InvOf DEF Send, Does, Held
  <1>1. /\ request' \in [Hosts -> Served]
        /\ \A q \in Hosts \ {p} : request'[q] = request[q]
        /\ request'[p].step = "settle" /\ request'[p].item = request[p].item
    BY <1>0, InvOf, NowDoesType DEF Send, SearchSteps
  <1>2. /\ remote \subseteq remote' /\ remote' \subseteq remote \cup {request[p].item}
        /\ unsent \subseteq unsent' /\ unsent' \subseteq unsent \cup {request[p].item}
        /\ request[p].item \in remote' \cup unsent'
    BY DEF Send, counted
  <1>3. SearchTypeOK'
    BY <1>0, <1>1, <1>2, InvOf, SearchTypedNext DEF Send
  <1>4. Replica(request[p], local[p], added[p], dropped[p])'
    <2>1. Held(request[p], local[p])'
      BY <1>0, <1>1, InvOf DEF Send, Held
    <2>2. Answered(request[p], local[p], added[p], dropped[p])'
      BY <1>0, <1>1, InvOf DEF Send, Answered
    <2>3. Sent(request[p], local[p])'
      BY <1>0, <1>1, <1>2, InvOf DEF Send, Sent
    <2> QED BY <2>1, <2>2, <2>3 DEF Replica
  <1> QED BY <1>1, <1>2, <1>3, <1>4, ReplicaStep DEF Send

LEMMA SettleInv == ASSUME SearchInv, NEW p \in Hosts, Settle(p) PROVE SearchInv'
  <1>0. /\ request[p].step = "settle" /\ request[p].item \in local[p].holds
        /\ request[p].item \in Batches
        /\ Counted(p) \in 0 .. Cardinality(Contents) /\ Counted(p) # NeverIndexed
    BY InvOf, CountedType DEF Settle, Does, Held
  <1>2. /\ local' \in [Hosts -> Stores]
        /\ \A q \in Hosts \ {p} : local'[q] = local[q]
        /\ local'[p].service = local[p].service /\ local'[p].holds = local[p].holds
        /\ local'[p].count = Counted(p)
    BY <1>0, InvOf DEF Settle, Stores
  <1>3. CASE request[p].item = CorpusBatch
    <2>1. /\ request' \in [Hosts -> Served]
          /\ \A q \in Hosts \ {p} : request'[q] = request[q]
          /\ \/ /\ request'[p].step = "add" /\ request'[p].item \in Contents
             \/ /\ request'[p].step = "search" /\ request'[p].item = "none"
          /\ added' = added /\ dropped' = dropped
      BY <1>3, InvOf, GoesOnType DEF Settle
    <2>2. SearchTypeOK'
      BY <1>2, <2>1, InvOf, SearchTypedNext DEF Settle
    <2>3. Held(request[p], local[p])'
      BY <1>0, <1>2, <1>3, <2>1 DEF Held, Batches, CorpusBatch
    <2>4. Answered(request[p], local[p], added[p], dropped[p])'
      BY <1>0, <1>2, <2>1, InvOf DEF Settle, Answered
    <2>5. Sent(request[p], local[p])'
      BY <1>0, <1>2, <2>1, InvOf DEF Settle, Sent
    <2> QED BY <1>2, <2>1, <2>2, <2>3, <2>4, <2>5, ReplicaStep DEF Settle, Replica
  <1>4. CASE request[p].item # CorpusBatch
    <2>0. request[p].item \in Contents
      BY <1>0, <1>4 DEF Batches
    <2>1. request' = [request EXCEPT ![p] = Rest] /\ Rest \in Served
      BY <1>4 DEF Settle, Rest, Served, SearchSteps
    <2>2. /\ request' \in [Hosts -> Served]
          /\ \A q \in Hosts \ {p} : request'[q] = request[q]
          /\ request'[p] = Rest
      BY <2>1, InvOf
    <2>3. /\ \A q \in Hosts \ {p} : added'[q] = added[q] /\ dropped'[q] = dropped[q]
          /\ added'[p] = added[p] \cup {request[p].item}
          /\ dropped'[p] = dropped[p] \ {request[p].item}
          /\ added' \in [Hosts -> SUBSET Contents] /\ dropped' \in [Hosts -> SUBSET Contents]
      BY <1>4, <2>0, InvOf DEF Settle
    <2>4. SearchTypeOK'
      BY <1>2, <2>0, <2>2, <2>3, InvOf, SearchTypedNext DEF Settle
    <2>5. Held(request[p], local[p])'
      BY <1>0, <1>2, <1>4, <2>2, InvOf DEF Held, Rest
    <2>6. Answered(request[p], local[p], added[p], dropped[p])'
      BY <1>0, <1>2, <2>2, <2>3, InvOf DEF Settle, Answered, Rest
    <2>7. Sent(request[p], local[p])'
      BY <1>0, <1>2, <2>2, InvOf DEF Settle, Sent, Rest
    <2> QED BY <1>2, <2>2, <2>3, <2>4, <2>5, <2>6, <2>7, ReplicaStep DEF Settle, Replica
  <1> QED BY <1>3, <1>4

LEMMA SearchStepInv ==
    ASSUME SearchInv, NEW p \in Hosts, NEW answers \in BOOLEAN, Search(p, answers)
    PROVE  SearchInv'
  <1>0. request[p].step = "search"
    BY DEF Search, Does
  <1>1. /\ request' \in [Hosts -> Served]
        /\ \A q \in Hosts \ {p} : request'[q] = request[q]
        /\ request'[p] = Rest
    <2>1. request' = [request EXCEPT ![p] = Rest] /\ Rest \in Served
      BY DEF Search, Rest, Served, SearchSteps
    <2> QED BY <2>1, InvOf
  <1>2. SearchTypeOK'
    BY <1>1, InvOf, SearchTypedNext DEF Search
  <1>3. Replica(request[p], local[p], added[p], dropped[p])'
    <2>1. Held(request[p], local[p])'
      BY <1>0, <1>1, InvOf DEF Search, Held, Rest
    <2>2. Answered(request[p], local[p], added[p], dropped[p])'
      BY <1>0, <1>1, InvOf DEF Search, Answered, Rest
    <2>3. Sent(request[p], local[p])'
      BY <1>0, <1>1, InvOf DEF Search, Sent, Rest
    <2> QED BY <2>1, <2>2, <2>3 DEF Replica
  <1> QED BY <1>1, <1>2, <1>3, ReplicaStep DEF Search

LEMMA RebootInv == ASSUME SearchInv, NEW p \in Hosts, Reboot(p) PROVE SearchInv'
  <1>1. /\ request' \in [Hosts -> Served]
        /\ \A q \in Hosts \ {p} : request'[q] = request[q]
        /\ request'[p] = Rest
    <2>1. request' = [request EXCEPT ![p] = Rest] /\ Rest \in Served
      BY DEF Reboot, Rest, Served, SearchSteps
    <2> QED BY <2>1, InvOf
  <1>2. /\ local' \in [Hosts -> Stores]
        /\ \A q \in Hosts \ {p} : local'[q] = local[q]
        /\ local'[p] = NoStore
    <2>1. local' = [local EXCEPT ![p] = NoStore] /\ NoStore \in Stores
      BY DEF Reboot, NoStore, Stores
    <2> QED BY <2>1, InvOf
  <1>3. /\ \A q \in Hosts \ {p} : added'[q] = added[q] /\ dropped'[q] = dropped[q]
        /\ added'[p] = {} /\ dropped'[p] = {}
        /\ added' \in [Hosts -> SUBSET Contents] /\ dropped' \in [Hosts -> SUBSET Contents]
    BY InvOf DEF Reboot
  <1>4. kept' \in [Hosts -> SUBSET Contents]
    BY InvOf DEF Reboot
  <1>5. SearchTypeOK'
    BY <1>1, <1>2, <1>3, <1>4, InvOf, SearchTypedNext DEF Reboot
  <1>6. Replica(request[p], local[p], added[p], dropped[p])'
    BY <1>1, <1>2, <1>3 DEF Replica, Held, Answered, Sent, Rest, NoStore
  <1> QED BY <1>1, <1>2, <1>3, <1>5, <1>6, ReplicaStep DEF Reboot

LEMMA SearchNextInv == SearchInv /\ [SearchNext]_searchVars => SearchInv'
  <1> SUFFICES ASSUME SearchInv, [SearchNext]_searchVars PROVE SearchInv'
    OBVIOUS
  <1>1. CASE UNCHANGED searchVars
    BY <1>1 DEF searchVars, counted, SearchInv, SearchTypeOK, Held, Answered, Sent
  <1>2. CASE SearchNext
    BY <1>2, ServeInv, EnsureInv, MakeStoreInv, AddBatchInv, SendInv, SettleInv,
       SearchStepInv, RebootInv DEF SearchNext
  <1> QED BY <1>1, <1>2

(* What replicas hold, have sent and have answered agrees in every state,  *)
(* through outages and restarts (azure_search_store.py:51-165,             *)
(* retrieval.py:52-125).                                                   *)
THEOREM SearchInvariance == SearchSpec => []SearchInv
  BY SearchInitInv, SearchNextInv, PTL DEF SearchSpec

(* Stores, requests and the service keep their types                       *)
(* (azure_search_store.py:51-128).                                         *)
THEOREM SearchTypeCorrect == SearchSpec => []SearchTypeOK
  <1>1. SearchInv => SearchTypeOK
    BY DEF SearchInv
  <1> QED BY <1>1, SearchInvariance, PTL

(* Whenever a replica searches it ranks the policies, and every document   *)
(* the service or it itself was given (azure_search_store.py:15-18,        *)
(* 131-165).                                                               *)
THEOREM OutagesDegrade == SearchSpec => []SearchDegrades
  <1>1. SearchInv => SearchDegrades
    <2> SUFFICES ASSUME SearchInv, NEW p \in Hosts, request[p].step = "search"
                 PROVE  /\ {CorpusBatch} \cup (added[p] \ dropped[p]) \subseteq local[p].holds
                        /\ graph = "neo4j" => dropped[p] = {}
                        /\ local[p].service => local[p].holds \subseteq remote \cup unsent
      BY DEF SearchDegrades, Does, Ranked
    <2> QED BY InvOf DEF Held, Answered, Sent
  <1> QED BY <1>1, SearchInvariance, PTL

-----------------------------------------------------------------------------
(* The composition.                                                        *)

(* Every step of the composition is a step of one part, or of none.        *)
LEMMA PartsStep ==
    ASSUME [Next]_<<part, graphVars, accountVars, evalVars, searchVars>>
    PROVE  /\ [GraphNext]_graphVars /\ [AccountNext]_accountVars /\ [EvalNext]_evalVars
           /\ [SearchNext]_searchVars
  <1>1. CASE GraphPart
    BY <1>1 DEF GraphPart
  <1>2. CASE AccountPart
    BY <1>2 DEF AccountPart
  <1>3. CASE EvaluationPart
    BY <1>3 DEF EvaluationPart
  <1>4. CASE SearchPart
    BY <1>4 DEF SearchPart
  <1> QED BY <1>1, <1>2, <1>3, <1>4 DEF Next

(* The composition behaves as each of its four parts, so that what is      *)
(* proved of a part holds of it: the stores share no state                 *)
(* (graph_store.py, client_identity.py, feedback.py,                       *)
(* azure_search_store.py).                                                 *)
THEOREM PartsKept == Spec => GraphSpec /\ AccountSpec /\ EvalSpec /\ SearchSpec
  <1>1. Init => GraphInit /\ AccountInit /\ EvalInit /\ SearchInit
    BY DEF Init
  <1> QED BY <1>1, PartsStep, PTL DEF Spec, GraphSpec, AccountSpec, EvalSpec, SearchSpec

(* Types of all four parts at once (graph_store.py, client_identity.py,    *)
(* feedback.py, azure_search_store.py), in the module the runs check.      *)
THEOREM StoresTyped == Spec => []TypesOK
  <1>1. GraphTypeOK /\ AccountTypeOK /\ EvalTypeOK /\ SearchTypeOK => TypesOK
    BY DEF TypesOK
  <1> QED BY <1>1, PartsKept, GraphTypeCorrect, AccountTypeCorrect, EvalTypeCorrect,
             SearchTypeCorrect, PTL

=============================================================================
