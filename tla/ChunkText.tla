------------------------------ MODULE ChunkText ------------------------------
(***************************************************************************)
(* chunk_text (app/services/ingestion.py:42-59): how the text of a document*)
(* is cut into the overlapping pieces that are searched. A text is its     *)
(* length and the places of its blanks, counted from 0; split() has made   *)
(* them single and left none at the ends. A chunk is the half-open interval*)
(* it covers, before it is stripped of blanks at its ends.                 *)
(***************************************************************************)
EXTENDS Integers, FiniteSetsExt

CONSTANTS
    ChunkSize,     \* chunk_size
    ChunkOverlap,  \* overlap
    MaxLength      \* bound: the longest text

ASSUME SizesAssumption ==
    /\ ChunkSize \in Nat \ {0}
    /\ ChunkOverlap \in 0 .. ChunkSize - 1
    /\ MaxLength \in Nat

Texts ==
    UNION {{[length |-> n, blanks |-> b] :
               b \in {s \in SUBSET (1 .. n - 2) : \A i \in s : i + 1 \notin s}} :
           n \in 1 .. MaxLength}

(* text.rfind(" ", start, end) is beyond start *)
Boundaries(t, s) == {i \in t.blanks : s < i /\ i < s + ChunkSize}

(* Mutant: chunks are cut at their full size. *)
EndHard(t, s) == IF s + ChunkSize >= t.length THEN t.length ELSE s + ChunkSize

End(t, s) ==
    IF s + ChunkSize >= t.length THEN t.length
    ELSE IF Boundaries(t, s) = {} THEN s + ChunkSize
    ELSE Max(Boundaries(t, s))

(* Mutant: the overlap is skipped instead of repeated. *)
NextStartBeyond(t, s) == End(t, s) + ChunkOverlap

NextStart(t, s) ==
    IF End(t, s) - ChunkOverlap > s + 1 THEN End(t, s) - ChunkOverlap ELSE s + 1

(* The chunks from place s on. *)
ChunksOf(t) ==
    LET from[s \in 0 .. t.length + ChunkOverlap] ==
          {<<s, End(t, s)>>} \cup
          (IF End(t, s) >= t.length THEN {} ELSE from[NextStart(t, s)])
    IN  from[0]

Words(t) ==
    {w \in (0 .. t.length - 1) \X (1 .. t.length) :
        /\ w[1] < w[2]
        /\ w[1] = 0 \/ w[1] - 1 \in t.blanks
        /\ w[2] = t.length \/ w[2] \in t.blanks
        /\ \A i \in w[1] .. w[2] - 1 : i \notin t.blanks}

(* Every character is in a chunk. *)
Covered(t) ==
    \A i \in 0 .. t.length - 1 : \E c \in ChunksOf(t) : c[1] <= i /\ i < c[2]

(* Every word shorter than a chunk is whole in one. *)
WordsWhole(t) ==
    \A w \in Words(t) :
        w[2] - w[1] < ChunkSize => \E c \in ChunksOf(t) : c[1] <= w[1] /\ w[2] <= c[2]
===============================================================================
