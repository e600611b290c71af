--------------------------- MODULE Services_proofs ----------------------------
(***************************************************************************)
(* Theorems about the five parts of MCServices: the ring of spans, the     *)
(* files under uploads/, the signing keys, the event bus and the sanctions *)
(* list, each for any value of its constants and any schedule, and about   *)
(* their composition.                                                      *)
(***************************************************************************)
EXTENDS MCServices, SequenceTheorems, FiniteSetTheorems, WellFoundedInduction, TLAPS

-----------------------------------------------------------------------------
(* SpanRing. However requests interleave, a trace whose request is over is *)
(* shown under its real root, with that duration and complete chains.      *)

(* What nesting means: a span belongs to the trace of all it is within,    *)
(* started after them, and ends before them.                               *)
NestedIn(s, a) ==
    /\ a \in Spans
    /\ spans[a].trace = spans[s].trace
    /\ spans[a].start <= spans[s].start
    /\ Running(s) => Running(a)
    /\ ~Running(a) => spans[s].end <= spans[a].end

SpanOK(s) ==
    /\ spans[s].start <= clock
    /\ spans[s].end <= clock
    /\ spans[s].trace \in spans[s].within \cup {s}
    /\ spans[s].parent = NoParent <=> spans[s].trace = s
    /\ spans[s].parent = NoParent => spans[s].within = {}
    /\ \A a \in spans[s].within : NestedIn(s, a)

Nested == \A s \in Spans : SpanOK(s)

(* What a retained span is within still runs, or is retained further on.   *)
ChainKept ==
    \A i \in 1 .. Len(ring) : \A a \in spans[ring[i]].within :
        \/ Running(a)
        \/ \E j \in i + 1 .. Len(ring) : ring[j] = a

RingInv == RingTypeOK /\ Nested /\ ChainKept

-----------------------------------------------------------------------------
(* Lemmas. *)

LEMMA SpanTypes ==
    ASSUME RingTypeOK
    PROVE  /\ Len(spans) \in Nat /\ Len(ring) \in Nat
           /\ \A s \in Spans : spans[s] \in SpanRecords
           /\ \A i \in 1 .. Len(ring) : ring[i] \in Spans /\ ~Running(ring[i])
<1>1. spans \in Seq(SpanRecords) /\ ring \in Seq(Nat)
  BY DEF RingTypeOK
<1>2. Len(spans) \in Nat /\ Len(ring) \in Nat
  BY <1>1, LenProperties
<1>3. \A s \in Spans : spans[s] \in SpanRecords
  BY <1>1, ElementOfSeq DEF Spans
<1>4. \A i \in 1 .. Len(ring) : ring[i] \in Retained
  BY DEF Retained
<1>5. QED
  BY <1>2, <1>3, <1>4 DEF RingTypeOK

(* A ring that is cut keeps its end: place i of the shorter one is place   *)
(* i + k of the longer one.                                                *)
LEMMA KeptIsSuffix ==
    ASSUME NEW r \in Seq(Nat), Limit \in Nat \ {0}
    PROVE  \E k \in Nat :
              /\ Len(r) - k = Len(KeepNewest(r))
              /\ KeepNewest(r) \in Seq(Nat)
              /\ Len(KeepNewest(r)) \in Nat
              /\ Len(KeepNewest(r)) <= Limit
              /\ \A i \in 1 .. Len(KeepNewest(r)) : KeepNewest(r)[i] = r[i + k]
<1>1. Len(r) \in Nat /\ \A i \in 1 .. Len(r) : r[i] \in Nat
  BY LenProperties, ElementOfSeq
<1>2. CASE Len(r) <= Limit
  <2>1. KeepNewest(r) = r
    BY <1>1, <1>2 DEF KeepNewest
  <2>2. Len(r) - 0 = Len(r) /\ \A i \in 1 .. Len(r) : r[i] = r[i + 0]
    BY <1>1
  <2>3. QED
    BY <1>1, <1>2, <2>1, <2>2
<1>3. CASE Len(r) > Limit
  <2> DEFINE m == Len(r) - Limit + 1
             cut == Len(r) - Limit
  <2>1. KeepNewest(r) = SubSeq(r, m, Len(r))
    BY <1>3 DEF KeepNewest
  <2>2. m \in Int /\ Len(r) \in Int /\ m <= Len(r) /\ Len(r) - m + 1 = Limit
        /\ cut \in Nat /\ Len(r) - cut = Limit
    BY <1>1, <1>3
  <2>3. \A i \in m .. Len(r) : i \in 1 .. Len(r)
    BY <1>1, <1>3
  <2>4. \A i \in m .. Len(r) : r[i] \in Nat
    BY <1>1, <2>3
  <2>5. /\ SubSeq(r, m, Len(r)) \in Seq(Nat)
        /\ Len(SubSeq(r, m, Len(r))) = Limit
        /\ \A i \in 1 .. Limit : SubSeq(r, m, Len(r))[i] = r[m + i - 1]
    <3> HIDE DEF m
    <3>1. /\ SubSeq(r, m, Len(r)) \in Seq(Nat)
          /\ Len(SubSeq(r, m, Len(r))) = IF m <= Len(r) THEN Len(r) - m + 1 ELSE 0
          /\ \A i \in 1 .. Len(r) - m + 1 : SubSeq(r, m, Len(r))[i] = r[m + i - 1]
      BY <2>2, <2>4, SubSeqProperties
    <3>2. QED
      BY <2>2, <3>1
  <2>6. \A i \in 1 .. Limit : m + i - 1 = i + cut
    BY <1>1
  <2> HIDE DEF m, cut
  <2>7. /\ Len(r) - cut = Len(KeepNewest(r))
        /\ KeepNewest(r) \in Seq(Nat)
        /\ Len(KeepNewest(r)) = Limit
        /\ \A i \in 1 .. Limit : KeepNewest(r)[i] = r[i + cut]
    BY <2>1, <2>2, <2>5, <2>6
  <2>8. Len(KeepNewest(r)) \in Nat /\ Len(KeepNewest(r)) <= Limit
    BY <2>7
  <2>9. cut \in Nat
    BY <2>2
  <2> WITNESS cut \in Nat
  <2>10. QED
    BY <2>7, <2>8
<1>4. QED
  BY <1>1, <1>2, <1>3

-----------------------------------------------------------------------------
(* The invariant is inductive. *)

LEMMA RingInitInv ==
    ASSUME RingInit
    PROVE  RingInv
<1>1. spans = <<>> /\ ring = <<>> /\ clock = 1
  BY DEF RingInit
<1>2. spans \in Seq(SpanRecords) /\ ring \in Seq(Nat) /\ Len(spans) = 0 /\ Len(ring) = 0
  BY <1>1, EmptySeq
<1>3. Spans = {} /\ Retained = {}
  BY <1>2 DEF Spans, Retained
<1>4. RingTypeOK
  BY <1>1, <1>2, <1>3, RingAssumption DEF RingTypeOK, RingAssumption
<1>5. Nested /\ ChainKept
  BY <1>2, <1>3 DEF Nested, ChainKept
<1>6. QED
  BY <1>4, <1>5 DEF RingInv

(* A span started now is within its parent and what that is within.        *)
LEMMA StartInv ==
    ASSUME RingInv, NEW parent \in Spans \cup {NoParent}, StartSpan(parent)
    PROVE  RingInv'
<1>0. RingTypeOK /\ Nested /\ ChainKept
  BY DEF RingInv
<1>1. /\ Len(spans) \in Nat /\ Len(ring) \in Nat
      /\ \A s \in Spans : spans[s] \in SpanRecords
      /\ \A i \in 1 .. Len(ring) : ring[i] \in Spans /\ ~Running(ring[i])
  BY <1>0, SpanTypes
<1>n. PICK n \in Nat : n = Len(spans) + 1
  BY <1>1
<1>2. PICK moment \in Moments : clock' = moment /\ spans' = Append(spans, NewSpan(parent, moment))
  BY DEF StartSpan
<1>3. clock \in Nat \ {0} /\ moment \in Nat \ {0} /\ clock <= moment /\ clock' = moment
  BY <1>0, <1>2 DEF RingTypeOK, Moments
<1>4. ring' = ring /\ (parent # NoParent => parent \in Spans /\ Running(parent))
  BY DEF StartSpan
<1> DEFINE new == NewSpan(parent, moment)
<1>5. n \in Nat \ {0} /\ n \notin Spans /\ Spans \subseteq Nat \ {0} /\ NoParent \notin Spans
  BY <1>1, <1>n DEF Spans, NoParent
<1>6. parent # NoParent =>
        /\ spans[parent].trace \in Spans
        /\ spans[parent].within \subseteq Spans
  BY <1>0, <1>4 DEF RingTypeOK
<1>7. /\ new.parent = parent /\ new.start = moment /\ new.end = NoParent
      /\ new.trace = IF parent = NoParent THEN n ELSE spans[parent].trace
      /\ new.within = IF parent = NoParent THEN {} ELSE {parent} \cup spans[parent].within
  BY <1>n DEF NewSpan
<1>8. new.trace \in Nat /\ new.within \subseteq Spans /\ new.trace \in Spans \cup {n}
  BY <1>4, <1>5, <1>6, <1>7
<1>9. new \in SpanRecords
  <2>1. moment \in Nat /\ parent \in Nat /\ NoParent \in Nat
    BY <1>3, <1>5 DEF NoParent
  <2>2. new.within \in SUBSET Nat
    BY <1>5, <1>8
  <2>3. new = [parent |-> new.parent, start |-> new.start, end |-> new.end,
               trace |-> new.trace, within |-> new.within]
    BY DEF NewSpan
  <2> HIDE DEF new
  <2>4. QED
    BY <1>7, <1>8, <2>1, <2>2, <2>3 DEF SpanRecords
<1> HIDE DEF new
<1>10. /\ spans' \in Seq(SpanRecords) /\ Len(spans') = n
       /\ \A s \in Spans : spans'[s] = spans[s]
       /\ spans'[n] = new
  <2>1. spans \in Seq(SpanRecords) /\ spans' = Append(spans, new)
    BY <1>0, <1>2 DEF RingTypeOK, new
  <2>2. QED
    BY <1>1, <1>n, <1>9, <2>1, AppendProperties DEF Spans
<1>11. Spans' = Spans \cup {n}
  BY <1>1, <1>n, <1>10 DEF Spans
<1>12. Retained' = Retained /\ Retained \subseteq Spans
  BY <1>1, <1>4 DEF Retained
<1>13. \A s \in Spans : Running(s)' <=> Running(s)
  BY <1>10 DEF Running
<1>14. Running(n)'
  BY <1>7, <1>10 DEF Running
<1>15. RingTypeOK'
  <2>1. \A s \in Spans' :
          /\ spans'[s].within \subseteq Spans'
          /\ spans'[s].trace \in Spans'
          /\ spans'[s].parent \in Spans' \cup {NoParent}
    <3> SUFFICES ASSUME NEW s \in Spans'
                 PROVE  /\ spans'[s].within \subseteq Spans'
                        /\ spans'[s].trace \in Spans'
                        /\ spans'[s].parent \in Spans' \cup {NoParent}
      OBVIOUS
    <3>1. CASE s \in Spans
      BY <1>0, <1>10, <1>11, <3>1 DEF RingTypeOK
    <3>2. CASE s = n
      BY <1>7, <1>8, <1>10, <1>11, <3>2
    <3>3. QED
      BY <1>11, <3>1, <3>2
  <2>2. \A s \in Retained' : s \in Spans' /\ ~Running(s)'
    BY <1>0, <1>11, <1>12, <1>13 DEF RingTypeOK
  <2>3. ring' \in Seq(Nat) /\ Len(ring') <= Limit
    BY <1>0, <1>4 DEF RingTypeOK
  <2>4. QED
    BY <1>3, <1>10, <2>1, <2>2, <2>3 DEF RingTypeOK
<1>16. Nested'
  <2>1. ASSUME NEW s \in Spans PROVE SpanOK(s)'
    <3>1. SpanOK(s)
      BY <1>0 DEF Nested
    <3>2. /\ spans'[s].start <= clock' /\ spans'[s].end <= clock'
      <4>1. spans[s].start \in Nat /\ spans[s].end \in Nat
        BY <1>1 DEF SpanRecords
      <4>2. QED
        BY <1>3, <1>10, <3>1, <4>1 DEF SpanOK
    <3>3. ASSUME NEW a \in spans[s].within PROVE NestedIn(s, a)'
      <4>1. NestedIn(s, a) /\ a \in Spans
        BY <3>1 DEF SpanOK, NestedIn
      <4>2. QED
        BY <1>10, <1>11, <1>13, <4>1 DEF NestedIn
    <3>4. QED
      BY <1>10, <3>1, <3>2, <3>3 DEF SpanOK
  <2>2. SpanOK(n)'
    <3>1. /\ spans'[n].start <= clock' /\ spans'[n].end <= clock'
      BY <1>3, <1>7, <1>10 DEF NoParent
    <3>2. /\ spans'[n].trace \in spans'[n].within \cup {n}
          /\ spans'[n].parent = NoParent <=> spans'[n].trace = n
          /\ spans'[n].parent = NoParent => spans'[n].within = {}
      <4>1. CASE parent = NoParent
        BY <1>7, <1>10, <4>1
      <4>2. CASE parent # NoParent
        <5>1. spans[parent].trace \in spans[parent].within \cup {parent}
          BY <1>0, <1>4, <4>2 DEF Nested, SpanOK
        <5>2. QED
          BY <1>4, <1>5, <1>6, <1>7, <1>10, <4>2, <5>1
      <4>3. QED
        BY <4>1, <4>2
    <3>3. ASSUME NEW a \in spans'[n].within PROVE NestedIn(n, a)'
      <4>1. parent # NoParent /\ a \in {parent} \cup spans[parent].within
        BY <1>7, <1>10, <3>3
      <4>2. SpanOK(parent) /\ parent \in Spans /\ Running(parent)
        BY <1>0, <1>4, <4>1 DEF Nested
      <4>3. a \in Spans /\ Running(a) /\ spans[a].trace = spans[parent].trace
        BY <4>1, <4>2 DEF SpanOK, NestedIn
      <4>4. spans[a].start <= clock /\ spans[a].start \in Nat
        BY <1>0, <1>1, <4>3 DEF Nested, SpanOK, SpanRecords
      <4>5. spans'[a].start <= spans'[n].start
        BY <1>3, <1>7, <1>10, <4>3, <4>4
      <4>6. QED
        BY <1>7, <1>10, <1>11, <1>13, <4>1, <4>3, <4>5 DEF NestedIn
    <3>4. QED
      BY <3>1, <3>2, <3>3 DEF SpanOK
  <2>3. QED
    BY <1>11, <2>1, <2>2 DEF Nested
<1>17. ChainKept'
  <2>1. SUFFICES ASSUME NEW i \in 1 .. Len(ring), NEW a \in spans[ring[i]].within
                 PROVE  Running(a)' \/ \E j \in i + 1 .. Len(ring) : ring[j] = a
    BY <1>1, <1>4, <1>10 DEF ChainKept
  <2>2. a \in Spans
    BY <1>0, <1>1 DEF RingTypeOK
  <2>3. QED
    BY <1>0, <1>13, <2>2 DEF ChainKept
<1>18. QED
  BY <1>15, <1>16, <1>17 DEF RingInv

(* A span that ends leaves nothing running inside it; it follows all it    *)
(* held in the ring, and what it is within still runs.                     *)
LEMMA EndInv ==
    ASSUME RingInv, NEW s \in Spans, EndSpan(s)
    PROVE  RingInv'
<1>0. RingTypeOK /\ Nested /\ ChainKept
  BY DEF RingInv
<1>1. /\ Len(spans) \in Nat /\ Len(ring) \in Nat
      /\ \A x \in Spans : spans[x] \in SpanRecords
      /\ \A i \in 1 .. Len(ring) : ring[i] \in Spans /\ ~Running(ring[i])
  BY <1>0, SpanTypes
<1>2. PICK moment \in Moments : clock' = moment /\ spans' = [spans EXCEPT ![s].end = moment]
  BY DEF EndSpan
<1>3. /\ clock \in Nat \ {0} /\ moment \in Nat \ {0} /\ clock <= moment /\ clock' = moment
      /\ moment # NoParent
  BY <1>0, <1>2 DEF RingTypeOK, Moments, NoParent
<1>4. /\ Running(s)
      /\ \A c \in Spans : s \in spans[c].within => ~Running(c)
      /\ ring' = KeepNewest(Append(ring, s))
  BY DEF EndSpan
<1>5. /\ spans' \in Seq(SpanRecords) /\ Len(spans') = Len(spans)
      /\ \A x \in Spans : x # s => spans'[x] = spans[x]
      /\ spans'[s] = [spans[s] EXCEPT !.end = moment]
  <2>1. spans \in Seq(SpanRecords) /\ spans[s] \in SpanRecords /\ s \in 1 .. Len(spans)
    BY <1>0, <1>1 DEF RingTypeOK, Spans
  <2>2. [spans[s] EXCEPT !.end = moment] \in SpanRecords
    BY <1>3, <2>1 DEF SpanRecords
  <2>3. PICK e \in SpanRecords : e = [spans[s] EXCEPT !.end = moment]
    BY <2>2
  <2>4. spans' = [spans EXCEPT ![s] = e]
    BY <1>2, <2>3
  <2>5. QED
    BY <2>1, <2>3, <2>4, ExceptSeq DEF Spans
<1>6. Spans' = Spans
  BY <1>5 DEF Spans
<1>7. \A x \in Spans :
        /\ spans'[x].start = spans[x].start /\ spans'[x].trace = spans[x].trace
        /\ spans'[x].parent = spans[x].parent /\ spans'[x].within = spans[x].within
        /\ spans'[x].end = IF x = s THEN moment ELSE spans[x].end
  BY <1>1, <1>5 DEF SpanRecords
<1>8. \A x \in Spans : Running(x)' <=> Running(x) /\ x # s
  BY <1>3, <1>7 DEF Running
<1>9. PICK r \in Seq(Nat) : r = Append(ring, s)
  <2>1. s \in Nat /\ ring \in Seq(Nat)
    BY <1>0, <1>1 DEF RingTypeOK, Spans
  <2>2. QED
    BY <2>1, AppendProperties
<1>10. /\ Len(r) = Len(ring) + 1 /\ r[Len(ring) + 1] = s
       /\ \A i \in 1 .. Len(ring) : r[i] = ring[i]
  <2>1. s \in Nat /\ ring \in Seq(Nat)
    BY <1>0, <1>1 DEF RingTypeOK, Spans
  <2>2. QED
    BY <1>9, <2>1, AppendProperties
<1>11. PICK k \in Nat :
         /\ Len(r) - k = Len(ring')
         /\ ring' \in Seq(Nat) /\ Len(ring') \in Nat /\ Len(ring') <= Limit
         /\ \A i \in 1 .. Len(ring') : ring'[i] = r[i + k]
  BY <1>4, <1>9, RingAssumption, KeptIsSuffix DEF RingAssumption
<1>12. \A i \in 1 .. Len(r) : r[i] \in Spans /\ ~Running(r[i])'
  <2>1. ASSUME NEW i \in 1 .. Len(r) PROVE r[i] = s \/ (r[i] \in Spans /\ ~Running(r[i]))
    BY <1>1, <1>10
  <2>2. QED
    BY <1>8, <2>1
<1>13. \A i \in 1 .. Len(ring') : i + k \in 1 .. Len(r)
  BY <1>1, <1>10, <1>11
<1>14. RingTypeOK'
  <2>1. \A x \in Spans' : /\ spans'[x].within \subseteq Spans'
                          /\ spans'[x].trace \in Spans'
                          /\ spans'[x].parent \in Spans' \cup {NoParent}
    BY <1>0, <1>6, <1>7 DEF RingTypeOK
  <2>2. \A x \in Retained' : x \in Spans' /\ ~Running(x)'
    <3>1. SUFFICES ASSUME NEW x \in Retained' PROVE x \in Spans' /\ ~Running(x)'
      OBVIOUS
    <3>2. PICK i \in 1 .. Len(ring') : x = ring'[i]
      BY DEF Retained
    <3>3. x = r[i + k] /\ i + k \in 1 .. Len(r)
      BY <1>11, <1>13, <3>2
    <3>4. QED
      BY <1>6, <1>12, <3>3
  <2>3. QED
    BY <1>3, <1>5, <1>11, <2>1, <2>2 DEF RingTypeOK
<1>15. Nested'
  <2>1. SUFFICES ASSUME NEW x \in Spans PROVE SpanOK(x)'
    BY <1>6 DEF Nested
  <2>2. SpanOK(x)
    BY <1>0 DEF Nested
  <2>3. spans'[x].start <= clock' /\ spans'[x].end <= clock'
    <3>1. spans[x].start \in Nat /\ spans[x].end \in Nat
      BY <1>1 DEF SpanRecords
    <3>2. QED
      BY <1>3, <1>7, <2>2, <3>1 DEF SpanOK
  <2>4. ASSUME NEW a \in spans[x].within PROVE NestedIn(x, a)'
    <3>1. NestedIn(x, a) /\ a \in Spans
      BY <2>2 DEF SpanOK, NestedIn
    <3>2. Running(x)' => Running(a)'
      BY <1>4, <1>8, <3>1 DEF NestedIn
    <3>3. ~Running(a)' => spans'[x].end <= spans'[a].end
      <4>1. CASE a = s
        <5>1. ~Running(x) /\ x # s
          BY <1>4, <4>1
        <5>2. spans[x].end <= clock /\ spans[x].end \in Nat
          BY <1>1, <2>2 DEF SpanOK, SpanRecords
        <5>3. QED
          BY <1>3, <1>7, <4>1, <5>1, <5>2
      <4>2. CASE a # s
        <5>1. ~Running(a)' => x # s /\ spans[x].end <= spans[a].end
          BY <1>4, <1>8, <3>1, <4>2 DEF NestedIn
        <5>2. QED
          BY <1>7, <3>1, <4>2, <5>1
      <4>3. QED
        BY <4>1, <4>2
    <3>4. QED
      BY <1>6, <1>7, <3>1, <3>2, <3>3 DEF NestedIn
  <2>5. QED
    BY <1>7, <2>2, <2>3, <2>4 DEF SpanOK
<1>16. \A i \in 1 .. Len(r) : \A a \in spans[r[i]].within :
         Running(a)' \/ \E j \in i + 1 .. Len(r) : r[j] = a
  <2>1. SUFFICES ASSUME NEW i \in 1 .. Len(r), NEW a \in spans[r[i]].within
                 PROVE  Running(a)' \/ \E j \in i + 1 .. Len(r) : r[j] = a
    OBVIOUS
  <2>2. a \in Spans
    BY <1>0, <1>12 DEF RingTypeOK
  <2>3. CASE r[i] = s
    <3>1. NestedIn(s, a)
      BY <1>0, <2>3 DEF Nested, SpanOK
    <3>2. Running(a) /\ a # s
      BY <1>4, <2>3, <3>1 DEF NestedIn
    <3>3. QED
      BY <1>8, <2>2, <3>2
  <2>4. CASE r[i] # s
    <3>1. i \in 1 .. Len(ring) /\ r[i] = ring[i]
      BY <1>1, <1>10, <2>4
    <3>2. Running(a) \/ \E j \in i + 1 .. Len(ring) : ring[j] = a
      BY <1>0, <3>1 DEF ChainKept
    <3>3. CASE a = s
      <4>1. Len(r) \in i + 1 .. Len(r) /\ r[Len(r)] = a
        BY <1>1, <1>10, <3>1, <3>3
      <4>2. QED
        BY <4>1
    <3>4. CASE a # s
      <4>1. CASE Running(a)
        BY <1>8, <2>2, <3>4, <4>1
      <4>2. CASE \E j \in i + 1 .. Len(ring) : ring[j] = a
        <5>1. PICK j \in i + 1 .. Len(ring) : ring[j] = a
          BY <4>2
        <5>2. j \in i + 1 .. Len(r) /\ r[j] = a
          BY <1>1, <1>10, <3>1, <5>1
        <5>3. QED
          BY <5>2
      <4>3. QED
        BY <3>2, <4>1, <4>2
    <3>5. QED
      BY <3>3, <3>4
  <2>5. QED
    BY <2>3, <2>4
<1>17. ChainKept'
  <2>1. SUFFICES ASSUME NEW i \in 1 .. Len(ring'), NEW a \in spans'[ring'[i]].within
                 PROVE  Running(a)' \/ \E j \in i + 1 .. Len(ring') : ring'[j] = a
    BY DEF ChainKept
  <2>2. i + k \in 1 .. Len(r) /\ ring'[i] = r[i + k] /\ r[i + k] \in Spans
    BY <1>11, <1>12, <1>13
  <2>3. a \in spans[r[i + k]].within
    BY <1>7, <2>2
  <2>4. CASE \E j \in i + k + 1 .. Len(r) : r[j] = a
    <3>1. PICK j \in i + k + 1 .. Len(r) : r[j] = a
      BY <2>4
    <3>2. j - k \in i + 1 .. Len(ring') /\ j - k \in 1 .. Len(ring') /\ (j - k) + k = j
      BY <1>1, <1>10, <1>11, <3>1
    <3>3. ring'[j - k] = a
      BY <1>11, <3>1, <3>2
    <3>4. QED
      BY <3>2, <3>3
  <2>5. QED
    BY <1>16, <2>2, <2>3, <2>4
<1>18. QED
  BY <1>14, <1>15, <1>17 DEF RingInv

-----------------------------------------------------------------------------
(* Theorems. *)

LEMMA RingNextInv ==
    ASSUME RingInv, [RingNext]_ringVars
    PROVE  RingInv'
<1>1. CASE RingNext
  BY <1>1, StartInv, EndInv DEF RingNext
<1>2. CASE UNCHANGED ringVars
  BY <1>2 DEF ringVars, RingInv, RingTypeOK, Nested, SpanOK, NestedIn, ChainKept,
              Spans, Retained, Running
<1>3. QED
  BY <1>1, <1>2

(* Nesting and the chains above a retained span hold in every state,       *)
(* whatever starts, ends and is dropped (telemetry.py:36-68).              *)
THEOREM RingInvariant == RingSpec => []RingInv
<1>1. RingInit => RingInv
  BY RingInitInv
<1>2. RingInv /\ [RingNext]_ringVars => RingInv'
  BY RingNextInv
<1>3. QED
  BY <1>1, <1>2, PTL DEF RingSpec

(* Type correctness of the spans and the ring (telemetry.py:36-68).        *)
THEOREM RingTypeCorrect == RingSpec => []RingTypeOK
<1>1. RingInv => RingTypeOK
  BY DEF RingInv
<1>2. QED
  BY <1>1, RingInvariant, PTL

(* As long as anything of a trace is retained, its root still runs or is   *)
(* retained with all that leads to it.                                     *)
LEMMA TraceKept ==
    ASSUME RingInv, NEW s \in Retained, ~Running(spans[s].trace)
    PROVE  /\ spans[s].trace \in OfTrace(spans[s].trace)
           /\ spans[s].within \subseteq OfTrace(spans[s].trace)
           /\ spans[spans[s].trace].start <= spans[s].start
           /\ spans[s].end <= spans[spans[s].trace].end
<1> DEFINE t == spans[s].trace
<1>0. RingTypeOK /\ Nested /\ ChainKept
  BY DEF RingInv
<1>1. Len(ring) \in Nat /\ s \in Spans /\ \A x \in Spans : spans[x] \in SpanRecords
  BY <1>0, SpanTypes DEF RingTypeOK
<1>2. PICK i \in 1 .. Len(ring) : ring[i] = s
  BY DEF Retained
<1>3. SpanOK(s) /\ t \in spans[s].within \cup {s} /\ t \in Spans
  BY <1>0, <1>1 DEF Nested, SpanOK, RingTypeOK
<1>4. ASSUME NEW a \in spans[s].within
      PROVE  a \in OfTrace(t)
  <2>1. NestedIn(s, a) /\ a \in Spans
    BY <1>3 DEF SpanOK, NestedIn
  <2>2. SpanOK(a)
    BY <1>0, <2>1 DEF Nested
  <2>3. ~Running(a)
    <3>1. spans[a].trace = t
      BY <2>1 DEF NestedIn
    <3>2. t \in spans[a].within \cup {a}
      BY <2>2, <3>1 DEF SpanOK
    <3>3. Running(a) => Running(t)
      BY <2>2, <3>2 DEF SpanOK, NestedIn
    <3>4. QED
      BY <3>3
  <2>4. PICK j \in i + 1 .. Len(ring) : ring[j] = a
    BY <1>0, <1>2, <2>3 DEF ChainKept
  <2>5. j \in 1 .. Len(ring)
    BY <1>1, <1>2, <2>4
  <2>6. a \in Retained
    BY <2>4, <2>5 DEF Retained
  <2>7. QED
    BY <2>1, <2>6 DEF OfTrace, NestedIn
<1>5. s \in OfTrace(t)
  BY DEF OfTrace
<1>6. spans[t].start <= spans[s].start /\ spans[s].end <= spans[t].end
  <2>1. CASE t = s
    BY <1>1, <2>1 DEF SpanRecords
  <2>2. CASE t \in spans[s].within
    BY <1>3, <2>2 DEF SpanOK, NestedIn
  <2>3. QED
    BY <1>3, <2>1, <2>2
<1>7. QED
  BY <1>3, <1>4, <1>5, <1>6

(* What is shown of a trace whose request is over: its own root, from the  *)
(* start to the end of that.                                               *)
LEMMA TraceShown ==
    ASSUME RingInv, NEW x \in Retained, ~Running(spans[x].trace)
    PROVE  LET t == spans[x].trace
               S == OfTrace(t)
           IN  /\ RootOf(S) = t /\ t \in S
               /\ FirstStart(S) = Started(t)
               /\ TotalOf(S) = spans[t].end - Started(t)
               /\ \A s \in S : /\ s \in Spans /\ Started(s) \in Nat
                               /\ Started(t) <= Started(s)
                               /\ spans[s].within \subseteq S
<1>0. RingTypeOK /\ Nested /\ Len(ring) \in Nat
      /\ \A y \in Spans : spans[y] \in SpanRecords
  BY SpanTypes DEF RingInv
<1> DEFINE t == spans[x].trace
           S == OfTrace(t)
<1>2. ASSUME NEW s \in S
      PROVE  /\ s \in Spans /\ spans[s].trace = t /\ s \in Retained
             /\ spans[s].within \subseteq S
             /\ Started(t) <= Started(s) /\ spans[s].end <= spans[t].end
             /\ Started(s) \in Nat /\ spans[s].end \in Nat
  <2>1. s \in Retained /\ spans[s].trace = t /\ s \in Spans
    BY <1>0 DEF OfTrace, RingTypeOK
  <2>2. spans[s] \in SpanRecords
    BY <1>0, <2>1
  <2>3. QED
    BY <2>1, <2>2, TraceKept DEF Started, SpanRecords
<1>3. t \in S /\ spans[t].parent = NoParent
  <2>1. t \in S
    BY TraceKept
  <2>2. SpanOK(t) /\ spans[t].trace = t
    BY <1>0, <1>2, <2>1 DEF Nested
  <2>3. QED
    BY <2>1, <2>2 DEF SpanOK
<1>4. {s \in S : spans[s].parent = NoParent} = {t}
  <2>1. ASSUME NEW s \in S, spans[s].parent = NoParent PROVE s = t
    <3>1. SpanOK(s) /\ spans[s].trace = t
      BY <1>0, <1>2 DEF Nested
    <3>2. QED
      BY <2>1, <3>1 DEF SpanOK
  <2>2. QED
    BY <1>3, <2>1
<1>5. RootOf(S) = t
  <2>1. Place(t) \in 1 .. Len(ring)
    <3>1. \E i \in 1 .. Len(ring) : ring[i] = t
      BY <1>2, <1>3 DEF Retained
    <3>2. QED
      BY <3>1 DEF Place
  <2>2. Place(t) <= Place(t)
    BY <1>0, <2>1
  <2>3. RootOf(S) = CHOOSE s \in {t} : \A o \in {t} :
           Started(s) < Started(o) \/ (Started(s) = Started(o) /\ Place(s) <= Place(o))
    BY <1>4 DEF RootOf
  <2>4. QED
    BY <2>2, <2>3
<1>6. FirstStart(S) = Started(t)
  <2>1. \A n \in {Started(s) : s \in S} : (\A o \in S : n <= Started(o)) => n = Started(t)
    BY <1>2, <1>3
  <2>2. Started(t) \in {Started(s) : s \in S} /\ \A o \in S : Started(t) <= Started(o)
    BY <1>2, <1>3
  <2>3. QED
    BY <2>1, <2>2 DEF FirstStart
<1>7. LastEnd(S) = spans[t].end
  <2>1. \A n \in {spans[s].end : s \in S} : (\A o \in S : spans[o].end <= n) => n = spans[t].end
    BY <1>2, <1>3
  <2>2. spans[t].end \in {spans[s].end : s \in S} /\ \A o \in S : spans[o].end <= spans[t].end
    BY <1>2, <1>3
  <2>3. QED
    BY <2>1, <2>2 DEF LastEnd
<1>8. QED
  BY <1>2, <1>3, <1>5, <1>6, <1>7 DEF TotalOf

(* RootIsShown for every ring size and every schedule: what is left of a   *)
(* finished trace is shown under its real root, with that root's duration, *)
(* and no chain is cut (telemetry.py:351-355, 411-455).                    *)
THEOREM RootShown == RingSpec => []RootIsShown
<1>1. ASSUME RingInv PROVE RootIsShown
  <2>1. SUFFICES ASSUME NEW x \in Retained, ~Running(spans[x].trace),
                        NEW t, t = spans[x].trace
                 PROVE  /\ RootOf(OfTrace(t)) = t
                        /\ TotalOf(OfTrace(t)) = spans[t].end - Started(t)
                        /\ \A s \in OfTrace(t) : /\ Started(s) >= Started(t)
                                                 /\ spans[s].within \subseteq OfTrace(t)
    BY DEF RootIsShown
  <2>2. QED
    BY <1>1, <2>1, TraceShown
<1>2. RingInv => RootIsShown
  BY <1>1
<1>3. QED
  BY <1>2, RingInvariant, PTL

-----------------------------------------------------------------------------
(* The depth of a span is the number of spans it is within.                *)

(* A span is within its parent and what that is within, all of them older. *)
Chained == \A s \in Spans :
    /\ spans[s].parent # NoParent =>
          spans[s].within = {spans[s].parent} \cup spans[spans[s].parent].within
    /\ spans[s].within \subseteq 1 .. s - 1

LEMMA ChainedNext ==
    ASSUME RingInv, RingInv', Chained, [RingNext]_ringVars
    PROVE  Chained'
<1>1. /\ Len(spans) \in Nat /\ spans \in Seq(SpanRecords)
      /\ Spans = 1 .. Len(spans)
      /\ \A s \in Spans : spans[s].parent \in Spans \cup {NoParent}
      /\ \A s \in Spans : spans[s] \in SpanRecords
  BY SpanTypes DEF RingInv, RingTypeOK, Spans
<1>2. ASSUME NEW parent \in Spans \cup {NoParent}, StartSpan(parent)
      PROVE  Chained'
  <2>1. PICK moment \in Moments : spans' = Append(spans, NewSpan(parent, moment))
    BY <1>2 DEF StartSpan
  <2> DEFINE new == NewSpan(parent, moment)
             n == Len(spans) + 1
  <2>2. new \in SpanRecords
    <3>1. moment \in Nat /\ parent \in Nat /\ NoParent \in Nat /\ n \in Nat
      BY <1>1, <2>1 DEF RingInv, RingTypeOK, Moments, NoParent
    <3>2. parent # NoParent => spans[parent].trace \in Nat /\ spans[parent].within \subseteq Nat
      BY <1>1 DEF SpanRecords
    <3>3. QED
      BY <3>1, <3>2 DEF NewSpan, SpanRecords
  <2>3. /\ new.parent = parent
        /\ new.within = IF parent = NoParent THEN {} ELSE {parent} \cup spans[parent].within
    BY DEF NewSpan
  <2> HIDE DEF new
  <2>4. /\ Len(spans') = n /\ spans'[n] = new
        /\ \A s \in Spans : spans'[s] = spans[s]
    BY <1>1, <2>1, <2>2, AppendProperties DEF new
  <2>5. n \notin Spans /\ Spans' = Spans \cup {n} /\ n \in Nat /\ \A s \in Spans : s \in 1 .. n - 1
    BY <1>1, <2>4 DEF Spans
  <2>6. ASSUME NEW s \in Spans
        PROVE  /\ spans'[s].parent # NoParent =>
                      spans'[s].within = {spans'[s].parent} \cup spans'[spans'[s].parent].within
               /\ spans'[s].within \subseteq 1 .. s - 1
    BY <1>1, <2>4 DEF Chained
  <2>7. /\ spans'[n].parent # NoParent =>
               spans'[n].within = {spans'[n].parent} \cup spans'[spans'[n].parent].within
        /\ spans'[n].within \subseteq 1 .. n - 1
    <3>1. CASE parent = NoParent
      BY <2>3, <2>4, <3>1
    <3>2. CASE parent # NoParent
      <4>1. parent \in Spans /\ spans[parent].within \subseteq Spans
        BY <1>2, <3>2 DEF RingInv, RingTypeOK
      <4>2. QED
        BY <2>3, <2>4, <2>5, <3>2, <4>1
    <3>3. QED
      BY <3>1, <3>2
  <2>8. QED
    BY <2>5, <2>6, <2>7 DEF Chained
<1>3. ASSUME NEW s \in Spans, EndSpan(s)
      PROVE  Chained'
  <2>1. PICK moment \in Moments : spans' = [spans EXCEPT ![s].end = moment]
    BY <1>3 DEF EndSpan
  <2>2. moment \in Nat
    BY <2>1 DEF RingInv, RingTypeOK, Moments
  <2>3. Len(spans') = Len(spans) /\ \A x \in Spans : /\ spans'[x].parent = spans[x].parent
                                                     /\ spans'[x].within = spans[x].within
    <3>1. PICK e \in SpanRecords : e = [spans[s] EXCEPT !.end = moment]
      BY <1>1, <2>2 DEF SpanRecords
    <3>2. e.parent = spans[s].parent /\ e.within = spans[s].within
      BY <1>1, <3>1 DEF SpanRecords
    <3>3. spans' = [spans EXCEPT ![s] = e]
      BY <2>1, <3>1
    <3>4. Len(spans') = Len(spans) /\ \A x \in Spans : spans'[x] = IF x = s THEN e ELSE spans[x]
      BY <1>1, <3>3, ExceptSeq
    <3>5. QED
      BY <3>2, <3>4
  <2>4. Spans' = Spans
    BY <2>3 DEF Spans
  <2>5. QED
    BY <1>1, <2>3, <2>4 DEF Chained
<1>4. CASE UNCHANGED ringVars
  BY <1>4 DEF ringVars, Chained, Spans
<1>5. QED
  BY <1>2, <1>3, <1>4 DEF RingNext

(* A span is within its parent, and what that is within.                   *)
LEMMA OneDeeper ==
    ASSUME Spans \subseteq Nat \ {0}, Chained, NEW s \in Spans
    PROVE  /\ IsFiniteSet(spans[s].within) /\ s \notin spans[s].within
           /\ Cardinality(spans[s].within) \in Nat
           /\ spans[s].parent \in Spans =>
                 Cardinality(spans[s].within) = Cardinality(spans[spans[s].parent].within) + 1
<1>1. ASSUME NEW x \in Spans
      PROVE  /\ IsFiniteSet(spans[x].within) /\ x \notin spans[x].within
             /\ Cardinality(spans[x].within) \in Nat
  <2>1. x \in Nat /\ spans[x].within \subseteq 1 .. x - 1
    BY DEF Chained
  <2>2. IsFiniteSet(1 .. x - 1)
    BY <2>1, FS_Interval
  <2>3. IsFiniteSet(spans[x].within)
    BY <2>1, <2>2, FS_Subset
  <2>4. QED
    BY <2>1, <2>3, FS_CardinalityType
<1>2. CASE spans[s].parent \in Spans
  <2> DEFINE q == spans[s].parent
  <2>1. q # NoParent /\ q \in Spans
    BY <1>2 DEF NoParent
  <2>2. spans[s].within = spans[q].within \cup {q}
    BY <2>1 DEF Chained
  <2>3. IsFiniteSet(spans[q].within) /\ q \notin spans[q].within
    BY <1>1, <2>1
  <2> HIDE DEF q
  <2>4. Cardinality(spans[q].within \cup {q}) = Cardinality(spans[q].within) + 1
    BY <2>3, FS_AddElement
  <2>5. QED
    BY <1>1, <2>2, <2>4 DEF q
<1>3. QED
  BY <1>1, <1>2

(* Walking up the parents that S holds counts what a span is within, if    *)
(* all that is in S: the levels left make the recursion end.               *)
LEMMA ClimbCounts ==
    ASSUME Spans \subseteq Nat \ {0}, Chained, NEW S \in SUBSET Spans, IsFiniteSet(S),
           \A x \in Spans : spans[x].parent \in Spans \cup {NoParent},
           \A x \in Spans : spans[x].parent = NoParent => spans[x].within = {},
           \A x \in S : spans[x].within \subseteq S, NEW s \in S
    PROVE  DepthOf(s, S) = Cardinality(spans[s].within)
<1> DEFINE C == Cardinality(S)
           Places == (Spans \cup {NoParent}) \X (0 .. C)
           climb[at \in Places] ==
               IF at[1] \in S /\ at[2] < C
               THEN climb[<<spans[at[1]].parent, at[2] + 1>>]
               ELSE at[2]
           Step(g) ==
               [at \in Places |->
                   IF at[1] \in S /\ at[2] < C
                   THEN g[<<spans[at[1]].parent, at[2] + 1>>]
                   ELSE at[2]]
           Above(p) == IF p \in S THEN Cardinality(spans[p].within) + 1 ELSE 0
           Value(at) == IF at[2] + Above(at[1]) <= C THEN at[2] + Above(at[1]) ELSE C
           f == [at \in Places |-> Value(at)]
<1>1. DepthOf(s, S) = climb[<<spans[s].parent, 0>>]
  BY DEF DepthOf
<1>2. climb = CHOOSE g : g = Step(g)
  OBVIOUS
<1>3. C \in Nat /\ NoParent \notin S
  BY FS_CardinalityType DEF NoParent
<1>4. ASSUME NEW x \in S
      PROVE  /\ spans[x].parent \in Spans \cup {NoParent}
             /\ Above(spans[x].parent) \in Nat
             /\ Cardinality(spans[x].within) = Above(spans[x].parent)
             /\ Above(x) = Above(spans[x].parent) + 1 /\ Above(x) <= C
  <2>1. /\ x \in Spans /\ x \notin spans[x].within /\ IsFiniteSet(spans[x].within)
        /\ Cardinality(spans[x].within) \in Nat
    BY OneDeeper
  <2>2. Cardinality(spans[x].within) = Above(spans[x].parent)
    <3>1. CASE spans[x].parent = NoParent
      BY <1>3, <2>1, <3>1, FS_EmptySet
    <3>2. CASE spans[x].parent \in Spans
      <4>1. spans[x].parent \in spans[x].within
        <5>1. spans[x].parent # NoParent
          BY <3>2 DEF NoParent
        <5>2. \A y \in Spans : spans[y].parent # NoParent => spans[y].parent \in spans[y].within
          BY DEF Chained
        <5>3. QED
          BY <2>1, <5>1, <5>2
      <4>2. spans[x].parent \in S
        BY <4>1
      <4>3. QED
        BY <2>1, <3>2, <4>2, OneDeeper
    <3>3. QED
      BY <2>1, <3>1, <3>2
  <2>3. Cardinality(spans[x].within) + 1 <= C
    <3>1. Cardinality(spans[x].within \cup {x}) = Cardinality(spans[x].within) + 1
      BY <2>1, FS_AddElement
    <3>2. spans[x].within \cup {x} \subseteq S
      OBVIOUS
    <3>3. Cardinality(spans[x].within \cup {x}) <= C
      BY <3>2, FS_Subset
    <3>4. QED
      BY <3>1, <3>3
  <2>4. QED
    BY <2>1, <2>2, <2>3
<1>5. ASSUME NEW at \in Places
      PROVE  /\ at[1] \in Spans \cup {NoParent} /\ at[2] \in 0 .. C /\ C \in Nat
             /\ at[1] \in S /\ at[2] < C => <<spans[at[1]].parent, at[2] + 1>> \in Places
  <2>1. at[1] \in Spans \cup {NoParent} /\ at[2] \in 0 .. C
    OBVIOUS
  <2>2. ASSUME at[1] \in S, at[2] < C
        PROVE  spans[at[1]].parent \in Spans \cup {NoParent} /\ at[2] + 1 \in 0 .. C
    <3>1. spans[at[1]].parent \in Spans \cup {NoParent}
      BY <1>4, <2>2
    <3> HIDE DEF C, Places, Above
    <3>2. at[2] + 1 \in 0 .. C
      BY <1>3, <2>1, <2>2
    <3>3. QED
      BY <3>1, <3>2
  <2>3. QED
    BY <1>3, <2>1, <2>2
<1> HIDE DEF Above, C, Places
<1>6. f = Step(f)
  <2>1. ASSUME NEW at \in Places
        PROVE  Value(at) = Step(f)[at]
    <3>1. CASE at[1] \in S /\ at[2] < C
      <4>1. Step(f)[at] = Value(<<spans[at[1]].parent, at[2] + 1>>)
        BY <1>5, <3>1
      <4>2. Value(<<spans[at[1]].parent, at[2] + 1>>) = Value(at)
        <5>1. PICK p \in S, l \in 0 .. C : p = at[1] /\ l = at[2] /\ l < C
          BY <1>5, <3>1
        <5>2. Above(p) \in Nat /\ Above(spans[p].parent) \in Nat /\ Above(p) = Above(spans[p].parent) + 1
          BY <1>4
        <5>3. QED
          BY <1>3, <5>1, <5>2
      <4>3. QED
        BY <4>1, <4>2
    <3>2. CASE at[1] \in S /\ at[2] >= C
      <4>1. PICK p \in S, l \in 0 .. C : p = at[1] /\ l = at[2] /\ l >= C
        BY <1>5, <3>2
      <4>2. Above(p) \in Nat /\ Above(p) # 0
        BY <1>4
      <4>3. Value(at) = l
        BY <1>3, <4>1, <4>2
      <4>4. QED
        <5>1. Step(f)[at] = at[2]
          BY <1>3, <3>2, <4>1
        <5>2. QED
          BY <4>1, <4>3, <5>1
    <3>3. CASE at[1] \notin S
      <4>1. PICK p \in Spans \cup {NoParent}, l \in 0 .. C : p = at[1] /\ l = at[2]
        BY <1>5
      <4>2. Above(p) = 0
        BY <3>3, <4>1 DEF Above
      <4>3. Value(at) = l
        BY <1>3, <4>1, <4>2
      <4>4. QED
        BY <3>3, <4>1, <4>3
    <3>4. QED
      BY <1>5, <3>1, <3>2, <3>3
  <2>2. QED
    BY <2>1
<1>7. ASSUME NEW g, g = Step(g)
      PROVE  g = f
  <2> DEFINE Wrong == {at \in Places : g[at] # f[at]}
             Left == {C - at[2] : at \in Wrong}
  <2>1. SUFFICES ASSUME Wrong # {} PROVE FALSE
    BY <1>7
  <2>2. Left \subseteq Nat /\ Left # {}
    <3>1. \A at \in Places : C - at[2] \in Nat
      <4>1. ASSUME NEW at \in Places PROVE C - at[2] \in Nat
        <5>1. at[2] \in 0 .. C /\ C \in Nat
          BY <1>5
        <5>2. QED
          BY <5>1
      <4>2. QED
        BY <4>1
    <3> HIDE DEF f
    <3>2. QED
      BY <2>1, <3>1
  <2>3. PICK n \in Left : \A m \in Left : ~(<<m, n>> \in OpToRel(<, Nat))
    <3> HIDE DEF Left
    <3>1. QED
      BY <2>2, NatLessThanWellFounded, WFMin
  <2>4. PICK at \in Wrong : n = C - at[2]
    OBVIOUS
  <2>5. CASE at[1] \in S /\ at[2] < C
    <3> DEFINE up == <<spans[at[1]].parent, at[2] + 1>>
    <3>1. up \in Places /\ C - up[2] \in Nat /\ C - up[2] < n /\ n \in Nat
      BY <1>5, <2>4, <2>5
    <3>2. up \notin Wrong
      BY <2>3, <3>1 DEF OpToRel
    <3>3. Step(g)[at] = g[up] /\ Step(f)[at] = f[up]
      BY <2>5
    <3>4. g[at] = Step(g)[at] /\ f[at] = Step(f)[at]
      BY <1>6, <1>7
    <3>5. QED
      BY <3>1, <3>2, <3>3, <3>4
  <2>6. CASE ~(at[1] \in S /\ at[2] < C)
    <3>1. Step(g)[at] = at[2] /\ Step(f)[at] = at[2]
      BY <2>6
    <3>2. g[at] = Step(g)[at] /\ f[at] = Step(f)[at]
      BY <1>6, <1>7
    <3>3. QED
      BY <3>1, <3>2
  <2>7. QED
    BY <2>5, <2>6
<1>8. climb = f
  <2> HIDE DEF f, Step, climb
  <2>1. climb = Step(climb)
    BY <1>2, <1>6
  <2>2. QED
    BY <1>7, <2>1
<1>9. f[<<spans[s].parent, 0>>] = Above(spans[s].parent)
  <2>1. <<spans[s].parent, 0>> \in Places
    BY <1>3, <1>4 DEF Places
  <2>2. QED
    BY <1>3, <1>4, <2>1
<1>10. QED
  BY <1>1, <1>4, <1>8, <1>9

(* WaterfallWhole for every ring size and every schedule: each span of a   *)
(* finished trace is shown at its real nesting level, none before the root,*)
(* and the list agrees with the page of the trace (telemetry.py:367-455).  *)
THEOREM WaterfallIsWhole == RingSpec => []WaterfallWhole
<1>1. RingInit => Chained
  BY DEF RingInit, Chained, Spans
<1>2. RingInv /\ RingInv' /\ Chained /\ [RingNext]_ringVars => Chained'
  BY ChainedNext
<1>3. ASSUME RingInv, Chained, RootIsShown PROVE WaterfallWhole
  <2>1. SUFFICES ASSUME NEW x \in Retained, ~Running(spans[x].trace),
                        NEW t, t = spans[x].trace
                 PROVE  /\ \A s \in OfTrace(t) :
                              /\ Waterfall(t).spans[s].depth = Cardinality(spans[s].within)
                              /\ Waterfall(t).spans[s].offset >= 0
                        /\ t \in Listed => Row(t).root = t /\ Row(t).started = Started(t)
                                           /\ Row(t).total = Waterfall(t).total
    BY <1>3 DEF WaterfallWhole
  <2> DEFINE S == OfTrace(t)
  <2>2. /\ RootOf(S) = t /\ t \in S /\ FirstStart(S) = Started(t)
        /\ \A s \in S : /\ s \in Spans /\ Started(s) \in Nat
                        /\ Started(t) <= Started(s)
                        /\ spans[s].within \subseteq S
    BY <1>3, <2>1, TraceShown
  <2>3. Spans = 1 .. Len(spans) /\ Len(spans) \in Nat /\ Spans \subseteq Nat \ {0}
    BY <1>3, SpanTypes DEF RingInv, Spans
  <2>4. S \in SUBSET Spans /\ IsFiniteSet(S)
    <3>1. IsFiniteSet(Spans)
      BY <2>3, FS_Interval
    <3>2. QED
      BY <2>2, <3>1, FS_Subset
  <2>5. /\ \A y \in Spans : spans[y].parent \in Spans \cup {NoParent}
        /\ \A y \in Spans : spans[y].parent = NoParent => spans[y].within = {}
    BY <1>3 DEF RingInv, RingTypeOK, Nested, SpanOK
  <2>6. ASSUME NEW s \in S
        PROVE  /\ Waterfall(t).spans[s].depth = Cardinality(spans[s].within)
               /\ Waterfall(t).spans[s].offset >= 0
    <3>1. DepthOf(s, S) = Cardinality(spans[s].within)
      <4> HIDE DEF S
      <4>1. QED
        BY <1>3, <2>2, <2>3, <2>4, <2>5, ClimbCounts
    <3>2. /\ Waterfall(t).spans[s].depth = DepthOf(s, S)
          /\ Waterfall(t).spans[s].offset = Started(s) - Started(RootOf(S))
      BY DEF Waterfall
    <3>3. Started(s) - Started(t) >= 0
      BY <2>2
    <3>4. QED
      BY <2>2, <3>1, <3>2, <3>3
  <2>7. Row(t).root = t /\ Row(t).started = Started(t) /\ Row(t).total = Waterfall(t).total
    BY <2>2 DEF Row, Waterfall
  <2>8. QED
    BY <2>6, <2>7
<1>4. QED
  BY <1>1, <1>2, <1>3, RingInvariant, RootShown, PTL DEF RingSpec

-----------------------------------------------------------------------------
(* UploadFiles. A document is the bytes of one upload unless two requests  *)
(* wrote one path at once.                                                 *)

(* The files of request n that were analysed so far.                       *)
Analysed(n) == {d.file : d \in {e \in documents : e.request = n}}

Active(w) == job[w].step # "idle"
Writing == {"open", "write"}

(* A request underway: the files before the one at hand are done with.     *)
Underways(j) ==
    /\ j.request \in 1 .. Len(sent)
    /\ j.file \in 1 .. Len(FilesOf(j.request))
    /\ sent[j.request].result = "underway"
    /\ Analysed(j.request) = IF j.step \in Writing THEN {} ELSE 1 .. j.file - 1

PathOf(n, i) == FilesOf(n)[i].path
OwnBytes(n, i) == disk[PathOf(n, i)] = <<n, i>>

(* ... that no other disturbs: its paths differ, and hold what it wrote.   *)
Undisturbed(j) ==
    /\ \A i, k \in 1 .. Len(FilesOf(j.request)) : i # k => PathOf(j.request, i) # PathOf(j.request, k)
    /\ \A i \in 1 .. Len(FilesOf(j.request)) :
          j.step \notin Writing \/ i < j.file => OwnBytes(j.request, i)
    /\ j.step = "write" => disk[PathOf(j.request, j.file)] = Empty
    /\ j.step \in {"nlp", "digest", "text"} => j.tags = <<j.request, j.file>>
    /\ j.step \in {"digest", "text"} => j.nlp = <<j.request, j.file>>
    /\ j.step = "text" => j.digest = <<j.request, j.file>>

Apart(m, n) ==
    \A i \in 1 .. Len(FilesOf(m)), k \in 1 .. Len(FilesOf(n)) : PathOf(m, i) # PathOf(n, k)

OwnDocument(d) ==
    d.doc = <<d.request, d.file>> /\ d.tags = <<d.request, d.file>>
    /\ d.nlp = <<d.request, d.file>> /\ d.chunks = <<d.request, d.file>>

AnsweredWhole(n) ==
    /\ sent[n].result = "accepted" => Analysed(n) = 1 .. Len(FilesOf(n))
    /\ sent[n].result = "refused" => Analysed(n) = {}

UploadInv ==
    /\ UploadTypeOK
    /\ Len(sent) <= MaxRequests
    /\ \A w \in Workers : IF Active(w) THEN Underways(job[w]) ELSE job[w].request = 0
    /\ \A w \in Workers : Active(w) /\ job[w].request \notin mixed => Undisturbed(job[w])
    /\ \A v, w \in Workers : v # w /\ Active(v) /\ Active(w) /\ job[w].request \notin mixed =>
          Apart(job[v].request, job[w].request)
    /\ \A d \in documents : d.request <= Len(sent) /\ (d.request \notin mixed => OwnDocument(d))
    /\ \A n \in 1 .. Len(sent) : AnsweredWhole(n)

-----------------------------------------------------------------------------

FileType == [path : Paths, known : BOOLEAN]
FilesType == StaffRequests \cup ClientRequests
SentType == [files : FilesType, result : Results]
JobType == [step : Steps, request : 0 .. MaxRequests, file : 0 .. MaxFiles,
            tags : Bytes, nlp : Bytes, digest : Bytes]

LEMMA SeqElements ==
    ASSUME NEW S, NEW s \in Seq(S)
    PROVE  DOMAIN s = 1 .. Len(s) /\ Len(s) \in Nat /\ \A i \in DOMAIN s : s[i] \in S
  OBVIOUS

LEMMA FilesOK ==
    ASSUME NEW files \in FilesType
    PROVE  /\ Len(files) \in 1 .. MaxFiles /\ files \in Seq(FileType)
           /\ DOMAIN files = 1 .. Len(files)
           /\ \A i \in 1 .. Len(files) : files[i] \in FileType
  <1>0. MaxFiles \in Nat \ {0}
    BY UploadBounds
  <1>1. CASE files \in StaffRequests
    <2>1. PICK p \in StaffPaths : files = <<[path |-> p, known |-> TRUE]>>
      BY <1>1 DEF StaffRequests
    <2>2. [path |-> p, known |-> TRUE] \in FileType
      BY DEF FileType, Paths
    <2> HIDE DEF FileType
    <2> DEFINE rec == [path |-> p, known |-> TRUE]
    <2>3. rec \in FileType /\ files = <<rec>>
      BY <2>1, <2>2
    <2> HIDE DEF rec
    <2>4. Len(files) = 1 /\ files \in Seq(FileType) /\ files[1] = rec
      BY <2>3
    <2>5. DOMAIN files = 1 .. 1
      BY <2>3
    <2> QED BY <1>0, <2>3, <2>4, <2>5
  <1>2. CASE files \in ClientRequests
    <2>1. PICK n \in 1 .. MaxFiles : files \in [1 .. n -> [path : ClientPaths, known : BOOLEAN]]
      BY <1>2 DEF ClientRequests
    <2>2. files \in [1 .. n -> FileType]
      BY <2>1 DEF FileType, Paths
    <2> HIDE DEF FileType
    <2>3. files \in Seq(FileType) /\ Len(files) = n
      BY <1>0, <2>2
    <2> QED BY <2>1, <2>2, <2>3
  <1> QED BY <1>1, <1>2 DEF FilesType

(* Paths that are as many as the files are all different.                  *)
LEMMA DistinctPaths ==
    ASSUME NEW files \in FilesType, ~(Cardinality(PathsOf(files)) < Len(files))
    PROVE  \A i, k \in 1 .. Len(files) : i # k => files[i].path # files[k].path
  <1> DEFINE S == 1 .. Len(files)
             T == PathsOf(files)
             f == [i \in S |-> files[i].path]
  <1>1. Len(files) \in Nat
    BY FilesOK
  <1>2. IsFiniteSet(S) /\ Cardinality(S) = Len(files)
    BY <1>1, FS_Interval
  <1>3. f \in Surjection(S, T)
    BY DEF Surjection, PathsOf
  <1>4. IsFiniteSet(T) /\ Cardinality(T) <= Cardinality(S)
    BY <1>2, <1>3, FS_Surjection
  <1>5. Cardinality(T) \in Nat
    BY <1>4, FS_CardinalityType
  <1>6. Cardinality(T) = Cardinality(S)
    BY <1>1, <1>2, <1>4, <1>5
  <1>7. f \in Injection(S, T)
    BY <1>2, <1>3, <1>6, FS_Surjection
  <1>8. \A i, k \in S : f[i] = f[k] => i = k
    BY <1>7 DEF Injection, IsInjective
  <1>9. \A i \in S : f[i] = files[i].path
    OBVIOUS
  <1> QED BY <1>8, <1>9

LEMMA BytesOK ==
    /\ NoBytes \subseteq Bytes
    /\ \A n \in 1 .. MaxRequests, i \in 1 .. MaxFiles : <<n, i>> \in Bytes
  BY DEF Bytes

LEMMA JobTypes ==
    NoJob \in JobType /\ NoJob.step = "idle"
  <1>1. Unread \in Bytes /\ 0 \in 0 .. MaxRequests /\ 0 \in 0 .. MaxFiles
    BY BytesOK, UploadBounds DEF NoBytes
  <1> QED BY <1>1 DEF NoJob, JobType, Steps

(* What UploadTypeOK says, with names for the sets.                        *)
LEMMA UploadFields ==
    ASSUME UploadTypeOK
    PROVE  /\ disk \in [Paths -> Bytes] /\ job \in [Workers -> JobType]
           /\ sent \in Seq(SentType)
           /\ DOMAIN sent = 1 .. Len(sent) /\ Len(sent) \in Nat
           /\ \A n \in 1 .. Len(sent) : sent[n] \in SentType /\ FilesOf(n) \in FilesType
           /\ mixed \subseteq 1 .. Len(sent)
           /\ errors \in 0 .. MaxErrors
  <1>1. sent \in Seq(SentType)
    BY DEF UploadTypeOK, SentType, FilesType
  <1>2. DOMAIN sent = 1 .. Len(sent) /\ Len(sent) \in Nat /\ \A n \in DOMAIN sent : sent[n] \in SentType
    BY <1>1, SeqElements
  <1> QED BY <1>1, <1>2 DEF UploadTypeOK, JobType, SentType, FilesOf

(* The file at hand of a worker that serves a request.                     *)
LEMMA AtHand ==
    ASSUME UploadInv, NEW w \in Workers, Active(w)
    PROVE  /\ job[w] \in JobType
           /\ job[w].request \in 1 .. Len(sent) /\ job[w].request \in 1 .. MaxRequests
           /\ FilesOf(job[w].request) \in FilesType
           /\ Len(FilesOf(job[w].request)) \in 1 .. MaxFiles
           /\ job[w].file \in 1 .. Len(FilesOf(job[w].request)) /\ job[w].file \in 1 .. MaxFiles
           /\ Now(w) \in FileType
           /\ Now(w).path = PathOf(job[w].request, job[w].file) /\ Now(w).path \in Paths
           /\ sent[job[w].request].result = "underway"
           /\ <<job[w].request, job[w].file>> \in Bytes
  <1>1. UploadTypeOK /\ Underways(job[w]) /\ Len(sent) <= MaxRequests
    BY DEF UploadInv
  <1>2. job[w] \in JobType /\ Len(sent) \in Nat
    BY <1>1, UploadFields
  <1>3. /\ job[w].request \in 1 .. Len(sent) /\ sent[job[w].request].result = "underway"
        /\ job[w].file \in 1 .. Len(FilesOf(job[w].request))
    BY <1>1 DEF Underways
  <1>4. job[w].request \in 1 .. MaxRequests
    BY <1>1, <1>2, <1>3, UploadBounds
  <1>5. FilesOf(job[w].request) \in FilesType
    BY <1>1, <1>3, UploadFields
  <1> DEFINE files == FilesOf(job[w].request)
  <1>6. Len(files) \in 1 .. MaxFiles /\ \A i \in 1 .. Len(files) : files[i] \in FileType
    BY <1>5, FilesOK
  <1>7. Now(w) = files[job[w].file]
    BY DEF Now
  <1>8. Now(w).path = PathOf(job[w].request, job[w].file)
    BY DEF Now, PathOf
  <1>9. Now(w) \in FileType
    BY <1>3, <1>6, <1>7
  <1>10. Now(w).path \in Paths
    BY <1>9 DEF FileType
  <1>11. job[w].file \in 1 .. MaxFiles
    BY <1>3, <1>6, UploadBounds
  <1>12. <<job[w].request, job[w].file>> \in Bytes
    BY <1>4, <1>11, BytesOK
  <1> QED BY <1>2, <1>3, <1>4, <1>5, <1>6, <1>8, <1>9, <1>10, <1>11, <1>12

(* A step of a worker's own request, seen by the others: its files stay,   *)
(* only its own entry, path and documents change.                          *)
StepBy(w) ==
    /\ \A v \in Workers \ {w} : job'[v] = job[v]
    /\ Len(sent') = Len(sent)
    /\ \A n \in 1 .. Len(sent) :
          sent'[n].files = sent[n].files /\ (n # job[w].request => sent'[n] = sent[n])
    /\ documents \subseteq documents'
    /\ \A d \in documents' \ documents : d.request = job[w].request
    /\ \A p \in Paths : p # Now(w).path => disk'[p] = disk[p]
    /\ mixed' = mixed

(* What such a step leaves as it is: the other requests.                   *)
LEMMA OthersStay ==
    ASSUME UploadInv, NEW w \in Workers, Active(w), StepBy(w),
           NEW v \in Workers, v # w, Active(v)
    PROVE  /\ Underways(job[v])'
           /\ job[v].request \notin mixed => Undisturbed(job[v])'
  <1> PICK j : j = job[v]
    OBVIOUS
  <1>1. job[v] = j /\ job'[v] = j
    BY DEF StepBy
  <1>2. Underways(j) /\ UploadTypeOK
    BY <1>1 DEF UploadInv
  <1>3. j.request # job[w].request /\ j.request \in 1 .. Len(sent)
    BY <1>1, <1>2 DEF UploadTypeOK, Active, Is, Underways
  <1>4. sent'[j.request] = sent[j.request] /\ Len(sent') = Len(sent)
    BY <1>3 DEF StepBy
  <1>5. {e \in documents' : e.request = j.request} = {e \in documents : e.request = j.request}
    BY <1>3 DEF StepBy
  <1>6. Underways(j)'
    BY <1>2, <1>3, <1>4, <1>5 DEF Underways, Analysed, FilesOf
  <1>7. ASSUME j.request \notin mixed
        PROVE  Undisturbed(j)'
    <2>1. Undisturbed(j) /\ Apart(job[w].request, j.request)
      BY <1>1, <1>7 DEF UploadInv
    <2>2. /\ Now(w).path = PathOf(job[w].request, job[w].file)
          /\ job[w].file \in 1 .. Len(FilesOf(job[w].request))
      BY AtHand
    <2>3. ASSUME NEW i \in 1 .. Len(FilesOf(j.request))
          PROVE  disk'[PathOf(j.request, i)] = disk[PathOf(j.request, i)]
      <3>2. PathOf(j.request, i) # Now(w).path
        BY <2>1, <2>2 DEF Apart
      <3>3. FilesOf(j.request) \in FilesType
        BY <1>2, <1>3, UploadFields
      <3>4. FilesOf(j.request)[i] \in FileType
        BY <3>3, FilesOK
      <3>5. PathOf(j.request, i) \in Paths
        BY <3>4 DEF PathOf, FileType
      <3> QED BY <3>2, <3>5 DEF StepBy
    <2>4. FilesOf(j.request)' = FilesOf(j.request)
      BY <1>4 DEF FilesOf
    <2>5. \A i \in 1 .. Len(FilesOf(j.request)) : PathOf(j.request, i)' = PathOf(j.request, i)
      BY <2>4 DEF PathOf
    <2>6. j.file \in 1 .. Len(FilesOf(j.request))
      BY <1>2 DEF Underways
    <2> QED BY <2>1, <2>3, <2>4, <2>5, <2>6 DEF Undisturbed, OwnBytes
  <1> QED BY <1>1, <1>6, <1>7 DEF Underways, Undisturbed

(* The invariant after such a step, from what the worker itself must keep. *)
LEMMA StepKeeps ==
    ASSUME UploadInv, NEW w \in Workers, Active(w), StepBy(w),
           UploadTypeOK',
           Active(w)' => job'[w].request = job[w].request /\ Underways(job[w])',
           ~Active(w)' => job'[w].request = 0,
           Active(w)' /\ job[w].request \notin mixed => Undisturbed(job[w])',
           \A d \in documents' \ documents :
              job[w].request \notin mixed => OwnDocument(d),
           NEW own, own = job[w].request, AnsweredWhole(own)'
    PROVE  UploadInv'
  <1>1. UploadTypeOK /\ Len(sent) <= MaxRequests
    BY DEF UploadInv
  <1>2. Len(sent') = Len(sent) /\ mixed' = mixed
    BY DEF StepBy
  <1>3. \A v \in Workers : v # w => (Active(v)' <=> Active(v))
    BY DEF StepBy, Active
  <1>4. \A v \in Workers : Active(v)' => Active(v)
    BY <1>3
  <1>5. \A v \in Workers : Active(v)' => job'[v].request = job[v].request
    BY DEF StepBy
  <1>6. \A v \in Workers : IF Active(v)' THEN Underways(job[v])' ELSE job'[v].request = 0
    <2>1. \A v \in Workers : v # w /\ ~Active(v) => job'[v].request = 0
      BY DEF UploadInv, StepBy
    <2> QED BY <1>3, <2>1, OthersStay
  <1>7. \A v \in Workers : Active(v)' /\ job'[v].request \notin mixed' => Undisturbed(job[v])'
    BY <1>2, <1>3, <1>5, OthersStay
  <1>8. \A n \in 1 .. Len(sent) : FilesOf(n)' = FilesOf(n)
    BY DEF StepBy, FilesOf
  <1>9. ASSUME NEW u \in Workers, NEW v \in Workers, u # v,
               Active(u)', Active(v)', job'[v].request \notin mixed'
        PROVE  Apart(job[u].request, job[v].request)'
    <2> PICK m, n : m = job[u].request /\ n = job[v].request
      OBVIOUS
    <2>1. m \in 1 .. Len(sent) /\ n \in 1 .. Len(sent)
      BY <1>4, <1>9, AtHand
    <2>2. Apart(m, n)
      BY <1>2, <1>4, <1>5, <1>9 DEF UploadInv
    <2>3. sent'[m].files = sent[m].files /\ sent'[n].files = sent[n].files
      BY <2>1 DEF StepBy
    <2>4. Apart(m, n)'
      BY <2>2, <2>3 DEF Apart, PathOf, FilesOf
    <2> QED BY <1>5, <1>9, <2>4 DEF Apart
  <1>10. \A d \in documents' : d.request <= Len(sent') /\ (d.request \notin mixed' => OwnDocument(d))
    <2>1. job[w].request \in 1 .. Len(sent) /\ Len(sent) \in Nat
      BY <1>1, AtHand, UploadFields
    <2> QED BY <1>2, <2>1 DEF StepBy, UploadInv
  <1>11. ASSUME NEW n \in 1 .. Len(sent')
         PROVE  AnsweredWhole(n)'
    <2>1. CASE n = own
      BY <2>1
    <2>2. CASE n # own
      <3>1. {e \in documents' : e.request = n} = {e \in documents : e.request = n}
        BY <2>2 DEF StepBy
      <3>2. sent'[n] = sent[n] /\ AnsweredWhole(n)
        BY <1>2, <2>2 DEF StepBy, UploadInv
      <3> QED BY <3>1, <3>2 DEF AnsweredWhole, Analysed, FilesOf
    <2> QED BY <2>1, <2>2
  <1> QED BY <1>1, <1>2, <1>6, <1>7, <1>9, <1>10, <1>11 DEF UploadInv

-----------------------------------------------------------------------------
(* One lemma per action. First the fields that an action sets.             *)
LEMMA JobSet ==
    ASSUME UploadInv, NEW w \in Workers, Active(w), NEW j \in JobType,
           job' = [job EXCEPT ![w] = j],
           j.request = job[w].request \/ j = NoJob
    PROVE  /\ job' \in [Workers -> JobType] /\ job'[w] = j
           /\ \A v \in Workers \ {w} : job'[v] = job[v]
           /\ \A u, v \in Workers : u # v /\ ~Is(u, "idle")' => job'[u].request # job'[v].request
  <1>1. UploadTypeOK
    BY DEF UploadInv
  <1>2. job \in [Workers -> JobType]
    BY <1>1, UploadFields
  <1>3. job' \in [Workers -> JobType] /\ job'[w] = j /\ \A v \in Workers \ {w} : job'[v] = job[v]
    BY <1>2
  <1>4. ASSUME NEW u \in Workers, NEW v \in Workers, u # v, job'[u].step # "idle"
        PROVE  job'[u].request # job'[v].request
    <2>1. \A x, y \in Workers : x # y /\ job[x].step # "idle" => job[x].request # job[y].request
      BY <1>1 DEF UploadTypeOK, Is
    <2>2. CASE j.request = job[w].request
      BY <1>3, <1>4, <2>1, <2>2 DEF Active
    <2>3. CASE j = NoJob
      <3>1. NoJob.step = "idle" /\ NoJob.request = 0
        BY DEF NoJob
      <3>2. u # w /\ job'[u] = job[u]
        BY <1>3, <1>4, <2>3, <3>1
      <3>3. job[u].request \in 1 .. Len(sent)
        BY <1>4, <3>2, AtHand DEF Active
      <3>4. CASE v = w
        BY <1>1, <1>3, <2>3, <3>1, <3>2, <3>3, <3>4, UploadFields
      <3>5. CASE v # w
        BY <1>3, <1>4, <2>1, <3>2, <3>5
      <3> QED BY <3>4, <3>5
    <2> QED BY <2>2, <2>3
  <1> QED BY <1>3, <1>4 DEF Is

(* The type invariant after a step of a worker.                            *)
LEMMA TypeAfter ==
    ASSUME UploadTypeOK, disk' \in [Paths -> Bytes], job' \in [Workers -> JobType],
           \A u, v \in Workers : u # v /\ ~Is(u, "idle")' => job'[u].request # job'[v].request,
           sent' \in Seq(SentType), Len(sent') = Len(sent), mixed' = mixed,
           documents' \subseteq
              [request : 1 .. MaxRequests, file : 1 .. MaxFiles,
               doc : Bytes, tags : Bytes, nlp : Bytes, chunks : Bytes],
           errors' \in 0 .. MaxErrors
    PROVE  UploadTypeOK'
  <1>1. mixed' \subseteq 1 .. Len(sent')
    BY DEF UploadTypeOK
  <1> QED BY <1>1 DEF UploadTypeOK, JobType, SentType, FilesType

LEMMA AnswerSet ==
    ASSUME UploadInv, NEW w \in Workers, Active(w), NEW result \in Results,
           Answers(w, result)
    PROVE  /\ job' \in [Workers -> JobType] /\ ~Active(w)' /\ job'[w].request = 0
           /\ \A v \in Workers \ {w} : job'[v] = job[v]
           /\ \A u, v \in Workers : u # v /\ ~Is(u, "idle")' => job'[u].request # job'[v].request
           /\ sent' \in Seq(SentType) /\ Len(sent') = Len(sent)
           /\ \A n \in 1 .. Len(sent) :
                 sent'[n].files = sent[n].files /\ (n # job[w].request => sent'[n] = sent[n])
           /\ sent'[job[w].request].result = result
  <1>1. job' = [job EXCEPT ![w] = NoJob]
    BY DEF Answers
  <1>2. /\ job' \in [Workers -> JobType] /\ job'[w] = NoJob
        /\ \A v \in Workers \ {w} : job'[v] = job[v]
        /\ \A u, v \in Workers : u # v /\ ~Is(u, "idle")' => job'[u].request # job'[v].request
    BY <1>1, JobTypes, JobSet
  <1> PICK n \in 1 .. Len(sent) : n = job[w].request
    BY AtHand
  <1>3. sent' = [sent EXCEPT ![n].result = result]
    BY DEF Answers
  <1>4. sent \in Seq(SentType) /\ DOMAIN sent = 1 .. Len(sent) /\ Len(sent) \in Nat /\ sent[n] \in SentType
    BY UploadFields DEF UploadInv
  <1> DEFINE r == [sent[n] EXCEPT !.result = result]
  <1>5. r \in SentType /\ r.files = sent[n].files /\ r.result = result
    BY <1>4 DEF SentType
  <1>6. sent' = [sent EXCEPT ![n] = r]
    BY <1>3
  <1> HIDE DEF r
  <1>7. sent' \in Seq(SentType) /\ Len(sent') = Len(sent)
    BY <1>4, <1>5, <1>6
  <1>8. sent'[n] = r /\ \A m \in 1 .. Len(sent) : m # n => sent'[m] = sent[m]
    BY <1>4, <1>6
  <1>9. ~Active(w)' /\ job'[w].request = 0
    BY <1>2, JobTypes DEF Active, NoJob
  <1> QED BY <1>2, <1>5, <1>7, <1>8, <1>9

LEMMA RefuseStep ==
    ASSUME UploadInv, NEW w \in Workers, Refuse(w)
    PROVE  UploadInv'
  <1>1. Active(w) /\ job[w].step = "open"
    BY DEF Refuse, Is, Active
  <1>2. "refused" \in Results /\ Answers(w, "refused")
    BY DEF Refuse, Results
  <1>3. UploadTypeOK'
    BY <1>1, <1>2, AnswerSet, TypeAfter, UploadFields DEF Refuse, UploadInv, UploadTypeOK
  <1>4. StepBy(w)
    BY <1>1, <1>2, AnswerSet DEF Refuse, StepBy
  <1> PICK n : n = job[w].request
    OBVIOUS
  <1>5. Underways(job[w])
    BY <1>1 DEF UploadInv
  <1>6. Analysed(n) = {}
    BY <1>1, <1>5 DEF Underways, Writing
  <1>7. sent'[n].result = "refused" /\ documents' = documents
    BY <1>1, <1>2, AnswerSet DEF Refuse
  <1>8. AnsweredWhole(n)'
    BY <1>6, <1>7 DEF AnsweredWhole, Analysed
  <1>9. ~Active(w)' /\ job'[w].request = 0
    BY <1>1, <1>2, AnswerSet
  <1> QED BY <1>1, <1>3, <1>4, <1>7, <1>8, <1>9, StepKeeps

LEMMA FailStep ==
    ASSUME UploadInv, NEW w \in Workers, Fail(w)
    PROVE  UploadInv'
  <1>1. Active(w)
    BY DEF Fail, Is, Active
  <1>2. "failed" \in Results /\ Answers(w, "failed")
    BY DEF Fail, Results
  <1>a. errors' \in 0 .. MaxErrors
    BY UploadFields, UploadBounds DEF Fail, UploadInv
  <1>3. UploadTypeOK'
    BY <1>1, <1>2, <1>a, AnswerSet, TypeAfter, UploadFields DEF Fail, UploadInv, UploadTypeOK
  <1>4. StepBy(w)
    BY <1>1, <1>2, AnswerSet DEF Fail, StepBy
  <1> PICK n : n = job[w].request
    OBVIOUS
  <1>7. sent'[n].result = "failed" /\ documents' = documents
    BY <1>1, <1>2, AnswerSet DEF Fail
  <1>8. AnsweredWhole(n)'
    BY <1>7 DEF AnsweredWhole
  <1>9. ~Active(w)' /\ job'[w].request = 0
    BY <1>1, <1>2, AnswerSet
  <1> QED BY <1>1, <1>3, <1>4, <1>7, <1>8, <1>9, StepKeeps

LEMMA OpenStep ==
    ASSUME UploadInv, NEW w \in Workers, Open(w)
    PROVE  UploadInv'
  <1>1. Active(w) /\ job[w].step = "open" /\ job[w] \in JobType
    BY AtHand DEF Open, Is, Active
  <1> DEFINE j == [job[w] EXCEPT !.step = "write"]
  <1>2. j \in JobType /\ j.step = "write" /\ j.request = job[w].request /\ j.file = job[w].file
    BY <1>1 DEF JobType, Steps
  <1>3. job' = [job EXCEPT ![w] = j]
    BY DEF Open, GoesOn
  <1> HIDE DEF j
  <1>4. /\ job' \in [Workers -> JobType] /\ job'[w] = j /\ \A v \in Workers \ {w} : job'[v] = job[v]
        /\ \A u, v \in Workers : u # v /\ ~Is(u, "idle")' => job'[u].request # job'[v].request
    BY <1>1, <1>2, <1>3, JobSet
  <1>a. /\ job[w].request \in 1 .. Len(sent) /\ job[w].file \in 1 .. Len(FilesOf(job[w].request))
        /\ Now(w).path = PathOf(job[w].request, job[w].file) /\ Now(w).path \in Paths
    BY <1>1, AtHand
  <1> PICK n \in 1 .. Len(sent) : n = job[w].request
    BY <1>a
  <1> PICK i \in 1 .. Len(FilesOf(n)) : i = job[w].file
    BY <1>a
  <1>b. Now(w).path = PathOf(n, i) /\ Now(w).path \in Paths
    BY <1>a
  <1>5. disk' = [disk EXCEPT ![PathOf(n, i)] = Empty]
    BY <1>b DEF Open, Opened
  <1>6. disk \in [Paths -> Bytes] /\ Empty \in Bytes
    BY UploadFields, BytesOK DEF UploadInv, NoBytes
  <1>7. /\ disk' \in [Paths -> Bytes] /\ disk'[PathOf(n, i)] = Empty
        /\ \A p \in Paths : p # PathOf(n, i) => disk'[p] = disk[p]
    BY <1>b, <1>5, <1>6
  <1>8. UploadTypeOK'
    BY <1>4, <1>7, TypeAfter, UploadFields DEF Open, UploadInv, UploadTypeOK
  <1>9. StepBy(w)
    BY <1>4, <1>7, <1>b DEF Open, StepBy
  <1>10. Underways(job[w]) /\ AnsweredWhole(n)
    BY <1>1 DEF UploadInv
  <1>11. AnsweredWhole(n)'
    BY <1>10 DEF Open, AnsweredWhole, Analysed, FilesOf
  <1>12. Underways(job[w])'
    BY <1>1, <1>2, <1>4, <1>10 DEF Open, Underways, Analysed, FilesOf, Writing
  <1>13. ASSUME n \notin mixed
         PROVE  Undisturbed(job[w])'
    <2>1. Undisturbed(job[w])
      BY <1>1, <1>13 DEF UploadInv
    <2>2. /\ \A k, l \in 1 .. Len(FilesOf(n)) : k # l => PathOf(n, k) # PathOf(n, l)
          /\ \A k \in 1 .. Len(FilesOf(n)) : k < i => OwnBytes(n, k)
      BY <2>1 DEF Undisturbed
    <2>3. ASSUME NEW k \in 1 .. Len(FilesOf(n)), k < i
          PROVE  disk'[PathOf(n, k)] = <<n, k>>
      <3>1. PathOf(n, k) # PathOf(n, i)
        BY <2>2, <2>3
      <3>2. PathOf(n, k) \in Paths
        BY <1>1, FilesOK, AtHand DEF PathOf, FileType
      <3> QED BY <1>7, <2>2, <2>3, <3>1, <3>2 DEF OwnBytes
    <2>4. sent' = sent
      BY DEF Open
    <2>5. FilesOf(n)' = FilesOf(n) /\ \A k : PathOf(n, k)' = PathOf(n, k)
      BY <2>4 DEF FilesOf, PathOf
    <2> QED BY <1>2, <1>4, <1>7, <2>2, <2>3, <2>5 DEF Undisturbed, OwnBytes, Writing
  <1> QED BY <1>1, <1>2, <1>4, <1>8, <1>9, <1>11, <1>12, <1>13, StepKeeps DEF Open, Active

LEMMA ReadTagsStep ==
    ASSUME UploadInv, NEW w \in Workers, ReadTags(w)
    PROVE  UploadInv'
  <1>1. Active(w) /\ job[w].step = "tags" /\ job[w] \in JobType
    BY AtHand DEF ReadTags, Is, Active
  <1> DEFINE b == disk[Now(w).path]
             j == [job[w] EXCEPT !.step = "nlp", !.tags = b]
  <1>2. b \in Bytes
    BY <1>1, AtHand, UploadFields DEF UploadInv
  <1>3. /\ j \in JobType /\ j.step = "nlp" /\ j.request = job[w].request /\ j.file = job[w].file
        /\ j.tags = b
    BY <1>1, <1>2 DEF JobType, Steps
  <1>4. job' = [job EXCEPT ![w] = j]
    BY DEF ReadTags
  <1> HIDE DEF b, j
  <1>5. /\ job' \in [Workers -> JobType] /\ job'[w] = j /\ \A v \in Workers \ {w} : job'[v] = job[v]
        /\ \A u, v \in Workers : u # v /\ ~Is(u, "idle")' => job'[u].request # job'[v].request
    BY <1>1, <1>3, <1>4, JobSet
  <1>6. UploadTypeOK'
    BY <1>5, TypeAfter, UploadFields DEF ReadTags, UploadInv, UploadTypeOK
  <1>7. StepBy(w)
    BY <1>5 DEF ReadTags, StepBy
  <1> PICK n \in 1 .. Len(sent) : n = job[w].request
    BY <1>1, AtHand
  <1>8. Underways(job[w]) /\ AnsweredWhole(n)
    BY <1>1 DEF UploadInv
  <1>9. AnsweredWhole(n)'
    BY <1>8 DEF ReadTags, AnsweredWhole, Analysed, FilesOf
  <1>10. Underways(job[w])'
    BY <1>1, <1>3, <1>5, <1>8 DEF ReadTags, Underways, Analysed, FilesOf, Writing
  <1>11. ASSUME n \notin mixed
         PROVE  Undisturbed(job[w])'
    <2>1. Undisturbed(job[w])
      BY <1>1, <1>11 DEF UploadInv
    <2>2. b = <<job[w].request, job[w].file>>
      BY <1>1, <1>8, <2>1, AtHand DEF Undisturbed, Underways, OwnBytes, Writing, b
    <2>3. FilesOf(n)' = FilesOf(n) /\ (\A k : PathOf(n, k)' = PathOf(n, k)) /\ disk' = disk
      BY DEF ReadTags, FilesOf, PathOf
    <2>4. /\ \A i, k \in 1 .. Len(FilesOf(n)) : i # k => PathOf(n, i) # PathOf(n, k)
          /\ \A i \in 1 .. Len(FilesOf(n)) : OwnBytes(n, i)
      BY <1>1, <1>3, <2>1 DEF Undisturbed, Writing
    <2> QED BY <1>1, <1>3, <1>5, <2>2, <2>3, <2>4 DEF Undisturbed, OwnBytes, Writing
  <1> QED BY <1>1, <1>3, <1>5, <1>6, <1>7, <1>9, <1>10, <1>11, StepKeeps DEF ReadTags, Active

LEMMA ReadNlpStep ==
    ASSUME UploadInv, NEW w \in Workers, ReadNlp(w)
    PROVE  UploadInv'
  <1>1. Active(w) /\ job[w].step = "nlp" /\ job[w] \in JobType
    BY AtHand DEF ReadNlp, Is, Active
  <1> DEFINE b == disk[Now(w).path]
             j == [job[w] EXCEPT !.step = "digest", !.nlp = b]
  <1>2. b \in Bytes
    BY <1>1, AtHand, UploadFields DEF UploadInv
  <1>3. /\ j \in JobType /\ j.step = "digest" /\ j.request = job[w].request /\ j.file = job[w].file
        /\ j.nlp = b /\ j.tags = job[w].tags
    BY <1>1, <1>2 DEF JobType, Steps
  <1>4. job' = [job EXCEPT ![w] = j]
    BY DEF ReadNlp
  <1> HIDE DEF b, j
  <1>5. /\ job' \in [Workers -> JobType] /\ job'[w] = j /\ \A v \in Workers \ {w} : job'[v] = job[v]
        /\ \A u, v \in Workers : u # v /\ ~Is(u, "idle")' => job'[u].request # job'[v].request
    BY <1>1, <1>3, <1>4, JobSet
  <1>6. UploadTypeOK'
    BY <1>5, TypeAfter, UploadFields DEF ReadNlp, UploadInv, UploadTypeOK
  <1>7. StepBy(w)
    BY <1>5 DEF ReadNlp, StepBy
  <1> PICK n \in 1 .. Len(sent) : n = job[w].request
    BY <1>1, AtHand
  <1>8. Underways(job[w]) /\ AnsweredWhole(n)
    BY <1>1 DEF UploadInv
  <1>9. AnsweredWhole(n)'
    BY <1>8 DEF ReadNlp, AnsweredWhole, Analysed, FilesOf
  <1>10. Underways(job[w])'
    BY <1>1, <1>3, <1>5, <1>8 DEF ReadNlp, Underways, Analysed, FilesOf, Writing
  <1>11. ASSUME n \notin mixed
         PROVE  Undisturbed(job[w])'
    <2>1. Undisturbed(job[w])
      BY <1>1, <1>11 DEF UploadInv
    <2>2. b = <<job[w].request, job[w].file>>
      BY <1>1, <1>8, <2>1, AtHand DEF Undisturbed, Underways, OwnBytes, Writing, b
    <2>3. FilesOf(n)' = FilesOf(n) /\ (\A k : PathOf(n, k)' = PathOf(n, k)) /\ disk' = disk
      BY DEF ReadNlp, FilesOf, PathOf
    <2>4. /\ \A i, k \in 1 .. Len(FilesOf(n)) : i # k => PathOf(n, i) # PathOf(n, k)
          /\ \A i \in 1 .. Len(FilesOf(n)) : OwnBytes(n, i)
          /\ j.tags = <<n, job[w].file>>
      BY <1>1, <1>3, <2>1 DEF Undisturbed, Writing
    <2> QED BY <1>1, <1>3, <1>5, <2>2, <2>3, <2>4 DEF Undisturbed, OwnBytes, Writing
  <1> QED BY <1>1, <1>3, <1>5, <1>6, <1>7, <1>9, <1>10, <1>11, StepKeeps DEF ReadNlp, Active

LEMMA ReadDigestStep ==
    ASSUME UploadInv, NEW w \in Workers, ReadDigest(w)
    PROVE  UploadInv'
  <1>1. Active(w) /\ job[w].step = "digest" /\ job[w] \in JobType
    BY AtHand DEF ReadDigest, Is, Active
  <1> DEFINE b == disk[Now(w).path]
             j == [job[w] EXCEPT !.step = "text", !.digest = b]
  <1>2. b \in Bytes
    BY <1>1, AtHand, UploadFields DEF UploadInv
  <1>3. /\ j \in JobType /\ j.step = "text" /\ j.request = job[w].request /\ j.file = job[w].file
        /\ j.digest = b /\ j.tags = job[w].tags /\ j.nlp = job[w].nlp
    BY <1>1, <1>2 DEF JobType, Steps
  <1>4. job' = [job EXCEPT ![w] = j]
    BY DEF ReadDigest
  <1> HIDE DEF b, j
  <1>5. /\ job' \in [Workers -> JobType] /\ job'[w] = j /\ \A v \in Workers \ {w} : job'[v] = job[v]
        /\ \A u, v \in Workers : u # v /\ ~Is(u, "idle")' => job'[u].request # job'[v].request
    BY <1>1, <1>3, <1>4, JobSet
  <1>6. UploadTypeOK'
    BY <1>5, TypeAfter, UploadFields DEF ReadDigest, UploadInv, UploadTypeOK
  <1>7. StepBy(w)
    BY <1>5 DEF ReadDigest, StepBy
  <1> PICK n \in 1 .. Len(sent) : n = job[w].request
    BY <1>1, AtHand
  <1>8. Underways(job[w]) /\ AnsweredWhole(n)
    BY <1>1 DEF UploadInv
  <1>9. AnsweredWhole(n)'
    BY <1>8 DEF ReadDigest, AnsweredWhole, Analysed, FilesOf
  <1>10. Underways(job[w])'
    BY <1>1, <1>3, <1>5, <1>8 DEF ReadDigest, Underways, Analysed, FilesOf, Writing
  <1>11. ASSUME n \notin mixed
         PROVE  Undisturbed(job[w])'
    <2>1. Undisturbed(job[w])
      BY <1>1, <1>11 DEF UploadInv
    <2>2. b = <<job[w].request, job[w].file>>
      BY <1>1, <1>8, <2>1, AtHand DEF Undisturbed, Underways, OwnBytes, Writing, b
    <2>3. FilesOf(n)' = FilesOf(n) /\ (\A k : PathOf(n, k)' = PathOf(n, k)) /\ disk' = disk
      BY DEF ReadDigest, FilesOf, PathOf
    <2>4. /\ \A i, k \in 1 .. Len(FilesOf(n)) : i # k => PathOf(n, i) # PathOf(n, k)
          /\ \A i \in 1 .. Len(FilesOf(n)) : OwnBytes(n, i)
          /\ j.tags = <<n, job[w].file>> /\ j.nlp = <<n, job[w].file>>
      BY <1>1, <1>3, <2>1 DEF Undisturbed, Writing
    <2> QED BY <1>1, <1>3, <1>5, <2>2, <2>3, <2>4 DEF Undisturbed, OwnBytes, Writing
  <1> QED BY <1>1, <1>3, <1>5, <1>6, <1>7, <1>9, <1>10, <1>11, StepKeeps DEF ReadDigest, Active

LEMMA WriteStep ==
    ASSUME UploadInv, NEW w \in Workers, Write(w)
    PROVE  UploadInv'
  <1>1. Active(w) /\ job[w].step = "write" /\ job[w] \in JobType
    BY AtHand DEF Write, Is, Active
  <1>a. /\ job[w].request \in 1 .. Len(sent) /\ job[w].file \in 1 .. Len(FilesOf(job[w].request))
        /\ Now(w).path = PathOf(job[w].request, job[w].file) /\ Now(w).path \in Paths
        /\ <<job[w].request, job[w].file>> \in Bytes
        /\ Len(FilesOf(job[w].request)) \in 1 .. MaxFiles
    BY <1>1, AtHand
  <1> PICK n \in 1 .. Len(sent) : n = job[w].request
    BY <1>a
  <1> PICK i \in 1 .. Len(FilesOf(n)) : i = job[w].file
    BY <1>a
  <1>b. Now(w).path = PathOf(n, i) /\ Now(w).path \in Paths /\ <<n, i>> \in Bytes
    BY <1>a
  <1>c. Len(FilesOf(n)) \in 1 .. MaxFiles /\ MaxFiles \in Nat
    BY <1>a, UploadBounds
  <1> DEFINE more == i < Len(FilesOf(n))
             j == IF job[w].file < Len(FilesOf(job[w].request))
                  THEN [job[w] EXCEPT !.step = "open", !.file = job[w].file + 1]
                  ELSE [job[w] EXCEPT !.step = "tags", !.file = 1]
  <1>2. /\ j \in JobType /\ j.request = n
        /\ more => j.step = "open" /\ j.file = i + 1
        /\ ~more => j.step = "tags" /\ j.file = 1
    <2>1. more => i + 1 \in 0 .. MaxFiles
      BY <1>c
    <2>2. 1 \in 0 .. MaxFiles
      BY <1>c
    <2> QED BY <1>1, <2>1, <2>2 DEF JobType, Steps
  <1>3. job' = [job EXCEPT ![w] = j]
    <2>1. CASE job[w].file < Len(FilesOf(job[w].request))
      BY <2>1 DEF Write
    <2>2. CASE ~(job[w].file < Len(FilesOf(job[w].request)))
      BY <2>2 DEF Write
    <2> QED BY <2>1, <2>2
  <1> HIDE DEF j
  <1>4. /\ job' \in [Workers -> JobType] /\ job'[w] = j /\ \A v \in Workers \ {w} : job'[v] = job[v]
        /\ \A u, v \in Workers : u # v /\ ~Is(u, "idle")' => job'[u].request # job'[v].request
    BY <1>1, <1>2, <1>3, JobSet
  <1>5. PICK b \in {<<n, i>>} \cup (IF disk[PathOf(n, i)] = Empty THEN {} ELSE {Torn}) :
             disk' = [disk EXCEPT ![PathOf(n, i)] = b]
    BY <1>b DEF Write
  <1>6. disk \in [Paths -> Bytes] /\ Torn \in Bytes
    BY UploadFields, BytesOK DEF UploadInv, NoBytes
  <1>7. /\ disk' \in [Paths -> Bytes] /\ disk'[PathOf(n, i)] = b
        /\ \A p \in Paths : p # PathOf(n, i) => disk'[p] = disk[p]
    BY <1>b, <1>5, <1>6
  <1>8. UploadTypeOK'
    BY <1>4, <1>7, TypeAfter, UploadFields DEF Write, UploadInv, UploadTypeOK
  <1>9. StepBy(w)
    BY <1>4, <1>7, <1>b DEF Write, StepBy
  <1>10. Underways(job[w]) /\ AnsweredWhole(n)
    BY <1>1 DEF UploadInv
  <1>11. AnsweredWhole(n)'
    BY <1>10 DEF Write, AnsweredWhole, Analysed, FilesOf
  <1>12. FilesOf(n)' = FilesOf(n) /\ (\A k : PathOf(n, k)' = PathOf(n, k)) /\ Analysed(n)' = Analysed(n)
         /\ sent' = sent
    BY DEF Write, FilesOf, PathOf, Analysed
  <1>13. Underways(job[w])'
    <2>1. Analysed(n) = {} /\ sent[n].result = "underway"
      BY <1>1, <1>10 DEF Underways, Writing
    <2>2. j.file \in 1 .. Len(FilesOf(n))
      BY <1>2, <1>c
    <2>3. {} = IF j.step \in Writing THEN {} ELSE 1 .. j.file - 1
      <3>1. CASE more
        BY <1>2, <3>1 DEF Writing
      <3>2. CASE ~more
        <4>1. 1 .. 1 - 1 = {}
          OBVIOUS
        <4> QED BY <1>2, <3>2, <4>1 DEF Writing
      <3> QED BY <3>1, <3>2
    <2> QED BY <1>2, <1>4, <1>12, <2>1, <2>2, <2>3 DEF Underways
  <1>14. ASSUME n \notin mixed
         PROVE  Undisturbed(job[w])'
    <2>1. Undisturbed(job[w])
      BY <1>1, <1>14 DEF UploadInv
    <2>2. /\ \A k, l \in 1 .. Len(FilesOf(n)) : k # l => PathOf(n, k) # PathOf(n, l)
          /\ \A k \in 1 .. Len(FilesOf(n)) : k < i => OwnBytes(n, k)
          /\ disk[PathOf(n, i)] = Empty
      BY <1>1, <2>1 DEF Undisturbed
    <2>3. b = <<n, i>>
      BY <2>2
    <2>4. ASSUME NEW k \in 1 .. Len(FilesOf(n)), k <= i
          PROVE  disk'[PathOf(n, k)] = <<n, k>>
      <3>1. CASE k = i
        BY <1>7, <2>3, <3>1
      <3>2. CASE k # i
        <4>1. PathOf(n, k) # PathOf(n, i) /\ k < i
          BY <1>c, <2>2, <2>4, <3>2
        <4>2. PathOf(n, k) \in Paths
          BY <1>1, FilesOK, AtHand DEF PathOf, FileType
        <4> QED BY <1>7, <2>2, <4>1, <4>2 DEF OwnBytes
      <3> QED BY <3>1, <3>2
    <2>5. ASSUME NEW k \in 1 .. Len(FilesOf(n)), j.step \notin Writing \/ k < j.file
          PROVE  k <= i
      BY <1>2, <1>c, <2>5 DEF Writing
    <2>6. j.step \in {"open", "tags"}
      BY <1>2
    <2>7. \A k \in 1 .. Len(FilesOf(n)) :
             j.step \notin Writing \/ k < j.file => disk'[PathOf(n, k)] = <<n, k>>
      BY <2>4, <2>5
    <2> QED BY <1>2, <1>4, <1>12, <2>2, <2>6, <2>7 DEF Undisturbed, OwnBytes
  <1> QED BY <1>1, <1>2, <1>4, <1>8, <1>9, <1>11, <1>13, <1>14, StepKeeps DEF Write, Active

LEMMA PersistStep ==
    ASSUME UploadInv, NEW w \in Workers, Persist(w)
    PROVE  UploadInv'
  <1>1. Active(w) /\ job[w].step = "text" /\ job[w] \in JobType
    BY AtHand DEF Persist, Is, Active
  <1>a. /\ job[w].request \in 1 .. Len(sent) /\ job[w].file \in 1 .. Len(FilesOf(job[w].request))
        /\ Now(w).path = PathOf(job[w].request, job[w].file) /\ Now(w).path \in Paths
        /\ Len(FilesOf(job[w].request)) \in 1 .. MaxFiles
        /\ job[w].request \in 1 .. MaxRequests /\ job[w].file \in 1 .. MaxFiles
    BY <1>1, AtHand
  <1> PICK n \in 1 .. Len(sent) : n = job[w].request
    BY <1>a
  <1> PICK i \in 1 .. Len(FilesOf(n)) : i = job[w].file
    BY <1>a
  <1>b. Now(w).path = PathOf(n, i) /\ Now(w).path \in Paths
    BY <1>a
  <1>c. Len(FilesOf(n)) \in 1 .. MaxFiles /\ MaxFiles \in Nat /\ n \in 1 .. MaxRequests /\ i \in 1 .. MaxFiles
    BY <1>a, UploadBounds
  <1>d. disk \in [Paths -> Bytes]
    BY UploadFields DEF UploadInv
  <1> PICK d : d = DocumentOf(w)
    OBVIOUS
  <1>2. /\ d \in [request : 1 .. MaxRequests, file : 1 .. MaxFiles,
                  doc : Bytes, tags : Bytes, nlp : Bytes, chunks : Bytes]
        /\ d.request = n /\ d.file = i
        /\ d.doc = job[w].digest /\ d.tags = job[w].tags /\ d.nlp = job[w].nlp
        /\ d.chunks = disk[PathOf(n, i)]
    BY <1>1, <1>b, <1>c, <1>d DEF DocumentOf, JobType
  <1>3. documents' = documents \cup {d}
    BY DEF Persist
  <1>4. Underways(job[w]) /\ AnsweredWhole(n)
    BY <1>1 DEF UploadInv
  <1>5. Analysed(n) = 1 .. i - 1 /\ sent[n].result = "underway"
    BY <1>1, <1>4 DEF Underways, Writing
  <1>6. Analysed(n)' = 1 .. i
    <2>1. Analysed(n)' = Analysed(n) \cup {i}
      BY <1>2, <1>3 DEF Analysed
    <2>2. (1 .. i - 1) \cup {i} = 1 .. i
      OBVIOUS
    <2> QED BY <1>5, <2>1, <2>2
  <1>7. ASSUME n \notin mixed
        PROVE  OwnDocument(d) /\ Undisturbed(job[w])
    <2>1. Undisturbed(job[w])
      BY <1>1, <1>7 DEF UploadInv
    <2>2. disk[PathOf(n, i)] = <<n, i>>
      BY <1>1, <2>1 DEF Undisturbed, OwnBytes, Writing
    <2> QED BY <1>1, <1>2, <2>1, <2>2 DEF Undisturbed, OwnDocument
  <1>8. \A e \in documents' \ documents : e.request = n /\ (n \notin mixed => OwnDocument(e))
    BY <1>2, <1>3, <1>7
  <1>9. documents' \subseteq
           [request : 1 .. MaxRequests, file : 1 .. MaxFiles,
            doc : Bytes, tags : Bytes, nlp : Bytes, chunks : Bytes]
    BY <1>2, <1>3 DEF UploadInv, UploadTypeOK
  <1>10. CASE i < Len(FilesOf(n))
    <2> DEFINE j == [NoJob EXCEPT !.step = "tags", !.request = job[w].request, !.file = job[w].file + 1]
    <2>1. j \in JobType /\ j.request = n /\ j.step = "tags" /\ j.file = i + 1
      <3>1. i + 1 \in 0 .. MaxFiles /\ n \in 0 .. MaxRequests
        BY <1>c, <1>10
      <3> QED BY <3>1, JobTypes DEF JobType, Steps
    <2>2. job' = [job EXCEPT ![w] = j] /\ sent' = sent
      BY <1>10 DEF Persist
    <2> HIDE DEF j
    <2>3. /\ job' \in [Workers -> JobType] /\ job'[w] = j /\ \A v \in Workers \ {w} : job'[v] = job[v]
          /\ \A u, v \in Workers : u # v /\ ~Is(u, "idle")' => job'[u].request # job'[v].request
      BY <1>1, <2>1, <2>2, JobSet
    <2>4. UploadTypeOK'
      BY <1>9, <2>2, <2>3, TypeAfter, UploadFields DEF Persist, UploadInv, UploadTypeOK
    <2>5. StepBy(w)
      BY <1>3, <1>8, <2>2, <2>3 DEF Persist, StepBy
    <2>6. AnsweredWhole(n)'
      BY <1>5, <2>2 DEF AnsweredWhole
    <2>7. FilesOf(n)' = FilesOf(n) /\ (\A k : PathOf(n, k)' = PathOf(n, k)) /\ disk' = disk
      BY <2>2 DEF Persist, FilesOf, PathOf
    <2>8. Underways(job[w])'
      <3>1. i + 1 \in 1 .. Len(FilesOf(n)) /\ (i + 1) - 1 = i
        BY <1>c, <1>10
      <3> QED BY <1>5, <1>6, <2>1, <2>2, <2>3, <2>7, <3>1 DEF Underways, Writing
    <2>9. ASSUME n \notin mixed
          PROVE  Undisturbed(job[w])'
      <3>1. Undisturbed(job[w])
        BY <1>7, <2>9
      <3>2. /\ \A k, l \in 1 .. Len(FilesOf(n)) : k # l => PathOf(n, k) # PathOf(n, l)
            /\ \A k \in 1 .. Len(FilesOf(n)) : OwnBytes(n, k)
        BY <1>1, <3>1 DEF Undisturbed, Writing
      <3> QED BY <2>1, <2>3, <2>7, <3>2 DEF Undisturbed, OwnBytes
    <2> QED BY <1>1, <1>8, <2>1, <2>3, <2>4, <2>5, <2>6, <2>8, <2>9, StepKeeps DEF Active
  <1>11. CASE ~(i < Len(FilesOf(n)))
    <2>1. "accepted" \in Results /\ Answers(w, "accepted")
      BY <1>11 DEF Persist, Results
    <2>2. UploadTypeOK'
      BY <1>1, <1>9, <2>1, AnswerSet, TypeAfter, UploadFields DEF Persist, UploadInv, UploadTypeOK
    <2>3. StepBy(w)
      BY <1>1, <1>3, <1>8, <2>1, AnswerSet DEF Persist, StepBy
    <2>4. sent'[n].result = "accepted" /\ sent'[n].files = sent[n].files
      BY <1>1, <2>1, AnswerSet
    <2>5. i = Len(FilesOf(n))
      BY <1>c, <1>11
    <2>6. AnsweredWhole(n)'
      BY <1>6, <2>4, <2>5 DEF AnsweredWhole, FilesOf
    <2>7. ~Active(w)' /\ job'[w].request = 0
      BY <1>1, <2>1, AnswerSet
    <2> QED BY <1>1, <1>8, <2>2, <2>3, <2>6, <2>7, StepKeeps
  <1> QED BY <1>10, <1>11

LEMMA ReceiveStep ==
    ASSUME UploadInv, NEW w \in Workers, NEW files \in FilesType, Receive(w, files)
    PROVE  UploadInv'
  <1> PICK n : n = Len(sent) + 1
    OBVIOUS
  <1>1. UploadTypeOK /\ sent \in Seq(SentType) /\ Len(sent) \in Nat /\ Len(sent) < MaxRequests
        /\ DOMAIN sent = 1 .. Len(sent) /\ job \in [Workers -> JobType] /\ mixed \subseteq 1 .. Len(sent)
        /\ job[w].step = "idle"
    BY UploadFields DEF UploadInv, Receive, Is
  <1>2. n \in 1 .. MaxRequests /\ n \notin 1 .. Len(sent) /\ n \notin mixed
    BY <1>1, UploadBounds
  <1> DEFINE entry == [files |-> files, result |-> "underway"]
  <1>3. entry \in SentType /\ entry.files = files /\ entry.result = "underway"
    BY DEF SentType, Results
  <1>4. sent' = Append(sent, entry)
    BY DEF Receive
  <1> HIDE DEF entry
  <1>5. /\ sent' \in Seq(SentType) /\ Len(sent') = n /\ sent'[n] = entry
        /\ \A m \in 1 .. Len(sent) : sent'[m] = sent[m]
    BY <1>1, <1>3, <1>4
  <1> DEFINE j == Writes(n)
  <1>6. j \in JobType /\ j.step = "open" /\ j.request = n /\ j.file = 1
    <2>1. 1 \in 0 .. MaxFiles /\ n \in 0 .. MaxRequests
      BY <1>2, UploadBounds
    <2> QED BY <2>1, JobTypes DEF JobType, Steps, Writes
  <1>7. job' = [job EXCEPT ![w] = j]
    BY DEF Receive
  <1> HIDE DEF j
  <1>8. job' \in [Workers -> JobType] /\ job'[w] = j /\ \A v \in Workers \ {w} : job'[v] = job[v]
    BY <1>1, <1>6, <1>7
  <1> DEFINE rivals == {m \in Underway : PathsOf(FilesOf(m)) \cap PathsOf(files) # {}}
             twice == Cardinality(PathsOf(files)) < Len(files)
  <1>9. mixed' = mixed \cup rivals \cup (IF rivals # {} \/ twice THEN {n} ELSE {})
    BY DEF Receive
  <1>10. \A v \in Workers \ {w} : Active(v)' => Active(v) /\ job[v].request \in 1 .. Len(sent)
    BY <1>8, AtHand DEF Active
  <1>11. disk' = disk /\ documents' = documents /\ errors' = errors
    BY DEF Receive
  <1>12. Underway \subseteq 1 .. Len(sent)
    BY AtHand DEF Underway, Active, Is
  <1>16. rivals \subseteq 1 .. Len(sent)
    BY <1>12
  <1> HIDE DEF rivals, twice
  <1>13. mixed \subseteq mixed' /\ mixed' \subseteq 1 .. n /\ (rivals # {} \/ twice => n \in mixed')
    <2>1. 1 .. Len(sent) \subseteq 1 .. n /\ n \in 1 .. n
      BY <1>1
    <2> QED BY <1>1, <1>9, <1>16, <2>1
  <1>14. \A u, v \in Workers : u # v /\ ~Is(u, "idle")' => job'[u].request # job'[v].request
    <2> SUFFICES ASSUME NEW u \in Workers, NEW v \in Workers, u # v, job'[u].step # "idle"
                 PROVE  job'[u].request # job'[v].request
      BY DEF Is
    <2>1. \A x, y \in Workers : x # y /\ job[x].step # "idle" => job[x].request # job[y].request
      BY <1>1 DEF UploadTypeOK, Is
    <2>2. job[v].request \in 0 .. Len(sent)
      <3>1. Active(v) => job[v].request \in 1 .. Len(sent)
        BY AtHand
      <3>2. ~Active(v) => job[v].request = 0
        BY DEF UploadInv
      <3> QED BY <1>1, <3>1, <3>2
    <2> QED BY <1>1, <1>2, <1>6, <1>8, <1>10, <2>1, <2>2 DEF Active
  <1>15. UploadTypeOK'
    <2>1. mixed' \subseteq 1 .. Len(sent')
      BY <1>5, <1>13
    <2> QED BY <1>1, <1>5, <1>8, <1>11, <1>14, <2>1 DEF UploadTypeOK, JobType, SentType, FilesType
  <1>17. Len(sent') <= MaxRequests
    BY <1>2, <1>5
  <1>18. \A m \in 1 .. Len(sent) :
            /\ FilesOf(m)' = FilesOf(m) /\ (\A k : PathOf(m, k)' = PathOf(m, k))
            /\ Analysed(m)' = Analysed(m)
    BY <1>5, <1>11 DEF FilesOf, PathOf, Analysed
  <1>19. /\ FilesOf(n)' = files /\ \A k : PathOf(n, k)' = files[k].path
         /\ Analysed(n)' = {}
    <2>1. \A d \in documents : d.request # n
      <3>1. \A d \in documents : d.request <= Len(sent) /\ d.request \in Nat
        BY <1>1 DEF UploadInv, UploadTypeOK
      <3> QED BY <1>1, <3>1
    <2> QED BY <1>3, <1>5, <1>11, <2>1 DEF FilesOf, PathOf, Analysed
  <1>20. Len(files) \in 1 .. MaxFiles /\ MaxFiles \in Nat
    BY FilesOK, UploadBounds
  <1>21. ASSUME NEW v \in Workers
         PROVE  IF Active(v)' THEN Underways(job[v])' ELSE job'[v].request = 0
    <2>1. CASE v = w
      <3>1. 1 \in 1 .. Len(files) /\ n \in 1 .. Len(sent')
        BY <1>2, <1>5, <1>20
      <3> QED BY <1>3, <1>5, <1>6, <1>8, <1>19, <2>1, <3>1 DEF Underways, Active, Writing
    <2>2. CASE v # w
      <3> PICK k : k = job[v]
        OBVIOUS
      <3>1. job'[v] = k /\ IF Active(v) THEN Underways(k) ELSE k.request = 0
        BY <1>8, <2>2 DEF UploadInv
      <3>2. CASE Active(v)
        <4>1. Underways(k) /\ k.request \in 1 .. Len(sent)
          BY <3>1, <3>2 DEF Underways
        <4>2. k.request \in 1 .. Len(sent') /\ sent'[k.request] = sent[k.request]
          BY <1>1, <1>5, <4>1
        <4> QED BY <1>18, <3>1, <3>2, <4>1, <4>2 DEF Underways, Active
      <3>3. CASE ~Active(v)
        BY <3>1, <3>3 DEF Active
      <3> QED BY <3>2, <3>3
    <2> QED BY <2>1, <2>2
  <1>22. ASSUME NEW m \in Underway, m \notin rivals
         PROVE  Apart(m, n)' /\ Apart(n, m)'
    <2>1. m \in 1 .. Len(sent) /\ PathsOf(FilesOf(m)) \cap PathsOf(files) = {}
      BY <1>12, <1>22 DEF rivals
    <2>2. \A i \in 1 .. Len(FilesOf(m)), k \in 1 .. Len(files) : PathOf(m, i) # files[k].path
      BY <2>1 DEF PathsOf, PathOf
    <2> QED BY <1>18, <1>19, <2>1, <2>2 DEF Apart
  <1>23. ASSUME NEW u \in Workers, NEW v \in Workers, u # v,
                Active(u)', Active(v)', job'[v].request \notin mixed'
         PROVE  Apart(job[u].request, job[v].request)'
    <2> PICK k, m : k = job'[u].request /\ m = job'[v].request
      OBVIOUS
    <2>1. u # w => k \in Underway /\ k = job[u].request /\ Active(u)
      BY <1>8, <1>10, <1>23 DEF Underway, Active, Is
    <2>2. v # w => m \in Underway /\ m = job[v].request /\ Active(v)
      BY <1>8, <1>10, <1>23 DEF Underway, Active, Is
    <2>3. m \notin rivals
      BY <1>9, <1>23
    <2>4. Apart(k, m)'
      <3>1. CASE u = w
        BY <1>6, <1>8, <1>22, <1>23, <2>2, <2>3, <3>1
      <3>2. CASE v = w
        <4>1. m = n
          BY <1>6, <1>8, <3>2
        <4>2. rivals = {}
          BY <1>13, <1>23, <4>1
        <4> QED BY <1>22, <1>23, <2>1, <3>2, <4>1, <4>2
      <3>3. CASE u # w /\ v # w
        <4>1. m \notin mixed
          BY <1>13, <1>23
        <4>2. Apart(k, m)
          BY <1>23, <2>1, <2>2, <3>3, <4>1 DEF UploadInv
        <4>3. k \in 1 .. Len(sent) /\ m \in 1 .. Len(sent)
          BY <1>12, <2>1, <2>2, <3>3
        <4> QED BY <1>18, <4>2, <4>3 DEF Apart
      <3> QED BY <3>1, <3>2, <3>3
    <2> QED BY <2>4 DEF Apart, PathOf, FilesOf
  <1>24. ASSUME NEW v \in Workers, Active(v)', job'[v].request \notin mixed'
         PROVE  Undisturbed(job[v])'
    <2>1. CASE v = w
      <3>1. ~twice
        BY <1>6, <1>8, <1>13, <1>24, <2>1
      <3>2. \A i, k \in 1 .. Len(files) : i # k => files[i].path # files[k].path
        BY <3>1, DistinctPaths DEF twice
      <3>3. ~\E i \in 1 .. Len(files) : i < 1
        BY <1>20
      <3> QED BY <1>6, <1>8, <1>19, <2>1, <3>2, <3>3 DEF Undisturbed, Writing
    <2>2. CASE v # w
      <3> PICK k : k = job[v]
        OBVIOUS
      <3>1. job'[v] = k /\ Active(v)
        BY <1>8, <1>10, <1>24, <2>2
      <3>2. k.request \in 1 .. Len(sent)
        BY <3>1, AtHand
      <3>3. Undisturbed(k)
        BY <1>13, <1>24, <3>1 DEF UploadInv
      <3>4. Undisturbed(k)'
        BY <1>11, <1>18, <3>2, <3>3, AtHand, <3>1 DEF Undisturbed, OwnBytes
      <3> QED BY <3>1, <3>4 DEF Undisturbed, OwnBytes, PathOf, FilesOf
    <2> QED BY <2>1, <2>2
  <1>25. \A d \in documents' : d.request <= Len(sent') /\ (d.request \notin mixed' => OwnDocument(d))
    <2>1. \A d \in documents : d.request <= Len(sent) /\ d.request \in Nat
      BY <1>1 DEF UploadInv, UploadTypeOK
    <2> QED BY <1>1, <1>5, <1>11, <1>13, <2>1 DEF UploadInv
  <1>26. ASSUME NEW m \in 1 .. Len(sent')
         PROVE  AnsweredWhole(m)'
    <2>1. CASE m = n
      BY <1>3, <1>5, <2>1 DEF AnsweredWhole
    <2>2. CASE m # n
      <3>1. m \in 1 .. Len(sent)
        BY <1>1, <1>5, <2>2
      <3>2. AnsweredWhole(m)
        BY <3>1 DEF UploadInv
      <3> QED BY <1>5, <1>18, <3>1, <3>2 DEF AnsweredWhole
    <2> QED BY <2>1, <2>2
  <1> QED BY <1>15, <1>17, <1>21, <1>23, <1>24, <1>25, <1>26 DEF UploadInv

LEMMA UploadInitInv ==
    ASSUME UploadInit
    PROVE  UploadInv
  <1>1. Missing \in Bytes
    BY BytesOK DEF NoBytes
  <1>2. NoJob.request = 0
    BY DEF NoJob
  <1>3. UploadTypeOK
    BY <1>1, JobTypes, UploadBounds DEF UploadInit, UploadTypeOK, JobType, Is
  <1> QED BY <1>2, <1>3, JobTypes, UploadBounds DEF UploadInit, UploadInv, Active

LEMMA UploadNextInv ==
    ASSUME UploadInv, [UploadNext]_uploadVars
    PROVE  UploadInv'
  <1>1. ASSUME NEW w \in Workers, NEW files \in StaffRequests \cup ClientRequests, Receive(w, files)
        PROVE  UploadInv'
    BY <1>1, ReceiveStep DEF FilesType
  <1>2. CASE UNCHANGED uploadVars
    <2>1. /\ disk' = disk /\ job' = job /\ sent' = sent
          /\ documents' = documents /\ mixed' = mixed /\ errors' = errors
      BY <1>2 DEF uploadVars
    <2>2. UploadTypeOK'
      BY <2>1 DEF UploadInv, UploadTypeOK, Is
    <2>3. \A w \in Workers : IF Active(w)' THEN Underways(job[w])' ELSE job'[w].request = 0
      BY <2>1 DEF UploadInv, Active, Underways, Analysed, FilesOf
    <2>a. \A n, k : PathOf(n, k)' = PathOf(n, k) /\ FilesOf(n)' = FilesOf(n)
      BY <2>1 DEF PathOf, FilesOf
    <2>4. ASSUME NEW w \in Workers, Active(w)', job'[w].request \notin mixed'
          PROVE  Undisturbed(job[w])'
      <3> PICK k : k = job[w]
        OBVIOUS
      <3>1. Undisturbed(k) /\ job'[w] = k
        BY <2>1, <2>4 DEF UploadInv, Active
      <3>2. Undisturbed(k)'
        BY <2>1, <2>a, <3>1 DEF Undisturbed, OwnBytes
      <3> QED BY <3>1, <3>2 DEF Undisturbed, OwnBytes, PathOf, FilesOf
    <2>5. ASSUME NEW v \in Workers, NEW w \in Workers, v # w, Active(v)', Active(w)',
                 job'[w].request \notin mixed'
          PROVE  Apart(job[v].request, job[w].request)'
      <3> PICK k, m : k = job[v].request /\ m = job[w].request
        OBVIOUS
      <3>1. Apart(k, m)
        BY <2>1, <2>5 DEF UploadInv, Active
      <3>2. Apart(k, m)'
        BY <2>a, <3>1 DEF Apart
      <3> QED BY <2>1, <3>2 DEF Apart, PathOf, FilesOf
    <2>6. \A n \in 1 .. Len(sent') : AnsweredWhole(n)'
      BY <2>1 DEF UploadInv, AnsweredWhole, Analysed, FilesOf
    <2> QED BY <2>1, <2>2, <2>3, <2>4, <2>5, <2>6 DEF UploadInv
  <1> QED BY <1>1, <1>2, RefuseStep, OpenStep, WriteStep, ReadTagsStep, ReadNlpStep, ReadDigestStep,
             PersistStep, FailStep DEF UploadNext

(* What requests know of the files under uploads/ holds in every state,    *)
(* whoever else writes and whatever fails (api.py:496-513, 867-909).       *)
THEOREM UploadInvariance == UploadSpec => []UploadInv
  <1>1. UploadInit => UploadInv
    BY UploadInitInv
  <1>2. UploadInv /\ [UploadNext]_uploadVars => UploadInv'
    BY UploadNextInv
  <1> QED BY <1>1, <1>2, PTL DEF UploadSpec

(* Files, requests and documents keep their types, and no two workers are  *)
(* at one request (api.py:496-513, 867-909).                               *)
THEOREM UploadTypeCorrect == UploadSpec => []UploadTypeOK
  <1>1. UploadInv => UploadTypeOK
    BY DEF UploadInv
  <1> QED BY <1>1, UploadInvariance, PTL

(* Whatever requests overlap, fail or are refused, a document that no      *)
(* other request's file disturbed is of one upload throughout, and an      *)
(* accepted request has all of its own (document_analysis.py:60-112,       *)
(* ingestion.py:62-122).                                                   *)
THEOREM AnalysedTogether == UploadSpec => []AnalysedAsOne
  <1>1. UploadInv => AnalysedAsOne
    BY DEF UploadInv, AnalysedAsOne, OwnDocument, AnsweredWhole, Analysed
  <1> QED BY <1>1, UploadInvariance, PTL

-----------------------------------------------------------------------------
(* KeyCache. No token is judged by keys a lifetime old.                    *)

(* Seen keys agree with the provider as it was at or after t.              *)
SeenAfter(keys, t) ==
    \A k \in SigningKeys :
        /\ k \in keys => k \in published \/ gone[k] >= t
        /\ k \notin keys => k \notin published \/ since[k] >= t

CacheOK ==
    /\ cached.fetchedAt <= now
    /\ cached.fetchedAt # Never => SeenAfter(cached.keys, cached.fetchedAt)

CheckOK(v) ==
    /\ check[v].begun <= now
    /\ check[v].step = "keep" => SeenAfter(check[v].keys, check[v].begun)
    /\ check[v].step = "match" => SeenAfter(check[v].keys, check[v].begun - Lifetime + 1)

(* The invariant of the induction: what is held is fresh enough, and what  *)
(* was decided was right.                                                  *)
KeyInvariant ==
    /\ KeyTypeOK
    /\ CacheOK
    /\ \A v \in Validators : CheckOK(v)
    /\ KeysAreFresh

-----------------------------------------------------------------------------

LEMMA NeverInteger == Never \in Int /\ Never < 0 /\ Lifetime \in Int /\ Lifetime > 0 /\ MaxTime \in Int
  BY CacheBounds DEF Never

LEMMA NoCheckType ==
    NoCheck \in [step : {"idle"}, key : SigningKeys, begun : {0}, keys : {{}}]
  <1>1. (CHOOSE k \in SigningKeys : TRUE) \in SigningKeys
    BY SomeKey
  <1> QED BY <1>1 DEF NoCheck

LEMMA KeyInitInv == KeyInit => KeyInvariant
  <1> SUFFICES ASSUME KeyInit PROVE KeyInvariant
    OBVIOUS
  <1> USE DEF KeyInit
  <1>n. Never \in Int /\ Never < 0 /\ 0 \in 0 .. MaxTime /\ 0 \in 0 .. MaxRotations
    BY CacheBounds DEF Never
  <1>c. \A v \in Validators :
          /\ check[v] = NoCheck /\ NoCheck.step = "idle" /\ NoCheck.begun = 0
          /\ NoCheck.key \in SigningKeys /\ NoCheck.keys = {}
    BY NoCheckType
  <1>1. KeyTypeOK
    BY <1>n, NoCheckType DEF KeyTypeOK, NoKeys, Times
  <1>2. CacheOK
    BY <1>n DEF CacheOK, NoKeys
  <1>3. \A v \in Validators : CheckOK(v)
    BY <1>c DEF CheckOK
  <1>4. KeysAreFresh
    BY <1>c DEF KeysAreFresh
  <1> QED BY <1>1, <1>2, <1>3, <1>4 DEF KeyInvariant

(* As time goes by, keys seen after t stay so: a rotation is stamped now.  *)
LEMMA RotationKeepsSeen ==
    ASSUME KeyTypeOK, NEW k \in SigningKeys, Rotate(k),
           NEW keys, NEW t \in Int, t <= now, SeenAfter(keys, t)
    PROVE  SeenAfter(keys, t)'
  <1>1. now \in Int /\ since \in [SigningKeys -> Times] /\ gone \in [SigningKeys -> Times]
    BY DEF KeyTypeOK
  <1>2. CASE k \notin published
    <2>1. published' = published \cup {k} /\ since' = [since EXCEPT ![k] = now] /\ gone' = gone
      BY <1>2 DEF Rotate
    <2> QED BY <1>1, <2>1 DEF SeenAfter
  <1>3. CASE k \in published
    <2>1. published' = published \ {k} /\ gone' = [gone EXCEPT ![k] = now] /\ since' = since
      BY <1>3 DEF Rotate
    <2> QED BY <1>1, <2>1 DEF SeenAfter
  <1> QED BY <1>2, <1>3

LEMMA SeenEarlier ==
    ASSUME KeyTypeOK, NEW keys, NEW t \in Int, NEW u \in Int, u <= t, SeenAfter(keys, t)
    PROVE  SeenAfter(keys, u)
  <1>1. \A k \in SigningKeys : since[k] \in Int /\ gone[k] \in Int
    BY NeverInteger DEF KeyTypeOK, Times
  <1> QED BY <1>1 DEF SeenAfter

-----------------------------------------------------------------------------
(* The steps. *)

LEMMA KeyTypeStep == KeyTypeOK /\ [KeyNext]_keyVars => KeyTypeOK'
  <1> SUFFICES ASSUME KeyTypeOK, [KeyNext]_keyVars PROVE KeyTypeOK'
    OBVIOUS
  <1> USE DEF KeyTypeOK
  <1>n. 0 \in 0 .. MaxTime /\ MaxTime \in Nat /\ MaxRotations \in Nat
    BY CacheBounds
  <1>1. CASE Tick
    BY <1>1, <1>n DEF Tick
  <1>2. ASSUME NEW k \in SigningKeys, Rotate(k) PROVE KeyTypeOK'
    <2>1. now \in Times
      BY DEF Times
    <2> QED BY <1>2, <2>1, <1>n DEF Rotate
  <1>3. ASSUME NEW v \in Validators, NEW key \in SigningKeys, Validate(v, key) PROVE KeyTypeOK'
    BY <1>3 DEF Validate
  <1>4. ASSUME NEW v \in Validators, Fetch(v) PROVE KeyTypeOK'
    BY <1>4 DEF Fetch
  <1>5. ASSUME NEW v \in Validators, FetchFails(v) PROVE KeyTypeOK'
    BY <1>5, NoCheckType, <1>n DEF FetchFails
  <1>6. ASSUME NEW v \in Validators, Keep(v) PROVE KeyTypeOK'
    BY <1>6 DEF Keep, Stamp, Times
  <1>7. ASSUME NEW v \in Validators, Match(v) PROVE KeyTypeOK'
    BY <1>7 DEF Match
  <1>8. CASE UNCHANGED keyVars
    BY <1>8 DEF keyVars
  <1> QED BY <1>1, <1>2, <1>3, <1>4, <1>5, <1>6, <1>7, <1>8 DEF KeyNext

(* A step of one thread leaves the others' checks, the provider and time.  *)
LEMMA CheckChanges ==
    ASSUME KeyInvariant, NEW v \in Validators, NEW record,
           check' = [check EXCEPT ![v] = record],
           UNCHANGED <<now, published, since, gone>>
    PROVE  \A u \in Validators \ {v} : CheckOK(u)' /\ check'[u] = check[u]
  <1>1. \A u \in Validators \ {v} : check'[u] = check[u]
    BY DEF KeyInvariant, KeyTypeOK
  <1>2. ASSUME NEW u \in Validators \ {v} PROVE CheckOK(u)'
    <2>1. CheckOK(u)
      BY DEF KeyInvariant
    <2> QED BY <1>1, <2>1 DEF CheckOK, SeenAfter
  <1> QED BY <1>1, <1>2

(* The part of KeysAreFresh about one thread.                              *)
FreshVerdict(v) ==
    /\ check[v].step = "accepted" =>
          check[v].key \in published \/ gone[check[v].key] > check[v].begun - Lifetime
    /\ check[v].step = "refused" =>
          check[v].key \notin published \/ since[check[v].key] > check[v].begun - Lifetime

LEMMA FreshByThread == KeysAreFresh <=> \A v \in Validators : FreshVerdict(v)
  BY DEF KeysAreFresh, FreshVerdict

(* A step of one thread preserves the invariant if it leaves that thread   *)
(* and the cache in order.                                                 *)
LEMMA CheckStep ==
    ASSUME KeyInvariant, KeyTypeOK', NEW v \in Validators, NEW record,
           check' = [check EXCEPT ![v] = record],
           UNCHANGED <<now, published, since, gone>>,
           CheckOK(v)', FreshVerdict(v)', CacheOK'
    PROVE  KeyInvariant'
  <1>1. \A u \in Validators \ {v} : CheckOK(u)' /\ check'[u] = check[u]
    BY CheckChanges
  <1>2. \A u \in Validators : CheckOK(u)'
    BY <1>1
  <1>3. ASSUME NEW u \in Validators \ {v} PROVE FreshVerdict(u)'
    <2>1. FreshVerdict(u)
      BY FreshByThread DEF KeyInvariant
    <2> QED BY <1>1, <2>1 DEF FreshVerdict
  <1>4. \A u \in Validators : FreshVerdict(u)'
    BY <1>3
  <1>5. KeysAreFresh'
    BY <1>4 DEF KeysAreFresh, FreshVerdict
  <1> QED BY <1>2, <1>5 DEF KeyInvariant

LEMMA TickStep == KeyInvariant /\ KeyTypeOK' /\ Tick => KeyInvariant'
  <1> SUFFICES ASSUME KeyInvariant, KeyTypeOK', Tick PROVE KeyInvariant'
    OBVIOUS
  <1>1. now \in Int /\ now' = now + 1 /\ cached.fetchedAt \in Int
        /\ \A v \in Validators : check[v].begun \in Int
    BY NeverInteger DEF KeyInvariant, KeyTypeOK, Times, Tick
  <1>2. UNCHANGED <<published, cached, check, since, gone>>
    BY DEF Tick
  <1>3. CacheOK'
    BY <1>1, <1>2 DEF KeyInvariant, CacheOK, SeenAfter
  <1>4. ASSUME NEW v \in Validators PROVE CheckOK(v)'
    <2>1. CheckOK(v)
      BY DEF KeyInvariant
    <2> QED BY <1>1, <1>2, <2>1 DEF CheckOK, SeenAfter
  <1>5. KeysAreFresh'
    BY <1>2 DEF KeyInvariant, KeysAreFresh
  <1> QED BY <1>3, <1>4, <1>5 DEF KeyInvariant

LEMMA RotateStep ==
    ASSUME KeyInvariant, KeyTypeOK', NEW k \in SigningKeys, Rotate(k)
    PROVE  KeyInvariant'
  <1>1. /\ now \in Int /\ cached.fetchedAt \in Int /\ Lifetime \in Int /\ Lifetime > 0
        /\ \A v \in Validators : check[v].begun \in Int /\ check[v].key \in SigningKeys
    BY NeverInteger DEF KeyInvariant, KeyTypeOK, Times
  <1>2. UNCHANGED <<now, cached, check>>
    BY DEF Rotate
  <1>t. KeyTypeOK /\ since \in [SigningKeys -> Times] /\ gone \in [SigningKeys -> Times]
    BY DEF KeyInvariant, KeyTypeOK
  <1>3. CacheOK'
    <2>1. CASE cached.fetchedAt = Never
      BY <1>2, <2>1 DEF KeyInvariant, CacheOK
    <2>2. CASE cached.fetchedAt # Never
      <3>1. SeenAfter(cached.keys, cached.fetchedAt) /\ cached.fetchedAt <= now
        BY <2>2 DEF KeyInvariant, CacheOK
      <3>k. PICK keys : keys = cached.keys
        OBVIOUS
      <3>2. PICK t \in Int : t = cached.fetchedAt
        BY <1>1
      <3>3. SeenAfter(keys, t)'
        BY <1>t, <3>1, <3>k, <3>2, RotationKeepsSeen
      <3> QED BY <1>2, <3>1, <3>k, <3>2, <3>3 DEF CacheOK, SeenAfter
    <2> QED BY <2>1, <2>2
  <1>4. ASSUME NEW v \in Validators PROVE CheckOK(v)'
    <2>1. CheckOK(v)
      BY DEF KeyInvariant
    <2>k. PICK keys : keys = check[v].keys
      OBVIOUS
    <2>2. PICK b \in Int : b = check[v].begun
      BY <1>1
    <2>3. ASSUME check[v].step = "keep" PROVE SeenAfter(keys, b)'
      <3>1. SeenAfter(keys, b) /\ b <= now
        BY <2>1, <2>k, <2>2, <2>3 DEF CheckOK
      <3> QED BY <1>t, <3>1, RotationKeepsSeen
    <2>4. ASSUME check[v].step = "match" PROVE SeenAfter(keys, b - Lifetime + 1)'
      <3>1. SeenAfter(keys, b - Lifetime + 1) /\ b <= now
        BY <2>1, <2>k, <2>2, <2>4 DEF CheckOK
      <3>2. PICK t \in Int : t = b - Lifetime + 1
        BY <1>1, <2>2
      <3>3. t <= now
        BY <1>1, <2>k, <2>2, <3>1, <3>2
      <3>4. SeenAfter(keys, t)'
        BY <1>t, <3>1, <3>2, <3>3, RotationKeepsSeen
      <3> QED BY <3>2, <3>4 DEF SeenAfter
    <2> QED BY <1>2, <2>1, <2>k, <2>2, <2>3, <2>4 DEF CheckOK, SeenAfter
  <1>5. ASSUME NEW v \in Validators PROVE FreshVerdict(v)'
    <2>1. FreshVerdict(v) /\ check[v].begun <= now
      BY FreshByThread DEF KeyInvariant, CheckOK
    <2>2. PICK key \in SigningKeys, b \in Int : key = check[v].key /\ b = check[v].begun
      BY <1>1
    <2>3. now > b - Lifetime
      BY <1>1, <2>1, <2>2
    <2>4. CASE k \notin published
      <3>1. published' = published \cup {k} /\ since' = [since EXCEPT ![k] = now] /\ gone' = gone
        BY <2>4 DEF Rotate
      <3> QED BY <1>2, <1>t, <2>1, <2>2, <2>3, <3>1 DEF FreshVerdict
    <2>5. CASE k \in published
      <3>1. published' = published \ {k} /\ gone' = [gone EXCEPT ![k] = now] /\ since' = since
        BY <2>5 DEF Rotate
      <3> QED BY <1>2, <1>t, <2>1, <2>2, <2>3, <3>1 DEF FreshVerdict
    <2> QED BY <2>4, <2>5
  <1>6. KeysAreFresh'
    BY <1>5 DEF KeysAreFresh, FreshVerdict
  <1> QED BY <1>3, <1>4, <1>6 DEF KeyInvariant

LEMMA ValidateStep ==
    ASSUME KeyInvariant, KeyTypeOK', NEW v \in Validators, NEW key \in SigningKeys, Validate(v, key)
    PROVE  KeyInvariant'
  <1>1. now \in Int /\ cached.fetchedAt \in Int /\ Lifetime \in Int /\ KeyTypeOK
    BY NeverInteger DEF KeyInvariant, KeyTypeOK, Times
  <1> DEFINE record == [step |-> IF Fresh THEN "match" ELSE "fetch", key |-> key, begun |-> now,
                        keys |-> IF Fresh THEN cached.keys ELSE {}]
  <1>2. check' = [check EXCEPT ![v] = record] /\ UNCHANGED <<now, published, cached, since, gone>>
    BY DEF Validate
  <1>3. check'[v] = record
    BY <1>1, <1>2 DEF KeyTypeOK
  <1>4. CacheOK'
    BY <1>2 DEF KeyInvariant, CacheOK, SeenAfter
  <1>5. CheckOK(v)'
    <2>1. CASE Fresh
      <3>1. SeenAfter(cached.keys, cached.fetchedAt) /\ now - Lifetime + 1 <= cached.fetchedAt
        BY <1>1, <2>1 DEF Fresh, KeyInvariant, CacheOK
      <3>2. SeenAfter(cached.keys, now - Lifetime + 1)
        BY <1>1, <3>1, SeenEarlier
      <3>3. check'[v].step = "match" /\ check'[v].keys = cached.keys /\ check'[v].begun = now
        BY <1>3, <2>1
      <3> QED BY <1>1, <1>2, <3>2, <3>3 DEF CheckOK, SeenAfter
    <2>2. CASE ~Fresh
      <3>1. check'[v].step = "fetch" /\ check'[v].begun = now
        BY <1>3, <2>2
      <3> QED BY <1>1, <1>2, <3>1 DEF CheckOK
    <2> QED BY <2>1, <2>2
  <1>6. FreshVerdict(v)'
    <2>1. check'[v].step \in {"match", "fetch"}
      BY <1>3
    <2> QED BY <2>1 DEF FreshVerdict
  <1> QED BY <1>2, <1>4, <1>5, <1>6, CheckStep

LEMMA FetchInv ==
    ASSUME KeyInvariant, KeyTypeOK', NEW v \in Validators, Fetch(v) \/ FetchFails(v)
    PROVE  KeyInvariant'
  <1>1. now \in Int /\ check[v].begun \in Int /\ check[v].begun <= now /\ KeyTypeOK
    BY DEF KeyInvariant, KeyTypeOK, CheckOK
  <1>2. UNCHANGED <<now, published, cached, since, gone>>
    BY DEF Fetch, FetchFails
  <1>3. CacheOK'
    BY <1>2 DEF KeyInvariant, CacheOK, SeenAfter
  <1>4. CASE Fetch(v)
    <2> DEFINE record == [check[v] EXCEPT !.step = "keep", !.keys = published]
    <2>1. check' = [check EXCEPT ![v] = record]
      BY <1>4 DEF Fetch
    <2>2. check'[v].step = "keep" /\ check'[v].keys = published /\ check'[v].begun = check[v].begun
      BY <1>1, <2>1 DEF KeyTypeOK
    <2>3. CheckOK(v)'
      BY <1>1, <1>2, <2>2 DEF CheckOK, SeenAfter
    <2>4. FreshVerdict(v)'
      BY <2>2 DEF FreshVerdict
    <2> QED BY <1>2, <1>3, <2>1, <2>3, <2>4, CheckStep
  <1>5. CASE FetchFails(v)
    <2>1. check' = [check EXCEPT ![v] = NoCheck]
      BY <1>5 DEF FetchFails
    <2>2. check'[v].step = "idle" /\ check'[v].begun = 0
      BY <1>1, <2>1, NoCheckType DEF KeyTypeOK
    <2>3. now >= 0
      BY DEF KeyInvariant, KeyTypeOK
    <2>4. CheckOK(v)'
      BY <1>1, <1>2, <2>2, <2>3 DEF CheckOK
    <2>5. FreshVerdict(v)'
      BY <2>2 DEF FreshVerdict
    <2> QED BY <1>2, <1>3, <2>1, <2>4, <2>5, CheckStep
  <1> QED BY <1>4, <1>5

LEMMA KeepStep ==
    ASSUME KeyInvariant, KeyTypeOK', NEW v \in Validators, Keep(v)
    PROVE  KeyInvariant'
  <1>1. /\ now \in Int /\ check[v].begun \in Int /\ check[v].begun <= now /\ KeyTypeOK
        /\ Lifetime \in Int /\ Lifetime > 0 /\ check[v].step = "keep"
        /\ SeenAfter(check[v].keys, check[v].begun)
    BY NeverInteger DEF KeyInvariant, KeyTypeOK, CheckOK, Keep
  <1>2. UNCHANGED <<now, published, since, gone>>
    BY DEF Keep
  <1> DEFINE record == [check[v] EXCEPT !.step = "match"]
  <1>3. check' = [check EXCEPT ![v] = record]
    BY DEF Keep
  <1>4. check'[v].step = "match" /\ check'[v].keys = check[v].keys /\ check'[v].begun = check[v].begun
    BY <1>1, <1>3 DEF KeyTypeOK
  <1>5. SeenAfter(check[v].keys, check[v].begun - Lifetime + 1)
    BY <1>1, SeenEarlier
  <1>6. CheckOK(v)'
    BY <1>1, <1>2, <1>4, <1>5 DEF CheckOK, SeenAfter
  <1>7. FreshVerdict(v)'
    BY <1>4 DEF FreshVerdict
  <1>8. CacheOK'
    <2>1. cached'.keys = check[v].keys /\ cached'.fetchedAt = check[v].begun
      BY DEF Keep, Stamp
    <2> QED BY <1>1, <1>2, <2>1 DEF CacheOK, SeenAfter
  <1> QED BY <1>2, <1>3, <1>6, <1>7, <1>8, CheckStep

LEMMA MatchStep ==
    ASSUME KeyInvariant, KeyTypeOK', NEW v \in Validators, Match(v)
    PROVE  KeyInvariant'
  <1>1. /\ now \in Int /\ check[v].begun \in Int /\ check[v].begun <= now /\ KeyTypeOK
        /\ Lifetime \in Int /\ Lifetime > 0 /\ check[v].step = "match" /\ check[v].key \in SigningKeys
        /\ SeenAfter(check[v].keys, check[v].begun - Lifetime + 1)
    BY NeverInteger DEF KeyInvariant, KeyTypeOK, CheckOK, Match
  <1>2. UNCHANGED <<now, published, cached, since, gone>>
    BY DEF Match
  <1> DEFINE record == [step |-> IF check[v].key \in check[v].keys THEN "accepted" ELSE "refused",
                        key |-> check[v].key, begun |-> check[v].begun, keys |-> {}]
  <1>3. check' = [check EXCEPT ![v] = record]
    BY DEF Match
  <1>4. check'[v] = record
    BY <1>1, <1>3 DEF KeyTypeOK
  <1>5. CheckOK(v)'
    <2>1. check'[v].step \in {"accepted", "refused"} /\ check'[v].begun = check[v].begun
      BY <1>4
    <2> QED BY <1>1, <1>2, <2>1 DEF CheckOK
  <1>6. FreshVerdict(v)'
    <2>1. \A k \in SigningKeys : since[k] \in Int /\ gone[k] \in Int
      BY <1>1, NeverInteger DEF KeyTypeOK, Times
    <2>2. CASE check[v].key \in check[v].keys
      <3>1. check'[v].step = "accepted" /\ check'[v].key = check[v].key
            /\ check'[v].begun = check[v].begun
        BY <1>4, <2>2
      <3>2. check[v].key \in published \/ gone[check[v].key] > check[v].begun - Lifetime
        BY <1>1, <2>1, <2>2 DEF SeenAfter
      <3> QED BY <1>2, <3>1, <3>2 DEF FreshVerdict
    <2>3. CASE check[v].key \notin check[v].keys
      <3>1. check'[v].step = "refused" /\ check'[v].key = check[v].key
            /\ check'[v].begun = check[v].begun
        BY <1>4, <2>3
      <3>2. check[v].key \notin published \/ since[check[v].key] > check[v].begun - Lifetime
        BY <1>1, <2>1, <2>3 DEF SeenAfter
      <3> QED BY <1>2, <3>1, <3>2 DEF FreshVerdict
    <2> QED BY <2>2, <2>3
  <1>7. CacheOK'
    BY <1>2 DEF KeyInvariant, CacheOK, SeenAfter
  <1> QED BY <1>2, <1>3, <1>5, <1>6, <1>7, CheckStep

LEMMA KeyNextInv == KeyInvariant /\ [KeyNext]_keyVars => KeyInvariant'
  <1> SUFFICES ASSUME KeyInvariant, [KeyNext]_keyVars PROVE KeyInvariant'
    OBVIOUS
  <1>t. KeyTypeOK'
    BY KeyTypeStep DEF KeyInvariant
  <1>1. CASE Tick
    BY <1>t, <1>1, TickStep
  <1>2. ASSUME NEW k \in SigningKeys, Rotate(k) PROVE KeyInvariant'
    BY <1>t, <1>2, RotateStep
  <1>3. ASSUME NEW v \in Validators, NEW key \in SigningKeys, Validate(v, key) PROVE KeyInvariant'
    BY <1>t, <1>3, ValidateStep
  <1>4. ASSUME NEW v \in Validators, Fetch(v) \/ FetchFails(v) PROVE KeyInvariant'
    BY <1>t, <1>4, FetchInv
  <1>5. ASSUME NEW v \in Validators, Keep(v) PROVE KeyInvariant'
    BY <1>t, <1>5, KeepStep
  <1>6. ASSUME NEW v \in Validators, Match(v) PROVE KeyInvariant'
    BY <1>t, <1>6, MatchStep
  <1>7. CASE UNCHANGED keyVars
    BY <1>7 DEF keyVars, KeyInvariant, KeyTypeOK, CacheOK, CheckOK, SeenAfter, KeysAreFresh
  <1> QED BY <1>1, <1>2, <1>3, <1>4, <1>5, <1>6, <1>7 DEF KeyNext

-----------------------------------------------------------------------------

(* The invariant holds in every state, whatever threads and rotations do.  *)
THEOREM KeyInvariance == KeySpec => []KeyInvariant
  BY KeyInitInv, KeyNextInv, PTL DEF KeySpec

(* Clock, cache and checks keep their types (azure_ad.py:50-58).           *)
THEOREM KeyTypeCorrect == KeySpec => []KeyTypeOK
  <1>1. KeyInvariant => KeyTypeOK
    BY DEF KeyInvariant
  <1> QED BY <1>1, KeyInvariance, PTL

(* A token is accepted or refused by keys less than Lifetime old, for any  *)
(* number of keys, threads and rotations and any fetch times               *)
(* (azure_ad.py:50-58, 71-80).                                             *)
THEOREM RotationTakesEffect == KeySpec => []KeysAreFresh
  <1>1. KeyInvariant => KeysAreFresh
    BY DEF KeyInvariant
  <1> QED BY <1>1, KeyInvariance, PTL

-----------------------------------------------------------------------------
(* EventBus. Every reader sees events in an order that agrees with the     *)
(* publishes.                                                              *)


Publishes(t) == publisher[t].step # "idle"
Appending(t) == publisher[t].step = "append"
Current(t) == publisher[t].event
Waiting == {Current(t) : t \in {u \in Publishers : Appending(u)}}

(* The events that came to the history, kept or not.                       *)
Appended == Published \ Waiting

NoneTwice(s) == \A i, j \in 1 .. Len(s) : i < j => s[i] # s[j]

(* InOrder, of any events.                                                 *)
Ordered(s, all) ==
    \A i, j \in 1 .. Len(s) : i < j => s[i] # s[j] /\ s[j] \notin all[s[i]].after

(* A publish under way: before the event is appended it is nowhere, and    *)
(* after that each subscriber has it or has still to be called.            *)
Delivery(t) ==
    /\ Current(t) \in Published
    /\ Current(t) \notin ToSet(produced)
    /\ IF Appending(t)
       THEN /\ events[Current(t)].to \subseteq ToSet(subscribers)
            /\ Current(t) \notin ToSet(history)
            /\ \A h \in Handlers : Current(t) \notin ToSet(reached[h])
       ELSE /\ NoneTwice(publisher[t].left)
            /\ \A h \in ToSet(publisher[t].left) : Current(t) \notin ToSet(reached[h])
            /\ \A h \in events[Current(t)].to :
                  h \in ToSet(publisher[t].left) \/ Current(t) \in ToSet(reached[h])

Deliveries ==
    /\ \A t \in Publishers : Publishes(t) => Delivery(t)
    /\ \A t, u \in Publishers : t # u /\ Publishes(t) /\ Publishes(u) => Current(t) # Current(u)

Orders ==
    /\ \A e \in Published : events[e].after \subseteq Returned
    /\ Ordered(history, events) /\ Ordered(produced, events)
    /\ \A h \in Handlers : Ordered(reached[h], events)

AllCalled == \A e \in Returned : \A h \in events[e].to : e \in ToSet(reached[h])

(* What the history dropped came before all it keeps.                      *)
NewestKept ==
    /\ \A e \in Appended \ ToSet(history) : \A f \in ToSet(history) : f \notin events[e].after
    /\ Len(history) < HistoryLimit => Appended \subseteq ToSet(history)

BusInv ==
    /\ BusTypeOK
    /\ Len(events) <= MaxEvents
    /\ NoneTwice(subscribers)
    /\ Deliveries
    /\ Orders
    /\ AllCalled
    /\ NewestKept

-----------------------------------------------------------------------------
(* Sequences.                                                              *)

LEMMA Members ==
    ASSUME NEW S, NEW s \in Seq(S)
    PROVE  /\ Len(s) \in Nat /\ DOMAIN s = 1 .. Len(s)
           /\ ToSet(s) \subseteq S /\ \A i \in 1 .. Len(s) : s[i] \in ToSet(s) /\ s[i] \in S
           /\ \A x \in ToSet(s) : \E i \in 1 .. Len(s) : x = s[i]
  <1>1. Len(s) \in Nat /\ DOMAIN s = 1 .. Len(s) /\ \A i \in 1 .. Len(s) : s[i] \in S
    OBVIOUS
  <1> QED BY <1>1 DEF ToSet

LEMMA Appends ==
    ASSUME NEW S, NEW s \in Seq(S), NEW e \in S
    PROVE  /\ Append(s, e) \in Seq(S) /\ Len(Append(s, e)) = Len(s) + 1
           /\ \A i \in 1 .. Len(s) : Append(s, e)[i] = s[i]
           /\ Append(s, e)[Len(s) + 1] = e
           /\ ToSet(Append(s, e)) = ToSet(s) \cup {e}
  <1> DEFINE r == Append(s, e)
  <1>1. /\ r \in Seq(S) /\ Len(r) = Len(s) + 1 /\ \A i \in 1 .. Len(s) : r[i] = s[i]
        /\ r[Len(s) + 1] = e
    OBVIOUS
  <1> HIDE DEF r
  <1>2. DOMAIN r = 1 .. Len(s) + 1 /\ DOMAIN s = 1 .. Len(s) /\ Len(s) \in Nat
    BY <1>1, Members
  <1>3. ToSet(r) = ToSet(s) \cup {e}
    <2>1. \A i \in DOMAIN r : r[i] \in ToSet(s) \cup {e}
      BY <1>1, <1>2 DEF ToSet
    <2>2. \A i \in DOMAIN s : s[i] \in ToSet(r)
      BY <1>1, <1>2 DEF ToSet
    <2>3. e \in ToSet(r)
      BY <1>1, <1>2 DEF ToSet
    <2> QED BY <2>1, <2>2, <2>3 DEF ToSet
  <1> QED BY <1>1, <1>3 DEF r

LEMMA NoneTwiceAppend ==
    ASSUME NEW S, NEW s \in Seq(S), NEW e \in S, NoneTwice(s), e \notin ToSet(s)
    PROVE  NoneTwice(Append(s, e))
  <1>1. Len(s) \in Nat /\ \A i \in 1 .. Len(s) : s[i] # e
    BY Members
  <1> QED BY <1>1, Appends DEF NoneTwice

LEMMA OrderedAppend ==
    ASSUME NEW all, NEW S, NEW s \in Seq(S), NEW e \in S,
           Ordered(s, all), e \notin ToSet(s), \A f \in ToSet(s) : e \notin all[f].after
    PROVE  Ordered(Append(s, e), all)
  <1>1. Len(s) \in Nat /\ \A i \in 1 .. Len(s) : s[i] # e /\ e \notin all[s[i]].after
    BY Members
  <1>2. /\ Len(Append(s, e)) = Len(s) + 1 /\ \A i \in 1 .. Len(s) : Append(s, e)[i] = s[i]
        /\ Append(s, e)[Len(s) + 1] = e
    BY Appends
  <1> SUFFICES ASSUME NEW i \in 1 .. Len(s) + 1, NEW j \in 1 .. Len(s) + 1, i < j
               PROVE  /\ Append(s, e)[i] # Append(s, e)[j]
                      /\ Append(s, e)[j] \notin all[Append(s, e)[i]].after
    BY <1>2 DEF Ordered
  <1>3. i \in 1 .. Len(s)
    BY <1>1
  <1>4. CASE j = Len(s) + 1
    BY <1>1, <1>2, <1>3, <1>4
  <1>5. CASE j # Len(s) + 1
    <2>1. j \in 1 .. Len(s)
      BY <1>1, <1>5
    <2> QED BY <1>2, <1>3, <2>1 DEF Ordered
  <1> QED BY <1>4, <1>5

(* Cut takes off the oldest of a history that is one too long.             *)
LEMMA Cuts ==
    ASSUME NEW S, NEW s \in Seq(S), NEW e \in S, Len(s) <= HistoryLimit
    PROVE  LET r == Cut(Append(s, e)) IN
           /\ r \in Seq(S) /\ Len(r) <= HistoryLimit
           /\ Len(s) < HistoryLimit => r = Append(s, e)
           /\ Len(s) = HistoryLimit =>
                 /\ Len(r) = Len(s) /\ \A i \in 1 .. Len(r) : r[i] = Append(s, e)[i + 1]
  <1> DEFINE l == Append(s, e)
  <1>1. l \in Seq(S) /\ Len(l) = Len(s) + 1 /\ Len(s) \in Nat /\ \A i \in 1 .. Len(l) : l[i] \in S
    BY Appends, Members
  <1>2. HistoryLimit \in Nat \ {0}
    BY BusAssumption
  <1> HIDE DEF l
  <1>3. CASE Len(s) < HistoryLimit
    <2>1. Cut(l) = l
      BY <1>1, <1>2, <1>3 DEF Cut
    <2> QED BY <1>1, <1>2, <1>3, <2>1 DEF l
  <1>4. CASE Len(s) = HistoryLimit
    <2> DEFINE r == SubSeq(l, 2, Len(l))
    <2>1. Cut(l) = r
      <3>1. Len(l) > HistoryLimit /\ Len(l) - HistoryLimit + 1 = 2
        BY <1>1, <1>2, <1>4
      <3> QED BY <3>1 DEF Cut
    <2>2. r \in Seq(S) /\ Len(r) = Len(s) /\ \A i \in 1 .. Len(r) : r[i] = l[i + 1]
      <3>1. Len(l) - 2 + 1 = Len(s) /\ \A i \in 1 .. Len(s) : 2 + i - 1 = i + 1 /\ i + 1 \in 1 .. Len(l)
        BY <1>1
      <3>2. r = [i \in 1 .. Len(s) |-> l[i + 1]]
        BY <1>1, <3>1
      <3>3. r \in [1 .. Len(s) -> S]
        BY <1>1, <3>1, <3>2
      <3> HIDE DEF r
      <3>4. r \in Seq(S) /\ Len(r) = Len(s)
        BY <1>1, <3>3
      <3> QED BY <3>2, <3>4
    <2> HIDE DEF r
    <2> QED BY <1>1, <1>2, <1>4, <2>1, <2>2 DEF l
  <1> QED BY <1>1, <1>2, <1>3, <1>4

LEMMA FewElements ==
    ASSUME NEW S, NEW s \in Seq(S)
    PROVE  IsFiniteSet(ToSet(s)) /\ Cardinality(ToSet(s)) \in Nat /\ Cardinality(ToSet(s)) <= Len(s)
  <1> DEFINE D == 1 .. Len(s)
             T == ToSet(s)
             f == [i \in D |-> s[i]]
  <1>1. Len(s) \in Nat /\ DOMAIN s = D
    BY Members
  <1>2. IsFiniteSet(D) /\ Cardinality(D) = Len(s)
    BY <1>1, FS_Interval
  <1>3. f \in Surjection(D, T)
    BY <1>1 DEF Surjection, ToSet
  <1>4. IsFiniteSet(T) /\ Cardinality(T) <= Cardinality(D)
    BY <1>2, <1>3, FS_Surjection
  <1> QED BY <1>2, <1>4, FS_CardinalityType

LEMMA WiderSeq ==
    ASSUME NEW A, NEW B, A \subseteq B, NEW s \in Seq(A)
    PROVE  s \in Seq(B)
  <1>1. DOMAIN s = 1 .. Len(s) /\ Len(s) \in Nat /\ \A i \in 1 .. Len(s) : s[i] \in A
    BY Members
  <1>2. s \in [1 .. Len(s) -> B]
    BY <1>1
  <1> QED BY <1>1, <1>2

-----------------------------------------------------------------------------
(* The state of a thread, and what the invariant says of it.               *)

Threads == [step : {"idle", "append", "deliver"}, event : 0 .. MaxEvents, left : Seq(Handlers)]
EventRecords == [after : SUBSET (1 .. MaxEvents), to : SUBSET Handlers]

LEMMA BusFields ==
    ASSUME BusTypeOK
    PROVE  /\ events \in Seq(EventRecords) /\ Len(events) \in Nat /\ DOMAIN events = Published
           /\ \A e \in Published : events[e] \in EventRecords
           /\ publisher \in [Publishers -> Threads]
           /\ subscribers \in Seq(Handlers) /\ ToSet(subscribers) \subseteq Handlers
           /\ history \in Seq(Published) /\ Len(history) <= HistoryLimit /\ Len(history) \in Nat
           /\ produced \in Seq(Published) /\ ToSet(produced) \subseteq Published
           /\ ToSet(history) \subseteq Published
           /\ \A h \in Handlers : reached[h] \in Seq(Published) /\ ToSet(reached[h]) \subseteq Published
  <1>1. events \in Seq(EventRecords) /\ publisher \in [Publishers -> Threads]
    BY DEF BusTypeOK, EventRecords, Threads
  <1>2. Len(events) \in Nat /\ DOMAIN events = Published /\ \A e \in Published : events[e] \in EventRecords
    BY <1>1, Members DEF Published
  <1>3. /\ subscribers \in Seq(Handlers) /\ history \in Seq(Published) /\ Len(history) <= HistoryLimit
        /\ produced \in Seq(Published) /\ \A h \in Handlers : reached[h] \in Seq(Published)
    BY DEF BusTypeOK
  <1> QED BY <1>1, <1>2, <1>3, Members

(* A thread is set to a record of its own; the others stay.                *)
LEMMA ThreadSet ==
    ASSUME BusTypeOK, NEW t \in Publishers, NEW r \in Threads, publisher' = [publisher EXCEPT ![t] = r]
    PROVE  /\ publisher' \in [Publishers -> Threads] /\ publisher'[t] = r
           /\ \A u \in Publishers \ {t} : publisher'[u] = publisher[u]
  BY BusFields

LEMMA SubscribeStep ==
    ASSUME BusInv, NEW h \in Handlers, Subscribe(h)
    PROVE  BusInv'
  <1>1. BusTypeOK /\ subscribers \in Seq(Handlers)
    BY BusFields DEF BusInv
  <1>2. /\ events' = events /\ publisher' = publisher /\ history' = history /\ reached' = reached
        /\ produced' = produced /\ handlerRaises' = handlerRaises
    BY DEF Subscribe
  <1>3. /\ subscribers' \in Seq(Handlers) /\ ToSet(subscribers') = ToSet(subscribers) \cup {h}
        /\ NoneTwice(subscribers')
    BY <1>1, Appends, NoneTwiceAppend DEF Subscribe, BusInv
  <1>4. BusTypeOK'
    BY <1>1, <1>2, <1>3 DEF BusTypeOK, Published
  <1>5. /\ Published' = Published /\ Returned' = Returned /\ Appended' = Appended
    BY <1>2 DEF Published, Returned, Publishing, Appended, Waiting, Current, Appending
  <1>6. Deliveries'
    BY <1>2, <1>3, <1>5 DEF BusInv, Deliveries, Publishes, Delivery, Current, Appending
  <1>7. Orders' /\ AllCalled' /\ NewestKept'
    BY <1>2, <1>5 DEF BusInv, Orders, AllCalled, NewestKept
  <1> QED BY <1>2, <1>3, <1>4, <1>6, <1>7 DEF BusInv, NoneTwice

LEMMA PublishStep ==
    ASSUME BusInv, NEW t \in Publishers, Publish(t)
    PROVE  BusInv'
  <1> PICK n : n = Len(events) + 1
    OBVIOUS
  <1>1. BusTypeOK /\ Len(events) < MaxEvents /\ publisher[t].step = "idle"
    BY DEF BusInv, Publish
  <1>2. Len(events) \in Nat /\ n \in 1 .. MaxEvents /\ Published = 1 .. Len(events) /\ n \notin Published
    BY <1>1, BusFields, BusAssumption DEF Published
  <1> DEFINE e == [after |-> Returned, to |-> ToSet(subscribers)]
             r == [step |-> "append", event |-> Len(events) + 1, left |-> <<>>]
  <1>3. e \in EventRecords /\ e.after = Returned /\ e.to = ToSet(subscribers)
    <2>1. Returned \subseteq 1 .. MaxEvents
      BY <1>1, <1>2, BusAssumption DEF Returned
    <2> QED BY <1>1, <2>1, BusFields DEF EventRecords
  <1>4. r \in Threads /\ r.step = "append" /\ r.event = n
    BY <1>2 DEF Threads
  <1>5. events' = Append(events, e) /\ publisher' = [publisher EXCEPT ![t] = r]
    BY DEF Publish
  <1>6. /\ subscribers' = subscribers /\ history' = history /\ reached' = reached
        /\ produced' = produced /\ handlerRaises' = handlerRaises
    BY DEF Publish
  <1> HIDE DEF e, r
  <1>7. /\ publisher' \in [Publishers -> Threads] /\ publisher'[t] = r
        /\ \A u \in Publishers \ {t} : publisher'[u] = publisher[u]
    BY <1>1, <1>4, <1>5, ThreadSet
  <1>8. /\ events' \in Seq(EventRecords) /\ Len(events') = n /\ events'[n] = e
        /\ \A f \in Published : events'[f] = events[f]
    BY <1>1, <1>2, <1>3, <1>5, BusFields, Appends
  <1>9. Published' = 1 .. n /\ Published \subseteq Published' /\ Published' = Published \cup {n}
    BY <1>2, <1>8 DEF Published
  <1>10. BusTypeOK'
    <2>1. /\ history \in Seq(Published') /\ produced \in Seq(Published')
          /\ \A h \in Handlers : reached[h] \in Seq(Published')
      BY <1>1, <1>9, WiderSeq, BusFields
    <2>2. reached \in [Handlers -> Seq(Published')]
      BY <1>1, <2>1 DEF BusTypeOK
    <2>3. events' \in Seq([after : SUBSET (1 .. MaxEvents), to : SUBSET Handlers])
      BY <1>8 DEF EventRecords
    <2> QED BY <1>1, <1>6, <1>7, <2>1, <2>2, <2>3 DEF BusTypeOK, Threads
  <1>11. \A u \in Publishers : Publishes(u) => Current(u) \in Published /\ u # t
    BY <1>1 DEF BusInv, Deliveries, Delivery, Publishes
  <1>12. Publishing' = Publishing \cup {n} /\ Publishing \subseteq Published
    <2>1. \A u \in Publishers : Publishes(u)' <=> Publishes(u) \/ u = t
      BY <1>1, <1>4, <1>7 DEF Publishes
    <2>2. \A u \in Publishers : publisher'[u].event = IF u = t THEN n ELSE publisher[u].event
      BY <1>4, <1>7
    <2> QED BY <1>11, <2>1, <2>2 DEF Publishing, Publishes, Current
  <1>13. Returned' = Returned
    BY <1>2, <1>8, <1>12 DEF Returned, Published
  <1>14. Waiting' = Waiting \cup {n}
    <2>1. \A u \in Publishers : Appending(u)' <=> Appending(u) \/ u = t
      BY <1>1, <1>4, <1>7 DEF Appending
    <2>2. \A u \in Publishers : publisher'[u].event = IF u = t THEN n ELSE publisher[u].event
      BY <1>4, <1>7
    <2>3. ~Appending(t)
      BY <1>1 DEF Appending
    <2> QED BY <2>1, <2>2, <2>3 DEF Waiting, Appending, Current
  <1>15. Appended' = Appended
    BY <1>2, <1>9, <1>14 DEF Appended
  <1>16. Deliveries'
    <2>1. ASSUME NEW u \in Publishers, Publishes(u)'
          PROVE  Delivery(u)'
      <3>1. CASE u = t
        <4>1. /\ n \notin ToSet(produced) /\ n \notin ToSet(history)
              /\ \A h \in Handlers : n \notin ToSet(reached[h])
          BY <1>1, <1>2, BusFields
        <4> QED BY <1>3, <1>4, <1>6, <1>7, <1>8, <1>9, <3>1, <4>1 DEF Delivery, Current, Appending
      <3>2. CASE u # t
        <4>1. Publishes(u) /\ Delivery(u) /\ Current(u) \in Published /\ publisher'[u] = publisher[u]
          BY <1>7, <1>11, <2>1, <3>2 DEF Publishes, BusInv, Deliveries
        <4> QED BY <1>6, <1>8, <1>9, <4>1 DEF Delivery, Current, Appending
      <3> QED BY <3>1, <3>2
    <2>2. \A u \in Publishers : Current(u)' = IF u = t THEN n ELSE Current(u)
      BY <1>4, <1>7 DEF Current
    <2>3. \A u \in Publishers : Publishes(u)' /\ u # t => Publishes(u)
      BY <1>7 DEF Publishes
    <2>4. \A u, v \in Publishers : u # v /\ Publishes(u)' /\ Publishes(v)' => Current(u)' # Current(v)'
      BY <1>2, <1>11, <2>2, <2>3 DEF BusInv, Deliveries
    <2> QED BY <2>1, <2>4 DEF Deliveries
  <1>17. Orders'
    <2>1. \A s \in Seq(Published) : Ordered(s, events) => Ordered(s, events')
      BY <1>8, Members DEF Ordered
    <2>2. /\ Ordered(history, events') /\ Ordered(produced, events')
          /\ \A h \in Handlers : Ordered(reached[h], events')
      BY <1>1, <2>1, BusFields DEF BusInv, Orders
    <2>3. \A f \in Published' : events'[f].after \subseteq Returned'
      BY <1>3, <1>8, <1>9, <1>13 DEF BusInv, Orders
    <2> QED BY <1>6, <2>2, <2>3 DEF Orders
  <1>18. AllCalled'
    <2>1. Returned \subseteq Published
      BY DEF Returned, Published
    <2> QED BY <1>6, <1>8, <1>13, <2>1 DEF BusInv, AllCalled
  <1>19. NewestKept'
    <2>1. Appended \subseteq Published
      BY DEF Appended
    <2> QED BY <1>6, <1>8, <1>15, <2>1 DEF BusInv, NewestKept
  <1>20. Len(events') <= MaxEvents
    BY <1>2, <1>8, BusAssumption
  <1> QED BY <1>6, <1>10, <1>16, <1>17, <1>18, <1>19, <1>20 DEF BusInv, NoneTwice

(* A live event is not in what the others wait for, nor before any other.  *)
LEMMA Live ==
    ASSUME BusInv, NEW t \in Publishers, Publishes(t)
    PROVE  /\ Current(t) \in Published /\ Current(t) \in Publishing /\ Current(t) \notin Returned
           /\ \A f \in Published : Current(t) \notin events[f].after
           /\ Current(t) \in Nat /\ Delivery(t)
  <1>1. Delivery(t) /\ Current(t) \in Published
    BY DEF BusInv, Deliveries, Delivery
  <1>2. Current(t) \in Publishing /\ Current(t) \notin Returned
    BY DEF Publishing, Publishes, Current, Returned
  <1>3. \A f \in Published : Current(t) \notin events[f].after
    BY <1>2 DEF BusInv, Orders
  <1> QED BY <1>1, <1>2, <1>3 DEF Published

(* A thread that goes on with its event.                                   *)
LEMMA Goes ==
    ASSUME BusInv, NEW t \in Publishers, Publishes(t), NEW left \in Seq(Handlers),
           Moves(t, "deliver", left), events' = events
    PROVE  /\ publisher' \in [Publishers -> Threads]
           /\ publisher'[t].step = "deliver" /\ publisher'[t].event = publisher[t].event
           /\ publisher'[t].left = left
           /\ \A u \in Publishers \ {t} : publisher'[u] = publisher[u]
           /\ \A u \in Publishers : (Publishes(u)' <=> Publishes(u)) /\ Current(u)' = Current(u)
           /\ Publishing' = Publishing /\ Returned' = Returned /\ Published' = Published
           /\ Appended' = Appended \cup {Current(t)}
  <1> DEFINE r == [step |-> "deliver", event |-> publisher[t].event, left |-> left]
  <1>1. BusTypeOK /\ publisher[t] \in Threads
    BY BusFields DEF BusInv
  <1>2. r \in Threads /\ r.step = "deliver" /\ r.event = publisher[t].event /\ r.left = left
    BY <1>1 DEF Threads
  <1>3. publisher' = [publisher EXCEPT ![t] = r]
    BY DEF Moves
  <1> HIDE DEF r
  <1>4. /\ publisher' \in [Publishers -> Threads] /\ publisher'[t] = r
        /\ \A u \in Publishers \ {t} : publisher'[u] = publisher[u]
    BY <1>1, <1>2, <1>3, ThreadSet
  <1>5. \A u \in Publishers : (Publishes(u)' <=> Publishes(u)) /\ Current(u)' = Current(u)
    BY <1>2, <1>4 DEF Publishes, Current
  <1>6. Publishing' = Publishing
    BY <1>5 DEF Publishing, Publishes, Current
  <1>7. Returned' = Returned /\ Published' = Published
    BY <1>6 DEF Returned, Published
  <1>8. Current(t) \in Published
    BY Live
  <1>9. \A u \in Publishers : Appending(u)' <=> Appending(u) /\ u # t
    BY <1>2, <1>4 DEF Appending
  <1>10. \A u \in Publishers : Appending(u) /\ u # t => Current(u) # Current(t)
    BY DEF BusInv, Deliveries, Appending, Publishes
  <1>11. Waiting' = Waiting \ {Current(t)}
    BY <1>5, <1>9, <1>10 DEF Waiting
  <1>12. Appended' = Appended \cup {Current(t)}
    BY <1>7, <1>8, <1>11 DEF Appended
  <1> QED BY <1>2, <1>4, <1>5, <1>6, <1>7, <1>12

LEMMA AppendEventStep ==
    ASSUME BusInv, NEW t \in Publishers, AppendEvent(t)
    PROVE  BusInv'
  <1>1. BusTypeOK /\ publisher[t].step = "append" /\ Publishes(t) /\ Appending(t)
    BY DEF BusInv, AppendEvent, Publishes, Appending
  <1> PICK e \in Published : e = Current(t)
    BY <1>1, Live
  <1>2. history' = Cut(Append(history, e)) /\ Moves(t, "deliver", subscribers) /\ events' = events
    BY DEF AppendEvent, Current
  <1>3. /\ subscribers' = subscribers /\ reached' = reached
        /\ produced' = produced /\ handlerRaises' = handlerRaises
    BY DEF AppendEvent
  <1>4. /\ publisher' \in [Publishers -> Threads]
        /\ publisher'[t].step = "deliver" /\ publisher'[t].event = e
        /\ publisher'[t].left = subscribers
        /\ \A u \in Publishers \ {t} : publisher'[u] = publisher[u]
        /\ \A u \in Publishers : (Publishes(u)' <=> Publishes(u)) /\ Current(u)' = Current(u)
        /\ Returned' = Returned /\ Published' = Published
        /\ Appended' = Appended \cup {e}
    BY <1>1, <1>2, BusFields, Goes DEF Current
  <1>5. /\ Delivery(t) /\ e \notin Returned /\ \A f \in Published : e \notin events[f].after
    BY <1>1, Live
  <1>6. /\ events[e].to \subseteq ToSet(subscribers) /\ e \notin ToSet(history)
        /\ \A h \in Handlers : e \notin ToSet(reached[h])
    BY <1>1, <1>5 DEF Delivery
  <1> DEFINE l == Append(history, e)
  <1>7. /\ history \in Seq(Published) /\ Len(history) <= HistoryLimit /\ Len(history) \in Nat
        /\ ToSet(history) \subseteq Published /\ HistoryLimit \in Nat \ {0}
    BY <1>1, BusFields, BusAssumption
  <1>8. /\ l \in Seq(Published) /\ Len(l) = Len(history) + 1
        /\ \A i \in 1 .. Len(history) : l[i] = history[i]
        /\ l[Len(history) + 1] = e /\ ToSet(l) = ToSet(history) \cup {e}
    BY <1>7, Appends
  <1>9. Ordered(l, events)
    BY <1>5, <1>6, <1>7, OrderedAppend DEF BusInv, Orders
  <1>10. /\ history' \in Seq(Published) /\ Len(history') <= HistoryLimit /\ Len(history') \in Nat
         /\ Len(history) < HistoryLimit => history' = l
         /\ Len(history) = HistoryLimit =>
               /\ Len(history') = Len(history) /\ \A i \in 1 .. Len(history') : history'[i] = l[i + 1]
    <2> DEFINE c == Cut(Append(history, e))
    <2>1. /\ c \in Seq(Published) /\ Len(c) <= HistoryLimit
          /\ Len(history) < HistoryLimit => c = l
          /\ Len(history) = HistoryLimit =>
                /\ Len(c) = Len(history) /\ \A i \in 1 .. Len(c) : c[i] = l[i + 1]
      BY <1>7, Cuts
    <2>2. history' = c
      BY <1>2
    <2> HIDE DEF c, l
    <2> QED BY <2>1, <2>2, Members
  <1> HIDE DEF l
  <1>11. Len(history) < HistoryLimit \/ Len(history) = HistoryLimit
    BY <1>7
  <1>12. Ordered(history', events)
    <2>1. CASE Len(history) < HistoryLimit
      BY <1>9, <1>10, <2>1
    <2>2. CASE Len(history) = HistoryLimit
      <3>1. \A i \in 1 .. Len(history') : i + 1 \in 1 .. Len(l)
        BY <1>7, <1>8, <1>10, <2>2
      <3>2. \A i, j \in 1 .. Len(history') : i < j => i + 1 < j + 1
        BY <1>10
      <3> QED BY <1>9, <1>10, <2>2, <3>1, <3>2 DEF Ordered
    <2> QED BY <1>11, <2>1, <2>2
  (* What is kept of the new history is of it, and what is dropped is its first. *)
  <1>13. /\ ToSet(history') \subseteq ToSet(l)
         /\ Len(history) = HistoryLimit =>
               \A f \in ToSet(l) \ ToSet(history') : f = l[1]
    <2>1. CASE Len(history) < HistoryLimit
      BY <1>7, <1>10, <2>1
    <2>2. CASE Len(history) = HistoryLimit
      <3>1. \A i \in 1 .. Len(history') : i + 1 \in 1 .. Len(l)
        BY <1>7, <1>8, <1>10, <2>2
      <3>2. ToSet(history') \subseteq ToSet(l)
        <4> SUFFICES ASSUME NEW f \in ToSet(history')
                     PROVE  f \in ToSet(l)
          OBVIOUS
        <4>1. PICK i \in 1 .. Len(history') : f = history'[i]
          BY <1>10, Members
        <4>2. f = l[i + 1] /\ i + 1 \in 1 .. Len(l)
          BY <1>10, <2>2, <3>1, <4>1
        <4> QED BY <1>8, <4>2, Members
      <3>3. ASSUME NEW i \in 1 .. Len(l), i # 1
            PROVE  l[i] \in ToSet(history')
        <4>1. i - 1 \in 1 .. Len(history') /\ (i - 1) + 1 = i
          BY <1>7, <1>8, <1>10, <2>2, <3>3
        <4>2. history'[i - 1] = l[i]
          BY <1>10, <2>2, <4>1
        <4> QED BY <1>10, <4>1, <4>2, Members
      <3> QED BY <1>8, <3>2, <3>3, Members
    <2> QED BY <1>11, <2>1, <2>2
  <1>14. e \in ToSet(history')
    <2>1. CASE Len(history) < HistoryLimit
      BY <1>8, <1>10, <2>1
    <2>2. CASE Len(history) = HistoryLimit
      <3>1. Len(history) \in 1 .. Len(history')
        BY <1>7, <1>10, <2>2
      <3>2. history'[Len(history)] = e
        BY <1>8, <1>10, <2>2, <3>1
      <3> QED BY <1>10, <3>1, <3>2, Members
    <2> QED BY <1>11, <2>1, <2>2
  <1>15. NewestKept'
    <2>1. ASSUME NEW d \in Appended' \ ToSet(history'), NEW f \in ToSet(history')
          PROVE  f \notin events[d].after
      <3>1. d \in Appended /\ d # e /\ d \in Published
        BY <1>4, <1>14, <2>1 DEF Appended
      <3>2. CASE f = e
        BY <1>5, <3>1, <3>2
      <3>3. CASE f # e
        <4>1. f \in ToSet(history)
          BY <1>8, <1>13, <3>3
        <4>2. CASE d \notin ToSet(history)
          BY <3>1, <4>1, <4>2 DEF BusInv, NewestKept
        <4>3. CASE d \in ToSet(history)
          <5>1. Len(history) = HistoryLimit
            BY <1>8, <1>10, <1>11, <2>1, <4>3
          <5>2. d = l[1]
            BY <1>8, <1>13, <2>1, <4>3, <5>1
          <5>3. PICK i \in 1 .. Len(history') : f = history'[i]
            BY <1>10, Members
          <5>4. f = l[i + 1] /\ i + 1 \in 1 .. Len(l) /\ 1 \in 1 .. Len(l) /\ 1 < i + 1
            BY <1>7, <1>8, <1>10, <5>1, <5>3
          <5> QED BY <1>9, <5>2, <5>4 DEF Ordered
        <4> QED BY <4>2, <4>3
      <3> QED BY <3>2, <3>3
    <2>2. Len(history') < HistoryLimit => Appended' \subseteq ToSet(history')
      <3>1. ASSUME Len(history') < HistoryLimit PROVE Len(history) < HistoryLimit /\ history' = l
        BY <1>10, <1>11, <3>1
      <3> QED BY <1>4, <1>8, <3>1 DEF BusInv, NewestKept
    <2> QED BY <1>2, <2>1, <2>2 DEF NewestKept
  <1>16. BusTypeOK'
    BY <1>1, <1>2, <1>3, <1>4, <1>10 DEF BusTypeOK, Threads
  <1>17. Deliveries'
    <2>1. ASSUME NEW u \in Publishers, Publishes(u)'
          PROVE  Delivery(u)'
      <3>1. CASE u = t
        <4>1. e \notin ToSet(produced)
          BY <1>5 DEF Delivery
        <4>2. ~Appending(t)'
          BY <1>4 DEF Appending
        <4> QED BY <1>1, <1>2, <1>3, <1>4, <1>6, <3>1, <4>1, <4>2, BusFields
               DEF Delivery, Current, BusInv, NoneTwice
      <3>2. CASE u # t
        <4>1. Publishes(u) /\ Delivery(u) /\ publisher'[u] = publisher[u] /\ Current(u) # e
          BY <1>1, <1>4, <2>1, <3>2 DEF BusInv, Deliveries
        <4>2. Current(u) \notin ToSet(history) => Current(u) \notin ToSet(history')
          BY <1>8, <1>13, <4>1
        <4> QED BY <1>2, <1>3, <1>4, <4>1, <4>2 DEF Delivery, Current, Appending
      <3> QED BY <3>1, <3>2
    <2> QED BY <1>4, <2>1 DEF Deliveries, BusInv
  <1>18. Orders'
    BY <1>2, <1>3, <1>4, <1>12 DEF Orders, BusInv
  <1>19. AllCalled'
    BY <1>2, <1>3, <1>4 DEF AllCalled, BusInv
  <1> QED BY <1>2, <1>3, <1>15, <1>16, <1>17, <1>18, <1>19 DEF BusInv, NoneTwice

LEMMA DeliverStep ==
    ASSUME BusInv, NEW t \in Publishers, NEW raised \in BOOLEAN, Deliver(t, raised)
    PROVE  BusInv'
  <1>1. /\ BusTypeOK /\ publisher[t].step = "deliver" /\ Publishes(t) /\ ~Appending(t)
        /\ publisher[t].left # <<>>
    BY DEF BusInv, Deliver, Publishes, Appending
  <1> PICK e \in Published : e = Current(t)
    BY <1>1, Live
  <1> PICK left \in Seq(Handlers) : left = publisher[t].left
    BY <1>1, BusFields DEF Threads
  <1> PICK h : h = Head(left)
    OBVIOUS
  <1>2. /\ h \in Handlers /\ Tail(left) \in Seq(Handlers) /\ Len(Tail(left)) = Len(left) - 1
        /\ Len(left) \in Nat \ {0} /\ h = left[1]
        /\ \A i \in 1 .. Len(Tail(left)) : Tail(left)[i] = left[i + 1]
    BY <1>1
  <1>3. /\ reached' = [reached EXCEPT ![h] = Append(@, e)] /\ events' = events
        /\ Moves(t, "deliver", Tail(left))
        /\ subscribers' = subscribers /\ history' = history /\ produced' = produced
    BY DEF Deliver, Current, LeftAfter
  <1>4. /\ publisher' \in [Publishers -> Threads]
        /\ publisher'[t].step = "deliver" /\ publisher'[t].event = e
        /\ publisher'[t].left = Tail(left)
        /\ \A u \in Publishers \ {t} : publisher'[u] = publisher[u]
        /\ \A u \in Publishers : (Publishes(u)' <=> Publishes(u)) /\ Current(u)' = Current(u)
        /\ Returned' = Returned /\ Published' = Published
        /\ Appended' = Appended \cup {e}
    BY <1>1, <1>2, <1>3, Goes DEF Current
  <1>5. /\ Delivery(t) /\ e \notin Returned /\ \A f \in Published : e \notin events[f].after
    BY <1>1, Live
  <1>6. /\ e \notin ToSet(produced) /\ NoneTwice(left)
        /\ \A k \in ToSet(left) : e \notin ToSet(reached[k])
        /\ \A k \in events[e].to : k \in ToSet(left) \/ e \in ToSet(reached[k])
    BY <1>1, <1>5 DEF Delivery
  <1>7. ToSet(left) = ToSet(Tail(left)) \cup {h} /\ h \notin ToSet(Tail(left)) /\ NoneTwice(Tail(left))
    <2> DEFINE rest == Tail(left)
    <2>1. \A i \in 1 .. Len(rest) : rest[i] = left[i + 1] /\ i + 1 \in 1 .. Len(left) /\ 1 < i + 1
      BY <1>2
    <2>2. \A i, j \in 1 .. Len(rest) : i < j => i + 1 < j + 1
      OBVIOUS
    <2>3. 1 \in 1 .. Len(left)
      BY <1>2
    <2>4. NoneTwice(rest) /\ \A i \in 1 .. Len(rest) : rest[i] # h
      BY <1>2, <1>6, <2>1, <2>2, <2>3 DEF NoneTwice
    <2>5. ASSUME NEW i \in 1 .. Len(left), i # 1
          PROVE  left[i] \in ToSet(rest)
      <3>1. i - 1 \in 1 .. Len(rest) /\ (i - 1) + 1 = i
        BY <1>2, <2>5
      <3>2. rest[i - 1] = left[i]
        BY <2>1, <3>1
      <3> QED BY <1>2, <3>1, <3>2, Members
    <2>6. ToSet(left) \subseteq ToSet(rest) \cup {h}
      BY <1>2, <2>5, Members
    <2>7. \A f \in ToSet(rest) : f \in ToSet(left) /\ f # h
      <3> TAKE f \in ToSet(rest)
      <3>0. rest \in Seq(Handlers)
        BY <1>2
      <3> HIDE DEF rest
      <3>1. PICK i \in 1 .. Len(rest) : f = rest[i]
        BY <3>0, Members
      <3> QED BY <2>1, <2>4, <3>1, Members
    <2>8. h \in ToSet(left)
      BY <1>2, <2>3, Members
    <2> QED BY <2>4, <2>6, <2>7, <2>8
  <1>8. reached \in [Handlers -> Seq(Published)] /\ reached[h] \in Seq(Published)
    BY <1>1, <1>2 DEF BusTypeOK
  <1>9. /\ reached' \in [Handlers -> Seq(Published)] /\ reached'[h] = Append(reached[h], e)
        /\ \A k \in Handlers \ {h} : reached'[k] = reached[k]
    <2>1. Append(reached[h], e) \in Seq(Published)
      BY <1>8, Appends
    <2> QED BY <1>2, <1>3, <1>8, <2>1
  <1>10. /\ ToSet(reached'[h]) = ToSet(reached[h]) \cup {e}
    BY <1>8, <1>9, Appends
  <1>11. \A k \in Handlers : \A f : f # e => (f \in ToSet(reached'[k]) <=> f \in ToSet(reached[k]))
    BY <1>9, <1>10
  <1>12. Orders'
    <2>1. e \notin ToSet(reached[h]) /\ ToSet(reached[h]) \subseteq Published
      BY <1>1, <1>2, <1>6, <1>7, BusFields
    <2>2. Ordered(reached[h], events)
      BY <1>2 DEF BusInv, Orders
    <2>a. \A f \in ToSet(reached[h]) : e \notin events[f].after
      BY <1>5, <2>1
    <2>b. Ordered(Append(reached[h], e), events)
      BY <1>8, <2>1, <2>2, <2>a, OrderedAppend
    <2>3. Ordered(reached'[h], events)
      BY <1>9, <2>b
    <2>4. \A k \in Handlers : Ordered(reached'[k], events)
      BY <1>9, <2>3 DEF BusInv, Orders
    <2> QED BY <1>3, <1>4, <2>4 DEF Orders, BusInv
  <1>13. BusTypeOK'
    <2>1. handlerRaises' \in 0 .. MaxHandlerRaises
      BY <1>1, BusAssumption DEF Deliver, BusTypeOK
    <2> QED BY <1>1, <1>3, <1>4, <1>9, <2>1 DEF BusTypeOK, Threads
  <1>14. \A f \in Published, k \in Handlers : f \in ToSet(reached[k]) => f \in ToSet(reached'[k])
    BY <1>9, <1>10
  <1>15. \A f \in Published : events[f].to \subseteq Handlers
    BY <1>1, BusFields DEF EventRecords
  <1>16. Deliveries'
    <2>1. ASSUME NEW u \in Publishers, Publishes(u)'
          PROVE  Delivery(u)'
      <3>1. CASE u = t
        <4>1. ~Appending(t)'
          BY <1>4 DEF Appending
        <4>2. \A k \in ToSet(Tail(left)) : e \notin ToSet(reached'[k])
          BY <1>2, <1>6, <1>7, <1>9, Members
        <4>3. \A k \in events[e].to : k \in ToSet(Tail(left)) \/ e \in ToSet(reached'[k])
          BY <1>6, <1>7, <1>10, <1>14, <1>15
        <4> QED BY <1>3, <1>4, <1>6, <1>7, <3>1, <4>1, <4>2, <4>3 DEF Delivery, Current
      <3>2. CASE u # t
        <4>1. /\ Publishes(u) /\ Delivery(u) /\ publisher'[u] = publisher[u] /\ Current(u) # e
              /\ Current(u)' = Current(u) /\ Current(u) \in Published
          BY <1>1, <1>4, <2>1, <3>2 DEF BusInv, Deliveries, Delivery
        <4>2. \A k \in Handlers : Current(u) \in ToSet(reached'[k]) <=> Current(u) \in ToSet(reached[k])
          BY <1>11, <4>1
        <4>3. ToSet(publisher[u].left) \subseteq Handlers
          BY <1>1, BusFields, Members DEF Threads
        <4> QED BY <1>3, <1>4, <1>15, <4>1, <4>2, <4>3 DEF Delivery, Current, Appending
      <3> QED BY <3>1, <3>2
    <2> QED BY <1>4, <2>1 DEF Deliveries, BusInv
  <1>17. AllCalled'
    <2>1. Returned \subseteq Published
      BY DEF Returned, Published
    <2> QED BY <1>3, <1>4, <1>14, <1>15, <2>1 DEF AllCalled, BusInv
  <1>18. e \in Appended
    <2>1. \A u \in Publishers : Appending(u) => Current(u) # e
      BY <1>1 DEF BusInv, Deliveries, Appending, Publishes
    <2> QED BY <2>1 DEF Appended, Waiting
  <1>19. NewestKept'
    BY <1>3, <1>4, <1>18 DEF NewestKept, BusInv
  <1> QED BY <1>3, <1>12, <1>13, <1>16, <1>17, <1>19 DEF BusInv, NoneTwice

LEMMA SendStep ==
    ASSUME BusInv, NEW t \in Publishers, Send(t)
    PROVE  BusInv'
  <1>1. /\ BusTypeOK /\ publisher[t].step = "deliver" /\ Publishes(t) /\ ~Appending(t)
        /\ publisher[t].left = <<>>
    BY DEF BusInv, Send, Publishes, Appending
  <1> PICK e \in Published : e = Current(t)
    BY <1>1, Live
  <1>2. /\ produced' \in {produced, Append(produced, e)} /\ publisher' = [publisher EXCEPT ![t] = Idle]
        /\ events' = events /\ subscribers' = subscribers /\ history' = history /\ reached' = reached
        /\ handlerRaises' = handlerRaises
    BY DEF Send, Current
  <1>3. Idle \in Threads /\ Idle.step = "idle"
    BY BusAssumption DEF Idle, Threads
  <1>4. /\ publisher' \in [Publishers -> Threads] /\ publisher'[t] = Idle
        /\ \A u \in Publishers \ {t} : publisher'[u] = publisher[u]
    BY <1>1, <1>2, <1>3, ThreadSet
  <1>5. /\ Delivery(t) /\ e \notin Returned /\ \A f \in Published : e \notin events[f].after
    BY <1>1, Live
  <1>6. e \notin ToSet(produced) /\ \A h \in events[e].to : e \in ToSet(reached[h])
    <2>1. ToSet(<<>>) = {}
      BY DEF ToSet
    <2> QED BY <1>1, <1>5, <2>1 DEF Delivery
  <1>7. \A u \in Publishers : (Publishes(u)' <=> Publishes(u) /\ u # t) /\ (Appending(u)' <=> Appending(u))
    BY <1>1, <1>3, <1>4 DEF Publishes, Appending
  <1>8. \A u \in Publishers : u # t => Current(u)' = Current(u)
    BY <1>4 DEF Current
  <1>9. \A u \in Publishers : Publishes(u) /\ u # t => Current(u) # e
    BY <1>1 DEF BusInv, Deliveries
  <1>10. Publishing' = Publishing \ {e}
    BY <1>1, <1>7, <1>8, <1>9 DEF Publishing, Publishes, Current
  <1>11. Published' = Published /\ Returned' = Returned \cup {e}
    BY <1>2, <1>10 DEF Published, Returned
  <1>12. Waiting' = Waiting
    BY <1>1, <1>7, <1>8 DEF Waiting
  <1>13. Appended' = Appended
    BY <1>11, <1>12 DEF Appended
  <1>14. /\ produced' \in Seq(Published) /\ Ordered(produced', events)
         /\ ToSet(produced') \subseteq ToSet(produced) \cup {e}
    <2>1. produced \in Seq(Published) /\ ToSet(produced) \subseteq Published /\ Ordered(produced, events)
      BY <1>1, BusFields DEF BusInv, Orders
    <2>2. CASE produced' = produced
      BY <2>1, <2>2
    <2>3. CASE produced' = Append(produced, e)
      BY <1>5, <1>6, <2>1, <2>3, Appends, OrderedAppend
    <2> QED BY <1>2, <2>2, <2>3
  <1>15. BusTypeOK'
    BY <1>1, <1>2, <1>4, <1>11, <1>14 DEF BusTypeOK, Threads
  <1>16. Deliveries'
    <2>1. ASSUME NEW u \in Publishers, Publishes(u)'
          PROVE  Delivery(u)'
      <3>1. /\ Publishes(u) /\ Delivery(u) /\ publisher'[u] = publisher[u] /\ Current(u) # e
            /\ Current(u)' = Current(u)
        BY <1>4, <1>7, <1>8, <1>9, <2>1 DEF BusInv, Deliveries
      <3> QED BY <1>2, <1>7, <1>11, <1>14, <3>1 DEF Delivery, Current, Appending
    <2> QED BY <1>7, <1>8, <2>1 DEF Deliveries, BusInv
  <1>17. Orders'
    BY <1>2, <1>11, <1>14 DEF Orders, BusInv
  <1>18. AllCalled'
    BY <1>2, <1>6, <1>11 DEF AllCalled, BusInv
  <1>19. NewestKept'
    BY <1>2, <1>13 DEF NewestKept, BusInv
  <1> QED BY <1>2, <1>15, <1>16, <1>17, <1>18, <1>19 DEF BusInv, NoneTwice

LEMMA BusInitInv ==
    ASSUME BusInit
    PROVE  BusInv
  <1>1. Idle \in Threads /\ Idle.step = "idle"
    BY BusAssumption DEF Idle, Threads
  <1>2. /\ events = <<>> /\ publisher = [t \in Publishers |-> Idle] /\ subscribers = <<>> /\ history = <<>>
        /\ reached = [h \in Handlers |-> <<>>] /\ produced = <<>> /\ handlerRaises = 0
    BY DEF BusInit
  <1>3. BusTypeOK
    BY <1>1, <1>2, BusAssumption DEF BusTypeOK, Threads
  <1>4. Published = {} /\ Returned = {} /\ Appended = {}
    BY <1>2 DEF Published, Returned, Appended
  <1>5. \A t \in Publishers : ~Publishes(t)
    BY <1>1, <1>2 DEF Publishes
  <1>6. NoneTwice(<<>>) /\ \A all : Ordered(<<>>, all)
    BY DEF NoneTwice, Ordered
  <1> QED BY <1>2, <1>3, <1>4, <1>5, <1>6, BusAssumption
          DEF BusInv, Deliveries, Orders, AllCalled, NewestKept

LEMMA BusNextInv ==
    ASSUME BusInv, [BusNext]_busVars
    PROVE  BusInv'
  <1>1. CASE UNCHANGED busVars
    <2>1. /\ events' = events /\ publisher' = publisher /\ subscribers' = subscribers /\ history' = history
          /\ reached' = reached /\ produced' = produced /\ handlerRaises' = handlerRaises
      BY <1>1 DEF busVars
    <2>2. Published' = Published /\ Returned' = Returned /\ Appended' = Appended
      BY <2>1 DEF Published, Returned, Publishing, Appended, Waiting, Current, Appending
    <2>3. BusTypeOK' /\ NoneTwice(subscribers')
      BY <2>1 DEF BusInv, BusTypeOK, Published
    <2>4. Deliveries'
      BY <2>1, <2>2 DEF BusInv, Deliveries, Publishes, Delivery, Current, Appending
    <2>5. Orders' /\ AllCalled' /\ NewestKept'
      BY <2>1, <2>2 DEF BusInv, Orders, AllCalled, NewestKept
    <2> QED BY <2>1, <2>3, <2>4, <2>5 DEF BusInv, NoneTwice
  <1> QED BY <1>1, SubscribeStep, PublishStep, AppendEventStep, DeliverStep, SendStep DEF BusNext

(* What is under way in publish, and what has been delivered, holds in     *)
(* every state, for any number of publishers and handlers                  *)
(* (event_bus.py:67-83).                                                   *)
THEOREM BusInvariance == BusSpec => []BusInv
  <1>1. BusInit => BusInv
    BY BusInitInv
  <1>2. BusInv /\ [BusNext]_busVars => BusInv'
    BY BusNextInv
  <1> QED BY <1>1, <1>2, PTL DEF BusSpec

(* The history never exceeds its limit, and histories, threads and         *)
(* subscribers keep their types (event_bus.py:61-83).                      *)
THEOREM BusTypeCorrect == BusSpec => []BusTypeOK
  <1>1. BusInv => BusTypeOK
    BY DEF BusInv
  <1> QED BY <1>1, BusInvariance, PTL

(* However publishers interleave and handlers raise, every reader gets     *)
(* events in an order that agrees with the publishes that did not overlap, *)
(* none twice, and every handler is called (event_bus.py:67-83, 162-168).  *)
THEOREM BusOrdered == BusSpec => []BusKeepsOrder
  <1>1. ASSUME BusInv PROVE BusKeepsOrder
    <2>1. InOrder(history) /\ InOrder(produced) /\ \A h \in Handlers : InOrder(reached[h])
      BY <1>1 DEF BusInv, Orders, Ordered, InOrder, Positions
    <2>2. Returned \subseteq Appended
      BY DEF Returned, Appended, Waiting, Publishing, Appending, Current, Published
    <2>3. \A e \in Returned \ ToSet(history) : \A f \in ToSet(history) : f \notin events[e].after
      BY <1>1, <2>2 DEF BusInv, NewestKept
    <2>4. ASSUME Cardinality(Returned) >= HistoryLimit
          PROVE  Len(history) = HistoryLimit
      <3>1. history \in Seq(Published) /\ Len(history) <= HistoryLimit /\ Len(history) \in Nat
        BY <1>1, BusFields DEF BusInv
      <3>2. CASE Len(history) < HistoryLimit
        <4>1. Returned \subseteq ToSet(history)
          BY <1>1, <2>2, <3>2 DEF BusInv, NewestKept
        <4>2. Cardinality(Returned) <= Cardinality(ToSet(history)) /\ Cardinality(Returned) \in Nat
          BY <3>1, <4>1, FewElements, FS_Subset, FS_CardinalityType
        <4>3. Cardinality(ToSet(history)) \in Nat /\ Cardinality(ToSet(history)) <= Len(history)
          BY <3>1, FewElements
        <4> QED BY <2>4, <3>1, <3>2, <4>2, <4>3, BusAssumption
      <3> QED BY <3>1, <3>2, BusAssumption
    <2> QED BY <1>1, <2>1, <2>3, <2>4 DEF BusInv, AllCalled, BusKeepsOrder
  <1> QED BY <1>1, BusInvariance, PTL

-----------------------------------------------------------------------------
(* SanctionsList. All answers of a process are right about one list.       *)

(* The verdict on a name does not depend on the list. *)
ListFree(name) == Normalised[name] = <<>> \/ Watched(Normalised[name])

Right(pair, list) == pair[2] = Verdict(pair[1], list, list)

RightFindings(found, list) == \A f \in found : Right(f, list)

RightMemo(list) == \A n \in DOMAIN verdicts : verdicts[n] = Verdict(n, list, list)

BeforeRead ==
    /\ sorted = NotRead /\ given = {}
    /\ \A n \in DOMAIN verdicts : ListFree(n) /\ verdicts[n] = Verdict(n, {}, {})
    /\ \A t \in Screeners :
          /\ \A f \in screening[t].found : ListFree(f[1]) /\ f[2] = Verdict(f[1], {}, {})
          /\ screening[t].step # "compare"
          /\ screening[t].step = "keep" => screening[t].own = file

AfterRead ==
    /\ names \in seen /\ sorted \in {NotRead, names}
    /\ RightMemo(names)
    /\ \A t \in Screeners :
          /\ RightFindings(screening[t].found, names)
          /\ screening[t].step \in {"keep", "compare"} => screening[t].own = names
    /\ \A g \in given : RightFindings(g.found, names) /\ (g.ofac <=> names # {})

OneList ==
    ~split => IF names = NotRead THEN BeforeRead ELSE AfterRead

(* The type invariant, in the form the induction needs. *)
MemoOK ==
    /\ verdicts \in [DOMAIN verdicts -> Verdicts]
    /\ DOMAIN verdicts \subseteq Typed /\ IsFiniteSet(DOMAIN verdicts)
    /\ Cardinality(DOMAIN verdicts) <= CacheSize

ListInv == ListTypeOK /\ MemoOK /\ OneList

-----------------------------------------------------------------------------
(* Verdicts. *)

LEMMA VerdictType ==
    ASSUME NEW n, NEW a, NEW b
    PROVE  Verdict(n, a, b) \in Verdicts
BY DEF Verdict, Verdicts

LEMMA WithoutList ==
    ASSUME NEW n, ListFree(n), NEW list
    PROVE  Verdict(n, {}, {}) = Verdict(n, list, list)
BY DEF Verdict, ListFree

-----------------------------------------------------------------------------
(* The cache of verdicts: what Remember leaves in it. *)

LEMMA RememberKeeps ==
    ASSUME MemoOK, NEW name \in Typed, NEW v \in Verdicts, Remember(name, v)
    PROVE  /\ MemoOK'
           /\ \A n \in DOMAIN verdicts' :
                 \/ n = name /\ verdicts'[n] = v
                 \/ n \in DOMAIN verdicts /\ verdicts'[n] = verdicts[n]
<1>1. CASE name \in DOMAIN verdicts
  <2>1. verdicts' = verdicts
    BY <1>1 DEF Remember
  <2>2. QED
    BY <2>1 DEF MemoOK
<1>2. CASE name \notin DOMAIN verdicts
  <2>1. PICK kept \in SUBSET DOMAIN verdicts :
            /\ IF Cardinality(DOMAIN verdicts) < CacheSize THEN kept = DOMAIN verdicts
               ELSE Cardinality(kept) = CacheSize - 1
            /\ verdicts' = [n \in kept \cup {name} |-> IF n = name THEN v ELSE verdicts[n]]
    BY <1>2 DEF Remember
  <2>2. IsFiniteSet(kept) /\ IsFiniteSet(DOMAIN verdicts)
    BY <2>1, FS_Subset DEF MemoOK
  <2>3. Cardinality(kept) \in Nat /\ Cardinality(DOMAIN verdicts) \in Nat
    BY <2>2, FS_CardinalityType
  <2>4. Cardinality(kept) < CacheSize
    BY <2>1, <2>3, ListBounds
  <2>5. /\ IsFiniteSet(kept \cup {name})
        /\ Cardinality(kept \cup {name}) = Cardinality(kept) + 1
    BY <1>2, <2>1, <2>2, FS_AddElement
  <2>6. Cardinality(kept \cup {name}) <= CacheSize
    BY <2>3, <2>4, <2>5, ListBounds
  <2>7. DOMAIN verdicts' = kept \cup {name}
    BY <2>1
  <2>8. \A n \in kept \cup {name} :
            \/ n = name /\ verdicts'[n] = v
            \/ n \in DOMAIN verdicts /\ verdicts'[n] = verdicts[n]
    BY <2>1
  <2>9. verdicts' \in [kept \cup {name} -> Verdicts]
    BY <2>1 DEF MemoOK
  <2>10. kept \cup {name} \subseteq Typed
    BY <2>1 DEF MemoOK
  <2>11. MemoOK'
    BY <2>5, <2>6, <2>7, <2>9, <2>10 DEF MemoOK
  <2>12. QED
    BY <2>7, <2>8, <2>11
<1>3. QED
  BY <1>1, <1>2

-----------------------------------------------------------------------------
(* Types. *)

Checks == [step : {"idle", "name", "names", "keep", "compare"}, left : Seq(Typed),
           found : Findings, own : ListContents]

LEMMA NoScreeningType == NoScreening \in Checks
BY DEF NoScreening, Checks, Findings, ListContents

LEMMA NameType ==
    ASSUME ListTypeOK, NEW t \in Screeners, screening[t].left # <<>>
    PROVE  Name(t) \in Typed /\ Tail(screening[t].left) \in Seq(Typed)
<1>1. screening[t].left \in Seq(Typed)
  BY DEF ListTypeOK
<1>2. QED
  BY <1>1, HeadTailProperties DEF Name

LEMMA FindsType ==
    ASSUME ListTypeOK, NEW t \in Screeners, screening[t].left # <<>>,
           NEW v \in Verdicts, Finds(t, v)
    PROVE  /\ screening' \in [Screeners -> Checks]
           /\ screening'[t].found = screening[t].found \cup {<<Name(t), v>>}
           /\ screening'[t].step = "name"
           /\ \A u \in Screeners \ {t} : screening'[u] = screening[u]
<1>1. Name(t) \in Typed /\ Tail(screening[t].left) \in Seq(Typed)
  BY NameType
<1>2. screening \in [Screeners -> Checks]
  BY DEF ListTypeOK, Checks
<1>3. screening[t].found \cup {<<Name(t), v>>} \in Findings
  BY <1>1, <1>2 DEF Checks, Findings
<1>4. screening' = [screening EXCEPT ![t] =
          [screening[t] EXCEPT !.step = "name", !.left = Tail(screening[t].left),
                               !.found = screening[t].found \cup {<<Name(t), v>>}]]
  BY <1>2 DEF Finds, Checks
<1>5. [screening[t] EXCEPT !.step = "name", !.left = Tail(screening[t].left),
                           !.found = screening[t].found \cup {<<Name(t), v>>}] \in Checks
  BY <1>1, <1>2, <1>3 DEF Checks
<1>6. QED
  BY <1>2, <1>4, <1>5 DEF Checks

(* What an action that leaves the file alone has to keep of the types.     *)
LEMMA TypeFrame ==
    ASSUME ListTypeOK, UNCHANGED fileVars, MemoOK',
           names' \in ListContents \cup {NotRead}, sorted' \in ListContents \cup {NotRead},
           screening' \in [Screeners -> Checks],
           given' \subseteq [found : Findings, ofac : BOOLEAN]
    PROVE  ListTypeOK'
BY DEF ListTypeOK, fileVars, MemoOK, Checks

-----------------------------------------------------------------------------
(* The invariant is inductive. *)

LEMMA ListInitInv == ListInit => ListInv
<1> SUFFICES ASSUME ListInit PROVE ListInv
  OBVIOUS
<1>1. DOMAIN verdicts = {} /\ verdicts \in [DOMAIN verdicts -> Verdicts]
  BY DEF ListInit
<1>2. MemoOK
  BY <1>1, FS_EmptySet, ListBounds DEF MemoOK
<1>3. \A t \in Screeners : screening[t] = NoScreening
  BY DEF ListInit
<1>4. ListTypeOK
  BY <1>1, <1>2, NoScreeningType DEF ListInit, ListTypeOK, MemoOK, Checks, ListContents
<1>5. OneList
  BY <1>1, <1>3 DEF ListInit, OneList, BeforeRead, NoScreening
<1>6. QED
  BY <1>2, <1>4, <1>5 DEF ListInv

LEMMA ChangesInv ==
    ASSUME ListInv, NEW content \in ListContents, Changes(content),
           download' \in Editions \cup {NoEdition}
    PROVE  ListInv'
<1> USE DEF ListInv
<1>1. \A t \in Screeners :
          /\ screening'[t].found = screening[t].found
          /\ screening'[t].step = screening[t].step
          /\ screening'[t].own = screening[t].own
          /\ screening'[t] \in Checks
  BY DEF Changes, ListTypeOK, Checks
<1>2. MemoOK'
  BY DEF Changes, MemoOK
<1>3. ListTypeOK'
  BY <1>1 DEF Changes, ListTypeOK, Checks
<1>4. ASSUME ~split' PROVE OneList'
  <2>1. ~split /\ \A t \in Screeners : screening[t].step # "keep"
    BY <1>4 DEF Changes, In, ListTypeOK
  <2>2. CASE names = NotRead
    BY <1>1, <2>1, <2>2 DEF Changes, OneList, BeforeRead
  <2>3. CASE names # NotRead
    BY <1>1, <2>1, <2>3 DEF Changes, OneList, AfterRead, RightMemo, RightFindings
  <2>4. QED
    BY <2>2, <2>3
<1>5. QED
  BY <1>2, <1>3, <1>4 DEF OneList

LEMMA ScreenInv ==
    ASSUME ListInv, NEW t \in Screeners, Screen(t)
    PROVE  ListInv'
<1> USE DEF ListInv
<1>1. PICK call \in Calls :
          screening' = [screening EXCEPT ![t] =
              [NoScreening EXCEPT !.step = "name", !.left = call]]
  BY DEF Screen
<1>2. [NoScreening EXCEPT !.step = "name", !.left = call] \in Checks
  BY CallsAssumption, NoScreeningType DEF NoScreening, Checks, ListTypeOK
<1>3. screening' \in [Screeners -> Checks]
  BY <1>1, <1>2 DEF ListTypeOK, Checks
<1>4. /\ screening'[t].found = {} /\ screening'[t].step = "name"
      /\ \A u \in Screeners \ {t} : screening'[u] = screening[u]
  BY <1>1 DEF ListTypeOK, NoScreening
<1>5. UNCHANGED <<fileVars, names, sorted, verdicts, given>>
  BY DEF Screen
<1>6. MemoOK'
  BY <1>5 DEF MemoOK
<1>7. ListTypeOK'
  BY <1>3, <1>5, <1>6, TypeFrame DEF ListTypeOK
<1>8. OneList'
  <2>1. CASE names = NotRead
    BY <1>4, <1>5, <2>1 DEF OneList, BeforeRead, fileVars
  <2>2. CASE names # NotRead
    BY <1>4, <1>5, <2>2 DEF OneList, AfterRead, RightMemo, RightFindings, fileVars
  <2>3. QED
    BY <2>1, <2>2
<1>9. QED
  BY <1>6, <1>7, <1>8

(* A verdict is reached on the name a thread is at, and may be remembered. *)
LEMMA FindsInv ==
    ASSUME ListInv, NEW t \in Screeners, screening[t].left # <<>>, NEW v \in Verdicts,
           Finds(t, v), Remember(Name(t), v) \/ verdicts' = verdicts,
           UNCHANGED <<fileVars, names, given>>,
           sorted' = sorted \/ (names # NotRead /\ sorted' = names),
           ~split =>
              IF names = NotRead THEN ListFree(Name(t)) /\ v = Verdict(Name(t), {}, {})
              ELSE v = Verdict(Name(t), names, names)
    PROVE  ListInv'
<1> USE DEF ListInv
<1>1. /\ screening' \in [Screeners -> Checks]
      /\ screening'[t].found = screening[t].found \cup {<<Name(t), v>>}
      /\ screening'[t].step = "name"
      /\ \A u \in Screeners \ {t} : screening'[u] = screening[u]
  BY FindsType
<1>2. Name(t) \in Typed
  BY NameType
<1>3. /\ MemoOK'
      /\ \A n \in DOMAIN verdicts' :
            \/ n = Name(t) /\ verdicts'[n] = v
            \/ n \in DOMAIN verdicts /\ verdicts'[n] = verdicts[n]
  <2>1. CASE Remember(Name(t), v)
    BY <1>2, <2>1, RememberKeeps
  <2>2. CASE verdicts' = verdicts
    BY <2>2 DEF MemoOK
  <2>3. QED
    BY <2>1, <2>2
<1>4. ListTypeOK'
  <2>1. sorted' \in ListContents \cup {NotRead}
    BY DEF ListTypeOK
  <2>2. QED
    BY <1>1, <1>3, <2>1, TypeFrame DEF ListTypeOK
<1>5. ASSUME ~split, names = NotRead PROVE BeforeRead'
  <2>1. BeforeRead /\ sorted' = sorted /\ file' = file
    BY <1>5 DEF OneList, fileVars
  <2>2. \A n \in DOMAIN verdicts' : ListFree(n) /\ verdicts'[n] = Verdict(n, {}, {})
    BY <1>3, <1>5, <2>1 DEF BeforeRead
  <2>3. \A f \in screening'[t].found : ListFree(f[1]) /\ f[2] = Verdict(f[1], {}, {})
    BY <1>1, <1>5, <2>1 DEF BeforeRead
  <2>4. QED
    BY <1>1, <2>1, <2>2, <2>3 DEF BeforeRead
<1>6. ASSUME ~split, names # NotRead PROVE AfterRead'
  <2>1. AfterRead /\ names' = names /\ seen' = seen /\ given' = given
    BY <1>6 DEF OneList, fileVars
  <2>2. RightMemo(names)'
    BY <1>3, <1>6, <2>1 DEF AfterRead, RightMemo
  <2>3. RightFindings(screening'[t].found, names)
    BY <1>1, <1>6, <2>1 DEF AfterRead, RightFindings, Right
  <2>4. sorted' \in {NotRead, names}
    BY <2>1 DEF AfterRead
  <2>5. QED
    BY <1>1, <2>1, <2>2, <2>3, <2>4 DEF AfterRead
<1>7. OneList'
  BY <1>5, <1>6 DEF OneList, fileVars
<1>8. QED
  BY <1>3, <1>4, <1>7

LEMMA MatchNameInv ==
    ASSUME ListInv, NEW t \in Screeners, MatchName(t)
    PROVE  ListInv'
<1> USE DEF ListInv
<1>0. UNCHANGED <<fileVars, names, sorted, given>>
  BY DEF MatchName
<1>1. CASE screening' = [screening EXCEPT ![t].step = "names"] /\ verdicts' = verdicts
  <2>1. /\ screening' \in [Screeners -> Checks]
        /\ \A u \in Screeners : screening'[u].found = screening[u].found
        /\ screening'[t].step = "names"
        /\ \A u \in Screeners \ {t} : screening'[u] = screening[u]
    BY <1>1 DEF ListTypeOK, Checks
  <2>2. MemoOK'
    BY <1>1 DEF MemoOK
  <2>3. ListTypeOK'
    BY <1>0, <2>1, <2>2, TypeFrame DEF ListTypeOK
  <2>4. OneList'
    <3>1. CASE names = NotRead
      BY <1>0, <1>1, <2>1, <3>1 DEF OneList, BeforeRead, fileVars
    <3>2. CASE names # NotRead
      BY <1>0, <1>1, <2>1, <3>2 DEF OneList, AfterRead, RightMemo, fileVars
    <3>3. QED
      BY <3>1, <3>2
  <2>5. QED
    BY <2>2, <2>3, <2>4
<1>2. CASE /\ screening[t].left # <<>> /\ Name(t) \in DOMAIN verdicts
           /\ Finds(t, verdicts[Name(t)]) /\ verdicts' = verdicts
  <2>1. verdicts[Name(t)] \in Verdicts
    BY <1>2 DEF MemoOK
  <2>2. ~split =>
            IF names = NotRead
            THEN ListFree(Name(t)) /\ verdicts[Name(t)] = Verdict(Name(t), {}, {})
            ELSE verdicts[Name(t)] = Verdict(Name(t), names, names)
    BY <1>2 DEF OneList, BeforeRead, AfterRead, RightMemo
  <2>3. QED
    BY <1>0, <1>2, <2>1, <2>2, FindsInv
<1>3. CASE /\ screening[t].left # <<>> /\ ListFree(Name(t))
           /\ Finds(t, Verdict(Name(t), {}, {}))
           /\ Remember(Name(t), Verdict(Name(t), {}, {}))
  <2>1. Verdict(Name(t), {}, {}) \in Verdicts
    BY VerdictType
  <2>2. Verdict(Name(t), {}, {}) = Verdict(Name(t), names, names)
    BY <1>3, WithoutList
  <2>3. QED
    BY <1>0, <1>3, <2>1, <2>2, FindsInv
<1>4. QED
  BY <1>1, <1>2, <1>3 DEF MatchName, ListFree

LEMMA SdnNamesInv ==
    ASSUME ListInv, NEW t \in Screeners, SdnNames(t)
    PROVE  ListInv'
<1> USE DEF ListInv
<1>1. UNCHANGED <<fileVars, names, sorted, verdicts, given>>
  BY DEF SdnNames
<1>2. /\ screening' \in [Screeners -> Checks]
      /\ \A u \in Screeners : screening'[u].found = screening[u].found
      /\ \A u \in Screeners \ {t} : screening'[u] = screening[u]
      /\ screening'[t].own = IF names = NotRead THEN file ELSE names
      /\ screening'[t].step = IF names = NotRead THEN "keep" ELSE "compare"
  BY DEF SdnNames, ListTypeOK, Checks
<1>3. MemoOK'
  BY <1>1 DEF MemoOK
<1>4. ListTypeOK'
  BY <1>1, <1>2, <1>3, TypeFrame DEF ListTypeOK
<1>5. OneList'
  <2>1. CASE names = NotRead
    BY <1>1, <1>2, <2>1 DEF OneList, BeforeRead, fileVars
  <2>2. CASE names # NotRead
    BY <1>1, <1>2, <2>2 DEF OneList, AfterRead, RightMemo, fileVars
  <2>3. QED
    BY <2>1, <2>2
<1>6. QED
  BY <1>3, <1>4, <1>5

(* The list is settled: it is the one the file contains. *)
LEMMA KeepNamesInv ==
    ASSUME ListInv, NEW t \in Screeners, KeepNames(t)
    PROVE  ListInv'
<1> USE DEF ListInv
<1>1. UNCHANGED <<fileVars, sorted, verdicts, given>>
  BY DEF KeepNames
<1>2. /\ screening' \in [Screeners -> Checks]
      /\ \A u \in Screeners : /\ screening'[u].found = screening[u].found
                               /\ screening'[u].own = screening[u].own
      /\ screening[t].step = "keep" /\ screening'[t].step = "compare"
      /\ \A u \in Screeners \ {t} : screening'[u] = screening[u]
      /\ screening[t].own \in ListContents
  BY DEF KeepNames, In, ListTypeOK, Checks
<1>3. names' = IF names = NotRead THEN screening[t].own ELSE names
  BY DEF KeepNames, Kept
<1>4. MemoOK'
  BY <1>1 DEF MemoOK
<1>5. ListTypeOK'
  BY <1>1, <1>2, <1>3, <1>4, TypeFrame DEF ListTypeOK
<1>6. ASSUME ~split, names = NotRead PROVE AfterRead' /\ names' # NotRead
  <2>1. BeforeRead
    BY <1>6 DEF OneList
  <2>2. names' = file /\ file # NotRead /\ file \in seen /\ seen' = seen
    BY <1>1, <1>2, <1>3, <1>6, <2>1, NotReadAssumption
       DEF BeforeRead, ListTypeOK, ListContents, fileVars
  <2>3. RightMemo(file)
    BY <2>1, WithoutList DEF BeforeRead, RightMemo
  <2>4. \A u \in Screeners : RightFindings(screening[u].found, file)
    BY <2>1, WithoutList DEF BeforeRead, RightFindings, Right
  <2>5. \A u \in Screeners :
            screening'[u].step \in {"keep", "compare"} => screening'[u].own = file
    BY <1>2, <2>1 DEF BeforeRead
  <2>6. QED
    BY <1>1, <1>2, <2>1, <2>2, <2>3, <2>4, <2>5 DEF AfterRead, BeforeRead, RightMemo
<1>7. ASSUME ~split, names # NotRead PROVE AfterRead' /\ names' # NotRead
  BY <1>1, <1>2, <1>3, <1>7 DEF OneList, AfterRead, RightMemo, fileVars
<1>8. OneList'
  BY <1>1, <1>6, <1>7 DEF OneList, fileVars
<1>9. QED
  BY <1>4, <1>5, <1>8

LEMMA CompareInv ==
    ASSUME ListInv, NEW t \in Screeners, Compare(t)
    PROVE  ListInv'
<1> USE DEF ListInv
<1> DEFINE own == screening[t].own
           v == Verdict(Name(t), own, Sorted(t))
<1>1. /\ screening[t].left # <<>> /\ Finds(t, v) /\ Remember(Name(t), v)
      /\ UNCHANGED <<fileVars, names, given>>
      /\ screening[t].step = "compare"
  BY DEF Compare, In
<1>2. sorted' = sorted \/ sorted' = Sorted(t)
  BY DEF Compare
<1>3. v \in Verdicts
  BY VerdictType
<1>4. ASSUME ~split
      PROVE  names # NotRead /\ own = names /\ Sorted(t) = names
  <2>1. names # NotRead
    BY <1>1, <1>4 DEF OneList, BeforeRead
  <2>2. AfterRead
    BY <1>4, <2>1 DEF OneList
  <2>3. QED
    BY <1>1, <2>1, <2>2 DEF AfterRead, Sorted
<1>5. CASE split
  <2>1. /\ screening' \in [Screeners -> Checks] /\ MemoOK'
    BY <1>1, <1>3, FindsType, NameType, RememberKeeps
  <2>2. sorted' \in ListContents \cup {NotRead}
    BY <1>2 DEF Sorted, ListTypeOK
  <2>3. ListTypeOK'
    BY <1>1, <2>1, <2>2, TypeFrame DEF ListTypeOK
  <2>4. QED
    BY <1>1, <1>5, <2>1, <2>3 DEF OneList, fileVars
<1>6. CASE ~split
  <2>1. v = Verdict(Name(t), names, names)
    BY <1>4, <1>6
  <2> HIDE DEF v, own
  <2>2. QED
    BY <1>1, <1>2, <1>3, <1>4, <1>6, <2>1, FindsInv
<1>7. QED
  BY <1>5, <1>6

LEMMA AnswerInv ==
    ASSUME ListInv, NEW t \in Screeners, Answer(t)
    PROVE  ListInv'
<1> USE DEF ListInv
<1> DEFINE g == [found |-> screening[t].found, ofac |-> screening[t].own # {}]
<1>1. /\ UNCHANGED <<fileVars, names, sorted, verdicts>>
      /\ given' = given \cup {g} /\ screening[t].step = "compare"
  BY DEF Answer, In
<1>2. /\ screening' \in [Screeners -> Checks] /\ screening'[t] = NoScreening
      /\ \A u \in Screeners \ {t} : screening'[u] = screening[u]
  BY NoScreeningType DEF Answer, ListTypeOK, Checks
<1>3. MemoOK'
  BY <1>1 DEF MemoOK
<1>4. g \in [found : Findings, ofac : BOOLEAN]
  BY DEF ListTypeOK
<1>5. ListTypeOK'
  BY <1>1, <1>2, <1>3, <1>4, TypeFrame DEF ListTypeOK
<1>6. ASSUME ~split PROVE names # NotRead /\ AfterRead'
  <2>1. names # NotRead
    BY <1>1, <1>6 DEF OneList, BeforeRead
  <2>2. AfterRead
    BY <1>6, <2>1 DEF OneList
  <2>3. RightFindings(g.found, names) /\ (g.ofac <=> names # {})
    BY <1>1, <2>2 DEF AfterRead
  <2>4. \A u \in Screeners :
            /\ RightFindings(screening'[u].found, names)
            /\ screening'[u].step \in {"keep", "compare"} => screening'[u].own = names
    BY <1>2, <2>2 DEF AfterRead, NoScreening, RightFindings
  <2> HIDE DEF g
  <2>5. QED
    BY <1>1, <2>1, <2>2, <2>3, <2>4 DEF AfterRead, RightMemo, fileVars
<1>7. QED
  BY <1>1, <1>3, <1>5, <1>6 DEF OneList, fileVars

LEMMA ReloadInv == ListInv /\ Reload => ListInv'
<1> SUFFICES ASSUME ListInv, Reload PROVE ListInv'
  OBVIOUS
<1> USE DEF ListInv
<1>1. DOMAIN verdicts' = {} /\ verdicts' \in [DOMAIN verdicts' -> Verdicts]
  BY DEF Reload
<1>2. MemoOK'
  BY <1>1, FS_EmptySet, ListBounds DEF MemoOK
<1>3. \A t \in Screeners : screening'[t] = NoScreening
  BY DEF Reload
<1>4. screening' \in [Screeners -> Checks]
  BY NoScreeningType DEF Reload
<1>5. ListTypeOK'
  BY <1>2, <1>4 DEF Reload, ListTypeOK, MemoOK, Checks
<1>6. OneList'
  BY <1>1, <1>3 DEF Reload, OneList, BeforeRead, NoScreening
<1>7. QED
  BY <1>2, <1>5, <1>6

LEMMA ListNextInv == ListInv /\ [ListNext]_listVars => ListInv'
<1> SUFFICES ASSUME ListInv, [ListNext]_listVars PROVE ListInv'
  OBVIOUS
<1>1. CASE Download
  <2>1. {} \in ListContents /\ download' \in Editions \cup {NoEdition}
    BY <1>1 DEF Download, ListContents
  <2>2. QED
    BY <1>1, <2>1, ChangesInv DEF Download
<1>2. CASE WriteOn
  <2>1. PICK portion \in SUBSET download :
            /\ download' = IF portion = download THEN NoEdition ELSE download
            /\ Changes(portion)
    BY <1>2 DEF WriteOn
  <2>2. download \in Editions
    BY <1>2 DEF WriteOn, ListInv, ListTypeOK
  <2>3. portion \in ListContents /\ download' \in Editions \cup {NoEdition}
    BY <2>1, <2>2 DEF ListContents
  <2>4. QED
    BY <2>1, <2>3, ChangesInv
<1>3. CASE Reload
  BY <1>3, ReloadInv
<1>4. ASSUME NEW t \in Screeners,
             Screen(t) \/ MatchName(t) \/ SdnNames(t) \/ KeepNames(t) \/ Compare(t) \/ Answer(t)
      PROVE  ListInv'
  BY <1>4, ScreenInv, MatchNameInv, SdnNamesInv, KeepNamesInv, CompareInv, AnswerInv
<1>5. CASE UNCHANGED listVars
  BY <1>5 DEF listVars, ListInv, ListTypeOK, MemoOK, OneList, BeforeRead, AfterRead, RightMemo
<1>6. QED
  BY <1>1, <1>2, <1>3, <1>4, <1>5 DEF ListNext

-----------------------------------------------------------------------------
(* The theorems. *)

(* What holds of the caches and of the checks under way (sanctions.py:39-  *)
(* 121): before a list is kept, and once it is.                            *)
THEOREM ListInvariance == ListSpec => []ListInv
<1>1. QED
  BY ListInitInv, ListNextInv, PTL DEF ListSpec

(* The file, the caches and the checks keep their types (sanctions.py,     *)
(* update_sanctions.py).                                                   *)
THEOREM ListTypeCorrect == ListSpec => []ListTypeOK
<1>1. ListInv => ListTypeOK
  BY DEF ListInv
<1>2. QED
  BY <1>1, ListInvariance, PTL

(* Whatever is downloaded, evicted and checked at once, all answers of a   *)
(* process are right about one list the file contained (sanctions.py:39-   *)
(* 121), unless the file changed between a thread's read and its keeping.  *)
THEOREM OneListScreened == ListSpec => []ScreensOneList
<1>1. ListInv => ScreensOneList
  <2> SUFFICES ASSUME ListInv, ~split
               PROVE  \E list \in seen : \A g \in given :
                         /\ \A f \in g.found : f[2] = Verdict(f[1], list, list)
                         /\ g.ofac <=> list # {}
    BY DEF ScreensOneList
  <2>1. CASE names = NotRead
    <3>1. given = {} /\ file \in seen
      BY <2>1 DEF ListInv, OneList, BeforeRead, ListTypeOK
    <3>2. QED
      BY <3>1
  <2>2. CASE names # NotRead
    <3>1. AfterRead
      BY <2>2 DEF ListInv, OneList
    <3>2. /\ names \in seen
          /\ \A g \in given : /\ \A f \in g.found : f[2] = Verdict(f[1], names, names)
                              /\ g.ofac <=> names # {}
      BY <3>1 DEF AfterRead, RightFindings, Right
    <3>3. QED
      BY <3>2
  <2>3. QED
    BY <2>1, <2>2
<1>2. QED
  BY <1>1, ListInvariance, PTL

-----------------------------------------------------------------------------
(* The composition.                                                        *)

(* Every step of the composition is a step of one part, or of none.        *)
LEMMA PartsStep ==
    ASSUME [Next]_<<part, ringVars, uploadVars, keyVars, busVars, listVars>>
    PROVE  /\ [RingNext]_ringVars /\ [UploadNext]_uploadVars /\ [KeyNext]_keyVars
           /\ [BusNext]_busVars /\ [ListNext]_listVars
  <1>1. CASE SpansPart
    BY <1>1 DEF SpansPart
  <1>2. CASE UploadsPart
    BY <1>2 DEF UploadsPart
  <1>3. CASE KeysPart
    BY <1>3 DEF KeysPart
  <1>4. CASE BusPart
    BY <1>4 DEF BusPart
  <1>5. CASE SanctionsPart
    BY <1>5 DEF SanctionsPart
  <1> QED BY <1>1, <1>2, <1>3, <1>4, <1>5 DEF Next

(* The composition behaves as each of its five parts, so that what is      *)
(* proved of a part holds of it (main.py and the modules of app/services   *)
(* share no state).                                                        *)
THEOREM PartsKept == Spec => RingSpec /\ UploadSpec /\ KeySpec /\ BusSpec /\ ListSpec
  <1>1. Init => RingInit /\ UploadInit /\ KeyInit /\ BusInit /\ ListInit
    BY DEF Init
  <1> QED BY <1>1, PartsStep, PTL DEF Spec, RingSpec, UploadSpec, KeySpec, BusSpec, ListSpec

(* Types of all five parts at once (telemetry.py, api.py, azure_ad.py,     *)
(* event_bus.py, sanctions.py), in the module the runs check.              *)
THEOREM ServicesTyped == Spec => []TypesOK
  <1>1. RingTypeOK /\ UploadTypeOK /\ KeyTypeOK /\ BusTypeOK /\ ListTypeOK => TypesOK
    BY DEF TypesOK
  <1> QED BY <1>1, PartsKept, RingTypeCorrect, UploadTypeCorrect, KeyTypeCorrect, BusTypeCorrect,
             ListTypeCorrect, PTL
=============================================================================
