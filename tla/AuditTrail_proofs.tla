------------------------- MODULE AuditTrail_proofs -------------------------
(***************************************************************************)
(* Theorems about AuditTrail, for any number of threads, records, faults,  *)
(* edits and restarts: the trail is well typed, ids are unique within a    *)
(* life of the process, links point backward, verify_chain is exact and    *)
(* complains for a cause, and a restart continues the trail.               *)
(***************************************************************************)
EXTENDS AuditTrail, SequenceTheorems, WellFoundedInduction, TLAPS

(* What every event that left record() satisfies: its body is not of the   *)
(* future and either its hash is the one record() computed from it, or     *)
(* somebody edited it and then no hash record() ever computed covers it.   *)
Sealed(e) ==
    /\ e.body \in 1 .. clock
    /\ \/ e.entry_hash = Hash(e.prev_hash, e.body)
       \/ \A p \in issued \cup {Genesis} : Hash(p, e.body) \notin issued

SealedEntry == {e \in Entry : Sealed(e)}

(* Each issued hash covers a known predecessor and a body of the past, and *)
(* no body was sealed twice.                                               *)
IssuedOK ==
    /\ \A h \in issued : \E p \in issued \cup {Genesis}, b \in 1 .. clock :
          h = Hash(p, b)
    /\ \A p, q \in issued \cup {Genesis}, b \in 1 .. clock :
          Hash(p, b) \in issued /\ Hash(q, b) \in issued => p = q

Held(w) == pc[w] \in {"built", "listed"}

(* Type correctness in the form that is preserved: the events are sealed.  *)
SealedOK ==
    /\ events \in Seq(SealedEntry)
    /\ disk \in Seq(SealedEntry \cup {NoEvent})
    /\ \A w \in Writers : Held(w) => entry[w] \in SealedEntry

(* The ids given out in this life are below the counter, and a thread still*)
(* holds its own: no other event of this life has it.                      *)
IdsOK ==
    /\ \A i \in loaded + 1 .. Len(events) : events[i].log_id < counter
    /\ \A w \in Writers : Held(w) => entry[w].log_id < counter
    /\ \A w \in Writers : pc[w] = "built" =>
          /\ \A i \in loaded + 1 .. Len(events) :
                events[i].log_id # entry[w].log_id
          /\ \A v \in Writers \ {w} :
                pc[v] = "built" => entry[v].log_id # entry[w].log_id

(* A predecessor a thread read is an event that is listed, or the genesis. *)
Listed(h) == h = Genesis \/ \E j \in 1 .. Len(events) : h = events[j].entry_hash

LinksOK ==
    /\ \A w \in Writers : pc[w] = "linked" => Listed(tip[w])
    /\ \A w \in Writers : pc[w] = "built" => Listed(entry[w].prev_hash)

IInv ==
    /\ TypeOK
    /\ IssuedOK
    /\ SealedOK
    /\ IdsOK /\ UniqueIds
    /\ LinksOK /\ LinksBackward

-----------------------------------------------------------------------------
(* Lemmas about hashes and sequences of lines. *)

(* A hash determines what it was computed from (audit.py:126).             *)
LEMMA HashInjective ==
    ASSUME NEW p, NEW q, NEW b, NEW c, Hash(p, b) = Hash(q, c)
    PROVE  p = q /\ b = c
  BY DEF Hash

LEMMA GenesisNotHash ==
    ASSUME NEW p, NEW b
    PROVE  Hash(p, b) # Genesis
  BY DEF Hash, Genesis

(* A non-empty set of naturals has a least element, and Min finds it.      *)
LEMMA MinOfNats ==
    ASSUME NEW S \in SUBSET Nat, S # {}
    PROVE  Min(S) \in S /\ \A y \in S : Min(S) <= y
<1>1. \E x \in S : \A y \in S : x <= y
  <2>1. PICK x \in S : \A y \in S : ~(<<y, x>> \in OpToRel(<, Nat))
    BY NatLessThanWellFounded, WFMin
  <2>2. ASSUME NEW y \in S PROVE x <= y
    <3>1. <<y, x>> \in Nat \X Nat
      OBVIOUS
    <3>2. ~(y < x)
      BY <2>1, <3>1 DEF OpToRel
    <3>3. QED
      BY <3>2
  <2>3. QED
    BY <2>2
<1>2. QED
  BY <1>1 DEF Min

(* What _load keeps is a prefix of the file made of events only.           *)
LEMMA ParsedIsPrefix ==
    ASSUME NEW S, NEW lines \in Seq(S \cup {NoEvent})
    PROVE  /\ Parsed(lines) \in Seq(S)
           /\ Len(Parsed(lines)) \in 0 .. Len(lines)
<1> DEFINE bad == {i \in DOMAIN lines : lines[i] = NoEvent}
<1>1. lines \in [1 .. Len(lines) -> S \cup {NoEvent}] /\ Len(lines) \in Nat
  BY LenProperties
<1>2. CASE bad = {}
  <2>1. \A i \in 1 .. Len(lines) : lines[i] \in S
    BY <1>1, <1>2
  <2>2. lines \in Seq(S)
    <3>1. SubSeq(lines, 1, Len(lines)) \in Seq(S)
      BY <1>1, <2>1, SubSeqProperties
    <3>2. SubSeq(lines, 1, Len(lines)) = lines
      BY SubSeqFull
    <3>3. QED
      BY <3>1, <3>2
  <2>3. QED
    BY <1>1, <1>2, <2>2 DEF Parsed
<1>3. CASE bad # {}
  <2>1. PICK m \in 1 .. Len(lines) : m = Min(bad) /\ \A y \in bad : m <= y
    <3>1. bad \in SUBSET Nat /\ bad \subseteq 1 .. Len(lines)
      BY <1>1
    <3>2. QED
      BY <1>3, <3>1, MinOfNats
  <2>2. Parsed(lines) = SubSeq(lines, 1, m - 1)
    BY <1>3, <2>1 DEF Parsed
  <2>3. ASSUME NEW i \in 1 .. m - 1
        PROVE  lines[i] \in S
    <3>1. \A y \in bad : m <= y
      BY <2>1
    <3>2. i \notin bad
      <4> HIDE DEF bad
      <4>1. QED
        BY <1>1, <3>1
    <3>3. i \in 1 .. Len(lines)
      BY <1>1
    <3>4. QED
      BY <1>1, <3>2, <3>3
  <2>4. /\ SubSeq(lines, 1, m - 1) \in Seq(S)
        /\ Len(SubSeq(lines, 1, m - 1)) = m - 1
    BY <2>1, <2>3, SubSeqProperties
  <2>5. QED
    BY <1>1, <2>1, <2>2, <2>4
<1>4. QED
  BY <1>2, <1>3

LEMMA RemoveAtType ==
    ASSUME NEW S, NEW s \in Seq(S), NEW i \in DOMAIN s
    PROVE  RemoveAt(s, i) \in Seq(S)
<1>1. Len(s) \in Nat /\ DOMAIN s = 1 .. Len(s) /\ s \in [1 .. Len(s) -> S]
  BY LenProperties
<1>2. SubSeq(s, 1, i - 1) \in Seq(S)
  BY <1>1, SubSeqProperties
<1>3. SubSeq(s, i + 1, Len(s)) \in Seq(S)
  BY <1>1, SubSeqProperties
<1>4. QED
  BY <1>2, <1>3, ConcatProperties DEF RemoveAt

LEMMA AppendType ==
    ASSUME NEW S, NEW s \in Seq(S), NEW e \in S
    PROVE  /\ Append(s, e) \in Seq(S)
           /\ Len(Append(s, e)) = Len(s) + 1
           /\ \A i \in 1 .. Len(s) : Append(s, e)[i] = s[i]
           /\ Append(s, e)[Len(s) + 1] = e
  OBVIOUS

-----------------------------------------------------------------------------
(* How the sets the invariant speaks of grow. *)

(* When nothing is sealed and the clock does not go back, what was sealed  *)
(* stays sealed.                                                           *)
LEMMA SealedKept ==
    ASSUME clock \in Nat, clock' \in Nat, clock <= clock', UNCHANGED issued
    PROVE  /\ Entry' = Entry
           /\ SealedEntry \subseteq SealedEntry'
  BY DEF SealedEntry, Sealed, Entry

(* Nor does a new hash over a new body cover any event there was.          *)
LEMMA SealedGrows ==
    ASSUME TypeOK, IssuedOK, NEW t \in issued \cup {Genesis},
           clock' = clock + 1,
           issued' = issued \cup {Hash(t, clock + 1)}
    PROVE  /\ SealedEntry \subseteq SealedEntry'
           /\ IssuedOK'
           /\ Hash(t, clock + 1) \in issued'
<1>0. clock \in Nat
  BY DEF TypeOK
<1>1. \A p, b : Hash(p, b) \in issued => p \in issued \cup {Genesis} /\ b \in 1 .. clock
  BY HashInjective DEF IssuedOK
<1>2. \A p, b : Hash(p, b) \in issued' =>
         Hash(p, b) \in issued \/ (p = t /\ b = clock + 1)
  BY HashInjective
<1>3. SealedEntry \subseteq SealedEntry'
  <2> SUFFICES ASSUME NEW e \in SealedEntry PROVE e \in SealedEntry'
    OBVIOUS
  <2>1. e \in Entry /\ e \in Entry'
    BY DEF SealedEntry, Entry
  <2>2. e.body \in 1 .. clock /\ e.body \in 1 .. clock' /\ e.body # clock + 1
    BY <1>0 DEF SealedEntry, Sealed
  <2>3. CASE e.entry_hash = Hash(e.prev_hash, e.body)
    BY <2>1, <2>2, <2>3 DEF SealedEntry, Sealed
  <2>4. CASE \A p \in issued \cup {Genesis} : Hash(p, e.body) \notin issued
    <3>1. ASSUME NEW p \in issued' \cup {Genesis}, Hash(p, e.body) \in issued'
          PROVE  FALSE
      <4>1. Hash(p, e.body) \in issued
        BY <1>2, <2>2, <3>1
      <4>2. QED
        BY <1>1, <2>4, <4>1
    <3>2. QED
      BY <2>1, <2>2, <3>1 DEF SealedEntry, Sealed
  <2>5. QED
    BY <2>3, <2>4 DEF SealedEntry, Sealed
<1>4. \A h \in issued' : \E p \in issued' \cup {Genesis}, b \in 1 .. clock' :
         h = Hash(p, b)
  <2> SUFFICES ASSUME NEW h \in issued'
               PROVE  \E p \in issued' \cup {Genesis}, b \in 1 .. clock' : h = Hash(p, b)
    OBVIOUS
  <2>1. CASE h \in issued
    <3>1. PICK p \in issued \cup {Genesis}, b \in 1 .. clock : h = Hash(p, b)
      BY <2>1 DEF IssuedOK
    <3>2. b \in 1 .. clock' /\ p \in issued' \cup {Genesis}
      BY <1>0
    <3>3. QED
      BY <3>1, <3>2
  <2>2. CASE h = Hash(t, clock + 1)
    <3>1. clock + 1 \in 1 .. clock' /\ t \in issued' \cup {Genesis}
      BY <1>0
    <3>2. QED
      BY <2>2, <3>1
  <2>3. QED
    BY <2>1, <2>2
<1>5. ASSUME NEW p, NEW q, NEW b, Hash(p, b) \in issued', Hash(q, b) \in issued'
      PROVE  p = q
  <2>1. CASE b = clock + 1
    <3>1. b \notin 1 .. clock
      BY <1>0, <2>1
    <3>2. QED
      BY <1>1, <1>2, <1>5, <3>1
  <2>2. CASE b # clock + 1
    <3>1. Hash(p, b) \in issued /\ Hash(q, b) \in issued
      BY <1>2, <1>5, <2>2
    <3>2. QED
      BY <1>1, <3>1 DEF IssuedOK
  <2>3. QED
    BY <2>1, <2>2
<1>6. QED
  BY <1>3, <1>4, <1>5 DEF IssuedOK

-----------------------------------------------------------------------------
(* Every step preserves the invariant: one lemma per action of record(),   *)
(* per restart and per edit.                                               *)

LEMMA TipIsListed ==
    ASSUME IInv
    PROVE  TipHash(events) \in issued \cup {Genesis} /\ Listed(TipHash(events))
<1>1. events \in Seq(Entry) /\ Len(events) \in Nat
  BY DEF IInv, TypeOK
<1>2. CASE events = <<>>
  BY <1>2 DEF TipHash, Listed
<1>3. CASE events # <<>>
  <2>1. Len(events) \in 1 .. Len(events)
    BY <1>1, <1>3, EmptySeq
  <2>2. events[Len(events)] \in Entry
    BY <1>1, <2>1, ElementOfSeq
  <2>3. QED
    BY <1>3, <2>1, <2>2 DEF TipHash, Listed, Entry
<1>4. QED
  BY <1>2, <1>3

LEMMA ReadTipStep ==
    ASSUME IInv, NEW w \in Writers, ReadTip(w)
    PROVE  IInv'
<1> USE DEF IInv
<1>1. TipHash(events) \in issued \cup {Genesis} /\ Listed(TipHash(events))
  BY TipIsListed
<1>2. UNCHANGED <<events, counter, disk, torn, entry, loaded, unread, clock,
                  issued, returned, faults, edits, restarts>>
  BY DEF ReadTip
<1>3. pc' = [pc EXCEPT ![w] = "linked"] /\ pc[w] = "idle"
  BY DEF ReadTip, Goto
<1>4. tip' = [tip EXCEPT ![w] = TipHash(events)] /\ overlapped' \in BOOLEAN
  BY DEF ReadTip
<1>5. TypeOK'
  BY <1>1, <1>2, <1>3, <1>4 DEF TypeOK, Entry
<1>6. IssuedOK'
  BY <1>2 DEF IssuedOK
<1>7. SealedOK'
  BY <1>2, <1>3 DEF SealedOK, SealedEntry, Sealed, Entry, Held, TypeOK
<1>8. IdsOK' /\ UniqueIds'
  BY <1>2, <1>3 DEF IdsOK, UniqueIds, Held, TypeOK
<1>9. LinksOK' /\ LinksBackward'
  BY <1>1, <1>2, <1>3, <1>4 DEF LinksOK, LinksBackward, Listed, TypeOK
<1>10. QED
  BY <1>5, <1>6, <1>7, <1>8, <1>9

LEMMA BuildStep ==
    ASSUME IInv, NEW w \in Writers, Build(w)
    PROVE  IInv'
<1> USE DEF IInv
<1> DEFINE new == Seal(counter, clock + 1, tip[w])
<1>1. UNCHANGED <<events, disk, torn, tip, loaded, unread, returned, overlapped,
                  faults, edits, restarts>>
  BY DEF Build
<1>2. pc' = [pc EXCEPT ![w] = "built"] /\ pc[w] = "linked"
  BY DEF Build, Goto
<1>3. /\ clock' = clock + 1 /\ counter' = counter + 1
      /\ entry' = [entry EXCEPT ![w] = new]
      /\ issued' = issued \cup {Hash(tip[w], clock + 1)}
  BY DEF Build
<1>4. /\ clock \in Nat /\ counter \in Nat \ {0}
      /\ tip[w] \in issued \cup {Genesis} /\ Listed(tip[w])
  BY <1>2 DEF TypeOK, LinksOK
<1>5. /\ SealedEntry \subseteq SealedEntry' /\ IssuedOK'
      /\ Hash(tip[w], clock + 1) \in issued'
  BY <1>3, <1>4, SealedGrows
<1>6. Entry \subseteq Entry'
  BY <1>3 DEF Entry
<1>7. /\ new \in SealedEntry' /\ new \in Entry'
      /\ new.log_id = counter /\ new.prev_hash = tip[w]
  <2>1. clock + 1 \in 1 .. clock' /\ clock + 1 \in Nat
    BY <1>3, <1>4
  <2>2. tip[w] \in issued' \cup {Genesis} /\ Hash(tip[w], clock + 1) \in issued'
    BY <1>4, <1>5, <1>3
  <2>3. QED
    BY <1>4, <2>1, <2>2 DEF SealedEntry, Sealed, Entry, Seal
<1> HIDE DEF new
<1>8. TypeOK'
  <2>1. events' \in Seq(Entry')
    BY <1>1, <1>6, SeqMonotonic DEF TypeOK
  <2>2. disk' \in Seq(Entry' \cup {NoEvent})
    <3>1. Entry \cup {NoEvent} \subseteq Entry' \cup {NoEvent}
      BY <1>6
    <3>2. QED
      BY <1>1, <3>1, SeqMonotonic DEF TypeOK
  <2>3. tip' \in [Writers -> issued' \cup {Genesis}]
    BY <1>1, <1>3 DEF TypeOK
  <2>4. entry' \in [Writers -> Entry' \cup {NoEvent}]
    BY <1>3, <1>6, <1>7 DEF TypeOK
  <2>5. QED
    BY <1>1, <1>2, <1>3, <1>4, <2>1, <2>2, <2>3, <2>4 DEF TypeOK
<1>9. SealedOK'
  <2>1. events' \in Seq(SealedEntry')
    BY <1>1, <1>5, SeqMonotonic DEF SealedOK
  <2>2. disk' \in Seq(SealedEntry' \cup {NoEvent})
    <3>1. SealedEntry \cup {NoEvent} \subseteq SealedEntry' \cup {NoEvent}
      BY <1>5
    <3>2. QED
      BY <1>1, <3>1, SeqMonotonic DEF SealedOK
  <2>3. ASSUME NEW v \in Writers, Held(v)' PROVE entry'[v] \in SealedEntry'
    <3>1. CASE v = w
      BY <1>3, <1>7, <3>1 DEF TypeOK
    <3>2. CASE v # w
      BY <1>2, <1>3, <1>5, <2>3, <3>2 DEF SealedOK, Held, TypeOK
    <3>3. QED
      BY <3>1, <3>2
  <2>4. QED
    BY <2>1, <2>2, <2>3 DEF SealedOK
<1>10. IdsOK' /\ UniqueIds'
  <2>1. UniqueIds'
    BY <1>1 DEF UniqueIds
  <2>2. \A i \in loaded + 1 .. Len(events) : events[i].log_id \in Nat
    <3>1. \A i \in 1 .. Len(events) : events[i] \in Entry
      BY ElementOfSeq DEF TypeOK
    <3>2. \A i \in loaded + 1 .. Len(events) : i \in 1 .. Len(events)
      BY DEF TypeOK
    <3>3. QED
      BY <3>1, <3>2 DEF Entry
  <2>3. \A v \in Writers : Held(v) => entry[v].log_id \in Nat
    BY DEF SealedOK, SealedEntry, Entry
  <2>4. \A i \in loaded' + 1 .. Len(events') : events'[i].log_id < counter'
    BY <1>1, <1>3, <1>4, <2>2 DEF IdsOK
  <2>5. \A v \in Writers : Held(v)' => entry'[v].log_id < counter'
    BY <1>2, <1>3, <1>4, <1>7, <2>3 DEF IdsOK, Held, TypeOK
  <2>6. ASSUME NEW v \in Writers, pc'[v] = "built"
        PROVE  /\ \A i \in loaded' + 1 .. Len(events') :
                     events'[i].log_id # entry'[v].log_id
               /\ \A u \in Writers \ {v} :
                     pc'[u] = "built" => entry'[u].log_id # entry'[v].log_id
    <3>1. \A u \in Writers \ {w} : pc'[u] = pc[u] /\ entry'[u] = entry[u]
      BY <1>2, <1>3 DEF TypeOK
    <3>2. entry'[w].log_id = counter
      BY <1>3, <1>7 DEF TypeOK
    <3>3. \A u \in Writers \ {w} : pc[u] = "built" => entry[u].log_id < counter
      BY DEF IdsOK, Held
    <3>4. \A i \in loaded + 1 .. Len(events) : events[i].log_id # counter
      BY <1>4, <2>2 DEF IdsOK
    <3>5. CASE v = w
      BY <1>1, <1>4, <2>3, <3>1, <3>2, <3>3, <3>4, <3>5 DEF Held
    <3>6. CASE v # w
      BY <1>1, <1>4, <2>3, <2>6, <3>1, <3>2, <3>3, <3>6 DEF IdsOK, Held
    <3>7. QED
      BY <3>5, <3>6
  <2>7. QED
    BY <2>1, <2>4, <2>5, <2>6 DEF IdsOK
<1>11. LinksOK' /\ LinksBackward'
  <2>1. LinksBackward'
    BY <1>1 DEF LinksBackward
  <2>2. \A h : Listed(h) => Listed(h)'
    BY <1>1 DEF Listed
  <2>3. QED
    BY <1>1, <1>2, <1>3, <1>4, <1>7, <2>1, <2>2 DEF LinksOK, TypeOK
<1>12. QED
  BY <1>5, <1>8, <1>9, <1>10, <1>11

LEMMA AppendMemoryStep ==
    ASSUME IInv, NEW w \in Writers, AppendMemory(w)
    PROVE  IInv'
<1> USE DEF IInv
<1>1. UNCHANGED <<counter, disk, torn, tip, entry, loaded, unread, clock,
                  issued, returned, overlapped, faults, edits, restarts>>
  BY DEF AppendMemory
<1>2. pc' = [pc EXCEPT ![w] = "listed"] /\ pc[w] = "built"
  BY DEF AppendMemory, Goto
<1>3. events' = Append(events, entry[w])
  BY DEF AppendMemory
<1>4. entry[w] \in SealedEntry /\ entry[w] \in Entry
  BY <1>2 DEF SealedOK, SealedEntry, Held
<1>5. /\ events \in Seq(Entry) /\ Len(events) \in Nat
      /\ loaded \in 0 .. Len(events)
  BY DEF TypeOK
<1>6. /\ events' \in Seq(Entry)
      /\ Len(events') = Len(events) + 1
      /\ \A i \in 1 .. Len(events) : events'[i] = events[i]
      /\ events'[Len(events) + 1] = entry[w]
  BY <1>3, <1>4, <1>5, AppendType
<1>7. events' \in Seq(SealedEntry)
  BY <1>3, <1>4, AppendType DEF SealedOK
<1>8. TypeOK'
  <2>1. Entry' = Entry
    BY <1>1 DEF Entry
  <2>2. loaded' \in 0 .. Len(events')
    BY <1>1, <1>5, <1>6
  <2>3. QED
    BY <1>1, <1>2, <1>6, <2>1, <2>2 DEF TypeOK
<1>9. IssuedOK'
  BY <1>1 DEF IssuedOK
<1>10. SealedOK'
  <2>1. SealedEntry' = SealedEntry
    BY <1>1 DEF SealedEntry, Sealed, Entry
  <2>2. QED
    BY <1>1, <1>2, <1>7, <2>1 DEF SealedOK, Held, TypeOK
<1>11. \A i \in loaded' + 1 .. Len(events') :
          \/ i \in loaded + 1 .. Len(events) /\ events'[i] = events[i]
          \/ i = Len(events) + 1 /\ events'[i] = entry[w]
  BY <1>1, <1>5, <1>6
<1>12. IdsOK'
  BY <1>1, <1>2, <1>11 DEF IdsOK, Held, TypeOK
<1>13. UniqueIds'
  BY <1>2, <1>11 DEF IdsOK, UniqueIds
<1>14. \A h : Listed(h) => Listed(h)'
  <2> SUFFICES ASSUME NEW h, Listed(h) PROVE Listed(h)'
    OBVIOUS
  <2>1. CASE h = Genesis
    BY <2>1 DEF Listed
  <2>2. CASE h # Genesis
    <3>1. PICK j \in 1 .. Len(events) : h = events[j].entry_hash
      BY <2>2 DEF Listed
    <3>2. j \in 1 .. Len(events') /\ h = events'[j].entry_hash
      BY <1>5, <1>6, <3>1
    <3>3. QED
      BY <3>2 DEF Listed
  <2>3. QED
    BY <2>1, <2>2
<1>15. LinksOK'
  BY <1>1, <1>2, <1>14 DEF LinksOK, TypeOK
<1>16. LinksBackward'
  <2> SUFFICES ASSUME NEW i \in loaded' + 1 .. Len(events'),
                      events'[i].prev_hash # Genesis
               PROVE  \E j \in 1 .. i - 1 :
                         events'[i].prev_hash = events'[j].entry_hash
    BY DEF LinksBackward
  <2>1. CASE i \in loaded + 1 .. Len(events) /\ events'[i] = events[i]
    <3>1. PICK j \in 1 .. i - 1 : events[i].prev_hash = events[j].entry_hash
      BY <2>1 DEF LinksBackward
    <3>2. events'[j] = events[j]
      BY <1>5, <1>6, <2>1
    <3>3. QED
      BY <2>1, <3>1, <3>2
  <2>2. CASE i = Len(events) + 1 /\ events'[i] = entry[w]
    <3>1. PICK j \in 1 .. Len(events) : entry[w].prev_hash = events[j].entry_hash
      BY <1>2, <2>2 DEF LinksOK, Listed
    <3>2. j \in 1 .. i - 1 /\ events'[j] = events[j]
      BY <1>5, <1>6, <2>2
    <3>3. QED
      BY <2>2, <3>1, <3>2
  <2>3. QED
    BY <1>11, <2>1, <2>2
<1>17. QED
  BY <1>8, <1>9, <1>10, <1>12, <1>13, <1>15, <1>16

LEMMA AppendDiskStep ==
    ASSUME IInv, NEW w \in Writers, AppendDisk(w)
    PROVE  IInv'
<1> USE DEF IInv
<1>1. UNCHANGED <<events, counter, tip, entry, loaded, unread, clock, issued,
                  overlapped, edits, restarts>>
  BY DEF AppendDisk
<1>2. pc' = [pc EXCEPT ![w] = "idle"] /\ pc[w] = "listed"
  BY DEF AppendDisk, Goto
<1>3. entry[w] \in SealedEntry /\ entry[w] \in Entry /\ entry[w].body \in Nat
  BY <1>2 DEF SealedOK, SealedEntry, Entry, Held
<1>4. /\ disk' \in {disk, Append(disk, entry[w]), Append(disk, NoEvent)}
      /\ torn' \in BOOLEAN
      /\ faults' \in 0 .. MaxFaults
  <2>1. WriteLine(w) \/ FailToWrite
    BY DEF AppendDisk
  <2>2. CASE WriteLine(w)
    BY <2>2 DEF WriteLine, TypeOK
  <2>3. CASE FailToWrite
    <3>1. faults' \in 0 .. MaxFaults
      BY <2>3, BoundsAssumption DEF FailToWrite, TypeOK
    <3>2. QED
      BY <2>3, <3>1 DEF FailToWrite, TypeOK
  <2>4. QED
    BY <2>1, <2>2, <2>3
<1>5. disk' \in Seq(Entry \cup {NoEvent}) /\ disk' \in Seq(SealedEntry \cup {NoEvent})
  <2>1. ASSUME NEW S, disk \in Seq(S \cup {NoEvent}), entry[w] \in S
        PROVE  disk' \in Seq(S \cup {NoEvent})
    <3>1. /\ Append(disk, entry[w]) \in Seq(S \cup {NoEvent})
          /\ Append(disk, NoEvent) \in Seq(S \cup {NoEvent})
      BY <2>1, AppendType
    <3>2. QED
      BY <1>4, <2>1, <3>1
  <2>2. disk \in Seq(Entry \cup {NoEvent}) /\ disk \in Seq(SealedEntry \cup {NoEvent})
    BY DEF TypeOK, SealedOK
  <2>3. QED
    BY <1>3, <2>1, <2>2
<1>6. returned' = returned \cup {entry[w].body}
  BY DEF AppendDisk
<1>7. SealedEntry' = SealedEntry /\ Entry' = Entry
  BY <1>1 DEF SealedEntry, Sealed, Entry
<1>8. TypeOK'
  BY <1>1, <1>2, <1>3, <1>4, <1>5, <1>6, <1>7 DEF TypeOK
<1>9. IssuedOK'
  BY <1>1 DEF IssuedOK
<1>10. SealedOK'
  BY <1>1, <1>2, <1>5, <1>7 DEF SealedOK, Held, TypeOK
<1>11. IdsOK' /\ UniqueIds'
  BY <1>1, <1>2 DEF IdsOK, UniqueIds, Held, TypeOK
<1>12. LinksOK' /\ LinksBackward'
  BY <1>1, <1>2 DEF LinksOK, LinksBackward, Listed, TypeOK
<1>13. QED
  BY <1>8, <1>9, <1>10, <1>11, <1>12

LEMMA RestartStep ==
    ASSUME IInv, Restart
    PROVE  IInv'
<1> USE DEF IInv
<1>1. UNCHANGED <<disk, torn, tip, entry, clock, issued, returned, overlapped,
                  faults, edits>>
  BY DEF Restart
<1>2. /\ events' = Parsed(disk) /\ loaded' = Len(Parsed(disk))
      /\ unread' = Len(disk) - Len(Parsed(disk))
      /\ counter' = NextId(Parsed(disk))
      /\ pc' = [v \in Writers |-> "idle"]
  BY DEF Restart
<1>3. /\ events' \in Seq(Entry) /\ events' \in Seq(SealedEntry)
      /\ Len(events') \in 0 .. Len(disk) /\ Len(disk) \in Nat
  <2>1. disk \in Seq(Entry \cup {NoEvent}) /\ disk \in Seq(SealedEntry \cup {NoEvent})
    BY DEF TypeOK, SealedOK
  <2>2. Parsed(disk) \in Seq(Entry) /\ Len(Parsed(disk)) \in 0 .. Len(disk)
    BY <2>1, ParsedIsPrefix
  <2>3. Parsed(disk) \in Seq(SealedEntry)
    BY <2>1, ParsedIsPrefix
  <2>4. Len(disk) \in Nat
    BY <2>1, LenProperties
  <2>5. QED
    BY <1>2, <2>2, <2>3, <2>4
<1>4. loaded' = Len(events') /\ loaded' \in Nat
  BY <1>2, <1>3
<1>5. counter' \in Nat \ {0}
  <2>1. CASE events' = <<>>
    BY <1>2, <2>1 DEF NextId
  <2>2. CASE events' # <<>>
    <3>1. Len(events') \in 1 .. Len(events')
      BY <1>3, <2>2, EmptySeq
    <3>2. events'[Len(events')] \in Entry
      BY <1>3, <3>1, ElementOfSeq
    <3>3. QED
      BY <1>2, <2>2, <3>2 DEF NextId, Entry
  <2>3. QED
    BY <2>1, <2>2
<1>6. SealedEntry' = SealedEntry /\ Entry' = Entry
  BY <1>1 DEF SealedEntry, Sealed, Entry
<1>7. restarts' \in 0 .. MaxRestarts
  BY BoundsAssumption DEF Restart, TypeOK
<1>8. TypeOK'
  BY <1>1, <1>2, <1>3, <1>4, <1>5, <1>6, <1>7 DEF TypeOK
<1>9. IssuedOK'
  BY <1>1 DEF IssuedOK
<1>10. SealedOK'
  BY <1>1, <1>2, <1>3, <1>6 DEF SealedOK, Held
<1>11. loaded' + 1 .. Len(events') = {}
  BY <1>4
<1>12. IdsOK' /\ UniqueIds' /\ LinksOK' /\ LinksBackward'
  BY <1>2, <1>11 DEF IdsOK, UniqueIds, LinksOK, LinksBackward, Held
<1>13. QED
  BY <1>8, <1>9, <1>10, <1>12

LEMMA EditFileStep ==
    ASSUME IInv, EditFile
    PROVE  IInv'
<1> USE DEF IInv
<1>1. UNCHANGED <<events, counter, pc, tip, entry, loaded, unread, issued,
                  returned, overlapped, faults, restarts>>
  BY DEF EditFile
<1>2. clock' = clock + 1 /\ edits' = edits + 1 /\ edits < MaxEdits /\ clock \in Nat
  BY DEF EditFile, TypeOK
<1>3. Entry' = Entry /\ SealedEntry \subseteq SealedEntry'
  BY <1>1, <1>2, SealedKept
<1>4. /\ disk \in Seq(Entry \cup {NoEvent}) /\ disk \in Seq(SealedEntry \cup {NoEvent})
      /\ DOMAIN disk = 1 .. Len(disk)
  BY LenProperties DEF TypeOK, SealedOK
<1>5. IssuedOK'
  <2>1. \A p, b : Hash(p, b) \in issued => b \in 1 .. clock
    BY HashInjective DEF IssuedOK
  <2>2. 1 .. clock \subseteq 1 .. clock'
    BY <1>2
  <2>3. \A h \in issued : \E p \in issued \cup {Genesis}, b \in 1 .. clock' :
           h = Hash(p, b)
    BY <2>2 DEF IssuedOK
  <2>4. \A p, q \in issued \cup {Genesis}, b \in 1 .. clock' :
           Hash(p, b) \in issued /\ Hash(q, b) \in issued => p = q
    BY <2>1 DEF IssuedOK
  <2>5. QED
    BY <1>1, <2>3, <2>4 DEF IssuedOK
<1>6. PICK i \in DOMAIN disk :
         \/ /\ disk[i] # NoEvent
            /\ disk' = [disk EXCEPT ![i].body = clock + 1]
            /\ UNCHANGED torn
         \/ /\ disk' = RemoveAt(disk, i)
            /\ torn' = (torn /\ i # Len(disk))
  BY DEF EditFile
<1>7. /\ disk' \in Seq(Entry' \cup {NoEvent}) /\ disk' \in Seq(SealedEntry' \cup {NoEvent})
      /\ torn' \in BOOLEAN
  <2>1. CASE /\ disk[i] # NoEvent
             /\ disk' = [disk EXCEPT ![i].body = clock + 1]
             /\ UNCHANGED torn
    <3> DEFINE new == [disk[i] EXCEPT !.body = clock + 1]
    <3>1. disk[i] \in SealedEntry
      BY <1>4, <2>1, ElementOfSeq
    <3>2. /\ new \in Entry /\ new.body = clock + 1
          /\ new.entry_hash = disk[i].entry_hash
          /\ new.prev_hash = disk[i].prev_hash
      BY <1>2, <3>1 DEF SealedEntry, Entry
    <3>3. \A p \in issued \cup {Genesis} : Hash(p, clock + 1) \notin issued
      <4>1. \A p, b : Hash(p, b) \in issued => b \in 1 .. clock
        BY HashInjective DEF IssuedOK
      <4>2. clock + 1 \notin 1 .. clock
        BY <1>2
      <4>3. QED
        BY <4>1, <4>2
    <3>4. new \in SealedEntry'
      <4>1. new.body \in 1 .. clock'
        BY <1>2, <3>2
      <4>2. \A p \in issued' \cup {Genesis} : Hash(p, new.body) \notin issued'
        BY <1>1, <3>2, <3>3
      <4>3. QED
        BY <1>3, <3>2, <4>1, <4>2 DEF SealedEntry, Sealed
    <3>5. disk' = [disk EXCEPT ![i] = new]
      BY <2>1
    <3> HIDE DEF new
    <3>6. SealedEntry \cup {NoEvent} \subseteq SealedEntry' \cup {NoEvent}
      BY <1>3
    <3>7. disk \in Seq(SealedEntry' \cup {NoEvent})
      BY <1>4, <3>6, SeqMonotonic
    <3>8. disk' \in Seq(SealedEntry' \cup {NoEvent})
      BY <1>4, <3>4, <3>5, <3>7, ExceptSeq
    <3>9. disk' \in Seq(Entry \cup {NoEvent})
      BY <1>4, <3>2, <3>5, ExceptSeq
    <3>10. QED
      BY <1>3, <2>1, <3>8, <3>9 DEF TypeOK
  <2>2. CASE /\ disk' = RemoveAt(disk, i)
             /\ torn' = (torn /\ i # Len(disk))
    <3>1. disk' \in Seq(Entry \cup {NoEvent}) /\ disk' \in Seq(SealedEntry \cup {NoEvent})
      BY <1>4, <2>2, RemoveAtType
    <3>2. SealedEntry \cup {NoEvent} \subseteq SealedEntry' \cup {NoEvent}
      BY <1>3
    <3>3. disk' \in Seq(SealedEntry' \cup {NoEvent})
      BY <3>1, <3>2, SeqMonotonic
    <3>4. torn' \in BOOLEAN
      BY <2>2
    <3>5. QED
      BY <1>3, <3>1, <3>3, <3>4
  <2>3. QED
    BY <1>6, <2>1, <2>2
<1>8. TypeOK'
  <2>1. edits' \in 0 .. MaxEdits
    BY <1>2, BoundsAssumption DEF TypeOK
  <2>2. QED
    BY <1>1, <1>2, <1>3, <1>7, <2>1 DEF TypeOK
<1>9. SealedOK'
  <2>1. events' \in Seq(SealedEntry')
    BY <1>1, <1>3, SeqMonotonic DEF SealedOK
  <2>2. \A w \in Writers : Held(w)' => entry'[w] \in SealedEntry'
    BY <1>1, <1>3 DEF SealedOK, Held
  <2>3. QED
    BY <1>7, <2>1, <2>2 DEF SealedOK
<1>10. IdsOK' /\ UniqueIds' /\ LinksOK' /\ LinksBackward'
  BY <1>1 DEF IdsOK, UniqueIds, LinksOK, LinksBackward, Listed, Held
<1>11. QED
  BY <1>5, <1>8, <1>9, <1>10

-----------------------------------------------------------------------------
(* Theorems. *)

(* The invariant holds in every reachable state.                           *)
THEOREM Invariance == Spec => []IInv
<1>1. Init => IInv
  <2> SUFFICES ASSUME Init PROVE IInv
    OBVIOUS
  <2>1. /\ events = <<>> /\ disk = <<>> /\ counter = 1 /\ loaded = 0
        /\ issued = {} /\ torn = FALSE /\ unread = 0 /\ clock = 0
        /\ returned = {} /\ overlapped = FALSE
        /\ faults = 0 /\ edits = 0 /\ restarts = 0
        /\ pc = [w \in Writers |-> "idle"] /\ tip = [w \in Writers |-> Genesis]
        /\ entry = [w \in Writers |-> NoEvent]
    BY DEF Init
  <2>2. \A S : <<>> \in Seq(S) /\ Len(<<>>) = 0
    BY EmptySeq
  <2>3. TypeOK
    <3>1. events \in Seq(Entry) /\ disk \in Seq(Entry \cup {NoEvent}) /\ loaded \in 0 .. Len(events)
      BY <2>1, <2>2
    <3>2. /\ pc \in [Writers -> {"idle", "linked", "built", "listed"}]
          /\ tip \in [Writers -> issued \cup {Genesis}]
          /\ entry \in [Writers -> Entry \cup {NoEvent}]
      BY <2>1
    <3>3. torn \in BOOLEAN /\ overlapped \in BOOLEAN
      BY <2>1
    <3>4. /\ counter \in Nat \ {0}
          /\ unread \in Nat /\ clock \in Nat
          /\ returned \subseteq Nat
          /\ faults \in 0 .. MaxFaults /\ edits \in 0 .. MaxEdits
          /\ restarts \in 0 .. MaxRestarts
      BY <2>1, BoundsAssumption DEF BoundsAssumption
    <3>5. QED
      BY <3>1, <3>2, <3>3, <3>4 DEF TypeOK
  <2>4. IssuedOK /\ SealedOK
    BY <2>1, <2>2 DEF IssuedOK, SealedOK, Held
  <2>5. IdsOK /\ UniqueIds /\ LinksOK /\ LinksBackward
    BY <2>1, <2>2 DEF IdsOK, UniqueIds, LinksOK, LinksBackward, Held
  <2>6. QED
    BY <2>3, <2>4, <2>5 DEF IInv
<1>2. IInv /\ [Next]_vars => IInv'
  <2> SUFFICES ASSUME IInv, [Next]_vars PROVE IInv'
    OBVIOUS
  <2>1. ASSUME NEW w \in Writers, Record(w) PROVE IInv'
    BY <2>1, ReadTipStep, BuildStep, AppendMemoryStep, AppendDiskStep DEF Record
  <2>2. CASE Restart
    BY <2>2, RestartStep
  <2>3. CASE EditFile
    BY <2>3, EditFileStep
  <2>4. CASE UNCHANGED vars
    BY <2>4 DEF vars, IInv, TypeOK, Entry, IssuedOK, SealedOK, SealedEntry,
                Sealed, Held, IdsOK, UniqueIds, LinksOK, LinksBackward, Listed
  <2>5. QED
    BY <2>1, <2>2, <2>3, <2>4 DEF Next
<1>3. QED
  BY <1>1, <1>2, PTL DEF Spec

(* Type correctness, for any number of threads.                            *)
THEOREM TypeCorrect == Spec => []TypeOK
<1>1. IInv => TypeOK
  BY DEF IInv
<1>2. QED
  BY <1>1, Invariance, PTL

(* No two events of one life of the process share an id (audit.py:113).    *)
THEOREM IdsAreUnique == Spec => []UniqueIds
<1>1. IInv => UniqueIds
  BY DEF IInv
<1>2. QED
  BY <1>1, Invariance, PTL

(* However many threads race, the links of the chain point backward        *)
(* (audit.py:111-128).                                                     *)
THEOREM LinksPointBackward == Spec => []LinksBackward
<1>1. IInv => LinksBackward
  BY DEF IInv
<1>2. QED
  BY <1>1, Invariance, PTL

(* verify_chain complains exactly about the events that record() did not   *)
(* seal on top of the event before them, and names the first of them       *)
(* (audit.py:141-159).                                                     *)
THEOREM VerifyIsExact == Spec => []AlarmNamesFirstForgery
<1>1. ASSUME IInv, NEW i \in DOMAIN events
      PROVE  Continues(events, i) <=> Genuine(i)
  <2> DEFINE prev == IF i = 1 THEN Genesis ELSE events[i - 1].entry_hash
             e == events[i]
  <2>1. events \in Seq(SealedEntry) /\ DOMAIN events = 1 .. Len(events) /\ Len(events) \in Nat
    BY <1>1, LenProperties DEF IInv, SealedOK
  <2>2. e \in SealedEntry
    BY <2>1, ElementOfSeq
  <2>3. /\ e.prev_hash \in issued \cup {Genesis} /\ e.entry_hash \in issued
        /\ e.body \in 1 .. clock
        /\ \/ e.entry_hash = Hash(e.prev_hash, e.body)
           \/ \A p \in issued \cup {Genesis} : Hash(p, e.body) \notin issued
    BY <2>2 DEF SealedEntry, Sealed, Entry
  <2>4. prev \in issued \cup {Genesis}
    <3>1. CASE i = 1
      BY <3>1
    <3>2. CASE i # 1
      <4>1. i - 1 \in 1 .. Len(events)
        BY <2>1, <3>2
      <4>2. events[i - 1] \in SealedEntry
        BY <2>1, <4>1, ElementOfSeq
      <4>3. QED
        BY <3>2, <4>2 DEF SealedEntry, Entry
    <3>3. QED
      BY <3>1, <3>2
  <2>5. Continues(events, i) <=> e.prev_hash = prev /\ e.entry_hash = Hash(prev, e.body)
    BY DEF Continues
  <2>6. Genuine(i) <=> Hash(prev, e.body) \in issued
    BY DEF Genuine
  <2> HIDE DEF prev, e
  <2>7. \A p \in issued \cup {Genesis} :
           Hash(p, e.body) \in issued /\ Hash(prev, e.body) \in issued => p = prev
    BY <1>1, <2>3, <2>4 DEF IInv, IssuedOK
  <2>8. QED
    BY <2>3, <2>4, <2>5, <2>6, <2>7
<1>2. IInv => AlarmNamesFirstForgery
  <2> SUFFICES ASSUME IInv PROVE AlarmNamesFirstForgery
    OBVIOUS
  <2>1. Breaks(events) = {i \in DOMAIN events : ~Genuine(i)}
    BY <1>1 DEF Breaks
  <2>2. QED
    BY <2>1 DEF AlarmNamesFirstForgery, Valid, FirstInvalid
<1>3. QED
  BY <1>2, Invariance, PTL

-----------------------------------------------------------------------------
(* What restarts and single threads leave behind: the file and the list.   *)

Busy(w) == pc[w] # "idle"

OneBusy == ~overlapped => \A v, w \in Writers : Busy(v) /\ Busy(w) => v = w

(* As long as no write failed and nobody edited the file, whatever is in   *)
(* the file is in memory, and what is returned is in the file.             *)
NoLoss ==
    faults = 0 /\ edits = 0 =>
        /\ ~torn /\ unread = 0
        /\ NoEvent \notin Range(disk)
        /\ Range(disk) \subseteq Range(events)
        /\ returned \subseteq {e.body : e \in Range(disk)}
        /\ \A w \in Writers : pc[w] = "listed" => entry[w] \in Range(events)

(* With one thread at a time the file is the list, but for the event about *)
(* to be written, and every link was read from the event before it.        *)
OneChain ==
    faults = 0 /\ edits = 0 /\ ~overlapped =>
        /\ Valid(events)
        /\ \A w \in Writers :
              /\ pc[w] = "linked" => tip[w] = TipHash(events)
              /\ pc[w] = "built" =>
                    /\ entry[w].prev_hash = TipHash(events)
                    /\ entry[w].entry_hash = Hash(TipHash(events), entry[w].body)
              /\ pc[w] = "listed" => events = Append(disk, entry[w])
        /\ (\A w \in Writers : pc[w] # "listed") => events = disk

Increasing(es) == \A i, j \in DOMAIN es : i < j => es[i].log_id < es[j].log_id
Below(es, n) == \A i \in DOMAIN es : es[i].log_id < n

(* With one thread at a time the ids go up in memory and in the part of    *)
(* the file a restart would load, however many lines were lost.            *)
IdsUp ==
    edits = 0 /\ ~overlapped =>
        /\ Increasing(events) /\ Below(events, counter)
        /\ Increasing(Parsed(disk)) /\ Below(Parsed(disk), counter)
        /\ \A w \in Writers :
              /\ pc[w] = "built" => Below(events, entry[w].log_id)
              /\ pc[w] \in {"built", "listed"} => Below(Parsed(disk), entry[w].log_id)

TrailInv == IInv /\ OneBusy /\ NoLoss /\ OneChain /\ IdsUp

LEMMA LeastIsMin ==
    ASSUME NEW S \in SUBSET Nat, NEW m \in S, \A y \in S : m <= y
    PROVE  Min(S) = m
<1>1. Min(S) \in S /\ \A y \in S : Min(S) <= y
  BY MinOfNats
<1>2. Min(S) \in Nat /\ m \in Nat /\ Min(S) <= m /\ m <= Min(S)
  BY <1>1
<1>3. QED
  BY <1>2

(* A file that parses to its end is loaded whole. *)
LEMMA ParsedWhole ==
    ASSUME NEW lines, NoEvent \notin Range(lines)
    PROVE  Parsed(lines) = lines
<1>1. {i \in DOMAIN lines : lines[i] = NoEvent} = {}
  BY DEF Range
<1>2. QED
  BY <1>1 DEF Parsed

(* A line that is appended extends what is loaded, or changes nothing.     *)
LEMMA ParsedAppend ==
    ASSUME NEW T, NEW lines \in Seq(T), NEW e \in T
    PROVE  \/ Parsed(Append(lines, e)) = Parsed(lines)
           \/ /\ Parsed(lines) = lines /\ e # NoEvent
              /\ Parsed(Append(lines, e)) = Append(lines, e)
<1> DEFINE long == Append(lines, e)
           bad == {i \in DOMAIN lines : lines[i] = NoEvent}
           worse == {i \in DOMAIN long : long[i] = NoEvent}
<1>1. /\ Len(lines) \in Nat /\ DOMAIN lines = 1 .. Len(lines)
      /\ long \in Seq(T) /\ Len(long) = Len(lines) + 1 /\ DOMAIN long = 1 .. Len(lines) + 1
      /\ \A i \in 1 .. Len(lines) : long[i] = lines[i]
      /\ long[Len(lines) + 1] = e
  BY AppendProperties, LenProperties
<1>2. worse = bad \cup (IF e = NoEvent THEN {Len(lines) + 1} ELSE {})
  BY <1>1
<1>3. \A m \in 1 .. Len(lines) + 1 : SubSeq(long, 1, m - 1) = SubSeq(lines, 1, m - 1)
  <2> SUFFICES ASSUME NEW m \in 1 .. Len(lines) + 1
               PROVE  SubSeq(long, 1, m - 1) = SubSeq(lines, 1, m - 1)
    OBVIOUS
  <2> HIDE DEF long
  <2>1. /\ SubSeq(long, 1, m - 1) = [i \in 1 .. m - 1 |-> long[i]]
        /\ SubSeq(lines, 1, m - 1) = [i \in 1 .. m - 1 |-> lines[i]]
    BY <1>1
  <2>2. \A i \in 1 .. m - 1 : long[i] = lines[i]
    BY <1>1
  <2>3. QED
    BY <2>1, <2>2
<1>4. CASE bad # {}
  <2> DEFINE m == Min(bad)
  <2>1. m \in bad /\ \A y \in bad : m <= y
    <3>1. bad \in SUBSET Nat
      BY <1>1
    <3>2. QED
      BY <1>4, <3>1, MinOfNats
  <2>2. m \in worse /\ worse \in SUBSET Nat /\ \A y \in worse : m <= y
    <3> HIDE DEF worse, m
    <3>1. bad \subseteq 1 .. Len(lines) /\ m \in 1 .. Len(lines)
      BY <1>1, <2>1
    <3> HIDE DEF bad
    <3>2. \A y \in worse : y \in bad \/ y = Len(lines) + 1
      BY <1>2
    <3>3. m \in worse /\ Len(lines) + 1 \in Nat /\ m <= Len(lines) + 1
      BY <1>1, <1>2, <2>1, <3>1
    <3>4. \A y \in worse : y \in Nat /\ m <= y
      BY <1>1, <2>1, <3>1, <3>2, <3>3
    <3>5. QED
      BY <3>3, <3>4
  <2>3. Min(worse) = m /\ worse # {} /\ m \in 1 .. Len(lines) + 1
    BY <1>1, <2>1, <2>2, LeastIsMin
  <2>4. Parsed(long) = SubSeq(long, 1, Min(worse) - 1) /\ Parsed(lines) = SubSeq(lines, 1, m - 1)
    BY <1>4, <2>3 DEF Parsed
  <2> HIDE DEF m, worse, bad, long
  <2>5. Parsed(long) = Parsed(lines)
    BY <1>3, <2>3, <2>4
  <2>6. QED
    BY <2>5 DEF long
<1>5. CASE bad = {} /\ e = NoEvent
  <2>1. worse = {Len(lines) + 1}
    BY <1>2, <1>5
  <2>2. Min(worse) = Len(lines) + 1
    BY <1>1, <2>1, LeastIsMin
  <2>3. Parsed(long) = SubSeq(long, 1, Min(worse) - 1) /\ Parsed(lines) = lines
    BY <1>5, <2>1 DEF Parsed
  <2>4. SubSeq(lines, 1, Len(lines)) = lines
    BY SubSeqFull
  <2> HIDE DEF worse, bad, long
  <2>5. Parsed(long) = Parsed(lines)
    BY <1>1, <1>3, <2>2, <2>3, <2>4
  <2>6. QED
    BY <2>5 DEF long
<1>6. CASE bad = {} /\ e # NoEvent
  <2>1. worse = {}
    BY <1>2, <1>6
  <2>2. QED
    BY <1>6, <2>1 DEF Parsed
<1>7. QED
  BY <1>4, <1>5, <1>6

(* An event on top of a valid chain that links to its end keeps it valid;  *)
(* without its last event a valid chain is valid.                          *)
LEMMA ValidAppend ==
    ASSUME NEW T, NEW es \in Seq(T), NEW e
    PROVE  Valid(Append(es, e)) <=>
              /\ Valid(es)
              /\ e.prev_hash = TipHash(es) /\ e.entry_hash = Hash(TipHash(es), e.body)
<1> DEFINE long == Append(es, e)
<1>1. /\ Len(es) \in Nat /\ DOMAIN es = 1 .. Len(es) /\ DOMAIN long = 1 .. Len(es) + 1
      /\ \A i \in 1 .. Len(es) : long[i] = es[i]
      /\ long[Len(es) + 1] = e
  OBVIOUS
<1>2. \A i \in 1 .. Len(es) : Continues(long, i) <=> Continues(es, i)
  <2> HIDE DEF long
  <2>1. \A i \in 1 .. Len(es) : i # 1 => long[i - 1] = es[i - 1]
    BY <1>1
  <2>2. QED
    BY <1>1, <2>1 DEF Continues
<1>3. (IF Len(es) + 1 = 1 THEN Genesis ELSE long[Len(es) + 1 - 1].entry_hash) = TipHash(es)
  <2>1. es = <<>> <=> Len(es) = 0
    BY EmptySeq
  <2>2. Len(es) # 0 => long[Len(es) + 1 - 1] = es[Len(es)]
    <3>1. Len(es) # 0 => Len(es) \in 1 .. Len(es)
      BY <1>1
    <3> HIDE DEF long
    <3>2. QED
      BY <1>1, <3>1
  <2> HIDE DEF long
  <2>3. QED
    BY <1>1, <2>1, <2>2 DEF TipHash
<1>4. Continues(long, Len(es) + 1) <=>
          e.prev_hash = TipHash(es) /\ e.entry_hash = Hash(TipHash(es), e.body)
  <2> HIDE DEF long
  <2>1. QED
    BY <1>1, <1>3 DEF Continues
<1> HIDE DEF long
<1>5. Valid(long) <=> (\A i \in 1 .. Len(es) : Continues(long, i)) /\ Continues(long, Len(es) + 1)
  BY <1>1 DEF Valid, Breaks
<1>6. Valid(es) <=> \A i \in 1 .. Len(es) : Continues(es, i)
  BY <1>1 DEF Valid, Breaks
<1>7. QED
  BY <1>2, <1>4, <1>5, <1>6 DEF long

(* The same for the ids. *)
LEMMA IncreasingAppend ==
    ASSUME NEW T, NEW es \in Seq(T), NEW e, Increasing(es), Below(es, e.log_id)
    PROVE  /\ Increasing(Append(es, e))
           /\ \A n \in Nat : Below(es, n) /\ e.log_id < n => Below(Append(es, e), n)
<1> DEFINE long == Append(es, e)
<1>1. /\ Len(es) \in Nat /\ DOMAIN es = 1 .. Len(es) /\ DOMAIN long = 1 .. Len(es) + 1
      /\ \A i \in 1 .. Len(es) : long[i] = es[i]
      /\ long[Len(es) + 1] = e
  OBVIOUS
<1> HIDE DEF long
<1>2. Increasing(long)
  BY <1>1 DEF Increasing, Below
<1>3. \A n \in Nat : Below(es, n) /\ e.log_id < n => Below(long, n)
  BY <1>1 DEF Below
<1>4. QED
  BY <1>2, <1>3 DEF long

(* The event of a thread is no torn line. *)
LEMMA HeldIsEvent ==
    ASSUME IInv, NEW w \in Writers, Held(w)
    PROVE  entry[w] \in Entry /\ entry[w] # NoEvent /\ entry[w].log_id \in Nat
<1>1. entry[w] \in Entry
  BY DEF IInv, SealedOK, SealedEntry
<1>2. \A h \in issued : h # Genesis
  BY GenesisNotHash DEF IInv, IssuedOK
<1>3. QED
  BY <1>1, <1>2 DEF Entry, NoEvent

(* A history that counts never goes back to zero. *)
LEMMA FaultsStay ==
    ASSUME IInv, [Next]_vars
    PROVE  /\ faults' = 0 => faults = 0
           /\ edits' = 0 => edits = 0 /\ ~EditFile
           /\ ~overlapped' => ~overlapped
<1>1. faults \in Nat /\ edits \in Nat
  BY BoundsAssumption DEF IInv, TypeOK
<1>2. /\ faults' \in {faults, faults + 1} /\ (overlapped => overlapped')
      /\ (edits' = edits /\ ~EditFile) \/ edits' = edits + 1
  <2>1. ASSUME EditFile PROVE edits' = edits + 1 /\ UNCHANGED <<faults, overlapped>>
    BY <2>1 DEF EditFile
  <2>2. ASSUME ~EditFile
        PROVE  faults' \in {faults, faults + 1} /\ (overlapped => overlapped') /\ edits' = edits
    <3>1. ASSUME NEW w \in Writers, AppendDisk(w)
          PROVE  faults' \in {faults, faults + 1} /\ UNCHANGED <<overlapped, edits>>
      BY <3>1 DEF AppendDisk, WriteLine, FailToWrite
    <3>2. ASSUME NEW w \in Writers, ReadTip(w) \/ Build(w) \/ AppendMemory(w)
          PROVE  faults' = faults /\ edits' = edits /\ (overlapped => overlapped')
      <4>1. faults' = faults /\ edits' = edits
        BY <3>2 DEF ReadTip, Build, AppendMemory
      <4>2. overlapped' = (overlapped \/ \E v \in Writers : pc[v] # "idle") \/ UNCHANGED overlapped
        BY <3>2 DEF ReadTip, Build, AppendMemory
      <4>3. overlapped => overlapped'
        BY <4>2, Zenon
      <4>4. QED
        BY <4>1, <4>3
    <3>3. CASE Restart \/ UNCHANGED vars
      BY <3>3 DEF Restart, vars
    <3>4. QED
      BY <2>2, <3>1, <3>2, <3>3 DEF Next, Record
  <2>3. QED
    BY <2>1, <2>2
<1>3. QED
  BY <1>1, <1>2

LEMMA BusyStep ==
    ASSUME IInv, OneBusy, [Next]_vars
    PROVE  OneBusy'
<1> SUFFICES ASSUME ~overlapped', NEW v \in Writers, NEW u \in Writers, Busy(v)', Busy(u)'
             PROVE  v = u
  BY DEF OneBusy
<1>1. pc \in [Writers -> {"idle", "linked", "built", "listed"}]
  BY DEF IInv, TypeOK
<1>2. \A x, y \in Writers : Busy(x) /\ Busy(y) => x = y
  BY FaultsStay DEF OneBusy
<1>3. ASSUME NEW w \in Writers, ReadTip(w) PROVE v = u
  <2>1. \A x \in Writers : pc[x] = "idle"
    BY <1>3 DEF ReadTip
  <2>2. \A x \in Writers \ {w} : pc'[x] = "idle"
    BY <1>1, <1>3, <2>1 DEF ReadTip, Goto
  <2>3. QED
    BY <2>2 DEF Busy
<1>4. ASSUME NEW w \in Writers, Build(w) \/ AppendMemory(w) \/ AppendDisk(w) PROVE v = u
  <2>1. pc[w] # "idle" /\ \A x \in Writers \ {w} : pc'[x] = pc[x]
    BY <1>1, <1>4 DEF Build, AppendMemory, AppendDisk, Goto
  <2>2. Busy(v) /\ Busy(u)
    BY <2>1 DEF Busy
  <2>3. QED
    BY <1>2, <2>2
<1>5. CASE Restart
  BY <1>5 DEF Restart, Busy
<1>6. CASE EditFile \/ UNCHANGED vars
  BY <1>2, <1>6 DEF EditFile, vars, Busy
<1>7. QED
  BY <1>3, <1>4, <1>5, <1>6 DEF Next, Record

(* Appending adds one element. *)
LEMMA AppendRange ==
    ASSUME NEW T, NEW s \in Seq(T), NEW e
    PROVE  Range(Append(s, e)) = Range(s) \cup {e}
<1> DEFINE long == Append(s, e)
<1>1. /\ Len(s) \in Nat /\ DOMAIN s = 1 .. Len(s) /\ DOMAIN long = 1 .. Len(s) + 1
      /\ \A i \in 1 .. Len(s) : long[i] = s[i]
      /\ long[Len(s) + 1] = e
  OBVIOUS
<1> HIDE DEF long
<1>2. 1 .. Len(s) + 1 = 1 .. Len(s) \cup {Len(s) + 1}
  BY <1>1
<1>3. Range(long) = Range(s) \cup {e}
  BY <1>1, <1>2 DEF Range
<1>4. QED
  BY <1>3 DEF long

LEMMA LossStep ==
    ASSUME IInv, NoLoss, [Next]_vars
    PROVE  NoLoss'
<1> SUFFICES ASSUME faults' = 0, edits' = 0
             PROVE  /\ ~torn' /\ unread' = 0
                    /\ NoEvent \notin Range(disk')
                    /\ Range(disk') \subseteq Range(events')
                    /\ returned' \subseteq {e.body : e \in Range(disk')}
                    /\ \A w \in Writers : pc'[w] = "listed" => entry'[w] \in Range(events')
  BY DEF NoLoss
<1>1. /\ pc \in [Writers -> {"idle", "linked", "built", "listed"}]
      /\ entry \in [Writers -> Entry \cup {NoEvent}]
      /\ events \in Seq(Entry) /\ disk \in Seq(Entry \cup {NoEvent})
  BY DEF IInv, TypeOK
<1>2. /\ faults = 0 /\ edits = 0 /\ ~torn /\ unread = 0
      /\ NoEvent \notin Range(disk)
      /\ Range(disk) \subseteq Range(events)
      /\ returned \subseteq {e.body : e \in Range(disk)}
      /\ \A w \in Writers : pc[w] = "listed" => entry[w] \in Range(events)
  BY FaultsStay DEF NoLoss
<1>3. ASSUME NEW w \in Writers, ReadTip(w) \/ Build(w)
      PROVE  /\ UNCHANGED <<torn, unread, disk, events, returned>>
             /\ \A v \in Writers : pc'[v] = "listed" => pc[v] = "listed" /\ entry'[v] = entry[v]
  BY <1>1, <1>3 DEF ReadTip, Build, Goto
<1>4. ASSUME NEW w \in Writers, AppendMemory(w)
      PROVE  /\ UNCHANGED <<torn, unread, disk, returned, entry>>
             /\ Range(events') = Range(events) \cup {entry[w]}
             /\ \A v \in Writers : pc'[v] = "listed" => v = w \/ pc[v] = "listed"
  <2>1. Range(events') = Range(events) \cup {entry[w]}
    BY <1>1, <1>4, AppendRange DEF AppendMemory
  <2>2. QED
    BY <1>1, <1>4, <2>1 DEF AppendMemory, Goto
<1>5. ASSUME NEW w \in Writers, AppendDisk(w)
      PROVE  /\ UNCHANGED <<unread, events, entry>> /\ ~torn'
             /\ Range(disk') = Range(disk) \cup {entry[w]} /\ entry[w] # NoEvent
             /\ entry[w] \in Range(events) /\ returned' = returned \cup {entry[w].body}
             /\ \A v \in Writers : pc'[v] = "listed" => pc[v] = "listed"
  <2>1. WriteLine(w)
    <3>1. ~FailToWrite
      BY <1>2 DEF FailToWrite
    <3>2. QED
      BY <1>5, <3>1 DEF AppendDisk
  <2>2. disk' = Append(disk, entry[w]) /\ ~torn'
    BY <1>2, <2>1 DEF WriteLine
  <2>3. Range(disk') = Range(disk) \cup {entry[w]}
    BY <1>1, <2>2, AppendRange
  <2>4. pc[w] = "listed" /\ entry[w] # NoEvent
    BY <1>5, HeldIsEvent DEF AppendDisk, Goto, Held
  <2>5. QED
    BY <1>1, <1>2, <1>5, <2>2, <2>3, <2>4 DEF AppendDisk, Goto
<1>6. CASE Restart
  <2>1. Parsed(disk) = disk
    BY <1>2, ParsedWhole
  <2>2. unread' = 0
    <3>1. Len(disk) \in Nat
      BY <1>1, LenProperties
    <3>2. QED
      BY <1>6, <2>1, <3>1 DEF Restart
  <2>3. events' = disk /\ UNCHANGED <<torn, disk, returned>> /\ \A v \in Writers : pc'[v] = "idle"
    BY <1>6, <2>1 DEF Restart
  <2>4. QED
    BY <1>2, <2>2, <2>3
<1>7. CASE UNCHANGED vars
  BY <1>2, <1>7 DEF vars
<1>8. CASE \E w \in Writers : Record(w)
  <2>1. PICK w \in Writers : Record(w)
    BY <1>8
  <2>2. CASE ReadTip(w) \/ Build(w)
    BY <1>2, <1>3, <2>2
  <2>3. CASE AppendMemory(w)
    BY <1>2, <1>4, <2>3
  <2>4. CASE AppendDisk(w)
    <3>1. returned' \subseteq {e.body : e \in Range(disk')}
      BY <1>2, <1>5, <2>4
    <3>2. QED
      BY <1>2, <1>5, <2>4, <3>1
  <2>5. QED
    BY <2>1, <2>2, <2>3, <2>4 DEF Record
<1>9. QED
  BY <1>6, <1>7, <1>8, FaultsStay DEF Next

LEMMA ChainStep ==
    ASSUME IInv, OneBusy, NoLoss, OneChain, [Next]_vars
    PROVE  OneChain'
<1> SUFFICES ASSUME faults' = 0, edits' = 0, ~overlapped'
             PROVE  /\ Valid(events')
                    /\ \A w \in Writers :
                          /\ pc'[w] = "linked" => tip'[w] = TipHash(events')
                          /\ pc'[w] = "built" =>
                                /\ entry'[w].prev_hash = TipHash(events')
                                /\ entry'[w].entry_hash = Hash(TipHash(events'), entry'[w].body)
                          /\ pc'[w] = "listed" => events' = Append(disk', entry'[w])
                    /\ (\A w \in Writers : pc'[w] # "listed") => events' = disk'
  BY DEF OneChain
<1>1. /\ pc \in [Writers -> {"idle", "linked", "built", "listed"}]
      /\ entry \in [Writers -> Entry \cup {NoEvent}]
      /\ tip \in [Writers -> issued \cup {Genesis}]
      /\ events \in Seq(Entry) /\ disk \in Seq(Entry \cup {NoEvent})
  BY DEF IInv, TypeOK
<1>2. /\ faults = 0 /\ edits = 0 /\ ~overlapped
      /\ ~torn /\ NoEvent \notin Range(disk)
      /\ \A v, w \in Writers : Busy(v) /\ Busy(w) => v = w
  BY FaultsStay DEF NoLoss, OneBusy
<1>3. /\ Valid(events)
      /\ \A w \in Writers :
            /\ pc[w] = "linked" => tip[w] = TipHash(events)
            /\ pc[w] = "built" =>
                  /\ entry[w].prev_hash = TipHash(events)
                  /\ entry[w].entry_hash = Hash(TipHash(events), entry[w].body)
            /\ pc[w] = "listed" => events = Append(disk, entry[w])
      /\ (\A w \in Writers : pc[w] # "listed") => events = disk
  BY <1>2 DEF OneChain
<1>4. ASSUME NEW w \in Writers, ReadTip(w)
      PROVE  /\ UNCHANGED <<events, disk, entry>>
             /\ pc[w] = "idle" /\ pc'[w] = "linked" /\ tip'[w] = TipHash(events)
             /\ \A v \in Writers \ {w} : pc'[v] = pc[v] /\ tip'[v] = tip[v]
  BY <1>1, <1>4 DEF ReadTip, Goto
<1>5. ASSUME NEW w \in Writers, Build(w)
      PROVE  /\ UNCHANGED <<events, disk, tip>>
             /\ pc[w] = "linked" /\ pc'[w] = "built"
             /\ entry'[w].prev_hash = tip[w]
             /\ entry'[w].entry_hash = Hash(tip[w], entry'[w].body)
             /\ \A v \in Writers \ {w} : pc'[v] = pc[v] /\ entry'[v] = entry[v]
  BY <1>1, <1>5 DEF Build, Goto, Seal
<1>6. ASSUME NEW w \in Writers, AppendMemory(w)
      PROVE  /\ UNCHANGED <<disk, tip, entry>>
             /\ pc[w] = "built" /\ pc'[w] = "listed"
             /\ \A v \in Writers \ {w} : pc'[v] = pc[v] /\ pc[v] = "idle"
             /\ events' = Append(disk, entry[w]) /\ Valid(events')
  <2>1. /\ pc[w] = "built" /\ pc'[w] = "listed" /\ \A v \in Writers \ {w} : pc'[v] = pc[v]
        /\ UNCHANGED <<disk, tip, entry>> /\ events' = Append(events, entry[w])
    BY <1>1, <1>6 DEF AppendMemory, Goto
  <2>2. \A v \in Writers \ {w} : pc[v] = "idle"
    BY <1>2, <2>1 DEF Busy
  <2>3. events = disk
    BY <1>3, <2>1, <2>2
  <2>4. Valid(events')
    BY <1>1, <1>3, <2>1, ValidAppend
  <2>5. QED
    BY <2>1, <2>2, <2>3, <2>4
<1>7. ASSUME NEW w \in Writers, AppendDisk(w)
      PROVE  /\ UNCHANGED events /\ disk' = events /\ \A v \in Writers : pc'[v] = "idle"
  <2>1. disk' = Append(disk, entry[w])
    BY <1>2, <1>7 DEF AppendDisk, WriteLine, FailToWrite
  <2>2. pc[w] = "listed" /\ pc'[w] = "idle" /\ \A v \in Writers \ {w} : pc'[v] = pc[v]
    BY <1>1, <1>7 DEF AppendDisk, Goto
  <2>3. \A v \in Writers \ {w} : pc[v] = "idle"
    BY <1>2, <2>2 DEF Busy
  <2>4. QED
    BY <1>3, <1>7, <2>1, <2>2, <2>3 DEF AppendDisk
<1>8. CASE Restart
  <2>1. Parsed(disk) = disk
    BY <1>2, ParsedWhole
  <2>2. events' = disk /\ disk' = disk /\ \A v \in Writers : pc'[v] = "idle"
    BY <1>8, <2>1 DEF Restart
  <2>3. Valid(disk)
    <3>1. CASE \A w \in Writers : pc[w] # "listed"
      BY <1>3, <3>1
    <3>2. CASE \E w \in Writers : pc[w] = "listed"
      <4>1. PICK w \in Writers : events = Append(disk, entry[w])
        BY <1>3, <3>2
      <4>2. QED
        BY <1>1, <1>3, <4>1, ValidAppend
    <3>3. QED
      BY <3>1, <3>2
  <2>4. QED
    BY <2>2, <2>3
<1>9. CASE UNCHANGED vars
  BY <1>3, <1>9 DEF vars
<1>10. CASE \E w \in Writers : Record(w)
  <2>1. PICK w \in Writers : Record(w)
    BY <1>10
  <2>2. CASE ReadTip(w)
    BY <1>3, <1>4, <2>2
  <2>3. CASE Build(w)
    BY <1>3, <1>5, <2>3
  <2>4. CASE AppendMemory(w)
    BY <1>3, <1>6, <2>4
  <2>5. CASE AppendDisk(w)
    BY <1>3, <1>7, <2>5
  <2>6. QED
    BY <2>1, <2>2, <2>3, <2>4, <2>5 DEF Record
<1>11. QED
  BY <1>8, <1>9, <1>10, FaultsStay DEF Next

LEMMA IdsUpStep ==
    ASSUME IInv, OneBusy, IdsUp, [Next]_vars
    PROVE  IdsUp'
<1> SUFFICES ASSUME edits' = 0, ~overlapped'
             PROVE  /\ Increasing(events') /\ Below(events', counter')
                    /\ Increasing(Parsed(disk')) /\ Below(Parsed(disk'), counter')
                    /\ \A w \in Writers :
                          /\ pc'[w] = "built" => Below(events', entry'[w].log_id)
                          /\ pc'[w] \in {"built", "listed"} =>
                                Below(Parsed(disk'), entry'[w].log_id)
  BY DEF IdsUp
<1> DEFINE kept == Parsed(disk)
<1>1. /\ pc \in [Writers -> {"idle", "linked", "built", "listed"}]
      /\ entry \in [Writers -> Entry \cup {NoEvent}]
      /\ events \in Seq(Entry) /\ disk \in Seq(Entry \cup {NoEvent}) /\ counter \in Nat
  BY DEF IInv, TypeOK
<1>2. kept \in Seq(Entry) /\ Len(kept) \in Nat /\ DOMAIN kept = 1 .. Len(kept)
  BY <1>1, ParsedIsPrefix, LenProperties
<1>3. /\ \A i \in DOMAIN kept : kept[i].log_id \in Nat
      /\ \A i \in DOMAIN events : events[i].log_id \in Nat
  <2>1. /\ \A i \in 1 .. Len(kept) : kept[i] \in Entry
        /\ \A i \in 1 .. Len(events) : events[i] \in Entry
    BY <1>1, <1>2, ElementOfSeq
  <2>2. DOMAIN events = 1 .. Len(events)
    BY <1>1, LenProperties
  <2>3. QED
    BY <1>2, <2>1, <2>2 DEF Entry
<1>4. ~overlapped /\ \A v, w \in Writers : Busy(v) /\ Busy(w) => v = w
  BY FaultsStay DEF OneBusy
<1>5. /\ Increasing(events) /\ Below(events, counter)
      /\ Increasing(kept) /\ Below(kept, counter)
      /\ \A w \in Writers :
            /\ pc[w] = "built" => Below(events, entry[w].log_id)
            /\ pc[w] \in {"built", "listed"} => Below(kept, entry[w].log_id)
  BY <1>4, FaultsStay DEF IdsUp
<1> HIDE DEF kept
<1>6. ASSUME NEW w \in Writers, ReadTip(w)
      PROVE  /\ UNCHANGED <<events, disk, counter, entry>>
             /\ \A v \in Writers : pc'[v] \in {"built", "listed"} => pc'[v] = pc[v]
  BY <1>1, <1>6 DEF ReadTip, Goto
<1>7. ASSUME NEW w \in Writers, Build(w)
      PROVE  /\ UNCHANGED <<events, disk>> /\ counter' = counter + 1
             /\ entry'[w].log_id = counter
             /\ \A v \in Writers \ {w} : pc'[v] = pc[v] /\ entry'[v] = entry[v]
             /\ Below(events, counter + 1) /\ Below(kept, counter + 1)
  <2>1. Below(events, counter + 1) /\ Below(kept, counter + 1)
    BY <1>1, <1>3, <1>5 DEF Below
  <2>2. QED
    BY <1>1, <1>7, <2>1 DEF Build, Goto, Seal
<1>8. ASSUME NEW w \in Writers, AppendMemory(w)
      PROVE  /\ UNCHANGED <<disk, counter, entry>>
             /\ pc[w] = "built" /\ pc'[w] = "listed" /\ \A v \in Writers \ {w} : pc'[v] = "idle"
             /\ Increasing(events') /\ Below(events', counter)
  <2>1. /\ pc[w] = "built" /\ pc'[w] = "listed" /\ \A v \in Writers \ {w} : pc'[v] = pc[v]
        /\ UNCHANGED <<disk, counter, entry>> /\ events' = Append(events, entry[w])
    BY <1>1, <1>8 DEF AppendMemory, Goto
  <2>2. \A v \in Writers \ {w} : pc[v] = "idle"
    BY <1>4, <2>1 DEF Busy
  <2>3. entry[w].log_id < counter /\ Below(events, entry[w].log_id)
    BY <1>5, <2>1 DEF IInv, IdsOK, Held
  <2>4. Increasing(events') /\ Below(events', counter)
    BY <1>1, <1>5, <2>1, <2>3, IncreasingAppend
  <2>5. QED
    BY <2>1, <2>2, <2>4
<1>9. ASSUME NEW w \in Writers, AppendDisk(w)
      PROVE  /\ UNCHANGED <<events, counter, entry>> /\ \A v \in Writers : pc'[v] = "idle"
             /\ Increasing(Parsed(disk')) /\ Below(Parsed(disk'), counter)
  <2>1. /\ pc[w] = "listed" /\ pc'[w] = "idle" /\ \A v \in Writers \ {w} : pc'[v] = pc[v]
        /\ UNCHANGED <<events, counter, entry>>
    BY <1>1, <1>9 DEF AppendDisk, Goto
  <2>2. \A v \in Writers \ {w} : pc[v] = "idle"
    BY <1>4, <2>1 DEF Busy
  <2>3. /\ entry[w].log_id < counter /\ Below(kept, entry[w].log_id)
        /\ entry[w] \in Entry
    BY <1>5, <2>1, HeldIsEvent DEF IInv, IdsOK, Held
  <2>4. disk' \in {disk, Append(disk, entry[w]), Append(disk, NoEvent)}
    BY <1>9 DEF AppendDisk, WriteLine, FailToWrite
  <2>5. Parsed(disk') = kept \/ Parsed(disk') = Append(kept, entry[w])
    <3>1. ASSUME NEW e \in Entry \cup {NoEvent}
          PROVE  \/ Parsed(Append(disk, e)) = kept
                 \/ e # NoEvent /\ Parsed(Append(disk, e)) = Append(kept, e)
      BY <1>1, ParsedAppend DEF kept
    <3>2. CASE disk' = disk
      BY <3>2 DEF kept
    <3>3. CASE disk' = Append(disk, entry[w])
      BY <2>3, <3>1, <3>3
    <3>4. CASE disk' = Append(disk, NoEvent)
      BY <3>1, <3>4
    <3>5. QED
      BY <2>4, <3>2, <3>3, <3>4
  <2>6. Increasing(Append(kept, entry[w])) /\ Below(Append(kept, entry[w]), counter)
    BY <1>1, <1>2, <1>5, <2>3, IncreasingAppend
  <2>7. QED
    BY <1>5, <2>1, <2>2, <2>5, <2>6
<1>10. CASE Restart
  <2>1. /\ events' = kept /\ disk' = disk /\ counter' = NextId(kept)
        /\ \A v \in Writers : pc'[v] = "idle"
    BY <1>10 DEF Restart, kept
  <2>2. Below(kept, NextId(kept))
    <3>1. CASE kept = <<>>
      BY <3>1 DEF Below
    <3>2. CASE kept # <<>>
      <4>1. Len(kept) \in DOMAIN kept
        BY <1>2, <3>2, EmptySeq
      <4>2. NextId(kept) = kept[Len(kept)].log_id + 1
        BY <3>2 DEF NextId
      <4>3. \A i \in DOMAIN kept : i = Len(kept) \/ kept[i].log_id < kept[Len(kept)].log_id
        BY <1>2, <1>5, <4>1 DEF Increasing
      <4>4. QED
        BY <1>3, <4>1, <4>2, <4>3 DEF Below
    <3>3. QED
      BY <3>1, <3>2
  <2>3. QED
    BY <1>5, <2>1, <2>2 DEF kept
<1>11. CASE UNCHANGED vars
  BY <1>5, <1>11 DEF vars, kept
<1>12. CASE \E w \in Writers : Record(w)
  <2>1. PICK w \in Writers : Record(w)
    BY <1>12
  <2>2. CASE ReadTip(w)
    BY <1>5, <1>6, <2>2 DEF kept
  <2>3. CASE Build(w)
    BY <1>5, <1>7, <2>3 DEF kept
  <2>4. CASE AppendMemory(w)
    BY <1>5, <1>8, <2>4 DEF kept
  <2>5. CASE AppendDisk(w)
    BY <1>5, <1>9, <2>5
  <2>6. QED
    BY <2>1, <2>2, <2>3, <2>4, <2>5 DEF Record
<1>13. QED
  BY <1>10, <1>11, <1>12, FaultsStay DEF Next

(* The file and the list stay together.                                    *)
THEOREM TrailInvariance == Spec => []TrailInv
<1>1. Init => OneBusy /\ NoLoss /\ OneChain /\ IdsUp
  <2> SUFFICES ASSUME Init PROVE OneBusy /\ NoLoss /\ OneChain /\ IdsUp
    OBVIOUS
  <2>1. /\ events = <<>> /\ disk = <<>> /\ returned = {} /\ unread = 0 /\ torn = FALSE
        /\ \A w \in Writers : pc[w] = "idle"
    BY DEF Init
  <2>2. Range(<<>>) = {} /\ Parsed(<<>>) = <<>>
    <3>1. Range(<<>>) = {}
      BY DEF Range
    <3>2. QED
      BY <3>1, ParsedWhole
  <2>3. Increasing(<<>>) /\ Below(<<>>, counter) /\ Valid(<<>>)
    BY DEF Increasing, Below, Valid, Breaks
  <2>4. QED
    BY <2>1, <2>2, <2>3 DEF OneBusy, Busy, NoLoss, OneChain, IdsUp
<1>2. TrailInv /\ [Next]_vars /\ IInv' => TrailInv'
  BY BusyStep, LossStep, ChainStep, IdsUpStep DEF TrailInv
<1>3. Init /\ IInv => TrailInv
  BY <1>1 DEF TrailInv
<1>4. QED
  BY <1>2, <1>3, Invariance, PTL DEF Spec

(* verify_chain complains for a cause: with one thread at a time and no    *)
(* lost write or edit, no crash breaks the chain (audit.py:86-130).        *)
THEOREM ChainHolds == Spec => []ChainBreaksForCause
<1>1. TrailInv => ChainBreaksForCause
  <2> SUFFICES ASSUME TrailInv, ~(faults > 0 \/ edits > 0 \/ overlapped) PROVE Valid(events)
    BY DEF ChainBreaksForCause
  <2>1. faults = 0 /\ edits = 0
    BY BoundsAssumption DEF TrailInv, IInv, TypeOK
  <2>2. QED
    BY <2>1 DEF TrailInv, OneChain
<1>2. QED
  BY <1>1, TrailInvariance, PTL

(* "events survive restarts" (audit.py:38-83): nothing record() returned   *)
(* is lost without a failed write or an edit, whatever the threads do, and *)
(* with one thread at a time the ids go on upward from what was loaded,    *)
(* even after lines were lost.                                             *)
THEOREM RestartsContinue == Spec => []RestartsContinueTrail
<1>1. TrailInv => ReturnedSurvive
  <2> SUFFICES ASSUME TrailInv, faults = 0, edits = 0
               PROVE  returned \subseteq {events[i].body : i \in DOMAIN events} /\ unread = 0
    BY DEF ReturnedSurvive
  <2>1. /\ returned \subseteq {e.body : e \in Range(disk)} /\ Range(disk) \subseteq Range(events)
        /\ unread = 0
    BY DEF TrailInv, NoLoss
  <2>2. {e.body : e \in Range(events)} = {events[i].body : i \in DOMAIN events}
    BY DEF Range
  <2>3. QED
    BY <2>1, <2>2
<1>2. TrailInv => IdsIncrease
  <2> SUFFICES ASSUME TrailInv, edits = 0, ~overlapped, NEW i \in 2 .. Len(events)
               PROVE  events[i - 1].log_id < events[i].log_id
    BY DEF IdsIncrease
  <2>1. Increasing(events)
    BY DEF TrailInv, IdsUp
  <2>2. DOMAIN events = 1 .. Len(events) /\ Len(events) \in Nat
    BY LenProperties DEF TrailInv, IInv, TypeOK
  <2>3. i - 1 \in DOMAIN events /\ i \in DOMAIN events /\ i - 1 < i
    BY <2>2
  <2>4. QED
    BY <2>1, <2>3 DEF Increasing
<1>3. QED
  BY <1>1, <1>2, TrailInvariance, PTL DEF RestartsContinueTrail
=============================================================================
