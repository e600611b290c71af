-------------------------- MODULE ReviewQueue_proofs --------------------------
(***************************************************************************)
(* Theorems about ReviewQueue, for any number of threads, requests and ids *)
(* and any clients: what was escalated is in the queue, an approval is for *)
(* the filing it was made on, and the list is a register for each id, no   *)
(* call on which is lost unless two of them overlap.                       *)
(***************************************************************************)
EXTENDS ReviewQueue, SequenceTheorems, WellFoundedInduction, TLAPS

Named == Segments \cup Applications

Files(w) == job[w].pc \in {"look", "put", "announce", "audit"}
Decides(w) == job[w].pc \in {"mark", "sign"}

(* A dict is of a named id or of the request it was filed for, and carries *)
(* only a decision that was made on it.                                    *)
DictsOK ==
    \A k \in DOMAIN objs :
        /\ objs[k].id \in Named \/ objs[k].n = objs[k].id
        /\ objs[k].decision # "none" => <<objs[k].n, objs[k].decision>> \in made

(* What a thread that files a review knows: its slot is the first of the   *)
(* id; once past it, the id is in the queue, and then on the trail.        *)
FilesOK(w) ==
    /\ job[w].id \in Named \/ job[w].n = job[w].id
    /\ job[w].pc = "put" /\ job[w].slot # 0 =>
          job[w].slot \in Slots(job[w].id) /\ \A i \in Slots(job[w].id) : job[w].slot <= i
    /\ job[w].pc = "announce" /\ Escalates(job[w].outcome) => Slots(job[w].id) # {}
    /\ job[w].pc = "audit" => job[w].outcome \in Outcomes
    /\ job[w].pc = "audit" /\ Escalates(job[w].outcome) =>
          <<"review_escalated", job[w].n, job[w].id>> \in trail

(* ... and one that decides a review: whose dict it holds.                 *)
DecidesOK(w) ==
    /\ objs[job[w].ref].id = job[w].id
    /\ <<objs[job[w].ref].n, job[w].decision>> \in made

JobsOK ==
    \A w \in Workers : (Files(w) => FilesOK(w)) /\ (Decides(w) => DecidesOK(w))

TrailOK ==
    /\ \A n \in Numbers, o \in {"warn", "fail"} :
          <<"compliance_decision", n, o>> \in trail =>
              \E id \in ReviewIds : <<"review_escalated", n, id>> \in trail
    /\ \A e \in trail : e[1] = "review_escalated" =>
          Slots(e[3]) # {} /\ (e[3] \in Named \/ e[2] = e[3])

(* As long as no two calls for an id overlapped: it has one slot at most,  *)
(* one thread at most works on it, and what that thread found is still so. *)
Alone(id) ==
    /\ \A i, j \in Slots(id) : i = j
    /\ \A v, w \in Workers :
          InQueue(v) /\ InQueue(w) /\ job[v].id = id /\ job[w].id = id => v = w
    /\ \A w \in Workers : InQueue(w) /\ job[w].id = id =>
          /\ job[w].pc = "put" /\ job[w].slot = 0 => Slots(id) = {}
          /\ Decides(w) => Slots(id) # {} /\ \A i \in Slots(id) : reviews[i] = job[w].ref

AloneOK == \A id \in ReviewIds \ overlapped : Alone(id)

QInv == TypeOK /\ DictsOK /\ JobsOK /\ TrailOK /\ AloneOK

-----------------------------------------------------------------------------
(* Operators. *)

(* A non-empty set of naturals has a least element, and Min finds it.      *)
LEMMA LeastOf ==
    ASSUME NEW S \in SUBSET Nat, S # {}
    PROVE  Min(S) \in S /\ \A y \in S : Min(S) <= y
<1>1. PICK x \in S : \A y \in S : ~(<<y, x>> \in OpToRel(<, Nat))
  BY NatLessThanWellFounded, WFMin
<1>2. ASSUME NEW y \in S PROVE x <= y
  <2>1. <<y, x>> \in Nat \X Nat /\ ~(<<y, x>> \in OpToRel(<, Nat))
    BY <1>1
  <2>2. ~(y < x)
    BY <2>1 DEF OpToRel
  <2>3. QED
    BY <2>2
<1>3. QED
  BY <1>1, <1>2 DEF Min

LEMMA LeastIsMin ==
    ASSUME NEW S \in SUBSET Nat, NEW m \in S, \A y \in S : m <= y
    PROVE  Min(S) = m
<1>1. Min(S) \in S /\ \A y \in S : Min(S) <= y
  BY LeastOf
<1>2. Min(S) \in Nat /\ m \in Nat /\ Min(S) <= m /\ m <= Min(S)
  BY <1>1
<1>3. QED
  BY <1>2

(* The list and what it refers to. *)
LEMMA ListTypes ==
    ASSUME TypeOK
    PROVE  /\ Len(objs) \in Nat /\ DOMAIN objs = 1 .. Len(objs)
           /\ \A k \in DOMAIN objs : objs[k] \in Review
           /\ Len(reviews) \in Nat /\ DOMAIN reviews = 1 .. Len(reviews)
           /\ \A i \in DOMAIN reviews : reviews[i] \in DOMAIN objs
           /\ \A id : Slots(id) \in SUBSET Nat /\ Slots(id) \subseteq DOMAIN reviews
<1>1. objs \in Seq(Review) /\ reviews \in Seq(DOMAIN objs)
  BY DEF TypeOK
<1>2. Len(objs) \in Nat /\ DOMAIN objs = 1 .. Len(objs) /\ objs \in [1 .. Len(objs) -> Review]
  BY <1>1, LenProperties
<1>3. /\ Len(reviews) \in Nat /\ DOMAIN reviews = 1 .. Len(reviews)
      /\ reviews \in [1 .. Len(reviews) -> DOMAIN objs]
  BY <1>1, LenProperties
<1>4. QED
  BY <1>2, <1>3 DEF Slots

(* The dict First finds is one with the id, in the list.                   *)
LEMMA FirstOf ==
    ASSUME TypeOK, NEW id, Slots(id) # {}
    PROVE  /\ Min(Slots(id)) \in Slots(id) /\ First(id) = reviews[Min(Slots(id))]
           /\ First(id) \in DOMAIN objs /\ objs[First(id)].id = id
<1>1. Min(Slots(id)) \in Slots(id)
  BY ListTypes, LeastOf
<1>2. QED
  BY <1>1, ListTypes DEF First, Slots

(* Who is at which step has which record. *)
LEMMA JobTypes ==
    ASSUME TypeOK, NEW w \in Workers
    PROVE  /\ job[w].pc \in {"idle", "look", "put", "announce", "audit", "mark", "sign"}
           /\ At(w, "idle") => job[w] = Idle
           /\ Files(w) => job[w] \in Filings /\ job[w].slot \in {0} \cup DOMAIN reviews
           /\ Decides(w) => job[w] \in Resolutions /\ job[w].ref \in DOMAIN objs
           /\ InQueue(w) => job[w].id \in ReviewIds
<1>1. job[w] \in {Idle} \cup Filings \cup Resolutions
  BY DEF TypeOK
<1>2. CASE job[w] = Idle
  BY <1>2 DEF Idle, At, Files, Decides, InQueue
<1>3. CASE job[w] \in Filings
  <2>1. job[w].slot \in {0} \cup DOMAIN reviews
    BY <1>3 DEF TypeOK
  <2>2. job[w].pc \in {"look", "put", "announce", "audit"} /\ job[w].id \in ReviewIds
    BY <1>3 DEF Filings
  <2>3. QED
    BY <1>3, <2>1, <2>2 DEF At, Files, Decides, InQueue
<1>4. CASE job[w] \in Resolutions
  <2>1. job[w].ref \in DOMAIN objs
    BY <1>4 DEF TypeOK
  <2>2. job[w].pc \in {"mark", "sign"} /\ job[w].id \in ReviewIds
    BY <1>4 DEF Resolutions
  <2>3. QED
    BY <1>4, <2>1, <2>2 DEF At, Files, Decides, InQueue
<1>5. QED
  BY <1>1, <1>2, <1>3, <1>4

(* A slot that was found still holds its id. *)
LEMMA SlotTypes ==
    ASSUME TypeOK, JobsOK, NEW w \in Workers, At(w, "put")
    PROVE  /\ job[w] \in Filings /\ NewReview(w) \in Review
           /\ job[w].id \in ReviewIds /\ job[w].n \in Numbers
           /\ job[w].id \in Named \/ job[w].n = job[w].id
           /\ job[w].slot \in {0} \cup DOMAIN reviews
           /\ job[w].slot # 0 =>
                 /\ job[w].slot \in Slots(job[w].id)
                 /\ \A i \in Slots(job[w].id) : job[w].slot <= i
<1>1. Files(w) /\ FilesOK(w)
  BY DEF At, Files, JobsOK
<1>2. job[w] \in Filings /\ job[w].slot \in {0} \cup DOMAIN reviews
  BY <1>1, JobTypes
<1>3. job[w].id \in ReviewIds /\ job[w].n \in Numbers
  BY <1>2 DEF Filings
<1>4. NewReview(w) \in Review
  BY <1>3 DEF NewReview, Review
<1>5. QED
  BY <1>1, <1>2, <1>3, <1>4 DEF FilesOK, At

(* Put makes a new dict, which takes over the slot found or a new one.     *)
LEMMA PutList ==
    ASSUME TypeOK, JobsOK, NEW w \in Workers, Put(w)
    PROVE  /\ DOMAIN objs' = DOMAIN objs \cup {Len(objs) + 1} /\ Len(objs) + 1 \notin DOMAIN objs
           /\ \A k \in DOMAIN objs : objs'[k] = objs[k]
           /\ objs'[Len(objs) + 1] = NewReview(w)
           /\ job[w].slot = 0 =>
                 /\ DOMAIN reviews' = DOMAIN reviews \cup {Len(reviews) + 1}
                 /\ Len(reviews) + 1 \notin DOMAIN reviews
                 /\ reviews'[Len(reviews) + 1] = Len(objs) + 1
                 /\ \A i \in DOMAIN reviews : reviews'[i] = reviews[i] /\ i < Len(reviews) + 1
           /\ job[w].slot # 0 =>
                 /\ DOMAIN reviews' = DOMAIN reviews
                 /\ reviews'[job[w].slot] = Len(objs) + 1
                 /\ \A i \in DOMAIN reviews : i # job[w].slot => reviews'[i] = reviews[i]
           /\ objs' \in Seq(Review) /\ reviews' \in Seq(DOMAIN objs')
<1>1. objs \in Seq(Review) /\ reviews \in Seq(DOMAIN objs) /\ NewReview(w) \in Review
  BY SlotTypes DEF TypeOK, Put
<1>2. /\ objs' = Append(objs, NewReview(w))
      /\ reviews' = IF job[w].slot = 0 THEN Append(reviews, Len(objs) + 1)
                    ELSE [reviews EXCEPT ![job[w].slot] = Len(objs) + 1]
      /\ job[w].slot \in {0} \cup DOMAIN reviews
  BY SlotTypes DEF Put
<1>3. /\ DOMAIN objs' = DOMAIN objs \cup {Len(objs) + 1} /\ Len(objs) + 1 \notin DOMAIN objs
      /\ \A k \in DOMAIN objs : objs'[k] = objs[k]
      /\ objs'[Len(objs) + 1] = NewReview(w)
      /\ objs' \in Seq(Review)
  <2>1. /\ objs' \in Seq(Review) /\ Len(objs') = Len(objs) + 1 /\ Len(objs) \in Nat
        /\ DOMAIN objs = 1 .. Len(objs) /\ DOMAIN objs' = 1 .. Len(objs')
        /\ \A k \in 1 .. Len(objs) : objs'[k] = objs[k]
        /\ objs'[Len(objs) + 1] = NewReview(w)
    BY <1>1, <1>2, AppendProperties, LenProperties
  <2>2. QED
    BY <2>1
<1>4. reviews \in Seq(DOMAIN objs') /\ Len(objs) + 1 \in DOMAIN objs'
  <2>1. \A i \in 1 .. Len(reviews) : reviews[i] \in DOMAIN objs'
    BY <1>1, <1>3, ListTypes
  <2>2. QED
    BY <1>1, <1>3, <2>1, LenProperties, IsASeq
<1>5. CASE job[w].slot = 0
  <2>1. /\ reviews' \in Seq(DOMAIN objs') /\ Len(reviews') = Len(reviews) + 1
        /\ Len(reviews) \in Nat
        /\ DOMAIN reviews = 1 .. Len(reviews) /\ DOMAIN reviews' = 1 .. Len(reviews')
        /\ \A i \in 1 .. Len(reviews) : reviews'[i] = reviews[i]
        /\ reviews'[Len(reviews) + 1] = Len(objs) + 1
    <3>1. reviews' = Append(reviews, Len(objs) + 1)
      BY <1>2, <1>5
    <3>2. QED
      BY <1>4, <3>1, AppendProperties, LenProperties
  <2>2. QED
    BY <1>3, <1>5, <2>1
<1>6. CASE job[w].slot # 0
  <2>1. /\ job[w].slot \in DOMAIN reviews
        /\ reviews' = [reviews EXCEPT ![job[w].slot] = Len(objs) + 1]
    BY <1>2, <1>6
  <2>2. /\ DOMAIN reviews' = DOMAIN reviews
        /\ reviews'[job[w].slot] = Len(objs) + 1
        /\ \A i \in DOMAIN reviews : i # job[w].slot => reviews'[i] = reviews[i]
    BY <2>1
  <2>3. reviews' \in Seq(DOMAIN objs')
    <3>1. Len(reviews) \in Nat /\ DOMAIN reviews = 1 .. Len(reviews)
      BY ListTypes
    <3>2. \A i \in 1 .. Len(reviews) : reviews'[i] \in DOMAIN objs'
      BY <1>4, <2>2, <3>1, ElementOfSeq, ListTypes, <1>3
    <3>3. reviews' = [i \in 1 .. Len(reviews) |-> reviews'[i]]
      BY <2>1, <2>2, <3>1
    <3>4. QED
      BY <3>1, <3>2, <3>3, IsASeq
  <2>4. QED
    BY <1>3, <1>6, <2>2, <2>3
<1>7. QED
  BY <1>3, <1>5, <1>6

LEMMA PutSlots ==
    ASSUME TypeOK, JobsOK, NEW w \in Workers, Put(w), NEW id
    PROVE  Slots(id)' = IF job[w].slot = 0 /\ id = job[w].id
                        THEN Slots(id) \cup {Len(reviews) + 1} ELSE Slots(id)
<1>1. NewReview(w).id = job[w].id
  BY DEF NewReview
<1>2. \A i \in DOMAIN reviews : reviews[i] \in DOMAIN objs
  BY ListTypes
<1>3. CASE job[w].slot = 0
  BY <1>1, <1>2, <1>3, PutList DEF Slots
<1>4. CASE job[w].slot # 0
  <2>1. job[w].slot \in Slots(job[w].id)
    BY <1>4, SlotTypes DEF Put
  <2>2. job[w].slot \in DOMAIN reviews /\ objs[reviews[job[w].slot]].id = job[w].id
    BY <2>1 DEF Slots
  <2>3. /\ DOMAIN reviews' = DOMAIN reviews
        /\ \A i \in DOMAIN reviews : objs'[reviews'[i]].id = objs[reviews[i]].id
    BY <1>1, <1>2, <1>4, <2>2, PutList
  <2>4. QED
    BY <1>4, <2>3 DEF Slots
<1>5. QED
  BY <1>3, <1>4

(* A decision changes one dict in place, but neither its id nor its number.*)
LEMMA MarkList ==
    ASSUME TypeOK, NEW w \in Workers, SetStatus(w) \/ SetDecision(w)
    PROVE  /\ DOMAIN objs' = DOMAIN objs /\ objs' \in Seq(Review)
           /\ job[w] \in Resolutions /\ job[w].ref \in DOMAIN objs /\ Decides(w)
           /\ \A k \in DOMAIN objs : objs'[k].id = objs[k].id /\ objs'[k].n = objs[k].n
           /\ \A k \in DOMAIN objs \ {job[w].ref} : objs'[k] = objs[k]
           /\ SetStatus(w) => objs'[job[w].ref].decision = objs[job[w].ref].decision
           /\ SetDecision(w) => objs'[job[w].ref].decision = job[w].decision
           /\ reviews' = reviews /\ \A id : Slots(id)' = Slots(id)
<1>1. Decides(w)
  BY DEF SetStatus, SetDecision, At, Decides
<1>2. job[w] \in Resolutions /\ job[w].ref \in DOMAIN objs
  BY <1>1, JobTypes
<1>3. job[w].decision \in Decisions
  BY <1>2 DEF Resolutions
<1>4. \A k \in DOMAIN objs : objs[k] \in Review
  BY ListTypes
<1>5. /\ DOMAIN objs' = DOMAIN objs
      /\ \A k \in DOMAIN objs : objs'[k] \in Review
      /\ \A k \in DOMAIN objs : objs'[k].id = objs[k].id /\ objs'[k].n = objs[k].n
      /\ \A k \in DOMAIN objs \ {job[w].ref} : objs'[k] = objs[k]
      /\ SetStatus(w) => objs'[job[w].ref].decision = objs[job[w].ref].decision
      /\ SetDecision(w) => objs'[job[w].ref].decision = job[w].decision
  <2>1. CASE SetStatus(w)
    <3>1. objs' = [objs EXCEPT ![job[w].ref].status = "resolved"] /\ job[w].pc = "mark"
      BY <2>1 DEF SetStatus, At
    <3>2. ~SetDecision(w)
      BY <3>1 DEF SetDecision, At
    <3>3. QED
      BY <1>2, <1>4, <3>1, <3>2 DEF Review
  <2>2. CASE SetDecision(w)
    <3>1. /\ objs' = [objs EXCEPT ![job[w].ref].decision = job[w].decision]
          /\ job[w].pc = "sign"
      BY <2>2 DEF SetDecision, At
    <3>2. ~SetStatus(w)
      BY <3>1 DEF SetStatus, At
    <3>3. QED
      BY <1>2, <1>3, <1>4, <3>1, <3>2 DEF Review
  <2>3. QED
    BY <2>1, <2>2
<1>6. objs' \in Seq(Review)
  <2>1. Len(objs) \in Nat /\ DOMAIN objs = 1 .. Len(objs)
    BY ListTypes
  <2>2. objs' = [k \in 1 .. Len(objs) |-> objs'[k]]
    BY <1>5, <2>1 DEF SetStatus, SetDecision
  <2>3. QED
    BY <1>5, <2>1, <2>2, IsASeq
<1>7. reviews' = reviews /\ \A id : Slots(id)' = Slots(id)
  <2>1. reviews' = reviews
    BY DEF SetStatus, SetDecision
  <2>2. \A i \in DOMAIN reviews : reviews[i] \in DOMAIN objs
    BY ListTypes
  <2>3. QED
    BY <1>5, <2>1, <2>2 DEF Slots
<1>8. QED
  BY <1>1, <1>2, <1>5, <1>6, <1>7

-----------------------------------------------------------------------------
(* Types. *)

Jobs == {Idle} \cup Filings \cup Resolutions

(* One thread moves on, the list only grows. *)
LEMMA JobsType ==
    ASSUME TypeOK, NEW w \in Workers, NEW x \in Jobs, job' = [job EXCEPT ![w] = x],
           x \in Filings => x.slot \in {0} \cup DOMAIN reviews',
           x \in Resolutions => x.ref \in DOMAIN objs',
           DOMAIN reviews \subseteq DOMAIN reviews', DOMAIN objs \subseteq DOMAIN objs'
    PROVE  /\ job' \in [Workers -> Jobs]
           /\ \A v \in Workers :
                 /\ job'[v] \in Filings => job'[v].slot \in {0} \cup DOMAIN reviews'
                 /\ job'[v] \in Resolutions => job'[v].ref \in DOMAIN objs'
<1>1. job \in [Workers -> Jobs]
  BY DEF TypeOK, Jobs
<1>2. job' \in [Workers -> Jobs]
  BY <1>1
<1>3. job'[w] = x /\ \A v \in Workers \ {w} : job'[v] = job[v]
  BY <1>1
<1>4. \A v \in Workers :
          /\ job[v] \in Filings => job[v].slot \in {0} \cup DOMAIN reviews
          /\ job[v] \in Resolutions => job[v].ref \in DOMAIN objs
  BY DEF TypeOK
<1>5. QED
  BY <1>2, <1>3, <1>4

LEMMA OutcomeType == \A p : Outcome(p) \in Outcomes
  BY DEF Outcome, Outcomes

LEMMA StartType ==
    ASSUME NEW w \in Workers, NEW id \in ReviewIds, NEW n \in Numbers,
           NEW outcome \in Outcomes \cup {"application"}, job \in [Workers -> Jobs],
           Start(w, id, outcome, n)
    PROVE  /\ job'[w] \in Filings /\ job' = [job EXCEPT ![w] = job'[w]]
           /\ job'[w].slot = 0 /\ job'[w].id = id /\ job'[w].n = n
           /\ job'[w].pc \in {"look", "announce"}
           /\ job'[w].pc = "announce" => ~Escalates(outcome)
           /\ job'[w].outcome = outcome
<1>1. job'[w] = [pc |-> IF Escalates(outcome) THEN "look" ELSE "announce",
                 n |-> n, id |-> id, outcome |-> outcome, slot |-> 0]
  BY DEF Start
<1>2. QED
  BY <1>1 DEF Start, Filings

(* A filing is for a named id or for the number of its own request.        *)
LEMMA Filed ==
    ASSUME TypeOK, NEW w \in Workers, Inspect(w) \/ FileApplication(w)
    PROVE  /\ job'[w] \in Filings /\ job' = [job EXCEPT ![w] = job'[w]]
           /\ job'[w].slot = 0 /\ job'[w].pc \in {"look", "announce"}
           /\ job'[w].pc = "announce" => ~Escalates(job'[w].outcome)
           /\ job'[w].id \in Named \/ job'[w].n = job'[w].id
           /\ UNCHANGED <<reviews, objs, trail, made, overlapped>>
           /\ requests' \in 0 .. MaxRequests
<1>1. requests + 1 \in Numbers /\ requests' \in 0 .. MaxRequests
  BY BoundsAssumption DEF Inspect, FileApplication, Counted, TypeOK, Numbers
<1>2. UNCHANGED <<reviews, objs, trail, made, overlapped>>
  BY DEF Inspect, FileApplication
<1>3. PICK id \in ReviewIds, outcome \in Outcomes \cup {"application"} :
         /\ id \in Named \/ id = requests + 1
         /\ Start(w, id, outcome, requests + 1)
  <2>1. CASE Inspect(w)
    <3>1. PICK suffix \in Segments \cup {NoSuffix}, p \in Profiles :
             Start(w, ReviewId(suffix, requests + 1), Outcome(p), requests + 1)
      BY <2>1 DEF Inspect
    <3>2. LET id == ReviewId(suffix, requests + 1)
          IN  id \in ReviewIds /\ (id \in Named \/ id = requests + 1)
      BY <1>1 DEF ReviewId, ReviewIds, Named, Numbers
    <3>3. QED
      BY <3>1, <3>2, OutcomeType
  <2>2. CASE FileApplication(w)
    BY <2>2 DEF FileApplication, ReviewIds, Named
  <2>3. QED
    BY <2>1, <2>2
<1>4. job \in [Workers -> Jobs]
  BY DEF TypeOK, Jobs
<1>5. QED
  BY <1>1, <1>2, <1>3, <1>4, StartType

LEMMA TypeInit == Init => TypeOK
<1> SUFFICES ASSUME Init PROVE TypeOK
  OBVIOUS
<1>2. objs \in Seq(Review) /\ reviews \in Seq(DOMAIN objs)
  BY EmptySeq DEF Init
<1>3. job \in [Workers -> Jobs] /\ \A w \in Workers : job[w].pc = "idle"
  BY DEF Init, Jobs, Idle
<1>4. \A w \in Workers : job[w] \notin Filings /\ job[w] \notin Resolutions
  BY <1>3 DEF Filings, Resolutions
<1>5. requests \in 0 .. MaxRequests /\ trail = {} /\ made = {} /\ overlapped = {}
  BY BoundsAssumption DEF Init
<1>6. QED
  BY <1>2, <1>3, <1>4, <1>5 DEF TypeOK, Jobs

(* What a decision takes hold of. *)
LEMMA Found ==
    ASSUME TypeOK, NEW w \in Workers, NEW id \in ReviewIds, NEW d \in Decisions, Find(w, id, d)
    PROVE  /\ job' = [job EXCEPT ![w] = job'[w]] /\ job'[w] \in Resolutions
           /\ job'[w].ref = First(id) /\ job'[w].ref \in DOMAIN objs
           /\ job'[w].id = id /\ job'[w].decision = d /\ job'[w].pc = "mark"
           /\ Slots(id) # {} /\ objs[First(id)].id = id
           /\ made' = made \cup {<<objs[First(id)].n, d>>} /\ made' \subseteq Numbers \X Decisions
           /\ UNCHANGED <<reviews, objs, trail>>
<1>1. /\ First(id) \in DOMAIN objs /\ objs[First(id)].id = id /\ Slots(id) # {}
  BY FirstOf DEF Find
<1>2. objs[First(id)].n \in Numbers /\ First(id) \in Nat \ {0}
  BY <1>1, ListTypes DEF Review
<1>3. job'[w] = [pc |-> "mark", id |-> id, ref |-> First(id), decision |-> d]
  BY DEF Find, TypeOK
<1>4. made' = made \cup {<<objs[First(id)].n, d>>} /\ made \subseteq Numbers \X Decisions
  BY DEF Find, TypeOK
<1>5. job' = [job EXCEPT ![w] = job'[w]]
  BY <1>3 DEF Find
<1>6. job'[w] \in Resolutions
  BY <1>2, <1>3 DEF Resolutions
<1>7. UNCHANGED <<reviews, objs, trail>>
  BY DEF Find
<1>8. QED
  BY <1>1, <1>2, <1>3, <1>4, <1>5, <1>6, <1>7

LEMMA TypeNext == TypeOK /\ JobsOK /\ [Next]_vars => TypeOK'
<1> SUFFICES ASSUME TypeOK, JobsOK, [Next]_vars PROVE TypeOK'
  OBVIOUS
<1>2. /\ objs \in Seq(Review) /\ reviews \in Seq(DOMAIN objs) /\ job \in [Workers -> Jobs]
      /\ trail \subseteq ({"review_escalated"} \X Numbers \X ReviewIds)
                           \cup ({"compliance_decision"} \X Numbers \X Outcomes)
      /\ made \subseteq Numbers \X Decisions /\ overlapped \subseteq ReviewIds
      /\ requests \in 0 .. MaxRequests
  BY DEF TypeOK, Jobs
<1>3. ASSUME NEW w \in Workers, Inspect(w) \/ FileApplication(w) PROVE TypeOK'
  <2>1. job'[w] \in Jobs /\ job'[w] \notin Resolutions
    BY <1>3, Filed DEF Jobs, Resolutions, Filings
  <2>2. /\ job' \in [Workers -> Jobs]
        /\ \A v \in Workers :
              /\ job'[v] \in Filings => job'[v].slot \in {0} \cup DOMAIN reviews'
              /\ job'[v] \in Resolutions => job'[v].ref \in DOMAIN objs'
    BY <1>3, <2>1, Filed, JobsType
  <2>3. QED
    BY <1>2, <1>3, <2>2, Filed DEF TypeOK, Jobs
<1>4. ASSUME NEW w \in Workers, Look(w) PROVE TypeOK'
  <2>1. job[w] \in Filings /\ job[w].id \in ReviewIds
    BY <1>4, JobTypes DEF Look, At, Files, Filings
  <2> DEFINE slot == IF Slots(job[w].id) = {} THEN 0 ELSE Min(Slots(job[w].id))
             x == [job[w] EXCEPT !.pc = "put", !.slot = slot]
  <2>2. slot \in {0} \cup DOMAIN reviews /\ slot \in Nat
    BY FirstOf, ListTypes
  <2>3. job' = [job EXCEPT ![w] = x] /\ UNCHANGED <<reviews, objs, trail, made, requests>>
    BY <1>2, <1>4 DEF Look
  <2>4. x \in Filings /\ x.slot = slot /\ x.pc = "put"
    BY <2>1, <2>2 DEF Filings
  <2>5. x \in Jobs /\ x \notin Resolutions
    BY <2>4 DEF Jobs, Resolutions
  <2>6. /\ job' \in [Workers -> Jobs]
        /\ \A v \in Workers :
              /\ job'[v] \in Filings => job'[v].slot \in {0} \cup DOMAIN reviews'
              /\ job'[v] \in Resolutions => job'[v].ref \in DOMAIN objs'
    <3> HIDE DEF x, slot
    <3>1. QED
      BY <2>2, <2>3, <2>4, <2>5, JobsType
  <2>7. overlapped' \subseteq ReviewIds
    BY <1>2, <1>4, <2>1 DEF Look, Enter
  <2>8. QED
    BY <1>2, <2>3, <2>6, <2>7 DEF TypeOK, Jobs
<1>5. ASSUME NEW w \in Workers, Put(w) PROVE TypeOK'
  <2>1. job[w] \in Filings /\ job[w].slot \in {0} \cup DOMAIN reviews
    BY <1>5, SlotTypes DEF Put
  <2> DEFINE x == [job[w] EXCEPT !.pc = "announce"]
  <2>2. x \in Filings /\ x.slot = job[w].slot /\ x.pc = "announce"
    BY <2>1 DEF Filings
  <2>3. x \in Jobs /\ x \notin Resolutions
    BY <2>2 DEF Jobs, Resolutions
  <2>4. job' = [job EXCEPT ![w] = x] /\ UNCHANGED <<trail, made, overlapped, requests>>
    BY <1>2, <1>5 DEF Put, Goto
  <2>5. DOMAIN reviews \subseteq DOMAIN reviews' /\ DOMAIN objs \subseteq DOMAIN objs'
    BY <1>5, PutList
  <2>6. /\ job' \in [Workers -> Jobs]
        /\ \A v \in Workers :
              /\ job'[v] \in Filings => job'[v].slot \in {0} \cup DOMAIN reviews'
              /\ job'[v] \in Resolutions => job'[v].ref \in DOMAIN objs'
    <3> HIDE DEF x
    <3>1. QED
      BY <2>1, <2>2, <2>3, <2>4, <2>5, JobsType
  <2>7. QED
    BY <1>2, <1>5, <2>4, <2>6, PutList DEF TypeOK, Jobs
<1>6. ASSUME NEW w \in Workers, Announce(w) \/ AuditDecision(w) PROVE TypeOK'
  <2>1. job[w] \in Filings /\ job[w].slot \in {0} \cup DOMAIN reviews
    BY <1>6, JobTypes DEF Announce, AuditDecision, At, Files
  <2>2. PICK x \in {Idle, [job[w] EXCEPT !.pc = "audit"]} : job' = [job EXCEPT ![w] = x]
    BY <1>2, <1>6 DEF Announce, AuditDecision
  <2>3. x \in Jobs /\ x \notin Resolutions /\ (x \in Filings => x.slot = job[w].slot)
    <3>1. CASE x = Idle
      BY <3>1 DEF Jobs, Idle, Resolutions, Filings
    <3>2. CASE x = [job[w] EXCEPT !.pc = "audit"]
      <4>1. x \in Filings /\ x.slot = job[w].slot /\ x.pc = "audit"
        BY <2>1, <3>2 DEF Filings
      <4>2. QED
        BY <4>1 DEF Jobs, Resolutions
    <3>3. QED
      BY <2>2, <3>1, <3>2
  <2>4. UNCHANGED <<reviews, objs, made, overlapped, requests>>
    BY <1>6 DEF Announce, AuditDecision
  <2>5. /\ job' \in [Workers -> Jobs]
        /\ \A v \in Workers :
              /\ job'[v] \in Filings => job'[v].slot \in {0} \cup DOMAIN reviews'
              /\ job'[v] \in Resolutions => job'[v].ref \in DOMAIN objs'
    BY <2>1, <2>2, <2>3, <2>4, JobsType
  <2>6. trail' \subseteq ({"review_escalated"} \X Numbers \X ReviewIds)
                          \cup ({"compliance_decision"} \X Numbers \X Outcomes)
    <3>1. job[w].n \in Numbers /\ job[w].id \in ReviewIds
          /\ job[w].outcome \in Outcomes \cup {"application"}
      BY <2>1 DEF Filings
    <3>2. CASE Announce(w)
      BY <1>2, <3>1, <3>2 DEF Announce
    <3>3. CASE AuditDecision(w)
      <4>1. job[w].outcome \in Outcomes
        BY <3>3, <3>1 DEF AuditDecision, At, JobsOK, FilesOK, Files
      <4>2. QED
        BY <1>2, <3>1, <3>3, <4>1 DEF AuditDecision
    <3>4. QED
      BY <1>6, <3>2, <3>3
  <2>7. QED
    BY <1>2, <2>4, <2>5, <2>6 DEF TypeOK, Jobs
<1>7. ASSUME NEW w \in Workers, NEW id \in ReviewIds, NEW d \in Decisions,
             Resolve(w, id, d) \/ Reconsider(w, id, d)
      PROVE  TypeOK'
  <2>1. Find(w, id, d) /\ requests' \in 0 .. MaxRequests
    BY <1>2, <1>7, BoundsAssumption DEF Resolve, Reconsider, Counted
  <2>2. job'[w] \in Jobs /\ job'[w] \notin Filings
    BY <2>1, Found DEF Jobs, Resolutions, Filings
  <2>3. /\ job' \in [Workers -> Jobs]
        /\ \A v \in Workers :
              /\ job'[v] \in Filings => job'[v].slot \in {0} \cup DOMAIN reviews'
              /\ job'[v] \in Resolutions => job'[v].ref \in DOMAIN objs'
    BY <2>1, <2>2, Found, JobsType
  <2>4. overlapped' \subseteq ReviewIds
    BY <1>2, <2>1 DEF Find, Enter
  <2>5. QED
    BY <1>2, <2>1, <2>3, <2>4, Found DEF TypeOK, Jobs
<1>8. ASSUME NEW w \in Workers, SetStatus(w) \/ SetDecision(w) PROVE TypeOK'
  <2>1. job[w] \in Resolutions /\ job[w].ref \in DOMAIN objs
    BY <1>8, MarkList
  <2>2. PICK x \in {Idle, [job[w] EXCEPT !.pc = "sign"]} : job' = [job EXCEPT ![w] = x]
    BY <1>2, <1>8 DEF SetStatus, SetDecision, Goto
  <2>3. x \in Jobs /\ x \notin Filings /\ (x \in Resolutions => x.ref = job[w].ref)
    <3>1. CASE x = Idle
      BY <3>1 DEF Jobs, Idle, Resolutions, Filings
    <3>2. CASE x = [job[w] EXCEPT !.pc = "sign"]
      <4>1. x \in Resolutions /\ x.ref = job[w].ref /\ x.pc = "sign"
        BY <2>1, <3>2 DEF Resolutions
      <4>2. QED
        BY <4>1 DEF Jobs, Filings
    <3>3. QED
      BY <2>2, <3>1, <3>2
  <2>4. /\ DOMAIN objs' = DOMAIN objs /\ objs' \in Seq(Review) /\ reviews' = reviews
        /\ UNCHANGED <<trail, made, overlapped, requests>>
    BY <1>8, MarkList DEF SetStatus, SetDecision
  <2>5. /\ job' \in [Workers -> Jobs]
        /\ \A v \in Workers :
              /\ job'[v] \in Filings => job'[v].slot \in {0} \cup DOMAIN reviews'
              /\ job'[v] \in Resolutions => job'[v].ref \in DOMAIN objs'
    BY <2>1, <2>2, <2>3, <2>4, JobsType
  <2>6. QED
    BY <1>2, <2>4, <2>5 DEF TypeOK, Jobs
<1>9. CASE UNCHANGED vars
  BY <1>9 DEF TypeOK, vars
<1>10. QED
  BY <1>3, <1>4, <1>5, <1>6, <1>7, <1>8, <1>9 DEF Next, Serve

-----------------------------------------------------------------------------
(* What no step takes back: a dict keeps its id and its filing, an id its  *)
(* slots, to which only later ones are added, and the histories grow.      *)
Grown ==
    /\ \A k \in DOMAIN objs :
          k \in DOMAIN objs' /\ objs'[k].id = objs[k].id /\ objs'[k].n = objs[k].n
    /\ \A id : /\ Slots(id) \subseteq Slots(id)'
               /\ \A i \in Slots(id)' \ Slots(id) : \A j \in DOMAIN reviews : j <= i
    /\ trail \subseteq trail' /\ made \subseteq made' /\ overlapped \subseteq overlapped'

LEMMA GrownFrame == UNCHANGED <<reviews, objs>> => \A id : Slots(id)' = Slots(id)
  BY DEF Slots

LEMMA Grows == TypeOK /\ JobsOK /\ [Next]_vars => Grown
<1> SUFFICES ASSUME TypeOK, JobsOK, [Next]_vars PROVE Grown
  OBVIOUS
<1>1. trail \subseteq trail' /\ made \subseteq made' /\ overlapped \subseteq overlapped'
  BY DEF Next, Serve, Inspect, FileApplication, Look, Put, Announce, AuditDecision, Resolve,
         Reconsider, Find, SetStatus, SetDecision, Enter, vars
<1>2. CASE UNCHANGED <<reviews, objs>>
  BY <1>1, <1>2, GrownFrame DEF Grown
<1>3. ASSUME NEW w \in Workers, Put(w) PROVE Grown
  <2>1. \A id : /\ Slots(id) \subseteq Slots(id)'
               /\ \A i \in Slots(id)' \ Slots(id) : \A j \in DOMAIN reviews : j <= i
    <3>1. Len(reviews) \in Nat /\ DOMAIN reviews = 1 .. Len(reviews)
      BY ListTypes
    <3>2. QED
      BY <1>3, <3>1, PutSlots
  <2>2. \A k \in DOMAIN objs : k \in DOMAIN objs' /\ objs'[k] = objs[k]
    BY <1>3, PutList
  <2>3. QED
    BY <1>1, <2>1, <2>2 DEF Grown
<1>4. ASSUME NEW w \in Workers, SetStatus(w) \/ SetDecision(w) PROVE Grown
  BY <1>1, <1>4, MarkList DEF Grown
<1>5. QED
  BY <1>2, <1>3, <1>4 DEF Next, Serve, Inspect, FileApplication, Look, Announce, AuditDecision,
         Resolve, Reconsider, Find, vars

(* A thread that does not move still knows what it knew. *)
LEMMA OtherJobs ==
    ASSUME TypeOK, JobsOK, Grown, NEW v \in Workers, job'[v] = job[v]
    PROVE  (Files(v)' => FilesOK(v)') /\ (Decides(v)' => DecidesOK(v)')
<1>1. ASSUME Files(v) PROVE FilesOK(v)'
  <2>1. FilesOK(v)
    BY <1>1 DEF JobsOK
  <2>2. job[v].slot \in {0} \cup DOMAIN reviews
    BY <1>1, JobTypes
  <2> DEFINE new == {i \in DOMAIN reviews' : objs'[reviews'[i]].id = job[v].id}
             old == Slots(job[v].id)
  <2>4. old \subseteq new /\ \A i \in new \ old : \A j \in DOMAIN reviews : j <= i
    BY DEF Grown, Slots
  <2>5. Slots(job[v].id)' = new
    BY DEF Slots
  <2>6. job[v].pc = "put" /\ job[v].slot # 0 =>
          job[v].slot \in new /\ \A i \in new : job[v].slot <= i
    <3> HIDE DEF new, old
    <3>1. job[v].pc = "put" /\ job[v].slot # 0 =>
          job[v].slot \in old /\ \A i \in old : job[v].slot <= i
      BY <2>1 DEF FilesOK, old
    <3>2. QED
      BY <2>2, <2>4, <3>1
  <2>7. job[v].pc = "announce" /\ Escalates(job[v].outcome) => new # {}
    BY <2>1, <2>4 DEF FilesOK
  <2>8. trail \subseteq trail'
    BY DEF Grown
  <2> HIDE DEF new, old
  <2>9. QED
    BY <2>1, <2>5, <2>6, <2>7, <2>8 DEF FilesOK
<1>2. ASSUME Decides(v) PROVE DecidesOK(v)'
  <2>1. DecidesOK(v) /\ job[v].ref \in DOMAIN objs
    BY <1>2, JobTypes DEF JobsOK
  <2>2. QED
    BY <2>1 DEF DecidesOK, Grown
<1>3. QED
  BY <1>1, <1>2 DEF Files, Decides

LEMMA JobsKept ==
    ASSUME TypeOK, JobsOK, Grown, NEW w \in Workers, \A v \in Workers \ {w} : job'[v] = job[v],
           Files(w)' => FilesOK(w)', Decides(w)' => DecidesOK(w)'
    PROVE  JobsOK'
<1>1. ASSUME NEW v \in Workers
      PROVE  (Files(v)' => FilesOK(v)') /\ (Decides(v)' => DecidesOK(v)')
  BY OtherJobs
<1>2. QED
  BY <1>1 DEF JobsOK

LEMMA TrailKept ==
    ASSUME TypeOK, TrailOK, Grown,
           \A n \in Numbers, o \in {"warn", "fail"} :
              <<"compliance_decision", n, o>> \in trail' \ trail =>
                  \E id \in ReviewIds : <<"review_escalated", n, id>> \in trail',
           \A e \in trail' \ trail : e[1] = "review_escalated" =>
              Slots(e[3])' # {} /\ (e[3] \in Named \/ e[2] = e[3])
    PROVE  TrailOK'
<1>1. trail \subseteq trail' /\ \A id : Slots(id) \subseteq Slots(id)'
  BY DEF Grown
<1>2. ASSUME NEW e \in trail, e[1] = "review_escalated"
      PROVE  Slots(e[3])' # {} /\ (e[3] \in Named \/ e[2] = e[3])
  BY <1>1, <1>2 DEF TrailOK
<1>3. \A e \in trail' : e[1] = "review_escalated" =>
          Slots(e[3])' # {} /\ (e[3] \in Named \/ e[2] = e[3])
  BY <1>2
<1>4. \A n \in Numbers, o \in {"warn", "fail"} :
          <<"compliance_decision", n, o>> \in trail' =>
              \E id \in ReviewIds : <<"review_escalated", n, id>> \in trail'
  BY <1>1 DEF TrailOK
<1>5. QED
  BY <1>3, <1>4 DEF TrailOK, Named

(* An id nobody else works on stays so when one thread moves on.           *)
LEMMA AloneKept ==
    ASSUME AloneOK, NEW w \in Workers, reviews' = reviews, \A id : Slots(id)' = Slots(id),
           overlapped \subseteq overlapped', \A v \in Workers \ {w} : job'[v] = job[v],
           \A id \in ReviewIds \ overlapped' : InQueue(w)' /\ job'[w].id = id =>
              /\ \A v \in Workers \ {w} : ~(InQueue(v) /\ job[v].id = id)
              /\ job'[w].pc = "put" /\ job'[w].slot = 0 => Slots(id) = {}
              /\ Decides(w)' =>
                    Slots(id) # {} /\ \A i \in Slots(id) : reviews[i] = job'[w].ref
    PROVE  AloneOK'
<1>1. ASSUME NEW id \in ReviewIds, id \notin overlapped' PROVE Alone(id)'
  <2>1. Alone(id)
    BY <1>1 DEF AloneOK
  <2>2. \A v \in Workers \ {w} : /\ InQueue(v)' <=> InQueue(v)
                                 /\ Decides(v)' <=> Decides(v)
    BY DEF InQueue, Decides
  <2>3. \A i, j \in Slots(id)' : i = j
    BY <2>1 DEF Alone
  <2>4. \A u, v \in Workers :
          InQueue(u)' /\ InQueue(v)' /\ job'[u].id = id /\ job'[v].id = id => u = v
    BY <1>1, <2>1, <2>2 DEF Alone
  <2>5. ASSUME NEW v \in Workers, InQueue(v)', job'[v].id = id
        PROVE  /\ job'[v].pc = "put" /\ job'[v].slot = 0 => Slots(id)' = {}
               /\ Decides(v)' => Slots(id)' # {} /\ \A i \in Slots(id)' : reviews'[i] = job'[v].ref
    <3>1. CASE v = w
      BY <1>1, <2>5, <3>1
    <3>2. CASE v # w
      BY <2>1, <2>2, <2>5, <3>2 DEF Alone
    <3>3. QED
      BY <3>1, <3>2
  <2>6. QED
    BY <2>3, <2>4, <2>5 DEF Alone
<1>2. QED
  BY <1>1 DEF AloneOK

-----------------------------------------------------------------------------
(* The invariant, action by action. *)

Rest == DictsOK /\ JobsOK /\ TrailOK /\ AloneOK

LEMMA FiledInv ==
    ASSUME QInv, Grown, NEW w \in Workers, Inspect(w) \/ FileApplication(w)
    PROVE  Rest'
<1>1. /\ job'[w] \in Filings /\ job' = [job EXCEPT ![w] = job'[w]]
      /\ job'[w].slot = 0 /\ job'[w].pc \in {"look", "announce"}
      /\ job'[w].pc = "announce" => ~Escalates(job'[w].outcome)
      /\ job'[w].id \in Named \/ job'[w].n = job'[w].id
      /\ UNCHANGED <<reviews, objs, trail, made, overlapped>>
  BY Filed DEF QInv
<1>2. \A v \in Workers \ {w} : job'[v] = job[v]
  BY <1>1 DEF QInv, TypeOK
<1>3. ~InQueue(w)' /\ ~Decides(w)' /\ FilesOK(w)'
  BY <1>1 DEF InQueue, Decides, FilesOK, Named
<1>4. DictsOK'
  BY <1>1 DEF DictsOK, QInv, Named
<1>5. JobsOK'
  BY <1>2, <1>3, JobsKept DEF QInv
<1>6. TrailOK'
  BY <1>1, TrailKept DEF QInv
<1>7. \A id : Slots(id)' = Slots(id)
  BY <1>1, GrownFrame
<1>8. AloneOK'
  BY <1>1, <1>2, <1>3, <1>7, AloneKept DEF QInv
<1>9. QED
  BY <1>4, <1>5, <1>6, <1>8 DEF Rest

(* Whoever enters the queue's code for an id finds nobody else there, or   *)
(* the id is marked.                                                       *)
LEMMA EnterAlone ==
    ASSUME NEW id, Enter(id), id \in ReviewIds \ overlapped'
    PROVE  \A v \in Workers : ~(InQueue(v) /\ job[v].id = id)
  BY DEF Enter

LEMMA LookInv ==
    ASSUME QInv, Grown, NEW w \in Workers, Look(w)
    PROVE  Rest'
<1>1. Files(w) /\ FilesOK(w) /\ job[w] \in Filings /\ job[w].pc = "look"
  BY JobTypes DEF QInv, JobsOK, Look, At, Files
<1> DEFINE id0 == job[w].id
           slot == IF Slots(id0) = {} THEN 0 ELSE Min(Slots(id0))
<1>2. /\ UNCHANGED <<reviews, objs, trail, made, requests>> /\ Enter(id0)
      /\ \A v \in Workers \ {w} : job'[v] = job[v]
      /\ job'[w] = [job[w] EXCEPT !.pc = "put", !.slot = slot]
  BY DEF Look, QInv, TypeOK
<1>3. /\ job'[w].pc = "put" /\ job'[w].slot = slot /\ job'[w].id = id0
      /\ job'[w].n = job[w].n
  BY <1>1, <1>2 DEF Filings
<1>4. \A id : Slots(id)' = Slots(id)
  BY <1>2, GrownFrame
<1>5. slot # 0 => slot \in Slots(id0) /\ \A i \in Slots(id0) : slot <= i
  BY ListTypes, LeastOf DEF QInv
<1>6. FilesOK(w)'
  <2>1. Slots(job[w].id)' = Slots(id0)
    <3>1. {i \in DOMAIN reviews' : objs'[reviews'[i]].id = id0} = Slots(id0)
      BY <1>2 DEF Slots
    <3>2. QED
      BY <1>2, <1>3, <3>1 DEF Slots
  <2> HIDE DEF slot
  <2>2. QED
    BY <1>1, <1>3, <1>5, <2>1 DEF FilesOK, Named
<1>7. ~Decides(w)'
  BY <1>3 DEF Decides
<1>8. DictsOK'
  BY <1>2 DEF DictsOK, QInv, Named
<1>9. JobsOK'
  BY <1>2, <1>6, <1>7, JobsKept DEF QInv
<1>10. TrailOK'
  BY <1>2, TrailKept DEF QInv
<1>11. ASSUME NEW id \in ReviewIds \ overlapped', InQueue(w)', job'[w].id = id
       PROVE  /\ \A v \in Workers \ {w} : ~(InQueue(v) /\ job[v].id = id)
              /\ job'[w].pc = "put" /\ job'[w].slot = 0 => Slots(id) = {}
  <2>1. id = id0
    BY <1>3, <1>11
  <2>2. slot = 0 => Slots(id0) = {}
    <3>1. Slots(id0) # {} => Min(Slots(id0)) \in DOMAIN reviews
      BY FirstOf, ListTypes DEF QInv
    <3>2. 0 \notin DOMAIN reviews
      BY ListTypes DEF QInv
    <3>3. QED
      BY <3>1, <3>2
  <2>3. QED
    BY <1>2, <1>3, <1>11, <2>1, <2>2, EnterAlone
<1>12. AloneOK'
  BY <1>2, <1>4, <1>7, <1>11, AloneKept DEF QInv, Grown
<1>13. QED
  BY <1>8, <1>9, <1>10, <1>12 DEF Rest

LEMMA PutInv ==
    ASSUME QInv, Grown, NEW w \in Workers, Put(w)
    PROVE  Rest'
<1>1. /\ Files(w) /\ FilesOK(w) /\ InQueue(w) /\ job[w].pc = "put" /\ job[w] \in Filings
      /\ job[w].id \in ReviewIds /\ job[w].slot \in {0} \cup DOMAIN reviews
  BY SlotTypes, JobTypes DEF QInv, JobsOK, Put, At, Files, InQueue
<1> DEFINE id0 == job[w].id
<1>2. /\ UNCHANGED <<trail, made, overlapped, requests>>
      /\ \A v \in Workers \ {w} : job'[v] = job[v]
      /\ job'[w] = [job[w] EXCEPT !.pc = "announce"]
  BY DEF Put, Goto, QInv, TypeOK
<1>3. /\ job'[w].pc = "announce" /\ job'[w].id = id0 /\ job'[w].n = job[w].n
      /\ job'[w].outcome = job[w].outcome
  BY <1>1, <1>2 DEF Filings
<1>4. /\ NewReview(w).id = id0 /\ NewReview(w).n = job[w].n
      /\ NewReview(w).decision = "none"
  BY DEF NewReview
<1>5. \A id : Slots(id)' = IF job[w].slot = 0 /\ id = id0
                          THEN Slots(id) \cup {Len(reviews) + 1} ELSE Slots(id)
  BY PutSlots DEF QInv
<1>6. \A id : id = id0 => Slots(id)' # {}
  BY <1>1, <1>5 DEF FilesOK
<1>7. DictsOK'
  <2>1. \A k \in DOMAIN objs : objs'[k] = objs[k]
    BY PutList DEF QInv
  <2>2. DOMAIN objs' = DOMAIN objs \cup {Len(objs) + 1} /\ objs'[Len(objs) + 1] = NewReview(w)
    BY PutList DEF QInv
  <2>3. id0 \in Named \/ job[w].n = id0
    BY <1>1 DEF FilesOK
  <2>4. QED
    BY <1>2, <1>4, <2>1, <2>2, <2>3 DEF DictsOK, QInv, Named
<1>8. JobsOK'
  <2>1. {i \in DOMAIN reviews' : objs'[reviews'[i]].id = id0} # {}
    BY <1>6 DEF Slots
  <2>2. FilesOK(w)'
    BY <1>1, <1>3, <2>1 DEF FilesOK, Slots, Named
  <2>3. ~Decides(w)'
    BY <1>3 DEF Decides
  <2>4. QED
    BY <1>2, <2>2, <2>3, JobsKept DEF QInv
<1>9. TrailOK'
  BY <1>2, TrailKept DEF QInv
<1>10. ASSUME NEW id \in ReviewIds, id \notin overlapped' PROVE Alone(id)'
  <2>1. Alone(id) /\ id \notin overlapped
    BY <1>2, <1>10 DEF QInv, AloneOK
  <2>2. ~InQueue(w)'
    BY <1>3 DEF InQueue
  <2>3. \A v \in Workers \ {w} : /\ InQueue(v)' <=> InQueue(v)
                                 /\ Decides(v)' <=> Decides(v)
    BY <1>2 DEF InQueue, Decides
  <2>4. \A u, v \in Workers :
          InQueue(u)' /\ InQueue(v)' /\ job'[u].id = id /\ job'[v].id = id => u = v
    BY <1>2, <2>1, <2>2, <2>3 DEF Alone
  <2>5. \A i, j \in Slots(id)' : i = j
    <3>1. job[w].slot = 0 /\ id = id0 => Slots(id) = {}
      BY <1>1, <2>1 DEF Alone
    <3>2. QED
      BY <1>5, <2>1, <3>1 DEF Alone
  <2>6. ASSUME NEW v \in Workers, InQueue(v)', job'[v].id = id
        PROVE  /\ job'[v].pc = "put" /\ job'[v].slot = 0 => Slots(id)' = {}
               /\ Decides(v)' => Slots(id)' # {} /\ \A i \in Slots(id)' : reviews'[i] = job'[v].ref
    <3>1. v # w /\ InQueue(v) /\ job[v].id = id /\ job'[v] = job[v]
      BY <1>2, <2>2, <2>3, <2>6
    <3>2. id # id0
      BY <1>1, <2>1, <3>1 DEF Alone
    <3>3. Slots(id)' = Slots(id)
      BY <1>5, <3>2
    <3>4. \A i \in Slots(id) : reviews'[i] = reviews[i]
      <4>1. \A i \in Slots(id) : i \in DOMAIN reviews /\ objs[reviews[i]].id = id
        BY DEF Slots
      <4>2. job[w].slot # 0 => objs[reviews[job[w].slot]].id = id0
        BY <1>1 DEF FilesOK, Slots
      <4>3. QED
        BY <3>2, <4>1, <4>2, PutList DEF QInv
    <3>5. QED
      BY <2>1, <2>3, <3>1, <3>3, <3>4 DEF Alone
  <2>7. QED
    BY <2>4, <2>5, <2>6 DEF Alone
<1>11. AloneOK'
  BY <1>10 DEF AloneOK
<1>12. QED
  BY <1>7, <1>8, <1>9, <1>11 DEF Rest

LEMMA AnnounceInv ==
    ASSUME QInv, Grown, NEW w \in Workers, Announce(w)
    PROVE  Rest'
<1>1. Files(w) /\ FilesOK(w) /\ job[w] \in Filings /\ job[w].pc = "announce"
  BY JobTypes DEF QInv, JobsOK, Announce, At, Files
<1>2. job[w].id \in ReviewIds /\ job[w].outcome \in Outcomes \cup {"application"}
  BY <1>1 DEF Filings
<1>3. /\ UNCHANGED <<reviews, objs, made, overlapped, requests>>
      /\ \A v \in Workers \ {w} : job'[v] = job[v]
      /\ job'[w] = IF job[w].outcome = "application" THEN Idle
                   ELSE [job[w] EXCEPT !.pc = "audit"]
      /\ trail' = trail \cup
            {<<"review_escalated", job[w].n, id>> : id \in
                IF Escalates(job[w].outcome) THEN {job[w].id} ELSE {}}
  BY DEF Announce, QInv, TypeOK
<1>4. \A id : Slots(id)' = Slots(id)
  BY <1>3, GrownFrame
<1>5. ~Decides(w)' /\ ~InQueue(w)'
  BY <1>1, <1>3 DEF Decides, InQueue, Idle, Filings
<1>6. Files(w)' => FilesOK(w)'
  <2>1. CASE job[w].outcome = "application"
    BY <1>3, <2>1 DEF Files, Idle
  <2>2. CASE job[w].outcome # "application"
    <3>1. /\ job'[w].pc = "audit" /\ job'[w].id = job[w].id /\ job'[w].n = job[w].n
          /\ job'[w].outcome = job[w].outcome
      BY <1>1, <1>3, <2>2 DEF Filings
    <3>2. Escalates(job[w].outcome) => <<"review_escalated", job[w].n, job[w].id>> \in trail'
      BY <1>3
    <3>3. QED
      BY <1>1, <1>2, <2>2, <3>1, <3>2 DEF FilesOK, Named
  <2>3. QED
    BY <2>1, <2>2
<1>7. DictsOK'
  BY <1>3 DEF DictsOK, QInv, Named
<1>8. JobsOK'
  BY <1>3, <1>5, <1>6, JobsKept DEF QInv
<1>9. TrailOK'
  <2>1. \A e \in trail' \ trail :
          e = <<"review_escalated", job[w].n, job[w].id>> /\ Escalates(job[w].outcome)
    BY <1>3
  <2>2. \A e \in trail' \ trail :
          /\ e[1] = "review_escalated" /\ e[2] = job[w].n /\ e[3] = job[w].id
          /\ Slots(job[w].id) # {} /\ (job[w].id \in Named \/ job[w].n = job[w].id)
    BY <1>1, <2>1 DEF FilesOK
  <2>3. \A n \in Numbers, o \in {"warn", "fail"} : <<"compliance_decision", n, o>> \notin trail' \ trail
    BY <2>1
  <2>4. \A e \in trail' \ trail : e[1] = "review_escalated" =>
              Slots(e[3])' # {} /\ (e[3] \in Named \/ e[2] = e[3])
    BY <1>4, <2>2
  <2>5. QED
    BY <2>3, <2>4, TrailKept DEF QInv
<1>10. AloneOK'
  BY <1>3, <1>4, <1>5, AloneKept DEF QInv
<1>11. QED
  BY <1>7, <1>8, <1>9, <1>10 DEF Rest

LEMMA AuditDecisionInv ==
    ASSUME QInv, Grown, NEW w \in Workers, AuditDecision(w)
    PROVE  Rest'
<1>1. Files(w) /\ FilesOK(w) /\ job[w] \in Filings /\ job[w].pc = "audit"
  BY JobTypes DEF QInv, JobsOK, AuditDecision, At, Files
<1>2. /\ UNCHANGED <<reviews, objs, made, overlapped, requests>>
      /\ \A v \in Workers \ {w} : job'[v] = job[v]
      /\ job'[w] = Idle
      /\ trail' = trail \cup {<<"compliance_decision", job[w].n, job[w].outcome>>}
  BY DEF AuditDecision, QInv, TypeOK
<1>3. \A id : Slots(id)' = Slots(id)
  BY <1>2, GrownFrame
<1>4. ~Decides(w)' /\ ~InQueue(w)' /\ ~Files(w)'
  BY <1>2 DEF Decides, InQueue, Files, Idle
<1>5. DictsOK'
  BY <1>2 DEF DictsOK, QInv, Named
<1>6. JobsOK'
  BY <1>2, <1>4, JobsKept DEF QInv
<1>7. TrailOK'
  <2>1. \A e \in trail' \ trail : e = <<"compliance_decision", job[w].n, job[w].outcome>>
    BY <1>2
  <2>2. \A e \in trail' \ trail : e[1] # "review_escalated"
    BY <2>1
  <2>3. job[w].outcome \in {"warn", "fail"} =>
          <<"review_escalated", job[w].n, job[w].id>> \in trail' /\ job[w].id \in ReviewIds
    BY <1>1, <1>2 DEF FilesOK, Escalates, Filings
  <2>4. \A n \in Numbers, o \in {"warn", "fail"} :
          <<"compliance_decision", n, o>> \in trail' \ trail =>
              \E id \in ReviewIds : <<"review_escalated", n, id>> \in trail'
    BY <2>1, <2>3
  <2>5. QED
    BY <2>2, <2>4, TrailKept DEF QInv
<1>8. AloneOK'
  BY <1>2, <1>3, <1>4, AloneKept DEF QInv
<1>9. QED
  BY <1>5, <1>6, <1>7, <1>8 DEF Rest

LEMMA FindInv ==
    ASSUME QInv, Grown, NEW w \in Workers, NEW id0 \in ReviewIds, NEW d \in Decisions,
           Find(w, id0, d)
    PROVE  Rest'
<1>1. /\ job' = [job EXCEPT ![w] = job'[w]]
      /\ job'[w].ref = First(id0) /\ job'[w].ref \in DOMAIN objs
      /\ job'[w].id = id0 /\ job'[w].decision = d /\ job'[w].pc = "mark"
      /\ Slots(id0) # {} /\ objs[First(id0)].id = id0
      /\ made' = made \cup {<<objs[First(id0)].n, d>>}
      /\ UNCHANGED <<reviews, objs, trail>>
  BY Found DEF QInv
<1>2. \A v \in Workers \ {w} : job'[v] = job[v]
  BY <1>1 DEF QInv, TypeOK
<1>3. \A id : Slots(id)' = Slots(id)
  BY <1>1, GrownFrame
<1>4. ~Files(w)' /\ DecidesOK(w)'
  BY <1>1 DEF Files, DecidesOK
<1>5. DictsOK'
  BY <1>1 DEF DictsOK, QInv, Named
<1>6. JobsOK'
  BY <1>2, <1>4, JobsKept DEF QInv
<1>7. TrailOK'
  BY <1>1, TrailKept DEF QInv
<1>8. ASSUME NEW id \in ReviewIds \ overlapped', InQueue(w)', job'[w].id = id
      PROVE  /\ \A v \in Workers \ {w} : ~(InQueue(v) /\ job[v].id = id)
             /\ Slots(id) # {} /\ \A i \in Slots(id) : reviews[i] = job'[w].ref
  <2>1. id = id0 /\ Enter(id)
    BY <1>1, <1>8 DEF Find
  <2>2. \A i \in Slots(id) : reviews[i] = First(id)
    <3>1. \A i, j \in Slots(id) : i = j
      BY <1>8 DEF QInv, AloneOK, Alone, Grown
    <3>2. QED
      BY <1>1, <2>1, <3>1, FirstOf DEF QInv
  <2>3. QED
    BY <1>1, <1>8, <2>1, <2>2, EnterAlone
<1>9. AloneOK'
  BY <1>1, <1>2, <1>3, <1>8, AloneKept DEF QInv, Grown
<1>10. QED
  BY <1>5, <1>6, <1>7, <1>9 DEF Rest

LEMMA MarkInv ==
    ASSUME QInv, Grown, NEW w \in Workers, SetStatus(w) \/ SetDecision(w)
    PROVE  Rest'
<1>1. /\ Decides(w) /\ DecidesOK(w) /\ InQueue(w) /\ job[w] \in Resolutions
      /\ job[w].ref \in DOMAIN objs
  BY MarkList DEF QInv, JobsOK, Decides, InQueue
<1>2. /\ UNCHANGED <<reviews, trail, made, overlapped, requests>>
      /\ \A v \in Workers \ {w} : job'[v] = job[v]
      /\ job'[w] \in {Idle, [job[w] EXCEPT !.pc = "sign"]}
  BY DEF SetStatus, SetDecision, Goto, QInv, TypeOK
<1>3. \A id : Slots(id)' = Slots(id)
  BY MarkList DEF QInv
<1>4. \/ job'[w].pc = "idle"
      \/ /\ job'[w].pc = "sign" /\ job'[w].id = job[w].id /\ job'[w].ref = job[w].ref
         /\ job'[w].decision = job[w].decision
  BY <1>1, <1>2 DEF Idle, Resolutions
<1>5. /\ DOMAIN objs' = DOMAIN objs
      /\ \A k \in DOMAIN objs : objs'[k].id = objs[k].id /\ objs'[k].n = objs[k].n
      /\ \A k \in DOMAIN objs \ {job[w].ref} : objs'[k] = objs[k]
      /\ objs'[job[w].ref].decision \in {objs[job[w].ref].decision, job[w].decision}
  BY MarkList DEF QInv
<1>6. ~Files(w)' /\ (Decides(w)' => DecidesOK(w)')
  BY <1>1, <1>2, <1>4, <1>5 DEF Files, Decides, DecidesOK
<1>7. DictsOK'
  <2>1. \A k \in DOMAIN objs : objs'[k].decision # "none" =>
          <<objs[k].n, objs'[k].decision>> \in made
    BY <1>1, <1>5 DEF DictsOK, DecidesOK, QInv
  <2>2. QED
    BY <1>2, <1>5, <2>1 DEF DictsOK, QInv, Named
<1>8. JobsOK'
  BY <1>2, <1>6, JobsKept DEF QInv
<1>9. TrailOK'
  BY <1>2, TrailKept DEF QInv
<1>10. ASSUME NEW id \in ReviewIds \ overlapped', InQueue(w)', job'[w].id = id
       PROVE  /\ \A v \in Workers \ {w} : ~(InQueue(v) /\ job[v].id = id)
              /\ job'[w].pc # "put"
              /\ Slots(id) # {} /\ \A i \in Slots(id) : reviews[i] = job'[w].ref
  <2>1. job'[w].pc = "sign" /\ job[w].id = id /\ job'[w].ref = job[w].ref
    BY <1>4, <1>10 DEF InQueue
  <2>2. Alone(id)
    BY <1>2, <1>10 DEF QInv, AloneOK
  <2>3. QED
    BY <1>1, <2>1, <2>2 DEF Alone
<1>11. AloneOK'
  BY <1>2, <1>3, <1>10, AloneKept DEF QInv
<1>12. QED
  BY <1>7, <1>8, <1>9, <1>11 DEF Rest

LEMMA InitInv == Init => QInv
<1> SUFFICES ASSUME Init PROVE QInv
  OBVIOUS
<1>1. TypeOK
  BY TypeInit
<1>2. \A w \in Workers : job[w].pc = "idle"
  BY DEF Init, Idle
<1>3. objs = <<>> /\ reviews = <<>> /\ trail = {}
  BY DEF Init
<1>4. \A id : Slots(id) = {}
  BY <1>3 DEF Slots
<1>5. JobsOK /\ DictsOK /\ TrailOK
  BY <1>2, <1>3 DEF JobsOK, Files, Decides, DictsOK, TrailOK
<1>6. AloneOK
  BY <1>2, <1>4 DEF AloneOK, Alone, InQueue
<1>7. QED
  BY <1>1, <1>5, <1>6 DEF QInv

LEMMA NextInv == QInv /\ [Next]_vars => QInv'
<1> SUFFICES ASSUME QInv, [Next]_vars PROVE QInv'
  OBVIOUS
<1>1. TypeOK' /\ Grown
  BY TypeNext, Grows DEF QInv
<1>2. Rest'
  <2>1. CASE Next
    <3>1. PICK w \in Workers :
            \/ Inspect(w) \/ FileApplication(w) \/ Serve(w)
            \/ \E id \in ReviewIds, d \in Decisions :
                  Resolve(w, id, d) \/ Reconsider(w, id, d)
      BY <2>1 DEF Next
    <3>2. QED
      BY <1>1, <3>1, FiledInv, LookInv, PutInv, AnnounceInv, AuditDecisionInv, FindInv, MarkInv
         DEF Serve, Resolve, Reconsider
  <2>2. CASE UNCHANGED vars
    BY <2>2 DEF vars, QInv, Rest, DictsOK, JobsOK, TrailOK, AloneOK, FilesOK, DecidesOK, Alone,
                Files, Decides, InQueue, Slots, Named
  <2>3. QED
    BY <2>1, <2>2
<1>3. QED
  BY <1>1, <1>2 DEF QInv, Rest

(* The inductive invariant of the queue. *)
THEOREM Invariance == Spec => []QInv
<1>1. QED
  BY InitInv, NextInv, PTL DEF Spec

(* Type correctness: references are to dicts of the queue, and a thread    *)
(* holds a slot of the list or a dict, for any number of threads and ids.  *)
THEOREM TypeCorrect == Spec => []TypeOK
<1>1. QInv => TypeOK
  BY DEF QInv
<1>2. QED
  BY Invariance, <1>1, PTL

(* An escalation that was reported, and every decision that called for one,*)
(* has its review in the queue, an anonymous request one of its own        *)
(* (graph_store.py:234-254, compliance.py:95-133), and no review is there  *)
(* twice unless two calls for its id overlapped.                           *)
THEOREM EscalatedReviewed == Spec => []EscalatedIsReviewed
<1>1. QInv => EscalatedIsReviewed
  <2> SUFFICES ASSUME QInv PROVE EscalatedIsReviewed
    OBVIOUS
  <2>1. ASSUME NEW e \in trail, e[1] = "review_escalated"
        PROVE  /\ Slots(e[3]) # {}
               /\ e[3] \notin Segments \cup Applications =>
                     \E i \in DOMAIN reviews : objs[reviews[i]].n = e[2]
    <3>1. Slots(e[3]) # {} /\ (e[3] \in Named \/ e[2] = e[3])
      BY <2>1 DEF QInv, TrailOK
    <3>2. PICK i \in DOMAIN reviews : objs[reviews[i]].id = e[3]
      BY <3>1 DEF Slots
    <3>3. objs[reviews[i]].id \in Named \/ objs[reviews[i]].n = objs[reviews[i]].id
      BY ListTypes DEF QInv, DictsOK
    <3>4. QED
      BY <3>1, <3>2, <3>3 DEF Named
  <2>2. \A id \in ReviewIds \ overlapped : \A i, j \in Slots(id) : i = j
    BY DEF QInv, AloneOK, Alone
  <2>3. QED
    BY <2>1, <2>2 DEF EscalatedIsReviewed, QInv, TrailOK
<1>2. QED
  BY Invariance, <1>1, PTL

(* No client is shown an approval that a reviewer did not give to the very *)
(* filing in the queue (graph_store.py:249-279), however often the review  *)
(* is replaced while it is decided.                                        *)
THEOREM ApprovalForFiling == Spec => []ApprovalIsForThisFiling
<1>1. QInv => ApprovalIsForThisFiling
  <2> SUFFICES ASSUME QInv, NEW id \in Applications, ClientView(id) = "approved"
               PROVE  <<objs[First(id)].n, "approve">> \in made
    BY DEF ApprovalIsForThisFiling
  <2>1. Slots(id) # {} /\ objs[First(id)].decision = "approve"
    BY DEF ClientView
  <2>2. First(id) \in DOMAIN objs
    BY <2>1, FirstOf DEF QInv
  <2>3. QED
    BY <2>1, <2>2 DEF QInv, DictsOK
<1>2. QED
  BY Invariance, <1>1, PTL

(* Whatever clients there are, the larger of two transactions of one of    *)
(* them is not treated more leniently (compliance.py:76-85): what its size *)
(* adds to the confidence never outweighs that it is reviewed for it.      *)
THEOREM LargerIsNeverSofter == Spec => []LargerNeverSofter
<1>1. ASSUME NEW p \in Profiles, NEW q \in Profiles,
             p.risk = q.risk, p.hits = q.hits, p.amount <= q.amount
      PROVE  Rank[Outcome(p)] <= Rank[Outcome(q)]
  <2>1. /\ p.risk \in 0 .. 100 /\ p.amount \in Nat /\ p.hits \in BOOLEAN
        /\ q.risk \in 0 .. 100 /\ q.amount \in Nat /\ q.hits \in BOOLEAN
    BY ProfilesAssumption
  <2>2. Fails(p) => Fails(q)
    BY <1>1, <2>1 DEF Fails
  <2>3. CASE q.amount > 500000
    <3>1. ReviewRequired(q)
      BY <2>3 DEF ReviewRequired
    <3>2. QED
      BY <2>2, <3>1 DEF Outcome, Rank, Outcomes
  <2>4. CASE ~(q.amount > 500000)
    <3>1. Confidence(p) = Confidence(q)
      <4>1. ~(p.amount > 500000)
        BY <1>1, <2>1, <2>4
      <4>2. QED
        BY <1>1, <2>4, <4>1 DEF Confidence
    <3>2. ReviewRequired(p) => ReviewRequired(q)
      BY <1>1, <2>1, <2>2, <2>4, <3>1 DEF ReviewRequired
    <3>3. QED
      BY <2>2, <3>2 DEF Outcome, Rank, Outcomes
  <2>5. QED
    BY <2>3, <2>4
<1>2. LargerNeverSofter
  BY <1>1 DEF LargerNeverSofter
<1>3. QED
  BY <1>2, PTL

-----------------------------------------------------------------------------
(* The list as a register for each id. *)

(* What the register shows depends on the first dict with the id only.     *)
LEMMA ShownKept ==
    ASSUME TypeOK, NEW id, Slots(id)' = Slots(id),
           Slots(id) # {} =>
              /\ objs'[reviews'[Min(Slots(id))]].n = objs[First(id)].n
              /\ objs'[reviews'[Min(Slots(id))]].decision = objs[First(id)].decision
    PROVE  Shown(id)' = Shown(id)
<1>1. First(id)' = reviews'[Min(Slots(id))]
  BY DEF First
<1>2. QED
  BY <1>1 DEF Shown

LEMMA PutShown ==
    ASSUME QInv, NEW w \in Workers, Put(w), NEW id \in ReviewIds
    PROVE  /\ \/ Shown(id)' = Shown(id)
              \/ Shown(id)' = [case |-> job[w].n, state |-> "pending"]
           /\ id = job[w].id /\ id \notin overlapped =>
                 Shown(id)' = [case |-> job[w].n, state |-> "pending"]
<1> USE DEF QInv
<1>1. /\ job[w].slot \in {0} \cup DOMAIN reviews
      /\ job[w].slot # 0 =>
            job[w].slot \in Slots(job[w].id) /\ \A i \in Slots(job[w].id) : job[w].slot <= i
      /\ InQueue(w) /\ job[w].pc = "put"
  BY SlotTypes DEF Put, At, InQueue
<1>2. Slots(id)' = IF job[w].slot = 0 /\ id = job[w].id
                   THEN Slots(id) \cup {Len(reviews) + 1} ELSE Slots(id)
  BY PutSlots
<1>3. \A k \in DOMAIN objs : objs'[k] = objs[k]
  BY PutList
<1>4. NewReview(w).n = job[w].n /\ NewReview(w).decision = "none"
  BY DEF NewReview
<1>5. Slots(id) # {} => Min(Slots(id)) \in Slots(id) /\ First(id) = reviews[Min(Slots(id))]
                        /\ First(id) \in DOMAIN objs /\ Min(Slots(id)) \in DOMAIN reviews
  BY FirstOf, ListTypes
<1>6. ASSUME Slots(id)' # {}, First(id)' = Len(objs) + 1
      PROVE  Shown(id)' = [case |-> job[w].n, state |-> "pending"]
  <2>1. objs'[First(id)'] = NewReview(w)
    BY <1>6, PutList
  <2>2. QED
    BY <1>4, <1>6, <2>1 DEF Shown
<1>7. CASE id # job[w].id
  <2>1. Slots(id)' = Slots(id)
    BY <1>2, <1>7
  <2>2. Slots(id) # {} => reviews'[Min(Slots(id))] = First(id)
    <3>1. job[w].slot # 0 => objs[reviews[job[w].slot]].id = job[w].id
      BY <1>1 DEF Slots
    <3>2. Slots(id) # {} => objs[reviews[Min(Slots(id))]].id = id
      BY <1>5 DEF Slots
    <3>3. QED
      BY <1>5, <1>7, <3>1, <3>2, PutList
  <2>3. QED
    BY <1>3, <1>5, <1>7, <2>1, <2>2, ShownKept
<1>8. CASE id = job[w].id /\ job[w].slot # 0
  <2>1. Slots(id)' = Slots(id) /\ Slots(id) # {}
    BY <1>1, <1>2, <1>8
  <2>2. Min(Slots(id)) = job[w].slot
    BY <1>1, <1>8, ListTypes, LeastIsMin
  <2>3. First(id)' = Len(objs) + 1
    BY <1>8, <2>1, <2>2, PutList DEF First
  <2>4. QED
    BY <1>6, <2>1, <2>3
<1>9. CASE id = job[w].id /\ job[w].slot = 0 /\ Slots(id) = {}
  <2>1. Slots(id)' = {Len(reviews) + 1} /\ Len(reviews) + 1 \in Nat
    BY <1>2, <1>9, ListTypes
  <2>2. Min(Slots(id)') = Len(reviews) + 1
    BY <2>1, LeastIsMin
  <2>3. First(id)' = Len(objs) + 1
    BY <1>9, <2>2, PutList DEF First
  <2>4. QED
    BY <1>6, <2>1, <2>3
<1>10. CASE id = job[w].id /\ job[w].slot = 0 /\ Slots(id) # {}
  <2>1. /\ Slots(id)' = Slots(id) \cup {Len(reviews) + 1} /\ Len(reviews) \in Nat
        /\ DOMAIN reviews = 1 .. Len(reviews) /\ Slots(id) \subseteq DOMAIN reviews
    BY <1>2, <1>10, ListTypes
  <2>2. /\ Min(Slots(id)) \in Slots(id)' /\ Slots(id)' \in SUBSET Nat
        /\ \A i \in Slots(id)' : Min(Slots(id)) <= i
    BY <1>5, <1>10, <2>1, LeastOf
  <2>3. Min(Slots(id)') = Min(Slots(id))
    BY <2>2, LeastIsMin
  <2>4. First(id)' = First(id)
    BY <1>5, <1>10, <2>3, PutList DEF First
  <2>5. Shown(id)' = Shown(id)
    BY <1>3, <1>5, <1>10, <2>2, <2>4 DEF Shown
  <2>6. id \in overlapped
    BY <1>1, <1>10 DEF AloneOK, Alone
  <2>7. QED
    BY <2>5, <2>6
<1>11. QED
  BY <1>7, <1>8, <1>9, <1>10

LEMMA SignShown ==
    ASSUME QInv, NEW w \in Workers, SetDecision(w), NEW id \in ReviewIds
    PROVE  /\ \/ Shown(id)' = Shown(id)
              \/ /\ Slots(id) # {}
                 /\ Shown(id)' = [case |-> objs[First(id)].n, state |-> job[w].decision]
           /\ id = job[w].id /\ id \notin overlapped =>
                 /\ Slots(id) # {}
                 /\ Shown(id)' = [case |-> objs[First(id)].n, state |-> job[w].decision]
<1> USE DEF QInv
<1>1. /\ job[w] \in Resolutions /\ job[w].ref \in DOMAIN objs /\ Decides(w)
      /\ \A k \in DOMAIN objs : objs'[k].n = objs[k].n
      /\ \A k \in DOMAIN objs \ {job[w].ref} : objs'[k] = objs[k]
      /\ objs'[job[w].ref].decision = job[w].decision
      /\ reviews' = reviews /\ Slots(id)' = Slots(id)
  BY MarkList
<1>2. job[w].decision # "none"
  BY <1>1 DEF Resolutions, Decisions
<1>3. Slots(id) # {} => First(id) \in DOMAIN objs /\ First(id) = reviews[Min(Slots(id))]
                        /\ Min(Slots(id)) \in Slots(id)
  BY FirstOf
<1>4. First(id)' = First(id)
  BY <1>1 DEF First
<1>5. CASE Slots(id) # {} /\ First(id) = job[w].ref
  BY <1>1, <1>2, <1>3, <1>4, <1>5 DEF Shown
<1>6. CASE ~(Slots(id) # {} /\ First(id) = job[w].ref)
  <2>1. Shown(id)' = Shown(id)
    BY <1>1, <1>3, <1>6, ShownKept
  <2>2. id = job[w].id => id \in overlapped
    BY <1>1, <1>3, <1>6 DEF AloneOK, Alone, InQueue, Decides
  <2>3. QED
    BY <2>1, <2>2
<1>7. QED
  BY <1>5, <1>6

LEMMA StatusShown ==
    ASSUME QInv, NEW w \in Workers, SetStatus(w), NEW id \in ReviewIds
    PROVE  Shown(id)' = Shown(id)
<1>1. /\ \A k \in DOMAIN objs : objs'[k].n = objs[k].n /\ objs'[k].decision = objs[k].decision
      /\ reviews' = reviews /\ Slots(id)' = Slots(id)
  BY MarkList DEF QInv
<1>2. QED
  BY <1>1, FirstOf, ShownKept DEF QInv

(* For any number of threads and ids, the list of the in-memory store is a *)
(* register for each id, and as long as no two calls for an id overlap no  *)
(* escalation and no decision is lost (graph_store.py:234-279).            *)
THEOREM RegisterImplemented == Spec => QueueIsRegister
<1> DEFINE Step(id) == /\ Shown(id)' = Shown(id) \/ Register(id)!Next
                       /\ id \notin overlapped =>
                             \A w \in Workers :
                                InQueue(w) /\ job[w].id = id => Effective(w, id)
<1>1. ASSUME QInv, [Next]_vars, NEW id \in ReviewIds PROVE Step(id) \/ UNCHANGED vars
  <2>1. ASSUME NEW w \in Workers, Put(w) PROVE Step(id)
    <3>1. job[w].n \in Numbers /\ \A v \in Workers \ {w} : job'[v] = job[v]
      BY <1>1, <2>1, SlotTypes DEF QInv, Put, Goto, TypeOK
    <3>2. Shown(id)' = Shown(id) \/ Register(id)!Next
      BY <1>1, <2>1, <3>1, PutShown DEF Register!Next, Register!Escalate
    <3>3. ASSUME NEW v \in Workers, InQueue(v), job[v].id = id, id \notin overlapped
          PROVE  Effective(v, id)
      <4>1. CASE v = w
        BY <1>1, <2>1, <3>3, <4>1, PutShown DEF Effective, Put, At
      <4>2. CASE v # w
        BY <3>1, <4>2 DEF Effective, At
      <4>3. QED
        BY <4>1, <4>2
    <3>4. QED
      BY <3>2, <3>3
  <2>2. ASSUME NEW w \in Workers, SetDecision(w) PROVE Step(id)
    <3>1. job[w].decision \in Decisions /\ \A v \in Workers \ {w} : job'[v] = job[v]
      BY <1>1, <2>2, MarkList DEF QInv, SetDecision, TypeOK, Resolutions
    <3>2. Slots(id) # {} =>
            \E s \in {"pending", "approve", "reject"} :
               Shown(id) = [case |-> objs[First(id)].n, state |-> s]
      <4>1. Slots(id) # {} => objs[First(id)] \in Review
        BY <1>1, FirstOf, ListTypes DEF QInv
      <4>2. QED
        BY <4>1 DEF Shown, Review, Decisions
    <3>3. Shown(id)' = Shown(id) \/ Register(id)!Next
      <4>1. ASSUME Slots(id) # {},
                   Shown(id)' = [case |-> objs[First(id)].n, state |-> job[w].decision]
            PROVE  Register(id)!Decide
        <5>1. Shown(id)' = [Shown(id) EXCEPT !.state = job[w].decision]
          BY <3>2, <4>1
        <5>2. Shown(id) # [state |-> "absent"]
          <6>1. Shown(id).state # "absent"
            BY <3>2, <4>1
          <6>2. QED
            BY <6>1
        <5>3. QED
          BY <3>1, <5>1, <5>2 DEF Register!Decide, Register!Absent
      <4>2. QED
        BY <1>1, <2>2, <4>1, SignShown DEF Register!Next
    <3>4. ASSUME NEW v \in Workers, InQueue(v), job[v].id = id, id \notin overlapped
          PROVE  Effective(v, id)
      <4>1. CASE v = w
        <5>1. /\ Slots(id) # {} /\ job[v].pc = "sign"
              /\ Shown(id)' = [case |-> objs[First(id)].n, state |-> job[v].decision]
          BY <1>1, <2>2, <3>4, <4>1, SignShown DEF SetDecision, At
        <5>2. Shown(id).case = objs[First(id)].n
          BY <3>2, <5>1
        <5>3. QED
          BY <5>1, <5>2 DEF Effective, At
      <4>2. CASE v # w
        BY <3>1, <4>2 DEF Effective, At
      <4>3. QED
        BY <4>1, <4>2
    <3>5. QED
      BY <3>3, <3>4
  <2>3. ASSUME Shown(id)' = Shown(id), NEW w \in Workers,
               \A v \in Workers \ {w} : job'[v] = job[v], ~At(w, "put"), ~At(w, "sign")
        PROVE  Step(id)
    BY <2>3 DEF Effective, At
  <2>4. ASSUME NEW w \in Workers, SetStatus(w) PROVE Step(id)
    <3>1. \A v \in Workers \ {w} : job'[v] = job[v]
      BY <1>1, <2>4 DEF QInv, SetStatus, Goto, TypeOK
    <3>2. QED
      BY <1>1, <2>3, <2>4, <3>1, StatusShown DEF SetStatus, At
  <2>5. ASSUME NEW w \in Workers, UNCHANGED <<reviews, objs>>,
               job' = [job EXCEPT ![w] = job'[w]], ~At(w, "put"), ~At(w, "sign")
        PROVE  Step(id)
    <3>1. \A v \in Workers \ {w} : job'[v] = job[v]
      BY <1>1, <2>5 DEF QInv, TypeOK
    <3>2. Shown(id)' = Shown(id)
      BY <2>5 DEF Shown, First, Slots
    <3>3. QED
      BY <2>3, <2>5, <3>1, <3>2
  <2>6. CASE Next
    <3>1. PICK w \in Workers :
            \/ Inspect(w) \/ FileApplication(w) \/ Serve(w)
            \/ \E i \in ReviewIds, d \in Decisions : Resolve(w, i, d) \/ Reconsider(w, i, d)
      BY <2>6 DEF Next
    <3>2. CASE Inspect(w) \/ FileApplication(w)
      BY <1>1, <2>5, <3>2, Filed DEF QInv, Inspect, FileApplication, At
    <3>3. CASE Look(w) \/ Announce(w) \/ AuditDecision(w)
      <4>1. UNCHANGED <<reviews, objs>> /\ ~At(w, "put") /\ ~At(w, "sign")
        BY <3>3 DEF Look, Announce, AuditDecision, At
      <4>2. job' = [job EXCEPT ![w] = job'[w]]
        BY <1>1, <3>3 DEF Look, Announce, AuditDecision, QInv, TypeOK
      <4>3. QED
        BY <2>5, <4>1, <4>2
    <3>4. CASE \E i \in ReviewIds, d \in Decisions : Resolve(w, i, d) \/ Reconsider(w, i, d)
      <4>1. PICK i \in ReviewIds, d \in Decisions : Find(w, i, d)
        BY <3>4 DEF Resolve, Reconsider
      <4>2. QED
        BY <1>1, <2>5, <4>1, Found DEF QInv, Find, At
    <3>5. QED
      BY <2>1, <2>2, <2>4, <3>1, <3>2, <3>3, <3>4 DEF Serve
  <2>7. QED
    BY <1>1, <2>6
<1>2. QInv /\ [Next]_vars => [\A id \in ReviewIds : Step(id)]_vars
  BY <1>1
<1>3. QED
  BY Invariance, <1>2, PTL DEF Spec, QueueIsRegister

=============================================================================
