---------------------- MODULE ClientApplications_proofs ----------------------
(***************************************************************************)
(* Theorems about ClientApplications, for any number of applications,      *)
(* documents, threads, requests, faults and restarts.                      *)
(***************************************************************************)
EXTENDS ClientApplications, SequenceTheorems, TLAPS

-----------------------------------------------------------------------------
(* Records and jobs. *)

(* A job on its way to pc, with the status it is to mail.                  *)
Moved(j, pc, status) == [j EXCEPT !.pc = pc, !.status = status]

(* The thread has a record: it does not idle nor look for one.             *)
Holds(w) == job[w] # Idle /\ job[w].pc # "find"

Others == Pcs \ {"find", "send"}

LEMMA IdleIsNoJob ==
    /\ Idle \notin Jobs
    /\ Idle.pc = "idle"
    /\ \A j \in Jobs : j.pc # "idle"
  BY DEF Idle, Jobs, Pcs

LEMMA NoRecordIsNone == NoRecord \notin Records
  BY DEF NoRecord, Records

(* The changes a request makes to a record leave it a record.              *)
LEMMA RecordChanges ==
    ASSUME NEW r \in Records
    PROVE  /\ r.kyc \in {"APPROVED", "PENDING_REVIEW"}
           /\ r.provided \in SUBSET Docs
           /\ r.review \in ReviewIds \cup {NoReview}
           /\ r.email \in BOOLEAN
           /\ r.notified \in Statuses \cup {"none"}
           /\ \A id \in ReviewIds : [r EXCEPT !.review = id] \in Records
           /\ \A s \in Statuses : [r EXCEPT !.notified = s] \in Records
           /\ \A d \in SUBSET Docs : [r EXCEPT !.provided = d] \in Records
  BY DEF Records

LEMMA JobChanges ==
    ASSUME NEW j \in Jobs
    PROVE  /\ j.app \in Apps /\ j.docs \in SUBSET Docs /\ j.pc \in Pcs
           /\ j.rec \in Records \cup {NoRecord} /\ j.shared \in BOOLEAN
           /\ j.status \in Statuses \cup {"none"}
           /\ j.gate \in {"none", "KYC", "ONB"}
           /\ \A pc \in Pcs : [j EXCEPT !.pc = pc] \in Jobs
           /\ \A pc \in Pcs, status \in Statuses \cup {"none"} :
                 Moved(j, pc, status) \in Jobs
           /\ \A r \in Records : [j EXCEPT !.rec = r] \in Jobs
           /\ \A r \in Records : [j EXCEPT !.shared = FALSE, !.rec = r] \in Jobs
  BY DEF Jobs, Moved

LEMMA ClientViewType ==
    ASSUME NEW r, NEW seen
    PROVE  ClientView(r, seen) \in Statuses
  BY DEF ClientView, Statuses

(* The record of a thread that has one is a record. *)
LEMMA RecType ==
    ASSUME TypeOK, NEW w \in Workers, job[w] # Idle
    PROVE  /\ job[w] \in Jobs
           /\ App(w) \in Apps
           /\ job[w].pc # "find" => Rec(w) \in Records
<1>1. job[w] \in Jobs
  BY DEF TypeOK
<1>2. App(w) \in Apps
  BY <1>1, JobChanges DEF App
<1>3. ASSUME job[w].pc # "find" PROVE Rec(w) \in Records
  <2>1. IF job[w].shared THEN fallback[App(w)] # NoRecord ELSE job[w].rec # NoRecord
    BY <1>3 DEF TypeOK, JobOK, App
  <2>2. fallback[App(w)] \in Records \cup {NoRecord}
    BY <1>2 DEF TypeOK
  <2>3. job[w].rec \in Records \cup {NoRecord}
    BY <1>1, JobChanges
  <2>4. QED
    BY <2>1, <2>2, <2>3 DEF Rec
<1>4. QED
  BY <1>1, <1>2, <1>3

(* A step that moves one job and leaves the dict keeps the jobs typed.     *)
JobsOK == /\ job \in [Workers -> Jobs \cup {Idle}]
          /\ \A v \in Workers : job[v] # Idle => JobOK(job[v])

FallbackOK == fallback \in [Apps -> Records \cup {NoRecord}]

LEMMA UpdateType ==
    ASSUME TypeOK, NEW w \in Workers, Holds(w), job[w].gate = "none"
    PROVE  \A r \in Records, pc \in Pcs \ {"find"}, status \in Statuses \cup {"none"} :
              (pc = "send" <=> status # "none") /\ Update(w, r, pc, status)
                 => JobsOK' /\ FallbackOK'
<1>1. SUFFICES ASSUME NEW r \in Records, NEW pc \in Pcs \ {"find"},
                      NEW status \in Statuses \cup {"none"},
                      pc = "send" <=> status # "none",
                      Update(w, r, pc, status)
               PROVE  JobsOK' /\ FallbackOK'
  OBVIOUS
<1> DEFINE j == Moved(job[w], pc, status)
<1>2. /\ job[w] \in Jobs /\ job[w] # Idle
      /\ j \in Jobs /\ j.pc = pc /\ j.status = status /\ j.gate = "none"
      /\ j.shared = job[w].shared /\ j.app = App(w) /\ App(w) \in Apps
      /\ j.shared \in BOOLEAN
  <2>1. job[w] \in Jobs /\ App(w) \in Apps /\ job[w] # Idle
    BY RecType DEF Holds
  <2>2. j \in Jobs
    BY <2>1, JobChanges
  <2>3. /\ j.pc = pc /\ j.status = status /\ j.gate = "none"
        /\ j.shared = job[w].shared /\ j.app = App(w)
    BY <2>1 DEF Moved, App, Jobs
  <2>4. QED
    BY <2>1, <2>2, <2>3, JobChanges
<1>3. CASE job[w].shared
  <2>1. /\ fallback' = [fallback EXCEPT ![App(w)] = r]
        /\ job' = [job EXCEPT ![w] = j]
    BY <1>1, <1>3 DEF Update, Moved
  <2>2. FallbackOK'
    BY <1>2, <2>1 DEF TypeOK, FallbackOK
  <2>3. \A a \in Apps : fallback[a] # NoRecord => fallback'[a] # NoRecord
    BY <1>2, <2>1, NoRecordIsNone DEF TypeOK
  <2>4. fallback'[App(w)] # NoRecord
    BY <1>2, <2>1, NoRecordIsNone DEF TypeOK
  <2>5. job' \in [Workers -> Jobs \cup {Idle}]
    BY <1>2, <2>1 DEF TypeOK
  <2>6. ASSUME NEW v \in Workers, job'[v] # Idle
        PROVE  JobOK(job[v])'
    <3>1. CASE v = w
      <4>1. job'[v] = j
        BY <2>1, <3>1 DEF TypeOK
      <4>2. QED
        BY <1>1, <1>2, <1>3, <2>4, <4>1 DEF JobOK
    <3>2. CASE v # w
      <4>1. job'[v] = job[v] /\ job[v] \in Jobs
        BY <2>1, <2>6, <3>2 DEF TypeOK
      <4>2. JobOK(job[v]) /\ job[v].app \in Apps
        BY <2>6, <4>1, JobChanges DEF TypeOK
      <4>3. QED
        BY <2>3, <4>1, <4>2 DEF JobOK
    <3>3. QED
      BY <3>1, <3>2
  <2>7. QED
    BY <2>2, <2>5, <2>6 DEF JobsOK
<1>4. CASE ~job[w].shared
  <2> DEFINE k == [j EXCEPT !.rec = r]
  <2>1. job' = [job EXCEPT ![w] = k] /\ fallback' = fallback
    BY <1>1, <1>4 DEF Update, Moved
  <2>2. /\ k \in Jobs /\ k.pc = pc /\ k.status = status /\ k.gate = "none"
        /\ ~k.shared /\ k.rec = r
    <3>1. k \in Jobs
      BY <1>2, JobChanges
    <3>2. QED
      BY <1>2, <1>4, <3>1 DEF Jobs
  <2>3. job' \in [Workers -> Jobs \cup {Idle}]
    <3> HIDE DEF k
    <3>1. QED
      BY <2>1, <2>2 DEF TypeOK
  <2>4. ASSUME NEW v \in Workers, job'[v] # Idle
        PROVE  JobOK(job[v])'
    <3> HIDE DEF k
    <3>1. CASE v = w
      <4>1. job'[v] = k
        BY <2>1, <3>1 DEF TypeOK
      <4>2. r # NoRecord
        BY NoRecordIsNone
      <4>3. QED
        BY <1>1, <2>2, <4>1, <4>2 DEF JobOK
    <3>2. CASE v # w
      <4>1. job'[v] = job[v]
        BY <2>1, <2>4, <3>2 DEF TypeOK
      <4>2. JobOK(job[v])
        BY <2>4, <4>1 DEF TypeOK
      <4>3. QED
        BY <2>1, <4>1, <4>2 DEF JobOK
    <3>3. QED
      BY <3>1, <3>2
  <2>5. QED
    BY <2>1, <2>3, <2>4 DEF JobsOK, FallbackOK, TypeOK
<1>5. QED
  BY <1>3, <1>4

(* A thread with a record that is not about to mail: what JobOK says.      *)
LEMMA HolderType ==
    ASSUME TypeOK, NEW w \in Workers, NEW pc, At(w, pc), pc \in Pcs \ {"find"}
    PROVE  /\ Holds(w) /\ job[w] # Idle /\ job[w] \in Jobs /\ job[w].pc = pc
           /\ App(w) \in Apps /\ Rec(w) \in Records
           /\ job[w].gate = "none"
           /\ pc # "send" => job[w].status = "none"
           /\ IF job[w].shared THEN fallback[App(w)] # NoRecord
                               ELSE job[w].rec # NoRecord
<1>1. job[w].pc = pc /\ pc # "idle" /\ pc # "find"
  BY DEF At, Pcs
<1>2. job[w] # Idle
  BY <1>1, IdleIsNoJob
<1>3. job[w] \in Jobs /\ JobOK(job[w])
  BY <1>2 DEF TypeOK
<1>4. job[w].gate \in {"none", "KYC", "ONB"} /\ job[w].status \in Statuses \cup {"none"}
  BY <1>3, JobChanges
<1>5. QED
  BY <1>1, <1>2, <1>3, <1>4, RecType DEF Holds, JobOK, App

LEMMA GotoType ==
    ASSUME TypeOK, NEW w \in Workers, Holds(w), job[w].pc # "send",
           fallback' = fallback
    PROVE  \A pc \in Others : Goto(w, pc) => JobsOK' /\ FallbackOK'
<1>1. SUFFICES ASSUME NEW pc \in Others, Goto(w, pc)
               PROVE  JobsOK' /\ FallbackOK'
  OBVIOUS
<1> DEFINE j == [job[w] EXCEPT !.pc = pc]
<1>2. job' = [job EXCEPT ![w] = j]
  BY <1>1 DEF Goto
<1>3. job[w] \in Jobs /\ JobOK(job[w]) /\ job[w] # Idle /\ job[w].pc # "find"
  BY DEF TypeOK, Holds
<1>4. j \in Jobs
  BY <1>3, JobChanges DEF Others
<1>5. /\ j.pc = pc /\ j.gate = job[w].gate /\ j.status = job[w].status
      /\ j.shared = job[w].shared /\ j.app = job[w].app /\ j.rec = job[w].rec
  BY <1>3 DEF Jobs
<1> HIDE DEF j
<1>6. job' \in [Workers -> Jobs \cup {Idle}]
  BY <1>2, <1>4 DEF TypeOK
<1>7. ASSUME NEW v \in Workers, job'[v] # Idle
      PROVE  JobOK(job[v])'
  <2>1. CASE v = w
    <3>1. job'[v] = j
      BY <1>2, <2>1 DEF TypeOK
    <3>2. QED
      BY <1>1, <1>3, <1>5, <3>1 DEF JobOK, Others
  <2>2. CASE v # w
    <3>1. job'[v] = job[v]
      BY <1>2, <2>2 DEF TypeOK
    <3>2. QED
      BY <1>7, <3>1 DEF TypeOK, JobOK
  <2>3. QED
    BY <2>1, <2>2
<1>8. QED
  BY <1>6, <1>7 DEF JobsOK, FallbackOK, TypeOK

(* A thread takes up the job j, or none. *)
LEMMA StartType ==
    ASSUME TypeOK, NEW w \in Workers, fallback' = fallback
    PROVE  \A j \in Jobs \cup {Idle} :
              (j # Idle => JobOK(j)) /\ job' = [job EXCEPT ![w] = j]
                 => JobsOK' /\ FallbackOK'
<1>1. SUFFICES ASSUME NEW j \in Jobs \cup {Idle}, j # Idle => JobOK(j),
                      job' = [job EXCEPT ![w] = j]
               PROVE  JobsOK' /\ FallbackOK'
  OBVIOUS
<1>2. job' \in [Workers -> Jobs \cup {Idle}]
  BY <1>1 DEF TypeOK
<1>3. ASSUME NEW v \in Workers, job'[v] # Idle
      PROVE  JobOK(job[v])'
  <2>1. job'[v] = IF v = w THEN j ELSE job[v]
    BY <1>1 DEF TypeOK
  <2>2. QED
    BY <1>1, <1>3, <2>1 DEF TypeOK, JobOK
<1>4. QED
  BY <1>2, <1>3 DEF JobsOK, FallbackOK, TypeOK

LEMMA NotifiedType ==
    ASSUME TypeOK, NEW w \in Workers, At(w, "notify") \/ At(w, "send"),
           fallback' = fallback, Notified(w)
    PROVE  JobsOK' /\ FallbackOK'
<1> DEFINE j == Moved(job[w], "save", "none")
<1>1. /\ job[w] \in Jobs /\ job[w].gate = "none" /\ App(w) \in Apps
      /\ IF job[w].shared THEN fallback[App(w)] # NoRecord
                          ELSE job[w].rec # NoRecord
  BY HolderType DEF Pcs
<1>2. job' = [job EXCEPT ![w] = IF job[w].kind = "resolve" THEN Idle ELSE j]
  BY <1>1 DEF Notified, Moved, TypeOK
<1>3. j \in Jobs
  BY <1>1, JobChanges DEF Pcs
<1>4. /\ j.pc = "save" /\ j.gate = job[w].gate /\ j.status = "none"
      /\ j.shared = job[w].shared /\ j.app = job[w].app /\ j.rec = job[w].rec
  BY <1>1 DEF Jobs, Moved
<1> HIDE DEF j
<1>5. JobOK(j)
  BY <1>1, <1>4 DEF JobOK, App
<1>6. QED
  BY <1>2, <1>3, <1>5, StartType

(* A new job is a job. *)
LEMMA JobType ==
    ASSUME NEW kind \in {"submit", "upload", "resolve"}, NEW pc \in Pcs,
           NEW a \in Apps, NEW docs \in SUBSET Docs,
           NEW r \in Records \cup {NoRecord}, NEW shared \in BOOLEAN
    PROVE  LET j == Job(kind, pc, a, docs, r, shared)
           IN  /\ j \in Jobs /\ j.pc = pc /\ j.app = a /\ j.docs = docs
               /\ j.rec = r /\ j.shared = shared /\ j.status = "none"
               /\ j.gate = "none" /\ j.kind = kind
  BY DEF Job, Jobs

(* Counters stay within their bounds. *)
LEMMA CountersType ==
    ASSUME TypeOK
    PROVE  /\ Works => faults' \in 0 .. MaxFaults
           /\ Raises => faults' \in 0 .. MaxFaults
           /\ Counted => requests' \in 0 .. MaxRequests
  BY BoundsAssumption DEF BoundsAssumption, TypeOK, Works, Raises, Counted

LEMMA AddReviewType ==
    ASSUME TypeOK, NEW id \in ReviewIds
    PROVE  AddReview(id) => reviews' \in [ReviewIds -> ReviewStates]
  BY DEF TypeOK, AddReview, ReviewStates

-----------------------------------------------------------------------------
LEMMA TypeSubmit ==
    ASSUME TypeOK, NEW w \in Workers, Submit(w)
    PROVE  TypeOK'
<1>1. PICK a \in Apps \ submitted, kyc \in {"APPROVED", "PENDING_REVIEW"},
           docs \in SUBSET Docs, email \in BOOLEAN :
        /\ submitted' = submitted \cup {a}
        /\ job' = [job EXCEPT ![w] =
              Job("submit", IF kyc = "APPROVED" THEN "assessed" ELSE "escalate",
                  a, docs,
                  [kyc |-> kyc, provided |-> docs, review |-> NoReview,
                   email |-> email, notified |-> "none"], FALSE)]
  BY DEF Submit
<1> DEFINE r == [kyc |-> kyc, provided |-> docs, review |-> NoReview,
                 email |-> email, notified |-> "none"]
           pc == IF kyc = "APPROVED" THEN "assessed" ELSE "escalate"
           j == Job("submit", pc, a, docs, r, FALSE)
<1>2. r \in Records /\ pc \in {"assessed", "escalate"}
  BY DEF Records
<1>3. /\ j \in Jobs /\ j.pc = pc /\ j.gate = "none" /\ j.status = "none"
      /\ j.shared = FALSE /\ j.rec = r
  <2> HIDE DEF r, pc
  <2>1. pc \in Pcs
    BY <1>2 DEF Pcs
  <2>2. QED
    BY <1>2, <2>1 DEF Job, Jobs
<1>4. JobOK(j)
  <2> HIDE DEF r, pc, j
  <2>1. QED
    BY <1>2, <1>3, NoRecordIsNone DEF JobOK
<1>5. JobsOK' /\ FallbackOK'
  <2>1. job' = [job EXCEPT ![w] = j] /\ fallback' = fallback
    BY <1>1 DEF Submit
  <2> HIDE DEF j
  <2>2. QED
    BY <1>3, <1>4, <2>1, StartType
<1>6. requests' \in 0 .. MaxRequests /\ submitted' \in SUBSET Apps
  BY <1>1, CountersType DEF Submit, TypeOK
<1>7. QED
  BY <1>5, <1>6 DEF TypeOK, JobsOK, FallbackOK, Submit

LEMMA TypeEscalateKyc ==
    ASSUME TypeOK, NEW w \in Workers, EscalateKyc(w)
    PROVE  TypeOK'
<1> DEFINE id == <<App(w), "KYC">>
<1>1. /\ Holds(w) /\ Rec(w) \in Records /\ job[w].gate = "none"
      /\ job[w].pc # "send" /\ id \in ReviewIds
  BY HolderType DEF EscalateKyc, Pcs, ReviewIds, At
<1>2. JobsOK' /\ FallbackOK'
  <2>1. CASE Update(w, [Rec(w) EXCEPT !.review = id], "assessed", "none")
    <3>1. [Rec(w) EXCEPT !.review = id] \in Records
      BY <1>1, RecordChanges
    <3>2. QED
      BY <1>1, <2>1, <3>1, UpdateType DEF Pcs
  <2>2. CASE Goto(w, "assessed") /\ fallback' = fallback
    BY <1>1, <2>2, GotoType DEF Others, Pcs
  <2>3. QED
    BY <2>1, <2>2 DEF EscalateKyc
<1>3. reviews' \in [ReviewIds -> ReviewStates] /\ faults' \in 0 .. MaxFaults
  BY <1>1, AddReviewType, CountersType DEF EscalateKyc, TypeOK
<1>4. QED
  BY <1>2, <1>3 DEF TypeOK, JobsOK, FallbackOK, EscalateKyc

LEMMA TypeRecordAssessment ==
    ASSUME TypeOK, NEW w \in Workers, RecordAssessment(w)
    PROVE  TypeOK'
<1>1. JobsOK' /\ FallbackOK'
  BY HolderType, GotoType DEF RecordAssessment, Others, Pcs
<1>2. QED
  BY <1>1 DEF TypeOK, JobsOK, FallbackOK, RecordAssessment

LEMMA TypeFetch ==
    ASSUME TypeOK, NEW w \in Workers, Fetch(w)
    PROVE  TypeOK'
<1>1. JobsOK' /\ FallbackOK'
  <2>1. PICK a \in Apps, docs \in SUBSET Docs, r \in Records \cup {NoRecord},
             shared \in BOOLEAN :
          /\ job' = [job EXCEPT ![w] = Job("upload", "attach", a, docs, r, shared)]
          /\ IF shared THEN fallback[a] # NoRecord ELSE r # NoRecord
    <3>1. kv \in [Apps -> Records \cup {NoRecord}]
      BY DEF TypeOK
    <3>2. PICK a \in Apps, docs \in SUBSET Docs :
            \/ /\ kv[a] # NoRecord
               /\ job' = [job EXCEPT ![w] = Job("upload", "attach", a, docs, kv[a], FALSE)]
            \/ /\ fallback[a] # NoRecord
               /\ job' = [job EXCEPT ![w] = Job("upload", "attach", a, docs, NoRecord, TRUE)]
      BY DEF Fetch, Exists
    <3>3. CASE kv[a] # NoRecord /\ job' =
              [job EXCEPT ![w] = Job("upload", "attach", a, docs, kv[a], FALSE)]
      <4>1. kv[a] \in Records \cup {NoRecord}
        BY <3>1
      <4>2. QED
        BY <3>3, <4>1
    <3>4. CASE fallback[a] # NoRecord /\ job' =
              [job EXCEPT ![w] = Job("upload", "attach", a, docs, NoRecord, TRUE)]
      BY <3>4
    <3>5. QED
      BY <3>2, <3>3, <3>4
  <2> DEFINE j == Job("upload", "attach", a, docs, r, shared)
  <2>2. /\ j \in Jobs /\ j.pc = "attach" /\ j.app = a /\ j.rec = r
        /\ j.shared = shared /\ j.status = "none" /\ j.gate = "none"
    BY JobType DEF Pcs
  <2>3. JobOK(j)
    <3> HIDE DEF j
    <3>1. QED
      BY <2>1, <2>2 DEF JobOK
  <2>4. fallback' = fallback
    BY DEF Fetch
  <2> HIDE DEF j
  <2>5. QED
    BY <2>1, <2>2, <2>3, <2>4, StartType DEF j
<1>2. requests' \in 0 .. MaxRequests /\ faults' \in 0 .. MaxFaults
  BY CountersType DEF Fetch
<1>3. QED
  BY <1>1, <1>2 DEF TypeOK, JobsOK, FallbackOK, Fetch

LEMMA TypeAddDocuments ==
    ASSUME TypeOK, NEW w \in Workers, AddDocuments(w)
    PROVE  TypeOK'
<1> DEFINE r == [Rec(w) EXCEPT !.provided = @ \cup job[w].docs]
<1>1. /\ Holds(w) /\ job[w].gate = "none" /\ Rec(w) \in Records
      /\ job[w] \in Jobs
  BY HolderType DEF AddDocuments, Pcs
<1>2. r \in Records
  BY <1>1, RecordChanges, JobChanges
<1>3. JobsOK' /\ FallbackOK'
  <2>1. Update(w, r, "review", "none")
    BY DEF AddDocuments
  <2> HIDE DEF r
  <2>2. QED
    BY <1>1, <1>2, <2>1, UpdateType DEF Pcs
<1>4. QED
  BY <1>3 DEF TypeOK, JobsOK, FallbackOK, AddDocuments

LEMMA TypeEnsureFinalReview ==
    ASSUME TypeOK, NEW w \in Workers, EnsureFinalReview(w)
    PROVE  TypeOK'
<1> DEFINE id == <<App(w), "ONB">>
<1>1. /\ Holds(w) /\ Rec(w) \in Records /\ job[w].gate = "none"
      /\ job[w].pc # "send" /\ id \in ReviewIds
  BY HolderType DEF EnsureFinalReview, Pcs, ReviewIds, At
<1>2. JobsOK' /\ FallbackOK'
  <2>1. CASE Update(w, [Rec(w) EXCEPT !.review = id], "linked", "none")
    <3>1. [Rec(w) EXCEPT !.review = id] \in Records
      BY <1>1, RecordChanges
    <3>2. QED
      BY <1>1, <2>1, <3>1, UpdateType DEF Pcs
  <2>2. CASE Goto(w, "intake") /\ fallback' = fallback
    BY <1>1, <2>2, GotoType DEF Others, Pcs
  <2>3. QED
    BY <2>1, <2>2 DEF EnsureFinalReview
<1>3. reviews' \in [ReviewIds -> ReviewStates] /\ faults' \in 0 .. MaxFaults
  BY <1>1, AddReviewType, CountersType DEF EnsureFinalReview, TypeOK
<1>4. QED
  BY <1>2, <1>3 DEF TypeOK, JobsOK, FallbackOK, EnsureFinalReview

LEMMA TypeAuditFinalReview ==
    ASSUME TypeOK, NEW w \in Workers, AuditFinalReview(w)
    PROVE  TypeOK'
<1>1. JobsOK' /\ FallbackOK'
  BY HolderType, GotoType DEF AuditFinalReview, Others, Pcs
<1>2. QED
  BY <1>1 DEF TypeOK, JobsOK, FallbackOK, AuditFinalReview

LEMMA TypeRecordIntake ==
    ASSUME TypeOK, NEW w \in Workers, RecordIntake(w)
    PROVE  TypeOK'
<1>1. JobsOK' /\ FallbackOK'
  BY HolderType, GotoType DEF RecordIntake, Others, Pcs
<1>2. QED
  BY <1>1 DEF TypeOK, JobsOK, FallbackOK, RecordIntake

LEMMA TypeNotifyStatusChange ==
    ASSUME TypeOK, NEW w \in Workers, NotifyStatusChange(w)
    PROVE  TypeOK'
<1>1. /\ At(w, "notify") /\ Holds(w) /\ Rec(w) \in Records
      /\ job[w].gate = "none"
  BY HolderType DEF NotifyStatusChange, Pcs
<1>2. JobsOK' /\ FallbackOK'
  <2>1. CASE Notified(w) /\ UNCHANGED fallback
    BY <1>1, <2>1, NotifiedType
  <2>2. ASSUME NEW seen,
               Update(w, [Rec(w) EXCEPT !.notified = ClientView(Rec(w), seen)],
                      "send", ClientView(Rec(w), seen))
        PROVE  JobsOK' /\ FallbackOK'
    <3> DEFINE s == ClientView(Rec(w), seen)
    <3>1. s \in Statuses
      BY ClientViewType
    <3>2. [Rec(w) EXCEPT !.notified = s] \in Records
      BY <1>1, <3>1, RecordChanges
    <3>3. s # "none"
      BY <3>1 DEF Statuses
    <3>4. Update(w, [Rec(w) EXCEPT !.notified = s], "send", s)
      BY <2>2
    <3> HIDE DEF s
    <3>5. QED
      BY <1>1, <3>1, <3>2, <3>3, <3>4, UpdateType DEF Pcs
  <2>3. QED
    BY <2>1, <2>2 DEF NotifyStatusChange
<1>3. faults' \in 0 .. MaxFaults
  BY CountersType DEF NotifyStatusChange
<1>4. QED
  BY <1>2, <1>3 DEF TypeOK, JobsOK, FallbackOK, NotifyStatusChange

LEMMA TypeSend ==
    ASSUME TypeOK, NEW w \in Workers, Send(w)
    PROVE  TypeOK'
<1>1. /\ At(w, "send") /\ App(w) \in Apps /\ job[w] \in Jobs /\ job[w] # Idle
  BY HolderType DEF Send, Pcs
<1>2. JobsOK' /\ FallbackOK'
  BY <1>1, NotifiedType DEF Send
<1>3. job[w].status \in Statuses
  <2>1. JobOK(job[w]) /\ job[w].pc = "send"
    BY <1>1 DEF TypeOK, At
  <2>2. QED
    BY <1>1, <2>1, JobChanges DEF JobOK
<1>4. sent' \in [Apps -> Seq(Statuses)]
  <2>1. CASE sent' = sent
    BY <2>1 DEF TypeOK
  <2>2. CASE sent' = [sent EXCEPT ![App(w)] = Append(@, job[w].status)]
    <3>1. sent[App(w)] \in Seq(Statuses)
      BY <1>1 DEF TypeOK
    <3>2. Append(sent[App(w)], job[w].status) \in Seq(Statuses)
      BY <1>3, <3>1, AppendProperties
    <3>3. QED
      BY <1>1, <2>2, <3>2 DEF TypeOK
  <2>3. QED
    BY <2>1, <2>2 DEF Send
<1>5. faults' \in 0 .. MaxFaults
  BY CountersType DEF Send
<1>6. QED
  BY <1>2, <1>4, <1>5 DEF TypeOK, JobsOK, FallbackOK, Send

(* A save that falls back: the others keep the object they had. *)
LEMMA TypeSave ==
    ASSUME TypeOK, NEW w \in Workers, Save(w)
    PROVE  TypeOK'
<1>1. /\ App(w) \in Apps /\ Rec(w) \in Records /\ job[w] \in Jobs
      /\ job[w].docs \in SUBSET Docs
  BY HolderType, JobChanges DEF Save, Pcs
<1>2. kv' \in [Apps -> Records \cup {NoRecord}]
  BY <1>1 DEF Save, TypeOK
<1>3. acked' \in [Apps -> SUBSET Docs]
  BY <1>1 DEF Save, TypeOK
<1>4. JobsOK' /\ FallbackOK'
  <2>1. CASE job' = [job EXCEPT ![w] = Idle] /\ UNCHANGED fallback
    BY <2>1, StartType
  <2>2. CASE /\ fallback' = [fallback EXCEPT ![App(w)] = Rec(w)]
             /\ \A v \in Workers :
                   \/ v = w /\ job'[v] = Idle
                   \/ /\ ~At(v, "idle") /\ job[v].shared /\ App(v) = App(w)
                      /\ job'[v] = [job[v] EXCEPT !.shared = FALSE,
                                                  !.rec = fallback[App(w)]]
                   \/ job'[v] = job[v]
             /\ job' = [v \in Workers |-> job'[v]]
    <3>1. FallbackOK'
      BY <1>1, <2>2 DEF TypeOK, FallbackOK
    <3>2. \A a \in Apps : fallback[a] # NoRecord => fallback'[a] # NoRecord
      BY <1>1, <2>2, NoRecordIsNone DEF TypeOK
    <3>3. ASSUME NEW v \in Workers
          PROVE  /\ job'[v] \in Jobs \cup {Idle}
                 /\ job'[v] # Idle => JobOK(job[v])'
      <4>1. CASE job'[v] = Idle
        BY <4>1
      <4>2. CASE job'[v] = job[v]
        <5>1. job[v] # Idle => JobOK(job[v]) /\ job[v].app \in Apps
          <6>1. ASSUME job[v] # Idle PROVE job[v] \in Jobs
            BY <6>1 DEF TypeOK
          <6>2. QED
            BY <6>1, JobChanges DEF TypeOK
        <5>2. job'[v] \in Jobs \cup {Idle}
          BY <4>2 DEF TypeOK
        <5>3. QED
          BY <3>2, <4>2, <5>1, <5>2 DEF JobOK
      <4>3. CASE /\ ~At(v, "idle") /\ job[v].shared /\ App(v) = App(w)
                 /\ job'[v] = [job[v] EXCEPT !.shared = FALSE,
                                             !.rec = fallback[App(w)]]
        <5>1. job[v] \in Jobs /\ JobOK(job[v])
          BY <4>3, IdleIsNoJob DEF TypeOK, At
        <5>2. fallback[App(w)] \in Records \/ job[v].pc = "find"
          BY <1>1, <4>3, <5>1 DEF JobOK, TypeOK, App
        <5>3. fallback[App(w)] \in Records \cup {NoRecord}
          BY <1>1 DEF TypeOK
        <5>4. job'[v] \in Jobs
          BY <4>3, <5>1, <5>3 DEF Jobs
        <5>5. /\ job'[v].pc = job[v].pc /\ job'[v].gate = job[v].gate
              /\ job'[v].status = job[v].status /\ ~job'[v].shared
              /\ job'[v].rec = fallback[App(w)]
          BY <4>3, <5>1 DEF Jobs
        <5>6. JobOK(job[v])'
          BY <5>1, <5>2, <5>5, NoRecordIsNone DEF JobOK
        <5>7. QED
          BY <5>4, <5>6
      <4>4. QED
        BY <2>2, <4>1, <4>2, <4>3
    <3>4. job' \in [Workers -> Jobs \cup {Idle}]
      BY <2>2, <3>3
    <3>5. QED
      BY <3>1, <3>3, <3>4 DEF JobsOK
  <2>3. QED
    <3>1. CASE job' = [job EXCEPT ![w] = Idle] /\ UNCHANGED fallback
      BY <2>1, <3>1
    <3>2. CASE /\ fallback' = [fallback EXCEPT ![App(w)] = Rec(w)]
               /\ job' = [v \in Workers |->
                     IF v = w THEN Idle
                     ELSE IF ~job[w].shared
                             /\ (IF At(v, "idle") THEN FALSE
                                 ELSE job[v].shared /\ App(v) = App(w))
                     THEN [job[v] EXCEPT !.shared = FALSE, !.rec = fallback[App(w)]]
                     ELSE job[v]]
      BY <2>2, <3>2
    <3>3. QED
      BY <3>1, <3>2 DEF Save
<1>5. faults' \in 0 .. MaxFaults
  BY CountersType DEF Save
<1>6. QED
  BY <1>2, <1>3, <1>4, <1>5 DEF TypeOK, JobsOK, FallbackOK, Save

LEMMA TypeDecide ==
    ASSUME TypeOK, NEW w \in Workers, NEW id \in ReviewIds, Decide(w, id),
           requests' \in 0 .. MaxRequests
    PROVE  TypeOK'
<1>1. PICK d \in Decisions :
        /\ reviews' = [reviews EXCEPT ![id] = d]
        /\ decided' = [decided EXCEPT ![id] = Append(@, d)]
  BY DEF Decide
<1>2. reviews' \in [ReviewIds -> ReviewStates]
  BY <1>1 DEF TypeOK, ReviewStates
<1>3. decided' \in [ReviewIds -> Seq(Decisions)]
  <2>1. decided[id] \in Seq(Decisions)
    BY DEF TypeOK
  <2>2. Append(decided[id], d) \in Seq(Decisions)
    BY <2>1, AppendProperties
  <2>3. QED
    BY <1>1, <2>2 DEF TypeOK
<1> DEFINE base == Job("resolve", "find", id[1], {}, NoRecord, FALSE)
           j == [base EXCEPT !.gate = id[2]]
<1>4. id[1] \in Apps /\ id[2] \in {"KYC", "ONB"}
  BY DEF ReviewIds
<1>5. base \in Jobs /\ base.pc = "find" /\ base.status = "none"
  BY <1>4 DEF Job, Jobs, Pcs
<1>6. j \in Jobs /\ j.pc = "find" /\ j.gate = id[2] /\ j.status = "none"
  <2> HIDE DEF base
  <2>1. QED
    BY <1>4, <1>5 DEF Jobs
<1>7. JobOK(j)
  <2> HIDE DEF j
  <2>1. QED
    BY <1>4, <1>6 DEF JobOK
<1>8. JobsOK' /\ FallbackOK'
  <2>1. job' = [job EXCEPT ![w] = j] \/ job' = job
    BY DEF Decide
  <2>2. fallback' = fallback
    BY DEF Decide
  <2> HIDE DEF j
  <2>3. CASE job' = job
    BY <2>2, <2>3 DEF TypeOK, JobsOK, FallbackOK, JobOK
  <2>4. QED
    BY <1>6, <1>7, <2>1, <2>2, <2>3, StartType
<1>9. faults' \in 0 .. MaxFaults
  BY CountersType DEF Decide
<1>10. QED
  BY <1>2, <1>3, <1>8, <1>9 DEF TypeOK, JobsOK, FallbackOK, Decide

LEMMA TypeFindApplication ==
    ASSUME TypeOK, NEW w \in Workers, FindApplication(w)
    PROVE  TypeOK'
<1> DEFINE a == App(w)
<1>1. a \in Apps
  <2>1. job[w] # Idle
    BY IdleIsNoJob DEF FindApplication, At
  <2>2. QED
    BY <2>1, RecType
<1>2. JobsOK' /\ FallbackOK'
  <2>1. PICK j \in Jobs \cup {Idle} :
           job' = [job EXCEPT ![w] = j] /\ (j # Idle => JobOK(j))
    <3>1. CASE job' = [job EXCEPT ![w] = Idle]
      BY <3>1, IdleIsNoJob
    <3>2. ASSUME NEW r \in Records \cup {NoRecord}, NEW shared \in BOOLEAN,
                 IF shared THEN fallback[a] # NoRecord ELSE r # NoRecord
          PROVE  LET j == Job("resolve", "notify", a, {}, r, shared)
                 IN  j \in Jobs /\ JobOK(j)
      <4> DEFINE j == Job("resolve", "notify", a, {}, r, shared)
      <4>1. /\ j \in Jobs /\ j.pc = "notify" /\ j.app = a /\ j.rec = r
            /\ j.shared = shared /\ j.status = "none" /\ j.gate = "none"
        BY <1>1, JobType DEF Pcs
      <4> HIDE DEF j
      <4>2. JobOK(j)
        BY <3>2, <4>1 DEF JobOK
      <4>3. QED
        BY <4>1, <4>2 DEF j
    <3>3. kv[a] \in Records \cup {NoRecord}
      BY <1>1 DEF TypeOK
    <3>4. CASE kv[a] # NoRecord /\ job' =
              [job EXCEPT ![w] = Job("resolve", "notify", a, {}, kv[a], FALSE)]
      BY <3>2, <3>3, <3>4
    <3>5. CASE fallback[a] # NoRecord /\ job' =
              [job EXCEPT ![w] = Job("resolve", "notify", a, {}, NoRecord, TRUE)]
      BY <3>2, <3>5
    <3>6. QED
      BY <3>1, <3>4, <3>5 DEF FindApplication, Exists
  <2>2. fallback' = fallback
    BY DEF FindApplication
  <2>3. QED
    BY <2>1, <2>2, StartType
<1>3. faults' \in 0 .. MaxFaults
  BY CountersType DEF FindApplication
<1>4. QED
  BY <1>2, <1>3 DEF TypeOK, JobsOK, FallbackOK, FindApplication

LEMMA TypeRestart ==
    ASSUME TypeOK, Restart
    PROVE  TypeOK'
<1>1. restarts' \in 0 .. MaxRestarts
  BY BoundsAssumption DEF BoundsAssumption, TypeOK, Restart
<1>2. QED
  BY <1>1 DEF TypeOK, Restart

LEMMA TypeInit == Init => TypeOK
<1>1. ASSUME Init PROVE TypeOK
  <2>1. \A S : <<>> \in Seq(S)
    BY EmptySeq
  <2>2. /\ kv \in [Apps -> Records \cup {NoRecord}]
        /\ fallback \in [Apps -> Records \cup {NoRecord}]
        /\ reviews \in [ReviewIds -> ReviewStates]
        /\ acked \in [Apps -> SUBSET Docs]
        /\ submitted \in SUBSET Apps
    BY <1>1 DEF Init, ReviewStates
  <2>3. /\ sent \in [Apps -> Seq(Statuses)]
        /\ decided \in [ReviewIds -> Seq(Decisions)]
    BY <1>1, <2>1 DEF Init
  <2>4. /\ job \in [Workers -> Jobs \cup {Idle}]
        /\ \A w \in Workers : job[w] # Idle => JobOK(job[w])
    BY <1>1 DEF Init
  <2>5. /\ requests \in 0 .. MaxRequests /\ faults \in 0 .. MaxFaults
        /\ restarts \in 0 .. MaxRestarts
    BY <1>1, BoundsAssumption DEF Init, BoundsAssumption
  <2>6. QED
    BY <2>2, <2>3, <2>4, <2>5 DEF TypeOK
<1>2. QED
  BY <1>1

LEMMA TypeNext == TypeOK /\ [Next]_vars => TypeOK'
<1>1. SUFFICES ASSUME TypeOK, [Next]_vars PROVE TypeOK'
  OBVIOUS
<1>2. ASSUME NEW w \in Workers, Submit(w) \/ Fetch(w) \/ Advance(w)
      PROVE  TypeOK'
  BY <1>1, <1>2, TypeSubmit, TypeFetch, TypeEscalateKyc, TypeRecordAssessment,
     TypeAddDocuments, TypeEnsureFinalReview, TypeAuditFinalReview,
     TypeRecordIntake, TypeNotifyStatusChange, TypeSend, TypeSave,
     TypeFindApplication DEF Advance
<1>3. ASSUME NEW w \in Workers, NEW id \in ReviewIds, Resolve(w, id)
      PROVE  TypeOK'
  <2>1. requests' \in 0 .. MaxRequests
    BY <1>1, <1>3 DEF Resolve, TypeOK
  <2>2. QED
    BY <1>1, <1>3, <2>1, TypeDecide DEF Resolve
<1>4. ASSUME NEW w \in Workers, NEW id \in ReviewIds, Reconsider(w, id)
      PROVE  TypeOK'
  <2>1. requests' \in 0 .. MaxRequests
    BY <1>1, <1>4, CountersType DEF Reconsider
  <2>2. QED
    BY <1>1, <1>4, <2>1, TypeDecide DEF Reconsider
<1>5. CASE Restart
  BY <1>1, <1>5, TypeRestart
<1>6. CASE UNCHANGED vars
  BY <1>1, <1>6 DEF vars, TypeOK, JobOK
<1>7. QED
  BY <1>1, <1>2, <1>3, <1>4, <1>5, <1>6 DEF Next

(* Type correctness, whatever fails and however often the process dies:    *)
(* in particular a thread past its first read always has a record to work  *)
(* on, though a restart or another thread may have changed _applications.  *)
THEOREM TypeCorrect == Spec => []TypeOK
  BY TypeInit, TypeNext, PTL DEF Spec

-----------------------------------------------------------------------------
(* The final review is filed for complete records only. *)

(* What makes FinalReviewComplete inductive: each version of a record      *)
(* carries a review of its own application, wherever the version is kept.  *)
Whole(a, r) ==
    r # NoRecord =>
        /\ r.review \in {NoReview, <<a, "KYC">>, <<a, "ONB">>}
        /\ r.review = <<a, "ONB">> => r.provided = Docs

RecordsWhole ==
    /\ \A a \in Apps : Whole(a, kv[a]) /\ Whole(a, fallback[a])
    /\ \A w \in Workers : job[w] # Idle => Whole(App(w), job[w].rec)

LEMMA WholeRec ==
    ASSUME TypeOK, RecordsWhole, NEW w \in Workers, job[w] # Idle,
           job[w].pc # "find"
    PROVE  Whole(App(w), Rec(w))
  BY RecType DEF RecordsWhole, Rec

(* One thread's job becomes j, and no record is stored. *)
LEMMA WholeMove ==
    ASSUME TypeOK, RecordsWhole, NEW w \in Workers, kv' = kv,
           fallback' = fallback
    PROVE  \A j \in Jobs \cup {Idle} :
              (j # Idle => Whole(j.app, j.rec)) /\ job' = [job EXCEPT ![w] = j]
                 => RecordsWhole'
<1>1. SUFFICES ASSUME NEW j \in Jobs \cup {Idle}, j # Idle => Whole(j.app, j.rec),
                      job' = [job EXCEPT ![w] = j]
               PROVE  RecordsWhole'
  OBVIOUS
<1>2. ASSUME NEW v \in Workers PROVE job'[v] = IF v = w THEN j ELSE job[v]
  BY <1>1 DEF TypeOK
<1>3. \A v \in Workers : job'[v] # Idle => Whole(App(v), job[v].rec)'
  BY <1>1, <1>2 DEF RecordsWhole, App, Whole
<1>4. QED
  BY <1>3 DEF RecordsWhole, Whole

LEMMA WholeGoto ==
    ASSUME TypeOK, RecordsWhole, NEW w \in Workers, Holds(w), kv' = kv,
           fallback' = fallback
    PROVE  \A pc \in Pcs : Goto(w, pc) => RecordsWhole'
<1>1. SUFFICES ASSUME NEW pc \in Pcs, Goto(w, pc)
               PROVE  RecordsWhole'
  OBVIOUS
<1> DEFINE j == [job[w] EXCEPT !.pc = pc]
<1>2. job[w] \in Jobs /\ job[w] # Idle /\ job' = [job EXCEPT ![w] = j]
  BY <1>1 DEF Holds, TypeOK, Goto
<1>3. j \in Jobs /\ j.app = job[w].app /\ j.rec = job[w].rec
  <2>1. j \in Jobs
    BY <1>2, JobChanges
  <2>2. QED
    BY <1>2, <2>1 DEF Jobs
<1> HIDE DEF j
<1>4. Whole(j.app, j.rec)
  BY <1>2, <1>3 DEF RecordsWhole, App
<1>5. QED
  BY <1>2, <1>3, <1>4, WholeMove

LEMMA WholeNotified ==
    ASSUME TypeOK, RecordsWhole, NEW w \in Workers, Holds(w), kv' = kv,
           fallback' = fallback, Notified(w)
    PROVE  RecordsWhole'
<1> DEFINE j == Moved(job[w], "save", "none")
<1>1. job[w] \in Jobs /\ job[w] # Idle
  BY DEF Holds, TypeOK
<1>2. job' = [job EXCEPT ![w] = IF job[w].kind = "resolve" THEN Idle ELSE j]
  BY <1>1 DEF Notified, Moved, TypeOK
<1>3. j \in Jobs /\ j.app = job[w].app /\ j.rec = job[w].rec
  <2>1. j \in Jobs
    BY <1>1, JobChanges DEF Pcs
  <2>2. QED
    BY <1>1, <2>1 DEF Moved, Jobs
<1> HIDE DEF j
<1>4. Whole(j.app, j.rec)
  BY <1>1, <1>3 DEF RecordsWhole, App
<1>5. QED
  BY <1>2, <1>3, <1>4, WholeMove

LEMMA WholeUpdate ==
    ASSUME TypeOK, RecordsWhole, NEW w \in Workers, Holds(w), kv' = kv
    PROVE  \A r \in Records, pc \in Pcs, status \in Statuses \cup {"none"} :
              Whole(App(w), r) /\ Update(w, r, pc, status) => RecordsWhole'
<1>1. SUFFICES ASSUME NEW r \in Records, NEW pc \in Pcs,
                      NEW status \in Statuses \cup {"none"},
                      Whole(App(w), r), Update(w, r, pc, status)
               PROVE  RecordsWhole'
  OBVIOUS
<1> DEFINE j == Moved(job[w], pc, status)
           k == [j EXCEPT !.rec = r]
<1>2. job[w] \in Jobs /\ job[w] # Idle /\ App(w) \in Apps
  BY RecType DEF Holds
<1>3. j \in Jobs /\ j.app = App(w) /\ j.rec = job[w].rec
  <2>1. j \in Jobs
    BY <1>2, JobChanges
  <2>2. QED
    BY <1>2, <2>1 DEF Moved, Jobs, App
<1>4. k \in Jobs /\ k.app = App(w) /\ k.rec = r
  <2> HIDE DEF j
  <2>1. k \in Jobs
    BY <1>3, JobChanges
  <2>2. QED
    BY <1>3, <2>1 DEF Jobs
<1>5. CASE job[w].shared
  <2>1. /\ fallback' = [fallback EXCEPT ![App(w)] = r]
        /\ job' = [job EXCEPT ![w] = j]
    BY <1>1, <1>5 DEF Update, Moved
  <2> HIDE DEF j, k
  <2>2. ASSUME NEW a \in Apps PROVE Whole(a, kv[a])' /\ Whole(a, fallback[a])'
    <3>1. fallback'[a] = IF a = App(w) THEN r ELSE fallback[a]
      BY <1>2, <2>1 DEF TypeOK
    <3>2. QED
      BY <1>1, <3>1 DEF RecordsWhole, Whole
  <2>3. ASSUME NEW v \in Workers, job'[v] # Idle
        PROVE  Whole(App(v), job[v].rec)'
    <3>1. job'[v] = IF v = w THEN j ELSE job[v]
      BY <1>3, <2>1 DEF TypeOK
    <3>2. Whole(App(w), job[w].rec)
      BY <1>2 DEF RecordsWhole
    <3>3. QED
      BY <1>3, <2>3, <3>1, <3>2 DEF RecordsWhole, App, Whole
  <2>4. QED
    BY <2>2, <2>3 DEF RecordsWhole
<1>6. CASE ~job[w].shared
  <2>1. fallback' = fallback /\ job' = [job EXCEPT ![w] = k]
    BY <1>1, <1>6 DEF Update, Moved
  <2> HIDE DEF k
  <2>2. QED
    BY <1>1, <1>4, <2>1, WholeMove
<1>7. QED
  BY <1>5, <1>6

LEMMA WholeInit == Init => RecordsWhole
  BY DEF Init, RecordsWhole, Whole

LEMMA WholeSubmit ==
    ASSUME TypeOK, TypeOK', RecordsWhole, NEW w \in Workers, Submit(w)
    PROVE  RecordsWhole'
<1>1. PICK a \in Apps, j \in Jobs :
        job' = [job EXCEPT ![w] = j] /\ j.app = a /\ j.rec.review = NoReview
  <2>1. PICK a \in Apps \ submitted, kyc \in {"APPROVED", "PENDING_REVIEW"},
             docs \in SUBSET Docs, email \in BOOLEAN :
          job' = [job EXCEPT ![w] =
              Job("submit", IF kyc = "APPROVED" THEN "assessed" ELSE "escalate",
                  a, docs,
                  [kyc |-> kyc, provided |-> docs, review |-> NoReview,
                   email |-> email, notified |-> "none"], FALSE)]
    BY DEF Submit
  <2> DEFINE r == [kyc |-> kyc, provided |-> docs, review |-> NoReview,
                   email |-> email, notified |-> "none"]
             pc == IF kyc = "APPROVED" THEN "assessed" ELSE "escalate"
             j == Job("submit", pc, a, docs, r, FALSE)
  <2>2. r \in Records /\ pc \in Pcs /\ r.review = NoReview
    BY DEF Records, Pcs
  <2>3. j \in Jobs /\ j.app = a /\ j.rec = r
    <3> HIDE DEF r, pc
    <3>1. QED
      BY <2>2 DEF Job, Jobs
  <2>4. job' = [job EXCEPT ![w] = j]
    BY <2>1
  <2> HIDE DEF j, r
  <2>5. QED
    BY <2>2, <2>3, <2>4
<1>2. Whole(j.app, j.rec)
  BY <1>1 DEF Whole, NoReview
<1>3. QED
  BY <1>1, <1>2, WholeMove DEF Submit

LEMMA WholeEscalateKyc ==
    ASSUME TypeOK, RecordsWhole, NEW w \in Workers, EscalateKyc(w)
    PROVE  RecordsWhole'
<1> DEFINE id == <<App(w), "KYC">>
           r == [Rec(w) EXCEPT !.review = id]
<1>1. Holds(w) /\ Rec(w) \in Records /\ id \in ReviewIds /\ job[w] \in Jobs
  BY HolderType DEF EscalateKyc, Pcs, ReviewIds
<1>2. r \in Records /\ r.review = id
  BY <1>1, RecordChanges DEF Records
<1>3. Whole(App(w), r)
  <2> HIDE DEF r
  <2>1. QED
    BY <1>2 DEF Whole
<1>4. CASE Update(w, r, "assessed", "none")
  <2> HIDE DEF r
  <2>1. QED
    BY <1>1, <1>2, <1>3, <1>4, WholeUpdate DEF EscalateKyc, Pcs
<1>5. CASE Goto(w, "assessed") /\ UNCHANGED fallback
  BY <1>1, <1>5, WholeGoto DEF EscalateKyc, Pcs
<1>6. QED
  BY <1>4, <1>5 DEF EscalateKyc

LEMMA WholeFetch ==
    ASSUME TypeOK, RecordsWhole, NEW w \in Workers, Fetch(w)
    PROVE  RecordsWhole'
<1>1. PICK a \in Apps : \E docs \in SUBSET Docs, r \in {kv[a], NoRecord},
                             shared \in BOOLEAN :
        job' = [job EXCEPT ![w] = Job("upload", "attach", a, docs, r, shared)]
  BY DEF Fetch
<1>2. PICK docs \in SUBSET Docs, r \in {kv[a], NoRecord}, shared \in BOOLEAN :
        job' = [job EXCEPT ![w] = Job("upload", "attach", a, docs, r, shared)]
  BY <1>1
<1> DEFINE j == Job("upload", "attach", a, docs, r, shared)
<1>3. r \in Records \cup {NoRecord}
  BY DEF TypeOK
<1>4. j \in Jobs /\ j.app = a /\ j.rec = r
  BY <1>3, JobType DEF Pcs
<1> HIDE DEF j
<1>5. Whole(j.app, j.rec)
  BY <1>4 DEF RecordsWhole, Whole
<1>6. QED
  BY <1>2, <1>4, <1>5, WholeMove DEF Fetch, j

LEMMA WholeAddDocuments ==
    ASSUME TypeOK, RecordsWhole, NEW w \in Workers, AddDocuments(w)
    PROVE  RecordsWhole'
<1> DEFINE r == [Rec(w) EXCEPT !.provided = @ \cup job[w].docs]
<1>1. /\ Holds(w) /\ Rec(w) \in Records /\ job[w] \in Jobs
      /\ Whole(App(w), Rec(w))
  BY HolderType, WholeRec DEF AddDocuments, Pcs, Holds
<1>2. /\ r \in Records /\ r.review = Rec(w).review
      /\ r.provided = Rec(w).provided \cup job[w].docs
  BY <1>1, RecordChanges, JobChanges DEF Records
<1>3. job[w].docs \in SUBSET Docs
  BY <1>1, JobChanges
<1> HIDE DEF r
<1>4. Whole(App(w), r)
  BY <1>1, <1>2, <1>3, NoRecordIsNone, RecordChanges DEF Whole
<1>5. QED
  BY <1>1, <1>2, <1>4, WholeUpdate DEF AddDocuments, Pcs, r

LEMMA WholeEnsureFinalReview ==
    ASSUME TypeOK, RecordsWhole, NEW w \in Workers, EnsureFinalReview(w)
    PROVE  RecordsWhole'
<1> DEFINE id == <<App(w), "ONB">>
           r == [Rec(w) EXCEPT !.review = id]
<1>1. Holds(w) /\ Rec(w) \in Records /\ id \in ReviewIds
  BY HolderType DEF EnsureFinalReview, Pcs, ReviewIds
<1>2. r \in Records /\ r.review = id /\ r.provided = Rec(w).provided
  BY <1>1, RecordChanges DEF Records
<1>3. CASE Rec(w).provided = Docs /\ Update(w, r, "linked", "none")
  <2> HIDE DEF r
  <2>1. Whole(App(w), r)
    BY <1>2, <1>3 DEF Whole
  <2>2. QED
    BY <1>1, <1>2, <1>3, <2>1, WholeUpdate DEF EnsureFinalReview, Pcs
<1>4. CASE Goto(w, "intake") /\ UNCHANGED fallback
  BY <1>1, <1>4, WholeGoto DEF EnsureFinalReview, Pcs
<1>5. QED
  BY <1>3, <1>4 DEF EnsureFinalReview, Due

LEMMA WholeNotifyStatusChange ==
    ASSUME TypeOK, RecordsWhole, NEW w \in Workers, NotifyStatusChange(w)
    PROVE  RecordsWhole'
<1>1. /\ Holds(w) /\ Rec(w) \in Records /\ Whole(App(w), Rec(w))
  BY HolderType, WholeRec DEF NotifyStatusChange, Pcs, Holds
<1>2. CASE Notified(w) /\ UNCHANGED fallback
  BY <1>1, <1>2, WholeNotified DEF NotifyStatusChange
<1>3. ASSUME NEW seen,
             Update(w, [Rec(w) EXCEPT !.notified = ClientView(Rec(w), seen)],
                    "send", ClientView(Rec(w), seen))
      PROVE  RecordsWhole'
  <2> DEFINE s == ClientView(Rec(w), seen)
             r == [Rec(w) EXCEPT !.notified = s]
  <2>1. s \in Statuses
    BY ClientViewType
  <2>2. Update(w, r, "send", s)
    BY <1>3
  <2> HIDE DEF s
  <2>3. r \in Records /\ r.review = Rec(w).review /\ r.provided = Rec(w).provided
    BY <1>1, <2>1, RecordChanges DEF Records
  <2> HIDE DEF r
  <2>4. Whole(App(w), r)
    BY <1>1, <2>3, NoRecordIsNone DEF Whole
  <2>5. QED
    BY <1>1, <2>1, <2>2, <2>3, <2>4, WholeUpdate DEF NotifyStatusChange, Pcs
<1>4. QED
  BY <1>2, <1>3 DEF NotifyStatusChange

LEMMA WholeSave ==
    ASSUME TypeOK, RecordsWhole, NEW w \in Workers, Save(w)
    PROVE  RecordsWhole'
<1>1. App(w) \in Apps /\ Whole(App(w), Rec(w))
  BY HolderType, WholeRec DEF Save, Pcs, Holds
<1>2. ASSUME NEW a \in Apps PROVE Whole(a, kv[a])' /\ Whole(a, fallback[a])'
  <2>1. kv'[a] = kv[a] \/ (a = App(w) /\ kv'[a] = Rec(w))
    BY <1>1 DEF Save, TypeOK
  <2>2. fallback'[a] = fallback[a] \/ (a = App(w) /\ fallback'[a] = Rec(w))
    BY <1>1 DEF Save, TypeOK
  <2>3. QED
    BY <1>1, <2>1, <2>2 DEF RecordsWhole, Whole
<1>3. ASSUME NEW v \in Workers, job'[v] # Idle
      PROVE  Whole(App(v), job[v].rec)'
  <2>1. \/ job'[v] = job[v]
        \/ /\ ~At(v, "idle") /\ App(v) = App(w)
           /\ job'[v] = [job[v] EXCEPT !.shared = FALSE, !.rec = fallback[App(w)]]
    BY <1>3 DEF Save, TypeOK
  <2>2. CASE job'[v] = job[v]
    BY <1>3, <2>2 DEF RecordsWhole, App, Whole
  <2>3. CASE /\ ~At(v, "idle") /\ App(v) = App(w)
             /\ job'[v] = [job[v] EXCEPT !.shared = FALSE, !.rec = fallback[App(w)]]
    <3>1. job[v] \in Jobs
      BY <2>3, IdleIsNoJob DEF TypeOK, At
    <3>2. job'[v].app = App(w) /\ job'[v].rec = fallback[App(w)]
      BY <2>3, <3>1 DEF Jobs, App
    <3>3. Whole(App(w), fallback[App(w)])
      BY <1>1 DEF RecordsWhole
    <3>4. QED
      BY <3>2, <3>3 DEF App, Whole
  <2>4. QED
    BY <2>1, <2>2, <2>3
<1>4. QED
  BY <1>2, <1>3 DEF RecordsWhole

LEMMA WholeDecide ==
    ASSUME TypeOK, RecordsWhole, NEW w \in Workers, NEW id \in ReviewIds,
           Decide(w, id)
    PROVE  RecordsWhole'
<1> DEFINE base == Job("resolve", "find", id[1], {}, NoRecord, FALSE)
           j == [base EXCEPT !.gate = id[2]]
<1>1. id[1] \in Apps /\ id[2] \in {"KYC", "ONB"}
  BY DEF ReviewIds
<1>2. base \in Jobs /\ base.rec = NoRecord
  BY <1>1 DEF Job, Jobs, Pcs
<1>3. j \in Jobs /\ j.rec = NoRecord
  <2> HIDE DEF base
  <2>1. QED
    BY <1>1, <1>2 DEF Jobs
<1>4. job' = [job EXCEPT ![w] = j] \/ job' = job
  BY DEF Decide
<1>5. kv' = kv /\ fallback' = fallback
  BY DEF Decide
<1> HIDE DEF j
<1>6. Whole(j.app, j.rec)
  BY <1>3 DEF Whole
<1>7. CASE job' = job
  BY <1>5, <1>7 DEF RecordsWhole, App, Whole
<1>8. QED
  BY <1>3, <1>4, <1>5, <1>6, <1>7, WholeMove

LEMMA WholeFindApplication ==
    ASSUME TypeOK, RecordsWhole, NEW w \in Workers, FindApplication(w)
    PROVE  RecordsWhole'
<1> DEFINE a == App(w)
<1>1. a \in Apps
  <2>1. job[w] # Idle
    BY IdleIsNoJob DEF FindApplication, At
  <2>2. QED
    BY <2>1, RecType
<1>2. CASE job' = [job EXCEPT ![w] = Idle]
  BY <1>2, WholeMove DEF FindApplication
<1>3. ASSUME NEW r \in {kv[a], NoRecord}, NEW shared \in BOOLEAN,
             job' = [job EXCEPT ![w] = Job("resolve", "notify", a, {}, r, shared)]
      PROVE  RecordsWhole'
  <2> DEFINE j == Job("resolve", "notify", a, {}, r, shared)
  <2>1. r \in Records \cup {NoRecord}
    BY <1>1 DEF TypeOK
  <2>2. j \in Jobs /\ j.app = a /\ j.rec = r
    BY <1>1, <2>1, JobType DEF Pcs
  <2> HIDE DEF j
  <2>3. Whole(j.app, j.rec)
    BY <1>1, <2>2 DEF RecordsWhole, Whole
  <2>4. QED
    BY <1>3, <2>2, <2>3, WholeMove DEF FindApplication, j
<1>4. QED
  BY <1>2, <1>3 DEF FindApplication

LEMMA WholeNext == TypeOK /\ TypeOK' /\ RecordsWhole /\ [Next]_vars => RecordsWhole'
<1>1. SUFFICES ASSUME TypeOK, TypeOK', RecordsWhole, [Next]_vars
               PROVE  RecordsWhole'
  OBVIOUS
<1>2. ASSUME NEW w \in Workers, Submit(w) \/ Fetch(w) PROVE RecordsWhole'
  BY <1>1, <1>2, WholeSubmit, WholeFetch
<1>3. ASSUME NEW w \in Workers, Advance(w) PROVE RecordsWhole'
  <2>1. CASE RecordAssessment(w)
    <3>1. Holds(w)
      BY <1>1, <2>1, HolderType DEF RecordAssessment, Pcs
    <3>2. QED
      BY <1>1, <2>1, <3>1, WholeGoto DEF RecordAssessment, Pcs
  <2>2. CASE AuditFinalReview(w)
    <3>1. Holds(w)
      BY <1>1, <2>2, HolderType DEF AuditFinalReview, Pcs
    <3>2. QED
      BY <1>1, <2>2, <3>1, WholeGoto DEF AuditFinalReview, Pcs
  <2>3. CASE RecordIntake(w)
    <3>1. Holds(w)
      BY <1>1, <2>3, HolderType DEF RecordIntake, Pcs
    <3>2. QED
      BY <1>1, <2>3, <3>1, WholeGoto DEF RecordIntake, Pcs
  <2>4. CASE Send(w)
    <3>1. Holds(w)
      BY <1>1, <2>4, HolderType DEF Send, Pcs
    <3>2. QED
      BY <1>1, <2>4, <3>1, WholeNotified DEF Send
  <2>5. QED
    BY <1>1, <1>3, <2>1, <2>2, <2>3, <2>4, WholeEscalateKyc, WholeAddDocuments,
       WholeEnsureFinalReview, WholeNotifyStatusChange, WholeSave,
       WholeFindApplication DEF Advance
<1>4. ASSUME NEW w \in Workers, NEW id \in ReviewIds,
             Resolve(w, id) \/ Reconsider(w, id)
      PROVE  RecordsWhole'
  BY <1>1, <1>4, WholeDecide DEF Resolve, Reconsider
<1>5. CASE Restart
  BY <1>1, <1>5 DEF RecordsWhole, Whole, Restart
<1>6. CASE UNCHANGED vars
  BY <1>1, <1>6 DEF vars, RecordsWhole, Whole, App
<1>7. QED
  BY <1>1, <1>2, <1>3, <1>4, <1>5, <1>6 DEF Next

LEMMA WholeImpliesComplete == TypeOK /\ RecordsWhole => FinalReviewComplete
<1>1. SUFFICES ASSUME TypeOK, RecordsWhole, NEW a \in Apps
               PROVE  \A r \in Versions(a) : r.review = <<a, "ONB">> => r.provided = Docs
  BY DEF FinalReviewComplete
<1>2. Whole(a, kv[a]) /\ Whole(a, fallback[a])
  BY <1>1 DEF RecordsWhole
<1>3. ASSUME NEW w \in Workers, ~At(w, "idle"), App(w) = a
      PROVE  Whole(a, job[w].rec)
  <2>1. job[w] # Idle
    BY <1>3, IdleIsNoJob DEF At
  <2>2. QED
    BY <1>1, <1>3, <2>1 DEF RecordsWhole
<1>4. ASSUME NEW r \in Versions(a) PROVE Whole(a, r)
  <2>1. \/ r = kv[a]
        \/ r = fallback[a]
        \/ \E w \in Workers : ~At(w, "idle") /\ App(w) = a /\ r = job[w].rec
    BY DEF Versions
  <2>2. QED
    BY <1>2, <1>3, <2>1 DEF Whole
<1>5. \A r \in Versions(a) : r # NoRecord
  BY DEF Versions
<1>6. QED
  BY <1>4, <1>5 DEF Whole

(* No version of an application, in the store, in the process or in the    *)
(* hands of a thread, carries the final review while a document is missing *)
(* (_ensure_final_review, applications.py:217-220).                        *)
THEOREM FinalReviewIsComplete == Spec => []FinalReviewComplete
<1>1. Spec => [](TypeOK /\ RecordsWhole)
  BY TypeInit, TypeNext, WholeInit, WholeNext, PTL DEF Spec
<1>2. QED
  BY <1>1, WholeImpliesComplete, PTL

-----------------------------------------------------------------------------
(* Maker-checker. *)

(* Some human approved a review of application a. *)
Approved(a) ==
    \E kind \in {"KYC", "ONB"} : \E j \in DOMAIN decided[<<a, kind>>] :
        decided[<<a, kind>>][j] = "approve"

(* What makes MakerChecker inductive: an approval on the queue, or on its  *)
(* way into a mail, is one a human made.                                   *)
QueueOK ==
    \A a \in Apps, kind \in {"KYC", "ONB"} :
        reviews[<<a, kind>>] = "approve" => Approved(a)

MailOK ==
    \A w \in Workers :
        job[w] # Idle /\ job[w].status = "approved" => Approved(App(w))

HumanApproved == QueueOK /\ MailOK /\ MakerChecker

LEMMA HumanInit == Init => HumanApproved
<1>1. ASSUME Init PROVE QueueOK /\ MailOK
  BY <1>1 DEF Init, QueueOK, MailOK, ReviewIds
<1>2. ASSUME Init PROVE MakerChecker
  <2>1. \A a \in Apps : sent[a] = <<>>
    BY <1>2 DEF Init
  <2>2. QED
    BY <2>1 DEF MakerChecker
<1>3. QED
  BY <1>1, <1>2 DEF HumanApproved

(* No step that leaves the mails alone can spoil MakerChecker, once the    *)
(* decisions are kept.                                                     *)
LEMMA SentKeeps ==
    ASSUME HumanApproved, sent' = sent,
           \A a \in Apps : Approved(a) => Approved(a)'
    PROVE  MakerChecker'
<1>1. ASSUME NEW a \in Apps, NEW i \in DOMAIN sent'[a], sent'[a][i] = "approved"
      PROVE  Approved(a)'
  <2>1. Approved(a)
    BY <1>1 DEF HumanApproved, MakerChecker, Approved
  <2>2. QED
    BY <2>1
<1>2. QED
  BY <1>1 DEF MakerChecker, Approved

(* A thread whose status is not "approved" afterwards, or was before.      *)
LEMMA MailKeeps ==
    ASSUME HumanApproved, \A a \in Apps : Approved(a) => Approved(a)',
           TypeOK,
           \A v \in Workers : job'[v] # Idle /\ job'[v].status = "approved" =>
              /\ job[v] # Idle /\ job[v].status = "approved"
              /\ job'[v].app = job[v].app
    PROVE  MailOK'
<1>1. ASSUME NEW v \in Workers, job'[v] # Idle, job'[v].status = "approved"
      PROVE  Approved(App(v))'
  <2>1. /\ job[v] # Idle /\ job[v].status = "approved"
        /\ job'[v].app = job[v].app
    BY <1>1
  <2>2. PICK a \in Apps : a = App(v) /\ a = job'[v].app
    BY <2>1, RecType DEF App
  <2>3. Approved(App(v))
    BY <2>1 DEF HumanApproved, MailOK
  <2>4. Approved(a)
    BY <2>2, <2>3 DEF Approved
  <2>5. Approved(a)'
    BY <2>4
  <2>6. QED
    BY <2>2, <2>5 DEF Approved, App
<1>2. QED
  BY <1>1 DEF MailOK

LEMMA ApprovedFrame ==
    ASSUME decided' = decided
    PROVE  \A a : Approved(a)' <=> Approved(a)
  BY DEF Approved

(* Reviews that are not approved by the step keep QueueOK. *)
LEMMA QueueKeeps ==
    ASSUME HumanApproved, \A a \in Apps : Approved(a) => Approved(a)',
           \A a \in Apps, kind \in {"KYC", "ONB"} :
              reviews'[<<a, kind>>] = "approve" => reviews[<<a, kind>>] = "approve"
    PROVE  QueueOK'
<1>1. ASSUME NEW a \in Apps, NEW kind \in {"KYC", "ONB"},
             reviews'[<<a, kind>>] = "approve"
      PROVE  Approved(a)'
  <2>1. Approved(a)
    BY <1>1 DEF HumanApproved, QueueOK
  <2>2. QED
    BY <2>1
<1>2. QED
  BY <1>1 DEF QueueOK

(* The steps that only move a thread or change records: no decision, no    *)
(* mail, and no review but to pending.                                     *)
LEMMA HumanFrame ==
    ASSUME TypeOK, HumanApproved, decided' = decided, sent' = sent,
           reviews' = reviews \/ \E id \in ReviewIds : AddReview(id),
           \A v \in Workers : job'[v] # Idle /\ job'[v].status = "approved" =>
              /\ job[v] # Idle /\ job[v].status = "approved"
              /\ job'[v].app = job[v].app
    PROVE  HumanApproved'
<1>1. \A a \in Apps : Approved(a) => Approved(a)'
  BY ApprovedFrame
<1>2. \A a \in Apps, kind \in {"KYC", "ONB"} :
         reviews'[<<a, kind>>] = "approve" => reviews[<<a, kind>>] = "approve"
  BY DEF AddReview, ReviewIds, TypeOK
<1>3. QED
  BY <1>1, <1>2, SentKeeps, MailKeeps, QueueKeeps DEF HumanApproved

(* What the helpers do to the statuses of the threads. *)
StatusKept ==
    \A v \in Workers : job'[v] # Idle /\ job'[v].status = "approved" =>
        job[v] # Idle /\ job[v].status = "approved" /\ job'[v].app = job[v].app

LEMMA StartKeepsStatus ==
    ASSUME TypeOK, NEW w \in Workers
    PROVE  \A j : (j = Idle \/ j.status = "none") /\ job' = [job EXCEPT ![w] = j]
                     => StatusKept
<1>1. SUFFICES ASSUME NEW j, j = Idle \/ j.status = "none",
                      job' = [job EXCEPT ![w] = j]
               PROVE  StatusKept
  OBVIOUS
<1>2. \A v \in Workers : job'[v] = IF v = w THEN j ELSE job[v]
  BY <1>1 DEF TypeOK
<1>3. QED
  BY <1>1, <1>2 DEF StatusKept

LEMMA GotoKeepsStatus ==
    ASSUME TypeOK, NEW w \in Workers, job[w] # Idle, NEW pc, Goto(w, pc)
    PROVE  StatusKept
<1> DEFINE j == [job[w] EXCEPT !.pc = pc]
<1>1. job[w] \in Jobs /\ job' = [job EXCEPT ![w] = j]
  BY DEF TypeOK, Goto
<1>2. j.app = job[w].app /\ j.status = job[w].status
  BY <1>1 DEF Jobs
<1> HIDE DEF j
<1>3. \A v \in Workers : job'[v] = IF v = w THEN j ELSE job[v]
  BY <1>1 DEF TypeOK
<1>4. QED
  BY <1>2, <1>3 DEF StatusKept

(* Update and Notified leave the thread with the status they are given.    *)
LEMMA UpdateSets ==
    ASSUME TypeOK, NEW w \in Workers, job[w] # Idle
    PROVE  \A r, pc, status : Update(w, r, pc, status) =>
              \A v \in Workers :
                 IF v = w THEN job'[v].status = status /\ job'[v].app = job[w].app
                 ELSE job'[v] = job[v]
<1>0. SUFFICES ASSUME NEW r, NEW pc, NEW status, Update(w, r, pc, status)
               PROVE  \A v \in Workers :
                  IF v = w THEN job'[v].status = status /\ job'[v].app = job[w].app
                  ELSE job'[v] = job[v]
  OBVIOUS
<1> DEFINE j == [job[w] EXCEPT !.pc = pc, !.status = status]
           k == [j EXCEPT !.rec = r]
<1>1. job[w] \in Jobs
  BY DEF TypeOK
<1>2. j.status = status /\ j.app = job[w].app
  BY <1>1 DEF Jobs
<1>3. k.status = status /\ k.app = job[w].app
  BY <1>1 DEF Jobs
<1>4. job' = [job EXCEPT ![w] = j] \/ job' = [job EXCEPT ![w] = k]
  BY <1>0 DEF Update
<1> HIDE DEF j, k
<1>5. QED
  BY <1>2, <1>3, <1>4 DEF TypeOK

LEMMA NotifiedKeepsStatus ==
    ASSUME TypeOK, NEW w \in Workers, job[w] # Idle, Notified(w)
    PROVE  StatusKept
<1> DEFINE j == [job[w] EXCEPT !.pc = "save", !.status = "none"]
<1>1. job[w] \in Jobs
  BY DEF TypeOK
<1>2. job' = [job EXCEPT ![w] = IF job[w].kind = "resolve" THEN Idle ELSE j]
  BY <1>1 DEF Notified, TypeOK
<1>3. j.status = "none"
  BY <1>1 DEF Jobs
<1> HIDE DEF j
<1>4. QED
  BY <1>2, <1>3, StartKeepsStatus

LEMMA HumanSubmit ==
    ASSUME TypeOK, HumanApproved, NEW w \in Workers, Submit(w)
    PROVE  HumanApproved'
<1>1. StatusKept
  <2>1. PICK j : j.status = "none" /\ job' = [job EXCEPT ![w] = j]
    BY DEF Submit, Job
  <2>2. QED
    BY <2>1, StartKeepsStatus
<1>2. QED
  BY <1>1, HumanFrame DEF StatusKept, Submit

LEMMA HumanEscalateKyc ==
    ASSUME TypeOK, HumanApproved, NEW w \in Workers, EscalateKyc(w)
    PROVE  HumanApproved'
<1>1. job[w] # Idle /\ job[w].status = "none" /\ App(w) \in Apps
  BY HolderType DEF EscalateKyc, Pcs
<1>2. reviews' = reviews \/ \E id \in ReviewIds : AddReview(id)
  BY <1>1 DEF EscalateKyc, ReviewIds
<1>3. StatusKept
  <2>1. CASE Goto(w, "assessed")
    BY <1>1, <2>1, GotoKeepsStatus
  <2>2. CASE Update(w, [Rec(w) EXCEPT !.review = <<App(w), "KYC">>], "assessed", "none")
    BY <1>1, <2>2, UpdateSets DEF StatusKept
  <2>3. QED
    BY <2>1, <2>2 DEF EscalateKyc
<1>4. QED
  BY <1>2, <1>3, HumanFrame DEF StatusKept, EscalateKyc

LEMMA HumanEnsureFinalReview ==
    ASSUME TypeOK, HumanApproved, NEW w \in Workers, EnsureFinalReview(w)
    PROVE  HumanApproved'
<1>1. job[w] # Idle /\ job[w].status = "none" /\ App(w) \in Apps
  BY HolderType DEF EnsureFinalReview, Pcs
<1>2. reviews' = reviews \/ \E id \in ReviewIds : AddReview(id)
  BY <1>1 DEF EnsureFinalReview, ReviewIds
<1>3. StatusKept
  <2>1. CASE Goto(w, "intake")
    BY <1>1, <2>1, GotoKeepsStatus
  <2>2. CASE Update(w, [Rec(w) EXCEPT !.review = <<App(w), "ONB">>], "linked", "none")
    BY <1>1, <2>2, UpdateSets DEF StatusKept
  <2>3. QED
    BY <2>1, <2>2 DEF EnsureFinalReview
<1>4. QED
  BY <1>2, <1>3, HumanFrame DEF StatusKept, EnsureFinalReview

LEMMA HumanFetch ==
    ASSUME TypeOK, HumanApproved, NEW w \in Workers, Fetch(w)
    PROVE  HumanApproved'
<1>1. StatusKept
  <2>1. PICK j : j.status = "none" /\ job' = [job EXCEPT ![w] = j]
    BY DEF Fetch, Job
  <2>2. QED
    BY <2>1, StartKeepsStatus
<1>2. QED
  BY <1>1, HumanFrame DEF StatusKept, Fetch

LEMMA HumanAddDocuments ==
    ASSUME TypeOK, HumanApproved, NEW w \in Workers, AddDocuments(w)
    PROVE  HumanApproved'
<1>1. job[w] # Idle
  BY HolderType DEF AddDocuments, Pcs
<1>2. StatusKept
  BY <1>1, UpdateSets DEF AddDocuments, StatusKept
<1>3. QED
  BY <1>2, HumanFrame DEF StatusKept, AddDocuments

LEMMA HumanFindApplication ==
    ASSUME TypeOK, HumanApproved, NEW w \in Workers, FindApplication(w)
    PROVE  HumanApproved'
<1>1. StatusKept
  <2>1. PICK j : (j = Idle \/ j.status = "none") /\ job' = [job EXCEPT ![w] = j]
    <3>1. \/ job' = [job EXCEPT ![w] = Idle]
          \/ \E r, shared : job' = [job EXCEPT ![w] =
                Job("resolve", "notify", App(w), {}, r, shared)]
      BY DEF FindApplication
    <3>2. QED
      BY <3>1 DEF Job
  <2>2. QED
    BY <2>1, StartKeepsStatus
<1>2. QED
  BY <1>1, HumanFrame DEF StatusKept, FindApplication

LEMMA HumanSave ==
    ASSUME TypeOK, HumanApproved, NEW w \in Workers, Save(w)
    PROVE  HumanApproved'
<1>1. ASSUME NEW v \in Workers, job'[v] # Idle, job'[v].status = "approved"
      PROVE  job[v] # Idle /\ job[v].status = "approved" /\ job'[v].app = job[v].app
  <2>1. \/ job'[v] = job[v]
        \/ /\ ~At(v, "idle")
           /\ job'[v] = [job[v] EXCEPT !.shared = FALSE, !.rec = fallback[App(w)]]
    BY <1>1 DEF Save, TypeOK
  <2>2. CASE job'[v] = job[v]
    BY <1>1, <2>2
  <2>3. CASE /\ ~At(v, "idle")
             /\ job'[v] = [job[v] EXCEPT !.shared = FALSE, !.rec = fallback[App(w)]]
    <3>1. job[v] \in Jobs /\ job[v] # Idle
      BY <2>3, IdleIsNoJob DEF TypeOK, At
    <3>2. job'[v].status = job[v].status /\ job'[v].app = job[v].app
      BY <2>3, <3>1 DEF Jobs
    <3>3. QED
      BY <1>1, <3>1, <3>2
  <2>4. QED
    BY <2>1, <2>2, <2>3
<1>2. QED
  BY <1>1, HumanFrame DEF Save

(* An approval is mailed only when the queue said so. *)
LEMMA HumanNotifyStatusChange ==
    ASSUME TypeOK, RecordsWhole, HumanApproved, NEW w \in Workers,
           NotifyStatusChange(w)
    PROVE  HumanApproved'
<1>1. /\ job[w] # Idle /\ App(w) \in Apps /\ Rec(w) \in Records
      /\ Whole(App(w), Rec(w))
  BY HolderType, WholeRec DEF NotifyStatusChange, Pcs, Holds
<1>2. \A a \in Apps : Approved(a) => Approved(a)'
  BY ApprovedFrame DEF NotifyStatusChange
<1>3. CASE Notified(w)
  <2>1. StatusKept
    BY <1>1, <1>3, NotifiedKeepsStatus
  <2>2. QED
    BY <2>1, HumanFrame DEF StatusKept, NotifyStatusChange
<1>4. ASSUME NEW seen \in {ReviewState(Rec(w)), "absent"},
             Update(w, [Rec(w) EXCEPT !.notified = ClientView(Rec(w), seen)],
                    "send", ClientView(Rec(w), seen))
      PROVE  HumanApproved'
  <2>1. \A v \in Workers :
           IF v = w THEN /\ job'[v].status = ClientView(Rec(w), seen)
                         /\ job'[v].app = job[w].app
           ELSE job'[v] = job[v]
    BY <1>1, <1>4, UpdateSets
  <2>2. ASSUME ClientView(Rec(w), seen) = "approved" PROVE Approved(App(w))
    <3>1. seen = "approve"
      BY <2>2 DEF ClientView
    <3>2. Rec(w).review # NoReview /\ reviews[Rec(w).review] = "approve"
      BY <3>1 DEF ReviewState
    <3>3. PICK kind \in {"KYC", "ONB"} : Rec(w).review = <<App(w), kind>>
      BY <1>1, <3>2, NoRecordIsNone DEF Whole
    <3>4. QED
      BY <1>1, <3>2, <3>3 DEF HumanApproved, QueueOK
  <2>3. ASSUME NEW v \in Workers, job'[v] # Idle, job'[v].status = "approved"
        PROVE  Approved(App(v))'
    <3>1. PICK a \in Apps : a = job'[v].app /\ Approved(a)
      <4>1. CASE v = w
        BY <1>1, <2>1, <2>2, <2>3, <4>1 DEF App
      <4>2. CASE v # w
        <5>1. job'[v] = job[v]
          BY <2>1, <4>2
        <5>2. App(v) \in Apps /\ Approved(App(v))
          BY <2>3, <5>1, RecType DEF HumanApproved, MailOK
        <5>3. QED
          BY <5>1, <5>2 DEF App
      <4>3. QED
        BY <4>1, <4>2
    <3>2. Approved(a)'
      BY <1>2, <3>1
    <3>3. QED
      BY <3>1, <3>2 DEF Approved, App
  <2>4. MailOK'
    BY <2>3 DEF MailOK
  <2>5. MakerChecker' /\ QueueOK'
    BY <1>2, SentKeeps, QueueKeeps DEF NotifyStatusChange
  <2>6. QED
    BY <2>4, <2>5 DEF HumanApproved
<1>5. QED
  BY <1>3, <1>4 DEF NotifyStatusChange

LEMMA HumanSend ==
    ASSUME TypeOK, HumanApproved, NEW w \in Workers, Send(w)
    PROVE  HumanApproved'
<1>1. /\ job[w] # Idle /\ App(w) \in Apps
  BY HolderType DEF Send, Pcs
<1>2. \A a \in Apps : Approved(a) => Approved(a)'
  BY ApprovedFrame DEF Send
<1>3. MailOK'
  <2>1. StatusKept
    BY <1>1, NotifiedKeepsStatus DEF Send
  <2>2. QED
    BY <1>2, <2>1, MailKeeps DEF StatusKept
<1>4. QueueOK'
  BY <1>2, QueueKeeps DEF Send
<1>5. ASSUME NEW a \in Apps, NEW i \in DOMAIN sent'[a], sent'[a][i] = "approved"
      PROVE  Approved(a)'
  <2>1. CASE i \in DOMAIN sent[a] /\ sent'[a][i] = sent[a][i]
    <3>1. Approved(a)
      BY <1>5, <2>1 DEF HumanApproved, MakerChecker, Approved
    <3>2. QED
      BY <1>2, <3>1
  <2>2. CASE a = App(w) /\ sent'[a][i] = job[w].status
    <3>1. Approved(a)
      BY <1>1, <1>5, <2>2 DEF HumanApproved, MailOK
    <3>2. QED
      BY <1>2, <3>1
  <2>3. (i \in DOMAIN sent[a] /\ sent'[a][i] = sent[a][i])
            \/ (a = App(w) /\ sent'[a][i] = job[w].status)
    <3>1. sent[a] \in Seq(Statuses)
      BY DEF TypeOK
    <3>2. CASE sent'[a] = sent[a]
      BY <3>2
    <3>3. CASE a = App(w) /\ sent'[a] = Append(sent[a], job[w].status)
      <4>1. i \in 1 .. Len(sent[a]) + 1 /\ DOMAIN sent[a] = 1 .. Len(sent[a])
        BY <3>1, <3>3, LenProperties
      <4>2. QED
        BY <3>1, <3>3, <4>1, LenProperties
    <3>4. QED
      BY <1>1, <3>2, <3>3 DEF Send, TypeOK
  <2>4. QED
    BY <2>1, <2>2, <2>3
<1>6. MakerChecker'
  BY <1>5 DEF MakerChecker, Approved
<1>7. QED
  BY <1>3, <1>4, <1>6 DEF HumanApproved

LEMMA HumanDecide ==
    ASSUME TypeOK, HumanApproved, NEW w \in Workers, NEW id \in ReviewIds,
           Decide(w, id)
    PROVE  HumanApproved'
<1>1. PICK d \in Decisions :
        /\ reviews' = [reviews EXCEPT ![id] = d]
        /\ decided' = [decided EXCEPT ![id] = Append(@, d)]
  BY DEF Decide
<1>2. PICK b \in Apps, k \in {"KYC", "ONB"} : id = <<b, k>>
  BY DEF ReviewIds
<1>3. decided[id] \in Seq(Decisions) /\ Len(decided[id]) \in Nat
  BY LenProperties DEF TypeOK
<1>4. \A a \in Apps : Approved(a) => Approved(a)'
  <2>1. ASSUME NEW a \in Apps, NEW kind \in {"KYC", "ONB"},
               NEW j \in DOMAIN decided[<<a, kind>>],
               decided[<<a, kind>>][j] = "approve"
        PROVE  /\ j \in DOMAIN decided'[<<a, kind>>]
               /\ decided'[<<a, kind>>][j] = "approve"
    <3>1. CASE <<a, kind>> # id
      BY <1>1, <2>1, <3>1 DEF TypeOK
    <3>2. CASE <<a, kind>> = id
      <4>1. decided'[<<a, kind>>] = Append(decided[id], d)
        BY <1>1, <3>2 DEF TypeOK
      <4>2. j \in 1 .. Len(decided[id])
        BY <1>3, <2>1, <3>2
      <4>3. /\ j \in 1 .. Len(Append(decided[id], d))
            /\ Append(decided[id], d)[j] = decided[id][j]
            /\ Append(decided[id], d) \in Seq(Decisions)
        BY <1>3, <4>2, AppendProperties
      <4>4. QED
        BY <2>1, <3>2, <4>1, <4>3, LenProperties
    <3>3. QED
      BY <3>1, <3>2
  <2>2. QED
    BY <2>1 DEF Approved
<1>5. d = "approve" => Approved(b)'
  <2>1. decided'[<<b, k>>] = Append(decided[id], d)
    BY <1>1, <1>2 DEF TypeOK
  <2>2. /\ Len(decided[id]) + 1 \in DOMAIN decided'[<<b, k>>]
        /\ decided'[<<b, k>>][Len(decided[id]) + 1] = d
    BY <1>3, <2>1
  <2>3. QED
    BY <2>2 DEF Approved
<1>6. QueueOK'
  <2>1. ASSUME NEW a \in Apps, NEW kind \in {"KYC", "ONB"},
               reviews'[<<a, kind>>] = "approve"
        PROVE  Approved(a)'
    <3>1. CASE <<a, kind>> = id
      <4>1. a = b /\ d = "approve"
        BY <1>1, <1>2, <2>1, <3>1 DEF TypeOK
      <4>2. QED
        BY <1>5, <4>1
    <3>2. CASE <<a, kind>> # id
      <4>1. reviews[<<a, kind>>] = "approve"
        BY <1>1, <2>1, <3>2 DEF TypeOK, ReviewIds
      <4>2. Approved(a)
        BY <4>1 DEF HumanApproved, QueueOK
      <4>3. QED
        BY <1>4, <4>2
    <3>3. QED
      BY <3>1, <3>2
  <2>2. QED
    BY <2>1 DEF QueueOK
<1>7. MailOK'
  <2>1. StatusKept
    <3> DEFINE base == Job("resolve", "find", id[1], {}, NoRecord, FALSE)
               j == [base EXCEPT !.gate = id[2]]
    <3>1. job' = [job EXCEPT ![w] = j] \/ job' = job
      BY DEF Decide
    <3>2. j.status = "none"
      BY DEF Job
    <3> HIDE DEF j
    <3>3. QED
      BY <3>1, <3>2, StartKeepsStatus DEF StatusKept
  <2>2. QED
    BY <1>4, <2>1, MailKeeps DEF StatusKept
<1>8. MakerChecker'
  BY <1>4, SentKeeps DEF Decide
<1>9. QED
  BY <1>6, <1>7, <1>8 DEF HumanApproved

LEMMA HumanNext ==
    TypeOK /\ RecordsWhole /\ HumanApproved /\ [Next]_vars => HumanApproved'
<1>1. SUFFICES ASSUME TypeOK, RecordsWhole, HumanApproved, [Next]_vars
               PROVE  HumanApproved'
  OBVIOUS
<1>2. ASSUME NEW w \in Workers, Submit(w) \/ Fetch(w) PROVE HumanApproved'
  BY <1>1, <1>2, HumanSubmit, HumanFetch
<1>3. ASSUME NEW w \in Workers, Advance(w) PROVE HumanApproved'
  <2>1. ASSUME NEW pc \in {"assessed", "linked", "intake"}, At(w, pc),
               NEW to, Goto(w, to), UNCHANGED <<reviews, sent, decided>>
        PROVE  HumanApproved'
    <3>1. job[w] # Idle
      BY <1>1, <2>1, HolderType DEF Pcs
    <3>2. StatusKept
      BY <1>1, <2>1, <3>1, GotoKeepsStatus
    <3>3. QED
      BY <1>1, <2>1, <3>2, HumanFrame DEF StatusKept
  <2>2. CASE RecordAssessment(w)
    BY <2>1, <2>2 DEF RecordAssessment
  <2>3. CASE AuditFinalReview(w)
    BY <2>1, <2>3 DEF AuditFinalReview
  <2>4. CASE RecordIntake(w)
    BY <2>1, <2>4 DEF RecordIntake
  <2>5. QED
    BY <1>1, <1>3, <2>2, <2>3, <2>4, HumanEscalateKyc, HumanAddDocuments,
       HumanEnsureFinalReview, HumanNotifyStatusChange, HumanSend, HumanSave,
       HumanFindApplication DEF Advance
<1>4. ASSUME NEW w \in Workers, NEW id \in ReviewIds,
             Resolve(w, id) \/ Reconsider(w, id)
      PROVE  HumanApproved'
  BY <1>1, <1>4, HumanDecide DEF Resolve, Reconsider
<1>5. CASE Restart
  <2>1. StatusKept
    BY <1>5 DEF Restart, StatusKept
  <2>2. QED
    BY <1>1, <1>5, <2>1, HumanFrame DEF StatusKept, Restart
<1>6. CASE UNCHANGED vars
  <2>1. job' = job
    BY <1>6 DEF vars
  <2>2. StatusKept
    BY <2>1 DEF StatusKept
  <2>3. QED
    BY <1>1, <1>6, <2>2, HumanFrame DEF StatusKept, vars
<1>7. QED
  BY <1>1, <1>2, <1>3, <1>4, <1>5, <1>6 DEF Next

(* No client is mailed an approval that no human made: not when threads    *)
(* race on one application, not when calls fail, not after a restart.      *)
THEOREM ApprovalIsHuman == Spec => []MakerChecker
<1>1. Spec => [](TypeOK /\ RecordsWhole /\ HumanApproved)
  BY TypeInit, TypeNext, WholeInit, WholeNext, HumanInit, HumanNext, PTL DEF Spec
<1>2. HumanApproved => MakerChecker
  BY DEF HumanApproved
<1>3. QED
  BY <1>1, <1>2, PTL
=============================================================================
