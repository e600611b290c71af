------------------------- MODULE ClientApplications -------------------------
(***************************************************************************)
(* The life of a client application (app/services/applications.py), from   *)
(* the portal's submission through screening, uploads and human review to  *)
(* the decision the client is told.                                        *)
(*                                                                         *)
(* Three HTTP handlers of api.py run on a pool of threads and share, with  *)
(* no lock and no transaction, the application records of the key/value    *)
(* collection, the review queue and the audit trail: client_apply,         *)
(* client_submit_documents and resolve_review. Each reads a whole record,  *)
(* works on its own copy and writes the whole record back.                 *)
(*                                                                         *)
(* The store is the shared one of a deployment (Neo4j): it survives the    *)
(* process, and a call to it may raise, before or after it took effect.    *)
(* Records that could not be saved stay in the process, in _applications.  *)
(***************************************************************************)
EXTENDS Integers, Sequences

CONSTANTS
    Apps,         \* application ids, a fresh one per submission
    Docs,         \* the keys of REQUIRED_DOCUMENTS
    Workers,      \* request threads
    MaxRequests,  \* bound: submissions, uploads and changes of a decision
    MaxFaults,    \* bound: calls to the store or the mailer that raise
    MaxRestarts   \* bound: process restarts

ASSUME BoundsAssumption ==
    /\ MaxRequests \in Nat
    /\ MaxFaults \in Nat
    /\ MaxRestarts \in Nat

VARIABLES
    kv,        \* the store's "Application" collection
    fallback,  \* _applications, the dict of this process
    reviews,   \* the store's review queue: the state of each review
    audit,     \* the events of the audit trail
    job,       \* the request each thread serves, with its locals
    sent,      \* history: the statuses each client was mailed
    decided,   \* history: the decisions reviewers made
    acked,     \* history: the documents of requests that were answered
    submitted, \* history: the application ids handed out
    requests, faults, restarts

vars == <<kv, fallback, reviews, audit, job, sent, decided, acked, submitted,
          requests, faults, restarts>>

-----------------------------------------------------------------------------
(* Records, reviews and what a client sees of them. *)

(* REV-KYC-<id> is filed by the screening, REV-ONB-<id> is the final review.*)
ReviewIds == Apps \X {"KYC", "ONB"}
NoReview == <<>>

(* Any decision but an approval reads as a refusal. *)
Decisions == {"approve", "reject"}
ReviewStates == {"absent", "pending"} \cup Decisions

Statuses == {"additional_documents_needed", "under_review", "approved", "declined"}

Records == [kyc : {"APPROVED", "PENDING_REVIEW"}, provided : SUBSET Docs,
            review : ReviewIds \cup {NoReview}, email : BOOLEAN,
            notified : Statuses \cup {"none"}]

NoRecord == [kyc |-> "none"]

(* _review_state *)
ReviewState(r) == IF r.review = NoReview THEN "absent" ELSE reviews[r.review]

(* Mutant: a complete, clean application is approved if no review is found.*)
ClientViewAutomatic(r, seen) ==
    CASE seen = "approve" -> "approved"
      [] seen = "reject"  -> "declined"
      [] seen = "absent" /\ r.provided = Docs /\ r.kyc = "APPROVED" -> "approved"
      [] seen = "absent" /\ r.provided # Docs /\ r.kyc # "PENDING_REVIEW" ->
            "additional_documents_needed"
      [] OTHER -> "under_review"

(* client_view: the status of record r when its review reads as "seen" *)
ClientView(r, seen) ==
    CASE seen = "approve" -> "approved"
      [] seen = "reject"  -> "declined"
      [] seen = "absent" /\ r.provided # Docs /\ r.kyc # "PENDING_REVIEW" ->
            "additional_documents_needed"
      [] OTHER -> "under_review"

(* Mutants: a file need not be complete; a review need not be the only one;*)
(* only a submission is put up for review.                                 *)
DueAnyFile(r) == r.review = NoReview
DueAgain(r) == r.provided = Docs
DueAtFirst(r) == r.review = NoReview /\ r.provided = Docs /\ r.notified = "none"

(* _ensure_final_review: neither of its early returns applies *)
Due(r) == r.review = NoReview /\ r.provided = Docs

(* Mutant: a client is mailed once.                                        *)
IsNewsOnce(r, status) == r.notified = "none"

(* notify_status_change: the status differs from the last one notified *)
IsNews(r, status) == status # r.notified

(* Mutant: the handler does not answer 404. *)
ExistsUnchecked(records, a) == TRUE

Exists(records, a) == records[a] # NoRecord

-----------------------------------------------------------------------------
(* Requests. A thread works on a copy of the record, unless it got it from *)
(* _applications: then it shares the object with that dict.                *)

Idle == [pc |-> "idle"]

Job(kind, pc, a, docs, r, shared) ==
    [kind |-> kind, pc |-> pc, app |-> a, docs |-> docs, rec |-> r,
     shared |-> shared, status |-> "none", gate |-> "none"]

At(w, pc) == job[w].pc = pc
App(w) == job[w].app
Rec(w) == IF job[w].shared THEN fallback[App(w)] ELSE job[w].rec

Goto(w, pc) == job' = [job EXCEPT ![w].pc = pc]

(* The thread changes its record to r, on the way to pc. *)
Update(w, r, pc, status) ==
    LET j == [job[w] EXCEPT !.pc = pc, !.status = status]
    IN  IF job[w].shared
        THEN /\ fallback' = [fallback EXCEPT ![App(w)] = r]
             /\ job' = [job EXCEPT ![w] = j]
        ELSE /\ job' = [job EXCEPT ![w] = [j EXCEPT !.rec = r]]
             /\ UNCHANGED fallback

Works == UNCHANGED faults
Raises == faults < MaxFaults /\ faults' = faults + 1

Counted == requests < MaxRequests /\ requests' = requests + 1

(* add_review upserts: whatever state the review had, it is pending again. *)
AddReview(id) == reviews' = [reviews EXCEPT ![id] = "pending"]

Init ==
    /\ kv = [a \in Apps |-> NoRecord]
    /\ fallback = [a \in Apps |-> NoRecord]
    /\ reviews = [id \in ReviewIds |-> "absent"]
    /\ audit = {}
    /\ job = [w \in Workers |-> Idle]
    /\ sent = [a \in Apps |-> <<>>]
    /\ decided = [id \in ReviewIds |-> <<>>]
    /\ acked = [a \in Apps |-> {}]
    /\ submitted = {}
    /\ requests = 0 /\ faults = 0 /\ restarts = 0

-----------------------------------------------------------------------------
(* POST /api/client/apply: submit_application runs the onboarding agent    *)
(* first. Screening flags the client or not; a flagged one is escalated.   *)
Submit(w) ==
    /\ At(w, "idle")
    /\ Counted
    /\ \E a \in Apps \ submitted, kyc \in {"APPROVED", "PENDING_REVIEW"},
          docs \in SUBSET Docs, email \in BOOLEAN :
          /\ submitted' = submitted \cup {a}
          /\ job' = [job EXCEPT ![w] =
                Job("submit", IF kyc = "APPROVED" THEN "assessed" ELSE "escalate",
                    a, docs,
                    [kyc |-> kyc, provided |-> docs, review |-> NoReview,
                     email |-> email, notified |-> "none"], FALSE)]
    /\ UNCHANGED <<kv, fallback, reviews, audit, sent, decided, acked, faults,
                   restarts>>

(* _escalate_if_needed: a call that raises leaves the record without an id *)
EscalateKyc(w) ==
    LET id == <<App(w), "KYC">>
    IN  /\ At(w, "escalate")
        /\ \/ Works /\ AddReview(id)
              /\ Update(w, [Rec(w) EXCEPT !.review = id], "assessed", "none")
           \/ Raises /\ (AddReview(id) \/ UNCHANGED reviews)
              /\ Goto(w, "assessed") /\ UNCHANGED fallback
        /\ UNCHANGED <<kv, audit, sent, decided, acked, submitted, requests,
                       restarts>>

(* _persist_record audits the assessment and publishes the escalation; the *)
(* bus calls _audit_escalation on this same thread.                        *)
RecordAssessment(w) ==
    /\ At(w, "assessed")
    /\ audit' = audit \cup {<<"onboarding_assessment", App(w)>>}
                \cup {<<"review_escalated", id>> : id \in {Rec(w).review} \ {NoReview}}
    /\ Goto(w, "review")
    /\ UNCHANGED <<kv, fallback, reviews, sent, decided, acked, submitted,
                   requests, faults, restarts>>

(* POST /api/client/documents: get_application looks in the store, then, on*)
(* a miss or an exception, in _applications.                               *)
Fetch(w) ==
    /\ At(w, "idle")
    /\ Counted
    /\ \E a \in Apps, docs \in (SUBSET Docs) \ {{}} :
          \/ /\ Works /\ Exists(kv, a)
             /\ job' = [job EXCEPT ![w] = Job("upload", "attach", a, docs, kv[a], FALSE)]
          \/ /\ (Works /\ ~Exists(kv, a)) \/ Raises
             /\ Exists(fallback, a)
             /\ job' = [job EXCEPT ![w] = Job("upload", "attach", a, docs, NoRecord, TRUE)]
    /\ UNCHANGED <<kv, fallback, reviews, audit, sent, decided, acked, submitted,
                   restarts>>

(* Mutant: the upload replaces the checklist. *)
AddDocumentsReplacing(w) ==
    /\ At(w, "attach")
    /\ Update(w, [Rec(w) EXCEPT !.provided = job[w].docs], "review", "none")
    /\ UNCHANGED <<kv, reviews, audit, sent, decided, acked, submitted, requests,
                   faults, restarts>>

(* add_documents: the files are analysed and ticked off the checklist *)
AddDocuments(w) ==
    /\ At(w, "attach")
    /\ Update(w, [Rec(w) EXCEPT !.provided = @ \cup job[w].docs], "review", "none")
    /\ UNCHANGED <<kv, reviews, audit, sent, decided, acked, submitted, requests,
                   faults, restarts>>

(* _ensure_final_review, with its two early returns and its except clause *)
EnsureFinalReview(w) ==
    LET id == <<App(w), "ONB">>
        due == Due(Rec(w))
    IN  /\ At(w, "review")
        /\ \/ ~due /\ Works /\ Goto(w, "intake") /\ UNCHANGED <<reviews, fallback>>
           \/ due /\ Works /\ AddReview(id)
              /\ Update(w, [Rec(w) EXCEPT !.review = id], "linked", "none")
           \/ due /\ Raises /\ (AddReview(id) \/ UNCHANGED reviews)
              /\ Goto(w, "intake") /\ UNCHANGED fallback
        /\ UNCHANGED <<kv, audit, sent, decided, acked, submitted, requests,
                       restarts>>

(* Mutant: the escalation is not put on the trail. *)
AuditFinalReviewSilent(w) ==
    /\ At(w, "linked")
    /\ Goto(w, "intake")
    /\ UNCHANGED <<kv, fallback, reviews, audit, sent, decided, acked, submitted,
                   requests, faults, restarts>>

AuditFinalReview(w) ==
    /\ At(w, "linked")
    /\ audit' = audit \cup {<<"review_escalated", Rec(w).review>>}
    /\ Goto(w, "intake")
    /\ UNCHANGED <<kv, fallback, reviews, sent, decided, acked, submitted,
                   requests, faults, restarts>>

(* the client_application or client_documents_submitted event *)
RecordIntake(w) ==
    /\ At(w, "intake")
    /\ audit' = audit \cup {<<job[w].kind, App(w)>>}
    /\ Goto(w, "notify")
    /\ UNCHANGED <<kv, fallback, reviews, sent, decided, acked, submitted,
                   requests, faults, restarts>>

(* After notify_status_change a record is saved, but not by resolve_review.*)
Notified(w) ==
    job' = [job EXCEPT ![w] = IF @.kind = "resolve" THEN Idle
                              ELSE [@ EXCEPT !.pc = "save", !.status = "none"]]

(* notify_status_change, up to the mail: no address or no new status, no   *)
(* mail. _review_state takes an exception for a review that is not there.  *)
NotifyStatusChange(w) ==
    /\ At(w, "notify")
    /\ \/ ~Rec(w).email /\ Works /\ Notified(w) /\ UNCHANGED fallback
       \/ /\ Rec(w).email
          /\ \E seen \in {ReviewState(Rec(w)), "absent"} :
                LET status == ClientView(Rec(w), seen)
                IN  /\ IF seen = ReviewState(Rec(w)) THEN Works ELSE Raises
                    /\ IF IsNews(Rec(w), status)
                       THEN Update(w, [Rec(w) EXCEPT !.notified = status], "send", status)
                       ELSE Notified(w) /\ UNCHANGED fallback
    /\ UNCHANGED <<kv, reviews, audit, sent, decided, acked, submitted, requests,
                   restarts>>

(* notifications.send audits the mail whether or not it could be delivered *)
Send(w) ==
    /\ At(w, "send")
    /\ \/ Works /\ sent' = [sent EXCEPT ![App(w)] = Append(@, job[w].status)]
       \/ Raises /\ UNCHANGED sent
    /\ audit' = audit \cup {<<"client_notification", App(w), job[w].status>>}
    /\ Notified(w)
    /\ UNCHANGED <<kv, fallback, reviews, decided, acked, submitted, requests,
                   restarts>>

(* _save. A record that replaces another object in _applications leaves    *)
(* the threads that shared the old one with it.                            *)
Save(w) ==
    LET a == App(w)
        leftWith(v) == IF At(v, "idle") THEN FALSE ELSE job[v].shared /\ App(v) = a
    IN  /\ At(w, "save")
        /\ acked' = [acked EXCEPT ![a] = @ \cup job[w].docs]
        /\ \/ /\ Works
              /\ kv' = [kv EXCEPT ![a] = Rec(w)]
              /\ job' = [job EXCEPT ![w] = Idle]
              /\ UNCHANGED fallback
           \/ /\ Raises
              /\ kv' = [kv EXCEPT ![a] = Rec(w)] \/ UNCHANGED kv
              /\ fallback' = [fallback EXCEPT ![a] = Rec(w)]
              /\ job' = [v \in Workers |->
                    IF v = w THEN Idle
                    ELSE IF ~job[w].shared /\ leftWith(v)
                    THEN [job[v] EXCEPT !.shared = FALSE, !.rec = fallback[a]]
                    ELSE job[v]]
        /\ UNCHANGED <<reviews, audit, sent, decided, submitted, requests, restarts>>

-----------------------------------------------------------------------------
(* POST /api/reviews/{id}/resolve: the store takes the decision, the first *)
(* or a later one. When it raises the handler answers 404 and stops there. *)
Decide(w, id) ==
    /\ At(w, "idle")
    /\ \E d \in Decisions :
          /\ reviews' = [reviews EXCEPT ![id] = d]
          /\ decided' = [decided EXCEPT ![id] = Append(@, d)]
    /\ \/ /\ Works
          /\ job' = [job EXCEPT ![w] =
                [Job("resolve", "find", id[1], {}, NoRecord, FALSE)
                    EXCEPT !.gate = id[2]]]
       \/ Raises /\ UNCHANGED job
    /\ UNCHANGED <<kv, fallback, audit, sent, acked, submitted, restarts>>

Resolve(w, id) == reviews[id] = "pending" /\ Decide(w, id) /\ UNCHANGED requests

Reconsider(w, id) == reviews[id] \in Decisions /\ Decide(w, id) /\ Counted

(* application_for_review lists the store's records or, when that raises,  *)
(* the ones in _applications, and takes the one that carries the review.   *)
FindApplication(w) ==
    LET a == App(w)
        found(records) == /\ Exists(records, a)
                          /\ records[a].review = <<a, job[w].gate>>
        Continue(records, r, shared) ==
            job' = [job EXCEPT ![w] =
                IF found(records) THEN Job("resolve", "notify", a, {}, r, shared)
                ELSE Idle]
    IN  /\ At(w, "find")
        /\ \/ Works /\ Continue(kv, kv[a], FALSE)
           \/ Raises /\ Continue(fallback, NoRecord, TRUE)
        /\ UNCHANGED <<kv, fallback, reviews, audit, sent, decided, acked,
                       submitted, requests, restarts>>

-----------------------------------------------------------------------------
(* The process dies with the requests it was serving and its _applications.*)
Restart ==
    /\ restarts < MaxRestarts
    /\ restarts' = restarts + 1
    /\ fallback' = [a \in Apps |-> NoRecord]
    /\ job' = [w \in Workers |-> Idle]
    /\ UNCHANGED <<kv, reviews, audit, sent, decided, acked, submitted, requests,
                   faults>>

(* What a thread does of its own accord once it has a request. *)
Advance(w) ==
    \/ EscalateKyc(w) \/ RecordAssessment(w) \/ AddDocuments(w)
    \/ EnsureFinalReview(w) \/ AuditFinalReview(w) \/ RecordIntake(w)
    \/ NotifyStatusChange(w) \/ Send(w) \/ Save(w) \/ FindApplication(w)

Next ==
    \/ \E w \in Workers : Submit(w) \/ Fetch(w) \/ Advance(w)
    \/ \E w \in Workers, id \in ReviewIds : Resolve(w, id) \/ Reconsider(w, id)
    \/ Restart

Spec == Init /\ [][Next]_vars

(* Threads run, and reviewers work off the queue: every status mail        *)
(* promises the client a decision "typically within 5 working days".       *)
FairSpec ==
    /\ Spec
    /\ \A w \in Workers : WF_vars(Advance(w))
    /\ \A id \in ReviewIds : WF_vars(\E w \in Workers : Resolve(w, id))
-----------------------------------------------------------------------------
(* Properties. *)

(* Type invariant: whose locals hold a record, and what each one is.       *)
Pcs == {"escalate", "assessed", "attach", "review", "linked", "intake", "notify",
        "send", "save", "find"}
Jobs == [kind : {"submit", "upload", "resolve"}, pc : Pcs, app : Apps,
         docs : SUBSET Docs, rec : Records \cup {NoRecord}, shared : BOOLEAN,
         status : Statuses \cup {"none"}, gate : {"none", "KYC", "ONB"}]

JobOK(j) ==
    /\ j.pc = "find" <=> j.gate # "none"
    /\ j.pc = "send" <=> j.status # "none"
    /\ j.pc # "find" =>
          IF j.shared THEN fallback[j.app] # NoRecord ELSE j.rec # NoRecord

TypeOK ==
    /\ kv \in [Apps -> Records \cup {NoRecord}]
    /\ fallback \in [Apps -> Records \cup {NoRecord}]
    /\ reviews \in [ReviewIds -> ReviewStates]
    /\ job \in [Workers -> Jobs \cup {Idle}]
    /\ \A w \in Workers : job[w] # Idle => JobOK(job[w])
    /\ sent \in [Apps -> Seq(Statuses)]
    /\ decided \in [ReviewIds -> Seq(Decisions)]
    /\ acked \in [Apps -> SUBSET Docs]
    /\ submitted \in SUBSET Apps
    /\ requests \in 0 .. MaxRequests
    /\ faults \in 0 .. MaxFaults
    /\ restarts \in 0 .. MaxRestarts

(* Every version of application a's record that exists anywhere.           *)
Versions(a) ==
    ({kv[a], fallback[a]} \cup
        {job[w].rec : w \in {v \in Workers : ~At(v, "idle") /\ App(v) = a}})
    \ {NoRecord}

(* Safety: "nothing yet for an approver to sign off" while documents are   *)
(* missing. A record that carries the final review is complete, however    *)
(* stale the copy, and whatever calls failed (applications.py:217-220).    *)
FinalReviewComplete ==
    \A a \in Apps : \A r \in Versions(a) :
        r.review = <<a, "ONB">> => r.provided = Docs

(* Safety, maker-checker: no client is told of an approval that no human   *)
(* made on a review of that application, through races, failed calls and   *)
(* restarts (applications.py:211-216, 352-354).                            *)
MakerChecker ==
    \A a \in Apps : \A i \in DOMAIN sent[a] :
        sent[a][i] = "approved" =>
            \E kind \in {"KYC", "ONB"} : \E j \in DOMAIN decided[<<a, kind>>] :
                decided[<<a, kind>>][j] = "approve"

(* Safety: while no call fails, what the store says of an application was  *)
(* on the trail before it was saved: the assessment, the submission, the   *)
(* escalation of the review it carries and the mail it believes was sent,  *)
(* wherever the process crashed (applications.py:134-147, 247-256).        *)
AuditedBeforeSaved ==
    faults = 0 => \A a \in Apps : kv[a] # NoRecord =>
        /\ {<<"onboarding_assessment", a>>, <<"submit", a>>} \subseteq audit
        /\ kv[a].review # NoReview => <<"review_escalated", kv[a].review>> \in audit
        /\ kv[a].notified # "none" =>
              <<"client_notification", a, kv[a].notified>> \in audit

(* Safety: while no call fails, a client flagged by the screening stays    *)
(* with the review of the screening and is never put up for the low-       *)
(* severity final approval (applications.py:214-218).                      *)
FlaggedStaysEscalated ==
    faults = 0 => \A a \in Apps :
        kv[a] # NoRecord /\ kv[a].kyc = "PENDING_REVIEW" =>
            kv[a].review = <<a, "KYC">> /\ reviews[<<a, "ONB">>] = "absent"

(* Safety, one thread: a document whose upload was answered is ticked off  *)
(* in the stored record (applications.py:160-162, 190-192).                *)
ChecklistKept ==
    \A a \in Apps : kv[a] # NoRecord => acked[a] \subseteq kv[a].provided

Quiet == \A w \in Workers : At(w, "idle")
LastSent(a) == sent[a][Len(sent[a])]

(* Safety, one thread: when no request is running or was lost in a crash,  *)
(* and reviewers decided at most once, the last mail a client got says the *)
(* status the portal shows (api.py:959-965, applications.py:145-147).      *)
LastMailIsCurrent ==
    Quiet /\ restarts = 0 => \A a \in Apps :
        /\ kv[a] # NoRecord /\ kv[a].email
        /\ \A id \in {a} \X {"KYC", "ONB"} : Len(decided[id]) <= 1
        => /\ sent[a] # <<>>
           /\ LastSent(a) = ClientView(kv[a], ReviewState(kv[a]))

(* Both: what a client gave is kept and what it was told is true.          *)
ClientUpToDate == ChecklistKept /\ LastMailIsCurrent

Status(a) ==
    IF kv[a] = NoRecord THEN "absent" ELSE ClientView(kv[a], ReviewState(kv[a]))

Journey == INSTANCE ClientJourney WITH status <- [a \in Apps |-> Status(a)]

(* Refinement, one thread: records, reviews, crashes and all, the portal   *)
(* shows the client the journey ClientJourney promises, and every          *)
(* application under review is decided in the end (applications.py:342).   *)
RefinesJourney == Journey!Spec

(* Liveness: once its file is complete an application is decided, though   *)
(* the process may die on the way (applications.py:357-364).               *)
CompleteIsDecided ==
    \A a \in Apps :
        (kv[a] # NoRecord /\ kv[a].provided = Docs)
            ~> (Status(a) \in {"approved", "declined"})

-----------------------------------------------------------------------------
(* What the repository says and the code does not keep.                    *)

(* Safety: "the decision changes the client's status - notify them"        *)
(* (api.py:959-960): after any decision, the client's last mail is current.*)
DecisionReachesClient ==
    Quiet => \A a \in Apps : kv[a] # NoRecord /\ kv[a].email =>
        sent[a] # <<>> /\ LastSent(a) = Status(a)

(* Action property: a review that was decided never goes back to the queue,*)
(* though add_review would reset it (graph_store.py:243-262).              *)
DecisionNeverErased ==
    [][restarts = 0 => \A id \in ReviewIds :
          reviews[id] \in Decisions => reviews'[id] \in Decisions]_reviews
=============================================================================
