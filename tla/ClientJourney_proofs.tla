------------------------ MODULE ClientJourney_proofs ------------------------
(***************************************************************************)
(* More theorems about ClientApplications: what holds while no call to the *)
(* store or the mailer fails, and, where requests come one at a time, that *)
(* the clients' applications make the steps of ClientJourney and no others.*)
(* For any number of applications, documents, requests and restarts.       *)
(***************************************************************************)
EXTENDS ClientApplications_proofs

-----------------------------------------------------------------------------
(* While no call fails. Records then live in the store and in the threads  *)
(* alone: nothing is in _applications and nothing is shared with it.       *)
NoFallback ==
    /\ \A a \in Apps : fallback[a] = NoRecord
    /\ \A w \in Workers : job[w] # Idle => ~job[w].shared

(* Only thread w moves.                                                    *)
Alone(w) == fallback' = fallback /\ \A v \in Workers : v # w => job'[v] = job[v]

(* Thread w goes on to pc with record r, and to mail status if it must.    *)
Turns(w, pc, status, r) ==
    /\ Alone(w)
    /\ job'[w] # Idle /\ job'[w].pc = pc /\ job'[w].status = status
    /\ job'[w].rec = r /\ ~job'[w].shared
    /\ job'[w].app = job[w].app /\ job'[w].kind = job[w].kind
    /\ job'[w].docs = job[w].docs

(* Thread w takes up a request about application a.                        *)
Takes(w, kind, pc, a, docs, r) ==
    /\ Alone(w)
    /\ job'[w] # Idle /\ job'[w].kind = kind /\ job'[w].pc = pc
    /\ job'[w].app = a /\ job'[w].docs = docs /\ job'[w].rec = r
    /\ ~job'[w].shared

Ends(w) == Alone(w) /\ job'[w] = Idle

(* Thread w has a record of its own. *)
Owns(w, pc) ==
    /\ job[w] # Idle /\ job[w] \in Jobs /\ job[w].pc = pc
    /\ ~job[w].shared /\ App(w) = job[w].app /\ App(w) \in Apps
    /\ Rec(w) = job[w].rec /\ Rec(w) \in Records

LEMMA NoneRaises ==
    ASSUME TypeOK, faults' = 0
    PROVE  ~Raises
  BY DEF TypeOK, Raises

LEMMA OwnsRecord ==
    ASSUME TypeOK, NoFallback, NEW w \in Workers, NEW pc, At(w, pc),
           pc \in Pcs \ {"find"}
    PROVE  Owns(w, pc)
<1>1. /\ job[w] # Idle /\ job[w] \in Jobs /\ job[w].pc = pc
      /\ App(w) \in Apps /\ Rec(w) \in Records
  BY HolderType
<1>2. ~job[w].shared
  BY <1>1 DEF NoFallback
<1>3. QED
  BY <1>1, <1>2 DEF Owns, App, Rec

LEMMA CalmUpdate ==
    ASSUME TypeOK, NEW w \in Workers, NEW pc, Owns(w, pc)
    PROVE  \A r, to, status : Update(w, r, to, status) => Turns(w, to, status, r)
<1>1. SUFFICES ASSUME NEW r, NEW to, NEW status, Update(w, r, to, status)
               PROVE  Turns(w, to, status, r)
  OBVIOUS
<1> DEFINE j == [job[w] EXCEPT !.pc = to, !.status = status]
           k == [j EXCEPT !.rec = r]
<1>2. job' = [job EXCEPT ![w] = k] /\ fallback' = fallback
  BY <1>1 DEF Update, Owns
<1>3. job[w] \in Jobs /\ ~job[w].shared
  BY DEF Owns
<1>4. /\ k.pc = to /\ k.status = status /\ k.rec = r /\ k.app = job[w].app
      /\ k.kind = job[w].kind /\ k.docs = job[w].docs /\ k.shared = job[w].shared
      /\ "app" \in DOMAIN k
  BY <1>3 DEF Jobs
<1>5. k # Idle
  BY <1>4 DEF Idle
<1> HIDE DEF k
<1>6. job'[w] = k /\ \A v \in Workers : v # w => job'[v] = job[v]
  BY <1>2 DEF TypeOK
<1>7. QED
  BY <1>2, <1>3, <1>4, <1>5, <1>6 DEF Turns, Alone

LEMMA CalmGoto ==
    ASSUME TypeOK, NEW w \in Workers, NEW pc, Owns(w, pc), fallback' = fallback
    PROVE  \A to : Goto(w, to) => Turns(w, to, job[w].status, job[w].rec)
<1>1. SUFFICES ASSUME NEW to, Goto(w, to)
               PROVE  Turns(w, to, job[w].status, job[w].rec)
  OBVIOUS
<1> DEFINE k == [job[w] EXCEPT !.pc = to]
<1>2. job' = [job EXCEPT ![w] = k]
  BY <1>1 DEF Goto
<1>3. job[w] \in Jobs /\ ~job[w].shared
  BY DEF Owns
<1>4. /\ k.pc = to /\ k.status = job[w].status /\ k.rec = job[w].rec
      /\ k.app = job[w].app /\ k.kind = job[w].kind /\ k.docs = job[w].docs
      /\ k.shared = job[w].shared /\ "app" \in DOMAIN k
  BY <1>3 DEF Jobs
<1>5. k # Idle
  BY <1>4 DEF Idle
<1> HIDE DEF k
<1>6. job'[w] = k /\ \A v \in Workers : v # w => job'[v] = job[v]
  BY <1>2 DEF TypeOK
<1>7. QED
  BY <1>3, <1>4, <1>5, <1>6 DEF Turns, Alone

LEMMA CalmNotified ==
    ASSUME TypeOK, NEW w \in Workers, NEW pc, Owns(w, pc), fallback' = fallback,
           Notified(w)
    PROVE  IF job[w].kind = "resolve" THEN Ends(w)
           ELSE Turns(w, "save", "none", job[w].rec)
<1> DEFINE k == [job[w] EXCEPT !.pc = "save", !.status = "none"]
<1>1. job[w] \in Jobs /\ ~job[w].shared
  BY DEF Owns
<1>2. job' = [job EXCEPT ![w] = IF job[w].kind = "resolve" THEN Idle ELSE k]
  BY DEF Notified, TypeOK
<1>3. /\ k.pc = "save" /\ k.status = "none" /\ k.rec = job[w].rec
      /\ k.app = job[w].app /\ k.kind = job[w].kind /\ k.docs = job[w].docs
      /\ k.shared = job[w].shared /\ "app" \in DOMAIN k
  BY <1>1 DEF Jobs
<1>4. k # Idle
  BY <1>3 DEF Idle
<1> HIDE DEF k
<1>5. /\ job'[w] = IF job[w].kind = "resolve" THEN Idle ELSE k
      /\ \A v \in Workers : v # w => job'[v] = job[v]
  BY <1>2 DEF TypeOK
<1>6. QED
  BY <1>1, <1>3, <1>4, <1>5 DEF Turns, Ends, Alone

LEMMA CalmTake ==
    ASSUME TypeOK, NEW w \in Workers, fallback' = fallback
    PROVE  \A kind, pc, a, docs, r :
              job' = [job EXCEPT ![w] = Job(kind, pc, a, docs, r, FALSE)]
                 => Takes(w, kind, pc, a, docs, r)
<1>1. SUFFICES ASSUME NEW kind, NEW pc, NEW a, NEW docs, NEW r,
                      job' = [job EXCEPT ![w] = Job(kind, pc, a, docs, r, FALSE)]
               PROVE  Takes(w, kind, pc, a, docs, r)
  OBVIOUS
<1> DEFINE k == Job(kind, pc, a, docs, r, FALSE)
<1>2. /\ k.pc = pc /\ k.rec = r /\ k.app = a /\ k.kind = kind /\ k.docs = docs
      /\ k.shared = FALSE /\ "app" \in DOMAIN k
  BY DEF Job
<1>3. job' = [job EXCEPT ![w] = k]
  BY <1>1
<1> HIDE DEF k
<1>4. k # Idle
  BY <1>2 DEF Idle
<1>5. job'[w] = k /\ \A v \in Workers : v # w => job'[v] = job[v]
  BY <1>3 DEF TypeOK
<1>6. QED
  BY <1>2, <1>4, <1>5 DEF Takes, Alone

(* A call that raises is counted for good. *)
LEMMA FaultsCount ==
    ASSUME TypeOK, [Next]_vars, faults' = 0
    PROVE  faults = 0
<1>1. faults \in Nat
  BY DEF TypeOK
<1>2. Works \/ Raises \/ faults' = faults
  <2>1. CASE \E w \in Workers : Submit(w) \/ Fetch(w)
    BY <2>1 DEF Submit, Fetch
  <2>2. CASE \E w \in Workers : Advance(w)
    BY <2>2 DEF Advance, EscalateKyc, RecordAssessment, AddDocuments,
                EnsureFinalReview, AuditFinalReview, RecordIntake,
                NotifyStatusChange, Send, Save, FindApplication
  <2>3. CASE \E w \in Workers, id \in ReviewIds : Decide(w, id)
    BY <2>3 DEF Decide
  <2>4. CASE Restart
    BY <2>4 DEF Restart
  <2>5. QED
    BY <2>1, <2>2, <2>3, <2>4 DEF Next, vars, Resolve, Reconsider
<1>3. QED
  BY <1>1, <1>2 DEF Works, Raises

(* The steps a thread can take. *)
LEMMA CalmSubmit ==
    ASSUME TypeOK, NEW w \in Workers, Submit(w)
    PROVE  \E a \in Apps \ submitted, kyc \in {"APPROVED", "PENDING_REVIEW"},
              docs \in SUBSET Docs, r \in Records :
              /\ submitted' = submitted \cup {a}
              /\ r.kyc = kyc /\ r.provided = docs /\ r.review = NoReview
              /\ r.notified = "none"
              /\ Takes(w, "submit", IF kyc = "APPROVED" THEN "assessed" ELSE "escalate",
                       a, docs, r)
<1>1. PICK a \in Apps \ submitted, kyc \in {"APPROVED", "PENDING_REVIEW"},
           docs \in SUBSET Docs, email \in BOOLEAN :
        /\ submitted' = submitted \cup {a}
        /\ job' = [job EXCEPT ![w] =
              Job("submit", IF kyc = "APPROVED" THEN "assessed" ELSE "escalate",
                  a, docs,
                  [kyc |-> kyc, provided |-> docs, review |-> NoReview,
                   email |-> email, notified |-> "none"], FALSE)]
  BY DEF Submit
<1> DEFINE r == [kyc |-> kyc, provided |-> docs, review |-> NoReview,
                 email |-> email, notified |-> "none"]
<1>2. /\ r \in Records /\ r.kyc = kyc /\ r.provided = docs
      /\ r.review = NoReview /\ r.notified = "none"
  BY DEF Records
<1>3. job' = [job EXCEPT ![w] =
              Job("submit", IF kyc = "APPROVED" THEN "assessed" ELSE "escalate",
                  a, docs, r, FALSE)]
  BY <1>1
<1> HIDE DEF r
<1>4. fallback' = fallback
  BY DEF Submit
<1>5. Takes(w, "submit", IF kyc = "APPROVED" THEN "assessed" ELSE "escalate",
            a, docs, r)
  BY <1>3, <1>4, CalmTake
<1>6. QED
  BY <1>1, <1>2, <1>5

LEMMA CalmEscalateKyc ==
    ASSUME TypeOK, NoFallback, faults' = 0, NEW w \in Workers, EscalateKyc(w)
    PROVE  LET id == <<App(w), "KYC">>
           IN  /\ Owns(w, "escalate") /\ AddReview(id)
               /\ Turns(w, "assessed", "none", [Rec(w) EXCEPT !.review = id])
<1>1. Owns(w, "escalate")
  BY OwnsRecord DEF EscalateKyc, Pcs
<1>2. QED
  BY <1>1, NoneRaises, CalmUpdate DEF EscalateKyc

LEMMA CalmRecordAssessment ==
    ASSUME TypeOK, NoFallback, NEW w \in Workers, RecordAssessment(w)
    PROVE  /\ Owns(w, "assessed")
           /\ Turns(w, "review", job[w].status, job[w].rec)
<1>1. Owns(w, "assessed")
  BY OwnsRecord DEF RecordAssessment, Pcs
<1>2. QED
  BY <1>1, CalmGoto DEF RecordAssessment

LEMMA CalmFetch ==
    ASSUME TypeOK, NoFallback, NEW w \in Workers, Fetch(w)
    PROVE  \E a \in Apps, docs \in SUBSET Docs :
              /\ kv[a] # NoRecord /\ kv[a] \in Records
              /\ Takes(w, "upload", "attach", a, docs, kv[a])
<1>1. PICK a \in Apps, docs \in SUBSET Docs :
        \/ /\ Exists(kv, a)
           /\ job' = [job EXCEPT ![w] = Job("upload", "attach", a, docs, kv[a], FALSE)]
        \/ Exists(fallback, a)
  BY DEF Fetch
<1>2. ~Exists(fallback, a)
  BY DEF NoFallback, Exists
<1>3. kv[a] # NoRecord /\ kv[a] \in Records
  BY <1>1, <1>2 DEF Exists, TypeOK
<1>4. fallback' = fallback
  BY DEF Fetch
<1>5. Takes(w, "upload", "attach", a, docs, kv[a])
  BY <1>1, <1>2, <1>4, CalmTake
<1>6. QED
  BY <1>3, <1>5

LEMMA CalmAddDocuments ==
    ASSUME TypeOK, NoFallback, NEW w \in Workers, AddDocuments(w)
    PROVE  /\ Owns(w, "attach")
           /\ Turns(w, "review", "none",
                    [Rec(w) EXCEPT !.provided = Rec(w).provided \cup job[w].docs])
<1>1. Owns(w, "attach")
  BY OwnsRecord DEF AddDocuments, Pcs
<1>2. Update(w, [Rec(w) EXCEPT !.provided = Rec(w).provided \cup job[w].docs],
             "review", "none")
  <2>1. Rec(w) \in Records
    BY <1>1 DEF Owns
  <2>2. QED
    BY <2>1 DEF AddDocuments, Records
<1>3. QED
  BY <1>1, <1>2, CalmUpdate

LEMMA CalmEnsureFinalReview ==
    ASSUME TypeOK, NoFallback, faults' = 0, NEW w \in Workers, EnsureFinalReview(w)
    PROVE  LET id == <<App(w), "ONB">>
           IN  /\ Owns(w, "review")
               /\ \/ /\ ~Due(Rec(w)) /\ reviews' = reviews
                     /\ Turns(w, "intake", job[w].status, job[w].rec)
                  \/ /\ Due(Rec(w)) /\ AddReview(id)
                     /\ Turns(w, "linked", "none", [Rec(w) EXCEPT !.review = id])
<1>1. Owns(w, "review")
  BY OwnsRecord DEF EnsureFinalReview, Pcs
<1>2. QED
  BY <1>1, NoneRaises, CalmUpdate, CalmGoto DEF EnsureFinalReview

LEMMA CalmAuditFinalReview ==
    ASSUME TypeOK, NoFallback, NEW w \in Workers, AuditFinalReview(w)
    PROVE  /\ Owns(w, "linked")
           /\ Turns(w, "intake", job[w].status, job[w].rec)
           /\ audit' = audit \cup {<<"review_escalated", job[w].rec.review>>}
<1>1. Owns(w, "linked")
  BY OwnsRecord DEF AuditFinalReview, Pcs
<1>2. QED
  BY <1>1, CalmGoto DEF AuditFinalReview, Owns

LEMMA CalmRecordIntake ==
    ASSUME TypeOK, NoFallback, NEW w \in Workers, RecordIntake(w)
    PROVE  /\ Owns(w, "intake")
           /\ Turns(w, "notify", job[w].status, job[w].rec)
<1>1. Owns(w, "intake")
  BY OwnsRecord DEF RecordIntake, Pcs
<1>2. QED
  BY <1>1, CalmGoto DEF RecordIntake

LEMMA CalmNotifyStatusChange ==
    ASSUME TypeOK, NoFallback, faults' = 0, NEW w \in Workers, NotifyStatusChange(w)
    PROVE  LET status == ClientView(Rec(w), ReviewState(Rec(w)))
           IN  /\ Owns(w, "notify")
               /\ \/ /\ Rec(w).email => Rec(w).notified = status
                     /\ IF job[w].kind = "resolve" THEN Ends(w)
                        ELSE Turns(w, "save", "none", job[w].rec)
                  \/ /\ Rec(w).email /\ Rec(w).notified # status
                     /\ Turns(w, "send", status, [Rec(w) EXCEPT !.notified = status])
<1>1. Owns(w, "notify")
  BY OwnsRecord DEF NotifyStatusChange, Pcs
<1>2. CASE ~Rec(w).email /\ Notified(w) /\ UNCHANGED fallback
  BY <1>1, <1>2, CalmNotified
<1>3. ASSUME Rec(w).email,
             NEW seen \in {ReviewState(Rec(w)), "absent"},
             IF seen = ReviewState(Rec(w)) THEN Works ELSE Raises,
             IF IsNews(Rec(w), ClientView(Rec(w), seen))
             THEN Update(w, [Rec(w) EXCEPT !.notified = ClientView(Rec(w), seen)],
                         "send", ClientView(Rec(w), seen))
             ELSE Notified(w) /\ UNCHANGED fallback
      PROVE  LET status == ClientView(Rec(w), ReviewState(Rec(w)))
             IN  \/ /\ Rec(w).notified = status
                    /\ IF job[w].kind = "resolve" THEN Ends(w)
                       ELSE Turns(w, "save", "none", job[w].rec)
                 \/ /\ Rec(w).notified # status
                    /\ Turns(w, "send", status, [Rec(w) EXCEPT !.notified = status])
  <2>1. seen = ReviewState(Rec(w))
    BY <1>3, NoneRaises
  <2>2. QED
    BY <1>1, <1>3, <2>1, CalmNotified, CalmUpdate DEF IsNews
<1>4. QED
  BY <1>1, <1>2, <1>3 DEF NotifyStatusChange

LEMMA CalmSend ==
    ASSUME TypeOK, NoFallback, faults' = 0, NEW w \in Workers, Send(w)
    PROVE  /\ Owns(w, "send")
           /\ sent' = [sent EXCEPT ![App(w)] = Append(sent[App(w)], job[w].status)]
           /\ IF job[w].kind = "resolve" THEN Ends(w)
              ELSE Turns(w, "save", "none", job[w].rec)
<1>1. Owns(w, "send")
  BY OwnsRecord DEF Send, Pcs
<1>2. QED
  BY <1>1, NoneRaises, CalmNotified DEF Send, TypeOK

LEMMA CalmSave ==
    ASSUME TypeOK, NoFallback, faults' = 0, NEW w \in Workers, Save(w)
    PROVE  /\ Owns(w, "save") /\ Ends(w)
           /\ kv' = [kv EXCEPT ![App(w)] = job[w].rec]
           /\ acked' = [acked EXCEPT ![App(w)] = acked[App(w)] \cup job[w].docs]
<1>1. Owns(w, "save")
  BY OwnsRecord DEF Save, Pcs
<1>2. Rec(w) = job[w].rec
  BY <1>1 DEF Owns
<1>3. QED
  BY <1>1, <1>2, NoneRaises DEF Save, TypeOK, Ends, Alone

LEMMA CalmDecide ==
    ASSUME TypeOK, faults' = 0, NEW w \in Workers, NEW id \in ReviewIds, Decide(w, id)
    PROVE  /\ Takes(w, "resolve", "find", id[1], {}, NoRecord)
           /\ job'[w].gate = id[2]
           /\ \E d \in Decisions :
                 /\ reviews' = [reviews EXCEPT ![id] = d]
                 /\ decided' = [decided EXCEPT ![id] = Append(decided[id], d)]
<1> DEFINE j == Job("resolve", "find", id[1], {}, NoRecord, FALSE)
           k == [j EXCEPT !.gate = id[2]]
<1>1. job' = [job EXCEPT ![w] = k] /\ fallback' = fallback
  BY NoneRaises DEF Decide
<1>2. /\ k.kind = "resolve" /\ k.pc = "find" /\ k.app = id[1] /\ k.docs = {}
      /\ k.rec = NoRecord /\ k.shared = FALSE /\ k.gate = id[2] /\ "app" \in DOMAIN k
  BY DEF Job
<1>3. k # Idle
  BY <1>2 DEF Idle
<1> HIDE DEF k
<1>4. job'[w] = k /\ \A v \in Workers : v # w => job'[v] = job[v]
  BY <1>1 DEF TypeOK
<1>5. Takes(w, "resolve", "find", id[1], {}, NoRecord) /\ job'[w].gate = id[2]
  BY <1>1, <1>2, <1>3, <1>4 DEF Takes, Alone
<1>6. QED
  BY <1>5 DEF Decide, TypeOK

LEMMA CalmFindApplication ==
    ASSUME TypeOK, faults' = 0, NEW w \in Workers, FindApplication(w)
    PROVE  /\ job[w] # Idle /\ job[w].pc = "find" /\ App(w) \in Apps
           /\ IF kv[App(w)] # NoRecord /\ kv[App(w)].review = <<App(w), job[w].gate>>
              THEN Takes(w, "resolve", "notify", App(w), {}, kv[App(w)])
              ELSE Ends(w)
<1>1. job[w] # Idle /\ job[w].pc = "find" /\ App(w) \in Apps
  BY IdleIsNoJob, RecType DEF FindApplication, At, Idle
<1>2. /\ fallback' = fallback
      /\ job' = [job EXCEPT ![w] =
            IF kv[App(w)] # NoRecord /\ kv[App(w)].review = <<App(w), job[w].gate>>
            THEN Job("resolve", "notify", App(w), {}, kv[App(w)], FALSE) ELSE Idle]
  BY NoneRaises DEF FindApplication, Exists
<1>3. CASE kv[App(w)] # NoRecord /\ kv[App(w)].review = <<App(w), job[w].gate>>
  BY <1>1, <1>2, <1>3, CalmTake
<1>4. CASE ~(kv[App(w)] # NoRecord /\ kv[App(w)].review = <<App(w), job[w].gate>>)
  <2>1. job' = [job EXCEPT ![w] = Idle]
    BY <1>2, <1>4
  <2>2. Ends(w)
    BY <1>2, <2>1 DEF Ends, Alone, TypeOK
  <2>3. QED
    BY <1>1, <1>4, <2>2
<1>5. QED
  BY <1>3, <1>4

LEMMA CalmRestart ==
    ASSUME Restart
    PROVE  /\ NoFallback'
           /\ \A w \in Workers : job'[w] = Idle
  BY DEF Restart, NoFallback

LEMMA CalmStays ==
    ASSUME NoFallback, NEW w \in Workers, Alone(w),
           job'[w] = Idle \/ ~job'[w].shared
    PROVE  NoFallback'
  BY DEF NoFallback, Alone

LEMMA RecordFields ==
    ASSUME NEW r \in Records
    PROVE  /\ \A x : LET s == [r EXCEPT !.review = x]
                   IN  /\ s.review = x /\ s.kyc = r.kyc /\ s.provided = r.provided
                       /\ s.email = r.email /\ s.notified = r.notified
           /\ \A x : LET s == [r EXCEPT !.provided = x]
                   IN  /\ s.provided = x /\ s.kyc = r.kyc /\ s.review = r.review
                       /\ s.email = r.email /\ s.notified = r.notified
           /\ \A x : LET s == [r EXCEPT !.notified = x]
                   IN  /\ s.notified = x /\ s.kyc = r.kyc /\ s.review = r.review
                       /\ s.email = r.email /\ s.provided = r.provided
  BY DEF Records

-----------------------------------------------------------------------------
(* What is saved was audited. *)

SavedTrailed(a) ==
    kv[a] # NoRecord =>
        /\ {<<"onboarding_assessment", a>>, <<"submit", a>>} \subseteq audit
        /\ kv[a].review # NoReview => <<"review_escalated", kv[a].review>> \in audit
        /\ kv[a].notified # "none" =>
              <<"client_notification", a, kv[a].notified>> \in audit

(* What a request on its way has audited so far.                           *)
JobTrailed(j) ==
    /\ j.pc \notin {"escalate", "assessed"} =>
          <<"onboarding_assessment", j.app>> \in audit
    /\ j.pc \in {"notify", "send", "save"} \/ j.kind # "submit" =>
          <<"submit", j.app>> \in audit
    /\ j.pc \notin {"escalate", "assessed", "linked"} /\ j.rec.review # NoReview =>
          <<"review_escalated", j.rec.review>> \in audit
    /\ IF j.pc = "send" THEN j.rec.notified = j.status
       ELSE j.rec.notified # "none" =>
               <<"client_notification", j.app, j.rec.notified>> \in audit

Trailed ==
    faults = 0 =>
        /\ NoFallback
        /\ \A a \in Apps : SavedTrailed(a)
        /\ \A w \in Workers : Holds(w) => JobTrailed(job[w])

LEMMA TrailFrame ==
    ASSUME Trailed, faults = 0, NEW w \in Workers, Alone(w),
           audit \subseteq audit', \A a \in Apps : SavedTrailed(a)',
           job'[w] = Idle \/ (~job'[w].shared /\ (Holds(w) => JobTrailed(job[w]))')
    PROVE  Trailed'
<1>1. NoFallback'
  BY CalmStays DEF Trailed
<1>2. ASSUME NEW v \in Workers, Holds(v)' PROVE JobTrailed(job[v])'
  <2>1. CASE v = w
    BY <1>2, <2>1 DEF Holds
  <2>2. CASE v # w
    <3>1. job'[v] = job[v]
      BY <2>2 DEF Alone
    <3>2. JobTrailed(job[v])
      BY <1>2, <3>1 DEF Holds, Trailed
    <3>3. QED
      BY <3>1, <3>2 DEF JobTrailed
  <2>3. QED
    BY <2>1, <2>2
<1>3. QED
  BY <1>1, <1>2 DEF Trailed

(* The store is left alone. *)
LEMMA TrailGrows ==
    ASSUME Trailed, faults = 0, kv' = kv, audit \subseteq audit'
    PROVE  \A a \in Apps : SavedTrailed(a)'
  BY DEF Trailed, SavedTrailed

LEMMA TrailNext ==
    TypeOK /\ Trailed /\ [Next]_vars => Trailed'
<1>1. SUFFICES ASSUME TypeOK, Trailed, [Next]_vars, faults' = 0
               PROVE  Trailed'
  BY DEF Trailed
<1>2. CASE UNCHANGED vars
  BY <1>1, <1>2 DEF vars, Trailed, NoFallback, SavedTrailed, JobTrailed, Holds
<1>3. faults = 0
  BY <1>1, FaultsCount
<1>4. NoFallback
  BY <1>1, <1>3 DEF Trailed
<1>5. ASSUME NEW w \in Workers, NEW pc, Owns(w, pc), pc # "find"
      PROVE  JobTrailed(job[w])
  BY <1>1, <1>3, <1>5 DEF Owns, Trailed, Holds
<1>6. ASSUME NEW w \in Workers, Submit(w) PROVE Trailed'
  <2>1. kv' = kv /\ audit' = audit
    BY <1>6 DEF Submit
  <2>2. ~job'[w].shared /\ Alone(w) /\ JobTrailed(job[w])'
    BY <1>1, <1>6, CalmSubmit DEF Takes, JobTrailed
  <2>3. QED
    BY <1>1, <1>3, <2>1, <2>2, TrailGrows, TrailFrame
<1>7. ASSUME NEW w \in Workers, Fetch(w) PROVE Trailed'
  <2>1. kv' = kv /\ audit' = audit
    BY <1>7 DEF Fetch
  <2>2. ~job'[w].shared /\ Alone(w) /\ JobTrailed(job[w])'
    <3>1. PICK a \in Apps, docs \in SUBSET Docs :
             kv[a] # NoRecord /\ Takes(w, "upload", "attach", a, docs, kv[a])
      BY <1>1, <1>4, <1>7, CalmFetch
    <3>2. SavedTrailed(a)
      BY <1>1, <1>3 DEF Trailed
    <3>3. QED
      BY <2>1, <3>1, <3>2 DEF Takes, JobTrailed, SavedTrailed
  <2>3. QED
    BY <1>1, <1>3, <2>1, <2>2, TrailGrows, TrailFrame
<1>8. ASSUME NEW w \in Workers, EscalateKyc(w) PROVE Trailed'
  <2>1. kv' = kv /\ audit' = audit
    BY <1>8 DEF EscalateKyc
  <2>2. /\ Owns(w, "escalate")
        /\ Turns(w, "assessed", "none", [Rec(w) EXCEPT !.review = <<App(w), "KYC">>])
    BY <1>1, <1>4, <1>8, CalmEscalateKyc
  <2>3. ~job'[w].shared /\ Alone(w) /\ JobTrailed(job[w])'
    <3>1. job'[w].rec.notified = job[w].rec.notified /\ JobTrailed(job[w])
      BY <1>5, <2>2, RecordFields DEF Owns, Turns
    <3>2. QED
      BY <2>1, <2>2, <3>1 DEF Owns, Turns, JobTrailed
  <2>4. QED
    BY <1>1, <1>3, <2>1, <2>3, TrailGrows, TrailFrame
<1>9. ASSUME NEW w \in Workers, RecordAssessment(w) PROVE Trailed'
  <2>1. /\ Owns(w, "assessed")
        /\ Turns(w, "review", job[w].status, job[w].rec)
    BY <1>1, <1>4, <1>9, CalmRecordAssessment
  <2>2. /\ kv' = kv /\ audit \subseteq audit'
        /\ <<"onboarding_assessment", job[w].app>> \in audit'
        /\ job[w].rec.review # NoReview =>
              <<"review_escalated", job[w].rec.review>> \in audit'
    BY <1>9, <2>1 DEF RecordAssessment, Owns
  <2>3. ~job'[w].shared /\ Alone(w) /\ JobTrailed(job[w])'
    BY <1>5, <2>1, <2>2 DEF Owns, Turns, JobTrailed
  <2>4. QED
    BY <1>1, <1>3, <2>2, <2>3, TrailGrows, TrailFrame
<1>10. ASSUME NEW w \in Workers, AddDocuments(w) PROVE Trailed'
  <2>1. kv' = kv /\ audit' = audit
    BY <1>10 DEF AddDocuments
  <2>2. /\ Owns(w, "attach")
        /\ Turns(w, "review", "none",
                 [Rec(w) EXCEPT !.provided = Rec(w).provided \cup job[w].docs])
    BY <1>1, <1>4, <1>10, CalmAddDocuments
  <2>3. ~job'[w].shared /\ Alone(w) /\ JobTrailed(job[w])'
    <3>1. /\ job'[w].rec.notified = job[w].rec.notified
          /\ job'[w].rec.review = job[w].rec.review /\ JobTrailed(job[w])
      BY <1>5, <2>2, RecordFields DEF Owns, Turns
    <3>2. QED
      BY <2>1, <2>2, <3>1 DEF Owns, Turns, JobTrailed
  <2>4. QED
    BY <1>1, <1>3, <2>1, <2>3, TrailGrows, TrailFrame
<1>11. ASSUME NEW w \in Workers, EnsureFinalReview(w) PROVE Trailed'
  <2>1. kv' = kv /\ audit' = audit
    BY <1>11 DEF EnsureFinalReview
  <2>2. /\ Owns(w, "review")
        /\ \/ Turns(w, "intake", job[w].status, job[w].rec)
           \/ Turns(w, "linked", "none", [Rec(w) EXCEPT !.review = <<App(w), "ONB">>])
    BY <1>1, <1>4, <1>11, CalmEnsureFinalReview
  <2>3. ~job'[w].shared /\ Alone(w) /\ JobTrailed(job[w])'
    <3>1. CASE Turns(w, "intake", job[w].status, job[w].rec)
      BY <1>5, <2>1, <2>2, <3>1 DEF Owns, Turns, JobTrailed
    <3>2. CASE Turns(w, "linked", "none", [Rec(w) EXCEPT !.review = <<App(w), "ONB">>])
      <4>1. job'[w].rec.notified = job[w].rec.notified /\ JobTrailed(job[w])
        BY <1>5, <2>2, <3>2, RecordFields DEF Owns, Turns
      <4>2. QED
        BY <2>1, <2>2, <3>2, <4>1 DEF Owns, Turns, JobTrailed
    <3>3. QED
      BY <2>2, <3>1, <3>2
  <2>4. QED
    BY <1>1, <1>3, <2>1, <2>3, TrailGrows, TrailFrame
<1>12. ASSUME NEW w \in Workers, AuditFinalReview(w) PROVE Trailed'
  <2>1. /\ Owns(w, "linked")
        /\ Turns(w, "intake", job[w].status, job[w].rec)
        /\ audit' = audit \cup {<<"review_escalated", job[w].rec.review>>}
        /\ kv' = kv
    BY <1>1, <1>4, <1>12, CalmAuditFinalReview DEF AuditFinalReview
  <2>2. ~job'[w].shared /\ Alone(w) /\ JobTrailed(job[w])'
    BY <1>5, <2>1 DEF Owns, Turns, JobTrailed
  <2>3. QED
    BY <1>1, <1>3, <2>1, <2>2, TrailGrows, TrailFrame
<1>13. ASSUME NEW w \in Workers, RecordIntake(w) PROVE Trailed'
  <2>1. /\ Owns(w, "intake")
        /\ Turns(w, "notify", job[w].status, job[w].rec)
        /\ audit' = audit \cup {<<job[w].kind, App(w)>>}
        /\ kv' = kv
    BY <1>1, <1>4, <1>13, CalmRecordIntake DEF RecordIntake
  <2>2. ~job'[w].shared /\ Alone(w) /\ JobTrailed(job[w])'
    BY <1>5, <2>1 DEF Owns, Turns, JobTrailed
  <2>3. QED
    BY <1>1, <1>3, <2>1, <2>2, TrailGrows, TrailFrame
<1>14. ASSUME NEW w \in Workers, NotifyStatusChange(w) PROVE Trailed'
  <2>1. kv' = kv /\ audit' = audit
    BY <1>14 DEF NotifyStatusChange
  <2>2. /\ Owns(w, "notify")
        /\ \/ Ends(w)
           \/ Turns(w, "save", "none", job[w].rec)
           \/ \E status : Turns(w, "send", status, [Rec(w) EXCEPT !.notified = status])
    BY <1>1, <1>4, <1>14, CalmNotifyStatusChange
  <2>3. Alone(w) /\ (job'[w] = Idle \/ (~job'[w].shared /\ JobTrailed(job[w])'))
    <3>1. CASE Ends(w)
      BY <3>1 DEF Ends
    <3>2. CASE Turns(w, "save", "none", job[w].rec)
      BY <1>5, <2>1, <2>2, <3>2 DEF Owns, Turns, JobTrailed
    <3>3. ASSUME NEW status,
                 Turns(w, "send", status, [Rec(w) EXCEPT !.notified = status])
          PROVE  Alone(w) /\ ~job'[w].shared /\ JobTrailed(job[w])'
      <4>1. /\ job'[w].rec.notified = status
            /\ job'[w].rec.review = job[w].rec.review /\ JobTrailed(job[w])
        BY <1>5, <2>2, <3>3, RecordFields DEF Owns, Turns
      <4>2. QED
        BY <2>1, <2>2, <3>3, <4>1 DEF Owns, Turns, JobTrailed
    <3>4. QED
      BY <2>2, <3>1, <3>2, <3>3
  <2>4. QED
    BY <1>1, <1>3, <2>1, <2>3, TrailGrows, TrailFrame
<1>15. ASSUME NEW w \in Workers, Send(w) PROVE Trailed'
  <2>1. /\ Owns(w, "send")
        /\ Ends(w) \/ Turns(w, "save", "none", job[w].rec)
        /\ audit' = audit \cup {<<"client_notification", job[w].app, job[w].status>>}
        /\ kv' = kv
    BY <1>1, <1>4, <1>15, CalmSend DEF Send, Owns
  <2>2. Alone(w) /\ (job'[w] = Idle \/ (~job'[w].shared /\ JobTrailed(job[w])'))
    BY <1>5, <2>1 DEF Owns, Turns, Ends, JobTrailed
  <2>3. QED
    BY <1>1, <1>3, <2>1, <2>2, TrailGrows, TrailFrame
<1>16. ASSUME NEW w \in Workers, Save(w) PROVE Trailed'
  <2>1. /\ Owns(w, "save") /\ Ends(w)
        /\ kv' = [kv EXCEPT ![App(w)] = job[w].rec]
        /\ audit' = audit
    BY <1>1, <1>4, <1>16, CalmSave DEF Save
  <2>2. ASSUME NEW a \in Apps PROVE SavedTrailed(a)'
    <3>1. CASE a = App(w)
      <4>1. kv'[a] = job[w].rec /\ JobTrailed(job[w])
        BY <1>1, <1>5, <2>1, <3>1 DEF TypeOK
      <4>2. QED
        BY <2>1, <3>1, <4>1 DEF Owns, JobTrailed, SavedTrailed
    <3>2. CASE a # App(w)
      <4>1. kv'[a] = kv[a] /\ SavedTrailed(a)
        BY <1>1, <1>3, <2>1, <3>2 DEF TypeOK, Trailed
      <4>2. QED
        BY <2>1, <4>1 DEF SavedTrailed
    <3>3. QED
      BY <3>1, <3>2
  <2>3. QED
    BY <1>1, <1>3, <2>1, <2>2, TrailFrame DEF Ends
<1>17. ASSUME NEW w \in Workers, FindApplication(w) PROVE Trailed'
  <2>1. kv' = kv /\ audit' = audit
    BY <1>17 DEF FindApplication
  <2>2. /\ App(w) \in Apps
        /\ \/ Ends(w)
           \/ /\ kv[App(w)] # NoRecord
              /\ Takes(w, "resolve", "notify", App(w), {}, kv[App(w)])
    BY <1>1, <1>17, CalmFindApplication
  <2>3. Alone(w) /\ (job'[w] = Idle \/ (~job'[w].shared /\ JobTrailed(job[w])'))
    <3>1. SavedTrailed(App(w))
      BY <1>1, <1>3, <2>2 DEF Trailed
    <3>2. QED
      BY <2>1, <2>2, <3>1 DEF Takes, Ends, JobTrailed, SavedTrailed
  <2>4. QED
    BY <1>1, <1>3, <2>1, <2>3, TrailGrows, TrailFrame
<1>18. ASSUME NEW w \in Workers, NEW id \in ReviewIds, Decide(w, id) PROVE Trailed'
  <2>1. kv' = kv /\ audit' = audit
    BY <1>18 DEF Decide
  <2>2. Alone(w) /\ ~job'[w].shared /\ job'[w].pc = "find"
    BY <1>1, <1>18, CalmDecide DEF Takes
  <2>3. QED
    BY <1>1, <1>3, <2>1, <2>2, TrailGrows, TrailFrame DEF Holds
<1>19. CASE Restart
  <2>1. kv' = kv /\ audit' = audit
    BY <1>19 DEF Restart
  <2>2. QED
    BY <1>1, <1>3, <1>19, <2>1, TrailGrows, CalmRestart DEF Trailed, Holds
<1>20. QED
  BY <1>1, <1>2, <1>6, <1>7, <1>8, <1>9, <1>10, <1>11, <1>12, <1>13, <1>14, <1>15,
     <1>16, <1>17, <1>18, <1>19 DEF Next, Advance, Resolve, Reconsider

LEMMA TrailInit == Init => Trailed
  BY DEF Init, Trailed, NoFallback, SavedTrailed, Holds

(* While no call fails, whatever the store says of an application was on   *)
(* the trail before it was saved, however requests interleave or the       *)
(* process dies between two of their steps.                                *)
THEOREM TrailLeads == Spec => []AuditedBeforeSaved
<1>1. Spec => [](TypeOK /\ Trailed)
  BY TypeInit, TypeNext, TrailInit, TrailNext, PTL DEF Spec
<1>2. Trailed => AuditedBeforeSaved
  BY DEF Trailed, SavedTrailed, AuditedBeforeSaved
<1>3. QED
  BY <1>1, <1>2, PTL

-----------------------------------------------------------------------------
(* A flagged client keeps the review of the screening. *)

Flagged(r) == r.kyc = "PENDING_REVIEW"

(* All versions of a record agree on the one screening of the application, *)
(* and it is up for the final review only if that went well.               *)
ScreenedOnce(a) ==
    /\ a \notin submitted => Versions(a) = {} /\ reviews[<<a, "ONB">>] = "absent"
    /\ \A r, s \in Versions(a) : r.kyc = s.kyc
    /\ reviews[<<a, "ONB">>] # "absent" => \A r \in Versions(a) : r.kyc = "APPROVED"

FlaggedSaved(a) == kv[a] # NoRecord /\ Flagged(kv[a]) => kv[a].review = <<a, "KYC">>

FlaggedJob(j) ==
    j.pc # "escalate" /\ Flagged(j.rec) => j.rec.review = <<j.app, "KYC">>

Escalated ==
    faults = 0 =>
        /\ \A a \in Apps : ScreenedOnce(a) /\ FlaggedSaved(a)
        /\ \A w \in Workers : Holds(w) => FlaggedJob(job[w])

(* The versions of a record after a step of thread w have the screening    *)
(* result of versions there were before.                                   *)
SameKyc(a) == \A r \in Versions(a)' : \E s \in Versions(a) : r.kyc = s.kyc

LEMMA KycFrame ==
    ASSUME NEW w \in Workers, Alone(w), NEW a \in Apps,
           kv'[a] = kv[a] \/ \E s \in Versions(a) : kv'[a].kyc = s.kyc,
           \/ job'[w] = Idle
           \/ job'[w].app # a
           \/ job'[w].rec = NoRecord
           \/ \E s \in Versions(a) : job'[w].rec.kyc = s.kyc
    PROVE  SameKyc(a)
<1>1. ASSUME NEW r \in Versions(a)' PROVE \E s \in Versions(a) : r.kyc = s.kyc
  <2>1. /\ r # NoRecord
        /\ \/ r = kv'[a] \/ r = fallback'[a]
           \/ \E v \in Workers : ~At(v, "idle")' /\ App(v)' = a /\ r = job'[v].rec
    BY DEF Versions
  <2>2. CASE r = kv'[a] \/ r = fallback'[a]
    BY <2>1, <2>2 DEF Versions, Alone
  <2>3. ASSUME NEW v \in Workers, ~At(v, "idle")', App(v)' = a, r = job'[v].rec
        PROVE  \E s \in Versions(a) : r.kyc = s.kyc
    <3>1. CASE v = w
      BY <2>1, <2>3, <3>1, IdleIsNoJob DEF At, App
    <3>2. CASE v # w
      <4>1. job'[v] = job[v]
        BY <3>2 DEF Alone
      <4>2. r \in Versions(a)
        BY <2>1, <2>3, <4>1 DEF Versions, At, App
      <4>3. QED
        BY <4>2
    <3>3. QED
      BY <3>1, <3>2
  <2>4. QED
    BY <2>1, <2>2, <2>3
<1>2. QED
  BY <1>1 DEF SameKyc

LEMMA ScreenedFrame ==
    ASSUME NEW a \in Apps, ScreenedOnce(a), SameKyc(a), submitted \subseteq submitted',
           reviews'[<<a, "ONB">>] = "absent" <=> reviews[<<a, "ONB">>] = "absent"
    PROVE  ScreenedOnce(a)'
<1>1. \A r \in Versions(a)' : \E s \in Versions(a) : r.kyc = s.kyc
  BY DEF SameKyc
<1>2. ASSUME a \notin submitted'
      PROVE  Versions(a)' = {} /\ reviews'[<<a, "ONB">>] = "absent"
  BY <1>1, <1>2 DEF ScreenedOnce
<1>3. ASSUME NEW r \in Versions(a)', NEW s \in Versions(a)' PROVE r.kyc = s.kyc
  BY <1>1 DEF ScreenedOnce
<1>4. ASSUME reviews'[<<a, "ONB">>] # "absent", NEW r \in Versions(a)'
      PROVE  r.kyc = "APPROVED"
  BY <1>1, <1>4 DEF ScreenedOnce
<1>5. QED
  BY <1>2, <1>3, <1>4 DEF ScreenedOnce

(* A record of the store or of a thread is a version of it.                *)
LEMMA VersionsOf ==
    /\ \A a \in Apps : kv[a] # NoRecord => kv[a] \in Versions(a)
    /\ \A w \in Workers : \A pc : Owns(w, pc) =>
          job[w].rec \in Versions(App(w)) /\ job[w].rec \in Records
<1>1. \A a \in Apps : kv[a] # NoRecord => kv[a] \in Versions(a)
  BY DEF Versions
<1>2. ASSUME NEW w \in Workers, NEW pc, Owns(w, pc)
      PROVE  job[w].rec \in Versions(App(w)) /\ job[w].rec \in Records
  <2>1. job[w].rec \in Records /\ job[w].rec # NoRecord
    BY <1>2, NoRecordIsNone DEF Owns
  <2>2. ~At(w, "idle")
    BY <1>2, IdleIsNoJob DEF Owns, At
  <2>3. QED
    BY <2>1, <2>2 DEF Versions
<1>3. QED
  BY <1>1, <1>2

(* A step of thread w, whose record keeps its screening result and review. *)
LEMMA EscalatedFrame ==
    ASSUME TypeOK, Escalated, faults = 0, NEW w \in Workers, Alone(w),
           kv' = kv, submitted' = submitted,
           \A a \in Apps : reviews'[<<a, "ONB">>] = "absent"
                              <=> reviews[<<a, "ONB">>] = "absent",
           \/ job'[w] = Idle
           \/ job'[w].pc = "find" /\ job'[w].rec = NoRecord
           \/ /\ \E s \in Versions(job'[w].app) : job'[w].rec.kyc = s.kyc
              /\ FlaggedJob(job'[w])
    PROVE  Escalated'
<1>1. ASSUME NEW a \in Apps PROVE ScreenedOnce(a)' /\ FlaggedSaved(a)'
  <2>1. SameKyc(a)
    BY KycFrame
  <2>2. QED
    BY <2>1, ScreenedFrame DEF Escalated, FlaggedSaved
<1>2. ASSUME NEW v \in Workers, Holds(v)' PROVE FlaggedJob(job'[v])
  <2>1. CASE v = w
    BY <1>2, <2>1 DEF Holds
  <2>2. CASE v # w
    BY <1>2, <2>2 DEF Holds, Alone, Escalated
  <2>3. QED
    BY <2>1, <2>2
<1>3. \A v \in Workers : Holds(v)' => FlaggedJob(job[v])'
  BY <1>2 DEF FlaggedJob, Flagged
<1>4. QED
  BY <1>1, <1>3 DEF Escalated

LEMMA EscalatedSubmit ==
    ASSUME TypeOK, Escalated, faults = 0, NEW w \in Workers, Submit(w)
    PROVE  Escalated'
<1>1. PICK a0 \in Apps \ submitted, r \in Records :
         /\ submitted' = submitted \cup {a0}
         /\ Alone(w) /\ job'[w] # Idle /\ job'[w].app = a0 /\ job'[w].rec = r
         /\ job'[w].pc # "escalate" => ~Flagged(r)
  BY CalmSubmit DEF Takes, Flagged
<1>2. kv' = kv /\ reviews' = reviews
  BY DEF Submit
<1>3. ASSUME NEW a \in Apps PROVE ScreenedOnce(a)'
  <2>1. CASE a # a0
    <3>1. SameKyc(a)
      BY <1>1, <1>2, <2>1, KycFrame
    <3>2. QED
      BY <1>1, <1>2, <3>1, ScreenedFrame DEF Escalated
  <2>2. CASE a = a0
    <3>1. Versions(a) = {} /\ reviews[<<a, "ONB">>] = "absent"
      BY <1>1, <2>2 DEF Escalated, ScreenedOnce
    <3>2. ASSUME NEW s \in Versions(a)' PROVE s = r
      <4>1. kv'[a] = kv[a] /\ fallback'[a] = fallback[a]
        BY <1>1, <1>2 DEF Alone
      <4>2. s # NoRecord /\ s \notin Versions(a)
        BY <3>1 DEF Versions
      <4>3. PICK v \in Workers : ~At(v, "idle")' /\ App(v)' = a /\ s = job'[v].rec
        BY <4>1, <4>2 DEF Versions
      <4>4. v = w
        BY <1>1, <4>2, <4>3 DEF Alone, Versions, At, App
      <4>5. QED
        BY <1>1, <4>3, <4>4
    <3>3. QED
      BY <1>1, <1>2, <2>2, <3>1, <3>2 DEF ScreenedOnce
  <2>3. QED
    BY <2>1, <2>2
<1>4. ASSUME NEW v \in Workers, Holds(v)' PROVE FlaggedJob(job'[v])
  BY <1>1, <1>4 DEF Holds, Alone, Escalated, FlaggedJob
<1>5. \A v \in Workers : Holds(v)' => FlaggedJob(job[v])'
  BY <1>4 DEF FlaggedJob, Flagged
<1>6. QED
  BY <1>2, <1>3, <1>5 DEF Escalated, FlaggedSaved

LEMMA EscalatedEnsureFinalReview ==
    ASSUME TypeOK, NoFallback, Escalated, faults = 0, faults' = 0,
           NEW w \in Workers, EnsureFinalReview(w)
    PROVE  Escalated'
<1>1. Owns(w, "review") /\ kv' = kv /\ submitted' = submitted
  BY CalmEnsureFinalReview DEF EnsureFinalReview
<1>2. job[w].rec \in Versions(App(w)) /\ job[w].rec \in Records /\ FlaggedJob(job[w])
  BY <1>1, VersionsOf DEF Escalated, Owns, Holds
<1>3. CASE reviews' = reviews /\ Turns(w, "intake", job[w].status, job[w].rec)
  BY <1>1, <1>2, <1>3, EscalatedFrame DEF Turns, FlaggedJob, Owns
<1>4. CASE /\ Due(Rec(w)) /\ AddReview(<<App(w), "ONB">>)
           /\ Turns(w, "linked", "none", [Rec(w) EXCEPT !.review = <<App(w), "ONB">>])
  <2>1. job[w].rec.kyc = "APPROVED"
    <3>1. job[w].rec.review = NoReview
      BY <1>1, <1>4 DEF Due, Owns
    <3>2. ~Flagged(job[w].rec)
      BY <1>1, <1>2, <3>1 DEF FlaggedJob, NoReview, Owns
    <3>3. QED
      BY <1>2, <3>2, RecordChanges DEF Flagged
  <2>2. job'[w].rec.kyc = "APPROVED" /\ job'[w].app = App(w) /\ Alone(w)
    BY <1>1, <1>4, <2>1, RecordFields DEF Turns, Owns
  <2>3. App(w) \in Apps
    BY <1>1 DEF Owns
  <2>4. ASSUME NEW a \in Apps PROVE ScreenedOnce(a)' /\ FlaggedSaved(a)'
    <3>1. SameKyc(a)
      BY <1>1, <1>2, <2>1, <2>2, KycFrame
    <3>2. CASE a # App(w)
      <4>1. reviews'[<<a, "ONB">>] = reviews[<<a, "ONB">>]
        BY <1>4, <2>3, <3>2 DEF AddReview, TypeOK, ReviewIds
      <4>2. QED
        BY <1>1, <3>1, <4>1, ScreenedFrame DEF Escalated, FlaggedSaved
    <3>3. CASE a = App(w)
      <4>1. \A r \in Versions(a) : r.kyc = "APPROVED"
        BY <1>2, <2>1, <3>3 DEF Escalated, ScreenedOnce
      <4>2. \A r \in Versions(a)' : r.kyc = "APPROVED"
        BY <3>1, <4>1 DEF SameKyc
      <4>3. a \in submitted
        BY <1>2, <3>3 DEF Escalated, ScreenedOnce
      <4>4. ScreenedOnce(a)'
        BY <1>1, <4>2, <4>3 DEF ScreenedOnce
      <4>5. QED
        BY <1>1, <4>4 DEF Escalated, FlaggedSaved
    <3>4. QED
      BY <3>2, <3>3
  <2>5. ASSUME NEW v \in Workers, Holds(v)' PROVE FlaggedJob(job'[v])
    <3>1. CASE v = w
      BY <2>2, <3>1 DEF FlaggedJob, Flagged
    <3>2. CASE v # w
      BY <2>2, <2>5, <3>2 DEF Holds, Alone, Escalated
    <3>3. QED
      BY <3>1, <3>2
  <2>6. \A v \in Workers : Holds(v)' => FlaggedJob(job[v])'
    BY <2>5 DEF FlaggedJob, Flagged
  <2>7. QED
    BY <2>4, <2>6 DEF Escalated
<1>5. QED
  BY <1>3, <1>4, CalmEnsureFinalReview

LEMMA EscalatedSave ==
    ASSUME TypeOK, NoFallback, Escalated, faults = 0, faults' = 0,
           NEW w \in Workers, Save(w)
    PROVE  Escalated'
<1>1. /\ Owns(w, "save") /\ Ends(w) /\ kv' = [kv EXCEPT ![App(w)] = job[w].rec]
      /\ reviews' = reviews /\ submitted' = submitted
  BY CalmSave DEF Save
<1>2. job[w].rec \in Versions(App(w)) /\ FlaggedJob(job[w])
  BY <1>1, VersionsOf DEF Escalated, Owns, Holds
<1>3. ASSUME NEW a \in Apps PROVE ScreenedOnce(a)' /\ FlaggedSaved(a)'
  <2>1. kv'[a] = IF a = App(w) THEN job[w].rec ELSE kv[a]
    BY <1>1 DEF TypeOK
  <2>2. SameKyc(a)
    BY <1>1, <1>2, <2>1, KycFrame DEF Ends
  <2>3. ScreenedOnce(a)'
    BY <1>1, <2>2, ScreenedFrame DEF Escalated
  <2>4. FlaggedSaved(a)'
    BY <1>1, <1>2, <2>1 DEF FlaggedSaved, FlaggedJob, Flagged, Owns, Escalated
  <2>5. QED
    BY <2>3, <2>4
<1>4. ASSUME NEW v \in Workers, Holds(v)' PROVE FlaggedJob(job[v])'
  <2>1. v # w /\ job'[v] = job[v]
    BY <1>1, <1>4 DEF Holds, Ends, Alone
  <2>2. FlaggedJob(job[v])
    BY <1>4, <2>1 DEF Holds, Escalated
  <2>3. QED
    BY <2>1, <2>2 DEF FlaggedJob, Flagged
<1>5. QED
  BY <1>3, <1>4 DEF Escalated

LEMMA EscalatedDecide ==
    ASSUME TypeOK, Escalated, faults = 0, faults' = 0, NEW w \in Workers,
           NEW id \in ReviewIds, reviews[id] # "absent", Decide(w, id)
    PROVE  Escalated'
<1>1. PICK d \in Decisions : reviews' = [reviews EXCEPT ![id] = d]
  BY CalmDecide
<1>2. \A a \in Apps : reviews'[<<a, "ONB">>] = "absent"
                         <=> reviews[<<a, "ONB">>] = "absent"
  BY <1>1 DEF TypeOK, ReviewIds, Decisions
<1>3. /\ kv' = kv /\ submitted' = submitted
      /\ Alone(w) /\ job'[w].pc = "find" /\ job'[w].rec = NoRecord
  BY CalmDecide DEF Decide, Takes
<1>4. QED
  BY <1>2, <1>3, EscalatedFrame

LEMMA EscalatedAdvance ==
    ASSUME TypeOK, NoFallback, Escalated, faults = 0, faults' = 0,
           NEW w \in Workers, Advance(w)
    PROVE  Escalated'
<1>1. ASSUME NEW pc, Owns(w, pc), pc # "find"
      PROVE  /\ job[w].rec \in Versions(App(w)) /\ job[w].rec \in Records
             /\ FlaggedJob(job[w])
  BY <1>1, VersionsOf DEF Escalated, Owns, Holds
<1>2. CASE EscalateKyc(w)
  <2>1. /\ Owns(w, "escalate") /\ AddReview(<<App(w), "KYC">>)
        /\ Turns(w, "assessed", "none", [Rec(w) EXCEPT !.review = <<App(w), "KYC">>])
    BY <1>2, CalmEscalateKyc
  <2>2. /\ job'[w].rec.kyc = job[w].rec.kyc /\ job'[w].app = App(w) /\ Alone(w)
        /\ FlaggedJob(job'[w])
    BY <1>1, <2>1, RecordFields DEF Turns, Owns, FlaggedJob
  <2>3. \A a \in Apps : reviews'[<<a, "ONB">>] = reviews[<<a, "ONB">>]
    BY <2>1 DEF AddReview, Owns, TypeOK, ReviewIds
  <2>4. QED
    BY <1>1, <1>2, <2>1, <2>2, <2>3, EscalatedFrame DEF EscalateKyc
<1>3. ASSUME NEW pc \in Pcs \ {"find", "escalate"}, Owns(w, pc), kv' = kv,
             submitted' = submitted, reviews' = reviews,
             NEW to, NEW status, NEW r, Turns(w, to, status, r),
             r.kyc = job[w].rec.kyc, r.review = job[w].rec.review
      PROVE  Escalated'
  <2>1. /\ job'[w].rec.kyc = job[w].rec.kyc /\ job'[w].app = App(w) /\ Alone(w)
        /\ FlaggedJob(job'[w])
    BY <1>1, <1>3 DEF Turns, Owns, FlaggedJob, Flagged
  <2>2. QED
    BY <1>1, <1>3, <2>1, EscalatedFrame
<1>4. CASE RecordAssessment(w)
  BY <1>3, <1>4, CalmRecordAssessment DEF RecordAssessment, Pcs
<1>5. CASE AddDocuments(w)
  <2>1. /\ Owns(w, "attach")
        /\ Turns(w, "review", "none",
                 [Rec(w) EXCEPT !.provided = Rec(w).provided \cup job[w].docs])
    BY <1>5, CalmAddDocuments
  <2>2. /\ [Rec(w) EXCEPT !.provided = Rec(w).provided \cup job[w].docs].kyc
              = job[w].rec.kyc
        /\ [Rec(w) EXCEPT !.provided = Rec(w).provided \cup job[w].docs].review
              = job[w].rec.review
    BY <2>1, RecordFields DEF Owns
  <2>3. QED
    BY <1>3, <1>5, <2>1, <2>2 DEF AddDocuments, Pcs
<1>6. CASE EnsureFinalReview(w)
  BY <1>6, EscalatedEnsureFinalReview
<1>7. CASE AuditFinalReview(w)
  BY <1>3, <1>7, CalmAuditFinalReview DEF AuditFinalReview, Pcs
<1>8. CASE RecordIntake(w)
  BY <1>3, <1>8, CalmRecordIntake DEF RecordIntake, Pcs
<1>9. ASSUME kv' = kv, submitted' = submitted, reviews' = reviews, Ends(w)
      PROVE  Escalated'
  BY <1>9, EscalatedFrame DEF Ends
<1>10. CASE NotifyStatusChange(w)
  <2>1. kv' = kv /\ submitted' = submitted /\ reviews' = reviews
    BY <1>10 DEF NotifyStatusChange
  <2>2. /\ Owns(w, "notify")
        /\ \/ Ends(w)
           \/ Turns(w, "save", "none", job[w].rec)
           \/ \E status : Turns(w, "send", status, [Rec(w) EXCEPT !.notified = status])
    BY <1>10, CalmNotifyStatusChange
  <2>3. \A status : /\ [Rec(w) EXCEPT !.notified = status].kyc = job[w].rec.kyc
                    /\ [Rec(w) EXCEPT !.notified = status].review = job[w].rec.review
    BY <2>2, RecordFields DEF Owns
  <2>4. QED
    BY <1>3, <1>9, <2>1, <2>2, <2>3 DEF Pcs
<1>11. CASE Send(w)
  BY <1>3, <1>9, <1>11, CalmSend DEF Send, Pcs
<1>12. CASE Save(w)
  BY <1>12, EscalatedSave
<1>13. CASE FindApplication(w)
  <2>1. kv' = kv /\ submitted' = submitted /\ reviews' = reviews
    BY <1>13 DEF FindApplication
  <2>2. /\ App(w) \in Apps
        /\ \/ Ends(w)
           \/ /\ kv[App(w)] # NoRecord
              /\ Takes(w, "resolve", "notify", App(w), {}, kv[App(w)])
    BY <1>13, CalmFindApplication
  <2>3. ASSUME kv[App(w)] # NoRecord,
               Takes(w, "resolve", "notify", App(w), {}, kv[App(w)])
        PROVE  Escalated'
    <3>1. kv[App(w)] \in Versions(App(w)) /\ FlaggedSaved(App(w))
      BY <2>2, <2>3, VersionsOf DEF Escalated
    <3>2. FlaggedJob(job'[w])
      BY <2>3, <3>1 DEF FlaggedSaved, FlaggedJob, Takes, Flagged
    <3>3. QED
      BY <2>1, <2>3, <3>1, <3>2, EscalatedFrame DEF Takes
  <2>4. QED
    BY <1>9, <2>1, <2>2, <2>3
<1>14. QED
  BY <1>2, <1>4, <1>5, <1>6, <1>7, <1>8, <1>10, <1>11, <1>12, <1>13 DEF Advance

LEMMA EscalatedNext ==
    TypeOK /\ Trailed /\ Escalated /\ [Next]_vars => Escalated'
<1>1. SUFFICES ASSUME TypeOK, Trailed, Escalated, [Next]_vars, faults' = 0
               PROVE  Escalated'
  BY DEF Escalated
<1>2. faults = 0
  BY <1>1, FaultsCount
<1>3. NoFallback
  BY <1>1, <1>2 DEF Trailed
<1>4. ASSUME NEW w \in Workers, Fetch(w) PROVE Escalated'
  <2>1. PICK a \in Apps, docs \in SUBSET Docs :
           kv[a] # NoRecord /\ Takes(w, "upload", "attach", a, docs, kv[a])
    BY <1>1, <1>3, <1>4, CalmFetch
  <2>2. kv[a] \in Versions(a) /\ FlaggedSaved(a)
    BY <1>1, <1>2, <2>1, VersionsOf DEF Escalated
  <2>3. FlaggedJob(job'[w])
    BY <2>1, <2>2 DEF FlaggedSaved, FlaggedJob, Takes, Flagged
  <2>4. QED
    BY <1>1, <1>2, <1>4, <2>1, <2>2, <2>3, EscalatedFrame DEF Takes, Fetch
<1>5. ASSUME NEW w \in Workers, NEW id \in ReviewIds,
             Resolve(w, id) \/ Reconsider(w, id)
      PROVE  Escalated'
  BY <1>1, <1>2, <1>5, EscalatedDecide DEF Resolve, Reconsider, Decisions
<1>6. CASE Restart
  <2>1. \A w \in Workers : job'[w] = Idle
    BY <1>6, CalmRestart
  <2>2. \A a \in Apps : fallback'[a] = NoRecord
    BY <1>6 DEF Restart
  <2>3. kv' = kv /\ submitted' = submitted /\ reviews' = reviews
    BY <1>6 DEF Restart
  <2>4. ASSUME NEW a \in Apps PROVE ScreenedOnce(a)'
    <3>1. Versions(a)' \subseteq Versions(a)
      BY <2>1, <2>2, <2>3, IdleIsNoJob DEF Versions, At
    <3>2. QED
      BY <1>1, <1>2, <2>3, <3>1, ScreenedFrame DEF SameKyc, Escalated
  <2>5. QED
    BY <1>1, <1>2, <2>1, <2>3, <2>4 DEF Escalated, FlaggedSaved, Holds
<1>7. CASE UNCHANGED vars
  <2>1. \A a \in Apps : SameKyc(a)
    BY <1>7 DEF vars, SameKyc, Versions, At, App
  <2>2. \A a \in Apps : ScreenedOnce(a)'
    BY <1>1, <1>2, <1>7, <2>1, ScreenedFrame DEF vars, Escalated
  <2>3. QED
    BY <1>1, <1>2, <1>7, <2>2 DEF vars, Escalated, FlaggedSaved, FlaggedJob, Flagged, Holds
<1>8. QED
  BY <1>1, <1>2, <1>3, <1>4, <1>5, <1>6, <1>7, EscalatedSubmit, EscalatedAdvance
  DEF Next

LEMMA EscalatedInit == Init => Escalated
<1>1. SUFFICES ASSUME Init PROVE Escalated
  OBVIOUS
<1>2. \A w \in Workers : job[w] = Idle
  BY <1>1 DEF Init
<1>3. \A a \in Apps : Versions(a) = {}
  BY <1>1, <1>2, IdleIsNoJob DEF Init, Versions, At
<1>4. \A a \in Apps : reviews[<<a, "ONB">>] = "absent" /\ kv[a] = NoRecord
  BY <1>1 DEF Init, ReviewIds
<1>5. QED
  BY <1>2, <1>3, <1>4 DEF Escalated, ScreenedOnce, FlaggedSaved, Holds

(* While no call fails, a client flagged by the screening stays with its   *)
(* review and is never put up for the final approval, whatever uploads,    *)
(* decisions and restarts come across each other.                          *)
THEOREM FlagStays == Spec => []FlaggedStaysEscalated
<1>1. Spec => [](TypeOK /\ Trailed /\ Escalated)
  BY TypeInit, TypeNext, TrailInit, TrailNext, EscalatedInit, EscalatedNext, PTL
     DEF Spec
<1>2. TypeOK /\ Escalated => FlaggedStaysEscalated
  <2>1. SUFFICES ASSUME TypeOK, Escalated, faults = 0, NEW a \in Apps,
                        kv[a] # NoRecord, kv[a].kyc = "PENDING_REVIEW"
                 PROVE  kv[a].review = <<a, "KYC">> /\ reviews[<<a, "ONB">>] = "absent"
    BY DEF FlaggedStaysEscalated
  <2>2. kv[a] \in Versions(a) /\ ScreenedOnce(a) /\ FlaggedSaved(a)
    BY <2>1, VersionsOf DEF Escalated
  <2>3. QED
    BY <2>1, <2>2 DEF ScreenedOnce, FlaggedSaved, Flagged
<1>3. QED
  BY <1>1, <1>2, PTL

-----------------------------------------------------------------------------
(* One thread, and no call fails: what a client gave is kept, and what it  *)
(* was told is true.                                                       *)
OneThread == \E w \in Workers : Workers = {w}

(* The documents of a request on its way are not lost on the way.          *)
JobKeeps(j) ==
    IF j.kind = "resolve" THEN j.pc \in {"find", "notify", "send"}
    ELSE /\ j.pc # "find" /\ j.app \in submitted
         /\ acked[j.app] \subseteq j.rec.provided
         /\ j.pc # "attach" => j.docs \subseteq j.rec.provided

SavedKeeps(a) ==
    IF kv[a] = NoRecord THEN acked[a] = {}
    ELSE a \in submitted /\ acked[a] \subseteq kv[a].provided

DocsKept ==
    /\ \A a \in Apps : SavedKeeps(a)
    /\ \A w \in Workers : job[w] # Idle => JobKeeps(job[w])

LEMMA OneIsAll ==
    ASSUME OneThread, NEW w \in Workers
    PROVE  \A v \in Workers : v = w
  BY DEF OneThread

(* No record is stored and no request is answered. *)
LEMMA DocsFrame ==
    ASSUME OneThread, DocsKept, NEW w \in Workers,
           kv' = kv, acked' = acked, submitted \subseteq submitted',
           job'[w] # Idle => JobKeeps(job[w])'
    PROVE  DocsKept'
<1>1. \A a \in Apps : SavedKeeps(a)'
  BY DEF DocsKept, SavedKeeps
<1>2. QED
  BY <1>1, OneIsAll DEF DocsKept

(* The record keeps what it had. *)
LEMMA DocsTurn ==
    ASSUME OneThread, DocsKept, NEW w \in Workers,
           kv' = kv, acked' = acked, submitted' = submitted,
           NEW pc \in Pcs \ {"find", "attach"}, Owns(w, pc), NEW to \in Others \cup {"send"},
           to = "send" \/ job[w].kind # "resolve", NEW status, NEW r,
           Turns(w, to, status, r), job[w].rec.provided \subseteq r.provided
    PROVE  DocsKept'
<1>1. JobKeeps(job[w])
  BY DEF DocsKept, Owns
<1>2. JobKeeps(job[w])'
  BY <1>1 DEF JobKeeps, Turns, Owns, Others
<1>3. QED
  BY <1>2, DocsFrame

LEMMA DocsAdvance ==
    ASSUME TypeOK, NoFallback, faults' = 0, OneThread, DocsKept,
           NEW w \in Workers, Advance(w)
    PROVE  DocsKept'
<1>1. ASSUME NEW pc, Owns(w, pc) PROVE JobKeeps(job[w])
  BY <1>1 DEF Owns, DocsKept
<1>2. ASSUME NEW pc \in {"escalate", "assessed", "attach", "review", "linked",
                         "intake", "save"}, Owns(w, pc)
      PROVE  job[w].kind # "resolve"
  BY <1>1, <1>2 DEF JobKeeps, Owns
<1>3. CASE EscalateKyc(w)
  <2>1. /\ Owns(w, "escalate")
        /\ Turns(w, "assessed", "none", [Rec(w) EXCEPT !.review = <<App(w), "KYC">>])
    BY <1>3, CalmEscalateKyc
  <2>2. [Rec(w) EXCEPT !.review = <<App(w), "KYC">>].provided = job[w].rec.provided
    BY <2>1, RecordFields DEF Owns
  <2>3. QED
    BY <1>2, <1>3, <2>1, <2>2, DocsTurn DEF EscalateKyc, Pcs, Others
<1>4. CASE RecordAssessment(w)
  BY <1>2, <1>4, CalmRecordAssessment, DocsTurn DEF RecordAssessment, Pcs, Others
<1>5. CASE AddDocuments(w)
  <2>1. /\ Owns(w, "attach")
        /\ Turns(w, "review", "none",
                 [Rec(w) EXCEPT !.provided = Rec(w).provided \cup job[w].docs])
    BY <1>5, CalmAddDocuments
  <2>2. job'[w].rec.provided = job[w].rec.provided \cup job[w].docs
    BY <2>1, RecordFields DEF Owns, Turns
  <2>3. JobKeeps(job[w])'
    BY <1>1, <1>5, <2>1, <2>2 DEF JobKeeps, Turns, Owns, AddDocuments
  <2>4. QED
    BY <1>5, <2>3, DocsFrame DEF AddDocuments
<1>6. CASE EnsureFinalReview(w)
  <2>1. /\ Owns(w, "review")
        /\ \/ Turns(w, "intake", job[w].status, job[w].rec)
           \/ Turns(w, "linked", "none", [Rec(w) EXCEPT !.review = <<App(w), "ONB">>])
    BY <1>6, CalmEnsureFinalReview
  <2>2. [Rec(w) EXCEPT !.review = <<App(w), "ONB">>].provided = job[w].rec.provided
    BY <2>1, RecordFields DEF Owns
  <2>3. QED
    BY <1>2, <1>6, <2>1, <2>2, DocsTurn DEF EnsureFinalReview, Pcs, Others
<1>7. CASE AuditFinalReview(w)
  BY <1>2, <1>7, CalmAuditFinalReview, DocsTurn DEF AuditFinalReview, Pcs, Others
<1>8. CASE RecordIntake(w)
  BY <1>2, <1>8, CalmRecordIntake, DocsTurn DEF RecordIntake, Pcs, Others
<1>9. CASE NotifyStatusChange(w)
  <2>1. kv' = kv /\ acked' = acked /\ submitted' = submitted
    BY <1>9 DEF NotifyStatusChange
  <2>2. /\ Owns(w, "notify")
        /\ \/ Ends(w)
           \/ job[w].kind # "resolve" /\ Turns(w, "save", "none", job[w].rec)
           \/ \E status : Turns(w, "send", status, [Rec(w) EXCEPT !.notified = status])
    BY <1>9, CalmNotifyStatusChange
  <2>3. CASE Ends(w)
    BY <2>1, <2>3, DocsFrame DEF Ends
  <2>4. CASE job[w].kind # "resolve" /\ Turns(w, "save", "none", job[w].rec)
    BY <2>1, <2>2, <2>4, DocsTurn DEF Pcs, Others
  <2>5. ASSUME NEW status, Turns(w, "send", status, [Rec(w) EXCEPT !.notified = status])
        PROVE  DocsKept'
    <3>1. [Rec(w) EXCEPT !.notified = status].provided = job[w].rec.provided
      BY <2>2, RecordFields DEF Owns
    <3>2. QED
      BY <2>1, <2>2, <2>5, <3>1, DocsTurn DEF Pcs
  <2>6. QED
    BY <2>2, <2>3, <2>4, <2>5
<1>10. CASE Send(w)
  <2>1. kv' = kv /\ acked' = acked /\ submitted' = submitted
    BY <1>10 DEF Send
  <2>2. /\ Owns(w, "send")
        /\ IF job[w].kind = "resolve" THEN Ends(w)
           ELSE Turns(w, "save", "none", job[w].rec)
    BY <1>10, CalmSend
  <2>3. CASE job[w].kind = "resolve"
    BY <2>1, <2>2, <2>3, DocsFrame DEF Ends
  <2>4. CASE job[w].kind # "resolve"
    BY <2>1, <2>2, <2>4, DocsTurn DEF Pcs, Others
  <2>5. QED
    BY <2>3, <2>4
<1>11. CASE Save(w)
  <2>1. /\ Owns(w, "save") /\ Ends(w)
        /\ kv' = [kv EXCEPT ![App(w)] = job[w].rec]
        /\ acked' = [acked EXCEPT ![App(w)] = acked[App(w)] \cup job[w].docs]
        /\ submitted' = submitted
    BY <1>11, CalmSave DEF Save
  <2>2. /\ App(w) = job[w].app /\ App(w) \in submitted
        /\ acked[App(w)] \cup job[w].docs \subseteq job[w].rec.provided
        /\ job[w].rec # NoRecord
    BY <1>1, <1>2, <2>1, NoRecordIsNone DEF JobKeeps, Owns
  <2>3. ASSUME NEW a \in Apps PROVE SavedKeeps(a)'
    <3>1. CASE a = App(w)
      BY <2>1, <2>2, <3>1 DEF SavedKeeps, TypeOK
    <3>2. CASE a # App(w)
      <4>1. kv'[a] = kv[a] /\ acked'[a] = acked[a] /\ SavedKeeps(a)
        BY <2>1, <3>2 DEF TypeOK, DocsKept
      <4>2. QED
        BY <2>1, <4>1 DEF SavedKeeps
    <3>3. QED
      BY <3>1, <3>2
  <2>4. QED
    BY <2>1, <2>3, OneIsAll DEF DocsKept, Ends
<1>12. CASE FindApplication(w)
  <2>1. kv' = kv /\ acked' = acked /\ submitted' = submitted
    BY <1>12 DEF FindApplication
  <2>2. job'[w] # Idle => JobKeeps(job[w])'
    BY <1>12, CalmFindApplication DEF Takes, Ends, JobKeeps
  <2>3. QED
    BY <2>1, <2>2, DocsFrame
<1>13. QED
  BY <1>3, <1>4, <1>5, <1>6, <1>7, <1>8, <1>9, <1>10, <1>11, <1>12 DEF Advance

LEMMA DocsNext ==
    ASSUME TypeOK, NoFallback, faults' = 0, OneThread, DocsKept, [Next]_vars
    PROVE  DocsKept'
<1>1. ASSUME NEW w \in Workers, Submit(w) PROVE DocsKept'
  <2>1. PICK a \in Apps \ submitted, docs \in SUBSET Docs, r \in Records :
           /\ submitted' = submitted \cup {a} /\ r.provided = docs
           /\ job'[w] # Idle /\ job'[w].kind = "submit" /\ job'[w].app = a
           /\ job'[w].pc # "find" /\ job'[w].docs = docs /\ job'[w].rec = r
    BY <1>1, CalmSubmit DEF Takes
  <2>2. kv' = kv /\ acked' = acked /\ acked[a] = {}
    BY <1>1, <2>1 DEF Submit, DocsKept, SavedKeeps
  <2>3. JobKeeps(job[w])'
    BY <2>1, <2>2 DEF JobKeeps
  <2>4. QED
    BY <2>1, <2>2, <2>3, DocsFrame
<1>2. ASSUME NEW w \in Workers, Fetch(w) PROVE DocsKept'
  <2>1. PICK a \in Apps, docs \in SUBSET Docs :
           kv[a] # NoRecord /\ Takes(w, "upload", "attach", a, docs, kv[a])
    BY <1>2, CalmFetch
  <2>2. kv' = kv /\ acked' = acked /\ submitted' = submitted /\ SavedKeeps(a)
    BY <1>2, <2>1 DEF Fetch, DocsKept
  <2>3. JobKeeps(job[w])'
    BY <2>1, <2>2 DEF JobKeeps, SavedKeeps, Takes
  <2>4. QED
    BY <2>2, <2>3, DocsFrame
<1>3. ASSUME NEW w \in Workers, NEW id \in ReviewIds, Decide(w, id) PROVE DocsKept'
  <2>1. kv' = kv /\ acked' = acked /\ submitted' = submitted
    BY <1>3 DEF Decide
  <2>2. JobKeeps(job[w])'
    BY <1>3, CalmDecide DEF JobKeeps, Takes
  <2>3. QED
    BY <2>1, <2>2, DocsFrame
<1>4. CASE Restart
  BY <1>4 DEF Restart, DocsKept, SavedKeeps
<1>5. CASE UNCHANGED vars
  BY <1>5 DEF vars, DocsKept, SavedKeeps, JobKeeps
<1>6. QED
  BY <1>1, <1>2, <1>3, <1>4, <1>5, DocsAdvance DEF Next, Resolve, Reconsider

-----------------------------------------------------------------------------
(* The status a client is shown, from the queue q and the record r; m are  *)
(* the mails it got and s is what the store has of it.                     *)
Final == {"approved", "declined"}
Seen(q, r) == IF r.review = NoReview THEN "absent" ELSE q[r.review]
View(q, r) == ClientView(r, Seen(q, r))

LastIs(m, status) == m # <<>> /\ m[Len(m)] = status

(* The last mail says the status, and no other status is taken for mailed  *)
(* but that of a review since decided: its decision is not saved.          *)
Told(m, q, r) ==
    LastIs(m, View(q, r)) /\ (r.notified = View(q, r) \/ View(q, r) \in Final)

(* Decided just now, and the client does not know. *)
Fresh(q, r) == r.notified \notin Final /\ Seen(q, r) \in Decisions

Mailable(s) == s # NoRecord /\ s.email

Finding(j, m, q, s) ==
    Mailable(s) => IF s.review = <<j.app, j.gate>> THEN Fresh(q, s) ELSE Told(m, q, s)

Resolving(j, q, s) ==
    IF j.pc = "send" THEN s # NoRecord /\ j.status = View(q, s) /\ j.status \in Final
    ELSE j.rec = s /\ (j.rec.email => Fresh(q, j.rec))

Serving(j, m, q) ==
    j.rec.email =>
        CASE j.pc = "escalate" -> j.rec.notified = "none"
          [] j.pc = "send" -> j.rec.notified = j.status /\ j.status = View(q, j.rec)
          [] j.pc = "save" -> Told(m, q, j.rec)
          [] OTHER -> \/ j.rec.notified = "none"
                      \/ LastIs(m, j.rec.notified)
                      \/ LastIs(m, View(q, j.rec)) /\ View(q, j.rec) \in Final

Mailing(j, m, q, s) ==
    IF j.pc = "find" THEN Finding(j, m, q, s)
    ELSE IF j.kind = "resolve" THEN Resolving(j, q, s)
    ELSE Serving(j, m, q)

(* Reviewers decided on application a at most once each. *)
Few(a) == \A id \in {a} \X {"KYC", "ONB"} : Len(decided[id]) <= 1

MailingFor(a, w) ==
    IF job[w] = Idle \/ job[w].app # a
    THEN Mailable(kv[a]) => Told(sent[a], reviews, kv[a])
    ELSE Mailing(job[w], sent[a], reviews, kv[a])

Decided == \A id \in ReviewIds : reviews[id] \in Decisions => decided[id] # <<>>

Mailed ==
    restarts = 0 =>
        /\ Decided
        /\ \A a \in Apps : Few(a) => \A w \in Workers : MailingFor(a, w)

LEMMA FewDef == \A a : Few(a) <=> /\ Len(decided[<<a, "KYC">>]) <= 1
                                  /\ Len(decided[<<a, "ONB">>]) <= 1
  BY DEF Few

(* What a reviewer sees depends on the review the record carries alone,    *)
(* and not on the status notified last.                                    *)
LEMMA ViewFacts ==
    /\ \A q, r : View(q, r) \in Statuses
    /\ \A q, r : View(q, r) \in Final <=> Seen(q, r) \in Decisions
    /\ \A q, r, s : r.review = s.review /\ r.provided = s.provided /\ r.kyc = s.kyc
                       => View(q, r) = View(q, s) /\ Seen(q, r) = Seen(q, s)
    /\ \A q, p, r : r.review = NoReview \/ q[r.review] = p[r.review]
                       => View(q, r) = View(p, r) /\ Seen(q, r) = Seen(p, r)
    /\ \A q, r, s : r.review = s.review /\ View(q, r) \in Final
                       => View(q, s) = View(q, r)
    /\ \A q, r : r.review = NoReview => View(q, r) \notin Final
<1>1. \A q, r : View(q, r) \in Statuses
  BY ClientViewType DEF View
<1>2. \A q, r : View(q, r) \in Final <=> Seen(q, r) \in Decisions
  BY DEF View, ClientView, Final, Decisions
<1>3. \A q, r, s : r.review = s.review /\ r.provided = s.provided /\ r.kyc = s.kyc
                      => View(q, r) = View(q, s) /\ Seen(q, r) = Seen(q, s)
  BY DEF View, ClientView, Seen
<1>4. \A q, p, r : r.review = NoReview \/ q[r.review] = p[r.review]
                      => View(q, r) = View(p, r) /\ Seen(q, r) = Seen(p, r)
  BY DEF View, Seen
<1>5. \A q, r, s : r.review = s.review /\ View(q, r) \in Final
                      => View(q, s) = View(q, r)
  <2>1. \A q, r, s : r.review = s.review => Seen(q, r) = Seen(q, s)
    BY DEF Seen
  <2>2. QED
    BY <2>1 DEF View, ClientView, Final
<1>6. \A q, r : r.review = NoReview => View(q, r) \notin Final
  BY DEF View, Seen, ClientView, Final
<1>7. QED
  BY <1>1, <1>2, <1>3, <1>4, <1>5, <1>6

(* Mails and decisions about other applications do not matter.             *)
LEMMA MailingOthers ==
    ASSUME TypeOK, RecordsWhole, NEW w \in Workers, NEW b \in Apps, MailingFor(b, w),
           job[w] = Idle \/ job[w].app # b, job'[w] = Idle \/ job'[w].app # b,
           kv'[b] = kv[b], sent'[b] = sent[b],
           reviews'[<<b, "KYC">>] = reviews[<<b, "KYC">>],
           reviews'[<<b, "ONB">>] = reviews[<<b, "ONB">>]
    PROVE  MailingFor(b, w)'
<1>1. SUFFICES ASSUME Mailable(kv[b]) PROVE Told(sent[b], reviews', kv[b])
  BY DEF MailingFor
<1>2. Told(sent[b], reviews, kv[b])
  BY <1>1 DEF MailingFor
<1>3. kv[b].review = NoReview \/ reviews'[kv[b].review] = reviews[kv[b].review]
  BY <1>1 DEF RecordsWhole, Whole, Mailable
<1>4. QED
  BY <1>2, <1>3, ViewFacts DEF Told

(* A step of the thread about application a: what to show of it.           *)
LEMMA MailFrame ==
    ASSUME TypeOK, RecordsWhole, OneThread, NEW w \in Workers, NEW a \in Apps,
           Mailed, restarts = 0, Decided',
           job[w] = Idle \/ job[w].app = a, job'[w] = Idle \/ job'[w].app = a,
           \A b \in Apps \ {a} : kv'[b] = kv[b] /\ sent'[b] = sent[b],
           \A b \in Apps \ {a}, k \in {"KYC", "ONB"} :
              reviews'[<<b, k>>] = reviews[<<b, k>>] /\ decided'[<<b, k>>] = decided[<<b, k>>],
           Few(a)' => MailingFor(a, w)'
    PROVE  Mailed'
<1>1. ASSUME NEW b \in Apps \ {a}, Few(b)' PROVE MailingFor(b, w)'
  <2>1. decided'[<<b, "KYC">>] = decided[<<b, "KYC">>]
        /\ decided'[<<b, "ONB">>] = decided[<<b, "ONB">>]
    OBVIOUS
  <2>2. Few(b)
    BY <1>1, <2>1 DEF Few
  <2>3. MailingFor(b, w)
    BY <2>2 DEF Mailed
  <2>4. QED
    BY <2>3, MailingOthers
<1>2. \A v \in Workers : v = w
  BY OneIsAll
<1>3. QED
  BY <1>1, <1>2 DEF Mailed

(* The same, where only the thread, its mail or its record moves.          *)
LEMMA MailTurn ==
    ASSUME TypeOK, RecordsWhole, OneThread, NEW w \in Workers, NEW a \in Apps,
           Mailed, restarts = 0, decided' = decided, reviews' = reviews,
           job[w] = Idle \/ job[w].app = a, job'[w] = Idle \/ job'[w].app = a,
           \A b \in Apps \ {a} : kv'[b] = kv[b] /\ sent'[b] = sent[b],
           Few(a) => MailingFor(a, w)'
    PROVE  Mailed'
<1>1. Decided'
  BY DEF Mailed, Decided
<1>2. Few(a)' => MailingFor(a, w)'
  BY DEF Few
<1>3. QED
  BY <1>1, <1>2, MailFrame

(* Filing a review is the same, but for the view of the record it is for.  *)
LEMMA MailFiled ==
    ASSUME TypeOK, RecordsWhole, OneThread, NEW w \in Workers, NEW a \in Apps,
           Mailed, restarts = 0, decided' = decided, NEW k \in {"KYC", "ONB"},
           AddReview(<<a, k>>), kv' = kv, sent' = sent,
           job[w].app = a, job'[w].app = a,
           Few(a) => Serving(job'[w], sent[a], reviews'),
           job'[w] # Idle, job'[w].pc # "find", job'[w].kind # "resolve"
    PROVE  Mailed'
<1>1. <<a, k>> \in ReviewIds
  BY DEF ReviewIds
<1>2. \A id \in ReviewIds : reviews'[id] = IF id = <<a, k>> THEN "pending" ELSE reviews[id]
  BY <1>1 DEF AddReview, TypeOK
<1>3. Decided'
  BY <1>2 DEF Mailed, Decided, Decisions
<1>4. \A b \in Apps \ {a}, kk \in {"KYC", "ONB"} :
         reviews'[<<b, kk>>] = reviews[<<b, kk>>] /\ decided'[<<b, kk>>] = decided[<<b, kk>>]
  BY <1>2 DEF ReviewIds
<1>5. Few(a)' => MailingFor(a, w)'
  BY DEF Few, MailingFor, Mailing
<1>6. QED
  BY <1>3, <1>4, <1>5, MailFrame

LEMMA MailSubmit ==
    ASSUME TypeOK, RecordsWhole, OneThread, Mailed, restarts = 0, NEW w \in Workers,
           Submit(w)
    PROVE  Mailed'
<1>1. PICK a \in Apps, r \in Records :
         /\ r.notified = "none"
         /\ job'[w] # Idle /\ job'[w].app = a /\ job'[w].rec = r
         /\ job'[w].kind = "submit" /\ job'[w].pc \in {"escalate", "assessed"}
  BY CalmSubmit DEF Takes
<1>2. MailingFor(a, w)'
  BY <1>1 DEF MailingFor, Mailing, Serving
<1>3. job[w] = Idle
  BY IdleIsNoJob DEF Submit, At, TypeOK
<1>4. QED
  BY <1>1, <1>2, <1>3, MailTurn DEF Submit

LEMMA MailFetch ==
    ASSUME TypeOK, NoFallback, RecordsWhole, OneThread, Mailed, restarts = 0,
           NEW w \in Workers, Fetch(w)
    PROVE  Mailed'
<1>1. PICK a \in Apps, docs \in SUBSET Docs :
         kv[a] # NoRecord /\ Takes(w, "upload", "attach", a, docs, kv[a])
  BY CalmFetch
<1>2. job[w] = Idle
  BY IdleIsNoJob DEF Fetch, At, TypeOK
<1>3. kv' = kv /\ sent' = sent /\ reviews' = reviews /\ decided' = decided
  BY DEF Fetch
<1>4. ASSUME Few(a) PROVE MailingFor(a, w)'
  <2>1. kv[a].email => Told(sent[a], reviews, kv[a])
    BY <1>1, <1>2, <1>4 DEF Mailed, MailingFor, Mailable
  <2>2. Serving(job'[w], sent[a], reviews)
    BY <1>1, <2>1 DEF Serving, Told, Takes
  <2>3. QED
    BY <1>1, <1>3, <2>2 DEF MailingFor, Mailing, Takes
<1>5. QED
  BY <1>1, <1>2, <1>3, <1>4, MailTurn DEF Takes

(* What is known of the request a thread is serving. *)
LEMMA MailingNow ==
    ASSUME Mailed, restarts = 0, NEW w \in Workers, NEW pc, Owns(w, pc), pc # "find",
           Few(App(w))
    PROVE  IF job[w].kind = "resolve" THEN Resolving(job[w], reviews, kv[App(w)])
           ELSE Serving(job[w], sent[App(w)], reviews)
  BY DEF Mailed, MailingFor, Mailing, Owns

(* Nothing of the record that the client sees changes. *)
LEMMA MailSame ==
    ASSUME TypeOK, RecordsWhole, OneThread, Mailed, restarts = 0, NEW w \in Workers,
           NEW pc \in Pcs \ {"find", "escalate", "send", "save"}, Owns(w, pc),
           job[w].kind # "resolve",
           NEW to \in Pcs \ {"find", "escalate", "send", "save"},
           NEW status, NEW r, Turns(w, to, status, r),
           r.email = job[w].rec.email, r.notified = job[w].rec.notified,
           r.review = job[w].rec.review,
           kv' = kv, sent' = sent, reviews' = reviews, decided' = decided
    PROVE  Mailed'
<1>1. PICK a \in Apps : a = App(w)
  BY DEF Owns
<1>2. ASSUME Few(a) PROVE MailingFor(a, w)'
  <2>1. Serving(job[w], sent[a], reviews)
    BY <1>1, <1>2, MailingNow
  <2>2. Serving(job'[w], sent[a], reviews)
    <3>1. View(reviews, job[w].rec) \in Final =>
             View(reviews, r) = View(reviews, job[w].rec)
      BY ViewFacts
    <3>2. QED
      BY <2>1, <3>1 DEF Serving, Turns, Owns
  <2>3. QED
    BY <1>1, <2>2 DEF MailingFor, Mailing, Turns, Owns
<1>3. QED
  BY <1>1, <1>2, MailTurn DEF Turns, Owns

LEMMA MailEscalateKyc ==
    ASSUME TypeOK, NoFallback, faults' = 0, RecordsWhole, OneThread, DocsKept, Mailed,
           restarts = 0, NEW w \in Workers, EscalateKyc(w)
    PROVE  Mailed'
<1>1. /\ Owns(w, "escalate") /\ AddReview(<<App(w), "KYC">>)
      /\ Turns(w, "assessed", "none", [Rec(w) EXCEPT !.review = <<App(w), "KYC">>])
  BY CalmEscalateKyc
<1>2. job[w].kind # "resolve"
  BY <1>1 DEF DocsKept, JobKeeps, Owns
<1>3. /\ job'[w].rec.notified = job[w].rec.notified
      /\ job'[w].rec.email = job[w].rec.email
  BY <1>1, RecordFields DEF Owns, Turns
<1>4. ASSUME Few(App(w)) PROVE Serving(job'[w], sent[App(w)], reviews')
  <2>1. Serving(job[w], sent[App(w)], reviews)
    BY <1>1, <1>2, <1>4, MailingNow
  <2>2. QED
    BY <1>1, <1>3, <2>1 DEF Serving, Turns, Owns
<1>5. QED
  BY <1>1, <1>2, <1>4, MailFiled DEF EscalateKyc, Turns, Owns

LEMMA MailEnsureFinalReview ==
    ASSUME TypeOK, NoFallback, faults' = 0, RecordsWhole, OneThread, DocsKept, Mailed,
           restarts = 0, NEW w \in Workers, EnsureFinalReview(w)
    PROVE  Mailed'
<1>1. /\ Owns(w, "review")
      /\ \/ /\ ~Due(Rec(w)) /\ reviews' = reviews
            /\ Turns(w, "intake", job[w].status, job[w].rec)
         \/ /\ Due(Rec(w)) /\ AddReview(<<App(w), "ONB">>)
            /\ Turns(w, "linked", "none", [Rec(w) EXCEPT !.review = <<App(w), "ONB">>])
  BY CalmEnsureFinalReview
<1>2. job[w].kind # "resolve" /\ kv' = kv /\ sent' = sent /\ decided' = decided
  BY <1>1 DEF DocsKept, JobKeeps, Owns, EnsureFinalReview
<1>3. CASE reviews' = reviews /\ Turns(w, "intake", job[w].status, job[w].rec)
  BY <1>1, <1>2, <1>3, MailSame DEF Pcs
<1>4. CASE /\ Due(Rec(w)) /\ AddReview(<<App(w), "ONB">>)
           /\ Turns(w, "linked", "none", [Rec(w) EXCEPT !.review = <<App(w), "ONB">>])
  <2>1. /\ job'[w].rec.notified = job[w].rec.notified
        /\ job'[w].rec.email = job[w].rec.email
        /\ job[w].rec.review = NoReview
    BY <1>1, <1>4, RecordFields DEF Owns, Turns, Due
  <2>2. ASSUME Few(App(w)) PROVE Serving(job'[w], sent[App(w)], reviews')
    <3>1. Serving(job[w], sent[App(w)], reviews)
      BY <1>1, <1>2, <2>2, MailingNow
    <3>2. View(reviews, job[w].rec) \notin Final
      BY <2>1, ViewFacts
    <3>3. QED
      BY <1>1, <1>4, <2>1, <3>1, <3>2 DEF Serving, Turns, Owns
  <2>3. QED
    BY <1>1, <1>2, <1>4, <2>2, MailFiled DEF Turns, Owns
<1>5. QED
  BY <1>1, <1>3, <1>4

LEMMA MailNotifyStatusChange ==
    ASSUME TypeOK, NoFallback, faults' = 0, RecordsWhole, OneThread, DocsKept, Mailed,
           restarts = 0, NEW w \in Workers, NotifyStatusChange(w)
    PROVE  Mailed'
<1> DEFINE r == job[w].rec
           status == View(reviews, r)
<1>0. Owns(w, "notify")
  BY CalmNotifyStatusChange
<1> PICK a \in Apps : a = App(w)
  BY <1>0 DEF Owns
<1>1. /\ Owns(w, "notify") /\ Rec(w) = r /\ a = job[w].app /\ a = App(w)
      /\ r \in Records /\ r # NoRecord
  BY <1>0, NoRecordIsNone DEF Owns
<1>2. ClientView(Rec(w), ReviewState(Rec(w))) = status
  BY <1>1 DEF View, Seen, ReviewState
<1>3. \/ /\ r.email => r.notified = status
         /\ IF job[w].kind = "resolve" THEN Ends(w) ELSE Turns(w, "save", "none", r)
      \/ /\ r.email /\ r.notified # status
         /\ Turns(w, "send", status, [r EXCEPT !.notified = status])
  BY <1>1, <1>2, CalmNotifyStatusChange
<1>4. kv' = kv /\ sent' = sent /\ reviews' = reviews /\ decided' = decided
  BY DEF NotifyStatusChange
<1>5. status # "none"
  BY ViewFacts DEF Statuses
<1> HIDE DEF r, status
<1>6. ASSUME Few(a) PROVE MailingFor(a, w)'
  <2>1. IF job[w].kind = "resolve" THEN Resolving(job[w], reviews, kv[a])
        ELSE Serving(job[w], sent[a], reviews)
    BY <1>1, <1>6, MailingNow
  <2>2. CASE /\ r.email => r.notified = status
             /\ job[w].kind = "resolve" /\ Ends(w)
    <3>1. r = kv[a] /\ (r.email => Fresh(reviews, r))
      BY <1>1, <2>1, <2>2 DEF Resolving, Owns, r
    <3>2. ~r.email
      BY <2>2, <3>1, ViewFacts DEF Fresh, status
    <3>3. QED
      BY <1>4, <2>2, <3>1, <3>2 DEF MailingFor, Mailable, Ends
  <2>3. CASE /\ r.email => r.notified = status
             /\ job[w].kind # "resolve" /\ Turns(w, "save", "none", r)
    <3>1. r.email => Told(sent[a], reviews, r)
      BY <1>1, <1>5, <2>1, <2>3 DEF Serving, Told, Owns, r, status
    <3>2. Serving(job'[w], sent[a], reviews)
      BY <2>3, <3>1 DEF Serving, Turns
    <3>3. QED
      BY <1>1, <1>4, <2>3, <3>2 DEF MailingFor, Mailing, Turns
  <2>4. CASE /\ r.email /\ r.notified # status
             /\ Turns(w, "send", status, [r EXCEPT !.notified = status])
    <3> DEFINE n == [r EXCEPT !.notified = status]
    <3>0. n.review = r.review /\ n.provided = r.provided /\ n.kyc = r.kyc
      BY <1>1, RecordFields
    <3>1. View(reviews, n) = status
      <4> HIDE DEF n
      <4>1. QED
        BY <3>0, ViewFacts DEF status
    <3>2. n.notified = status
      BY <1>1, RecordFields
    <3>3. CASE job[w].kind = "resolve"
      <4>1. r = kv[a] /\ Fresh(reviews, r)
        BY <1>1, <2>1, <2>4, <3>3 DEF Resolving, Owns, r
      <4>2. status \in Final
        BY <4>1, ViewFacts DEF Fresh, status
      <4>3. Resolving(job'[w], reviews, kv[a])
        BY <1>1, <2>4, <4>1, <4>2 DEF Resolving, Turns, status
      <4>4. QED
        BY <1>1, <1>4, <2>4, <3>3, <4>3 DEF MailingFor, Mailing, Turns
    <3>4. CASE job[w].kind # "resolve"
      <4>1. Serving(job'[w], sent[a], reviews)
        BY <2>4, <3>1, <3>2 DEF Serving, Turns
      <4>2. QED
        BY <1>1, <1>4, <2>4, <3>4, <4>1 DEF MailingFor, Mailing, Turns
    <3>5. QED
      BY <3>3, <3>4
  <2>5. QED
    BY <1>3, <2>2, <2>3, <2>4
<1>7. job[w].app = a /\ (job'[w] = Idle \/ job'[w].app = a)
  BY <1>1, <1>3 DEF Turns, Ends
<1>8. QED
  BY <1>1, <1>4, <1>6, <1>7, MailTurn

LEMMA MailSend ==
    ASSUME TypeOK, NoFallback, faults' = 0, RecordsWhole, OneThread, DocsKept, Mailed,
           restarts = 0, NEW w \in Workers, Send(w)
    PROVE  Mailed'
<1>0. Owns(w, "send")
  BY CalmSend
<1> PICK a \in Apps : a = App(w)
  BY <1>0 DEF Owns
<1> DEFINE m == Append(sent[a], job[w].status)
<1>1. /\ Owns(w, "send") /\ sent' = [sent EXCEPT ![a] = m]
      /\ IF job[w].kind = "resolve" THEN Ends(w)
         ELSE Turns(w, "save", "none", job[w].rec)
      /\ a = job[w].app /\ a = App(w)
  BY CalmSend DEF Owns
<1>2. kv' = kv /\ reviews' = reviews /\ decided' = decided
  BY DEF Send
<1>3. job[w].status \in Statuses
  BY <1>1 DEF TypeOK, JobOK, Owns, Jobs
<1>4. LastIs(m, job[w].status)
  <2>1. sent[a] \in Seq(Statuses)
    BY <1>1 DEF TypeOK
  <2>2. QED
    BY <1>3, <2>1, AppendProperties DEF LastIs
<1>5. sent'[a] = m /\ \A b \in Apps \ {a} : sent'[b] = sent[b]
  BY <1>1 DEF TypeOK
<1> HIDE DEF m
<1>6. ASSUME Few(a) PROVE MailingFor(a, w)'
  <2>1. IF job[w].kind = "resolve" THEN Resolving(job[w], reviews, kv[a])
        ELSE Serving(job[w], sent[a], reviews)
    BY <1>1, <1>6, MailingNow
  <2>2. CASE job[w].kind = "resolve"
    <3>1. job[w].status = View(reviews, kv[a]) /\ job[w].status \in Final
      BY <1>1, <2>1, <2>2 DEF Resolving, Owns
    <3>2. Told(m, reviews, kv[a])
      BY <1>4, <3>1 DEF Told
    <3>3. QED
      BY <1>1, <1>2, <1>5, <2>2, <3>2 DEF MailingFor, Ends
  <2>3. CASE job[w].kind # "resolve"
    <3>1. job[w].rec.email => Told(m, reviews, job[w].rec)
      BY <1>1, <1>4, <2>1, <2>3 DEF Serving, Told, Owns
    <3>2. Serving(job'[w], m, reviews)
      BY <1>1, <2>3, <3>1 DEF Serving, Turns
    <3>3. QED
      BY <1>1, <1>2, <1>5, <2>3, <3>2 DEF MailingFor, Mailing, Turns
  <2>4. QED
    BY <2>2, <2>3
<1>7. job'[w] = Idle \/ job'[w].app = a
  BY <1>1 DEF Turns, Ends
<1>8. QED
  BY <1>1, <1>2, <1>5, <1>6, <1>7, MailTurn

LEMMA MailSave ==
    ASSUME TypeOK, NoFallback, faults' = 0, RecordsWhole, OneThread, DocsKept, Mailed,
           restarts = 0, NEW w \in Workers, Save(w)
    PROVE  Mailed'
<1>1. /\ Owns(w, "save") /\ Ends(w)
      /\ kv' = [kv EXCEPT ![App(w)] = job[w].rec]
  BY CalmSave
<1>2. sent' = sent /\ reviews' = reviews /\ decided' = decided
  BY DEF Save
<1>3. PICK a \in Apps : a = App(w) /\ a = job[w].app /\ job[w].kind # "resolve"
  BY <1>1 DEF DocsKept, JobKeeps, Owns
<1>4. kv'[a] = job[w].rec /\ \A b \in Apps \ {a} : kv'[b] = kv[b]
  BY <1>1, <1>3 DEF TypeOK
<1>5. ASSUME Few(a) PROVE MailingFor(a, w)'
  <2>1. job[w].rec.email => Told(sent[a], reviews, job[w].rec)
    BY <1>1, <1>3, <1>5, MailingNow DEF Serving, Owns
  <2>2. Mailable(kv'[a]) => Told(sent'[a], reviews', kv'[a])
    BY <1>2, <1>4, <2>1 DEF Mailable
  <2>3. QED
    BY <1>1, <2>2 DEF MailingFor, Ends
<1>6. QED
  BY <1>1, <1>2, <1>3, <1>4, <1>5, MailTurn DEF Ends

LEMMA MailFindApplication ==
    ASSUME TypeOK, faults' = 0, RecordsWhole, OneThread, Mailed, restarts = 0,
           NEW w \in Workers, FindApplication(w)
    PROVE  Mailed'
<1>1. PICK a \in Apps : a = App(w)
  BY CalmFindApplication
<1>2. /\ job[w] # Idle /\ job[w].pc = "find" /\ a = job[w].app
      /\ IF kv[a] # NoRecord /\ kv[a].review = <<a, job[w].gate>>
         THEN Takes(w, "resolve", "notify", a, {}, kv[a]) ELSE Ends(w)
  BY <1>1, CalmFindApplication DEF App
<1>3. kv' = kv /\ sent' = sent /\ reviews' = reviews /\ decided' = decided
  BY DEF FindApplication
<1>4. ASSUME Few(a) PROVE MailingFor(a, w)'
  <2>1. Finding(job[w], sent[a], reviews, kv[a])
    BY <1>2, <1>4 DEF Mailed, MailingFor, Mailing
  <2>2. CASE kv[a] # NoRecord /\ kv[a].review = <<a, job[w].gate>>
    <3>1. kv[a].email => Fresh(reviews, kv[a])
      BY <1>2, <2>1, <2>2 DEF Finding, Mailable
    <3>2. Resolving(job'[w], reviews, kv[a])
      BY <1>2, <2>2, <3>1 DEF Resolving, Takes
    <3>3. QED
      BY <1>2, <1>3, <2>2, <3>2 DEF MailingFor, Mailing, Takes
  <2>3. CASE ~(kv[a] # NoRecord /\ kv[a].review = <<a, job[w].gate>>)
    BY <1>2, <1>3, <2>1, <2>3 DEF MailingFor, Finding, Mailable, Ends
  <2>4. QED
    BY <2>2, <2>3
<1>5. job'[w] = Idle \/ job'[w].app = a
  BY <1>2 DEF Takes, Ends
<1>6. QED
  BY <1>2, <1>3, <1>4, <1>5, MailTurn

(* A review decided for the first time was in no final state before.       *)
LEMMA MailDecide ==
    ASSUME TypeOK, faults' = 0, RecordsWhole, OneThread, Mailed, restarts = 0,
           NEW w \in Workers, NEW id \in ReviewIds, Decide(w, id)
    PROVE  Mailed'
<1>1. PICK a \in Apps, k \in {"KYC", "ONB"} : id = <<a, k>>
  BY DEF ReviewIds
<1>2. PICK d \in Decisions :
         /\ reviews' = [reviews EXCEPT ![id] = d]
         /\ decided' = [decided EXCEPT ![id] = Append(decided[id], d)]
  BY CalmDecide
<1>3. /\ job'[w] # Idle /\ job'[w].app = a /\ job'[w].pc = "find" /\ job'[w].gate = k
  BY <1>1, CalmDecide DEF Takes
<1>4. job[w] = Idle /\ kv' = kv /\ sent' = sent
  BY IdleIsNoJob DEF Decide, At, TypeOK
<1>5. \A i \in ReviewIds :
         /\ reviews'[i] = IF i = id THEN d ELSE reviews[i]
         /\ decided'[i] = IF i = id THEN Append(decided[id], d) ELSE decided[i]
  BY <1>2 DEF TypeOK
<1>6. /\ decided[id] \in Seq(Decisions) /\ Append(decided[id], d) # <<>>
      /\ Len(Append(decided[id], d)) = Len(decided[id]) + 1
      /\ \A i \in ReviewIds : Len(decided[i]) \in Nat
  <2>1. \A i \in ReviewIds : decided[i] \in Seq(Decisions)
    BY DEF TypeOK
  <2>2. QED
    BY <2>1, AppendProperties, LenProperties
<1>7. Decided'
  BY <1>5, <1>6 DEF Decided, Mailed
<1>8. \A kk \in {"KYC", "ONB"} : <<a, kk>> \in ReviewIds
  BY DEF ReviewIds
<1>9. ASSUME Few(a)' PROVE MailingFor(a, w)'
  <2>1. \A kk \in {"KYC", "ONB"} : Len(decided'[<<a, kk>>]) <= 1
    BY <1>9 DEF Few
  <2>2. Len(decided[id]) = 0
    <3>1. decided'[id] = Append(decided[id], d) /\ Len(decided'[id]) <= 1
      BY <1>1, <1>5, <2>1
    <3>2. QED
      BY <1>6, <3>1
  <2>3. reviews[id] \notin Decisions
    <3>1. decided[id] = <<>>
      BY <1>6, <2>2, EmptySeq
    <3>2. QED
      BY <3>1 DEF Mailed, Decided
  <2>4. \A kk \in {"KYC", "ONB"} : Len(decided[<<a, kk>>]) <= 1
    BY <1>1, <1>5, <1>8, <2>1, <2>2
  <2>5. Few(a)
    BY <2>4 DEF Few
  <2>6. Mailable(kv[a]) => Told(sent[a], reviews, kv[a])
    BY <1>4, <2>5 DEF Mailed, MailingFor
  <2>7. ASSUME Mailable(kv[a])
        PROVE  IF kv[a].review = id THEN Fresh(reviews', kv[a])
               ELSE Told(sent[a], reviews', kv[a])
    <3>1. CASE kv[a].review = id
      <4>1. Seen(reviews, kv[a]) \notin Decisions /\ Seen(reviews', kv[a]) \in Decisions
        BY <1>1, <1>5, <2>3, <3>1 DEF Seen, NoReview
      <4>2. View(reviews, kv[a]) \notin Final
        BY <4>1, ViewFacts
      <4>3. QED
        BY <2>6, <2>7, <3>1, <4>1, <4>2 DEF Told, Fresh
    <3>2. CASE kv[a].review # id
      <4>1. kv[a].review = NoReview \/ reviews'[kv[a].review] = reviews[kv[a].review]
        BY <1>5, <1>8, <2>7, <3>2 DEF RecordsWhole, Whole, Mailable
      <4>2. QED
        BY <2>6, <2>7, <3>2, <4>1, ViewFacts DEF Told
    <3>3. QED
      BY <3>1, <3>2
  <2>8. Finding(job'[w], sent[a], reviews', kv[a])
    BY <1>1, <1>3, <2>7 DEF Finding
  <2>9. QED
    BY <1>3, <1>4, <2>8 DEF MailingFor, Mailing
<1>10. \A b \in Apps \ {a}, kk \in {"KYC", "ONB"} :
          reviews'[<<b, kk>>] = reviews[<<b, kk>>] /\ decided'[<<b, kk>>] = decided[<<b, kk>>]
  BY <1>1, <1>5 DEF ReviewIds
<1>11. QED
  BY <1>3, <1>4, <1>7, <1>9, <1>10, MailFrame

LEMMA MailNext ==
    ASSUME TypeOK, NoFallback, faults' = 0, RecordsWhole, OneThread, DocsKept, Mailed,
           [Next]_vars
    PROVE  Mailed'
<1>1. SUFFICES ASSUME restarts' = 0 PROVE Mailed'
  BY DEF Mailed
<1>2. restarts = 0 /\ ~Restart
  <2>1. restarts \in Nat
    BY DEF TypeOK
  <2>2. ~Restart
    BY <1>1, <2>1 DEF Restart
  <2>3. restarts' = restarts
    BY <2>2 DEF Next, vars, Submit, Fetch, Advance, EscalateKyc, RecordAssessment,
                AddDocuments, EnsureFinalReview, AuditFinalReview, RecordIntake,
                NotifyStatusChange, Send, Save, FindApplication, Resolve, Reconsider,
                Decide
  <2>4. QED
    BY <1>1, <2>2, <2>3
<1>3. ASSUME NEW w \in Workers, NEW pc, Owns(w, pc), pc # "notify", pc # "send"
      PROVE  job[w].kind # "resolve" \/ pc = "find"
  BY <1>3 DEF DocsKept, JobKeeps, Owns
<1>4. ASSUME NEW w \in Workers, RecordAssessment(w) PROVE Mailed'
  <2>1. Owns(w, "assessed") /\ Turns(w, "review", job[w].status, job[w].rec)
    BY <1>4, CalmRecordAssessment
  <2>2. QED
    BY <1>2, <1>3, <1>4, <2>1, MailSame DEF RecordAssessment, Pcs
<1>5. ASSUME NEW w \in Workers, AddDocuments(w) PROVE Mailed'
  <2> DEFINE r == [Rec(w) EXCEPT !.provided = Rec(w).provided \cup job[w].docs]
  <2>1. Owns(w, "attach") /\ Turns(w, "review", "none", r)
    BY <1>5, CalmAddDocuments
  <2>2. /\ r.email = job[w].rec.email /\ r.notified = job[w].rec.notified
        /\ r.review = job[w].rec.review
    BY <2>1, RecordFields DEF Owns
  <2> HIDE DEF r
  <2>3. QED
    BY <1>2, <1>3, <1>5, <2>1, <2>2, MailSame DEF AddDocuments, Pcs
<1>6. ASSUME NEW w \in Workers, AuditFinalReview(w) PROVE Mailed'
  <2>1. Owns(w, "linked") /\ Turns(w, "intake", job[w].status, job[w].rec)
    BY <1>6, CalmAuditFinalReview
  <2>2. QED
    BY <1>2, <1>3, <1>6, <2>1, MailSame DEF AuditFinalReview, Pcs
<1>7. ASSUME NEW w \in Workers, RecordIntake(w) PROVE Mailed'
  <2>1. Owns(w, "intake") /\ Turns(w, "notify", job[w].status, job[w].rec)
    BY <1>7, CalmRecordIntake
  <2>2. QED
    BY <1>2, <1>3, <1>7, <2>1, MailSame DEF RecordIntake, Pcs
<1>8. ASSUME NEW w \in Workers, Advance(w) PROVE Mailed'
  BY <1>2, <1>4, <1>5, <1>6, <1>7, <1>8, MailEscalateKyc, MailEnsureFinalReview,
     MailNotifyStatusChange, MailSend, MailSave, MailFindApplication DEF Advance
<1>9. CASE UNCHANGED vars
  BY <1>9 DEF vars, Mailed, Decided, Few, MailingFor
<1>10. QED
  BY <1>2, <1>8, <1>9, MailSubmit, MailFetch, MailDecide DEF Next, Resolve, Reconsider

(* The invariant, for the deployments that ClientUpToDate is about.        *)
Current == OneThread /\ MaxFaults = 0 => DocsKept /\ Mailed

LEMMA CurrentInit == Init => Current
<1>1. SUFFICES ASSUME Init PROVE DocsKept /\ Mailed
  BY DEF Current
<1>2. DocsKept
  BY <1>1 DEF Init, DocsKept, SavedKeeps
<1>3. Mailed
  BY <1>1 DEF Init, Mailed, Decided, Decisions, MailingFor, Mailable
<1>4. QED
  BY <1>2, <1>3

LEMMA CurrentNext ==
    TypeOK /\ TypeOK' /\ RecordsWhole /\ Trailed /\ Current /\ [Next]_vars => Current'
<1>1. SUFFICES ASSUME TypeOK, TypeOK', RecordsWhole, Trailed, Current, [Next]_vars,
                      OneThread, MaxFaults = 0
               PROVE  DocsKept' /\ Mailed'
  BY DEF Current, OneThread
<1>2. faults = 0 /\ faults' = 0
  BY <1>1 DEF TypeOK
<1>3. NoFallback
  BY <1>1, <1>2 DEF Trailed
<1>4. QED
  BY <1>1, <1>2, <1>3, DocsNext, MailNext DEF Current

LEMMA CurrentMeans ==
    TypeOK /\ Current => (OneThread /\ MaxFaults = 0 => ClientUpToDate)
<1>1. SUFFICES ASSUME TypeOK, DocsKept, Mailed, OneThread PROVE ClientUpToDate
  BY DEF Current
<1>2. ChecklistKept
  BY <1>1 DEF DocsKept, SavedKeeps, ChecklistKept
<1>3. ASSUME Quiet, restarts = 0, NEW a \in Apps, kv[a] # NoRecord /\ kv[a].email,
             \A id \in {a} \X {"KYC", "ONB"} : Len(decided[id]) <= 1
      PROVE  sent[a] # <<>> /\ LastSent(a) = ClientView(kv[a], ReviewState(kv[a]))
  <2>1. PICK w : w \in Workers
    BY <1>1 DEF OneThread
  <2>2. job[w] = Idle
    BY <1>1, <1>3, <2>1, IdleIsNoJob DEF Quiet, At, TypeOK
  <2>3. Few(a)
    BY <1>3 DEF Few
  <2>4. Told(sent[a], reviews, kv[a])
    BY <1>1, <1>3, <2>1, <2>2, <2>3 DEF Mailed, MailingFor, Mailable
  <2>5. QED
    BY <2>4 DEF Told, LastIs, View, Seen, LastSent, ReviewState
<1>4. LastMailIsCurrent
  BY <1>3 DEF LastMailIsCurrent
<1>5. QED
  BY <1>2, <1>4 DEF ClientUpToDate

(* With one request at a time and no failing call: a document whose upload *)
(* was answered is in the stored record, also after a crash; and when all  *)
(* is quiet the client's last mail says what the portal shows it, as long  *)
(* as no review was decided twice and no crash lost a request.             *)
THEOREM UpToDate == Spec => [](OneThread /\ MaxFaults = 0 => ClientUpToDate)
<1>1. Spec => [](TypeOK /\ RecordsWhole /\ Trailed)
  BY TypeInit, TypeNext, WholeInit, WholeNext, TrailInit, TrailNext, PTL DEF Spec
<1>2. Spec => []Current
  BY <1>1, CurrentInit, CurrentNext, PTL DEF Spec
<1>3. QED
  BY <1>1, <1>2, CurrentMeans, PTL

-----------------------------------------------------------------------------
(* One thread, and no call fails: the client's journey. *)

(* Every complete file is under review. *)
Reviewed(r) == r.review = NoReview => r.provided # Docs

(* A submission is of a new application. The review an upload brings about *)
(* is pending until the record that carries it is saved.                   *)
JobTravels(j, s, q) ==
    /\ j.kind = "submit" =>
          /\ s = NoRecord
          /\ j.rec.review # NoReview => q[j.rec.review] = "pending"
    /\ j.kind = "upload" =>
          /\ s # NoRecord /\ j.pc \notin {"escalate", "assessed"}
          /\ \/ j.rec.review = s.review
             \/ /\ s.review = NoReview /\ j.pc \notin {"attach", "review"}
                /\ q[j.rec.review] = "pending"
    /\ j.kind # "resolve" /\ j.pc \notin {"escalate", "assessed", "attach", "review"} =>
          Reviewed(j.rec)

Filed(q, r) == r.review = NoReview \/ q[r.review] # "absent"

Travels ==
    /\ \A a \in Apps : kv[a] # NoRecord => Reviewed(kv[a]) /\ Filed(reviews, kv[a])
    /\ \A w \in Workers : job[w] # Idle => JobTravels(job[w], kv[job[w].app], reviews)

(* Nothing that was filed is forgotten. *)
Kept == \A id \in ReviewIds : reviews[id] # "absent" => reviews'[id] # "absent"

LEMMA TripFrame ==
    ASSUME TypeOK, OneThread, Travels, NEW w \in Workers, kv' = kv, Kept,
           job'[w] # Idle => JobTravels(job'[w], kv[job'[w].app], reviews')
    PROVE  Travels'
<1>1. \A v \in Workers : job'[v] # Idle => JobTravels(job'[v], kv'[job'[v].app], reviews')
  BY OneIsAll
<1>2. ASSUME NEW a \in Apps, kv[a] # NoRecord
      PROVE  Reviewed(kv[a]) /\ Filed(reviews', kv[a])
  <2>1. kv[a].review \in ReviewIds \cup {NoReview}
    BY <1>2, RecordChanges DEF TypeOK
  <2>2. QED
    BY <1>2, <2>1 DEF Travels, Filed, Kept
<1>3. QED
  BY <1>1, <1>2 DEF Travels

(* Nothing of the record that its reviews depend on changes.               *)
LEMMA TripSame ==
    ASSUME TypeOK, OneThread, Travels, NEW w \in Workers, kv' = kv, reviews' = reviews,
           NEW pc, Owns(w, pc), NEW to, NEW status, NEW r, Turns(w, to, status, r),
           r.review = job[w].rec.review,
           \/ pc \in {"assessed", "attach"} /\ to = "review"
           \/ /\ pc \in {"linked", "intake", "notify", "send"}
              /\ to \in {"intake", "notify", "send", "save"}
              /\ r.provided = job[w].rec.provided
    PROVE  Travels'
<1>1. JobTravels(job[w], kv[job[w].app], reviews)
  BY DEF Travels, Owns
<1>2. JobTravels(job'[w], kv[job'[w].app], reviews')
  BY <1>1 DEF JobTravels, Turns, Owns, Reviewed
<1>3. Kept
  BY DEF Kept
<1>4. QED
  BY <1>2, <1>3, TripFrame

LEMMA KeptWhen ==
    ASSUME TypeOK
    PROVE  /\ reviews' = reviews => Kept
           /\ \A id \in ReviewIds, d \in {"pending"} \cup Decisions :
                 reviews' = [reviews EXCEPT ![id] = d] => Kept
  BY DEF TypeOK, Kept, Decisions

LEMMA TripAdvance ==
    ASSUME TypeOK, NoFallback, faults' = 0, OneThread, DocsKept, Travels,
           NEW w \in Workers, Advance(w)
    PROVE  Travels'
<1>1. ASSUME NEW pc, Owns(w, pc) PROVE JobTravels(job[w], kv[job[w].app], reviews)
  BY <1>1 DEF Owns, Travels
<1>2. ASSUME NEW pc \in {"escalate", "review", "save"}, Owns(w, pc)
      PROVE  job[w].kind \in {"submit", "upload"}
  BY <1>2 DEF DocsKept, JobKeeps, Owns, Jobs
<1>3. CASE EscalateKyc(w)
  <2>1. /\ Owns(w, "escalate") /\ AddReview(<<App(w), "KYC">>)
        /\ Turns(w, "assessed", "none", [Rec(w) EXCEPT !.review = <<App(w), "KYC">>])
    BY <1>3, CalmEscalateKyc
  <2>2. /\ job'[w].rec.review = <<App(w), "KYC">>
        /\ reviews'[<<App(w), "KYC">>] = "pending"
    BY <2>1, RecordFields DEF Turns, Owns, AddReview, TypeOK, ReviewIds
  <2>3. JobTravels(job'[w], kv[job'[w].app], reviews')
    BY <1>1, <1>2, <2>1, <2>2 DEF JobTravels, Turns, Owns
  <2>4. Kept
    BY <2>1, KeptWhen DEF AddReview, Owns, ReviewIds
  <2>5. QED
    BY <1>3, <2>3, <2>4, TripFrame DEF EscalateKyc
<1>4. CASE RecordAssessment(w)
  BY <1>4, CalmRecordAssessment, TripSame DEF RecordAssessment
<1>5. CASE AddDocuments(w)
  <2>1. /\ Owns(w, "attach")
        /\ Turns(w, "review", "none",
                 [Rec(w) EXCEPT !.provided = Rec(w).provided \cup job[w].docs])
    BY <1>5, CalmAddDocuments
  <2>2. [Rec(w) EXCEPT !.provided = Rec(w).provided \cup job[w].docs].review
           = job[w].rec.review
    BY <2>1, RecordFields DEF Owns
  <2>3. QED
    BY <1>5, <2>1, <2>2, TripSame DEF AddDocuments
<1>6. CASE EnsureFinalReview(w)
  <2>1. /\ Owns(w, "review")
        /\ \/ /\ ~Due(Rec(w)) /\ reviews' = reviews
              /\ Turns(w, "intake", job[w].status, job[w].rec)
           \/ /\ Due(Rec(w)) /\ AddReview(<<App(w), "ONB">>)
              /\ Turns(w, "linked", "none", [Rec(w) EXCEPT !.review = <<App(w), "ONB">>])
    BY <1>6, CalmEnsureFinalReview
  <2>2. CASE /\ ~Due(Rec(w)) /\ reviews' = reviews
             /\ Turns(w, "intake", job[w].status, job[w].rec)
    <3>1. JobTravels(job'[w], kv[job'[w].app], reviews')
      BY <1>1, <2>1, <2>2 DEF JobTravels, Turns, Owns, Due, Reviewed
    <3>2. QED
      BY <1>6, <2>2, <3>1, TripFrame, KeptWhen DEF EnsureFinalReview
  <2>3. CASE /\ Due(Rec(w)) /\ AddReview(<<App(w), "ONB">>)
             /\ Turns(w, "linked", "none", [Rec(w) EXCEPT !.review = <<App(w), "ONB">>])
    <3>1. /\ job'[w].rec.review = <<App(w), "ONB">> /\ job[w].rec.review = NoReview
          /\ reviews'[<<App(w), "ONB">>] = "pending"
      BY <2>1, <2>3, RecordFields DEF Turns, Owns, AddReview, TypeOK, ReviewIds, Due
    <3>2. JobTravels(job'[w], kv[job'[w].app], reviews')
      BY <1>1, <2>1, <2>3, <3>1 DEF JobTravels, Turns, Owns, NoReview, Reviewed
    <3>3. Kept
      BY <2>1, <2>3, KeptWhen DEF AddReview, Owns, ReviewIds
    <3>4. QED
      BY <1>6, <3>2, <3>3, TripFrame DEF EnsureFinalReview
  <2>4. QED
    BY <2>1, <2>2, <2>3
<1>7. CASE AuditFinalReview(w)
  BY <1>7, CalmAuditFinalReview, TripSame DEF AuditFinalReview
<1>8. CASE RecordIntake(w)
  BY <1>8, CalmRecordIntake, TripSame DEF RecordIntake
<1>9. ASSUME kv' = kv, reviews' = reviews, Ends(w) PROVE Travels'
  BY <1>9, TripFrame, KeptWhen DEF Ends
<1>10. CASE NotifyStatusChange(w)
  <2>1. kv' = kv /\ reviews' = reviews
    BY <1>10 DEF NotifyStatusChange
  <2>2. /\ Owns(w, "notify")
        /\ \/ Ends(w)
           \/ Turns(w, "save", "none", job[w].rec)
           \/ \E status : Turns(w, "send", status, [Rec(w) EXCEPT !.notified = status])
    BY <1>10, CalmNotifyStatusChange
  <2>3. \A status : LET r == [Rec(w) EXCEPT !.notified = status]
                    IN  r.review = job[w].rec.review /\ r.provided = job[w].rec.provided
    BY <2>2, RecordFields DEF Owns
  <2>4. QED
    BY <1>9, <2>1, <2>2, <2>3, TripSame
<1>11. CASE Send(w)
  BY <1>9, <1>11, CalmSend, TripSame DEF Send
<1>12. CASE Save(w)
  <2>1. /\ Owns(w, "save") /\ Ends(w)
        /\ kv' = [kv EXCEPT ![App(w)] = job[w].rec]
    BY <1>12, CalmSave
  <2>2. Reviewed(job[w].rec) /\ Filed(reviews, job[w].rec)
    BY <1>1, <1>2, <2>1 DEF JobTravels, Owns, Travels, Filed
  <2>3. \A a \in Apps : kv'[a] # NoRecord => Reviewed(kv'[a]) /\ Filed(reviews, kv'[a])
    BY <2>1, <2>2 DEF TypeOK, Travels
  <2>4. QED
    BY <1>12, <2>1, <2>3, OneIsAll DEF Travels, Ends, Save
<1>13. CASE FindApplication(w)
  <2>1. job'[w] # Idle => JobTravels(job'[w], kv[job'[w].app], reviews')
    BY <1>13, CalmFindApplication DEF Takes, Ends, JobTravels
  <2>2. QED
    BY <1>13, <2>1, TripFrame, KeptWhen DEF FindApplication
<1>14. QED
  BY <1>3, <1>4, <1>5, <1>6, <1>7, <1>8, <1>10, <1>11, <1>12, <1>13 DEF Advance

LEMMA TripNext ==
    ASSUME TypeOK, NoFallback, faults' = 0, OneThread, DocsKept, Travels, [Next]_vars
    PROVE  Travels'
<1>1. ASSUME NEW w \in Workers, Submit(w) PROVE Travels'
  <2>1. PICK a \in Apps \ submitted, r \in Records :
           /\ r.review = NoReview /\ job'[w].kind = "submit" /\ job'[w].app = a
           /\ job'[w].pc \in {"escalate", "assessed"} /\ job'[w].rec = r
    BY <1>1, CalmSubmit DEF Takes
  <2>2. kv[a] = NoRecord
    BY <2>1 DEF DocsKept, SavedKeeps
  <2>3. JobTravels(job'[w], kv[job'[w].app], reviews')
    BY <2>1, <2>2 DEF JobTravels
  <2>4. QED
    BY <1>1, <2>3, TripFrame, KeptWhen DEF Submit
<1>2. ASSUME NEW w \in Workers, Fetch(w) PROVE Travels'
  <2>1. JobTravels(job'[w], kv[job'[w].app], reviews')
    BY <1>2, CalmFetch DEF Takes, JobTravels
  <2>2. QED
    BY <1>2, <2>1, TripFrame, KeptWhen DEF Fetch
<1>3. ASSUME NEW w \in Workers, NEW id \in ReviewIds, Decide(w, id) PROVE Travels'
  <2>1. JobTravels(job'[w], kv[job'[w].app], reviews')
    BY <1>3, CalmDecide DEF Takes, JobTravels
  <2>2. Kept
    BY <1>3, CalmDecide, KeptWhen
  <2>3. QED
    BY <1>3, <2>1, <2>2, TripFrame DEF Decide
<1>4. CASE Restart
  BY <1>4 DEF Restart, Travels
<1>5. CASE UNCHANGED vars
  BY <1>5 DEF vars, Travels
<1>6. QED
  BY <1>1, <1>2, <1>3, <1>4, <1>5, TripAdvance DEF Next, Resolve, Reconsider

-----------------------------------------------------------------------------
(* Each step is one of the journey, or the portal shows what it showed.    *)

Shown(q, s) == IF s = NoRecord THEN "absent" ELSE View(q, s)

LEMMA ShownIsStatus == \A a : Status(a) = Shown(reviews, kv[a])
  BY DEF Status, Shown, View, Seen, ReviewState

(* The views: undecided ones by the checklist, decided ones by the review. *)
LEMMA Views ==
    \A q, r :
        /\ Seen(q, r) = "pending" => View(q, r) = "under_review"
        /\ Seen(q, r) \in Decisions => View(q, r) \in Final
        /\ r.review = NoReview /\ r.provided # Docs /\ r.kyc = "APPROVED" =>
              View(q, r) = "additional_documents_needed"
  BY DEF View, ClientView, Seen, Decisions, Final

(* Only what is shown of application a changes. *)
LEMMA JourneyStep ==
    ASSUME NEW a \in Apps, \A b \in Apps \ {a} : Status(b)' = Status(b),
           \/ Status(a)' = Status(a)
           \/ /\ Status(a) = "absent"
              /\ Status(a)' \in {"additional_documents_needed", "under_review"}
           \/ /\ Status(a) = "additional_documents_needed"
              /\ Status(a)' = "under_review"
           \/ Status(a) = "under_review" /\ Status(a)' \in Final
           \/ Status(a) \in Final /\ Status(a)' \in Final
    PROVE  [Journey!Next]_([x \in Apps |-> Status(x)])
<1> DEFINE old == [x \in Apps |-> Status(x)]
           new == [x \in Apps |-> Status(x)']
<1>1. new = [old EXCEPT ![a] = Status(a)'] /\ old[a] = Status(a)
  OBVIOUS
<1>2. CASE Status(a)' = Status(a)
  <2>1. new = old
    BY <1>2
  <2>2. QED
    BY <2>1
<1>3. CASE Status(a)' # Status(a)
  <2>1. \/ Journey!Receive(a) \/ Journey!CompleteFile(a) \/ Journey!Decide(a)
        \/ Journey!Reconsider(a)
    BY <1>1, <1>3 DEF Journey!Receive, Journey!CompleteFile, Journey!Decide,
                      Journey!Reconsider, Journey!Change, Journey!Outcomes, Final
  <2>2. QED
    BY <2>1 DEF Journey!Next
<1>4. QED
  BY <1>2, <1>3

LEMMA JourneyStill ==
    ASSUME \A a \in Apps : Status(a)' = Status(a)
    PROVE  [Journey!Next]_([x \in Apps |-> Status(x)])
<1>1. [x \in Apps |-> Status(x)'] = [x \in Apps |-> Status(x)]
  OBVIOUS
<1>2. QED
  BY <1>1

(* A record that is left alone, with its review, is shown as before.       *)
LEMMA StatusStays ==
    ASSUME NEW a \in Apps, kv'[a] = kv[a],
           \/ kv[a] = NoRecord \/ kv[a].review = NoReview
           \/ reviews'[kv[a].review] = reviews[kv[a].review]
    PROVE  Status(a)' = Status(a)
  BY DEF Status, ClientView, ReviewState

LEMMA JourneySave ==
    ASSUME TypeOK, NoFallback, faults = 0, faults' = 0, OneThread, DocsKept, Escalated,
           Travels, NEW w \in Workers, Save(w)
    PROVE  [Journey!Next]_([x \in Apps |-> Status(x)])
<1>1. /\ Owns(w, "save") /\ kv' = [kv EXCEPT ![App(w)] = job[w].rec]
      /\ reviews' = reviews
  BY CalmSave DEF Save
<1>2. PICK a \in Apps : a = App(w) /\ a = job[w].app
  BY <1>1 DEF Owns
<1>3. /\ job[w].kind \in {"submit", "upload"}
      /\ job[w].rec # NoRecord /\ job[w].rec \in Records
  BY <1>1, NoRecordIsNone DEF DocsKept, JobKeeps, Owns, Jobs
<1>4. JobTravels(job[w], kv[a], reviews) /\ FlaggedJob(job[w]) /\ FlaggedSaved(a)
  BY <1>1, <1>2 DEF Travels, Escalated, Owns, Holds
<1>5. kv'[a] = job[w].rec /\ \A b \in Apps \ {a} : kv'[b] = kv[b]
  BY <1>1, <1>2 DEF TypeOK
<1> DEFINE r == job[w].rec
           s == kv[a]
<1>6. Status(a) = Shown(reviews, s) /\ Status(a)' = View(reviews, r)
  BY <1>1, <1>3, <1>5, ShownIsStatus DEF Status, View, Seen, ReviewState
<1>7. \A b \in Apps \ {a} : Status(b)' = Status(b)
  BY <1>1, <1>5, StatusStays
<1>8. /\ r.review = NoReview => View(reviews, r) = "additional_documents_needed"
      /\ s # NoRecord /\ s.review = NoReview =>
            View(reviews, s) = "additional_documents_needed"
  <2>1. ASSUME r.review = NoReview
        PROVE  View(reviews, r) = "additional_documents_needed"
    <3>1. r.provided # Docs /\ r.kyc = "APPROVED"
      BY <1>1, <1>3, <1>4, <2>1, RecordChanges
         DEF JobTravels, Reviewed, FlaggedJob, Flagged, NoReview, Owns
    <3>2. QED
      BY <2>1, <3>1, Views
  <2>2. ASSUME s # NoRecord, s.review = NoReview
        PROVE  View(reviews, s) = "additional_documents_needed"
    <3>1. s \in Records
      BY <2>2 DEF TypeOK
    <3>2. s.provided # Docs /\ s.kyc = "APPROVED"
      BY <1>4, <2>2, <3>1, RecordChanges
         DEF Travels, Reviewed, FlaggedSaved, Flagged, NoReview
    <3>3. QED
      BY <2>2, <3>2, Views
  <2>3. QED
    BY <2>1, <2>2
<1>9. r.review # NoReview /\ reviews[r.review] = "pending" =>
         View(reviews, r) = "under_review"
  BY Views DEF Seen
<1>10. CASE job[w].kind = "submit"
  <2>1. s = NoRecord /\ View(reviews, r) \in {"additional_documents_needed", "under_review"}
    BY <1>4, <1>8, <1>9, <1>10 DEF JobTravels
  <2>2. Status(a) = "absent"
    BY <1>6, <2>1 DEF Shown
  <2>3. QED
    BY <1>6, <1>7, <2>1, <2>2, JourneyStep
<1>11. CASE job[w].kind = "upload"
  <2>1. /\ s # NoRecord /\ Status(a) = View(reviews, s)
        /\ \/ r.review = s.review
           \/ s.review = NoReview /\ reviews[r.review] = "pending"
    BY <1>4, <1>6, <1>11 DEF JobTravels, Shown
  <2>2. CASE s.review = NoReview
    <3>1. View(reviews, r) \in {"additional_documents_needed", "under_review"}
      BY <1>8, <1>9, <2>1, <2>2
    <3>2. Status(a) = "additional_documents_needed"
      BY <1>8, <2>1, <2>2
    <3>3. QED
      BY <1>6, <1>7, <3>1, <3>2, JourneyStep
  <2>3. CASE s.review # NoReview
    <3>1. r.review = s.review /\ Seen(reviews, r) = reviews[s.review]
          /\ Seen(reviews, s) = reviews[s.review]
      BY <2>1, <2>3 DEF Seen
    <3>2. reviews[s.review] \in {"pending"} \cup Decisions
      <4>1. s \in Records
        BY <2>1 DEF TypeOK
      <4>2. s.review \in ReviewIds
        BY <2>3, <4>1, RecordChanges
      <4>3. reviews[s.review] # "absent"
        BY <2>1, <2>3 DEF Travels, Filed
      <4>4. QED
        BY <4>2, <4>3 DEF TypeOK, ReviewStates
    <3>3. View(reviews, r) = View(reviews, s)
      <4>1. CASE reviews[s.review] = "pending"
        BY <3>1, <4>1, Views
      <4>2. CASE reviews[s.review] \in Decisions
        BY <3>1, <4>2, ViewFacts
      <4>3. QED
        BY <3>2, <4>1, <4>2
    <3>4. QED
      BY <1>6, <1>7, <2>1, <3>3, JourneyStep
  <2>4. QED
    BY <2>2, <2>3
<1>12. QED
  BY <1>3, <1>10, <1>11

LEMMA JourneyDecide ==
    ASSUME TypeOK, RecordsWhole, faults' = 0, NEW w \in Workers, NEW id \in ReviewIds,
           reviews[id] # "absent", Decide(w, id)
    PROVE  [Journey!Next]_([x \in Apps |-> Status(x)])
<1>1. PICK a \in Apps, k \in {"KYC", "ONB"} : id = <<a, k>>
  BY DEF ReviewIds
<1>2. PICK d \in Decisions : reviews' = [reviews EXCEPT ![id] = d]
  BY CalmDecide
<1>3. /\ kv' = kv
      /\ \A i \in ReviewIds : reviews'[i] = IF i = id THEN d ELSE reviews[i]
      /\ reviews[id] \in {"pending"} \cup Decisions
  BY <1>2 DEF Decide, TypeOK, ReviewStates
<1>4. \A b \in Apps : kv[b] # NoRecord =>
         kv[b].review \in {NoReview, <<b, "KYC">>, <<b, "ONB">>}
  BY DEF RecordsWhole, Whole
<1>5. \A b \in Apps \ {a} : Status(b)' = Status(b)
  <2>1. ASSUME NEW b \in Apps \ {a}, kv[b] # NoRecord, kv[b].review # NoReview
        PROVE  reviews'[kv[b].review] = reviews[kv[b].review]
    <3>1. kv[b].review # id /\ kv[b].review \in ReviewIds
      BY <1>1, <1>4, <2>1 DEF ReviewIds
    <3>2. QED
      BY <1>3, <3>1
  <2>2. QED
    BY <1>3, <2>1, StatusStays
<1>6. CASE kv[a] = NoRecord \/ kv[a].review # id
  <2>1. Status(a)' = Status(a)
    <3>1. kv[a] = NoRecord \/ kv[a].review = NoReview \/ kv[a].review \in ReviewIds \ {id}
      BY <1>4, <1>6 DEF ReviewIds
    <3>2. QED
      BY <1>3, <3>1, StatusStays
  <2>2. QED
    BY <1>5, <2>1, JourneyStep
<1>7. CASE kv[a] # NoRecord /\ kv[a].review = id
  <2>1. Seen(reviews, kv[a]) = reviews[id] /\ Seen(reviews', kv[a]) = d
    BY <1>1, <1>3, <1>7 DEF Seen, NoReview
  <2>2. Status(a) = View(reviews, kv[a]) /\ Status(a)' = View(reviews', kv[a])
    BY <1>3, <1>7 DEF Status, View, Seen, ReviewState
  <2>3. Status(a)' \in Final /\ (Status(a) = "under_review" \/ Status(a) \in Final)
    BY <1>3, <2>1, <2>2, Views
  <2>4. QED
    BY <1>5, <2>3, JourneyStep
<1>8. QED
  BY <1>6, <1>7

(* A review is filed for an application whose record does not carry it yet.*)
LEMMA JourneyFiled ==
    ASSUME TypeOK, RecordsWhole, NEW a \in Apps, NEW k \in {"KYC", "ONB"},
           AddReview(<<a, k>>), kv' = kv, kv[a] = NoRecord \/ kv[a].review = NoReview
    PROVE  [Journey!Next]_([x \in Apps |-> Status(x)])
<1>1. ASSUME NEW b \in Apps PROVE Status(b)' = Status(b)
  <2>1. CASE b = a
    BY <2>1, StatusStays
  <2>2. CASE b # a
    <3>1. kv[b] # NoRecord /\ kv[b].review # NoReview =>
             kv[b].review \in ReviewIds \ {<<a, k>>}
      BY <2>2 DEF RecordsWhole, Whole, ReviewIds
    <3>2. QED
      BY <3>1, StatusStays DEF AddReview, TypeOK
  <2>3. QED
    BY <2>1, <2>2
<1>2. QED
  BY <1>1, JourneyStill

LEMMA JourneyNext ==
    ASSUME TypeOK, NoFallback, faults = 0, faults' = 0, RecordsWhole, Escalated,
           OneThread, DocsKept, Travels, [Next]_vars
    PROVE  [Journey!Next]_([x \in Apps |-> Status(x)])
<1>1. ASSUME kv' = kv, reviews' = reviews
      PROVE  [Journey!Next]_([x \in Apps |-> Status(x)])
  <2>1. \A a \in Apps : Status(a)' = Status(a)
    BY <1>1, StatusStays
  <2>2. QED
    BY <2>1, JourneyStill
<1>2. ASSUME NEW w \in Workers, NEW pc, Owns(w, pc)
      PROVE  JobTravels(job[w], kv[job[w].app], reviews) /\ JobKeeps(job[w])
  BY <1>2 DEF Owns, Travels, DocsKept
<1>3. ASSUME NEW w \in Workers, EscalateKyc(w)
      PROVE  [Journey!Next]_([x \in Apps |-> Status(x)])
  <2>1. /\ Owns(w, "escalate") /\ AddReview(<<App(w), "KYC">>) /\ kv' = kv
    BY <1>3, CalmEscalateKyc DEF EscalateKyc
  <2>2. kv[App(w)] = NoRecord
    BY <1>2, <2>1 DEF JobTravels, JobKeeps, Owns, Jobs
  <2>3. PICK a \in Apps : a = App(w)
    BY <2>1 DEF Owns
  <2>4. QED
    BY <2>1, <2>2, <2>3, JourneyFiled
<1>4. ASSUME NEW w \in Workers, EnsureFinalReview(w)
      PROVE  [Journey!Next]_([x \in Apps |-> Status(x)])
  <2>1. /\ Owns(w, "review") /\ kv' = kv
        /\ reviews' = reviews \/ (Due(Rec(w)) /\ AddReview(<<App(w), "ONB">>))
    BY <1>4, CalmEnsureFinalReview DEF EnsureFinalReview
  <2>2. CASE reviews' = reviews
    BY <1>1, <2>1, <2>2
  <2>3. CASE Due(Rec(w)) /\ AddReview(<<App(w), "ONB">>)
    <3>1. kv[App(w)] = NoRecord \/ kv[App(w)].review = NoReview
      BY <1>2, <2>1, <2>3 DEF JobTravels, JobKeeps, Owns, Jobs, Due
    <3>2. PICK a \in Apps : a = App(w)
      BY <2>1 DEF Owns
    <3>3. QED
      BY <2>1, <2>3, <3>1, <3>2, JourneyFiled
  <2>4. QED
    BY <2>1, <2>2, <2>3
<1>5. ASSUME NEW w \in Workers, Submit(w) \/ Fetch(w) \/ Advance(w)
      PROVE  [Journey!Next]_([x \in Apps |-> Status(x)])
  <2>1. CASE Save(w)
    BY <2>1, JourneySave
  <2>2. CASE kv' = kv /\ reviews' = reviews
    BY <1>1, <2>2
  <2>3. QED
    BY <1>3, <1>4, <1>5, <2>1, <2>2
       DEF Advance, Submit, Fetch, RecordAssessment, AddDocuments, AuditFinalReview,
           RecordIntake, NotifyStatusChange, Send, FindApplication
<1>6. ASSUME NEW w \in Workers, NEW id \in ReviewIds, Resolve(w, id) \/ Reconsider(w, id)
      PROVE  [Journey!Next]_([x \in Apps |-> Status(x)])
  BY <1>6, JourneyDecide DEF Resolve, Reconsider, Decisions
<1>7. CASE Restart
  BY <1>1, <1>7 DEF Restart
<1>8. CASE UNCHANGED vars
  BY <1>1, <1>8 DEF vars
<1>9. QED
  BY <1>5, <1>6, <1>7, <1>8 DEF Next

OnTrip == OneThread /\ MaxFaults = 0 => Travels

LEMMA OnTripNext ==
    TypeOK /\ TypeOK' /\ RecordsWhole /\ Trailed /\ Current /\ OnTrip /\ [Next]_vars
        => OnTrip'
<1>1. SUFFICES ASSUME TypeOK, TypeOK', Trailed, Current, OnTrip, [Next]_vars,
                      OneThread, MaxFaults = 0
               PROVE  Travels'
  BY DEF OnTrip, OneThread
<1>2. faults = 0 /\ faults' = 0
  BY <1>1 DEF TypeOK
<1>3. NoFallback
  BY <1>1, <1>2 DEF Trailed
<1>4. QED
  BY <1>1, <1>2, <1>3, TripNext DEF Current, OnTrip

(* With one request at a time and no failing call, what the portal shows   *)
(* of an application takes the steps of ClientJourney and no others, with  *)
(* crashes and restarts in between: an accepted application is not lost,   *)
(* waiting ends in a decision only, and a decision is only decided again.  *)
THEOREM JourneySafe ==
    ASSUME OneThread, MaxFaults = 0
    PROVE  Spec => Journey!SafeSpec
<1>1. Spec => [](TypeOK /\ RecordsWhole /\ Trailed /\ Escalated /\ Current)
  BY TypeInit, TypeNext, WholeInit, WholeNext, TrailInit, TrailNext, EscalatedInit,
     EscalatedNext, CurrentInit, CurrentNext, PTL DEF Spec
<1>2. Init => OnTrip
  BY DEF Init, OnTrip, Travels
<1>3. Spec => []OnTrip
  BY <1>1, <1>2, OnTripNext, PTL DEF Spec
<1>4. Init => Journey!Init
  BY DEF Init, Journey!Init, Status
<1>5. /\ TypeOK /\ RecordsWhole /\ Trailed /\ Escalated /\ Current /\ OnTrip /\ TypeOK'
      /\ [Next]_vars
      => [Journey!Next]_([a \in Apps |-> Status(a)])
  <2>1. SUFFICES ASSUME TypeOK, RecordsWhole, Trailed, Escalated, Current, OnTrip,
                        TypeOK', [Next]_vars
                 PROVE  [Journey!Next]_([a \in Apps |-> Status(a)])
    OBVIOUS
  <2>2. faults = 0 /\ faults' = 0
    BY <2>1 DEF TypeOK
  <2>3. NoFallback /\ DocsKept /\ Travels
    BY <2>1, <2>2 DEF Trailed, Current, OnTrip
  <2>4. QED
    BY <2>1, <2>2, <2>3, JourneyNext
<1>6. QED
  BY <1>1, <1>3, <1>4, <1>5, PTL DEF Spec, Journey!SafeSpec
=============================================================================
