----------------------------- MODULE ReviewQueue -----------------------------
(***************************************************************************)
(* The review queue of the in-memory store (app/services/graph_store.py),  *)
(* with what fills it, the compliance agent behind POST /api/agents/inspect*)
(* (app/agents/compliance.py) and the applications a client submits, and   *)
(* what empties it, the reviewer's POST /api/reviews/{id}/resolve.         *)
(*                                                                         *)
(* The queue is a Python list of dicts that every request thread shares    *)
(* without a lock. add_review scans the list for the id and then replaces  *)
(* the slot it found, or appends (Look, Put). resolve_review scans for the *)
(* first dict with the id and then changes that dict key by key (Find,     *)
(* SetStatus, SetDecision), be it still in the list or not.                *)
(***************************************************************************)
EXTENDS Integers, SequencesExt

CONSTANTS
    Segments,      \* last segments of the ids of inspected requests
    NoSuffix,      \* of a request without an id, "req-unknown"
    Applications,  \* the reviews of client applications, by id
    Profiles,      \* what the agent scores a client on
    Workers,       \* request threads
    MaxRequests    \* bound: filings, and decisions on what is not pending

ASSUME BoundsAssumption == MaxRequests \in Nat

(* _analyze_rules: a risk above 0.6 always hits a rule. *)
ASSUME ProfilesAssumption ==
    Profiles \subseteq {p \in [risk : 0 .. 100, amount : Nat, hits : BOOLEAN] :
                           p.risk > 60 => p.hits}

VARIABLES
    reviews,     \* self.reviews: references to dicts, in list order
    objs,        \* the dicts themselves
    job,         \* what each thread is doing
    trail,       \* the audit events, each with the number of its request
    made,        \* history: the decisions reviewers took, and on which filing
    overlapped,  \* history: ids two calls to the queue worked on at once
    requests

vars == <<reviews, objs, job, trail, made, overlapped, requests>>

-----------------------------------------------------------------------------
(* Scoring, in thousandths; a risk score has two digits.                   *)

Confidence(p) ==
    LET raw == 650 + 2 * p.risk + (IF p.hits THEN 50 ELSE 0)
                   + (IF p.amount > 500000 THEN 50 ELSE 0)
    IN  IF raw > 990 THEN 990 ELSE raw

Fails(p) == p.risk >= 85 \/ p.amount >= 5000000

(* Mutant: the size of a transaction only enters the confidence. *)
ReviewRequiredByScore(p) == Fails(p) \/ p.risk > 70 \/ Confidence(p) < 800

ReviewRequired(p) ==
    Fails(p) \/ p.risk > 70 \/ p.amount > 500000 \/ Confidence(p) < 800

Outcome(p) ==
    IF Fails(p) THEN "fail" ELSE IF ReviewRequired(p) THEN "warn" ELSE "pass"

Outcomes == {"pass", "warn", "fail"}

(* Mutants: only failures are escalated; a request without an id is         *)
(* reviewed under the id REV-unknown.                                       *)
EscalatesFailures(outcome) == outcome = "fail"
ReviewIdUnknown(suffix, n) == suffix

(* _route_after_decide, for a request that persists its review; an         *)
(* application is only filed when it needs one.                            *)
Escalates(outcome) == outcome # "pass"

(* REV-<suffix>; a request without an id gets a uuid, here its number n.   *)
ReviewId(suffix, n) == IF suffix = NoSuffix THEN n ELSE suffix

ReviewIds == Segments \cup Applications \cup 1 .. MaxRequests

-----------------------------------------------------------------------------
(* The list. *)

Decisions == {"approve", "reject"}

Slots(id) == {i \in DOMAIN reviews : objs[reviews[i]].id = id}

(* The first dict with the id: what resolve_review and _review_state find. *)
First(id) == reviews[Min(Slots(id))]

(* What GET /api/reviews/pending lists. *)
Pending(id) == \E i \in Slots(id) : objs[reviews[i]].status = "pending"

(* client_view, for an application that carries the review id. *)
ClientView(id) ==
    IF Slots(id) = {} THEN "no review"
    ELSE IF objs[First(id)].status = "pending" THEN "under_review"
    ELSE IF objs[First(id)].decision = "approve" THEN "approved" ELSE "declined"

Idle == [pc |-> "idle"]
At(w, pc) == job[w].pc = pc
Goto(w, pc) == job' = [job EXCEPT ![w].pc = pc]

InQueue(w) == job[w].pc \in {"put", "mark", "sign"}

(* The thread enters the queue's code for a review. *)
Enter(id) ==
    overlapped' = overlapped \cup
        {i \in {id} : \E v \in Workers : InQueue(v) /\ job[v].id = id}

Counted == requests < MaxRequests /\ requests' = requests + 1

Init ==
    /\ reviews = <<>> /\ objs = <<>>
    /\ job = [w \in Workers |-> Idle]
    /\ trail = {} /\ made = {} /\ overlapped = {}
    /\ requests = 0

-----------------------------------------------------------------------------
(* A request that is put up for review under id, or passes, is number n.   *)
Start(w, id, outcome, n) ==
    job' = [job EXCEPT ![w] =
        [pc |-> IF Escalates(outcome) THEN "look" ELSE "announce",
         n |-> n, id |-> id, outcome |-> outcome, slot |-> 0]]

(* POST /api/agents/inspect: the graph runs up to its branch on one thread *)
(* and touches nothing shared. The MCP tool and the dashboard run it with  *)
(* persist_review=False and so never come near the queue.                  *)
Inspect(w) ==
    /\ At(w, "idle")
    /\ Counted
    /\ \E suffix \in Segments \cup {NoSuffix}, p \in Profiles :
          Start(w, ReviewId(suffix, requests + 1), Outcome(p), requests + 1)
    /\ UNCHANGED <<reviews, objs, trail, made, overlapped>>

(* The onboarding agent and _ensure_final_review file their reviews the    *)
(* same way, and again when the file of an application is completed twice. *)
FileApplication(w) ==
    /\ At(w, "idle")
    /\ Counted
    /\ \E id \in Applications : Start(w, id, "application", requests + 1)
    /\ UNCHANGED <<reviews, objs, trail, made, overlapped>>

(* add_review builds the dict and looks for its id *)
Look(w) ==
    LET slots == Slots(job[w].id)
    IN  /\ At(w, "look")
        /\ job' = [job EXCEPT ![w].pc = "put",
                              ![w].slot = IF slots = {} THEN 0 ELSE Min(slots)]
        /\ Enter(job[w].id)
        /\ UNCHANGED <<reviews, objs, trail, made, requests>>

NewReview(w) ==
    [id |-> job[w].id, n |-> job[w].n, status |-> "pending", decision |-> "none"]

(* Mutant: the dict in the slot is updated with the new review's keys.     *)
PutInPlace(w) ==
    LET r == NewReview(w)
        ref == reviews[job[w].slot]
    IN  /\ At(w, "put")
        /\ IF job[w].slot = 0
           THEN objs' = Append(objs, r) /\ reviews' = Append(reviews, Len(objs) + 1)
           ELSE /\ objs' = [objs EXCEPT ![ref] =
                              [r EXCEPT !.decision = objs[ref].decision]]
                /\ UNCHANGED reviews
        /\ Goto(w, "announce")
        /\ UNCHANGED <<trail, made, overlapped, requests>>

(* ... and puts it in the slot that had the id, or at the end *)
Put(w) ==
    /\ At(w, "put")
    /\ objs' = Append(objs, NewReview(w))
    /\ reviews' = IF job[w].slot = 0 THEN Append(reviews, Len(objs) + 1)
                  ELSE [reviews EXCEPT ![job[w].slot] = Len(objs) + 1]
    /\ Goto(w, "announce")
    /\ UNCHANGED <<trail, made, overlapped, requests>>

(* _assemble_result publishes the escalation, which _audit_escalation puts *)
(* on the trail before publish returns.                                    *)
Announce(w) ==
    /\ At(w, "announce")
    /\ trail' = trail \cup
          {<<"review_escalated", job[w].n, id>> : id \in
              IF Escalates(job[w].outcome) THEN {job[w].id} ELSE {}}
    /\ job' = [job EXCEPT ![w] = IF @.outcome = "application" THEN Idle
                                 ELSE [@ EXCEPT !.pc = "audit"]]
    /\ UNCHANGED <<reviews, objs, made, overlapped, requests>>

(* the handler's own audit event *)
AuditDecision(w) ==
    /\ At(w, "audit")
    /\ trail' = trail \cup {<<"compliance_decision", job[w].n, job[w].outcome>>}
    /\ job' = [job EXCEPT ![w] = Idle]
    /\ UNCHANGED <<reviews, objs, made, overlapped, requests>>

-----------------------------------------------------------------------------
(* resolve_review finds the first dict with the id; without one the handler*)
(* answers 404.                                                            *)
Find(w, id, d) ==
    /\ At(w, "idle")
    /\ Slots(id) # {}
    /\ job' = [job EXCEPT ![w] =
                  [pc |-> "mark", id |-> id, ref |-> First(id), decision |-> d]]
    /\ made' = made \cup {<<objs[First(id)].n, d>>}
    /\ Enter(id)
    /\ UNCHANGED <<reviews, objs, trail>>

(* A reviewer decides what the queue shows, or something decided before.   *)
Resolve(w, id, d) == Find(w, id, d) /\ Pending(id) /\ UNCHANGED requests
Reconsider(w, id, d) == Find(w, id, d) /\ ~Pending(id) /\ Counted

(* Mutant: the status is changed on a copy of the dict. *)
SetStatusOfCopy(w) ==
    /\ At(w, "mark")
    /\ Goto(w, "sign")
    /\ UNCHANGED <<reviews, objs, trail, made, overlapped, requests>>

SetStatus(w) ==
    /\ At(w, "mark")
    /\ objs' = [objs EXCEPT ![job[w].ref].status = "resolved"]
    /\ Goto(w, "sign")
    /\ UNCHANGED <<reviews, trail, made, overlapped, requests>>

(* decision, reviewer and notes; the handler then reports what it did *)
SetDecision(w) ==
    /\ At(w, "sign")
    /\ objs' = [objs EXCEPT ![job[w].ref].decision = job[w].decision]
    /\ job' = [job EXCEPT ![w] = Idle]
    /\ UNCHANGED <<reviews, trail, made, overlapped, requests>>

-----------------------------------------------------------------------------
Serve(w) ==
    \/ Look(w) \/ Put(w) \/ Announce(w) \/ AuditDecision(w)
    \/ SetStatus(w) \/ SetDecision(w)

Next == \E w \in Workers :
    \/ Inspect(w) \/ FileApplication(w)
    \/ Serve(w)
    \/ \E id \in ReviewIds, d \in Decisions :
          Resolve(w, id, d) \/ Reconsider(w, id, d)

Spec == Init /\ [][Next]_vars

(* Threads run, and reviewers take up what the queue shows as pending.     *)
FairSpec ==
    /\ Spec
    /\ \A w \in Workers : WF_vars(Serve(w))
    /\ \A id \in ReviewIds :
          SF_vars(\E w \in Workers, d \in Decisions : Resolve(w, id, d))

-----------------------------------------------------------------------------
(* Properties. *)

Numbers == 1 .. MaxRequests

Review == [id : ReviewIds, n : Numbers, status : {"pending", "resolved"},
           decision : Decisions \cup {"none"}]

Filings == [pc : {"look", "put", "announce", "audit"}, n : Numbers,
            id : ReviewIds, outcome : Outcomes \cup {"application"}, slot : Nat]

Resolutions == [pc : {"mark", "sign"}, id : ReviewIds, ref : Nat \ {0},
                decision : Decisions]

(* Type invariant: references are to dicts, slots to places in the list.   *)
TypeOK ==
    /\ objs \in Seq(Review)
    /\ reviews \in Seq(DOMAIN objs)
    /\ job \in [Workers -> {Idle} \cup Filings \cup Resolutions]
    /\ \A w \in Workers :
          /\ job[w] \in Filings => job[w].slot \in {0} \cup DOMAIN reviews
          /\ job[w] \in Resolutions => job[w].ref \in DOMAIN objs
    /\ trail \subseteq ({"review_escalated"} \X Numbers \X ReviewIds)
                       \cup ({"compliance_decision"} \X Numbers \X Outcomes)
    /\ made \subseteq Numbers \X Decisions
    /\ overlapped \subseteq ReviewIds
    /\ requests \in 0 .. MaxRequests

(* Safety: however the threads interleave, a request the trail reports as  *)
(* decided "warn" or "fail" was reported as escalated before, its review   *)
(* is in the queue, and a request without an id has one of its own: no     *)
(* "collisions like REV-unknown swallowing unrelated cases"                *)
(* (compliance.py:83-85, 95-108, 126-133). Unless two calls for an id      *)
(* overlapped there are "no duplicates" of it (graph_store.py:243).        *)
EscalatedIsReviewed ==
    /\ \A n \in Numbers, o \in {"warn", "fail"} :
          <<"compliance_decision", n, o>> \in trail =>
              \E id \in ReviewIds : <<"review_escalated", n, id>> \in trail
    /\ \A e \in trail : e[1] = "review_escalated" =>
          /\ Slots(e[3]) # {}
          /\ e[3] \notin Segments \cup Applications =>
                \E i \in DOMAIN reviews : objs[reviews[i]].n = e[2]
    /\ \A id \in ReviewIds \ overlapped : \A i, j \in Slots(id) : i = j

(* Safety: an approval a client is shown was made by a reviewer on the very*)
(* filing the queue holds, though a review may be replaced while it is     *)
(* decided and is decided one key at a time (graph_store.py:249-279).      *)
ApprovalIsForThisFiling ==
    \A id \in Applications : ClientView(id) = "approved" =>
        <<objs[First(id)].n, "approve">> \in made

(* The state of a review as the register sees it: it is decided when the   *)
(* decision is written.                                                    *)
Shown(id) ==
    IF Slots(id) = {} THEN [state |-> "absent"]
    ELSE LET r == objs[First(id)]
         IN  [case |-> r.n,
              state |-> IF r.decision = "none" THEN "pending" ELSE r.decision]

Register(id) ==
    INSTANCE ReviewRegister WITH Cases <- Numbers, review <- Shown(id)

(* A call for an id that takes effect: what was filed is up for decision,  *)
(* and what was decided is shown.                                          *)
Effective(w, id) ==
    /\ At(w, "put") /\ ~At(w, "put")' =>
          Shown(id)' = [case |-> job[w].n, state |-> "pending"]
    /\ At(w, "sign") /\ ~At(w, "sign")' =>
          Shown(id)' = [case |-> Shown(id).case, state |-> job[w].decision]

(* Refinement, id by id: whatever overlaps, the list is a register for     *)
(* each id (graph_store.py:234-279); and as long as no two calls for an id *)
(* overlap, none of them is lost.                                          *)
QueueIsRegister ==
    [][\A id \in ReviewIds :
          /\ Shown(id)' = Shown(id) \/ Register(id)!Next
          /\ id \notin overlapped =>
                \A w \in Workers : InQueue(w) /\ job[w].id = id => Effective(w, id)]_vars

(* Liveness: unless two calls for an id overlapped, its pending review     *)
(* leaves the queue: deciding it once is enough (graph_store.py:265-278).  *)
QueueDrains ==
    \A id \in ReviewIds : Pending(id) ~> (~Pending(id) \/ id \in overlapped)

(* Safety, of the scoring alone and so evaluated before the first request: *)
(* of two transactions of one client the larger is never treated more      *)
(* leniently, though its size adds to the confidence that would let it     *)
(* pass (compliance.py:76-85).                                             *)
Rank == [o \in Outcomes |-> IF o = "pass" THEN 0 ELSE IF o = "warn" THEN 1 ELSE 2]

LargerNeverSofter ==
    requests = 0 =>
        \A p, q \in Profiles :
            p.risk = q.risk /\ p.hits = q.hits /\ p.amount <= q.amount =>
                Rank[Outcome(p)] <= Rank[Outcome(q)]
=============================================================================
