------------------------------ MODULE AskPipeline ------------------------------
(***************************************************************************)
(* POST /api/agents/ask: the supervisor (app/agents/supervisor.py) screens *)
(* a question, classifies it into intents, checks each against the roles of*)
(* the caller (app/services/rbac.py), runs a worker per allowed intent in  *)
(* parallel through the MCP server (app/mcp/), and puts their results      *)
(* together. The copilot searches the corpus through a second MCP call, and*)
(* two workers let a model write text, or serve a stub (app/services/      *)
(* llm_adapter.py) and count it (app/services/telemetry.py).               *)
(*                                                                         *)
(* One question is served at a time: questions share only the counters,    *)
(* which are kept under a lock, and the audit log, which AuditTrail models.*)
(***************************************************************************)
EXTENDS Integers, FiniteSets

CONSTANTS
    Callers,      \* role sets of those who may ask
    MaxRequests,  \* bound: questions asked
    MaxFaults     \* bound: store calls and searches that raise

Patterns == {"compliance_inspect", "sanctions_check", "client_profile", "nlp_analyze"}
Intents == Patterns \cup {"copilot_query"}

(* ROLE_PERMISSIONS, as far as intents need them *)
Granted ==
    [compliance_analyst |-> Intents \ {"client_profile"},
     onboarding_officer |-> {"client_profile", "sanctions_check", "copilot_query"},
     risk_manager |-> Intents,
     service_agent |-> {"copilot_query", "sanctions_check"}]

ASSUME CallersAssumption == Callers \subseteq SUBSET DOMAIN Granted
ASSUME BoundsAssumption == MaxRequests \in Nat /\ MaxFaults \in Nat

VARIABLES
    provider,  \* the language model configured: "azure", or "mock" for none
    ask,       \* the question and what has been decided about it
    work,      \* how far each worker is
    trail,     \* the audit events of this question
    usage,     \* llm_usage: calls, errors, and stubs by reason
    served,    \* history: texts written by the model and stubs given out
    requests, faults

vars == <<provider, ask, work, trail, usage, served, requests, faults>>

(* Callers with no roles are developers' machines without authentication.  *)
(* What nobody will read is not varied.                                    *)
Questions ==
    {q \in [roles : Callers, injection : BOOLEAN, matches : SUBSET Patterns,
            client : {"none", "known", "unknown"}, named : BOOLEAN, text : BOOLEAN] :
        /\ q.injection => q.matches = {} /\ q.client = "none"
        /\ q.named => "sanctions_check" \in q.matches
        /\ q.text => "nlp_analyze" \in q.matches}

MayUse(roles) == UNION {Granted[r] : r \in roles}
Anonymous == ask.q.roles = {}

Replies == {"none", "answered", "forbidden", "refused", "failed"}

At(pc) == ask.pc = pc
Finish(reply) == ask' = [ask EXCEPT !.pc = "end", !.reply = reply]

Checked(i, allowed) == [type |-> "rbac_check", of |-> i, ok |-> allowed]
Called(tool, ok) == [type |-> "mcp_tool_call", of |-> tool, ok |-> ok]
Routed(ok) == [type |-> "supervisor_route", of |-> "all", ok |-> ok]

Events ==
    {Checked(i, b) : i \in Intents, b \in BOOLEAN} \cup
    {Called(t, b) : t \in Intents \cup {"policy_search"}, b \in BOOLEAN} \cup
    {Routed(b) : b \in BOOLEAN}

Nothing == [pc |-> "idle"]
NoWork == [i \in Intents |-> "off"]
NoUsage == [calls |-> 0, errors |-> 0, mock |-> 0, mockFallback |-> 0]

Init ==
    /\ provider \in {"azure", "mock"}
    /\ ask = Nothing
    /\ work = NoWork
    /\ trail = {}
    /\ usage = NoUsage
    /\ served = [model |-> 0, stub |-> 0]
    /\ requests = 0 /\ faults = 0

Raises == faults < MaxFaults /\ faults' = faults + 1

-----------------------------------------------------------------------------
(* The supervisor. *)

(* a question arrives: guard_input *)
Ask ==
    /\ At("idle") \/ At("end")
    /\ requests < MaxRequests
    /\ requests' = requests + 1
    /\ \E q \in Questions :
          ask' = [pc |-> IF q.injection THEN "refuse" ELSE "classify", q |-> q,
                  intents |-> {}, allowed |-> {}, reply |-> "none"]
    /\ work' = NoWork /\ trail' = {}
    /\ UNCHANGED <<provider, usage, served, faults>>

Refuse ==
    /\ At("refuse")
    /\ Finish("refused")
    /\ UNCHANGED <<provider, work, trail, usage, served, requests, faults>>

(* what a specialised worker needs to be given *)
HasArguments(q, i) ==
    CASE i \in {"compliance_inspect", "client_profile"} -> q.client # "none"
      [] i = "sanctions_check" -> q.named \/ q.client = "known"
      [] i = "nlp_analyze" -> q.text

Specialised(q) == {i \in q.matches : HasArguments(q, i)}

(* The copilot answers when nothing else can. *)
Classified(q) == IF Specialised(q) = {} THEN {"copilot_query"} ELSE Specialised(q)

AsksStore(q) == "sanctions_check" \in q.matches /\ ~q.named /\ q.client # "none"

ClassifyIntents ==
    /\ At("classify")
    /\ \/ /\ ask' = [ask EXCEPT !.pc = "rbac", !.intents = Classified(ask.q)]
          /\ UNCHANGED faults
       \/ /\ AsksStore(ask.q) /\ Raises
          /\ Finish("failed")
    /\ UNCHANGED <<provider, work, trail, usage, served, requests>>

(* Mutant: the fan-out follows the classification, not the check. *)
EnforceRbacAfterwards ==
    /\ At("rbac")
    /\ ask' = [ask EXCEPT !.pc = "work", !.allowed = ask.intents]
    /\ work' = [i \in Intents |-> IF i \in ask.intents THEN "call" ELSE "off"]
    /\ trail' = IF Anonymous THEN trail
                ELSE {Checked(i, i \in MayUse(ask.q.roles)) : i \in ask.intents}
    /\ UNCHANGED <<provider, usage, served, requests, faults>>

(* Mutant: what is denied is left out of the reply but started. *)
EnforceRbacStartsAll ==
    LET allowed == IF Anonymous THEN ask.intents
                   ELSE ask.intents \cap MayUse(ask.q.roles)
    IN  /\ At("rbac")
        /\ ask' = [ask EXCEPT !.pc = "work", !.allowed = allowed]
        /\ work' = [i \in Intents |-> IF i \in ask.intents THEN "call" ELSE "off"]
        /\ trail' = IF Anonymous THEN trail
                    ELSE {Checked(i, i \in allowed) : i \in ask.intents}
        /\ UNCHANGED <<provider, usage, served, requests, faults>>

(* every intent is checked and the check recorded, then the workers start *)
EnforceRbac ==
    LET allowed == IF Anonymous THEN ask.intents
                   ELSE ask.intents \cap MayUse(ask.q.roles)
    IN  /\ At("rbac")
        /\ ask' = [ask EXCEPT !.pc = "work", !.allowed = allowed]
        /\ work' = [i \in Intents |-> IF i \in allowed THEN "call" ELSE "off"]
        /\ trail' = IF Anonymous THEN trail
                    ELSE {Checked(i, i \in allowed) : i \in ask.intents}
        /\ UNCHANGED <<provider, usage, served, requests, faults>>

Ended == {"ok", "error", "broken"}

(* Mutant: denied workers are waited for too. *)
AggregateAll ==
    /\ At("work")
    /\ \A i \in ask.intents : work[i] \in Ended
    /\ Finish(IF ask.allowed = {} THEN "forbidden" ELSE "answered")
    /\ trail' = trail \cup {Routed(ask.allowed # {})}
    /\ UNCHANGED <<provider, work, usage, served, requests, faults>>

(* all branches have ended: aggregate; with every intent denied agents_ask *)
(* answers 403                                                             *)
Aggregate ==
    /\ At("work")
    /\ \A i \in ask.allowed : work[i] \in Ended
    /\ Finish(IF ask.allowed = {} THEN "forbidden" ELSE "answered")
    /\ trail' = trail \cup {Routed(ask.allowed # {})}
    /\ UNCHANGED <<provider, work, usage, served, requests, faults>>

-----------------------------------------------------------------------------
(* The workers, each inside a tools/call. *)

(* Mutant: a failed tool is recorded as a success.                         *)
ReplyRecordsSuccess(i, outcome) ==
    /\ work' = [work EXCEPT ![i] = outcome]
    /\ trail' = IF outcome = "broken" THEN trail ELSE trail \cup {Called(i, TRUE)}

(* A ValueError is an error of the tool; any other exception leaves        *)
(* _handle_tools_call before it records the call.                          *)
Reply(i, outcome) ==
    /\ work' = [work EXCEPT ![i] = outcome]
    /\ trail' = IF outcome = "broken" THEN trail
                ELSE trail \cup {Called(i, outcome = "ok")}

NeedsClient == {"compliance_inspect", "client_profile"}

(* look up the client, who may not exist *)
LookUpClient(i) ==
    /\ i \in NeedsClient
    /\ work[i] = "call"
    /\ \/ /\ ask.q.client = "unknown"
          /\ Reply(i, "error") /\ UNCHANGED faults
       \/ /\ ask.q.client = "known" /\ i = "client_profile"
          /\ Reply(i, "ok") /\ UNCHANGED faults
       \/ /\ ask.q.client = "known" /\ i = "compliance_inspect"
          /\ work' = [work EXCEPT ![i] = "generate"]
          /\ UNCHANGED <<trail, faults>>
       \/ /\ Raises
          /\ Reply(i, "broken")
    /\ UNCHANGED <<provider, ask, usage, served, requests>>

(* screening and text analysis compute on their arguments *)
Compute(i) ==
    /\ i \in {"sanctions_check", "nlp_analyze"}
    /\ work[i] = "call"
    /\ Reply(i, "ok")
    /\ UNCHANGED <<provider, ask, usage, served, requests, faults>>

(* The copilot's own tools/call of policy_search. Its guard sees the masked*)
(* question the supervisor's let pass, and a search always cites something *)
(* (_FALLBACK).                                                            *)
SearchPolicies ==
    /\ work["copilot_query"] = "call"
    /\ \/ /\ work' = [work EXCEPT !["copilot_query"] = "generate"]
          /\ trail' = trail \cup {Called("policy_search", TRUE)}
          /\ UNCHANGED faults
       \/ /\ Raises
          /\ Reply("copilot_query", "broken")
    /\ UNCHANGED <<provider, ask, usage, served, requests>>

(* generate_reasoning, answer_with_citations: the model writes a text, or a*)
(* stub is served because there is none, because the provider failed, or   *)
(* because what it sent could not be read, which is not counted as failed. *)
Model == [NoUsage EXCEPT !.calls = 1]
NoProvider == [NoUsage EXCEPT !.mock = 1]
Unreadable == [NoUsage EXCEPT !.mockFallback = 1]
Failed == [Unreadable EXCEPT !.errors = 1]

(* Mutant: a provider that fails is not noted as a fallback. *)
GenerationsUnnoted ==
    IF provider = "mock" THEN {NoProvider}
    ELSE {Model, [NoUsage EXCEPT !.errors = 1], Unreadable}

Generations ==
    IF provider = "mock" THEN {NoProvider} ELSE {Model, Failed, Unreadable}

Generate(i) ==
    /\ work[i] = "generate"
    /\ \E g \in Generations :
          /\ usage' = [calls |-> usage.calls + g.calls,
                       errors |-> usage.errors + g.errors,
                       mock |-> usage.mock + g.mock,
                       mockFallback |-> usage.mockFallback + g.mockFallback]
          /\ served' = IF g = Model THEN [served EXCEPT !.model = @ + 1]
                       ELSE [served EXCEPT !.stub = @ + 1]
    /\ Reply(i, "ok")
    /\ UNCHANGED <<provider, ask, requests, faults>>

Worker(i) == LookUpClient(i) \/ Compute(i) \/ Generate(i)

Step ==
    \/ Refuse \/ ClassifyIntents \/ EnforceRbac \/ Aggregate
    \/ SearchPolicies \/ (\E i \in Intents : Worker(i))

Next == Ask \/ Step

Spec == Init /\ [][Next]_vars

(* A thread runs on, store calls return or raise, and a call of the model  *)
(* ends after 45 seconds at most (llm_adapter.py:27).                      *)
FairSpec == Spec /\ WF_vars(Step)

-----------------------------------------------------------------------------
(* Properties. *)

Asked ==
    [pc : {"refuse", "classify", "rbac", "work", "end"}, q : Questions,
     intents : SUBSET Intents, allowed : SUBSET Intents, reply : Replies]

(* Type invariant: only an allowed intent has a worker.                    *)
TypeOK ==
    /\ provider \in {"azure", "mock"}
    /\ ask \in Asked \cup {Nothing}
    /\ work \in [Intents -> {"off", "call", "generate"} \cup Ended]
    /\ ask \in Asked => {i \in Intents : work[i] # "off"} \subseteq ask.allowed
    /\ trail \subseteq Events
    /\ usage \in [calls : Nat, errors : Nat, mock : Nat, mockFallback : Nat]
    /\ served \in [model : Nat, stub : Nat]
    /\ requests \in 0 .. MaxRequests /\ faults \in 0 .. MaxFaults

(* Action property: "gateway check before any worker/LLM runs"             *)
(* (supervisor.py:175): when a tool call of a caller with roles is put on  *)
(* the trail, or a text is generated for them, the check that allowed that *)
(* intent is on the trail already, and their roles do allow it.            *)
CheckPassed(i) == Checked(i, TRUE) \in trail /\ i \in MayUse(ask.q.roles)
IntentOf(tool) == IF tool = "policy_search" THEN "copilot_query" ELSE tool

CheckedFirst ==
    [][/\ At("work") /\ ~Anonymous =>
             \A e \in trail' \ trail :
                 e.type = "mcp_tool_call" => CheckPassed(IntentOf(e.of))
       /\ usage' # usage /\ ~Anonymous =>
             \E i \in Intents : work[i] = "generate" /\ CheckPassed(i)]_vars

(* Safety: the answer and the trail tell the same story. Every allowed     *)
(* worker has its section, one that failed beside others included; it is a *)
(* success, or an error of its tool, exactly when the trail has the call   *)
(* as that; every denial is on the trail; the route is recorded, as denied *)
(* exactly when the caller gets 403; and a refused question left no trace  *)
(* (supervisor.py:182-195, 203-209, 271-278, 315-326, server.py:265-279).  *)
(* The call of a tool that broke is on no trail, though server.py:10 says  *)
(* that every call is.                                                     *)
TrailMatchesAnswer ==
    At("end") =>
        /\ ask.reply \in {"answered", "forbidden"} =>
              /\ \A i \in ask.allowed :
                    /\ work[i] \in Ended
                    /\ work[i] = "ok" <=> Called(i, TRUE) \in trail
                    /\ work[i] = "error" <=> Called(i, FALSE) \in trail
              /\ \A i \in ask.intents \ ask.allowed : Checked(i, FALSE) \in trail
              /\ Routed(TRUE) \in trail <=> ask.allowed # {}
              /\ Routed(FALSE) \in trail <=> ask.reply = "forbidden"
        /\ ask.reply \in {"refused", "failed"} => trail = {}

(* Safety: whoever counts the stubs sees them all: each text served was    *)
(* either written by the model and counted as a call or noted as a         *)
(* fallback, and a provider error is never without its fallback            *)
(* (llm_adapter.py:118-155, 171-241, telemetry.py:189-234).                *)
StubsAreCounted ==
    /\ usage.calls = served.model
    /\ usage.mock + usage.mockFallback = served.stub
    /\ usage.errors <= usage.mockFallback
    /\ provider = "azure" => usage.mock = 0

(* Liveness: a question gets a reply, whatever fails.                      *)
Answered == ask.pc \in {"refuse", "classify", "rbac", "work"} ~> At("end")
===============================================================================
