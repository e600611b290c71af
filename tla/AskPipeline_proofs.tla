-------------------------- MODULE AskPipeline_proofs --------------------------
(***************************************************************************)
(* Theorems about AskPipeline, for any callers, any number of questions and*)
(* any number of store calls that raise.                                   *)
(***************************************************************************)
EXTENDS AskPipeline, TLAPS

(* A question has got as far as the check. *)
Fanned == ask.pc \in {"work", "end"}

(* Workers run once the question is fanned out, and only those whose check *)
(* is on the trail; when it has ended they have too.                       *)
WorkChecked ==
    \A i \in Intents : work[i] # "off" =>
        /\ Fanned
        /\ ~Anonymous => CheckPassed(i)
        /\ At("end") => work[i] \in Ended

(* The calls on the trail are those of the workers that ended.             *)
TrailOfWork ==
    \A i \in Intents :
        /\ work[i] = "ok" <=> Called(i, TRUE) \in trail
        /\ work[i] = "error" <=> Called(i, FALSE) \in trail

(* Before the check nothing is on the trail; after it the denials are.     *)
TrailOfRoute ==
    /\ ~Fanned => trail = {}
    /\ At("work") =>
          /\ Routed(TRUE) \notin trail /\ Routed(FALSE) \notin trail
          /\ \A i \in ask.intents \ ask.allowed : Checked(i, FALSE) \in trail

LEMMA EventsDiffer ==
    /\ \A t, u, a, b : Called(t, a) = Called(u, b) => t = u /\ a = b
    /\ \A t, u, a, b : Called(t, a) # Checked(u, b)
    /\ \A t, a, b : Called(t, a) # Routed(b)
    /\ \A i, a, b : Checked(i, a) # Routed(b)
    /\ \A a, b : Routed(a) = Routed(b) => a = b
  BY DEF Called, Checked, Routed

LEMMA NothingIsNotAsked == Nothing \notin Asked /\ Nothing.pc = "idle"
  BY DEF Nothing, Asked

LEMMA EventsAreEvents ==
    /\ \A i \in Intents, b \in BOOLEAN : Checked(i, b) \in Events /\ Called(i, b) \in Events
    /\ \A b \in BOOLEAN : Called("policy_search", b) \in Events /\ Routed(b) \in Events
  BY DEF Events

(* What the changes to a question leave it. *)
LEMMA AskChanges ==
    ASSUME NEW a \in Asked
    PROVE  /\ a.pc \in {"refuse", "classify", "rbac", "work", "end"}
           /\ a.q \in Questions /\ a.intents \subseteq Intents
           /\ a.allowed \subseteq Intents /\ a.reply \in Replies
           /\ \A r \in Replies : [a EXCEPT !.pc = "end", !.reply = r] \in Asked
           /\ \A s \in SUBSET Intents :
                 /\ [a EXCEPT !.pc = "rbac", !.intents = s] \in Asked
                 /\ [a EXCEPT !.pc = "work", !.allowed = s] \in Asked
  BY DEF Asked

(* A reply ends one worker and puts its call on the trail unless it broke. *)
LEMMA ReplyIs ==
    ASSUME NEW i \in Intents, NEW outcome \in Ended, Reply(i, outcome)
    PROVE  /\ work' = [work EXCEPT ![i] = outcome]
           /\ outcome = "ok" => trail' = trail \cup {Called(i, TRUE)}
           /\ outcome = "error" => trail' = trail \cup {Called(i, FALSE)}
           /\ outcome = "broken" => trail' = trail
           /\ trail' \subseteq trail \cup {Called(i, TRUE), Called(i, FALSE)}
  <1>1. CASE outcome = "ok"
    <2>1. (outcome = "ok") = TRUE
      BY <1>1
    <2>2. trail' = trail \cup {Called(i, outcome = "ok")} /\ outcome # "broken"
      BY <1>1 DEF Reply
    <2>3. trail' = trail \cup {Called(i, TRUE)}
      BY <2>1, <2>2
    <2> QED BY <1>1, <2>3 DEF Reply
  <1>2. CASE outcome = "error"
    <2>1. (outcome = "ok") = FALSE
      BY <1>2
    <2>2. trail' = trail \cup {Called(i, outcome = "ok")} /\ outcome # "broken"
      BY <1>2 DEF Reply
    <2>3. trail' = trail \cup {Called(i, FALSE)}
      BY <2>1, <2>2
    <2> QED BY <1>2, <2>3 DEF Reply
  <1>3. CASE outcome = "broken"
    BY <1>3 DEF Reply
  <1> QED BY <1>1, <1>2, <1>3 DEF Ended

-----------------------------------------------------------------------------
(* Type correctness. *)

(* What a worker does to work and to the trail, whichever it is.           *)
LEMMA ReplyType ==
    ASSUME TypeOK, NEW i \in Intents, NEW outcome \in Ended, Reply(i, outcome),
           work[i] # "off"
    PROVE  /\ work' \in [Intents -> {"off", "call", "generate"} \cup Ended]
           /\ {j \in Intents : work'[j] # "off"} = {j \in Intents : work[j] # "off"}
           /\ trail' \subseteq Events
  <1>1. work' = [work EXCEPT ![i] = outcome] /\ outcome # "off"
    BY ReplyIs DEF Ended
  <1>2. trail' \subseteq trail \cup {Called(i, TRUE), Called(i, FALSE)}
    BY ReplyIs
  <1>3. trail' \subseteq Events
    BY <1>2, EventsAreEvents DEF TypeOK
  <1> QED BY <1>1, <1>3 DEF TypeOK

LEMMA GenerationsAreCounts ==
    \A g \in Generations :
        g \in [calls : Nat, errors : Nat, mock : Nat, mockFallback : Nat]
  <1> DEFINE Counts == [calls : Nat, errors : Nat, mock : Nat, mockFallback : Nat]
  <1>1. Model = [calls |-> 1, errors |-> 0, mock |-> 0, mockFallback |-> 0]
    BY DEF Model, NoUsage
  <1>2. NoProvider = [calls |-> 0, errors |-> 0, mock |-> 1, mockFallback |-> 0]
    BY DEF NoProvider, NoUsage
  <1>3. Unreadable = [calls |-> 0, errors |-> 0, mock |-> 0, mockFallback |-> 1]
    BY DEF Unreadable, NoUsage
  <1>4. Failed = [calls |-> 0, errors |-> 1, mock |-> 0, mockFallback |-> 1]
    BY <1>3 DEF Failed
  <1>5. Model \in Counts /\ NoProvider \in Counts
    BY <1>1, <1>2
  <1>6. Failed \in Counts /\ Unreadable \in Counts
    BY <1>3, <1>4
  <1> HIDE DEF Counts
  <1>7. \A g \in Generations : g \in Counts
    BY <1>5, <1>6 DEF Generations
  <1> QED BY <1>7 DEF Counts

LEMMA TypeInitial == Init => TypeOK
  <1> SUFFICES ASSUME Init PROVE TypeOK
    OBVIOUS
  <1>1. 0 \in 0 .. MaxRequests /\ 0 \in 0 .. MaxFaults
    BY BoundsAssumption DEF BoundsAssumption
  <1>2. ask = Nothing /\ ask \notin Asked
    BY NothingIsNotAsked DEF Init
  <1> QED BY <1>1, <1>2 DEF Init, TypeOK, NoWork, NoUsage

LEMMA TypeStep == TypeOK /\ [Next]_vars => TypeOK'
  <1> SUFFICES ASSUME TypeOK, [Next]_vars PROVE TypeOK'
    OBVIOUS
  <1> USE NothingIsNotAsked, BoundsAssumption DEF BoundsAssumption
  <1>1. CASE Ask
    <2>1. PICK q \in Questions :
            ask' = [pc |-> IF q.injection THEN "refuse" ELSE "classify", q |-> q,
                    intents |-> {}, allowed |-> {}, reply |-> "none"]
      BY <1>1 DEF Ask
    <2>2. ask' \in Asked
      BY <2>1 DEF Asked, Replies
    <2>3. requests' \in 0 .. MaxRequests
      BY <1>1 DEF Ask, TypeOK
    <2>4. work' = NoWork /\ trail' = {}
      BY <1>1 DEF Ask
    <2> QED BY <1>1, <2>2, <2>3, <2>4 DEF Ask, TypeOK, NoWork
  <1>2. ASSUME NEW reply \in Replies, ask.pc # "idle", Finish(reply),
               UNCHANGED <<provider, work, usage, served, requests>>,
               trail' \subseteq Events, faults' \in 0 .. MaxFaults
        PROVE  TypeOK'
    <2>1. ask \in Asked
      BY <1>2 DEF TypeOK
    <2>2. ask' \in Asked /\ ask'.allowed = ask.allowed
      BY <1>2, <2>1, AskChanges DEF Finish, Asked
    <2> QED BY <1>2, <2>1, <2>2 DEF TypeOK
  <1>3. CASE Refuse
    BY <1>2, <1>3 DEF Refuse, At, Replies, TypeOK
  <1>4. CASE ClassifyIntents
    <2>1. CASE ask' = [ask EXCEPT !.pc = "rbac", !.intents = Classified(ask.q)]
               /\ UNCHANGED faults
      <3>1. ask \in Asked
        BY <1>4 DEF ClassifyIntents, At, TypeOK
      <3>2. Classified(ask.q) \in SUBSET Intents
        <4>1. ask.q \in Questions
          BY <3>1 DEF Asked
        <4>2. ask.q.matches \subseteq Patterns
          BY <4>1 DEF Questions
        <4> QED BY <4>2 DEF Classified, Specialised, Intents
      <3>3. ask' \in Asked /\ ask'.allowed = ask.allowed
        BY <2>1, <3>1, <3>2, AskChanges DEF Asked
      <3> QED BY <1>4, <2>1, <3>1, <3>3 DEF ClassifyIntents, TypeOK
    <2>2. CASE Raises /\ Finish("failed")
      <3>1. faults' \in 0 .. MaxFaults
        BY <2>2 DEF Raises, TypeOK
      <3> QED BY <1>2, <1>4, <2>2, <3>1 DEF ClassifyIntents, At, Replies, TypeOK
    <2> QED BY <1>4, <2>1, <2>2 DEF ClassifyIntents
  <1>5. CASE EnforceRbac
    <2> DEFINE allowed == IF Anonymous THEN ask.intents
                          ELSE ask.intents \cap MayUse(ask.q.roles)
    <2>1. ask \in Asked
      BY <1>5 DEF EnforceRbac, At, TypeOK
    <2>2. allowed \subseteq ask.intents /\ allowed \in SUBSET Intents
      BY <2>1 DEF Asked
    <2>3. ask' = [ask EXCEPT !.pc = "work", !.allowed = allowed]
      BY <1>5 DEF EnforceRbac
    <2>4. ask' \in Asked /\ ask'.allowed = allowed
      BY <2>1, <2>2, <2>3, AskChanges DEF Asked
    <2>5. work' = [i \in Intents |-> IF i \in allowed THEN "call" ELSE "off"]
      BY <1>5 DEF EnforceRbac
    <2>6. trail' \subseteq Events
      <3>1. CASE Anonymous
        BY <1>5, <3>1 DEF EnforceRbac, TypeOK
      <3>2. CASE ~Anonymous
        <4>1. trail' = {Checked(i, i \in allowed) : i \in ask.intents}
          BY <1>5, <3>2 DEF EnforceRbac
        <4>2. ask.intents \subseteq Intents
          BY <2>1 DEF Asked
        <4>3. \A i \in Intents : Checked(i, i \in allowed) \in Events
          <5> HIDE DEF allowed
          <5> TAKE i \in Intents
          <5>1. CASE i \in allowed
            <6>1. (i \in allowed) = TRUE
              BY <5>1
            <6> QED BY <6>1, EventsAreEvents
          <5>2. CASE i \notin allowed
            <6>1. (i \in allowed) = FALSE
              BY <5>2
            <6> QED BY <6>1, EventsAreEvents
          <5> QED BY <5>1, <5>2
        <4> QED BY <4>1, <4>2, <4>3
      <3> QED BY <3>1, <3>2
    <2> HIDE DEF allowed
    <2> QED BY <1>5, <2>1, <2>4, <2>5, <2>6 DEF EnforceRbac, TypeOK
  <1>6. CASE Aggregate
    <2>1. trail' \subseteq Events
      <3>1. Routed(ask.allowed # {}) \in Events
        BY EventsAreEvents
      <3> QED BY <1>6, <3>1 DEF Aggregate, TypeOK
    <2> QED BY <1>2, <1>6, <2>1 DEF Aggregate, At, Replies, TypeOK
  <1>7. ASSUME NEW i \in Intents, NEW outcome \in Ended, Reply(i, outcome),
               work[i] # "off", UNCHANGED <<provider, ask, requests>>,
               usage' \in [calls : Nat, errors : Nat, mock : Nat, mockFallback : Nat],
               served' \in [model : Nat, stub : Nat], faults' \in 0 .. MaxFaults
        PROVE  TypeOK'
    BY <1>7, ReplyType DEF TypeOK
  <1>8. ASSUME NEW i \in Intents, work[i] # "off", work' = [work EXCEPT ![i] = "generate"],
               trail' \subseteq Events,
               UNCHANGED <<provider, ask, usage, served, requests, faults>>
        PROVE  TypeOK'
    BY <1>8 DEF TypeOK
  <1>9. CASE SearchPolicies
    <2>1. "copilot_query" \in Intents /\ work["copilot_query"] # "off"
      BY <1>9 DEF SearchPolicies, Intents
    <2>2. CASE Raises /\ Reply("copilot_query", "broken")
      <3>1. faults' \in 0 .. MaxFaults
        BY <2>2 DEF Raises, TypeOK
      <3> QED BY <1>7, <1>9, <2>1, <2>2, <3>1 DEF SearchPolicies, Ended, TypeOK
    <2>3. CASE ~(Raises /\ Reply("copilot_query", "broken"))
      <3>1. trail' \subseteq Events
        BY <1>9, <2>3, EventsAreEvents DEF SearchPolicies, TypeOK
      <3> QED BY <1>8, <1>9, <2>1, <2>3, <3>1 DEF SearchPolicies, TypeOK
    <2> QED BY <2>2, <2>3
  <1>10. ASSUME NEW i \in Intents, LookUpClient(i)
         PROVE  TypeOK'
    <2>1. work[i] # "off"
      BY <1>10 DEF LookUpClient
    <2>2. CASE Reply(i, "error") /\ UNCHANGED faults
      BY <1>7, <1>10, <2>1, <2>2 DEF LookUpClient, Ended, TypeOK
    <2>3. CASE Reply(i, "ok") /\ UNCHANGED faults
      BY <1>7, <1>10, <2>1, <2>3 DEF LookUpClient, Ended, TypeOK
    <2>4. CASE work' = [work EXCEPT ![i] = "generate"] /\ UNCHANGED <<trail, faults>>
      BY <1>8, <1>10, <2>1, <2>4 DEF LookUpClient, TypeOK
    <2>5. CASE Raises /\ Reply(i, "broken")
      <3>1. faults' \in 0 .. MaxFaults
        BY <2>5 DEF Raises, TypeOK
      <3> QED BY <1>7, <1>10, <2>1, <2>5, <3>1 DEF LookUpClient, Ended, TypeOK
    <2> QED BY <1>10, <2>2, <2>3, <2>4, <2>5 DEF LookUpClient
  <1>11. ASSUME NEW i \in Intents, Compute(i)
         PROVE  TypeOK'
    BY <1>7, <1>11 DEF Compute, Ended, TypeOK
  <1>12. ASSUME NEW i \in Intents, Generate(i)
         PROVE  TypeOK'
    <2>1. PICK g \in Generations :
            usage' = [calls |-> usage.calls + g.calls,
                      errors |-> usage.errors + g.errors,
                      mock |-> usage.mock + g.mock,
                      mockFallback |-> usage.mockFallback + g.mockFallback]
      BY <1>12 DEF Generate
    <2>2. usage' \in [calls : Nat, errors : Nat, mock : Nat, mockFallback : Nat]
      BY <2>1, GenerationsAreCounts DEF TypeOK
    <2>3. served' \in [model : Nat, stub : Nat]
      BY <1>12 DEF Generate, TypeOK
    <2> QED BY <1>7, <1>12, <2>2, <2>3 DEF Generate, Ended, TypeOK
  <1>13. CASE UNCHANGED vars
    BY <1>13 DEF vars, TypeOK
  <1> QED
    BY <1>1, <1>3, <1>4, <1>5, <1>6, <1>9, <1>10, <1>11, <1>12, <1>13
    DEF Next, Step, Worker

(* Type correctness of every specification of the module.                  *)
THEOREM TypeCorrect == Spec => []TypeOK
  BY TypeInitial, TypeStep, PTL DEF Spec

-----------------------------------------------------------------------------
(* What steps there are, seen from the workers and the trail. *)

(* The question goes on, or ends, before anything has started.             *)
NotStarted ==
    /\ ask \in Asked /\ ask' \in Asked /\ ~Fanned
    /\ ask'.pc = "rbac" \/ (ask'.pc = "end" /\ ask'.reply \in {"refused", "failed"})
    /\ UNCHANGED <<provider, work, trail, usage, served>>

(* A running worker ends.                                                  *)
Ending(i, outcome) ==
    /\ work[i] \in {"call", "generate"}
    /\ Reply(i, outcome)
    /\ UNCHANGED <<provider, ask>>
    /\ work[i] = "generate" \/ UNCHANGED <<usage, served>>

(* A worker has what it needs for a text; the copilot's search is recorded.*)
Proceeding(i) ==
    /\ work[i] = "call" /\ work' = [work EXCEPT ![i] = "generate"]
    /\ UNCHANGED <<provider, ask, usage, served>>
    /\ \/ trail' = trail
       \/ i = "copilot_query" /\ trail' = trail \cup {Called("policy_search", TRUE)}

LEMMA Finished ==
    ASSUME ask \in Asked, NEW reply \in Replies, Finish(reply)
    PROVE  /\ ask' \in Asked /\ ask'.pc = "end" /\ ask'.reply = reply
           /\ ask'.q = ask.q /\ ask'.intents = ask.intents /\ ask'.allowed = ask.allowed
  BY AskChanges DEF Finish, Asked

LEMMA StepIs ==
    ASSUME TypeOK, [Next]_vars
    PROVE  \/ Ask \/ NotStarted \/ EnforceRbac \/ Aggregate
           \/ \E i \in Intents, outcome \in Ended : Ending(i, outcome)
           \/ \E i \in Intents : Proceeding(i)
           \/ UNCHANGED vars
  <1>1. ASSUME Refuse \/ ClassifyIntents PROVE NotStarted
    <2>1. ask \in Asked /\ ~Fanned
      BY <1>1, NothingIsNotAsked DEF Refuse, ClassifyIntents, At, Fanned, TypeOK
    <2>2. CASE Finish("refused") \/ Finish("failed")
      BY <1>1, <2>1, <2>2, Finished DEF Refuse, ClassifyIntents, NotStarted, Replies
    <2>3. CASE ClassifyIntents /\ ask' = [ask EXCEPT !.pc = "rbac", !.intents = Classified(ask.q)]
      <3>1. Classified(ask.q) \in SUBSET Intents
        <4>1. ask.q.matches \subseteq Patterns
          BY <2>1, AskChanges DEF Questions
        <4> QED BY <4>1 DEF Classified, Specialised, Intents
      <3>2. ask' \in Asked
        BY <2>1, <2>3, <3>1, AskChanges
      <3>3. ask'.pc = "rbac"
        BY <2>1, <2>3 DEF Asked
      <3> QED BY <2>1, <2>3, <3>2, <3>3 DEF ClassifyIntents, NotStarted
    <2> QED BY <1>1, <2>2, <2>3 DEF Refuse, ClassifyIntents
  <1>2. ASSUME SearchPolicies
        PROVE  \/ \E i \in Intents, outcome \in Ended : Ending(i, outcome)
               \/ \E i \in Intents : Proceeding(i)
    <2>1. "copilot_query" \in Intents /\ "broken" \in Ended
      BY DEF Intents, Ended
    <2>2. Ending("copilot_query", "broken") \/ Proceeding("copilot_query")
      BY <1>2 DEF SearchPolicies, Ending, Proceeding
    <2> QED BY <2>1, <2>2
  <1>3. ASSUME NEW i \in Intents, LookUpClient(i)
        PROVE  (\E outcome \in Ended : Ending(i, outcome)) \/ Proceeding(i)
    <2>1. \/ Ending(i, "ok") \/ Ending(i, "error") \/ Ending(i, "broken")
          \/ Proceeding(i)
      BY <1>3 DEF LookUpClient, Ending, Proceeding
    <2> QED BY <2>1 DEF Ended
  <1>4. ASSUME NEW i \in Intents, Compute(i) \/ Generate(i)
        PROVE  \E outcome \in Ended : Ending(i, outcome)
    <2>1. Ending(i, "ok")
      BY <1>4 DEF Compute, Generate, Ending
    <2> QED BY <2>1 DEF Ended
  <1> QED BY <1>1, <1>2, <1>3, <1>4 DEF Next, Step, Worker

-----------------------------------------------------------------------------
(* Nothing before its check. *)

LEMMA WorkCheckedStep ==
    ASSUME TypeOK, WorkChecked, [Next]_vars
    PROVE  WorkChecked'
  <1> USE NothingIsNotAsked
  <1>1. CASE Ask
    BY <1>1 DEF Ask, NoWork, WorkChecked
  <1>2. CASE NotStarted
    BY <1>2 DEF NotStarted, WorkChecked
  <1>3. CASE EnforceRbac
    <2> DEFINE allowed == IF Anonymous THEN ask.intents
                          ELSE ask.intents \cap MayUse(ask.q.roles)
    <2>1. ask \in Asked
      BY <1>3 DEF EnforceRbac, At, TypeOK
    <2>2. ask' = [ask EXCEPT !.pc = "work", !.allowed = allowed]
      BY <1>3 DEF EnforceRbac
    <2>3. allowed \in SUBSET Intents
      BY <2>1 DEF Asked
    <2>4. ask'.pc = "work" /\ ask'.q = ask.q
      <3> HIDE DEF allowed
      <3> QED BY <2>1, <2>2, <2>3 DEF Asked
    <2>5. \A i \in Intents : work'[i] # "off" => i \in allowed
      BY <1>3 DEF EnforceRbac
    <2>6. ~Anonymous => \A i \in allowed : Checked(i, TRUE) \in trail' /\ i \in MayUse(ask.q.roles)
      <3> SUFFICES ASSUME ~Anonymous, NEW i \in allowed
                   PROVE  Checked(i, TRUE) \in trail' /\ i \in MayUse(ask.q.roles)
        OBVIOUS
      <3>1. trail' = {Checked(j, j \in allowed) : j \in ask.intents}
        BY <1>3 DEF EnforceRbac
      <3>2. i \in ask.intents /\ i \in MayUse(ask.q.roles)
        OBVIOUS
      <3>3. (i \in allowed) = TRUE
        OBVIOUS
      <3> HIDE DEF allowed
      <3>4. Checked(i, i \in allowed) \in trail'
        BY <3>1, <3>2
      <3> QED BY <3>2, <3>3, <3>4
    <2> HIDE DEF allowed
    <2> QED BY <2>4, <2>5, <2>6 DEF WorkChecked, Fanned, CheckPassed, At, Anonymous
  <1>4. CASE Aggregate
    <2>1. ask \in Asked
      BY <1>4 DEF Aggregate, At, TypeOK
    <2>2. PICK r \in Replies : Finish(r)
      BY <1>4 DEF Aggregate, Replies
    <2>3. ask'.pc = "end" /\ ask'.q = ask.q
      BY <2>1, <2>2, Finished
    <2>4. \A i \in Intents : work[i] # "off" => work[i] \in Ended
      BY <1>4, <2>1 DEF Aggregate, TypeOK
    <2>5. work' = work /\ trail \subseteq trail'
      BY <1>4 DEF Aggregate
    <2> QED BY <2>3, <2>4, <2>5 DEF WorkChecked, Fanned, CheckPassed, At, Anonymous
  <1>5. ASSUME NEW i \in Intents, NEW w \in {"generate"} \cup Ended,
               work[i] \in {"call", "generate"}, work' = [work EXCEPT ![i] = w],
               trail \subseteq trail', ask' = ask
        PROVE  WorkChecked'
    <2>1. ~At("end")
      BY <1>5 DEF WorkChecked, Ended
    <2>2. work[i] # "off" /\ work \in [Intents -> {"off", "call", "generate"} \cup Ended]
      BY <1>5 DEF TypeOK
    <2>3. \A j \in Intents : work'[j] # "off" => work[j] # "off"
      BY <1>5, <2>2
    <2> QED BY <1>5, <2>1, <2>3 DEF WorkChecked, Fanned, CheckPassed, At, Anonymous
  <1>6. ASSUME NEW i \in Intents, NEW outcome \in Ended, Ending(i, outcome)
        PROVE  WorkChecked'
    <2>1. work' = [work EXCEPT ![i] = outcome] /\ trail \subseteq trail'
      BY <1>6 DEF Ending, Reply
    <2> QED BY <1>5, <1>6, <2>1 DEF Ending
  <1>7. ASSUME NEW i \in Intents, Proceeding(i)
        PROVE  WorkChecked'
    BY <1>5, <1>7 DEF Proceeding
  <1>8. CASE UNCHANGED vars
    BY <1>8 DEF vars, WorkChecked, Fanned, CheckPassed, At, Anonymous
  <1> QED BY <1>1, <1>2, <1>3, <1>4, <1>6, <1>7, <1>8, StepIs

(* What CheckedFirst says of one step.                                     *)
CheckedFirstStep ==
    /\ At("work") /\ ~Anonymous =>
          \A e \in trail' \ trail :
              e.type = "mcp_tool_call" => CheckPassed(IntentOf(e.of))
    /\ usage' # usage /\ ~Anonymous =>
          \E i \in Intents : work[i] = "generate" /\ CheckPassed(i)

LEMMA CheckedFirstHolds ==
    ASSUME TypeOK, WorkChecked, [Next]_vars
    PROVE  CheckedFirstStep \/ UNCHANGED vars
  <1> USE NothingIsNotAsked
  <1>1. CASE ~At("work")
    <2>1. usage' = usage
      <3>1. \A i \in Intents : work[i] \notin {"call", "generate"}
        BY <1>1 DEF WorkChecked, Fanned, At, Ended
      <3> QED
        BY <1>1, <3>1, StepIs
        DEF Ask, NotStarted, EnforceRbac, Aggregate, Ending, Proceeding, vars
    <2> QED BY <1>1, <2>1 DEF CheckedFirstStep
  <1>2. CASE At("work") /\ Aggregate
    <2>1. trail' \ trail \subseteq {Routed(ask.allowed # {})} /\ usage' = usage
      BY <1>2 DEF Aggregate
    <2> QED BY <2>1 DEF CheckedFirstStep, Routed
  <1>3. ASSUME At("work"), NEW i \in Intents, NEW outcome \in Ended, Ending(i, outcome)
        PROVE  CheckedFirstStep
    <2>1. ~Anonymous => CheckPassed(i)
      BY <1>3 DEF Ending, WorkChecked
    <2>2. trail' \ trail \subseteq {Called(i, TRUE), Called(i, FALSE)}
      BY <1>3, ReplyIs DEF Ending
    <2>3. IntentOf(i) = i
      BY DEF IntentOf, Intents, Patterns
    <2>4. \A e \in trail' \ trail : e.of = i
      BY <2>2 DEF Called
    <2> QED BY <1>3, <2>1, <2>3, <2>4 DEF Ending, CheckedFirstStep
  <1>4. ASSUME At("work"), NEW i \in Intents, Proceeding(i)
        PROVE  CheckedFirstStep
    <2>1. ~Anonymous => CheckPassed(i)
      BY <1>4 DEF Proceeding, WorkChecked
    <2>2. \A e \in trail' \ trail : IntentOf(e.of) = i
      BY <1>4 DEF Proceeding, Called, IntentOf
    <2> QED BY <1>4, <2>1, <2>2 DEF Proceeding, CheckedFirstStep
  <1> QED
    BY <1>1, <1>2, <1>3, <1>4, StepIs
    DEF Ask, NotStarted, Fanned, EnforceRbac, At

(* "Gateway check before any worker/LLM runs" (supervisor.py:175), for any *)
(* callers and any schedule of the workers.                                *)
THEOREM CheckFirst == Spec => CheckedFirst
  <1>1. Init => WorkChecked
    BY DEF Init, NoWork, WorkChecked
  <1>2. TypeOK /\ WorkChecked /\ [Next]_vars => WorkChecked'
    BY WorkCheckedStep
  <1>3. TypeOK /\ WorkChecked /\ [Next]_vars => [CheckedFirstStep]_vars
    BY CheckedFirstHolds
  <1> QED
    BY TypeCorrect, <1>1, <1>2, <1>3, PTL DEF Spec, CheckedFirst, CheckedFirstStep

-----------------------------------------------------------------------------
(* The counters. *)

(* What each way to a text adds to the counters.                           *)
LEMMA GenerationsAddUp ==
    /\ Model \in [calls : Nat, errors : Nat, mock : Nat, mockFallback : Nat]
    /\ Model.calls = 1 /\ Model.mock + Model.mockFallback = 0
    /\ Model.errors <= Model.mockFallback /\ Model.mock = 0
    /\ \A g \in Generations :
          /\ g # Model => g.calls = 0 /\ g.mock + g.mockFallback = 1
          /\ g.errors <= g.mockFallback
          /\ provider = "azure" => g.mock = 0
  <1>1. Model = [calls |-> 1, errors |-> 0, mock |-> 0, mockFallback |-> 0]
    BY DEF Model, NoUsage
  <1>2. NoProvider = [calls |-> 0, errors |-> 0, mock |-> 1, mockFallback |-> 0]
    BY DEF NoProvider, NoUsage
  <1>3. Unreadable = [calls |-> 0, errors |-> 0, mock |-> 0, mockFallback |-> 1]
    BY DEF Unreadable, NoUsage
  <1>4. Failed = [calls |-> 0, errors |-> 1, mock |-> 0, mockFallback |-> 1]
    BY <1>3 DEF Failed
  <1>5. \A g \in Generations : g = Model \/ g = NoProvider \/ g = Failed \/ g = Unreadable
    BY DEF Generations
  <1>6. provider = "azure" => NoProvider \notin Generations
    BY <1>1, <1>2, <1>3, <1>4 DEF Generations
  <1> QED BY <1>1, <1>2, <1>3, <1>4, <1>5, <1>6

LEMMA StubsAreCountedStep ==
    ASSUME TypeOK, StubsAreCounted, [Next]_vars
    PROVE  StubsAreCounted'
  <1>1. CASE UNCHANGED <<provider, usage, served>>
    BY <1>1 DEF StubsAreCounted
  <1>2. ASSUME NEW i \in Intents, Generate(i)
        PROVE  StubsAreCounted'
    <2>1. PICK g \in Generations :
            /\ usage' = [calls |-> usage.calls + g.calls,
                         errors |-> usage.errors + g.errors,
                         mock |-> usage.mock + g.mock,
                         mockFallback |-> usage.mockFallback + g.mockFallback]
            /\ served' = IF g = Model THEN [served EXCEPT !.model = @ + 1]
                         ELSE [served EXCEPT !.stub = @ + 1]
      BY <1>2 DEF Generate
    <2>2. /\ usage.calls \in Nat /\ usage.errors \in Nat
          /\ usage.mock \in Nat /\ usage.mockFallback \in Nat
          /\ served.model \in Nat /\ served.stub \in Nat
      BY DEF TypeOK
    <2>3. g.calls \in Nat /\ g.errors \in Nat /\ g.mock \in Nat /\ g.mockFallback \in Nat
      BY GenerationsAreCounts
    <2>4. /\ usage'.calls = usage.calls + g.calls
          /\ usage'.errors = usage.errors + g.errors
          /\ usage'.mock = usage.mock + g.mock
          /\ usage'.mockFallback = usage.mockFallback + g.mockFallback
      BY <2>1
    <2>5. provider' = provider
      BY <1>2 DEF Generate
    <2>6. CASE g = Model
      <3>1. served'.model = served.model + 1 /\ served'.stub = served.stub
        BY <2>1, <2>6 DEF TypeOK
      <3> QED
        BY <2>2, <2>3, <2>4, <2>5, <2>6, <3>1, GenerationsAddUp DEF StubsAreCounted
    <2>7. CASE g # Model
      <3>1. served'.stub = served.stub + 1 /\ served'.model = served.model
        BY <2>1, <2>7 DEF TypeOK
      <3> QED
        BY <2>2, <2>3, <2>4, <2>5, <2>7, <3>1, GenerationsAddUp DEF StubsAreCounted
    <2> QED BY <2>6, <2>7
  <1> QED
    BY <1>1, <1>2
    DEF Next, Step, Worker, Ask, Refuse, ClassifyIntents, EnforceRbac, Aggregate,
        SearchPolicies, LookUpClient, Compute, vars

(* Every stub that was served is in the counters, whatever fails.          *)
THEOREM StubsCounted == Spec => []StubsAreCounted
  <1>1. Init => StubsAreCounted
    BY DEF Init, NoUsage, StubsAreCounted
  <1> QED BY TypeCorrect, StubsAreCountedStep, <1>1, PTL DEF Spec

-----------------------------------------------------------------------------
(* The answer and the trail. *)

TrailInv == WorkChecked /\ TrailOfWork /\ TrailOfRoute /\ TrailMatchesAnswer

(* The same calls of a worker are on the trail before and after.           *)
SameCalls(i) ==
    /\ Called(i, TRUE) \in trail' <=> Called(i, TRUE) \in trail
    /\ Called(i, FALSE) \in trail' <=> Called(i, FALSE) \in trail

LEMMA CallsKept ==
    ASSUME NEW i \in Intents, trail \subseteq trail',
           \A e \in trail' \ trail : e.type # "mcp_tool_call" \/ e.of # i
    PROVE  SameCalls(i)
  <1>1. Called(i, TRUE).type = "mcp_tool_call" /\ Called(i, TRUE).of = i
    BY DEF Called
  <1>2. Called(i, FALSE).type = "mcp_tool_call" /\ Called(i, FALSE).of = i
    BY DEF Called
  <1>3. Called(i, TRUE) \notin trail' \ trail
    BY <1>1
  <1>4. Called(i, FALSE) \notin trail' \ trail
    BY <1>2
  <1> QED BY <1>3, <1>4 DEF SameCalls

LEMMA TrailOfWorkStep ==
    ASSUME TypeOK, TrailOfWork, TrailOfRoute, [Next]_vars
    PROVE  TrailOfWork'
  <1> USE NothingIsNotAsked
  <1>1. CASE Ask
    BY <1>1 DEF Ask, NoWork, TrailOfWork
  <1>2. CASE NotStarted
    BY <1>2 DEF NotStarted, TrailOfWork
  <1>3. CASE EnforceRbac
    <2>1. \A i \in Intents : work'[i] \in {"call", "off"}
      BY <1>3 DEF EnforceRbac
    <2>2. \A i \in Intents : Called(i, TRUE) \notin trail' /\ Called(i, FALSE) \notin trail'
      <3>1. trail = {}
        BY <1>3 DEF EnforceRbac, At, Fanned, TrailOfRoute
      <3>2. \A e \in trail' : e.type = "rbac_check"
        BY <1>3, <3>1 DEF EnforceRbac, Checked
      <3> QED BY <3>2 DEF Called
    <2> QED BY <2>1, <2>2 DEF TrailOfWork
  <1>4. CASE Aggregate
    <2>1. trail \subseteq trail' /\ \A e \in trail' \ trail : e.type = "supervisor_route"
      BY <1>4 DEF Aggregate, Routed
    <2>2. \A i \in Intents : SameCalls(i)
      BY <2>1, CallsKept
    <2>3. work' = work
      BY <1>4 DEF Aggregate
    <2> QED BY <2>2, <2>3 DEF TrailOfWork, SameCalls
  <1>5. ASSUME NEW i \in Intents, NEW outcome \in Ended, Ending(i, outcome)
        PROVE  TrailOfWork'
    <2>1. work' = [work EXCEPT ![i] = outcome] /\ work[i] \in {"call", "generate"}
      BY <1>5, ReplyIs DEF Ending
    <2>2. \A j \in Intents : work'[j] = IF j = i THEN outcome ELSE work[j]
      BY <2>1 DEF TypeOK
    <2>3. Called(i, TRUE) \notin trail /\ Called(i, FALSE) \notin trail
      BY <2>1 DEF TrailOfWork
    <2>4. \A j \in Intents \ {i} : SameCalls(j)
      <3>1. trail \subseteq trail' /\ trail' \subseteq trail \cup {Called(i, TRUE), Called(i, FALSE)}
        BY <1>5, ReplyIs DEF Ending, Ended
      <3>2. \A e \in trail' \ trail : e.of = i
        BY <3>1 DEF Called
      <3> QED BY <3>1, <3>2, CallsKept
    <2>5. Called(i, TRUE) # Called(i, FALSE)
      BY EventsDiffer
    <2>6. CASE outcome = "ok"
      <3>1. trail' = trail \cup {Called(i, TRUE)}
        BY <1>5, <2>6, ReplyIs DEF Ending
      <3>2. Called(i, TRUE) \in trail' /\ Called(i, FALSE) \notin trail'
        BY <2>3, <2>5, <3>1
      <3> QED BY <2>2, <2>4, <2>6, <3>2 DEF TrailOfWork, SameCalls
    <2>7. CASE outcome = "error"
      <3>1. trail' = trail \cup {Called(i, FALSE)}
        BY <1>5, <2>7, ReplyIs DEF Ending
      <3>2. Called(i, TRUE) \notin trail' /\ Called(i, FALSE) \in trail'
        BY <2>3, <2>5, <3>1
      <3> QED BY <2>2, <2>4, <2>7, <3>2 DEF TrailOfWork, SameCalls
    <2>8. CASE outcome = "broken"
      <3>1. trail' = trail
        BY <1>5, <2>8, ReplyIs DEF Ending
      <3> QED BY <2>2, <2>3, <2>8, <3>1 DEF TrailOfWork
    <2> QED BY <2>6, <2>7, <2>8 DEF Ended
  <1>6. ASSUME NEW i \in Intents, Proceeding(i)
        PROVE  TrailOfWork'
    <2>1. \A j \in Intents : work'[j] = IF j = i THEN "generate" ELSE work[j]
      BY <1>6 DEF Proceeding, TypeOK
    <2>2. \A j \in Intents : SameCalls(j)
      <3>1. "policy_search" \notin Intents
        BY DEF Intents, Patterns
      <3>2. trail \subseteq trail' /\ \A e \in trail' \ trail : e.of = "policy_search"
        BY <1>6 DEF Proceeding, Called
      <3> QED BY <3>1, <3>2, CallsKept
    <2>3. work[i] = "call"
      BY <1>6 DEF Proceeding
    <2> QED BY <2>1, <2>2, <2>3 DEF TrailOfWork, SameCalls
  <1>7. CASE UNCHANGED vars
    BY <1>7 DEF vars, TrailOfWork
  <1> QED BY <1>1, <1>2, <1>3, <1>4, <1>5, <1>6, <1>7, StepIs

LEMMA TrailOfRouteStep ==
    ASSUME TypeOK, TrailInv, [Next]_vars
    PROVE  TrailOfRoute'
  <1> USE NothingIsNotAsked
  <1>1. CASE Ask
    <2>1. trail' = {} /\ ask'.pc # "work"
      BY <1>1 DEF Ask
    <2> QED BY <2>1 DEF At, TrailOfRoute
  <1>2. CASE NotStarted
    BY <1>2 DEF NotStarted, At, TrailInv, TrailOfRoute
  <1>3. CASE EnforceRbac
    <2> DEFINE allowed == IF Anonymous THEN ask.intents
                          ELSE ask.intents \cap MayUse(ask.q.roles)
    <2>1. ask \in Asked /\ trail = {}
      BY <1>3 DEF EnforceRbac, At, Fanned, TypeOK, TrailInv, TrailOfRoute
    <2>2. ask' = [ask EXCEPT !.pc = "work", !.allowed = allowed] /\ allowed \subseteq Intents
      BY <1>3, <2>1 DEF EnforceRbac, Asked
    <2>3. ask'.pc = "work" /\ ask'.intents = ask.intents /\ ask'.allowed = allowed
      <3> HIDE DEF allowed
      <3> QED BY <2>1, <2>2 DEF Asked
    <2>4. \A e \in trail' : e.type = "rbac_check"
      BY <1>3, <2>1 DEF EnforceRbac, Checked
    <2>5. Routed(TRUE) \notin trail' /\ Routed(FALSE) \notin trail'
      BY <2>4 DEF Routed
    <2>6. \A i \in ask.intents \ allowed : Checked(i, FALSE) \in trail'
      <3> TAKE i \in ask.intents \ allowed
      <3>1. ~Anonymous /\ (i \in allowed) = FALSE
        OBVIOUS
      <3>2. trail' = {Checked(j, j \in allowed) : j \in ask.intents}
        BY <1>3, <3>1 DEF EnforceRbac
      <3> HIDE DEF allowed
      <3>3. Checked(i, i \in allowed) \in trail'
        BY <3>2
      <3> QED BY <3>1, <3>3
    <2> HIDE DEF allowed
    <2> QED BY <2>3, <2>5, <2>6 DEF TrailOfRoute, At, Fanned
  <1>4. CASE Aggregate
    <2>1. ask'.pc = "end"
      <3>1. ask \in Asked
        BY <1>4 DEF Aggregate, At, TypeOK
      <3>2. PICK r \in Replies : Finish(r)
        BY <1>4 DEF Aggregate, Replies
      <3> QED BY <3>1, <3>2, Finished
    <2> QED BY <2>1 DEF TrailOfRoute, Fanned, At
  <1>5. ASSUME NEW i \in Intents, work[i] # "off", ask' = ask, trail \subseteq trail',
               \A e \in trail' \ trail : e.type = "mcp_tool_call"
        PROVE  TrailOfRoute'
    <2>1. Fanned
      BY <1>5 DEF TrailInv, WorkChecked
    <2>2. Routed(TRUE) \notin trail' \ trail /\ Routed(FALSE) \notin trail' \ trail
      BY <1>5 DEF Routed
    <2> QED BY <1>5, <2>1, <2>2 DEF TrailInv, TrailOfRoute, Fanned, At
  <1>6. ASSUME NEW i \in Intents, NEW outcome \in Ended, Ending(i, outcome)
        PROVE  TrailOfRoute'
    <2>1. trail \subseteq trail' /\ trail' \subseteq trail \cup {Called(i, TRUE), Called(i, FALSE)}
      BY <1>6, ReplyIs DEF Ending, Ended
    <2>2. \A e \in trail' \ trail : e.type = "mcp_tool_call"
      BY <2>1 DEF Called
    <2> QED BY <1>5, <1>6, <2>1, <2>2 DEF Ending
  <1>7. ASSUME NEW i \in Intents, Proceeding(i)
        PROVE  TrailOfRoute'
    <2>1. trail \subseteq trail' /\ \A e \in trail' \ trail : e.type = "mcp_tool_call"
      BY <1>7 DEF Proceeding, Called
    <2> QED BY <1>5, <1>7, <2>1 DEF Proceeding
  <1>8. CASE UNCHANGED vars
    BY <1>8 DEF vars, TrailInv, TrailOfRoute, Fanned, At
  <1> QED BY <1>1, <1>2, <1>3, <1>4, <1>6, <1>7, <1>8, StepIs

LEMMA TrailMatchesAnswerStep ==
    ASSUME TypeOK, TrailInv, [Next]_vars
    PROVE  TrailMatchesAnswer'
  <1> USE NothingIsNotAsked
  <1>1. CASE Ask
    <2>1. ask'.pc # "end"
      BY <1>1 DEF Ask
    <2> QED BY <2>1 DEF At, TrailMatchesAnswer
  <1>2. CASE NotStarted
    <2>1. trail' = {}
      BY <1>2 DEF NotStarted, TrailInv, TrailOfRoute
    <2>2. ask'.pc # "end" \/ ask'.reply \in {"refused", "failed"}
      BY <1>2 DEF NotStarted
    <2> QED BY <2>1, <2>2 DEF At, TrailMatchesAnswer
  <1>3. CASE EnforceRbac
    <2>1. ask \in Asked
      BY <1>3 DEF EnforceRbac, At, TypeOK
    <2>2. PICK s : ask' = [ask EXCEPT !.pc = "work", !.allowed = s]
      BY <1>3 DEF EnforceRbac
    <2>3. ask'.pc = "work"
      BY <2>1, <2>2 DEF Asked
    <2> QED BY <2>3 DEF At, TrailMatchesAnswer
  <1>4. CASE Aggregate
    <2> DEFINE reply == IF ask.allowed = {} THEN "forbidden" ELSE "answered"
    <2>1. ask \in Asked /\ At("work")
      BY <1>4 DEF Aggregate, At, TypeOK
    <2>2. Finish(reply) /\ reply \in Replies
      BY <1>4 DEF Aggregate, Replies
    <2>3. ask'.reply = reply /\ ask'.intents = ask.intents /\ ask'.allowed = ask.allowed
      <3> HIDE DEF reply
      <3> QED BY <2>1, <2>2, Finished
    <2>4. work' = work /\ \A i \in ask.allowed : work[i] \in Ended
      BY <1>4 DEF Aggregate
    <2>5. trail \subseteq trail' /\ \A e \in trail' \ trail : e.type = "supervisor_route"
      BY <1>4 DEF Aggregate, Routed
    <2>6. \A i \in ask.allowed :
             /\ work'[i] \in Ended
             /\ work'[i] = "ok" <=> Called(i, TRUE) \in trail'
             /\ work'[i] = "error" <=> Called(i, FALSE) \in trail'
      <3>1. \A i \in Intents : SameCalls(i)
        BY <2>5, CallsKept
      <3>2. ask.allowed \subseteq Intents
        BY <2>1, AskChanges
      <3> QED BY <2>4, <3>1, <3>2 DEF TrailInv, TrailOfWork, SameCalls
    <2>7. \A i \in ask.intents \ ask.allowed : Checked(i, FALSE) \in trail'
      BY <2>1, <2>5 DEF TrailInv, TrailOfRoute
    <2>8. /\ Routed(TRUE) \in trail' <=> ask.allowed # {}
          /\ Routed(FALSE) \in trail' <=> ask.allowed = {}
      <3>1. Routed(TRUE) \notin trail /\ Routed(FALSE) \notin trail
        BY <2>1 DEF TrailInv, TrailOfRoute
      <3>2. trail' = trail \cup {Routed(ask.allowed # {})}
        BY <1>4 DEF Aggregate
      <3>3. CASE ask.allowed = {}
        <4>1. (ask.allowed # {}) = FALSE
          BY <3>3
        <4>2. trail' = trail \cup {Routed(FALSE)}
          BY <3>2, <4>1
        <4> QED BY <3>1, <3>3, <4>2, EventsDiffer
      <3>4. CASE ask.allowed # {}
        <4>1. (ask.allowed # {}) = TRUE
          BY <3>4
        <4>2. trail' = trail \cup {Routed(TRUE)}
          BY <3>2, <4>1
        <4> QED BY <3>1, <3>4, <4>2, EventsDiffer
      <3> QED BY <3>3, <3>4
    <2> QED BY <2>3, <2>6, <2>7, <2>8 DEF TrailMatchesAnswer
  <1>5. ASSUME NEW i \in Intents, work[i] \in {"call", "generate"}, ask' = ask
        PROVE  TrailMatchesAnswer'
    <2>1. ~At("end")
      BY <1>5 DEF TrailInv, WorkChecked, Ended
    <2> QED BY <1>5, <2>1 DEF At, TrailMatchesAnswer
  <1>6. ASSUME NEW i \in Intents, NEW outcome \in Ended, Ending(i, outcome)
        PROVE  TrailMatchesAnswer'
    BY <1>5, <1>6 DEF Ending
  <1>7. ASSUME NEW i \in Intents, Proceeding(i)
        PROVE  TrailMatchesAnswer'
    BY <1>5, <1>7 DEF Proceeding
  <1>8. CASE UNCHANGED vars
    BY <1>8 DEF vars, TrailInv, TrailMatchesAnswer, At
  <1> QED BY <1>1, <1>2, <1>3, <1>4, <1>6, <1>7, <1>8, StepIs

(* The reply and the audit trail tell the same story, for any question.    *)
THEOREM TrailMatches == Spec => []TrailMatchesAnswer
  <1>1. Init => TrailInv
    BY NothingIsNotAsked
    DEF Init, NoWork, TrailInv, WorkChecked, TrailOfWork, TrailOfRoute,
        TrailMatchesAnswer, At
  <1>2. TypeOK /\ TrailInv /\ [Next]_vars => TrailInv'
    BY WorkCheckedStep, TrailOfWorkStep, TrailOfRouteStep, TrailMatchesAnswerStep
    DEF TrailInv
  <1>3. TrailInv => TrailMatchesAnswer
    BY DEF TrailInv
  <1> QED BY TypeCorrect, <1>1, <1>2, <1>3, PTL DEF Spec
===============================================================================
