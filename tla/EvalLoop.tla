------------------------------- MODULE EvalLoop -------------------------------
(***************************************************************************)
(* The evaluation loop: staff rate answers (app/services/feedback.py), an  *)
(* evaluation scores the golden questions, answers again those rated wrong *)
(* (app/eval/harness.py), and adds its scores to the trend in the shared   *)
(* store (app/api.py:625-682), which the dashboard shows.                  *)
(*                                                                         *)
(* Ratings are kept in a list of the replica that took them; the trend is  *)
(* read, extended and written back whole, and whatever the store raises is *)
(* swallowed. A question is its text stripped and lowercased; scores are   *)
(* left out, an evaluation is its number in the order of generated_at.     *)
(***************************************************************************)
EXTENDS Integers, FiniteSets, Sequences, SequencesExt

CONSTANTS
    Questions, Evaluators,    \* questions asked; replicas
    KeepPoints,               \* points the trend keeps (20 in the code)
    MaxRatings, MaxRuns, MaxMissed, MaxRestarts   \* bounds

ASSUME EvalBounds ==
    /\ KeepPoints \in Nat \ {0} /\ MaxRatings \in Nat /\ MaxRuns \in Nat
    /\ MaxMissed \in Nat /\ MaxRestarts \in Nat

VARIABLES
    ratings,     \* _feedback of each replica
    trend,       \* Eval/latest and Eval/history in the shared store
    run,         \* the evaluation each replica is at
    ran,         \* evaluations scored so far
    ended,       \* history: those whose last write was made, in order
    calm,        \* history: no two overlapped and no store call raised
    rated, missed, restarts

evalVars == <<ratings, trend, run, ran, ended, calm, rated, missed, restarts>>

Verdicts == {"wrong", "good"}
NoRun == [step |-> "idle"]
Step(p, step) == run[p].step = step
NoScores == 0

EvalInit ==
    /\ ratings = [p \in Evaluators |-> <<>>]
    /\ trend = [latest |-> NoScores, history |-> <<>>]
    /\ run = [p \in Evaluators |-> NoRun]
    /\ ran = 0 /\ ended = <<>> /\ calm = TRUE
    /\ rated = 0 /\ missed = 0 /\ restarts = 0

(* submit_feedback; another verdict is refused *)
Rate(p, question, verdict) ==
    /\ rated < MaxRatings
    /\ rated' = rated + 1
    /\ ratings' = [ratings EXCEPT ![p] = Append(@, [question |-> question, verdict |-> verdict])]
    /\ UNCHANGED <<trend, run, ran, ended, calm, missed, restarts>>

Wrong(p, question) ==
    {i \in 1 .. Len(ratings[p]) : ratings[p][i] = [question |-> question, verdict |-> "wrong"]}

(* Mutant: a question is kept as it was flagged first. *)
FlaggedFirst(p) ==
    {<<q, CHOOSE i \in Wrong(p, q) : \A j \in Wrong(p, q) : i <= j>> :
        q \in {r \in Questions : Wrong(p, r) # {}}}

(* flagged_questions: each question ever rated wrong, with its last such   *)
(* rating; a later "good" does not take it off.                            *)
Flagged(p) ==
    {<<q, CHOOSE i \in Wrong(p, q) : \A j \in Wrong(p, q) : j <= i>> :
        q \in {r \in Questions : Wrong(p, r) # {}}}

(* run_evaluation: the golden questions are answered and scored.           *)
Score(p) ==
    /\ Step(p, "idle")
    /\ ran < MaxRuns
    /\ ran' = ran + 1
    /\ run' = [run EXCEPT ![p] = [step |-> "regress", number |-> ran + 1,
                                  ratedBefore |-> Len(ratings[p])]]
    /\ calm' = (calm /\ \A q \in Evaluators : Step(q, "idle"))
    /\ UNCHANGED <<ratings, trend, ended, missed, restarts, rated>>

(* run_feedback_regression, then run_ablation, which keeps nothing         *)
Regress(p) ==
    /\ Step(p, "regress")
    /\ run' = [run EXCEPT ![p] = [step |-> "latest", number |-> run[p].number,
                                  ratedBefore |-> run[p].ratedBefore, flagged |-> Flagged(p)]]
    /\ UNCHANGED <<ratings, trend, ran, ended, calm, missed, restarts, rated>>

Raises ==
    /\ missed < MaxMissed
    /\ missed' = missed + 1
    /\ calm' = FALSE

NoRaise == UNCHANGED <<missed, calm>>
Leaves(p) == run' = [run EXCEPT ![p] = NoRun]
GoesTo(p, step, points) ==
    run' = [run EXCEPT ![p] = [step |-> step, number |-> run[p].number,
                               ratedBefore |-> run[p].ratedBefore,
                               flagged |-> run[p].flagged, points |-> points]]

(* kv_put("Eval", "latest"): when it raises the trend is not tried.        *)
PutLatest(p) ==
    /\ Step(p, "latest")
    /\ \/ /\ trend' = [trend EXCEPT !.latest = run[p].number]
          /\ GoesTo(p, "read", <<>>)
          /\ NoRaise
       \/ Raises /\ Leaves(p) /\ UNCHANGED trend
    /\ UNCHANGED <<ratings, ran, ended, restarts, rated>>

(* kv_get("Eval", "history"): when it raises the trend starts afresh.      *)
ReadHistory(p) ==
    /\ Step(p, "read")
    /\ \/ GoesTo(p, "append", trend.history) /\ NoRaise
       \/ Raises /\ GoesTo(p, "append", <<>>)
    /\ UNCHANGED <<ratings, trend, ran, ended, restarts, rated>>

(* Mutant: the slice keeps the first points. *)
FirstPoints(s) == IF Len(s) > KeepPoints THEN SubSeq(s, 1, KeepPoints) ELSE s

(* history[-20:] *)
LastPoints(s) == IF Len(s) > KeepPoints THEN SubSeq(s, Len(s) - KeepPoints + 1, Len(s)) ELSE s

(* kv_put("Eval", "history"), and the report is returned.                  *)
PutHistory(p) ==
    /\ Step(p, "append")
    /\ \/ /\ trend' = [trend EXCEPT !.history = LastPoints(Append(run[p].points, run[p].number))]
          /\ ended' = Append(ended, run[p].number)
          /\ NoRaise
       \/ Raises /\ UNCHANGED <<trend, ended>>
    /\ Leaves(p)
    /\ UNCHANGED <<ratings, ran, restarts, rated>>

(* A replica restarts, in an evaluation or not: its ratings are gone.      *)
Restart(p) ==
    /\ restarts < MaxRestarts
    /\ restarts' = restarts + 1
    /\ ratings' = [ratings EXCEPT ![p] = <<>>]
    /\ Leaves(p)
    /\ UNCHANGED <<trend, ran, ended, calm, missed, rated>>

EvalNext ==
    \E p \in Evaluators :
        \/ \E question \in Questions, verdict \in Verdicts : Rate(p, question, verdict)
        \/ Score(p)
        \/ Regress(p)
        \/ PutLatest(p)
        \/ ReadHistory(p)
        \/ PutHistory(p)
        \/ Restart(p)

EvalSpec == EvalInit /\ [][EvalNext]_evalVars

(* eval_summary: "available" once there are scores *)
Available == trend.latest # NoScores

-----------------------------------------------------------------------------
(* Properties. *)

Runs == [step : {"regress"}, number : 1 .. MaxRuns, ratedBefore : 0 .. MaxRatings]
Reported ==
    [step : {"latest"}, number : 1 .. MaxRuns, ratedBefore : 0 .. MaxRatings,
     flagged : SUBSET (Questions \X (1 .. MaxRatings))]
Kept ==
    [step : {"read", "append"}, number : 1 .. MaxRuns, ratedBefore : 0 .. MaxRatings,
     flagged : SUBSET (Questions \X (1 .. MaxRatings)), points : Seq(1 .. MaxRuns)]

EvalTypeOK ==
    /\ ratings \in [Evaluators -> Seq([question : Questions, verdict : Verdicts])]
    /\ trend.latest \in 0 .. MaxRuns
    /\ trend.history \in Seq(1 .. MaxRuns) /\ Len(trend.history) <= KeepPoints
    /\ run \in [Evaluators -> {NoRun} \cup Runs \cup Reported \cup Kept]
    /\ ran \in 0 .. MaxRuns /\ ended \in Seq(1 .. MaxRuns) /\ calm \in BOOLEAN
    /\ rated \in 0 .. MaxRatings /\ missed \in 0 .. MaxMissed
    /\ restarts \in 0 .. MaxRestarts

(* Safety: the dashboard's trend (api.py:659-672, 686-705). While no two   *)
(* evaluations overlapped and no store call raised, and whatever           *)
(* evaluations a restart cut short, the trend is the last KeepPoints       *)
(* evaluations that got to their end, in order, and the scores shown are   *)
(* those of the newest, or of a newer one that was cut before it reached   *)
(* the trend. Whatever happens, no evaluation counts twice.                *)
TrendComplete ==
    /\ \A i, j \in 1 .. Len(trend.history) :
          trend.history[i] = trend.history[j] => i = j
    /\ calm => /\ Len(trend.history) = IF Len(ended) < KeepPoints THEN Len(ended) ELSE KeepPoints
               /\ IsSuffix(trend.history, ended)
               /\ ended # <<>> =>
                     /\ Available /\ trend.latest >= Last(ended)
                     /\ trend.latest \in ToSet(ended) => trend.latest = Last(ended)

(* Safety: "questions staff flagged as wrong are re-scored here"           *)
(* (api.py:645-647) - those flagged on this replica since it started: a    *)
(* question rated wrong before the evaluation began is answered again,     *)
(* once, for its latest complaint, whatever is rated meanwhile and however *)
(* it was rated after.                                                     *)
FlagsMeasured ==
    \A p \in Evaluators : run[p].step \in {"latest", "read", "append"} =>
        \A q \in Questions :
            LET before == {i \in Wrong(p, q) : i <= run[p].ratedBefore}
                measured == {f \in run[p].flagged : f[1] = q}
            IN  /\ before # {} => Cardinality(measured) = 1
                /\ \A f \in measured : f[2] \in Wrong(p, q) /\ \A i \in before : i <= f[2]

EvaluationsCount == TrendComplete /\ FlagsMeasured
=============================================================================
