------------------------------- MODULE SpanRing -------------------------------
(***************************************************************************)
(* The traces of app/services/telemetry.py: every request, agent run, tool *)
(* call and text generation is a span, nested in the one it was started in.*)
(* A span is exported when it ends, into a ring that keeps the last Limit  *)
(* of all traces, and the pages of /api/telemetry put traces together from *)
(* what the ring still holds.                                              *)
(*                                                                         *)
(* Requests run at once, and so do the parts of one request; a span ends   *)
(* only after those started inside it ("with" blocks).                     *)
(***************************************************************************)
EXTENDS Integers, FiniteSets, Sequences

CONSTANTS
    Limit,       \* spans the ring keeps
    Pipeline,    \* the agent., mcp., llm., nlp. and tool. spans, by number
    MaxSpans     \* bound: spans started

ASSUME RingAssumption == Limit \in Nat \ {0} /\ MaxSpans \in Nat /\ Pipeline \subseteq Nat

VARIABLES
    spans,       \* all spans ever started; a span's id is its place
    ring,        \* _RingExporter._spans, as ids
    clock        \* the time

ringVars == <<spans, ring, clock>>

NoParent == 0
Spans == 1 .. Len(spans)
Running(s) == spans[s].end = NoParent
Started(s) == spans[s].start
Retained == {ring[i] : i \in 1 .. Len(ring)}

(* start_as_current_span: a child of the current span, or, outside any,    *)
(* the root of a new trace, which is named after it. "within" is what the  *)
(* span is nested in.                                                      *)
NewSpan(parent, now) ==
    [parent |-> parent, start |-> now, end |-> NoParent,
     trace |-> IF parent = NoParent THEN Len(spans) + 1 ELSE spans[parent].trace,
     within |-> IF parent = NoParent THEN {} ELSE {parent} \cup spans[parent].within]

RingInit == spans = <<>> /\ ring = <<>> /\ clock = 1

(* Time may stand still between two events. *)
Moments == {clock, clock + 1}

StartSpan(parent) ==
    /\ Len(spans) < MaxSpans
    /\ parent # NoParent => Running(parent)
    /\ \E now \in Moments :
          /\ clock' = now
          /\ spans' = Append(spans, NewSpan(parent, now))
    /\ UNCHANGED ring

(* Mutant: a full ring drops the newest spans. *)
KeepOldest(r) == IF Len(r) > Limit THEN SubSeq(r, 1, Limit) ELSE r

(* Mutant: the ring holds one span more. *)
KeepOneMore(r) == IF Len(r) > Limit + 1 THEN SubSeq(r, Len(r) - Limit, Len(r)) ELSE r

(* _RingExporter.export: append, and cut to the newest *)
KeepNewest(r) == IF Len(r) > Limit THEN SubSeq(r, Len(r) - Limit + 1, Len(r)) ELSE r

EndSpan(s) ==
    /\ Running(s)
    /\ \A c \in Spans : s \in spans[c].within => ~Running(c)
    /\ \E now \in Moments :
          /\ clock' = now
          /\ spans' = [spans EXCEPT ![s].end = now]
    /\ ring' = KeepNewest(Append(ring, s))

RingNext ==
    \/ \E parent \in Spans \cup {NoParent} : StartSpan(parent)
    \/ \E s \in Spans : EndSpan(s)

RingSpec == RingInit /\ [][RingNext]_ringVars

-----------------------------------------------------------------------------
(* What the pages show. *)

OfTrace(t) == {s \in Retained : spans[s].trace = t}
Place(s) == CHOOSE i \in 1 .. Len(ring) : ring[i] = s

(* Mutant: the span that started first, wherever it belongs. *)
RootOfEarliest(S) ==
    CHOOSE s \in S : \A o \in S :
        Started(s) < Started(o) \/ (Started(s) = Started(o) /\ Place(s) <= Place(o))

(* _root_of: the parentless span, else the earliest-started one, the first *)
(* to have ended of several.                                               *)
RootOf(S) ==
    LET parentless == {s \in S : spans[s].parent = NoParent}
        pool == IF parentless # {} THEN parentless ELSE S
    IN  CHOOSE s \in pool : \A o \in pool :
            Started(s) < Started(o) \/ (Started(s) = Started(o) /\ Place(s) <= Place(o))

FirstStart(S) == CHOOSE n \in {Started(s) : s \in S} : \A o \in S : n <= Started(o)
LastEnd(S) == CHOOSE n \in {spans[s].end : s \in S} : \A o \in S : spans[o].end <= n
TotalOf(S) == LastEnd(S) - FirstStart(S)

(* get_trace: the waterfall. The depth of a span is found by walking up    *)
(* the parents the ring still holds.                                       *)
DepthOf(s, S) ==
    LET climb[at \in (Spans \cup {NoParent}) \X (0 .. Cardinality(S))] ==
            IF at[1] \in S /\ at[2] < Cardinality(S)
            THEN climb[<<spans[at[1]].parent, at[2] + 1>>]
            ELSE at[2]
    IN  climb[<<spans[s].parent, 0>>]

Waterfall(t) ==
    LET S == OfTrace(t)
    IN  [root |-> RootOf(S), total |-> TotalOf(S),
         spans |-> [s \in S |-> [depth |-> DepthOf(s, S),
                                 offset |-> Started(s) - Started(RootOf(S))]]]

(* list_traces: the traces the agent pipeline had a part in, newest first, *)
(* as far as that part is still held. How many the page asks for is left   *)
(* out.                                                                    *)
Listed == {t \in {spans[s].trace : s \in Retained} : OfTrace(t) \cap Pipeline # {}}
Row(t) ==
    [root |-> RootOf(OfTrace(t)), count |-> Cardinality(OfTrace(t)),
     total |-> TotalOf(OfTrace(t)), started |-> FirstStart(OfTrace(t))]

-----------------------------------------------------------------------------
(* Properties. *)

SpanRecords ==
    [parent : Nat, start : Nat, end : Nat, trace : Nat, within : SUBSET Nat]

(* Type invariant: parents and traces are spans, and so is what the ring   *)
(* holds, which has ended.                                                 *)
RingTypeOK ==
    /\ spans \in Seq(SpanRecords)
    /\ clock \in Nat \ {0}
    /\ ring \in Seq(Nat)
    /\ Len(ring) <= Limit
    /\ \A s \in Spans :
          /\ spans[s].within \subseteq Spans
          /\ spans[s].trace \in Spans
          /\ spans[s].parent \in Spans \cup {NoParent}
    /\ \A s \in Retained : s \in Spans /\ ~Running(s)

(* Safety: however requests interleave and whatever the ring has dropped,  *)
(* a trace whose request is over is shown under its real root, with the    *)
(* duration of that request and no span before its start, as long as       *)
(* anything of it is shown (telemetry.py:360-364, 414-442): what is cut    *)
(* off are its oldest leaves, never the chain above a span that is shown.  *)
RootIsShown ==
    \A t \in {spans[s].trace : s \in Retained} :
        ~Running(t) =>
            /\ RootOf(OfTrace(t)) = t
            /\ TotalOf(OfTrace(t)) = spans[t].end - Started(t)
            /\ \A s \in OfTrace(t) :
                  /\ Started(s) >= Started(t)
                  /\ spans[s].within \subseteq OfTrace(t)

(* Safety: ... each span of it at its real nesting level, and a trace of   *)
(* the list is the same on its own page (telemetry.py:367-400, 418-437).   *)
WaterfallWhole ==
    /\ RootIsShown
    /\ \A t \in {spans[s].trace : s \in Retained} :
        ~Running(t) =>
          /\ \A s \in OfTrace(t) :
                /\ Waterfall(t).spans[s].depth = Cardinality(spans[s].within)
                /\ Waterfall(t).spans[s].offset >= 0
          /\ t \in Listed => Row(t).root = t /\ Row(t).started = Started(t)
                             /\ Row(t).total = Waterfall(t).total
=============================================================================
