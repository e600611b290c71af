----------------------------- MODULE AuditTrail -----------------------------
(***************************************************************************)
(* The audit log of app/services/audit.py: one AuditLog object per process,*)
(* shared without a lock by every request thread and event subscriber, and *)
(* one JSONL file that outlives the process.                               *)
(*                                                                         *)
(* record() touches shared state four times, and other threads may run     *)
(* between any two of them: it reads the hash of the last entry (ReadTip), *)
(* takes the next id and seals the event (Build), appends it to the list   *)
(* (AppendMemory) and appends one line to the file (AppendDisk).           *)
(*                                                                         *)
(* Everything of an event that is hashed, its timestamp and id included,   *)
(* is one number, its body: no two calls produce the same one.             *)
(***************************************************************************)
EXTENDS Integers, SequencesExt

CONSTANTS
    Writers,      \* threads that may be inside record() at the same time
    MaxRecords,   \* bound: no call of record() starts after this many bodies
    MaxFaults,    \* bound: file writes that fail
    MaxEdits,     \* bound: changes made to the file from outside
    MaxRestarts   \* bound: process restarts

ASSUME BoundsAssumption ==
    /\ MaxRecords \in Nat
    /\ MaxFaults \in Nat
    /\ MaxEdits \in Nat
    /\ MaxRestarts \in Nat

VARIABLES
    events,    \* self._events, the list in memory
    counter,   \* self._counter, the next log_id
    disk,      \* the lines of the JSONL file
    torn,      \* the last line of the file has no newline
    pc,        \* where each thread is in record()
    tip,       \* the thread's local prev_hash
    entry,     \* the thread's local event
    loaded,    \* how many of the events in memory came from the file
    unread,    \* history: how many lines of the file the last load ignored
    clock,     \* history: the last body produced
    issued,    \* history: every entry_hash record() computed
    returned,  \* history: bodies whose record() returned
    overlapped, \* history: two calls of record() were ever under way at once
    faults, edits, restarts

vars == <<events, counter, disk, torn, pc, tip, entry, loaded, unread, clock,
          issued, returned, overlapped, faults, edits, restarts>>

-----------------------------------------------------------------------------
(* Entries and their hashes. SHA-256 is taken as free of collisions: a     *)
(* hash is the pair of what it was computed from.                          *)

Genesis == <<>>
Hash(prev, body) == <<prev, body>>

Seal(id, body, prev) ==
    [log_id |-> id, body |-> body, prev_hash |-> prev,
     entry_hash |-> Hash(prev, body)]

(* Mutant: every event is linked to the first one. *)
TipHashOfFirst(es) == IF es = <<>> THEN Genesis ELSE es[1].entry_hash

TipHash(es) == IF es = <<>> THEN Genesis ELSE es[Len(es)].entry_hash

(* No event: a line json.loads cannot parse, or a thread that has none yet.*)
NoEvent == [log_id |-> 0, body |-> 0, prev_hash |-> Genesis,
            entry_hash |-> Genesis]

(* Mutant: verify_chain compares the links and recomputes no hash. *)
ContinuesLinkOnly(es, i) ==
    es[i].prev_hash = IF i = 1 THEN Genesis ELSE es[i - 1].entry_hash

(* verify_chain stops at the first entry that does not continue the chain, *)
(* so up to there the running hash is the previous entry's own.            *)
Continues(es, i) ==
    LET prev == IF i = 1 THEN Genesis ELSE es[i - 1].entry_hash
    IN  /\ es[i].prev_hash = prev
        /\ es[i].entry_hash = Hash(prev, es[i].body)

Breaks(es) == {i \in DOMAIN es : ~Continues(es, i)}
Valid(es) == Breaks(es) = {}
FirstInvalid(es) == Min(Breaks(es))

(* _load keeps the lines before the first one that does not parse. *)
Parsed(lines) ==
    LET corrupt == {i \in DOMAIN lines : lines[i] = NoEvent}
    IN  IF corrupt = {} THEN lines ELSE SubSeq(lines, 1, Min(corrupt) - 1)

(* Mutants: the ids go on from the number of events, or one before it. *)
NextIdFromLength(es) == Len(es) + 1
NextIdFromZero(es) == Len(es)

(* ... and the ids go on from the last entry it kept. *)
NextId(es) == IF es = <<>> THEN 1 ELSE es[Len(es)].log_id + 1

-----------------------------------------------------------------------------
Init ==
    /\ events = <<>> /\ counter = 1
    /\ disk = <<>> /\ torn = FALSE
    /\ pc = [w \in Writers |-> "idle"]
    /\ tip = [w \in Writers |-> Genesis]
    /\ entry = [w \in Writers |-> NoEvent]
    /\ loaded = 0 /\ unread = 0 /\ clock = 0
    /\ issued = {} /\ returned = {} /\ overlapped = FALSE
    /\ faults = 0 /\ edits = 0 /\ restarts = 0

Goto(w, from, to) == pc[w] = from /\ pc' = [pc EXCEPT ![w] = to]

(* prev_hash = self._events[-1]["entry_hash"] if self._events else genesis *)
ReadTip(w) ==
    /\ clock < MaxRecords
    /\ Goto(w, "idle", "linked")
    /\ tip' = [tip EXCEPT ![w] = TipHash(events)]
    /\ overlapped' = (overlapped \/ \E v \in Writers : pc[v] # "idle")
    /\ UNCHANGED <<events, counter, disk, torn, entry, loaded, unread, clock,
                   issued, returned, faults, edits, restarts>>

(* Mutant: the id is the length of the list, not the counter.             *)
BuildFromLength(w) ==
    /\ Goto(w, "linked", "built")
    /\ clock' = clock + 1
    /\ entry' = [entry EXCEPT ![w] = Seal(Len(events) + 1, clock + 1, tip[w])]
    /\ issued' = issued \cup {Hash(tip[w], clock + 1)}
    /\ UNCHANGED <<events, counter, disk, torn, tip, loaded, unread,
                   returned, overlapped, faults, edits, restarts>>

(* next(self._counter), the timestamp, the hash and the signature *)
Build(w) ==
    /\ Goto(w, "linked", "built")
    /\ clock' = clock + 1
    /\ counter' = counter + 1
    /\ entry' = [entry EXCEPT ![w] = Seal(counter, clock + 1, tip[w])]
    /\ issued' = issued \cup {Hash(tip[w], clock + 1)}
    /\ UNCHANGED <<events, disk, torn, tip, loaded, unread, returned,
                   overlapped, faults, edits, restarts>>

(* Mutant: the list is bounded and forgets its oldest event. *)
AppendMemoryBounded(w) ==
    /\ Goto(w, "built", "listed")
    /\ events' = IF Len(events) < 2 THEN Append(events, entry[w])
                 ELSE Append(Tail(events), entry[w])
    /\ UNCHANGED <<counter, disk, torn, tip, entry, loaded, unread, clock,
                   issued, returned, overlapped, faults, edits,
                   restarts>>

(* self._events.append(event) *)
AppendMemory(w) ==
    /\ Goto(w, "built", "listed")
    /\ events' = Append(events, entry[w])
    /\ UNCHANGED <<counter, disk, torn, tip, entry, loaded, unread, clock,
                   issued, returned, overlapped, faults, edits,
                   restarts>>

(* Mutant: the file is opened for writing and not for appending. *)
WriteLineTruncating(w) ==
    /\ disk' = <<entry[w]>>
    /\ torn' = FALSE
    /\ UNCHANGED faults

(* _append_to_disk writes the line: on a line left without a newline the   *)
(* two texts become one, which no longer parses.                           *)
WriteLine(w) ==
    /\ disk' = IF torn THEN disk ELSE Append(disk, entry[w])
    /\ torn' = FALSE
    /\ UNCHANGED faults

(* The write raises and the exception is swallowed: nothing was written,   *)
(* or the beginning of the line was.                                       *)
FailToWrite ==
    /\ faults < MaxFaults
    /\ faults' = faults + 1
    /\ \/ UNCHANGED <<disk, torn>>
       \/ /\ disk' = IF torn THEN disk ELSE Append(disk, NoEvent)
          /\ torn' = TRUE

AppendDisk(w) ==
    /\ Goto(w, "listed", "idle")
    /\ WriteLine(w) \/ FailToWrite
    /\ returned' = returned \cup {entry[w].body}
    /\ UNCHANGED <<events, counter, tip, entry, loaded, unread, clock,
                   issued, overlapped, edits, restarts>>

(* The process dies, wherever its threads are, and a new one loads the file.*)
Restart ==
    /\ restarts < MaxRestarts
    /\ restarts' = restarts + 1
    /\ events' = Parsed(disk)
    /\ loaded' = Len(Parsed(disk))
    /\ unread' = Len(disk) - Len(Parsed(disk))
    /\ counter' = NextId(Parsed(disk))
    /\ pc' = [w \in Writers |-> "idle"]
    /\ UNCHANGED <<disk, torn, tip, entry, clock, issued, returned, 
                   overlapped, faults, edits>>

(* Somebody edits the file: changes what an event says, or removes a line. *)
EditFile ==
    /\ edits < MaxEdits
    /\ edits' = edits + 1
    /\ clock' = clock + 1
    /\ \E i \in DOMAIN disk :
          \/ /\ disk[i] # NoEvent
             /\ disk' = [disk EXCEPT ![i].body = clock + 1]
             /\ UNCHANGED torn
          \/ /\ disk' = RemoveAt(disk, i)
             /\ torn' = (torn /\ i # Len(disk))
    /\ UNCHANGED <<events, counter, pc, tip, entry, loaded, unread, issued,
                   returned, overlapped, faults, restarts>>

Record(w) == ReadTip(w) \/ Build(w) \/ AppendMemory(w) \/ AppendDisk(w)

Next == (\E w \in Writers : Record(w)) \/ Restart \/ EditFile

Spec == Init /\ [][Next]_vars

-----------------------------------------------------------------------------
(* Properties. *)

Entry == [log_id : Nat, body : Nat, prev_hash : issued \cup {Genesis},
          entry_hash : issued]

(* Type invariant: what each variable holds, hashes included. *)
TypeOK ==
    /\ events \in Seq(Entry)
    /\ counter \in Nat \ {0}
    /\ disk \in Seq(Entry \cup {NoEvent})
    /\ torn \in BOOLEAN
    /\ pc \in [Writers -> {"idle", "linked", "built", "listed"}]
    /\ tip \in [Writers -> issued \cup {Genesis}]
    /\ entry \in [Writers -> Entry \cup {NoEvent}]
    /\ loaded \in 0 .. Len(events)
    /\ unread \in Nat
    /\ clock \in Nat
    /\ returned \subseteq Nat
    /\ overlapped \in BOOLEAN
    /\ faults \in 0 .. MaxFaults
    /\ edits \in 0 .. MaxEdits
    /\ restarts \in 0 .. MaxRestarts

(* Safety: within one life of the process no two events get the same id,   *)
(* however the threads interleave (audit.py:113, the atomic next()).       *)
UniqueIds ==
    \A i, j \in loaded + 1 .. Len(events) :
        events[i].log_id = events[j].log_id => i = j

(* Safety: an event recorded in this life points back at the genesis hash  *)
(* or at an event that was listed before it, never at one still in flight: *)
(* threads can fork the chain, they cannot make a cycle or a dangling link *)
(* (audit.py:111-128).                                                     *)
LinksBackward ==
    \A i \in loaded + 1 .. Len(events) :
        \/ events[i].prev_hash = Genesis
        \/ \E j \in 1 .. i - 1 : events[i].prev_hash = events[j].entry_hash

(* Safety: "events survive restarts" (audit.py:38-39). While no write has  *)
(* failed and nobody edits the file, an event is in the trail from the     *)
(* moment record() returns it, across any number of crashes, and no load   *)
(* stops before the end of the file.                                       *)
ReturnedSurvive ==
    faults = 0 /\ edits = 0 =>
        /\ returned \subseteq {events[i].body : i \in DOMAIN events}
        /\ unread = 0

(* Safety: verify_chain only complains when a write was lost, the file was *)
(* edited or two threads were inside record() at once; crashes alone never *)
(* break the chain (audit.py:86-130 with 52-71).                           *)
ChainBreaksForCause ==
    ~Valid(events) => faults > 0 \/ edits > 0 \/ overlapped

(* Safety: unless two threads were inside record() at once, the ids in the *)
(* trail only go up, whatever lines were lost or torn before a restart     *)
(* (audit.py:65-71, 73-83).                                                *)
IdsIncrease ==
    edits = 0 /\ ~overlapped =>
        \A i \in 2 .. Len(events) : events[i - 1].log_id < events[i].log_id

(* Both: what a restart loads is what was recorded, and it goes on from    *)
(* there (audit.py:52-83).                                                 *)
RestartsContinueTrail == ReturnedSurvive /\ IdsIncrease

(* An event record() sealed on top of the one before it. *)
Genuine(i) ==
    Hash(IF i = 1 THEN Genesis ELSE events[i - 1].entry_hash, events[i].body)
        \in issued

(* Safety: "mutating or deleting any historical event breaks every hash    *)
(* after it, which verify_chain detects" (audit.py:33-35): it reports      *)
(* exactly when some event was not sealed on its predecessor, and names    *)
(* the first such event.                                                   *)
AlarmNamesFirstForgery ==
    LET foreign == {i \in DOMAIN events : ~Genuine(i)}
    IN  /\ Valid(events) <=> foreign = {}
        /\ foreign # {} => FirstInvalid(events) = Min(foreign)

-----------------------------------------------------------------------------
(* What the repository says of the log and the code does not keep.         *)

(* Safety: /api/audit/verify answers valid:false only if "the JSONL trail  *)
(* was edited or the signing key changed" (the AKS guide's troubleshooting *)
(* table). Two threads that read the same tip break it.                    *)
NoAlarmWithoutTampering == faults = 0 /\ edits = 0 => Valid(events)
=============================================================================
