----------------------------- MODULE SanctionsList -----------------------------
(***************************************************************************)
(* Screening of names against the sanctions lists                          *)
(* (app/services/sanctions.py): an embedded watchlist, and the OFAC list   *)
(* that scripts/update_sanctions.py downloads over a file while the        *)
(* process runs. What was read of the file, and what came out for a name,  *)
(* is cached (lru_cache): a miss computes without a lock and keeps its     *)
(* result unless another thread was faster.                                *)
(*                                                                         *)
(* A name is a sequence of words; a name as typed is normalised to one.    *)
(* Which names difflib takes for spellings of one another is given. An     *)
(* absent file is an empty list.                                           *)
(***************************************************************************)
EXTENDS Integers, FiniteSets, Sequences, Functions

CONSTANTS
    Typed, Normalised,   \* names as typed, and the words of each
    Calls,               \* checks asked for: a client and its owners, as typed
    Watchlist,           \* _WATCHLIST
    Spellings,           \* pairs of names get_close_matches takes for one
    Editions,            \* what the OFAC list may contain
    NotRead, NoEdition,  \* no cached list; no edition being written
    Screeners,           \* threads
    CacheSize,           \* verdicts kept (4096 in the code)
    MaxChecks, MaxDownloads, MaxReloads   \* bounds

ASSUME CallsAssumption == Calls \subseteq Seq(Typed)
ASSUME NotReadAssumption == \A list \in SUBSET UNION Editions : NotRead # list
ASSUME ListBounds ==
    CacheSize \in Nat \ {0} /\ MaxChecks \in Nat /\ MaxDownloads \in Nat /\ MaxReloads \in Nat

VARIABLES
    file,         \* data/sanctions/sdn.csv
    download,     \* the edition being written over it, or NoEdition
    names,        \* cache of _sdn_names
    sorted,       \* cache of _sdn_token_sorted, as the names that were sorted
    verdicts,     \* cache of _match_name
    screening,    \* the check each thread is at
    given,        \* history: checks answered by this process
    seen,         \* history: what the file contained since it started
    split,        \* history: the file changed between a thread's read and its keeping
    checks, downloads, reloads

listVars == <<file, download, names, sorted, verdicts, screening, given, seen, split,
              checks, downloads, reloads>>
fileVars == <<file, download, seen, split, downloads>>

NoScreening == [step |-> "idle", left |-> <<>>, found |-> {}, own |-> {}]
In(t, step) == screening[t].step = step
Name(t) == Head(screening[t].left)

ListInit ==
    /\ file = {} /\ download = NoEdition
    /\ names = NotRead /\ sorted = NotRead /\ verdicts = <<>>
    /\ screening = [t \in Screeners |-> NoScreening]
    /\ given = {} /\ seen = {{}} /\ split = FALSE
    /\ checks = 0 /\ downloads = 0 /\ reloads = 0

-----------------------------------------------------------------------------
(* The file. *)

(* The content is written over the file, which is empty at first and then  *)
(* grows.                                                                  *)
Changes(content) ==
    /\ file' = content
    /\ seen' = seen \cup {content}
    /\ split' = (split \/ \E t \in Screeners : In(t, "keep"))
    /\ UNCHANGED <<names, sorted, verdicts, screening, given, checks, reloads>>

Download ==
    /\ download = NoEdition /\ downloads < MaxDownloads
    /\ \E edition \in Editions : download' = edition
    /\ downloads' = downloads + 1
    /\ Changes({})

WriteOn ==
    /\ download # NoEdition
    /\ \E part \in SUBSET download :
          /\ file \subseteq part /\ part # file
          /\ download' = IF part = download THEN NoEdition ELSE download
          /\ Changes(part)
    /\ UNCHANGED downloads

-----------------------------------------------------------------------------
(* The checks. *)

(* sorted(name.split()) of both is the same *)
SameWords(a, b) == \E p \in Bijection(DOMAIN a, DOMAIN b) : \A i \in DOMAIN a : a[i] = b[p[i]]

Watched(words) == \E w \in Watchlist : SameWords(words, w)

(* _match_name, with the list it holds and the one whose names are sorted *)
Verdict(name, list, sortedList) ==
    LET words == Normalised[name]
    IN  IF words = <<>> THEN "none"
        ELSE IF Watched(words) THEN "LOCAL"
        ELSE IF list = {} THEN "none"
        ELSE IF \/ words \in list
                \/ \E w \in sortedList : SameWords(words, w)
                \/ \E w \in list : <<words, w>> \in Spellings
             THEN "OFAC-SDN"
        ELSE "none"

Screen(t) ==
    /\ In(t, "idle") /\ checks < MaxChecks
    /\ \E call \in Calls :
          screening' = [screening EXCEPT ![t] =
              [NoScreening EXCEPT !.step = "name", !.left = call]]
    /\ checks' = checks + 1
    /\ UNCHANGED <<fileVars, names, sorted, verdicts, given, reloads>>

Finds(t, verdict) ==
    screening' = [screening EXCEPT ![t].step = "name", ![t].left = Tail(@),
                                   ![t].found = @ \cup {<<Name(t), verdict>>}]

(* lru_cache: the verdict just reached is kept unless there is one by now, *)
(* and another one goes when there are too many.                           *)
Remember(name, verdict) ==
    IF name \in DOMAIN verdicts THEN verdicts' = verdicts
    ELSE \E kept \in SUBSET DOMAIN verdicts :
            /\ IF Cardinality(DOMAIN verdicts) < CacheSize THEN kept = DOMAIN verdicts
               ELSE Cardinality(kept) = CacheSize - 1
            /\ verdicts' = [n \in kept \cup {name} |->
                               IF n = name THEN verdict ELSE verdicts[n]]

(* A name is known, or decided without the list, or the list is needed; so *)
(* it is at the end, for "screened_against".                               *)
MatchName(t) ==
    /\ In(t, "name")
    /\ IF screening[t].left = <<>>
       THEN /\ screening' = [screening EXCEPT ![t].step = "names"]
            /\ UNCHANGED verdicts
       ELSE IF Name(t) \in DOMAIN verdicts
       THEN /\ Finds(t, verdicts[Name(t)])
            /\ UNCHANGED verdicts
       ELSE IF Normalised[Name(t)] = <<>> \/ Watched(Normalised[Name(t)])
       THEN /\ Finds(t, Verdict(Name(t), {}, {}))
            /\ Remember(Name(t), Verdict(Name(t), {}, {}))
       ELSE /\ screening' = [screening EXCEPT ![t].step = "names"]
            /\ UNCHANGED verdicts
    /\ UNCHANGED <<fileVars, names, sorted, given, checks, reloads>>

(* _sdn_names: the cached list, or the file as it is now *)
SdnNames(t) ==
    /\ In(t, "names")
    /\ screening' = [screening EXCEPT
          ![t].own = IF names = NotRead THEN file ELSE names,
          ![t].step = IF names = NotRead THEN "keep" ELSE "compare"]
    /\ UNCHANGED <<fileVars, names, sorted, verdicts, given, checks, reloads>>

(* Mutant: a list that is empty is not kept. *)
KeepNonEmpty(list) == IF list = {} THEN NotRead ELSE list

(* what lru_cache keeps of it *)
Kept(list) == list

KeepNames(t) ==
    /\ In(t, "keep")
    /\ names' = IF names = NotRead THEN Kept(screening[t].own) ELSE names
    /\ screening' = [screening EXCEPT ![t].step = "compare"]
    /\ UNCHANGED <<fileVars, sorted, verdicts, given, checks, reloads>>

(* the names that are sorted: cached ones, or those of _sdn_names *)
Sorted(t) == IF sorted # NotRead THEN sorted ELSE IF names = NotRead THEN file ELSE names

Compare(t) ==
    LET own == screening[t].own
    IN  /\ In(t, "compare") /\ screening[t].left # <<>>
        /\ sorted' = IF own = {} \/ Normalised[Name(t)] \in own THEN sorted ELSE Sorted(t)
        /\ Finds(t, Verdict(Name(t), own, Sorted(t)))
        /\ Remember(Name(t), Verdict(Name(t), own, Sorted(t)))
        /\ UNCHANGED <<fileVars, names, given, checks, reloads>>

Answer(t) ==
    /\ In(t, "compare") /\ screening[t].left = <<>>
    /\ given' = given \cup {[found |-> screening[t].found, ofac |-> screening[t].own # {}]}
    /\ screening' = [screening EXCEPT ![t] = NoScreening]
    /\ UNCHANGED <<fileVars, names, sorted, verdicts, checks, reloads>>

(* The process is started again. *)
Reload ==
    /\ reloads < MaxReloads
    /\ names' = NotRead /\ sorted' = NotRead /\ verdicts' = <<>>
    /\ screening' = [t \in Screeners |-> NoScreening]
    /\ given' = {} /\ seen' = {file} /\ split' = FALSE
    /\ reloads' = reloads + 1
    /\ UNCHANGED <<file, download, checks, downloads>>

ListNext ==
    \/ Download \/ WriteOn \/ Reload
    \/ \E t \in Screeners :
          \/ Screen(t) \/ MatchName(t) \/ SdnNames(t) \/ KeepNames(t)
          \/ Compare(t) \/ Answer(t)

ListSpec == ListInit /\ [][ListNext]_listVars

-----------------------------------------------------------------------------
(* Properties. *)

ListContents == SUBSET UNION Editions
Verdicts == {"none", "LOCAL", "OFAC-SDN"}
Findings == SUBSET (Typed \X Verdicts)

ListTypeOK ==
    /\ file \in ListContents /\ download \in Editions \cup {NoEdition}
    /\ names \in ListContents \cup {NotRead} /\ sorted \in ListContents \cup {NotRead}
    /\ DOMAIN verdicts \subseteq Typed /\ Cardinality(DOMAIN verdicts) <= CacheSize
    /\ \A n \in DOMAIN verdicts : verdicts[n] \in Verdicts
    /\ screening \in [Screeners ->
          [step : {"idle", "name", "names", "keep", "compare"},
           left : Seq(Typed),
           found : Findings, own : ListContents]]
    /\ given \subseteq [found : Findings, ofac : BOOLEAN]
    /\ file \in seen /\ seen \subseteq ListContents
    /\ split \in BOOLEAN

(* Safety: screening is deterministic (sanctions.py:96): in the life of a  *)
(* process, whatever is downloaded, evicted or checked at once, there is   *)
(* one list the file contained that every answer is right about, for each  *)
(* name and for "screened_against"; unless the file changed while a thread *)
(* had read it and not yet kept it. After a restart that is the list there *)
(* is, or a newer one.                                                     *)
ScreensOneList ==
    ~split =>
        \E list \in seen : \A g \in given :
            /\ \A f \in g.found : f[2] = Verdict(f[1], list, list)
            /\ g.ofac <=> list # {}
=============================================================================
