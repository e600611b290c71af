------------------------------- MODULE KeyCache -------------------------------
(***************************************************************************)
(* Staff tokens are signed with a key of the identity provider, which      *)
(* rotates its keys; app/services/azure_ad.py fetches the published ones   *)
(* and keeps them for an hour. Threads validate at once, and a fetch takes *)
(* as long as it takes, or fails.                                          *)
(*                                                                         *)
(* A token stands for the key that signed it: one with a bad signature or  *)
(* another audience is refused whatever the keys (azure_ad.py:62-70). Time *)
(* is counted in ticks.                                                    *)
(***************************************************************************)
EXTENDS Integers, FiniteSets

CONSTANTS
    SigningKeys,
    Lifetime,        \* ticks a fetched key set is used (3600 seconds)
    Validators,      \* threads validating a token
    MaxTime, MaxRotations   \* bounds

ASSUME CacheBounds == Lifetime \in Nat \ {0} /\ MaxTime \in Nat /\ MaxRotations \in Nat
ASSUME SomeKey == SigningKeys # {}

VARIABLES
    now,          \* time.time()
    published,    \* the keys at the provider's jwks_uri
    cached,       \* _JWKS_CACHE of the tenant
    check,        \* the validation each thread is at, or its outcome
    since, gone,  \* history: when each key was last published, and withdrawn
    rotations

keyVars == <<now, published, cached, check, since, gone, rotations>>

Never == -Lifetime
NoKeys == [keys |-> {}, fetchedAt |-> Never]
NoCheck == [step |-> "idle", key |-> CHOOSE k \in SigningKeys : TRUE, begun |-> 0, keys |-> {}]

KeyInit ==
    /\ now = 0
    /\ published \in SUBSET SigningKeys
    /\ cached = NoKeys
    /\ check = [v \in Validators |-> NoCheck]
    /\ since = [k \in SigningKeys |-> Never]
    /\ gone = [k \in SigningKeys |-> Never]
    /\ rotations = 0

Waits(v) == check[v].step \in {"idle", "accepted", "refused"}

Tick ==
    /\ now < MaxTime
    /\ now' = now + 1
    /\ UNCHANGED <<published, cached, check, since, gone, rotations>>

(* The provider publishes a key, or withdraws one.                         *)
Rotate(k) ==
    /\ rotations < MaxRotations
    /\ rotations' = rotations + 1
    /\ \/ /\ k \notin published
          /\ published' = published \cup {k}
          /\ since' = [since EXCEPT ![k] = now]
          /\ UNCHANGED gone
       \/ /\ k \in published
          /\ published' = published \ {k}
          /\ gone' = [gone EXCEPT ![k] = now]
          /\ UNCHANGED since
    /\ UNCHANGED <<now, cached, check>>

(* Mutant: the entry is used up to and including its hour. *)
FreshAtLimit == cached.fetchedAt # Never /\ now - cached.fetchedAt <= Lifetime

Fresh == cached.fetchedAt # Never /\ now - cached.fetchedAt < Lifetime

(* _get_cached_jwks: the kept keys, or a fetch *)
Validate(v, key) ==
    /\ Waits(v)
    /\ check' = [check EXCEPT ![v] =
            [step |-> IF Fresh THEN "match" ELSE "fetch", key |-> key, begun |-> now,
             keys |-> IF Fresh THEN cached.keys ELSE {}]]
    /\ UNCHANGED <<now, published, cached, since, gone, rotations>>

(* The provider answers the second request, for the keys ...               *)
Fetch(v) ==
    /\ check[v].step = "fetch"
    /\ check' = [check EXCEPT ![v] = [@ EXCEPT !.step = "keep", !.keys = published]]
    /\ UNCHANGED <<now, published, cached, since, gone, rotations>>

(* ... or one of the two fails, which is a 401.                            *)
FetchFails(v) ==
    /\ check[v].step = "fetch"
    /\ check' = [check EXCEPT ![v] = NoCheck]
    /\ UNCHANGED <<now, published, cached, since, gone, rotations>>

(* Mutant: stamped with the time the answer came. *)
StampedLate(v) == now

(* The entry is stamped with the time the look-up began.                   *)
Stamp(v) == check[v].begun

Keep(v) ==
    /\ check[v].step = "keep"
    /\ cached' = [keys |-> check[v].keys, fetchedAt |-> Stamp(v)]
    /\ check' = [check EXCEPT ![v].step = "match"]
    /\ UNCHANGED <<now, published, since, gone, rotations>>

(* validate_jwt: the key with the token's kid, or a 401                    *)
Match(v) ==
    /\ check[v].step = "match"
    /\ check' = [check EXCEPT ![v] =
            [step |-> IF check[v].key \in check[v].keys THEN "accepted" ELSE "refused",
             key |-> check[v].key, begun |-> check[v].begun, keys |-> {}]]
    /\ UNCHANGED <<now, published, cached, since, gone, rotations>>

KeyNext ==
    \/ Tick
    \/ \E k \in SigningKeys : Rotate(k)
    \/ \E v \in Validators :
          \/ \E key \in SigningKeys : Validate(v, key)
          \/ Fetch(v) \/ FetchFails(v) \/ Keep(v) \/ Match(v)

KeySpec == KeyInit /\ [][KeyNext]_keyVars

-----------------------------------------------------------------------------
(* Properties. *)

Times == {Never} \cup 0 .. MaxTime

KeyTypeOK ==
    /\ now \in 0 .. MaxTime
    /\ published \subseteq SigningKeys
    /\ cached \in [keys : SUBSET SigningKeys, fetchedAt : Times]
    /\ check \in [Validators ->
          [step : {"idle", "fetch", "keep", "match", "accepted", "refused"},
           key : SigningKeys, begun : 0 .. MaxTime, keys : SUBSET SigningKeys]]
    /\ since \in [SigningKeys -> Times] /\ gone \in [SigningKeys -> Times]
    /\ rotations \in 0 .. MaxRotations

(* Safety: rotation takes effect within Lifetime (azure_ad.py:30-38),      *)
(* however slow the fetches are and whichever is kept last: a token is     *)
(* accepted only if its key was published less than Lifetime before the    *)
(* validation began or after that, and it is refused for its key only if   *)
(* that key is not published, or not yet that long.                        *)
KeysAreFresh ==
    \A v \in Validators :
        LET key == check[v].key
            recently(t) == t > check[v].begun - Lifetime
        IN  /\ check[v].step = "accepted" => key \in published \/ recently(gone[key])
            /\ check[v].step = "refused" => key \notin published \/ recently(since[key])
=============================================================================
