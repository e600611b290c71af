---------------------------- MODULE ClientAccounts ----------------------------
(***************************************************************************)
(* The accounts of the client portal (app/services/client_identity.py).    *)
(* The application form signs a client up (app/api.py:775-792): the        *)
(* application is filed first, then the account of its address is read,    *)
(* extended and written back whole. Accounts live in the shared store, and *)
(* each replica has a dict of its own for when the store does not answer.  *)
(*                                                                         *)
(* A replica serves one intake at a time here; two threads of one replica  *)
(* meet in the store just as two replicas do. Hashing is left out: the     *)
(* password is kept, and compared as typed.                                *)
(***************************************************************************)
EXTENDS Integers, FiniteSets, Sequences, SequencesExt

CONSTANTS
    Spellings, KeyOf,      \* addresses as typed, and each lowercased
    Companies, Passwords,
    Replicas,
    NoAccount,
    MaxApplications, MaxRaises, MaxKills   \* bounds

ASSUME KeyAssumption == KeyOf \in [Spellings -> Spellings] /\ \A a \in Spellings : KeyOf[KeyOf[a]] = KeyOf[a]
ASSUME NoAccountAssumption ==
    NoAccount \notin [password : Passwords, client : Companies, linked : Seq(1 .. MaxApplications)]
ASSUME AccountBounds == MaxApplications \in Nat /\ MaxRaises \in Nat /\ MaxKills \in Nat

VARIABLES
    filed,       \* the companies of the applications filed, in order
    accounts,    \* the shared collection ClientAccount, by address
    fallback,    \* _accounts of each replica
    intake,      \* the form each replica is serving
    asked,       \* history: the sign-ups answered, per address, in order
    disturbed,   \* history: addresses whose sign-ups overlapped or met a raise
    raises, kills

accountVars == <<filed, accounts, fallback, intake, asked, disturbed, raises, kills>>

Keys == {KeyOf[a] : a \in Spellings}
NoAccounts == [k \in Spellings |-> NoAccount]
NoIntake == [step |-> "idle"]

AccountInit ==
    /\ filed = <<>>
    /\ accounts = NoAccounts
    /\ fallback = [p \in Replicas |-> NoAccounts]
    /\ intake = [p \in Replicas |-> NoIntake]
    /\ asked = [k \in Keys |-> <<>>]
    /\ disturbed = {}
    /\ raises = 0 /\ kills = 0

At(p, step) == intake[p].step = step

(* submit_application, whose own steps are in ClientApplications, files    *)
(* the application; a form without credentials signs nobody up.            *)
Apply(p, company, address, password, signsUp) ==
    /\ At(p, "idle")
    /\ Len(filed) < MaxApplications
    /\ filed' = Append(filed, company)
    /\ intake' = [intake EXCEPT ![p] =
            IF signsUp
            THEN [step |-> "load", address |-> address, password |-> password,
                  company |-> company, id |-> Len(filed) + 1]
            ELSE NoIntake]
    /\ UNCHANGED <<accounts, fallback, asked, disturbed, raises, kills>>

(* Mutant: addresses are taken as they were typed. *)
KeyAsTyped(address) == address

KeyFor(address) == KeyOf[address]

(* _load: the shared account; the dict when there is none or kv_get raises *)
Load(p, address, ok) ==
    IF ok /\ accounts[KeyFor(address)] # NoAccount
    THEN accounts[KeyFor(address)]
    ELSE fallback[p][KeyFor(address)]

(* Mutant: a repeat application sets the password it came with. *)
RegisteredAnew(form, existing) ==
    [password |-> form.password, client |-> form.company,
     linked |-> (IF existing = NoAccount THEN <<>> ELSE existing.linked) \o <<form.id>>]

(* register: a repeat application keeps the password and is linked *)
Registered(form, existing) ==
    IF existing = NoAccount
    THEN [password |-> form.password, client |-> form.company, linked |-> <<form.id>>]
    ELSE [password |-> existing.password, client |-> form.company,
          linked |-> IF form.id \in ToSet(existing.linked) THEN existing.linked
                     ELSE Append(existing.linked, form.id)]

(* A store call answers or raises. *)
Outcome(ok) == IF ok THEN UNCHANGED raises
               ELSE raises < MaxRaises /\ raises' = raises + 1

Between(p, key) ==
    {q \in Replicas \ {p} : At(q, "save") /\ KeyOf[intake[q].address] = key}

LoadAccount(p, ok) ==
    /\ At(p, "load")
    /\ Outcome(ok)
    /\ LET form == intake[p]
           key == KeyOf[form.address]
           existing == Load(p, form.address, ok)
       IN  /\ intake' = [intake EXCEPT ![p] =
                  [step |-> "save", address |-> form.address, form |-> form,
                   account |-> Registered(form, existing)]]
           \* an account found in the dict is changed in place
           /\ fallback' =
                  IF existing # NoAccount /\ (~ok \/ accounts[KeyFor(form.address)] = NoAccount)
                  THEN [fallback EXCEPT ![p][KeyFor(form.address)] = Registered(form, existing)]
                  ELSE fallback
           /\ disturbed' = IF ok /\ Between(p, key) = {} THEN disturbed
                           ELSE disturbed \cup {key}
    /\ UNCHANGED <<filed, accounts, asked, kills>>

(* _save: the shared store, or the dict when kv_put raises; then the form  *)
(* is answered *)
SaveAccount(p, ok) ==
    /\ At(p, "save")
    /\ Outcome(ok)
    /\ LET account == intake[p].account
           address == intake[p].address
           key == KeyOf[address]
       IN  /\ IF ok
              THEN accounts' = [accounts EXCEPT ![KeyFor(address)] = account] /\ UNCHANGED fallback
              ELSE fallback' = [fallback EXCEPT ![p][KeyFor(address)] = account] /\ UNCHANGED accounts
           /\ asked' = [asked EXCEPT ![key] = Append(@, intake[p].form)]
           /\ disturbed' = IF ok THEN disturbed ELSE disturbed \cup {key}
    /\ intake' = [intake EXCEPT ![p] = NoIntake]
    /\ UNCHANGED <<filed, kills>>

(* A replica is killed and starts again: its dict and its intake are gone. *)
Kill(p) ==
    /\ kills < MaxKills
    /\ kills' = kills + 1
    /\ fallback' = [fallback EXCEPT ![p] = NoAccounts]
    /\ intake' = [intake EXCEPT ![p] = NoIntake]
    /\ UNCHANGED <<filed, accounts, asked, disturbed, raises>>

AccountNext ==
    \E p \in Replicas :
        \/ \E company \in Companies, address \in Spellings, password \in Passwords :
              \E signsUp \in BOOLEAN : Apply(p, company, address, password, signsUp)
        \/ \E ok \in BOOLEAN : LoadAccount(p, ok) \/ SaveAccount(p, ok)
        \/ Kill(p)

AccountSpec == AccountInit /\ [][AccountNext]_accountVars

-----------------------------------------------------------------------------
(* Signing in, while the store answers. *)

Authenticates(p, address, password) ==
    LET account == Load(p, address, TRUE)
    IN  account # NoAccount /\ account.password = password

(* Mutant: the first application of the company. *)
EarliestOf(client) ==
    LET own == {i \in 1 .. Len(filed) : filed[i] = client}
    IN  IF own = {} THEN 0 ELSE CHOOSE i \in own : \A j \in own : i <= j

(* applications_for_client, and the one submitted last; 0 when there is none *)
LatestOf(client) ==
    LET own == {i \in 1 .. Len(filed) : filed[i] = client}
    IN  IF own = {} THEN 0 ELSE CHOOSE i \in own : \A j \in own : j <= i

(* client_login: what the portal shows *)
Shown(p, address) == LatestOf(Load(p, address, TRUE).client)

-----------------------------------------------------------------------------
(* Properties. *)

Forms == [step : {"load"}, address : Spellings, password : Passwords,
          company : Companies, id : 1 .. MaxApplications]
Accounts == [password : Passwords, client : Companies, linked : Seq(1 .. MaxApplications)]
Saves == [step : {"save"}, address : Spellings, form : Forms, account : Accounts]

(* Type invariant: an account, wherever it is kept, links filed            *)
(* applications, and is kept under a lowercased address only.              *)
AccountTypeOK ==
    /\ filed \in Seq(Companies)
    /\ accounts \in [Spellings -> Accounts \cup {NoAccount}]
    /\ fallback \in [Replicas -> [Spellings -> Accounts \cup {NoAccount}]]
    /\ \A k \in Spellings \ Keys :
          accounts[k] = NoAccount /\ \A p \in Replicas : fallback[p][k] = NoAccount
    /\ intake \in [Replicas -> {NoIntake} \cup Forms \cup Saves]
    /\ asked \in [Keys -> Seq(Forms)]
    /\ disturbed \subseteq Keys
    /\ raises \in 0 .. MaxRaises /\ kills \in 0 .. MaxKills

(* Safety: "a repeat application from the same email keeps the existing    *)
(* password and just links the new application" (client_identity.py:       *)
(* 105-106) on every replica, through kills and with other clients signing *)
(* up in between, as long as no store call for the address raised and no   *)
(* two of its sign-ups overlapped: the account has the first password,     *)
(* every application in order and the company of the last, and whoever     *)
(* signs in with any spelling of the address is shown the newest           *)
(* application of that company, not older than their own.                  *)
AccountsComplete ==
    \A k \in Keys \ disturbed :
        LET n == Len(asked[k])
        IN  \A address \in {a \in Spellings : KeyOf[a] = k}, p \in Replicas :
              LET account == Load(p, address, TRUE)
              IN  IF n = 0 THEN account = NoAccount
                  ELSE /\ account.linked = [i \in 1 .. n |-> asked[k][i].id]
                       /\ account.client = asked[k][n].company
                       /\ \A password \in Passwords :
                             Authenticates(p, address, password) <=> password = asked[k][1].password
                       /\ Shown(p, address) >= asked[k][n].id
                       /\ filed[Shown(p, address)] = asked[k][n].company
=============================================================================
