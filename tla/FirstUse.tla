-------------------------------- MODULE FirstUse --------------------------------
(***************************************************************************)
(* What requests set up for themselves when nothing is there yet: the user *)
(* of an identity that signs in for the first time, and the starter decks  *)
(* and questions of an empty database.                                     *)
(*                                                                         *)
(* Both look first and insert later, in no transaction, and both leave the *)
(* decision to a unique index: an insert that conflicts does nothing.  A   *)
(* seeding takes many statements, and whether there is anything to seed is *)
(* asked of the first table only.                                          *)
(***************************************************************************)
EXTENDS Integers

CONSTANTS
    Identities,   \* provider identities
    Requests,     \* slots for requests
    SeedRows,     \* rows of a seed, in the order they are inserted
    GuardRows,    \* the first of them, in the table that is counted
    MaxAccounts   \* bound on the ids drawn

VARIABLES
    account,      \* account[i]: the row of i: its id, 0 for none, and its role
    drawn,        \* ids drawn so far
    seeds,        \* seeds[n]: "absent", "seeded" or "studied"
    request,      \* request[q]: what q is at
    resolved,     \* resolved[i]: the ids requests of i were given (history)
    touched,      \* identities promoted and rows studied (history)
    interrupted   \* a seeding stopped half way (history)

firstUseVars == <<account, drawn, seeds, request, resolved, touched, interrupted>>

ASSUME FirstUseAssumption ==
    /\ Identities # {}
    /\ SeedRows \in Nat
    /\ GuardRows \in 1 .. SeedRows
    /\ Identities \cap (1 .. SeedRows) = {}
    /\ MaxAccounts \in Nat

NoAccount == [id |-> 0, role |-> "none"]

Idle == [at |-> "idle", who |-> CHOOSE i \in Identities : TRUE, row |-> 0]

--------------------------------------------------------------------------------
(***************************************************************************)
(* resolveApplicationUser.                                                 *)
(***************************************************************************)
Resolve(i, id) == resolved' = [resolved EXCEPT ![i] = @ \cup {id}]

FindUser(q, i) ==
    /\ request[q].at = "idle"
    /\ IF account[i].id # 0
       THEN Resolve(i, account[i].id) /\ UNCHANGED request
       ELSE /\ request' = [request EXCEPT ![q] = [Idle EXCEPT !.at = "insert", !.who = i]]
            /\ UNCHANGED resolved
    /\ UNCHANGED <<account, drawn, seeds, touched, interrupted>>

\* Mutant: on conflict the row is updated.
InsertUserOrUpdate(q) ==
    LET i == request[q].who
    IN  /\ request[q].at = "insert"
        /\ drawn < MaxAccounts
        /\ drawn' = drawn + 1
        /\ account' = [account EXCEPT ![i] = [id |-> drawn + 1, role |-> "learner"]]
        /\ Resolve(i, drawn + 1)
        /\ request' = [request EXCEPT ![q] = Idle]
        /\ UNCHANGED <<seeds, touched, interrupted>>

\* ON CONFLICT DO NOTHING returns no row to who comes second.
InsertUser(q) ==
    LET i == request[q].who
    IN  /\ request[q].at = "insert"
        /\ drawn < MaxAccounts
        /\ drawn' = drawn + 1
        /\ IF account[i].id = 0
           THEN /\ account' = [account EXCEPT ![i] = [id |-> drawn + 1, role |-> "learner"]]
                /\ Resolve(i, drawn + 1)
                /\ request' = [request EXCEPT ![q] = Idle]
           ELSE /\ request' = [request EXCEPT ![q].at = "reread"]
                /\ UNCHANGED <<account, resolved>>
        /\ UNCHANGED <<seeds, touched, interrupted>>

Reread(q) ==
    /\ request[q].at = "reread"
    /\ Resolve(request[q].who, account[request[q].who].id)
    /\ request' = [request EXCEPT ![q] = Idle]
    /\ UNCHANGED <<account, drawn, seeds, touched, interrupted>>

\* An operator gives a user another role.
Promote(i) ==
    /\ account[i].role = "learner"
    /\ account' = [account EXCEPT ![i].role = "editor"]
    /\ touched' = touched \cup {i}
    /\ UNCHANGED <<drawn, seeds, request, resolved, interrupted>>

--------------------------------------------------------------------------------
(***************************************************************************)
(* ensureSeeded of SrsService and of TestService.                          *)
(***************************************************************************)
CountRows(q) ==
    /\ request[q].at = "idle"
    /\ \A n \in 1 .. GuardRows : seeds[n] = "absent"
    /\ request' = [request EXCEPT ![q] = [Idle EXCEPT !.at = "seed", !.row = 1]]
    /\ UNCHANGED <<account, drawn, seeds, resolved, touched, interrupted>>

InsertSeed(q) ==
    LET n == request[q].row
    IN  /\ request[q].at = "seed"
        /\ seeds' = [seeds EXCEPT ![n] = IF @ = "absent" THEN "seeded" ELSE @]
        /\ request' = [request EXCEPT ![q] = IF n = SeedRows THEN Idle
                                             ELSE [@ EXCEPT !.row = n + 1]]
        /\ UNCHANGED <<account, drawn, resolved, touched, interrupted>>

\* A learner answers a card, an editor changes a question.
StudySeed(n) ==
    /\ seeds[n] = "seeded"
    /\ seeds' = [seeds EXCEPT ![n] = "studied"]
    /\ touched' = touched \cup {n}
    /\ UNCHANGED <<account, drawn, request, resolved, interrupted>>

\* A statement fails or the connection ends; the test service logs it and goes on.
StopRequest(q) ==
    /\ request[q].at # "idle"
    /\ interrupted' = (interrupted \/ request[q].at = "seed")
    /\ request' = [request EXCEPT ![q] = Idle]
    /\ UNCHANGED <<account, drawn, seeds, resolved, touched>>

--------------------------------------------------------------------------------
FirstUseInit ==
    /\ account = [i \in Identities |-> NoAccount]
    /\ drawn = 0
    /\ seeds = [n \in 1 .. SeedRows |-> "absent"]
    /\ request = [q \in Requests |-> Idle]
    /\ resolved = [i \in Identities |-> {}]
    /\ touched = {}
    /\ interrupted = FALSE

FirstUseNext ==
    \/ \E q \in Requests :
          \/ \E i \in Identities : FindUser(q, i)
          \/ InsertUser(q)
          \/ Reread(q)
          \/ CountRows(q)
          \/ InsertSeed(q)
          \/ StopRequest(q)
    \/ \E i \in Identities : Promote(i)
    \/ \E n \in 1 .. SeedRows : StudySeed(n)

FirstUseSpec == FirstUseInit /\ [][FirstUseNext]_firstUseVars

--------------------------------------------------------------------------------
(***************************************************************************)
(* Properties                                                              *)
(***************************************************************************)

\* Accounts, seeds and requests have their types.
FirstUseTypeOK ==
    /\ account \in [Identities -> [id : 0 .. MaxAccounts, role : {"none", "learner", "editor"}]]
    /\ drawn \in 0 .. MaxAccounts
    /\ seeds \in [1 .. SeedRows -> {"absent", "seeded", "studied"}]
    /\ request \in [Requests -> [at : {"idle", "insert", "reread", "seed"},
                                 who : Identities, row : 0 .. SeedRows]]
    /\ resolved \in [Identities -> SUBSET (1 .. MaxAccounts)]
    /\ interrupted \in BOOLEAN

\* First uses that overlap agree.  All requests of an identity were given one
\* user; no later sign-in takes back a role and no later seeding an answer; and
\* when no seeding is under way, and none stopped half way, either nothing or
\* everything is seeded.
FirstUseHolds ==
    /\ \A i \in Identities :
          /\ resolved[i] \subseteq {account[i].id}
          /\ i \in touched => account[i].role = "editor"
    /\ \A n \in 1 .. SeedRows : n \in touched => seeds[n] = "studied"
    /\ ((\A q \in Requests : request[q].at # "seed") /\ ~interrupted)
          => \A m, n \in 1 .. SeedRows : seeds[m] = "absent" <=> seeds[n] = "absent"
================================================================================
