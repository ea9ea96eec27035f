----------------------------- MODULE DictionaryLoad -----------------------------
(***************************************************************************)
(* What loading a dictionary promises, whatever stops in between: entries  *)
(* come into a table by whole batches and never leave it, a row that was   *)
(* there before is only ever replaced by an entry of the source, and a     *)
(* table is declared complete when every entry is in it.                   *)
(***************************************************************************)
EXTENDS Naturals

CONSTANTS
    Tables,
    Wanted     \* the entries a complete table has

VARIABLES
    loaded,    \* loaded[t]: the entries of the source in table t
    foreign,   \* foreign[t]: wanted entries whose row in t is something else
    complete   \* the tables declared complete

vars == <<loaded, foreign, complete>>

Init ==
    /\ loaded = [t \in Tables |-> {}]
    /\ foreign \in [Tables -> SUBSET Wanted]
    /\ complete = {}

LoadBatch(t, batch) ==
    /\ loaded' = [loaded EXCEPT ![t] = @ \cup batch]
    /\ foreign' = [foreign EXCEPT ![t] = @ \ batch]
    /\ UNCHANGED complete

Declare(t) ==
    /\ loaded[t] = Wanted
    /\ complete' = complete \cup {t}
    /\ UNCHANGED <<loaded, foreign>>

Next ==
    \E t \in Tables :
        \/ \E batch \in SUBSET Wanted : LoadBatch(t, batch)
        \/ Declare(t)

Spec == Init /\ [][Next]_vars
================================================================================
