------------------------------ MODULE LearnerDays ------------------------------
(***************************************************************************)
(* Exams, the ledger of their points and the daily queue, which share no   *)
(* state: one scene for each, in which the others rest in an initial state.*)
(***************************************************************************)
EXTENDS ExamSession, XpLedger, DailyQueue

VARIABLE scene

learnerVars == <<scene, vars, ledgerVars, dailyVars>>

LearnerInit ==
    /\ scene \in {"exams", "ledger", "daily"}
    /\ Init
    /\ LedgerInit
    /\ DailyInit

LearnerNext ==
    /\ UNCHANGED scene
    /\ \/ scene = "exams" /\ Next
       \/ scene # "exams" /\ UNCHANGED vars
    /\ \/ scene = "ledger" /\ LedgerNext
       \/ scene # "ledger" /\ UNCHANGED ledgerVars
    /\ \/ scene = "daily" /\ DailyNext
       \/ scene # "daily" /\ UNCHANGED dailyVars

LearnerSpec == LearnerInit /\ [][LearnerNext]_learnerVars

\* The state of every component has its types.
LearnerTypeOK ==
    /\ TypeOK
    /\ LedgerTypeOK
    /\ DailyTypeOK
================================================================================
