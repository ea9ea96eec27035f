-------------------------- MODULE DictionaryIngestion ---------------------------
(***************************************************************************)
(* executeIngestion of scripts/ingest-full-jmdict.ts: the operator loads   *)
(* the pinned JMdict release into the dictionary of a target database.     *)
(*                                                                         *)
(* A run reads the source in order, commits a batch of valid entries in    *)
(* one transaction and then overwrites the checkpoint file.  It may stop   *)
(* anywhere; a later run resumes behind the entry the checkpoint names, if *)
(* the checkpoint is whole and was made for the same target.  At the end a *)
(* sample is compared with the source, and a full run loads everything a   *)
(* second time.  Runs overlap, and all of them may use one checkpoint file.*)
(*                                                                         *)
(* Entries are their positions in the source, which the pinned hash fixes. *)
(***************************************************************************)
EXTENDS Integers, FiniteSets

CONSTANTS
    Targets,         \* disposable databases
    Loads,           \* slots for runs of the script
    LastEntry,       \* entries of the source
    ValidEntries,    \* those the transformer accepts
    SampledEntries,  \* those the reconciliation compares
    BatchSize,
    PilotBound       \* entries of a bounded pilot run

VARIABLES
    entries,     \* entries[t][i]: the row of i: "absent", "source" or "other"
    sources,     \* the targets with the source in knowledge_sources
    checkpoint,  \* the checkpoint file
    load,        \* load[p]: the run in slot p
    complete     \* targets a run that was not bounded ended in success for (history)

ingestionVars == <<entries, sources, checkpoint, load, complete>>

ASSUME IngestionAssumption ==
    /\ Targets # {}
    /\ LastEntry \in Nat
    /\ ValidEntries \subseteq 1 .. LastEntry
    /\ SampledEntries \subseteq 1 .. LastEntry
    /\ BatchSize \in Nat \ {0}
    /\ PilotBound \in Nat

NoFile == [kind |-> "absent"]
Truncated == [kind |-> "truncated"]
Saved(t, i) == [kind |-> "saved", target |-> t, last |-> i]

\* Pilot stages A to D are bounded, E is not, and neither makes a second pass.
Modes == {"bounded", "unbounded", "full"}

Options == [target : Targets, mode : Modes, policy : {"abort", "update"}, resume : BOOLEAN]

Stages == {"idle", "register", "open", "fill", "plan", "commit", "truncate", "save", "sample"}

\* Locals of a run: what was asked, the first or the second pass, the last entry
\* read and the last to read, the batch, and what is to insert of it.
NotLoading == [stage |-> "idle", pass |-> 1, pos |-> 0, limit |-> 0, batch |-> {}, inserts |-> {},
               for |-> [target |-> CHOOSE t \in Targets : TRUE, mode |-> "full",
                       policy |-> "abort", resume |-> FALSE]]

InTable(t) == {i \in ValidEntries : entries[t][i] = "source"}
Foreign(t) == {i \in ValidEntries : entries[t][i] = "other"}

Smaller(i, j) == IF i <= j THEN i ELSE j
Last(batch) == CHOOSE i \in batch : \A j \in batch : j <= i

--------------------------------------------------------------------------------
(***************************************************************************)
(* A run up to its first batch.                                            *)
(***************************************************************************)
\* Mutant: a checkpoint is good for every target.
ResumableAnywhere(t) == checkpoint.kind = "saved"

\* A missing, truncated or foreign checkpoint refuses to be resumed.
Resumable(t) == checkpoint.kind = "saved" /\ checkpoint.target = t

StartLoad(p, o) ==
    /\ load[p].stage = "idle"
    /\ load' = [load EXCEPT ![p] =
                  [NotLoading EXCEPT !.stage = IF o.target \in sources THEN "open" ELSE "register",
                                     !.for = o]]
    /\ UNCHANGED <<entries, sources, checkpoint, complete>>

\* A source that another run registered meanwhile violates the primary key.
RegisterSource(p) ==
    LET t == load[p].for.target
    IN  /\ load[p].stage = "register"
        /\ sources' = sources \cup {t}
        /\ load' = [load EXCEPT ![p] = IF t \in sources THEN NotLoading
                                       ELSE [@ EXCEPT !.stage = "open"]]
        /\ UNCHANGED <<entries, checkpoint, complete>>

\* The run reads the checkpoint and opens the source at the position after it.
OpenSource(p) ==
    LET q == load[p]
        from == IF q.for.resume THEN checkpoint.last ELSE 0
    IN  /\ q.stage = "open"
        /\ load' = [load EXCEPT ![p] =
                      IF q.for.resume /\ ~Resumable(q.for.target) THEN NotLoading
                      ELSE [q EXCEPT !.stage = "fill", !.pos = from, !.for.resume = FALSE,
                                     !.limit = IF q.for.mode = "bounded"
                                               THEN Smaller(from + PilotBound, LastEntry)
                                               ELSE LastEntry]]
        /\ UNCHANGED <<entries, sources, checkpoint, complete>>

--------------------------------------------------------------------------------
(***************************************************************************)
(* The batches.                                                            *)
(***************************************************************************)
ValidUpTo(pos, i) == ValidEntries \cap ((pos + 1) .. i)

\* The entry that fills the next batch, or the last one to read.
BatchEnd(pos, limit) ==
    LET full == {i \in (pos + 1) .. limit : Cardinality(ValidUpTo(pos, i)) = BatchSize}
    IN  IF full = {} THEN limit ELSE CHOOSE i \in full : \A j \in full : i <= j

\* A pass ends with an empty batch: the first in the comparison of the sample,
\* the second in success.
FillBatch(p) ==
    LET q == load[p]
        end == BatchEnd(q.pos, q.limit)
        batch == ValidUpTo(q.pos, end)
    IN  /\ q.stage = "fill"
        /\ load' = [load EXCEPT ![p] =
                      IF batch # {} THEN [q EXCEPT !.stage = "plan", !.pos = end, !.batch = batch]
                      ELSE IF q.pass = 1 THEN [q EXCEPT !.stage = "sample"]
                      ELSE NotLoading]
        /\ complete' = IF batch = {} /\ q.pass = 2 THEN complete \cup {q.for.target} ELSE complete
        /\ UNCHANGED <<entries, sources, checkpoint>>

\* The transaction reads the rows of its batch.
PlanBatch(p) ==
    LET q == load[p]
        t == q.for.target
    IN  /\ q.stage = "plan"
        /\ load' = [load EXCEPT ![p] =
                      IF q.for.policy = "abort" /\ q.batch \cap Foreign(t) # {} THEN NotLoading
                      ELSE [q EXCEPT !.stage = "commit",
                                     !.inserts = {i \in q.batch : entries[t][i] = "absent"}]]
        /\ UNCHANGED <<entries, sources, checkpoint, complete>>

\* An entry another run inserted meanwhile violates the primary key; the batch
\* is rolled back and the run ends.
CommitBatch(p) ==
    LET q == load[p]
        t == q.for.target
    IN  /\ q.stage = "commit"
        /\ IF \A i \in q.inserts : entries[t][i] = "absent"
           THEN /\ entries' = [entries EXCEPT ![t] =
                                 [i \in ValidEntries |-> IF i \in q.batch THEN "source" ELSE @[i]]]
                /\ load' = [load EXCEPT ![p].stage = IF q.pass = 1 THEN "truncate" ELSE "fill",
                                        ![p].batch = IF q.pass = 1 THEN @ ELSE {},
                                        ![p].inserts = {}]
           ELSE load' = [load EXCEPT ![p] = NotLoading] /\ UNCHANGED entries
        /\ UNCHANGED <<sources, checkpoint, complete>>

\* writeFileSync empties the file and then writes it.
TruncateCheckpoint(p) ==
    /\ load[p].stage = "truncate"
    /\ checkpoint' = Truncated
    /\ load' = [load EXCEPT ![p].stage = "save"]
    /\ UNCHANGED <<entries, sources, complete>>

\* The second pass saves nothing.
SaveCheckpoint(p) ==
    /\ load[p].stage = "save"
    /\ checkpoint' = Saved(load[p].for.target, Last(load[p].batch))
    /\ load' = [load EXCEPT ![p].stage = "fill", ![p].batch = {}]
    /\ UNCHANGED <<entries, sources, complete>>

\* Mutant: a bounded pilot counts as complete.
CompareSampleOfPilot(p) ==
    LET q == load[p]
        matches == SampledEntries \cap ValidEntries \subseteq InTable(q.for.target)
    IN  /\ q.stage = "sample"
        /\ load' = [load EXCEPT ![p] = IF matches /\ q.for.mode = "full"
                                       THEN [q EXCEPT !.stage = "fill", !.pass = 2, !.pos = 0]
                                       ELSE NotLoading]
        /\ complete' = IF matches /\ q.for.mode # "full" THEN complete \cup {q.for.target}
                       ELSE complete
        /\ UNCHANGED <<entries, sources, checkpoint>>

\* A sampled entry that is not in the table, or differs, ends the run.  Pilots
\* have succeeded, and the unbounded one is complete; a full run starts its
\* second pass.
CompareSample(p) ==
    LET q == load[p]
        matches == SampledEntries \cap ValidEntries \subseteq InTable(q.for.target)
    IN  /\ q.stage = "sample"
        /\ load' = [load EXCEPT ![p] = IF matches /\ q.for.mode = "full"
                                       THEN [q EXCEPT !.stage = "fill", !.pass = 2, !.pos = 0]
                                       ELSE NotLoading]
        /\ complete' = IF matches /\ q.for.mode = "unbounded" THEN complete \cup {q.for.target}
                       ELSE complete
        /\ UNCHANGED <<entries, sources, checkpoint>>

\* The process ends anywhere, by an error or from outside.
StopLoad(p) ==
    /\ load[p].stage # "idle"
    /\ load' = [load EXCEPT ![p] = NotLoading]
    /\ UNCHANGED <<entries, sources, checkpoint, complete>>

--------------------------------------------------------------------------------
IngestionInit ==
    /\ entries \in [Targets -> [ValidEntries -> {"absent", "other"}]]
    /\ sources \in SUBSET Targets
    /\ checkpoint = NoFile
    /\ load = [p \in Loads |-> NotLoading]
    /\ complete = {}

IngestionStep(p) ==
    \/ \E o \in Options : StartLoad(p, o)
    \/ RegisterSource(p)
    \/ OpenSource(p)
    \/ FillBatch(p)
    \/ PlanBatch(p)
    \/ CommitBatch(p)
    \/ TruncateCheckpoint(p)
    \/ SaveCheckpoint(p)
    \/ CompareSample(p)
    \/ StopLoad(p)

IngestionNext == \E p \in Loads : IngestionStep(p)

IngestionSpec == IngestionInit /\ [][IngestionNext]_ingestionVars

--------------------------------------------------------------------------------
(***************************************************************************)
(* Properties                                                              *)
(***************************************************************************)

Checkpoints == {NoFile, Truncated} \cup {Saved(t, i) : t \in Targets, i \in ValidEntries}

Load == [stage : Stages, pass : {1, 2}, pos : 0 .. LastEntry, limit : 0 .. LastEntry,
         batch : SUBSET ValidEntries, inserts : SUBSET ValidEntries, for : Options]

\* The tables, the file and the runs have their types.
IngestionTypeOK ==
    /\ entries \in [Targets -> [ValidEntries -> {"absent", "source", "other"}]]
    /\ sources \subseteq Targets
    /\ checkpoint \in Checkpoints
    /\ load \in [Loads -> Load]
    /\ complete \subseteq Targets

\* Nothing up to the entry a checkpoint names is missing from the table of the
\* checkpoint's target: a run that resumes behind it skips only what is there,
\* wherever runs stop, whichever targets share the file, however runs overlap.
CheckpointCovered ==
    checkpoint.kind = "saved" =>
        ValidEntries \cap (1 .. checkpoint.last) \subseteq InTable(checkpoint.target)

DL == INSTANCE DictionaryLoad WITH
        Tables <- Targets,
        Wanted <- ValidEntries,
        loaded <- [t \in Targets |-> InTable(t)],
        foreign <- [t \in Targets |-> Foreign(t)]

\* Ingestion implements DictionaryLoad: entries come by whole batches and stay,
\* and a run that declares success has every valid entry of the source.
IngestionLoads == DL!Spec
================================================================================
