----------------------------- MODULE KanjiFoundation -----------------------------
(***************************************************************************)
(* Who writes kanji_entries, kanji_radicals and kanji_composition.         *)
(*                                                                         *)
(*   - KnowledgeService.ensureSeeded bootstraps an empty database with the *)
(*     Mind Tree dataset;                                                  *)
(*   - executeProvisioning, behind scripts/provision-kanji-corpus.ts, adds *)
(*     what is missing of one first-party dataset;                         *)
(*   - scripts/ingest-kanjidic2.ts adds the upstream characters to a       *)
(*     complete first-party foundation, or replaces them.                  *)
(*                                                                         *)
(* Each writes in one transaction, the bootstrap in that of                *)
(* seedDictionaryFixturesForDisposableDatabase, its only caller, and       *)
(* unique indexes on ids and characters order transactions that overlap,   *)
(* so the writes and the checks behind them are one step.  What a writer   *)
(* read before it wrote may be out of date by then.                        *)
(***************************************************************************)
EXTENDS Integers, FiniteSets

CONSTANTS
    Mindtree,      \* rows of the Mind Tree dataset, of all three tables
    Corpus,        \* rows of the corpus dataset
    Upstream,      \* the KANJIDIC2 characters no first-party row has
    Strangers,     \* rows of other origin, found in old databases
    InPlaceOf,     \* InPlaceOf[s]: the row whose character s has
    KanjiRows,     \* rows of kanji_entries
    EdgeRows,      \* rows of kanji_composition; the others are elements
    Needs,         \* Needs[r]: the rows that r refers to; there are no foreign keys.  An
                   \* upstream character refers to an element it has read, or to none
    Writers        \* slots for processes

VARIABLES
    rows,          \* the committed rows
    writer,        \* writer[p]: the process in slot p
    found,         \* the rows there were at the beginning (history)
    reported       \* what some process reported as done (history)

foundationVars == <<rows, writer, found, reported>>

FirstParty == Mindtree \cup Corpus
AllRows == FirstParty \cup Upstream \cup Strangers

ASSUME FoundationAssumption ==
    /\ InPlaceOf \in [Strangers -> FirstParty]
    /\ Upstream \cup Strangers \subseteq KanjiRows
    /\ KanjiRows \cap EdgeRows = {}
    /\ FirstParty \cap (Upstream \cup Strangers) = {}
    /\ Upstream \cap Strangers = {}
    /\ IsFiniteSet(AllRows)
    /\ Needs \in [AllRows -> SUBSET AllRows]
    /\ \A r \in Upstream : Needs[r] = {}

\* Locals of a process: the rows it read, those it will add, the upstream rows
\* it counted first, and whether it replaces them.
NotWriting == [stage |-> "idle", read |-> {}, inserts |-> {}, counted |-> 0, replace |-> FALSE]

WriterStages == {"idle", "seed", "provision mindtree", "provision corpus", "snapshot", "ingest",
                 "post-verify"}

Dataset(stage) == IF stage = "provision mindtree" THEN Mindtree ELSE Corpus

Occupied(r) == r \in rows \/ \E s \in Strangers \cap rows : InPlaceOf[s] = r

Becomes(p, w) == writer' = [writer EXCEPT ![p] = w]

--------------------------------------------------------------------------------
(***************************************************************************)
(* Bootstrap.                                                              *)
(***************************************************************************)
\* decideKanjiBootstrap: anything but three empty tables is skipped or refused.
StartBootstrap(p) ==
    /\ writer[p].stage = "idle"
    /\ rows = {}
    /\ Becomes(p, [NotWriting EXCEPT !.stage = "seed"])
    /\ UNCHANGED <<rows, found, reported>>

\* A row whose id or character is taken is skipped; the closing check counts
\* the Mind Tree's kanji, and elements and edges whosever they are.
Seed(p) ==
    LET after == rows \cup {r \in Mindtree : ~Occupied(r)}
        elements(table) == table \ (KanjiRows \cup EdgeRows)
        enough == /\ Mindtree \cap KanjiRows \subseteq after
                  /\ Cardinality(elements(after)) >= Cardinality(elements(Mindtree))
                  /\ Cardinality(after \cap EdgeRows) >= Cardinality(Mindtree \cap EdgeRows)
    IN  /\ writer[p].stage = "seed"
        /\ rows' = IF enough THEN after ELSE rows
        /\ Becomes(p, NotWriting)
        /\ UNCHANGED <<found, reported>>

--------------------------------------------------------------------------------
(***************************************************************************)
(* Provisioning of one dataset.                                            *)
(***************************************************************************)
\* validateCanonicalInvariants: both datasets complete, no reference to a row
\* that is not there, no unknown provenance.
ValidFoundation(observed) ==
    /\ FirstParty \subseteq observed
    /\ \A r \in observed : Needs[r] \subseteq observed
    /\ observed \cap Strangers = {}

Blocked(dataset) ==
    \/ \E r \in dataset \ rows : Occupied(r)
    \/ \E r \in dataset : ~(Needs[r] \subseteq rows \cup dataset)

\* Mutant: a dataset that is there is reported as provisioned, unverified.
PlanProvisioningUnverified(p, stage) ==
    LET dataset == Dataset(stage)
        done == dataset \subseteq rows
    IN  /\ writer[p].stage = "idle"
        /\ \A q \in Writers : writer[q].stage \notin {"provision mindtree", "provision corpus"}
        /\ ~Blocked(dataset)
        /\ IF done THEN UNCHANGED writer
           ELSE Becomes(p, [NotWriting EXCEPT !.stage = stage, !.read = rows,
                                              !.inserts = dataset \ rows])
        /\ reported' = IF done THEN reported \cup {"provisioned"} ELSE reported
        /\ UNCHANGED <<rows, found>>

\* Under an advisory lock that other provisioners wait for.  A dataset that
\* is there already is only verified.
PlanProvisioning(p, stage) ==
    LET dataset == Dataset(stage)
        done == dataset \subseteq rows
    IN  /\ writer[p].stage = "idle"
        /\ \A q \in Writers : writer[q].stage \notin {"provision mindtree", "provision corpus"}
        /\ ~Blocked(dataset)
        /\ IF done THEN UNCHANGED writer
           ELSE Becomes(p, [NotWriting EXCEPT !.stage = stage, !.read = rows,
                                              !.inserts = dataset \ rows])
        /\ reported' = IF done /\ ValidFoundation(rows) THEN reported \cup {"provisioned"}
                       ELSE reported
        /\ UNCHANGED <<rows, found>>

\* A row that was inserted meanwhile violates a unique index.  Before it
\* commits, the whole foundation has to be valid and the rows outside the
\* dataset what they were.
Provision(p) ==
    LET w == writer[p]
        dataset == Dataset(w.stage)
        after == rows \cup w.inserts
        commits == /\ \A r \in w.inserts : ~Occupied(r)
                   /\ after \ dataset = w.read \ dataset
                   /\ ValidFoundation(after)
    IN  /\ w.stage \in {"provision mindtree", "provision corpus"}
        /\ rows' = IF commits THEN after ELSE rows
        /\ reported' = IF commits THEN reported \cup {"provisioned"} ELSE reported
        /\ Becomes(p, NotWriting)
        /\ UNCHANGED found

--------------------------------------------------------------------------------
(***************************************************************************)
(* Ingestion of KANJIDIC2.                                                 *)
(***************************************************************************)
\* Gate 3: all first-party kanji, no stranger.  Elements and edges are not asked for.
CheckBaseline(p, replace) ==
    /\ writer[p].stage = "idle"
    /\ FirstParty \cap KanjiRows \subseteq rows
    /\ rows \cap Strangers = {}
    /\ Becomes(p, [NotWriting EXCEPT !.stage = "snapshot", !.replace = replace,
                                     !.counted = Cardinality(rows \cap Upstream)])
    /\ UNCHANGED <<rows, found, reported>>

\* Outside the transaction, in a statement of its own: which characters there
\* are.  Gate 5: their number must be what was counted before.
PlanIngestion(p) ==
    LET w == writer[p]
        existing == IF w.replace THEN {} ELSE rows \cap Upstream
        kept == IF w.replace THEN 0 ELSE w.counted
    IN  /\ w.stage = "snapshot"
        /\ Becomes(p, IF /\ Cardinality(Upstream \ existing) = Cardinality(Upstream) - kept
                         /\ FirstParty \cap KanjiRows \subseteq rows
                      THEN [w EXCEPT !.stage = "ingest", !.read = rows,
                                     !.inserts = Upstream \ existing]
                      ELSE NotWriting)
        /\ UNCHANGED <<rows, found, reported>>

\* Characters that are there by now are skipped.
Ingest(p) ==
    LET w == writer[p]
    IN  /\ w.stage = "ingest"
        /\ rows' = (IF w.replace THEN rows \ Upstream ELSE rows) \cup w.inserts
        /\ Becomes(p, [NotWriting EXCEPT !.stage = "post-verify"])
        /\ UNCHANGED <<found, reported>>

\* After the commit: the number of all kanji.
PostVerify(p) ==
    /\ writer[p].stage = "post-verify"
    /\ reported' = IF Cardinality(rows \cap KanjiRows)
                        = Cardinality(FirstParty \cap KanjiRows) + Cardinality(Upstream)
                   THEN reported \cup {"ingested"} ELSE reported
    /\ Becomes(p, NotWriting)
    /\ UNCHANGED <<rows, found>>

\* A lost connection or the end of a process: the transaction is rolled back.
StopWriter(p) ==
    /\ writer[p].stage # "idle"
    /\ Becomes(p, NotWriting)
    /\ UNCHANGED <<rows, found, reported>>

--------------------------------------------------------------------------------
\* Older releases seeded row by row and so left any part of the first-party
\* rows; a stranger and the row whose character it has exclude one another.
FoundationInit ==
    /\ rows \in SUBSET (FirstParty \cup Strangers)
    /\ \A s \in Strangers : ~({s, InPlaceOf[s]} \subseteq rows)
    /\ found = rows
    /\ writer = [p \in Writers |-> NotWriting]
    /\ reported = {}

FoundationNext ==
    \E p \in Writers :
        \/ StartBootstrap(p)
        \/ Seed(p)
        \/ \E stage \in {"provision mindtree", "provision corpus"} : PlanProvisioning(p, stage)
        \/ Provision(p)
        \/ \E replace \in BOOLEAN : CheckBaseline(p, replace)
        \/ PlanIngestion(p)
        \/ Ingest(p)
        \/ PostVerify(p)
        \/ StopWriter(p)

FoundationSpec == FoundationInit /\ [][FoundationNext]_foundationVars

--------------------------------------------------------------------------------
(***************************************************************************)
(* Properties                                                              *)
(***************************************************************************)

Writer == [stage : WriterStages, read : SUBSET AllRows, inserts : SUBSET AllRows,
           counted : Nat, replace : BOOLEAN]

\* Rows, processes and reports have their types.
FoundationTypeOK ==
    /\ rows \subseteq AllRows
    /\ writer \in [Writers -> Writer]
    /\ found \subseteq AllRows
    /\ reported \subseteq {"provisioned", "ingested"}

\* The foundation under what is built on it, with writers that overlap and act
\* on what they read before: nothing that was found is lost; upstream
\* characters are there all or none and stand on all first-party kanji; what was
\* reported as provisioned stays complete and free of dangling references; what
\* was reported as ingested stays.
FoundationHolds ==
    /\ found \subseteq rows
    /\ Upstream \cap rows # {} => (FirstParty \cap KanjiRows) \cup Upstream \subseteq rows
    /\ "provisioned" \in reported => ValidFoundation(rows)
    /\ "ingested" \in reported => Upstream \subseteq rows
================================================================================
