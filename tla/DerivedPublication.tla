--------------------------- MODULE DerivedPublication ---------------------------
(***************************************************************************)
(* How the scripts that derive data from the canonical tables publish it:  *)
(* the files are staged in a directory of their own, the published         *)
(* directory is moved aside, the staged one takes its place, and the old   *)
(* one is removed.                                                         *)
(*                                                                         *)
(* ingest-kanji-jmdict-graph and ingest-kanjivg catch what fails, put the  *)
(* old directory back and discard the staged one.  In the decomposition    *)
(* script a failure nobody asked for is the end of the process, and a run  *)
(* begins by removing what an earlier one left, the directory moved aside  *)
(* included.                                                               *)
(*                                                                         *)
(* One run at a time.  A run that stops leaves what it had done; a         *)
(* directory that is removed in part counts as removed.                    *)
(***************************************************************************)
EXTENDS Integers

CONSTANTS
    Artifacts,      \* derived artifacts, with a script each
    Restoring,      \* those whose script restores on failure
    Files,          \* the files of an artifact
    MaxDerivations  \* bound on the runs of a script

VARIABLES
    dirs,      \* dirs[a]: the published, the previous and the staged directory
    run,       \* run[a]: the run in progress
    runs,      \* runs[a]: how many runs there have been; a run derives that version
    current,   \* current[a]: the version last published, 0 for none (history)
    torn       \* torn[a]: runs that stopped at the swap and left a published
               \* artifact out of its place (history)

publicationVars == <<dirs, run, runs, current, torn>>

ASSUME PublicationAssumption ==
    /\ Restoring \subseteq Artifacts
    /\ Files # {}
    /\ MaxDerivations \in Nat

\* A directory: the versions of the files in it; Nowhere when it does not exist.
Nowhere == [f \in Files |-> -1]
Empty == [f \in Files |-> 0]
Whole(v) == [f \in Files |-> v]
IsWhole(dir) == \E v \in 1 .. MaxDerivations : dir = Whole(v)

\* The run stops while nothing is in the published place, past the point where
\* an earlier directory was kept aside.
Tears(a) == run[a] \in {"aside", "replace"} /\ dirs[a].published = Nowhere /\ current[a] # 0

RunStages == {"idle", "clear", "write", "discard", "aside", "replace", "clean"}

--------------------------------------------------------------------------------
StartRun(a) ==
    /\ run[a] = "idle"
    /\ runs[a] < MaxDerivations
    /\ runs' = [runs EXCEPT ![a] = @ + 1]
    /\ run' = [run EXCEPT ![a] = "clear"]
    /\ UNCHANGED <<dirs, current, torn>>

\* The staged directory is made anew; the decomposition script also removes the
\* directory an earlier run moved aside, before it derives anything.
ClearStaging(a) ==
    /\ run[a] = "clear"
    /\ dirs' = [dirs EXCEPT ![a].staged = Empty,
                            ![a].previous = IF a \in Restoring THEN @ ELSE Nowhere]
    /\ run' = [run EXCEPT ![a] = "write"]
    /\ UNCHANGED <<runs, current, torn>>

\* The graph and KanjiVG scripts end the writes in one block; the decomposition
\* script checks the digests of what it staged.
AllWritten(a) == dirs[a].staged = Whole(runs[a])

WriteFile(a, f) ==
    /\ run[a] = "write"
    /\ dirs[a].staged[f] # runs[a]
    /\ dirs' = [dirs EXCEPT ![a].staged[f] = runs[a]]
    /\ UNCHANGED <<run, runs, current, torn>>

EndWrites(a) ==
    /\ run[a] = "write"
    /\ AllWritten(a)
    /\ run' = [run EXCEPT ![a] = IF a \in Restoring THEN "discard" ELSE "aside"]
    /\ UNCHANGED <<dirs, runs, current, torn>>

\* Only now do the restoring scripts remove what is left in the way.
DiscardPrevious(a) ==
    /\ run[a] = "discard"
    /\ dirs' = [dirs EXCEPT ![a].previous = Nowhere]
    /\ run' = [run EXCEPT ![a] = "aside"]
    /\ UNCHANGED <<runs, current, torn>>

MoveAside(a) ==
    /\ run[a] = "aside"
    /\ dirs' = IF dirs[a].published = Nowhere THEN dirs
               ELSE [dirs EXCEPT ![a].previous = dirs[a].published, ![a].published = Nowhere]
    /\ run' = [run EXCEPT ![a] = "replace"]
    /\ UNCHANGED <<runs, current, torn>>

MoveIntoPlace(a) ==
    /\ run[a] = "replace"
    /\ dirs' = [dirs EXCEPT ![a].published = dirs[a].staged, ![a].staged = Nowhere]
    /\ current' = [current EXCEPT ![a] = runs[a]]
    /\ run' = [run EXCEPT ![a] = "clean"]
    /\ UNCHANGED <<runs, torn>>

RemovePrevious(a) ==
    /\ run[a] = "clean"
    /\ dirs' = [dirs EXCEPT ![a].previous = Nowhere]
    /\ run' = [run EXCEPT ![a] = "idle"]
    /\ UNCHANGED <<runs, current, torn>>

\* The process stops, or the decomposition script fails: nobody tidies up.
StopRun(a) ==
    /\ run[a] # "idle"
    /\ run' = [run EXCEPT ![a] = "idle"]
    /\ torn' = IF Tears(a) THEN [torn EXCEPT ![a] = @ + 1] ELSE torn
    /\ UNCHANGED <<dirs, runs, current>>

\* A statement of a restoring script fails, on request or by itself; the
\* decomposition script fails on request when it has staged its files.
MayFail(a) ==
    \/ a \in Restoring /\ run[a] \in {"write", "discard", "aside", "replace", "clean"}
    \/ run[a] = "write" /\ AllWritten(a)

\* Mutant: a failed swap only discards what was staged.
FailRunUnrestored(a) ==
    /\ MayFail(a)
    /\ dirs' = [dirs EXCEPT ![a].staged = Nowhere]
    /\ run' = [run EXCEPT ![a] = "idle"]
    /\ torn' = IF Tears(a) /\ dirs[a].previous = Nowhere
               THEN [torn EXCEPT ![a] = @ + 1] ELSE torn
    /\ UNCHANGED <<runs, current>>

\* What was moved aside is put back, and what was staged is discarded.
FailRun(a) ==
    LET back == run[a] = "replace" /\ dirs[a].previous # Nowhere
        put == IF back THEN [dirs[a] EXCEPT !.published = dirs[a].previous,
                                               !.previous = Nowhere]
               ELSE dirs[a]
    IN  /\ MayFail(a)
        /\ dirs' = [dirs EXCEPT ![a] = [put EXCEPT !.staged = Nowhere]]
        /\ run' = [run EXCEPT ![a] = "idle"]
        /\ torn' = IF Tears(a) /\ ~back THEN [torn EXCEPT ![a] = @ + 1] ELSE torn
        /\ UNCHANGED <<runs, current>>

--------------------------------------------------------------------------------
PublicationInit ==
    /\ dirs = [a \in Artifacts |-> [published |-> Nowhere, previous |-> Nowhere,
                                    staged |-> Nowhere]]
    /\ run = [a \in Artifacts |-> "idle"]
    /\ runs = [a \in Artifacts |-> 0]
    /\ current = [a \in Artifacts |-> 0]
    /\ torn = [a \in Artifacts |-> 0]

PublicationNext ==
    \E a \in Artifacts :
        \/ StartRun(a)
        \/ ClearStaging(a)
        \/ \E f \in Files : WriteFile(a, f)
        \/ EndWrites(a)
        \/ DiscardPrevious(a)
        \/ MoveAside(a)
        \/ MoveIntoPlace(a)
        \/ RemovePrevious(a)
        \/ StopRun(a)
        \/ FailRun(a)

PublicationSpec == PublicationInit /\ [][PublicationNext]_publicationVars

--------------------------------------------------------------------------------
(***************************************************************************)
(* Properties                                                              *)
(***************************************************************************)

Directory == [Files -> -1 .. MaxDerivations]

\* Directories and runs have their types.
PublicationTypeOK ==
    /\ dirs \in [Artifacts -> [published : Directory, previous : Directory, staged : Directory]]
    /\ run \in [Artifacts -> RunStages]
    /\ runs \in [Artifacts -> 0 .. MaxDerivations]
    /\ current \in [Artifacts -> 0 .. MaxDerivations]
    /\ torn \in [Artifacts -> Nat]

\* What is published is one complete version.  It is the last one that took its
\* place unless a swap is under way or was torn; and when the restoring scripts
\* tore one swap, the files of a complete version are still on disk.
PublicationSurvives ==
    \A a \in Artifacts :
        /\ dirs[a].published = Nowhere \/ IsWhole(dirs[a].published)
        /\ (current[a] # 0 /\ torn[a] = 0 /\ run[a] # "replace")
              => dirs[a].published = Whole(current[a])
        /\ (current[a] # 0 /\ torn[a] <= 1 /\ a \in Restoring)
              => \E dir \in {dirs[a].published, dirs[a].previous, dirs[a].staged} : IsWhole(dir)
================================================================================
