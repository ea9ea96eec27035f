----------------------------- MODULE ScriptsProofs -----------------------------
(***************************************************************************)
(* Proofs about what the scripts write: derived publications, the          *)
(* foundation of the kanji tables and the ingestion of dictionaries.  The  *)
(* three components share no state; each part below is about one.          *)
(***************************************************************************)
EXTENDS DerivedPublication, KanjiFoundation, DictionaryIngestion, FiniteSetTheorems,
        WellFoundedInduction, TLAPS

(***************************************************************************)
(* DerivedPublication, for every set of artifacts, restoring or not, any   *)
(* files and any number of derivations.                                    *)
(***************************************************************************)
Directories == [published : Directory, previous : Directory, staged : Directory]

\* What is published, or kept aside, is whole or not there at all.
WholeOrNowhere(dir) == dir = Nowhere \/ IsWhole(dir)

\* The directories D of a script whose run is at a stage, deriving version v: a
\* run is past its checks from "discard" or "aside" on.
StagedWhole(D, stage, v) ==
    stage \in {"discard", "aside", "replace"} => D.staged = Whole(v)

\* Where the last published version c is while no swap was torn.
Kept(D, stage, c, n) ==
    (c # 0 /\ n = 0)
       => IF stage = "replace" THEN D.previous = Whole(c) ELSE D.published = Whole(c)

\* Outside the swap, what one torn swap left is published or aside; inside,
\* StagedWhole says where it is.
Recoverable(D, stage, c, n) ==
    (c # 0 /\ n <= 1 /\ stage \notin {"aside", "replace"})
       => IsWhole(D.published) \/ IsWhole(D.previous)

Sound(restores, D, stage, v, c, n) ==
    /\ WholeOrNowhere(D.published)
    /\ WholeOrNowhere(D.previous)
    /\ stage # "idle" => v # 0
    /\ stage = "replace" => D.published = Nowhere
    /\ stage = "clean" => IsWhole(D.published)
    /\ StagedWhole(D, stage, v)
    /\ Kept(D, stage, c, n)
    /\ restores => Recoverable(D, stage, c, n)

ArtifactInv(a) == Sound(a \in Restoring, dirs[a], run[a], runs[a], current[a], torn[a])

PublicationInv == PublicationTypeOK /\ \A a \in Artifacts : ArtifactInv(a)

--------------------------------------------------------------------------------
\* A whole version is a directory, and not a missing one.
LEMMA WholeIsThere ==
    /\ Nowhere \in Directory
    /\ Empty \in Directory
    /\ \A v \in 1 .. MaxDerivations : Whole(v) \in Directory /\ IsWhole(Whole(v))
    /\ ~IsWhole(Nowhere)
<1>1. \A v \in 1 .. MaxDerivations : Whole(v) # Nowhere
    <2> TAKE v \in 1 .. MaxDerivations
    <2>1. PICK f \in Files : TRUE
        BY PublicationAssumption
    <2>2. Whole(v)[f] = v /\ Nowhere[f] = -1
        BY DEF Whole, Nowhere
    <2> QED BY <2>2
<1> QED BY <1>1, PublicationAssumption DEF Directory, Nowhere, Empty, Whole, IsWhole

LEMMA PublicationStarts == PublicationInit => PublicationInv
BY WholeIsThere, PublicationAssumption
   DEF PublicationInit, PublicationInv, PublicationTypeOK, ArtifactInv, Sound, WholeOrNowhere,
       StagedWhole, Kept, Recoverable, Directories, RunStages

\* The artifacts a step is not about keep what they have.
LEMMA OthersKeep ==
    ASSUME PublicationInv, NEW b \in Artifacts,
           dirs'[b] = dirs[b], run'[b] = run[b], runs'[b] = runs[b],
           current'[b] = current[b], torn'[b] = torn[b]
    PROVE  ArtifactInv(b)'
<1>1. ArtifactInv(b)
    BY DEF PublicationInv
<1> QED BY <1>1 DEF ArtifactInv

\* A step about artifact a alone, with the types it must have.
StepOn(a) ==
    /\ PublicationTypeOK'
    /\ \A b \in Artifacts \ {a} :
          /\ dirs'[b] = dirs[b] /\ run'[b] = run[b] /\ runs'[b] = runs[b]
          /\ current'[b] = current[b] /\ torn'[b] = torn[b]

LEMMA StepOnKeeps ==
    ASSUME PublicationInv, NEW a \in Artifacts, StepOn(a), ArtifactInv(a)'
    PROVE  PublicationInv'
<1>1. ASSUME NEW b \in Artifacts, b # a PROVE ArtifactInv(b)'
    <2>1. /\ dirs'[b] = dirs[b] /\ run'[b] = run[b] /\ runs'[b] = runs[b]
          /\ current'[b] = current[b] /\ torn'[b] = torn[b]
        BY <1>1 DEF StepOn
    <2> QED BY <2>1, OthersKeep
<1> QED BY <1>1 DEF PublicationInv, StepOn

\* The state of one artifact, in one place.
LEMMA ArtifactTypes ==
    ASSUME PublicationInv, NEW a \in Artifacts
    PROVE  /\ dirs[a] \in Directories
           /\ dirs[a].published \in Directory
           /\ dirs[a].previous \in Directory
           /\ dirs[a].staged \in Directory
           /\ run[a] \in RunStages
           /\ runs[a] \in 0 .. MaxDerivations
           /\ current[a] \in 0 .. MaxDerivations
           /\ torn[a] \in Nat
           /\ ArtifactInv(a)
BY DEF PublicationInv, PublicationTypeOK, Directories

--------------------------------------------------------------------------------
(* The steps of a run. *)

\* A step that leaves the directories alone, and moves the run between stages
\* that ask nothing of the directories.
LEMMA StartKeeps ==
    ASSUME PublicationInv, NEW a \in Artifacts, StartRun(a)
    PROVE  PublicationInv'
<1>1. /\ run[a] = "idle" /\ run'[a] = "clear" /\ runs'[a] = runs[a] + 1
      /\ runs[a] < MaxDerivations
      /\ dirs' = dirs /\ current' = current /\ torn' = torn
    BY DEF StartRun, PublicationInv, PublicationTypeOK
<1>2. StepOn(a)
    BY <1>1, ArtifactTypes, PublicationAssumption
       DEF StepOn, StartRun, PublicationInv, PublicationTypeOK, RunStages, Directories
<1>3. ArtifactInv(a)'
    BY <1>1, ArtifactTypes, PublicationAssumption
       DEF ArtifactInv, Sound, WholeOrNowhere, StagedWhole, Kept, Recoverable
<1> QED BY <1>2, <1>3, StepOnKeeps

\* What is published stays; what was aside goes only in the script that does
\* not restore.
LEMMA ClearStagingKeeps ==
    ASSUME PublicationInv, NEW a \in Artifacts, ClearStaging(a)
    PROVE  PublicationInv'
<1> DEFINE D == [dirs[a] EXCEPT !.staged = Empty,
                                !.previous = IF a \in Restoring THEN @ ELSE Nowhere]
<1>1. /\ run[a] = "clear" /\ run'[a] = "write" /\ dirs'[a] = D
      /\ runs' = runs /\ current' = current /\ torn' = torn
      /\ dirs' = [dirs EXCEPT ![a] = D] /\ run' = [run EXCEPT ![a] = "write"]
    BY DEF ClearStaging, PublicationInv, PublicationTypeOK
<1>2. /\ D \in Directories /\ D.published = dirs[a].published
      /\ D.previous = IF a \in Restoring THEN dirs[a].previous ELSE Nowhere
    BY ArtifactTypes, WholeIsThere DEF Directories
<1> HIDE DEF D
<1>3. StepOn(a)
    BY <1>1, <1>2, ArtifactTypes DEF StepOn, PublicationInv, PublicationTypeOK, RunStages, Directories
<1>4. ArtifactInv(a)'
    BY <1>1, <1>2, ArtifactTypes
       DEF ArtifactInv, Sound, WholeOrNowhere, StagedWhole, Kept, Recoverable
<1> QED BY <1>3, <1>4, StepOnKeeps

LEMMA WriteFileKeeps ==
    ASSUME PublicationInv, NEW a \in Artifacts, NEW f \in Files, WriteFile(a, f)
    PROVE  PublicationInv'
<1> DEFINE D == [dirs[a] EXCEPT !.staged = [dirs[a].staged EXCEPT ![f] = runs[a]]]
<1>1. /\ run[a] = "write" /\ run' = run /\ dirs'[a] = D
      /\ runs' = runs /\ current' = current /\ torn' = torn
      /\ dirs' = [dirs EXCEPT ![a] = D]
    BY DEF WriteFile, PublicationInv, PublicationTypeOK
<1>2. /\ D \in Directories /\ D.published = dirs[a].published /\ D.previous = dirs[a].previous
    BY ArtifactTypes, PublicationAssumption DEF Directories, Directory
<1> HIDE DEF D
<1>3. StepOn(a)
    BY <1>1, <1>2, ArtifactTypes DEF StepOn, PublicationInv, PublicationTypeOK, RunStages, Directories
<1>4. ArtifactInv(a)'
    BY <1>1, <1>2, ArtifactTypes
       DEF ArtifactInv, Sound, WholeOrNowhere, StagedWhole, Kept, Recoverable
<1> QED BY <1>3, <1>4, StepOnKeeps

\* Everything is written: from here on the staged directory is whole.
LEMMA EndWritesKeeps ==
    ASSUME PublicationInv, NEW a \in Artifacts, EndWrites(a)
    PROVE  PublicationInv'
<1> DEFINE r == IF a \in Restoring THEN "discard" ELSE "aside"
<1>1. /\ run[a] = "write" /\ run'[a] = r /\ dirs[a].staged = Whole(runs[a])
      /\ runs' = runs /\ current' = current /\ torn' = torn /\ dirs' = dirs
      /\ run' = [run EXCEPT ![a] = r]
    BY DEF EndWrites, AllWritten, PublicationInv, PublicationTypeOK
<1>2. StepOn(a)
    BY <1>1, ArtifactTypes DEF StepOn, PublicationInv, PublicationTypeOK, RunStages, Directories
<1>3. ArtifactInv(a)'
    BY <1>1, ArtifactTypes
       DEF ArtifactInv, Sound, WholeOrNowhere, StagedWhole, Kept, Recoverable
<1> QED BY <1>2, <1>3, StepOnKeeps

\* What was aside may be the only whole version outside the staged directory.
LEMMA DiscardKeeps ==
    ASSUME PublicationInv, NEW a \in Artifacts, DiscardPrevious(a)
    PROVE  PublicationInv'
<1> DEFINE D == [dirs[a] EXCEPT !.previous = Nowhere]
<1>1. /\ run[a] = "discard" /\ run'[a] = "aside" /\ dirs'[a] = D
      /\ runs' = runs /\ current' = current /\ torn' = torn
      /\ dirs' = [dirs EXCEPT ![a] = D] /\ run' = [run EXCEPT ![a] = "aside"]
    BY DEF DiscardPrevious, PublicationInv, PublicationTypeOK
<1>2. /\ D \in Directories /\ D.published = dirs[a].published /\ D.previous = Nowhere
      /\ D.staged = dirs[a].staged
    BY ArtifactTypes, WholeIsThere DEF Directories
<1> HIDE DEF D
<1>3. StepOn(a)
    BY <1>1, <1>2, ArtifactTypes DEF StepOn, PublicationInv, PublicationTypeOK, RunStages, Directories
<1>4. ArtifactInv(a)'
    BY <1>1, <1>2, ArtifactTypes
       DEF ArtifactInv, Sound, WholeOrNowhere, StagedWhole, Kept, Recoverable
<1> QED BY <1>3, <1>4, StepOnKeeps

LEMMA MoveAsideKeeps ==
    ASSUME PublicationInv, NEW a \in Artifacts, MoveAside(a)
    PROVE  PublicationInv'
<1> DEFINE D == IF dirs[a].published = Nowhere THEN dirs[a]
                ELSE [dirs[a] EXCEPT !.previous = dirs[a].published, !.published = Nowhere]
<1>1. /\ run[a] = "aside" /\ run'[a] = "replace"
      /\ runs' = runs /\ current' = current /\ torn' = torn
      /\ dirs' = [dirs EXCEPT ![a] = D] /\ dirs'[a] = D
      /\ run' = [run EXCEPT ![a] = "replace"]
    BY DEF MoveAside, PublicationInv, PublicationTypeOK
<1>2. /\ D \in Directories /\ D.published = Nowhere /\ D.staged = dirs[a].staged
      /\ D.previous = IF dirs[a].published = Nowhere THEN dirs[a].previous
                      ELSE dirs[a].published
    BY ArtifactTypes, WholeIsThere DEF Directories
<1> HIDE DEF D
<1>3. StepOn(a)
    BY <1>1, <1>2, ArtifactTypes DEF StepOn, PublicationInv, PublicationTypeOK, RunStages, Directories
<1>4. \A v \in 1 .. MaxDerivations : Whole(v) # Nowhere
    BY WholeIsThere
<1>5. ArtifactInv(a)'
    BY <1>1, <1>2, <1>4, ArtifactTypes
       DEF ArtifactInv, Sound, WholeOrNowhere, StagedWhole, Kept, Recoverable
<1> QED BY <1>3, <1>5, StepOnKeeps

LEMMA MoveIntoPlaceKeeps ==
    ASSUME PublicationInv, NEW a \in Artifacts, MoveIntoPlace(a)
    PROVE  PublicationInv'
<1> DEFINE D == [dirs[a] EXCEPT !.published = dirs[a].staged, !.staged = Nowhere]
<1>1. /\ run[a] = "replace" /\ run'[a] = "clean" /\ current'[a] = runs[a]
      /\ runs' = runs /\ torn' = torn
      /\ dirs' = [dirs EXCEPT ![a] = D] /\ dirs'[a] = D
      /\ run' = [run EXCEPT ![a] = "clean"] /\ current' = [current EXCEPT ![a] = runs[a]]
    BY DEF MoveIntoPlace, PublicationInv, PublicationTypeOK
<1>2. /\ D \in Directories /\ D.published = dirs[a].staged /\ D.previous = dirs[a].previous
    BY ArtifactTypes, WholeIsThere DEF Directories
<1> HIDE DEF D
<1>3. runs[a] \in 1 .. MaxDerivations /\ D.published = Whole(runs[a])
    BY <1>1, <1>2, ArtifactTypes, PublicationAssumption DEF ArtifactInv, Sound, StagedWhole
<1>4. IsWhole(D.published)
    BY <1>3, WholeIsThere
<1>5. StepOn(a)
    BY <1>1, <1>2, ArtifactTypes DEF StepOn, PublicationInv, PublicationTypeOK, RunStages, Directories
<1>6. ArtifactInv(a)'
    BY <1>1, <1>2, <1>3, <1>4, ArtifactTypes
       DEF ArtifactInv, Sound, WholeOrNowhere, StagedWhole, Kept, Recoverable
<1> QED BY <1>5, <1>6, StepOnKeeps

LEMMA RemoveKeeps ==
    ASSUME PublicationInv, NEW a \in Artifacts, RemovePrevious(a)
    PROVE  PublicationInv'
<1> DEFINE D == [dirs[a] EXCEPT !.previous = Nowhere]
<1>1. /\ run[a] = "clean" /\ run'[a] = "idle" /\ dirs'[a] = D
      /\ runs' = runs /\ current' = current /\ torn' = torn
      /\ dirs' = [dirs EXCEPT ![a] = D] /\ run' = [run EXCEPT ![a] = "idle"]
    BY DEF RemovePrevious, PublicationInv, PublicationTypeOK
<1>2. /\ D \in Directories /\ D.published = dirs[a].published /\ D.previous = Nowhere
    BY ArtifactTypes, WholeIsThere DEF Directories
<1> HIDE DEF D
<1>3. StepOn(a)
    BY <1>1, <1>2, ArtifactTypes DEF StepOn, PublicationInv, PublicationTypeOK, RunStages, Directories
<1>4. ArtifactInv(a)'
    BY <1>1, <1>2, ArtifactTypes
       DEF ArtifactInv, Sound, WholeOrNowhere, StagedWhole, Kept, Recoverable
<1> QED BY <1>3, <1>4, StepOnKeeps

--------------------------------------------------------------------------------
(* A run that ends before it should. *)

\* Outside the swap of an artifact that tears nothing, a whole version is where
\* a later run finds it: either it was published, or this is the first swap to
\* be torn and the last version is aside.
LEMMA StopKeeps ==
    ASSUME PublicationInv, NEW a \in Artifacts, StopRun(a)
    PROVE  PublicationInv'
<1> DEFINE n == IF Tears(a) THEN torn[a] + 1 ELSE torn[a]
<1>1. /\ run'[a] = "idle" /\ torn'[a] = n /\ dirs' = dirs /\ runs' = runs /\ current' = current
      /\ run' = [run EXCEPT ![a] = "idle"] /\ torn' = [torn EXCEPT ![a] = n]
    BY DEF StopRun, PublicationInv, PublicationTypeOK
<1>2. n \in Nat
    BY ArtifactTypes
<1>3. StepOn(a)
    BY <1>1, <1>2, ArtifactTypes DEF StepOn, PublicationInv, PublicationTypeOK, RunStages, Directories
<1>4. \A v \in 1 .. MaxDerivations : Whole(v) # Nowhere /\ IsWhole(Whole(v))
    BY WholeIsThere
<1>5. WholeOrNowhere(dirs[a].published) /\ WholeOrNowhere(dirs[a].previous)
    BY ArtifactTypes DEF ArtifactInv, Sound
<1>6. Kept(dirs[a], "idle", current[a], n)
    <2>1. SUFFICES ASSUME current[a] # 0, n = 0
                   PROVE  dirs[a].published = Whole(current[a])
        BY DEF Kept
    <2>2. torn[a] = 0 /\ ~Tears(a)
        BY <2>1, ArtifactTypes
    <2>3. run[a] # "replace"
        BY <2>1, <2>2, ArtifactTypes DEF Tears, ArtifactInv, Sound
    <2> QED BY <2>1, <2>2, <2>3, ArtifactTypes DEF ArtifactInv, Sound, Kept
<1>7. a \in Restoring => Recoverable(dirs[a], "idle", current[a], n)
    <2>1. SUFFICES ASSUME a \in Restoring, current[a] # 0, n <= 1
                   PROVE  IsWhole(dirs[a].published) \/ IsWhole(dirs[a].previous)
        BY DEF Recoverable
    <2>2. current[a] \in 1 .. MaxDerivations
        BY <2>1, ArtifactTypes, PublicationAssumption
    <2>3. CASE Tears(a)
        <3>1. torn[a] = 0
            BY <2>1, <2>3, ArtifactTypes
        <3>2. dirs[a].published = Nowhere
            BY <2>3 DEF Tears
        <3>3. dirs[a].previous = Whole(current[a])
            BY <1>4, <2>2, <2>3, <3>1, <3>2, ArtifactTypes DEF ArtifactInv, Sound, Kept, Tears
        <3> QED BY <1>4, <2>2, <3>3
    <2>4. CASE ~Tears(a) /\ run[a] \in {"aside", "replace"}
        BY <1>5, <2>1, <2>4 DEF Tears, WholeOrNowhere
    <2>5. CASE run[a] \notin {"aside", "replace"}
        <3>1. torn[a] <= 1
            BY <2>1, <2>5, ArtifactTypes DEF Tears
        <3> QED BY <2>1, <2>5, <3>1, ArtifactTypes DEF ArtifactInv, Sound, Recoverable
    <2> QED BY <2>3, <2>4, <2>5
<1>8. ArtifactInv(a)'
    BY <1>1, <1>5, <1>6, <1>7 DEF ArtifactInv, Sound, StagedWhole
<1> QED BY <1>3, <1>8, StepOnKeeps

\* In the swap of an untorn artifact there is something aside to put back.
LEMMA FailKeeps ==
    ASSUME PublicationInv, NEW a \in Artifacts, FailRun(a)
    PROVE  PublicationInv'
<1> DEFINE back == run[a] = "replace" /\ dirs[a].previous # Nowhere
           put == IF back THEN [dirs[a] EXCEPT !.published = dirs[a].previous,
                                               !.previous = Nowhere]
                  ELSE dirs[a]
           D == [put EXCEPT !.staged = Nowhere]
           n == IF Tears(a) /\ ~back THEN torn[a] + 1 ELSE torn[a]
<1>1. /\ run'[a] = "idle" /\ torn'[a] = n /\ runs' = runs /\ current' = current
      /\ dirs' = [dirs EXCEPT ![a] = D] /\ dirs'[a] = D
      /\ run' = [run EXCEPT ![a] = "idle"] /\ torn' = [torn EXCEPT ![a] = n]
    BY DEF FailRun, PublicationInv, PublicationTypeOK
<1>2. /\ D \in Directories
      /\ D.published = IF back THEN dirs[a].previous ELSE dirs[a].published
      /\ D.previous = IF back THEN Nowhere ELSE dirs[a].previous
      /\ n \in Nat
    <2>1. put \in Directories
        BY ArtifactTypes, WholeIsThere DEF Directories
    <2>2. D \in Directories /\ D.published = put.published /\ D.previous = put.previous
        BY <2>1, WholeIsThere DEF Directories
    <2>3. put.published = IF back THEN dirs[a].previous ELSE dirs[a].published
        BY ArtifactTypes DEF Directories
    <2>4. put.previous = IF back THEN Nowhere ELSE dirs[a].previous
        BY ArtifactTypes DEF Directories
    <2>5. n \in Nat
        BY ArtifactTypes
    <2> QED BY <2>2, <2>3, <2>4, <2>5
<1> HIDE DEF D
<1>3. StepOn(a)
    BY <1>1, <1>2, ArtifactTypes DEF StepOn, PublicationInv, PublicationTypeOK, RunStages, Directories
<1>4. \A v \in 1 .. MaxDerivations : Whole(v) # Nowhere /\ IsWhole(Whole(v))
    BY WholeIsThere
<1>5. WholeOrNowhere(dirs[a].published) /\ WholeOrNowhere(dirs[a].previous)
    BY ArtifactTypes DEF ArtifactInv, Sound
<1>6. Kept(D, "idle", current[a], n)
    <2>1. SUFFICES ASSUME current[a] # 0, n = 0
                   PROVE  D.published = Whole(current[a])
        BY DEF Kept
    <2>2. torn[a] = 0 /\ ~(Tears(a) /\ ~back) /\ current[a] \in 1 .. MaxDerivations
        BY <2>1, ArtifactTypes, PublicationAssumption
    <2>3. CASE run[a] = "replace"
        BY <1>2, <1>4, <2>1, <2>2, <2>3, ArtifactTypes DEF ArtifactInv, Sound, Kept
    <2>4. CASE run[a] # "replace"
        BY <1>2, <2>1, <2>2, <2>4, ArtifactTypes DEF ArtifactInv, Sound, Kept
    <2> QED BY <2>3, <2>4
<1>7. a \in Restoring => Recoverable(D, "idle", current[a], n)
    <2>1. SUFFICES ASSUME a \in Restoring, current[a] # 0, n <= 1
                   PROVE  IsWhole(D.published) \/ IsWhole(D.previous)
        BY DEF Recoverable
    <2>2. current[a] \in 1 .. MaxDerivations
        BY <2>1, ArtifactTypes, PublicationAssumption
    <2>3. CASE back
        BY <1>2, <1>5, <2>3 DEF WholeOrNowhere
    <2>4. CASE ~back /\ Tears(a)
        <3>1. torn[a] = 0
            BY <2>1, <2>4, ArtifactTypes
        <3> QED BY <1>4, <2>1, <2>2, <2>4, <3>1, ArtifactTypes DEF ArtifactInv, Sound, Kept, Tears
    <2>5. CASE ~back /\ ~Tears(a) /\ run[a] \in {"aside", "replace"}
        BY <1>2, <1>5, <2>1, <2>5 DEF Tears, WholeOrNowhere
    <2>6. CASE ~back /\ run[a] \notin {"aside", "replace"}
        <3>1. torn[a] <= 1
            BY <2>1, <2>6, ArtifactTypes DEF Tears
        <3> QED BY <1>2, <2>1, <2>6, <3>1, ArtifactTypes DEF ArtifactInv, Sound, Recoverable
    <2> QED BY <2>3, <2>4, <2>5, <2>6
<1>8. WholeOrNowhere(D.published) /\ WholeOrNowhere(D.previous)
    BY <1>2, <1>5 DEF WholeOrNowhere
<1>9. ArtifactInv(a)'
    BY <1>1, <1>6, <1>7, <1>8 DEF ArtifactInv, Sound, StagedWhole
<1> QED BY <1>3, <1>9, StepOnKeeps

LEMMA PublicationNextKeeps ==
    ASSUME PublicationInv, PublicationNext \/ UNCHANGED publicationVars
    PROVE  PublicationInv'
<1>1. CASE UNCHANGED publicationVars
    <2>1. PublicationTypeOK'
        BY <1>1 DEF publicationVars, PublicationInv, PublicationTypeOK
    <2> QED BY <1>1, <2>1, OthersKeep DEF publicationVars, PublicationInv
<1>2. CASE PublicationNext
    BY <1>2, StartKeeps, ClearStagingKeeps, WriteFileKeeps, EndWritesKeeps, DiscardKeeps, MoveAsideKeeps,
       MoveIntoPlaceKeeps, RemoveKeeps, StopKeeps, FailKeeps DEF PublicationNext
<1> QED BY <1>1, <1>2

\* What is published is one whole version, the last one unless a swap is under
\* way or was torn, and the restoring scripts survive one torn swap: for any
\* files, artifacts and number of runs, stopped or failing anywhere.
THEOREM PublishedVersionsSurvive == PublicationSpec => [](PublicationTypeOK /\ PublicationSurvives)
<1>1. PublicationInv /\ [PublicationNext]_publicationVars => PublicationInv'
    BY PublicationNextKeeps
<1>2. PublicationInv => PublicationTypeOK /\ PublicationSurvives
    <2> SUFFICES ASSUME PublicationInv, NEW a \in Artifacts
                 PROVE  /\ dirs[a].published = Nowhere \/ IsWhole(dirs[a].published)
                        /\ (current[a] # 0 /\ torn[a] = 0 /\ run[a] # "replace")
                              => dirs[a].published = Whole(current[a])
                        /\ (current[a] # 0 /\ torn[a] <= 1 /\ a \in Restoring)
                              => \E dir \in {dirs[a].published, dirs[a].previous, dirs[a].staged} :
                                    IsWhole(dir)
        BY DEF PublicationInv, PublicationSurvives
    <2>1. ArtifactInv(a)
        BY DEF PublicationInv
    <2>2. ASSUME run[a] \in {"aside", "replace"} PROVE IsWhole(dirs[a].staged)
        <3>1. runs[a] \in 1 .. MaxDerivations
            BY <2>1, <2>2, ArtifactTypes, PublicationAssumption DEF ArtifactInv, Sound
        <3> QED BY <2>1, <2>2, <3>1, WholeIsThere DEF ArtifactInv, Sound, StagedWhole
    <2> QED BY <2>1, <2>2 DEF ArtifactInv, Sound, WholeOrNowhere, Kept, Recoverable
<1> QED BY <1>1, <1>2, PublicationStarts, PTL DEF PublicationSpec

--------------------------------------------------------------------------------
(***************************************************************************)
(* KanjiFoundation, for any datasets, any number of processes and any      *)
(* database to begin with.                                                 *)
(***************************************************************************)
\* What a process with locals w counts on, when the rows are R.  One that
\* ingests adds all upstream characters, or none because they are there.
WriterInv(w, R) ==
    /\ w.stage \in {"provision mindtree", "provision corpus"} => w.inserts \subseteq Dataset(w.stage)
    /\ w.stage = "ingest" =>
          /\ FirstParty \cap KanjiRows \subseteq R
          /\ w.inserts = Upstream \/ (w.inserts = {} /\ ~w.replace /\ Upstream \subseteq R)
    /\ w.stage = "post-verify" => Upstream \subseteq R

FoundationInv ==
    /\ FoundationTypeOK
    /\ FoundationHolds
    /\ found \cap Upstream = {}
    /\ \A p \in Writers : WriterInv(writer[p], rows)

LEMMA NotWritingType == NotWriting \in Writer /\ \A R : WriterInv(NotWriting, R)
BY DEF NotWriting, Writer, WriterStages, WriterInv

LEMMA FoundationStarts == FoundationInit => FoundationInv
<1> SUFFICES ASSUME FoundationInit PROVE FoundationInv
    OBVIOUS
<1>1. rows \cap Upstream = {} /\ rows \subseteq AllRows
    BY FoundationAssumption DEF FoundationInit, AllRows
<1>2. FoundationTypeOK
    BY <1>1, NotWritingType DEF FoundationInit, FoundationTypeOK
<1>3. FoundationHolds
    BY <1>1 DEF FoundationInit, FoundationHolds
<1> QED BY <1>1, <1>2, <1>3, NotWritingType DEF FoundationInit, FoundationInv

\* Rows are only ever added, first-party or all upstream ones; a reference of
\* an upstream character is never to a row that is missing.
RowsGrow ==
    /\ rows \subseteq rows'
    /\ rows' \ rows \subseteq FirstParty \cup Upstream
    /\ Upstream \cap rows' # {} => (FirstParty \cap KanjiRows) \cup Upstream \subseteq rows'

\* A process reports what is so.
ReportsFollow ==
    /\ reported' \subseteq {"provisioned", "ingested"}
    /\ "provisioned" \in reported' => "provisioned" \in reported \/ ValidFoundation(rows')
    /\ "ingested" \in reported' => "ingested" \in reported \/ Upstream \subseteq rows

LEMMA GrowingHolds ==
    ASSUME FoundationInv, RowsGrow, ReportsFollow, found' = found
    PROVE  FoundationHolds'
<1>1. found' \subseteq rows'
    BY DEF FoundationInv, FoundationHolds, RowsGrow
<1>2. ASSUME "provisioned" \in reported' PROVE ValidFoundation(rows')
    <2>1. CASE ValidFoundation(rows')
        BY <2>1
    <2>2. CASE "provisioned" \in reported
        <3>1. FirstParty \subseteq rows /\ rows \cap Strangers = {}
              /\ \A r \in rows : Needs[r] \subseteq rows
            BY <2>2 DEF FoundationInv, FoundationHolds, ValidFoundation
        <3>2. rows' \ rows \subseteq Upstream
            BY <3>1 DEF RowsGrow
        <3>3. \A r \in rows' : Needs[r] \subseteq rows'
            BY <3>1, <3>2, FoundationAssumption DEF RowsGrow
        <3>4. rows' \cap Strangers = {}
            BY <3>1, <3>2, FoundationAssumption
        <3> QED BY <3>1, <3>3, <3>4 DEF ValidFoundation, RowsGrow
    <2> QED BY <1>2, <2>1, <2>2 DEF ReportsFollow
<1>3. "ingested" \in reported' => Upstream \subseteq rows'
    BY DEF FoundationInv, FoundationHolds, RowsGrow, ReportsFollow
<1> QED BY <1>1, <1>2, <1>3 DEF FoundationHolds, RowsGrow, ValidFoundation

\* A step of process p that leaves it with locals w.
LEMMA WriterStepKeeps ==
    ASSUME FoundationInv, NEW p \in Writers, NEW w \in Writer,
           Becomes(p, w) \/ writer' = writer,
           WriterInv(w, rows'), RowsGrow, ReportsFollow, found' = found
    PROVE  FoundationInv'
<1>1. rows' \subseteq AllRows
    BY DEF FoundationInv, FoundationTypeOK, RowsGrow, AllRows
<1>2. FoundationTypeOK'
    BY <1>1 DEF FoundationInv, FoundationTypeOK, ReportsFollow, Becomes
<1>3. \A q \in Writers : WriterInv(writer[q], rows')
    BY DEF FoundationInv, WriterInv, RowsGrow
<1>4. \A q \in Writers : WriterInv(writer'[q], rows')
    BY <1>3 DEF FoundationInv, FoundationTypeOK, Becomes
<1>5. found' \cap Upstream = {}
    BY DEF FoundationInv
<1> QED BY <1>2, <1>4, <1>5, GrowingHolds DEF FoundationInv

\* Where the rows stay and nothing is reported, nothing can go wrong.
LEMMA RowsStay ==
    ASSUME FoundationInv, rows' = rows, reported' = reported
    PROVE  RowsGrow /\ ReportsFollow
BY DEF FoundationInv, FoundationHolds, FoundationTypeOK, RowsGrow, ReportsFollow

--------------------------------------------------------------------------------
(* Bootstrap and provisioning add first-party rows only.                   *)

LEMMA BootstrapKeeps ==
    ASSUME FoundationInv, NEW p \in Writers, StartBootstrap(p) \/ Seed(p)
    PROVE  FoundationInv'
<1>1. CASE StartBootstrap(p)
    <2> DEFINE w == [NotWriting EXCEPT !.stage = "seed"]
    <2>1. w \in Writer /\ w.stage = "seed"
        BY NotWritingType DEF Writer, WriterStages
    <2>2. Becomes(p, w) /\ rows' = rows /\ reported' = reported /\ found' = found
        BY <1>1 DEF StartBootstrap
    <2> HIDE DEF w
    <2>3. WriterInv(w, rows')
        BY <2>1 DEF WriterInv
    <2> QED BY <2>1, <2>2, <2>3, RowsStay, WriterStepKeeps
<1>2. CASE Seed(p)
    <2>1. /\ rows \subseteq rows' /\ rows' \ rows \subseteq Mindtree
          /\ Becomes(p, NotWriting) /\ found' = found /\ reported' = reported
        BY <1>2 DEF Seed
    <2>2. RowsGrow
        BY <2>1, FoundationAssumption DEF RowsGrow, FoundationInv, FoundationHolds, FirstParty
    <2>3. ReportsFollow
        BY <2>1 DEF ReportsFollow, FoundationInv, FoundationTypeOK, FoundationHolds
    <2> QED BY <2>1, <2>2, <2>3, NotWritingType, WriterStepKeeps
<1> QED BY <1>1, <1>2

LEMMA PlanProvisioningKeeps ==
    ASSUME FoundationInv, NEW p \in Writers,
           NEW stage \in {"provision mindtree", "provision corpus"}, PlanProvisioning(p, stage)
    PROVE  FoundationInv'
<1> DEFINE w == [NotWriting EXCEPT !.stage = stage, !.read = rows,
                                   !.inserts = Dataset(stage) \ rows]
<1>1. w \in Writer /\ w.stage = stage /\ w.inserts = Dataset(stage) \ rows
    <2>1. Dataset(stage) \subseteq AllRows /\ rows \subseteq AllRows
        BY DEF Dataset, AllRows, FirstParty, FoundationInv, FoundationTypeOK
    <2> QED BY <2>1, NotWritingType DEF Writer, WriterStages
<1>2. /\ Becomes(p, w) \/ writer' = writer
      /\ rows' = rows /\ found' = found
      /\ reported' = reported \/ (reported' = reported \cup {"provisioned"} /\ ValidFoundation(rows))
    BY DEF PlanProvisioning
<1> HIDE DEF w
<1>3. WriterInv(w, rows')
    BY <1>1 DEF WriterInv
<1>4. RowsGrow /\ ReportsFollow
    BY <1>2 DEF FoundationInv, FoundationHolds, FoundationTypeOK, RowsGrow, ReportsFollow
<1> QED BY <1>1, <1>2, <1>3, <1>4, WriterStepKeeps

\* What was planned commits only if the whole foundation is valid with it.
LEMMA ProvisionKeeps ==
    ASSUME FoundationInv, NEW p \in Writers, Provision(p)
    PROVE  FoundationInv'
<1>1. writer[p].inserts \subseteq FirstParty
    BY DEF Provision, FoundationInv, WriterInv, Dataset, FirstParty
<1>2. /\ Becomes(p, NotWriting) /\ found' = found
      /\ \/ rows' = rows /\ reported' = reported
         \/ /\ rows' = rows \cup writer[p].inserts
            /\ reported' = reported \cup {"provisioned"}
            /\ ValidFoundation(rows')
    BY DEF Provision
<1>3. RowsGrow
    BY <1>1, <1>2, FoundationAssumption DEF RowsGrow, FoundationInv, FoundationHolds
<1>4. ReportsFollow
    BY <1>2 DEF ReportsFollow, FoundationInv, FoundationTypeOK, FoundationHolds
<1> QED BY <1>2, <1>3, <1>4, NotWritingType, WriterStepKeeps

--------------------------------------------------------------------------------
(* The ingestion of KANJIDIC2.                                             *)

LEMMA CheckBaselineKeeps ==
    ASSUME FoundationInv, NEW p \in Writers, NEW replace \in BOOLEAN, CheckBaseline(p, replace)
    PROVE  FoundationInv'
<1> DEFINE n == Cardinality(rows \cap Upstream)
           w == [NotWriting EXCEPT !.stage = "snapshot", !.replace = replace, !.counted = n]
<1>1. n \in Nat
    <2>1. IsFiniteSet(rows \cap Upstream)
        BY FoundationAssumption, FS_Subset DEF AllRows
    <2> QED BY <2>1, FS_CardinalityType
<1> HIDE DEF n
<1>2. w \in Writer /\ w.stage = "snapshot"
    BY <1>1, NotWritingType DEF Writer, WriterStages
<1>3. Becomes(p, w) /\ rows' = rows /\ reported' = reported /\ found' = found
    BY DEF CheckBaseline, n
<1> HIDE DEF w
<1>4. WriterInv(w, rows')
    BY <1>2 DEF WriterInv
<1> QED BY <1>2, <1>3, <1>4, RowsStay, WriterStepKeeps

\* Upstream characters are there all or none, so what is planned is none or all.
LEMMA PlanIngestionKeeps ==
    ASSUME FoundationInv, NEW p \in Writers, PlanIngestion(p)
    PROVE  FoundationInv'
<1> DEFINE v == writer[p]
           existing == IF v.replace THEN {} ELSE rows \cap Upstream
           w == [v EXCEPT !.stage = "ingest", !.read = rows, !.inserts = Upstream \ existing]
<1>1. v \in Writer /\ rows \subseteq AllRows
    BY DEF FoundationInv, FoundationTypeOK
<1>2. w \in Writer /\ w.stage = "ingest" /\ w.inserts = Upstream \ existing /\ w.replace = v.replace
    BY <1>1 DEF Writer, WriterStages, AllRows
<1>3. /\ rows' = rows /\ reported' = reported /\ found' = found
      /\ \/ Becomes(p, w) /\ FirstParty \cap KanjiRows \subseteq rows
         \/ Becomes(p, NotWriting)
    BY DEF PlanIngestion
<1>4. w.inserts = Upstream \/ (w.inserts = {} /\ ~w.replace /\ Upstream \subseteq rows)
    <2>1. rows \cap Upstream = {} \/ Upstream \subseteq rows
        BY DEF FoundationInv, FoundationHolds
    <2> QED BY <1>1, <1>2, <2>1 DEF Writer
<1> HIDE DEF w
<1>5. CASE Becomes(p, w) /\ FirstParty \cap KanjiRows \subseteq rows
    <2>1. WriterInv(w, rows')
        BY <1>2, <1>3, <1>4, <1>5 DEF WriterInv
    <2> QED BY <1>2, <1>3, <1>5, <2>1, RowsStay, WriterStepKeeps
<1>6. CASE Becomes(p, NotWriting)
    BY <1>3, <1>6, NotWritingType, RowsStay, WriterStepKeeps
<1> QED BY <1>3, <1>5, <1>6

\* A replacement puts back all that it takes away.
LEMMA IngestKeeps ==
    ASSUME FoundationInv, NEW p \in Writers, Ingest(p)
    PROVE  FoundationInv'
<1> DEFINE v == writer[p]
           w == [NotWriting EXCEPT !.stage = "post-verify"]
<1>1. /\ v.stage = "ingest"
      /\ rows' = (IF v.replace THEN rows \ Upstream ELSE rows) \cup v.inserts
      /\ Becomes(p, w) /\ reported' = reported /\ found' = found
    BY DEF Ingest
<1>2. /\ FirstParty \cap KanjiRows \subseteq rows
      /\ v.inserts = Upstream \/ (v.inserts = {} /\ ~v.replace /\ Upstream \subseteq rows)
    BY <1>1 DEF FoundationInv, WriterInv
<1>3. rows' = rows \cup Upstream
    BY <1>1, <1>2
<1>4. RowsGrow
    BY <1>2, <1>3 DEF RowsGrow
<1>5. ReportsFollow
    BY <1>1 DEF ReportsFollow, FoundationInv, FoundationTypeOK
<1>6. w \in Writer /\ w.stage = "post-verify"
    BY NotWritingType DEF Writer, WriterStages
<1> HIDE DEF w
<1>7. WriterInv(w, rows')
    BY <1>3, <1>6 DEF WriterInv
<1> QED BY <1>1, <1>4, <1>5, <1>6, <1>7, WriterStepKeeps

\* That the characters are there does not rest on their number.
LEMMA PostVerifyKeeps ==
    ASSUME FoundationInv, NEW p \in Writers, PostVerify(p)
    PROVE  FoundationInv'
<1>1. Upstream \subseteq rows
    BY DEF PostVerify, FoundationInv, WriterInv
<1>2. /\ rows' = rows /\ found' = found /\ Becomes(p, NotWriting)
      /\ reported' \in {reported, reported \cup {"ingested"}}
    BY DEF PostVerify
<1>3. RowsGrow /\ ReportsFollow
    BY <1>1, <1>2 DEF FoundationInv, FoundationHolds, FoundationTypeOK, RowsGrow, ReportsFollow
<1> QED BY <1>2, <1>3, NotWritingType, WriterStepKeeps

LEMMA StopWriterKeeps ==
    ASSUME FoundationInv, NEW p \in Writers, StopWriter(p)
    PROVE  FoundationInv'
BY NotWritingType, RowsStay, WriterStepKeeps DEF StopWriter

LEMMA FoundationNextKeeps ==
    ASSUME FoundationInv, FoundationNext \/ UNCHANGED foundationVars
    PROVE  FoundationInv'
<1>1. CASE UNCHANGED foundationVars
    BY <1>1 DEF foundationVars, FoundationInv, FoundationTypeOK, FoundationHolds, ValidFoundation
<1>2. CASE FoundationNext
    BY <1>2, BootstrapKeeps, PlanProvisioningKeeps, ProvisionKeeps, CheckBaselineKeeps,
       PlanIngestionKeeps, IngestKeeps, PostVerifyKeeps, StopWriterKeeps DEF FoundationNext
<1> QED BY <1>1, <1>2

\* The kanji foundation holds under any number of bootstraps, provisionings and
\* ingestions that overlap and stop, whatever part of it was there before.
THEOREM KanjiFoundationHolds == FoundationSpec => [](FoundationTypeOK /\ FoundationHolds)
<1>1. FoundationInv /\ [FoundationNext]_foundationVars => FoundationInv'
    BY FoundationNextKeeps
<1>2. FoundationInv => FoundationTypeOK /\ FoundationHolds
    BY DEF FoundationInv
<1> QED BY <1>1, <1>2, FoundationStarts, PTL DEF FoundationSpec

--------------------------------------------------------------------------------
(***************************************************************************)
(* DictionaryIngestion, for any source, any targets, any batch size and    *)
(* any number of runs: the checkpoint never covers an entry that is        *)
(* missing, and ingestion implements DictionaryLoad.                       *)
(***************************************************************************)
\* The table t of E has every valid entry up to n.
Covered(E, t, n) == \A i \in ValidEntries : i <= n => E[t][i] = "source"

\* What a run with locals q has loaded: all of the source up to its position,
\* but for the batch it has not committed, and all there is when its pass ends.
LoadInv(q, E) ==
    /\ q.pass = 2 => q.for.mode = "full"
    /\ q.stage \notin {"idle", "register", "open"} =>
          (q.for.mode # "bounded" => q.limit = LastEntry)
    /\ q.stage \in {"fill", "truncate", "save"} => Covered(E, q.for.target, q.pos)
    /\ q.stage \in {"plan", "commit"} =>
          \A i \in ValidEntries \ q.batch : i <= q.pos => E[q.for.target][i] = "source"
    /\ q.stage \in {"plan", "commit", "truncate", "save"} =>
          q.batch # {} /\ \A i \in q.batch : i <= q.pos
    /\ q.stage = "sample" => Covered(E, q.for.target, q.limit)

CheckpointInv(C, E) == C.kind = "saved" => Covered(E, C.target, C.last)

IngestionInv ==
    /\ IngestionTypeOK
    /\ CheckpointInv(checkpoint, entries)
    /\ \A p \in Loads : LoadInv(load[p], entries)

--------------------------------------------------------------------------------
(* Sets of positions. *)

LEMMA Positions ==
    /\ \A i \in ValidEntries : i \in Nat /\ 1 <= i /\ i <= LastEntry
    /\ LastEntry \in Nat
    /\ BatchSize \in Nat \ {0}
BY IngestionAssumption

LEMMA LeastEntry ==
    ASSUME NEW S \in SUBSET Nat, S # {}
    PROVE  \E i \in S : \A j \in S : i <= j
<1> DEFINE R == OpToRel(<, Nat)
<1>1. IsWellFoundedOn(R, Nat)
    BY NatLessThanWellFounded
<1>2. \A x, y \in Nat : y < x => <<y, x>> \in R
    BY DEF OpToRel
<1> HIDE DEF R
<1>3. PICK x \in S : \A y \in S : ~ (<<y, x>> \in R)
    BY <1>1, WFMin
<1>4. ASSUME NEW y \in S PROVE x <= y
    <2>1. ~(y < x)
        BY <1>2, <1>3
    <2> QED BY <2>1
<1> QED BY <1>4

\* The last entry of a batch is an entry of the batch.
LEMMA LastInBatch ==
    ASSUME NEW batch \in SUBSET ValidEntries, batch # {}
    PROVE  Last(batch) \in batch
<1> DEFINE T == {LastEntry - i : i \in batch}
<1>1. T \in SUBSET Nat
    BY Positions
<1>2. T # {}
    OBVIOUS
<1>3. PICK k \in T : \A j \in T : k <= j
    BY <1>1, <1>2, LeastEntry
<1>4. PICK i \in batch : k = LastEntry - i
    OBVIOUS
<1>5. ASSUME NEW j \in batch PROVE j <= i
    <2>1. LastEntry - i <= LastEntry - j
        BY <1>3, <1>4
    <2> QED BY <2>1, Positions
<1> QED BY <1>5 DEF Last

\* A batch that is not the last one has an entry.
LEMMA BatchEndFacts ==
    ASSUME NEW pos \in 0 .. LastEntry, NEW limit \in 0 .. LastEntry
    PROVE  /\ BatchEnd(pos, limit) \in 0 .. LastEntry
           /\ ValidUpTo(pos, BatchEnd(pos, limit)) = {} => BatchEnd(pos, limit) = limit
<1> DEFINE full == {i \in (pos + 1) .. limit : Cardinality(ValidUpTo(pos, i)) = BatchSize}
<1>1. CASE full = {}
    BY <1>1 DEF BatchEnd
<1>2. CASE full # {}
    <2>1. full \in SUBSET Nat
        BY Positions
    <2>2. \E i \in full : \A j \in full : i <= j
        BY <1>2, <2>1, LeastEntry
    <2>3. BatchEnd(pos, limit) = CHOOSE i \in full : \A j \in full : i <= j
        BY <1>2 DEF BatchEnd
    <2> HIDE DEF full
    <2>4. BatchEnd(pos, limit) \in full
        BY <2>2, <2>3
    <2>5. ValidUpTo(pos, BatchEnd(pos, limit)) # {}
        BY <2>4, FS_EmptySet, Positions DEF full
    <2>6. BatchEnd(pos, limit) \in 0 .. LastEntry
        BY <2>4, Positions DEF full
    <2> QED BY <2>5, <2>6
<1> QED BY <1>1, <1>2

LEMMA NotLoadingType == NotLoading \in Load /\ \A E : LoadInv(NotLoading, E)
<1>1. \E t \in Targets : TRUE
    BY IngestionAssumption
<1>2. (CHOOSE t \in Targets : TRUE) \in Targets
    BY <1>1
<1>3. NotLoading \in Load
    BY <1>2, Positions DEF NotLoading, Load, Stages, Options, Modes
<1> QED BY <1>3 DEF NotLoading, LoadInv

--------------------------------------------------------------------------------
(* Steps are put together from what they do to the tables and to one run.  *)

\* Entries of the source stay in the tables.
Grow(E, F) ==
    \A t \in Targets, i \in ValidEntries : E[t][i] = "source" => F[t][i] = "source"

LEMMA GrowingKeeps ==
    ASSUME NEW E, NEW F, Grow(E, F)
    PROVE  /\ \A q \in Load : LoadInv(q, E) => LoadInv(q, F)
           /\ \A C \in Checkpoints : CheckpointInv(C, E) => CheckpointInv(C, F)
<1>1. \A t \in Targets : \A n : Covered(E, t, n) => Covered(F, t, n)
    BY DEF Covered, Grow
<1>2. ASSUME NEW q \in Load, LoadInv(q, E) PROVE LoadInv(q, F)
    <2>1. q.for.target \in Targets /\ q.batch \subseteq ValidEntries
        BY DEF Load, Options
    <2> QED BY <1>1, <1>2, <2>1 DEF LoadInv, Grow
<1>3. ASSUME NEW C \in Checkpoints, C.kind = "saved" PROVE C.target \in Targets
    BY <1>3 DEF Checkpoints, NoFile, Truncated, Saved
<1> QED BY <1>1, <1>2, <1>3 DEF CheckpointInv

\* A step of run p that leaves it with locals q.
LEMMA LoadStepKeeps ==
    ASSUME IngestionInv, NEW p \in Loads, NEW q \in Load, LoadInv(q, entries'),
           load' = [load EXCEPT ![p] = q],
           entries' \in [Targets -> [ValidEntries -> {"absent", "source", "other"}]],
           Grow(entries, entries'),
           sources' \subseteq Targets, complete' \subseteq Targets,
           checkpoint' \in Checkpoints, CheckpointInv(checkpoint', entries')
    PROVE  IngestionInv'
<1>1. IngestionTypeOK'
    BY DEF IngestionInv, IngestionTypeOK
<1>2. \A r \in Loads : LoadInv(load[r], entries')
    BY GrowingKeeps DEF IngestionInv, IngestionTypeOK
<1>3. \A r \in Loads : LoadInv(load'[r], entries')
    BY <1>2 DEF IngestionInv, IngestionTypeOK
<1> QED BY <1>1, <1>3 DEF IngestionInv

\* A step that changes neither the tables nor the checkpoint.
LEMMA LocalStepKeeps ==
    ASSUME IngestionInv, NEW p \in Loads, NEW q \in Load, LoadInv(q, entries),
           load' = [load EXCEPT ![p] = q],
           entries' = entries, checkpoint' = checkpoint,
           sources' \subseteq Targets, complete' \subseteq Targets
    PROVE  IngestionInv'
<1>1. Grow(entries, entries')
    BY DEF Grow
<1>2. /\ entries' \in [Targets -> [ValidEntries -> {"absent", "source", "other"}]]
      /\ checkpoint' \in Checkpoints /\ CheckpointInv(checkpoint', entries')
    BY DEF IngestionInv, IngestionTypeOK
<1> QED BY <1>1, <1>2, LoadStepKeeps

LEMMA LoadFacts ==
    ASSUME IngestionInv, NEW p \in Loads
    PROVE  /\ load[p] \in Load /\ LoadInv(load[p], entries)
           /\ load[p].for \in Options /\ load[p].for.target \in Targets
           /\ load \in [Loads -> Load]
           /\ sources \subseteq Targets /\ complete \subseteq Targets
           /\ checkpoint \in Checkpoints /\ CheckpointInv(checkpoint, entries)
           /\ entries \in [Targets -> [ValidEntries -> {"absent", "source", "other"}]]
BY DEF IngestionInv, IngestionTypeOK, Load, Options

LEMMA IngestionStarts == IngestionInit => IngestionInv
<1> SUFFICES ASSUME IngestionInit PROVE IngestionInv
    OBVIOUS
<1>1. IngestionTypeOK
    BY NotLoadingType DEF IngestionInit, IngestionTypeOK, Checkpoints
<1> QED BY <1>1, NotLoadingType DEF IngestionInit, IngestionInv, CheckpointInv, NoFile

--------------------------------------------------------------------------------
(* A run up to its first batch. *)

LEMMA StartLoadKeeps ==
    ASSUME IngestionInv, NEW p \in Loads, NEW o \in Options, StartLoad(p, o)
    PROVE  IngestionInv'
<1> DEFINE s == IF o.target \in sources THEN "open" ELSE "register"
           q == [NotLoading EXCEPT !.stage = s, !.for = o]
<1>1. /\ load' = [load EXCEPT ![p] = q]
      /\ entries' = entries /\ checkpoint' = checkpoint
      /\ sources' = sources /\ complete' = complete
    BY DEF StartLoad
<1>2. q \in Load /\ q.stage \in {"open", "register"} /\ q.pass = 1
    BY NotLoadingType DEF Load, Stages, NotLoading
<1> HIDE DEF q
<1>3. LoadInv(q, entries)
    BY <1>2 DEF LoadInv
<1> QED BY <1>1, <1>2, <1>3, LoadFacts, LocalStepKeeps

LEMMA RegisterKeeps ==
    ASSUME IngestionInv, NEW p \in Loads, RegisterSource(p)
    PROVE  IngestionInv'
<1> DEFINE q == [load[p] EXCEPT !.stage = "open"]
<1>1. /\ load' = [load EXCEPT ![p] = NotLoading] \/ load' = [load EXCEPT ![p] = q]
      /\ entries' = entries /\ checkpoint' = checkpoint /\ complete' = complete
      /\ sources' = sources \cup {load[p].for.target}
    BY LoadFacts DEF RegisterSource
<1>2. q \in Load /\ q.stage = "open" /\ q.pass = load[p].pass /\ q.for = load[p].for
    BY LoadFacts DEF Load, Stages
<1> HIDE DEF q
<1>3. LoadInv(q, entries)
    BY <1>2, LoadFacts DEF LoadInv
<1> QED BY <1>1, <1>2, <1>3, LoadFacts, NotLoadingType, LocalStepKeeps

\* A run that resumes skips what its checkpoint covers.
LEMMA OpenSourceKeeps ==
    ASSUME IngestionInv, NEW p \in Loads, OpenSource(p)
    PROVE  IngestionInv'
<1> DEFINE v == load[p]
           from == IF v.for.resume THEN checkpoint.last ELSE 0
           limit == IF v.for.mode = "bounded" THEN Smaller(from + PilotBound, LastEntry)
                    ELSE LastEntry
           q == [v EXCEPT !.stage = "fill", !.pos = from, !.for.resume = FALSE, !.limit = limit]
<1>1. /\ \/ load' = [load EXCEPT ![p] = NotLoading]
         \/ load' = [load EXCEPT ![p] = q] /\ (v.for.resume => Resumable(v.for.target))
      /\ entries' = entries /\ checkpoint' = checkpoint
      /\ sources' = sources /\ complete' = complete
    BY LoadFacts DEF OpenSource
<1>2. v \in Load /\ v.for \in Options /\ LoadInv(v, entries) /\ v.stage = "open"
    BY LoadFacts DEF OpenSource
<1>3. CASE load' = [load EXCEPT ![p] = NotLoading]
    BY <1>1, <1>3, LoadFacts, NotLoadingType, LocalStepKeeps
<1>4. CASE load' = [load EXCEPT ![p] = q] /\ (v.for.resume => Resumable(v.for.target))
    <2>1. from \in 0 .. LastEntry /\ Covered(entries, v.for.target, from)
        <3>1. CASE v.for.resume
            <4>1. checkpoint.kind = "saved" /\ checkpoint.target = v.for.target
                BY <1>4, <3>1 DEF Resumable
            <4>2. checkpoint.last \in ValidEntries
                BY <4>1, LoadFacts DEF Checkpoints, NoFile, Truncated, Saved
            <4> QED BY <3>1, <4>1, <4>2, LoadFacts, Positions DEF CheckpointInv
        <3>2. CASE ~v.for.resume
            BY <3>2, Positions DEF Covered
        <3> QED BY <3>1, <3>2
    <2>2. limit \in 0 .. LastEntry
        BY <2>1, IngestionAssumption DEF Smaller
    <2>3. v.for.mode # "bounded" => limit = LastEntry
        OBVIOUS
    <2> HIDE DEF from, limit
    <2>4. /\ q \in Load /\ q.stage = "fill" /\ q.pos = from /\ q.limit = limit /\ q.pass = v.pass
          /\ q.for.target = v.for.target /\ q.for.mode = v.for.mode
        BY <1>2, <2>1, <2>2 DEF Load, Stages, Options
    <2> HIDE DEF q
    <2>5. LoadInv(q, entries)
        BY <1>2, <2>1, <2>3, <2>4 DEF LoadInv
    <2> QED BY <1>1, <1>4, <2>4, <2>5, LoadFacts, LocalStepKeeps
<1> QED BY <1>1, <1>3, <1>4

--------------------------------------------------------------------------------
(* The batches. *)

\* An empty batch ends the pass, for then the source is read to its limit.
LEMMA FillKeeps ==
    ASSUME IngestionInv, NEW p \in Loads, FillBatch(p)
    PROVE  /\ IngestionInv'
           /\ complete' = complete \/ \E t \in Targets :
                 complete' = complete \cup {t} /\ Covered(entries, t, LastEntry)
<1> DEFINE v == load[p]
           end == BatchEnd(v.pos, v.limit)
           batch == ValidUpTo(v.pos, end)
           q == [v EXCEPT !.stage = "plan", !.pos = end, !.batch = batch]
           z == [v EXCEPT !.stage = "sample"]
<1>1. v \in Load /\ v.for \in Options /\ LoadInv(v, entries) /\ v.stage = "fill"
      /\ v.pos \in 0 .. LastEntry /\ v.limit \in 0 .. LastEntry /\ v.pass \in {1, 2}
      /\ v.for.target \in Targets
    BY LoadFacts DEF FillBatch, Load
<1>2. /\ load' = [load EXCEPT ![p] = IF batch # {} THEN q ELSE IF v.pass = 1 THEN z ELSE NotLoading]
      /\ complete' = IF batch = {} /\ v.pass = 2 THEN complete \cup {v.for.target} ELSE complete
      /\ entries' = entries /\ checkpoint' = checkpoint /\ sources' = sources
    BY DEF FillBatch
<1>3. Covered(entries, v.for.target, v.pos)
    BY <1>1 DEF LoadInv
<1>4. end \in 0 .. LastEntry /\ (batch = {} => end = v.limit)
    BY <1>1, BatchEndFacts
<1>5. \A i \in ValidEntries : i <= end => i <= v.pos \/ i \in batch
    BY <1>1, <1>4, Positions DEF ValidUpTo
<1>6. batch \subseteq ValidEntries /\ \A i \in batch : i <= end
    BY <1>1, <1>4, Positions DEF ValidUpTo
<1>7. batch = {} => Covered(entries, v.for.target, v.limit)
    BY <1>3, <1>4, <1>5 DEF Covered
<1> HIDE DEF end, batch
<1>8. CASE batch # {}
    <2>1. /\ q \in Load /\ q.stage = "plan" /\ q.pos = end /\ q.batch = batch
          /\ q.for = v.for /\ q.pass = v.pass /\ q.limit = v.limit
        BY <1>1, <1>4, <1>6 DEF Load, Stages
    <2> HIDE DEF q
    <2>2. \A i \in ValidEntries \ batch : i <= end => entries[v.for.target][i] = "source"
        BY <1>3, <1>5 DEF Covered
    <2>3. LoadInv(q, entries)
        BY <1>1, <1>6, <1>8, <2>1, <2>2 DEF LoadInv
    <2>4. load' = [load EXCEPT ![p] = q] /\ complete' = complete
        BY <1>2, <1>8
    <2> QED BY <1>2, <2>1, <2>3, <2>4, LoadFacts, LocalStepKeeps
<1>9. CASE batch = {} /\ v.pass = 1
    <2>1. /\ z \in Load /\ z.stage = "sample" /\ z.for = v.for /\ z.pass = v.pass
          /\ z.limit = v.limit
        BY <1>1 DEF Load, Stages
    <2> HIDE DEF z
    <2>2. LoadInv(z, entries)
        BY <1>1, <1>7, <1>9, <2>1 DEF LoadInv
    <2>3. load' = [load EXCEPT ![p] = z] /\ complete' = complete
        BY <1>2, <1>9
    <2> QED BY <1>2, <2>1, <2>2, <2>3, LoadFacts, LocalStepKeeps
<1>10. CASE batch = {} /\ v.pass = 2
    <2>1. load' = [load EXCEPT ![p] = NotLoading] /\ complete' = complete \cup {v.for.target}
        BY <1>2, <1>10
    <2>2. Covered(entries, v.for.target, LastEntry)
        BY <1>1, <1>7, <1>10 DEF LoadInv
    <2>3. complete' \subseteq Targets
        BY <1>1, <2>1, LoadFacts
    <2> QED BY <1>1, <1>2, <2>1, <2>2, <2>3, LoadFacts, NotLoadingType, LocalStepKeeps
<1> QED BY <1>1, <1>8, <1>9, <1>10

LEMMA PlanKeeps ==
    ASSUME IngestionInv, NEW p \in Loads, PlanBatch(p)
    PROVE  IngestionInv'
<1> DEFINE v == load[p]
           new == {i \in v.batch : entries[v.for.target][i] = "absent"}
           q == [v EXCEPT !.stage = "commit", !.inserts = new]
<1>1. v \in Load /\ LoadInv(v, entries) /\ v.stage = "plan" /\ v.batch \subseteq ValidEntries
    BY LoadFacts DEF PlanBatch, Load
<1>2. /\ load' = [load EXCEPT ![p] = NotLoading] \/ load' = [load EXCEPT ![p] = q]
      /\ entries' = entries /\ checkpoint' = checkpoint
      /\ sources' = sources /\ complete' = complete
    BY DEF PlanBatch
<1>3. /\ q \in Load /\ q.stage = "commit" /\ q.pos = v.pos /\ q.batch = v.batch
      /\ q.for = v.for /\ q.pass = v.pass /\ q.limit = v.limit
    BY <1>1 DEF Load, Stages
<1> HIDE DEF q
<1>4. LoadInv(q, entries)
    BY <1>1, <1>3 DEF LoadInv
<1> QED BY <1>2, <1>3, <1>4, LoadFacts, NotLoadingType, LocalStepKeeps

\* Batches come whole: in the table of the run every entry of the batch is from
\* the source, the rest is what it was.
LEMMA CommitKeeps ==
    ASSUME IngestionInv, NEW p \in Loads, CommitBatch(p)
    PROVE  /\ IngestionInv' /\ complete' = complete
           /\ \/ entries' = entries
              \/ \E t \in Targets, batch \in SUBSET ValidEntries :
                    entries' = [entries EXCEPT ![t] =
                       [i \in ValidEntries |-> IF i \in batch THEN "source" ELSE entries[t][i]]]
<1> DEFINE v == load[p]
           t == v.for.target
           row == [i \in ValidEntries |-> IF i \in v.batch THEN "source" ELSE entries[t][i]]
           s == IF v.pass = 1 THEN "truncate" ELSE "fill"
           b == IF v.pass = 1 THEN v.batch ELSE {}
           q == [v EXCEPT !.stage = s, !.batch = b, !.inserts = {}]
<1>1. v \in Load /\ LoadInv(v, entries) /\ v.stage = "commit" /\ v.batch \subseteq ValidEntries
      /\ t \in Targets
    BY LoadFacts DEF CommitBatch, Load
<1>2. /\ \/ /\ entries' = [entries EXCEPT ![t] = row]
            /\ load' = [load EXCEPT ![p] = q]
         \/ load' = [load EXCEPT ![p] = NotLoading] /\ entries' = entries
      /\ checkpoint' = checkpoint /\ sources' = sources /\ complete' = complete
    BY LoadFacts DEF CommitBatch
<1>3. CASE load' = [load EXCEPT ![p] = NotLoading] /\ entries' = entries
    BY <1>2, <1>3, LoadFacts, NotLoadingType, LocalStepKeeps
<1>4. CASE /\ entries' = [entries EXCEPT ![t] = row]
           /\ load' = [load EXCEPT ![p] = q]
    <2>1. row \in [ValidEntries -> {"absent", "source", "other"}]
        BY <1>1, LoadFacts
    <2>2. entries' \in [Targets -> [ValidEntries -> {"absent", "source", "other"}]]
          /\ entries'[t] = row
        BY <1>1, <1>4, <2>1, LoadFacts
    <2>3. Grow(entries, entries')
        BY <1>1, <1>4, LoadFacts DEF Grow
    <2>4. Covered(entries', t, v.pos)
        <3>1. \A i \in ValidEntries : row[i] = IF i \in v.batch THEN "source" ELSE entries[t][i]
            OBVIOUS
        <3> QED BY <1>1, <2>2, <3>1 DEF Covered, LoadInv
    <2>5. /\ q \in Load /\ q.stage = s /\ q.pos = v.pos /\ q.batch = b
          /\ q.for = v.for /\ q.pass = v.pass /\ q.limit = v.limit
        BY <1>1 DEF Load, Stages
    <2> HIDE DEF q, row
    <2>6. LoadInv(q, entries')
        BY <1>1, <2>4, <2>5 DEF LoadInv
    <2>7. CheckpointInv(checkpoint', entries')
        BY <1>2, <2>3, LoadFacts, GrowingKeeps
    <2>8. IngestionInv'
        BY <1>2, <1>4, <2>2, <2>3, <2>5, <2>6, <2>7, LoadFacts, LoadStepKeeps
    <2> QED BY <1>1, <1>2, <1>4, <2>8 DEF row
<1> QED BY <1>2, <1>3, <1>4

LEMMA TruncateKeeps ==
    ASSUME IngestionInv, NEW p \in Loads, TruncateCheckpoint(p)
    PROVE  IngestionInv'
<1> DEFINE v == load[p]
           q == [v EXCEPT !.stage = "save"]
<1>1. v \in Load /\ LoadInv(v, entries) /\ v.stage = "truncate"
    BY LoadFacts DEF TruncateCheckpoint
<1>2. /\ load' = [load EXCEPT ![p] = q] /\ entries' = entries /\ checkpoint' = Truncated
      /\ sources' = sources /\ complete' = complete
    BY DEF TruncateCheckpoint
<1>3. /\ q \in Load /\ q.stage = "save" /\ q.pos = v.pos /\ q.batch = v.batch
      /\ q.for = v.for /\ q.pass = v.pass /\ q.limit = v.limit
    BY <1>1 DEF Load, Stages
<1> HIDE DEF q
<1>4. LoadInv(q, entries)
    BY <1>1, <1>3 DEF LoadInv
<1>5. checkpoint' \in Checkpoints /\ CheckpointInv(checkpoint', entries')
    BY <1>2 DEF Checkpoints, Truncated, CheckpointInv
<1> QED BY <1>2, <1>3, <1>4, <1>5, LoadFacts, LoadStepKeeps DEF Grow

\* The entry that is saved is in the batch, which is committed by then.
LEMMA SaveKeeps ==
    ASSUME IngestionInv, NEW p \in Loads, SaveCheckpoint(p)
    PROVE  IngestionInv'
<1> DEFINE v == load[p]
           q == [v EXCEPT !.stage = "fill", !.batch = {}]
           C == Saved(v.for.target, Last(v.batch))
<1>1. v \in Load /\ LoadInv(v, entries) /\ v.stage = "save" /\ v.batch \subseteq ValidEntries
      /\ v.for.target \in Targets /\ v.pos \in 0 .. LastEntry
    BY LoadFacts DEF SaveCheckpoint, Load
<1>2. /\ load' = [load EXCEPT ![p] = q] /\ entries' = entries /\ checkpoint' = C
      /\ sources' = sources /\ complete' = complete
    BY LoadFacts DEF SaveCheckpoint
<1>3. /\ q \in Load /\ q.stage = "fill" /\ q.pos = v.pos
      /\ q.for = v.for /\ q.pass = v.pass /\ q.limit = v.limit
    BY <1>1 DEF Load, Stages
<1> HIDE DEF q
<1>4. LoadInv(q, entries)
    BY <1>1, <1>3 DEF LoadInv
<1>5. Last(v.batch) \in v.batch /\ Last(v.batch) <= v.pos
    BY <1>1, LastInBatch DEF LoadInv
<1>6. Last(v.batch) \in ValidEntries
    BY <1>1, <1>5
<1>7. C \in Checkpoints
    BY <1>1, <1>6 DEF Checkpoints
<1>8. CheckpointInv(C, entries)
    <2>1. C.target = v.for.target /\ C.last = Last(v.batch)
        BY DEF Saved
    <2>2. Covered(entries, v.for.target, v.pos)
        BY <1>1 DEF LoadInv
    <2>3. \A i \in ValidEntries : i <= Last(v.batch) => i <= v.pos
        BY <1>1, <1>5, <1>6, Positions
    <2> QED BY <2>1, <2>2, <2>3 DEF CheckpointInv, Covered
<1> HIDE DEF C
<1> QED BY <1>2, <1>3, <1>4, <1>7, <1>8, LoadFacts, LoadStepKeeps DEF Grow

\* Success without a second pass is for runs that read the whole source.
LEMMA CompareKeeps ==
    ASSUME IngestionInv, NEW p \in Loads, CompareSample(p)
    PROVE  /\ IngestionInv'
           /\ complete' = complete \/ \E t \in Targets :
                 complete' = complete \cup {t} /\ Covered(entries, t, LastEntry)
<1> DEFINE v == load[p]
           q == [v EXCEPT !.stage = "fill", !.pass = 2, !.pos = 0]
<1>1. v \in Load /\ LoadInv(v, entries) /\ v.stage = "sample" /\ v.for.target \in Targets
    BY LoadFacts DEF CompareSample
<1>2. /\ \/ load' = [load EXCEPT ![p] = NotLoading]
         \/ load' = [load EXCEPT ![p] = q] /\ v.for.mode = "full"
      /\ \/ complete' = complete
         \/ complete' = complete \cup {v.for.target} /\ v.for.mode = "unbounded"
      /\ entries' = entries /\ checkpoint' = checkpoint /\ sources' = sources
    BY DEF CompareSample
<1>3. /\ q \in Load /\ q.stage = "fill" /\ q.pos = 0 /\ q.pass = 2
      /\ q.for = v.for /\ q.limit = v.limit
    <2>1. 0 \in 0 .. LastEntry
        BY Positions
    <2> QED BY <1>1, <2>1 DEF Load, Stages
<1> HIDE DEF q
<1>4. v.for.mode = "full" => LoadInv(q, entries)
    <2>1. Covered(entries, v.for.target, 0)
        BY Positions DEF Covered
    <2> QED BY <1>1, <1>3, <2>1 DEF LoadInv
<1>5. v.for.mode = "unbounded" => Covered(entries, v.for.target, LastEntry)
    BY <1>1 DEF LoadInv
<1>6. complete' \subseteq Targets
    BY <1>1, <1>2, LoadFacts
<1>7. IngestionInv'
    BY <1>2, <1>3, <1>4, <1>6, LoadFacts, NotLoadingType, LocalStepKeeps
<1> QED BY <1>1, <1>2, <1>5, <1>7

LEMMA StopLoadKeeps ==
    ASSUME IngestionInv, NEW p \in Loads, StopLoad(p)
    PROVE  IngestionInv'
BY LoadFacts, NotLoadingType, LocalStepKeeps DEF StopLoad

LEMMA IngestionNextKeeps ==
    ASSUME IngestionInv, IngestionNext \/ UNCHANGED ingestionVars
    PROVE  IngestionInv'
<1>1. CASE UNCHANGED ingestionVars
    BY <1>1 DEF ingestionVars, IngestionInv, IngestionTypeOK
<1>2. CASE IngestionNext
    BY <1>2, StartLoadKeeps, RegisterKeeps, OpenSourceKeeps, FillKeeps, PlanKeeps, CommitKeeps, TruncateKeeps,
       SaveKeeps, CompareKeeps, StopLoadKeeps DEF IngestionNext, IngestionStep
<1> QED BY <1>1, <1>2

\* Nothing a checkpoint covers is missing, whatever stops or overlaps, with any
\* source, batch size, pilot bound and number of runs and targets.
THEOREM CheckpointsAreCovered == IngestionSpec => [](IngestionTypeOK /\ CheckpointCovered)
<1>1. IngestionInv /\ [IngestionNext]_ingestionVars => IngestionInv'
    BY IngestionNextKeeps
<1>2. IngestionInv => IngestionTypeOK /\ CheckpointCovered
    <2> SUFFICES ASSUME IngestionInv, checkpoint.kind = "saved",
                        NEW i \in ValidEntries \cap (1 .. checkpoint.last)
                 PROVE  i \in InTable(checkpoint.target)
        BY DEF IngestionInv, CheckpointCovered
    <2>1. checkpoint.last \in ValidEntries
        BY DEF IngestionInv, IngestionTypeOK, Checkpoints, NoFile, Truncated, Saved
    <2>2. i <= checkpoint.last
        BY <2>1, Positions
    <2> QED BY <2>2 DEF IngestionInv, CheckpointInv, Covered, InTable
<1> QED BY <1>1, <1>2, IngestionStarts, PTL DEF IngestionSpec

--------------------------------------------------------------------------------
(* Ingestion implements DictionaryLoad. *)

\* A table with every valid entry up to the last is complete.
LEMMA CoveredIsComplete ==
    ASSUME NEW t \in Targets, Covered(entries, t, LastEntry)
    PROVE  InTable(t) = ValidEntries
BY Positions DEF Covered, InTable

LEMMA StartImplements == IngestionInit => DL!Init
BY DEF IngestionInit, DL!Init, InTable, Foreign

\* Tables that stay are the same dictionaries.
LEMMA TablesStay ==
    ASSUME entries' = entries
    PROVE  \A t \in Targets : InTable(t)' = InTable(t) /\ Foreign(t)' = Foreign(t)
BY DEF InTable, Foreign

LEMMA CommitImplements ==
    ASSUME IngestionInv, NEW t \in Targets, NEW batch \in SUBSET ValidEntries,
           complete' = complete,
           entries' = [entries EXCEPT ![t] =
              [i \in ValidEntries |-> IF i \in batch THEN "source" ELSE entries[t][i]]]
    PROVE  DL!LoadBatch(t, batch)
<1>1. entries \in [Targets -> [ValidEntries -> {"absent", "source", "other"}]]
    BY DEF IngestionInv, IngestionTypeOK
<1>2. /\ \A i \in ValidEntries :
            entries'[t][i] = IF i \in batch THEN "source" ELSE entries[t][i]
      /\ \A u \in Targets : u # t => entries'[u] = entries[u]
    BY <1>1
<1>3. InTable(t)' = InTable(t) \cup batch
    BY <1>2 DEF InTable
<1>4. Foreign(t)' = Foreign(t) \ batch
    BY <1>2 DEF Foreign
<1>5. \A u \in Targets : u # t => InTable(u)' = InTable(u) /\ Foreign(u)' = Foreign(u)
    BY <1>2 DEF InTable, Foreign
<1> QED BY <1>3, <1>4, <1>5 DEF DL!LoadBatch

LEMMA DeclareImplements ==
    ASSUME NEW t \in Targets, Covered(entries, t, LastEntry),
           complete' = complete \cup {t}, entries' = entries
    PROVE  DL!Declare(t)
BY CoveredIsComplete, TablesStay DEF DL!Declare

LEMMA StayImplements ==
    ASSUME entries' = entries, complete' = complete
    PROVE  UNCHANGED DL!vars
BY TablesStay DEF DL!vars

LEMMA StepImplements ==
    ASSUME IngestionInv, IngestionNext \/ UNCHANGED ingestionVars
    PROVE  DL!Next \/ UNCHANGED DL!vars
<1>1. CASE UNCHANGED ingestionVars
    BY <1>1, StayImplements DEF ingestionVars
<1>2. ASSUME NEW p \in Loads, CommitBatch(p) PROVE DL!Next \/ UNCHANGED DL!vars
    BY <1>2, CommitKeeps, CommitImplements, StayImplements DEF DL!Next
<1>3. ASSUME NEW p \in Loads, FillBatch(p) \/ CompareSample(p)
      PROVE  DL!Next \/ UNCHANGED DL!vars
    <2>1. entries' = entries
        BY <1>3 DEF FillBatch, CompareSample
    <2>2. complete' = complete \/ \E t \in Targets :
             complete' = complete \cup {t} /\ Covered(entries, t, LastEntry)
        BY <1>3, FillKeeps, CompareKeeps
    <2> QED BY <2>1, <2>2, DeclareImplements, StayImplements DEF DL!Next
<1>4. ASSUME NEW p \in Loads,
             \/ \E o \in Options : StartLoad(p, o)
             \/ RegisterSource(p) \/ OpenSource(p) \/ PlanBatch(p)
             \/ TruncateCheckpoint(p) \/ SaveCheckpoint(p) \/ StopLoad(p)
      PROVE  UNCHANGED DL!vars
    BY <1>4, StayImplements
       DEF StartLoad, RegisterSource, OpenSource, PlanBatch, TruncateCheckpoint, SaveCheckpoint, StopLoad
<1> QED BY <1>1, <1>2, <1>3, <1>4 DEF IngestionNext, IngestionStep

\* Entries come by whole batches and stay, and a run that declares success has
\* the whole source in its target's table.
THEOREM IngestionImplementsLoad == IngestionSpec => IngestionLoads
<1>1. IngestionInv /\ [IngestionNext]_ingestionVars => IngestionInv'
    BY IngestionNextKeeps
<1>2. IngestionInv /\ [IngestionNext]_ingestionVars => [DL!Next]_(DL!vars)
    BY StepImplements
<1> QED BY <1>1, <1>2, IngestionStarts, StartImplements, PTL
    DEF IngestionSpec, IngestionLoads, DL!Spec
================================================================================
