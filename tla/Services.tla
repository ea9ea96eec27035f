------------------------------- MODULE Services --------------------------------
(***************************************************************************)
(* Components that share no state with one another, but for the devices,   *)
(* which pulls read: one scene for each, in which the others rest in an    *)
(* initial state.  The scene of pulls begins with registered devices.      *)
(***************************************************************************)
EXTENDS DeltaPull, DictionaryIngestion, DerivedPublication, KanjiFoundation,
        DictionarySearch, Scheduling, StudyPage, FirstUse

VARIABLE scene

Scenes == {"registry", "pull", "ingestion", "publication", "foundation", "search",
           "scheduling", "study", "firstuse"}

servicesVars == <<scene, registryVars, pullVars, ingestionVars, publicationVars,
                  foundationVars, searchVars, schedulingVars, studyVars, firstUseVars>>

\* Every device has a row and may synchronise.
AllRegistered ==
    /\ registry = [d \in Tablets |-> <<FALSE>>]
    /\ registering = [r \in Registrations |-> NotRegistering]
    /\ lastWord = [d \in Tablets |-> "registered"]

ServicesInit ==
    /\ scene \in Scenes
    /\ IF scene = "pull" THEN AllRegistered ELSE RegistryInit
    /\ PullInit
    /\ IngestionInit
    /\ PublicationInit
    /\ FoundationInit
    /\ SearchInit
    /\ SchedulingInit
    /\ StudyInit
    /\ FirstUseInit

ServicesNext ==
    /\ UNCHANGED scene
    /\ \/ scene = "registry" /\ RegistryNext
       \/ scene # "registry" /\ UNCHANGED registryVars
    /\ \/ scene = "pull" /\ PullNext
       \/ scene # "pull" /\ UNCHANGED pullVars
    /\ \/ scene = "ingestion" /\ IngestionNext
       \/ scene # "ingestion" /\ UNCHANGED ingestionVars
    /\ \/ scene = "publication" /\ PublicationNext
       \/ scene # "publication" /\ UNCHANGED publicationVars
    /\ \/ scene = "foundation" /\ FoundationNext
       \/ scene # "foundation" /\ UNCHANGED foundationVars
    /\ \/ scene = "search" /\ SearchNext
       \/ scene # "search" /\ UNCHANGED searchVars
    /\ \/ scene = "scheduling" /\ SchedulingNext
       \/ scene # "scheduling" /\ UNCHANGED schedulingVars
    /\ \/ scene = "study" /\ StudyNext
       \/ scene # "study" /\ UNCHANGED studyVars
    /\ \/ scene = "firstuse" /\ FirstUseNext
       \/ scene # "firstuse" /\ UNCHANGED firstUseVars

ServicesSpec == ServicesInit /\ [][ServicesNext]_servicesVars

\* The state of every component has its types.
ServicesTypeOK ==
    /\ RegistryTypeOK
    /\ PullTypeOK
    /\ IngestionTypeOK
    /\ PublicationTypeOK
    /\ FoundationTypeOK
    /\ SearchTypeOK
    /\ SchedulingTypeOK
    /\ StudyTypeOK
    /\ FirstUseTypeOK
================================================================================
