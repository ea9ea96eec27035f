---------------------------- MODULE DeviceRegistry -----------------------------
(***************************************************************************)
(* The devices a learner may synchronise with: registerDevice,             *)
(* requireDevice and revokeDevice of SyncService.                          *)
(*                                                                         *)
(* registerDevice looks for the row of the device and then updates that    *)
(* row or inserts one, in two statements; no index keeps a second row out. *)
(* Registrations of one device overlap: the user's, repeated, and the one  *)
(* every first contact makes.                                              *)
(***************************************************************************)
EXTENDS Integers, Sequences

CONSTANTS
    Tablets,         \* devices
    Registrations    \* slots for calls of registerDevice

VARIABLES
    registry,     \* registry[d]: per row of srs_sync_devices of d, is it revoked
    registering,  \* registering[r]: the call in slot r
    lastWord      \* lastWord[d]: what was last done about d (history)

registryVars == <<registry, registering, lastWord>>

ASSUME RegistryAssumption == Tablets # {}

\* row 0: no row was found and one will be inserted.
NotRegistering == [busy |-> FALSE, device |-> CHOOSE d \in Tablets : TRUE, row |-> 0]

LookForDevice(r, d) ==
    /\ ~registering[r].busy
    /\ \E i \in IF registry[d] = <<>> THEN {0} ELSE DOMAIN registry[d] :
          registering' = [registering EXCEPT ![r] = [busy |-> TRUE, device |-> d, row |-> i]]
    /\ UNCHANGED <<registry, lastWord>>

\* Whatever row was found is no longer revoked.
WriteDevice(r) ==
    LET d == registering[r].device
        i == registering[r].row
    IN  /\ registering[r].busy
        /\ registry' = [registry EXCEPT ![d] = IF i = 0 THEN Append(@, FALSE)
                                               ELSE [@ EXCEPT ![i] = FALSE]]
        /\ lastWord' = [lastWord EXCEPT ![d] = "registered"]
        /\ registering' = [registering EXCEPT ![r] = NotRegistering]

\* Mutant: only the row that is found first is revoked.
RevokeOne(d) ==
    /\ registry[d] # <<>>
    /\ registry' = [registry EXCEPT ![d][1] = TRUE]
    /\ lastWord' = [lastWord EXCEPT ![d] = "revoked"]
    /\ UNCHANGED registering

\* Mutant: the rows of the device are deleted.
RevokeByDeletion(d) ==
    /\ registry[d] # <<>>
    /\ registry' = [registry EXCEPT ![d] = <<>>]
    /\ lastWord' = [lastWord EXCEPT ![d] = "revoked"]
    /\ UNCHANGED registering

\* Every row of the device; a device without one is an error.
RevokeDevice(d) ==
    /\ registry[d] # <<>>
    /\ registry' = [registry EXCEPT ![d] = [i \in DOMAIN @ |-> TRUE]]
    /\ lastWord' = [lastWord EXCEPT ![d] = "revoked"]
    /\ UNCHANGED registering

\* requireDevice lets d in when the row it happens to find is not revoked.  A
\* device without a row registers first.
MayBeAdmitted(d) == \E i \in DOMAIN registry[d] : ~registry[d][i]

RegistryInit ==
    /\ registry = [d \in Tablets |-> <<>>]
    /\ registering = [r \in Registrations |-> NotRegistering]
    /\ lastWord = [d \in Tablets |-> "unknown"]

RegistryNext ==
    \/ \E r \in Registrations, d \in Tablets : LookForDevice(r, d)
    \/ \E r \in Registrations : WriteDevice(r)
    \/ \E d \in Tablets : RevokeDevice(d)

RegistrySpec == RegistryInit /\ [][RegistryNext]_registryVars

--------------------------------------------------------------------------------
(***************************************************************************)
(* Properties                                                              *)
(***************************************************************************)

\* Rows and calls have their types, and a call that found a row still has it.
RegistryTypeOK ==
    /\ registry \in [Tablets -> Seq(BOOLEAN)]
    /\ registering \in [Registrations -> [busy : BOOLEAN, device : Tablets, row : Nat]]
    /\ \A r \in Registrations : registering[r].row \in 0 .. Len(registry[registering[r].device])
    /\ lastWord \in [Tablets -> {"unknown", "registered", "revoked"}]

\* What the user did last about a device counts: after a revocation no row lets
\* it in, and after a registration some row does, however many rows overlapping
\* registrations left behind.
LastWordCounts ==
    \A d \in Tablets :
        /\ lastWord[d] = "revoked" => ~MayBeAdmitted(d)
        /\ lastWord[d] = "registered" => MayBeAdmitted(d)
================================================================================
