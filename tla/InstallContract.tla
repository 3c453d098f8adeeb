--------------------------- MODULE InstallContract ---------------------------
(***************************************************************************)
(* What run_install_pipeline promises its caller (core/pipeline.py:        *)
(* "Returns the partition map ... Raises on failure"): disks are destroyed *)
(* only among those its requests name, and it returns, rather than raises, *)
(* only with a target that can boot.                                       *)
(***************************************************************************)
EXTENDS FiniteSets

CONSTANT Disk

VARIABLES phase,     \* "idle", "running", "failed" or "installed"
          granted,   \* disks named by the requests so far
          destroyed, \* disks on which data has been destroyed
          bootable   \* the target holds an initramfs, a loader and entries for it

contractVars == <<phase, granted, destroyed, bootable>>

ContractInit ==
  phase = "idle" /\ granted = {} /\ destroyed = {} /\ bootable = FALSE

Request ==
  /\ phase \in {"idle", "failed"} /\ phase' = "running"
  /\ \E S \in SUBSET Disk : granted' = granted \cup S
  /\ UNCHANGED <<destroyed, bootable>>

Destroy ==
  /\ phase = "running" /\ destroyed' \in {destroyed \cup {d} : d \in granted}
  /\ UNCHANGED <<phase, granted, bootable>>

Build ==
  /\ phase = "running" /\ bootable' \in BOOLEAN
  /\ UNCHANGED <<phase, granted, destroyed>>

Return ==
  /\ phase = "running" /\ bootable /\ phase' = "installed"
  /\ UNCHANGED <<granted, destroyed, bootable>>

RaiseError ==
  /\ phase = "running" /\ phase' = "failed"
  /\ UNCHANGED <<granted, destroyed, bootable>>

ContractNext == Request \/ Destroy \/ Build \/ Return \/ RaiseError
ContractSpec == ContractInit /\ [][ContractNext]_contractVars
=============================================================================
