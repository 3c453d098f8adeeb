-------------------------- MODULE MCInstallPipeline --------------------------
(* Instances of InstallPipeline: the requests the wizard, an automatic      *)
(* install and the shipped layouts and platforms can make of it.            *)
EXTENDS InstallPipeline

CONSTANTS d1, d2

Base == [source |-> "legacy", auto |-> FALSE, device |-> d1, targets |-> {d1},
         raid |-> "off", raidLead |-> d1, raidDisks |-> {}, espDisks |-> {d1},
         assigned |-> TRUE, fits |-> TRUE, oneKernel |-> TRUE, apple |-> FALSE,
         loader |-> "limine", firmware |-> "uefi", biosOk |-> TRUE,
         esp |-> "/boot", btrfs |-> TRUE, varSplit |-> TRUE, swap |-> FALSE,
         isoCache |-> TRUE, detect |-> TRUE, hwFiles |-> TRUE,
         hwRoles |-> TRUE, tplRoles |-> TRUE]

Legacy == {Base, [Base EXCEPT !.varSplit = FALSE, !.btrfs = FALSE, !.tplRoles = FALSE,
                              !.hwRoles = FALSE, !.isoCache = FALSE]}
Resolved == {[Base EXCEPT !.source = "resolved", !.targets = {d1, d2}, !.swap = TRUE,
                          !.firmware = fw] : fw \in {"uefi", "bios"}}
Raid == {[Base EXCEPT !.raid = r, !.raidDisks = {d1, d2}, !.detect = FALSE] :
           r \in {"btrfs0", "btrfsMirror"}}
Manual == {[Base EXCEPT !.source = "manual", !.detect = FALSE]}
LimineScenarios == Legacy \cup Resolved \cup Raid \cup Manual

GrubScenarios == {[Base EXCEPT !.loader = "grub", !.esp = "/boot/efi", !.detect = FALSE]}
GrubOnShippedLayout == {[Base EXCEPT !.loader = "grub", !.detect = FALSE, !.hwFiles = FALSE]}
HardwareRolesOnly == {[Base EXCEPT !.tplRoles = FALSE]}
StaleRaid == {[Base EXCEPT !.source = "manual", !.raid = "btrfsMirror",
                           !.raidDisks = {d1, d2}]}
MirroredRole == {[Base EXCEPT !.source = "resolved", !.targets = {d1, d2},
                              !.espDisks = {d1, d2}]}
AutoThenManual == {[Base EXCEPT !.auto = TRUE, !.varSplit = FALSE],
                   [Base EXCEPT !.source = "manual", !.varSplit = FALSE]}

GrubMirror == {[p EXCEPT !.raid = "btrfsMirror", !.raidDisks = {d1, d2}] : p \in GrubScenarios}
SwapOnLegacy == {[Base EXCEPT !.swap = TRUE]}

(* Requests the code refuses or cannot carry out, at each place where it    *)
(* notices: roles, sizes and RAID levels, mdadm, loader, firmware, kernels. *)
Hopeless == {[Base EXCEPT !.source = "none"],
             [Base EXCEPT !.loader = "grub", !.firmware = "bios", !.source = "manual"],
             [Base EXCEPT !.source = "resolved", !.assigned = FALSE],
             [Base EXCEPT !.source = "resolved", !.fits = FALSE, !.auto = TRUE],
             [Base EXCEPT !.fits = FALSE],
             [Base EXCEPT !.raid = "mdadm", !.raidDisks = {d1, d2}],
             [Base EXCEPT !.loader = "other"],
             [Base EXCEPT !.firmware = "bios", !.biosOk = FALSE],
             [Base EXCEPT !.loader = "grub", !.esp = "/boot/efi", !.oneKernel = FALSE]}
Apple == {[Base EXCEPT !.loader = "grub", !.esp = "/boot/efi", !.apple = TRUE, !.hwFiles = FALSE]}
AllPaths == LimineScenarios \cup AutoThenManual \cup GrubScenarios \cup GrubMirror
            \cup GrubOnShippedLayout \cup StaleRaid \cup Hopeless \cup Apple
            \cup {[p EXCEPT !.auto = TRUE] : p \in Legacy \cup Resolved}
=============================================================================
