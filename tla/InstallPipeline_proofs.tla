------------------------ MODULE InstallPipeline_proofs ------------------------
(***************************************************************************)
(* Proofs about InstallPipeline for every set of disks, every set of       *)
(* requests and every number of pipelines started by one process: what a   *)
(* pipeline can leave behind, when it may destroy a disk, and that it      *)
(* keeps the contract of its caller.                                       *)
(***************************************************************************)
EXTENDS InstallPipeline, TLAPS

(* A pipeline is running exactly when it has a next step.                   *)
Running ==
  /\ status = "running" <=> pc # "stopped"
  /\ status = "running" => runs >= 1

(* Each pipeline mounts the live cache at most once, and none of the other  *)
(* mount points is mounted over.                                            *)
BeforeCache == {"disk", "wipe", "format", "mounts", "presetup", "pacstrap", "fstab",
                "varbind", "pacmanconf"}
MountsBounded ==
  /\ \A m \in Mountpoints \ {"isocache"} : mounted[m] <= 1
  /\ mounted["isocache"] <= runs
  /\ pc \in BeforeCache => mounted["isocache"] < runs

(* What the target has gained by the time a step is reached.                *)
BeforeKernel == {"disk", "wipe", "format", "mounts", "presetup", "pacstrap", "stopped"}
AfterEntries == {"mirror", "snapshots", "unit", "wants", "script", "sentinel", "finish"}
Gained ==
  /\ pc \notin BeforeKernel => initramfs # "none"
  /\ pc \in AfterEntries => loaderState = "complete"

(* The files of first boot are written in the order their readers need.     *)
FirstbootOrder ==
  /\ SentinelImpliesService
  /\ pc \in {"wants", "script", "sentinel"} => "unit" \in artifacts
  /\ pc \in {"script", "sentinel"} => "wants" \in artifacts
  /\ pc = "sentinel" => "script" \in artifacts

IInv == TypeOK /\ Running /\ MountsBounded /\ Gained /\ FirstbootOrder

(* Disks visited, or still to be visited, were named by a request.          *)
DisksSafe ==
  /\ status = "running" => DisksNamed(params) \subseteq named
  /\ queue \subseteq named /\ erased \subseteq named

USE MaxRunsAssumption, ScenarioAssumption

(* The disks a request names are disks of the machine.                      *)
LEMMA RequestedDisks ==
  \A p \in Scenario : /\ DisksToErase(p) \subseteq Disk /\ p.raidDisks \subseteq Disk
                      /\ p.device \in Disk /\ LeadDisk(p) \in Disk
                      /\ DisksNamed(p) \subseteq Disk /\ LeadBoots(p) \subseteq Disk
BY DEF DisksToErase, DisksNamed, LeadBoots, LeadDisk, Params

(* The invariant holds before the first pipeline.                           *)
LEMMA InvInit == Init => IInv /\ DisksSafe
<1> SUFFICES ASSUME Init PROVE IInv /\ DisksSafe
  OBVIOUS
<1>1. mounted \in [Mountpoints -> 0..MaxRuns] /\ \A m \in Mountpoints : mounted[m] = 0
  BY DEF Init
<1>2. runs \in 0..MaxRuns /\ attempt \in 0..2
  BY DEF Init
<1>3. TypeOK
  BY <1>1, <1>2 DEF Init, TypeOK, Steps
<1>4. Running /\ Gained /\ FirstbootOrder
  BY DEF Init, Running, Gained, BeforeKernel, AfterEntries, FirstbootOrder,
         SentinelImpliesService
<1>5. MountsBounded
  BY <1>1 DEF Init, MountsBounded, BeforeCache, Mountpoints
<1> QED
  BY <1>3, <1>4, <1>5 DEF IInv, DisksSafe, Init

(* The type invariant by groups of variables that change together.          *)
ControlTypes ==
  /\ params \in Scenario /\ runs \in 0..MaxRuns /\ pc \in Steps
  /\ clear \in BOOLEAN /\ named \subseteq Disk
  /\ status \in {"idle", "running", "failed", "installed"}
  /\ faulted \in BOOLEAN /\ attempt \in 0..2
DiskTypes ==
  /\ queue \subseteq Disk /\ chosen \subseteq Disk /\ erased \subseteq Disk
  /\ held \subseteq Disk /\ espCurrent \subseteq Disk
MountTypes == mounted \in [Mountpoints -> 0..MaxRuns]
TargetTypes ==
  /\ fstab \subseteq FstabEntries /\ cacheFlag \in BOOLEAN /\ cacheDir \in BOOLEAN
  /\ initramfs \in {"none", "stale", "fresh"}
  /\ loaderState \in {"none", "binary", "complete"}
  /\ artifacts \subseteq FirstbootFiles

(* The control variables keep their domains.                                *)
LEMMA ControlTypesNext == IInv /\ [Next]_vars => ControlTypes'
<1> SUFFICES ASSUME IInv, [Next]_vars PROVE ControlTypes'
  OBVIOUS
<1> USE DEF IInv, TypeOK, ControlTypes, Steps, Goto, control, request
<1>1. CASE Start
  <2>1. params' \in Scenario
    BY <1>1 DEF Start
  <2>2. runs' \in 0..MaxRuns /\ attempt' \in 0..2
    BY <1>1 DEF Start
  <2>3. clear' \in BOOLEAN /\ named' \subseteq Disk
    BY <1>1, RequestedDisks DEF Start
  <2> QED
    BY <1>1, <2>1, <2>2, <2>3 DEF Start
<1>2. CASE UseManualMounts \/ ChooseDisks \/ NothingToInstallOn \/ WipeDevice
            \/ BusyDisk \/ RolesUnassigned \/ LayoutMisfits \/ FormatAndMountRoot \/ MountNext
  BY <1>2 DEF UseManualMounts, ChooseDisks, NothingToInstallOn, WipeDevice,
        BusyDisk, RolesUnassigned, LayoutMisfits, FormatAndMountRoot, MountNext, Raise, Abort
<1>3. CASE PacstrapRetries
  <2>1. attempt' \in 0..2
    BY <1>3 DEF PacstrapRetries
  <2> QED
    BY <1>3, <2>1 DEF PacstrapRetries
<1>4. CASE SwapUuidUnreadable
  BY <1>4 DEF SwapUuidUnreadable
<1>5. CASE PrePacstrapSetup \/ PacstrapInstalls \/ GenerateFstab \/ BindVar
            \/ BindVarTwice \/ InstallPacmanConf \/ ConfigureChroot \/ ConfigureAppleInput
            \/ DeployHardwareFiles \/ RunHardwareDetection \/ UnmountIsoCache
            \/ EnableServices \/ StageAnsible \/ AppendSwapFstabEntries
  BY <1>5 DEF PrePacstrapSetup, PacstrapInstalls, GenerateFstab, BindVar,
        BindVarTwice, InstallPacmanConf, ConfigureChroot, ConfigureAppleInput, DeployHardwareFiles,
        RunHardwareDetection, UnmountIsoCache, EnableServices, StageAnsible,
        AppendSwapFstabEntries, Raise, Abort
<1>6. CASE WriteBootConfig \/ LoaderRefused \/ InstallLoader
            \/ LoaderHasNoPlace \/ GenerateBootEntries \/ MirrorEsp
            \/ MirrorDone
  BY <1>6 DEF WriteBootConfig, LoaderRefused, InstallLoader, LoaderHasNoPlace,
        GenerateBootEntries, MirrorEsp, MirrorDone, Raise, Abort
<1>7. CASE SetupSnapshots \/ SkipFirstboot \/ WriteUnit \/ EnableUnit
            \/ EnableUnitTwice \/ WriteScript \/ TouchSentinel \/ Finish
  BY <1>7 DEF SetupSnapshots, SkipFirstboot, WriteUnit, EnableUnit,
        EnableUnitTwice, WriteScript, TouchSentinel, Finish, Raise, Abort,
        WriteFile
<1>8. CASE CommandFails \/ UNCHANGED vars
  BY <1>8 DEF CommandFails, vars, Abort
<1> QED
  BY <1>1, <1>2, <1>3, <1>4, <1>5, <1>6, <1>7, <1>8
  DEF Next, Step, PhaseDisk, PhaseSystem, PhaseBoot, PhaseLast

(* Only disks of the machine are visited.                                   *)
LEMMA DiskTypesNext == IInv /\ [Next]_vars => DiskTypes'
<1> SUFFICES ASSUME IInv, [Next]_vars PROVE DiskTypes'
  OBVIOUS
<1> USE DEF IInv, TypeOK, DiskTypes, Goto, control, request, effects, diskVars
<1>1. CASE Start
  BY <1>1, RequestedDisks DEF Start
<1>2. CASE UseManualMounts
  BY <1>2, RequestedDisks DEF UseManualMounts
<1>3. CASE ChooseDisks
  BY <1>3, RequestedDisks DEF ChooseDisks
<1>4. CASE FormatAndMountRoot
  BY <1>4, RequestedDisks DEF FormatAndMountRoot
<1>5. CASE MountNext
  BY <1>5, RequestedDisks DEF MountNext
<1>6. CASE NothingToInstallOn \/ WipeDevice \/ BusyDisk \/ RolesUnassigned \/ LayoutMisfits
  BY <1>6 DEF NothingToInstallOn, WipeDevice, BusyDisk, RolesUnassigned, LayoutMisfits, Raise, Abort
<1>7. CASE PrePacstrapSetup \/ PacstrapInstalls \/ PacstrapRetries
            \/ GenerateFstab \/ BindVar \/ BindVarTwice \/ InstallPacmanConf
            \/ ConfigureChroot \/ ConfigureAppleInput \/ DeployHardwareFiles \/ RunHardwareDetection
            \/ UnmountIsoCache \/ EnableServices \/ StageAnsible
            \/ AppendSwapFstabEntries \/ SwapUuidUnreadable
  BY <1>7 DEF PrePacstrapSetup, PacstrapInstalls, PacstrapRetries,
        GenerateFstab, BindVar, BindVarTwice, InstallPacmanConf,
        ConfigureChroot, ConfigureAppleInput, DeployHardwareFiles, RunHardwareDetection,
        UnmountIsoCache, EnableServices, StageAnsible, AppendSwapFstabEntries,
        SwapUuidUnreadable, Raise, Abort
<1>8. CASE GenerateBootEntries
  BY <1>8, RequestedDisks DEF GenerateBootEntries
<1>9. CASE WriteBootConfig \/ LoaderRefused \/ InstallLoader
            \/ LoaderHasNoPlace \/ MirrorEsp \/ MirrorDone
  BY <1>9 DEF WriteBootConfig, LoaderRefused, InstallLoader, LoaderHasNoPlace,
        MirrorEsp, MirrorDone, Raise, Abort
<1>10. CASE SetupSnapshots \/ SkipFirstboot \/ WriteUnit \/ EnableUnit
            \/ EnableUnitTwice \/ WriteScript \/ TouchSentinel \/ Finish
  BY <1>10 DEF SetupSnapshots, SkipFirstboot, WriteUnit, EnableUnit,
        EnableUnitTwice, WriteScript, TouchSentinel, Finish, Raise, Abort,
        WriteFile
<1>11. CASE CommandFails \/ UNCHANGED vars
  BY <1>11 DEF CommandFails, vars, Abort
<1> QED
  BY <1>1, <1>2, <1>3, <1>4, <1>5, <1>6, <1>7, <1>8, <1>9, <1>10, <1>11
  DEF Next, Step, PhaseDisk, PhaseSystem, PhaseBoot, PhaseLast

(* No mount point is mounted on more often than pipelines were started.     *)
LEMMA MountTypesNext == IInv /\ [Next]_vars => MountTypes'
<1> SUFFICES ASSUME IInv, [Next]_vars PROVE MountTypes'
  OBVIOUS
<1> USE DEF IInv, TypeOK, MountTypes, Mountpoints, effects, targetVars
<1>1. CASE UseManualMounts
  BY <1>1 DEF UseManualMounts
<1>2. CASE FormatAndMountRoot
  BY <1>2 DEF FormatAndMountRoot
<1>3. CASE MountNext
  <2>1. PICK m \in MountsOf(params) : ~IsMounted(m) /\ Mount(m)
    BY <1>3 DEF MountNext
  <2>2. m \in Mountpoints /\ mounted[m] = 0 /\ 1 \in 0..MaxRuns
    BY <2>1 DEF MountsOf, IsMounted
  <2> QED
    BY <2>1, <2>2 DEF Mount
<1>4. CASE ChooseDisks \/ NothingToInstallOn \/ WipeDevice \/ BusyDisk \/ RolesUnassigned \/ LayoutMisfits
  BY <1>4 DEF ChooseDisks, NothingToInstallOn, WipeDevice, BusyDisk, RolesUnassigned, LayoutMisfits, Raise,
        Abort
<1>5. CASE BindVar
  <2>1. 1 \in 0..MaxRuns /\ (mounted["pacmandb"] > 0 \/ mounted["pacmandb"] = 0)
    OBVIOUS
  <2> QED
    BY <1>5, <2>1 DEF BindVar, Mount, IsMounted
<1>6. CASE InstallPacmanConf
  <2>1. mounted["isocache"] < runs
    BY <1>6 DEF InstallPacmanConf, MountsBounded, BeforeCache
  <2>2. mounted["isocache"] + 1 \in 0..MaxRuns
    BY <2>1
  <2> QED
    BY <1>6, <2>2 DEF InstallPacmanConf, Mount
<1>7. CASE UnmountIsoCache
  <2>1. mounted["isocache"] > 0 => mounted["isocache"] - 1 \in 0..MaxRuns
    OBVIOUS
  <2> QED
    BY <1>7, <2>1 DEF UnmountIsoCache, IsMounted
<1>8. CASE PrePacstrapSetup \/ PacstrapInstalls \/ PacstrapRetries
            \/ GenerateFstab \/ BindVarTwice \/ ConfigureChroot \/ ConfigureAppleInput
            \/ DeployHardwareFiles \/ RunHardwareDetection \/ EnableServices
            \/ StageAnsible \/ AppendSwapFstabEntries \/ SwapUuidUnreadable
  BY <1>8 DEF PrePacstrapSetup, PacstrapInstalls, PacstrapRetries,
        GenerateFstab, BindVarTwice, ConfigureChroot, ConfigureAppleInput, DeployHardwareFiles,
        RunHardwareDetection, EnableServices, StageAnsible,
        AppendSwapFstabEntries, SwapUuidUnreadable, Raise, Abort
<1>9. CASE WriteBootConfig \/ LoaderRefused \/ InstallLoader
            \/ LoaderHasNoPlace \/ GenerateBootEntries \/ MirrorEsp
            \/ MirrorDone
  BY <1>9 DEF WriteBootConfig, LoaderRefused, InstallLoader, LoaderHasNoPlace,
        GenerateBootEntries, MirrorEsp, MirrorDone, Raise, Abort
<1>10. CASE SetupSnapshots \/ SkipFirstboot \/ WriteUnit \/ EnableUnit
            \/ EnableUnitTwice \/ WriteScript \/ TouchSentinel \/ Finish
  BY <1>10 DEF SetupSnapshots, SkipFirstboot, WriteUnit, EnableUnit,
        EnableUnitTwice, WriteScript, TouchSentinel, Finish, Raise, Abort,
        WriteFile
<1>11. CASE Start \/ CommandFails \/ UNCHANGED vars
  BY <1>11 DEF Start, CommandFails, vars, Abort
<1> QED
  BY <1>1, <1>2, <1>3, <1>4, <1>5, <1>6, <1>7, <1>8, <1>9, <1>10, <1>11
  DEF Next, Step, PhaseDisk, PhaseSystem, PhaseBoot, PhaseLast

(* What is found on the target keeps its domain.                            *)
LEMMA TargetTypesNext == IInv /\ [Next]_vars => TargetTypes'
<1> SUFFICES ASSUME IInv, [Next]_vars PROVE TargetTypes'
  OBVIOUS
<1> USE DEF IInv, TypeOK, TargetTypes, Mountpoints, FstabEntries,
            FirstbootFiles, Goto, effects, targetVars, bootVars
<1>1. CASE UseManualMounts \/ ChooseDisks \/ NothingToInstallOn \/ WipeDevice
            \/ BusyDisk \/ RolesUnassigned \/ LayoutMisfits \/ FormatAndMountRoot \/ MountNext
  BY <1>1 DEF UseManualMounts, ChooseDisks, NothingToInstallOn, WipeDevice,
        BusyDisk, RolesUnassigned, LayoutMisfits, FormatAndMountRoot, MountNext, Raise, Abort
<1>2. CASE StageAnsible
  BY <1>2 DEF StageAnsible
<1>3. CASE PrePacstrapSetup \/ PacstrapInstalls \/ PacstrapRetries
            \/ GenerateFstab \/ BindVar \/ BindVarTwice \/ InstallPacmanConf
            \/ ConfigureChroot \/ ConfigureAppleInput \/ DeployHardwareFiles \/ RunHardwareDetection
            \/ UnmountIsoCache \/ EnableServices \/ AppendSwapFstabEntries
            \/ SwapUuidUnreadable
  BY <1>3 DEF PrePacstrapSetup, PacstrapInstalls, PacstrapRetries,
        GenerateFstab, BindVar, BindVarTwice, InstallPacmanConf,
        ConfigureChroot, ConfigureAppleInput, DeployHardwareFiles, RunHardwareDetection,
        UnmountIsoCache, EnableServices, AppendSwapFstabEntries,
        SwapUuidUnreadable, Raise, Abort
<1>4. CASE GenerateBootEntries
  BY <1>4 DEF GenerateBootEntries
<1>5. CASE WriteBootConfig \/ LoaderRefused \/ InstallLoader
            \/ LoaderHasNoPlace \/ MirrorEsp \/ MirrorDone
  BY <1>5 DEF WriteBootConfig, LoaderRefused, InstallLoader, LoaderHasNoPlace,
        MirrorEsp, MirrorDone, Raise, Abort
<1>6. CASE SetupSnapshots \/ SkipFirstboot \/ WriteUnit \/ EnableUnit
            \/ EnableUnitTwice \/ WriteScript \/ TouchSentinel \/ Finish
  BY <1>6 DEF SetupSnapshots, SkipFirstboot, WriteUnit, EnableUnit,
        EnableUnitTwice, WriteScript, TouchSentinel, Finish, Raise, Abort,
        WriteFile
<1>7. CASE Start \/ CommandFails \/ UNCHANGED vars
  BY <1>7 DEF Start, CommandFails, vars, Abort
<1> QED
  BY <1>1, <1>2, <1>3, <1>4, <1>5, <1>6, <1>7
  DEF Next, Step, PhaseDisk, PhaseSystem, PhaseBoot, PhaseLast

(* Together: every step keeps every variable's type.                        *)
LEMMA TypeNext == IInv /\ [Next]_vars => TypeOK'
<1> SUFFICES ASSUME IInv, [Next]_vars PROVE TypeOK'
  OBVIOUS
<1>1. ControlTypes' /\ DiskTypes' /\ MountTypes' /\ TargetTypes'
  BY ControlTypesNext, DiskTypesNext, MountTypesNext, TargetTypesNext
<1> QED
  BY <1>1 DEF TypeOK, ControlTypes, DiskTypes, MountTypes, TargetTypes

(* A step that stops the pipeline says so.                                  *)
LEMMA RunningNext == IInv /\ [Next]_vars => Running'
<1> SUFFICES ASSUME IInv, [Next]_vars PROVE Running'
  OBVIOUS
<1> USE DEF IInv, TypeOK, Running, Steps, Goto, control, request, effects, diskVars,
            targetVars, bootVars
<1>1. CASE Start
  BY <1>1 DEF Start
<1>2. CASE UseManualMounts \/ ChooseDisks \/ NothingToInstallOn \/ WipeDevice
            \/ BusyDisk \/ RolesUnassigned \/ LayoutMisfits \/ FormatAndMountRoot \/ MountNext
  BY <1>2 DEF UseManualMounts, ChooseDisks, NothingToInstallOn, WipeDevice,
        BusyDisk, RolesUnassigned, LayoutMisfits, FormatAndMountRoot, MountNext, Raise, Abort
<1>3. CASE PrePacstrapSetup \/ PacstrapInstalls \/ PacstrapRetries
            \/ GenerateFstab \/ BindVar \/ BindVarTwice \/ InstallPacmanConf
            \/ ConfigureChroot \/ ConfigureAppleInput \/ DeployHardwareFiles \/ RunHardwareDetection
            \/ UnmountIsoCache \/ EnableServices \/ StageAnsible
            \/ AppendSwapFstabEntries \/ SwapUuidUnreadable
  BY <1>3 DEF PrePacstrapSetup, PacstrapInstalls, PacstrapRetries,
        GenerateFstab, BindVar, BindVarTwice, InstallPacmanConf,
        ConfigureChroot, ConfigureAppleInput, DeployHardwareFiles, RunHardwareDetection,
        UnmountIsoCache, EnableServices, StageAnsible, AppendSwapFstabEntries,
        SwapUuidUnreadable, Raise, Abort
<1>4. CASE WriteBootConfig \/ LoaderRefused \/ InstallLoader
            \/ LoaderHasNoPlace \/ GenerateBootEntries \/ MirrorEsp
            \/ MirrorDone
  BY <1>4 DEF WriteBootConfig, LoaderRefused, InstallLoader, LoaderHasNoPlace,
        GenerateBootEntries, MirrorEsp, MirrorDone, Raise, Abort
<1>5. CASE SetupSnapshots \/ SkipFirstboot \/ WriteUnit \/ EnableUnit
            \/ EnableUnitTwice \/ WriteScript \/ TouchSentinel \/ Finish
  BY <1>5 DEF SetupSnapshots, SkipFirstboot, WriteUnit, EnableUnit,
        EnableUnitTwice, WriteScript, TouchSentinel, Finish, Raise, Abort,
        WriteFile
<1>6. CASE CommandFails \/ UNCHANGED vars
  BY <1>6 DEF CommandFails, vars, Abort
<1> QED
  BY <1>1, <1>2, <1>3, <1>4, <1>5, <1>6
  DEF Next, Step, PhaseDisk, PhaseSystem, PhaseBoot, PhaseLast

(* Only an empty mount point is mounted on, the live cache's excepted.     *)
LEMMA MountsNext == IInv /\ [Next]_vars => MountsBounded'
<1> SUFFICES ASSUME IInv, [Next]_vars PROVE MountsBounded'
  OBVIOUS
<1> USE DEF IInv, TypeOK, Running, MountsBounded, BeforeCache, Mountpoints,
            Mount, IsMounted, Goto, control, request, effects, diskVars, targetVars,
            bootVars
<1>1. CASE Start
  BY <1>1 DEF Start
<1>2. CASE UseManualMounts
  <2>1. mounted' = mounted \/ mounted' = [m \in Mountpoints |->
                                            IF m \in MountsOf(params) THEN 1 ELSE mounted[m]]
    BY <1>2 DEF UseManualMounts
  <2>2. "isocache" \in Mountpoints \ MountsOf(params)
    BY DEF MountsOf
  <2>3. \A m \in Mountpoints : mounted'[m] = mounted[m] \/ (m # "isocache" /\ mounted'[m] = 1)
    BY <2>1, <2>2
  <2> QED
    BY <1>2, <2>2, <2>3 DEF UseManualMounts
<1>3. CASE FormatAndMountRoot
  BY <1>3 DEF FormatAndMountRoot
<1>4. CASE MountNext
  <2>1. PICK m \in MountsOf(params) : ~IsMounted(m) /\ Mount(m)
    BY <1>4 DEF MountNext
  <2>2. m \in Mountpoints \ {"isocache"} /\ mounted[m] = 0
    BY <2>1 DEF MountsOf, IsMounted
  <2>3. mounted' = [mounted EXCEPT ![m] = 1]
    BY <2>1, <2>2 DEF Mount
  <2> QED
    BY <1>4, <2>2, <2>3 DEF MountNext
<1>5. CASE ChooseDisks \/ NothingToInstallOn \/ WipeDevice \/ BusyDisk \/ RolesUnassigned \/ LayoutMisfits
  BY <1>5 DEF ChooseDisks, NothingToInstallOn, WipeDevice, BusyDisk, RolesUnassigned, LayoutMisfits, Raise,
        Abort
<1>6. CASE BindVar
  BY <1>6 DEF BindVar
<1>7. CASE InstallPacmanConf
  BY <1>7 DEF InstallPacmanConf
<1>8. CASE UnmountIsoCache
  BY <1>8 DEF UnmountIsoCache
<1>9. CASE PrePacstrapSetup \/ PacstrapInstalls \/ PacstrapRetries
            \/ GenerateFstab \/ BindVarTwice \/ ConfigureChroot \/ ConfigureAppleInput
            \/ DeployHardwareFiles \/ RunHardwareDetection \/ EnableServices
            \/ StageAnsible \/ AppendSwapFstabEntries \/ SwapUuidUnreadable
  BY <1>9 DEF PrePacstrapSetup, PacstrapInstalls, PacstrapRetries,
        GenerateFstab, BindVarTwice, ConfigureChroot, ConfigureAppleInput, DeployHardwareFiles,
        RunHardwareDetection, EnableServices, StageAnsible,
        AppendSwapFstabEntries, SwapUuidUnreadable, Raise, Abort
<1>10. CASE WriteBootConfig \/ LoaderRefused \/ InstallLoader
            \/ LoaderHasNoPlace \/ GenerateBootEntries \/ MirrorEsp
            \/ MirrorDone
  BY <1>10 DEF WriteBootConfig, LoaderRefused, InstallLoader,
        LoaderHasNoPlace, GenerateBootEntries, MirrorEsp, MirrorDone, Raise,
        Abort
<1>11. CASE SetupSnapshots \/ SkipFirstboot \/ WriteUnit \/ EnableUnit
            \/ EnableUnitTwice \/ WriteScript \/ TouchSentinel \/ Finish
  BY <1>11 DEF SetupSnapshots, SkipFirstboot, WriteUnit, EnableUnit,
        EnableUnitTwice, WriteScript, TouchSentinel, Finish, Raise, Abort,
        WriteFile
<1>12. CASE CommandFails \/ UNCHANGED vars
  BY <1>12 DEF CommandFails, vars, Abort
<1> QED
  BY <1>1, <1>2, <1>3, <1>4, <1>5, <1>6, <1>7, <1>8, <1>9, <1>10, <1>11, <1>12
  DEF Next, Step, PhaseDisk, PhaseSystem, PhaseBoot, PhaseLast

(* No step undoes what a later one counts on.                               *)
LEMMA GainedNext == IInv /\ [Next]_vars => Gained'
<1> SUFFICES ASSUME IInv, [Next]_vars PROVE Gained'
  OBVIOUS
<1> USE DEF IInv, TypeOK, Gained, BeforeKernel, AfterEntries, Goto, control, request,
            effects, diskVars, targetVars, bootVars
<1>1. CASE UseManualMounts \/ ChooseDisks \/ NothingToInstallOn \/ WipeDevice
            \/ BusyDisk \/ RolesUnassigned \/ LayoutMisfits \/ FormatAndMountRoot \/ MountNext
  BY <1>1 DEF UseManualMounts, ChooseDisks, NothingToInstallOn, WipeDevice,
        BusyDisk, RolesUnassigned, LayoutMisfits, FormatAndMountRoot, MountNext, Raise, Abort
<1>2. CASE PrePacstrapSetup \/ PacstrapInstalls \/ PacstrapRetries
            \/ GenerateFstab \/ BindVar \/ BindVarTwice \/ InstallPacmanConf
            \/ ConfigureChroot \/ ConfigureAppleInput \/ DeployHardwareFiles \/ RunHardwareDetection
            \/ UnmountIsoCache \/ EnableServices \/ StageAnsible
            \/ AppendSwapFstabEntries \/ SwapUuidUnreadable
  BY <1>2 DEF PrePacstrapSetup, PacstrapInstalls, PacstrapRetries,
        GenerateFstab, BindVar, BindVarTwice, InstallPacmanConf,
        ConfigureChroot, ConfigureAppleInput, DeployHardwareFiles, RunHardwareDetection,
        UnmountIsoCache, EnableServices, StageAnsible, AppendSwapFstabEntries,
        SwapUuidUnreadable, Raise, Abort
<1>3. CASE WriteBootConfig \/ LoaderRefused \/ InstallLoader
            \/ LoaderHasNoPlace \/ GenerateBootEntries \/ MirrorEsp
            \/ MirrorDone
  BY <1>3 DEF WriteBootConfig, LoaderRefused, InstallLoader, LoaderHasNoPlace,
        GenerateBootEntries, MirrorEsp, MirrorDone, Raise, Abort
<1>4. CASE SetupSnapshots \/ SkipFirstboot \/ WriteUnit \/ EnableUnit
            \/ EnableUnitTwice \/ WriteScript \/ TouchSentinel \/ Finish
  BY <1>4 DEF SetupSnapshots, SkipFirstboot, WriteUnit, EnableUnit,
        EnableUnitTwice, WriteScript, TouchSentinel, Finish, Raise, Abort,
        WriteFile
<1>5. CASE Start \/ CommandFails \/ UNCHANGED vars
  BY <1>5 DEF Start, CommandFails, vars, Abort
<1> QED
  BY <1>1, <1>2, <1>3, <1>4, <1>5
  DEF Next, Step, PhaseDisk, PhaseSystem, PhaseBoot, PhaseLast

(* Each file of first boot is written after those it needs.                 *)
LEMMA FirstbootNext == IInv /\ [Next]_vars => FirstbootOrder'
<1> SUFFICES ASSUME IInv, [Next]_vars PROVE FirstbootOrder'
  OBVIOUS
<1> USE DEF IInv, TypeOK, FirstbootOrder, SentinelImpliesService,
            FirstbootFiles, Goto, control, request, effects, diskVars, targetVars,
            bootVars
<1>1. CASE FormatAndMountRoot
  BY <1>1 DEF FormatAndMountRoot
<1>2. CASE UseManualMounts \/ ChooseDisks \/ NothingToInstallOn \/ WipeDevice
            \/ BusyDisk \/ RolesUnassigned \/ LayoutMisfits \/ MountNext
  BY <1>2 DEF UseManualMounts, ChooseDisks, NothingToInstallOn, WipeDevice,
        BusyDisk, RolesUnassigned, LayoutMisfits, MountNext, Raise, Abort
<1>3. CASE StageAnsible
  BY <1>3 DEF StageAnsible
<1>4. CASE PrePacstrapSetup \/ PacstrapInstalls \/ PacstrapRetries
            \/ GenerateFstab \/ BindVar \/ BindVarTwice \/ InstallPacmanConf
            \/ ConfigureChroot \/ ConfigureAppleInput \/ DeployHardwareFiles \/ RunHardwareDetection
            \/ UnmountIsoCache \/ EnableServices \/ AppendSwapFstabEntries
            \/ SwapUuidUnreadable
  BY <1>4 DEF PrePacstrapSetup, PacstrapInstalls, PacstrapRetries,
        GenerateFstab, BindVar, BindVarTwice, InstallPacmanConf,
        ConfigureChroot, ConfigureAppleInput, DeployHardwareFiles, RunHardwareDetection,
        UnmountIsoCache, EnableServices, AppendSwapFstabEntries,
        SwapUuidUnreadable, Raise, Abort
<1>5. CASE WriteBootConfig \/ LoaderRefused \/ InstallLoader
            \/ LoaderHasNoPlace \/ GenerateBootEntries \/ MirrorEsp
            \/ MirrorDone
  BY <1>5 DEF WriteBootConfig, LoaderRefused, InstallLoader, LoaderHasNoPlace,
        GenerateBootEntries, MirrorEsp, MirrorDone, Raise, Abort
<1>6. CASE WriteUnit
  BY <1>6 DEF WriteUnit, WriteFile
<1>7. CASE EnableUnit
  BY <1>7 DEF EnableUnit, WriteFile
<1>8. CASE WriteScript
  BY <1>8 DEF WriteScript, WriteFile
<1>9. CASE TouchSentinel
  BY <1>9 DEF TouchSentinel, WriteFile
<1>10. CASE SetupSnapshots \/ SkipFirstboot \/ EnableUnitTwice \/ Finish
  BY <1>10 DEF SetupSnapshots, SkipFirstboot, EnableUnitTwice, Finish, Raise,
        Abort
<1>11. CASE Start \/ CommandFails \/ UNCHANGED vars
  BY <1>11 DEF Start, CommandFails, vars, Abort
<1> QED
  BY <1>1, <1>2, <1>3, <1>4, <1>5, <1>6, <1>7, <1>8, <1>9, <1>10, <1>11
  DEF Next, Step, PhaseDisk, PhaseSystem, PhaseBoot, PhaseLast

(* The invariant is inductive, and so holds in every reachable state.       *)
LEMMA InvNext == IInv /\ [Next]_vars => IInv'
BY TypeNext, RunningNext, MountsNext, GainedNext, FirstbootNext DEF IInv

(* Its consequence for behaviours.                                          *)
LEMMA Invariant == Spec => []IInv
<1>1. Init => IInv
  BY InvInit
<1> QED
  BY <1>1, InvNext, PTL DEF Spec

(* Every variable keeps its type: in particular no mount point is mounted   *)
(* on more often than pipelines were started.                               *)
THEOREM TypeCorrect == Spec => []TypeOK
<1>1. IInv => TypeOK
  BY DEF IInv
<1> QED
  BY <1>1, Invariant, PTL

(* At every moment, the sentinel that makes the next boot run the first-    *)
(* boot script is on the target only with the unit, its link and the script.*)
THEOREM SentinelSafe == Spec => []SentinelImpliesService
<1>1. IInv => SentinelImpliesService
  BY DEF IInv, FirstbootOrder
<1> QED
  BY <1>1, Invariant, PTL

(* Neither the wipe loop nor the mirror loop is given a disk that no request *)
(* named.                                                                   *)
LEMMA DisksSafeNext == IInv /\ DisksSafe /\ [Next]_vars => DisksSafe'
<1> SUFFICES ASSUME IInv, DisksSafe, [Next]_vars PROVE DisksSafe'
  OBVIOUS
<1> USE DEF DisksSafe, IInv, Running, Goto, control, request, effects, diskVars
<1>1. CASE Start
  BY <1>1 DEF Start
<1>2. CASE ChooseDisks
  BY <1>2 DEF ChooseDisks, DisksNamed
<1>3. CASE UseManualMounts \/ NothingToInstallOn \/ WipeDevice \/ BusyDisk \/ RolesUnassigned \/ LayoutMisfits
            \/ FormatAndMountRoot \/ MountNext
  BY <1>3 DEF UseManualMounts, NothingToInstallOn, WipeDevice, BusyDisk, RolesUnassigned, LayoutMisfits,
        FormatAndMountRoot, MountNext, Raise, Abort
<1>4. CASE PrePacstrapSetup \/ PacstrapInstalls \/ PacstrapRetries
            \/ GenerateFstab \/ BindVar \/ BindVarTwice \/ InstallPacmanConf
            \/ ConfigureChroot \/ ConfigureAppleInput \/ DeployHardwareFiles \/ RunHardwareDetection
            \/ UnmountIsoCache \/ EnableServices \/ StageAnsible
            \/ AppendSwapFstabEntries \/ SwapUuidUnreadable
  BY <1>4 DEF PrePacstrapSetup, PacstrapInstalls, PacstrapRetries,
        GenerateFstab, BindVar, BindVarTwice, InstallPacmanConf,
        ConfigureChroot, ConfigureAppleInput, DeployHardwareFiles, RunHardwareDetection,
        UnmountIsoCache, EnableServices, StageAnsible, AppendSwapFstabEntries,
        SwapUuidUnreadable, Raise, Abort
<1>5. CASE GenerateBootEntries
  BY <1>5 DEF GenerateBootEntries, DisksNamed
<1>6. CASE WriteBootConfig \/ LoaderRefused \/ InstallLoader
            \/ LoaderHasNoPlace \/ MirrorEsp \/ MirrorDone
  BY <1>6 DEF WriteBootConfig, LoaderRefused, InstallLoader, LoaderHasNoPlace,
        MirrorEsp, MirrorDone, Raise, Abort
<1>7. CASE SetupSnapshots \/ SkipFirstboot \/ WriteUnit \/ EnableUnit
            \/ EnableUnitTwice \/ WriteScript \/ TouchSentinel \/ Finish
  BY <1>7 DEF SetupSnapshots, SkipFirstboot, WriteUnit, EnableUnit,
        EnableUnitTwice, WriteScript, TouchSentinel, Finish, Raise, Abort,
        WriteFile
<1>8. CASE CommandFails \/ UNCHANGED vars
  BY <1>8 DEF CommandFails, vars, Abort
<1> QED
  BY <1>1, <1>2, <1>3, <1>4, <1>5, <1>6, <1>7, <1>8
  DEF Next, Step, PhaseDisk, PhaseSystem, PhaseBoot, PhaseLast

(* The initial states and the steps of the pipeline are those its caller    *)
(* counts on: it destroys granted disks only, and returns only over a       *)
(* target with an initramfs, a loader and boot entries.                     *)
LEMMA ContractStart == Init => Contract!ContractInit
BY DEF Init, Contract!ContractInit

(* Each step maps to the step of the contract it stands for, or to none.    *)
LEMMA ContractStep ==
  ASSUME IInv, DisksSafe, [Next]_vars
  PROVE  [Contract!ContractNext]_(Contract!contractVars)
<1> DEFINE bootable == loaderState = "complete" /\ initramfs # "none"
<1> USE DEF Contract!ContractNext, Contract!contractVars, IInv, Running, Goto, control, request,
            effects, diskVars, targetVars, bootVars
<1>1. CASE Start
  <2>1. \E S \in SUBSET Disk : named' = named \cup S
    BY <1>1, RequestedDisks DEF Start
  <2>2. Contract!Request
    BY <1>1, <2>1 DEF Start, Contract!Request
  <2> QED
    BY <2>2
<1>2. CASE WipeDevice \/ MirrorEsp
  <2>1. PICK d \in queue : erased' = erased \cup {d}
    BY <1>2 DEF WipeDevice, MirrorEsp
  <2>2. Contract!Destroy
    BY <1>2, <2>1 DEF WipeDevice, MirrorEsp, DisksSafe, Contract!Destroy
  <2> QED
    BY <2>2
<1>3. CASE FormatAndMountRoot \/ PacstrapInstalls \/ ConfigureAppleInput \/ DeployHardwareFiles
            \/ RunHardwareDetection \/ InstallLoader \/ GenerateBootEntries
  BY <1>3 DEF FormatAndMountRoot, PacstrapInstalls, ConfigureAppleInput, DeployHardwareFiles,
        RunHardwareDetection, InstallLoader, GenerateBootEntries,
        Contract!Build
<1>4. CASE NothingToInstallOn \/ BusyDisk \/ RolesUnassigned \/ LayoutMisfits \/ BindVarTwice \/ LoaderRefused
            \/ LoaderHasNoPlace \/ EnableUnitTwice \/ CommandFails
  BY <1>4 DEF NothingToInstallOn, BusyDisk, RolesUnassigned, LayoutMisfits, BindVarTwice, LoaderRefused,
        LoaderHasNoPlace, EnableUnitTwice, CommandFails, Raise, Abort,
        Contract!RaiseError
<1>5. CASE Finish
  <2>1. bootable
    BY <1>5 DEF Finish, Gained, BeforeKernel, AfterEntries
  <2>2. Contract!Return
    BY <1>5, <2>1 DEF Finish, Contract!Return
  <2> QED
    BY <2>2
<1>6. CASE UseManualMounts \/ ChooseDisks \/ MountNext
  BY <1>6 DEF UseManualMounts, ChooseDisks, MountNext
<1>7. CASE PrePacstrapSetup \/ PacstrapRetries \/ GenerateFstab \/ BindVar
            \/ InstallPacmanConf \/ ConfigureChroot \/ UnmountIsoCache
            \/ EnableServices \/ StageAnsible \/ AppendSwapFstabEntries
            \/ SwapUuidUnreadable
  BY <1>7 DEF PrePacstrapSetup, PacstrapRetries, GenerateFstab, BindVar,
        InstallPacmanConf, ConfigureChroot, UnmountIsoCache, EnableServices,
        StageAnsible, AppendSwapFstabEntries, SwapUuidUnreadable
<1>8. CASE WriteBootConfig \/ MirrorDone
  BY <1>8 DEF WriteBootConfig, MirrorDone
<1>9. CASE SetupSnapshots \/ SkipFirstboot \/ WriteUnit \/ EnableUnit
            \/ WriteScript \/ TouchSentinel \/ UNCHANGED vars
  BY <1>9 DEF SetupSnapshots, SkipFirstboot, WriteUnit, EnableUnit,
        WriteScript, TouchSentinel, vars, WriteFile
<1> QED
  BY <1>1, <1>2, <1>3, <1>4, <1>5, <1>6, <1>7, <1>8, <1>9
  DEF Next, Step, PhaseDisk, PhaseSystem, PhaseBoot, PhaseLast

(* Whatever it is asked for, the pipeline implements the contract of        *)
(* run_install_pipeline: it destroys nothing on a disk that none of its     *)
(* requests names (a raid_config it should ignore names disks too), and     *)
(* returns only over a target with an initramfs, a loader and entries.      *)
THEOREM KeepsContract == Spec => ImplementsContract
<1>1. Init => IInv /\ DisksSafe
  BY InvInit
<1>2. IInv /\ DisksSafe /\ [Next]_vars => DisksSafe'
  BY DisksSafeNext
<1>3. IInv /\ DisksSafe /\ [Next]_vars => [Contract!ContractNext]_(Contract!contractVars)
  BY ContractStep
<1> QED
  BY <1>1, <1>2, <1>3, InvNext, ContractStart, PTL
  DEF Spec, ImplementsContract, Contract!ContractSpec

-----------------------------------------------------------------------------
(* What an installed system is given, for the requests that the code serves *)
(* completely.                                                              *)

(* The live cache: named by pacman.conf only while it is believed mounted.  *)
BeforeUnmount == {"chroot", "appleinput", "hwfiles", "detect", "unmountcache"}
AfterUnmount == {"services", "ansible", "swap", "bootconfig", "loader", "entries"} \cup AfterEntries
CacheKept ==
  /\ pc \in BeforeUnmount => (cacheDir => cacheFlag)
  /\ pc \in AfterUnmount => ~cacheDir /\ ~cacheFlag
  /\ CacheReleased

(* No later step of the pipeline brings the cache back.                     *)
LEMMA CacheNext == IInv /\ CacheKept /\ [Next]_vars => CacheKept'
<1> SUFFICES ASSUME IInv, CacheKept, [Next]_vars PROVE CacheKept'
  OBVIOUS
<1> USE DEF IInv, TypeOK, Running, CacheKept, CacheReleased, BeforeUnmount, AfterUnmount,
            AfterEntries, Goto, control, request, effects, diskVars, targetVars, bootVars
<1>1. CASE UseManualMounts \/ ChooseDisks \/ NothingToInstallOn \/ WipeDevice
            \/ BusyDisk \/ RolesUnassigned \/ LayoutMisfits \/ FormatAndMountRoot \/ MountNext
  BY <1>1 DEF UseManualMounts, ChooseDisks, NothingToInstallOn, WipeDevice
        , BusyDisk, RolesUnassigned, LayoutMisfits, FormatAndMountRoot, MountNext, Raise, Abort
<1>2. CASE InstallPacmanConf
  BY <1>2 DEF InstallPacmanConf
<1>3. CASE UnmountIsoCache
  BY <1>3 DEF UnmountIsoCache
<1>4. CASE PrePacstrapSetup \/ PacstrapInstalls \/ PacstrapRetries
            \/ GenerateFstab \/ BindVar \/ BindVarTwice \/ ConfigureChroot \/ ConfigureAppleInput
            \/ DeployHardwareFiles \/ RunHardwareDetection \/ EnableServices
            \/ StageAnsible \/ AppendSwapFstabEntries \/ SwapUuidUnreadable
  BY <1>4 DEF PrePacstrapSetup, PacstrapInstalls, PacstrapRetries
        , GenerateFstab, BindVar, BindVarTwice, ConfigureChroot, ConfigureAppleInput
        , DeployHardwareFiles, RunHardwareDetection, EnableServices
        , StageAnsible, AppendSwapFstabEntries, SwapUuidUnreadable, Raise
        , Abort
<1>5. CASE WriteBootConfig \/ LoaderRefused \/ InstallLoader
            \/ LoaderHasNoPlace \/ GenerateBootEntries \/ MirrorEsp
            \/ MirrorDone
  BY <1>5 DEF WriteBootConfig, LoaderRefused, InstallLoader, LoaderHasNoPlace
        , GenerateBootEntries, MirrorEsp, MirrorDone, Raise, Abort
<1>6. CASE SetupSnapshots \/ SkipFirstboot \/ WriteUnit \/ EnableUnit
            \/ EnableUnitTwice \/ WriteScript \/ TouchSentinel \/ Finish
  BY <1>6 DEF SetupSnapshots, SkipFirstboot, WriteUnit, EnableUnit
        , EnableUnitTwice, WriteScript, TouchSentinel, Finish, Raise, Abort
        , WriteFile
<1>7. CASE CommandFails \/ UNCHANGED vars
  BY <1>7 DEF CommandFails, vars, Abort
<1>8. CASE Start
  BY <1>8 DEF Start
<1> QED
  BY <1>1, <1>2, <1>3, <1>4, <1>5, <1>6, <1>7, <1>8
  DEF Next, Step, PhaseDisk, PhaseSystem, PhaseBoot, PhaseLast

(* However many pipelines the process ran, and whichever umount was refused, *)
(* an installed system does not refer to the live cache.                    *)
THEOREM CacheIsReleased == Spec => []CacheReleased
<1>1. Init => CacheKept
  BY DEF Init, CacheKept, CacheReleased, BeforeUnmount, AfterUnmount, AfterEntries
<1>2. CacheKept => CacheReleased
  BY DEF CacheKept
<1> QED
  BY <1>1, <1>2, CacheNext, Invariant, PTL DEF Spec

AfterKernel == {"fstab", "varbind", "pacmanconf"} \cup BeforeUnmount \cup AfterUnmount
Rebuilt ==
  EntriesRebuild =>
    /\ pc \in AfterKernel =>
         initramfs = "fresh" \/ (initramfs = "stale" /\ (params.hwFiles \/ params.apple))
    /\ pc \in AfterEntries => initramfs = "fresh"
    /\ InitramfsCurrent

(* What the modprobe files make stale the boot entries rebuild.             *)
LEMMA RebuiltNext == IInv /\ Rebuilt /\ [Next]_vars => Rebuilt'
<1> SUFFICES ASSUME IInv, Rebuilt, [Next]_vars PROVE Rebuilt'
  OBVIOUS
<1> USE DEF IInv, TypeOK, Running, Rebuilt, EntriesRebuild, InitramfsCurrent, AfterKernel,
            BeforeUnmount, AfterUnmount, AfterEntries, Goto, control, request, effects, diskVars, targetVars, bootVars
<1>1. CASE UseManualMounts \/ ChooseDisks \/ NothingToInstallOn \/ WipeDevice
            \/ BusyDisk \/ RolesUnassigned \/ LayoutMisfits \/ FormatAndMountRoot \/ MountNext
  BY <1>1 DEF UseManualMounts, ChooseDisks, NothingToInstallOn, WipeDevice
        , BusyDisk, RolesUnassigned, LayoutMisfits, FormatAndMountRoot, MountNext, Raise, Abort
<1>2. CASE PrePacstrapSetup \/ PacstrapInstalls \/ PacstrapRetries
            \/ GenerateFstab \/ BindVar \/ BindVarTwice \/ InstallPacmanConf
            \/ ConfigureChroot \/ ConfigureAppleInput \/ DeployHardwareFiles \/ RunHardwareDetection
            \/ UnmountIsoCache \/ EnableServices \/ StageAnsible
            \/ AppendSwapFstabEntries \/ SwapUuidUnreadable
  BY <1>2 DEF PrePacstrapSetup, PacstrapInstalls, PacstrapRetries
        , GenerateFstab, BindVar, BindVarTwice, InstallPacmanConf
        , ConfigureChroot, ConfigureAppleInput, DeployHardwareFiles, RunHardwareDetection
        , UnmountIsoCache, EnableServices, StageAnsible
        , AppendSwapFstabEntries, SwapUuidUnreadable, Raise, Abort
<1>3. CASE GenerateBootEntries
  BY <1>3 DEF GenerateBootEntries
<1>4. CASE WriteBootConfig \/ LoaderRefused \/ InstallLoader
            \/ LoaderHasNoPlace \/ MirrorEsp \/ MirrorDone
  BY <1>4 DEF WriteBootConfig, LoaderRefused, InstallLoader, LoaderHasNoPlace
        , MirrorEsp, MirrorDone, Raise, Abort
<1>5. CASE SetupSnapshots \/ SkipFirstboot \/ WriteUnit \/ EnableUnit
            \/ EnableUnitTwice \/ WriteScript \/ TouchSentinel \/ Finish
  BY <1>5 DEF SetupSnapshots, SkipFirstboot, WriteUnit, EnableUnit
        , EnableUnitTwice, WriteScript, TouchSentinel, Finish, Raise, Abort
        , WriteFile
<1>6. CASE Start \/ CommandFails \/ UNCHANGED vars
  BY <1>6 DEF Start, CommandFails, vars, Abort
<1> QED
  BY <1>1, <1>2, <1>3, <1>4, <1>5, <1>6
  DEF Next, Step, PhaseDisk, PhaseSystem, PhaseBoot, PhaseLast

(* No initramfs older than the modprobe files is left behind by a loader    *)
(* phase that builds one, whatever earlier pipelines were asked for.        *)
THEOREM InitramfsIsCurrent == Spec => []InitramfsCurrent
<1>1. Init => Rebuilt
  BY DEF Init, Rebuilt, InitramfsCurrent, AfterKernel, BeforeUnmount, AfterUnmount, AfterEntries
<1>2. Rebuilt => InitramfsCurrent
  BY DEF Rebuilt, InitramfsCurrent
<1>3. IInv /\ Rebuilt /\ [Next]_vars => Rebuilt'
  BY RebuiltNext
<1> QED
  BY <1>1, <1>2, <1>3, Invariant, PTL DEF Spec

Mirrored ==
  /\ pc = "mirror" /\ params.raid # "btrfsMirror" => queue = {}
  /\ EspsMirrored =>
       /\ pc = "mirror" /\ params.raid # "btrfs0" => EspDisks(params) \subseteq espCurrent \cup queue
       /\ pc \in AfterEntries \ {"mirror"} /\ params.raid # "btrfs0" =>
            EspDisks(params) \subseteq espCurrent
       /\ EveryMirrorBoots

(* The mirror's queue holds every member the lead disk does not stand for.  *)
LEMMA MirroredNext == IInv /\ Mirrored /\ [Next]_vars => Mirrored'
<1> SUFFICES ASSUME IInv, Mirrored, [Next]_vars PROVE Mirrored'
  OBVIOUS
<1> USE DEF IInv, TypeOK, Running, Mirrored, EspsMirrored, EveryMirrorBoots, AfterEntries,
            Goto, control, request, effects, diskVars, targetVars, bootVars
<1>1. CASE UseManualMounts \/ ChooseDisks \/ NothingToInstallOn \/ WipeDevice
            \/ BusyDisk \/ RolesUnassigned \/ LayoutMisfits \/ FormatAndMountRoot \/ MountNext
  BY <1>1 DEF UseManualMounts, ChooseDisks, NothingToInstallOn, WipeDevice
        , BusyDisk, RolesUnassigned, LayoutMisfits, FormatAndMountRoot, MountNext, Raise, Abort
<1>2. CASE PrePacstrapSetup \/ PacstrapInstalls \/ PacstrapRetries
            \/ GenerateFstab \/ BindVar \/ BindVarTwice \/ InstallPacmanConf
            \/ ConfigureChroot \/ ConfigureAppleInput \/ DeployHardwareFiles \/ RunHardwareDetection
            \/ UnmountIsoCache \/ EnableServices \/ StageAnsible
            \/ AppendSwapFstabEntries \/ SwapUuidUnreadable
  BY <1>2 DEF PrePacstrapSetup, PacstrapInstalls, PacstrapRetries
        , GenerateFstab, BindVar, BindVarTwice, InstallPacmanConf
        , ConfigureChroot, ConfigureAppleInput, DeployHardwareFiles, RunHardwareDetection
        , UnmountIsoCache, EnableServices, StageAnsible
        , AppendSwapFstabEntries, SwapUuidUnreadable, Raise, Abort
<1>3. CASE GenerateBootEntries
  <2>1. EspsMirrored /\ params.raid # "btrfs0" =>
          EspDisks(params) \subseteq {LeadDisk(params)} \cup
            (IF params.raid = "btrfsMirror" THEN params.raidDisks \ {params.raidLead} ELSE {})
    <3>1. params \in Scenario /\ params \in Params
      OBVIOUS
    <3>2. params.raid \in RaidKinds /\ params.source \in Sources
      BY <3>1 DEF Params
    <3> QED BY <3>1, <3>2 DEF EspsMirrored, EspDisks, DisksToErase, LeadDisk, RaidKinds, Sources
  <2>2. EspsMirrored => LeadBoots(params) = {LeadDisk(params)}
    BY DEF LeadBoots, EspsMirrored
  <2> QED BY <1>3, <2>1, <2>2 DEF GenerateBootEntries
<1>4. CASE MirrorEsp
  <2>1. PICK d \in queue :
          /\ queue' = queue \ {d}
          /\ EspsMirrored /\ params.raid = "btrfsMirror" => espCurrent' = espCurrent \cup {d}
    BY <1>4 DEF MirrorEsp
  <2>2. pc = "mirror" /\ params.raid = "btrfsMirror" /\ pc' = "mirror" /\ params' = params
    BY <1>4 DEF MirrorEsp
  <2>3. status = "running" /\ status' = "running"
    BY <1>4 DEF MirrorEsp
  <2> QED BY <2>1, <2>2, <2>3
<1>5. CASE MirrorDone
  BY <1>5 DEF MirrorDone
<1>6. CASE WriteBootConfig \/ LoaderRefused \/ InstallLoader
            \/ LoaderHasNoPlace
  BY <1>6 DEF WriteBootConfig, LoaderRefused, InstallLoader, LoaderHasNoPlace
        , Raise, Abort
<1>7. CASE SetupSnapshots \/ SkipFirstboot \/ WriteUnit \/ EnableUnit
            \/ EnableUnitTwice \/ WriteScript \/ TouchSentinel \/ Finish
  BY <1>7 DEF SetupSnapshots, SkipFirstboot, WriteUnit, EnableUnit
        , EnableUnitTwice, WriteScript, TouchSentinel, Finish, Raise, Abort
        , WriteFile
<1>8. CASE Start \/ CommandFails \/ UNCHANGED vars
  BY <1>8 DEF Start, CommandFails, vars, Abort
<1> QED
  BY <1>1, <1>2, <1>3, <1>4, <1>5, <1>6, <1>7, <1>8
  DEF Next, Step, PhaseDisk, PhaseSystem, PhaseBoot, PhaseLast

(* Every disk that is given an ESP can boot, where the code can mirror it,  *)
(* whatever earlier pipelines of the process were asked for.                *)
THEOREM MirrorsBoot == Spec => []EveryMirrorBoots
<1>1. Init => Mirrored
  BY DEF Init, Mirrored, EveryMirrorBoots, AfterEntries
<1>2. Mirrored => EveryMirrorBoots
  BY DEF Mirrored, EveryMirrorBoots
<1>3. IInv /\ Mirrored /\ [Next]_vars => Mirrored'
  BY MirroredNext
<1> QED
  BY <1>1, <1>2, <1>3, Invariant, PTL DEF Spec

-----------------------------------------------------------------------------
Recording == {"pacmanconf"} \cup BeforeUnmount \cup AfterUnmount
AfterSwap == {"bootconfig", "loader", "entries"} \cup AfterEntries
Recorded == {m \in Mountpoints \ {"isocache"} : IsMounted(m)} \subseteq fstab
Listed ==
  OwnMounts =>
    /\ pc \in {"mounts", "presetup", "pacstrap", "fstab"} => mounted["isocache"] = 0
    /\ pc \in {"varbind"} \cup Recording => Recorded /\ "isocache" \notin fstab
    /\ pc \in AfterSwap =>
         (params.source = "resolved" /\ params.swap /\ ~faulted => "swap" \in fstab)
    /\ FstabMatchesMounts

(* What is mounted after genfstab is written down, or is the live cache.    *)
LEMMA ListedNext == IInv /\ Listed /\ [Next]_vars => Listed'
<1> SUFFICES ASSUME IInv, Listed, [Next]_vars PROVE Listed'
  OBVIOUS
<1> USE DEF IInv, TypeOK, Running, Listed, OwnMounts, Recorded, Recording, AfterSwap,
            FstabMatchesMounts, BeforeUnmount, AfterUnmount, AfterEntries, IsMounted, Goto, control, request, effects,
            diskVars, targetVars, bootVars
<1>1. CASE ChooseDisks \/ NothingToInstallOn \/ WipeDevice \/ BusyDisk \/ RolesUnassigned \/ LayoutMisfits
  BY <1>1 DEF ChooseDisks, NothingToInstallOn, WipeDevice, BusyDisk, RolesUnassigned, LayoutMisfits, Raise, Abort
<1>2. CASE GenerateFstab
  BY <1>2 DEF GenerateFstab
<1>11. CASE UseManualMounts
  <2>1. runs <= 1 => mounted["isocache"] = 0
    BY <1>11 DEF UseManualMounts, MountsBounded, BeforeCache, Mountpoints
  <2>2. mounted'["isocache"] = mounted["isocache"]
    BY <1>11 DEF UseManualMounts, MountsOf, Mountpoints
  <2> QED
    BY <1>11, <2>1, <2>2 DEF UseManualMounts
<1>12. CASE FormatAndMountRoot
  <2>1. mounted'["isocache"] = 0
    BY <1>12 DEF FormatAndMountRoot, Mountpoints
  <2> QED
    BY <1>12, <2>1 DEF FormatAndMountRoot
<1>13. CASE MountNext
  <2>1. mounted'["isocache"] = mounted["isocache"]
    BY <1>13 DEF MountNext, Mount, MountsOf, Mountpoints
  <2> QED
    BY <1>13, <2>1 DEF MountNext
<1>3. CASE BindVar
  <2>1. \A m \in Mountpoints \ {"pacmandb"} : mounted'[m] = mounted[m]
    BY <1>3 DEF BindVar, Mount
  <2>2. (mounted' = mounted /\ fstab' = fstab) \/ fstab' = fstab \cup {"pacmandb"}
    BY <1>3 DEF BindVar
  <2> QED BY <1>3, <2>1, <2>2 DEF BindVar
<1>4. CASE InstallPacmanConf
  <2>1. \A m \in Mountpoints \ {"isocache"} : mounted'[m] = mounted[m]
    BY <1>4 DEF InstallPacmanConf, Mount
  <2> QED BY <1>4, <2>1 DEF InstallPacmanConf
<1>5. CASE UnmountIsoCache
  <2>1. \A m \in Mountpoints \ {"isocache"} : mounted'[m] = mounted[m]
    BY <1>5 DEF UnmountIsoCache
  <2> QED BY <1>5, <2>1 DEF UnmountIsoCache
<1>6. CASE AppendSwapFstabEntries
  BY <1>6 DEF AppendSwapFstabEntries
<1>7. CASE PrePacstrapSetup \/ PacstrapInstalls \/ PacstrapRetries
            \/ BindVarTwice \/ ConfigureChroot \/ ConfigureAppleInput \/ DeployHardwareFiles
            \/ RunHardwareDetection \/ EnableServices \/ StageAnsible
            \/ SwapUuidUnreadable
  BY <1>7 DEF PrePacstrapSetup, PacstrapInstalls, PacstrapRetries
        , BindVarTwice, ConfigureChroot, ConfigureAppleInput, DeployHardwareFiles
        , RunHardwareDetection, EnableServices, StageAnsible
        , SwapUuidUnreadable, Raise, Abort
<1>8. CASE WriteBootConfig \/ LoaderRefused \/ InstallLoader
            \/ LoaderHasNoPlace \/ GenerateBootEntries \/ MirrorEsp
            \/ MirrorDone
  BY <1>8 DEF WriteBootConfig, LoaderRefused, InstallLoader, LoaderHasNoPlace
        , GenerateBootEntries, MirrorEsp, MirrorDone, Raise, Abort
<1>9. CASE SetupSnapshots \/ SkipFirstboot \/ WriteUnit \/ EnableUnit
            \/ EnableUnitTwice \/ WriteScript \/ TouchSentinel \/ Finish
  BY <1>9 DEF SetupSnapshots, SkipFirstboot, WriteUnit, EnableUnit
        , EnableUnitTwice, WriteScript, TouchSentinel, Finish, Raise, Abort
        , WriteFile
<1>10. CASE Start \/ CommandFails \/ UNCHANGED vars
  BY <1>10 DEF Start, CommandFails, vars, Abort
<1> QED
  BY <1>1, <1>2, <1>3, <1>4, <1>5, <1>6, <1>7, <1>8, <1>9, <1>10,
     <1>11, <1>12, <1>13
  DEF Next, Step, PhaseDisk, PhaseSystem, PhaseBoot, PhaseLast

(* A pipeline on mounts of its own writes an fstab with every file system   *)
(* of the installed system, its swap, and nothing of the live ISO.  (One    *)
(* on mounts it found may see the cache when genfstab runs.)                *)
THEOREM FstabIsComplete == Spec => []FstabMatchesMounts
<1>1. Init => Listed
  BY DEF Init, Listed, FstabMatchesMounts, Recording, BeforeUnmount, AfterUnmount, AfterSwap, AfterEntries
<1>2. Listed => FstabMatchesMounts
  BY DEF Listed, FstabMatchesMounts
<1>3. IInv /\ Listed /\ [Next]_vars => Listed'
  BY ListedNext
<1> QED
  BY <1>1, <1>2, <1>3, Invariant, PTL DEF Spec

(* What an earlier pipeline left is gone when the root is mounted; as long  *)
(* as none was, there is nothing.                                           *)
BeforeMounts == {"disk", "wipe", "format"}
BeforeVar == {"mounts", "presetup", "pacstrap", "fstab", "varbind"}
BeforeWants == BeforeVar \cup (Recording \ {"script", "sentinel", "finish"})
Untouched ==
  /\ mounted["/"] = 0 => mounted["pacmandb"] = 0 /\ "wants" \notin artifacts
  /\ pc \notin BeforeMounts \cup {"stopped"} => mounted["/"] # 0
  /\ pc \in {"wipe", "format", "mounts"} => params.source \in {"resolved", "legacy"}
  /\ clear /\ pc \in BeforeMounts =>
       /\ params.source = "manual" => mounted["/"] = 0
       /\ DisksToErase(params) \cap held = {}
  /\ clear /\ pc \in BeforeVar => mounted["pacmandb"] = 0
  /\ clear /\ pc \in BeforeWants => "wants" \notin artifacts
  /\ FailsOnlyOnFault

(* None of the code's own exceptions is reached but that of a busy disk.    *)
LEMMA UntouchedNext == IInv /\ Untouched /\ [Next]_vars => Untouched'
<1> SUFFICES ASSUME IInv, Untouched, [Next]_vars PROVE Untouched'
  OBVIOUS
<1> USE DEF IInv, TypeOK, Running, Untouched, FailsOnlyOnFault, BeforeMounts, BeforeVar, BeforeWants,
            Recording, BeforeUnmount, AfterUnmount, AfterEntries, IsMounted, Serviceable,
            Mountpoints, Goto, control, request, effects, diskVars, targetVars, bootVars
<1>1. CASE UseManualMounts
  <2>1. mounted'["pacmandb"] = mounted["pacmandb"] /\ mounted'["/"] # 0
    BY <1>1 DEF UseManualMounts, MountsOf
  <2> QED BY <1>1, <2>1 DEF UseManualMounts
<1>2. CASE BusyDisk
  BY <1>2 DEF BusyDisk, Raise, Abort
<1>14. CASE RolesUnassigned
  BY <1>14 DEF RolesUnassigned, Raise, Abort
<1>15. CASE LayoutMisfits
  BY <1>15 DEF LayoutMisfits, Fits, Raise, Abort
<1>3. CASE FormatAndMountRoot
  BY <1>3 DEF FormatAndMountRoot
<1>4. CASE MountNext
  <2>1. mounted'["pacmandb"] = mounted["pacmandb"] /\ mounted["/"] # 0 /\ mounted'["/"] = mounted["/"]
    BY <1>4 DEF MountNext, Mount, MountsOf
  <2> QED BY <1>4, <2>1 DEF MountNext
<1>5. CASE ChooseDisks \/ NothingToInstallOn \/ WipeDevice
  BY <1>5 DEF ChooseDisks, NothingToInstallOn, WipeDevice, Raise, Abort
<1>6. CASE InstallPacmanConf
  BY <1>6 DEF InstallPacmanConf, Mount
<1>7. CASE PrePacstrapSetup \/ PacstrapInstalls \/ PacstrapRetries
            \/ GenerateFstab \/ ConfigureChroot \/ ConfigureAppleInput
            \/ DeployHardwareFiles \/ RunHardwareDetection
            \/ EnableServices \/ StageAnsible \/ AppendSwapFstabEntries
            \/ SwapUuidUnreadable
  BY <1>7 DEF PrePacstrapSetup, PacstrapInstalls, PacstrapRetries
        , GenerateFstab, ConfigureChroot, ConfigureAppleInput
        , DeployHardwareFiles, RunHardwareDetection
        , EnableServices, StageAnsible, AppendSwapFstabEntries
        , SwapUuidUnreadable
<1>16. CASE BindVar
  BY <1>16 DEF BindVar, Mount
<1>17. CASE UnmountIsoCache
  BY <1>17 DEF UnmountIsoCache
<1>8. CASE BindVarTwice \/ EnableUnitTwice
  BY <1>8 DEF BindVarTwice, EnableUnitTwice, Raise, Abort
<1>9. CASE LoaderRefused
  BY <1>9 DEF LoaderRefused, LoaderSupported, Raise, Abort
<1>10. CASE LoaderHasNoPlace
  BY <1>10 DEF LoaderHasNoPlace, LoaderFits, Raise, Abort
<1>11. CASE WriteBootConfig \/ InstallLoader \/ GenerateBootEntries
            \/ MirrorEsp \/ MirrorDone
  BY <1>11 DEF WriteBootConfig, InstallLoader, GenerateBootEntries, MirrorEsp
        , MirrorDone
<1>12. CASE SetupSnapshots \/ SkipFirstboot \/ WriteUnit \/ EnableUnit
            \/ WriteScript \/ TouchSentinel \/ Finish
  BY <1>12 DEF SetupSnapshots, SkipFirstboot, WriteUnit, EnableUnit
        , WriteScript, TouchSentinel, Finish, WriteFile
<1>13. CASE CommandFails \/ UNCHANGED vars
  BY <1>13 DEF CommandFails, vars, Abort
<1>18. CASE Start
  BY <1>18 DEF Start
<1> QED
  BY <1>1, <1>2, <1>3, <1>4, <1>5, <1>6, <1>7, <1>8, <1>9, <1>10
     , <1>11, <1>12, <1>13, <1>14, <1>15, <1>16, <1>17, <1>18
  DEF Next, Step, PhaseDisk, PhaseSystem, PhaseBoot, PhaseLast

(* A pipeline whose request the code can carry out, and which finds nothing *)
(* of an earlier one in its way, fails only when a command failed, whatever *)
(* the process was asked for before and wherever that failed.               *)
THEOREM OnlyFaultsFail == Spec => []FailsOnlyOnFault
<1>1. Init => Untouched
  BY DEF Init, Untouched, FailsOnlyOnFault, Mountpoints, BeforeMounts, BeforeVar,
         BeforeWants, Recording, BeforeUnmount, AfterUnmount, AfterEntries
<1>2. Untouched => FailsOnlyOnFault
  BY DEF Untouched
<1>3. IInv /\ Untouched /\ [Next]_vars => Untouched'
  BY UntouchedNext
<1> QED
  BY <1>1, <1>2, <1>3, Invariant, PTL DEF Spec
=============================================================================
