------------------------------- MODULE Wizard -------------------------------
(***************************************************************************)
(* The installer as the user meets it: the ways into it (__main__.py), the *)
(* wizard's screens (tui/), the fields of ArchesApp they fill in, and the  *)
(* thread of the progress screen that reads them and runs the pipeline.    *)
(* A named screen is built when it is first shown and stays in memory:     *)
(* its on_mount runs once, so what it computed then stays as it was.       *)
(* Results of the network screen pop whichever screen is on top.           *)
(***************************************************************************)
EXTENDS ModuleResolution

CONSTANTS Templates, \* sets of templates the ISO may hold
          NDisks,    \* fixed disks in the machine
          Layouts,   \* disk layouts
          MaxLate    \* bound: connections the user starts and does not wait for

NoTemplate == [name |-> "none", slugs |-> {}, installed |-> {}, roles |-> <<>>]
Nothing == "none"

ASSUME NumbersAssumption == NDisks \in Nat /\ MaxLate \in Nat
ASSUME LayoutsAssumption == Nothing \notin Layouts

VARIABLES
  entry,    \* how main was called: "tui", "auto" (--auto), "baked" (the ISO's own file)
  phase,    \* "preparing" an automatic install, "app", "ended", "halted"
  rc,       \* the exit status of main, once ended
  iso,      \* the templates on the ISO
  app,      \* the fields of ArchesApp
  stack,    \* its screens, the one the user sees last
  built,    \* screens in memory of those whose on_mount does what lasts
  boxes,    \* ModuleSelectScreen: boxes ticked
  shown,    \* ConfirmScreen: what its summary says will be installed onto
  late,     \* connections of the network screen still to be answered
  thread,   \* InstallProgressScreen._run_install
  starts,   \* how often this app started it
  outcome   \* what the progress screen ended in: "buttons", "reboot", "poweroff"

main == <<entry, phase, rc, iso>>
widgets == <<boxes, shown>>
install == <<thread, starts, outcome>>
vars == <<entry, phase, rc, iso, app, stack, built, boxes, shown, late,
          thread, starts, outcome>>

FreshApp == [auto |-> FALSE, onDone |-> "buttons", onFail |-> "poweroff",
             device |-> Nothing, template |-> NoTemplate, layout |-> Nothing,
             raid |-> FALSE, mode |-> Nothing, map |-> FALSE, hw |-> FALSE,
             account |-> FALSE, success |-> FALSE]

\* A device: none yet, a disk taken alone, or the first of those toggled for RAID.
Device == {"disk", "raid_member"}

\* What the confirm screen says will be installed onto.
Target == IF app.mode = "manual" THEN "mounts" ELSE app.device

Init ==
  /\ entry \in {"tui", "auto", "baked"}
  /\ phase = IF entry = "tui" THEN "app" ELSE "preparing"
  /\ rc = 0 /\ iso \in Templates
  /\ app = FreshApp /\ stack = <<"welcome">> /\ built = {}
  /\ boxes = {} /\ shown = Nothing /\ late = 0
  /\ thread = "none" /\ starts = 0 /\ outcome = "none"

(***************************************************************************)
(* Screens.                                                                *)
(***************************************************************************)
MountedOnce == {"module_select", "hardware_confirm", "confirm", "progress"}
On(s) == phase = "app" /\ Last(stack) = s
Shown(s) == s \in ToSet(stack)
Push(s) == stack' = Append(stack, s) /\ built' = built \cup ({s} \cap MountedOnce)
Pop == stack' = Front(stack) /\ UNCHANGED built

\* WelcomeScreen.on_button_pressed; the network screen is left by its Back.
Continue ==
  /\ On("welcome") /\ Push("disk_select")
  /\ UNCHANGED <<main, app, widgets, late, install>>

OpenNetwork ==
  /\ On("welcome") /\ Push("network")
  /\ UNCHANGED <<main, app, widgets, late, install>>

Connect ==
  /\ On("network") /\ late < MaxLate /\ late' = late + 1
  /\ UNCHANGED <<main, app, stack, built, widgets, install>>

\* DiskSelectScreen._select_disk
SelectDisk ==
  /\ On("disk_select") /\ Push("layout_select")
  /\ NDisks > 0 /\ app' = [app EXCEPT !.device = "disk"]
  /\ UNCHANGED <<main, widgets, late, install>>

ConfigureRaid ==
  /\ On("disk_select") /\ Push("raid_config")
  /\ UNCHANGED <<main, app, widgets, late, install>>

\* RaidConfigScreen: backend, level (0 is as 1) and disks are chosen in three
\* steps; _validate_and_build stores them and goes on in this screen's place.
MinDisks(level) == IF level = "raid10" THEN 4 ELSE 2
BuildRaid ==
  /\ On("raid_config")
  /\ \E level \in {"raid1", "raid10"} : NDisks >= MinDisks(level)
  /\ app' = [app EXCEPT !.raid = TRUE, !.device = "raid_member"]
  /\ stack' = Append(Front(stack), "layout_select")
  /\ UNCHANGED <<main, built, widgets, late, install>>

\* LayoutSelectScreen._select_layout
OpenPartition ==
  /\ On("layout_select") /\ Push("partition")
  /\ UNCHANGED <<main, app, widgets, late, install>>

\* Mutant of SelectLayout: the mode of an earlier manual setup is left alone.
SelectLayoutKeepMode ==
  /\ On("layout_select") /\ Push("template_select")
  /\ \E l \in Layouts :
       app' = [app EXCEPT !.layout = l, !.mode = IF app.mode = "manual" THEN "manual" ELSE "auto"]
  /\ UNCHANGED <<main, widgets, late, install>>

SelectLayout ==
  /\ On("layout_select") /\ Push("template_select")
  /\ \E l \in Layouts : app' = [app EXCEPT !.layout = l, !.mode = "auto"]
  /\ UNCHANGED <<main, widgets, late, install>>

\* PartitionScreen._validate_and_continue, the mounts being valid.
ValidateMounts ==
  /\ On("partition") /\ Push("template_select")
  /\ app' = [app EXCEPT !.mode = "manual", !.map = TRUE]
  /\ UNCHANGED <<main, widgets, late, install>>

\* TemplateSelectScreen._select_template; the boxes are set on first sight only.
SelectTemplate ==
  /\ On("template_select") /\ Push("module_select")
  /\ \E t \in Offered(iso) :
       /\ app' = [app EXCEPT !.template = t]
       /\ boxes' = IF "module_select" \in built THEN boxes ELSE t.slugs \cap Slug
  /\ UNCHANGED <<main, shown, late, install>>

Tick ==
  /\ On("module_select")
  /\ \E s \in Slug : boxes' = SymDiff(boxes, {s})
  /\ UNCHANGED <<main, app, stack, built, shown, late, install>>

\* HardwareConfirmScreen.on_mount: what is detected is stored, once.
DetectHardware == IF "hardware_confirm" \in built THEN app.hw ELSE TRUE

\* The template with the modules ticked in the place of its own.
Selected == [app.template EXCEPT !.slugs = boxes, !.installed = boxes, !.roles = Roles(boxes)]

\* Mutant of ApplyModules: a selection in error keeps the template and moves on.
ApplyModulesAnyway ==
  /\ On("module_select") /\ Push("hardware_confirm")
  /\ app' = [app EXCEPT !.hw = DetectHardware,
                         !.template = IF boxes # {} /\ Resolvable(boxes) THEN Selected ELSE @]
  /\ UNCHANGED <<main, widgets, late, install>>

\* ModuleSelectScreen._apply_selection
ApplyModules ==
  /\ On("module_select") /\ boxes # {} /\ Resolvable(boxes)
  /\ Push("hardware_confirm")
  /\ app' = [app EXCEPT !.hw = DetectHardware, !.template = Selected]
  /\ UNCHANGED <<main, widgets, late, install>>

AcceptHardware ==
  /\ On("hardware_confirm") /\ Push("user_setup")
  /\ UNCHANGED <<main, app, widgets, late, install>>

SkipHardware ==
  /\ On("hardware_confirm") /\ Push("user_setup") /\ app' = [app EXCEPT !.hw = FALSE]
  /\ UNCHANGED <<main, widgets, late, install>>

\* UserSetupScreen._try_continue, the input being valid; ConfirmScreen.on_mount.
SetUpUser ==
  /\ On("user_setup") /\ Push("confirm") /\ app' = [app EXCEPT !.account = TRUE]
  /\ shown' = IF "confirm" \in built THEN shown ELSE Target
  /\ UNCHANGED <<main, boxes, late, install>>

\* Mutant of Install: the progress screen is a new one each time.
InstallAgain ==
  /\ On("confirm") /\ Push("progress")
  /\ thread' = "starting" /\ starts' = starts + 1
  /\ UNCHANGED <<main, app, widgets, late, outcome>>

\* ConfirmScreen: Install; InstallProgressScreen.on_mount starts the thread.
Install ==
  /\ On("confirm") /\ Push("progress")
  /\ IF "progress" \in built
     THEN UNCHANGED <<thread, starts>>
     ELSE thread' = "starting" /\ starts' = starts + 1
  /\ UNCHANGED <<main, app, widgets, late, outcome>>

\* The Back buttons; the RAID screen's leads out of it from its first step.
Back ==
  /\ phase = "app" /\ Last(stack) \notin {"welcome", "progress"} /\ Pop
  /\ UNCHANGED <<main, app, widgets, late, install>>

(***************************************************************************)
(* The end of an app: main goes on from app.run().                         *)
(***************************************************************************)
Leave ==
  IF entry = "baked" /\ app.auto /\ ~app.success
  THEN /\ app' = FreshApp /\ stack' = <<"welcome">> /\ built' = {}
       /\ boxes' = {} /\ shown' = Nothing /\ late' = 0
       /\ thread' = "none" /\ starts' = 0 /\ outcome' = "none"
       /\ UNCHANGED main
  ELSE /\ phase' = "ended"
       /\ rc' = IF app.auto /\ ~app.success THEN 1 ELSE 0
       /\ UNCHANGED <<entry, iso, app, stack, built, widgets, late, install>>

\* The q key, and Exit Installer of the welcome screen.
Quit == phase = "app" /\ Leave

\* A connection is made: pop_screen, which the last screen does not survive.
LateConnect ==
  /\ phase = "app" /\ late > 0
  /\ IF Len(stack) = 1
     THEN Leave
     ELSE Pop /\ late' = late - 1 /\ UNCHANGED <<main, app, widgets, install>>

(***************************************************************************)
(* An automatic install: _run_auto up to app.run().                        *)
(***************************************************************************)
Finals == {"buttons", "reboot", "poweroff"}

\* Platform, configuration, network or disks: an error ends it.  For the ISO's
\* own file the TUI comes up, unless the platform cannot be loaded there, either.
PrepareFails ==
  /\ phase = "preparing"
  /\ \/ entry = "baked" /\ phase' = "app" /\ UNCHANGED rc
     \/ phase' = "ended" /\ rc' = 1
  /\ UNCHANGED <<entry, iso, app, stack, built, widgets, late, install>>

\* The template must resolve by itself; failing to detect hardware is no error.
PrepareApp ==
  /\ phase = "preparing" /\ phase' = "app"
  /\ \E t \in iso, d \in Device, l \in Layouts, hw \in BOOLEAN,
        done, failed \in Finals :
       /\ Mergeable(t)
       /\ app' = [FreshApp EXCEPT
            !.auto = TRUE, !.onDone = done, !.onFail = failed, !.device = d,
            !.template = Merged(t), !.layout = l, !.mode = "auto",
            !.hw = hw, !.account = TRUE]
  /\ stack' = <<"progress">> /\ thread' = "starting" /\ starts' = 1
  /\ UNCHANGED <<entry, rc, iso, built, widgets, late, outcome>>

(***************************************************************************)
(* The progress screen: its thread, and what the thread has the app do.    *)
(***************************************************************************)
\* Mutant of Params: the mounts of a manual setup go with every request.
ParamsAndMounts ==
  [template |-> app.template, device |-> app.device, raid |-> app.raid,
   layout |-> IF app.mode = "manual" THEN Nothing ELSE app.layout,
   map |-> app.map, hw |-> app.hw, account |-> app.account]

\* The InstallParams the thread takes from the app.
Params ==
  [template |-> app.template, device |-> app.device, raid |-> app.raid,
   layout |-> IF app.mode = "manual" THEN Nothing ELSE app.layout,
   map |-> app.mode = "manual" /\ app.map, hw |-> app.hw, account |-> app.account]

\* _run_install: without a template it stops, with nothing for the user to press.
ReadParams ==
  /\ phase = "app" /\ thread = "starting"
  /\ thread' = IF Params.template = NoTemplate THEN "stopped" ELSE "running"
  /\ UNCHANGED <<main, app, stack, built, widgets, late, starts, outcome>>

\* Mutant of PipelineEnds: the installation counts as a success in any case.
PipelineEndsWell ==
  /\ phase = "app" /\ thread = "running" /\ thread' \in {"installed", "failed"}
  /\ app' = [app EXCEPT !.success = TRUE]
  /\ UNCHANGED <<main, stack, built, widgets, late, starts, outcome>>

\* run_install_pipeline returns, or raises.
PipelineEnds ==
  /\ phase = "app" /\ thread = "running" /\ thread' \in {"installed", "failed"}
  /\ UNCHANGED <<main, app, stack, built, widgets, late, starts, outcome>>

\* The two assignments after the pipeline's return.
MarkSuccess ==
  /\ phase = "app" /\ thread = "installed" /\ thread' = "returned"
  /\ app' = [app EXCEPT !.success = TRUE, !.map = TRUE]
  /\ UNCHANGED <<main, stack, built, widgets, late, starts, outcome>>

\* Mutant of Report: the power action is taken on success only.
ReportSuccess ==
  /\ phase = "app"
  /\ \/ thread = "returned" /\ thread' = "complete"
        /\ outcome' = IF app.auto THEN app.onDone ELSE "buttons"
     \/ thread = "failed" /\ thread' = "gave_up"
        /\ outcome' = IF app.auto THEN "none" ELSE "buttons"
  /\ UNCHANGED <<main, app, stack, built, widgets, late, starts>>

\* _on_install_complete, _on_install_failed_auto, _enable_reboot
Report ==
  /\ phase = "app"
  /\ \/ thread = "returned" /\ thread' = "complete"
        /\ outcome' = IF app.auto THEN app.onDone ELSE "buttons"
     \/ thread = "failed" /\ thread' = "gave_up"
        /\ outcome' = IF app.auto THEN app.onFail ELSE "buttons"
  /\ UNCHANGED <<main, app, stack, built, widgets, late, starts>>

\* systemctl's action takes effect, or the user presses Reboot or Shutdown.
Halt ==
  /\ phase = "app" /\ outcome # "none"
  /\ outcome = "buttons" => On("progress")
  /\ phase' = "halted"
  /\ UNCHANGED <<entry, rc, iso, app, stack, built, widgets, late, install>>

Screens == \/ Continue \/ OpenNetwork \/ Connect \/ SelectDisk \/ ConfigureRaid
           \/ BuildRaid \/ OpenPartition \/ SelectLayout \/ ValidateMounts
           \/ SelectTemplate \/ Tick \/ ApplyModules
           \/ AcceptHardware \/ SkipHardware \/ SetUpUser \/ Install \/ Back
Thread == ReadParams \/ PipelineEnds \/ MarkSuccess \/ Report
Next == Screens \/ Quit \/ LateConnect \/ PrepareFails \/ PrepareApp \/ Thread \/ Halt
Spec == Init /\ [][Next]_vars

\* The thread and the app's event loop run on; nobody makes the user, the
\* network or a pipeline come to an end.
Fairness == WF_vars(ReadParams) /\ WF_vars(MarkSuccess) /\ WF_vars(Report)
FairSpec == Spec /\ Fairness

(***************************************************************************)
(* Properties.                                                             *)
(***************************************************************************)
\* What the thread hands to the pipeline is complete and consistent, whichever
\* way the user took to the progress screen and whatever was tried before: a
\* template whose modules belong together, a device, an account, and either
\* the mounts of a manual setup or a layout, never both.
InstallReady ==
  thread = "starting" =>
    /\ Coherent(Params.template)
    /\ Params.device \in Device /\ Params.account
    /\ Params.map # (Params.layout \in Layouts)

\* The partition mode is that of the screens on the stack: a user who backed
\* out of a manual setup and took a layout does not install onto old mounts.
ModeFollowsPath ==
  ~app.auto /\ Shown("template_select") => (app.mode = "manual" <=> Shown("partition"))

\* Past the module screen, the modules of the template are the boxes on
\* display, also when another template was chosen after the boxes were set.
ModulesAsTicked ==
  Shown("hardware_confirm") =>
    app.template.slugs = boxes /\ app.template.installed = boxes

\* An app installs at most once, also when a late connection has taken the
\* progress screen away and the user presses Install again.
OnePipeline == starts <= 1

\* An automatic install that main reports as done (status 0) had its pipeline
\* return; one that came back from a failure reports 1 or brings up the TUI.
TruthfulExit ==
  phase = "ended" /\ app.auto /\ rc = 0 => thread \in {"returned", "complete"}

\* Once the pipeline has ended, the buttons come alive or the power action is
\* taken; a headless box never stays at a screen where nothing can happen.
OutcomeReached ==
  thread \in {"installed", "failed"} ~>
    (outcome # "none" \/ thread = "none" \/ phase # "app")

\* "Review all selections and confirm before installing" (tui/confirm.py:1):
\* at the button that starts the installation, the screen shows the disk or
\* the mounts it will be put onto.  The summary is built in on_mount and never again.
ConfirmShowsTruth == On("confirm") => shown = Target
=============================================================================
