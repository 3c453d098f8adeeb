---------------------------- MODULE Wizard_proofs ----------------------------
(***************************************************************************)
(* Proofs about Wizard for any templates, modules, layouts, disks and late *)
(* connections: at most one installation per app, a truthful exit status,  *)
(* a partition mode and a module selection that are those of the path the  *)
(* user took, whichever way back and forth led there, and a request to the *)
(* pipeline that is complete and of one piece: its roles run in the order  *)
(* of their categories, and it has either mounts or a layout.              *)
(***************************************************************************)
EXTENDS Wizard, SequenceTheorems, FiniteSetTheorems, TLAPS

-----------------------------------------------------------------------------
\* How far into the wizard a screen is.  Every screen leads further in, and
\* nothing but popping leads back, so the stack climbs.
Level == [welcome |-> 0, network |-> 1, disk_select |-> 1, raid_config |-> 2,
          layout_select |-> 2, partition |-> 3, template_select |-> 4,
          module_select |-> 5, hardware_confirm |-> 6, user_setup |-> 7, confirm |-> 8,
          progress |-> 9]
Screen == DOMAIN Level
Climbs(s) ==
  /\ s \in Seq(Screen) /\ s # <<>>
  /\ \A i, j \in 1..Len(s) : i < j => Level[s[i]] < Level[s[j]]

\* Levels are compared as numbers.
LEMMA LevelIsNumber == \A x \in Screen : Level[x] \in 0..9
BY DEF Level, Screen

\* The screen on top is the furthest.
LEMMA TopIsFurthest ==
  ASSUME NEW s, Climbs(s)
  PROVE  /\ Last(s) \in Screen /\ Last(s) \in ToSet(s) /\ Len(s) \in Nat \ {0}
         /\ \A x \in ToSet(s) : x \in Screen /\ (x = Last(s) \/ Level[x] < Level[Last(s)])
<1>1. Len(s) \in 1..Len(s) /\ Len(s) \in Nat \ {0}
  BY EmptySeq, LenProperties DEF Climbs
<1>2. Last(s) = s[Len(s)]
  BY DEF Last
<1>3. \A x \in ToSet(s) : \E i \in 1..Len(s) : x = s[i]
  BY LenProperties DEF ToSet, Climbs
<1>4. \A i \in 1..Len(s) : i = Len(s) \/ i < Len(s)
  BY <1>1
<1>5. \A i \in 1..Len(s) : s[i] \in Screen /\ s[i] \in ToSet(s)
  BY ElementOfSeq, LenProperties DEF ToSet, Climbs
<1> QED
  BY <1>1, <1>2, <1>3, <1>4, <1>5 DEF Climbs

\* A screen that is further in than the one on top may be pushed.
LEMMA PushClimbs ==
  ASSUME NEW s, Climbs(s), NEW x \in Screen, Level[Last(s)] < Level[x]
  PROVE  Climbs(Append(s, x)) /\ ToSet(Append(s, x)) = ToSet(s) \cup {x}
         /\ Append(s, x)[1] = s[1]
<1> DEFINE t == Append(s, x)
<1>1. /\ s \in Seq(Screen) /\ Len(s) \in Nat \ {0} /\ Last(s) = s[Len(s)]
      /\ \A i \in 1..Len(s) : s[i] \in Screen
  BY TopIsFurthest, ElementOfSeq DEF Climbs, Last
<1>2. /\ t \in Seq(Screen) /\ Len(t) = Len(s) + 1 /\ t[Len(s) + 1] = x
      /\ \A i \in 1..Len(s) : t[i] = s[i]
  BY <1>1, AppendProperties
<1>3. \A i \in 1..Len(s) : Level[s[i]] < Level[x]
  <2> TAKE i \in 1..Len(s)
  <2>1. i = Len(s) \/ Level[s[i]] < Level[s[Len(s)]]
    BY <1>1 DEF Climbs
  <2> QED
    BY <2>1, <1>1, LevelIsNumber
<1>4. \A i, j \in 1..Len(t) : i < j => Level[t[i]] < Level[t[j]]
  BY <1>1, <1>2, <1>3 DEF Climbs
<1>5. ToSet(t) = ToSet(s) \cup {x}
  <2>1. DOMAIN t = 1..(Len(s) + 1) /\ DOMAIN s = 1..Len(s)
    BY <1>1, <1>2, LenProperties
  <2> QED
    BY <2>1, <1>1, <1>2 DEF ToSet
<1> QED
  BY <1>1, <1>2, <1>4, <1>5 DEF Climbs

\* Popping takes the top away, and nothing else.
LEMMA PopClimbs ==
  ASSUME NEW s, Climbs(s), Len(s) # 1
  PROVE  Climbs(Front(s)) /\ ToSet(Front(s)) = ToSet(s) \ {Last(s)}
         /\ Front(s)[1] = s[1]
<1>1. /\ s \in Seq(Screen) /\ Len(s) \in Nat \ {0, 1}
      /\ \A i \in 1..Len(s) : s[i] \in Screen
  BY TopIsFurthest, ElementOfSeq DEF Climbs
<1>2. /\ Front(s) \in Seq(Screen) /\ Len(Front(s)) = Len(s) - 1
      /\ \A i \in 1..(Len(s) - 1) : Front(s)[i] = s[i]
  <2>1. \A i \in 1..(Len(s) - 1) : s[i] \in Screen
    BY <1>1
  <2> DEFINE n == Len(s) - 1
  <2>2. Front(s) = SubSeq(s, 1, n)
    BY Zenon DEF Front
  <2>2a. n \in Nat /\ 1 <= n
    <3>1. \A k \in Nat \ {0, 1} : k - 1 \in Nat /\ 1 <= k - 1
      OBVIOUS
    <3> QED
      BY <1>1, <3>1, Zenon
  <2> HIDE DEF n
  <2>3. n \in Int /\ 1 <= n /\ n - 1 + 1 = n /\ \A i \in 1..n : 1 + i - 1 = i
    BY <2>2a
  <2>4. /\ SubSeq(s, 1, n) \in Seq(Screen)
        /\ Len(SubSeq(s, 1, n)) = IF 1 <= n THEN n - 1 + 1 ELSE 0
        /\ \A i \in 1..(n - 1 + 1) : SubSeq(s, 1, n)[i] = s[1 + i - 1]
    <3>1. \A i \in 1..n : s[i] \in Screen
      BY <2>1 DEF n
    <3> QED
      BY <3>1, <2>3, SubSeqProperties
  <2>5. /\ SubSeq(s, 1, n) \in Seq(Screen) /\ Len(SubSeq(s, 1, n)) = n
        /\ \A i \in 1..n : SubSeq(s, 1, n)[i] = s[i]
    BY <2>3, <2>4
  <2> QED
    BY <2>2, <2>5, Zenon DEF n
<1>3. DOMAIN Front(s) = 1..(Len(s) - 1) /\ DOMAIN s = 1..Len(s) /\ Last(s) = s[Len(s)]
  BY <1>1, <1>2, LenProperties DEF Last
<1>4. \A i \in 1..(Len(s) - 1) : s[i] # s[Len(s)]
  BY <1>1, LevelIsNumber DEF Climbs
<1>5. ToSet(Front(s)) = ToSet(s) \ {Last(s)}
  BY <1>1, <1>2, <1>3, <1>4 DEF ToSet
<1> QED
  BY <1>1, <1>2, <1>5 DEF Climbs

-----------------------------------------------------------------------------
\* The fields an app has, and what a template must have to take a selection.
AppOk ==
  /\ DOMAIN app = DOMAIN FreshApp
  /\ app.auto \in BOOLEAN /\ app.success \in BOOLEAN
  /\ {"slugs", "installed", "roles"} \subseteq DOMAIN app.template

\* An automatic install knows one screen; the user starts at the welcome screen.
PathOk ==
  /\ Climbs(stack)
  /\ IF app.auto THEN stack = <<"progress">> /\ late = 0 ELSE stack[1] = "welcome"

\* While an automatic install is prepared, the app is as it began.
Untouched ==
  phase = "preparing" =>
    /\ app = FreshApp /\ stack = <<"welcome">> /\ built = {} /\ late = 0
    /\ thread = "none" /\ starts = 0

\* The thread was started once or not at all, and by a progress screen that is
\* still in memory.
Counted ==
  /\ starts \in {0, 1} /\ (starts = 0 <=> thread = "none")
  /\ ~app.auto => (starts = 1 <=> "progress" \in built)

\* Success is what the thread stored after the pipeline's return; the exit
\* status of an automatic install was taken from it.
Honest ==
  /\ app.success => thread \in {"returned", "complete"}
  /\ phase = "ended" /\ app.auto /\ rc = 0 => app.success

IInv == AppOk /\ PathOk /\ Untouched /\ Counted /\ Honest
Path == ModeFollowsPath /\ ModulesAsTicked

\* A screen's button that leads further in; only the user's app has one.
LEMMA ScreenLeadsOn ==
  ASSUME IInv, NEW s, s # "progress", On(s), NEW x \in Screen, Level[s] < Level[x], Push(x)
  PROVE  /\ ~app.auto /\ phase = "app"
         /\ Climbs(stack') /\ ToSet(stack') = ToSet(stack) \cup {x}
         /\ stack'[1] = "welcome"
         /\ built' = built \cup ({x} \cap MountedOnce)
         /\ \A y \in ToSet(stack) : y = s \/ Level[y] < Level[s]
<1>1. ~app.auto
  <2> SUFFICES ASSUME app.auto PROVE FALSE
    OBVIOUS
  <2>1. stack = <<"progress">>
    BY DEF IInv, PathOk
  <2> QED
    BY <2>1 DEF On, Last
<1> QED
  BY <1>1, PushClimbs, TopIsFurthest DEF IInv, PathOk, Push, On

\* What is left to show of a step the user takes before the installation.
LEMMA UserStep ==
  ASSUME IInv, phase = "app", ~app.auto, UNCHANGED <<main, thread, starts>>,
         Climbs(stack'), stack'[1] = "welcome",
         "progress" \in built' <=> "progress" \in built,
         DOMAIN app' = DOMAIN app, app'.auto = app.auto, app'.success = app.success,
         {"slugs", "installed", "roles"} \subseteq DOMAIN app'.template
  PROVE  IInv'
BY DEF IInv, AppOk, PathOk, Untouched, Counted, Honest, main

\* The same for one that leads to the next screen, and what it sets.
LEMMA NextScreen ==
  ASSUME IInv, NEW s, s # "progress", On(s), NEW x \in Screen \ {"progress"},
         Level[s] < Level[x], Push(x), UNCHANGED <<main, thread, starts>>,
         DOMAIN app' = DOMAIN app, app'.auto = app.auto, app'.success = app.success,
         {"slugs", "installed", "roles"} \subseteq DOMAIN app'.template
  PROVE  IInv'
BY ScreenLeadsOn, UserStep

\* A template on offer takes a selection.
LEMMA TemplatesFit ==
  /\ {"slugs", "installed", "roles"} \subseteq DOMAIN NoTemplate
  /\ \A t : {"slugs", "installed", "roles"} \subseteq DOMAIN Merged(t)
  /\ \A t \in Offered(iso) : {"slugs", "installed", "roles"} \subseteq DOMAIN t
BY DEF NoTemplate, Merged, Offered

\* Whatever the user presses keeps the invariant.
LEMMA ScreensKeep == IInv /\ Screens => IInv'
<1> SUFFICES ASSUME IInv, Screens PROVE IInv'
  OBVIOUS
<1> USE DEF install, widgets
<1>1. /\ DOMAIN app = DOMAIN FreshApp /\ app.auto \in BOOLEAN /\ app.success \in BOOLEAN
      /\ {"slugs", "installed", "roles"} \subseteq DOMAIN app.template
      /\ DOMAIN FreshApp = {"auto", "onDone", "onFail", "device", "template", "layout", "raid",
                           "mode", "map", "hw", "account", "success"}
  BY DEF IInv, AppOk, FreshApp
<1>2. CASE Continue
  <2>1. /\ On("welcome") /\ Push("disk_select") /\ UNCHANGED <<main, thread, starts>>
        /\ DOMAIN app' = DOMAIN app /\ app'.auto = app.auto /\ app'.success = app.success
        /\ {"slugs", "installed", "roles"} \subseteq DOMAIN app'.template
    BY <1>1, <1>2 DEF Continue
  <2> QED
    BY <2>1, NextScreen DEF Screen, Level
<1>3. CASE OpenNetwork
  <2>1. /\ On("welcome") /\ Push("network") /\ UNCHANGED <<main, thread, starts>>
        /\ DOMAIN app' = DOMAIN app /\ app'.auto = app.auto /\ app'.success = app.success
        /\ {"slugs", "installed", "roles"} \subseteq DOMAIN app'.template
    BY <1>1, <1>3 DEF OpenNetwork
  <2> QED
    BY <2>1, NextScreen DEF Screen, Level
<1>4. CASE SelectDisk
  <2>1. /\ On("disk_select") /\ Push("layout_select") /\ UNCHANGED <<main, thread, starts>>
        /\ DOMAIN app' = DOMAIN app /\ app'.auto = app.auto /\ app'.success = app.success
        /\ {"slugs", "installed", "roles"} \subseteq DOMAIN app'.template
    BY <1>1, <1>4 DEF SelectDisk
  <2> QED
    BY <2>1, NextScreen DEF Screen, Level
<1>5. CASE ConfigureRaid
  <2>1. /\ On("disk_select") /\ Push("raid_config") /\ UNCHANGED <<main, thread, starts>>
        /\ DOMAIN app' = DOMAIN app /\ app'.auto = app.auto /\ app'.success = app.success
        /\ {"slugs", "installed", "roles"} \subseteq DOMAIN app'.template
    BY <1>1, <1>5 DEF ConfigureRaid
  <2> QED
    BY <2>1, NextScreen DEF Screen, Level
<1>6. CASE OpenPartition
  <2>1. /\ On("layout_select") /\ Push("partition") /\ UNCHANGED <<main, thread, starts>>
        /\ DOMAIN app' = DOMAIN app /\ app'.auto = app.auto /\ app'.success = app.success
        /\ {"slugs", "installed", "roles"} \subseteq DOMAIN app'.template
    BY <1>1, <1>6 DEF OpenPartition
  <2> QED
    BY <2>1, NextScreen DEF Screen, Level
<1>7. CASE SelectLayout
  <2>1. /\ On("layout_select") /\ Push("template_select") /\ UNCHANGED <<main, thread, starts>>
        /\ DOMAIN app' = DOMAIN app /\ app'.auto = app.auto /\ app'.success = app.success
        /\ {"slugs", "installed", "roles"} \subseteq DOMAIN app'.template
    BY <1>1, <1>7 DEF SelectLayout
  <2> QED
    BY <2>1, NextScreen DEF Screen, Level
<1>8. CASE ValidateMounts
  <2>1. /\ On("partition") /\ Push("template_select") /\ UNCHANGED <<main, thread, starts>>
        /\ DOMAIN app' = DOMAIN app /\ app'.auto = app.auto /\ app'.success = app.success
        /\ {"slugs", "installed", "roles"} \subseteq DOMAIN app'.template
    BY <1>1, <1>8 DEF ValidateMounts
  <2> QED
    BY <2>1, NextScreen DEF Screen, Level
<1>9. CASE SelectTemplate
  <2>1. /\ On("template_select") /\ Push("module_select") /\ UNCHANGED <<main, thread, starts>>
        /\ DOMAIN app' = DOMAIN app /\ app'.auto = app.auto /\ app'.success = app.success
        /\ {"slugs", "installed", "roles"} \subseteq DOMAIN app'.template
    BY <1>1, <1>9, TemplatesFit DEF SelectTemplate
  <2> QED
    BY <2>1, NextScreen DEF Screen, Level
<1>10. CASE ApplyModules
  <2>1. /\ On("module_select") /\ Push("hardware_confirm") /\ UNCHANGED <<main, thread, starts>>
        /\ DOMAIN app' = DOMAIN app /\ app'.auto = app.auto /\ app'.success = app.success
        /\ {"slugs", "installed", "roles"} \subseteq DOMAIN app'.template
    BY <1>1, <1>10 DEF ApplyModules, Selected, DetectHardware
  <2> QED
    BY <2>1, NextScreen DEF Screen, Level
<1>11. CASE AcceptHardware
  <2>1. /\ On("hardware_confirm") /\ Push("user_setup") /\ UNCHANGED <<main, thread, starts>>
        /\ DOMAIN app' = DOMAIN app /\ app'.auto = app.auto /\ app'.success = app.success
        /\ {"slugs", "installed", "roles"} \subseteq DOMAIN app'.template
    BY <1>1, <1>11 DEF AcceptHardware
  <2> QED
    BY <2>1, NextScreen DEF Screen, Level
<1>12. CASE SkipHardware
  <2>1. /\ On("hardware_confirm") /\ Push("user_setup") /\ UNCHANGED <<main, thread, starts>>
        /\ DOMAIN app' = DOMAIN app /\ app'.auto = app.auto /\ app'.success = app.success
        /\ {"slugs", "installed", "roles"} \subseteq DOMAIN app'.template
    BY <1>1, <1>12 DEF SkipHardware
  <2> QED
    BY <2>1, NextScreen DEF Screen, Level
<1>13. CASE SetUpUser
  <2>1. /\ On("user_setup") /\ Push("confirm") /\ UNCHANGED <<main, thread, starts>>
        /\ DOMAIN app' = DOMAIN app /\ app'.auto = app.auto /\ app'.success = app.success
        /\ {"slugs", "installed", "roles"} \subseteq DOMAIN app'.template
    BY <1>1, <1>13 DEF SetUpUser
  <2> QED
    BY <2>1, NextScreen DEF Screen, Level
<1>14. CASE Connect \/ Tick
  <2>1. /\ Last(stack) \in {"network", "module_select"} /\ phase = "app"
        /\ UNCHANGED <<main, app, stack, built, thread, starts>>
    BY <1>14 DEF Connect, Tick, On
  <2>2. ~app.auto
    BY <2>1 DEF IInv, PathOk, Last
  <2> QED
    BY <1>1, <2>1, <2>2, UserStep DEF IInv, PathOk
<1>15. CASE BuildRaid
  <2>1. /\ phase = "app" /\ Last(stack) = "raid_config" /\ UNCHANGED <<main, built, thread, starts>>
        /\ DOMAIN app' = DOMAIN app /\ app'.auto = app.auto /\ app'.success = app.success
        /\ {"slugs", "installed", "roles"} \subseteq DOMAIN app'.template
        /\ stack' = Append(Front(stack), "layout_select")
    BY <1>1, <1>15 DEF BuildRaid, On
  <2>2. ~app.auto /\ Climbs(stack) /\ stack[1] = "welcome" /\ Len(stack) # 1
    BY <2>1 DEF IInv, PathOk, Last
  <2>3. /\ Climbs(Front(stack)) /\ Front(stack)[1] = "welcome"
        /\ ToSet(Front(stack)) = ToSet(stack) \ {Last(stack)}
    BY <2>2, PopClimbs
  <2>4. Level[Last(Front(stack))] < Level["raid_config"]
    BY <2>1, <2>2, <2>3, TopIsFurthest
  <2>5. /\ "layout_select" \in Screen /\ Level["raid_config"] = Level["layout_select"]
    BY DEF Screen, Level
  <2>6. Climbs(stack') /\ stack'[1] = "welcome"
    BY <2>1, <2>3, <2>4, <2>5, PushClimbs
  <2> QED
    BY <2>1, <2>2, <2>6, UserStep
<1>16. CASE Install
  <2>1. /\ On("confirm") /\ Push("progress") /\ UNCHANGED <<main, app>>
        /\ "progress" \in Screen /\ Level["confirm"] < Level["progress"]
    BY <1>16 DEF Install, Screen, Level
  <2>2. /\ ~app.auto /\ phase = "app" /\ Climbs(stack') /\ stack'[1] = "welcome"
        /\ built' = built \cup {"progress"}
    BY <2>1, ScreenLeadsOn DEF MountedOnce
  <2> QED
    BY <1>16, <2>1, <2>2 DEF Install, IInv, AppOk, PathOk, Untouched, Counted, Honest, main
<1>17. CASE Back
  <2>1. /\ phase = "app" /\ Last(stack) \notin {"welcome", "progress"}
        /\ stack' = Front(stack) /\ UNCHANGED <<main, app, built, thread, starts>>
    BY <1>17 DEF Back, Pop
  <2>2. ~app.auto /\ Climbs(stack) /\ stack[1] = "welcome" /\ Len(stack) # 1
    BY <2>1 DEF IInv, PathOk, Last
  <2>3. Climbs(stack') /\ stack'[1] = "welcome"
    BY <2>1, <2>2, PopClimbs
  <2> QED
    BY <1>1, <2>1, <2>2, <2>3, UserStep
<1> QED
  BY <1>2, <1>3, <1>4, <1>5, <1>6, <1>7, <1>8, <1>9, <1>10, <1>11, <1>12, <1>13, <1>14, <1>15, <1>16, <1>17 DEF Screens

\* The end of an app, or the TUI that follows a failed automatic install.
LEMMA LeaveKeeps == IInv /\ phase = "app" /\ Leave => IInv'
<1> SUFFICES ASSUME IInv, phase = "app", Leave PROVE IInv'
  OBVIOUS
<1> USE DEF main, install, widgets, IInv
<1>1. CASE entry = "baked" /\ app.auto /\ ~app.success
  <2>1. /\ app' = FreshApp /\ stack' = <<"welcome">> /\ built' = {} /\ late' = 0
        /\ thread' = "none" /\ starts' = 0 /\ phase' = "app"
    BY <1>1 DEF Leave
  <2>2. AppOk'
    BY <2>1 DEF AppOk, FreshApp, NoTemplate
  <2>3. Climbs(stack') /\ app'.auto = FALSE /\ app'.success = FALSE
    BY <2>1 DEF Climbs, FreshApp, Screen, Level
  <2> QED
    BY <2>1, <2>2, <2>3 DEF PathOk, Untouched, Counted, Honest
<1>2. CASE ~(entry = "baked" /\ app.auto /\ ~app.success)
  <2>1. /\ phase' = "ended" /\ rc' = (IF app.auto /\ ~app.success THEN 1 ELSE 0)
        /\ UNCHANGED <<app, stack, built, late, thread, starts>>
    BY <1>2 DEF Leave
  <2> QED
    BY <2>1 DEF AppOk, PathOk, Untouched, Counted, Honest
<1> QED
  BY <1>1, <1>2

\* So does a connection that is made when the user is elsewhere.
LEMMA LateKeeps == IInv /\ LateConnect => IInv'
<1> SUFFICES ASSUME IInv, LateConnect PROVE IInv'
  OBVIOUS
<1>1. CASE Len(stack) = 1
  BY <1>1, LeaveKeeps DEF LateConnect
<1>2. CASE Len(stack) # 1
  <2>1. /\ phase = "app" /\ late > 0 /\ stack' = Front(stack)
        /\ UNCHANGED <<main, app, built, thread, starts>>
    BY <1>2 DEF LateConnect, Pop, install
  <2>2. ~app.auto /\ Climbs(stack) /\ stack[1] = "welcome"
    BY <2>1 DEF IInv, PathOk
  <2>3. Climbs(stack') /\ stack'[1] = "welcome"
    BY <1>2, <2>1, <2>2, PopClimbs
  <2> QED
    BY <2>1, <2>2, <2>3, UserStep DEF IInv, AppOk
<1> QED
  BY <1>1, <1>2

\* So does an automatic install, whose app is a new one.
LEMMA PrepareKeeps == IInv /\ (PrepareFails \/ PrepareApp) => IInv'
<1> SUFFICES ASSUME IInv, PrepareFails \/ PrepareApp PROVE IInv'
  OBVIOUS
<1> USE DEF main, install, widgets, IInv
<1>1. /\ app = FreshApp /\ stack = <<"welcome">> /\ built = {} /\ late = 0
      /\ thread = "none" /\ starts = 0
  BY DEF PrepareFails, PrepareApp, Untouched
<1>2. CASE PrepareFails
  BY <1>1, <1>2 DEF PrepareFails, AppOk, PathOk, Untouched, Counted, Honest, FreshApp
<1>3. CASE PrepareApp
  <2>1. PICK t \in iso, d \in Device, l \in Layouts, hw \in BOOLEAN,
             done \in Finals, failed \in Finals :
          Mergeable(t) /\ app' = [FreshApp EXCEPT
            !.auto = TRUE, !.onDone = done, !.onFail = failed, !.device = d,
            !.template = Merged(t), !.layout = l, !.mode = "auto",
            !.hw = hw, !.account = TRUE]
    BY <1>3, Zenon DEF PrepareApp
  <2>2. AppOk' /\ app'.auto = TRUE /\ app'.success = FALSE
    BY <2>1, TemplatesFit DEF AppOk, FreshApp
  <2>3. /\ stack' = <<"progress">> /\ thread' = "starting" /\ starts' = 1 /\ phase' = "app"
        /\ late' = 0
    BY <1>1, <1>3 DEF PrepareApp
  <2>4. Climbs(stack')
    BY <2>3 DEF Climbs, Screen, Level
  <2> QED
    BY <2>2, <2>3, <2>4 DEF PathOk, Untouched, Counted, Honest
<1> QED
  BY <1>2, <1>3

\* So does the thread, the only one to store a success.
LEMMA ThreadKeeps == IInv /\ (Thread \/ Halt) => IInv'
<1> SUFFICES ASSUME IInv, Thread \/ Halt PROVE IInv'
  OBVIOUS
<1> USE DEF main, install, widgets, IInv
<1>1. CASE ReadParams \/ PipelineEnds \/ Report \/ Halt
  <2>1. /\ phase = "app" /\ phase' \in {"app", "halted"}
        /\ UNCHANGED <<app, stack, built, late, starts>>
        /\ thread # "none" => thread' # "none"
        /\ thread = "returned" => thread' \in {"returned", "complete"}
        /\ thread = "complete" => thread' = "complete"
        /\ thread = "none" => thread' = "none"
    BY <1>1 DEF ReadParams, PipelineEnds, Report, Halt
  <2> QED
    BY <2>1 DEF AppOk, PathOk, Untouched, Counted, Honest
<1>2. CASE MarkSuccess
  <2>1. /\ phase = "app" /\ phase' = "app" /\ UNCHANGED <<stack, built, late, starts>>
        /\ thread = "installed" /\ thread' = "returned"
        /\ app' = [app EXCEPT !.success = TRUE, !.map = TRUE]
    BY <1>2 DEF MarkSuccess
  <2>2. AppOk' /\ app'.auto = app.auto
    BY <2>1 DEF AppOk, FreshApp
  <2> QED
    BY <2>1, <2>2 DEF PathOk, Untouched, Counted, Honest
<1> QED
  BY <1>1, <1>2 DEF Thread

\* The stack climbs, the thread starts at most once and the success is the thread's.
THEOREM Inductive == Spec => []IInv
<1>1. Init => IInv
  <2> SUFFICES ASSUME Init PROVE IInv
    OBVIOUS
  <2>1. app = FreshApp /\ stack = <<"welcome">> /\ built = {} /\ late = 0 /\ thread = "none"
        /\ starts = 0 /\ phase \in {"app", "preparing"}
    BY DEF Init
  <2>2. AppOk
    BY <2>1 DEF AppOk, FreshApp, NoTemplate
  <2>3. Climbs(stack) /\ app.auto = FALSE /\ app.success = FALSE
    BY <2>1 DEF Climbs, FreshApp, Screen, Level
  <2> QED
    BY <2>1, <2>2, <2>3 DEF IInv, PathOk, Untouched, Counted, Honest
<1>2. IInv /\ [Next]_vars => IInv'
  <2> SUFFICES ASSUME IInv, [Next]_vars PROVE IInv'
    OBVIOUS
  <2>1. CASE UNCHANGED vars
    BY <2>1 DEF vars, IInv, AppOk, PathOk, Untouched, Counted, Honest
  <2>2. CASE Quit
    BY <2>2, LeaveKeeps DEF Quit
  <2> QED
    BY <2>1, <2>2, ScreensKeep, LateKeeps, PrepareKeeps, ThreadKeeps DEF Next
<1> QED
  BY <1>1, <1>2, PTL DEF Spec

\* At most one installation per app: the progress screen that started it stays
\* in memory, and starts no other when it is shown again.
THEOREM StartsOnce == Spec => []OnePipeline
<1>1. IInv => OnePipeline
  BY DEF IInv, Counted, OnePipeline
<1> QED
  BY <1>1, Inductive, PTL

\* Status 0 of an automatic install means that its pipeline returned, because
\* the field main reads is only stored after that.
THEOREM StatusIsTrue == Spec => []TruthfulExit
<1>1. IInv => TruthfulExit
  BY DEF IInv, Honest, TruthfulExit
<1> QED
  BY <1>1, Inductive, PTL

-----------------------------------------------------------------------------
\* The mode and the template's modules are settled when a screen further in is
\* pushed: no screen above it is on the stack then, and none above it changes them.
LEMMA ScreensFollowPath == IInv /\ Path /\ Screens => Path'
<1> SUFFICES ASSUME IInv, Path, Screens PROVE Path'
  OBVIOUS
<1> USE DEF install, widgets, Path, ModeFollowsPath, ModulesAsTicked, Shown
<1>1. /\ DOMAIN app = DOMAIN FreshApp
      /\ {"slugs", "installed", "roles"} \subseteq DOMAIN app.template
      /\ DOMAIN FreshApp = {"auto", "onDone", "onFail", "device", "template", "layout", "raid",
                           "mode", "map", "hw", "account", "success"}
  BY DEF IInv, AppOk, FreshApp
\* Screens before the template screen.
<1>2. ASSUME NEW s \in {"welcome", "disk_select", "layout_select"}, On(s),
             NEW x \in Screen, Level[s] < Level[x], Level[x] < Level["template_select"], Push(x)
      PROVE  Path'
  <2>1. ToSet(stack') = ToSet(stack) \cup {x}
        /\ \A y \in ToSet(stack) : y = s \/ Level[y] < Level[s]
    BY <1>2, ScreenLeadsOn
  <2> QED
    BY <1>2, <2>1 DEF Level, Screen
<1>3. CASE Continue
  BY <1>3, <1>2 DEF Continue, Screen, Level
<1>4. CASE OpenNetwork
  BY <1>4, <1>2 DEF OpenNetwork, Screen, Level
<1>5. CASE SelectDisk
  BY <1>5, <1>2 DEF SelectDisk, Screen, Level
<1>6. CASE ConfigureRaid
  BY <1>6, <1>2 DEF ConfigureRaid, Screen, Level
<1>7. CASE OpenPartition
  BY <1>7, <1>2 DEF OpenPartition, Screen, Level
<1>8. CASE Connect
  BY <1>8 DEF Connect
\* The screens that settle something.
<1>9. CASE SelectLayout \/ ValidateMounts
  <2>1. PICK s \in {"layout_select", "partition"} :
          On(s) /\ Push("template_select") /\ app'.auto = app.auto
          /\ app'.mode = (IF s = "partition" THEN "manual" ELSE "auto")
    BY <1>1, <1>9 DEF SelectLayout, ValidateMounts
  <2>2. /\ ToSet(stack') = ToSet(stack) \cup {"template_select"}
        /\ \A y \in ToSet(stack) : y = s \/ Level[y] < Level[s]
        /\ s \in ToSet(stack)
    BY <2>1, ScreenLeadsOn, TopIsFurthest DEF Level, Screen, On, IInv, PathOk
  <2>3. "partition" \in ToSet(stack) <=> s = "partition"
    BY <2>2 DEF Level
  <2>4. "hardware_confirm" \notin ToSet(stack')
    BY <2>2 DEF Level
  <2> QED
    BY <2>1, <2>2, <2>3, <2>4
<1>10. CASE SelectTemplate \/ Tick
  <2>1. PICK s \in {"template_select", "module_select"} :
          On(s) /\ app'.auto = app.auto /\ app'.mode = app.mode
          /\ (stack' = stack \/ (s = "template_select" /\ Push("module_select")))
    BY <1>1, <1>10 DEF SelectTemplate, Tick
  <2>2. /\ ToSet(stack') = ToSet(stack) \/ ToSet(stack') = ToSet(stack) \cup {"module_select"}
        /\ \A y \in ToSet(stack) : y = s \/ Level[y] < Level[s]
        /\ s \in ToSet(stack)
    <3>1. /\ \A y \in ToSet(stack) : y = s \/ Level[y] < Level[s]
          /\ s \in ToSet(stack)
      BY <2>1, TopIsFurthest DEF On, IInv, PathOk
    <3>2. CASE stack' = stack
      BY <3>1, <3>2
    <3>3. CASE s = "template_select" /\ Push("module_select")
      BY <2>1, <3>1, <3>3, ScreenLeadsOn DEF Level, Screen
    <3> QED
      BY <2>1, <3>1, <3>2, <3>3
  <2>3. "hardware_confirm" \notin ToSet(stack')
    BY <2>2 DEF Level
  <2>4. /\ "template_select" \in ToSet(stack') => "template_select" \in ToSet(stack)
        /\ "partition" \in ToSet(stack') <=> "partition" \in ToSet(stack)
    BY <2>2
  <2>5. "template_select" \in ToSet(stack) <=> "template_select" \in ToSet(stack')
    BY <2>2
  <2> QED
    BY <2>1, <2>3, <2>4, <2>5
<1>11. CASE ApplyModules
  <2>1. /\ On("module_select") /\ Push("hardware_confirm") /\ boxes' = boxes
        /\ app'.auto = app.auto /\ app'.mode = app.mode /\ app'.template = Selected
    BY <1>1, <1>11 DEF ApplyModules
  <2>2. ToSet(stack') = ToSet(stack) \cup {"hardware_confirm"}
    BY <2>1, ScreenLeadsOn DEF Level, Screen
  <2>3. Selected.slugs = boxes /\ Selected.installed = boxes
    BY <1>1 DEF Selected
  <2> QED
    BY <2>1, <2>2, <2>3
\* Screens after those.
<1>12. CASE AcceptHardware \/ SkipHardware \/ SetUpUser \/ Install
  <2>1. PICK s \in {"hardware_confirm", "user_setup", "confirm"},
             x \in {"user_setup", "confirm", "progress"} :
          On(s) /\ Level[s] < Level[x] /\ Push(x) /\ boxes' = boxes
          /\ app'.auto = app.auto /\ app'.mode = app.mode /\ app'.template = app.template
    BY <1>1, <1>12 DEF AcceptHardware, SkipHardware, SetUpUser, Install, Level
  <2>2. ToSet(stack') = ToSet(stack) \cup {x}
    BY <2>1, ScreenLeadsOn DEF Level, Screen
  <2> QED
    BY <2>1, <2>2
\* Screens that go.
<1>13. CASE Back \/ BuildRaid
  <2>1. /\ phase = "app" /\ Last(stack) \notin {"welcome", "progress"}
        /\ app'.auto = app.auto /\ app'.mode = app.mode /\ app'.template = app.template
        /\ boxes' = boxes
    <3>1. CASE Back
      BY <3>1 DEF Back
    <3>2. CASE BuildRaid
      BY <1>1, <3>2 DEF BuildRaid, On
    <3> QED
      BY <1>13, <3>1, <3>2
  <2>2. ~app.auto /\ Climbs(stack) /\ Len(stack) # 1
    <3>1. PathOk
      BY DEF IInv
    <3>2. Last(stack) \notin {"welcome", "progress"}
      BY <2>1
    <3> QED
      BY <3>1, <3>2 DEF PathOk, Last
  <2>3. ToSet(Front(stack)) = ToSet(stack) \ {Last(stack)} /\ Climbs(Front(stack))
    BY <2>2, PopClimbs
  <2>4. \A y \in ToSet(stack) : y = Last(stack) \/ Level[y] < Level[Last(stack)]
    BY <2>2, TopIsFurthest
  <2>5. CASE stack' = Front(stack)
    BY <2>1, <2>3, <2>4, <2>5 DEF Level
  <2>6. CASE BuildRaid
    <3>1. Last(stack) = "raid_config" /\ stack' = Append(Front(stack), "layout_select")
      BY <2>6 DEF BuildRaid, On
    <3>2. Level[Last(Front(stack))] < Level["layout_select"] /\ "layout_select" \in Screen
      BY <2>3, <2>4, <3>1, TopIsFurthest DEF Level, Screen
    <3>3. ToSet(stack') = ToSet(Front(stack)) \cup {"layout_select"}
      BY <2>3, <3>1, <3>2, PushClimbs
    <3> QED
      BY <2>1, <2>3, <2>4, <3>1, <3>3 DEF Level
  <2> QED
    BY <1>13, <2>5, <2>6 DEF Back, Pop
<1> QED
  BY <1>3, <1>4, <1>5, <1>6, <1>7, <1>8, <1>9, <1>10, <1>11, <1>12, <1>13 DEF Screens

\* A late connection pops a screen, or the welcome screen and with it the app.
LEMMA RestFollowsPath == IInv /\ Path /\ (Quit \/ LateConnect) => Path'
<1> SUFFICES ASSUME IInv, Path, Quit \/ LateConnect PROVE Path'
  OBVIOUS
<1> USE DEF main, install, widgets, Path, ModeFollowsPath, ModulesAsTicked, Shown
<1>1. CASE phase = "app" /\ Leave
  <2>1. CASE UNCHANGED <<app, stack, boxes>>
    BY <2>1
  <2>2. CASE stack' = <<"welcome">>
    <3>1. ToSet(stack') = {"welcome"}
      BY <2>2 DEF ToSet
    <3> QED
      BY <3>1
  <2> QED
    BY <1>1, <2>1, <2>2 DEF Leave
<1>2. CASE Len(stack) # 1 /\ Pop /\ UNCHANGED <<app, boxes>>
  <2>1. ToSet(stack') = ToSet(stack) \ {Last(stack)}
        /\ \A y \in ToSet(stack) : y = Last(stack) \/ Level[y] < Level[Last(stack)]
    BY <1>2, PopClimbs, TopIsFurthest DEF Pop, IInv, PathOk
  <2> QED
    BY <1>2, <2>1 DEF Level
<1> QED
  BY <1>1, <1>2 DEF Quit, LateConnect

\* The app and its thread leave the screens alone, but for an automatic install.
LEMMA AppFollowsPath == IInv /\ Path /\ (PrepareFails \/ PrepareApp \/ Thread \/ Halt) => Path'
<1> SUFFICES ASSUME IInv, Path, PrepareFails \/ PrepareApp \/ Thread \/ Halt PROVE Path'
  OBVIOUS
<1> USE DEF main, install, widgets, Path, ModeFollowsPath, ModulesAsTicked, Shown
<1>1. CASE PrepareFails \/ ReadParams \/ PipelineEnds \/ Report \/ Halt
  BY <1>1 DEF PrepareFails, ReadParams, PipelineEnds, Report, Halt
<1>2. CASE MarkSuccess
  BY <1>2 DEF MarkSuccess, IInv, AppOk, FreshApp
<1>3. CASE PrepareApp
  <2>1. stack' = <<"progress">>
    BY <1>3 DEF PrepareApp
  <2>2. ToSet(stack') = {"progress"}
    BY <2>1 DEF ToSet
  <2> QED
    BY <2>2
<1> QED
  BY <1>1, <1>2, <1>3 DEF Thread

\* The way the user took decides the mode and the modules, whatever was chosen
\* and taken back before.
THEOREM FollowsPath == Spec => []Path
<1>1. Init => Path
  <2> SUFFICES ASSUME Init PROVE Path
    OBVIOUS
  <2>1. ToSet(stack) = {"welcome"}
    BY DEF Init, ToSet
  <2> QED
    BY <2>1 DEF Path, ModeFollowsPath, ModulesAsTicked, Shown
<1>2. IInv /\ Path /\ [Next]_vars => Path'
  <2>1. CASE UNCHANGED vars
    BY <2>1 DEF vars, Path, ModeFollowsPath, ModulesAsTicked, Shown
  <2> QED
    BY <2>1, ScreensFollowPath, RestFollowsPath, AppFollowsPath DEF Next
<1> QED
  BY <1>1, <1>2, Inductive, PTL DEF Spec

\* No installation onto the mounts of a manual setup the user backed out of.
THEOREM ModeIsOfThePath == Spec => []ModeFollowsPath
<1>1. Path => ModeFollowsPath
  BY DEF Path
<1> QED
  BY <1>1, FollowsPath, PTL

\* The modules installed are those whose boxes were ticked when the user went on.
THEOREM ModulesAreTicked == Spec => []ModulesAsTicked
<1>1. Path => ModulesAsTicked
  BY DEF Path
<1> QED
  BY <1>1, FollowsPath, PTL

-----------------------------------------------------------------------------
\* A category comes after those it depends on.
LEMMA CategoriesInOrder ==
  \A i, j \in DOMAIN Categories : Categories[j] \in CategoryDeps[Categories[i]] => j < i
<1>1. DOMAIN Categories = 1..6
  BY DEF Categories
<1>2. /\ Categories[1] = "base" /\ Categories[2] = "networking" /\ Categories[3] = "desktop"
      /\ Categories[4] = "dev-toolchain" /\ Categories[5] = "topic" /\ Categories[6] = "service"
  BY DEF Categories
<1>3. \A i \in 1..6 : Categories[i] \in ToSet(Categories)
  BY <1>1 DEF ToSet
<1>4. /\ CategoryDeps["base"] = {} /\ CategoryDeps["networking"] = {"base"}
      /\ CategoryDeps["desktop"] = {"networking"} /\ CategoryDeps["dev-toolchain"] = {"base"}
      /\ CategoryDeps["topic"] = {"desktop"} /\ CategoryDeps["service"] = {"base", "networking"}
  BY <1>2, <1>3 DEF CategoryDeps
<1> SUFFICES ASSUME NEW i \in 1..6, NEW j \in 1..6,
                    Categories[j] \in CategoryDeps[Categories[i]]
             PROVE  j < i
  BY <1>1
<1>5. i = 1 \/ i = 2 \/ i = 3 \/ i = 4 \/ i = 5 \/ i = 6
  OBVIOUS
<1>6. j = 1 \/ j = 2 \/ j = 3 \/ j = 4 \/ j = 5 \/ j = 6
  OBVIOUS
<1> QED
  BY <1>2, <1>4, <1>5, <1>6

\* The rank of a module is the place of its category.
LEMMA RankIsPlace ==
  \A s \in Slug : Rank(s) \in DOMAIN Categories /\ Categories[Rank(s)] = Category(s)
<1> TAKE s \in Slug
<1>1. \E i \in DOMAIN Categories : Categories[i] = Category(s)
  BY CatalogueAssumption DEF ToSet
<1> QED
  BY <1>1, Zenon DEF Rank

\* sort_key orders the modules completely.
LEMMA PrecedesOrders ==
  /\ \A s, t \in Slug : s = t \/ Precedes(s, t) \/ Precedes(t, s)
  /\ \A s, t \in Slug : ~(Precedes(s, t) /\ (s = t \/ Precedes(t, s)))
  /\ \A s, t, u \in Slug : Precedes(s, t) /\ Precedes(t, u) => Precedes(s, u)
<1>1. \A s \in Slug : s \in Int /\ Rank(s) \in Int
  BY RankIsPlace, CatalogueAssumption DEF Categories
<1> QED
  BY <1>1 DEF Precedes

\* A later module has more modules before it.
LEMMA PlacesIncrease ==
  ASSUME NEW S \in SUBSET Slug
  PROVE  /\ IsFiniteSet(S) /\ Cardinality(S) \in Nat
         /\ \A s \in S : Place(s, S) \in 1..Cardinality(S)
         /\ \A s, t \in S : Precedes(s, t) => Place(s, S) < Place(t, S)
<1> DEFINE Upto(s) == {t \in S : t = s \/ Precedes(t, s)}
<1>1. IsFiniteSet(S) /\ Cardinality(S) \in Nat
  <2>1. IsFiniteSet(Slug)
    BY CatalogueAssumption, FS_Interval
  <2> QED
    BY <2>1, FS_Subset, FS_CardinalityType
<1>2. \A s \in S : /\ IsFiniteSet(Upto(s)) /\ Cardinality(Upto(s)) \in Nat
                   /\ Cardinality(Upto(s)) <= Cardinality(S) /\ s \in Upto(s)
  <2> TAKE s \in S
  <2>1. Upto(s) \in SUBSET S /\ s \in Upto(s)
    OBVIOUS
  <2> QED
    BY <2>1, <1>1, FS_Subset, FS_CardinalityType
<1>3. \A s \in S : Place(s, S) = Cardinality(Upto(s))
  BY DEF Place
<1>4. \A s \in S : Cardinality(Upto(s)) # 0
  BY <1>2, FS_EmptySet
<1>5. ASSUME NEW s \in S, NEW t \in S, Precedes(s, t)
      PROVE  Cardinality(Upto(s)) < Cardinality(Upto(t))
  <2>1. Upto(s) \in SUBSET Upto(t)
    BY <1>5, PrecedesOrders
  <2>2. t \in Upto(t) /\ t \notin Upto(s)
    BY <1>5, PrecedesOrders
  <2>3. Cardinality(Upto(s)) <= Cardinality(Upto(t)) /\ Cardinality(Upto(s)) # Cardinality(Upto(t))
    BY <2>1, <2>2, <1>2, FS_Subset
  <2> QED
    BY <2>3, <1>2
<1> HIDE DEF Upto
<1> QED
  BY <1>1, <1>2, <1>3, <1>4, <1>5

\* Every place is taken, so the roles are all there, in their order.
LEMMA RolesInOrder ==
  ASSUME NEW slugs \in SUBSET Slug
  PROVE  \A i, j \in DOMAIN Roles(slugs) :
           /\ Roles(slugs)[i] \in slugs
           /\ Precedes(Roles(slugs)[j], Roles(slugs)[i]) => j < i
<1> DEFINE S == WithRole(slugs)
           place == [s \in S |-> Place(s, S)]
<1>1. S \in SUBSET Slug /\ S \subseteq slugs
  BY DEF WithRole
<1>2. /\ IsFiniteSet(S) /\ Cardinality(S) \in Nat
      /\ \A s \in S : Place(s, S) \in 1..Cardinality(S)
      /\ \A s, t \in S : Precedes(s, t) => Place(s, S) < Place(t, S)
  BY <1>1, PlacesIncrease
<1>3. place \in Injection(S, 1..Cardinality(S))
  <2>1. \A s, t \in S : Place(s, S) = Place(t, S) => s = t
    BY <1>1, <1>2, PrecedesOrders
  <2> QED
    BY <1>2, <2>1 DEF Injection, IsInjective
<1>4. place \in Surjection(S, 1..Cardinality(S))
  <2>1. IsFiniteSet(1..Cardinality(S)) /\ Cardinality(1..Cardinality(S)) = Cardinality(S)
    BY <1>2, FS_Interval
  <2> QED
    BY <1>3, <2>1, FS_Injection
<1>5. \A n \in 1..Cardinality(S) : \E s \in S : Place(s, S) = n
  BY <1>4 DEF Surjection
<1>6. DOMAIN Roles(slugs) = 1..Cardinality(S)
  BY DEF Roles
<1>7. \A n \in 1..Cardinality(S) :
        Roles(slugs)[n] \in S /\ Place(Roles(slugs)[n], S) = n
  <2> TAKE n \in 1..Cardinality(S)
  <2>1. Roles(slugs)[n] = CHOOSE s \in S : Place(s, S) = n
    BY DEF Roles
  <2> QED
    BY <1>5, <2>1, Zenon
<1> HIDE DEF S
<1> QED
  BY <1>1, <1>2, <1>6, <1>7

\* A selection that resolves may be installed, its roles in the order they have.
LEMMA ResolvableIsCoherent ==
  ASSUME NEW t, Resolvable(t.installed), t.roles = Roles(t.installed)
  PROVE  Coherent(t)
<1> DEFINE R == Roles(t.installed)
<1>1. t.installed \in SUBSET Slug
  BY DEF Resolvable
<1>2. \A i, j \in DOMAIN R : R[i] \in Slug /\ (Precedes(R[j], R[i]) => j < i)
  BY <1>1, RolesInOrder
<1>3. ASSUME NEW i \in DOMAIN R, NEW j \in DOMAIN R,
             Category(R[j]) \in CategoryDeps[Category(R[i])]
      PROVE  j < i
  <2>1. R[i] \in Slug /\ R[j] \in Slug
    BY <1>2
  <2>2. Rank(R[j]) < Rank(R[i])
    BY <1>3, <2>1, RankIsPlace, CategoriesInOrder
  <2> QED
    BY <1>2, <2>2 DEF Precedes
<1> QED
  BY <1>3 DEF Coherent

-----------------------------------------------------------------------------
\* The screens the user sees once the device, the partitioning and the account
\* were asked for, and those fields of an app with an answer.
Modes == {"manual", "auto"}
AfterAccount == {"confirm", "progress"}
AfterMode == {"template_select", "module_select", "hardware_confirm", "user_setup"}
             \cup AfterAccount
AfterDevice == {"layout_select", "partition"} \cup AfterMode
Past(screens) == thread # "none" \/ ToSet(stack) \cap screens # {}

\* The fields agree with each other whatever is still to be asked.
Consistent(a) ==
  /\ Coherent(a.template)
  /\ a.mode = "manual" => a.map = TRUE
  /\ a.mode = "auto" => a.layout \in Layouts

\* An answer may be changed, and is never taken back while the app lasts.
KeepsAnswers(a, b) ==
  /\ a.device \in Device => b.device \in Device
  /\ a.mode \in Modes => b.mode \in Modes
  /\ a.account = TRUE => b.account = TRUE

Ready ==
  /\ Consistent(app)
  /\ Past(AfterDevice) => app.device \in Device
  /\ Past(AfterMode) => app.mode \in Modes
  /\ Past(AfterAccount) => app.account = TRUE

\* Without a template there is nothing to disagree.
LEMMA FreshIsConsistent == Consistent(FreshApp)
<1>1. Resolvable({})
  BY FS_EmptySet DEF Resolvable
<1>2. Coherent(NoTemplate)
  BY <1>1 DEF Coherent, NoTemplate
<1> QED
  BY <1>2 DEF Consistent, FreshApp, Nothing

\* What is merged, offered or ticked is coherent.
LEMMA MergedIsCoherent ==
  /\ \A t : Mergeable(t) => Coherent(Merged(t))
  /\ \A t \in Offered(iso) : Coherent(t)
  /\ IInv /\ Resolvable(boxes) => Coherent(Selected)
<1>1. ASSUME NEW t, Mergeable(t) PROVE Coherent(Merged(t))
  <2>1. /\ Resolvable(Merged(t).installed)
        /\ Merged(t).roles = Roles(Merged(t).installed)
    BY <1>1 DEF Mergeable, Merged
  <2> QED
    BY <2>1, ResolvableIsCoherent
<1>2. ASSUME NEW t \in Offered(iso) PROVE Coherent(t)
  <2>1. PICK u \in iso : Mergeable(u) /\ t = Merged(u)
    BY <1>2 DEF Offered
  <2> QED
    BY <2>1, <1>1
<1>3. ASSUME IInv, Resolvable(boxes) PROVE Coherent(Selected)
  <2>1. Selected.installed = boxes /\ Selected.roles = Roles(boxes)
    BY <1>3 DEF Selected, IInv, AppOk
  <2> QED
    BY <2>1, <1>3, ResolvableIsCoherent
<1> QED
  BY <1>1, <1>2, <1>3

\* A screen is pushed: what the new one comes after was asked for by this step
\* or by a screen below.
LEMMA PushReady ==
  ASSUME IInv, Ready, NEW s \in Screen \ {"progress"}, On(s),
         NEW x \in Screen, Level[s] < Level[x], Push(x),
         thread' = thread \/ x = "progress",
         Consistent(app'), KeepsAnswers(app, app'),
         x \in AfterDevice => s \in AfterDevice \/ app'.device \in Device,
         x \in AfterMode => s \in AfterMode \/ app'.mode \in Modes,
         x \in AfterAccount => s \in AfterAccount \/ app'.account = TRUE
  PROVE  Ready'
<1>1. ToSet(stack') = ToSet(stack) \cup {x}
  BY ScreenLeadsOn
<1>2. s \in ToSet(stack)
  BY TopIsFurthest DEF On, IInv, PathOk
<1>3. /\ AfterAccount \subseteq AfterMode /\ AfterMode \subseteq AfterDevice
      /\ "progress" \in AfterAccount
  BY DEF AfterDevice, AfterMode, AfterAccount
<1>4. ASSUME NEW A \in SUBSET Screen, "progress" \in A, Past(A)'
      PROVE  Past(A) \/ (x \in A /\ s \notin A)
  BY <1>1, <1>2, <1>4 DEF Past
<1>5. AfterDevice \subseteq Screen
  BY DEF AfterDevice, AfterMode, AfterAccount, Screen, Level
<1>6. Past(AfterDevice)' => app'.device \in Device
  BY <1>3, <1>4, <1>5 DEF Ready, KeepsAnswers
<1>7. Past(AfterMode)' => app'.mode \in Modes
  BY <1>3, <1>4, <1>5 DEF Ready, KeepsAnswers
<1>8. Past(AfterAccount)' => app'.account = TRUE
  BY <1>3, <1>4, <1>5 DEF Ready, KeepsAnswers
<1> QED
  BY <1>6, <1>7, <1>8 DEF Ready

\* Screens go or stay.
LEMMA PopReady ==
  ASSUME IInv, Ready, ToSet(stack') \subseteq ToSet(stack), thread # "none" <=> thread' # "none",
         app' = app
  PROVE  Ready'
BY DEF Ready, Past

\* Each screen asks for its own: no way leads past one that was not answered.
LEMMA ScreensReady == IInv /\ Ready /\ Screens => Ready'
<1> SUFFICES ASSUME IInv, Ready, Screens PROVE Ready'
  OBVIOUS
<1> USE DEF install, widgets
<1>1. /\ DOMAIN app = DOMAIN FreshApp
      /\ Consistent(app)
      /\ DOMAIN FreshApp = {"auto", "onDone", "onFail", "device", "template", "layout", "raid",
                           "mode", "map", "hw", "account", "success"}
  BY DEF IInv, AppOk, FreshApp, Ready
<1>2. CASE Continue
  <2>1. /\ On("welcome") /\ Push("disk_select") /\ thread' = thread
        /\ Consistent(app') /\ KeepsAnswers(app, app')
    BY <1>1, <1>2 DEF Continue, Consistent, KeepsAnswers
  <2>2. /\ "welcome" \in Screen \ {"progress"} /\ "disk_select" \in Screen
        /\ Level["welcome"] < Level["disk_select"]
    BY DEF Screen, Level
  <2>3. /\ "disk_select" \in AfterDevice => "welcome" \in AfterDevice \/ app'.device \in Device
        /\ "disk_select" \in AfterMode => "welcome" \in AfterMode \/ app'.mode \in Modes
        /\ "disk_select" \in AfterAccount => "welcome" \in AfterAccount \/ app'.account = TRUE
    BY <2>1 DEF AfterDevice, AfterMode, AfterAccount
  <2> QED
    BY <2>1, <2>2, <2>3, PushReady
<1>3. CASE OpenNetwork
  <2>1. /\ On("welcome") /\ Push("network") /\ thread' = thread
        /\ Consistent(app') /\ KeepsAnswers(app, app')
    BY <1>1, <1>3 DEF OpenNetwork, Consistent, KeepsAnswers
  <2>2. /\ "welcome" \in Screen \ {"progress"} /\ "network" \in Screen
        /\ Level["welcome"] < Level["network"]
    BY DEF Screen, Level
  <2>3. /\ "network" \in AfterDevice => "welcome" \in AfterDevice \/ app'.device \in Device
        /\ "network" \in AfterMode => "welcome" \in AfterMode \/ app'.mode \in Modes
        /\ "network" \in AfterAccount => "welcome" \in AfterAccount \/ app'.account = TRUE
    BY <2>1 DEF AfterDevice, AfterMode, AfterAccount
  <2> QED
    BY <2>1, <2>2, <2>3, PushReady
<1>4. CASE SelectDisk
  <2>1. /\ On("disk_select") /\ Push("layout_select") /\ thread' = thread
        /\ app'.device = "disk"
        /\ Consistent(app') /\ KeepsAnswers(app, app')
    BY <1>1, <1>4 DEF SelectDisk, Consistent, KeepsAnswers, Device
  <2>2. /\ "disk_select" \in Screen \ {"progress"} /\ "layout_select" \in Screen
        /\ Level["disk_select"] < Level["layout_select"]
    BY DEF Screen, Level
  <2>3. /\ "layout_select" \in AfterDevice => "disk_select" \in AfterDevice \/ app'.device \in Device
        /\ "layout_select" \in AfterMode => "disk_select" \in AfterMode \/ app'.mode \in Modes
        /\ "layout_select" \in AfterAccount => "disk_select" \in AfterAccount \/ app'.account = TRUE
    BY <2>1 DEF AfterDevice, AfterMode, AfterAccount, Device
  <2> QED
    BY <2>1, <2>2, <2>3, PushReady
<1>5. CASE ConfigureRaid
  <2>1. /\ On("disk_select") /\ Push("raid_config") /\ thread' = thread
        /\ Consistent(app') /\ KeepsAnswers(app, app')
    BY <1>1, <1>5 DEF ConfigureRaid, Consistent, KeepsAnswers
  <2>2. /\ "disk_select" \in Screen \ {"progress"} /\ "raid_config" \in Screen
        /\ Level["disk_select"] < Level["raid_config"]
    BY DEF Screen, Level
  <2>3. /\ "raid_config" \in AfterDevice => "disk_select" \in AfterDevice \/ app'.device \in Device
        /\ "raid_config" \in AfterMode => "disk_select" \in AfterMode \/ app'.mode \in Modes
        /\ "raid_config" \in AfterAccount => "disk_select" \in AfterAccount \/ app'.account = TRUE
    BY <2>1 DEF AfterDevice, AfterMode, AfterAccount
  <2> QED
    BY <2>1, <2>2, <2>3, PushReady
<1>6. CASE OpenPartition
  <2>1. /\ On("layout_select") /\ Push("partition") /\ thread' = thread
        /\ Consistent(app') /\ KeepsAnswers(app, app')
    BY <1>1, <1>6 DEF OpenPartition, Consistent, KeepsAnswers
  <2>2. /\ "layout_select" \in Screen \ {"progress"} /\ "partition" \in Screen
        /\ Level["layout_select"] < Level["partition"]
    BY DEF Screen, Level
  <2>3. /\ "partition" \in AfterDevice => "layout_select" \in AfterDevice \/ app'.device \in Device
        /\ "partition" \in AfterMode => "layout_select" \in AfterMode \/ app'.mode \in Modes
        /\ "partition" \in AfterAccount => "layout_select" \in AfterAccount \/ app'.account = TRUE
    BY <2>1 DEF AfterDevice, AfterMode, AfterAccount
  <2> QED
    BY <2>1, <2>2, <2>3, PushReady
<1>7. CASE SelectLayout
  <2>1. /\ On("layout_select") /\ Push("template_select") /\ thread' = thread
        /\ app'.mode = "auto"
        /\ Consistent(app') /\ KeepsAnswers(app, app')
    BY <1>1, <1>7 DEF SelectLayout, Consistent, KeepsAnswers, Modes
  <2>2. /\ "layout_select" \in Screen \ {"progress"} /\ "template_select" \in Screen
        /\ Level["layout_select"] < Level["template_select"]
    BY DEF Screen, Level
  <2>3. /\ "template_select" \in AfterDevice => "layout_select" \in AfterDevice \/ app'.device \in Device
        /\ "template_select" \in AfterMode => "layout_select" \in AfterMode \/ app'.mode \in Modes
        /\ "template_select" \in AfterAccount => "layout_select" \in AfterAccount \/ app'.account = TRUE
    BY <2>1 DEF AfterDevice, AfterMode, AfterAccount, Modes
  <2> QED
    BY <2>1, <2>2, <2>3, PushReady
<1>8. CASE ValidateMounts
  <2>1. /\ On("partition") /\ Push("template_select") /\ thread' = thread
        /\ app'.mode = "manual"
        /\ Consistent(app') /\ KeepsAnswers(app, app')
    BY <1>1, <1>8 DEF ValidateMounts, Consistent, KeepsAnswers, Modes
  <2>2. /\ "partition" \in Screen \ {"progress"} /\ "template_select" \in Screen
        /\ Level["partition"] < Level["template_select"]
    BY DEF Screen, Level
  <2>3. /\ "template_select" \in AfterDevice => "partition" \in AfterDevice \/ app'.device \in Device
        /\ "template_select" \in AfterMode => "partition" \in AfterMode \/ app'.mode \in Modes
        /\ "template_select" \in AfterAccount => "partition" \in AfterAccount \/ app'.account = TRUE
    BY <2>1 DEF AfterDevice, AfterMode, AfterAccount, Modes
  <2> QED
    BY <2>1, <2>2, <2>3, PushReady
<1>9. CASE SelectTemplate
  <2>1. /\ On("template_select") /\ Push("module_select") /\ thread' = thread
        /\ Consistent(app') /\ KeepsAnswers(app, app')
    <3>1. PICK t \in Offered(iso) : app' = [app EXCEPT !.template = t]
      BY <1>9 DEF SelectTemplate
    <3>2. Coherent(t)
      BY MergedIsCoherent
    <3> QED
      BY <1>1, <1>9, <3>1, <3>2 DEF SelectTemplate, Consistent, KeepsAnswers
  <2>2. /\ "template_select" \in Screen \ {"progress"} /\ "module_select" \in Screen
        /\ Level["template_select"] < Level["module_select"]
    BY DEF Screen, Level
  <2>3. /\ "module_select" \in AfterDevice => "template_select" \in AfterDevice \/ app'.device \in Device
        /\ "module_select" \in AfterMode => "template_select" \in AfterMode \/ app'.mode \in Modes
        /\ "module_select" \in AfterAccount => "template_select" \in AfterAccount \/ app'.account = TRUE
    BY <2>1 DEF AfterDevice, AfterMode, AfterAccount
  <2> QED
    BY <2>1, <2>2, <2>3, PushReady
<1>10. CASE ApplyModules
  <2>1. /\ On("module_select") /\ Push("hardware_confirm") /\ thread' = thread
        /\ Consistent(app') /\ KeepsAnswers(app, app')
    <3>1. Coherent(Selected)
      BY <1>10, MergedIsCoherent DEF ApplyModules
    <3> QED
      BY <1>1, <1>10, <3>1 DEF ApplyModules, Consistent, KeepsAnswers
  <2>2. /\ "module_select" \in Screen \ {"progress"} /\ "hardware_confirm" \in Screen
        /\ Level["module_select"] < Level["hardware_confirm"]
    BY DEF Screen, Level
  <2>3. /\ "hardware_confirm" \in AfterDevice => "module_select" \in AfterDevice \/ app'.device \in Device
        /\ "hardware_confirm" \in AfterMode => "module_select" \in AfterMode \/ app'.mode \in Modes
        /\ "hardware_confirm" \in AfterAccount => "module_select" \in AfterAccount \/ app'.account = TRUE
    BY <2>1 DEF AfterDevice, AfterMode, AfterAccount
  <2> QED
    BY <2>1, <2>2, <2>3, PushReady
<1>11. CASE AcceptHardware
  <2>1. /\ On("hardware_confirm") /\ Push("user_setup") /\ thread' = thread
        /\ Consistent(app') /\ KeepsAnswers(app, app')
    BY <1>1, <1>11 DEF AcceptHardware, Consistent, KeepsAnswers
  <2>2. /\ "hardware_confirm" \in Screen \ {"progress"} /\ "user_setup" \in Screen
        /\ Level["hardware_confirm"] < Level["user_setup"]
    BY DEF Screen, Level
  <2>3. /\ "user_setup" \in AfterDevice => "hardware_confirm" \in AfterDevice \/ app'.device \in Device
        /\ "user_setup" \in AfterMode => "hardware_confirm" \in AfterMode \/ app'.mode \in Modes
        /\ "user_setup" \in AfterAccount => "hardware_confirm" \in AfterAccount \/ app'.account = TRUE
    BY <2>1 DEF AfterDevice, AfterMode, AfterAccount
  <2> QED
    BY <2>1, <2>2, <2>3, PushReady
<1>12. CASE SkipHardware
  <2>1. /\ On("hardware_confirm") /\ Push("user_setup") /\ thread' = thread
        /\ Consistent(app') /\ KeepsAnswers(app, app')
    BY <1>1, <1>12 DEF SkipHardware, Consistent, KeepsAnswers
  <2>2. /\ "hardware_confirm" \in Screen \ {"progress"} /\ "user_setup" \in Screen
        /\ Level["hardware_confirm"] < Level["user_setup"]
    BY DEF Screen, Level
  <2>3. /\ "user_setup" \in AfterDevice => "hardware_confirm" \in AfterDevice \/ app'.device \in Device
        /\ "user_setup" \in AfterMode => "hardware_confirm" \in AfterMode \/ app'.mode \in Modes
        /\ "user_setup" \in AfterAccount => "hardware_confirm" \in AfterAccount \/ app'.account = TRUE
    BY <2>1 DEF AfterDevice, AfterMode, AfterAccount
  <2> QED
    BY <2>1, <2>2, <2>3, PushReady
<1>13. CASE SetUpUser
  <2>1. /\ On("user_setup") /\ Push("confirm") /\ thread' = thread
        /\ app'.account = TRUE
        /\ Consistent(app') /\ KeepsAnswers(app, app')
    BY <1>1, <1>13 DEF SetUpUser, Consistent, KeepsAnswers
  <2>2. /\ "user_setup" \in Screen \ {"progress"} /\ "confirm" \in Screen
        /\ Level["user_setup"] < Level["confirm"]
    BY DEF Screen, Level
  <2>3. /\ "confirm" \in AfterDevice => "user_setup" \in AfterDevice \/ app'.device \in Device
        /\ "confirm" \in AfterMode => "user_setup" \in AfterMode \/ app'.mode \in Modes
        /\ "confirm" \in AfterAccount => "user_setup" \in AfterAccount \/ app'.account = TRUE
    BY <2>1 DEF AfterDevice, AfterMode, AfterAccount
  <2> QED
    BY <2>1, <2>2, <2>3, PushReady
<1>14. CASE Install
  <2>1. /\ On("confirm") /\ Push("progress")
        /\ Consistent(app') /\ KeepsAnswers(app, app')
    BY <1>1, <1>14 DEF Install, Consistent, KeepsAnswers
  <2>2. /\ "confirm" \in Screen \ {"progress"} /\ "progress" \in Screen
        /\ Level["confirm"] < Level["progress"]
    BY DEF Screen, Level
  <2>3. /\ "progress" \in AfterDevice => "confirm" \in AfterDevice \/ app'.device \in Device
        /\ "progress" \in AfterMode => "confirm" \in AfterMode \/ app'.mode \in Modes
        /\ "progress" \in AfterAccount => "confirm" \in AfterAccount \/ app'.account = TRUE
    BY <2>1 DEF AfterDevice, AfterMode, AfterAccount
  <2> QED
    BY <2>1, <2>2, <2>3, PushReady
<1>15. CASE Connect \/ Tick
  BY <1>15, PopReady DEF Connect, Tick
<1>16. CASE Back \/ BuildRaid
  <2>1. Last(stack) \notin {"welcome", "progress"} /\ UNCHANGED <<thread>>
    BY <1>16 DEF Back, BuildRaid, On
  <2>2. Climbs(stack) /\ Len(stack) # 1
    BY <2>1 DEF IInv, PathOk, Last
  <2>3. ToSet(Front(stack)) = ToSet(stack) \ {Last(stack)} /\ Climbs(Front(stack))
    BY <2>2, PopClimbs
  <2>4. CASE Back
    BY <2>1, <2>3, <2>4, PopReady DEF Back, Pop
  <2>5. CASE BuildRaid
    <3>1. /\ Last(stack) = "raid_config" /\ stack' = Append(Front(stack), "layout_select")
          /\ app' = [app EXCEPT !.raid = TRUE, !.device = "raid_member"]
      BY <2>5 DEF BuildRaid, On
    <3>2. Level[Last(Front(stack))] < Level["layout_select"] /\ "layout_select" \in Screen
      BY <2>2, <2>3, <3>1, TopIsFurthest DEF Level, Screen
    <3>3. ToSet(stack') \subseteq ToSet(stack) \cup {"layout_select"}
      BY <2>3, <3>1, <3>2, PushClimbs
    <3>4. /\ app'.device \in Device /\ app'.mode = app.mode /\ app'.account = app.account
          /\ Consistent(app')
      BY <1>1, <3>1 DEF Device, Consistent
    <3>5. /\ Past(AfterMode)' => Past(AfterMode)
          /\ Past(AfterAccount)' => Past(AfterAccount)
      BY <2>1, <3>3 DEF Past, AfterMode, AfterAccount
    <3> QED
      BY <3>4, <3>5 DEF Ready
  <2> QED
    BY <1>16, <2>4, <2>5
<1> QED
  BY <1>2, <1>3, <1>4, <1>5, <1>6, <1>7, <1>8, <1>9, <1>10, <1>11, <1>12, <1>13, <1>14, <1>15, <1>16 DEF Screens

\* The end of an app, or one that starts over, and what others do to the screens.
LEMMA RestReady == IInv /\ Ready /\ (Quit \/ LateConnect \/ PrepareFails) => Ready'
<1> SUFFICES ASSUME IInv, Ready, Quit \/ LateConnect \/ PrepareFails PROVE Ready'
  OBVIOUS
<1> USE DEF main, install, widgets
<1>1. CASE phase = "app" /\ Leave
  <2>1. CASE UNCHANGED <<app, stack, thread>>
    BY <2>1 DEF Ready, Past
  <2>2. CASE app' = FreshApp /\ stack' = <<"welcome">> /\ thread' = "none"
    <3>1. ToSet(stack') = {"welcome"}
      BY <2>2 DEF ToSet
    <3> QED
      BY <2>2, <3>1, FreshIsConsistent
      DEF Ready, Past, AfterDevice, AfterMode, AfterAccount
  <2> QED
    BY <1>1, <2>1, <2>2 DEF Leave
<1>2. CASE Len(stack) # 1 /\ Pop /\ UNCHANGED <<app, thread>>
  BY <1>2, PopClimbs, PopReady DEF Pop, IInv, PathOk
<1>3. CASE PrepareFails
  BY <1>3, PopReady DEF PrepareFails
<1> QED
  BY <1>1, <1>2, <1>3 DEF Quit, LateConnect

\* An automatic install brings all the answers with it; its thread takes none away.
LEMMA AppReady == IInv /\ Ready /\ (PrepareApp \/ Thread \/ Halt) => Ready'
<1> SUFFICES ASSUME IInv, Ready, PrepareApp \/ Thread \/ Halt PROVE Ready'
  OBVIOUS
<1> USE DEF main, install, widgets
<1>1. CASE PrepareApp
  <2>1. PICK t \in iso, d \in Device, l \in Layouts, hw \in BOOLEAN,
             done \in Finals, failed \in Finals :
          Mergeable(t) /\ app' = [FreshApp EXCEPT
            !.auto = TRUE, !.onDone = done, !.onFail = failed, !.device = d,
            !.template = Merged(t), !.layout = l, !.mode = "auto",
            !.hw = hw, !.account = TRUE]
    BY <1>1, Zenon DEF PrepareApp
  <2>2. Coherent(Merged(t))
    BY <2>1, MergedIsCoherent
  <2> QED
    BY <2>1, <2>2 DEF Ready, Consistent, FreshApp, Modes
<1>2. CASE ReadParams \/ PipelineEnds \/ Report \/ Halt
  <2>1. app' = app /\ stack' = stack /\ (thread # "none" <=> thread' # "none")
    BY <1>2 DEF ReadParams, PipelineEnds, Report, Halt
  <2> QED
    BY <2>1, PopReady
<1>3. CASE MarkSuccess
  <2>1. /\ thread # "none" /\ app' = [app EXCEPT !.success = TRUE, !.map = TRUE]
    BY <1>3 DEF MarkSuccess
  <2> QED
    BY <2>1 DEF Ready, Past, Consistent, IInv, AppOk, FreshApp
<1> QED
  BY <1>1, <1>2, <1>3 DEF Thread

\* Whatever the user chose, took back and chose again, and wherever a late
\* connection put the screens, what the thread hands to the pipeline is
\* complete, and its parts are of one piece.
THEOREM ParamsAreReady == Spec => []InstallReady
<1>1. Init => Ready
  <2> SUFFICES ASSUME Init PROVE Ready
    OBVIOUS
  <2>1. ToSet(stack) = {"welcome"}
    BY DEF Init, ToSet
  <2> QED
    BY <2>1, FreshIsConsistent DEF Init, Ready, Past, AfterDevice, AfterMode, AfterAccount
<1>2. IInv /\ Ready /\ [Next]_vars => Ready'
  <2>1. CASE UNCHANGED vars
    BY <2>1 DEF vars, Ready, Past
  <2> QED
    BY <2>1, ScreensReady, RestReady, AppReady DEF Next
<1>3. Ready => InstallReady
  <2> SUFFICES ASSUME Ready, thread = "starting"
               PROVE  /\ Coherent(Params.template)
                      /\ Params.device \in Device /\ Params.account
                      /\ Params.map # (Params.layout \in Layouts)
    BY DEF InstallReady
  <2>1. /\ Consistent(app) /\ app.device \in Device /\ app.mode \in Modes
        /\ app.account = TRUE
    BY DEF Ready, Past
  <2>2. CASE app.mode = "manual"
    BY <2>1, <2>2, LayoutsAssumption DEF Params, Consistent
  <2>3. CASE app.mode = "auto"
    BY <2>1, <2>3 DEF Params, Consistent
  <2> QED
    BY <2>1, <2>2, <2>3 DEF Modes
<1> QED
  BY <1>1, <1>2, <1>3, Inductive, PTL DEF Spec
=============================================================================
