------------------------- MODULE NetworkScreen_proofs -------------------------
(***************************************************************************)
(* Proofs about NetworkScreen for any interfaces and any number of scans,  *)
(* networks, connections and profiles: late answers never index past a     *)
(* list, never leave a spinner turning over nothing, and never lose the    *)
(* profile of a wired address that was reported as applied.                *)
(***************************************************************************)
EXTENDS NetworkScreen, SequenceTheorems, TLAPS

USE BoundsAssumption

\* A worker's step changes the stage of its own attempt and nothing else.
LEMMA ToKeeps ==
  ASSUME attempts \in Seq(Attempt), NEW n \in DOMAIN attempts,
         NEW S, S \subseteq Stages, To(n, S)
  PROVE  /\ attempts' \in Seq(Attempt) /\ Len(attempts') = Len(attempts)
         /\ DOMAIN attempts' = DOMAIN attempts
         /\ attempts'[n].stage \in S
         /\ \A m \in DOMAIN attempts :
              /\ m # n => attempts'[m] = attempts[m]
              /\ attempts'[m].kind = attempts[m].kind
              /\ attempts'[m].alone = attempts[m].alone
<1>1. PICK s \in S : attempts' = [attempts EXCEPT ![n].stage = s]
  BY DEF To
<1>2. attempts[n] \in Attempt /\ s \in Stages
  OBVIOUS
<1>3. attempts'[n] = [attempts[n] EXCEPT !.stage = s]
  BY <1>1
<1>4. attempts'[n] \in Attempt /\ attempts'[n].stage = s
      /\ attempts'[n].kind = attempts[n].kind /\ attempts'[n].alone = attempts[n].alone
  BY <1>2, <1>3 DEF Attempt
<1>5. \A m \in DOMAIN attempts : m # n => attempts'[m] = attempts[m]
  BY <1>1
<1>6. attempts' \in Seq(Attempt) /\ Len(attempts') = Len(attempts)
  BY <1>1, <1>4, <1>5
<1> QED
  BY <1>4, <1>5, <1>6

\* A new attempt comes last; those before it keep their kind and stage, and are
\* not alone any more.
LEMMA BeginAdds ==
  ASSUME attempts \in Seq(Attempt), NEW kind \in Kind, NEW dns \in BOOLEAN,
         NEW stage \in Stages, Begin(kind, dns, stage)
  PROVE  /\ attempts' \in Seq(Attempt) /\ Len(attempts') = Len(attempts) + 1
         /\ DOMAIN attempts' = DOMAIN attempts \cup {Len(attempts) + 1}
         /\ Len(attempts') <= MaxAttempts
         /\ \A m \in DOMAIN attempts :
              /\ attempts'[m].kind = attempts[m].kind /\ attempts'[m].stage = attempts[m].stage
              /\ attempts'[m].alone = FALSE
         /\ LET new == attempts'[Len(attempts) + 1]
            IN  /\ new.kind = kind /\ new.stage = stage
                /\ new.alone => \A m \in DOMAIN attempts : attempts[m].stage \in Handled
<1> DEFINE busy == \E m \in DOMAIN attempts : attempts[m].stage \notin Handled
           new == [kind |-> kind, dns |-> dns, stage |-> stage, alone |-> ~busy]
           old == [m \in DOMAIN attempts |-> [attempts[m] EXCEPT !.alone = FALSE]]
<1>1. attempts' = Append(old, new) /\ Len(attempts) < MaxAttempts
  BY DEF Begin
<1>2. busy \in BOOLEAN
  OBVIOUS
<1>3. new \in Attempt
  BY <1>2 DEF Attempt
<1>4. \A m \in DOMAIN attempts :
        /\ old[m] \in Attempt /\ old[m].kind = attempts[m].kind
        /\ old[m].stage = attempts[m].stage /\ old[m].alone = FALSE
  <2> SUFFICES ASSUME NEW m \in DOMAIN attempts
               PROVE  /\ old[m] \in Attempt /\ old[m].kind = attempts[m].kind
                      /\ old[m].stage = attempts[m].stage /\ old[m].alone = FALSE
    OBVIOUS
  <2>1. attempts[m] \in Attempt /\ old[m] = [attempts[m] EXCEPT !.alone = FALSE]
    OBVIOUS
  <2> HIDE DEF old
  <2> QED
    BY <2>1 DEF Attempt
<1>5. old \in Seq(Attempt) /\ Len(old) = Len(attempts)
  BY <1>4
<1> HIDE DEF new, old
<1>6. attempts' \in Seq(Attempt) /\ Len(attempts') = Len(attempts) + 1
      /\ attempts'[Len(attempts) + 1] = new
      /\ \A m \in DOMAIN attempts : attempts'[m] = old[m]
  BY <1>1, <1>3, <1>5
<1>7. DOMAIN attempts' = DOMAIN attempts \cup {Len(attempts) + 1}
  BY <1>6
<1>8. new.alone => \A m \in DOMAIN attempts : attempts[m].stage \in Handled
  <2>1. CASE busy
    BY <2>1 DEF new
  <2> QED
    BY <2>1
<1>9. new.kind = kind /\ new.stage = stage
  BY DEF new
<1> QED
  BY <1>1, <1>4, <1>6, <1>7, <1>8, <1>9

-----------------------------------------------------------------------------
\* The screen's fields and its widgets keep to their values, the workers' stages
\* to theirs.
ScreenOk ==
  /\ top \in {"welcome", "network", "later", "quit", "stack_error", "index_error"}
  /\ built \in BOOLEAN /\ loading \in BOOLEAN /\ step \in Steps
  /\ ifaces \in InterfaceLists \cup {<<>>} /\ iface \in Kind \cup {NoKind}
  /\ nets \in 0..MaxNetworks /\ scans \in Nat
  /\ listed \in {"nothing", "scanning", "empty", "networks"}
WorkersOk ==
  /\ attempts \in Seq(Attempt) /\ Len(attempts) <= MaxAttempts
  /\ profiles \in 0..MaxProfiles

\* What nmcli lists has a known type.
LEMMA Elements ==
  ASSUME NEW list \in InterfaceLists \cup {<<>>}, NEW i \in Nat, i \in 1..Len(list)
  PROVE  list[i] \in Kind
<1>1. CASE list \in InterfaceLists
  <2>1. list \in Seq(Kind)
    BY <1>1, InterfaceListsAssumption
  <2> QED
    BY <2>1, ElementOfSeq
<1>2. CASE list = <<>>
  BY <1>2
<1> QED
  BY <1>1, <1>2

\* Every step keeps the screen's fields to their values.
LEMMA ScreenNext == ScreenOk /\ [Next]_vars => ScreenOk'
<1> SUFFICES ASSUME ScreenOk, [Next]_vars PROVE ScreenOk'
  OBVIOUS
<1> USE DEF ScreenOk, Steps
<1>1. CASE OpenNetwork \/ Elsewhere \/ Quit
  BY <1>1 DEF OpenNetwork, Elsewhere, Quit, screen
<1>2. CASE Back
  BY <1>2 DEF Back, PopScreen
<1>3. CASE SelectIface
  <2>1. PICK i \in DOMAIN ifaces :
           /\ iface' = ifaces[i]
           /\ IF ifaces[i] = "wifi" THEN scans < MaxScans /\ StartWifiScan ELSE ShowWiredStatic
    BY <1>3 DEF SelectIface
  <2>2. ifaces \in Seq(Kind)
    <3>1. <<>> \in Seq(Kind)
      OBVIOUS
    <3> QED
      BY <3>1, InterfaceListsAssumption
  <2>3. iface' \in Kind
    BY <2>1, <2>2
  <2> QED
    BY <1>3, <2>1, <2>3 DEF SelectIface, StartWifiScan, ShowWiredStatic
<1>4. CASE Rescan
  BY <1>4 DEF Rescan, StartWifiScan
<1>5. CASE SelectHidden
  BY <1>5 DEF SelectHidden, ShowConnectDetails
<1>6. CASE SelectWifi
  BY <1>6 DEF SelectWifi, ShowConnectDetails
<1>7. CASE ConnectWifi \/ ApplyStatic
  BY <1>7 DEF ConnectWifi, ApplyStatic, Begin
<1>8. CASE ApplyDhcp
  BY <1>8 DEF ApplyDhcp, PopScreen, screen
<1>9. CASE InterfacesLoaded
  <2>1. PICK list \in InterfaceLists :
           /\ ifaces' = list
           /\ IF Len(list) # 1
              THEN step' = "interfaces" /\ UNCHANGED <<iface, listed, scans, nets>>
              ELSE /\ iface' = list[1]
                   /\ IF list[1] = "wifi" THEN StartWifiScan ELSE ShowWiredStatic
    BY <1>9 DEF InterfacesLoaded
  <2>2. Len(list) = 1 => list[1] \in Kind
    <3> SUFFICES ASSUME Len(list) = 1 PROVE list[1] \in Kind
      OBVIOUS
    <3>1. 1 \in Nat /\ 1 \in 1..Len(list)
      OBVIOUS
    <3> QED
      BY <3>1, Elements
  <2>3. step' \in Steps /\ iface' \in Kind \cup {NoKind}
    BY <1>9, <2>1, <2>2 DEF StartWifiScan, ShowWiredStatic
  <2>4. /\ nets' = nets /\ scans' \in Nat
        /\ listed' \in {"nothing", "scanning", "empty", "networks"}
    BY <1>9, <2>1 DEF StartWifiScan, ShowWiredStatic
  <2> QED
    BY <1>9, <2>1, <2>3, <2>4 DEF InterfacesLoaded, StartWifiScan, ShowWiredStatic
<1>10. CASE WifiScanned
  BY <1>10 DEF WifiScanned, ScanResults
<1>11. ASSUME NEW n \in DOMAIN attempts, Worker(n) PROVE ScreenOk'
  BY <1>11 DEF Worker, screen
<1>12. ASSUME NEW n \in DOMAIN attempts, ConnectResult(n) PROVE ScreenOk'
  BY <1>12 DEF ConnectResult, PopScreen, StartWifiScan, ShowWiredStatic
<1>13. CASE UNCHANGED vars
  BY <1>13 DEF vars
<1> QED
  BY <1>1, <1>2, <1>3, <1>4, <1>5, <1>6, <1>7, <1>8, <1>9, <1>10, <1>11, <1>12, <1>13
     DEF Next, User, Results

\* What a worker may turn its stage into.
LEMMA WorkerStages ==
  ASSUME NEW n \in DOMAIN attempts, Worker(n)
  PROVE  \E S \in SUBSET Stages : To(n, S)
BY DEF Worker, WifiWorker, EthernetWorker, Stages, Ended

\* Every step keeps the workers to their stages.
LEMMA WorkersNext == WorkersOk /\ [Next]_vars => WorkersOk'
<1> SUFFICES ASSUME WorkersOk, [Next]_vars PROVE WorkersOk'
  OBVIOUS
<1> USE DEF WorkersOk
<1>1. CASE OpenNetwork \/ Elsewhere \/ Quit \/ Back \/ SelectIface \/ Rescan
           \/ SelectHidden \/ SelectWifi \/ ApplyDhcp
  BY <1>1 DEF OpenNetwork, Elsewhere, Quit, Back, SelectIface, Rescan, SelectHidden,
              SelectWifi, ApplyDhcp
<1>2. CASE ConnectWifi
  BY <1>2, BeginAdds DEF ConnectWifi, Kind, Stages
<1>3. CASE ApplyStatic
  BY <1>3, BeginAdds DEF ApplyStatic, Kind, Stages
<1>4. CASE InterfacesLoaded \/ WifiScanned
  BY <1>4 DEF InterfacesLoaded, WifiScanned
<1>5. ASSUME NEW n \in DOMAIN attempts, Worker(n) PROVE WorkersOk'
  <2>1. attempts' \in Seq(Attempt) /\ Len(attempts') <= MaxAttempts
    BY <1>5, WorkerStages, ToKeeps
  <2>2. profiles' \in 0..MaxProfiles
    BY <1>5 DEF Worker, WifiWorker, EthernetWorker
  <2> QED
    BY <2>1, <2>2
<1>6. ASSUME NEW n \in DOMAIN attempts, ConnectResult(n) PROVE WorkersOk'
  <2>1. To(n, {"applied"}) \/ To(n, {"refused"})
    BY <1>6 DEF ConnectResult
  <2> QED
    BY <1>6, <2>1, ToKeeps DEF ConnectResult, Stages, Handled
<1>7. CASE UNCHANGED vars
  BY <1>7 DEF vars
<1> QED
  BY <1>1, <1>2, <1>3, <1>4, <1>5, <1>6, <1>7 DEF Next, User, Results

\* The invariants hold when the screen is opened.
LEMMA Inits == Init => ScreenOk /\ WorkersOk
<1> SUFFICES ASSUME Init PROVE ScreenOk /\ WorkersOk
  OBVIOUS
<1>1. <<>> \in Seq(Attempt) /\ Len(<<>>) = 0
  OBVIOUS
<1>2. ScreenOk
  <2>1. ifaces \in InterfaceLists \cup {<<>>} /\ iface \in Kind \cup {NoKind}
    BY DEF Init
  <2>2. nets \in 0..MaxNetworks /\ scans \in Nat
    BY DEF Init
  <2> QED
    BY <2>1, <2>2 DEF Init, ScreenOk, Steps
<1>3. WorkersOk
  BY <1>1 DEF Init, WorkersOk
<1> QED
  BY <1>2, <1>3

-----------------------------------------------------------------------------
\* A line of the list is looked up within the result it is looked up in.
LEMMA IndexNext == ScreenOk /\ top # "index_error" /\ [Next]_vars => top' # "index_error"
<1> SUFFICES ASSUME ScreenOk, top # "index_error", [Next]_vars PROVE top' # "index_error"
  OBVIOUS
<1>1. CASE SelectWifi
  <2>1. Lines <= nets /\ Lines \in Nat
    BY <1>1 DEF SelectWifi, Lines, ScreenOk
  <2> QED
    BY <1>1, <2>1 DEF SelectWifi, ScreenOk
<1>2. CASE OpenNetwork \/ Elsewhere \/ Quit \/ Back \/ ApplyDhcp
  BY <1>2 DEF OpenNetwork, Elsewhere, Quit, Back, ApplyDhcp, PopScreen
<1>3. CASE SelectIface \/ Rescan \/ SelectHidden \/ ConnectWifi \/ ApplyStatic
  BY <1>3 DEF SelectIface, Rescan, SelectHidden, ConnectWifi, ApplyStatic
<1>4. CASE InterfacesLoaded \/ WifiScanned
  BY <1>4 DEF InterfacesLoaded, WifiScanned
<1>5. ASSUME NEW n \in DOMAIN attempts, Worker(n) \/ ConnectResult(n) PROVE top' # "index_error"
  BY <1>5 DEF Worker, ConnectResult, PopScreen
<1>6. CASE UNCHANGED vars
  BY <1>6 DEF vars
<1> QED
  BY <1>1, <1>2, <1>3, <1>4, <1>5, <1>6 DEF Next, User, Results

\* Selecting a line never raises, although the list on display and the list it
\* is looked up in may come from different scans.
THEOREM NeverOutOfRange == Spec => []IndexInRange
<1> DEFINE Alright == top # "index_error"
<1>1. Init => Alright
  BY DEF Init
<1>2. ScreenOk /\ Alright => IndexInRange
  BY DEF ScreenOk, IndexInRange, Lines
<1>3. ScreenOk /\ Alright /\ [Next]_vars => Alright'
  BY IndexNext
<1> HIDE DEF Alright
<1> QED
  BY <1>1, <1>2, <1>3, Inits, ScreenNext, PTL DEF Spec

-----------------------------------------------------------------------------
\* A spinner starts with a worker and stops with its answer.
LEMMA SpinnersNext ==
  ScreenOk /\ WorkersOk /\ SpinnersAreHonest /\ [Next]_vars => SpinnersAreHonest'
<1> SUFFICES ASSUME ScreenOk, WorkersOk, SpinnersAreHonest, [Next]_vars
             PROVE SpinnersAreHonest'
  OBVIOUS
<1> DEFINE Scanning == listed = "scanning" => scans > 0
           Connecting ==
             step = "connecting" => \E n \in DOMAIN attempts : attempts[n].stage # "refused"
<1>1. Scanning /\ Connecting /\ scans \in Nat /\ attempts \in Seq(Attempt)
  BY DEF SpinnersAreHonest, ScreenOk, WorkersOk
<1>2. SUFFICES Scanning' /\ Connecting'
  BY DEF SpinnersAreHonest
<1>3. CASE OpenNetwork \/ Elsewhere \/ Quit \/ Back \/ SelectHidden \/ SelectWifi \/ ApplyDhcp
  BY <1>1, <1>3 DEF OpenNetwork, Elsewhere, Quit, Back, SelectHidden, SelectWifi, ApplyDhcp,
                    screen, ShowConnectDetails
<1>4. CASE SelectIface \/ Rescan \/ InterfacesLoaded
  BY <1>1, <1>4 DEF SelectIface, Rescan, InterfacesLoaded, StartWifiScan, ShowWiredStatic
<1>5. CASE WifiScanned
  BY <1>1, <1>5 DEF WifiScanned
<1>6. CASE ConnectWifi
  <2>1. PICK dns \in BOOLEAN : Begin("wifi", dns, "connect")
    BY <1>6 DEF ConnectWifi
  <2>2. /\ Len(attempts) + 1 \in DOMAIN attempts'
        /\ attempts'[Len(attempts) + 1].stage = "connect"
    BY <1>1, <2>1, BeginAdds DEF Kind, Stages
  <2> QED
    BY <1>1, <1>6, <2>2 DEF ConnectWifi
<1>7. CASE ApplyStatic
  <2>1. /\ Len(attempts) + 1 \in DOMAIN attempts'
        /\ attempts'[Len(attempts) + 1].stage = "delete"
    BY <1>1, <1>7, BeginAdds DEF ApplyStatic, Kind, Stages
  <2> QED
    BY <1>1, <1>7, <2>1 DEF ApplyStatic
<1>8. ASSUME NEW n \in DOMAIN attempts, Worker(n) PROVE Scanning' /\ Connecting'
  <2>1. PICK S \in SUBSET (Stages \ {"refused"}) : To(n, S)
    BY <1>8 DEF Worker, WifiWorker, EthernetWorker, Stages, Ended, Handled
  <2>2. /\ DOMAIN attempts' = DOMAIN attempts /\ attempts'[n].stage # "refused"
        /\ \A m \in DOMAIN attempts : m # n => attempts'[m] = attempts[m]
    BY <1>1, <2>1, ToKeeps
  <2> QED
    BY <1>1, <1>8, <2>2 DEF Worker, screen
<1>9. ASSUME NEW n \in DOMAIN attempts, ConnectResult(n) PROVE Scanning' /\ Connecting'
  <2>1. CASE attempts[n].stage = "ok"
    <3>1. To(n, {"applied"}) /\ UNCHANGED <<step, listed, scans>>
      BY <1>9, <2>1 DEF ConnectResult
    <3>2. n \in DOMAIN attempts' /\ attempts'[n].stage = "applied"
      BY <1>1, <3>1, ToKeeps DEF Stages, Handled
    <3> QED
      BY <1>1, <3>1, <3>2
  <2>2. CASE attempts[n].stage = "failed"
    BY <1>1, <1>9, <2>2 DEF ConnectResult, StartWifiScan, ShowWiredStatic
  <2> QED
    BY <1>9, <2>1, <2>2 DEF ConnectResult, Ended
<1>10. CASE UNCHANGED vars
  BY <1>1, <1>10 DEF vars
<1> QED
  BY <1>3, <1>4, <1>5, <1>6, <1>7, <1>8, <1>9, <1>10 DEF Next, User, Results

\* A spinner turns over a worker that runs or has just been answered, however
\* late the answers to earlier requests come in.
THEOREM SpinnersStayHonest == Spec => []SpinnersAreHonest
<1>1. Init => SpinnersAreHonest
  BY DEF Init, SpinnersAreHonest
<1> QED
  BY <1>1, Inits, ScreenNext, WorkersNext, SpinnersNext, PTL DEF Spec

-----------------------------------------------------------------------------
\* The steps of one kind of connection are not those of the other; an attempt
\* without company is the only one under way; one that has its profile up has a
\* profile; and once an address counts as applied, no wired attempt is left to
\* take its profile away.
Alone(n) == attempts[n].alone /\ attempts[n].stage \notin Handled
Wired(n) == attempts[n].kind = "ethernet"
Busy(n) == attempts[n].stage \notin Handled

Apart == \A n \in DOMAIN attempts :
           /\ attempts[n].stage \in {"delete", "add", "up"} => Wired(n)
           /\ attempts[n].stage \in {"connect", "dns"} => ~Wired(n)
Single == \A n, m \in DOMAIN attempts : Alone(n) /\ Busy(m) => n = m
Backed == \A n \in DOMAIN attempts :
            Alone(n) /\ Wired(n) /\ attempts[n].stage \in {"up", "ok"} => profiles > 0
Settled == carried => profiles > 0 /\ \A n \in DOMAIN attempts : Wired(n) => ~Busy(n)

Held == Apart /\ Single /\ Backed /\ Settled

\* A step that begins an attempt keeps all of it.
LEMMA HeldBegin ==
  ASSUME WorkersOk, Held, NEW kind \in Kind, NEW dns \in BOOLEAN,
         NEW stage \in {"connect", "delete"}, stage = "delete" <=> kind = "ethernet",
         Begin(kind, dns, stage), UNCHANGED profiles
  PROVE  Held'
<1> DEFINE last == Len(attempts) + 1
<1>1. /\ attempts \in Seq(Attempt) /\ last \notin DOMAIN attempts
      /\ DOMAIN attempts' = DOMAIN attempts \cup {last}
      /\ \A m \in DOMAIN attempts :
           /\ attempts'[m].kind = attempts[m].kind /\ attempts'[m].stage = attempts[m].stage
           /\ attempts'[m].alone = FALSE
      /\ attempts'[last].kind = kind /\ attempts'[last].stage = stage
      /\ attempts'[last].alone => \A m \in DOMAIN attempts : attempts[m].stage \in Handled
  <2>1. attempts \in Seq(Attempt) /\ stage \in Stages
    BY DEF WorkersOk, Stages
  <2>2. last \notin DOMAIN attempts
    BY <2>1
  <2> QED
    BY <2>1, <2>2, BeginAdds, Zenon
<1> HIDE DEF last
<1>2. Apart'
  BY <1>1 DEF Held, Apart, Wired
<1>3. Single'
  BY <1>1 DEF Single, Alone, Busy
<1>4. Backed'
  BY <1>1 DEF Backed, Alone
<1>5. Settled'
  <2>1. carried' = IF kind = "ethernet" THEN FALSE ELSE carried
    BY DEF Begin
  <2> QED
    BY <1>1, <2>1 DEF Held, Settled, Wired, Busy, Kind
<1> QED
  BY <1>2, <1>3, <1>4, <1>5 DEF Held

\* A worker that goes on has or makes the profile its stage rests on.
LEMMA HeldWorker ==
  ASSUME WorkersOk, Held, NEW n \in DOMAIN attempts, Worker(n)
  PROVE  Held'
<1> DEFINE stage == attempts[n].stage
<1>1. attempts \in Seq(Attempt) /\ profiles \in Nat /\ Busy(n) /\ UNCHANGED carried
  BY DEF Worker, WorkersOk, Busy
<1>2. PICK S \in SUBSET (Stages \ Handled) :
        /\ To(n, S)
        /\ S \cap {"delete", "add", "up"} # {} => stage \in {"delete", "add"}
        /\ S \cap {"connect", "dns"} # {} => stage = "connect"
        /\ "up" \in S => profiles' > 0
        /\ stage = "up" => profiles' = profiles /\ ("ok" \in S => profiles > 0)
        /\ "ok" \in S => stage \in {"connect", "dns", "up"}
        /\ profiles' # profiles => stage \in {"delete", "add"}
  <2>1. CASE stage = "connect"
    <3>1. To(n, {"failed", IF attempts[n].dns THEN "dns" ELSE "ok"}) /\ UNCHANGED profiles
      BY <2>1 DEF Worker, WifiWorker, EthernetWorker
    <3> QED
      BY <2>1, <3>1 DEF Stages, Handled, Ended
  <2>2. CASE stage = "dns"
    <3>1. To(n, {"ok"}) /\ UNCHANGED profiles
      BY <2>2 DEF Worker, WifiWorker, EthernetWorker
    <3> QED
      BY <2>2, <3>1 DEF Stages, Handled, Ended
  <2>3. CASE stage = "delete"
    <3>1. To(n, {"add"})
      BY <2>3 DEF Worker, WifiWorker, EthernetWorker
    <3> QED
      BY <2>3, <3>1 DEF Stages, Handled, Ended
  <2>4. CASE stage = "add"
    <3>1. \/ To(n, {"failed"})
          \/ To(n, {"up", "failed"}) /\ profiles' > 0
      BY <1>1, <2>4 DEF Worker, WifiWorker, EthernetWorker
    <3> QED
      BY <2>4, <3>1 DEF Stages, Handled, Ended
  <2>5. CASE stage = "up"
    <3>1. /\ UNCHANGED profiles
          /\ To(n, IF profiles = 0 THEN {"failed"} ELSE Ended)
      BY <2>5 DEF Worker, WifiWorker, EthernetWorker
    <3>2. CASE profiles = 0
      BY <2>5, <3>1, <3>2 DEF Stages, Handled, Ended
    <3>3. CASE profiles # 0
      BY <1>1, <2>5, <3>1, <3>3 DEF Stages, Handled, Ended
    <3> QED
      BY <3>2, <3>3
  <2> QED
    BY <2>1, <2>2, <2>3, <2>4, <2>5 DEF Worker, WifiWorker, EthernetWorker
<1>3. /\ DOMAIN attempts' = DOMAIN attempts /\ attempts'[n].stage \in S
      /\ \A m \in DOMAIN attempts :
           /\ m # n => attempts'[m] = attempts[m]
           /\ attempts'[m].kind = attempts[m].kind
           /\ attempts'[m].alone = attempts[m].alone
  BY <1>1, <1>2, ToKeeps
<1>4. attempts[n] \in Attempt
  BY <1>1
<1>5. Apart'
  BY <1>2, <1>3 DEF Held, Apart, Wired
<1>6. Single'
  BY <1>1, <1>2, <1>3 DEF Held, Single, Alone, Busy
<1>7. Backed'
  <2> SUFFICES ASSUME NEW m \in DOMAIN attempts, Alone(m)', Wired(m)',
                      attempts'[m].stage \in {"up", "ok"}
               PROVE  profiles' > 0
    BY <1>3 DEF Backed
  <2>1. CASE m = n
    <3>1. Alone(n) /\ Wired(n)
      BY <1>1, <1>3, <2>1 DEF Alone, Wired, Busy
    <3>2. CASE attempts'[n].stage = "up"
      BY <1>2, <1>3, <3>2
    <3>3. CASE attempts'[n].stage = "ok"
      <4>1. stage \in {"connect", "dns", "up"} /\ (stage = "up" => profiles' > 0)
        BY <1>2, <1>3, <3>3
      <4> QED
        BY <1>4, <3>1, <4>1 DEF Held, Apart, Wired
    <3> QED
      BY <2>1, <3>2, <3>3
  <2>2. CASE m # n
    BY <1>1, <1>3, <2>2 DEF Held, Single, Alone, Busy
  <2> QED
    BY <2>1, <2>2
<1>8. Settled'
  <2>1. carried' => profiles' = profiles
    BY <1>1, <1>2 DEF Held, Settled, Apart, Wired
  <2> QED
    BY <1>1, <1>3, <2>1 DEF Held, Settled, Wired, Busy
<1> QED
  BY <1>5, <1>6, <1>7, <1>8 DEF Held

\* An answer reports the profile of the attempt it ends.
LEMMA HeldResult ==
  ASSUME WorkersOk, Held, NEW n \in DOMAIN attempts, ConnectResult(n)
  PROVE  Held'
<1>1. /\ attempts \in Seq(Attempt) /\ attempts[n] \in Attempt
      /\ attempts[n].stage \in Ended /\ UNCHANGED profiles
  BY DEF WorkersOk, ConnectResult
<1>2. PICK S \in SUBSET Handled : To(n, S)
  BY DEF ConnectResult, Handled
<1>3. /\ DOMAIN attempts' = DOMAIN attempts /\ attempts'[n].stage \in S
      /\ \A m \in DOMAIN attempts :
           /\ m # n => attempts'[m] = attempts[m]
           /\ attempts'[m].kind = attempts[m].kind
           /\ attempts'[m].alone = attempts[m].alone
  <2>1. S \subseteq Stages
    BY DEF Stages
  <2> QED
    BY <1>1, <1>2, <2>1, ToKeeps
<1>4. Apart'
  BY <1>3 DEF Held, Apart, Wired, Handled
<1>5. Single'
  BY <1>3 DEF Held, Single, Alone, Busy
<1>6. Backed'
  BY <1>1, <1>3 DEF Held, Backed, Alone, Wired
<1>7. Settled'
  <2>1. CASE attempts[n].stage = "ok" /\ Wired(n)
    <3>1. carried' = attempts[n].alone
      BY <2>1 DEF ConnectResult, Wired
    <3> SUFFICES ASSUME attempts[n].alone = TRUE PROVE Settled'
      BY <3>1 DEF Settled
    <3>2. Alone(n)
      BY <2>1 DEF Alone, Handled
    <3>3. \A m \in DOMAIN attempts : m # n => ~Busy(m)
      BY <3>2 DEF Held, Single
    <3>4. profiles > 0
      BY <2>1, <3>2 DEF Held, Backed
    <3> QED
      BY <1>1, <1>3, <3>3, <3>4 DEF Settled, Busy
  <2>2. CASE ~(attempts[n].stage = "ok" /\ Wired(n))
    <3>1. UNCHANGED carried
      BY <2>2 DEF ConnectResult, Wired
    <3> QED
      BY <1>1, <1>3, <3>1 DEF Held, Settled, Wired, Busy
  <2> QED
    BY <2>1, <2>2
<1> QED
  BY <1>4, <1>5, <1>6, <1>7 DEF Held

\* No step takes away a profile that was reported as applied.
LEMMA HeldNext == WorkersOk /\ Held /\ [Next]_vars => Held'
<1> SUFFICES ASSUME WorkersOk, Held, [Next]_vars PROVE Held'
  OBVIOUS
<1>1. CASE UNCHANGED <<attempts, profiles, carried>>
  BY <1>1 DEF Held, Apart, Single, Backed, Settled, Alone, Wired, Busy
<1>2. CASE ConnectWifi
  BY <1>2, HeldBegin DEF ConnectWifi, Kind
<1>3. CASE ApplyStatic
  BY <1>3, HeldBegin DEF ApplyStatic, Kind
<1>4. ASSUME NEW n \in DOMAIN attempts, Worker(n) \/ ConnectResult(n) PROVE Held'
  BY <1>4, HeldWorker, HeldResult
<1>5. CASE OpenNetwork \/ Elsewhere \/ Quit \/ Back \/ SelectIface \/ Rescan
           \/ SelectHidden \/ SelectWifi \/ ApplyDhcp \/ InterfacesLoaded \/ WifiScanned
  BY <1>1, <1>5 DEF OpenNetwork, Elsewhere, Quit, Back, SelectIface, Rescan, SelectHidden,
                    SelectWifi, ApplyDhcp, InterfacesLoaded, WifiScanned
<1>6. CASE UNCHANGED vars
  BY <1>1, <1>6 DEF vars
<1> QED
  BY <1>2, <1>3, <1>4, <1>5, <1>6 DEF Next, User, Results

\* A wired address reported as applied, with no other attempt beside it, keeps its
\* profile until another wired one is asked for: whatever Wi-Fi connections are
\* made meanwhile, and however many attempts overlapped before.
THEOREM ProfileIsCarriedOver == Spec => []CarriedOver
<1>1. Init => Held
  BY DEF Init, Held, Apart, Single, Backed, Settled
<1>2. Held => CarriedOver
  BY DEF Held, Settled, CarriedOver
<1> QED
  BY <1>1, <1>2, Inits, WorkersNext, HeldNext, PTL DEF Spec
=============================================================================
