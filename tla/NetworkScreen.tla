---------------------------- MODULE NetworkScreen ----------------------------
(***************************************************************************)
(* The network screen (tui/network.py) with the nmcli calls its workers    *)
(* make (core/network.py).  Interface lists, scans and connections run in  *)
(* threads; their results come back as messages, in any order and at any   *)
(* time: after the user has moved to another step, started another scan or *)
(* left the screen, which Textual keeps in memory once it is built (it is  *)
(* named in SCREENS), with its step and its running workers.               *)
(***************************************************************************)
EXTENDS Naturals, Sequences, FiniteSets

CONSTANTS InterfaceLists, \* what nmcli dev may list: sequences of Kind
          MaxNetworks,    \* a scan returns at most so many networks
          MaxScans,       \* bound: scans pending when the user asks for another
          MaxAttempts,    \* bound: connections asked for
          MaxProfiles     \* bound: copies of the static profile

Kind == {"wifi", "ethernet"}
NoKind == "none"

ASSUME InterfaceListsAssumption == InterfaceLists \subseteq Seq(Kind)
ASSUME BoundsAssumption ==
  /\ MaxNetworks \in Nat /\ MaxScans \in Nat /\ MaxAttempts \in Nat
  /\ MaxProfiles \in Nat \ {0}

VARIABLES
  top,       \* the screen the user sees, or how the application died
  built,     \* the network screen exists
  step,      \* NetworkScreen.step
  ifaces,    \* _interfaces
  iface,     \* the type of _selected_iface
  nets,      \* the length of _wifi_networks
  listed,    \* what the list of networks shows
  loading,   \* workers running: _fetch_interfaces,
  scans,     \*   _fetch_wifi,
  attempts,  \*   and connections: number -> where its nmcli calls are
  profiles,  \* NetworkManager's connections called arches-<iface>
  carried    \* the static configuration last reported as applied is one of them

screen == <<built, step, ifaces, iface, nets, listed>>
vars == <<top, built, step, ifaces, iface, nets, listed,
          loading, scans, attempts, profiles, carried>>

Steps == {"interfaces", "wifi_scan", "connect_details", "wired_static", "connecting"}
Ended == {"ok", "failed"}
Handled == {"applied", "refused"}  \* the screen has taken note of ok, of failed
Stages == {"connect", "dns", "delete", "add", "up"} \cup Ended \cup Handled
Attempt == [kind : Kind, dns : BOOLEAN, stage : Stages, alone : BOOLEAN]

Init ==
  /\ top = "welcome" /\ built = FALSE /\ step = "interfaces"
  /\ ifaces = <<>> /\ iface = NoKind /\ nets = 0 /\ listed = "nothing"
  /\ loading = FALSE /\ scans = 0 /\ attempts = <<>>
  /\ profiles = 0 /\ carried = FALSE

Alive == top \in {"welcome", "network", "later"}
OnScreen(s) == top = "network" /\ step = s

(***************************************************************************)
(* Helpers the handlers share.                                             *)
(***************************************************************************)
\* app.pop_screen: the top screen goes, whichever it is; the first cannot.
PopScreen ==
  \/ top = "network" /\ top' = "welcome"
  \/ top = "later" /\ top' \in {"later", "welcome"}
  \/ top = "welcome" /\ top' = "stack_error"

StartWifiScan ==
  /\ step' = "wifi_scan" /\ listed' = "scanning" /\ scans' = scans + 1
  /\ UNCHANGED nets

ShowWiredStatic == step' = "wired_static" /\ UNCHANGED <<listed, scans, nets>>

ShowConnectDetails == step' = "connect_details"

\* scan_wifi: what nmcli lists, each SSID once; nothing if it fails.
ScanResults == 0..MaxNetworks

\* An attempt begins: those that run beside another one are not alone.
Begin(kind, dns, stage) ==
  LET busy == \E n \in DOMAIN attempts : attempts[n].stage \notin Handled
      new == [kind |-> kind, dns |-> dns, stage |-> stage, alone |-> ~busy]
  IN  /\ Len(attempts) < MaxAttempts
      /\ attempts' = Append([n \in DOMAIN attempts |->
                               [attempts[n] EXCEPT !.alone = FALSE]], new)
      /\ step' = "connecting"
      /\ carried' = IF kind = "ethernet" THEN FALSE ELSE carried

(***************************************************************************)
(* The user: other screens, and the buttons and lists of this one.         *)
(***************************************************************************)
OpenNetwork ==
  /\ top = "welcome" /\ top' = "network"
  /\ built' = TRUE
  /\ loading' = (loading \/ ~built)
  /\ UNCHANGED <<step, ifaces, iface, nets, listed, scans, attempts, profiles, carried>>

Elsewhere ==
  /\ \/ top = "welcome" /\ top' = "later"
     \/ top = "later" /\ top' = "welcome"
  /\ UNCHANGED <<screen, loading, scans, attempts, profiles, carried>>

Back ==
  /\ top = "network"
  /\ \/ /\ step = "interfaces" \/ (step \in {"wifi_scan", "wired_static"} /\ Len(ifaces) = 1)
        /\ PopScreen /\ UNCHANGED step
     \/ /\ step \in {"wifi_scan", "wired_static"} /\ Len(ifaces) # 1
        /\ step' = "interfaces" /\ UNCHANGED top
     \/ step = "connect_details" /\ step' = "wifi_scan" /\ UNCHANGED top
  /\ UNCHANGED <<built, ifaces, iface, nets, listed,
                 loading, scans, attempts, profiles, carried>>

\* _on_iface_select: line i of the list is highlighted.
SelectIface ==
  /\ OnScreen("interfaces") /\ ifaces # <<>>
  /\ \E i \in DOMAIN ifaces :
       /\ iface' = ifaces[i]
       /\ IF ifaces[i] = "wifi" THEN scans < MaxScans /\ StartWifiScan ELSE ShowWiredStatic
  /\ UNCHANGED <<top, built, ifaces, loading, attempts, profiles, carried>>

Rescan ==
  /\ OnScreen("wifi_scan") /\ scans < MaxScans /\ StartWifiScan
  /\ UNCHANGED <<top, built, ifaces, iface, loading, attempts, profiles, carried>>

SelectHidden ==
  /\ OnScreen("wifi_scan") /\ ShowConnectDetails
  /\ UNCHANGED <<top, built, ifaces, iface, nets, listed,
                 loading, scans, attempts, profiles, carried>>

\* _on_wifi_select: the line is looked up in the last result, whatever the list shows.
Lines == IF listed = "networks" THEN nets ELSE IF listed = "nothing" THEN 0 ELSE 1
\* Mutant of SelectWifi: the last result is not looked at before it is indexed.
SelectWifiUnchecked ==
  /\ OnScreen("wifi_scan")
  /\ \E i \in 1..Lines :
       IF i \in 1..nets
       THEN ShowConnectDetails /\ UNCHANGED top
       ELSE top' = "index_error" /\ UNCHANGED step
  /\ UNCHANGED <<built, ifaces, iface, nets, listed,
                 loading, scans, attempts, profiles, carried>>

SelectWifi ==
  /\ OnScreen("wifi_scan") /\ nets > 0
  /\ \E i \in 1..Lines :
       IF i \in 1..nets
       THEN ShowConnectDetails /\ UNCHANGED top
       ELSE top' = "index_error" /\ UNCHANGED step
  /\ UNCHANGED <<built, ifaces, iface, nets, listed,
                 loading, scans, attempts, profiles, carried>>

\* _start_connect_wifi, with or without DNS servers of the user's own.
ConnectWifi ==
  /\ OnScreen("connect_details")
  /\ \E dns \in BOOLEAN : Begin("wifi", dns, "connect")
  /\ UNCHANGED <<top, built, ifaces, iface, nets, listed, loading, scans, profiles>>

\* _start_connect_ethernet: DHCP, or an address or gateway left empty.
ApplyDhcp ==
  /\ OnScreen("wired_static") /\ iface # NoKind /\ PopScreen
  /\ UNCHANGED <<screen, loading, scans, attempts, profiles, carried>>

ApplyStatic ==
  /\ OnScreen("wired_static") /\ iface # NoKind
  /\ Begin("ethernet", FALSE, "delete")
  /\ UNCHANGED <<top, built, ifaces, iface, nets, listed, loading, scans, profiles>>

Quit == Alive /\ top' = "quit" /\ UNCHANGED <<screen, loading, scans, attempts, profiles, carried>>

User == \/ OpenNetwork \/ Elsewhere \/ Quit \/ Back \/ SelectIface \/ Rescan 
        \/ SelectHidden \/ SelectWifi \/ ConnectWifi \/ ApplyDhcp \/ ApplyStatic

(***************************************************************************)
(* The workers: one nmcli call a step.                                     *)
(***************************************************************************)
To(n, stages) == \E s \in stages : attempts' = [attempts EXCEPT ![n].stage = s]

\* connect_wifi: the connection, then the DNS servers, whose failure is ignored.
WifiWorker(n) ==
  /\ \/ /\ attempts[n].stage = "connect"
        /\ To(n, {"failed", IF attempts[n].dns THEN "dns" ELSE "ok"})
     \/ attempts[n].stage = "dns" /\ To(n, {"ok"})
  /\ UNCHANGED profiles

\* Mutant of EthernetWorker: the profiles of that name are cleaned up at the end.
EthernetWorkerCleanup(n) ==
  \/ attempts[n].stage = "delete" /\ To(n, {"add"}) /\ UNCHANGED profiles
  \/ attempts[n].stage = "add" /\ To(n, {"failed"}) /\ UNCHANGED profiles
  \/ /\ attempts[n].stage = "add" /\ To(n, {"up", "failed"})
     /\ profiles' = IF profiles < MaxProfiles THEN profiles + 1 ELSE profiles
  \/ attempts[n].stage = "up" /\ To(n, Ended) /\ profiles' \in 0..profiles

\* connect_ethernet_static: delete the old profile (its failure is ignored), add, up.
EthernetWorker(n) ==
  \/ attempts[n].stage = "delete" /\ To(n, {"add"}) /\ profiles' \in 0..profiles
  \/ attempts[n].stage = "add" /\ To(n, {"failed"}) /\ UNCHANGED profiles
  \/ /\ attempts[n].stage = "add" /\ To(n, {"up", "failed"})
     /\ profiles' = IF profiles < MaxProfiles THEN profiles + 1 ELSE profiles
  \/ /\ attempts[n].stage = "up"
     /\ To(n, IF profiles = 0 THEN {"failed"} ELSE Ended) /\ UNCHANGED profiles

Worker(n) ==
  /\ Alive /\ attempts[n].stage \notin Ended \cup Handled
  /\ WifiWorker(n) \/ EthernetWorker(n)
  /\ UNCHANGED <<top, screen, loading, scans, carried>>

(***************************************************************************)
(* on_worker_state_changed: results reach the screen wherever the user is. *)
(***************************************************************************)
\* _on_interfaces_loaded: a single interface needs no selection.
InterfacesLoaded ==
  /\ Alive /\ loading /\ loading' = FALSE
  /\ \E list \in InterfaceLists :
       /\ ifaces' = list
       /\ IF Len(list) # 1
          THEN step' = "interfaces" /\ UNCHANGED <<iface, listed, scans, nets>>
          ELSE /\ iface' = list[1]
               /\ IF list[1] = "wifi" THEN StartWifiScan ELSE ShowWiredStatic
  /\ UNCHANGED <<top, built, attempts, profiles, carried>>

\* Mutant of WifiScanned: a result is kept back until the user is at its step.
WifiScannedIfWaiting ==
  /\ OnScreen("wifi_scan") /\ scans > 0 /\ scans' = scans - 1
  /\ nets' \in ScanResults
  /\ listed' = IF nets' = 0 THEN "empty" ELSE "networks"
  /\ UNCHANGED <<top, built, step, ifaces, iface, loading, attempts, profiles, carried>>

\* _on_wifi_scanned: shows the list, whichever step the user is at.
WifiScanned ==
  /\ Alive /\ scans > 0 /\ scans' = scans - 1
  /\ nets' \in ScanResults
  /\ listed' = IF nets' = 0 THEN "empty" ELSE "networks"
  /\ step' = "wifi_scan"
  /\ UNCHANGED <<top, built, ifaces, iface, loading, attempts, profiles, carried>>

\* Mutant of ConnectResult: only Wi-Fi goes back to a selection step.
ConnectResultWifiOnly(n) ==
  /\ Alive /\ attempts[n].stage \in Ended
  /\ \/ /\ attempts[n].stage = "ok" /\ To(n, {"applied"}) /\ PopScreen
        /\ carried' = IF attempts[n].kind = "ethernet" THEN attempts[n].alone ELSE carried
        /\ UNCHANGED <<step, listed, scans, nets>>
     \/ /\ attempts[n].stage = "failed" /\ To(n, {"refused"}) /\ UNCHANGED <<top, carried>>
        /\ IF iface = "wifi" THEN StartWifiScan ELSE UNCHANGED <<step, listed, scans, nets>>
  /\ UNCHANGED <<built, ifaces, iface, loading, profiles>>

\* _on_connect_result
ConnectResult(n) ==
  /\ Alive /\ attempts[n].stage \in Ended
  /\ \/ /\ attempts[n].stage = "ok" /\ To(n, {"applied"}) /\ PopScreen
        /\ carried' = IF attempts[n].kind = "ethernet" THEN attempts[n].alone ELSE carried
        /\ UNCHANGED <<step, listed, scans, nets>>
     \/ /\ attempts[n].stage = "failed" /\ To(n, {"refused"}) /\ UNCHANGED <<top, carried>>
        /\ IF iface = "wifi" THEN StartWifiScan ELSE ShowWiredStatic
  /\ UNCHANGED <<built, ifaces, iface, loading, profiles>>

Results == \/ InterfacesLoaded
           \/ WifiScanned
           \/ \E n \in DOMAIN attempts : Worker(n) \/ ConnectResult(n)

Next == User \/ Results
Spec == Init /\ [][Next]_vars

\* nmcli calls have timeouts and Textual delivers every result; users may stop.
Fairness ==
  /\ WF_vars(InterfacesLoaded) /\ WF_vars(WifiScanned)
  /\ \A n \in 1..MaxAttempts :
       /\ WF_vars(n \in DOMAIN attempts /\ Worker(n))
       /\ WF_vars(n \in DOMAIN attempts /\ ConnectResult(n))
FairSpec == Spec /\ Fairness

(***************************************************************************)
(* Properties.                                                             *)
(***************************************************************************)
\* Every variable keeps to its values; only the bounds keep the counters down.
TypeOK ==
  /\ top \in {"welcome", "network", "later", "quit", "stack_error", "index_error"}
  /\ built \in BOOLEAN /\ loading \in BOOLEAN /\ carried \in BOOLEAN
  /\ step \in Steps
  /\ ifaces \in InterfaceLists \cup {<<>>} /\ iface \in Kind \cup {NoKind}
  /\ nets \in 0..MaxNetworks
  /\ listed \in {"nothing", "scanning", "empty", "networks"}
  /\ scans \in Nat /\ profiles \in 0..MaxProfiles
  /\ attempts \in Seq(Attempt) /\ Len(attempts) <= MaxAttempts

\* The list on display and the list a line is looked up in may differ (a new
\* scan shows "Scanning..." over the old result), but no line shown is past
\* the end of the old result: _on_wifi_select never raises an IndexError.
IndexInRange ==
  /\ top # "index_error"
  /\ nets > 0 => Lines <= nets

\* "Scanning..." and "Connecting to ..." are shown while a worker of that kind
\* runs or its answer is under way, however late other answers come in; the
\* one exception is a screen left because a connection had succeeded.
SpinnersAreHonest ==
  /\ listed = "scanning" => scans > 0
  /\ step = "connecting" => \E n \in DOMAIN attempts : attempts[n].stage # "refused"

\* A wired address that was reported as applied, with no other connection
\* asked for meanwhile, leaves a profile for copy_network_profiles to carry over
\* to the installed system, until another is asked for.
CarriedOver == carried => profiles > 0

\* A user who waits gets away: a scan shown as running is answered, and the
\* connecting step, which has no button, ends once a worker's answer is due.
WaitsEnd ==
  /\ (listed = "scanning") ~> (listed # "scanning" \/ ~Alive)
  /\ (step = "connecting" /\ \E n \in DOMAIN attempts : attempts[n].stage \notin Handled)
       ~> (step # "connecting" \/ top # "network")
=============================================================================
