--------------------------- MODULE MCHardwareRescan ---------------------------
(* Instances of HardwareRescan: a notebook with a Wi-Fi 7 card; the same    *)
(* in a dock, whose quirk replaces the card's file and asks for one more;   *)
(* the same with an external NVIDIA GPU, which wants another driver and a   *)
(* udev rule, too.  What each wants follows from a database like the one    *)
(* under hardware/: its two quirks and one for the dock, its profiles, of   *)
(* which the one for this model includes the card's quirk by name.          *)
EXTENDS HardwareRescan, Sequences, Functions, TLC

CONSTANTS laptop, docked, egpu, wifi, gpu, rules, disable, power, amd, nvidia

Laptops == {8, 9, 10, 11, 14}
Desktops == {3, 4, 5, 6, 7, 13, 15, 16, 17, 24, 35, 36}
WifiCard == <<"8086", "272b">>
Nvidia == <<"10de", "2838">>
Dock == <<"17ef", "dock">>

PciOf == laptop :> {WifiCard} @@ docked :> {WifiCard, Dock} @@ egpu :> {WifiCard, Nvidia} @@ NoPci :> {}
ThisDmi == [sys_vendor |-> "LENOVO", product_name |-> "21KW0001", chassis_type |-> 10]

NoneFits == [slug |-> "none"]
Database == INSTANCE HardwareProfiles WITH NoMachine <- NoneFits

Quirk(slug, ids, vendor, chassis, files) ==
  [slug |-> slug, pci_ids |-> ids, pci_vendor |-> vendor, chassis_type |-> chassis, files |-> files]
Generic(slug, chassis) ==
  [slug |-> slug, sys_vendor |-> {}, sys_vendor_pattern |-> {}, product_name |-> {},
   product_name_pattern |-> {}, chassis_type |-> chassis, quirk_includes |-> <<>>, files |-> <<>>]

Quirks == <<
  Quirk("intel-wifi7", {WifiCard, <<"8086", "272e">>}, {}, {}, wifi :> disable),
  Quirk("lenovo-dock", {Dock}, {}, {}, wifi :> power @@ gpu :> power),
  Quirk("nvidia-rtd3", {}, {"10de"}, Laptops, gpu :> power @@ rules :> power)>>
Machines == <<
  Generic("generic-desktop", Desktops), Generic("generic-laptop", Laptops),
  [Generic("thinkpad", {}) EXCEPT !.sys_vendor = {"LENOVO"},
     !.product_name_pattern = {ThisDmi.product_name}, !.quirk_includes = <<"intel-wifi7">>],
  [Generic("vm", {}) EXCEPT !.sys_vendor_pattern = {"QEMU"}, !.files = wifi :> power]>>

TheContent == {q.slug : q \in Range(Quirks) \cup Range(Machines)} \X {disable, power}
TheWants == [h \in Hw \cup {NoPci} |-> Database!WantedFiles(Quirks, Machines, PciOf[h], ThisDmi)]
TheDrivers == laptop :> amd @@ docked :> amd @@ egpu :> nvidia

ServiceOnly == {{}}
AnyFlags == {{}, {"force"}, {"skip_chwd", "skip_mkinitcpio"}}
=============================================================================
