--------------------------- MODULE HardwareProfiles ---------------------------
(***************************************************************************)
(* Which files a machine is to have: the matching and merging of           *)
(* core/hardware.py, which the installer and the rescan share.  Quirks and *)
(* machine profiles are the sequences their loaders return, in the order   *)
(* of the file names, as records with the fields of the code.  A criterion *)
(* or pattern is the set of the values it accepts, {} where none is given; *)
(* the three tables of files are one function, companion files read.       *)
(***************************************************************************)
EXTENDS Sequences

CONSTANTS File, NoFile, NoMachine

(* Quirk.matches: every criterion that is given holds, and there is one.    *)
Matches(q, pci, chassis) ==
  /\ q.pci_ids # {} \/ q.pci_vendor # {} \/ q.chassis_type # {}
  /\ q.pci_ids # {} => q.pci_ids \cap pci # {}
  /\ q.pci_vendor # {} => \E id \in pci : id[1] \in q.pci_vendor
  /\ q.chassis_type # {} => chassis \in q.chassis_type

MatchQuirks(quirks, pci, chassis) ==
  SelectSeq(quirks, LAMBDA q : Matches(q, pci, chassis))

IsGeneric(m) ==
  {} = m.sys_vendor \cup m.sys_vendor_pattern \cup m.product_name \cup m.product_name_pattern

MatchesDmi(m, dmi) ==
  /\ ~IsGeneric(m) \/ m.chassis_type # {}
  /\ \A accepted \in {m.sys_vendor, m.sys_vendor_pattern} :
       accepted = {} \/ dmi.sys_vendor \in accepted
  /\ \A accepted \in {m.product_name, m.product_name_pattern} :
       accepted = {} \/ dmi.product_name \in accepted
  /\ m.chassis_type = {} \/ dmi.chassis_type \in m.chassis_type

(* The first specific profile that fits, or else the first generic one.     *)
SuggestMachine(machines, dmi) ==
  LET fitting == SelectSeq(machines, LAMBDA m : MatchesDmi(m, dmi))
      specific == SelectSeq(fitting, LAMBDA m : ~IsGeneric(m))
  IN IF specific # <<>> THEN Head(specific)
     ELSE IF fitting # <<>> THEN Head(fitting) ELSE NoMachine

(* resolve_hardware: the quirks the hardware asks for, then those the       *)
(* profile includes by name (each at most once) that are not there yet.     *)
ResolveQuirks(machine, matched, quirks) ==
  LET Named(slug, qs) == {i \in DOMAIN qs : qs[i].slug = slug}
      missing == SelectSeq(machine.quirk_includes,
                   LAMBDA slug : Named(slug, matched) = {} /\ Named(slug, quirks) # {})
  IN IF machine = NoMachine THEN matched
     ELSE matched \o [i \in DOMAIN missing |->
                        quirks[CHOOSE n \in DOMAIN quirks : quirks[n].slug = missing[i]]]

(* _resolved_files: the machine overrides its quirks, a later quirk an      *)
(* earlier one; a file carries the name of its owner.                       *)
ResolvedFiles(machine, quirks) ==
  LET sources == IF machine = NoMachine THEN quirks ELSE Append(quirks, machine)
      Named(owners, f) ==
        LET last == owners[Len(owners)] IN <<last.slug, last.files[f]>>
      Owned(owners, f) == IF owners = <<>> THEN NoFile ELSE Named(owners, f)
  IN [f \in File |-> Owned(SelectSeq(sources, LAMBDA s : f \in DOMAIN s.files), f)]

(* What the installer deploys and the rescan reconciles.                    *)
WantedFiles(quirks, machines, pci, dmi) ==
  LET machine == SuggestMachine(machines, dmi)
  IN ResolvedFiles(machine,
       ResolveQuirks(machine, MatchQuirks(quirks, pci, dmi.chassis_type), quirks))
=============================================================================
