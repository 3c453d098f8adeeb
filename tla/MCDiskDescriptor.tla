-------------------------- MODULE MCDiskDescriptor --------------------------
(* Two disks of one model, a misreported NVMe among them, and a hard disk  *)
(* without a serial; a size unit is 100 GB.  Every text of up to three     *)
(* tokens of a stock; tables with one field or two.                        *)
EXTENDS DiskDescriptor, TLC

CONSTANTS d1, d2, d3

SomeSizes == (d1 :> 20) @@ (d2 :> 22) @@ (d3 :> 80)
SomeTransports == (d1 :> "nvme") @@ (d2 :> "nvme") @@ (d3 :> "sata")
SomeSerials == (d1 :> 12) @@ (d2 :> 11) @@ (d3 :> 0)
SomeWords == (d1 :> {"samsung", "pro"}) @@ (d2 :> {"samsung"}) @@ (d3 :> {"seagate", "pro"})
SomeVendorWords == (d1 :> {"samsung"}) @@ (d2 :> {"samsung"}) @@ (d3 :> {"seagate"})
SomeNames == <<"sda", "sdb", "sdc">>
SomeAliases == [samsung |-> {"samsung"}, sammy |-> {"samsung"}, seagate |-> {"seagate"}]

Stock == {[kind |-> "size", size |-> 20], [kind |-> "size", size |-> 24],
          [kind |-> "transport", transport |-> "nvme"],
          [kind |-> "transport", transport |-> "sata"],
          [kind |-> "technology", rotational |-> TRUE],
          [kind |-> "technology", rotational |-> FALSE],
          [kind |-> "vendor", vendor |-> "samsung"], [kind |-> "vendor", vendor |-> "sammy"],
          [kind |-> "vendor", vendor |-> "seagate"],
          [kind |-> "free", text |-> "pro"], [kind |-> "free", text |-> "sdb"]}
Texts == UNION {[1..n -> Stock] : n \in 0..3}
EmptyTable == [size |-> {}, min |-> {}, max |-> {}, transport |-> {}, rotational |-> {},
               removable |-> {}, vendor |-> {}, free |-> {}, device |-> {}, text |-> {}]
Tables ==
  {[EmptyTable EXCEPT !.size = s, !.min = m, !.transport = t] :
     s \in {{}, {20}}, m \in {{}, {21}}, t \in {{}, {"nvme"}}}
  \cup {[EmptyTable EXCEPT !.rotational = {TRUE}, !.max = x] : x \in {{}, {22}}}
  \cup {[EmptyTable EXCEPT !.removable = {r}] : r \in BOOLEAN}
  \cup {[EmptyTable EXCEPT !.vendor = {"seagate"}, !.free = f] : f \in {{}, {"pro"}, {"typo"}}}
  \cup {[EmptyTable EXCEPT !.device = {2}],
        [EmptyTable EXCEPT !.text = {<<[kind |-> "free", text |-> "pro"]>>}]}
Table1(t) == [form |-> "table", table |-> t]

SomeDescriptors == {[form |-> "text", tokens |-> s] : s \in Texts}
                   \cup {[form |-> "path", name |-> 2]} \cup {Table1(t) : t \in Tables}

\* A table that only gives an upper bound, and one whose device is no path.
LooseTables == {Table1([EmptyTable EXCEPT !.max = {22}]),
                Table1([EmptyTable EXCEPT !.max = {22}, !.transport = {"nvme"}])}
=============================================================================
