---------------------------- MODULE MCStorageApply -----------------------------
(* The SE455 V3's two mirrors on six drives, so that drives are left over.  *)
(* The adapters are those of tests/test_storage_layout.py: fresh, with a    *)
(* drive that is bad or JBOD, with drives of one size too many, hand-built  *)
(* in each listing order, and built by an earlier run.  One that enumerates *)
(* piecemeal has no more good drives than the SE455 V3 has, four.           *)
EXTENDS StorageApply

MCLayout ==
  <<[name |-> "boot", raid |-> "RAID1", select |-> "smallest", count |-> 2],
    [name |-> "DataDrive", raid |-> "RAID1", select |-> "largest", count |-> 2]>>

Mirror(n, name, pair) == [id |-> n, name |-> name, raid |-> "RAID1", drives |-> pair]

Spare ==
  [capacity : {<<1, 1, 2, 2, 3, 3>>, <<2, 2, 1, 1, 2, 2>>, <<1, 1, 1, 2, 2, 2>>, <<1, 1, 2, 2, 2, 2>>},
   good : {Drives, Drives \ {1}, Drives \ {3}},
   piecemeal : {FALSE},
   vds : {{}, {Mirror(0, "VD_0", {3, 4})}, {Mirror(0, "boot", {1, 2})}, {Mirror(1, "VD_1", {1, 2})},
          {Mirror(0, "VD_0", {1, 2}), Mirror(1, "VD_1", {5, 6})},
          {Mirror(0, "VD_0", {5, 6}), Mirror(1, "VD_1", {1, 2})},
          {[Mirror(0, "VD_0", {1, 2}) EXCEPT !.raid = "RAID0"]},
          {Mirror(0, "VD_0", {5, 6}), Mirror(1, "VD_1", {3, 4}), Mirror(2, "VD_2", {1, 2})}}]

NoneSpare ==
  [capacity : {<<1, 2, 1, 2, 3, 3>>, <<2, 2, 1, 1, 3, 3>>, <<1, 1, 2, 3, 3, 3>>},
   good : {1..4, 2..4},
   piecemeal : {TRUE},
   vds : {{}, {Mirror(0, "VD_0", {1, 3})}, {Mirror(0, "boot", {1, 3})},
          {Mirror(0, "VD_0", {2, 4}), Mirror(1, "VD_1", {1, 3})}}]

(* an earlier run has built boot on the smallest good drives *)
MCAdapters ==
  {a \in Spare \union NoneSpare :
     \A v \in a.vds : v.name = "boot" =>
       /\ v.drives \subseteq a.good
       /\ \A d \in v.drives, e \in a.good \ v.drives : a.capacity[d] < a.capacity[e]}

MCPartial == {Drives, {1, 3, 5}, {2, 4, 6}}
=============================================================================
