--------------------------- MODULE MCFilesystem ---------------------------
(***************************************************************************)
(* Instances of FilesystemCollector for TLC: mount tables with a mount     *)
(* that may hang, one listed twice, an excluded type and an excluded mount *)
(* point, and one listed with two sets of options.                         *)
(***************************************************************************)
EXTENDS FilesystemCollector, TLC

Mount(d, m, t, o) == [device |-> d, mountPoint |-> m, fsType |-> t, options |-> o]
Nfs == Mount("srv", "/nfs", "nfs", "rw")
Data == Mount("sda", "/data", "xfs", "rw")
DataRO == Mount("sda", "/data", "xfs", "ro")
Proc == Mount("proc", "/mnt", "proc", "rw")
Sys == Mount("sda", "/sys", "xfs", "rw")

AllLabels == {Nfs, Data, DataRO, Proc, Sys}
TwoTables == {<<Nfs, Data>>, <<Data, Data>>, <<Sys, Nfs>>}
LiveTables == {<<Nfs>>, <<Proc, Nfs, Data>>, <<Sys, Nfs, Nfs>>}
RaceTable == {<<Data, Nfs>>}
OptionTable == {<<Data, DataRO>>}

SkipMountPoints == {"/sys"}
SkipFSTypes == {"proc"}
NfsOnly == {"/nfs"}
\* Two calls overlap on a table of one line, a call on a longer table is alone.
LongAlone ==
    \A s, t \in Scrapes : s # t /\ Len(mps[s]) > 1 => mps[t] = <<>>
LiveSpec == Init /\ [][Next /\ LongAlone']_vars /\ Fairness

SlotSymmetry == Permutations(Scrapes)
=============================================================================
