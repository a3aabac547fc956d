-------------------------- MODULE StorageCollectors --------------------------
(***************************************************************************)
(* The Updates of the collectors that read block devices, filesystems and  *)
(* the network filesystems.                                                *)
(***************************************************************************)
EXTENDS Steps

\* A device without udev data still has its counters; an older kernel has
\* fewer of them.
NewDiskstatsDeviceFilter == Build("exclusive filters")
GetUdevDeviceProperties == Try("udev")
NewDiskstats == <<Build("blockdevice"), NewDiskstatsDeviceFilter>>
Diskstats == NewDiskstats \o <<
    Must("diskstats"),
    Each("device", <<
        SkipIf("ignored"), GetUdevDeviceProperties,
        Send("info", {"device"}, "diskstats"),
        Each("stat", <<
            When("missing in this kernel", <<Do("break")>>),
            Send("stat", {"device", "stat"}, "diskstats")>>),
        When("udev", <<
            When("filesystem", <<Send("filesystem_info", {"device"}, "udev")>>),
            When("device mapper", <<Send("device_mapper_info", {"device"}, "udev")>>),
            When("ata", <<Each("attribute", <<
                OrSkip("attribute"),
                Send("ata", {"device", "attribute"}, "attribute")>>)>>)>>)>>)>>

Mdadm == <<
    Must("procfs"), Data("mdstat"),
    Each("device", <<Send("disks, blocks and state", {"device"}, "mdstat")>>)>>

Nvme == <<
    Build("sysfs"), Data("class"), Each("device", <<Send("info", {"device"}, "class")>>)>>

\* The class may leave out the attributes a driver does not have; counters
\* at their maximum are not supported.
PushCounters == Each("counter", Unchecked("counter") \o <<
    SkipIf("not supported"),
    Send("counter", {"host", "counter"}, "counter")>>)
FibreChannel == <<
    Build("sysfs"), Data("class"),
    Each("host", Unchecked("attributes") \o <<
        Send("info", {"host"}, "attributes"), PushCounters>>)>>

Tapestats == <<
    Build("sysfs"), Data("class"),
    Each("device", <<SkipIf("ignored"), Send("tape", {"device"}, "class")>>)>>

\* Values are sent as the words of the file are parsed; of a pair without a "/"
\* there is a first half only.
NewDRBD == Data("drbd")
Drbd == <<
    NewDRBD,
    Each("device", <<
        Each("number", <<Must("number"), Send("numerical", {"device", "number"}, "number")>>),
        Each("pair",
            <<Send("local", {"device", "pair"}, "drbd")>> \o Unchecked("second half") \o
            <<Send("remote", {"device", "pair"}, "second half")>>),
        When("connection state", <<Send("connected", {"device"}, "drbd")>>)>>),
    Must("rest of drbd")>>

(***************************************************************************)
(* Filesystems with counters of their own.                                 *)
(***************************************************************************)
UpdateXFSStats == Send("xfs", {"device"}, "stats")
Xfs == <<Build("xfs"), Must("stats"), Each("device", <<UpdateXFSStats>>)>>

BcachePeriodStats == <<
    Send("period", {"uuid", "backing_device"}, "stats"),
    When("readaheads", <<Send("cache_readaheads_total", {"uuid", "backing_device"}, "stats")>>)>>
UpdateBcacheStats == <<
    Send("bcache", {"uuid"}, "stats"),
    Each("backing_device",
        <<Send("backing", {"uuid", "backing_device"}, "stats")>> \o BcachePeriodStats),
    Each("cache_device", <<
        Send("cache", {"uuid", "cache_device"}, "stats"),
        Flag("priorityStats",
             <<Send("priority", {"uuid", "cache_device"}, "stats")>>, <<>>)>>)>>
Bcache == <<Build("bcache"), Must("stats"), Each("uuid", UpdateBcacheStats)>>

\* What the ioctls do not tell is left out: a mount that cannot be opened is
\* tried again at another mount point, a failure of all falls back to sysfs.
GetIoctlDeviceStats == <<
    Each("id", <<
        Read("device", "skip", "error"), Must("device stats"),
        When("last device", <<Do("break")>>)>>)>>
GetIoctlStats == <<
    Must("mounts"),
    Each("mount", <<
        SkipIf("other type or done"), OrSkip("open"), OrSkip("info"),
        SkipIf("known filesystem"), Call(GetIoctlDeviceStats, "skip")>>)>>

GetLayoutStats == Send("used, size and ratio", {"uuid", "block group", "layout"}, "stats")
GetAllocationStats == <<
    Send("reserved_bytes", {"uuid", "block group"}, "stats"),
    Each("layout", <<GetLayoutStats>>)>>
GetBtrfsMetrics == <<
    Send("info and global_rsv", {"uuid"}, "stats"),
    Each("block group", GetAllocationStats),
    If("ioctl stats",
       <<Each("device", <<Send("device and errors", {"uuid", "device"}, "ioctl stats")>>)>>,
       <<Each("device", <<Send("device_size", {"uuid", "device"}, "stats")>>)>>)>>
Btrfs == <<
    Build("btrfs"), Must("stats"), Call(GetIoctlStats, "next"),
    Each("uuid", GetBtrfsMetrics)>>

\* A kernel module without a file is skipped, a file that is garbled is not.
UpdateZfsStats == <<
    OrSkip("kstat"),
    Each("line", <<
        SkipUnless("three words"), Deref("three words"),
        SkipIf("header or other type"), Must("number"),
        Send("kstat", {"subsystem", "line"}, "number")>>),
    Must("header"), Must("rest of kstat")>>

\* Files of the pools: an exported pool removes them after the glob.
PoolFiles(glob, pool, body) == <<
    Must(glob),
    Each(pool, <<Must("pool file")>> \o body)>>
\* A line is taken to have a word for each of the header.
ParsePoolProcfsFile == <<
    Each("field", Unchecked("word") \o <<
        Must("number"), Send("io", {"zpool", "field"}, "number")>>),
    Must("rest of io")>>
ParsePoolObjsetFile == <<
    Each("field", <<
        SkipUnless("three words"), Deref("three words"),
        SkipIf("header or other type"), Must("number"),
        Send("objset", {"dataset", "field"}, "number")>>),
    Must("header"), Must("rest of objset")>>
ParsePoolStateFile == <<
    Must("state"), Each("state name", <<Send("state", {"zpool", "state name"}, "state")>>)>>
UpdatePoolStats ==
    PoolFiles("io", "zpool", ParsePoolProcfsFile)
    \o PoolFiles("objsets", "dataset", ParsePoolObjsetFile)
    \o PoolFiles("states", "zpool", ParsePoolStateFile)
Zfs == <<
    Read("kstats", "nodata", "nodata"),
    Each("subsystem", UpdateZfsStats)>>
    \o UpdatePoolStats

(***************************************************************************)
(* NFS: the client, the server, and the client's mounts.                   *)
(***************************************************************************)
UpdateNFSRequests(version) == Present(version, "procedures", {}, "rpc")
Nfs == <<
    Build("procfs"), Data("rpc"), Send("packets, connections and rpc", {}, "rpc"),
    UpdateNFSRequests("2"), UpdateNFSRequests("3"), UpdateNFSRequests("4")>>

UpdateNFSdGeneral == Send("cache, handles, io, threads, network and rpc", {}, "rpc")
UpdateNFSdRequestsV2 == Each("2", <<Send("requests", {"2"}, "rpc")>>)
UpdateNFSdRequestsV3 == Each("3", <<Send("requests", {"3"}, "rpc")>>)
UpdateNFSdRequestsV4 == Each("4", <<Send("requests", {"4"}, "rpc")>>)
Nfsd == <<
    Build("procfs"), Data("rpc"), UpdateNFSdGeneral,
    UpdateNFSdRequestsV2, UpdateNFSdRequestsV3, UpdateNFSdRequestsV4,
    Send("WdelegGetattr", {}, "rpc")>>

\* Mounts of one export over one transport are exposed once.  The address is
\* that of the mount with the same index in a file read after the other.
NFSOperations == Each("operation", <<
    Send("operations", {"mount", "transport", "operation"}, "mountstats")>>)
NFSEvents == Send("events", {"mount", "transport"}, "mountstats")
UpdateNFSStats == <<
    Send("age and bytes", {"mount", "transport"}, "mountstats"),
    NFSOperations, NFSEvents>>
\* Mutant: every mount of an export is exposed.
MountstatsAll == <<
    Build("proc"), Must("mountstats"), Must("mountinfo"),
    Alike("mount", <<
        SkipIf("not NFS"), Alike("transport", UpdateNFSStats)>>)>>
Mountstats == <<
    Build("proc"), Must("mountstats"), Must("mountinfo"),
    Alike("mount", <<
        SkipIf("not NFS"),
        Alike("transport", <<Once({"mount", "transport"})>> \o UpdateNFSStats)>>)>>
=============================================================================
