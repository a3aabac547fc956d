------------------------ MODULE MCCollectorUpdate ------------------------
(***************************************************************************)
(* One Update of one collector, whichever the behaviour chooses: one of    *)
(* the catalogue, which CollectorUpdate interprets, or a part of one that  *)
(* is more than a sequence of reads and sends.                             *)
(***************************************************************************)
EXTENDS KernelCollectors, NetCollectors, StorageCollectors,
        HardwareCollectors, ServiceCollectors, Discipline,
        Textfile, NtpLeap, SystemdUpdate, DescCaches

Scripts == [
    buddyinfo |-> Buddyinfo, cgroups |-> Cgroups,
    cpu_vulnerabilities |-> CpuVulnerabilities, dmi |-> Dmi, entropy |-> Entropy,
    filefd |-> FileFD, interrupts |-> Interrupts, ksmd |-> Ksmd,
    loadavg |-> Loadavg, meminfo |-> Meminfo, meminfo_numa |-> MeminfoNuma,
    pressure |-> Pressure, processes |-> Processes, schedstat |-> Schedstat,
    selinux |-> SELinux, slabinfo |-> Slabinfo, softirqs |-> Softirqs,
    stat |-> Stat, sysctl |-> Sysctl, time |-> Time, timex |-> Timex,
    uname |-> Uname, vmstat |-> Vmstat, zoneinfo |-> Zoneinfo, cpu |-> Cpu,
    cpufreq |-> CpuFreq,
    arp |-> Arp, bonding |-> Bonding, conntrack |-> Conntrack, ipvs |-> Ipvs,
    infiniband |-> Infiniband, lnstat |-> Lnstat, netclass |-> NetClass,
    netstat |-> NetStat, network_route |-> NetworkRoute, qdisc |-> Qdisc,
    sockstat |-> Sockstat, softnet |-> Softnet, tcpstat |-> TCPStat,
    udp_queues |-> UDPQueues, xfrm |-> Xfrm, wifi |-> Wifi, netdev |-> NetDev,
    ethtool |-> Ethtool,
    diskstats |-> Diskstats, mdadm |-> Mdadm, nvme |-> Nvme,
    fibrechannel |-> FibreChannel, tapestats |-> Tapestats, drbd |-> Drbd,
    xfs |-> Xfs, bcache |-> Bcache, btrfs |-> Btrfs, zfs |-> Zfs, nfs |-> Nfs,
    nfsd |-> Nfsd, mountstats |-> Mountstats,
    hwmon |-> Hwmon, powersupplyclass |-> PowerSupplyClass,
    thermal_zone |-> ThermalZone, rapl |-> Rapl, edac |-> Edac, drm |-> Drm,
    perf |-> Perf,
    logind |-> Logind, systemd |-> Systemd, ntp |-> Ntp,
    supervisord |-> Supervisord, runit |-> Runit]

\* The steps of a script, and those of its branches and bodies, down to Depth.
Depth == 8
StepsOf(steps) == {steps[i] : i \in DOMAIN steps}
Beside(one) ==
    CASE one.op \in {"if", "flag"} -> StepsOf(one.then) \cup StepsOf(one.else)
      [] one.op = "call"           -> {Do(one.failed)}
      [] OTHER                      -> {}
Within(one) ==
    IF one.op \in {"each", "call"} THEN StepsOf(one.body) ELSE {}

OutsideTo[n \in 0 .. Depth] ==
    IF n = 0 THEN UNION {StepsOf(Scripts[c]) : c \in DOMAIN Scripts}
    ELSE LET steps == OutsideTo[n - 1]
         IN  steps \cup UNION {Beside(one) : one \in steps}
InsideTo[n \in 0 .. Depth] ==
    IF n = 0 THEN UNION {Within(one) : one \in OutsideTo[Depth]}
    ELSE LET steps == InsideTo[n - 1]
         IN  steps \cup UNION {Beside(one) \cup Within(one) : one \in steps}
StepsOutside == OutsideTo[Depth]
StepsInside == InsideTo[Depth]

RECURSIVE FlagsIn(_)
FlagsIn(steps) ==
    {one.what : one \in {s \in StepsOf(steps) : s.op = "flag"}}
    \cup UNION {FlagsIn(one.then) \cup FlagsIn(one.else) :
                  one \in {s \in StepsOf(steps) : s.op \in {"if", "flag"}}}
    \cup UNION {FlagsIn(one.body) : one \in {s \in StepsOf(steps) : s.op \in {"each", "call"}}}
ScriptFlags == [c \in DOMAIN Scripts |-> FlagsIn(Scripts[c])]

\* Whether steps send anything if flags are set.
RECURSIVE MaySend(_, _)
MaySend(flags, steps) ==
    IF steps = <<>> THEN FALSE
    ELSE LET one == steps[1]
             after == Tail(steps)
         IN CASE one.op = "send" -> TRUE
              [] one.op = "do"   -> one.reaction \in {"next", "later"} /\ MaySend(flags, after)
              [] one.op = "if"   -> MaySend(flags, one.then \o after)
                                    \/ MaySend(flags, one.else \o after)
              [] one.op = "flag" ->
                   MaySend(flags, (IF one.what \in flags THEN one.then ELSE one.else) \o after)
              [] one.op \in {"each", "call"} ->
                   MaySend(flags, one.body) \/ MaySend(flags, after)
              [] OTHER           -> MaySend(flags, after)

LoopSends(j) ==
    /\ j.rest # <<>> /\ j.rest[1].op \in {"each", "call"}
    /\ MaySend(j.flags, j.rest[1].body)
RECURSIVE From(_, _)
From(known, new) ==
    IF new = {} THEN known
    ELSE From(known \cup new,
              (UNION {Premises(j, LoopSends(j)) : j \in new}) \ (known \cup new))
ScriptJudged == [c \in DOMAIN Scripts |->
    From({}, {Outset(c, flags) : flags \in SUBSET ScriptFlags[c]})]

\* Collectors that send while they read: an error comes after some samples.
SendWhileReading == {
    "cpu", "entropy", "filefd", "interrupts", "ksmd", "pressure", "processes", "sysctl",
    "time", "vmstat", "conntrack", "ipvs", "netclass", "netstat",
    "udp_queues", "wifi", "netdev", "drbd", "zfs", "hwmon", "thermal_zone",
    "rapl", "edac", "perf", "systemd"}

\* ErrNoData after some samples: the statistics of conntrack are in a file of
\* their own, and a later zone of rapl may be the one that is not readable.
NoDataAfterSamples == {"conntrack", "rapl"}

\* Two routes may differ in what is no label, two chips share a device.
AmbiguousLabels == {"network_route", "hwmon"}

\* The accesses that the code does not guard: pointers that procfs, sysfs or
\* netlink leaves nil for what the kernel does not tell, words of a line that
\* may be shorter, types of the values that another program answers.
Unguarded == {
    <<"fibrechannel", "attributes">>, <<"fibrechannel", "counter">>,
    <<"pressure", "some">>, <<"pressure", "full">>,
    <<"netclass", "link attributes">>, <<"netclass", "name of the state">>,
    <<"network_route", "link attributes">>,
    <<"tcpstat", "first byte">>, <<"netstat", "last character">>,
    <<"meminfo", "second word">>, <<"meminfo_numa", "fourth word">>,
    <<"vmstat", "second word">>, <<"drbd", "second half">>, <<"zfs", "word">>,
    <<"supervisord", "list">>, <<"supervisord", "structure">>,
    <<"supervisord", "type of the member">>,
    <<"systemd", "Type is a string">>, <<"systemd", "NRestarts is a uint32">>,
    <<"systemd", "ActiveEnterTimestamp is a uint64">>,
    <<"systemd", "TasksCurrent is a uint64">>, <<"systemd", "TasksMax is a uint64">>,
    <<"systemd", "LastTriggerUSec is a uint64">>,
    <<"systemd", "NAccepted is a uint32">>, <<"systemd", "NConnections is a uint32">>,
    <<"systemd", "NRefused is a uint32">>}

\* ethtool looks values up by the sanitized name, which may be no key.
LookedUpBySanitizedName == {"ethtool"}

VARIABLE part
vars == <<part, updateVars, textfileVars, ntpVars, systemdVars, cacheVars>>

Parts == {"update", "textfile", "ntp", "systemd", "caches"}
AnyName == CHOOSE n \in Names : TRUE
AnyCache == CHOOSE c \in Locked : TRUE

Init ==
    /\ part \in Parts
    /\ UpdateInit /\ (part # "update" => collector = AnyName)
    /\ TextfileInit
    /\ NtpInit
    /\ SystemdInit /\ (part # "systemd" => ~since212)
    /\ CacheInit /\ (part # "caches" => cacheOf = AnyCache)

UpdateStep ==
    /\ part = "update" /\ UpdateNext
    /\ UNCHANGED <<part, textfileVars, ntpVars, systemdVars, cacheVars>>
TextfileStep ==
    /\ part = "textfile" /\ TextfileNext
    /\ UNCHANGED <<part, updateVars, ntpVars, systemdVars, cacheVars>>
NtpStep ==
    /\ part = "ntp" /\ NtpNext
    /\ UNCHANGED <<part, updateVars, textfileVars, systemdVars, cacheVars>>
SystemdStep ==
    /\ part = "systemd" /\ SystemdNext
    /\ UNCHANGED <<part, updateVars, textfileVars, ntpVars, cacheVars>>
CachesStep ==
    /\ part = "caches" /\ CacheNext
    /\ UNCHANGED <<part, updateVars, textfileVars, ntpVars, systemdVars>>

Next == UpdateStep \/ TextfileStep \/ NtpStep \/ SystemdStep \/ CachesStep

Spec == Init /\ [][Next]_vars
=============================================================================
