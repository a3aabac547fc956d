-------------------------- MODULE KernelCollectors --------------------------
(***************************************************************************)
(* The Updates of the collectors that read counters and tables of the      *)
(* Linux kernel (src/src/metrics/collector/*_linux.go), one definition     *)
(* each.  The checks of the code are steps, and so is every access to a    *)
(* pointer, a column or an element that may not be there, checked or not.  *)
(***************************************************************************)
EXTENDS Steps

Buddyinfo == <<
    Build("procfs"), Must("buddyinfo"),
    Each("zone", <<Each("size", <<Send("blocks", {"zone", "size"}, "buddyinfo")>>)>>)>>

Cgroups == <<
    Build("procfs"), Must("cgroups"),
    Each("subsystem", <<Send("cgroups and enabled", {"subsystem"}, "cgroups")>>)>>

CpuVulnerabilities == <<
    Must("sysfs"), Must("vulnerabilities"),
    Each("codename", <<Send("info", {"codename"}, "vulnerabilities")>>)>>

\* A platform without DMI is found out in the constructor, told by Update.
Dmi == <<
    Build("sysfs"), Read("class", "next", "unbuilt"),
    If("class", <<>>, <<Do("nodata")>>),
    If("some value", <<Send("info", {}, "some value")>>, <<Do("nodata")>>)>>

Entropy == <<
    Build("procfs"), Must("random"),
    Must("entropy_avail"), Deref("entropy_avail"),
    Send("available_bits", {}, "entropy_avail"),
    Must("poolsize"), Deref("poolsize"),
    Send("pool_size_bits", {}, "poolsize")>>

FileFD == <<
    Must("file-nr"), Must("three values"), Deref("three values"),
    Each("name", <<Must("number"), Send("stat", {"name"}, "number")>>)>>

\* Lines with fewer columns than CPUs (ERR, MIS) are left out.
Interrupts == <<
    Must("interrupts"), Must("header"), Must("lines"),
    Each("irq", <<
        SkipUnless("a column per CPU"), Deref("a column per CPU"),
        Each("cpu", <<Must("number"), Send("total", {"irq", "cpu"}, "number")>>)>>)>>

Ksmd == <<Each("file", <<Must("value"), Send("file", {"file"}, "value")>>)>>

\* getLoad of Linux; parseLoad gives all three averages or an error.
Loadavg == <<
    Must("loadavg"), Must("three fields"), Deref("three fields"), Must("numbers"),
    Each("period", <<Send("load", {"period"}, "numbers")>>)>>

\* The second word of a line is parsed whether or not there is one.
ParseMemInfo == <<
    Must("meminfo"),
    Each("line",
        <<SkipIf("empty line")>> \o Unchecked("second word") \o
        <<Must("number"), Must("unit")>>),
    Must("rest of meminfo")>>
Meminfo == ParseMemInfo \o <<Each("key", <<Send("bytes", {"key"}, "meminfo")>>)>>

\* Everything of all nodes is parsed before anything is sent.
GetMemInfoNuma == <<
    Must("glob"),
    Each("node", <<
        Must("meminfo"),
        Each("line",
            <<SkipIf("empty line")>> \o Unchecked("fourth word") \o
            <<Must("number"), Must("unit")>>),
        Must("rest of meminfo"),
        Must("numastat"), Must("node number"), Deref("node number"),
        Each("stat", <<
            SkipIf("empty line"), Must("two fields"), Deref("two fields"), Must("number")>>),
        Must("rest of numastat")>>)>>
MeminfoNuma == GetMemInfoNuma \o
    <<Each("node", <<Each("metric", <<Send("numa", {"node", "metric"}, "glob")>>)>>)>>

\* The kernel has all of the resources or none (ErrNotExist, ENOTSUP).  procfs
\* leaves a pointer nil for a line that the file does not have.
Pressure == <<
    Build("procfs"),
    Each("resource", <<
        Flag("psi", <<>>, <<Do("nodata")>>), Must("stats")>>
        \o Unchecked("some") \o <<
        Send("waiting", {"resource"}, "some"),
        When("io or memory",
             Unchecked("full") \o <<Send("stalled", {"resource"}, "full")>>)>>)>>

\* The threads of a process: those that vanished are not counted.
GetThreadStates == <<
    Read("task", "nil", "error"), Read("threads", "nil", "error"),
    Each("thread", <<SkipIf("main thread"), Read("thread stat", "skip", "error")>>)>>
Processes == <<
    Build("procfs"), Must("processes"),
    Each("pid", <<
        Read("stat", "skip", "error"),
        Call(GetThreadStates, "error")>>),
    Send("threads", {}, "processes"),
    Must("threads-max"), Send("max_threads", {}, "threads-max"),
    Each("state", <<Send("state", {"state"}, "processes")>>),
    Each("thread state", <<Send("threads_state", {"thread state"}, "processes")>>),
    Must("pid_max"), Send("pids", {}, "processes"), Send("max_processes", {}, "pid_max")>>

Schedstat == <<
    Build("procfs"), Data("schedstat"),
    Each("cpu", <<Send("running, waiting and timeslices", {"cpu"}, "schedstat")>>)>>

SELinux == <<
    If("enabled",
       <<Send("enabled", {}, ""), Send("config_mode", {}, ""), Send("current_mode", {}, "")>>,
       <<Send("enabled", {}, ""), Do("nil")>>)>>

Slabinfo == <<
    Build("procfs"), Must("slabinfo"),
    Each("slab", <<Send("objects and pages", {"slab"}, "slabinfo")>>)>>

Softirqs == <<
    Build("procfs"), Must("softirqs"),
    Each("type", <<Each("cpu", <<Send("total", {"type", "cpu"}, "softirqs")>>)>>)>>

Stat == <<
    Build("procfs"), Must("stat"), Send("totals", {}, "stat"),
    Flag("statSoftirqFlag",
         <<Each("vector", <<Send("softirqs_total", {"vector"}, "stat")>>)>>, <<>>)>>

\* The metrics of one sysctl are sent after all of its checks.
Sysctl == <<
    Build("procfs"),
    Each("sysctl", <<
        Must("values"), Must("a value"),
        If("one value",
           <<When("keys", <<Do("error")>>),
             Deref("a value"), Send("value", {"sysctl"}, "values")>>,
           <<If("keys",
                <<Must("as many keys"), When("strings", <<Do("error")>>),
                  Each("key", <<
                      Deref("as many keys"), Send("mapped", {"sysctl", "key"}, "values")>>)>>,
                <<Each("index", <<Send("indexed", {"sysctl", "index"}, "values")>>)>>)>>)>>)>>

\* The time is sent before the clock sources are read.
Time == <<
    Send("seconds and zone", {}, ""),
    Must("sysfs"), Must("clocksources"),
    Each("device", <<
        Each("clocksource", <<Send("available", {"device", "clocksource"}, "clocksources")>>),
        Send("current", {"device"}, "clocksources")>>)>>

Timex == <<Data("adjtimex"), Send("timex", {}, "adjtimex")>>

Uname == <<Must("uname"), Send("info", {}, "uname")>>

\* Every line is parsed, wanted or not, without a look at its length, and sent
\* at once.
Vmstat == <<
    Must("vmstat"),
    Each("field", Unchecked("second word") \o <<
        Must("number"), SkipIf("not wanted"), Send("field", {"field"}, "number")>>),
    Must("rest of vmstat")>>

ZoneinfoFields == Each("field", <<
    SkipIf("not a number"), Send("zone", {"zone", "field"}, "zoneinfo")>>)
Zoneinfo == <<
    Build("procfs"), Must("zoneinfo"),
    Each("zone", <<
        ZoneinfoFields,
        Each("protection", <<Send("protection", {"zone", "protection"}, "zoneinfo")>>)>>)>>

(***************************************************************************)
(* The cpu collector besides its cache (module CPUStats).                  *)
(***************************************************************************)
NewCPU == <<
    Build("procfs"), Build("sysfs"), Read("isolated", "next", "unbuilt"),
    Build("include patterns")>>

UpdateFieldInfo(list, pattern) ==
    Flag(pattern, <<Each(list, <<SkipIf("no match"), Send(list, {list}, "cpuinfo")>>)>>, <<>>)
UpdateInfo == <<
    Must("cpuinfo"),
    Each("cpu", <<Send("info", {"cpu"}, "cpuinfo")>>),
    Flag("cpufreq", <<>>, <<Each("cpu", <<Send("frequency_hertz", {"cpu"}, "cpuinfo")>>)>>),
    When("some cpu", <<
        Deref("some cpu"),
        UpdateFieldInfo("flag", "flags pattern"), UpdateFieldInfo("bug", "bugs pattern")>>)>>

\* Errors are logged: a CPU without topology, a counter that is not there.
UpdateThermalThrottle == <<
    Must("glob"),
    Each("cpu", <<
        OrSkip("physical_package_id"), OrSkip("core_id"),
        Try("core_throttle_count"), Try("package_throttle_count")>>),
    Each("package", <<Send("package_throttles", {"package"}, "glob")>>),
    Each("package", <<
        Each("core", <<Send("core_throttles", {"package", "core"}, "glob")>>)>>)>>

Cpu == NewCPU \o <<
    Flag("enableCPUInfo", UpdateInfo, <<>>),
    Must("stat"), Each("cpu", <<Send("seconds and guest", {"cpu"}, "stat")>>),
    When("isolated", <<Each("cpu", <<Send("isolated", {"cpu"}, "isolated")>>)>>)>>
    \o UpdateThermalThrottle

CpuFreq == <<
    Build("sysfs"), Must("cpufreq"),
    Each("cpu", <<
        NotNil("frequency", "hertz", {"cpu"}),
        When("governor", <<
            Each("governor", <<Send("governor", {"cpu", "governor"}, "cpufreq")>>)>>)>>)>>
=============================================================================
