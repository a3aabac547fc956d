-------------------------- MODULE HardwareCollectors --------------------------
(***************************************************************************)
(* The Updates of the collectors that read sensors, power supplies and     *)
(* performance counters.                                                   *)
(***************************************************************************)
EXTENDS Steps

(***************************************************************************)
(* hwmon.  The name of a chip is that of its device, or the one its driver *)
(* gives, or its directory's: two chips of a device get the same name.     *)
(***************************************************************************)
HwmonName ==
    <<If("device link", <<>>, <<If("name", <<>>, <<Must("real directory")>>)>>)>>

AddValueFile == OrSkip("value")
ExplodeSensorFilename == SkipIf("not a sensor's file")
CollectSensorData(dir) ==
    <<Must(dir), Each("file", <<ExplodeSensorFilename, AddValueFile>>)>>

HwmonHumanReadableChipName ==
    <<Try("name"), When("name", <<Send("chip_names", {"chip"}, "name")>>)>>

HwmonElement == Each("element", <<
    SkipIf("label"), OrSkip("number"),
    Send("sensor", {"chip", "sensor", "element"}, "number")>>)
HwmonSensor == Each("sensor", <<
    When("has a label", <<Send("sensor_label", {"chip", "sensor"}, "has a label")>>),
    If("beep_enable",
       <<Send("beep_enabled", {"chip", "sensor"}, "directory")>>,
       <<If("vrm or update_interval",
            <<OrSkip("number"),
              Send("vrm or update_interval", {"chip", "sensor"}, "number")>>,
            <<HwmonElement>>)>>)>>)

UpdateHwmon ==
    HwmonName \o <<When("ignored", <<Do("nil")>>)>>
    \o CollectSensorData("directory")
    \o <<When("device", CollectSensorData("device directory"))>>
    \o HwmonHumanReadableChipName \o <<HwmonSensor>>

\* A chip that fails is reported after the others were sent.
Hwmon == <<
    Data("hwmon"),
    Alike("chip", <<
        OrSkip("entry"), SkipIf("not a directory"), Call(UpdateHwmon, "later")>>)>>

(***************************************************************************)
(* Power, temperature and memory controllers.                              *)
(***************************************************************************)
GetPowerSupplyClassInfo == Data("class")
PushPowerSupplyMetric(field) == NotNil(field, "power_supply", {"supply"})
PowerSupplyClass == <<
    GetPowerSupplyClassInfo,
    Each("supply", <<
        SkipIf("ignored"),
        PushPowerSupplyMetric("count"), PushPowerSupplyMetric("micro"),
        PushPowerSupplyMetric("temperature"),
        Send("power_supply_info", {"supply"}, "class")>>)>>

\* Zones that may not be read are no data; cooling devices must be readable.
ThermalZone == <<
    Build("sysfs"), Data("zones"),
    Each("zone", <<Send("temp", {"zone"}, "zones")>>),
    Must("cooling devices"),
    Each("device", <<Send("cur_state and max_state", {"device"}, "cooling devices")>>)>>

JoulesMetric == Flag("raplZoneLabel",
    <<Send("joules_total of all zones", {"zone"}, "energy")>>,
    <<Send("joules_total", {"zone"}, "energy")>>)
Rapl == <<
    Build("sysfs"), Data("zones"), Each("zone", <<Data("energy"), JoulesMetric>>)>>

EdacCount(file, series, labels) == <<Must(file), Send(series, labels, file)>>
Edac == <<
    Must("controllers"),
    Each("controller",
        <<Must("controller number"), Deref("controller number")>>
        \o EdacCount("ce_count", "correctable", {"controller"})
        \o EdacCount("ce_noinfo_count", "correctable of unknown csrow", {"controller"})
        \o EdacCount("ue_count", "uncorrectable", {"controller"})
        \o EdacCount("ue_noinfo_count", "uncorrectable of unknown csrow", {"controller"})
        \o <<Must("csrows"),
             Each("csrow",
                 <<Must("csrow number"), Deref("csrow number")>>
                 \o EdacCount("csrow ce_count", "csrow correctable", {"controller", "csrow"})
                 \o EdacCount("csrow ue_count", "csrow uncorrectable", {"controller", "csrow"}))>>)>>

Drm == <<
    Build("sysfs"), Must("cards"),
    Each("card", <<Send("card_info, gpu_busy and memory", {"card"}, "cards")>>)>>

(***************************************************************************)
(* perf.  A profiler that has some of its counters is good enough; the     *)
(* flags that choose counters and CPUs keep their defaults.                *)
(***************************************************************************)
PerfCPUFlagToCPUs == Flag("perfCPUsFlag", <<Build("cpus")>>, <<>>)
PerfTracepointFlagToTracepoints == Build("tracepoints")
NewPerfTracepointCollector == <<
    PerfTracepointFlagToTracepoints, Build("attributes"),
    Each("cpu", <<Build("group profiler")>>), Each("cpu", <<Build("start")>>)>>
StartProfiler(disabled, profiler) == Flag(disabled, <<>>, <<
    If(profiler, <<>>, <<If("has profilers", <<>>, <<Do("unbuilt")>>)>>),
    Build("start")>>)
NewPerf == <<
    PerfCPUFlagToCPUs, Flag("perfTracepointFlag", NewPerfTracepointCollector, <<>>),
    Each("cpu", <<
        StartProfiler("perfNoHwProfiler", "hardware profiler"),
        StartProfiler("perfNoSwProfiler", "software profiler"),
        StartProfiler("perfNoCaProfiler", "cache profiler")>>)>>

\* Counters the kernel does not have are left out of the profile.
Profile(disabled, profile) == Flag(disabled, <<>>, <<
    Each("cpu", <<Must(profile), NotNil("counter", profile, {"cpu"})>>)>>)

UpdateHardwareStats == Profile("perfNoHwProfiler", "hardware profile")
UpdateSoftwareStats == Profile("perfNoSwProfiler", "software profile")
UpdateCacheStats    == Profile("perfNoCaProfiler", "cache profile")
UpdateTracepoints   == Flag("perfTracepointFlag", <<
    Each("cpu", <<Must("group profile"),
                  Each("event", <<Send("tracepoint", {"cpu", "event"}, "group profile")>>)>>)>>,
    <<>>)
Perf == NewPerf \o <<
    UpdateHardwareStats, UpdateSoftwareStats, UpdateCacheStats, UpdateTracepoints>>
=============================================================================
