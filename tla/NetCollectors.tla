---------------------------- MODULE NetCollectors ----------------------------
(***************************************************************************)
(* The Updates of the collectors that read the network stack and its       *)
(* devices: /proc/net, /sys/class/net, and the netlink and ethtool calls.  *)
(***************************************************************************)
EXTENDS Steps

\* The interface of a neighbour may be gone when it is asked for.
GetArpEntriesRTNL == <<
    Must("rtnetlink"), Must("neighbours"),
    Each("ifindex", <<Read("interface", "skip", "error")>>)>>
Arp == <<
    Build("procfs"),
    Flag("arpNetlink", GetArpEntriesRTNL, <<Must("arp")>>),
    Each("device", <<SkipIf("ignored"), Send("entries", {"device"}, "")>>)>>

\* All masters are read before the first is sent; the state of a slave is
\* found under either of two names.
ReadBondingStats == <<
    Data("masters"),
    Each("master", <<
        Data("slaves"),
        Each("slave", <<
            Read("lower mii_status", "next", "error"),
            If("lower mii_status", <<>>, <<Data("slave mii_status")>>)>>)>>)>>
Bonding == ReadBondingStats \o
    <<Each("master", <<Send("slaves and active", {"master"}, "masters")>>)>>

\* The counts are sent before the statistics are found missing.
GetConntrackStatistics == <<Data("procfs"), Data("stat")>>
Conntrack == <<
    Data("count"), Send("entries", {}, "count"),
    Data("max"), Send("limit", {}, "max")>>
    \o GetConntrackStatistics \o <<Send("statistics", {}, "stat")>>

ParseIpvsLabels == <<Build("labels")>>
Ipvs == ParseIpvsLabels \o <<
    Build("procfs"), Data("stats"), Send("totals", {}, "stats"),
    Must("backends"),
    Each("backend", <<Send("connections and weight", {"backend"}, "backends")>>)>>

Infiniband == <<
    Build("sysfs"), Data("class"),
    Each("device", <<
        Send("info", {"device"}, "class"),
        Each("port", <<
            Send("state and rate", {"device", "port"}, "class"),
            NotNil("counter", "counters", {"device", "port"})>>)>>)>>

Lnstat == <<
    Must("procfs"), Must("netstat"),
    Each("file", <<Each("field", <<Each("cpu", <<
        Send("total", {"file", "field", "cpu"}, "netstat")>>)>>)>>)>>

(***************************************************************************)
(* The attributes of network devices, of sysfs or of netlink.              *)
(***************************************************************************)
GetNetClassInfo == <<
    Data("devices"),
    Each("device", <<SkipIf("ignored"), Data("attributes")>>)>>
NetClassSysfs == GetNetClassInfo \o <<
    Each("device", <<
        Send("up and info", {"device"}, "devices"),
        NotNil("attribute", "attribute", {"device"}),
        When("speed", <<
            Deref("speed"), SkipIf("invalid speed"), Send("speed_bytes", {"device"}, "speed")>>)>>)>>

GetLinkModes == <<Read("link modes", "next", "error")>>
GetNetClassInfoRTNL == <<Must("rtnetlink"), Must("links")>>
\* The name of every link is matched, also of one without attributes.
RelevantLinks == <<Each("device", Unchecked("link attributes"))>>
GetSysfsAttributes ==
    <<Each("device", <<SkipIf("ignored"), Must("attributes")>>)>>
NetClassRTNL == GetLinkModes \o <<
    When("link modes", <<
        Each("device", <<
            SkipIf("ignored"), SkipIf("unknown speed"),
            Send("speed_bytes", {"device"}, "link modes")>>)>>)>>
    \o GetNetClassInfoRTNL \o RelevantLinks \o GetSysfsAttributes \o <<
    Each("device", <<Send("up", {"device"}, "links")>>
        \o Unchecked("name of the state") \o <<
        Send("info", {"device"}, "name of the state"),
        NotNil("attribute", "attribute", {"device"}),
        Flag("netclassRTNLWithStats", <<>>, <<Do("skip")>>),
        SkipUnless("statistics"), Deref("statistics"),
        Send("statistics", {"device"}, "statistics")>>)>>

NetClass == <<
    Build("sysfs"), Flag("netclassNetlink", NetClassRTNL, NetClassSysfs)>>

\* A line of names loses its last character, whether or not it has one.
ParseNetStats(file, rest) == <<
    Must(file),
    Each("line", Unchecked("last character") \o <<Must("as many values")>>),
    Must(rest)>>
GetNetStats ==
    ParseNetStats("netstat", "rest of netstat") \o ParseNetStats("snmp", "rest of snmp")
\* A kernel without IPv6 has no snmp6; a value is parsed, wanted or not.
GetSNMP6Stats == <<
    Read("snmp6", "next", "error"),
    When("snmp6", <<Each("line", <<SkipUnless("two words"), Deref("two words")>>)>>)>>
NetStat == GetNetStats \o GetSNMP6Stats \o <<
    Each("field", <<
        Must("value"), SkipIf("not wanted"), Send("field", {"field"}, "value")>>)>>

\* A route's table and metric are not among its labels.  The name of its
\* interface is among the attributes of the link, if the link is listed.
InterfaceName == When("link", Unchecked("link attributes"))
NetworkRoute == <<
    Must("rtnetlink"), Must("links"), Must("routes"),
    Alike("route", <<
        SkipIf("not unicast"),
        If("multipath",
           <<Alike("hop", <<InterfaceName, Send("info", {"route", "hop"}, "routes")>>)>>,
           <<InterfaceName, Send("info", {"route"}, "routes")>>)>>),
    Each("device", <<Send("routes", {"device"}, "routes")>>)>>

Qdisc == <<
    Build("exclusive filters"), Must("qdiscs"),
    Each("device", <<
        SkipIf("not root"), SkipIf("ignored"),
        Send("qdisc", {"device"}, "qdiscs")>>)>>

\* A kernel without IPv6 has no sockstat6.
SockstatFamily(family) == When(family, <<
    Each(family, <<NotNil("field", family, {family})>>)>>)
Sockstat == <<
    Must("procfs"), Read("sockstat", "next", "error"),
    Read("sockstat6", "next", "error"),
    When("sockstat", <<When("used", <<Deref("used"), Send("sockets_used", {}, "used")>>)>>),
    SockstatFamily("sockstat"), SockstatFamily("sockstat6")>>

Softnet == <<
    Build("procfs"), Must("softnet_stat"),
    Each("cpu", <<Send("softnet", {"cpu"}, "softnet_stat")>>)>>

\* The first byte of every message is addressed, also of an empty one.
ParseTCPStats == Each("message", Unchecked("first byte"))
GetTCPStats(dial, dump) == <<Must(dial), Must(dump), ParseTCPStats>>
TCPStat == GetTCPStats("dial", "dump") \o <<
    When("tcp6", GetTCPStats("dial6", "dump6")),
    Each("state", <<Send("connection_states", {"state"}, "dump")>>)>>

\* Without either file there is no data.
UDPQueues == <<
    Build("procfs"),
    Read("udp", "next", "error"), When("udp", <<Send("v4", {}, "udp")>>),
    Read("udp6", "next", "error"), When("udp6", <<Send("v6", {}, "udp6")>>),
    If("udp", <<>>, <<If("udp6", <<>>, <<Do("nodata")>>)>>)>>

Xfrm == <<Build("procfs"), Must("xfrm_stat"), Send("xfrm", {}, "xfrm_stat")>>

(***************************************************************************)
(* wifi: a BSS and stations an interface does not have are left out.       *)
(***************************************************************************)
UpdateStationStats == Send("station", {"device", "station"}, "stations")
Wifi == <<
    Data("nl80211"), Must("interfaces"),
    Each("device", <<
        SkipIf("unnamed"), Send("frequency", {"device"}, "interfaces"),
        Read("bss", "next", "error"),
        When("bss", <<Send("info", {"device"}, "bss")>>),
        Read("stations", "next", "error"),
        When("stations", <<Each("station", <<UpdateStationStats>>)>>)>>)>>

(***************************************************************************)
(* netdev: counters of the devices, and their addresses if asked for.      *)
(***************************************************************************)
NewNetDev == <<Build("exclusive filters")>>
\* A link without attributes or without statistics is left out.
ParseNetlinkStats == Each("device", <<
    SkipUnless("link attributes"), Deref("link attributes"),
    SkipIf("ignored"), SkipUnless("statistics"), Deref("statistics")>>)
GetNetDevStats == Flag("netDevNetlink",
    <<Must("rtnetlink"), Must("links"), ParseNetlinkStats>>,
    <<Must("procfs"), Must("net/dev"), Each("device", <<SkipIf("ignored")>>)>>)
GetAddrsInfo == <<
    Must("interfaces"),
    Each("device", <<Each("address", <<
        OrSkip("cidr"), Send("address", {"device", "address"}, "cidr")>>)>>)>>
NetDev == NewNetDev \o <<
    GetNetDevStats,
    Each("device", <<
        Each("key", <<Send("counter", {"device", "key"}, "")>>)>>),
    Flag("netdevAddressInfo", GetAddrsInfo, <<>>)>>

(***************************************************************************)
(* ethtool: what a device does not support is left out.                    *)
(***************************************************************************)
MakeEthtoolCollector == <<Build("sysfs"), Build("ethtool")>>
UpdateSpeeds(series) == Present("bit", series, {"device"}, "link info")
UpdatePortInfo == Present("port", "supported_port", {"device"}, "link info")
UpdatePortCapabilities(series) == Send(series, {"device"}, "link info")

\* Statistics whose names clash are left out.  The value is looked up by the
\* sanitized name among the raw ones.
UpdateEthtoolStats == <<
    Try("stats"), When("stats", <<
        Each("stat", <<
            SkipIf("not wanted or clash"), Try("raw name"),
            Send("stat", {"device", "stat"}, "raw name")>>)>>)>>
Ethtool == MakeEthtoolCollector \o <<
    Data("net class"), Must("some device"),
    Each("device", <<
        SkipIf("ignored"),
        Try("link info"), When("link info", <<
            UpdateSpeeds("supported speeds"), UpdatePortInfo,
            UpdatePortCapabilities("supported"),
            UpdateSpeeds("advertised speeds"), UpdatePortCapabilities("advertised")>>),
        Try("driver info"),
        When("driver info", <<Send("info", {"device"}, "driver info")>>)>>
        \o UpdateEthtoolStats)>>
=============================================================================
