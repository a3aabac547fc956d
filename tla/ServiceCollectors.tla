-------------------------- MODULE ServiceCollectors --------------------------
(***************************************************************************)
(* The Updates of the collectors that ask another program: systemd and     *)
(* logind over D-Bus, a time server, the supervisors of services.          *)
(***************************************************************************)
EXTENDS Steps

(***************************************************************************)
(* logind counts the sessions of each kind at each seat.                   *)
(***************************************************************************)
NewDbus == <<Must("bus"), Must("authentication"), Must("hello")>>
ListSeats == Must("seats")
ListSessions == Must("sessions")
GetSession == <<OrSkip("remote"), OrSkip("type"), OrSkip("class")>>
Logind == NewDbus \o <<
    ListSeats, ListSessions, Each("session", GetSession),
    Each("kind", <<Each("seat", <<Send("sessions", {"kind", "seat"}, "seats")>>)>>)>>

(***************************************************************************)
(* systemd.  The unit collections run in goroutines of their own, which    *)
(* module SystemdUpdate interleaves; none of them sends what another does, *)
(* so here they follow each other.                                         *)
(***************************************************************************)
NewSystemd == Build("exclusive patterns")
NewSystemdDbusConn == Must("bus")
GetSystemdVersion == Try("version")   \* 0 and "" when it is not told
GetAllUnits == Must("units")
CollectSummaryMetrics == Each("state", <<Send("units", {"state"}, "units")>>)

\* The value of a property is taken to be of the type it has in systemd.
CollectUnitStatusMetrics == Each("unit", <<
    When("service or mount", <<
        Try("Type"), When("Type", Unchecked("Type is a string"))>>),
    Each("state", <<Send("unit_state", {"unit", "state"}, "units")>>),
    Flag("enableRestartsMetrics", <<
        SkipIf("not a service"), OrSkip("NRestarts")>>
        \o Unchecked("NRestarts is a uint32") \o <<
        Send("service_restart_total", {"unit"}, "NRestarts")>>, <<>>)>>)

CollectUnitStartTimeMetrics == Each("unit", <<
    When("active", <<OrSkip("ActiveEnterTimestamp")>>
                   \o Unchecked("ActiveEnterTimestamp is a uint64")),
    Send("unit_start_time_seconds", {"unit"}, "units")>>)

TaskCount(property, typed) == <<
    Try(property),
    When(property, Unchecked(typed) \o
        <<When("limited", <<Send(property, {"unit"}, property)>>)>>)>>
CollectUnitTasksMetrics == Each("unit",
    <<SkipIf("not a service")>>
    \o TaskCount("TasksCurrent", "TasksCurrent is a uint64")
    \o TaskCount("TasksMax", "TasksMax is a uint64"))

CollectTimers == Each("unit", <<
    SkipIf("not a timer"), OrSkip("LastTriggerUSec")>>
    \o Unchecked("LastTriggerUSec is a uint64") \o <<
    Send("timer_last_trigger_seconds", {"unit"}, "LastTriggerUSec")>>)

\* The count of refusals came with a later systemd than the others.
SocketCount(series, property, typed) ==
    Unchecked(typed) \o <<Send(series, {"unit"}, property)>>
CollectSockets == Each("unit",
    <<SkipIf("not a socket"), OrSkip("NAccepted")>>
    \o SocketCount("accepted_connections", "NAccepted", "NAccepted is a uint32")
    \o <<OrSkip("NConnections")>>
    \o SocketCount("current_connections", "NConnections", "NConnections is a uint32")
    \o <<Try("NRefused"), When("NRefused",
            SocketCount("refused_connections", "NRefused", "NRefused is a uint32"))>>)

CollectSystemState == <<Must("SystemState"), Send("running", {}, "SystemState")>>

SystemdSince212(steps) == When("version", <<When("at least 212", steps)>>)
Systemd == <<
    NewSystemd, NewSystemdDbusConn, GetSystemdVersion, Send("version", {}, ""),
    GetAllUnits, CollectSummaryMetrics, CollectUnitStatusMetrics,
    Flag("enableStartTimeMetrics", <<CollectUnitStartTimeMetrics>>, <<>>),
    Flag("enableTaskMetrics", <<CollectUnitTasksMetrics>>, <<>>),
    SystemdSince212(<<CollectTimers>>), CollectSockets,
    SystemdSince212(CollectSystemState)>>

(***************************************************************************)
(* The time server and the supervisors.                                    *)
(***************************************************************************)
NewNtp == <<
    Build("local server"), Build("version"), Build("tolerance"), Build("port")>>
Ntp == NewNtp \o <<
    Must("reply"),
    Send("stratum, leap, rtt, offset, reference time, root and sanity", {}, "reply")>>

NewSupervisord == Try("url")
\* The answer is taken to be a list of structures with members of known types.
Supervisord == <<NewSupervisord, Must("call")>> \o Unchecked("list") \o <<
    Each("process", Unchecked("structure") \o <<
        Each("member", Unchecked("type of the member")),
        Send("state, exit_status and up", {"process"}, "call"),
        When("running", <<Send("start_time_seconds", {"process"}, "call")>>)>>)>>

Runit == <<
    Must("services"),
    Each("service", <<OrSkip("status"), Send("service", {"service"}, "status")>>)>>
=============================================================================
