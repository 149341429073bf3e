----------------------------- MODULE Perception -----------------------------
(***************************************************************************)
(* What the monitors see: the readings of the sources each of them looks at,  *)
(* the rules that rate a reading, and the event the escalation manager makes   *)
(* of what was rated.                                                         *)
(*                                                                         *)
(* A value is its class with respect to the thresholds of the rules: "fine"    *)
(* stands for every value no rule is about.  A source is made anew for every   *)
(* perception, so it keeps nothing.                                           *)
(***************************************************************************)
EXTENDS Naturals, SequencesExt, FiniteSetsExt

(* get_default_rules: of a metric, the values that match and the severity. *)
Rule(source, metric, values, severity) ==
    [source |-> source, metric |-> metric, values |-> values, severity |-> severity]

DefaultRules == <<
    Rule("docker", "container_status", {"exited", "dead"}, "critical"),
    Rule("docker", "container_status", {"restarting"}, "warning"),
    Rule("docker", "cpu_percent", {"> 90"}, "warning"),
    Rule("docker", "memory_percent", {"> 85"}, "warning"),
    Rule("redis", "memory_usage_percent", {"> 80"}, "critical"),
    Rule("redis", "memory_usage_percent", {"> 60", "> 80"}, "warning"),
    Rule("redis", "connection_status", {"unavailable"}, "critical"),
    Rule("redis", "keyspace_hit_rate", {"< 0.5"}, "warning"),
    Rule("mysql", "slow_queries", {"> 10"}, "warning"),
    Rule("mysql", "connection_status", {"unavailable"}, "critical"),
    Rule("mysql", "threads_connected", {"> 100"}, "warning"),
    Rule("prometheus", "error_rate", {"> 0.1"}, "critical"),
    Rule("prometheus", "error_rate", {"> 0.05", "> 0.1"}, "warning"),
    Rule("prometheus", "token_usage_rate", {"> 100000"}, "warning")>>

Signal(source, metric, value, severity) ==
    [source |-> source, metric |-> metric, value |-> value, severity |-> severity]

(* Each metric of a source with one of its values, in the order of the source;   *)
(* "absent" is a value the service did not give.                                *)
Read(source, metric, values) ==
    {IF v = "absent" THEN <<>> ELSE <<Signal(source, metric, v, "info")>> : v \in values}
Both(first, second) == {a \o b : a \in first, b \in second}

(* DockerDataSource.collect: a container, and its load if it runs. *)
DockerReadings ==
    Read("docker", "container_status", {"exited", "dead", "restarting"})
    \cup Both(Read("docker", "container_status", {"fine"}),
             Both(Read("docker", "cpu_percent", {"absent", "fine", "> 90"}),
                  Read("docker", "memory_percent", {"absent", "fine", "> 85"})))

(* K8sDataSource.collect rates its readings itself: the phase of a pod, and the  *)
(* restarts and the state of a container.                                      *)
K8sReadings ==
    LET phase == {<<>>, <<Signal("k8s", "container_status", "Failed", "critical")>>,
                  <<Signal("k8s", "container_status", "Pending", "warning")>>}
        restarts == {<<>>, <<Signal("k8s", "restart_count", "> 3", "warning")>>,
                     <<Signal("k8s", "restart_count", "> 10", "critical")>>}
        state == {<<>>, <<Signal("k8s", "container_status", "waiting", "warning")>>,
                  <<Signal("k8s", "container_status", "terminated", "critical")>>}
        Health(p, s) == IF p = <<>> /\ s = <<>>
                        THEN <<Signal("k8s", "pod_health", "healthy", "info")>> ELSE <<>> IN
    {p \o r \o s \o Health(p, s) : p \in phase, r \in restarts, s \in state}

(* RedisDataSource._parse_info *)
RedisReadings ==
    Both(Read("redis", "connection_status", {"available"}),
         Both(Read("redis", "memory_usage_percent", {"fine", "> 60", "> 80"}),
              Read("redis", "keyspace_hit_rate", {"fine", "< 0.5"})))

(* MySQLDataSource.collect *)
MySQLReadings ==
    Both(Read("mysql", "connection_status", {"available"}),
         Both(Read("mysql", "slow_queries", {"fine", "> 10"}),
              Read("mysql", "threads_connected", {"fine", "> 100"})))

(* PrometheusDataSource.collect: no data on errors counts as none. *)
PrometheusReadings ==
    Both(Read("prometheus", "connection_status", {"available"}),
         Both(Read("prometheus", "error_rate", {"fine", "> 0.05", "> 0.1"}),
              Read("prometheus", "token_usage_rate", {"absent", "fine", "> 100000"})))

(* What a source that cannot reach its service, or finds nothing to look at,     *)
(* reports instead.                                                            *)
Collected(source) ==
    Read(source, "connection_status", {"unavailable"})
    \cup CASE source = "docker" -> DockerReadings
           [] source = "k8s" -> K8sReadings
           [] source = "redis" -> RedisReadings
           [] source = "mysql" -> MySQLReadings
           [] source = "prometheus" -> PrometheusReadings

(* The sources of the system engineer, in and out of a cluster, of the risk      *)
(* analyst, and of the agents that look at the metrics alone.                   *)
SourcesOf(monitor) ==
    CASE monitor = "system_engineer" -> <<"docker", "redis", "mysql", "prometheus">>
      [] monitor = "system_engineer_k8s" -> <<"k8s", "redis", "mysql", "prometheus">>
      [] monitor = "risk_analyst" -> <<"mysql", "prometheus">>
      [] OTHER -> <<"prometheus">>

Monitors == {"system_engineer", "system_engineer_k8s", "risk_analyst", "intent"}
Escalating == Monitors \ {"intent"}

-----------------------------------------------------------------------------
(* The filter *)

Matches(rule, signal) ==
    rule.source = signal.source /\ rule.metric = signal.metric /\ signal.value \in rule.values

(* Mutant: the last rule that matches. *)
FilterByLast(signal) ==
    LET matching == {i \in DOMAIN DefaultRules : Matches(DefaultRules[i], signal)} IN
    IF matching = {} THEN signal
    ELSE [signal EXCEPT !.severity = DefaultRules[Max(matching)].severity]

(* PerceptionFilterEngine.filter: the first rule that matches rates the signal;  *)
(* a signal no rule matches keeps the severity it has.                          *)
Filter(signal) ==
    LET matching == {i \in DOMAIN DefaultRules : Matches(DefaultRules[i], signal)} IN
    IF matching = {} THEN signal
    ELSE [signal EXCEPT !.severity = DefaultRules[Min(matching)].severity]

ShouldEscalate(signal) == signal.severity \in {"warning", "critical"}

-----------------------------------------------------------------------------
VARIABLES
    monitor,        \* who is looking, or looked last
    left,           \* the sources it has yet to ask
    readings,       \* the signals it collected, in their order
    believed,       \* the severities of the beliefs it made of them
    event           \* the severity of the event that was escalated; "none" if none was,
                    \* "open" while the monitor looks

perceptionVars == <<monitor, left, readings, believed, event>>

PerceptionInit ==
    /\ monitor \in Monitors /\ left = <<>>
    /\ readings = <<>> /\ believed = <<>> /\ event = "none"

(* _perceive_environment makes its sources; if one cannot be made, nothing is    *)
(* seen this time.                                                              *)
Look ==
    /\ event # "open"
    /\ monitor' \in Monitors /\ readings' = <<>> /\ believed' = <<>>
    /\ \/ left' = SourcesOf(monitor') /\ event' = "open"
       \/ left' = <<>> /\ event' = "none"

(* _collect_and_filter asks the next source; one that raises is left out. *)
Collect ==
    /\ left # <<>>
    /\ \E collected \in {<<>>} \cup Collected(Head(left)) : readings' = readings \o collected
    /\ left' = Tail(left)
    /\ UNCHANGED <<monitor, believed, event>>

(* EscalationManager.escalate: one event of the highest severity. *)
Severity(signals) ==
    LET rated == {signal \in ToSet(signals) : ShouldEscalate(signal)} IN
    CASE rated = {} -> "none"
      [] \E signal \in rated : signal.severity = "critical" -> "critical"
      [] OTHER -> "warning"

(* All that was collected is rated, normal readings too.  Each signal is a belief *)
(* of the analyst and of the agents that do not escalate; the event of the others *)
(* is a belief.                                                                *)
RateReadings ==
    LET filtered == [i \in DOMAIN readings |-> Filter(readings[i])] IN
    /\ event = "open" /\ left = <<>>
    /\ believed' = IF monitor \in {"risk_analyst", "intent"}
                   THEN [i \in DOMAIN filtered |-> filtered[i].severity] ELSE <<>>
    /\ event' = IF monitor \in Escalating THEN Severity(filtered) ELSE "none"
    /\ UNCHANGED <<monitor, left, readings>>

PerceptionNext == Look \/ Collect \/ RateReadings

PerceptionSpec == PerceptionInit /\ [][PerceptionNext]_perceptionVars

-----------------------------------------------------------------------------
Rank(severity) == CASE severity = "critical" -> 2 [] severity = "warning" -> 1 [] OTHER -> 0

(* The worst that any rule, or the source itself, says of a reading. *)
Worst(signal) ==
    Max({Rank(signal.severity)}
        \cup {Rank(rule.severity) : rule \in {r \in ToSet(DefaultRules) : Matches(r, signal)}})

(* No rule hides a severer one, although the thresholds overlap and the first    *)
(* rule that matches decides; no source hides what another one saw; and what no  *)
(* rule rates causes no event (PerceptionFilterEngine.filter, escalate).         *)
EventTellsTheWorst ==
    LET worst == Max({0} \cup {Worst(signal) : signal \in ToSet(readings)}) IN
    event # "open" =>
        /\ monitor \in Escalating => Rank(event) = worst
        /\ believed # <<>> => Max({Rank(s) : s \in ToSet(believed)}) = worst
=============================================================================
