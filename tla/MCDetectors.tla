------------------------------ MODULE MCDetectors ------------------------------
(* Three pids, the first the parent of the other two; four processes, so    *)
(* that a pid is reused; two new configs, so that a detector goes off and   *)
(* on again; four ticks.  The timed detectors report after two units and as *)
(* critical after three; a storm is two children in a window of two.        *)
(* Detectors share no map, so each scene is about one or two of them.       *)
EXTENDS Detectors

CONSTANTS app, tool

MCPids == {1, 2, 3}
MCParent == [p \in MCPids |-> IF p = 1 THEN 0 ELSE 1]
MCDuration == [d \in Timed |-> 2]
MCCritical == [d \in Timed |-> 3]

Config(on, names) == [on |-> on, skip |-> [d \in Detector |-> names]]
Switched(on) == {Config(on, {}), Config({}, {}), Config(on, {app})}

Scene(on, names, pids, loads) ==
  [configs |-> Switched(on), names |-> names,
   loads |-> [p \in MCPids |-> loads],
   gens |-> [p \in MCPids |-> IF p \notin pids THEN 0 ELSE IF p = 2 THEN 2 ELSE 1]]

ToldScene == Scene({"new_process", "orphan"}, {app, tool}, {2}, {"idle", "high"})
StormScene == Scene({"spawn_storm"}, {app}, MCPids, {"idle"})

MCScenes ==
  {ToldScene, StormScene,
   Scene({"runaway_cpu"}, {app}, {2}, {"idle", "high"}),
   Scene({"hung_process"}, {app}, {2}, Load),
   Scene({"port_conflict", "memory_leak"}, {app}, {1}, {"idle"}),
   Scene({"network_anomaly"}, {app}, {1}, {"idle"})}
MCToldScenes == {ToldScene}
MCStormScenes == {StormScene}

MCConfigs == UNION {s.configs : s \in MCScenes}
=============================================================================
