---------------------------- MODULE ActionSafety ----------------------------
(* The cage around a proposed fix: the tool of each class, the validator of *)
(* a proposed call, the magnitude check, the dispatch gate and the judgement*)
(* of a proposal for Dimension C.                                           *)
(*                                                                          *)
(* A call is [tool, num, unit].  The number is a memory quantity (Mi, Gi),  *)
(* a CPU quantity (m, core) or a replica count (int); tools without a       *)
(* magnitude carry num 0 and unit "none".  Names of deployments, containers *)
(* and namespaces are checked by the code for shape only and are left out;  *)
(* a call the schema rejects for its shape has unit "bad".                  *)
EXTENDS Integers, FiniteSets, FiniteSetsExt, TLC

MAX_REPLICAS == 20
MAX_MEMORY_LIMIT_MI == 2048
MAX_CPU_LIMIT_M == 2000
OOM_BASELINE_MEMORY_LIMIT == 200
UNDER_PROVISIONED_VALIDATED_SAFE_REPLICAS == 3

Call(tool, num, unit) == [tool |-> tool, num |-> num, unit |-> unit]

(* The one tool of each auto-fix class, with its fixed parameters.  The
   proposer's own map is a copy by hand. *)
AutoFixClasses ==
    {"crash-loop", "oom", "disk-full", "cpu-throttling",
     "under-provisioned-replicas", "bad-rollout"}

ACTION_MAP == [class \in AutoFixClasses |->
    CASE class = "crash-loop" -> Call("restart_deployment", 0, "none")
      [] class = "oom" -> Call("patch_memory_limit", 400, "Mi")
      [] class = "disk-full" -> Call("restore_from_disk_full", 0, "none")
      [] class = "cpu-throttling" -> Call("patch_cpu_limit", 600, "m")
      [] class = "under-provisioned-replicas" -> Call("scale_deployment", 3, "int")
      [] class = "bad-rollout" -> Call("rollback_deployment", 0, "none")]

DETERMINISTIC_ACTION_MAP == [class \in AutoFixClasses |->
    CASE class = "crash-loop" -> Call("restart_deployment", 0, "none")
      [] class = "oom" -> Call("patch_memory_limit", 400, "Mi")
      [] class = "disk-full" -> Call("restore_from_disk_full", 0, "none")
      [] class = "cpu-throttling" -> Call("patch_cpu_limit", 600, "m")
      [] class = "under-provisioned-replicas" -> Call("scale_deployment", 3, "int")
      [] class = "bad-rollout" -> Call("rollback_deployment", 0, "none")]

ALLOWED_ACTIONS == {ACTION_MAP[c].tool : c \in AutoFixClasses}
MAGNITUDE_SENSITIVE_ACTIONS ==
    {"patch_memory_limit", "patch_cpu_limit", "scale_deployment"}

(* A memory quantity in Mi and a CPU quantity in millicores; {} when the
   string does not parse. *)
ToMi(c) == IF c.unit = "Mi" THEN {c.num}
           ELSE IF c.unit = "Gi" THEN {c.num * 1024} ELSE {}

ToMillicores(c) == IF c.unit = "m" THEN {c.num}
                   ELSE IF c.unit = "core" THEN {c.num * 1000} ELSE {}

ToReplicas(c) == IF c.unit = "int" THEN {c.num} ELSE {}

(* The value a call sets, in the unit of the target's state. *)
Magnitude(c) == CASE c.tool = "patch_memory_limit" -> ToMi(c)
                  [] c.tool = "patch_cpu_limit" -> ToMillicores(c)
                  [] c.tool = "scale_deployment" -> ToReplicas(c)
                  [] OTHER -> {}

Cap == [tool \in MAGNITUDE_SENSITIVE_ACTIONS |->
    CASE tool = "patch_memory_limit" -> MAX_MEMORY_LIMIT_MI
      [] tool = "patch_cpu_limit" -> MAX_CPU_LIMIT_M
      [] tool = "scale_deployment" -> MAX_REPLICAS]

(* validate_tool_call: an allowed tool, and parameters of the right shape
   within the caps.  Zero replicas pass here. *)
ValidateToolCall(c) ==
    /\ c.tool \in ALLOWED_ACTIONS
    /\ IF c.tool \in MAGNITUDE_SENSITIVE_ACTIONS
       THEN \E v \in Magnitude(c) : /\ v <= Cap[c.tool]
                                    /\ v > 0 \/ (c.tool = "scale_deployment" /\ v = 0)
       ELSE c.unit = "none"

(* The value a safe call must exceed.  seen is the tool output of the
   diagnosis, live the target now: memory and replicas are compared with
   what was seen and with what is known not to suffice; the CPU limit is
   read from the Deployment.  {} when there is no reading. *)
MemoryFloorPeakOnly(seen) == seen.peak_memory_mib
MemoryFloor(seen) ==
    {Max({peak, OOM_BASELINE_MEMORY_LIMIT}) : peak \in seen.peak_memory_mib}

CpuFloor(live) == {live.cpu}

ReplicaFloorLive(seen, live) ==
    {Max({live.replicas, UNDER_PROVISIONED_VALIDATED_SAFE_REPLICAS - 1})}
ReplicaFloor(seen, live) ==
    {Max({n, UNDER_PROVISIONED_VALIDATED_SAFE_REPLICAS - 1}) :
        n \in seen.current_replicas}

Floor(tool, seen, live) ==
    CASE tool = "patch_memory_limit" -> MemoryFloor(seen)
      [] tool = "patch_cpu_limit" -> CpuFloor(live)
      [] tool = "scale_deployment" -> ReplicaFloor(seen, live)

CheckSafe(c, seen, live) ==
    c.tool \in MAGNITUDE_SENSITIVE_ACTIONS =>
        \E v \in Magnitude(c), f \in Floor(c.tool, seen, live) :
            f < v /\ v <= Cap[c.tool]

(* dispatch_gate.check followed by the call that runs: with a wrong class
   the real class's own fixed call replaces another tool, or an unsafe
   value of the same tool. *)
DispatchWithGate(predicted, actual, c, seen, live) ==
    IF /\ predicted # actual
       /\ actual \in AutoFixClasses
       /\ \/ c.tool # ACTION_MAP[actual].tool
          \/ ~CheckSafe(c, seen, live)
    THEN ACTION_MAP[actual] ELSE c

(* action_is_correct, asked by the scorer after the fix was applied. *)
ActionIsCorrect(actual, c, seen, live) ==
    /\ c.tool = DETERMINISTIC_ACTION_MAP[actual].tool
    /\ CheckSafe(c, seen, live)

EligibleActionForStreak(tier) == tier = "primary"

(* What a call does to the Deployment: the limit or count it sets.  A CPU
   limit is changed on the running pod alone, unless that resize fails. *)
Sets == [tool \in MAGNITUDE_SENSITIVE_ACTIONS |->
    CASE tool = "patch_memory_limit" -> "memory"
      [] tool = "patch_cpu_limit" -> "cpu"
      [] tool = "scale_deployment" -> "replicas"]
Applied(live, c, resized) ==
    IF \/ c.tool \notin MAGNITUDE_SENSITIVE_ACTIONS
       \/ c.tool = "patch_cpu_limit" /\ resized
    THEN live
    ELSE [live EXCEPT ![Sets[c.tool]] = CHOOSE v \in Magnitude(c) : TRUE]
=============================================================================
