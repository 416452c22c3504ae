---------------------------- MODULE TrialStates ----------------------------
(***************************************************************************)
(* The durable trial lifecycle of worker.py as data: the states, the       *)
(* transition table of every workflow kind, the chain of stages that       *)
(* _run_benchmark_once and run_once really walk, and the terminal state    *)
(* that a failure in a given state is filed under.                         *)
(***************************************************************************)
EXTENDS Naturals, TLC

Health     == "HEALTH_CHECK"
Baseline   == "V2_BASELINE_BENCHMARK"
Tuned      == "V2_TUNED_BENCHMARK"
Saturation == "V2_SATURATION_PHASE1"

Kinds == {Health, Baseline, Tuned, Saturation}

(* V2_BENCHMARK_WORKFLOWS: the kinds that restore the candidate dataset.   *)
V2Benchmark == {Baseline, Tuned}

(***************************************************************************)
(* The states.  ACTIVE_STATES also lists seven states that no workflow     *)
(* kind of the canonical worker can reach; they appear here because        *)
(* validate_transition accepts a target of either set.                     *)
(***************************************************************************)
Stage ==
  { "RESTORING_CANDIDATE_DATASET", "VERIFYING_CANDIDATE_BASELINE",
    "CAPTURING_WORKLOAD_CONTEXT", "VALIDATING_ACTIONS",
    "ESTIMATING_STATIC_RISK", "APPLYING_KNOBS", "RELOADING_OR_RESTARTING",
    "VERIFYING_DATABASE_HEALTH", "VERIFYING_ACTIVE_CONFIGURATION",
    "WARMING_UP", "RESETTING_OR_SNAPSHOTTING_COUNTERS",
    "RUNNING_FULL_EVALUATION", "COLLECTING_METRICS",
    "VALIDATING_MEASUREMENT", "CALCULATING_OBJECTIVES",
    "CALCULATING_CONSTRAINTS", "PERSISTING_OBSERVATION",
    "SELECTING_NEXT_ACTION" }

ActiveStates ==
  Stage \cup
  { "CREATED", "BUILDING_INDEXES", "RUNNING_PROXY_EVALUATION",
    "RUNNING_REDUCED_EVALUATION", "ASSESSING_PROMOTION",
    "CALIBRATING_UNCERTAINTY", "UPDATING_SURROGATE",
    "UPDATING_DRIFT_MODEL" }

TerminalStates ==
  { "COMPLETED", "STATICALLY_INFEASIBLE", "PREDICTED_UNSAFE",
    "INVALID_CONFIGURATION", "APPLY_FAILED", "INDEX_BUILD_FAILED",
    "INDEX_DROP_FAILED", "INDEX_BUDGET_EXCEEDED", "INDEX_NOT_USED",
    "RESTART_FAILED", "DATABASE_UNHEALTHY", "WORKLOAD_FAILED",
    "MEASUREMENT_INVALID", "SLO_VIOLATED", "RESOURCE_LIMIT_EXCEEDED",
    "DATASET_RESTORE_FAILED", "BASELINE_FINGERPRINT_FAILED",
    "LOW_FIDELITY_REJECTED", "EARLY_STOPPED", "CALIBRATION_INVALID",
    "TIMED_OUT", "ROLLED_BACK", "CANCELLED" }

(* Not yet inserted: the trial has no row.                                 *)
Absent == "ABSENT"

TrialState == {Absent} \cup ActiveStates \cup TerminalStates

(* TUNED_PRE_MEASUREMENT_RETRY_STATES: where a later attempt re-applies.   *)
ReapplyStates ==
  { "RELOADING_OR_RESTARTING", "VERIFYING_DATABASE_HEALTH",
    "VERIFYING_ACTIVE_CONFIGURATION" }

(***************************************************************************)
(* The transition tables, each a dict from a state to its permitted        *)
(* targets; a dict updated by another is  update @@ base.                  *)
(***************************************************************************)
HealthTransitions ==
  "CREATED" :> {"VERIFYING_DATABASE_HEALTH", "CANCELLED"} @@
  "VERIFYING_DATABASE_HEALTH" :>
     {"PERSISTING_OBSERVATION", "DATABASE_UNHEALTHY", "TIMED_OUT", "CANCELLED"} @@
  "PERSISTING_OBSERVATION" :> {"COMPLETED", "CANCELLED"}

BenchmarkTransitions ==
  "CREATED" :> {"CAPTURING_WORKLOAD_CONTEXT", "CANCELLED"} @@
  "CAPTURING_WORKLOAD_CONTEXT" :> {"VALIDATING_ACTIONS", "CANCELLED"} @@
  "VALIDATING_ACTIONS" :>
     {"ESTIMATING_STATIC_RISK", "INVALID_CONFIGURATION",
      "RESOURCE_LIMIT_EXCEEDED", "CANCELLED"} @@
  "ESTIMATING_STATIC_RISK" :>
     {"VERIFYING_DATABASE_HEALTH", "STATICALLY_INFEASIBLE", "CANCELLED"} @@
  "VERIFYING_DATABASE_HEALTH" :>
     {"VERIFYING_ACTIVE_CONFIGURATION", "DATABASE_UNHEALTHY", "CANCELLED"} @@
  "VERIFYING_ACTIVE_CONFIGURATION" :>
     {"WARMING_UP", "INVALID_CONFIGURATION", "CANCELLED"} @@
  "WARMING_UP" :> {"RESETTING_OR_SNAPSHOTTING_COUNTERS", "WORKLOAD_FAILED"} @@
  "RESETTING_OR_SNAPSHOTTING_COUNTERS" :>
     {"RUNNING_FULL_EVALUATION", "MEASUREMENT_INVALID"} @@
  "RUNNING_FULL_EVALUATION" :>
     {"COLLECTING_METRICS", "WORKLOAD_FAILED", "TIMED_OUT"} @@
  "COLLECTING_METRICS" :> {"VALIDATING_MEASUREMENT", "MEASUREMENT_INVALID"} @@
  "VALIDATING_MEASUREMENT" :>
     {"CALCULATING_OBJECTIVES", "MEASUREMENT_INVALID",
      "RESOURCE_LIMIT_EXCEEDED"} @@
  "CALCULATING_OBJECTIVES" :> {"CALCULATING_CONSTRAINTS"} @@
  "CALCULATING_CONSTRAINTS" :> {"PERSISTING_OBSERVATION", "SLO_VIOLATED"} @@
  "PERSISTING_OBSERVATION" :>
     {"COMPLETED", "SLO_VIOLATED", "MEASUREMENT_INVALID"}

TunedOverrides ==
  "ESTIMATING_STATIC_RISK" :>
     {"APPLYING_KNOBS", "STATICALLY_INFEASIBLE", "CANCELLED"} @@
  "APPLYING_KNOBS" :> {"RELOADING_OR_RESTARTING", "APPLY_FAILED"} @@
  "RELOADING_OR_RESTARTING" :> {"VERIFYING_DATABASE_HEALTH", "RESTART_FAILED"} @@
  "PERSISTING_OBSERVATION" :> {"SELECTING_NEXT_ACTION", "MEASUREMENT_INVALID"} @@
  "SELECTING_NEXT_ACTION" :> {"COMPLETED", "ROLLED_BACK"}

V2Overrides ==
  "CREATED" :> {"RESTORING_CANDIDATE_DATASET", "CANCELLED"} @@
  "RESTORING_CANDIDATE_DATASET" :>
     {"VERIFYING_CANDIDATE_BASELINE", "DATASET_RESTORE_FAILED", "CANCELLED"} @@
  "VERIFYING_CANDIDATE_BASELINE" :>
     {"CAPTURING_WORKLOAD_CONTEXT", "BASELINE_FINGERPRINT_FAILED", "CANCELLED"}

TransitionTable(kind) ==
  CASE kind = Health     -> HealthTransitions
    [] kind = Saturation -> BenchmarkTransitions
    [] kind = Baseline   -> V2Overrides @@ BenchmarkTransitions
    [] kind = Tuned      -> V2Overrides @@ (TunedOverrides @@ BenchmarkTransitions)

(* validate_transition: TRUE where the code returns, FALSE where it raises. *)
ValidTransition(kind, current, target) ==
  /\ kind \in Kinds
  /\ current \notin TerminalStates
  /\ target \in ActiveStates \cup TerminalStates
  /\ current \in DOMAIN TransitionTable(kind)
  /\ target \in TransitionTable(kind)[current]

(***************************************************************************)
(* The chain a worker walks: the state it advances to once the current     *)
(* state's action is complete.  feasible is the persisted observation's    *)
(* verdict.                                                                *)
(***************************************************************************)
HealthSuccessor(s) ==
  CASE s = "CREATED"                   -> "VERIFYING_DATABASE_HEALTH"
    [] s = "VERIFYING_DATABASE_HEALTH" -> "PERSISTING_OBSERVATION"
    [] OTHER                           -> "COMPLETED"

AfterObservation(kind, feasible) ==
  CASE kind = Tuned                   -> "SELECTING_NEXT_ACTION"
    [] kind # Tuned /\ feasible       -> "COMPLETED"
    [] kind = Saturation /\ ~feasible -> "MEASUREMENT_INVALID"
    [] OTHER                          -> "SLO_VIOLATED"

BenchmarkSuccessor(kind, s, feasible) ==
  CASE s = "CREATED" ->
         IF kind \in V2Benchmark THEN "RESTORING_CANDIDATE_DATASET"
                                 ELSE "CAPTURING_WORKLOAD_CONTEXT"
    [] s = "RESTORING_CANDIDATE_DATASET"    -> "VERIFYING_CANDIDATE_BASELINE"
    [] s = "VERIFYING_CANDIDATE_BASELINE"   -> "CAPTURING_WORKLOAD_CONTEXT"
    [] s = "CAPTURING_WORKLOAD_CONTEXT"     -> "VALIDATING_ACTIONS"
    [] s = "VALIDATING_ACTIONS"             -> "ESTIMATING_STATIC_RISK"
    [] s = "ESTIMATING_STATIC_RISK" ->
         IF kind = Tuned THEN "APPLYING_KNOBS" ELSE "VERIFYING_DATABASE_HEALTH"
    [] s = "APPLYING_KNOBS"                 -> "RELOADING_OR_RESTARTING"
    [] s = "RELOADING_OR_RESTARTING"        -> "VERIFYING_DATABASE_HEALTH"
    [] s = "VERIFYING_DATABASE_HEALTH"      -> "VERIFYING_ACTIVE_CONFIGURATION"
    [] s = "VERIFYING_ACTIVE_CONFIGURATION" -> "WARMING_UP"
    [] s = "WARMING_UP"            -> "RESETTING_OR_SNAPSHOTTING_COUNTERS"
    [] s = "RESETTING_OR_SNAPSHOTTING_COUNTERS" -> "RUNNING_FULL_EVALUATION"
    [] s = "RUNNING_FULL_EVALUATION"        -> "COLLECTING_METRICS"
    [] s = "COLLECTING_METRICS"             -> "VALIDATING_MEASUREMENT"
    [] s = "VALIDATING_MEASUREMENT"         -> "CALCULATING_OBJECTIVES"
    [] s = "CALCULATING_OBJECTIVES"         -> "CALCULATING_CONSTRAINTS"
    [] s = "CALCULATING_CONSTRAINTS"        -> "PERSISTING_OBSERVATION"
    [] s = "PERSISTING_OBSERVATION"         -> AfterObservation(kind, feasible)
    [] OTHER -> IF feasible THEN "COMPLETED" ELSE "ROLLED_BACK"

Successor(kind, s, feasible) ==
  IF kind = Health THEN HealthSuccessor(s)
                   ELSE BenchmarkSuccessor(kind, s, feasible)

(* The states in which a worker that reaches them closes the trial.        *)
ClosingStates == {"COMPLETED", "SLO_VIOLATED", "ROLLED_BACK"}

(* The stages a trial of this kind goes through.                           *)
StagesOf(kind) ==
  CASE kind = Health -> {"VERIFYING_DATABASE_HEALTH", "PERSISTING_OBSERVATION"}
    [] kind = Tuned  -> Stage
    [] kind = Baseline ->
         Stage \ {"APPLYING_KNOBS", "RELOADING_OR_RESTARTING",
                  "SELECTING_NEXT_ACTION"}
    [] kind = Saturation ->
         Stage \ {"RESTORING_CANDIDATE_DATASET", "VERIFYING_CANDIDATE_BASELINE",
                  "APPLYING_KNOBS", "RELOADING_OR_RESTARTING",
                  "SELECTING_NEXT_ACTION"}

(***************************************************************************)
(* The terminal state run_once files an error under, from the state the    *)
(* trial was in; a ResourceLimitError is filed under its own name.         *)
(***************************************************************************)
FailureState(s) ==
  CASE s = "RESTORING_CANDIDATE_DATASET"  -> "DATASET_RESTORE_FAILED"
    [] s = "VERIFYING_CANDIDATE_BASELINE" -> "BASELINE_FINGERPRINT_FAILED"
    [] s = "APPLYING_KNOBS"               -> "APPLY_FAILED"
    [] s = "RELOADING_OR_RESTARTING"      -> "RESTART_FAILED"
    [] s \in {"CAPTURING_WORKLOAD_CONTEXT", "VALIDATING_ACTIONS",
              "ESTIMATING_STATIC_RISK", "VERIFYING_ACTIVE_CONFIGURATION"}
                                          -> "INVALID_CONFIGURATION"
    [] s = "VERIFYING_DATABASE_HEALTH"    -> "DATABASE_UNHEALTHY"
    [] s \in {"WARMING_UP", "RUNNING_FULL_EVALUATION"} -> "WORKLOAD_FAILED"
    [] OTHER                              -> "MEASUREMENT_INVALID"

(* The stages whose operation captures resources and may therefore raise a *)
(* ResourceLimitError.                                                     *)
ResourceStages ==
  {"VALIDATING_ACTIONS", "RUNNING_FULL_EVALUATION", "VALIDATING_MEASUREMENT"}

(***************************************************************************)
(* Order of the stages, for the properties of the ledger.                  *)
(***************************************************************************)
Rank(s) ==
  CASE s \in {Absent, "CREATED"}                 -> 0
    [] s = "RESTORING_CANDIDATE_DATASET"         -> 1
    [] s = "VERIFYING_CANDIDATE_BASELINE"        -> 2
    [] s = "CAPTURING_WORKLOAD_CONTEXT"          -> 3
    [] s = "VALIDATING_ACTIONS"                  -> 4
    [] s = "ESTIMATING_STATIC_RISK"              -> 5
    [] s = "APPLYING_KNOBS"                      -> 6
    [] s = "RELOADING_OR_RESTARTING"             -> 7
    [] s = "VERIFYING_DATABASE_HEALTH"           -> 8
    [] s = "VERIFYING_ACTIVE_CONFIGURATION"      -> 9
    [] s = "WARMING_UP"                          -> 10
    [] s = "RESETTING_OR_SNAPSHOTTING_COUNTERS"  -> 11
    [] s = "RUNNING_FULL_EVALUATION"             -> 12
    [] s = "COLLECTING_METRICS"                  -> 13
    [] s = "VALIDATING_MEASUREMENT"              -> 14
    [] s = "CALCULATING_OBJECTIVES"              -> 15
    [] s = "CALCULATING_CONSTRAINTS"             -> 16
    [] s = "PERSISTING_OBSERVATION"              -> 17
    [] s = "SELECTING_NEXT_ACTION"               -> 18
    [] OTHER                                     -> 19

(* The stages a trial of this kind has behind it when it is in state s.    *)
Behind(kind, s) == {a \in StagesOf(kind) : Rank(a) < Rank(s)}
=============================================================================
