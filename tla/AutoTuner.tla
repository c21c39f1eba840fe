------------------------------ MODULE AutoTuner ------------------------------
(***************************************************************************)
(* src/scheduler: ExecutionPolicyEngine, AutoTuner and PerformanceHistory, *)
(* and src/profiler/Profiler, as HeteroRuntime uses them for a request:    *)
(* resolveAndApplyConfig asks the policy for a ceiling on the GPU layers   *)
(* and the tuner for a configuration below it, under the runtime's mutex;  *)
(* the request runs without the mutex; its result is recorded under it and *)
(* the history is saved.  Requests of several threads overlap.  A process  *)
(* may stop at any point, in the middle of a save too; the next one starts *)
(* with a new tuner and the history it finds in the file.                  *)
(*                                                                         *)
(* There is one model path and one machine, so a ProfileKey is a backend.  *)
(* Durations are left out: whether a run was faster by the threshold, and  *)
(* whether it lay outside the history's deviation, is any answer.  Of the  *)
(* policy's decision only the layers are read; a request sees any pressure *)
(* and the size that the model's file has at that time.                    *)
(***************************************************************************)
EXTENDS Integers, FiniteSets

CONSTANTS
    Callers,        \* threads that make requests
    MaxThreads,     \* hardware_concurrency
    ModelSizes,     \* sizes the file may have (0: unreadable)
    GpuMemories,    \* memory_available of the Vulkan device, -1 for no device
    MaxRecords,     \* bound: results recorded
    MaxReplacements \* bound: the file is replaced, the process restarted

ASSUME TunerAssumption ==
    /\ MaxThreads \in Nat /\ MaxRecords \in Nat /\ MaxReplacements \in Nat
    /\ ModelSizes \subseteq Nat
    /\ GpuMemories \subseteq Nat \cup {-1}

VARIABLES
    gpuMem,         \* the machine: one of GpuMemories
    cuda,           \* the machine: CUDA is available
    modelSize,      \* the file's size now
    states,         \* states_ of the tuner, by key
    profiles,       \* profiles_ of the history, by key
    saved,          \* profiles/performance.json
    request,        \* the request of each caller
    disturbed       \* bound: replacements and restarts so far

tunerVars == <<gpuMem, cuda, modelSize, states, profiles, saved, request, disturbed>>

Keys == {"CPU", "VULKAN"}

Idle == [pc |-> "idle"]

NoState == [pc |-> "none"]
NoStats == [samples |-> 0, failures |-> 0, ema |-> FALSE, regression |-> FALSE]

TotalLayers       == 32     \* what the policy assumes of every model
AllLayers         == 99
MinSamples        == 3      \* min_samples_before_tune_
RegressionSamples == 5

TunerInit ==
    /\ gpuMem \in GpuMemories /\ cuda \in BOOLEAN /\ modelSize \in ModelSizes
    /\ states = [k \in Keys |-> NoState]
    /\ profiles = [k \in Keys |-> NoStats] /\ saved = profiles
    /\ request = [c \in Callers |-> Idle]
    /\ disturbed = 0

-----------------------------------------------------------------------------
(* ExecutionPolicyEngine.                                                   *)

gpu_available == gpuMem >= 0 \/ cuda

computeGpuLayers(model, gpu) ==
    IF gpu = 0 THEN 0 ELSE IF model = 0 THEN TotalLayers
    ELSE IF gpu >= model THEN TotalLayers ELSE (gpu * TotalLayers) \div model

\* The GPU was slow and failed more often than not.
history_suggests_cpu(stats) ==
    stats.samples > 3 /\ stats.regression /\ 2 * stats.failures > stats.samples

\* The layers of the decision; the thresholds are 85% and 15%.
selectStrategy(critical) ==
    LET mem == IF gpuMem >= 0 THEN gpuMem ELSE 0
        key == IF gpu_available THEN "VULKAN" ELSE "CPU"
    IN  IF critical \/ ~gpu_available \/ history_suggests_cpu(profiles[key]) THEN 0
        ELSE IF modelSize = 0 \/ (mem > 0 /\ modelSize * 100 <= mem * 85) THEN AllLayers
        ELSE IF mem > 0 /\ mem * 100 >= modelSize * 15 THEN computeGpuLayers(modelSize, mem)
        ELSE 0

-----------------------------------------------------------------------------
(* AutoTuner.                                                               *)

\* Try one thread more, or one less at the limit.
Explored(best) ==
    [best EXCEPT !.threads = IF @ < MaxThreads THEN @ + 1 ELSE IF @ > 1 THEN @ - 1 ELSE @]

ColdStart(ceiling) ==
    LET half == MaxThreads \div 2
        best == [layers |-> ceiling, threads |-> IF half > 0 THEN half ELSE 1]
    IN  [pc |-> "tuned", best |-> best, exploring |-> best, is_exploring |-> FALSE,
         timed |-> FALSE, stable |-> 0]

\* Mutant: a lower ceiling does not end an exploration.
ObeyBestOnly(s, ceiling) ==
    IF s.best.layers > ceiling THEN [s EXCEPT !.best.layers = ceiling] ELSE s

\* A lower ceiling binds the best configuration and ends an exploration.
Obey(s, ceiling) ==
    IF s.best.layers > ceiling
    THEN [s EXCEPT !.best.layers = ceiling, !.is_exploring = FALSE] ELSE s

\* The state after suggestConfiguration; it suggests exploring while
\* is_exploring, and best otherwise.
Suggesting(key, ceiling) ==
    LET obeyed == Obey(states[key], ceiling)
        again  == IF profiles[key].regression /\ obeyed.stable > MinSamples
                  THEN [obeyed EXCEPT !.stable = 0, !.is_exploring = FALSE, !.timed = FALSE]
                  ELSE obeyed
    IN  IF states[key] = NoState THEN ColdStart(ceiling)
        ELSE IF again.is_exploring \/ again.stable < MinSamples THEN again
        ELSE [again EXCEPT !.is_exploring = TRUE, !.exploring = Explored(again.best)]

\* recordResult: a result counts for what is explored when it arrives,
\* whatever configuration it was measured with.  faster: the duration is
\* better than the best one by the threshold.
Recorded(s, success, faster) ==
    IF s = NoState THEN s
    ELSE IF ~success THEN
        IF s.is_exploring THEN [s EXCEPT !.is_exploring = FALSE, !.stable = 0] ELSE s
    ELSE IF ~s.is_exploring THEN [s EXCEPT !.timed = TRUE, !.stable = @ + 1]
    ELSE IF ~s.timed THEN [s EXCEPT !.timed = TRUE, !.is_exploring = FALSE]
    ELSE [s EXCEPT !.best = IF faster THEN s.exploring ELSE @,
                   !.is_exploring = FALSE, !.stable = 0]

-----------------------------------------------------------------------------
(* PerformanceHistory.                                                      *)

\* updateStats: failures are samples; the first success sets the average;
\* later ones are compared with it once there are enough samples.
updateStats(stats, success, regression) ==
    IF ~success THEN [stats EXCEPT !.samples = @ + 1, !.failures = @ + 1]
    ELSE [stats EXCEPT !.samples = @ + 1, !.ema = TRUE,
             !.regression = IF stats.ema /\ stats.samples + 1 > RegressionSamples THEN regression ELSE @]

-----------------------------------------------------------------------------
(* HeteroRuntime.                                                           *)

\* resolveAndApplyConfig and the choice of the key, under the mutex.
resolveAndApplyConfig(c, critical) ==
    LET ceiling == selectStrategy(critical)
        key     == IF ceiling = 0 THEN "CPU" ELSE "VULKAN"
        s       == Suggesting(key, ceiling)
        tcfg    == IF s.is_exploring THEN s.exploring ELSE s.best
        clamped == [tcfg EXCEPT !.layers = IF @ > ceiling THEN ceiling ELSE @]
    IN  /\ request[c] = Idle
        /\ states' = [states EXCEPT ![key] = s]
        /\ request' = [request EXCEPT ![c] =
                          [pc |-> "runs", ceiling |-> ceiling, tuned |-> key, suggested |-> tcfg,
                           key |-> IF clamped.layers = 0 THEN "CPU" ELSE "VULKAN"]]
        /\ UNCHANGED <<gpuMem, cuda, modelSize, profiles, saved, disturbed>>

Records == profiles["CPU"].samples + profiles["VULKAN"].samples

\* The engine has answered: Profiler::recordEvent, AutoTuner::recordResult
\* and Profiler::saveProfile, under the mutex.
RecordResult(c, success, faster, regression) ==
    LET key == request[c].key IN
    /\ request[c].pc = "runs"
    /\ Records < MaxRecords
    /\ profiles' = [profiles EXCEPT ![key] = updateStats(@, success, regression)]
    /\ states' = [states EXCEPT ![key] = Recorded(@, success, faster)]
    /\ saved' = profiles'
    /\ request' = [request EXCEPT ![c] = Idle]
    /\ UNCHANGED <<gpuMem, cuda, modelSize, disturbed>>

\* loadModel, which runs nothing, and a request whose engine could not be
\* made or could not load the model: nothing is recorded.
NoResult(c) ==
    /\ request[c].pc = "runs"
    /\ request' = [request EXCEPT ![c] = Idle]
    /\ UNCHANGED <<gpuMem, cuda, modelSize, states, profiles, saved, disturbed>>

\* The file at the model's path is replaced by one of another size.
ReplaceModel(size) ==
    /\ disturbed < MaxReplacements /\ disturbed' = disturbed + 1
    /\ size # modelSize /\ modelSize' = size
    /\ UNCHANGED <<gpuMem, cuda, states, profiles, saved, request>>

\* The process stops and is started again.  written: the entries that were
\* complete in the file (all of them, unless it stopped within saveProfile);
\* loadProfile enters an object only when it has read its end.
Restart(written) ==
    /\ disturbed < MaxReplacements /\ disturbed' = disturbed + 1
    /\ saved' = [k \in Keys |-> IF k \in written THEN saved[k] ELSE NoStats]
    /\ profiles' = saved'
    /\ states' = [k \in Keys |-> NoState]
    /\ request' = [c \in Callers |-> Idle]
    /\ UNCHANGED <<gpuMem, cuda, modelSize>>

TunerNext ==
    \/ \E c \in Callers, critical \in BOOLEAN : resolveAndApplyConfig(c, critical)
    \/ \E c \in Callers, success, faster, regression \in BOOLEAN :
           RecordResult(c, success, faster, regression)
    \/ \E c \in Callers : NoResult(c)
    \/ \E size \in ModelSizes : ReplaceModel(size)
    \/ \E written \in SUBSET Keys : Restart(written)

-----------------------------------------------------------------------------
(* Properties.                                                              *)

\* AutoTuner.cpp: "If the policy engine restricts layers further than the
\* current best, we MUST obey": no suggestion exceeds the ceiling of its
\* request, also in an exploration that began under a higher one, so that
\* HeteroRuntime's own clamp never acts; and it is below it only on the same
\* side: the result is recorded under the key that was tuned.
SuggestionObeysCeiling ==
    \A c \in Callers : request[c].pc = "runs" =>
        /\ request[c].suggested.layers <= request[c].ceiling
        /\ request[c].suggested.threads \in 1..(IF MaxThreads > 1 THEN MaxThreads ELSE 1)
        /\ request[c].key = request[c].tuned
=============================================================================
