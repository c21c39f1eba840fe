--------------------------- MODULE HeteroAccelSDK ---------------------------
(***************************************************************************)
(* src/sdk/HeteroAccelSDK.cpp: sessions that client threads share, their   *)
(* cancellation, and the performance profile that every finished call      *)
(* updates and a detached thread saves.  The engine of a session is a      *)
(* HydroXL adapter (src/orchestration/HydroXLEngineAdapter.cpp): its       *)
(* run_stream is Enter and the loop of Sample and Callback below.          *)
(*                                                                         *)
(* A process has one runtime and one model at a time.  It may end at any   *)
(* moment (Restart): its detached savers end with it and the next process  *)
(* loads what the file holds.  Clients keep two rules of the C API: a      *)
(* session is destroyed when no call uses it, and the runtime and the      *)
(* model outlive the sessions.  The texts and ids a call returns are left  *)
(* out; out is how many tokens it has produced.                            *)
(***************************************************************************)
EXTENDS EngineOrchestrator, PerfProfile, SequencesExt

CONSTANTS
    Threads, Sessions,
    Inventories,    \* the machines considered, see HardwareDetector
    ModelFiles,     \* what the model files considered state, 0 or "" for nothing:
                    \* [hash, quant, arch, bytes, ctx, hp]
    Defaults,       \* the numbers taken for those that are not stated: [ctx, hp]
    Speeds,         \* measured speeds
    MaxSeq,         \* the context of the KV cache
    PromptTokens,   \* length of a prompt
    MaxNew,         \* max_new_tokens of a call
    MaxOpens,       \* bounds: sessions created,
    MaxCalls,       \* calls made,
    MaxEvents,      \* and cancellations, resets and restarts together
    None

Devices == [vendor : STRING, vram : Nat, compute : BOOLEAN]
HyperParams == [layers : Nat, embd : Nat, heads : Nat, kv : Nat, ff : Nat, vocab : Nat, ctx : Nat]

ASSUME SDKAssumption ==
    /\ None \notin Threads
    /\ {PromptTokens, MaxNew} \subseteq Nat \ {0}
    /\ MaxSeq \in Nat /\ Speeds \subseteq Nat
    /\ \A inv \in Inventories : {inv.vulkan, inv.dxgi} \subseteq Seq(Devices)
    /\ ModelFiles \subseteq [hash : STRING, quant : STRING, arch : STRING, bytes : Nat,
                             ctx : Nat, hp : HyperParams]
    /\ Defaults \in [ctx : Nat, hp : HyperParams]

VARIABLES
    hw, model,      \* the machine and the loaded model
    history,        \* perf_history_ of the orchestrator
    profile,        \* perf_profile of the runtime
    perfLock,       \* the holder of perf_mutex
    file,           \* the lines of the profile file
    writers,        \* saves in progress: [who, data, open]
    backend,        \* the engine of a session, NoBackend without a session
    cancelled,      \* the flag of a session
    sessionLock,    \* the holder of a session's mutex
    pc, call,       \* where a thread is, and in which call
    out,            \* tokens the call has produced
    ok,             \* what run_stream will return
    result,         \* how a thread's last call ended: [error, stream]
    asked,          \* a cancellation has reached the call that a thread runs
    late,           \* tokens the call has sampled since then
    measured,       \* speeds measured with a backend
    used            \* operations so far, for the bounds

vars == <<hw, model, history, profile, perfLock, file, writers, backend, cancelled,
          sessionLock, pc, call, out, ok, result, asked, late, measured,
          used>>

perfVars == <<profile, perfLock, file, writers, measured, history>>
sessionVars == <<backend, cancelled, sessionLock>>
callVars == <<call, out, ok, result, asked, late>>

Backends == {CPU, VK}
NoModel == [hash |-> None]
NoResult == [error |-> "none", stream |-> FALSE]
NoCall == [session |-> None, stream |-> FALSE]
SessionOf(t) == call[t].session

Use(c) == used' = [used EXCEPT ![c] = used[c] + 1]

\* Every record of a loaded profile that has a speed is reported to the
\* orchestrator.
Seeds(recs) ==
    FoldLeft(LAMBDA h, r : record_performance(h, r.backend, r.tps), NoHistory,
             SelectSeq(recs, LAMBDA r : r.tps > 0))

\* ha_runtime_create; the first process finds no file.
Init ==
    /\ hw \in {detect(inv) : inv \in Inventories}
    /\ model = NoModel
    /\ history = NoHistory /\ profile = <<>> /\ file = <<>> /\ writers = {}
    /\ perfLock = None
    /\ backend = [s \in Sessions |-> NoBackend]
    /\ cancelled = [s \in Sessions |-> FALSE]
    /\ sessionLock = [s \in Sessions |-> None]
    /\ pc = [t \in Threads |-> "idle"]
    /\ call = [t \in Threads |-> NoCall]
    /\ out = [t \in Threads |-> 0]
    /\ ok = [t \in Threads |-> TRUE]
    /\ result = [t \in Threads |-> NoResult]
    /\ asked = [t \in Threads |-> FALSE]
    /\ late = [t \in Threads |-> 0]
    /\ measured = [b \in Backends |-> 0]
    /\ used = [c \in {"opens", "calls", "events"} |-> 0]

-----------------------------------------------------------------------------
(* Models and sessions *)

\* What ha_model_load makes of a file: numbers that are not stated are those of
\* the default model.
Loaded(f) ==
    LET Stated(x, default) == IF x = 0 THEN default ELSE x
    IN  [f EXCEPT !.arch = IF f.arch = "" THEN "qwen2" ELSE f.arch,
                  !.ctx = Stated(f.ctx, Defaults.ctx),
                  !.hp = [d \in DOMAIN f.hp |-> Stated(f.hp[d], Defaults.hp[d])]]

ha_model_load(f) ==
    /\ model = NoModel
    /\ model' = Loaded(f)
    /\ UNCHANGED <<hw, perfVars, sessionVars, pc, callVars, used>>

ha_model_unload ==
    /\ model # NoModel /\ \A s \in Sessions : backend[s] = NoBackend
    /\ model' = NoModel
    /\ UNCHANGED <<hw, perfVars, sessionVars, pc, callVars, used>>

\* The request of ha_session_create: a context of at most 2048, 512 for none.
SelectionRequest ==
    [quant |-> model.quant, arch |-> model.arch, bytes |-> model.bytes, hp |-> model.hp,
     ctx |-> IF model.ctx = 0 THEN 512 ELSE IF model.ctx > 2048 THEN 2048 ELSE model.ctx,
     latency |-> FALSE, fallback |-> TRUE, forced |-> ""]

\* The engines create_engine may come back with; null is met with a last try
\* of the CPU engine.
NewEngines ==
    LET req == SelectionRequest
        registered == register_default_backends(<<>>, hw)
        Engine(sel, ready) == create_engine(sel, req, BuiltinFactories, ready)
        LastTry(sel, ready) ==
            IF Engine(sel, ready) = NoBackend /\ CPU \in ready THEN CPU
            ELSE Engine(sel, ready)
    IN  UNION {{LastTry(sel, ready) : ready \in SUBSET Backends} :
               sel \in select_backend(req, hw, registered, history)}

ha_session_create(s) ==
    /\ model # NoModel /\ backend[s] = NoBackend /\ used["opens"] < MaxOpens
    /\ Use("opens")
    /\ \E b \in NewEngines : backend' = [backend EXCEPT ![s] = b]
    /\ cancelled' = [cancelled EXCEPT ![s] = FALSE]
    /\ UNCHANGED <<hw, model, perfVars, sessionLock, pc, callVars>>

ha_session_destroy(s) ==
    /\ backend[s] # NoBackend
    /\ \A t \in Threads : SessionOf(t) # s
    /\ backend' = [backend EXCEPT ![s] = NoBackend]
    /\ UNCHANGED <<hw, model, perfVars, cancelled, sessionLock, pc, callVars, used>>

\* Threads whose running call a request for session s reaches.
Running(s) == {t \in Threads : sessionLock[s] = t}

ha_session_cancel(s) ==
    /\ backend[s] # NoBackend /\ used["events"] < MaxEvents
    /\ cancelled' = [cancelled EXCEPT ![s] = TRUE]
    /\ asked' = [t \in Threads |-> asked[t] \/ t \in Running(s)]
    /\ Use("events")
    /\ UNCHANGED <<hw, model, perfVars, backend, sessionLock, pc, call, out, ok, result,
                   late>>

-----------------------------------------------------------------------------
(* ha_infer and ha_infer_stream *)

Goto(t, label) == pc' = [pc EXCEPT ![t] = label]

ha_infer(t, s, stream) ==
    /\ pc[t] = "idle" /\ backend[s] # NoBackend /\ used["calls"] < MaxCalls
    /\ call' = [call EXCEPT ![t] = [session |-> s, stream |-> stream]]
    /\ asked' = [asked EXCEPT ![t] = FALSE]
    /\ result' = [result EXCEPT ![t] = NoResult]
    /\ Goto(t, "enter") /\ Use("calls")
    /\ UNCHANGED <<hw, model, perfVars, sessionVars, out, ok, late>>

Leave(t, error) ==
    /\ result' = [result EXCEPT ![t] = [error |-> error, stream |-> call[t].stream]]
    /\ call' = [call EXCEPT ![t] = NoCall]
    /\ out' = [out EXCEPT ![t] = 0]
    /\ ok' = [ok EXCEPT ![t] = TRUE]
    /\ late' = [late EXCEPT ![t] = 0]
    /\ Goto(t, "idle")

Fails(t) == ok' = [ok EXCEPT ![t] = FALSE] /\ Goto(t, "return")

\* The session's mutex is taken and the flag exchanged: a request that came
\* before the call refuses it.  Then the prompt goes through forward(), which
\* fails when the prompt is longer than the KV cache, or else for its own reasons.
Enter(t) ==
    /\ pc[t] = "enter" /\ sessionLock[SessionOf(t)] = None
    /\ cancelled' = [cancelled EXCEPT ![SessionOf(t)] = FALSE]
    /\ \/ /\ cancelled[SessionOf(t)]
          /\ Leave(t, "CANCELLED") /\ UNCHANGED sessionLock
       \/ /\ ~ cancelled[SessionOf(t)]
          /\ sessionLock' = [sessionLock EXCEPT ![SessionOf(t)] = t]
          /\ \/ PromptTokens <= MaxSeq /\ Goto(t, "sample") /\ UNCHANGED ok
             \/ Fails(t)
          /\ UNCHANGED <<call, result, out, late>>
    /\ UNCHANGED <<hw, model, perfVars, backend, asked, used>>

\* run_stream ends without an error of forward(); it has a speed when it has
\* made tokens.
Ended(t, tokens) == Goto(t, IF tokens > 0 THEN "record" ELSE "return")

\* max_new_tokens, the end of the context, or the end-of-text token.
Stop(t) ==
    /\ pc[t] = "sample"
    /\ Ended(t, out[t])
    /\ UNCHANGED <<hw, model, perfVars, sessionVars, callVars, used>>

\* The token goes through forward() at the next position.
Forward(t) ==
    \/ Goto(t, "sample") /\ UNCHANGED ok
    \/ Fails(t)

\* Mutant: the callback of the session does not look at the flag.
DeliverBlind(t) == Goto(t, "callback") /\ UNCHANGED ok

\* A streaming call asks the flag, then calls back.
Deliver(t) ==
    IF cancelled[SessionOf(t)]
    THEN ok' = [ok EXCEPT ![t] = FALSE] /\ Ended(t, out[t] + 1)
    ELSE Goto(t, "callback") /\ UNCHANGED ok

\* One more token.
Sample(t) ==
    /\ pc[t] = "sample" /\ out[t] < MaxNew /\ PromptTokens + out[t] < MaxSeq
    /\ out' = [out EXCEPT ![t] = out[t] + 1]
    /\ late' = [late EXCEPT ![t] = IF asked[t] THEN late[t] + 1 ELSE 0]
    /\ IF call[t].stream THEN Deliver(t) ELSE Forward(t)
    /\ UNCHANGED <<hw, model, perfVars, sessionVars, call, result, asked, used>>

\* The client's callback; non-zero sets the flag of the session and stops.
Callback(t) ==
    /\ pc[t] = "callback"
    /\ \/ Forward(t) /\ UNCHANGED <<cancelled, asked>>
       \/ /\ cancelled' = [cancelled EXCEPT ![SessionOf(t)] = TRUE]
          /\ asked' = [asked EXCEPT ![t] = TRUE]
          /\ ok' = [ok EXCEPT ![t] = FALSE] /\ Ended(t, out[t])
    /\ UNCHANGED <<hw, model, perfVars, backend, sessionLock, call, out, result, late, used>>

\* Mutant: the streaming call returns what run_stream said.
ErrorIgnoresFlag(t) == IF ok[t] THEN "OK" ELSE "INFERENCE"

\* The error code: a streaming call asks the flag once more.
Error(t) ==
    IF call[t].stream /\ cancelled[SessionOf(t)] THEN "CANCELLED"
    ELSE IF ok[t] THEN "OK" ELSE "INFERENCE"

Return(t) ==
    /\ pc[t] = "return"
    /\ Leave(t, Error(t))
    /\ sessionLock' = [sessionLock EXCEPT ![SessionOf(t)] = None]
    /\ UNCHANGED <<hw, model, perfVars, backend, cancelled, asked, used>>

-----------------------------------------------------------------------------
(* The performance profile *)

\* perf_mutex is taken and the record changed in two steps: whoever reads the
\* profile without the mutex can come between.
RecordBegin(t) ==
    /\ pc[t] = "record" /\ perfLock = None
    /\ perfLock' = t /\ Goto(t, "recording")
    /\ measured' = [measured EXCEPT ![backend[SessionOf(t)]] = measured[backend[SessionOf(t)]] + 1]
    /\ UNCHANGED <<hw, model, profile, file, writers, history, sessionVars, callVars, used>>

\* Mutant: a call that streams records its speed twice.
RecordedTwice(t, speed) ==
    LET once == record(profile, backend[SessionOf(t)], model.hash, speed)
    IN  IF call[t].stream THEN record(once, backend[SessionOf(t)], model.hash, speed) ELSE once

Recorded(t, speed) == record(profile, backend[SessionOf(t)], model.hash, speed)

RecordEnd(t) ==
    /\ pc[t] = "recording"
    /\ \E speed \in Speeds : profile' = Recorded(t, speed)
    /\ perfLock' = None /\ Goto(t, "copy")
    /\ UNCHANGED <<hw, model, file, writers, measured, history, sessionVars, callVars, used>>

\* What a copy may hold: the profile, or, made without the mutex while another
\* thread updates a record, one with the new count and the old average.
Copies(t) ==
    {profile} \cup
    {[profile EXCEPT ![i].n = profile[i].n + 1] :
        i \in UNION {Matches(profile, backend[SessionOf(u)], model.hash) :
                    u \in {v \in Threads \ {t} : pc[v] = "recording"}}}

\* The copy goes to a detached thread; when none can be started, the call saves
\* the profile itself.
Copy(t) ==
    /\ pc[t] = "copy"
    /\ \/ /\ \E c \in Copies(t) :
                writers' = writers \cup {[who |-> None, data |-> Lines(c), open |-> FALSE]}
          /\ Goto(t, "return")
       \/ /\ \E c \in Copies(t) :
                writers' = writers \cup {[who |-> t, data |-> Lines(c), open |-> FALSE]}
          /\ Goto(t, "saving")
    /\ UNCHANGED <<hw, model, profile, perfLock, file, measured, history, sessionVars,
                   callVars, used>>

Saving(t) == \E w \in writers : w.who = t

Saved(t) ==
    /\ pc[t] = "saving" /\ ~ Saving(t) /\ Goto(t, "return")
    /\ UNCHANGED <<hw, model, perfVars, sessionVars, callVars, used>>

\* A save that cannot open its file gives up.
SaveOpen(w) ==
    /\ ~ w.open
    /\ \/ file' = <<>> /\ writers' = (writers \ {w}) \cup {[w EXCEPT !.open = TRUE]}
       \/ writers' = writers \ {w} /\ UNCHANGED file
    /\ UNCHANGED <<hw, model, profile, perfLock, measured, history, sessionVars, pc,
                   callVars, used>>

SaveWrite(w) ==
    /\ w.open
    /\ file' \in Overwrites(w.data, file)
    /\ writers' = writers \ {w}
    /\ UNCHANGED <<hw, model, profile, perfLock, measured, history, sessionVars, pc,
                   callVars, used>>

\* ha_runtime_perf_reset saves the empty profile with the mutex held.
ha_runtime_perf_reset(t) ==
    /\ pc[t] = "idle" /\ perfLock = None /\ used["events"] < MaxEvents
    /\ perfLock' = t /\ profile' = <<>>
    /\ writers' = writers \cup {[who |-> t, data |-> <<>>, open |-> FALSE]}
    /\ Goto(t, "resetting") /\ Use("events")
    /\ UNCHANGED <<hw, model, file, measured, history, sessionVars, callVars>>

ResetDone(t) ==
    /\ pc[t] = "resetting" /\ ~ Saving(t)
    /\ perfLock' = None /\ Goto(t, "idle")
    /\ UNCHANGED <<hw, model, profile, file, writers, measured, history, sessionVars,
                   callVars, used>>

\* The process ends, with whatever is in progress, and the next one loads the
\* file and seeds the orchestrator with it.
Restart ==
    /\ used["events"] < MaxEvents /\ Use("events")
    /\ profile' = load(file) /\ history' = Seeds(load(file))
    /\ writers' = {} /\ perfLock' = None
    /\ backend' = [s \in Sessions |-> NoBackend]
    /\ sessionLock' = [s \in Sessions |-> None]
    /\ cancelled' = [s \in Sessions |-> FALSE]
    /\ pc' = [t \in Threads |-> "idle"]
    /\ call' = [t \in Threads |-> NoCall]
    /\ result' = [t \in Threads |-> NoResult]
    /\ asked' = [t \in Threads |-> FALSE]
    /\ late' = [t \in Threads |-> 0]
    /\ out' = [t \in Threads |-> 0]
    /\ ok' = [t \in Threads |-> TRUE]
    /\ model' = NoModel
    /\ UNCHANGED <<hw, file, measured>>

-----------------------------------------------------------------------------
CallStep(t) ==
    \/ Enter(t) \/ Stop(t) \/ Sample(t) \/ Callback(t) \/ Return(t)
    \/ RecordBegin(t) \/ RecordEnd(t) \/ Copy(t) \/ Saved(t) \/ ResetDone(t)

Save == \E w \in writers : SaveOpen(w) \/ SaveWrite(w)

Client ==
    \/ \E f \in ModelFiles : ha_model_load(f)
    \/ ha_model_unload
    \/ \E s \in Sessions :
          \/ ha_session_create(s) \/ ha_session_destroy(s) \/ ha_session_cancel(s)
    \/ \E t \in Threads :
          \/ \E s \in Sessions, stream \in BOOLEAN : ha_infer(t, s, stream)
          \/ ha_runtime_perf_reset(t)

Next == Client \/ Save \/ Restart \/ \E t \in Threads : CallStep(t)

Spec == Init /\ [][Next]_vars

-----------------------------------------------------------------------------
(* Properties *)

\* A streaming call samples at most one token after a cancellation has reached it, by
\* ha_session_cancel or by its callback (the check in the lambda of ha_infer_stream).
StreamStopsSoon ==
    \A t \in Threads : call[t].stream => late[t] <= 1

\* A streaming call that was cancelled while it ran returns HA_ERR_CANCELLED, whichever
\* way it ended: the flag is kept from the request to the last look of ha_infer_stream.
CancelReported ==
    \A t \in Threads :
        pc[t] = "idle" /\ asked[t] /\ result[t].stream => result[t].error = "CANCELLED"

\* How many measurements of b the records claim.
Samples(recs, b) ==
    LET total[k \in 0..Len(recs)] ==
            IF k = 0 THEN 0
            ELSE total[k - 1] + (IF recs[k].backend = b THEN recs[k].n ELSE 0)
    IN  total[Len(recs)]

\* No interleaving of calls, unlocked copies, detached saves, resets and restarts makes
\* the profile or its file claim more measurements of a backend than were made.
NoFabricatedSamples ==
    \A b \in Backends :
        /\ Samples(profile, b) <= measured[b]
        /\ Samples(file, b) <= measured[b]

\* Whatever speeds the profile has taught the orchestrator, a session runs on Vulkan only
\* where a device can compute, the model's type is supported, and it fits the memory.
VulkanOnlyWhereItFits ==
    \A s \in Sessions : backend[s] = VK =>
        /\ hw.has_vulkan
        /\ model.quant \in VulkanQuants
        /\ \/ best_gpu(hw).vram = 0
           \/ estimate(model.hp, SelectionRequest.ctx) <= best_gpu(hw).vram
=============================================================================
