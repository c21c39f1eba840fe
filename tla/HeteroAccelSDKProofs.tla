------------------------ MODULE HeteroAccelSDKProofs ------------------------
(***************************************************************************)
(* Cancellation of the calls of HeteroAccelSDK, the engines its sessions   *)
(* get, and what its performance profile claims, for every set of threads, *)
(* sessions, machines, model files and speeds and for every bound.         *)
(*                                                                         *)
(* A flag of the session says that a call is cancelled, and it is shared:  *)
(* any thread may set it, and Enter and ha_session_create clear it.  The   *)
(* proof shows that neither of the two can come between a request and the  *)
(* call's last look at the flag.  Enter needs the mutex of the session,    *)
(* which the running call holds; ha_session_create needs a session without *)
(* an engine, and a session that a call uses has one until the call ends.  *)
(*                                                                         *)
(* An engine is chosen once, for the model of that time; it keeps its      *)
(* promise because no other model is loaded while a session exists.        *)
(*                                                                         *)
(* Saves of several ages write the one file, each over what the others     *)
(* left, so a profile, a save and a line of the file say nothing by        *)
(* themselves of how often a measurement is claimed.  The proof keeps a    *)
(* ledger: an entry for every record of every era, an era being the time   *)
(* from the start of the process or a reset to the next, with what may be  *)
(* claimed for it; the entries add up to no more than was measured.  The   *)
(* profile and the saves are covered by the entries of one era each.  The  *)
(* lines of the file may be of many eras, but no two are of the same       *)
(* entry: a line never moves away from the front of the file, so the lines *)
(* a save leaves behind its own were behind it in their era too.           *)
(***************************************************************************)
EXTENDS HeteroAccelSDK, WellFoundedInduction, SequenceTheorems, TLAPS

\* The places of a call that holds the mutex of its session.
Inside == {"sample", "callback", "record", "recording", "copy", "saving", "return"}

\* The places of a thread that is in no call.
Outside == {"idle", "resetting"}

Places == {"enter"} \cup Inside \cup Outside
Calls == [session : Sessions \cup {None}, stream : BOOLEAN]
Results == [error : {"none", "OK", "INFERENCE", "CANCELLED"}, stream : BOOLEAN]

\* The types of the variables the argument is about; of the engines only that
\* every session has an entry.
Typed ==
    /\ backend = [s \in Sessions |-> backend[s]]
    /\ cancelled \in [Sessions -> BOOLEAN]
    /\ sessionLock \in [Sessions -> Threads \cup {None}]
    /\ pc \in [Threads -> Places]
    /\ call \in [Threads -> Calls]
    /\ ok \in [Threads -> BOOLEAN]
    /\ result \in [Threads -> Results]
    /\ asked \in [Threads -> BOOLEAN]
    /\ late \in [Threads -> Nat]

\* A call is on a session that exists for as long as the call lasts.
InUse(t) ==
    pc[t] \notin Outside => SessionOf(t) \in Sessions /\ backend[SessionOf(t)] # NoBackend

\* The place of a thread says whether it holds the mutex of its session.
Holds(t) ==
    \A s \in Sessions : sessionLock[s] = t <=> pc[t] \in Inside /\ SessionOf(t) = s

\* A request that has reached a call is still in the flag.
FlagKept(t) ==
    /\ pc[t] = "enter" => ~ asked[t]
    /\ pc[t] \in Inside /\ asked[t] => cancelled[SessionOf(t)]

\* A streaming call that goes on has sampled nothing since a request.
LateOK(t) ==
    /\ call[t].stream => late[t] <= 1
    /\ pc[t] \in {"sample", "callback"} /\ call[t].stream => late[t] = 0
    /\ pc[t] \in {"enter"} \cup Outside => late[t] = 0

\* What a thread's last call told its client.
ReportOK(t) ==
    pc[t] \in Outside /\ asked[t] /\ result[t].stream => result[t].error = "CANCELLED"

ThreadOK(t) == InUse(t) /\ Holds(t) /\ FlagKept(t) /\ LateOK(t) /\ ReportOK(t)

IInv == Typed /\ \A t \in Threads : ThreadOK(t)

-----------------------------------------------------------------------------
(* The two ways a step leaves a thread alone *)

\* Everything the invariant says of thread t.
Own(t) == <<pc[t], call[t], asked[t], late[t], result[t]>>

\* A thread that a step does not touch is as good as before when the engine of
\* its session stays, its mutex stays, and its flag is not cleared.
LEMMA OtherThreads ==
    ASSUME IInv, Typed', NEW t \in Threads, ThreadOK(t), Own(t)' = Own(t),
           \A s \in Sessions : sessionLock[s] = t <=> sessionLock'[s] = t,
           pc[t] \notin Outside => backend'[SessionOf(t)] = backend[SessionOf(t)],
           pc[t] \in Inside /\ cancelled[SessionOf(t)] => cancelled'[SessionOf(t)]
    PROVE  ThreadOK(t)'
<1>1. pc'[t] = pc[t] /\ call'[t] = call[t] /\ asked'[t] = asked[t]
      /\ late'[t] = late[t] /\ result'[t] = result[t]
  BY DEF Own
<1>2. SessionOf(t)' = SessionOf(t)
  BY <1>1 DEF SessionOf
<1>3. InUse(t)'
  BY <1>1, <1>2 DEF InUse, ThreadOK
<1>4. Holds(t)'
  BY <1>1, <1>2 DEF Holds, ThreadOK
<1>5. FlagKept(t)'
  BY <1>1, <1>2 DEF FlagKept, ThreadOK
<1>6. LateOK(t)' /\ ReportOK(t)'
  BY <1>1 DEF LateOK, ReportOK, ThreadOK
<1> QED
  BY <1>3, <1>4, <1>5, <1>6 DEF ThreadOK

\* A step of thread t that moves only t, from one place outside the mutex to another
\* or from one place inside it to another, and none of what the invariant says
\* beyond that.
LEMMA LightStep ==
    ASSUME IInv, NEW t \in Threads, NEW p \in Places,
           pc' = [pc EXCEPT ![t] = p],
           UNCHANGED <<sessionVars, callVars>>,
           \/ pc[t] \in Inside /\ p \in Inside \ {"sample", "callback"}
           \/ pc[t] \in Outside /\ p \in Outside
    PROVE  IInv'
<1>1. Typed'
  BY DEF IInv, Typed, sessionVars, callVars
<1>2. ASSUME NEW u \in Threads, u # t PROVE ThreadOK(u)'
  <2>1. Own(u)' = Own(u)
    BY <1>2 DEF Own, callVars, IInv, Typed
  <2> QED
    BY <1>1, <2>1, OtherThreads DEF IInv, sessionVars
<1>3. ThreadOK(t)'
  <2>1. pc'[t] = p /\ SessionOf(t)' = SessionOf(t)
    BY DEF IInv, Typed, SessionOf, callVars
  <2>2. ThreadOK(t)
    BY DEF IInv
  <2>3. InUse(t)' /\ Holds(t)' /\ FlagKept(t)'
    BY <2>1, <2>2 DEF ThreadOK, InUse, Holds, FlagKept, Inside, Outside, sessionVars,
                      callVars
  <2>4. LateOK(t)' /\ ReportOK(t)'
    BY <2>1, <2>2 DEF ThreadOK, LateOK, ReportOK, Inside, Outside, callVars
  <2> QED
    BY <2>3, <2>4 DEF ThreadOK
<1> QED
  BY <1>1, <1>2, <1>3 DEF IInv

-----------------------------------------------------------------------------
(* Every step keeps the invariant *)

LEMMA Initially == Init => IInv
  BY SDKAssumption
     DEF Init, IInv, Typed, ThreadOK, InUse, Holds, FlagKept, LateOK, ReportOK, Inside,
         Outside, Places, Calls, Results, NoCall, NoResult, SessionOf

\* The model and the profile's saves are no part of the argument.
LEMMA Elsewhere ==
    ASSUME IInv, UNCHANGED <<sessionVars, pc, callVars>>
    PROVE  IInv'
  BY DEF IInv, Typed, ThreadOK, InUse, Holds, FlagKept, LateOK, ReportOK, SessionOf, sessionVars,
         callVars

\* A session without an engine is used by no call: its flag may be cleared.
LEMMA SessionCreate ==
    ASSUME IInv, NEW s \in Sessions, ha_session_create(s)
    PROVE  IInv'
<1>1. Typed'
  BY DEF ha_session_create, IInv, Typed, callVars
<1>2. ASSUME NEW t \in Threads PROVE ThreadOK(t)'
  <2>1. ThreadOK(t) /\ Own(t)' = Own(t)
    BY DEF IInv, Own, ha_session_create, callVars
  <2>2. pc[t] \notin Outside => SessionOf(t) \in Sessions /\ SessionOf(t) # s
    BY <2>1 DEF ThreadOK, InUse, ha_session_create
  <2>3. pc[t] \notin Outside
           => /\ backend'[SessionOf(t)] = backend[SessionOf(t)]
              /\ cancelled'[SessionOf(t)] = cancelled[SessionOf(t)]
    BY <2>2 DEF ha_session_create, IInv, Typed
  <2>4. pc[t] \in Inside => pc[t] \notin Outside
    BY DEF Inside, Outside
  <2> QED
    BY <1>1, <2>1, <2>3, <2>4, OtherThreads DEF ha_session_create
<1> QED
  BY <1>1, <1>2 DEF IInv

LEMMA SessionDestroy ==
    ASSUME IInv, NEW s \in Sessions, ha_session_destroy(s)
    PROVE  IInv'
<1>1. Typed'
  BY DEF ha_session_destroy, IInv, Typed, callVars
<1>2. ASSUME NEW t \in Threads PROVE ThreadOK(t)'
  <2>1. ThreadOK(t) /\ Own(t)' = Own(t) /\ SessionOf(t) # s
    BY DEF IInv, Own, ha_session_destroy, callVars
  <2>2. pc[t] \notin Outside => backend'[SessionOf(t)] = backend[SessionOf(t)]
    BY <2>1 DEF ThreadOK, InUse, ha_session_destroy, IInv, Typed
  <2> QED
    BY <1>1, <2>1, <2>2, OtherThreads DEF ha_session_destroy
<1> QED
  BY <1>1, <1>2 DEF IInv

\* A request reaches the call that holds the mutex, in whose flag it is written.
LEMMA SessionCancel ==
    ASSUME IInv, NEW s \in Sessions, ha_session_cancel(s)
    PROVE  IInv'
<1>1. Typed'
  BY DEF ha_session_cancel, IInv, Typed, Running
<1>2. ASSUME NEW t \in Threads PROVE ThreadOK(t)'
  <2>1. ThreadOK(t)
    BY DEF IInv
  <2>2. /\ pc' = pc /\ call' = call /\ late' = late /\ result' = result
        /\ backend' = backend /\ sessionLock' = sessionLock /\ SessionOf(t)' = SessionOf(t)
        /\ cancelled' = [cancelled EXCEPT ![s] = TRUE]
    BY DEF ha_session_cancel, SessionOf
  <2>3. CASE sessionLock[s] = t
    <3>1. pc[t] \in Inside /\ SessionOf(t) = s
      BY <2>1, <2>3 DEF ThreadOK, Holds
    <3>2. cancelled'[SessionOf(t)]
      BY <2>2, <3>1 DEF IInv, Typed
    <3>3. pc[t] \notin {"enter"} \cup Outside
      BY <3>1 DEF Inside, Outside
    <3> QED
      BY <2>1, <2>2, <3>2, <3>3 DEF ThreadOK, InUse, Holds, FlagKept, LateOK, ReportOK
  <2>4. CASE sessionLock[s] # t
    <3>1. asked'[t] = asked[t]
      BY <2>4 DEF ha_session_cancel, Running, IInv, Typed
    <3>2. Own(t)' = Own(t)
      BY <2>2, <3>1 DEF Own
    <3>3. pc[t] \in Inside /\ cancelled[SessionOf(t)] => cancelled'[SessionOf(t)]
      <4>1. pc[t] \in Inside => SessionOf(t) \in Sessions
        BY <2>1 DEF ThreadOK, InUse, Inside, Outside
      <4> QED
        BY <2>2, <4>1 DEF IInv, Typed
    <3> QED
      BY <1>1, <2>1, <2>2, <3>2, <3>3, OtherThreads
  <2> QED
    BY <2>3, <2>4
<1> QED
  BY <1>1, <1>2 DEF IInv

LEMMA Infer ==
    ASSUME IInv, NEW t \in Threads, NEW s \in Sessions, NEW stream \in BOOLEAN,
           ha_infer(t, s, stream)
    PROVE  IInv'
<1>1. [session |-> s, stream |-> stream] \in Calls /\ NoResult \in Results
  BY DEF Calls, Results, NoResult
<1>2. Typed'
  BY <1>1 DEF ha_infer, Goto, IInv, Typed, Places, sessionVars
<1>3. ASSUME NEW u \in Threads, u # t PROVE ThreadOK(u)'
  <2>1. Own(u)' = Own(u)
    BY <1>3 DEF Own, ha_infer, Goto, IInv, Typed
  <2> QED
    BY <1>2, <2>1, OtherThreads DEF IInv, ha_infer, sessionVars
<1>4. ThreadOK(t)'
  <2>1. /\ pc'[t] = "enter" /\ SessionOf(t)' = s /\ ~ asked'[t] /\ late'[t] = late[t]
        /\ pc[t] = "idle"
    BY DEF ha_infer, Goto, SessionOf, IInv, Typed
  <2>2. late[t] = 0
    BY <2>1 DEF IInv, ThreadOK, LateOK, Outside
  <2>3. InUse(t)'
    BY <2>1 DEF InUse, ha_infer, sessionVars
  <2>4. Holds(t)'
    BY <2>1 DEF Holds, IInv, ThreadOK, Inside, ha_infer, sessionVars
  <2> QED
    BY <2>1, <2>2, <2>3, <2>4 DEF ThreadOK, FlagKept, LateOK, ReportOK, Inside, Outside
<1> QED
  BY <1>2, <1>3, <1>4 DEF IInv

\* The flag is cleared, but of no call that runs: no call holds the mutex.
LEMMA EnterCall ==
    ASSUME IInv, NEW t \in Threads, Enter(t)
    PROVE  IInv'
<1>1. /\ ThreadOK(t) /\ pc[t] = "enter" /\ sessionLock[SessionOf(t)] = None
      /\ cancelled' = [cancelled EXCEPT ![SessionOf(t)] = FALSE]
      /\ backend' = backend /\ asked' = asked
  BY DEF IInv, Enter
<1>2. SessionOf(t) \in Sessions /\ backend[SessionOf(t)] # NoBackend /\ ~ asked[t] /\ late[t] = 0
  BY <1>1 DEF ThreadOK, InUse, FlagKept, LateOK, Outside
<1>3. ASSUME NEW u \in Threads
      PROVE  pc[u] \in Inside => SessionOf(u) \in Sessions /\ SessionOf(u) # SessionOf(t)
  BY <1>1, <1>2, SDKAssumption DEF IInv, ThreadOK, InUse, Holds, Inside, Outside
<1>4. ASSUME NEW u \in Threads
      PROVE  pc[u] \in Inside /\ cancelled[SessionOf(u)] => cancelled'[SessionOf(u)]
  BY <1>1, <1>2, <1>3 DEF IInv, Typed
<1>5. CASE cancelled[SessionOf(t)] /\ Leave(t, "CANCELLED") /\ UNCHANGED sessionLock
  <2>1. /\ [error |-> "CANCELLED", stream |-> call[t].stream] \in Results
        /\ NoCall \in Calls
    BY DEF IInv, Typed, Calls, Results, NoCall
  <2>2. Typed'
    BY <1>1, <1>5, <2>1 DEF Leave, Goto, IInv, Typed, Places, Outside
  <2>3. ASSUME NEW u \in Threads, u # t PROVE ThreadOK(u)'
    <3>1. Own(u)' = Own(u)
      BY <1>1, <1>5, <2>3 DEF Own, Leave, Goto, IInv, Typed
    <3> QED
      BY <1>1, <1>4, <1>5, <2>2, <3>1, OtherThreads DEF IInv
  <2>4. ThreadOK(t)'
    <3>1. pc'[t] = "idle" /\ ~ asked'[t] /\ late'[t] = 0
      BY <1>1, <1>2, <1>5 DEF Leave, Goto, IInv, Typed
    <3>2. Holds(t)'
      BY <1>1, <1>5, <3>1 DEF Holds, ThreadOK, Inside
    <3> QED
      BY <3>1, <3>2
         DEF ThreadOK, InUse, FlagKept, LateOK, ReportOK, Inside, Outside
  <2> QED
    BY <2>2, <2>3, <2>4 DEF IInv
<1>6. CASE /\ ~ cancelled[SessionOf(t)]
           /\ sessionLock' = [sessionLock EXCEPT ![SessionOf(t)] = t]
           /\ \/ PromptTokens <= MaxSeq /\ Goto(t, "sample") /\ UNCHANGED ok
              \/ Fails(t)
           /\ UNCHANGED <<call, result, out, late>>
  <2>1. PICK p \in {"sample", "return"} : pc' = [pc EXCEPT ![t] = p]
    BY <1>6 DEF Goto, Fails
  <2>2. p \in Inside /\ p \in Places /\ p \notin {"enter"} \cup Outside
    BY DEF Inside, Outside, Places
  <2>3. ok' \in [Threads -> BOOLEAN]
    BY <1>6 DEF IInv, Typed, Fails
  <2>4. Typed'
    BY <1>1, <1>2, <1>6, <2>1, <2>2, <2>3 DEF IInv, Typed
  <2>5. ASSUME NEW u \in Threads, u # t PROVE ThreadOK(u)'
    <3>1. Own(u)' = Own(u)
      BY <1>1, <1>6, <2>1, <2>5 DEF Own, IInv, Typed
    <3>2. \A s \in Sessions : sessionLock[s] = u <=> sessionLock'[s] = u
      BY <1>1, <1>2, <1>6, <2>5, SDKAssumption DEF IInv, Typed
    <3> QED
      BY <1>1, <1>4, <2>4, <3>1, <3>2, OtherThreads DEF IInv
  <2>6. ThreadOK(t)'
    <3>1. /\ pc'[t] = p /\ SessionOf(t)' = SessionOf(t) /\ ~ asked'[t] /\ late'[t] = 0
      BY <1>1, <1>2, <1>6, <2>1 DEF SessionOf, IInv, Typed
    <3>2. Holds(t)'
      BY <1>1, <1>2, <1>6, <2>2, <3>1 DEF Holds, ThreadOK, Inside, IInv, Typed
    <3> QED
      BY <1>1, <1>2, <2>2, <3>1, <3>2
         DEF ThreadOK, InUse, FlagKept, LateOK, ReportOK, Outside
  <2> QED
    BY <2>4, <2>5, <2>6 DEF IInv
<1> QED
  BY <1>5, <1>6 DEF Enter

\* A streaming call that has been asked to stop samples once and leaves the loop.
LEMMA SampleToken ==
    ASSUME IInv, NEW t \in Threads, Sample(t)
    PROVE  IInv'
<1>1. /\ ThreadOK(t) /\ pc[t] = "sample"
      /\ call' = call /\ result' = result /\ asked' = asked
      /\ UNCHANGED <<backend, cancelled, sessionLock>>
      /\ late' = [late EXCEPT ![t] = IF asked[t] THEN late[t] + 1 ELSE 0]
  BY DEF IInv, Sample, sessionVars
<1>2. PICK p \in Inside : pc' = [pc EXCEPT ![t] = p]
  BY DEF Sample, Deliver, Forward, Ended, Fails, Goto, Inside
<1>3. call[t].stream => (IF cancelled[SessionOf(t)] THEN p \in {"record", "return"} ELSE TRUE)
  <2>1. pc'[t] = p
    BY <1>2 DEF IInv, Typed
  <2> QED
    BY <2>1 DEF Sample, Deliver, Ended, Goto, IInv, Typed
<1>4. ok' \in [Threads -> BOOLEAN]
  BY DEF IInv, Typed, Sample, Deliver, Forward, Fails
<1>5. late'[t] = (IF asked[t] THEN late[t] + 1 ELSE 0) /\ late'[t] \in Nat
  BY <1>1 DEF IInv, Typed
<1>6. Typed'
  BY <1>1, <1>2, <1>4, <1>5 DEF IInv, Typed, Places
<1>7. ASSUME NEW u \in Threads, u # t PROVE ThreadOK(u)'
  <2>1. Own(u)' = Own(u)
    BY <1>1, <1>2, <1>7 DEF Own, IInv, Typed
  <2> QED
    BY <1>1, <1>6, <2>1, OtherThreads DEF IInv
<1>8. ThreadOK(t)'
  <2>1. /\ pc'[t] = p /\ SessionOf(t)' = SessionOf(t) /\ pc[t] \in Inside
        /\ p \notin {"enter"} \cup Outside
    BY <1>1, <1>2 DEF SessionOf, IInv, Typed, Inside, Outside
  <2>2. InUse(t)' /\ Holds(t)' /\ FlagKept(t)' /\ ReportOK(t)'
    BY <1>1, <2>1 DEF ThreadOK, InUse, Holds, FlagKept, ReportOK, Inside, Outside
  <2>3. LateOK(t)'
    <3>1. call[t].stream => late[t] = 0
      BY <1>1 DEF ThreadOK, LateOK
    <3>2. asked[t] => cancelled[SessionOf(t)]
      BY <1>1, <2>1 DEF ThreadOK, FlagKept
    <3> QED
      BY <1>1, <1>3, <1>5, <2>1, <3>1, <3>2 DEF LateOK
  <2> QED
    BY <2>2, <2>3 DEF ThreadOK
<1> QED
  BY <1>6, <1>7, <1>8 DEF IInv

\* A callback that asks for the end sets the flag of its own session.
LEMMA CallbackReturns ==
    ASSUME IInv, NEW t \in Threads, Callback(t)
    PROVE  IInv'
<1>1. /\ ThreadOK(t) /\ pc[t] = "callback"
      /\ UNCHANGED <<call, result, late, backend, sessionLock>>
  BY DEF IInv, Callback
<1>2. PICK p \in Inside \ {"callback"} : pc' = [pc EXCEPT ![t] = p]
  BY DEF Callback, Forward, Ended, Fails, Goto, Inside
<1>3. ok' \in [Threads -> BOOLEAN]
  BY DEF IInv, Typed, Callback, Forward, Fails
<1>4. \/ UNCHANGED <<cancelled, asked>>
      \/ /\ cancelled' = [cancelled EXCEPT ![SessionOf(t)] = TRUE]
         /\ asked' = [asked EXCEPT ![t] = TRUE]
  BY DEF Callback
<1>5. SessionOf(t) \in Sessions /\ pc[t] \in Inside
  BY <1>1 DEF ThreadOK, InUse, Outside, Inside
<1>6. Typed'
  BY <1>1, <1>2, <1>3, <1>4, <1>5 DEF IInv, Typed, Places
<1>7. ASSUME NEW u \in Threads, u # t PROVE ThreadOK(u)'
  <2>1. Own(u)' = Own(u)
    BY <1>1, <1>2, <1>4, <1>7 DEF Own, IInv, Typed
  <2>2. pc[u] \in Inside => SessionOf(u) \in Sessions
    BY DEF IInv, ThreadOK, InUse, Inside, Outside
  <2>3. pc[u] \in Inside /\ cancelled[SessionOf(u)] => cancelled'[SessionOf(u)]
    BY <1>4, <1>5, <2>2 DEF IInv, Typed
  <2> QED
    BY <1>1, <1>6, <2>1, <2>3, OtherThreads DEF IInv
<1>8. ThreadOK(t)'
  <2>1. /\ pc'[t] = p /\ SessionOf(t)' = SessionOf(t) /\ p \notin {"enter"} \cup Outside
    BY <1>1, <1>2 DEF SessionOf, IInv, Typed, Inside, Outside
  <2>2. asked'[t] => cancelled'[SessionOf(t)]
    BY <1>1, <1>4, <1>5 DEF IInv, Typed, ThreadOK, FlagKept
  <2>3. InUse(t)' /\ Holds(t)' /\ FlagKept(t)' /\ ReportOK(t)'
    BY <1>1, <1>5, <2>1, <2>2 DEF ThreadOK, InUse, Holds, FlagKept, ReportOK, Outside
  <2>4. LateOK(t)'
    BY <1>1, <2>1 DEF ThreadOK, LateOK
  <2> QED
    BY <2>3, <2>4 DEF ThreadOK
<1> QED
  BY <1>6, <1>7, <1>8 DEF IInv

\* The last look at the flag finds the request, and then the mutex is released.
LEMMA ReturnFromCall ==
    ASSUME IInv, NEW t \in Threads, Return(t)
    PROVE  IInv'
<1>1. /\ ThreadOK(t) /\ pc[t] = "return" /\ Leave(t, Error(t))
      /\ sessionLock' = [sessionLock EXCEPT ![SessionOf(t)] = None]
      /\ UNCHANGED <<backend, cancelled, asked>>
  BY DEF IInv, Return
<1>2. pc[t] \in Inside /\ SessionOf(t) \in Sessions /\ sessionLock[SessionOf(t)] = t
  BY <1>1 DEF ThreadOK, InUse, Holds, Outside, Inside
<1>3. /\ [error |-> Error(t), stream |-> call[t].stream] \in Results
      /\ NoCall \in Calls
  BY DEF IInv, Typed, Calls, Results, NoCall, Error
<1>4. Typed'
  BY <1>1, <1>2, <1>3 DEF Leave, Goto, IInv, Typed, Places, Outside
<1>5. ASSUME NEW u \in Threads, u # t PROVE ThreadOK(u)'
  <2>1. Own(u)' = Own(u)
    BY <1>1, <1>5 DEF Own, Leave, Goto, IInv, Typed
  <2>2. \A s \in Sessions : sessionLock[s] = u <=> sessionLock'[s] = u
    BY <1>1, <1>2, <1>5, SDKAssumption DEF IInv, Typed
  <2> QED
    BY <1>1, <1>4, <2>1, <2>2, OtherThreads DEF IInv
<1>6. ThreadOK(t)'
  <2>1. /\ pc'[t] = "idle" /\ late'[t] = 0 /\ asked'[t] = asked[t]
        /\ result'[t] = [error |-> Error(t), stream |-> call[t].stream]
    BY <1>1 DEF Leave, Goto, IInv, Typed
  <2>2. Holds(t)'
    BY <1>1, <1>2, <2>1, SDKAssumption DEF Holds, ThreadOK, Inside, IInv, Typed
  <2>3. ReportOK(t)'
    BY <1>1, <1>2, <2>1 DEF ReportOK, ThreadOK, FlagKept, Error
  <2> QED
    BY <2>1, <2>2, <2>3 DEF ThreadOK, InUse, FlagKept, LateOK, Inside, Outside
<1> QED
  BY <1>4, <1>5, <1>6 DEF IInv

\* The steps of a call that only move it, and those of a reset.
LEMMA Moves ==
    ASSUME IInv, NEW t \in Threads,
           \/ Stop(t) \/ RecordBegin(t) \/ RecordEnd(t) \/ Copy(t) \/ Saved(t)
           \/ ResetDone(t) \/ ha_runtime_perf_reset(t)
    PROVE  IInv'
<1>1. UNCHANGED <<sessionVars, callVars>>
  BY DEF Stop, RecordBegin, RecordEnd, Copy, Saved, ResetDone, ha_runtime_perf_reset
<1>2. \E p \in Places :
        /\ pc' = [pc EXCEPT ![t] = p]
        /\ \/ pc[t] \in Inside /\ p \in Inside \ {"sample", "callback"}
           \/ pc[t] \in Outside /\ p \in Outside
  BY DEF Stop, Ended, RecordBegin, RecordEnd, Copy, Saved, ResetDone,
         ha_runtime_perf_reset, Goto, Inside, Outside, Places
<1> QED
  BY <1>1, <1>2, LightStep

LEMMA NextProcess ==
    ASSUME Restart PROVE IInv'
  BY SDKAssumption
     DEF Restart, IInv, Typed, ThreadOK, InUse, Holds, FlagKept, LateOK, ReportOK, Inside,
         Outside, Places, Calls, Results, NoCall, NoResult, SessionOf

LEMMA Inductive == IInv /\ [Next]_vars => IInv'
<1> SUFFICES ASSUME IInv, [Next]_vars PROVE IInv'
  OBVIOUS
<1>1. CASE UNCHANGED vars
  BY <1>1, Elsewhere DEF vars, sessionVars, callVars
<1>2. ASSUME NEW f \in ModelFiles, ha_model_load(f) PROVE IInv'
  BY <1>2, Elsewhere DEF ha_model_load
<1>3. CASE ha_model_unload
  BY <1>3, Elsewhere DEF ha_model_unload
<1>4. CASE Save
  BY <1>4, Elsewhere DEF Save, SaveOpen, SaveWrite
<1>5. CASE Restart
  BY <1>5, NextProcess
<1>6. ASSUME NEW s \in Sessions,
             ha_session_create(s) \/ ha_session_destroy(s) \/ ha_session_cancel(s)
      PROVE  IInv'
  BY <1>6, SessionCreate, SessionDestroy, SessionCancel
<1>7. ASSUME NEW t \in Threads, NEW s \in Sessions, NEW stream \in BOOLEAN,
             ha_infer(t, s, stream)
      PROVE  IInv'
  BY <1>7, Infer
<1>8. ASSUME NEW t \in Threads, CallStep(t) \/ ha_runtime_perf_reset(t) PROVE IInv'
  BY <1>8, EnterCall, SampleToken, CallbackReturns, ReturnFromCall, Moves DEF CallStep
<1> QED
  BY <1>1, <1>2, <1>3, <1>4, <1>5, <1>6, <1>7, <1>8 DEF Next, Client

-----------------------------------------------------------------------------
(* Theorems *)

\* The inductive invariant: the places of the threads, the mutexes and the flags of the
\* sessions and what a call has been asked agree in every reachable state.
THEOREM Invariance == Spec => []IInv
  BY Initially, Inductive, PTL DEF Spec

\* A streaming call samples at most one token after a cancellation has reached it, by
\* ha_session_cancel or by its callback, however many threads share the session.
THEOREM StreamsStopSoon == Spec => []StreamStopsSoon
<1>1. IInv => StreamStopsSoon
  BY DEF IInv, ThreadOK, LateOK, StreamStopsSoon
<1> QED
  BY <1>1, Invariance, PTL

\* A streaming call that a cancellation has reached returns HA_ERR_CANCELLED: no other
\* call of the session and no new session clears the flag before its last look.
THEOREM CancellationsAreReported == Spec => []CancelReported
<1>1. IInv => CancelReported
  BY DEF IInv, ThreadOK, ReportOK, Outside, CancelReported
<1> QED
  BY <1>1, Invariance, PTL

-----------------------------------------------------------------------------
(* Induction, and the best of finitely many devices *)

\* A set of natural numbers has a smallest one.
LEMMA SmallestNat ==
    ASSUME NEW T, T \subseteq Nat, T # {}
    PROVE  \E x \in T : \A y \in T : x <= y
<1> DEFINE R == OpToRel(<, Nat)
<1>1. IsWellFoundedOn(R, Nat)
  BY NatLessThanWellFounded
<1> HIDE DEF R
<1>2. PICK x \in T : \A y \in T : ~ (<<y, x>> \in R)
  BY <1>1, WFMin
<1>3. ASSUME NEW y \in T PROVE ~ (y < x)
  BY <1>2 DEF R, OpToRel
<1> QED
  BY <1>2, <1>3

\* The induction over the natural numbers.
LEMMA SetInduction ==
    ASSUME NEW T, 0 \in T, \A n \in Nat : n \in T => n + 1 \in T
    PROVE  Nat \subseteq T
<1> SUFFICES ASSUME Nat \ T # {} PROVE FALSE
  OBVIOUS
<1>1. PICK x \in Nat \ T : \A y \in Nat \ T : x <= y
  BY SmallestNat, Nat \ T \subseteq Nat
<1>2. x - 1 \in Nat /\ x - 1 \in T
  BY <1>1
<1> QED
  BY <1>2, (x - 1) + 1 = x

\* Device i goes before device j when v is their video memory.
Better(v, i, j) == v[j] < v[i] \/ (v[j] = v[i] /\ i <= j)

\* Of finitely many numbered devices one goes before all the others.
LEMMA BestExists ==
    ASSUME NEW n \in Nat, NEW v, NEW G \in SUBSET (1..n), G # {}, \A i \in G : v[i] \in Nat
    PROVE  \E i \in G : \A j \in G : Better(v, i, j)
<1> DEFINE P(m) == \A F \in SUBSET (1..m) :
                     F # {} /\ (\A i \in F : v[i] \in Nat)
                        => \E i \in F : \A j \in F : Better(v, i, j)
           T == {m \in Nat : P(m)}
<1>1. P(0)
  <2>1. 1..0 = {}
    OBVIOUS
  <2> QED
    BY <2>1
<1>2. ASSUME NEW m \in Nat, P(m) PROVE P(m + 1)
  <2> SUFFICES ASSUME NEW F \in SUBSET (1..m + 1), F # {}, \A i \in F : v[i] \in Nat
               PROVE  \E i \in F : \A j \in F : Better(v, i, j)
    OBVIOUS
  <2> DEFINE Rest == F \ {m + 1}
  <2>1. Rest \in SUBSET (1..m)
    OBVIOUS
  <2>2. CASE Rest = {}
    <3>1. F = {m + 1}
      BY <2>2
    <3> QED
      BY <3>1 DEF Better
  <2>3. CASE Rest # {}
    <3>1. PICK i \in Rest : \A j \in Rest : Better(v, i, j)
      BY <1>2, <2>1, <2>3
    <3>2. i \in 1..m /\ i \in F /\ v[i] \in Nat
      BY <2>1, <3>1
    <3>3. CASE m + 1 \in F /\ v[m + 1] > v[i]
      <4>1. ASSUME NEW j \in F PROVE Better(v, m + 1, j)
        <5>1. CASE j = m + 1
          BY <5>1 DEF Better
        <5>2. CASE j \in Rest
          <6>1. v[j] \in Nat /\ v[j] <= v[i] /\ v[m + 1] \in Nat
            BY <3>1, <3>2, <3>3, <5>2 DEF Better
          <6> QED
            BY <3>2, <3>3, <6>1 DEF Better
        <5> QED
          BY <5>1, <5>2
      <4> QED
        BY <3>3, <4>1
    <3>4. CASE ~ (m + 1 \in F /\ v[m + 1] > v[i])
      <4>1. ASSUME NEW j \in F PROVE Better(v, i, j)
        <5>1. CASE j \in Rest
          BY <3>1, <5>1
        <5>2. CASE j = m + 1
          BY <3>2, <3>4, <5>2 DEF Better
        <5> QED
          BY <5>1, <5>2
      <4> QED
        BY <3>2, <4>1
    <3> QED
      BY <3>3, <3>4
  <2> QED
    BY <2>2, <2>3
<1> HIDE DEF P
<1>3. 0 \in T /\ \A m \in Nat : m \in T => m + 1 \in T
  BY <1>1, <1>2
<1>4. Nat \subseteq T
  <2> HIDE DEF T
  <2> QED
    BY <1>3, SetInduction
<1>5. P(n)
  BY <1>4
<1> QED
  BY <1>5 DEF P

-----------------------------------------------------------------------------
(* The machine and the model: numbers *)

\* The video memory that the selection compares with is a number: there is a best GPU
\* among the ones of the registry, or none at all.
LEMMA BestGpuTyped ==
    ASSUME NEW inv \in Inventories
    PROVE  best_gpu(detect(inv)).vram \in Nat
<1> DEFINE d == detect(inv).devices
           D == {VulkanDevice(x) : x \in Devices} \cup {DxgiDevice(x) : x \in Devices}
                \cup {CpuDevice(inv)}
<1>1. inv.vulkan \in Seq(Devices) /\ inv.dxgi \in Seq(Devices)
  BY SDKAssumption
<1>2. ASSUME NEW x \in D PROVE x.vram \in Nat
  <2>1. CpuDevice(inv).vram \in Nat
    BY DEF CpuDevice, NoDevice
  <2>2. ASSUME NEW y \in Devices PROVE VulkanDevice(y).vram \in Nat
    BY DEF Devices, VulkanDevice
  <2>3. ASSUME NEW y \in Devices PROVE DxgiDevice(y).vram \in Nat
    BY DEF Devices, DxgiDevice, NoDevice
  <2> QED
    BY <2>1, <2>2, <2>3
<1>3. Gpus(inv) \in Seq(D)
  <2> HIDE DEF D
  <2>1. ASSUME NEW q \in Seq(Devices), NEW i \in DOMAIN q
        PROVE  VulkanDevice(q[i]) \in D /\ DxgiDevice(q[i]) \in D
    BY DEF D
  <2> QED
    BY <1>1, <2>1 DEF Gpus
<1>4. d \in Seq(D)
  <2>1. CpuDevice(inv) \in D
    OBVIOUS
  <2> HIDE DEF D
  <2>2. <<CpuDevice(inv)>> \in Seq(D)
    BY <2>1
  <2>3. d = <<CpuDevice(inv)>> \o Gpus(inv)
    BY DEF detect
  <2> QED
    BY <1>3, <2>2, <2>3
<1>5. d \in [1..Len(d) -> D] /\ Len(d) \in Nat
  BY <1>4
<1> DEFINE gpus == {i \in DOMAIN d : IsGpu(d[i])}
           vram(i) == d[i].vram
           Best(i) == \A j \in gpus : vram(j) < vram(i) \/ (vram(j) = vram(i) /\ i <= j)
<1>6. CASE gpus = {}
  BY <1>6 DEF best_gpu, NoDevice
<1>7. CASE gpus # {}
  <2>1. \E i \in gpus : Best(i)
    <3> DEFINE v == [i \in DOMAIN d |-> d[i].vram]
    <3>1. gpus \in SUBSET (1..Len(d)) /\ \A i \in gpus : v[i] = vram(i) /\ vram(i) \in Nat
      BY <1>2, <1>5
    <3>2. PICK i \in gpus : \A j \in gpus : Better(v, i, j)
      <4> HIDE DEF gpus, v, vram
      <4>1. \A i \in gpus : v[i] \in Nat
        BY <3>1
      <4> HIDE DEF d
      <4> QED
        BY <1>5, <1>7, <3>1, <4>1, BestExists
    <3> HIDE DEF v, gpus
    <3> QED
      BY <3>1, <3>2 DEF Better
  <2> DEFINE best == CHOOSE i \in gpus : Best(i)
  <2>2. best \in gpus
    <3> HIDE DEF gpus, Best
    <3> QED
      BY <2>1
  <2>3. best_gpu(detect(inv)) = d[best]
    BY <1>7 DEF best_gpu
  <2> HIDE DEF best
  <2> QED
    BY <1>2, <1>5, <2>2, <2>3
<1> QED
  BY <1>6, <1>7

\* A loaded model has its numbers, stated or taken from the default model.
LEMMA LoadedTyped ==
    ASSUME NEW f \in ModelFiles
    PROVE  /\ Loaded(f).hp \in HyperParams /\ Loaded(f).ctx \in Nat /\ Loaded(f).bytes \in Nat
<1> DEFINE Stated(x, default) == IF x = 0 THEN default ELSE x
           hp == [d \in DOMAIN f.hp |-> Stated(f.hp[d], Defaults.hp[d])]
<1>1. /\ f.hp \in HyperParams /\ Defaults.hp \in HyperParams
      /\ f.ctx \in Nat /\ Defaults.ctx \in Nat /\ f.bytes \in Nat
  BY SDKAssumption
<1>2. hp \in HyperParams
  BY <1>1 DEF HyperParams
<1>3. Loaded(f).hp = hp
  BY SDKAssumption DEF Loaded
<1> HIDE DEF hp
<1>4. Loaded(f).ctx \in Nat /\ Loaded(f).bytes \in Nat
  BY SDKAssumption, <1>1 DEF Loaded
<1> QED BY <1>2, <1>3, <1>4

\* The estimate is a number for every model.
LEMMA EstimateTyped ==
    ASSUME NEW hp \in HyperParams, NEW ctx \in Nat
    PROVE  estimate(hp, ctx) \in Int
<1>1. CASE Degenerate(hp)
  BY <1>1 DEF estimate
<1>2. CASE ~ Degenerate(hp)
  <2>1. /\ hp.layers \in Nat /\ hp.embd \in Nat /\ hp.heads \in Nat \ {0} /\ hp.kv \in Nat
        /\ hp.ff \in Nat /\ hp.vocab \in Nat
    BY <1>2 DEF HyperParams, Degenerate
  <2>2. HeadDim(hp) \in Int
    BY <2>1 DEF HeadDim
  <2>3. LayerWeights(hp) \in Int
    BY <2>1, <2>2 DEF LayerWeights
  <2>4. WeightsBytes(hp) \in Int
    BY <2>1, <2>3 DEF WeightsBytes, FloatBytes
  <2>5. ASSUME NEW seq \in Nat
        PROVE  KvCacheBytes(hp, seq) \in Int /\ ActivationsBytes(hp, seq) \in Int
    BY <2>1, <2>2 DEF KvCacheBytes, ActivationsBytes, FloatBytes
  <2> QED
    BY <1>2, <2>4, <2>5 DEF estimate
<1> QED BY <1>1, <1>2

-----------------------------------------------------------------------------
(* The selection *)

\* Sequences of one and of two items.
LEMMA Pair ==
    ASSUME NEW a, NEW b
    PROVE  /\ \A i \in DOMAIN <<a>> : (<<a>>)[i] = a
           /\ Len(Append(<<a>>, b)) = 2
           /\ DOMAIN Append(<<a>>, b) = 1..2
           /\ Append(<<a>>, b)[1] = a
           /\ Append(<<a>>, b)[2] = b
<1>1. \A i \in DOMAIN <<a>> : (<<a>>)[i] = a
  OBVIOUS
<1>2. <<a>> \in Seq({a, b}) /\ Len(<<a>>) = 1 /\ (<<a>>)[1] = a
  OBVIOUS
<1>3. /\ Append(<<a>>, b) \in Seq({a, b}) /\ Len(Append(<<a>>, b)) = 2
      /\ Append(<<a>>, b)[1] = a /\ Append(<<a>>, b)[2] = b
  BY <1>2, AppendProperties
<1> QED
  BY <1>1, <1>3

\* The CPU backend is registered first, and no other than the Vulkan one after it.
LEMMA RegisteredBackends ==
    ASSUME NEW h
    PROVE  LET registered == register_default_backends(<<>>, h)
           IN  /\ 1 \in DOMAIN registered /\ registered[1] = CpuBackend
               /\ \A i \in DOMAIN registered \ {1} : registered[i] = VulkanBackendCaps
<1>1. register_backend(<<>>, CpuBackend) = <<CpuBackend>>
  BY DEF register_backend
<1>2. CpuBackend.id # VulkanBackendCaps.id
  BY DEF CpuBackend, VulkanBackendCaps, CPU, VK
<1>3. register_backend(<<CpuBackend>>, VulkanBackendCaps)
         = Append(<<CpuBackend>>, VulkanBackendCaps)
  <2>1. ~ \E i \in DOMAIN <<CpuBackend>> : (<<CpuBackend>>)[i].id = VulkanBackendCaps.id
    BY <1>2, Pair
  <2> QED
    BY <2>1 DEF register_backend
<1>4. CASE h.has_vulkan
  BY <1>1, <1>3, <1>4, Pair DEF register_default_backends
<1>5. CASE ~ h.has_vulkan
  BY <1>1, <1>5 DEF register_default_backends
<1> QED
  BY <1>4, <1>5

\* The selected engine: only a candidate for this machine and this model is Vulkan.
LEMMA VulkanIsCandidate ==
    ASSUME VK \in NewEngines
    PROVE  Candidate(VulkanBackendCaps, SelectionRequest, hw)
<1> DEFINE req == SelectionRequest
           registered == register_default_backends(<<>>, hw)
           Engine(sel, ready) == create_engine(sel, req, BuiltinFactories, ready)
           LastTry(sel, ready) ==
               IF Engine(sel, ready) = NoBackend /\ CPU \in ready THEN CPU
               ELSE Engine(sel, ready)
<1>1. PICK sel \in select_backend(req, hw, registered, history), ready \in SUBSET Backends :
         VK = LastTry(sel, ready)
  BY DEF NewEngines
<1>2. CPU # VK /\ NoBackend # VK
  BY DEF CPU, VK, NoBackend
<1> HIDE DEF req, registered
<1>3. sel.backend = VK
  BY <1>1, <1>2 DEF create_engine
<1>4. req.forced = ""
  BY DEF SelectionRequest, req
<1>6. CpuBackend.id = CPU /\ VulkanBackendCaps.vulkan /\ ~ CpuBackend.vulkan
      /\ VulkanBackendCaps.id = VK
  BY DEF CpuBackend, VulkanBackendCaps
<1>7. /\ 1 \in DOMAIN registered /\ registered[1] = CpuBackend
      /\ \A i \in DOMAIN registered \ {1} : registered[i] = VulkanBackendCaps
  BY RegisteredBackends DEF registered
<1>8. SelectFallback(req, registered).backend # VK
  <2> DEFINE host == {i \in DOMAIN registered : registered[i].id = CPU \/ ~ registered[i].vulkan}
  <2>1. host = {1}
    BY <1>2, <1>6, <1>7
  <2>2. (CHOOSE i \in host : \A j \in host : i <= j) = 1
    BY <2>1
  <2> QED
    BY <1>2, <1>6, <1>7, <2>2 DEF SelectFallback, Result
<1>9. PICK i \in BestCandidate(req, hw, registered, history) : sel.backend = registered[i].id
  <2> DEFINE best == BestCandidate(req, hw, registered, history)
  <2> HIDE DEF best
  <2>1. \/ sel \in {Result(registered[i].id, FALSE, Observed(registered[i], history)) : i \in best}
        \/ sel = SelectFallback(req, registered)
    BY <1>1, <1>4 DEF select_backend, best
  <2>2. sel # SelectFallback(req, registered)
    BY <1>3, <1>8
  <2>3. PICK i \in best : sel = Result(registered[i].id, FALSE, Observed(registered[i], history))
    BY <2>1, <2>2
  <2>4. sel.backend = registered[i].id
    BY <2>3 DEF Result
  <2> QED
    BY <2>4 DEF best
<1>10. i \in DOMAIN registered /\ Candidate(registered[i], req, hw)
  BY <1>9 DEF BestCandidate
<1> QED
  BY <1>2, <1>3, <1>6, <1>7, <1>9, <1>10 DEF req


-----------------------------------------------------------------------------
(* The engines of the sessions *)

\* The machine stays, and the model is the one of a file; there is one while a session
\* exists.
MachineOK == hw \in {detect(inv) : inv \in Inventories}
ModelOK == model = NoModel \/ model \in {Loaded(f) : f \in ModelFiles}
EnginesOK ==
    /\ backend = [s \in Sessions |-> backend[s]]
    /\ (\E s \in Sessions : backend[s] # NoBackend) => model # NoModel

\* What VulkanOnlyWhereItFits asks of the machine and the model.
FitsVulkan ==
    /\ hw.has_vulkan
    /\ model.quant \in VulkanQuants
    /\ \/ best_gpu(hw).vram = 0
       \/ estimate(model.hp, SelectionRequest.ctx) <= best_gpu(hw).vram

PlacementInv == MachineOK /\ ModelOK /\ EnginesOK /\ VulkanOnlyWhereItFits

\* An engine that is made now and runs on Vulkan fits the machine and the model of now.
LEMMA NewEnginesFit ==
    ASSUME MachineOK, ModelOK, model # NoModel, VK \in NewEngines
    PROVE  FitsVulkan
<1> DEFINE req == SelectionRequest
           vk == VulkanBackendCaps
<1>1. Candidate(vk, req, hw)
  BY VulkanIsCandidate
<1>2. vk.vulkan /\ vk.quants = VulkanQuants
  BY DEF VulkanBackendCaps
<1>3. req.quant = model.quant /\ req.hp = model.hp /\ req.bytes = model.bytes
  BY DEF SelectionRequest
<1>4. req.ctx \in Nat /\ model.hp \in HyperParams
  <2>1. PICK f \in ModelFiles : model = Loaded(f)
    BY DEF ModelOK
  <2>2. model.ctx \in Nat /\ model.hp \in HyperParams
    BY <2>1, LoadedTyped
  <2> QED
    BY <2>2 DEF SelectionRequest
<1>5. best_gpu(hw).vram \in Nat
  BY BestGpuTyped DEF MachineOK
<1>6. estimate(model.hp, req.ctx) \in Int
  BY <1>4, EstimateTyped
<1> HIDE DEF vk, req
<1>7. hw.has_vulkan
  BY <1>1, <1>2 DEF Candidate, is_available
<1>8. model.quant \in VulkanQuants
  BY <1>1, <1>2, <1>3, OrchestratorAssumption DEF Candidate, supports_quant
<1>9. memory_needed(req) > 0 => best_gpu(hw).vram = 0 \/ best_gpu(hw).vram >= memory_needed(req)
  BY <1>1, <1>2 DEF Candidate, FitsMemory
<1>10. best_gpu(hw).vram = 0 \/ estimate(model.hp, req.ctx) <= best_gpu(hw).vram
  <2>1. CASE model.hp.layers > 0 /\ model.hp.embd > 0 /\ model.hp.vocab > 0
    <3>1. memory_needed(req) = estimate(model.hp, req.ctx)
      BY <1>3, <2>1 DEF memory_needed
    <3> QED
      BY <1>5, <1>6, <1>9, <3>1
  <2>2. CASE ~ (model.hp.layers > 0 /\ model.hp.embd > 0 /\ model.hp.vocab > 0)
    <3>1. Degenerate(model.hp)
      BY <1>4, <2>2 DEF HyperParams, Degenerate
    <3>2. estimate(model.hp, req.ctx) = 0
      BY <3>1 DEF estimate
    <3> QED
      BY <1>5, <3>2
  <2> QED
    BY <2>1, <2>2
<1> QED
  BY <1>7, <1>8, <1>10 DEF FitsVulkan, req

LEMMA VulkanFits ==
    VulkanOnlyWhereItFits <=> \A s \in Sessions : backend[s] = VK => FitsVulkan
  BY DEF VulkanOnlyWhereItFits, FitsVulkan

LEMMA PlacementStep == PlacementInv /\ [Next]_vars => PlacementInv'
<1> SUFFICES ASSUME PlacementInv, [Next]_vars PROVE PlacementInv'
  OBVIOUS
<1> DEFINE Vulkan == \A s \in Sessions : backend[s] = VK => FitsVulkan
<1>1. /\ MachineOK /\ ModelOK /\ EnginesOK /\ Vulkan /\ VK # NoBackend
      /\ PlacementInv' <=> MachineOK' /\ ModelOK' /\ EnginesOK' /\ Vulkan'
  BY VulkanFits DEF PlacementInv, VK, NoBackend, VulkanOnlyWhereItFits, FitsVulkan
<1>2. CASE UNCHANGED <<hw, model, backend>>
  <2>1. FitsVulkan' <=> FitsVulkan
    BY <1>2 DEF FitsVulkan, SelectionRequest
  <2> QED
    BY <1>1, <1>2, <2>1 DEF MachineOK, ModelOK, EnginesOK
<1>3. ASSUME NEW f \in ModelFiles, ha_model_load(f) PROVE PlacementInv'
  <2>1. \A s \in Sessions : backend'[s] = NoBackend
    BY <1>1, <1>3 DEF ha_model_load, EnginesOK, sessionVars
  <2> QED
    BY <1>1, <1>3, <2>1 DEF ha_model_load, MachineOK, ModelOK, EnginesOK, sessionVars
<1>4. CASE ha_model_unload
  BY <1>1, <1>4 DEF ha_model_unload, MachineOK, ModelOK, EnginesOK, sessionVars
<1>5. ASSUME NEW s \in Sessions, ha_session_create(s) PROVE PlacementInv'
  <2>1. PICK b \in NewEngines : backend' = [backend EXCEPT ![s] = b]
    BY <1>5 DEF ha_session_create
  <2>2. model # NoModel /\ UNCHANGED <<hw, model>>
    BY <1>5 DEF ha_session_create
  <2>3. FitsVulkan' <=> FitsVulkan
    BY <2>2 DEF FitsVulkan, SelectionRequest
  <2>4. b = VK => FitsVulkan
    BY <1>1, <2>2, NewEnginesFit
  <2>5. Vulkan'
    BY <1>1, <2>1, <2>3, <2>4 DEF EnginesOK
  <2> QED
    BY <1>1, <2>1, <2>2, <2>5 DEF MachineOK, ModelOK, EnginesOK
<1>6. ASSUME NEW s \in Sessions, ha_session_destroy(s) PROVE PlacementInv'
  <2>1. FitsVulkan' <=> FitsVulkan
    BY <1>6 DEF ha_session_destroy, FitsVulkan, SelectionRequest
  <2> QED
    BY <1>1, <1>6, <2>1 DEF ha_session_destroy, MachineOK, ModelOK, EnginesOK
<1>7. CASE Restart
  BY <1>1, <1>7 DEF Restart, MachineOK, ModelOK, EnginesOK
<1>8. ASSUME NEW s \in Sessions, ha_session_cancel(s) PROVE PlacementInv'
  BY <1>2, <1>8 DEF ha_session_cancel
<1>9. ASSUME NEW t \in Threads, NEW s \in Sessions, NEW stream \in BOOLEAN,
             ha_infer(t, s, stream)
      PROVE  PlacementInv'
  BY <1>2, <1>9 DEF ha_infer, sessionVars
<1>10. CASE Save
  BY <1>2, <1>10 DEF Save, SaveOpen, SaveWrite, sessionVars
<1>11. ASSUME NEW t \in Threads, CallStep(t) \/ ha_runtime_perf_reset(t) PROVE PlacementInv'
  <2>1. UNCHANGED <<hw, model, backend>>
    BY <1>11 DEF CallStep, Enter, Stop, Sample, Callback, Return, RecordBegin, RecordEnd,
                 Copy, Saved, ResetDone, ha_runtime_perf_reset, sessionVars
  <2> QED
    BY <1>2, <2>1
<1>12. CASE UNCHANGED vars
  BY <1>2, <1>12 DEF vars
<1> QED
  BY <1>3, <1>4, <1>5, <1>6, <1>7, <1>8, <1>9, <1>10, <1>11, <1>12 DEF Next, Client

\* A session runs on Vulkan only where a device can compute, the model's type is
\* supported and the estimate of the model that is loaded now fits the device's memory,
\* whatever the orchestrator has learned, and whichever engines failed to initialize.
THEOREM VulkanWhereItFits == Spec => []VulkanOnlyWhereItFits
<1>1. Init => PlacementInv
  BY DEF Init, PlacementInv, MachineOK, ModelOK, EnginesOK, VulkanOnlyWhereItFits, VK, NoBackend
<1>2. PlacementInv => VulkanOnlyWhereItFits
  BY DEF PlacementInv
<1> QED
  BY <1>1, <1>2, PlacementStep, PTL DEF Spec

-----------------------------------------------------------------------------
(* Sums of measurements *)

\* f[k] is the sum of the first k numbers of g.
Totals(f, g, N) == f = [k \in 0..N |-> IF k = 0 THEN 0 ELSE f[k - 1] + g[k]]

\* There are sums.
LEMMA TotalsExist ==
    ASSUME NEW g, NEW N \in Nat
    PROVE  \E f : Totals(f, g, N)
<1> DEFINE T == {n \in Nat : \E f : Totals(f, g, n)}
<1>1. 0 \in T
  <2> DEFINE f == [k \in 0..0 |-> 0]
  <2>1. Totals(f, g, 0)
    <3>1. \A k \in 0..0 : k = 0
      OBVIOUS
    <3> QED
      BY <3>1 DEF Totals
  <2> QED
    BY <2>1
<1>2. ASSUME NEW n \in Nat, n \in T PROVE n + 1 \in T
  <2>1. PICK f : Totals(f, g, n)
    BY <1>2
  <2> DEFINE h == [k \in 0..n + 1 |-> IF k = n + 1 THEN f[n] + g[n + 1] ELSE f[k]]
  <2>2. ASSUME NEW k \in 0..n + 1
        PROVE  h[k] = IF k = 0 THEN 0 ELSE h[k - 1] + g[k]
    <3>1. CASE k = n + 1
      <4>1. k - 1 = n /\ n \in 0..n + 1 /\ n # n + 1 /\ k # 0
        BY <3>1
      <4>2. h[n] = f[n]
        BY <4>1
      <4> QED
        BY <3>1, <4>1, <4>2
    <3>2. CASE k # n + 1
      <4>1. k \in 0..n /\ (k # 0 => k - 1 \in 0..n + 1 /\ k - 1 # n + 1)
        BY <3>2
      <4>2. f[k] = IF k = 0 THEN 0 ELSE f[k - 1] + g[k]
        BY <2>1, <4>1 DEF Totals
      <4> QED
        BY <3>2, <4>1, <4>2
    <3> QED
      BY <3>1, <3>2
  <2>3. DOMAIN h = 0..n + 1 /\ h = [k \in 0..n + 1 |-> h[k]]
    OBVIOUS
  <2> HIDE DEF h
  <2>4. Totals(h, g, n + 1)
    BY <2>2, <2>3 DEF Totals
  <2> QED
    BY <2>4
<1> HIDE DEF T
<1>3. Nat \subseteq T
  BY <1>1, <1>2, SetInduction
<1> QED
  BY <1>3 DEF T

\* The sums are numbers.
LEMMA TotalsNat ==
    ASSUME NEW N \in Nat, NEW g \in [1..N -> Nat], NEW f, Totals(f, g, N)
    PROVE  \A k \in 0..N : f[k] \in Nat
<1> DEFINE T == {k \in Nat : k <= N => f[k] \in Nat}
<1>1. 0 \in T
  BY DEF Totals
<1>2. ASSUME NEW k \in Nat, k \in T PROVE k + 1 \in T
  <2>1. SUFFICES ASSUME k + 1 <= N PROVE f[k + 1] \in Nat
    OBVIOUS
  <2>2. f[k] \in Nat /\ k + 1 \in 0..N /\ k + 1 \in 1..N /\ k + 1 # 0 /\ (k + 1) - 1 = k
    BY <1>2, <2>1
  <2>3. f[k + 1] = f[k] + g[k + 1]
    BY <2>2 DEF Totals
  <2> QED
    BY <2>2, <2>3
<1> HIDE DEF T
<1>3. Nat \subseteq T
  BY <1>1, <1>2, SetInduction
<1> QED
  BY <1>3 DEF T

\* Sums agree as far as the numbers do.
LEMMA TotalsPrefix ==
    ASSUME NEW N \in Nat, NEW M \in Nat, N <= M, NEW f, NEW g, NEW u, NEW v,
           Totals(f, g, N), Totals(u, v, M), \A k \in 1..N : g[k] = v[k]
    PROVE  f[N] = u[N]
<1> DEFINE T == {k \in Nat : k <= N => f[k] = u[k]}
<1>1. 0 \in T
  BY DEF Totals
<1>2. ASSUME NEW k \in Nat, k \in T PROVE k + 1 \in T
  <2>1. SUFFICES ASSUME k + 1 <= N PROVE f[k + 1] = u[k + 1]
    OBVIOUS
  <2>2. f[k] = u[k] /\ k + 1 \in 0..N /\ k + 1 \in 0..M /\ k + 1 \in 1..N /\ k + 1 # 0
        /\ (k + 1) - 1 = k
    BY <1>2, <2>1
  <2>3. f[k + 1] = f[k] + g[k + 1] /\ u[k + 1] = u[k] + v[k + 1]
    BY <2>2 DEF Totals
  <2> QED
    BY <2>2, <2>3
<1> HIDE DEF T
<1>3. Nat \subseteq T
  BY <1>1, <1>2, SetInduction
<1> QED
  BY <1>3 DEF T

\* A number that is taken out is missing from the sum.
LEMMA TotalsWithout ==
    ASSUME NEW N \in Nat, NEW g \in [1..N -> Nat], NEW x \in 1..N, NEW f, NEW u,
           Totals(f, g, N), Totals(u, [g EXCEPT ![x] = 0], N)
    PROVE  f[N] = u[N] + g[x] /\ u[N] \in Nat
<1> DEFINE v == [g EXCEPT ![x] = 0]
           T == {k \in Nat : k <= N => f[k] = u[k] + (IF k >= x THEN g[x] ELSE 0)}
<1>0. v \in [1..N -> Nat] /\ g[x] \in Nat /\ \A k \in 1..N : v[k] = IF k = x THEN 0 ELSE g[k]
  OBVIOUS
<1>u. \A k \in 0..N : u[k] \in Nat
  <2> HIDE DEF v
  <2>1. Totals(u, v, N)
    BY DEF v
  <2> QED
    BY <1>0, <2>1, TotalsNat
<1>1. 0 \in T
  <2>1. f[0] = 0 /\ u[0] = 0 /\ ~ (0 >= x)
    BY DEF Totals
  <2> QED
    BY <2>1
<1>2. ASSUME NEW k \in Nat, k \in T PROVE k + 1 \in T
  <2>1. SUFFICES ASSUME k + 1 <= N
                 PROVE  f[k + 1] = u[k + 1] + (IF k + 1 >= x THEN g[x] ELSE 0)
    OBVIOUS
  <2>2. /\ f[k] = u[k] + (IF k >= x THEN g[x] ELSE 0)
        /\ k \in 0..N /\ k + 1 \in 0..N /\ k + 1 \in 1..N /\ k + 1 # 0 /\ (k + 1) - 1 = k
    BY <1>2, <2>1
  <2>3. f[k + 1] = f[k] + g[k + 1] /\ u[k + 1] = u[k] + v[k + 1]
    BY <2>2 DEF Totals
  <2>4. u[k] \in Nat /\ g[k + 1] \in Nat /\ g[x] \in Nat
    BY <1>0, <1>u, <2>2
  <2>5. v[k + 1] = IF k + 1 = x THEN 0 ELSE g[k + 1]
    BY <1>0, <2>2
  <2> HIDE DEF v, T
  <2>6. CASE k + 1 = x
    <3>1. ~ (k >= x) /\ k + 1 >= x
      BY <2>6
    <3> QED
      BY <2>2, <2>3, <2>4, <2>5, <2>6, <3>1
  <2>7. CASE k + 1 # x
    <3>1. k >= x <=> k + 1 >= x
      BY <2>7
    <3> QED
      BY <2>2, <2>3, <2>4, <2>5, <2>7, <3>1
  <2> QED
    BY <2>6, <2>7
<1> HIDE DEF T
<1>3. Nat \subseteq T
  BY <1>1, <1>2, SetInduction
<1>4. N \in T /\ N >= x /\ N \in 0..N
  BY <1>3
<1> QED
  BY <1>u, <1>4 DEF T

\* Sums of two numbers.
LEMMA SumsAtMost ==
    ASSUME NEW a \in Nat, NEW b \in Nat, NEW c \in Nat, NEW d \in Nat, a <= c, b <= d,
           NEW p, NEW q, p = a + b, q = c + d
    PROVE  p <= q
  OBVIOUS

\* The first m numbers of g are bounded by numbers of v, each by the one that e names.
Bounded(g, m, v, e) == \A i \in 1..m : g[i] <= v[e[i]]

\* Numbers that are bounded by different ones of others have no larger sum.
LEMMA TotalsInjected ==
    ASSUME NEW M \in Nat, NEW N \in Nat, NEW g \in [1..M -> Nat], NEW f, Totals(f, g, M),
           NEW e \in [1..M -> 1..N], \A i, j \in 1..M : e[i] = e[j] => i = j,
           NEW h \in [1..N -> Nat], NEW u, Totals(u, h, N), Bounded(g, M, h, e)
    PROVE  f[M] <= u[N]
<1> DEFINE P(m) == \A v \in [1..N -> Nat] : \A w :
                      Totals(w, v, N) /\ Bounded(g, m, v, e) => f[m] <= w[N]
           T == {m \in Nat : m <= M => P(m)}
<1> HIDE DEF P, T
<1>1. M \in Nat /\ g \in [1..M -> Nat] /\ Totals(f, g, M)
  OBVIOUS
<1>2. \A k \in 0..M : f[k] \in Nat
  BY ONLY <1>1, TotalsNat
<1>3. P(0)
  <2>1. SUFFICES ASSUME NEW v \in [1..N -> Nat], NEW w, Totals(w, v, N) PROVE f[0] <= w[N]
    BY DEF P
  <2>2. f[0] = 0
    BY <1>1 DEF Totals
  <2>3. N \in Nat /\ v \in [1..N -> Nat] /\ Totals(w, v, N)
    BY <2>1
  <2>4. \A k \in 0..N : w[k] \in Nat
    BY ONLY <2>3, TotalsNat
  <2>5. N \in 0..N
    OBVIOUS
  <2>6. w[N] \in Nat
    BY ONLY <2>4, <2>5
  <2> QED
    BY ONLY <2>2, <2>6
<1>4. ASSUME NEW m \in Nat, m \in T PROVE m + 1 \in T
  <2>1. SUFFICES ASSUME m + 1 <= M, NEW v \in [1..N -> Nat], NEW w, Totals(w, v, N),
                        Bounded(g, m + 1, v, e)
                 PROVE  f[m + 1] <= w[N]
    <3>1. m + 1 \in Nat
      OBVIOUS
    <3> QED
      BY <3>1 DEF P, T
  <2>2. P(m) /\ m \in 0..M /\ m + 1 \in 0..M /\ m + 1 \in 1..M /\ m + 1 # 0 /\ (m + 1) - 1 = m
    BY <1>4, <2>1 DEF T
  <2>3. PICK x \in 1..N : x = e[m + 1]
    BY <2>2
  <2>4. PICK z \in [1..N -> Nat] : z = [v EXCEPT ![x] = 0]
    OBVIOUS
  <2>5. v[x] \in Nat /\ g[m + 1] \in Nat /\ f[m] \in Nat
    BY <1>2, <2>2
  <2>6. PICK y : Totals(y, z, N)
    BY TotalsExist
  <2>7. N \in Nat /\ v \in [1..N -> Nat] /\ x \in 1..N /\ Totals(w, v, N)
        /\ Totals(y, [v EXCEPT ![x] = 0], N)
    BY <2>1, <2>4, <2>6
  <2>8. w[N] = y[N] + v[x] /\ y[N] \in Nat
    BY ONLY <2>7, TotalsWithout
  <2>9. Bounded(g, m, z, e)
    <3>1. SUFFICES ASSUME NEW i \in 1..m PROVE g[i] <= z[e[i]]
      BY DEF Bounded
    <3>2. i \in 1..M /\ i # m + 1 /\ i \in 1..m + 1
      BY <2>2
    <3>3. e[i] # x /\ e[i] \in 1..N
      BY <2>2, <2>3, <3>2
    <3>4. z[e[i]] = v[e[i]]
      BY <2>4, <3>3
    <3>5. g[i] <= v[e[i]]
      BY <2>1, <3>2 DEF Bounded
    <3> QED
      BY <3>4, <3>5
  <2>10. f[m] <= y[N]
    BY <2>2, <2>6, <2>9 DEF P
  <2>11. g[m + 1] <= v[x]
    <3>1. m + 1 \in 1..m + 1
      OBVIOUS
    <3> QED
      BY <2>1, <2>3, <3>1 DEF Bounded
  <2>12. f[m + 1] = f[m] + g[m + 1]
    BY ONLY <1>1, <2>2 DEF Totals
  <2> QED
    BY ONLY <2>5, <2>8, <2>10, <2>11, <2>12, SumsAtMost
<1>5. 0 \in T
  BY <1>3 DEF T
<1>6. Nat \subseteq T
  BY ONLY <1>4, <1>5, SetInduction
<1>7. P(M)
  BY <1>6 DEF T
<1> QED
  BY <1>7 DEF P

\* What record k of recs claims of b.
Claim(recs, b, k) == IF recs[k].backend = b THEN recs[k].n ELSE 0
Claims(recs, b) == [k \in 1..Len(recs) |-> Claim(recs, b, k)]

\* Records whose claims can be added.
Counted(recs) == Len(recs) \in Nat /\ \A k \in 1..Len(recs) : recs[k].n \in Nat

\* The claims of such records are numbers.
LEMMA ClaimsNat ==
    ASSUME NEW recs, NEW b, Counted(recs)
    PROVE  Claims(recs, b) \in [1..Len(recs) -> Nat]
<1>1. ASSUME NEW k \in 1..Len(recs) PROVE Claim(recs, b, k) \in Nat
  BY DEF Claim, Counted
<1> QED
  BY <1>1 DEF Claims

\* Samples is the sum of the claims.
LEMMA SamplesTotal ==
    ASSUME NEW recs, NEW b, Counted(recs)
    PROVE  \E f : Totals(f, Claims(recs, b), Len(recs)) /\ Samples(recs, b) = f[Len(recs)]
<1> DEFINE S(f) == f = [k \in 0..Len(recs) |-> IF k = 0 THEN 0 ELSE f[k - 1] + Claim(recs, b, k)]
           t == CHOOSE f : S(f)
<1>1. ASSUME NEW f PROVE S(f) <=> Totals(f, Claims(recs, b), Len(recs))
  <2>1. ASSUME NEW k \in 0..Len(recs), k # 0 PROVE Claims(recs, b)[k] = Claim(recs, b, k)
    <3>1. k \in 1..Len(recs)
      BY <2>1 DEF Counted
    <3> QED
      BY <3>1 DEF Claims
  <2> QED
    BY <2>1 DEF Totals
<1>2. \E f : Totals(f, Claims(recs, b), Len(recs))
  BY TotalsExist DEF Counted
<1>3. Samples(recs, b) = t[Len(recs)]
  BY DEF Samples, Claim
<1> HIDE DEF S
<1>4. S(t)
  BY <1>1, <1>2
<1> QED
  BY <1>1, <1>3, <1>4

\* So it is a number.
LEMMA SamplesNat ==
    ASSUME NEW recs, NEW b, Counted(recs)
    PROVE  Samples(recs, b) \in Nat
<1>1. PICK f : Totals(f, Claims(recs, b), Len(recs)) /\ Samples(recs, b) = f[Len(recs)]
  BY SamplesTotal
<1>2. Claims(recs, b) \in [1..Len(recs) -> Nat] /\ Len(recs) \in Nat
  BY ClaimsNat DEF Counted
<1>3. \A k \in 0..Len(recs) : f[k] \in Nat
  BY ONLY <1>1, <1>2, TotalsNat
<1>4. Len(recs) \in 0..Len(recs)
  BY <1>2
<1> QED
  BY ONLY <1>1, <1>3, <1>4

\* Every record is covered by an entry of L, and no two by the same.
Covered(recs, L, e) ==
    /\ e \in [1..Len(recs) -> 1..Len(L)]
    /\ \A i, j \in 1..Len(recs) : e[i] = e[j] => i = j
    /\ \A i \in 1..Len(recs) : recs[i].backend = L[e[i]].backend /\ recs[i].n <= L[e[i]].n

\* Covered records claim no more than what covers them.
LEMMA SamplesCovered ==
    ASSUME NEW recs, NEW L, NEW e, NEW b, Counted(recs), Counted(L), Covered(recs, L, e)
    PROVE  Samples(recs, b) <= Samples(L, b)
<1>1. PICK f : Totals(f, Claims(recs, b), Len(recs)) /\ Samples(recs, b) = f[Len(recs)]
  BY SamplesTotal
<1>2. PICK u : Totals(u, Claims(L, b), Len(L)) /\ Samples(L, b) = u[Len(L)]
  BY SamplesTotal
<1>3. /\ Claims(recs, b) \in [1..Len(recs) -> Nat] /\ Claims(L, b) \in [1..Len(L) -> Nat]
      /\ Len(recs) \in Nat /\ Len(L) \in Nat
  BY ClaimsNat DEF Counted
<1>4. Bounded(Claims(recs, b), Len(recs), Claims(L, b), e)
  <2>1. SUFFICES ASSUME NEW i \in 1..Len(recs) PROVE Claims(recs, b)[i] <= Claims(L, b)[e[i]]
    BY DEF Bounded
  <2>2. e[i] \in 1..Len(L) /\ recs[i].backend = L[e[i]].backend /\ recs[i].n <= L[e[i]].n
    BY DEF Covered
  <2>3. Claims(recs, b)[i] = Claim(recs, b, i) /\ Claims(L, b)[e[i]] = Claim(L, b, e[i])
    BY <2>2 DEF Claims
  <2> QED
    BY <2>2, <2>3 DEF Claim
<1>5. e \in [1..Len(recs) -> 1..Len(L)] /\ \A i, j \in 1..Len(recs) : e[i] = e[j] => i = j
  BY DEF Covered
<1>6. f[Len(recs)] <= u[Len(L)]
  BY ONLY <1>1, <1>2, <1>3, <1>4, <1>5, TotalsInjected
<1> QED
  BY ONLY <1>1, <1>2, <1>6

\* One measurement more of a record.
LEMMA SamplesRaised ==
    ASSUME NEW L, NEW M, NEW x \in 1..Len(L), NEW b, Counted(L), Counted(M), Len(M) = Len(L),
           \A k \in 1..Len(L) : M[k].backend = L[k].backend,
           \A k \in 1..Len(L) : M[k].n = L[k].n + (IF k = x THEN 1 ELSE 0)
    PROVE  Samples(M, b) = Samples(L, b) + (IF L[x].backend = b THEN 1 ELSE 0)
<1>1. PICK f : Totals(f, Claims(M, b), Len(L)) /\ Samples(M, b) = f[Len(L)]
  BY SamplesTotal
<1>2. PICK u : Totals(u, Claims(L, b), Len(L)) /\ Samples(L, b) = u[Len(L)]
  BY SamplesTotal
<1>3. /\ Claims(M, b) \in [1..Len(L) -> Nat] /\ Claims(L, b) \in [1..Len(L) -> Nat]
      /\ Len(L) \in Nat /\ x \in 1..Len(L)
  BY ClaimsNat DEF Counted
<1>4. PICK g : g = [Claims(L, b) EXCEPT ![x] = 0]
  OBVIOUS
<1>5. g = [Claims(M, b) EXCEPT ![x] = 0]
  <2>1. ASSUME NEW k \in 1..Len(L) PROVE g[k] = IF k = x THEN 0 ELSE Claims(M, b)[k]
    <3>1. k # x => L[k].n = M[k].n
      BY DEF Counted
    <3> QED
      BY <1>3, <1>4, <3>1 DEF Claims, Claim
  <2>2. DOMAIN g = 1..Len(L) /\ g = [k \in 1..Len(L) |-> g[k]]
    BY <1>3, <1>4
  <2> QED
    BY <1>3, <2>1, <2>2
<1>6. PICK v : Totals(v, g, Len(L))
  BY <1>3, TotalsExist
<1>7. Totals(v, [Claims(L, b) EXCEPT ![x] = 0], Len(L)) /\ Totals(v, [Claims(M, b) EXCEPT ![x] = 0], Len(L))
  BY <1>4, <1>5, <1>6
<1>8. u[Len(L)] = v[Len(L)] + Claims(L, b)[x] /\ v[Len(L)] \in Nat
  <2> DEFINE N == Len(L)
             A == Claims(L, b)
  <2>1. N \in Nat /\ A \in [1..N -> Nat] /\ x \in 1..N
        /\ Totals(u, A, N) /\ Totals(v, [A EXCEPT ![x] = 0], N)
    BY <1>2, <1>3, <1>7
  <2> HIDE DEF N, A
  <2>2. u[N] = v[N] + A[x] /\ v[N] \in Nat
    BY ONLY <2>1, TotalsWithout
  <2> QED
    BY <2>2 DEF N, A
<1>9. f[Len(L)] = v[Len(L)] + Claims(M, b)[x]
  <2> DEFINE N == Len(L)
             A == Claims(M, b)
  <2>1. N \in Nat /\ A \in [1..N -> Nat] /\ x \in 1..N
        /\ Totals(f, A, N) /\ Totals(v, [A EXCEPT ![x] = 0], N)
    BY <1>1, <1>3, <1>7
  <2> HIDE DEF N, A
  <2>2. f[N] = v[N] + A[x] /\ v[N] \in Nat
    BY ONLY <2>1, TotalsWithout
  <2> QED
    BY <2>2 DEF N, A
<1>10. Claims(L, b)[x] = Claim(L, b, x) /\ Claims(M, b)[x] = Claim(M, b, x) /\ L[x].n \in Nat
  BY <1>3 DEF Claims, Counted
<1>11. Claim(M, b, x) = Claim(L, b, x) + (IF L[x].backend = b THEN 1 ELSE 0) /\ Claim(L, b, x) \in Nat
  BY <1>10 DEF Claim
<1> QED
  BY ONLY <1>1, <1>2, <1>8, <1>9, <1>10, <1>11

\* One record more.
LEMMA SamplesAppended ==
    ASSUME NEW L, NEW M, NEW b, Counted(L), Counted(M), Len(M) = Len(L) + 1,
           \A k \in 1..Len(L) : M[k] = L[k]
    PROVE  Samples(M, b) = Samples(L, b) + Claim(M, b, Len(L) + 1)
<1>1. PICK f : Totals(f, Claims(M, b), Len(L) + 1) /\ Samples(M, b) = f[Len(L) + 1]
  BY SamplesTotal
<1>2. PICK u : Totals(u, Claims(L, b), Len(L)) /\ Samples(L, b) = u[Len(L)]
  BY SamplesTotal
<1>3. Len(L) \in Nat /\ Len(L) + 1 \in Nat /\ Len(L) <= Len(L) + 1
  BY DEF Counted
<1>4. ASSUME NEW k \in 1..Len(L) PROVE Claims(L, b)[k] = Claims(M, b)[k]
  <2>1. k \in 1..Len(M) /\ M[k] = L[k]
    BY <1>3
  <2> QED
    BY <2>1 DEF Claims, Claim
<1>5. u[Len(L)] = f[Len(L)]
  <2> DEFINE N == Len(L)
             A == Claims(L, b)
             C == Claims(M, b)
  <2>1. N \in Nat /\ N + 1 \in Nat /\ N <= N + 1 /\ Totals(u, A, N) /\ Totals(f, C, N + 1)
        /\ \A k \in 1..N : A[k] = C[k]
    BY <1>1, <1>2, <1>3, <1>4
  <2> HIDE DEF N, A, C
  <2>2. u[N] = f[N]
    BY ONLY <2>1, TotalsPrefix
  <2> QED
    BY <2>2 DEF N
<1>6. f[Len(L) + 1] = f[Len(L)] + Claims(M, b)[Len(L) + 1]
  <2>1. Len(L) + 1 \in 0..Len(L) + 1 /\ Len(L) + 1 # 0 /\ (Len(L) + 1) - 1 = Len(L)
    BY <1>3
  <2> QED
    BY ONLY <1>1, <2>1 DEF Totals
<1>7. Claims(M, b)[Len(L) + 1] = Claim(M, b, Len(L) + 1)
  BY <1>3 DEF Claims
<1> QED
  BY ONLY <1>1, <1>2, <1>5, <1>6, <1>7

-----------------------------------------------------------------------------
(* Records and lines *)

Hashes == STRING \cup {None, "none"}
Records == [backend : Backends, hash : Hashes, tps : Int, n : Nat]

\* A line of the file has a hash.
LinesOfFile == {r \in Records : r.hash # ""}

\* The claims of records can be added.
LEMMA RecordsCounted ==
    ASSUME NEW recs \in Seq(Records)
    PROVE  Counted(recs)
<1>1. Len(recs) \in Nat /\ \A k \in 1..Len(recs) : recs[k] \in Records
  BY ElementOfSeq, LenProperties
<1> QED
  BY <1>1 DEF Counted, Records

\* A file that was saved is loaded as it is.
LEMMA LoadKeeps ==
    ASSUME NEW lines \in Seq(LinesOfFile)
    PROVE  load(lines) = lines
<1> DEFINE N == Len(lines)
           Kept(f) == f = [k \in 0..N |-> IF k = 0 THEN <<>>
                ELSE IF lines[k].backend # "" /\ lines[k].hash # "" THEN Append(f[k - 1], lines[k])
                ELSE f[k - 1]]
           t == CHOOSE f : Kept(f)
<1>1. N \in Nat
  BY LenProperties
<1>2. ASSUME NEW k \in 1..N
      PROVE  /\ lines[k].backend # "" /\ lines[k].hash # ""
             /\ SubSeq(lines, 1, k) = Append(SubSeq(lines, 1, k - 1), lines[k])
  <2>1. lines[k] \in LinesOfFile
    BY ElementOfSeq
  <2>2. lines[k].backend # "" /\ lines[k].hash # ""
    BY <2>1 DEF LinesOfFile, Records, Backends, CPU, VK
  <2>3. 1 \in 1..N /\ k \in 1..N /\ k - 1 \in Int
    BY <1>1
  <2>4. SubSeq(lines, 1, k) = SubSeq(lines, 1, k - 1) \o <<lines[k]>>
    BY <1>1, <2>3, SubSeqRecursiveSecond
  <2>5. \A i \in 1..(k - 1) : lines[i] \in LinesOfFile
    BY <1>1, ElementOfSeq
  <2>6. SubSeq(lines, 1, k - 1) \in Seq(LinesOfFile)
    BY <2>3, <2>5, SubSeqProperties
  <2>7. Append(SubSeq(lines, 1, k - 1), lines[k]) = SubSeq(lines, 1, k - 1) \o <<lines[k]>>
    BY <2>1, <2>6, AppendIsConcat
  <2> QED
    BY <2>2, <2>4, <2>7
<1>3. SubSeq(lines, 1, 0) = <<>>
  BY SubSeqEmpty
<1>4. \E f : Kept(f)
  <2> DEFINE f == [k \in 0..N |-> SubSeq(lines, 1, k)]
  <2>1. ASSUME NEW k \in 0..N
        PROVE  f[k] = IF k = 0 THEN <<>>
                      ELSE IF lines[k].backend # "" /\ lines[k].hash # "" THEN Append(f[k - 1], lines[k])
                      ELSE f[k - 1]
    <3>1. CASE k = 0
      BY <1>3, <3>1
    <3>2. CASE k # 0
      <4>1. k \in 1..N /\ k - 1 \in 0..N
        BY <1>1, <3>2
      <4>2. f[k] = SubSeq(lines, 1, k) /\ f[k - 1] = SubSeq(lines, 1, k - 1)
        BY <4>1
      <4> HIDE DEF f, N
      <4> QED
        BY <1>2, <3>2, <4>1, <4>2
    <3> QED
      BY <3>1, <3>2
  <2>2. f = [k \in 0..N |-> f[k]]
    OBVIOUS
  <2> HIDE DEF f
  <2>3. Kept(f)
    BY <2>1, <2>2
  <2> QED
    BY <2>3
<1>5. load(lines) = t[N]
  BY DEF load
<1>6. Kept(t)
  BY <1>4
<1> DEFINE T == {k \in Nat : k <= N => t[k] = SubSeq(lines, 1, k)}
<1> HIDE DEF t, T
<1>7. 0 \in T
  <2>1. 0 \in 0..N
    BY <1>1
  <2> HIDE DEF N
  <2>2. t[0] = <<>>
    BY <1>6, <2>1
  <2> QED
    BY <1>3, <2>2 DEF T
<1>8. ASSUME NEW k \in Nat, k \in T PROVE k + 1 \in T
  <2>1. SUFFICES ASSUME k + 1 <= N PROVE t[k + 1] = SubSeq(lines, 1, k + 1)
    BY DEF T
  <2>2. t[k] = SubSeq(lines, 1, k) /\ k + 1 \in 0..N /\ k + 1 \in 1..N /\ k + 1 # 0
        /\ (k + 1) - 1 = k
    BY <1>1, <1>8, <2>1 DEF T
  <2> HIDE DEF N
  <2>3. t[k + 1] = IF lines[k + 1].backend # "" /\ lines[k + 1].hash # "" THEN Append(t[k], lines[k + 1])
                   ELSE t[k]
    BY <1>6, <2>2
  <2> QED
    BY <1>2, <2>2, <2>3
<1>9. Nat \subseteq T
  BY <1>7, <1>8, SetInduction
<1>10. SubSeq(lines, 1, N) = lines
  BY SubSeqFull
<1> HIDE DEF N
<1> QED
  BY <1>1, <1>5, <1>9, <1>10 DEF T

\* A measurement goes to at most one record, and one of its backend.
LEMMA MatchesOne ==
    ASSUME NEW recs \in Seq(Records), NEW id, NEW hash
    PROVE  /\ Matches(recs, id, hash) \subseteq 1..Len(recs)
           /\ \A i, j \in Matches(recs, id, hash) : i = j
           /\ \A i \in Matches(recs, id, hash) : recs[i].backend = id
<1>1. DOMAIN recs = 1..Len(recs) /\ Len(recs) \in Nat
  BY LenProperties
<1>2. Matches(recs, id, hash) \subseteq 1..Len(recs)
  BY <1>1 DEF Matches
<1>3. ASSUME NEW i \in Matches(recs, id, hash), NEW j \in Matches(recs, id, hash) PROVE i = j
  <2>1. i \in 1..Len(recs) /\ j \in 1..Len(recs)
    BY <1>2
  <2>2. /\ SameKey(recs[i], id, hash) /\ SameKey(recs[j], id, hash)
        /\ \A k \in 1..(i - 1) : ~ SameKey(recs[k], id, hash)
        /\ \A k \in 1..(j - 1) : ~ SameKey(recs[k], id, hash)
    BY DEF Matches
  <2>3. ~ (i < j)
    BY <1>1, <2>1, <2>2
  <2>4. ~ (j < i)
    BY <1>1, <2>1, <2>2
  <2> QED
    BY <1>1, <2>1, <2>3, <2>4
<1>4. \A i \in Matches(recs, id, hash) : recs[i].backend = id
  BY DEF Matches, SameKey
<1> QED
  BY <1>2, <1>3, <1>4

\* What record makes of a profile: nothing, a record more, or one measurement more.
LEMMA RecordShape ==
    ASSUME NEW recs \in Seq(Records), NEW id \in Backends, NEW hash \in Hashes, NEW speed \in Nat,
           NEW new, new = record(recs, id, hash, speed)
    PROVE  /\ new \in Seq(Records)
           /\ \/ new = recs
              \/ /\ Matches(recs, id, hash) = {} /\ Len(new) = Len(recs) + 1
                 /\ \A j \in 1..Len(recs) : new[j] = recs[j]
                 /\ new[Len(recs) + 1].backend = id /\ new[Len(recs) + 1].n = 1
              \/ \E k \in Matches(recs, id, hash) :
                    /\ Len(new) = Len(recs)
                    /\ \A j \in 1..Len(recs) :
                          new[j].backend = recs[j].backend
                          /\ new[j].n = recs[j].n + (IF j = k THEN 1 ELSE 0)
<1>1. DOMAIN recs = 1..Len(recs) /\ Len(recs) \in Nat /\ \A j \in 1..Len(recs) : recs[j] \in Records
  BY LenProperties, ElementOfSeq
<1>2. CASE id = "" \/ speed <= 0
  BY <1>2 DEF record
<1>3. CASE ~ (id = "" \/ speed <= 0) /\ Matches(recs, id, hash) = {}
  <2> DEFINE r == [backend |-> id, hash |-> hash, tps |-> speed, n |-> 1]
  <2>1. new = Append(recs, r)
    BY <1>3 DEF record
  <2>2. r \in Records /\ r.backend = id /\ r.n = 1
    BY DEF Records
  <2> HIDE DEF r
  <2>3. /\ new \in Seq(Records) /\ Len(new) = Len(recs) + 1
        /\ \A j \in 1..Len(recs) : new[j] = recs[j]
        /\ new[Len(recs) + 1] = r
    BY <2>1, <2>2, AppendProperties
  <2> QED
    BY <1>3, <2>2, <2>3
<1>4. CASE ~ (id = "" \/ speed <= 0) /\ Matches(recs, id, hash) # {}
  <2> DEFINE k == CHOOSE i \in Matches(recs, id, hash) : TRUE
             r == recs[k]
             s == [r EXCEPT !.n = r.n + 1, !.tps = (r.tps * r.n + speed) \div (r.n + 1)]
  <2>1. k \in Matches(recs, id, hash)
    BY <1>4
  <2>2. k \in 1..Len(recs)
    BY <2>1, MatchesOne
  <2>3. new = [recs EXCEPT ![k] = s]
    BY <1>4 DEF record
  <2> HIDE DEF k
  <2>4. r \in Records
    BY <1>1, <2>2
  <2>5. (r.tps * r.n + speed) \div (r.n + 1) \in Int
    <3>1. r.tps \in Int /\ r.n \in Nat
      BY <2>4 DEF Records
    <3> HIDE DEF r
    <3>2. r.tps * r.n + speed \in Int /\ r.n + 1 \in Nat \ {0}
      BY <3>1
    <3> QED
      BY <3>2
  <2>6. s \in Records /\ s.backend = r.backend /\ s.n = r.n + 1 /\ r.n \in Nat
    <3> HIDE DEF r
    <3>1. PICK v \in Int : v = (r.tps * r.n + speed) \div (r.n + 1)
      BY <2>5
    <3>2. s = [r EXCEPT !.n = r.n + 1, !.tps = v]
      BY <3>1
    <3> HIDE DEF s
    <3>3. r.n + 1 \in Nat /\ r.n \in Nat /\ v \in Int
      BY <2>4 DEF Records
    <3>4. PICK m \in Nat : m = r.n + 1
      BY <3>3
    <3>5. s = [r EXCEPT !.n = m, !.tps = v]
      BY <3>2, <3>4
    <3>6. s \in Records /\ s.backend = r.backend /\ s.n = m
      BY ONLY <2>4, <3>5, m \in Nat, v \in Int DEF Records
    <3> QED
      BY <3>3, <3>4, <3>6
  <2> HIDE DEF s
  <2>7. /\ new \in Seq(Records) /\ Len(new) = Len(recs)
        /\ \A j \in 1..Len(recs) : new[j] = IF j = k THEN s ELSE recs[j]
    BY <2>2, <2>3, <2>6, ExceptSeq
  <2>8. \A j \in 1..Len(recs) : recs[j].n \in Nat
    BY <1>1 DEF Records
  <2> QED
    BY <2>1, <2>2, <2>6, <2>7, <2>8
<1> QED
  BY <1>2, <1>3, <1>4

\* The lines that are saved claim what the records claim.
LEMMA LinesShape ==
    ASSUME NEW recs \in Seq(Records)
    PROVE  /\ Lines(recs) \in Seq(LinesOfFile) /\ Len(Lines(recs)) = Len(recs)
           /\ \A i \in 1..Len(recs) : Lines(recs)[i].backend = recs[i].backend
                                      /\ Lines(recs)[i].n = recs[i].n
<1>1. DOMAIN recs = 1..Len(recs) /\ Len(recs) \in Nat /\ \A i \in 1..Len(recs) : recs[i] \in Records
  BY LenProperties, ElementOfSeq
<1>2. ASSUME NEW r \in Records
      PROVE  SavedLine(r) \in LinesOfFile /\ SavedLine(r).backend = r.backend /\ SavedLine(r).n = r.n
  <2>1. r.tps \in Int /\ (r.tps + 5) \div 10 \in Int /\ ((r.tps + 5) \div 10) * 10 \in Int
    BY DEF Records
  <2>2. "none" \in Hashes
    BY DEF Hashes
  <2>3. r.hash \in Hashes
    BY DEF Records
  <2> QED
    <3>1. PICK v \in Int : v = ((r.tps + 5) \div 10) * 10
      BY <2>1
    <3>2. PICK h \in Hashes : h # "" /\ h = IF r.hash = "" THEN "none" ELSE r.hash
      BY <2>2, <2>3
    <3>3. SavedLine(r) = [r EXCEPT !.tps = v, !.hash = h]
      BY <3>1, <3>2 DEF SavedLine
    <3>4. SavedLine(r) \in Records /\ SavedLine(r).hash = h /\ SavedLine(r).backend = r.backend
          /\ SavedLine(r).n = r.n
      BY ONLY <3>3, r \in Records, h \in Hashes, v \in Int DEF Records
    <3> QED
      BY <3>2, <3>4 DEF LinesOfFile
<1>3. Lines(recs) = [i \in 1..Len(recs) |-> SavedLine(recs[i])]
  BY <1>1 DEF Lines
<1>4. Lines(recs) \in [1..Len(recs) -> LinesOfFile]
  BY <1>1, <1>2, <1>3
<1>5. Lines(recs) \in Seq(LinesOfFile)
  BY <1>1, <1>4, SeqDef
<1>6. DOMAIN Lines(recs) = 1..Len(recs) /\ DOMAIN Lines(recs) = 1..Len(Lines(recs)) /\ Len(Lines(recs)) \in Nat
  BY <1>4, <1>5, LenProperties
<1>7. Len(Lines(recs)) = Len(recs)
  BY <1>1, <1>6
<1> QED
  BY <1>1, <1>2, <1>3, <1>5, <1>7

\* What a save leaves of the old lines lies behind the new ones, and has not moved back.
LEMMA OverwriteShape ==
    ASSUME NEW new \in Seq(LinesOfFile), NEW old \in Seq(LinesOfFile), NEW lines \in Overwrites(new, old)
    PROVE  /\ lines \in Seq(LinesOfFile)
           /\ \E k \in Nat :
                /\ k >= Len(new)
                /\ \A p \in 1..Len(lines) :
                      \/ p <= Len(new) /\ lines[p] = new[p]
                      \/ /\ p > Len(new) /\ p - Len(new) + k \in 1..Len(old)
                         /\ lines[p] = old[p - Len(new) + k]
<1>1. Len(new) \in Nat /\ Len(old) \in Nat
  BY LenProperties
<1>2. PICK k \in IF new = <<>> THEN {0} ELSE {Len(new), Len(new) + 1} :
         lines = new \o SubSeq(old, k + 1, Len(old))
  BY DEF Overwrites
<1>3. k \in Nat /\ k >= Len(new)
  BY <1>1, <1>2, EmptySeq
<1> DEFINE tail == SubSeq(old, k + 1, Len(old))
<1>4. \A i \in (k + 1)..Len(old) : old[i] \in LinesOfFile
  BY <1>1, <1>3, ElementOfSeq
<1>5. /\ tail \in Seq(LinesOfFile)
      /\ Len(tail) = IF k + 1 <= Len(old) THEN Len(old) - (k + 1) + 1 ELSE 0
      /\ \A i \in 1..(Len(old) - (k + 1) + 1) : tail[i] = old[(k + 1) + i - 1]
  <2>1. k + 1 \in Int /\ Len(old) \in Int
    BY <1>1, <1>3
  <2> QED
    BY <1>4, <2>1, SubSeqProperties
<1> HIDE DEF tail
<1>6. /\ lines \in Seq(LinesOfFile) /\ Len(lines) = Len(new) + Len(tail)
      /\ \A i \in 1..Len(new) + Len(tail) :
            lines[i] = IF i <= Len(new) THEN new[i] ELSE tail[i - Len(new)]
  BY <1>2, <1>5, ConcatProperties DEF tail
<1>7. ASSUME NEW p \in 1..Len(lines), ~ (p <= Len(new))
      PROVE  /\ p > Len(new) /\ p - Len(new) + k \in 1..Len(old)
             /\ lines[p] = old[p - Len(new) + k]
  <2>1. p - Len(new) \in 1..Len(tail) /\ Len(tail) = Len(old) - k /\ p > Len(new)
        /\ p \in 1..Len(new) + Len(tail)
    BY <1>1, <1>3, <1>5, <1>6, <1>7
  <2>2. lines[p] = tail[p - Len(new)]
    BY <1>6, <1>7, <2>1
  <2>3. p - Len(new) \in 1..(Len(old) - (k + 1) + 1) /\ (k + 1) + (p - Len(new)) - 1 = p - Len(new) + k
    BY <1>1, <1>3, <2>1
  <2>4. tail[p - Len(new)] = old[p - Len(new) + k]
    BY <1>5, <2>3
  <2>5. p - Len(new) + k \in 1..Len(old)
    BY <1>1, <1>3, <2>1
  <2> QED
    BY <2>1, <2>2, <2>4, <2>5
<1> QED
  BY <1>3, <1>6, <1>7

-----------------------------------------------------------------------------
(* The ledger *)

Caps == [backend : Backends, n : Nat]

\* Record i of recs claims no more than entry o + i of L.
Within(recs, L, o) ==
    \A i \in 1..Len(recs) :
        /\ o + i \in 1..Len(L)
        /\ recs[i].backend = L[o + i].backend /\ recs[i].n <= L[o + i].n

\* No era begins between o and o + q.
OneEra(o, q, E) == \A e \in E : e <= o \/ o + q <= e

\* The measurement that thread t makes is of this backend, and goes to this record.
BackendOf(t) == backend[SessionOf(t)]
RecordOf(t) == Matches(profile, BackendOf(t), model.hash)

\* An era begins with a process or with a reset. The ledger L has an entry for every
\* record of every era of this process, with the measurements that may be claimed for it;
\* E are the places after which the eras begin, now is the last of them.
LedgerOK(L, E, now) ==
    /\ L \in Seq(Caps) /\ E \subseteq Nat /\ now \in E /\ \A e \in E : e <= now
    /\ Len(L) = now + Len(profile)
    /\ Within(profile, L, now)
    /\ \A b \in Backends : Samples(L, b) <= measured[b]

\* A measurement that is being recorded may be claimed for its record, or is not in the ledger.
RecordingOK(L, now) ==
    \A t \in Threads : pc[t] = "recording" =>
        /\ \A k \in RecordOf(t) : profile[k].n + 1 <= L[now + k].n
        /\ RecordOf(t) = {} => Samples(L, BackendOf(t)) + 1 <= measured[BackendOf(t)]

\* A save writes what was the profile of one era.
WritersOK(L, E) ==
    \A w \in writers : \E o \in E : Within(w.data, L, o) /\ OneEra(o, Len(w.data), E)

\* Line p of the file is of a record of its own, which was at this place of its era or behind it.
FileOK(L, E, era, place) ==
    /\ era \in [1..Len(file) -> E] /\ place \in [1..Len(file) -> Nat]
    /\ \A p \in 1..Len(file) :
          /\ place[p] >= p /\ OneEra(era[p], place[p], E)
          /\ era[p] + place[p] \in 1..Len(L)
          /\ file[p].backend = L[era[p] + place[p]].backend
          /\ file[p].n <= L[era[p] + place[p]].n
    /\ \A p, r \in 1..Len(file) : era[p] + place[p] = era[r] + place[r] => p = r

Accounted(L, E, now) ==
    /\ LedgerOK(L, E, now) /\ RecordingOK(L, now) /\ WritersOK(L, E)
    /\ \E era, place : FileOK(L, E, era, place)

Saves == [who : Threads \cup {None}, data : Seq(LinesOfFile), open : BOOLEAN]

ProfileTypes ==
    /\ profile \in Seq(Records) /\ file \in Seq(LinesOfFile) /\ writers \subseteq Saves
    /\ measured \in [Backends -> Nat]
    /\ backend \in [Sessions -> Backends \cup {NoBackend}]

\* Whoever changes the profile holds the mutex.
LockOK == \A t \in Threads : pc[t] \in {"recording", "resetting"} => perfLock = t

ProfileInv == ProfileTypes /\ LockOK /\ \E L, E, now : Accounted(L, E, now)

\* What the steps may use.
Known == IInv /\ PlacementInv /\ ProfileInv

\* The claims that a ledger allows can be added.
LEMMA CapsCounted ==
    ASSUME NEW L \in Seq(Caps)
    PROVE  Counted(L)
<1>1. Len(L) \in Nat /\ \A k \in 1..Len(L) : L[k] \in Caps
  BY ElementOfSeq, LenProperties
<1> QED
  BY <1>1 DEF Counted, Caps

\* A thread that records does so for an engine and a model that are there.
LEMMA RecorderTyped ==
    ASSUME Known, NEW t \in Threads, pc[t] \notin Outside
    PROVE  BackendOf(t) \in Backends /\ model.hash \in Hashes /\ model # NoModel
           /\ SessionOf(t) \in Sessions
<1>1. SessionOf(t) \in Sessions /\ backend[SessionOf(t)] # NoBackend
  BY DEF Known, IInv, ThreadOK, InUse
<1>2. BackendOf(t) \in Backends
  BY <1>1 DEF Known, ProfileInv, ProfileTypes, BackendOf
<1>3. model # NoModel
  BY <1>1 DEF Known, PlacementInv, EnginesOK
<1>4. PICK f \in ModelFiles : model = Loaded(f)
  BY <1>3 DEF Known, PlacementInv, ModelOK
<1>5. model.hash = f.hash
  BY <1>4, SDKAssumption DEF Loaded
<1>6. f.hash \in STRING
  BY SDKAssumption
<1> QED
  BY <1>1, <1>2, <1>3, <1>5, <1>6 DEF Hashes

\* A step that touches neither the profile nor its file, and after which no thread
\* records that did not, keeps the ledger.
LEMMA QuietStep ==
    ASSUME Known, ProfileTypes', LockOK',
           UNCHANGED <<profile, file, writers, measured>>,
           \A t \in Threads : pc'[t] = "recording" =>
              pc[t] = "recording" /\ BackendOf(t)' = BackendOf(t) /\ model'.hash = model.hash
    PROVE  ProfileInv'
<1>1. PICK L, E, now : Accounted(L, E, now)
  BY DEF Known, ProfileInv
<1>2. LedgerOK(L, E, now)'
  BY <1>1 DEF Accounted, LedgerOK, Within
<1>3. RecordingOK(L, now)'
  <2>1. ASSUME NEW t \in Threads, pc'[t] = "recording"
        PROVE  pc[t] = "recording" /\ RecordOf(t)' = RecordOf(t) /\ BackendOf(t)' = BackendOf(t)
    BY <2>1 DEF RecordOf
  <2> QED
    BY <1>1, <2>1 DEF Accounted, RecordingOK
<1>4. WritersOK(L, E)'
  BY <1>1 DEF Accounted, WritersOK, Within
<1>5. PICK era, place : FileOK(L, E, era, place)
  BY <1>1 DEF Accounted
<1>6. FileOK(L, E, era, place)'
  BY <1>5 DEF FileOK
<1>7. Accounted(L, E, now)'
  BY <1>2, <1>3, <1>4, <1>6 DEF Accounted
<1> QED
  BY <1>7 DEF ProfileInv

\* A step of thread t away from its place to one where it does not change the profile.
LEMMA QuietMove ==
    ASSUME Known, NEW t \in Threads, NEW p, p \notin {"recording", "resetting"},
           pc' = [pc EXCEPT ![t] = p], \A u \in Threads \ {t} : call'[u] = call[u],
           UNCHANGED <<profile, file, writers, measured, backend, model, perfLock>>
    PROVE  ProfileInv'
<1>1. pc \in [Threads -> Places]
  BY DEF Known, IInv, Typed
<1>2. \A u \in Threads : pc'[u] \in {"recording", "resetting"} => u # t /\ pc'[u] = pc[u]
  BY <1>1
<1>3. LockOK'
  BY <1>2 DEF Known, ProfileInv, LockOK
<1>4. ProfileTypes'
  BY DEF Known, ProfileInv, ProfileTypes
<1>5. ASSUME NEW u \in Threads, pc'[u] = "recording"
      PROVE  pc[u] = "recording" /\ BackendOf(u)' = BackendOf(u) /\ model'.hash = model.hash
  BY <1>2, <1>5 DEF BackendOf, SessionOf
<1> QED
  BY <1>3, <1>4, <1>5, QuietStep

\* A step that no thread makes keeps the mutex.
LEMMA LockStays ==
    ASSUME LockOK, UNCHANGED <<pc, perfLock>>
    PROVE  LockOK'
  BY DEF LockOK

\* A session gets an engine of one of the backends, or none.
LEMMA EnginesMade == NewEngines \subseteq Backends \cup {NoBackend}
<1> DEFINE req == SelectionRequest
           registered == register_default_backends(<<>>, hw)
           Engine(sel, ready) == create_engine(sel, req, BuiltinFactories, ready)
           LastTry(sel, ready) ==
               IF Engine(sel, ready) = NoBackend /\ CPU \in ready THEN CPU
               ELSE Engine(sel, ready)
<1>1. ASSUME NEW sel, NEW ready \in SUBSET Backends PROVE LastTry(sel, ready) \in Backends \cup {NoBackend}
  <2> HIDE DEF req
  <2>1. CPU \in Backends
    BY DEF Backends
  <2> QED
    BY <2>1 DEF create_engine
<1> HIDE DEF LastTry
<1>2. \A b \in NewEngines : \E sel : \E ready \in SUBSET Backends : b = LastTry(sel, ready)
  BY DEF NewEngines, LastTry
<1> QED
  BY <1>1, <1>2

\* Sessions and models come and go while no thread records for them.
LEMMA SessionsComeAndGo ==
    ASSUME Known,
           \/ \E f \in ModelFiles : ha_model_load(f)
           \/ ha_model_unload
           \/ \E s \in Sessions : ha_session_create(s) \/ ha_session_destroy(s) \/ ha_session_cancel(s)
    PROVE  ProfileInv'
<1>1. UNCHANGED <<profile, file, writers, measured, pc, perfLock, call>>
  BY DEF ha_model_load, ha_model_unload, ha_session_create, ha_session_destroy, ha_session_cancel,
         perfVars, callVars
<1>2. LockOK'
  BY <1>1, LockStays DEF Known, ProfileInv
<1>3. backend \in [Sessions -> Backends \cup {NoBackend}]
  BY DEF Known, ProfileInv, ProfileTypes
<1>4. backend' \in [Sessions -> Backends \cup {NoBackend}]
  <2>1. ASSUME NEW s \in Sessions, ha_session_create(s)
        PROVE  backend' \in [Sessions -> Backends \cup {NoBackend}]
    <3>1. PICK b \in Backends \cup {NoBackend} : backend' = [backend EXCEPT ![s] = b]
      BY <2>1, EnginesMade DEF ha_session_create
    <3> QED
      BY <1>3, <3>1
  <2>2. ASSUME NEW s \in Sessions, ha_session_destroy(s)
        PROVE  backend' \in [Sessions -> Backends \cup {NoBackend}]
    BY <1>3, <2>2 DEF ha_session_destroy
  <2> QED
    BY <1>3, <2>1, <2>2 DEF ha_model_load, ha_model_unload, ha_session_cancel, sessionVars
<1>5. ProfileTypes'
  BY <1>1, <1>4 DEF Known, ProfileInv, ProfileTypes
<1>6. ASSUME NEW t \in Threads, pc'[t] = "recording"
      PROVE  pc[t] = "recording" /\ BackendOf(t)' = BackendOf(t) /\ model'.hash = model.hash
  <2>1. pc[t] = "recording" /\ SessionOf(t)' = SessionOf(t)
    BY <1>1, <1>6 DEF SessionOf
  <2>2. SessionOf(t) \in Sessions /\ backend[SessionOf(t)] # NoBackend /\ model # NoModel
    BY <2>1, RecorderTyped DEF Outside, BackendOf, Backends, CPU, VK, NoBackend
  <2>3. ~ ha_model_unload /\ \A f \in ModelFiles : ~ ha_model_load(f)
    BY <2>2 DEF ha_model_unload, ha_model_load
  <2>4. model' = model
    BY <2>3 DEF ha_session_create, ha_session_destroy, ha_session_cancel
  <2>5. backend'[SessionOf(t)] = backend[SessionOf(t)]
    <3>1. ASSUME NEW s \in Sessions, ha_session_create(s)
          PROVE  backend'[SessionOf(t)] = backend[SessionOf(t)]
      <4>1. SessionOf(t) # s
        BY <2>2, <3>1 DEF ha_session_create
      <4> QED
        BY <1>3, <2>2, <3>1, <4>1 DEF ha_session_create
    <3>2. ASSUME NEW s \in Sessions, ha_session_destroy(s)
          PROVE  backend'[SessionOf(t)] = backend[SessionOf(t)]
      <4>1. SessionOf(t) # s
        BY <3>2 DEF ha_session_destroy
      <4> QED
        BY <1>3, <2>2, <3>2, <4>1 DEF ha_session_destroy
    <3> QED
      BY <2>3, <3>1, <3>2 DEF ha_session_cancel
  <2> QED
    BY <2>1, <2>4, <2>5 DEF BackendOf
<1> QED
  BY <1>1, <1>2, <1>5, <1>6, QuietStep

\* The steps of calls that are not about the profile.
LEMMA CallsMove ==
    ASSUME Known, NEW t \in Threads,
           \/ \E s \in Sessions, stream \in BOOLEAN : ha_infer(t, s, stream)
           \/ Enter(t) \/ Stop(t) \/ Sample(t) \/ Callback(t) \/ Return(t) \/ Saved(t)
    PROVE  ProfileInv'
<1>1. UNCHANGED <<profile, file, writers, measured, backend, model, perfLock>>
  BY DEF ha_infer, Enter, Stop, Sample, Callback, Return, Saved, perfVars, sessionVars
<1>2. \A u \in Threads \ {t} : call'[u] = call[u]
  <2>1. call \in [Threads -> Calls]
    BY DEF Known, IInv, Typed
  <2>2. call' = call \/ \E c : call' = [call EXCEPT ![t] = c]
    BY DEF ha_infer, Enter, Leave, Stop, Sample, Callback, Return, Saved, callVars
  <2> QED
    BY <2>1, <2>2
<1>3. \E p : p \notin {"recording", "resetting"} /\ pc' = [pc EXCEPT ![t] = p]
  BY DEF ha_infer, Enter, Leave, Fails, Stop, Ended, Sample, Deliver, Forward, Callback, Return,
         Saved, Goto
<1> QED
  BY <1>1, <1>2, <1>3, QuietMove

\* The end of a reset.
LEMMA ResetEnds ==
    ASSUME Known, NEW t \in Threads, ResetDone(t)
    PROVE  ProfileInv'
<1>1. UNCHANGED <<profile, file, writers, measured, backend, model, call>> /\ perfLock' = None
      /\ pc' = [pc EXCEPT ![t] = "idle"] /\ pc[t] = "resetting"
  BY DEF ResetDone, Goto, sessionVars, callVars
<1>2. pc \in [Threads -> Places] /\ LockOK
  BY DEF Known, IInv, Typed, ProfileInv
<1>3. \A u \in Threads : pc'[u] \notin {"recording", "resetting"}
  <2>1. ASSUME NEW u \in Threads, u # t PROVE pc[u] \notin {"recording", "resetting"}
    BY <1>1, <1>2, <2>1 DEF LockOK
  <2> QED
    BY <1>1, <1>2, <2>1
<1>4. LockOK' /\ ProfileTypes'
  BY <1>1, <1>3 DEF LockOK, Known, ProfileInv, ProfileTypes
<1> QED
  BY <1>1, <1>3, <1>4, QuietStep

-----------------------------------------------------------------------------
(* The steps of a measurement *)

\* The ledger M is L with larger numbers and more entries.
Raises(L, M) ==
    /\ L \in Seq(Caps) /\ M \in Seq(Caps) /\ Len(L) <= Len(M)
    /\ \A i \in 1..Len(L) : M[i].backend = L[i].backend /\ L[i].n <= M[i].n

\* A larger ledger still covers what a smaller one does.
LEMMA RaisedLedger ==
    ASSUME NEW L, NEW M, Raises(L, M), NEW E
    PROVE  /\ \A recs, o : Counted(recs) /\ Within(recs, L, o) => Within(recs, M, o)
           /\ \A era, place : FileOK(L, E, era, place) /\ Counted(file) => FileOK(M, E, era, place)
<1>1. /\ Len(L) \in Nat /\ Len(M) \in Nat /\ Len(L) <= Len(M)
      /\ \A i \in 1..Len(L) : L[i].n \in Nat
      /\ \A i \in 1..Len(M) : M[i].n \in Nat
      /\ \A i \in 1..Len(L) : i \in 1..Len(M)
  <2>1. Len(L) \in Nat /\ Len(M) \in Nat /\ Len(L) <= Len(M)
    BY LenProperties DEF Raises
  <2> QED
    BY <2>1, CapsCounted DEF Raises, Counted
<1>2. \A i \in 1..Len(L) : M[i].backend = L[i].backend /\ L[i].n <= M[i].n
  BY DEF Raises
<1>3. ASSUME NEW recs, NEW o, Counted(recs), Within(recs, L, o) PROVE Within(recs, M, o)
  <2>1. SUFFICES ASSUME NEW i \in 1..Len(recs)
                 PROVE  /\ o + i \in 1..Len(M)
                        /\ recs[i].backend = M[o + i].backend /\ recs[i].n <= M[o + i].n
    BY DEF Within
  <2>2. /\ o + i \in 1..Len(L)
        /\ recs[i].backend = L[o + i].backend /\ recs[i].n <= L[o + i].n /\ recs[i].n \in Nat
    BY <1>3 DEF Within, Counted
  <2> QED
    BY <1>1, <1>2, <2>2
<1>4. ASSUME NEW era, NEW place, FileOK(L, E, era, place), Counted(file) PROVE FileOK(M, E, era, place)
  <2>1. ASSUME NEW p \in 1..Len(file)
        PROVE  /\ era[p] + place[p] \in 1..Len(M)
               /\ file[p].backend = M[era[p] + place[p]].backend
               /\ file[p].n <= M[era[p] + place[p]].n
    <3>1. /\ era[p] + place[p] \in 1..Len(L)
          /\ file[p].backend = L[era[p] + place[p]].backend
          /\ file[p].n <= L[era[p] + place[p]].n /\ file[p].n \in Nat
      BY <1>4 DEF FileOK, Counted
    <3> QED
      BY <1>1, <1>2, <3>1
  <2> QED
    BY <1>4, <2>1 DEF FileOK
<1> QED
  BY <1>3, <1>4

\* Lines of the file are records.
LEMMA LinesCounted ==
    ASSUME NEW recs \in Seq(LinesOfFile)
    PROVE  Counted(recs) /\ recs \in Seq(Records)
<1>1. LinesOfFile \subseteq Records
  BY DEF LinesOfFile
<1>2. recs \in Seq(Records)
  BY <1>1, SeqMonotonic
<1> QED
  BY <1>2, RecordsCounted

\* So the saves in progress are still covered.
LEMMA RaisedWriters ==
    ASSUME NEW L, NEW M, Raises(L, M), NEW E, WritersOK(L, E), ProfileTypes
    PROVE  WritersOK(M, E)
<1>1. ASSUME NEW w \in writers PROVE Counted(w.data)
  <2>1. w.data \in Seq(LinesOfFile)
    BY DEF ProfileTypes, Saves
  <2> QED
    BY <2>1, LinesCounted
<1>2. ASSUME NEW w \in writers PROVE \E o \in E : Within(w.data, M, o) /\ OneEra(o, Len(w.data), E)
  <2>1. PICK o \in E : Within(w.data, L, o) /\ OneEra(o, Len(w.data), E)
    BY DEF WritersOK
  <2>2. Within(w.data, M, o)
    BY <1>1, <2>1, RaisedLedger
  <2> QED
    BY <2>1, <2>2
<1> QED
  BY <1>2 DEF WritersOK

\* Others do not record while t has the mutex, or while nobody has it.
LEMMA Alone ==
    ASSUME Known, NEW t \in Threads,
           perfLock = None \/ pc[t] \in {"recording", "resetting"}
    PROVE  \A u \in Threads : u # t => pc[u] \notin {"recording", "resetting"}
<1>1. LockOK
  BY DEF Known, ProfileInv
<1>2. None \notin Threads
  BY SDKAssumption
<1> QED
  BY <1>1, <1>2 DEF LockOK

LEMMA SameLength ==
    ASSUME NEW a \in Nat, NEW c \in Nat, 1..a = 1..c
    PROVE  a = c
<1>1. a <= c
  BY a # 0 => a \in 1..c
<1>2. c <= a
  BY c # 0 => c \in 1..a
<1> QED
  BY <1>1, <1>2

\* A call takes the mutex: its measurement counts from now on.
LEMMA Begins ==
    ASSUME Known, NEW t \in Threads, RecordBegin(t)
    PROVE  ProfileInv'
<1> DEFINE b == BackendOf(t)
<1>1. /\ UNCHANGED <<profile, file, writers, backend, model, call>>
      /\ perfLock = None /\ perfLock' = t /\ pc[t] = "record"
      /\ pc' = [pc EXCEPT ![t] = "recording"]
      /\ measured' = [measured EXCEPT ![b] = measured[b] + 1]
  BY DEF RecordBegin, Goto, BackendOf, sessionVars, callVars
<1>2. pc \in [Threads -> Places] /\ ProfileTypes
  BY DEF Known, IInv, Typed, ProfileInv
<1>3. b \in Backends
  BY <1>1, RecorderTyped DEF Outside
<1>4. \A u \in Threads : u # t => pc'[u] \notin {"recording", "resetting"}
  BY <1>1, <1>2, Alone
<1>5. LockOK'
  BY <1>1, <1>2, <1>4 DEF LockOK
<1>6. /\ measured \in [Backends -> Nat] /\ measured' \in [Backends -> Nat]
      /\ measured'[b] = measured[b] + 1 /\ \A c \in Backends \ {b} : measured'[c] = measured[c]
  BY <1>1, <1>2, <1>3 DEF ProfileTypes
<1>7. ProfileTypes'
  BY <1>1, <1>2, <1>6 DEF ProfileTypes
<1>8. PICK L, E, now : Accounted(L, E, now)
  BY DEF Known, ProfileInv
<1>9. PICK era, place : FileOK(L, E, era, place)
  BY <1>8 DEF Accounted
<1>10. /\ L \in Seq(Caps) /\ Counted(L) /\ now \in Nat /\ Len(L) = now + Len(profile)
       /\ Len(L) \in Nat /\ Len(profile) \in Nat
  BY <1>2, <1>8, CapsCounted, LenProperties DEF Accounted, LedgerOK, ProfileTypes
<1>11. RecordOf(t)' = RecordOf(t) /\ BackendOf(t)' = b
  BY <1>1 DEF RecordOf, BackendOf, SessionOf
<1> HIDE DEF b
<1>12. \A c \in Backends : Samples(L, c) \in Nat /\ Samples(L, c) <= measured[c]
  BY <1>8, <1>10, SamplesNat DEF Accounted, LedgerOK
<1>13. CASE RecordOf(t) = {}
  <2>1. LedgerOK(L, E, now)'
    <3>1. \A c \in Backends : Samples(L, c) <= measured'[c]
      BY <1>6, <1>12
    <3> QED
      BY <1>1, <1>8, <3>1 DEF Accounted, LedgerOK, Within
  <2>2. RecordingOK(L, now)'
    <3>1. Samples(L, b) + 1 <= measured'[b]
      BY <1>3, <1>6, <1>12
    <3> QED
      BY <1>4, <1>11, <1>13, <3>1 DEF RecordingOK
  <2>3. WritersOK(L, E)' /\ FileOK(L, E, era, place)'
    BY <1>1, <1>8, <1>9 DEF Accounted, WritersOK, Within, FileOK
  <2> QED
    BY <1>5, <1>7, <2>1, <2>2, <2>3 DEF ProfileInv, Accounted
<1>14. CASE RecordOf(t) # {}
  <2>1. PICK k : k \in RecordOf(t)
    BY <1>14
  <2>2. /\ RecordOf(t) \subseteq 1..Len(profile) /\ \A i \in RecordOf(t) : i = k
        /\ profile[k].backend = b
    BY <1>2, <2>1, MatchesOne DEF RecordOf, ProfileTypes, b
  <2>3. Within(profile, L, now)
    BY <1>8 DEF Accounted, LedgerOK
  <2> DEFINE x == now + k
  <2>4. x \in 1..Len(L) /\ L[x].backend = b /\ profile[k].n <= L[x].n
    BY <2>1, <2>2, <2>3 DEF Within
  <2> HIDE DEF x
  <2>5. \A i \in 1..Len(L) : L[i] \in Caps
    BY <1>10, ElementOfSeq
  <2>m. PICK M : M = [i \in 1..Len(L) |-> [backend |-> L[i].backend,
                                             n |-> L[i].n + (IF i = x THEN 1 ELSE 0)]]
    OBVIOUS
  <2>6. M \in Seq(Caps) /\ Len(M) = Len(L)
    <3>1. M \in [1..Len(L) -> Caps]
      <4>1. ASSUME NEW i \in 1..Len(L) PROVE M[i] \in Caps
        <5>1. L[i].backend \in Backends /\ L[i].n + (IF i = x THEN 1 ELSE 0) \in Nat
          BY <2>5 DEF Caps
        <5>2. M[i] = [backend |-> L[i].backend, n |-> L[i].n + (IF i = x THEN 1 ELSE 0)]
          BY <2>m
        <5> QED
          BY <5>1, <5>2 DEF Caps
      <4> QED
        BY <2>m, <4>1
    <3>2. M \in Seq(Caps)
      BY <1>10, <3>1, SeqDef
    <3>3. DOMAIN M = 1..Len(M) /\ Len(M) \in Nat
      BY <3>2, LenProperties
    <3>4. DOMAIN M = 1..Len(L)
      BY <3>1
    <3>5. 1..Len(M) = 1..Len(L) /\ Len(M) \in Nat /\ Len(L) \in Nat
      BY <1>10, <3>3, <3>4
    <3>6. Len(M) = Len(L)
      BY ONLY <3>5, SameLength
    <3> QED
      BY <3>2, <3>6
  <2>7. \A i \in 1..Len(L) : M[i].backend = L[i].backend /\ M[i].n = L[i].n + (IF i = x THEN 1 ELSE 0)
    BY <2>m
  <2>8. Raises(L, M) /\ Counted(M)
    <3>1. \A i \in 1..Len(L) : L[i].n \in Nat
      BY <1>10 DEF Counted
    <3> QED
      BY <1>10, <2>6, <2>7, <3>1, CapsCounted DEF Raises
  <2>9. ASSUME NEW c \in Backends PROVE Samples(M, c) <= measured'[c]
    <3>1. Samples(M, c) = Samples(L, c) + (IF L[x].backend = c THEN 1 ELSE 0)
      <4>1. Counted(L) /\ Counted(M) /\ Len(M) = Len(L) /\ x \in 1..Len(L)
            /\ (\A i \in 1..Len(L) : M[i].backend = L[i].backend)
            /\ \A i \in 1..Len(L) : M[i].n = L[i].n + (IF i = x THEN 1 ELSE 0)
        BY <1>10, <2>4, <2>6, <2>7, <2>8
      <4> QED
        BY ONLY <4>1, SamplesRaised
    <3>2. Samples(L, c) \in Nat /\ Samples(L, c) <= measured[c] /\ measured[c] \in Nat
      BY <1>6, <1>12
    <3>3. CASE c = b
      BY <1>6, <2>4, <3>1, <3>2, <3>3
    <3>4. CASE c # b
      BY <1>6, <2>4, <3>1, <3>2, <3>4
    <3> QED
      BY <3>3, <3>4
  <2>10. Counted(profile) /\ Counted(file)
    BY <1>2, RecordsCounted, LinesCounted DEF ProfileTypes
  <2>11. LedgerOK(M, E, now)'
    <3>1. Within(profile, M, now)
      BY <2>3, <2>8, <2>10, RaisedLedger
    <3>2. Within(profile, M, now)'
      BY <1>1, <3>1 DEF Within
    <3> QED
      BY <1>1, <1>8, <2>6, <2>9, <3>2 DEF Accounted, LedgerOK
  <2>12. RecordingOK(M, now)'
    <3>1. profile[k].n + 1 <= M[now + k].n
      <4>1. M[x].n = L[x].n + 1 /\ L[x].n \in Nat
        BY <1>10, <2>4, <2>7 DEF Counted
      <4>2. profile[k].n \in Nat
        BY <2>1, <2>2, <2>10 DEF Counted
      <4> QED
        BY <2>4, <4>1, <4>2 DEF x
    <3> QED
      BY <1>1, <1>4, <1>11, <1>14, <2>2, <3>1 DEF RecordingOK
  <2>13. WritersOK(M, E) /\ FileOK(M, E, era, place)
    BY <1>2, <1>8, <1>9, <2>8, <2>10, RaisedLedger, RaisedWriters DEF Accounted
  <2>14. WritersOK(M, E)' /\ FileOK(M, E, era, place)'
    BY <1>1, <2>13 DEF WritersOK, Within, FileOK
  <2> QED
    BY <1>5, <1>7, <2>11, <2>12, <2>14 DEF ProfileInv, Accounted
<1> QED
  BY <1>13, <1>14

\* The measurement is in its record.
LEMMA Ends ==
    ASSUME Known, NEW t \in Threads, RecordEnd(t)
    PROVE  ProfileInv'
<1> DEFINE b == BackendOf(t)
<1>1. PICK speed \in Speeds : profile' = record(profile, b, model.hash, speed)
  BY DEF RecordEnd, Recorded, BackendOf
<1>2. /\ UNCHANGED <<file, writers, measured, backend, model, call>>
      /\ pc[t] = "recording" /\ pc' = [pc EXCEPT ![t] = "copy"]
  BY DEF RecordEnd, Goto, sessionVars, callVars
<1>3. pc \in [Threads -> Places] /\ ProfileTypes
  BY DEF Known, IInv, Typed, ProfileInv
<1>4. b \in Backends /\ model.hash \in Hashes
  BY <1>2, RecorderTyped DEF Outside
<1>5. \A u \in Threads : pc'[u] \notin {"recording", "resetting"}
  BY <1>2, <1>3, Alone
<1>6. LockOK'
  BY <1>5 DEF LockOK
<1>7. RecordOf(t) = Matches(profile, b, model.hash)
  BY DEF RecordOf
<1> HIDE DEF b
<1>8. profile \in Seq(Records) /\ speed \in Nat
  BY <1>3, SDKAssumption DEF ProfileTypes
<1>9. /\ profile' \in Seq(Records)
      /\ \/ profile' = profile
         \/ /\ RecordOf(t) = {} /\ Len(profile') = Len(profile) + 1
            /\ \A j \in 1..Len(profile) : profile'[j] = profile[j]
            /\ profile'[Len(profile) + 1].backend = b /\ profile'[Len(profile) + 1].n = 1
         \/ \E k \in RecordOf(t) :
               /\ Len(profile') = Len(profile)
               /\ \A j \in 1..Len(profile) :
                     profile'[j].backend = profile[j].backend
                     /\ profile'[j].n = profile[j].n + (IF j = k THEN 1 ELSE 0)
  BY <1>1, <1>4, <1>7, <1>8, RecordShape
<1>10. ProfileTypes'
  BY <1>2, <1>3, <1>9 DEF ProfileTypes
<1>11. PICK L, E, now : Accounted(L, E, now)
  BY DEF Known, ProfileInv
<1>12. PICK era, place : FileOK(L, E, era, place)
  BY <1>11 DEF Accounted
<1>13. /\ L \in Seq(Caps) /\ Counted(L) /\ now \in Nat /\ Len(L) = now + Len(profile)
       /\ Len(L) \in Nat /\ Len(profile) \in Nat /\ Within(profile, L, now)
       /\ \A c \in Backends : Samples(L, c) <= measured[c]
  BY <1>8, <1>11, CapsCounted, LenProperties DEF Accounted, LedgerOK
<1>14. RecordingOK(L, now)
  BY <1>11 DEF Accounted
<1>15. Counted(profile) /\ Counted(file) /\ Counted(profile')
  BY <1>3, <1>8, <1>9, RecordsCounted, LinesCounted DEF ProfileTypes
<1>16. \A M : RecordingOK(M, now)'
  BY <1>5 DEF RecordingOK
<1>17. WritersOK(L, E)' /\ FileOK(L, E, era, place)'
  BY <1>2, <1>11, <1>12 DEF Accounted, WritersOK, Within, FileOK
<1>18. CASE profile' = profile
  <2>1. LedgerOK(L, E, now)'
    BY <1>2, <1>11, <1>18 DEF Accounted, LedgerOK, Within
  <2> QED
    BY <1>6, <1>10, <1>16, <1>17, <2>1 DEF ProfileInv, Accounted
<1>19. ASSUME RecordOf(t) = {}, Len(profile') = Len(profile) + 1,
              \A j \in 1..Len(profile) : profile'[j] = profile[j],
              profile'[Len(profile) + 1].backend = b, profile'[Len(profile) + 1].n = 1
       PROVE  ProfileInv'
  <2>e. PICK entry : entry = [backend |-> b, n |-> 1]
    OBVIOUS
  <2>m. PICK M : M = Append(L, entry)
    OBVIOUS
  <2>1. entry \in Caps /\ entry.backend = b /\ entry.n = 1
    BY <1>4, <2>e DEF Caps
  <2>2. /\ M \in Seq(Caps) /\ Len(M) = Len(L) + 1 /\ \A i \in 1..Len(L) : M[i] = L[i]
        /\ M[Len(L) + 1] = entry
    BY <1>13, <2>1, <2>m, AppendProperties
  <2>3. Raises(L, M) /\ Counted(M)
    <3>1. \A i \in 1..Len(L) : L[i].n \in Nat
      BY <1>13 DEF Counted
    <3> QED
      BY <1>13, <2>2, <3>1, CapsCounted DEF Raises
  <2>4. ASSUME NEW c \in Backends PROVE Samples(M, c) <= measured[c]
    <3>1. Samples(M, c) = Samples(L, c) + Claim(M, c, Len(L) + 1)
      BY <1>13, <2>2, <2>3, SamplesAppended
    <3>2. Claim(M, c, Len(L) + 1) = IF c = b THEN 1 ELSE 0
      BY <2>1, <2>2 DEF Claim
    <3>3. Samples(L, c) \in Nat /\ measured[c] \in Nat /\ Samples(L, c) <= measured[c]
      BY <1>3, <1>13, SamplesNat DEF ProfileTypes
    <3>4. Samples(L, b) + 1 <= measured[b]
      BY <1>2, <1>14, <1>19 DEF RecordingOK, b
    <3>5. CASE c = b
      BY <3>1, <3>2, <3>4, <3>5
    <3>6. CASE c # b
      BY <3>1, <3>2, <3>3, <3>6
    <3> QED
      BY <3>5, <3>6
  <2>5. Within(profile, M, now)
    BY <1>13, <1>15, <2>3, RaisedLedger
  <2>6. Within(profile', M, now)
    <3>1. SUFFICES ASSUME NEW i \in 1..Len(profile')
                   PROVE  /\ now + i \in 1..Len(M)
                          /\ profile'[i].backend = M[now + i].backend /\ profile'[i].n <= M[now + i].n
      BY DEF Within
    <3>2. CASE i \in 1..Len(profile)
      BY <1>19, <2>5, <3>2 DEF Within
    <3>3. CASE i \notin 1..Len(profile)
      <4>1. i = Len(profile) + 1 /\ now + i = Len(L) + 1 /\ now + i \in 1..Len(M)
        BY <1>13, <1>19, <2>2, <3>3
      <4> QED
        BY <1>19, <2>1, <2>2, <4>1
    <3> QED
      BY <3>2, <3>3
  <2>7. LedgerOK(M, E, now)'
    <3>1. Len(M) = now + Len(profile')
      BY <1>13, <1>19, <2>2
    <3>2. Within(profile, M, now)'
      BY <2>6 DEF Within
    <3> QED
      BY <1>2, <1>11, <2>2, <2>4, <3>1, <3>2 DEF Accounted, LedgerOK
  <2>8. WritersOK(M, E) /\ FileOK(M, E, era, place)
    BY <1>3, <1>11, <1>12, <1>15, <2>3, RaisedLedger, RaisedWriters DEF Accounted
  <2>9. WritersOK(M, E)' /\ FileOK(M, E, era, place)'
    BY <1>2, <2>8 DEF WritersOK, Within, FileOK
  <2> QED
    BY <1>6, <1>10, <1>16, <2>7, <2>9 DEF ProfileInv, Accounted
<1>20. ASSUME NEW k \in RecordOf(t), Len(profile') = Len(profile),
              \A j \in 1..Len(profile) :
                 profile'[j].backend = profile[j].backend
                 /\ profile'[j].n = profile[j].n + (IF j = k THEN 1 ELSE 0)
       PROVE  ProfileInv'
  <2>1. profile[k].n + 1 <= L[now + k].n
    BY <1>2, <1>14 DEF RecordingOK
  <2>2. Within(profile', L, now)
    <3>1. SUFFICES ASSUME NEW i \in 1..Len(profile)
                   PROVE  /\ now + i \in 1..Len(L)
                          /\ profile'[i].backend = L[now + i].backend /\ profile'[i].n <= L[now + i].n
      BY <1>20 DEF Within
    <3>2. /\ now + i \in 1..Len(L) /\ profile[i].backend = L[now + i].backend
          /\ profile[i].n <= L[now + i].n /\ profile[i].n \in Nat
      BY <1>13, <1>15 DEF Within, Counted
    <3>3. CASE i = k
      BY <1>20, <2>1, <3>2, <3>3
    <3>4. CASE i # k
      BY <1>20, <3>2, <3>4
    <3> QED
      BY <3>3, <3>4
  <2>3. LedgerOK(L, E, now)'
    <3>1. Within(profile, L, now)'
      BY <2>2 DEF Within
    <3> QED
      BY <1>2, <1>11, <1>20, <3>1 DEF Accounted, LedgerOK
  <2> QED
    BY <1>6, <1>10, <1>16, <1>17, <2>3 DEF ProfileInv, Accounted
<1> QED
  BY <1>9, <1>18, <1>19, <1>20

-----------------------------------------------------------------------------
(* Copies, resets and saves *)

\* A step after which no thread records that did not keeps the ledger of a profile that stays.
LEMMA SameLedger ==
    ASSUME NEW L, NEW E, NEW now, Accounted(L, E, now), UNCHANGED <<profile, measured>>,
           \A t \in Threads : pc'[t] = "recording" =>
              pc[t] = "recording" /\ BackendOf(t)' = BackendOf(t) /\ model'.hash = model.hash
    PROVE  LedgerOK(L, E, now)' /\ RecordingOK(L, now)'
<1>1. LedgerOK(L, E, now)'
  BY DEF Accounted, LedgerOK, Within
<1>2. ASSUME NEW t \in Threads, pc'[t] = "recording"
      PROVE  pc[t] = "recording" /\ RecordOf(t)' = RecordOf(t) /\ BackendOf(t)' = BackendOf(t)
  BY <1>2 DEF RecordOf
<1>3. RecordingOK(L, now)'
  BY <1>2 DEF Accounted, RecordingOK
<1> QED
  BY <1>1, <1>3

\* What a copy holds may be claimed, also what another thread has half recorded.
LEMMA CopiesClaim ==
    ASSUME Known, NEW t, NEW L, NEW E, NEW now, Accounted(L, E, now), NEW c \in Copies(t)
    PROVE  c \in Seq(Records) /\ Within(Lines(c), L, now) /\ Len(Lines(c)) = Len(profile)
           /\ Lines(c) \in Seq(LinesOfFile)
<1>1. profile \in Seq(Records) /\ Counted(profile) /\ DOMAIN profile = 1..Len(profile)
  BY RecordsCounted, LenProperties DEF Known, ProfileInv, ProfileTypes
<1>2. Within(profile, L, now) /\ RecordingOK(L, now)
  BY DEF Accounted, LedgerOK
<1>3. /\ c \in Seq(Records) /\ Len(c) = Len(profile)
      /\ \A i \in 1..Len(profile) : c[i].backend = profile[i].backend /\ c[i].n <= L[now + i].n
  <2>1. CASE c = profile
    BY <1>1, <1>2, <2>1 DEF Within
  <2>2. CASE c # profile
    <3>1. PICK u \in {v \in Threads \ {t} : pc[v] = "recording"} :
            \E i \in Matches(profile, backend[SessionOf(u)], model.hash) :
               c = [profile EXCEPT ![i].n = profile[i].n + 1]
      BY <2>2 DEF Copies
    <3>2. PICK i \in RecordOf(u) : c = [profile EXCEPT ![i].n = profile[i].n + 1]
      BY <3>1 DEF RecordOf, BackendOf
    <3>3. i \in 1..Len(profile)
      BY <1>1, <3>2, MatchesOne DEF RecordOf
    <3>4. profile[i].n + 1 <= L[now + i].n
      BY <1>2, <3>1, <3>2 DEF RecordingOK
    <3>5. profile[i] \in Records
      BY <1>1, <3>3, ElementOfSeq
    <3>6. PICK m \in Nat : m = profile[i].n + 1
      BY <3>5 DEF Records
    <3>7. PICK r : r = [profile[i] EXCEPT !.n = m]
      OBVIOUS
    <3>8. r \in Records /\ r.backend = profile[i].backend /\ r.n = m
      BY ONLY <3>5, <3>7, m \in Nat DEF Records
    <3>9. c = [profile EXCEPT ![i] = r]
      BY <3>2, <3>6, <3>7
    <3>10. /\ c \in Seq(Records) /\ Len(c) = Len(profile)
           /\ \A j \in 1..Len(profile) : c[j] = IF j = i THEN r ELSE profile[j]
      BY <1>1, <3>3, <3>8, <3>9, ExceptSeq
    <3>11. \A j \in 1..Len(profile) : profile[j].n <= L[now + j].n
      BY <1>2 DEF Within
    <3> QED
      BY <3>3, <3>4, <3>6, <3>8, <3>10, <3>11
  <2> QED
    BY <2>1, <2>2
<1>4. /\ Lines(c) \in Seq(LinesOfFile) /\ Len(Lines(c)) = Len(c)
      /\ \A i \in 1..Len(c) : Lines(c)[i].backend = c[i].backend /\ Lines(c)[i].n = c[i].n
  BY <1>3, LinesShape
<1>5. Within(Lines(c), L, now)
  BY <1>2, <1>3, <1>4 DEF Within
<1> QED
  BY <1>3, <1>4, <1>5

\* A call copies the profile for a save.
LEMMA Copied ==
    ASSUME Known, NEW t \in Threads, Copy(t)
    PROVE  ProfileInv'
<1>1. /\ UNCHANGED <<profile, file, measured, backend, model, call, perfLock>>
      /\ \E p : p \notin {"recording", "resetting"} /\ pc' = [pc EXCEPT ![t] = p]
  BY DEF Copy, Goto, sessionVars, callVars
<1>2. PICK c \in Copies(t), who \in Threads \cup {None} :
         writers' = writers \cup {[who |-> who, data |-> Lines(c), open |-> FALSE]}
  BY DEF Copy
<1>3. pc \in [Threads -> Places] /\ ProfileTypes /\ LockOK
  BY DEF Known, IInv, Typed, ProfileInv
<1>4. \A u \in Threads : pc'[u] \in {"recording", "resetting"} => pc'[u] = pc[u]
  BY <1>1, <1>3
<1>5. LockOK'
  BY <1>1, <1>3, <1>4 DEF LockOK
<1>6. PICK L, E, now : Accounted(L, E, now)
  BY DEF Known, ProfileInv
<1>7. /\ Within(Lines(c), L, now) /\ Len(Lines(c)) = Len(profile) /\ Lines(c) \in Seq(LinesOfFile)
  BY <1>6, CopiesClaim
<1>8. PICK w : w = [who |-> who, data |-> Lines(c), open |-> FALSE]
  OBVIOUS
<1>9. w \in Saves /\ w.data = Lines(c) /\ writers' = writers \cup {w}
  BY <1>2, <1>7, <1>8 DEF Saves
<1>10. ProfileTypes'
  BY <1>1, <1>3, <1>9 DEF ProfileTypes
<1>11. ASSUME NEW u \in Threads, pc'[u] = "recording"
       PROVE  pc[u] = "recording" /\ BackendOf(u)' = BackendOf(u) /\ model'.hash = model.hash
  BY <1>1, <1>4, <1>11 DEF BackendOf, SessionOf
<1>12. LedgerOK(L, E, now)' /\ RecordingOK(L, now)'
  BY <1>1, <1>6, <1>11, SameLedger
<1>13. now \in E /\ OneEra(now, Len(w.data), E)
  <2>1. now \in E /\ (\A e \in E : e <= now)
    BY <1>6 DEF Accounted, LedgerOK
  <2> QED
    BY <2>1 DEF OneEra
<1>14. WritersOK(L, E)'
  <2>1. \A v \in writers : \E o \in E : Within(v.data, L, o) /\ OneEra(o, Len(v.data), E)
    BY <1>6 DEF Accounted, WritersOK
  <2>2. \A v \in writers' : \E o \in E : Within(v.data, L, o) /\ OneEra(o, Len(v.data), E)
    BY <1>7, <1>9, <1>13, <2>1
  <2> QED
    BY <2>2 DEF WritersOK, Within
<1>15. PICK era, place : FileOK(L, E, era, place)
  BY <1>6 DEF Accounted
<1>16. FileOK(L, E, era, place)'
  BY <1>1, <1>15 DEF FileOK
<1> QED
  BY <1>5, <1>10, <1>12, <1>14, <1>16 DEF ProfileInv, Accounted

\* A reset begins an era.
LEMMA Reset ==
    ASSUME Known, NEW t \in Threads, ha_runtime_perf_reset(t)
    PROVE  ProfileInv'
<1>1. /\ UNCHANGED <<file, measured, backend, model, call>>
      /\ perfLock = None /\ perfLock' = t /\ profile' = <<>>
      /\ pc' = [pc EXCEPT ![t] = "resetting"]
      /\ writers' = writers \cup {[who |-> t, data |-> <<>>, open |-> FALSE]}
  BY DEF ha_runtime_perf_reset, Goto, sessionVars, callVars
<1>2. pc \in [Threads -> Places] /\ ProfileTypes
  BY DEF Known, IInv, Typed, ProfileInv
<1>3. \A u \in Threads : pc'[u] # "recording" /\ (u # t => pc'[u] # "resetting")
  BY <1>1, <1>2, Alone
<1>4. LockOK'
  BY <1>1, <1>3 DEF LockOK
<1>5. <<>> \in Seq(Records) /\ <<>> \in Seq(LinesOfFile) /\ Len(<<>>) = 0
  BY EmptySeq
<1>6. PICK w : w = [who |-> t, data |-> <<>>, open |-> FALSE]
  OBVIOUS
<1>7. w \in Saves /\ w.data = <<>> /\ writers' = writers \cup {w}
  BY <1>1, <1>5, <1>6 DEF Saves
<1>8. ProfileTypes'
  BY <1>1, <1>2, <1>5, <1>7 DEF ProfileTypes
<1>9. PICK L, E, now : Accounted(L, E, now)
  BY DEF Known, ProfileInv
<1>10. /\ L \in Seq(Caps) /\ Len(L) \in Nat /\ E \subseteq Nat /\ now \in E
       /\ (\A e \in E : e <= now) /\ Len(L) = now + Len(profile) /\ Len(profile) \in Nat
       /\ \A b \in Backends : Samples(L, b) <= measured[b]
  BY <1>2, <1>9, LenProperties DEF Accounted, LedgerOK, ProfileTypes
<1>11. PICK F : F = E \cup {Len(L)}
  OBVIOUS
<1>12. now <= Len(L) /\ \A e \in F : e \in Nat /\ e <= Len(L)
  BY <1>10, <1>11
<1>13. LedgerOK(L, F, Len(L))'
  <2>1. Within(profile, L, Len(L))'
    BY <1>1, <1>5 DEF Within
  <2>2. Len(L) = Len(L) + Len(profile')
    BY <1>1, <1>5, <1>10
  <2> QED
    BY <1>1, <1>10, <1>11, <1>12, <2>1, <2>2 DEF LedgerOK
<1>14. RecordingOK(L, Len(L))'
  BY <1>3 DEF RecordingOK
<1>15. WritersOK(L, F)'
  <2>1. ASSUME NEW v \in writers
        PROVE  \E o \in F : Within(v.data, L, o) /\ OneEra(o, Len(v.data), F)
    <3>1. PICK o \in E : Within(v.data, L, o) /\ OneEra(o, Len(v.data), E)
      BY <1>9 DEF Accounted, WritersOK
    <3>2. Len(v.data) \in Nat
      <4>1. v.data \in Seq(LinesOfFile)
        BY <1>2 DEF ProfileTypes, Saves
      <4> QED
        BY <4>1, LenProperties
    <3>3. o + Len(v.data) <= Len(L)
      <4>1. CASE Len(v.data) = 0
        BY <1>10, <1>12, <4>1
      <4>2. CASE Len(v.data) # 0
        <5>1. Len(v.data) \in 1..Len(v.data)
          BY <3>2, <4>2
        <5> QED
          BY <3>1, <5>1, <1>10 DEF Within
      <4> QED
        BY <4>1, <4>2
    <3>4. OneEra(o, Len(v.data), F)
      BY <1>11, <3>1, <3>3 DEF OneEra
    <3> QED
      BY <1>11, <3>1, <3>4
  <2>2. Len(L) \in F /\ Within(w.data, L, Len(L)) /\ OneEra(Len(L), Len(w.data), F)
    BY <1>5, <1>7, <1>11, <1>12 DEF Within, OneEra
  <2>3. \A v \in writers' : \E o \in F : Within(v.data, L, o) /\ OneEra(o, Len(v.data), F)
    BY <1>7, <2>1, <2>2
  <2> QED
    BY <2>3 DEF WritersOK, Within
<1>16. PICK era, place : FileOK(L, E, era, place)
  BY <1>9 DEF Accounted
<1>17. FileOK(L, F, era, place)
  <2>1. era \in [1..Len(file) -> F]
    BY <1>11, <1>16 DEF FileOK
  <2>2. ASSUME NEW p \in 1..Len(file) PROVE OneEra(era[p], place[p], F)
    <3>1. OneEra(era[p], place[p], E) /\ era[p] + place[p] \in 1..Len(L)
      BY <1>16 DEF FileOK
    <3> QED
      BY <1>10, <1>11, <3>1 DEF OneEra
  <2> QED
    BY <1>16, <2>1, <2>2 DEF FileOK
<1>18. FileOK(L, F, era, place)'
  BY <1>1, <1>17 DEF FileOK
<1> QED
  BY <1>4, <1>8, <1>13, <1>14, <1>15, <1>18 DEF ProfileInv, Accounted

\* A save opens the file, which empties it, or gives up.
LEMMA Opened ==
    ASSUME Known, NEW w \in writers, SaveOpen(w)
    PROVE  ProfileInv'
<1>1. /\ UNCHANGED <<profile, measured, backend, model, call, perfLock, pc>>
      /\ \/ file' = <<>> /\ writers' = (writers \ {w}) \cup {[w EXCEPT !.open = TRUE]}
         \/ writers' = writers \ {w} /\ UNCHANGED file
  BY DEF SaveOpen, sessionVars, callVars
<1>2. ProfileTypes /\ LockOK
  BY DEF Known, ProfileInv
<1>3. LockOK'
  BY <1>1, <1>2, LockStays
<1>4. w \in Saves
  BY <1>2 DEF ProfileTypes
<1>5. PICK v : v = [w EXCEPT !.open = TRUE]
  OBVIOUS
<1>6. v \in Saves /\ v.data = w.data
  BY ONLY <1>4, <1>5 DEF Saves
<1>7. <<>> \in Seq(LinesOfFile) /\ Len(<<>>) = 0
  BY EmptySeq
<1>8. ProfileTypes'
  BY <1>1, <1>2, <1>5, <1>6, <1>7 DEF ProfileTypes
<1>9. PICK L, E, now : Accounted(L, E, now)
  BY DEF Known, ProfileInv
<1>10. LedgerOK(L, E, now)' /\ RecordingOK(L, now)'
  <2>1. \A t \in Threads : pc'[t] = pc[t] /\ BackendOf(t)' = BackendOf(t) /\ model'.hash = model.hash
    BY <1>1 DEF BackendOf, SessionOf
  <2> QED
    BY <1>1, <1>9, <2>1, SameLedger
<1>11. WritersOK(L, E)'
  <2>1. \A x \in writers : \E o \in E : Within(x.data, L, o) /\ OneEra(o, Len(x.data), E)
    BY <1>9 DEF Accounted, WritersOK
  <2>2. \A x \in writers' : \E o \in E : Within(x.data, L, o) /\ OneEra(o, Len(x.data), E)
    BY <1>1, <1>5, <1>6, <2>1
  <2> QED
    BY <2>2 DEF WritersOK, Within
<1>12. \E era, place : FileOK(L, E, era, place)'
  <2>1. CASE file' = <<>>
    <3> DEFINE none == [p \in 1..0 |-> 0]
    <3>1. none \in [1..0 -> E] /\ none \in [1..0 -> Nat] /\ \A p \in 1..0 : FALSE
      OBVIOUS
    <3> HIDE DEF none
    <3>2. FileOK(L, E, none, none)'
      BY <1>7, <2>1, <3>1 DEF FileOK
    <3> QED
      BY <3>2
  <2>2. CASE UNCHANGED file
    <3>1. PICK era, place : FileOK(L, E, era, place)
      BY <1>9 DEF Accounted
    <3>2. FileOK(L, E, era, place)'
      BY <2>2, <3>1 DEF FileOK
    <3> QED
      BY <3>2
  <2> QED
    BY <1>1, <2>1, <2>2
<1> QED
  BY <1>3, <1>8, <1>10, <1>11, <1>12 DEF ProfileInv, Accounted

-----------------------------------------------------------------------------
(* What a save leaves, restarts, and the invariant *)

\* The lines that a save writes are of its era; those that it leaves behind them have
\* moved towards the front, and are of records behind those of the save, or of another era.
LEMMA Overwritten ==
    ASSUME NEW L \in Seq(Caps), NEW E, E \subseteq Nat, NEW era, NEW place, FileOK(L, E, era, place),
           ProfileTypes, NEW new \in Seq(LinesOfFile), NEW o \in E, Within(new, L, o),
           OneEra(o, Len(new), E), NEW lines \in Overwrites(new, file), file' = lines
    PROVE  \E f, h : FileOK(L, E, f, h)'
<1> DEFINE N == Len(new)
<1>1. N \in Nat /\ Len(file) \in Nat /\ o \in Nat /\ \A e \in E : e \in Nat
  BY LenProperties DEF ProfileTypes
<1>2. lines \in Seq(LinesOfFile)
  BY OverwriteShape DEF ProfileTypes
<1>3. PICK k \in Nat :
         /\ k >= N
         /\ \A p \in 1..Len(lines) :
               \/ p <= N /\ lines[p] = new[p]
               \/ /\ p > N /\ p - N + k \in 1..Len(file)
                  /\ lines[p] = file[p - N + k]
  BY OverwriteShape DEF ProfileTypes
<1>4. Len(lines) \in Nat
  BY <1>2, LenProperties
<1> DEFINE M == Len(lines)
<1>5. PICK f : f = [p \in 1..M |-> IF p <= N THEN o ELSE era[p - N + k]]
  OBVIOUS
<1>6. PICK h : h = [p \in 1..M |-> IF p <= N THEN p ELSE place[p - N + k]]
  OBVIOUS
<1>7. ASSUME NEW p \in 1..M, p <= N
      PROVE  /\ p \in 1..N /\ p \in Nat /\ lines[p] = new[p] /\ f[p] = o /\ h[p] = p
  BY <1>1, <1>3, <1>4, <1>5, <1>6, <1>7
<1>8. ASSUME NEW p \in 1..M, ~ (p <= N)
      PROVE  /\ p - N + k \in 1..Len(file) /\ p > N /\ p \in Nat /\ p - N + k >= p
             /\ lines[p] = file[p - N + k] /\ f[p] = era[p - N + k] /\ h[p] = place[p - N + k]
  <2>1. p \in Nat /\ p > N
    BY <1>1, <1>4, <1>8
  <2>2. p - N + k >= p
    BY <1>1, <1>3, <2>1
  <2> QED
    BY <1>3, <1>5, <1>6, <1>8, <2>1, <2>2
<1>9. /\ era \in [1..Len(file) -> E] /\ place \in [1..Len(file) -> Nat]
      /\ \A q \in 1..Len(file) :
          /\ place[q] >= q /\ OneEra(era[q], place[q], E)
          /\ era[q] + place[q] \in 1..Len(L)
          /\ file[q].backend = L[era[q] + place[q]].backend
          /\ file[q].n <= L[era[q] + place[q]].n
      /\ \A q, r \in 1..Len(file) : era[q] + place[q] = era[r] + place[r] => q = r
  BY DEF FileOK
<1> HIDE DEF N, M
<1>10. ASSUME NEW p \in 1..M
       PROVE  /\ f[p] \in E /\ h[p] \in Nat
              /\ h[p] >= p /\ OneEra(f[p], h[p], E)
              /\ f[p] + h[p] \in 1..Len(L)
              /\ lines[p].backend = L[f[p] + h[p]].backend
              /\ lines[p].n <= L[f[p] + h[p]].n
  <2>1. CASE p <= N
    <3>1. p \in 1..N /\ p \in Nat /\ lines[p] = new[p] /\ f[p] = o /\ h[p] = p
      BY <1>7, <2>1
    <3>2. OneEra(o, p, E)
      <4>1. SUFFICES ASSUME NEW e \in E, ~ (e <= o) PROVE o + p <= e
        BY DEF OneEra
      <4>2. o + N <= e /\ e \in Nat
        BY <1>1, <4>1 DEF OneEra, N
      <4> QED
        BY <1>1, <2>1, <3>1, <4>2
    <3>3. o + p \in 1..Len(L) /\ new[p].backend = L[o + p].backend /\ new[p].n <= L[o + p].n
      BY <3>1 DEF Within, N
    <3>4. p >= p
      BY <3>1
    <3> QED
      BY <3>1, <3>2, <3>3, <3>4
  <2>2. CASE ~ (p <= N)
    <3>1. PICK q \in 1..Len(file) : q = p - N + k
      BY <1>8, <2>2
    <3>2. p \in Nat /\ q >= p /\ q \in Nat
          /\ lines[p] = file[q] /\ f[p] = era[q] /\ h[p] = place[q]
      BY <1>1, <1>8, <2>2, <3>1
    <3>3. h[p] >= p
      <4>1. place[q] >= q /\ place[q] \in Nat
        BY <1>9
      <4> QED
        BY <3>2, <4>1
    <3> QED
      BY <1>9, <3>2, <3>3
  <2> QED
    BY <2>1, <2>2
<1>11. ASSUME NEW p \in 1..M, NEW r \in 1..M, p <= N, ~ (r <= N)
       PROVE  f[p] + h[p] # f[r] + h[r]
  <2>1. p \in Nat /\ f[p] = o /\ h[p] = p /\ p > 0
    BY <1>7, <1>11
  <2>2. r \in Nat /\ r > N
    BY <1>8, <1>11
  <2>3. f[r] \in Nat /\ h[r] \in Nat /\ h[r] >= r /\ OneEra(f[r], h[r], E)
    BY <1>1, <1>10
  <2>4. o <= f[r] \/ f[r] + h[r] <= o
    BY <2>3 DEF OneEra
  <2> QED
    BY <1>1, <1>11, <2>1, <2>2, <2>3, <2>4
<1>12. ASSUME NEW p \in 1..M, NEW r \in 1..M, f[p] + h[p] = f[r] + h[r]
       PROVE  p = r
  <2>1. CASE p <= N /\ r <= N
    <3>1. f[p] = o /\ h[p] = p /\ f[r] = o /\ h[r] = r /\ p \in Nat /\ r \in Nat
      BY <1>7, <2>1
    <3> QED
      BY <1>1, <1>12, <3>1
  <2>2. CASE ~ (p <= N) /\ ~ (r <= N)
    <3>1. p - N + k \in 1..Len(file) /\ r - N + k \in 1..Len(file) /\ p \in Nat /\ r \in Nat
          /\ f[p] = era[p - N + k] /\ h[p] = place[p - N + k]
          /\ f[r] = era[r - N + k] /\ h[r] = place[r - N + k]
      BY <1>8, <2>2
    <3>2. p - N + k = r - N + k
      BY <1>9, <1>12, <3>1
    <3> QED
      BY <1>1, <3>1, <3>2 DEF N
  <2>3. CASE (p <= N) # (r <= N)
    BY <1>11, <1>12, <2>3
  <2> QED
    BY <2>1, <2>2, <2>3
<1>13. DOMAIN f = 1..M /\ DOMAIN h = 1..M /\ f \in [1..M -> E] /\ h \in [1..M -> Nat]
  <2>1. \A p \in 1..M : f[p] \in E /\ h[p] \in Nat
    BY <1>10
  <2> QED
    BY <1>5, <1>6, <2>1
<1>14. FileOK(L, E, f, h)'
  BY <1>10, <1>12, <1>13 DEF FileOK, M
<1> QED
  BY <1>14

\* A save writes its lines.
LEMMA Written ==
    ASSUME Known, NEW w \in writers, SaveWrite(w)
    PROVE  ProfileInv'
<1>1. /\ UNCHANGED <<profile, measured, backend, model, call, perfLock, pc>>
      /\ file' \in Overwrites(w.data, file) /\ writers' = writers \ {w}
  BY DEF SaveWrite, sessionVars, callVars
<1>2. ProfileTypes /\ LockOK
  BY DEF Known, ProfileInv
<1>3. LockOK'
  BY <1>1, <1>2, LockStays
<1>4. w.data \in Seq(LinesOfFile)
  BY <1>2 DEF ProfileTypes, Saves
<1>5. file' \in Seq(LinesOfFile)
  BY <1>1, <1>2, <1>4, OverwriteShape DEF ProfileTypes
<1>6. ProfileTypes'
  BY <1>1, <1>2, <1>5 DEF ProfileTypes
<1>7. PICK L, E, now : Accounted(L, E, now)
  BY DEF Known, ProfileInv
<1>8. LedgerOK(L, E, now)' /\ RecordingOK(L, now)'
  <2>1. \A t \in Threads : pc'[t] = pc[t] /\ BackendOf(t)' = BackendOf(t) /\ model'.hash = model.hash
    BY <1>1 DEF BackendOf, SessionOf
  <2> QED
    BY <1>1, <1>7, <2>1, SameLedger
<1>9. WritersOK(L, E)'
  <2>1. \A x \in writers : \E o \in E : Within(x.data, L, o) /\ OneEra(o, Len(x.data), E)
    BY <1>7 DEF Accounted, WritersOK
  <2>2. \A x \in writers' : \E o \in E : Within(x.data, L, o) /\ OneEra(o, Len(x.data), E)
    BY <1>1, <2>1
  <2> QED
    BY <2>2 DEF WritersOK, Within
<1>10. PICK o \in E : Within(w.data, L, o) /\ OneEra(o, Len(w.data), E)
  BY <1>7 DEF Accounted, WritersOK
<1>11. L \in Seq(Caps) /\ E \subseteq Nat /\ \E era, place : FileOK(L, E, era, place)
  BY <1>7 DEF Accounted, LedgerOK
<1>12. \E f, h : FileOK(L, E, f, h)'
  BY <1>1, <1>2, <1>4, <1>10, <1>11, Overwritten
<1> QED
  BY <1>3, <1>6, <1>8, <1>9, <1>12 DEF ProfileInv, Accounted

\* The file claims no more than the ledger.
LEMMA FileClaims ==
    ASSUME NEW L, NEW E, NEW now, Accounted(L, E, now), ProfileTypes, NEW b \in Backends
    PROVE  Samples(file, b) <= Samples(L, b)
<1>1. PICK era, place : FileOK(L, E, era, place)
  BY DEF Accounted
<1>2. Counted(file) /\ Counted(L)
  BY LinesCounted, CapsCounted DEF ProfileTypes, Accounted, LedgerOK
<1>3. PICK e : e = [p \in 1..Len(file) |-> era[p] + place[p]]
  OBVIOUS
<1>4. Covered(file, L, e)
  <2>1. \A p \in 1..Len(file) : e[p] = era[p] + place[p]
    BY <1>3
  <2>2. \A p \in 1..Len(file) : e[p] \in 1..Len(L)
    BY <1>1, <2>1 DEF FileOK
  <2>3. e \in [1..Len(file) -> 1..Len(L)]
    BY <1>3, <2>2
  <2> QED
    BY <1>1, <2>1, <2>3 DEF FileOK, Covered
<1> QED
  BY <1>2, <1>4, SamplesCovered

\* So does the profile.
LEMMA ProfileClaims ==
    ASSUME NEW L, NEW E, NEW now, Accounted(L, E, now), ProfileTypes, NEW b \in Backends
    PROVE  Samples(profile, b) <= Samples(L, b)
<1>1. Within(profile, L, now) /\ now \in Nat /\ L \in Seq(Caps)
  BY DEF Accounted, LedgerOK
<1>2. Counted(profile) /\ Counted(L) /\ Len(profile) \in Nat
  BY <1>1, RecordsCounted, CapsCounted DEF ProfileTypes, Counted
<1>3. PICK e : e = [i \in 1..Len(profile) |-> now + i]
  OBVIOUS
<1>4. Covered(profile, L, e)
  <2>1. \A i \in 1..Len(profile) : e[i] = now + i /\ i \in Nat
    BY <1>2, <1>3
  <2>2. \A i \in 1..Len(profile) : e[i] \in 1..Len(L)
    BY <1>1, <2>1 DEF Within
  <2>3. e \in [1..Len(profile) -> 1..Len(L)]
    BY <1>3, <2>2
  <2>4. \A i, j \in 1..Len(profile) : e[i] = e[j] => i = j
    BY <1>1, <2>1
  <2> QED
    BY <1>1, <2>1, <2>3, <2>4 DEF Within, Covered
<1> QED
  BY <1>2, <1>4, SamplesCovered

\* What is accounted for was measured.
LEMMA Claimable ==
    ASSUME ProfileInv
    PROVE  NoFabricatedSamples
<1>1. PICK L, E, now : Accounted(L, E, now)
  BY DEF ProfileInv
<1>2. ProfileTypes
  BY DEF ProfileInv
<1>3. Counted(profile) /\ Counted(file) /\ Counted(L)
  BY <1>1, <1>2, RecordsCounted, LinesCounted, CapsCounted DEF ProfileTypes, Accounted, LedgerOK
<1>4. ASSUME NEW b \in Backends
      PROVE  Samples(profile, b) <= measured[b] /\ Samples(file, b) <= measured[b]
  <2>1. Samples(profile, b) <= Samples(L, b) /\ Samples(file, b) <= Samples(L, b)
    BY <1>1, <1>2, ProfileClaims, FileClaims
  <2>2. Samples(L, b) <= measured[b]
    BY <1>1 DEF Accounted, LedgerOK
  <2>3. Samples(profile, b) \in Nat /\ Samples(file, b) \in Nat /\ Samples(L, b) \in Nat
        /\ measured[b] \in Nat
    BY <1>2, <1>3, SamplesNat DEF ProfileTypes
  <2> QED
    BY <2>1, <2>2, <2>3
<1> QED
  BY <1>4 DEF NoFabricatedSamples

\* The ledger of a process that begins with these records.
LEMMA FirstLedger ==
    ASSUME NEW recs \in Seq(LinesOfFile)
    PROVE  \E L \in Seq(Caps) :
              /\ Len(L) = Len(recs)
              /\ \A i \in 1..Len(recs) : L[i].backend = recs[i].backend /\ L[i].n = recs[i].n
              /\ \A b : Samples(L, b) <= Samples(recs, b)
<1>1. recs \in Seq(Records) /\ Counted(recs)
  BY LinesCounted
<1>2. Len(recs) \in Nat /\ \A i \in 1..Len(recs) : recs[i] \in Records
  BY <1>1, ElementOfSeq, LenProperties
<1>3. PICK L : L = [i \in 1..Len(recs) |-> [backend |-> recs[i].backend, n |-> recs[i].n]]
  OBVIOUS
<1>4. L \in [1..Len(recs) -> Caps]
  BY <1>2, <1>3 DEF Caps, Records
<1>5. L \in Seq(Caps)
  BY <1>2, <1>4, SeqDef
<1>6. DOMAIN L = 1..Len(recs) /\ DOMAIN L = 1..Len(L) /\ Len(L) \in Nat
  BY <1>4, <1>5, LenProperties
<1>7. Len(L) = Len(recs)
  BY <1>2, <1>6
<1>8. \A i \in 1..Len(recs) : L[i].backend = recs[i].backend /\ L[i].n = recs[i].n
  BY <1>3
<1>9. ASSUME NEW b PROVE Samples(L, b) <= Samples(recs, b)
  <2>1. PICK e : e = [i \in 1..Len(recs) |-> i]
    OBVIOUS
  <2>2. \A i \in 1..Len(recs) : recs[i].n <= recs[i].n
    BY <1>1 DEF Counted
  <2>3. Covered(L, recs, e)
    BY <1>7, <1>8, <2>1, <2>2 DEF Covered
  <2>4. Counted(L)
    BY <1>5, CapsCounted
  <2> QED
    BY <1>1, <2>3, <2>4, SamplesCovered
<1> QED
  BY <1>5, <1>7, <1>8, <1>9

\* A process that begins: its profile is the file.
Fresh ==
    /\ ProfileTypes /\ profile = file /\ writers = {} /\ \A t \in Threads : pc[t] = "idle"
    /\ \A b \in Backends : Samples(file, b) <= measured[b]

\* Such a process can account for both.
LEMMA Starts == Fresh => ProfileInv
<1> SUFFICES ASSUME Fresh PROVE ProfileInv
  OBVIOUS
<1> USE DEF Fresh
<1>1. file \in Seq(LinesOfFile) /\ Counted(file) /\ Len(file) \in Nat
  BY LinesCounted DEF ProfileTypes, Counted
<1>2. PICK L \in Seq(Caps) :
              /\ Len(L) = Len(file)
              /\ \A i \in 1..Len(file) : L[i].backend = file[i].backend /\ L[i].n = file[i].n
              /\ \A b : Samples(L, b) <= Samples(file, b)
  BY <1>1, FirstLedger
<1>3. Counted(L)
  BY <1>2, CapsCounted
<1>4. PICK E : E = {0}
  OBVIOUS
<1>5. PICK era : era = [p \in 1..Len(file) |-> 0]
  OBVIOUS
<1>6. PICK place : place = [p \in 1..Len(file) |-> p]
  OBVIOUS
<1>7. \A i \in 1..Len(file) :
         /\ i \in Nat /\ 0 + i = i /\ i \in 1..Len(L) /\ i >= i
         /\ file[i].n <= L[i].n
  BY <1>1, <1>2 DEF Counted
<1>8. ASSUME NEW b \in Backends PROVE Samples(L, b) <= measured[b]
  <2>1. Samples(L, b) \in Nat /\ Samples(file, b) \in Nat /\ measured[b] \in Nat
    BY <1>1, <1>3, SamplesNat DEF ProfileTypes
  <2> QED
    BY <1>2, <2>1
<1>9. Within(profile, L, 0)
  BY <1>2, <1>7 DEF Within
<1>10. LedgerOK(L, E, 0)
  <2>1. E \subseteq Nat /\ 0 \in E /\ \A e \in E : e <= 0
    BY <1>4
  <2>2. Len(L) = 0 + Len(profile)
    BY <1>1, <1>2
  <2> QED
    BY <1>2, <1>8, <1>9, <2>1, <2>2 DEF LedgerOK
<1>11. RecordingOK(L, 0)
  BY DEF RecordingOK
<1>12. WritersOK(L, E)
  BY DEF WritersOK
<1>13. FileOK(L, E, era, place)
  <2>1. \A p \in 1..Len(file) : era[p] = 0 /\ place[p] = p
    BY <1>5, <1>6
  <2>2. era \in [1..Len(file) -> E] /\ place \in [1..Len(file) -> Nat]
    BY <1>4, <1>5, <1>6, <1>7
  <2>3. ASSUME NEW p \in 1..Len(file)
        PROVE  /\ place[p] >= p /\ OneEra(era[p], place[p], E)
               /\ era[p] + place[p] \in 1..Len(L)
               /\ file[p].backend = L[era[p] + place[p]].backend
               /\ file[p].n <= L[era[p] + place[p]].n
    <3>1. era[p] + place[p] = p
      BY <1>7, <2>1
    <3>2. OneEra(0, p, E)
      BY <1>4 DEF OneEra
    <3> QED
      BY <1>2, <1>7, <2>1, <3>1, <3>2
  <2>4. \A p, r \in 1..Len(file) : era[p] + place[p] = era[r] + place[r] => p = r
    BY <1>7, <2>1
  <2> QED
    BY <2>2, <2>3, <2>4 DEF FileOK
<1>14. LockOK
  BY DEF LockOK
<1> QED
  BY <1>10, <1>11, <1>12, <1>13, <1>14 DEF Accounted, ProfileInv

\* The next process begins with what the file holds.
LEMMA NewProcess ==
    ASSUME Known, Restart
    PROVE  ProfileInv'
<1>1. /\ UNCHANGED <<file, measured>> /\ profile' = load(file) /\ writers' = {}
      /\ pc' = [t \in Threads |-> "idle"] /\ backend' = [s \in Sessions |-> NoBackend]
  BY DEF Restart
<1>2. ProfileTypes
  BY DEF Known, ProfileInv
<1>3. profile' = file /\ file \in Seq(Records)
  BY <1>1, <1>2, LoadKeeps, LinesCounted DEF ProfileTypes
<1>4. backend' \in [Sessions -> Backends \cup {NoBackend}]
  BY <1>1
<1>5. ProfileTypes'
  BY <1>1, <1>2, <1>3, <1>4 DEF ProfileTypes
<1>6. \A t \in Threads : pc'[t] = "idle"
  BY <1>1
<1>7. \A b \in Backends : Samples(file, b) <= measured[b]
  BY Claimable DEF Known, NoFabricatedSamples
<1>8. Fresh'
  BY <1>1, <1>3, <1>5, <1>6, <1>7 DEF Fresh
<1>9. Fresh' => ProfileInv'
  BY Starts, PTL
<1> QED
  BY <1>8, <1>9

\* The first process begins with nothing.
LEMMA FirstProcess ==
    ASSUME Init
    PROVE  ProfileInv
<1>1. profile = <<>> /\ file = <<>> /\ writers = {} /\ measured = [b \in Backends |-> 0]
      /\ pc = [t \in Threads |-> "idle"] /\ backend = [s \in Sessions |-> NoBackend]
  BY DEF Init
<1>2. <<>> \in Seq(Records) /\ <<>> \in Seq(LinesOfFile) /\ Len(<<>>) = 0
  BY EmptySeq
<1>3. ProfileTypes
  BY <1>1, <1>2 DEF ProfileTypes
<1>4. ASSUME NEW b \in Backends PROVE Samples(file, b) <= measured[b]
  <2>1. Counted(file)
    BY <1>1, <1>2, RecordsCounted
  <2>2. PICK f : Totals(f, Claims(file, b), Len(file)) /\ Samples(file, b) = f[Len(file)]
    BY <2>1, SamplesTotal
  <2>3. Len(file) = 0 /\ 0 \in 0..0
    BY <1>1, <1>2
  <2>4. f[0] = 0
    BY <2>2, <2>3 DEF Totals
  <2> QED
    BY <1>1, <2>2, <2>3, <2>4
<1>5. Fresh
  BY <1>1, <1>3, <1>4 DEF Fresh
<1> QED
  BY <1>5, Starts

\* Every step keeps the account.
LEMMA ProfileStep ==
    ASSUME Known, [Next]_vars
    PROVE  ProfileInv'
<1>1. CASE Client
  <2>1. CASE \/ \E f \in ModelFiles : ha_model_load(f)
             \/ ha_model_unload
             \/ \E s \in Sessions : ha_session_create(s) \/ ha_session_destroy(s) \/ ha_session_cancel(s)
    BY <2>1, SessionsComeAndGo
  <2>2. ASSUME NEW t \in Threads, \E s \in Sessions, stream \in BOOLEAN : ha_infer(t, s, stream)
        PROVE  ProfileInv'
    BY <2>2, CallsMove
  <2>3. ASSUME NEW t \in Threads, ha_runtime_perf_reset(t) PROVE ProfileInv'
    BY <2>3, Reset
  <2> QED
    BY <1>1, <2>1, <2>2, <2>3 DEF Client
<1>2. CASE Save
  BY <1>2, Opened, Written DEF Save
<1>3. CASE Restart
  BY <1>3, NewProcess
<1>4. ASSUME NEW t \in Threads, CallStep(t) PROVE ProfileInv'
  <2>1. CASE Enter(t) \/ Stop(t) \/ Sample(t) \/ Callback(t) \/ Return(t) \/ Saved(t)
    BY <2>1, CallsMove
  <2>2. CASE RecordBegin(t)
    BY <2>2, Begins
  <2>3. CASE RecordEnd(t)
    BY <2>3, Ends
  <2>4. CASE Copy(t)
    BY <2>4, Copied
  <2>5. CASE ResetDone(t)
    BY <2>5, ResetEnds
  <2> QED
    BY <1>4, <2>1, <2>2, <2>3, <2>4, <2>5 DEF CallStep
<1>5. CASE UNCHANGED vars
  <2>1. UNCHANGED <<profile, file, writers, measured, backend, pc, perfLock, call, model>>
    BY <1>5 DEF vars
  <2>2. ProfileTypes' /\ LockOK'
    BY <2>1, LockStays DEF Known, ProfileInv, ProfileTypes
  <2>3. \A t \in Threads : pc'[t] = pc[t] /\ BackendOf(t)' = BackendOf(t) /\ model'.hash = model.hash
    BY <2>1 DEF BackendOf, SessionOf
  <2> QED
    BY <2>1, <2>2, <2>3, QuietStep
<1> QED
  BY <1>1, <1>2, <1>3, <1>4, <1>5 DEF Next

\* No interleaving of calls, unlocked copies, detached saves, resets and restarts makes
\* the profile or its file claim more measurements of a backend than were made.
THEOREM NoSamplesFabricated == Spec => []NoFabricatedSamples
<1>1. Init => Known
  <2>1. Init => PlacementInv
    BY DEF Init, PlacementInv, MachineOK, ModelOK, EnginesOK, VulkanOnlyWhereItFits, VK, NoBackend
  <2> QED
    BY <2>1, Initially, FirstProcess DEF Known
<1>2. Known /\ [Next]_vars => Known'
  BY Inductive, PlacementStep, ProfileStep DEF Known
<1>3. Known => NoFabricatedSamples
  BY Claimable DEF Known
<1> QED
  BY <1>1, <1>2, <1>3, PTL DEF Spec
=============================================================================
