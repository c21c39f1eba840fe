-------------------------- MODULE CommandLineProofs --------------------------
(***************************************************************************)
(* The five invariants of the commands, for all files, machines, engine    *)
(* registries, configurations and graphs, for every number of callers, and *)
(* for all bounds.                                                         *)
(*                                                                         *)
(* The tuner: a ceiling holds for one request, and the tuner's state is    *)
(* shared by requests that overlap: a result may arrive for an exploration *)
(* that another request began under another ceiling.  The argument is that *)
(* an exploration never changes the layers, and that lowering the layers   *)
(* of the best configuration ends it.                                      *)
(*                                                                         *)
(* The graph: the depth-first search answers the question that Acyclic     *)
(* asks.  A node that was visited is in no cycle, as nothing leads from    *)
(* the visited nodes to others; the nodes that are being visited are those *)
(* of the calls, each of which waits for the next one's node, so that an   *)
(* edge back to one of them closes a cycle.                                *)
(*                                                                         *)
(* The plan: a viable plan is one of four placements, each with what it    *)
(* was tried for; the adapter and the builder follow it region by region   *)
(* and node by node, so that what the builder has done is a function of    *)
(* how far it is, and what the adapter has done is bounded by it.  A plan  *)
(* that a client made promises nothing but its budget.                     *)
(***************************************************************************)
EXTENDS CommandLine, FiniteSetTheorems, FunctionTheorems, SequenceTheorems,
        WellFoundedInduction, TLAPS

(* Numbers *)

\* A set of natural numbers has a smallest one.
LEMMA SmallestNat ==
    ASSUME NEW T, T \subseteq Nat, T # {}
    PROVE  \E x \in T : \A y \in T : x <= y
<1> DEFINE R == OpToRel(<, Nat)
<1>1. IsWellFoundedOn(R, Nat)
  BY NatLessThanWellFounded
<1> HIDE DEF R
<1>2. PICK x \in T : \A y \in T : ~ (<<y, x>> \in R)
  BY <1>1, WFMin
<1>3. ASSUME NEW y \in T PROVE ~ (y < x)
  BY <1>2 DEF R, OpToRel
<1> QED
  BY <1>2, <1>3

LEMMA Product ==
    ASSUME NEW a \in Nat, NEW b \in Nat, NEW c \in Nat, a <= b
    PROVE  a * c <= b * c
  OBVIOUS

LEMMA Division ==
    ASSUME NEW a \in Nat, NEW b \in Nat \ {0}
    PROVE  a \div b \in Nat /\ (a \div b) * b <= a
  OBVIOUS

-----------------------------------------------------------------------------
(* The tuner *)

ThreadCounts == 1..(IF MaxThreads > 1 THEN MaxThreads ELSE 1)

\* The layers a key is used with: the policy asks for "CPU" exactly when it allows none.
LayersOf(k) == IF k = "CPU" THEN {0} ELSE Nat \ {0}

TunedConfigs(k) == [layers : LayersOf(k), threads : ThreadCounts]

Tuned(k) ==
    [pc : {"tuned"}, best : TunedConfigs(k), exploring : TunedConfigs(k), is_exploring : BOOLEAN,
     timed : BOOLEAN, stable : Nat]

Stats == [samples : Nat, failures : Nat, ema : BOOLEAN, regression : BOOLEAN]

Answered ==
    [pc : {"runs"}, ceiling : Nat, tuned : Keys,
     suggested : [layers : Nat, threads : ThreadCounts], key : Keys]

MachineOK ==
    /\ gpuMem \in GpuMemories /\ cuda \in BOOLEAN /\ modelSize \in ModelSizes
    /\ profiles \in [Keys -> Stats] /\ saved \in [Keys -> Stats]

\* The state of a key, and what an exploration may not do: change the layers.
StateOK(k) ==
    \/ states[k] = NoState
    \/ /\ states[k] \in Tuned(k)
       /\ states[k].is_exploring => states[k].exploring.layers = states[k].best.layers

RequestOK(c) ==
    \/ request[c] = Idle
    \/ /\ request[c] \in Answered
       /\ request[c].suggested.layers <= request[c].ceiling
       /\ request[c].key = request[c].tuned

TunerInv ==
    /\ MachineOK
    /\ states = [k \in Keys |-> states[k]] /\ request = [c \in Callers |-> request[c]]
    /\ \A k \in Keys : StateOK(k)
    /\ \A c \in Callers : RequestOK(c)

-----------------------------------------------------------------------------
(* The policy *)

\* The ceiling is a number of layers.
LEMMA CeilingIsNatural ==
    ASSUME MachineOK, NEW critical
    PROVE  selectStrategy(critical) \in Nat
<1> DEFINE mem == IF gpuMem >= 0 THEN gpuMem ELSE 0
<1>1. mem \in Nat /\ modelSize \in Nat
  BY TunerAssumption DEF MachineOK
<1> HIDE DEF mem
<1>2. computeGpuLayers(modelSize, mem) \in Nat
  <2>1. CASE modelSize = 0
    BY <2>1 DEF computeGpuLayers, TotalLayers
  <2>2. CASE modelSize # 0
    <3>1. mem * TotalLayers \in Nat
      BY <1>1 DEF TotalLayers
    <3>2. (mem * TotalLayers) \div modelSize \in Nat
      BY <1>1, <2>2, <3>1, Division
    <3> QED
      BY <3>2 DEF computeGpuLayers, TotalLayers
  <2> QED
    BY <2>1, <2>2
<1>3. \/ selectStrategy(critical) \in {0, AllLayers}
      \/ selectStrategy(critical) = computeGpuLayers(modelSize, mem)
  BY DEF selectStrategy, mem
<1> QED
  BY <1>2, <1>3 DEF AllLayers

-----------------------------------------------------------------------------
(* Suggestions and results *)

\* A configuration to explore has the layers of the best one.
LEMMA ExploredConfig ==
    ASSUME NEW k \in Keys, NEW best \in TunedConfigs(k)
    PROVE  Explored(best) \in TunedConfigs(k) /\ Explored(best).layers = best.layers
<1>1. best.threads \in ThreadCounts /\ best.layers \in LayersOf(k)
  BY DEF TunedConfigs
<1> DEFINE n == best.threads
           m == IF n < MaxThreads THEN n + 1 ELSE IF n > 1 THEN n - 1 ELSE n
<1>2. m \in ThreadCounts
  BY <1>1, TunerAssumption DEF ThreadCounts
<1>3. Explored(best) = [best EXCEPT !.threads = m]
  BY DEF Explored
<1> HIDE DEF m
<1> QED
  BY <1>1, <1>2, <1>3 DEF TunedConfigs

\* What suggestConfiguration leaves: a state of the key whose layers are at most the
\* ceiling, also those it explores.
LEMMA SuggestionFits ==
    ASSUME TunerInv, NEW k \in Keys, NEW ceiling \in LayersOf(k), LayersOf(k) \subseteq Nat
    PROVE  LET s == Suggesting(k, ceiling)
           IN  /\ s \in Tuned(k)
               /\ s.best.layers <= ceiling
               /\ s.is_exploring => s.exploring.layers = s.best.layers
<1> DEFINE obeyed == Obey(states[k], ceiling)
           again == IF profiles[k].regression /\ obeyed.stable > MinSamples
                    THEN [obeyed EXCEPT !.stable = 0, !.is_exploring = FALSE, !.timed = FALSE]
                    ELSE obeyed
           Good(s) == /\ s \in Tuned(k)
                      /\ s.best.layers <= ceiling
                      /\ s.is_exploring => s.exploring.layers = s.best.layers
<1>1. CASE states[k] = NoState
  <2>1. Suggesting(k, ceiling) = ColdStart(ceiling)
    BY <1>1 DEF Suggesting
  <2> DEFINE half == MaxThreads \div 2
             best == [layers |-> ceiling, threads |-> IF half > 0 THEN half ELSE 1]
  <2>2. best \in TunedConfigs(k) /\ best.layers = ceiling
    BY TunerAssumption DEF TunedConfigs, ThreadCounts
  <2>3. ColdStart(ceiling) = [pc |-> "tuned", best |-> best, exploring |-> best,
                              is_exploring |-> FALSE, timed |-> FALSE, stable |-> 0]
    BY DEF ColdStart
  <2> HIDE DEF best
  <2> QED
    BY <2>1, <2>2, <2>3 DEF Tuned
<1>2. CASE states[k] # NoState
  <2>1. /\ states[k] \in Tuned(k)
        /\ states[k].is_exploring => states[k].exploring.layers = states[k].best.layers
    BY <1>2 DEF TunerInv, StateOK
  <2>2. Good(obeyed)
    <3> DEFINE s == states[k]
    <3>1. /\ s.best \in TunedConfigs(k) /\ s.best.layers \in Nat /\ ceiling \in Nat
      BY <2>1 DEF Tuned, TunedConfigs
    <3>2. CASE s.best.layers > ceiling
      <4>1. [s.best EXCEPT !.layers = ceiling] \in TunedConfigs(k)
            /\ [s.best EXCEPT !.layers = ceiling].layers = ceiling
        BY <3>1 DEF TunedConfigs
      <4>2. obeyed = [s EXCEPT !.best = [s.best EXCEPT !.layers = ceiling],
                               !.is_exploring = FALSE]
        BY <2>1, <3>2 DEF Obey, Tuned
      <4>3. ASSUME NEW b \in TunedConfigs(k), b.layers = ceiling
            PROVE  Good([s EXCEPT !.best = b, !.is_exploring = FALSE])
        <5>1. ceiling <= ceiling
          BY <3>1
        <5>2. s \in Tuned(k)
          BY <2>1
        <5> DEFINE x == [s EXCEPT !.best = b, !.is_exploring = FALSE]
        <5> HIDE DEF s
        <5>3. x \in Tuned(k) /\ x.best = b /\ ~ x.is_exploring
          <6>1. x \in Tuned(k)
            BY <5>2 DEF Tuned
          <6>2. x.best = b /\ x.is_exploring = FALSE
            BY <5>2 DEF Tuned
          <6> QED
            BY <6>1, <6>2
        <5> HIDE DEF x
        <5>4. x.best.layers <= ceiling
          BY <4>3, <5>1, <5>3
        <5>5. Good(x)
          BY <5>3, <5>4
        <5> QED
          BY <5>5 DEF x
      <4> HIDE DEF Good, obeyed, s
      <4> QED
        BY <4>1, <4>2, <4>3
    <3>3. CASE ~ (s.best.layers > ceiling)
      BY <2>1, <3>1, <3>3 DEF Obey
    <3> QED
      BY <3>2, <3>3
  <2> HIDE DEF obeyed
  <2>3. Good(again)
    <3>1. ASSUME NEW x, x = [obeyed EXCEPT !.stable = 0, !.is_exploring = FALSE,
                                           !.timed = FALSE]
          PROVE  Good(x)
      BY <2>2, <3>1 DEF Tuned
    <3> HIDE DEF Good
    <3> QED
      BY <2>2, <3>1
  <2>4. Suggesting(k, ceiling) =
          IF again.is_exploring \/ again.stable < MinSamples THEN again
          ELSE [again EXCEPT !.is_exploring = TRUE, !.exploring = Explored(again.best)]
    BY <1>2 DEF Suggesting, obeyed
  <2> HIDE DEF again
  <2>5. Good([again EXCEPT !.is_exploring = TRUE, !.exploring = Explored(again.best)])
    <3>1. again.best \in TunedConfigs(k)
      BY <2>3 DEF Tuned
    <3>2. /\ Explored(again.best) \in TunedConfigs(k)
          /\ Explored(again.best).layers = again.best.layers
      BY <3>1, ExploredConfig
    <3> QED
      BY <2>3, <3>2 DEF Tuned
  <2> HIDE DEF Good
  <2>6. Good(Suggesting(k, ceiling))
    BY <2>3, <2>4, <2>5
  <2> QED
    BY <2>6 DEF Good
<1> QED
  BY <1>1, <1>2

\* recordResult: the explored configuration becomes the best one with the same layers.
LEMMA RecordedState ==
    ASSUME TunerInv, NEW k \in Keys, NEW success \in BOOLEAN, NEW faster \in BOOLEAN
    PROVE  LET s == Recorded(states[k], success, faster)
           IN  \/ s = NoState
               \/ /\ s \in Tuned(k)
                  /\ s.is_exploring => s.exploring.layers = s.best.layers
<1> DEFINE s == states[k]
           Good(x) == /\ x \in Tuned(k)
                      /\ x.is_exploring => x.exploring.layers = x.best.layers
<1>1. CASE s = NoState
  BY <1>1 DEF Recorded
<1>2. CASE s # NoState
  <2>1. Good(s)
    BY <1>2 DEF TunerInv, StateOK
  <2> HIDE DEF s
  <2>2. Good([s EXCEPT !.is_exploring = FALSE, !.stable = 0])
    BY <2>1 DEF Tuned
  <2>3. Good([s EXCEPT !.timed = TRUE, !.stable = s.stable + 1])
    <3>1. s.stable + 1 \in Nat
      BY <2>1 DEF Tuned
    <3>2. ASSUME NEW n \in Nat PROVE Good([s EXCEPT !.timed = TRUE, !.stable = n])
      BY <2>1 DEF Tuned
    <3> HIDE DEF Good
    <3> QED
      BY <3>1, <3>2
  <2>4. Good([s EXCEPT !.timed = TRUE, !.is_exploring = FALSE])
    BY <2>1 DEF Tuned
  <2>5. Good([s EXCEPT !.best = IF faster THEN s.exploring ELSE s.best,
                       !.is_exploring = FALSE, !.stable = 0])
    <3>1. (IF faster THEN s.exploring ELSE s.best) \in TunedConfigs(k)
      BY <2>1 DEF Tuned
    <3>2. ASSUME NEW b \in TunedConfigs(k)
          PROVE  Good([s EXCEPT !.best = b, !.is_exploring = FALSE, !.stable = 0])
      <4> DEFINE x == [s EXCEPT !.best = b, !.is_exploring = FALSE, !.stable = 0]
      <4>1. x \in Tuned(k)
        BY <2>1 DEF Tuned
      <4>2. x.is_exploring = FALSE
        BY <2>1 DEF Tuned
      <4> HIDE DEF x
      <4>3. Good(x)
        BY <4>1, <4>2
      <4> QED
        BY <4>3 DEF x
    <3> HIDE DEF Good
    <3> QED
      BY <3>1, <3>2
  <2>6. Good(Recorded(s, success, faster))
    <3> HIDE DEF Good
    <3> QED
      BY <1>2, <2>1, <2>2, <2>3, <2>4, <2>5 DEF Recorded
  <2> QED
    BY <2>6 DEF s
<1> QED
  BY <1>1, <1>2

-----------------------------------------------------------------------------
(* Every step keeps the invariant *)

LEMMA StatsUpdated ==
    ASSUME NEW stats \in Stats, NEW success \in BOOLEAN, NEW regression \in BOOLEAN
    PROVE  updateStats(stats, success, regression) \in Stats
<1> DEFINE r == IF stats.ema /\ stats.samples + 1 > RegressionSamples THEN regression
                ELSE stats.regression
<1>1. r \in BOOLEAN
  BY DEF Stats
<1>2. CASE ~ success
  <2>1. stats.samples + 1 \in Nat /\ stats.failures + 1 \in Nat
    BY DEF Stats
  <2>2. ASSUME NEW n \in Nat, NEW f \in Nat
        PROVE  [stats EXCEPT !.samples = n, !.failures = f] \in Stats
    BY DEF Stats
  <2>3. updateStats(stats, success, regression) =
          [stats EXCEPT !.samples = stats.samples + 1, !.failures = stats.failures + 1]
    BY <1>2 DEF updateStats
  <2> QED
    BY <2>1, <2>2, <2>3
<1>3. CASE success
  <2>1. updateStats(stats, success, regression) =
          [stats EXCEPT !.samples = stats.samples + 1, !.ema = TRUE, !.regression = r]
    BY <1>3 DEF updateStats
  <2>2. stats.samples + 1 \in Nat
    BY DEF Stats
  <2>3. ASSUME NEW n \in Nat, NEW x \in BOOLEAN
        PROVE  [stats EXCEPT !.samples = n, !.ema = TRUE, !.regression = x] \in Stats
    BY DEF Stats
  <2> HIDE DEF r
  <2> QED
    BY <1>1, <2>1, <2>2, <2>3
<1> QED
  BY <1>2, <1>3

LEMMA Resolve ==
    ASSUME TunerInv, NEW c \in Callers, NEW critical \in BOOLEAN,
           resolveAndApplyConfig(c, critical)
    PROVE  TunerInv'
<1> DEFINE ceiling == selectStrategy(critical)
           key == IF ceiling = 0 THEN "CPU" ELSE "VULKAN"
           s == Suggesting(key, ceiling)
           tcfg == IF s.is_exploring THEN s.exploring ELSE s.best
           clamped == [tcfg EXCEPT !.layers = IF tcfg.layers > ceiling THEN ceiling
                                              ELSE tcfg.layers]
           answer == [pc |-> "runs", ceiling |-> ceiling, tuned |-> key, suggested |-> tcfg,
                      key |-> IF clamped.layers = 0 THEN "CPU" ELSE "VULKAN"]
<1>1. /\ states' = [states EXCEPT ![key] = s]
      /\ request' = [request EXCEPT ![c] = answer]
      /\ UNCHANGED <<gpuMem, cuda, modelSize, profiles, saved, disturbed>>
  BY DEF resolveAndApplyConfig
<1>2. ceiling \in Nat
  BY CeilingIsNatural DEF TunerInv
<1> HIDE DEF ceiling
<1>3. key \in Keys /\ ceiling \in LayersOf(key) /\ LayersOf(key) \subseteq Nat
  BY <1>2 DEF Keys, LayersOf
<1>4. ceiling = 0 <=> key = "CPU"
  OBVIOUS
<1> HIDE DEF key
<1>5. /\ s \in Tuned(key) /\ s.best.layers <= ceiling
      /\ s.is_exploring => s.exploring.layers = s.best.layers
  BY <1>3, SuggestionFits
<1> HIDE DEF s
<1>6. tcfg \in TunedConfigs(key) /\ tcfg.layers <= ceiling
  BY <1>5 DEF Tuned
<1> HIDE DEF tcfg
<1>7. /\ tcfg.layers \in LayersOf(key) /\ tcfg.layers \in Nat /\ tcfg.threads \in ThreadCounts
      /\ tcfg \in [layers : Nat, threads : ThreadCounts]
  BY <1>3, <1>6 DEF TunedConfigs
<1>8. clamped.layers = tcfg.layers
  BY <1>2, <1>6, <1>7 DEF TunedConfigs
<1> HIDE DEF clamped
<1>9. (IF clamped.layers = 0 THEN "CPU" ELSE "VULKAN") = key
  BY <1>3, <1>7, <1>8 DEF LayersOf, Keys
<1>10. /\ answer \in Answered /\ answer.suggested.layers <= answer.ceiling
       /\ answer.key = answer.tuned
  BY <1>2, <1>3, <1>6, <1>7, <1>9 DEF Answered
<1> HIDE DEF answer
<1>11. ASSUME NEW k \in Keys PROVE StateOK(k)'
  BY <1>1, <1>3, <1>5 DEF TunerInv, StateOK
<1>12. ASSUME NEW d \in Callers PROVE RequestOK(d)'
  BY <1>1, <1>10 DEF TunerInv, RequestOK
<1> QED
  BY <1>1, <1>11, <1>12 DEF TunerInv, MachineOK

LEMMA Record ==
    ASSUME TunerInv, NEW c \in Callers, NEW success \in BOOLEAN, NEW faster \in BOOLEAN,
           NEW regression \in BOOLEAN, RecordResult(c, success, faster, regression)
    PROVE  TunerInv'
<1> DEFINE key == request[c].key
<1>1. /\ profiles' = [profiles EXCEPT ![key] = updateStats(profiles[key], success, regression)]
      /\ states' = [states EXCEPT ![key] = Recorded(states[key], success, faster)]
      /\ saved' = profiles' /\ request' = [request EXCEPT ![c] = Idle]
      /\ UNCHANGED <<gpuMem, cuda, modelSize>> /\ request[c].pc = "runs"
  BY DEF RecordResult
<1>2. key \in Keys
  BY <1>1 DEF TunerInv, RequestOK, Idle, Answered
<1> HIDE DEF key
<1>3. updateStats(profiles[key], success, regression) \in Stats
  BY <1>2, StatsUpdated DEF TunerInv, MachineOK
<1>4. MachineOK'
  BY <1>1, <1>2, <1>3 DEF TunerInv, MachineOK
<1>5. ASSUME NEW k \in Keys PROVE StateOK(k)'
  BY <1>1, <1>2, RecordedState DEF TunerInv, StateOK
<1>6. ASSUME NEW d \in Callers PROVE RequestOK(d)'
  BY <1>1 DEF TunerInv, RequestOK
<1> QED
  BY <1>1, <1>4, <1>5, <1>6 DEF TunerInv

LEMMA TunerStep == TunerInv /\ [TunerNext]_tunerVars => TunerInv'
<1> SUFFICES ASSUME TunerInv, [TunerNext]_tunerVars PROVE TunerInv'
  OBVIOUS
<1>1. ASSUME NEW c \in Callers, NEW critical \in BOOLEAN, resolveAndApplyConfig(c, critical)
      PROVE  TunerInv'
  BY <1>1, Resolve
<1>2. ASSUME NEW c \in Callers, NEW success \in BOOLEAN, NEW faster \in BOOLEAN,
             NEW regression \in BOOLEAN, RecordResult(c, success, faster, regression)
      PROVE  TunerInv'
  BY <1>2, Record
<1>3. ASSUME NEW c \in Callers, NoResult(c) PROVE TunerInv'
  BY <1>3 DEF NoResult, TunerInv, MachineOK, StateOK, RequestOK
<1>4. ASSUME NEW size \in ModelSizes, ReplaceModel(size) PROVE TunerInv'
  BY <1>4 DEF ReplaceModel, TunerInv, MachineOK, StateOK, RequestOK
<1>5. ASSUME NEW written \in SUBSET Keys, Restart(written) PROVE TunerInv'
  <2>1. NoStats \in Stats
    BY DEF NoStats, Stats
  <2> QED
    BY <1>5, <2>1 DEF Restart, TunerInv, MachineOK, StateOK, RequestOK
<1>6. CASE UNCHANGED tunerVars
  BY <1>6 DEF tunerVars, TunerInv, MachineOK, StateOK, RequestOK
<1> QED
  BY <1>1, <1>2, <1>3, <1>4, <1>5, <1>6 DEF TunerNext

-----------------------------------------------------------------------------
(* The graph: adj and rev_adj are the two sides of the same edges.          *)

Lists(s, S) == s \in Seq(S) /\ \A i, j \in DOMAIN s : s[i] = s[j] => i = j

GraphOK ==
    /\ IsFiniteSet(nodes)
    /\ DOMAIN adj = nodes /\ DOMAIN rev_adj = nodes
    /\ \A n \in nodes : Lists(adj[n], nodes) /\ Lists(rev_adj[n], nodes)
    /\ \A p, s \in nodes : s \in Elems(adj[p]) <=> p \in Elems(rev_adj[s])

\* What a list has after an element that is new to it has been appended.
LEMMA Pushed ==
    ASSUME NEW S, NEW x \in S, NEW s, Lists(s, S)
    PROVE  Lists(PushNew(s, x), S) /\ Elems(PushNew(s, x)) = Elems(s) \cup {x}
  <1>1. CASE x \in Elems(s) BY <1>1 DEF PushNew
  <1>2. CASE x \notin Elems(s)
    <2> DEFINE n == Len(s)
               t == Append(s, x)
    <2>1. PushNew(s, x) = t BY <1>2 DEF PushNew
    <2>2. s \in Seq(S) /\ n \in Nat /\ DOMAIN s = 1..n BY DEF Lists
    <2>3. /\ t \in Seq(S) /\ DOMAIN t = 1..(n + 1) /\ t[n + 1] = x
          /\ \A i \in 1..n : t[i] = s[i]
      BY <2>2
    <2> HIDE DEF t, n
    <2>4. \A i \in 1..n : s[i] # x BY <1>2, <2>2 DEF Elems
    <2>5. ASSUME NEW i \in DOMAIN t, NEW j \in DOMAIN t, t[i] = t[j] PROVE i = j
      <3>1. i \in 1..n \/ i = n + 1 BY <2>2, <2>3
      <3>2. j \in 1..n \/ j = n + 1 BY <2>2, <2>3
      <3>3. CASE i \in 1..n /\ j \in 1..n BY <2>2, <2>3, <2>5, <3>3 DEF Lists
      <3> QED BY <2>3, <2>4, <2>5, <3>1, <3>2, <3>3
    <2>6. Elems(t) = Elems(s) \cup {x}
      <3>1. \A i \in DOMAIN t : t[i] \in Elems(s) \cup {x} BY <2>2, <2>3 DEF Elems
      <3>2. \A i \in DOMAIN s : i \in DOMAIN t /\ t[i] = s[i] BY <2>2, <2>3
      <3>3. n + 1 \in DOMAIN t BY <2>2, <2>3
      <3> QED BY <2>3, <3>1, <3>2, <3>3 DEF Elems
    <2> QED BY <2>1, <2>3, <2>5, <2>6 DEF Lists
  <1> QED BY <1>1, <1>2

LEMMA NodeAdded ==
    ASSUME GraphOK, NEW n, addNode(n) PROVE GraphOK'
  <1>1. IsFiniteSet(nodes') BY FS_AddElement DEF GraphOK, addNode
  <1>2. ASSUME NEW s, Lists(s, nodes) PROVE Lists(s, nodes')
    <2>1. s \in Seq(nodes') BY <1>2 DEF Lists, addNode
    <2> QED BY <1>2, <2>1 DEF Lists
  <1>3. Lists(<<>>, nodes') BY DEF Lists
  <1>4. /\ DOMAIN adj' = nodes' /\ DOMAIN rev_adj' = nodes'
        /\ \A m \in nodes' : /\ adj'[m] = IF m \in nodes THEN adj[m] ELSE <<>>
                             /\ rev_adj'[m] = IF m \in nodes THEN rev_adj[m] ELSE <<>>
    BY DEF addNode
  <1>5. ASSUME NEW m \in nodes' PROVE Lists(adj'[m], nodes') /\ Lists(rev_adj'[m], nodes')
    BY <1>2, <1>3, <1>4 DEF GraphOK
  <1>6. Elems(<<>>) = {} BY DEF Elems
  <1>7. \A m \in nodes : Elems(adj[m]) \subseteq nodes /\ Elems(rev_adj[m]) \subseteq nodes
    BY DEF GraphOK, Lists, Elems
  <1>8. ASSUME NEW p \in nodes', NEW s \in nodes'
        PROVE  s \in Elems(adj'[p]) <=> p \in Elems(rev_adj'[s])
    BY <1>4, <1>6, <1>7 DEF GraphOK
  <1> QED BY <1>1, <1>4, <1>5, <1>8 DEF GraphOK

LEMMA EdgeAdded ==
    ASSUME GraphOK, NEW p, NEW s, addDependency(p, s) PROVE GraphOK'
  <1>1. p \in nodes /\ s \in nodes /\ nodes' = nodes BY DEF addDependency
  <1>2. /\ DOMAIN adj' = nodes /\ DOMAIN rev_adj' = nodes
        /\ adj'[p] = PushNew(adj[p], s) /\ \A m \in nodes \ {p} : adj'[m] = adj[m]
        /\ rev_adj'[s] = PushNew(rev_adj[s], p) /\ \A m \in nodes \ {s} : rev_adj'[m] = rev_adj[m]
    BY <1>1 DEF addDependency, GraphOK
  <1>3. /\ Lists(adj'[p], nodes) /\ Elems(adj'[p]) = Elems(adj[p]) \cup {s}
        /\ Lists(rev_adj'[s], nodes) /\ Elems(rev_adj'[s]) = Elems(rev_adj[s]) \cup {p}
    BY <1>1, <1>2, Pushed DEF GraphOK
  <1>4. \A m \in nodes : Lists(adj'[m], nodes) /\ Lists(rev_adj'[m], nodes) BY <1>2, <1>3 DEF GraphOK
  <1>6. ASSUME NEW x \in nodes, NEW y \in nodes
        PROVE  y \in Elems(adj'[x]) <=> x \in Elems(rev_adj'[y])
    <2>1. y \in Elems(adj'[x]) <=> y \in Elems(adj[x]) \/ (x = p /\ y = s) BY <1>1, <1>2, <1>3
    <2>2. x \in Elems(rev_adj'[y]) <=> x \in Elems(rev_adj[y]) \/ (x = p /\ y = s) BY <1>1, <1>2, <1>3
    <2> QED BY <2>1, <2>2 DEF GraphOK
  <1> QED BY <1>1, <1>2, <1>4, <1>6 DEF GraphOK

LEMMA UpTo ==
    ASSUME NEW n \in Nat PROVE IsFiniteSet(1..n) /\ Cardinality(1..n) = n
  <1>1. n \in Int /\ 1 \in Int OBVIOUS
  <1>2. IsFiniteSet(1..n) /\ Cardinality(1..n) = IF 1 > n THEN 0 ELSE n - 1 + 1 BY <1>1, FS_Interval
  <1> QED BY <1>2

\* A list without repetitions is no longer than there are nodes.
LEMMA ListBounded ==
    ASSUME IsFiniteSet(nodes), NEW s, Lists(s, nodes) PROVE Len(s) <= Cardinality(nodes)
  <1>1. s \in Injection(1..Len(s), nodes) BY DEF Lists, Injection, IsInjective
  <1>2. Len(s) \in Nat BY DEF Lists
  <1>3. Cardinality(1..Len(s)) = Len(s) BY <1>2, UpTo
  <1> QED BY <1>1, <1>3, FS_Injection

\* How often n is a successor, and how many predecessors it has.
LEMMA InDegrees ==
    ASSUME GraphOK, NEW n \in nodes
    PROVE  Len(rev_adj[n]) = Cardinality({e \in nodes \X (1..Cardinality(nodes)) :
                                            e[2] \in DOMAIN adj[e[1]] /\ adj[e[1]][e[2]] = n})
  <1> DEFINE E == {e \in nodes \X (1..Cardinality(nodes)) :
                       e[2] \in DOMAIN adj[e[1]] /\ adj[e[1]][e[2]] = n}
             D == 1..Len(rev_adj[n])
             At(p) == CHOOSE i \in DOMAIN adj[p] : adj[p][i] = n
             f == [k \in D |-> <<rev_adj[n][k], At(rev_adj[n][k])>>]
  <1>1. /\ rev_adj[n] \in Seq(nodes) /\ Len(rev_adj[n]) \in Nat /\ DOMAIN rev_adj[n] = D
        /\ \A i, j \in D : rev_adj[n][i] = rev_adj[n][j] => i = j
        /\ \A k \in D : rev_adj[n][k] \in nodes
    BY SMTT(20) DEF GraphOK, Lists
  <1>2. \A k \in D : n \in Elems(adj[rev_adj[n][k]]) BY <1>1 DEF GraphOK, Elems
  <1>3. \A k \in D : /\ At(rev_adj[n][k]) \in DOMAIN adj[rev_adj[n][k]]
                     /\ adj[rev_adj[n][k]][At(rev_adj[n][k])] = n
    BY <1>2 DEF Elems
  <1>4. \A p \in nodes : /\ DOMAIN adj[p] = 1..Len(adj[p]) /\ Len(adj[p]) \in Nat
                         /\ Len(adj[p]) <= Cardinality(nodes)
    BY ListBounded DEF GraphOK, Lists
  <1>5. Cardinality(nodes) \in Nat BY FS_CardinalityType DEF GraphOK
  <1>6. \A p \in nodes : DOMAIN adj[p] \subseteq 1..Cardinality(nodes) BY <1>4, <1>5
  <1> HIDE DEF At, D
  <1>7. \A k \in D : <<rev_adj[n][k], At(rev_adj[n][k])>> \in E BY <1>1, <1>3, <1>6
  <1>8. f \in [D -> E] BY <1>7
  <1>9. \A j, k \in D : f[j] = f[k] => j = k BY <1>1
  <1>10. ASSUME NEW e \in E PROVE \E k \in D : f[k] = e
    <2>1. /\ e[1] \in nodes /\ e[2] \in DOMAIN adj[e[1]] /\ adj[e[1]][e[2]] = n
          /\ e = <<e[1], e[2]>>
      OBVIOUS
    <2>2. n \in Elems(adj[e[1]]) BY <2>1 DEF Elems
    <2>3. e[1] \in Elems(rev_adj[n]) BY <2>1, <2>2 DEF GraphOK
    <2>4. PICK k \in D : rev_adj[n][k] = e[1] BY <1>1, <2>3 DEF Elems
    <2>5. At(e[1]) = e[2]
      <3>1. \A i, j \in DOMAIN adj[e[1]] : adj[e[1]][i] = adj[e[1]][j] => i = j
        BY <2>1 DEF GraphOK, Lists
      <3>2. At(e[1]) \in DOMAIN adj[e[1]] /\ adj[e[1]][At(e[1])] = n BY <2>1 DEF At
      <3> QED BY <2>1, <3>1, <3>2
    <2> QED BY <2>1, <2>4, <2>5
  <1> HIDE DEF E, f
  <1>11. f \in Bijection(D, E)
    BY <1>8, <1>9, <1>10 DEF Bijection, Injection, Surjection, IsInjective
  <1>12. IsFiniteSet(D) /\ Cardinality(D) = Len(rev_adj[n]) BY <1>1, FS_Interval DEF D
  <1>13. Cardinality(E) = Cardinality(D) BY <1>11, <1>12, FS_Bijection DEF ExistsBijection
  <1> QED BY <1>12, <1>13 DEF E

-----------------------------------------------------------------------------
(* The search: a node that was visited is on no cycle, the nodes that are   *)
(* being visited are the ones of the calls, and each call but the last was  *)
(* interrupted at the successor the next one is for.                        *)

Frame == [node : nodes, next : Nat \ {0}]

\* No set of visited nodes is without a first one, and nothing leads out of them.
Visited(state) ==
    /\ \A n \in nodes : state[n] = 2 => \A m \in Elems(adj[n]) : state[m] = 2
    /\ \A S \in SUBSET {n \in nodes : state[n] = 2} :
          S # {} => \E n \in S : \A m \in S : n \notin Elems(adj[m])

Calls(state, frames) ==
    /\ \A i, j \in DOMAIN frames : frames[i].node = frames[j].node => i = j
    /\ \A n \in nodes : state[n] = 1 <=> \E i \in DOMAIN frames : frames[i].node = n

\* A call that waits for the one for node n, and one that waits for none.
Interrupted(state, f, n) ==
    /\ f.next > 1 /\ f.next <= Len(adj[f.node]) + 1 /\ adj[f.node][f.next - 1] = n
    /\ \A k \in 1..Len(adj[f.node]) : k < f.next - 1 => state[adj[f.node][k]] = 2

Current(state, f) ==
    /\ f.next <= Len(adj[f.node]) + 1
    /\ \A k \in 1..Len(adj[f.node]) : k < f.next => state[adj[f.node][k]] = 2

Stacked(state, frames) ==
    \A i \in 1..Len(frames) : IF i = Len(frames) THEN Current(state, frames[i])
                               ELSE Interrupted(state, frames[i], frames[i + 1].node)

SearchOK(state, frames) ==
    /\ state \in [nodes -> 0..2] /\ frames \in Seq(Frame)
    /\ Visited(state) /\ Calls(state, frames) /\ Stacked(state, frames)

Shaped(r) == r \in [pc : {r.pc}, state : {r.state}, frames : {r.frames}]

ValidateOK ==
    /\ Shaped(search)
    /\ search.pc \in {"none", "search", "valid", "cycle"}
    /\ search.pc = "search" => SearchOK(search.state, search.frames)
    /\ search.pc = "valid" => Acyclic
    /\ search.pc = "cycle" => ~Acyclic

LEMMA Successors ==
    ASSUME GraphOK, NEW n \in nodes
    PROVE  /\ Len(adj[n]) \in Nat /\ DOMAIN adj[n] = 1..Len(adj[n])
           /\ \A k \in 1..Len(adj[n]) : adj[n][k] \in nodes
           /\ Elems(adj[n]) \subseteq nodes
           /\ Elems(adj[n]) = {adj[n][k] : k \in 1..Len(adj[n])}
  <1>1. adj[n] \in Seq(nodes) BY DEF GraphOK, Lists
  <1> QED BY <1>1 DEF Elems

\* dfs is called for a node that is unvisited.
Calling(state, frames, m) ==
    /\ state \in [nodes -> 0..2] /\ frames \in Seq(Frame)
    /\ Visited(state) /\ Calls(state, frames) /\ state[m] = 0
    /\ \A i \in 1..Len(frames) :
           Interrupted(state, frames[i], IF i = Len(frames) THEN m ELSE frames[i + 1].node)

LEMMA CallMade ==
    ASSUME GraphOK, NEW state, NEW frames, NEW m \in nodes, Calling(state, frames, m)
    PROVE  SearchOK([state EXCEPT ![m] = 1], Called(frames, m))
  <1> DEFINE L == Len(frames)
             new == [node |-> m, next |-> 1]
             fs == Called(frames, m)
             st == [state EXCEPT ![m] = 1]
  <1>1. L \in Nat /\ DOMAIN frames = 1..L /\ L = Len(frames)
        /\ frames \in Seq(Frame) /\ \A i \in 1..L : frames[i] \in Frame
    BY DEF Calling
  <1> HIDE DEF L
  <1>2. \A i \in 1..L : frames[i].node \in nodes /\ frames[i].next \in Nat \ {0}
    BY <1>1 DEF Frame
  <1>3. new \in Frame /\ new.node = m /\ new.next = 1 BY DEF Frame
  <1> HIDE DEF new
  <1>4. /\ fs \in Seq(Frame) /\ Len(fs) = L + 1 /\ DOMAIN fs = 1..(L + 1) /\ fs[L + 1] = new
        /\ \A i \in 1..L : fs[i] = frames[i]
    <2>1. fs = Append(frames, new) BY DEF Called, new
    <2> QED BY <1>1, <1>3, <2>1
  <1>5. st \in [nodes -> 0..2] /\ st[m] = 1 /\ \A n \in nodes : n # m => st[n] = state[n]
    BY DEF Calling
  <1>12. state[m] = 0 BY DEF Calling
  <1>13. st[m] = 1 BY <1>5
  <1>14. \A n \in nodes : n # m => st[n] = state[n] BY <1>5
  <1> HIDE DEF fs, st
  <1>6. ASSUME NEW n \in nodes PROVE st[n] = 2 <=> state[n] = 2
    <2>1. CASE n = m BY <1>13, <1>12, <2>1
    <2>2. CASE n # m BY <1>14, <2>2, SMTT(20)
    <2> QED BY <2>1, <2>2
  <1>0. L \in Nat /\ Calls(state, frames) BY <1>1 DEF Calling
  <1>7. Visited(st)
    <2>1. {n \in nodes : st[n] = 2} = {n \in nodes : state[n] = 2} BY <1>6
    <2>2. ASSUME NEW n \in nodes, st[n] = 2, NEW k \in Elems(adj[n]) PROVE st[k] = 2
      BY <1>6, <2>2, Successors DEF Calling, Visited
    <2> QED BY <2>1, <2>2 DEF Calling, Visited
  <1>8. \A i \in 1..L : frames[i].node # m BY <1>0, <1>1, <1>2, <1>12 DEF Calls
  <1>9. Calls(st, fs)
    <2>1. ASSUME NEW i \in 1..(L + 1), NEW j \in 1..(L + 1), fs[i].node = fs[j].node PROVE i = j
      <3>1. (i \in 1..L \/ i = L + 1) /\ (j \in 1..L \/ j = L + 1) BY <1>1
      <3>2. CASE i \in 1..L /\ j \in 1..L BY <1>0, <1>1, <1>4, <2>1, <3>2 DEF Calls
      <3> QED BY <1>3, <1>4, <1>8, <2>1, <3>1, <3>2
    <2>2. ASSUME NEW n \in nodes PROVE st[n] = 1 <=> \E i \in 1..(L + 1) : fs[i].node = n
      <3>1. CASE n = m BY <1>1, <1>3, <1>4, <1>5, <3>1
      <3>2. CASE n # m
        <4>1. st[n] = 1 <=> \E i \in 1..L : frames[i].node = n BY <1>0, <1>1, <1>5, <3>2 DEF Calls
        <4>2. \A i \in 1..(L + 1) : fs[i].node = n <=> i \in 1..L /\ frames[i].node = n BY <1>1, <1>3, <1>4, <3>2
        <4> QED BY <1>1, <4>1, <4>2
      <3> QED BY <3>1, <3>2
    <2> QED BY <1>4, <2>1, <2>2 DEF Calls
  <1>10. Stacked(st, fs)
    <2>1. Current(st, fs[L + 1])
      <3>1. Len(adj[m]) \in Nat BY Successors
      <3> QED BY <1>3, <1>4, <3>1 DEF Current
    <2>2. ASSUME NEW i \in 1..L PROVE Interrupted(st, fs[i], fs[i + 1].node)
      <3> DEFINE f == frames[i]
                 n == IF i = L THEN m ELSE frames[i + 1].node
      <3>0. fs[i] = f BY <1>4
      <3>1. f.node \in nodes /\ fs[i] = f BY <1>2, <3>0, SMTT(20)
      <3>2. Interrupted(state, f, n) BY <1>1 DEF Calling
      <3>3. fs[i + 1].node = n
        <4>1. CASE i = L BY <1>3, <1>4, <4>1
        <4>2. CASE i # L
          <5>1. i + 1 \in 1..L BY <1>0, <4>2
          <5> QED BY <1>4, <4>2, <5>1
        <4> QED BY <4>1, <4>2
      <3> HIDE DEF f, n
      <3>4. \A k \in 1..Len(adj[f.node]) : st[adj[f.node][k]] = 2 <=> state[adj[f.node][k]] = 2
        BY <1>6, <3>1, Successors
      <3> QED BY <3>1, <3>2, <3>3, <3>4 DEF Interrupted
    <2> QED BY <1>1, <1>4, <2>1, <2>2 DEF Stacked
  <1>11. SearchOK(st, fs) BY <1>4, <1>5, <1>7, <1>9, <1>10 DEF SearchOK
  <1> QED BY <1>11 DEF st, fs

\* The call of the last frame goes on.
LEMMA Advances ==
    ASSUME GraphOK, SearchOK(search.state, search.frames), search.frames # <<>>
    PROVE  LET L == Len(search.frames)
           IN  /\ L \in Nat \ {0} /\ DOMAIN search.frames = 1..L
               /\ Advanced \in Seq(Frame) /\ Len(Advanced) = L
               /\ \A i \in 1..L : Advanced[i].node = search.frames[i].node
               /\ \A i \in 1..L : i # L => Advanced[i] = search.frames[i]
               /\ Advanced[L].next = Top.next + 1
               /\ Top \in Frame /\ Top.node \in nodes /\ Top.next \in Nat \ {0}
               /\ Current(search.state, Top)
               /\ Calls(search.state, Advanced)
  <1> DEFINE frames == search.frames
             L == Len(frames)
             t == frames[L]
             u == [t EXCEPT !.next = t.next + 1]
  <1>1. frames \in Seq(Frame) BY DEF SearchOK
  <1>2. L \in Nat \ {0} /\ DOMAIN frames = 1..L BY <1>1
  <1>3. t \in Frame /\ Top = t BY <1>1, <1>2 DEF Top
  <1>4. t.node \in nodes /\ t.next \in Nat \ {0} BY <1>3 DEF Frame
  <1>5. u \in Frame /\ u.node = t.node /\ u.next = t.next + 1
    <2> HIDE DEF t
    <2>1. t.next + 1 \in Nat \ {0} BY <1>4
    <2>2. ASSUME NEW x \in Nat \ {0}
          PROVE  [t EXCEPT !.next = x] \in Frame /\ [t EXCEPT !.next = x].node = t.node
                 /\ [t EXCEPT !.next = x].next = x
      BY <1>3 DEF Frame
    <2> QED BY <2>1, <2>2
  <1>6. Advanced = [frames EXCEPT ![L] = u] BY SMTT(20) DEF Advanced
  <1> HIDE DEF u, t, L, frames
  <1>7. /\ Advanced \in Seq(Frame) /\ Len(Advanced) = L /\ Advanced[L] = u
        /\ \A i \in 1..L : i # L => Advanced[i] = frames[i]
    <2>1. L \in 1..Len(frames) /\ L = Len(frames) BY <1>2 DEF L
    <2>2. /\ [frames EXCEPT ![L] = u] \in Seq(Frame)
          /\ Len([frames EXCEPT ![L] = u]) = Len(frames)
          /\ \A j \in 1..Len(frames) : [frames EXCEPT ![L] = u][j] = IF j = L THEN u ELSE frames[j]
      BY <1>1, <1>5, <2>1, ExceptSeq
    <2> QED BY <1>2, <1>6, <2>1, <2>2
  <1>8. \A i \in 1..L : Advanced[i].node = frames[i].node BY <1>2, <1>5, <1>7 DEF t
  <1>9. DOMAIN Advanced = 1..L BY <1>7
  <1>10. Calls(search.state, Advanced) BY <1>2, <1>8, <1>9 DEF SearchOK, Calls, frames
  <1>11. Current(search.state, Top) BY <1>2, <1>3 DEF SearchOK, Stacked, frames, t, L
  <1> QED BY <1>2, <1>3, <1>4, <1>5, <1>7, <1>8, <1>10, <1>11 DEF frames, L

\* A successor that was visited is passed over.
LEMMA Passed ==
    ASSUME GraphOK, SearchOK(search.state, search.frames), search.frames # <<>>,
           Top.next <= Len(adj[Top.node]), search.state[adj[Top.node][Top.next]] = 2
    PROVE  SearchOK(search.state, Advanced)
  <1> DEFINE L == Len(search.frames)
             t == Top.node
             x == Top.next
  <1>1. /\ L \in Nat \ {0} /\ Advanced \in Seq(Frame) /\ Len(Advanced) = L
        /\ \A i \in 1..L : Advanced[i].node = search.frames[i].node
        /\ \A i \in 1..L : i # L => Advanced[i] = search.frames[i]
        /\ Advanced[L].next = x + 1 /\ t \in nodes /\ x \in Nat \ {0}
        /\ Current(search.state, Top) /\ Calls(search.state, Advanced)
    BY Advances
  <1>2. Len(adj[t]) \in Nat BY <1>1, Successors
  <1>3. Advanced[L].node = t BY <1>1 DEF Top
  <1>4. /\ x <= Len(adj[t]) /\ search.state[adj[t][x]] = 2
        /\ \A k \in 1..Len(adj[t]) : k < x => search.state[adj[t][k]] = 2
    BY <1>1 DEF Current
  <1> HIDE DEF L, t, x
  <1>5. Current(search.state, Advanced[L])
    <2>1. \A k \in 1..Len(adj[t]) : k < x + 1 => search.state[adj[t][k]] = 2
      <3> TAKE k \in 1..Len(adj[t])
      <3>1. k < x + 1 => k < x \/ k = x BY <1>1, <1>2
      <3> QED BY <1>4, <3>1
    <2>2. x + 1 <= Len(adj[t]) + 1 BY <1>1, <1>2, <1>4
    <2> QED BY <1>1, <1>3, <2>1, <2>2 DEF Current
  <1>6. Stacked(search.state, Advanced)
    <2>1. ASSUME NEW i \in 1..L, i # L
          PROVE  Interrupted(search.state, Advanced[i], Advanced[i + 1].node)
      <3>1. i + 1 \in 1..L BY <1>1, <2>1
      <3>2. Interrupted(search.state, search.frames[i], search.frames[i + 1].node)
        BY <2>1 DEF SearchOK, Stacked, L
      <3> QED BY <1>1, <2>1, <3>1, <3>2
    <2> QED BY <1>1, <1>5, <2>1 DEF Stacked
  <1> QED BY <1>1, <1>6 DEF SearchOK

\* A successor that is unvisited interrupts the call.
LEMMA Descends ==
    ASSUME GraphOK, SearchOK(search.state, search.frames), search.frames # <<>>,
           Top.next <= Len(adj[Top.node]), search.state[adj[Top.node][Top.next]] = 0
    PROVE  Calling(search.state, Advanced, adj[Top.node][Top.next])
  <1> DEFINE L == Len(search.frames)
             t == Top.node
             x == Top.next
             m == adj[t][x]
  <1>1. /\ L \in Nat \ {0} /\ Advanced \in Seq(Frame) /\ Len(Advanced) = L
        /\ \A i \in 1..L : Advanced[i].node = search.frames[i].node
        /\ \A i \in 1..L : i # L => Advanced[i] = search.frames[i]
        /\ Advanced[L].next = x + 1 /\ t \in nodes /\ x \in Nat \ {0}
        /\ Current(search.state, Top) /\ Calls(search.state, Advanced)
    BY Advances
  <1>2. Len(adj[t]) \in Nat BY <1>1, Successors
  <1>3. Advanced[L].node = t BY <1>1 DEF Top
  <1>4. /\ x <= Len(adj[t]) /\ search.state[m] = 0
        /\ \A k \in 1..Len(adj[t]) : k < x => search.state[adj[t][k]] = 2
    BY <1>1 DEF Current
  <1>5. adj[t][(x + 1) - 1] = m
    <2>1. (x + 1) - 1 = x BY <1>1
    <2> QED BY <2>1
  <1> HIDE DEF L, t, x, m
  <1>6. Interrupted(search.state, Advanced[L], m)
    <2>1. x + 1 > 1 /\ x + 1 <= Len(adj[t]) + 1 BY <1>1, <1>2, <1>4
    <2>2. \A k \in 1..Len(adj[t]) : k < (x + 1) - 1 => k < x BY <1>1, <1>2
    <2> QED BY <1>1, <1>3, <1>4, <1>5, <2>1, <2>2 DEF Interrupted
  <1>7. ASSUME NEW i \in 1..L, i # L
        PROVE  Interrupted(search.state, Advanced[i], Advanced[i + 1].node)
    <2>1. i + 1 \in 1..L BY <1>1, <1>7
    <2>2. Interrupted(search.state, search.frames[i], search.frames[i + 1].node)
      BY <1>7 DEF SearchOK, Stacked, L
    <2> QED BY <1>1, <1>7, <2>1, <2>2
  <1>8. \A i \in 1..Len(Advanced) :
           Interrupted(search.state, Advanced[i], IF i = Len(Advanced) THEN m ELSE Advanced[i + 1].node)
    BY <1>1, <1>6, <1>7
  <1>9. search.state \in [nodes -> 0..2] /\ Visited(search.state) BY DEF SearchOK
  <1>10. Calling(search.state, Advanced, m) BY <1>1, <1>4, <1>8, <1>9 DEF Calling
  <1> QED BY <1>10 DEF m, t, x

\* A call returns: its node is a successor of no node that was visited.
LEMMA CallReturns ==
    ASSUME GraphOK, SearchOK(search.state, search.frames), search.frames # <<>>,
           Top.next > Len(adj[Top.node])
    PROVE  SearchOK([search.state EXCEPT ![Top.node] = 2],
                    SubSeq(search.frames, 1, Len(search.frames) - 1))
  <1> DEFINE frames == search.frames
             state == search.state
             L == Len(frames)
             t == Top.node
             fs == SubSeq(frames, 1, L - 1)
             st == [state EXCEPT ![t] = 2]
  <1>1. /\ L \in Nat \ {0} /\ DOMAIN frames = 1..L /\ t \in nodes /\ Top.next \in Nat \ {0}
        /\ Current(state, Top) /\ Top = frames[L]
    BY Advances DEF Top
  <1>2. frames \in Seq(Frame) /\ Visited(state) /\ Calls(state, frames) /\ Stacked(state, frames)
    BY DEF SearchOK
  <1>3. L = Len(frames) OBVIOUS
  <1>4. st \in [nodes -> 0..2] /\ st[t] = 2 /\ \A n \in nodes : n # t => st[n] = state[n]
    BY <1>1 DEF SearchOK
  <1> HIDE DEF L, frames, st, state
  <1>5. /\ fs \in Seq(Frame) /\ Len(fs) = L - 1 /\ DOMAIN fs = 1..(L - 1)
        /\ \A i \in 1..(L - 1) : fs[i] = frames[i] /\ i \in 1..L /\ i + 1 \in 1..L
    <2>1. L - 1 \in Nat /\ L - 1 <= L BY <1>1
    <2>2. fs \in Seq(Frame) /\ Len(fs) = L - 1 /\ \A i \in 1..(L - 1) : fs[i] = frames[i]
      BY <1>1, <1>2, <1>3, <2>1
    <2>3. DOMAIN fs = 1..(L - 1) BY <2>2
    <2>4. \A i \in 1..(L - 1) : i \in 1..L /\ i + 1 \in 1..L BY <1>1
    <2> QED BY <2>2, <2>3, <2>4
  <1> HIDE DEF fs
  <1>6. state[t] = 1 BY <1>1, <1>2 DEF Calls
  <1>7. Elems(adj[t]) \subseteq nodes /\ \A m \in Elems(adj[t]) : state[m] = 2
    <2>1. \A k \in 1..Len(adj[t]) : k < Top.next BY <1>1, Successors
    <2>2. \A k \in 1..Len(adj[t]) : state[adj[t][k]] = 2 BY <1>1, <2>1 DEF Current
    <2>3. /\ Elems(adj[t]) = {adj[t][k] : k \in 1..Len(adj[t])}
          /\ Elems(adj[t]) \subseteq nodes
      BY <1>1, Successors
    <2> QED BY <2>2, <2>3
  <1>8. ASSUME NEW n \in nodes, state[n] = 2 PROVE st[n] = 2 /\ n # t /\ t \notin Elems(adj[n])
    <2>1. n # t BY <1>6, <1>8
    <2>2. \A m \in Elems(adj[n]) : state[m] = 2 BY <1>2, <1>8 DEF Visited
    <2>3. t \notin Elems(adj[n]) BY <1>6, <2>2
    <2> QED BY <1>4, <1>8, <2>1, <2>3
  <1>9. t \notin Elems(adj[t]) BY <1>6, <1>7
  <1>10. \A n \in nodes : st[n] = 2 => n = t \/ state[n] = 2 BY <1>4
  <1>11. Visited(st)
    <2>1. ASSUME NEW n \in nodes, st[n] = 2, NEW m \in Elems(adj[n]) PROVE st[m] = 2
      <3>1. m \in nodes BY Successors
      <3>2. state[m] = 2 BY <1>2, <1>7, <1>10, <2>1 DEF Visited
      <3> QED BY <1>8, <3>1, <3>2
    <2>2. ASSUME NEW S \in SUBSET {n \in nodes : st[n] = 2}, S # {}
          PROVE  \E n \in S : \A m \in S : n \notin Elems(adj[m])
      <3>1. CASE t \in S BY <1>8, <1>9, <1>10, <3>1
      <3>2. CASE t \notin S
        <4>1. S \in SUBSET {n \in nodes : state[n] = 2} BY <1>10, <3>2
        <4> QED BY <1>2, <2>2, <4>1 DEF Visited
      <3> QED BY <3>1, <3>2
    <2> QED BY <2>1, <2>2 DEF Visited
  <1>12. \A i \in 1..(L - 1) : frames[i].node # t
    <2> TAKE i \in 1..(L - 1)
    <2>1. i \in 1..L /\ L \in 1..L /\ i # L BY <1>1
    <2> QED BY <1>1, <1>2, <2>1 DEF Calls
  <1>13. Calls(st, fs)
    <2>1. ASSUME NEW i \in 1..(L - 1), NEW j \in 1..(L - 1), fs[i].node = fs[j].node PROVE i = j
      <3>1. i \in 1..L /\ j \in 1..L /\ frames[i].node = frames[j].node BY <1>5, <2>1
      <3> QED BY <1>1, <1>2, <3>1 DEF Calls
    <2>2. ASSUME NEW n \in nodes PROVE st[n] = 1 <=> \E i \in 1..(L - 1) : fs[i].node = n
      <3>1. CASE n = t
        <4>1. st[n] # 1 BY <1>4, <3>1
        <4> QED BY <1>5, <1>12, <3>1, <4>1
      <3>2. CASE n # t
        <4>1. st[n] = 1 <=> \E i \in 1..L : frames[i].node = n BY <1>1, <1>2, <1>4, <3>2 DEF Calls
        <4>2. \A i \in 1..L : frames[i].node = n => i \in 1..(L - 1) BY <1>1, <3>2
        <4> QED BY <1>5, <4>1, <4>2
      <3> QED BY <3>1, <3>2
    <2> QED BY <1>5, <2>1, <2>2 DEF Calls
  <1>14. Stacked(st, fs)
    <2> SUFFICES ASSUME NEW i \in 1..(L - 1)
                 PROVE  IF i = L - 1 THEN Current(st, fs[i])
                        ELSE Interrupted(st, fs[i], fs[i + 1].node)
      BY <1>5 DEF Stacked
    <2> DEFINE f == frames[i]
    <2>1. fs[i] = f /\ i \in 1..L /\ i + 1 \in 1..L /\ i # L BY <1>1, <1>5
    <2>2. f \in Frame BY <1>1, <1>2, <2>1
    <2>3. f.node \in nodes /\ f.next \in Nat \ {0} BY <2>2 DEF Frame
    <2>4. Interrupted(state, f, frames[i + 1].node) BY <1>2, <1>3, <2>1 DEF Stacked
    <2> HIDE DEF f
    <2>5. /\ Len(adj[f.node]) \in Nat
          /\ \A k \in 1..Len(adj[f.node]) : adj[f.node][k] \in nodes
      BY <2>3, Successors
    <2>6. \A k \in 1..Len(adj[f.node]) : k < f.next - 1 => st[adj[f.node][k]] = 2
      BY <1>8, <2>4, <2>5 DEF Interrupted
    <2>7. CASE i = L - 1
      <3>1. i + 1 = L BY <1>1, <2>7
      <3>2. adj[f.node][f.next - 1] = t BY <1>1, <2>4, <3>1 DEF Interrupted
      <3>3. ASSUME NEW k \in 1..Len(adj[f.node]), k < f.next PROVE st[adj[f.node][k]] = 2
        <4>1. k < f.next - 1 \/ k = f.next - 1 BY <2>3, <2>5, <3>3
        <4> QED BY <1>4, <2>6, <3>2, <4>1
      <3> QED BY <2>1, <2>4, <2>7, <3>3 DEF Current, Interrupted
    <2>8. CASE i # L - 1
      <3>1. i + 1 \in 1..(L - 1) BY <1>1, <2>8
      <3>2. fs[i + 1] = frames[i + 1] BY <1>5, <3>1
      <3> QED BY <2>1, <2>4, <2>6, <2>8, <3>2 DEF Interrupted
    <2> QED BY <2>7, <2>8
  <1>15. SearchOK(st, fs) BY <1>4, <1>5, <1>11, <1>13, <1>14 DEF SearchOK
  <1> QED BY <1>15 DEF st, fs, state, frames, L

\* A successor that is being visited: the calls from its own to the last are a cycle.
LEMMA CycleFound ==
    ASSUME GraphOK, SearchOK(search.state, search.frames), search.frames # <<>>,
           Top.next <= Len(adj[Top.node]), search.state[adj[Top.node][Top.next]] = 1
    PROVE  ~Acyclic
  <1> DEFINE frames == search.frames
             L == Len(frames)
             m == adj[Top.node][Top.next]
  <1>1. /\ L \in Nat \ {0} /\ DOMAIN frames = 1..L /\ Top.node \in nodes /\ Top.next \in Nat \ {0}
        /\ Top = frames[L]
    BY Advances DEF Top
  <1>2. frames \in Seq(Frame) /\ Calls(search.state, frames) /\ Stacked(search.state, frames)
    BY DEF SearchOK
  <1>3. L = Len(frames) OBVIOUS
  <1> HIDE DEF L, frames
  <1>4. \A i \in 1..L : frames[i] \in Frame BY <1>1, <1>2
  <1>5. \A i \in 1..L : frames[i].node \in nodes /\ frames[i].next \in Nat \ {0} BY <1>4 DEF Frame
  <1>6. m \in nodes /\ m \in Elems(adj[Top.node])
    <2>1. Top.next \in 1..Len(adj[Top.node]) BY <1>1, Successors
    <2> QED BY <1>1, <2>1, Successors, ZenonT(40)
  <1>7. search.state[m] = 1 OBVIOUS
  <1> HIDE DEF m
  <1>8. PICK j \in 1..L : frames[j].node = m BY <1>1, <1>2, <1>6, <1>7 DEF Calls
  <1> DEFINE S == {frames[i].node : i \in j..L}
  <1>9. \A i \in j..L : i \in 1..L BY <1>1
  <1>10. S \in SUBSET nodes BY <1>5, <1>9
  <1>11. j \in j..L /\ L \in j..L BY <1>1
  <1>12. ASSUME NEW n \in S PROVE \E k \in S : n \in Elems(adj[k])
    <2>1. PICK i \in j..L : frames[i].node = n OBVIOUS
    <2>2. CASE i = j
      <3>1. Top.node \in S BY <1>1, <1>11
      <3> QED BY <1>6, <1>8, <2>1, <2>2, <3>1
    <2>3. CASE i # j
      <3>1. i - 1 \in j..L /\ i - 1 \in 1..L /\ i - 1 # L /\ (i - 1) + 1 = i BY <1>1, <2>3
      <3> DEFINE f == frames[i - 1]
      <3>2. f.node \in nodes /\ f.next \in Nat /\ f.node \in S BY <1>5, <3>1
      <3>3. Interrupted(search.state, f, frames[(i - 1) + 1].node) BY <1>2, <1>3, <3>1 DEF Stacked
      <3>4. Interrupted(search.state, f, n) BY <2>1, <3>1, <3>3
      <3> HIDE DEF f
      <3>5. f.next > 1 /\ f.next <= Len(adj[f.node]) + 1 /\ adj[f.node][f.next - 1] = n
        BY <3>4 DEF Interrupted
      <3>8. Len(adj[f.node]) \in Nat BY <3>2, Successors
      <3>6. f.next - 1 \in 1..Len(adj[f.node]) BY <3>2, <3>5, <3>8, SMTT(20)
      <3>7. n \in Elems(adj[f.node]) BY <3>2, <3>5, <3>6, Successors
      <3> QED BY <3>2, <3>7
    <2> QED BY <2>2, <2>3
  <1>13. S # {} BY <1>11
  <1> HIDE DEF S
  <1> QED BY <1>10, <1>12, <1>13 DEF Acyclic

LEMMA SameGraph ==
    ASSUME UNCHANGED <<nodes, adj>>
    PROVE  /\ Acyclic' <=> Acyclic
           /\ \A s, f : SearchOK(s, f)' <=> SearchOK(s, f)
  BY DEF Acyclic, Elems, SearchOK, Frame, Visited, Calls, Stacked, Current, Interrupted

\* search becomes r.
Answer(r, p, s, f) == Shaped(r) /\ r.pc = p /\ r.state = s /\ r.frames = f

\* The answers that ValidateOK allows.
LEMMA Answers ==
    ASSUME UNCHANGED <<nodes, adj>>, NEW p, NEW s, NEW f, Answer(search', p, s, f),
           \/ p = "none"
           \/ p = "search" /\ SearchOK(s, f)
           \/ p = "valid" /\ Acyclic
           \/ p = "cycle" /\ ~Acyclic
    PROVE  ValidateOK'
  <1>1. (SearchOK(s, f)' <=> SearchOK(s, f)) /\ (Acyclic' <=> Acyclic) BY SameGraph
  <1>2. /\ Shaped(search') /\ search'.pc = p /\ search'.state = s /\ search'.frames = f
    BY DEF Answer
  <1>3. search'.pc = "search" => SearchOK(search.state, search.frames)'
    <2>1. SearchOK(search.state, search.frames)' <=> SearchOK(s, f)'
      BY <1>2 DEF SearchOK, Frame, Visited, Calls, Stacked, Current, Interrupted
    <2> QED BY <1>1, <1>2, <2>1
  <1> QED BY <1>1, <1>2, <1>3 DEF ValidateOK

\* The search reads the graph.
LEMMA SearchReads ==
    ASSUME validateGoesOn PROVE Searching /\ UNCHANGED <<nodes, adj, rev_adj>>
  <1>1. ASSUME validateSucceeds PROVE Searching /\ UNCHANGED <<nodes, adj, rev_adj>>
    BY <1>1, SMTT(20) DEF validateSucceeds
  <1>2. ASSUME dfsLoop PROVE Searching /\ UNCHANGED <<nodes, adj, rev_adj>>
    BY <1>2, SMTT(20) DEF dfsLoop
  <1>3. ASSUME dfsReturns PROVE Searching /\ UNCHANGED <<nodes, adj, rev_adj>>
    BY <1>3, SMTT(20) DEF dfsReturns
  <1>4. ASSUME NEW n \in nodes, detectCycle(n) PROVE Searching /\ UNCHANGED <<nodes, adj, rev_adj>>
    BY <1>4, SMTT(20) DEF detectCycle
  <1> QED BY <1>1, <1>2, <1>3, <1>4 DEF validateGoesOn

LEMMA ValidateGoesOn ==
    ASSUME GraphOK, ValidateOK, validateGoesOn
    PROVE  GraphOK' /\ ValidateOK'
  <1> DEFINE state == search.state
             frames == search.frames
  <1>1. UNCHANGED <<nodes, adj, rev_adj>>
    BY SearchReads
  <1>2. GraphOK' BY <1>1, SMTT(20) DEF GraphOK, Elems
  <1> SUFFICES ValidateOK' BY <1>2
  <1>3. SearchOK(state, frames) /\ search.pc = "search"
    BY SearchReads DEF ValidateOK, Searching
  <1>4. Answer(search, "search", state, frames) BY <1>3 DEF ValidateOK, Answer
  <1>5. ASSUME NEW s, NEW f, Answer(search', "search", s, f), SearchOK(s, f) PROVE ValidateOK'
    BY <1>1, <1>5, Answers
  <1>6. CASE validateSucceeds
    <2>1. Answer(search', "valid", state, frames) BY <1>4, <1>6 DEF Answer, Shaped, validateSucceeds
    <2>2. frames = <<>> /\ \A n \in nodes : state[n] # 0 BY <1>6 DEF Answer, validateSucceeds
    <2>3. \A n \in nodes : state[n] # 1 BY <1>3, <2>2 DEF SearchOK, Calls
    <2>4. \A n \in nodes : state[n] = 2 BY <1>3, <2>2, <2>3 DEF SearchOK
    <2>5. Acyclic BY <1>3, <2>4 DEF SearchOK, Visited, Acyclic
    <2> QED BY <1>1, <2>1, <2>5, Answers
  <1>7. CASE dfsLoop
    <2> DEFINE m == adj[Top.node][Top.next]
    <2>1. /\ frames # <<>> /\ Top.next <= Len(adj[Top.node])
          /\ search' = CASE state[m] = 1 -> [search EXCEPT !.pc = "cycle", !.frames = <<>>]
                        [] state[m] = 0 -> [search EXCEPT !.state[m] = 1, !.frames = Called(Advanced, m)]
                        [] state[m] = 2 -> [search EXCEPT !.frames = Advanced]
      BY <1>7 DEF dfsLoop
    <2>2. /\ Top.node \in nodes /\ Top.next \in Nat \ {0} /\ Current(state, Top)
      BY <1>3, <2>1, Advances
    <2>3. m \in nodes /\ Len(adj[Top.node]) \in Nat
      <3>1. Top.next \in 1..Len(adj[Top.node]) BY <2>1, <2>2, Successors
      <3> QED BY <2>2, <3>1, Successors
    <2>4. state[m] \in {0, 1, 2} BY <1>3, <2>3 DEF SearchOK
    <2> HIDE DEF m
    <2>5. CASE state[m] = 1
      <3>0. search' = [search EXCEPT !.pc = "cycle", !.frames = <<>>] BY <2>1, <2>5
      <3>1. Answer(search', "cycle", state, <<>>) BY <1>4, <3>0 DEF Answer, Shaped
      <3>2. ~Acyclic BY <1>3, <2>1, <2>5, CycleFound DEF m
      <3> QED BY <1>1, <3>1, <3>2, Answers
    <2>6. CASE state[m] = 2
      <3>1. Answer(search', "search", state, Advanced) BY <1>4, <2>1, <2>6 DEF Answer, Shaped
      <3>2. SearchOK(state, Advanced) BY <1>3, <2>1, <2>6, Passed DEF m
      <3> QED BY <1>5, <3>1, <3>2
    <2>7. CASE state[m] = 0
      <3>0. search' = [search EXCEPT !.state[m] = 1, !.frames = Called(Advanced, m)] BY <2>1, <2>7
      <3>1. Answer(search', "search", [state EXCEPT ![m] = 1], Called(Advanced, m))
        BY <1>4, <3>0 DEF Answer, Shaped
      <3>2. Calling(state, Advanced, m) BY <1>3, <2>1, <2>7, Descends DEF m
      <3>3. SearchOK([state EXCEPT ![m] = 1], Called(Advanced, m)) BY <2>3, <3>2, CallMade
      <3> QED BY <1>5, <3>1, <3>3
    <2> QED BY <2>4, <2>5, <2>6, <2>7
  <1>8. CASE dfsReturns
    <2>1. /\ Answer(search', "search", [state EXCEPT ![Top.node] = 2], SubSeq(frames, 1, Len(frames) - 1))
          /\ frames # <<>> /\ Top.next > Len(adj[Top.node])
      BY <1>4, <1>8 DEF Answer, Shaped, dfsReturns
    <2>2. SearchOK([state EXCEPT ![Top.node] = 2], SubSeq(frames, 1, Len(frames) - 1))
      BY <1>3, <2>1, CallReturns
    <2> QED BY <1>5, <2>1, <2>2
  <1>9. ASSUME NEW n \in nodes, detectCycle(n) PROVE ValidateOK'
    <2>1. /\ Answer(search', "search", [state EXCEPT ![n] = 1], Called(<<>>, n))
          /\ frames = <<>> /\ state[n] = 0
      BY <1>4, <1>9 DEF Answer, Shaped, detectCycle
    <2>2. Calling(state, <<>>, n) BY <1>3, <2>1 DEF SearchOK, Calling
    <2>3. SearchOK([state EXCEPT ![n] = 1], Called(<<>>, n)) BY <2>2, CallMade
    <2> QED BY <1>5, <2>1, <2>3
  <1> QED BY <1>2, <1>6, <1>7, <1>8, <1>9, SMTT(20) DEF validateGoesOn

-----------------------------------------------------------------------------
GraphInv == GraphOK /\ ValidateOK

LEMMA EmptyGraph == GraphInit => GraphInv
  <1> SUFFICES ASSUME GraphInit PROVE GraphInv OBVIOUS
  <1>1. GraphOK BY FS_EmptySet DEF GraphInit, GraphOK, Elems
  <1>2. ValidateOK BY DEF GraphInit, NoSearch, ValidateOK, Shaped
  <1> QED BY <1>1, <1>2 DEF GraphInv

LEMMA NothingAnswered == ASSUME search' = NoSearch PROVE ValidateOK'
  BY DEF NoSearch, ValidateOK, Shaped

LEMMA ValidateBegins == ASSUME GraphInv, validate PROVE GraphInv'
  <1> DEFINE st == [n \in nodes |-> 0]
  <1>1. UNCHANGED <<nodes, adj, rev_adj>> BY DEF validate
  <1>2. GraphOK' BY <1>1 DEF GraphInv, GraphOK, Elems
  <1>3. CASE nodes = {}
    <2>1. Answer(search', "valid", st, <<>>) BY <1>3 DEF validate, Answer, Shaped
    <2>2. Acyclic BY <1>3 DEF Acyclic
    <2> QED BY <1>1, <1>2, <2>1, <2>2, Answers DEF GraphInv
  <1>4. CASE nodes # {}
    <2>1. Answer(search', "search", st, <<>>) BY <1>4 DEF validate, Answer, Shaped
    <2>2. \A n \in nodes : st[n] = 0 OBVIOUS
    <2>3. st \in [nodes -> 0..2] OBVIOUS
    <2> HIDE DEF st
    <2>4. Visited(st) BY <2>2 DEF Visited
    <2>5. Calls(st, <<>>) BY <2>2 DEF Calls
    <2>6. SearchOK(st, <<>>) BY <2>3, <2>4, <2>5 DEF SearchOK, Stacked
    <2> QED BY <1>1, <1>2, <2>1, <2>6, Answers DEF GraphInv
  <1> QED BY <1>3, <1>4

LEMMA GraphKept == ASSUME GraphInv, UNCHANGED graphVars PROVE GraphInv'
  <1>1. UNCHANGED <<nodes, adj, rev_adj>> /\ search' = search BY DEF graphVars
  <1>2. GraphOK' BY <1>1 DEF GraphInv, GraphOK, Elems
  <1>3. Answer(search', search.pc, search.state, search.frames) BY <1>1 DEF GraphInv, ValidateOK, Answer
  <1>4. ValidateOK' BY <1>1, <1>3, Answers DEF GraphInv, ValidateOK
  <1> QED BY <1>2, <1>4 DEF GraphInv

LEMMA GraphInductive ==
    /\ \A n : GraphInv /\ addNode(n) => GraphInv'
    /\ \A p, s : GraphInv /\ addDependency(p, s) => GraphInv'
    /\ GraphInv /\ validate => GraphInv'
    /\ GraphInv /\ validateGoesOn => GraphInv'
    /\ GraphInv /\ UNCHANGED graphVars => GraphInv'
  <1>1. ASSUME GraphInv, NEW n, addNode(n) PROVE GraphInv'
    BY <1>1, NodeAdded, NothingAnswered DEF GraphInv, addNode
  <1>2. ASSUME GraphInv, NEW p, NEW s, addDependency(p, s) PROVE GraphInv'
    BY <1>2, EdgeAdded, NothingAnswered DEF GraphInv, addDependency
  <1>3. ASSUME GraphInv, validateGoesOn PROVE GraphInv' BY <1>3, ValidateGoesOn DEF GraphInv
  <1> QED BY <1>1, <1>2, <1>3, ValidateBegins, GraphKept

LEMMA GraphAnswers == GraphInv => ValidateIsAcyclic
  <1> SUFFICES ASSUME GraphInv PROVE ValidateIsAcyclic OBVIOUS
  <1>1. \A n \in nodes :
           Len(rev_adj[n]) = Cardinality({e \in nodes \X (1..Cardinality(nodes)) :
                                            e[2] \in DOMAIN adj[e[1]] /\ adj[e[1]][e[2]] = n})
    BY InDegrees DEF GraphInv
  <1>2. (search.pc = "valid" => Acyclic) /\ (search.pc = "cycle" => ~Acyclic)
    BY DEF GraphInv, ValidateOK
  <1> HIDE DEF GraphInv
  <1> QED BY <1>1, <1>2 DEF ValidateIsAcyclic

-----------------------------------------------------------------------------
(* The planner *)

LEMMA Positions == DOMAIN KeyOrder \subseteq Nat
<1>1. PICK n \in Nat : DOMAIN KeyOrder = 1..n
  BY KeyOrderAssumption, LenProperties
<1>2. 1..n \subseteq Nat
  OBVIOUS
<1> QED
  BY <1>1, <1>2

\* An engine that is selected is a candidate and has the backend.
LEMMA Selected ==
    ASSUME NEW candidates, NEW registry, NEW mode, selectEngine(candidates, registry, mode) # ""
    PROVE  LET k == selectEngine(candidates, registry, mode)
           IN  k \in candidates /\ hasBackend(registry[k], mode)
<1> DEFINE fit == {i \in DOMAIN KeyOrder :
                       KeyOrder[i] \in candidates /\ hasBackend(registry[KeyOrder[i]], mode)}
           least == CHOOSE i \in fit : \A j \in fit : i <= j
<1>1. selectEngine(candidates, registry, mode) = IF fit = {} THEN "" ELSE KeyOrder[least]
  BY DEF selectEngine
<1>2. fit # {} /\ selectEngine(candidates, registry, mode) = KeyOrder[least]
  BY <1>1
<1>3. DOMAIN KeyOrder \subseteq Nat
  BY Positions
<1>4. fit \subseteq Nat
  BY <1>3
<1>5. \E i \in fit : \A j \in fit : i <= j
  <2> HIDE DEF fit
  <2> QED BY <1>2, <1>4, SmallestNat
<1>6. least \in fit
  BY <1>5
<1> HIDE DEF least
<1> QED
  BY <1>2, <1>6

LEMMA SomeLayers ==
    ASSUME NEW layers \in Nat, NEW memory \in Nat, NEW model \in Nat \ {0}, layers # 0
    PROVE  LET n == partialLayers(layers, memory, model)
           IN  /\ n \in 1..(IF layers > 1 THEN layers - 1 ELSE 1)
               /\ n = 1 \/ n * model <= memory * layers
<1> DEFINE share == (layers * memory) \div model
           n == partialLayers(layers, memory, model)
<1>1. layers * memory \in Nat /\ layers * memory = memory * layers
  OBVIOUS
<1>2. share \in Nat /\ share * model <= layers * memory
  BY <1>1, Division
<1>3. n = LET some == IF share = 0 THEN 1 ELSE share
              less == IF some >= layers THEN layers - 1 ELSE some
          IN  IF less = 0 THEN 1 ELSE less
  BY DEF partialLayers
<1> HIDE DEF share
<1>4. n \in 1..(IF layers > 1 THEN layers - 1 ELSE 1) /\ (n = 1 \/ n <= share)
  BY <1>2, <1>3
<1> HIDE DEF n
<1>5. ASSUME n <= share PROVE n * model <= memory * layers
  <2>1. n \in Nat BY <1>4
  <2>2. n * model <= share * model BY <1>2, <1>5, <2>1, Product
  <2>3. n * model \in Nat /\ share * model \in Nat BY <1>2, <2>1
  <2> QED BY <1>1, <1>2, <2>2, <2>3
<1> QED
  BY <1>4, <1>5 DEF n

Strategies == {"FULL_RESIDENT", "PARTIAL_RESIDENT", "STREAMING", "CPU_FALLBACK"}

\* The choices that may be tried, each with what it was tried for.
Choices(req, report, config, engine) ==
    {c \in [mode : Modes, residency : Strategies, device : DeviceTypes] :
        \/ /\ c.residency = "FULL_RESIDENT" /\ c.device # "CPU" /\ c.mode = ModeOf(c.device)
           /\ fits(req, report, c.device) /\ engine[ModeOf(c.device)] # ""
        \/ /\ c.residency = "PARTIAL_RESIDENT" /\ c.mode = "HYBRID"
           /\ partial(req, report, config, c.device) /\ engine[ModeOf(c.device)] # ""
        \/ c.residency = "STREAMING" /\ c.mode = "HYBRID"
        \/ /\ c.residency = "CPU_FALLBACK" /\ c.device = "CPU" /\ c.mode = "CPU"
           /\ fits(req, report, "CPU") /\ engine["CPU"] # ""}

LEMMA Placed ==
    ASSUME NEW req, NEW report, NEW config, NEW engine
    PROVE  Placements(req, report, config, engine) \in Seq(Choices(req, report, config, engine))
<1> DEFINE C == Choices(req, report, config, engine)
           full(mode, d) ==
              IF config.accelerator /\ fits(req, report, d) /\ engine[mode] # ""
              THEN <<[mode |-> mode, residency |-> "FULL_RESIDENT", device |-> d]>> ELSE <<>>
           part(mode, d) ==
              IF config.accelerator /\ partial(req, report, config, d) /\ engine[mode] # ""
              THEN <<[mode |-> partialMode(mode), residency |-> "PARTIAL_RESIDENT", device |-> d]>> ELSE <<>>
           stream ==
              IF /\ config.streaming /\ report.streaming
                 /\ config.accelerator /\ (usable(report, "Vulkan") \/ usable(report, "CUDA"))
                 /\ \E mode \in Modes : engine[mode] # ""
              THEN <<[mode |-> "HYBRID", residency |-> "STREAMING",
                      device |-> IF usable(report, "Vulkan") THEN "Vulkan" ELSE "CUDA"]>> ELSE <<>>
           cpu == IF cpuFallbackAvailable(req, report, config, engine)
                  THEN <<[mode |-> "CPU", residency |-> "CPU_FALLBACK", device |-> "CPU"]>> ELSE <<>>
<1>1. Placements(req, report, config, engine) =
         full("CUDA", "CUDA") \o full("VULKAN", "Vulkan") \o part("CUDA", "CUDA")
         \o part("VULKAN", "Vulkan") \o stream \o cpu
  BY DEF Placements
<1>2. ASSUME NEW c \in C PROVE <<c>> \in Seq(C)
  OBVIOUS
<1>3. <<>> \in Seq(C)
  OBVIOUS
<1>4. full("CUDA", "CUDA") \in Seq(C)
  <2>1. CASE fits(req, report, "CUDA") /\ engine["CUDA"] # ""
    <3>1. [mode |-> "CUDA", residency |-> "FULL_RESIDENT", device |-> "CUDA"] \in C
      BY <2>1 DEF Choices, ModeOf, Modes, Strategies, DeviceTypes
    <3> HIDE DEF C
    <3> QED BY <1>2, <1>3, <3>1
  <2>2. CASE ~(fits(req, report, "CUDA") /\ engine["CUDA"] # "")
    BY <1>3, <2>2
  <2> QED BY <2>1, <2>2
<1>5. full("VULKAN", "Vulkan") \in Seq(C)
  <2>1. CASE fits(req, report, "Vulkan") /\ engine["VULKAN"] # ""
    <3>1. [mode |-> "VULKAN", residency |-> "FULL_RESIDENT", device |-> "Vulkan"] \in C
      BY <2>1 DEF Choices, ModeOf, Modes, Strategies, DeviceTypes
    <3> HIDE DEF C
    <3> QED BY <1>2, <1>3, <3>1
  <2>2. CASE ~(fits(req, report, "Vulkan") /\ engine["VULKAN"] # "")
    BY <1>3, <2>2
  <2> QED BY <2>1, <2>2
<1>6. part("CUDA", "CUDA") \in Seq(C)
  <2>1. CASE partial(req, report, config, "CUDA") /\ engine["CUDA"] # ""
    <3>1. [mode |-> "HYBRID", residency |-> "PARTIAL_RESIDENT", device |-> "CUDA"] \in C
      BY <2>1 DEF Choices, ModeOf, Modes, Strategies, DeviceTypes
    <3> HIDE DEF C
    <3> QED BY <1>2, <1>3, <3>1 DEF partialMode
  <2>2. CASE ~(partial(req, report, config, "CUDA") /\ engine["CUDA"] # "")
    BY <1>3, <2>2
  <2> QED BY <2>1, <2>2
<1>7. part("VULKAN", "Vulkan") \in Seq(C)
  <2>1. CASE partial(req, report, config, "Vulkan") /\ engine["VULKAN"] # ""
    <3>1. [mode |-> "HYBRID", residency |-> "PARTIAL_RESIDENT", device |-> "Vulkan"] \in C
      BY <2>1 DEF Choices, ModeOf, Modes, Strategies, DeviceTypes
    <3> HIDE DEF C
    <3> QED BY <1>2, <1>3, <3>1 DEF partialMode
  <2>2. CASE ~(partial(req, report, config, "Vulkan") /\ engine["VULKAN"] # "")
    BY <1>3, <2>2
  <2> QED BY <2>1, <2>2
<1>8. stream \in Seq(C)
  <2>1. ASSUME NEW d \in DeviceTypes
        PROVE  [mode |-> "HYBRID", residency |-> "STREAMING", device |-> d] \in C
    BY DEF Choices, Modes, Strategies
  <2>2. (IF usable(report, "Vulkan") THEN "Vulkan" ELSE "CUDA") \in DeviceTypes
    BY DEF DeviceTypes
  <2> HIDE DEF C
  <2> QED BY <1>2, <1>3, <2>1, <2>2
<1>9. cpu \in Seq(C)
  <2>1. CASE cpuFallbackAvailable(req, report, config, engine)
    <3>1. [mode |-> "CPU", residency |-> "CPU_FALLBACK", device |-> "CPU"] \in C
      BY <2>1 DEF Choices, ModeOf, Modes, Strategies, DeviceTypes, cpuFallbackAvailable
    <3> HIDE DEF C
    <3> QED BY <1>2, <1>3, <2>1, <3>1
  <2>2. CASE ~cpuFallbackAvailable(req, report, config, engine)
    BY <1>3, <2>2
  <2> QED BY <2>1, <2>2
<1> HIDE DEF C, full, part, stream, cpu
<1>10. \A s, t \in Seq(C) : s \o t \in Seq(C)
  OBVIOUS
<1>11. Placements(req, report, config, engine) \in Seq(C)
  BY <1>1, <1>4, <1>5, <1>6, <1>7, <1>8, <1>9, <1>10
<1> QED
  BY <1>11 DEF C

LEMMA FirstOf ==
    ASSUME NEW S, NEW s \in Seq(S), s # <<>>
    PROVE  s[1] \in S
  OBVIOUS

\* What is known of a file and of the devices of a machine.
LEMMA Inspected ==
    ASSUME NEW file \in Files
    PROVE  /\ inspect(file).estimated \in Nat /\ inspect(file).layers \in Nat
           /\ inspect(file).estimated # 0 => file.exists /\ file.size <= inspect(file).estimated
<1>1. /\ file.exists \in BOOLEAN /\ file.size \in Nat /\ file.meta \in BOOLEAN
      /\ file.layers \in Nat /\ file.kv \in Nat
  BY FilesAssumption
<1>2. file.size \div 5 \in Nat
  BY <1>1
<1> DEFINE more == IF file.meta THEN file.kv ELSE file.size \div 5
<1>3. more \in Nat
  BY <1>1, <1>2
<1>4. /\ inspect(file).estimated = IF file.exists THEN file.size + Workspace + more ELSE 0
      /\ inspect(file).layers = IF file.meta THEN file.layers ELSE 0
  BY DEF inspect
<1> HIDE DEF more
<1> QED
  BY <1>1, <1>3, <1>4 DEF Workspace

LEMMA Memories ==
    ASSUME NEW req, NEW registry, NEW machine \in Machines, NEW d \in DeviceTypes
    PROVE  analyze(req, registry, machine).devices[d].memory \in Nat
<1>1. machine.ram \in Nat /\ machine.vulkan \in Nat \cup {-1}
  BY MachinesAssumption
<1> DEFINE found == discover(machine)
<1>2. found[d].memory \in Nat
  BY <1>1 DEF discover, DeviceTypes
<1> HIDE DEF found
<1>3. analyze(req, registry, machine).devices =
         [e \in DeviceTypes |-> IF machine.initialized THEN discover(machine)[e]
                                ELSE [is_available |-> FALSE, memory |-> 0]]
  BY DEF analyze
<1> QED
  BY <1>2, <1>3 DEF found

LEMMA Engines ==
    ASSUME NEW req, NEW registry, NEW machine
    PROVE  DOMAIN analyze(req, registry, machine).engines = DOMAIN registry
  BY DEF analyze

\* What the planner promises.
PlanFor(p, file, machine, registry, config) ==
    LET req    == inspect(file)
        report == analyze(req, registry, machine)
    IN  p = plan(req, report, registry, config)

\* What a viable plan says, d being the device it was made for.
Promise(p, d, file, machine, registry) ==
    LET req    == inspect(file)
        report == analyze(req, registry, machine)
        memory == report.devices[d].memory
    IN  /\ p.residency \in Strategies /\ p.budget = memory /\ memory \in Nat
        /\ p.model = req.estimated /\ p.model \in Nat \ {0}
        /\ p.executable = (p.residency # "STREAMING")
        /\ file.exists /\ file.size <= p.model
        /\ p.residency # "STREAMING" =>
              /\ usable(report, d) /\ p.engine \in DOMAIN registry /\ report.engines[p.engine]
              /\ hasBackend(registry[p.engine], ModeOf(d))
        /\ p.residency \in {"FULL_RESIDENT", "CPU_FALLBACK"} => p.mode = ModeOf(d) /\ p.model <= memory
        /\ p.residency = "CPU_FALLBACK" => p.mode = "CPU"
        /\ p.residency \in {"PARTIAL_RESIDENT", "STREAMING"} => p.mode = "HYBRID"
        /\ p.residency = "PARTIAL_RESIDENT" =>
              p.layers = IF req.layers = 0 THEN -1 ELSE partialLayers(req.layers, memory, p.model)

\* The planner makes no other plans.
LEMMA Plans ==
    ASSUME NEW file \in Files, NEW machine \in Machines, NEW registry, NEW config,
           NEW p, PlanFor(p, file, machine, registry, config), p.viable
    PROVE  \E d \in DeviceTypes : Promise(p, d, file, machine, registry)
<1> DEFINE req == inspect(file)
           report == analyze(req, registry, machine)
           candidates == {k \in DOMAIN registry : eligible(req, report, registry, k)}
           engine == [mode \in Modes |-> selectEngine(candidates, registry, mode)]
           choices == Placements(req, report, config, engine)
           c == choices[1]
           key == EngineFor(c, engine)
           cpu == cpuFallbackAvailable(req, report, config, engine)
           d == c.device
           memory == report.devices[d].memory
<1>1. p = IF \/ ~(config.accelerator \/ config.partial \/ config.streaming \/ config.cpu)
             \/ candidates = {} \/ req.estimated = 0 \/ choices = <<>>
          THEN unsupportedPlan(req.estimated)
          ELSE IF key = "" THEN unsupportedPlan(req.estimated)
          ELSE Filled(req, report, c, key, cpu)
  BY DEF PlanFor, plan
<1> HIDE DEF choices, candidates, engine, key, cpu, report, req
<1>2. ~unsupportedPlan(req.estimated).viable
  BY DEF unsupportedPlan
<1>3. p = Filled(req, report, c, key, cpu) /\ req.estimated # 0 /\ choices # <<>> /\ key # ""
  BY <1>1, <1>2
<1>4. req.estimated \in Nat /\ req.layers \in Nat /\ file.exists /\ file.size <= req.estimated
  BY <1>3, Inspected DEF req
<1>5. c \in Choices(req, report, config, engine)
  BY <1>3, Placed, FirstOf DEF choices
<1> HIDE DEF c
<1>6. c.mode \in Modes /\ c.residency \in Strategies /\ d \in DeviceTypes
  BY <1>5 DEF Choices
<1>7. memory \in Nat
  BY <1>6, Memories DEF report
<1>8. /\ p.residency = c.residency /\ p.budget = memory /\ p.model = req.estimated /\ p.mode = c.mode
      /\ p.executable = (c.residency # "STREAMING") /\ p.engine = key
  BY <1>3 DEF Filled
<1>9. \A mode \in Modes : engine[mode] = selectEngine(candidates, registry, mode)
  BY DEF engine
<1>10. ASSUME NEW mode \in Modes, engine[mode] # ""
       PROVE  /\ engine[mode] \in DOMAIN registry /\ report.engines[engine[mode]]
              /\ hasBackend(registry[engine[mode]], mode)
  <2>1. engine[mode] \in candidates /\ hasBackend(registry[engine[mode]], mode)
    BY <1>9, <1>10, Selected
  <2>2. engine[mode] \in DOMAIN registry /\ eligible(req, report, registry, engine[mode])
    BY <2>1 DEF candidates
  <2>3. DOMAIN report.engines = DOMAIN registry
    BY Engines DEF report
  <2>4. report.engines[engine[mode]]
    BY <2>2, <2>3 DEF eligible
  <2> QED
    BY <2>1, <2>2, <2>4
<1>11. CASE c.residency = "FULL_RESIDENT"
  <2>1. c.mode = ModeOf(d) /\ fits(req, report, d) /\ engine[c.mode] # ""
    BY <1>5, <1>11 DEF Choices
  <2>2. key = engine[c.mode]
    BY <1>11, <2>1 DEF EngineFor, key
  <2>3. usable(report, d) /\ req.estimated <= memory
    BY <1>4, <1>7, <2>1 DEF fits
  <2> QED
    BY <1>3, <1>4, <1>6, <1>7, <1>8, <1>10, <1>11, <2>1, <2>2, <2>3 DEF Promise, req, report
<1>12. CASE c.residency = "CPU_FALLBACK"
  <2>1. c.mode = "CPU" /\ c.mode = ModeOf(d) /\ fits(req, report, d) /\ engine[c.mode] # ""
    BY <1>5, <1>12 DEF Choices, ModeOf
  <2>2. key = engine[c.mode]
    BY <1>12, <2>1 DEF EngineFor, key
  <2>3. usable(report, d) /\ req.estimated <= memory
    BY <1>4, <1>7, <2>1 DEF fits
  <2> QED
    BY <1>3, <1>4, <1>6, <1>7, <1>8, <1>10, <1>12, <2>1, <2>2, <2>3 DEF Promise, req, report
<1>13. CASE c.residency = "PARTIAL_RESIDENT"
  <2>1. c.mode = "HYBRID" /\ partial(req, report, config, d) /\ engine[ModeOf(d)] # ""
    BY <1>5, <1>13 DEF Choices
  <2>2. key = engine[ModeOf(d)] /\ ModeOf(d) \in Modes
    BY <1>6, <1>13, <2>1 DEF EngineFor, key, ModeOf, Modes, DeviceTypes
  <2>3. usable(report, d)
    BY <2>1 DEF partial
  <2>4. p.layers = LET share == partialLayers(req.layers, memory, req.estimated)
                   IN  IF share > 0 THEN share ELSE -1
    BY <1>3, <1>13 DEF Filled
  <2>5. p.layers = IF req.layers = 0 THEN -1 ELSE partialLayers(req.layers, memory, req.estimated)
    <3>1. CASE req.layers = 0
      BY <2>4, <3>1 DEF partialLayers
    <3>2. CASE req.layers # 0
      <4> DEFINE share == partialLayers(req.layers, memory, req.estimated)
      <4>1. share \in 1..(IF req.layers > 1 THEN req.layers - 1 ELSE 1)
        BY <1>3, <1>4, <1>7, <3>2, SomeLayers
      <4> HIDE DEF share
      <4>2. share > 0
        BY <1>4, <4>1
      <4> QED
        BY <2>4, <3>2, <4>2 DEF share
    <3> QED BY <3>1, <3>2
  <2> QED
    BY <1>3, <1>4, <1>6, <1>7, <1>8, <1>10, <1>13, <2>1, <2>2, <2>3, <2>5 DEF Promise, req, report
<1>14. CASE c.residency = "STREAMING"
  <2>1. c.mode = "HYBRID"
    BY <1>5, <1>14 DEF Choices
  <2> QED
    BY <1>3, <1>4, <1>6, <1>7, <1>8, <1>14, <2>1 DEF Promise, req, report
<1> QED
  BY <1>6, <1>11, <1>12, <1>13, <1>14 DEF Strategies

-----------------------------------------------------------------------------
(* The commands *)

SubjectOK ==
    \/ subject \in [command : {"residency", "graph"}, file : Files, machine : Machines,
                     registry : Registries, config : Configs, tensors : BOOLEAN]
    \/ subject \in [command : {"apply", "build"}, file : Files, tensors : BOOLEAN]
    \/ subject.command \in {"library", "chat"}

\* A plan is the planner's or, for a client that made one, the client's.
DecisionOK ==
    \/ decision = NoPlan
    \/ /\ subject.command \in {"residency", "graph"}
       /\ PlanFor(decision, subject.file, subject.machine, subject.registry, subject.config)
    \/ subject.command \in {"apply", "build"} /\ decision \in MadePlans

\* What a viable decision of a command promises.
LEMMA Promised ==
    ASSUME SubjectOK, DecisionOK, decision.viable, subject.command \in {"residency", "graph"}
    PROVE  /\ decision # NoPlan
           /\ \E d \in DeviceTypes :
                 Promise(decision, d, subject.file, subject.machine, subject.registry)
<1>1. decision # NoPlan
  BY DEF NoPlan
<1>2. PlanFor(decision, subject.file, subject.machine, subject.registry, subject.config)
  BY <1>1 DEF DecisionOK
<1>3. subject.file \in Files /\ subject.machine \in Machines
  BY DEF SubjectOK
<1> QED
  BY <1>1, <1>2, <1>3, Plans

\* What a viable decision says to the adapter and the builder.
LEMMA Decided ==
    ASSUME SubjectOK, DecisionOK, decision.viable
    PROVE  /\ subject.command \in {"residency", "graph", "apply", "build"}
           /\ subject.file \in Files
           /\ decision.residency \in Strategies \cup {"HYBRID"} /\ decision.budget \in Nat
           /\ subject.command \in {"residency", "graph"} =>
                 /\ subject.file.exists /\ decision.residency \in Strategies
                 /\ use_accel => decision.residency = "FULL_RESIDENT"
                 /\ decision.residency \in {"FULL_RESIDENT", "CPU_FALLBACK"} =>
                       subject.file.size <= decision.budget
<1>1. decision # NoPlan
  BY DEF NoPlan
<1>2. CASE subject.command \in {"residency", "graph"}
  <2>1. PICK d \in DeviceTypes : Promise(decision, d, subject.file, subject.machine, subject.registry)
    BY <1>2, Promised
  <2>2. subject.file \in Files
    BY <1>2 DEF SubjectOK
  <2>3. subject.file.size \in Nat
    BY <2>2, FilesAssumption
  <2>4. use_accel => decision.residency = "FULL_RESIDENT"
    BY <2>1 DEF Promise, use_accel, Strategies
  <2> QED
    BY <1>2, <2>1, <2>2, <2>3, <2>4 DEF Promise
<1>3. CASE subject.command \notin {"residency", "graph"}
  <2>1. subject.command \in {"apply", "build"} /\ decision \in MadePlans
    BY <1>1, <1>3 DEF DecisionOK
  <2>2. subject.file \in Files
    BY <2>1 DEF SubjectOK
  <2>3. decision.residency \in Strategies \cup {"HYBRID"} /\ decision.budget \in Nat
    BY <2>1, MadePlansAssumption DEF Strategies
  <2> QED
    BY <1>3, <2>1, <2>2, <2>3
<1> QED
  BY <1>2, <1>3

LEMMA CarriedOut == SubjectOK /\ DecisionOK => PlanIsCarriedOut
<1> SUFFICES ASSUME SubjectOK, DecisionOK, subject.command \in {"residency", "graph"},
                    decision # NoPlan, decision.viable, decision.executable
             PROVE  \E d \in DeviceTypes :
            LET memory == Report.devices[d].memory IN
            /\ usable(Report, d) /\ decision.budget = memory
            /\ decision.engine \in DOMAIN subject.registry /\ Report.engines[decision.engine]
            /\ hasBackend(subject.registry[decision.engine], ModeOf(d))
            /\ decision.residency \in {"FULL_RESIDENT", "CPU_FALLBACK"} =>
                   decision.mode = ModeOf(d) /\ decision.model <= memory
            /\ decision.residency = "PARTIAL_RESIDENT" /\ decision.layers # -1 =>
                   /\ decision.layers \in 1..(IF Requirements.layers > 1 THEN Requirements.layers - 1 ELSE 1)
                   /\ decision.layers = 1
                      \/ decision.layers * decision.model <= memory * Requirements.layers
  BY DEF PlanIsCarriedOut
<1>1. PICK d \in DeviceTypes : Promise(decision, d, subject.file, subject.machine, subject.registry)
  BY Promised
<1> DEFINE memory == Report.devices[d].memory
           layers == Requirements.layers
<1>2. /\ decision.budget = memory /\ memory \in Nat
      /\ decision.model \in Nat \ {0} /\ decision.residency # "STREAMING"
  BY <1>1 DEF Promise, Report, Requirements
<1>3. /\ usable(Report, d) /\ decision.engine \in DOMAIN subject.registry /\ Report.engines[decision.engine]
      /\ hasBackend(subject.registry[decision.engine], ModeOf(d))
  BY <1>1, <1>2 DEF Promise, Report, Requirements
<1>4. decision.residency \in {"FULL_RESIDENT", "CPU_FALLBACK"} =>
         decision.mode = ModeOf(d) /\ decision.model <= memory
  BY <1>1 DEF Promise, Report, Requirements
<1>5. layers \in Nat
  BY Decided, Inspected DEF Requirements
<1>6. decision.residency = "PARTIAL_RESIDENT" =>
         decision.layers = IF layers = 0 THEN -1 ELSE partialLayers(layers, memory, decision.model)
  BY <1>1 DEF Promise, Report, Requirements
<1> HIDE DEF memory, layers
<1>7. ASSUME decision.residency = "PARTIAL_RESIDENT", decision.layers # -1
      PROVE  /\ decision.layers \in 1..(IF layers > 1 THEN layers - 1 ELSE 1)
             /\ decision.layers = 1 \/ decision.layers * decision.model <= memory * layers
  <2>1. layers # 0 /\ decision.layers = partialLayers(layers, memory, decision.model)
    BY <1>6, <1>7
  <2> QED
    BY <1>2, <1>5, <2>1, SomeLayers
<1> QED
  BY <1>2, <1>3, <1>4, <1>7 DEF memory, layers

-----------------------------------------------------------------------------
(* PlanResidencyAdapter::apply *)

\* The bytes of the regions before the region i.
Before(i) == IF i = 1 THEN 0 ELSE IF i <= Len(Regions) THEN Regions[1] ELSE subject.file.size

LEMMA RegionsNumber ==
    ASSUME subject.file \in Files
    PROVE  /\ Len(Regions) \in {1, 2} /\ DOMAIN Regions = 1..Len(Regions)
           /\ \A i \in 1..Len(Regions) : Regions[i] \in Nat
<1> DEFINE size == subject.file.size
           half == size \div 2
<1>1. size \in Nat
  BY FilesAssumption
<1>2. half \in Nat /\ size - half \in Nat
  BY <1>1
<1>3. Regions = << 0 >> \/ Regions = <<size>> \/ Regions = <<half, size - half>>
  BY DEF Regions, extract, wholeFileRegion
<1> HIDE DEF size, half
<1> QED
  BY <1>1, <1>2, <1>3

LEMMA RegionsAdd ==
    ASSUME subject.file \in Files, subject.file.exists
    PROVE  /\ Len(Regions) \in {1, 2} /\ DOMAIN Regions = 1..Len(Regions)
           /\ subject.file.size \in Nat
           /\ \A i \in 1..(Len(Regions) + 1) : Before(i) \in Nat /\ Before(i) <= subject.file.size
           /\ \A i \in 1..Len(Regions) :
                 Regions[i] \in Nat /\ Before(i) + Regions[i] = Before(i + 1)
<1> DEFINE size == subject.file.size
           half == size \div 2
<1>1. size \in Nat
  BY FilesAssumption
<1>2. half \in Nat /\ half <= size
  BY <1>1
<1>3. Regions = <<size>> \/ Regions = <<half, size - half>>
  BY DEF Regions, extract, wholeFileRegion
<1> HIDE DEF size, half
<1>4. CASE Regions = <<size>>
  BY <1>1, <1>4 DEF Before, size
<1>5. CASE Regions = <<half, size - half>>
  BY <1>1, <1>2, <1>5 DEF Before, size
<1> QED
  BY <1>3, <1>4, <1>5

\* What the adapter asks for, of the regions before the region i.
Asked(asked, i) ==
    /\ {<<r, Target>> : r \in 1..(i - 1)} \subseteq asked
    /\ \A a \in asked :
          /\ a = <<a[1], a[2]>> /\ a[1] \in 1..(i - 1)
          /\ a[2] # Target => /\ use_accel /\ decision.residency = "PARTIAL_RESIDENT"
                              /\ a[2] = "ACCELERATOR" /\ Regions[a[1]] <= decision.budget

\* What it has uploaded by then.
Sent(up, i) ==
    /\ up \in Nat
    /\ decision.residency = "FULL_RESIDENT" /\ subject.file.exists => up <= Before(i)
    /\ decision.residency = "PARTIAL_RESIDENT" => up <= decision.budget
    /\ decision.residency \in {"STREAMING", "CPU_FALLBACK"} => up = 0

Complete(i) ==
    \/ ~subject.file.exists \/ Regions = << 0 >> \/ decision.residency = "STREAMING"
    \/ i = Len(Regions) + 1

\* The states of an apply, a being the record and i, up and asked three of its fields.
Applied(a, i, up, asked) ==
    /\ a \in [pc : {"region", "done"}, i : {i}, ram : {a.ram}, uploaded : {up},
               asked : {asked}, cancel : {a.cancel}, success : {a.success}]
    /\ i \in 1..(Len(Regions) + 1)
    /\ Sent(up, i) /\ Asked(asked, i)
    /\ decision.residency = "STREAMING" => a.pc = "done" /\ asked = {}
    /\ a.pc = "region" => subject.file.exists
    /\ a.pc = "done" /\ ~a.cancel => Complete(i)

\* What the apply of a plan has asked for and uploaded.
ApplyOK ==
    \/ apply = NotDone
    \/ /\ subject.command \in {"residency", "apply"} /\ decision.viable
       /\ Applied(apply, apply.i, apply.uploaded, apply.asked)

\* The adapter and the graph builder read a plan alike, but for two of a client's.
LEMMA SameTargets ==
    ASSUME SubjectOK, DecisionOK, decision.viable
    PROVE  /\ decision.residency # "STREAMING" =>
                 /\ DOMAIN NodeTargets = DOMAIN Regions
                 /\ ~(use_accel /\ decision.residency = "HYBRID") =>
                       \A r \in DOMAIN Regions : NodeTargets[r] = Target
           /\ decision.residency = "STREAMING" => NodeTargets = <<>>
<1>1. decision.residency \in Strategies \cup {"HYBRID"}
  BY Decided
<1>2. CASE decision.residency = "FULL_RESIDENT"
  BY <1>2 DEF NodeTargets, Target
<1>3. CASE decision.residency \in {"PARTIAL_RESIDENT", "HYBRID", "CPU_FALLBACK"}
  BY <1>3 DEF NodeTargets, Target
<1>4. CASE decision.residency = "STREAMING"
  BY <1>4 DEF NodeTargets
<1> QED
  BY <1>1, <1>2, <1>3, <1>4 DEF Strategies

LEMMA ApplyFits == SubjectOK /\ DecisionOK /\ ApplyOK => UploadsFit
<1> SUFFICES ASSUME SubjectOK, DecisionOK, ApplyOK, apply.pc \in {"region", "done"}
             PROVE  /\ subject.command = "residency" \/ decision.residency = "PARTIAL_RESIDENT" =>
                          apply.uploaded <= decision.budget
                    /\ subject.command = "residency" /\ decision.residency = "CPU_FALLBACK" =>
                          subject.file.size <= decision.budget
  BY DEF UploadsFit
<1>1. apply # NotDone
  BY DEF NotDone
<1>2. /\ decision.viable /\ apply.i \in 1..(Len(Regions) + 1)
      /\ Sent(apply.uploaded, apply.i)
  BY <1>1 DEF ApplyOK, Applied
<1>3. subject.file \in Files /\ decision.residency \in Strategies \cup {"HYBRID"} /\ decision.budget \in Nat
  BY <1>2, Decided
<1>4. ASSUME subject.command = "residency"
      PROVE  /\ subject.file.exists /\ decision.residency \in Strategies
             /\ decision.residency \in {"FULL_RESIDENT", "CPU_FALLBACK"} =>
                   subject.file.size <= decision.budget
  BY <1>2, <1>4, Decided
<1>5. CASE decision.residency = "PARTIAL_RESIDENT"
  BY <1>2, <1>5 DEF Sent
<1>6. CASE subject.command = "residency" /\ decision.residency = "FULL_RESIDENT"
  <2>1. Before(apply.i) \in Nat /\ Before(apply.i) <= subject.file.size /\ subject.file.size \in Nat
    BY <1>2, <1>3, <1>4, <1>6, RegionsAdd
  <2>2. apply.uploaded \in Nat /\ apply.uploaded <= Before(apply.i)
    BY <1>2, <1>4, <1>6 DEF Sent
  <2> QED
    BY <1>3, <1>4, <1>6, <2>1, <2>2
<1>7. CASE subject.command = "residency" /\ decision.residency \in {"STREAMING", "CPU_FALLBACK"}
  <2>1. apply.uploaded = 0
    BY <1>2, <1>7 DEF Sent
  <2> QED
    BY <1>3, <1>4, <1>7, <2>1
<1> QED
  BY <1>4, <1>5, <1>6, <1>7 DEF Strategies

\* The adapter that was not cancelled, beside the graph of the same plan.
Alike(asked, graph) ==
    /\ {a[1] : a \in asked} = DOMAIN NodeTargets
    /\ asked # graph => /\ subject.command = "apply" /\ use_accel
                        /\ decision.residency \in {"PARTIAL_RESIDENT", "HYBRID"}
    /\ decision.residency # "HYBRID" => graph \subseteq asked
    /\ decision.residency = "PARTIAL_RESIDENT" =>
          \A a \in asked \ graph : a[2] = "ACCELERATOR" /\ Regions[a[1]] <= decision.budget

LEMMA ApplyAsks ==
    ASSUME SubjectOK, DecisionOK, ApplyOK, apply.pc = "done", ~apply.cancel, subject.file.exists,
           Regions # << 0 >>
    PROVE  Alike(apply.asked, {<<r, NodeTargets[r]>> : r \in DOMAIN NodeTargets})
<1> DEFINE graph == {<<r, NodeTargets[r]>> : r \in DOMAIN NodeTargets}
           accel == use_accel
<1>1. apply # NotDone
  BY DEF NotDone
<1>2. /\ decision.viable /\ subject.command \in {"residency", "apply"}
      /\ decision.residency = "STREAMING" => apply.asked = {}
      /\ decision.residency # "STREAMING" => apply.i = Len(Regions) + 1
      /\ Asked(apply.asked, apply.i)
  BY <1>1 DEF ApplyOK, Applied, Complete
<1>3. CASE decision.residency = "STREAMING"
  <2>1. apply.asked = {} /\ NodeTargets = <<>>
    BY <1>2, <1>3, SameTargets
  <2> QED
    BY <1>3, <2>1 DEF Alike
<1>4. CASE decision.residency # "STREAMING"
  <2>1. /\ Len(Regions) \in Nat /\ DOMAIN NodeTargets = 1..Len(Regions)
        /\ (accel /\ decision.residency = "HYBRID") \/ \A r \in 1..Len(Regions) : NodeTargets[r] = Target
    BY <1>2, <1>4, Decided, SameTargets, RegionsNumber
  <2>2. apply.i - 1 = Len(Regions)
    BY <1>2, <1>4, <2>1
  <2> DEFINE n == Len(Regions)
             asked == apply.asked
  <2>3. /\ \A r \in 1..n : <<r, Target>> \in asked
        /\ \A a \in asked : /\ a = <<a[1], a[2]>> /\ a[1] \in 1..n
                            /\ a[2] # Target => /\ accel /\ decision.residency = "PARTIAL_RESIDENT"
                                                /\ a[2] = "ACCELERATOR" /\ Regions[a[1]] <= decision.budget
    BY <1>2, <2>2 DEF Asked
  <2> HIDE DEF accel, n, asked
  <2>4. {a[1] : a \in asked} = 1..n
    <3>1. ASSUME NEW r \in 1..n PROVE r \in {a[1] : a \in asked}
      <4>1. <<r, Target>> \in asked /\ <<r, Target>>[1] = r
        BY <2>3
      <4> QED
        BY <4>1
    <3> QED
      BY <2>3, <3>1
  <2>5. accel /\ subject.command = "residency" => decision.residency = "FULL_RESIDENT"
    BY <1>2, Decided DEF accel
  <2>6. CASE accel /\ decision.residency = "HYBRID"
    BY <1>2, <2>1, <2>4, <2>5, <2>6 DEF Alike, accel, n, asked
  <2>7. CASE ~(accel /\ decision.residency = "HYBRID")
    <3>1. DOMAIN NodeTargets = 1..n /\ \A r \in 1..n : NodeTargets[r] = Target
      BY <2>1, <2>7 DEF n
    <3>2. graph = {<<r, Target>> : r \in 1..n}
      BY <3>1
    <3>3. graph \subseteq asked
      BY <2>3, <3>2
    <3>4. ASSUME NEW a \in asked, a \notin graph
          PROVE  /\ accel /\ decision.residency = "PARTIAL_RESIDENT"
                 /\ a[2] = "ACCELERATOR" /\ Regions[a[1]] <= decision.budget
      <4>1. a = <<a[1], a[2]>> /\ a[1] \in 1..n
        BY <2>3
      <4>2. a[2] # Target
        BY <3>2, <3>4, <4>1
      <4> QED
        BY <2>3, <4>2
    <3> HIDE DEF graph
    <3>5. asked # graph => /\ subject.command = "apply" /\ accel
                           /\ decision.residency = "PARTIAL_RESIDENT"
      BY <1>2, <2>5, <3>3, <3>4
    <3> QED
      BY <2>1, <2>4, <3>3, <3>4, <3>5 DEF Alike, accel, n, asked, graph
  <2> QED
    BY <2>6, <2>7
<1> QED
  BY <1>3, <1>4

LEMMA SamePlan ==
    ASSUME UNCHANGED <<subject, decision>>
    PROVE  /\ Regions' = Regions /\ NodeTargets' = NodeTargets
           /\ \A i : Before(i)' = Before(i)
           /\ Target' = Target /\ use_accel' = use_accel
           /\ SubjectOK => SubjectOK'
           /\ DecisionOK => DecisionOK'
<1>1. subject' = subject /\ decision' = decision
  OBVIOUS
<1>2. Regions' = Regions
  BY <1>1 DEF Regions
<1>3. NodeTargets' = NodeTargets
  BY <1>1, <1>2 DEF NodeTargets, use_accel
<1>4. \A i : Before(i)' = Before(i)
  BY <1>1, <1>2 DEF Before
<1>5. SubjectOK => SubjectOK'
  BY <1>1 DEF SubjectOK
<1>6. DecisionOK => DecisionOK'
  BY <1>1 DEF DecisionOK
<1>7. Target' = Target /\ use_accel' = use_accel
  BY <1>1 DEF Target, use_accel
<1> QED
  BY <1>2, <1>3, <1>4, <1>5, <1>6, <1>7

LEMMA ApplyBecomes ==
    ASSUME UNCHANGED <<subject, decision>>, subject.command \in {"residency", "apply"}, decision.viable,
           NEW i, NEW up, NEW asked, Applied(apply', i, up, asked)
    PROVE  ApplyOK'
<1>1. apply'.i = i /\ apply'.uploaded = up /\ apply'.asked = asked
  BY DEF Applied
<1>2. Regions' = Regions /\ Target' = Target /\ use_accel' = use_accel /\ Before(i)' = Before(i)
  BY SamePlan
<1>3. subject' = subject /\ decision' = decision
  OBVIOUS
<1>4. Asked(asked, i)' /\ Sent(up, i)' /\ (Complete(i)' <=> Complete(i))
  BY <1>2, <1>3 DEF Applied, Asked, Sent, Complete
<1>5. Applied(apply, i, up, asked)'
  BY <1>2, <1>3, <1>4 DEF Applied
<1> QED
  BY <1>1, <1>3, <1>5 DEF ApplyOK

LEMMA ApplyIs ==
    ASSUME ApplyOK, apply # NotDone
    PROVE  /\ Applied(apply, apply.i, apply.uploaded, apply.asked)
           /\ subject.command \in {"residency", "apply"} /\ decision.viable
  BY DEF ApplyOK

LEMMA ApplyKept ==
    ASSUME ApplyOK, UNCHANGED <<subject, decision, apply>> PROVE ApplyOK'
<1>1. CASE apply = NotDone
  BY <1>1 DEF ApplyOK
<1>2. CASE apply # NotDone
  BY <1>2, ApplyIs, ApplyBecomes
<1> QED
  BY <1>1, <1>2

LEMMA ApplyBegun ==
    ASSUME SubjectOK, DecisionOK, applyBegins PROVE ApplyOK'
<1> DEFINE done == \/ ~subject.file.exists \/ Regions = << 0 >> \/ decision.residency = "STREAMING"
           ok == decision.residency = "STREAMING" /\ subject.file.exists /\ Regions # << 0 >>
<1>1. /\ apply' = [pc |-> IF done THEN "done" ELSE "region", i |-> 1, ram |-> 0, uploaded |-> 0,
                   asked |-> {}, cancel |-> FALSE, success |-> ok]
      /\ UNCHANGED <<subject, decision>> /\ subject.command \in {"residency", "apply"} /\ decision.viable
  BY DEF applyBegins, Planned
<1>2. Len(Regions) \in {1, 2} /\ decision.budget \in Nat
  BY <1>1, Decided, RegionsNumber
<1>3. 1 \in 1..(Len(Regions) + 1) /\ Before(1) = 0
  BY <1>2 DEF Before
<1>4. Sent(0, 1)
  BY <1>2, <1>3 DEF Sent
<1>5. Asked({}, 1)
  <2>1. 1..(1 - 1) = {}
    OBVIOUS
  <2> QED
    BY <2>1 DEF Asked
<1>6. Applied(apply', 1, 0, {})
  <2>1. apply'.pc = IF done THEN "done" ELSE "region"
    BY <1>1
  <2>2. apply' \in [pc : {"region", "done"}, i : {1}, ram : {apply'.ram}, uploaded : {0},
                    asked : {{}}, cancel : {apply'.cancel}, success : {apply'.success}]
    <3> HIDE DEF ok
    <3> QED BY <1>1
  <2> QED
    BY <1>3, <1>4, <1>5, <2>1, <2>2 DEF Applied, Complete
<1> QED
  BY <1>1, <1>6, ApplyBecomes

\* One region more.
LEMMA RegionApplied ==
    ASSUME SubjectOK, DecisionOK, ApplyOK, NEW ok \in BOOLEAN, NEW up \in BOOLEAN, applyRegion(ok, up)
    PROVE  ApplyOK'
<1> DEFINE size == Regions[apply.i]
           second == ok /\ Uploads(size)
           asked == apply.asked \cup {<<apply.i, Target>>}
                       \cup (IF second THEN {<<apply.i, "ACCELERATOR">>} ELSE {})
           sent == IF (ok /\ Target = "ACCELERATOR") \/ up THEN size ELSE 0
           got == IF ok THEN 1 ELSE 0
           i == apply.i
<1>1. /\ apply.pc = "region" /\ ~apply.cancel /\ i <= Len(Regions) /\ (up => second)
      /\ apply' = [apply EXCEPT !.i = apply.i + 1, !.ram = apply.ram + got,
                      !.asked = asked, !.uploaded = apply.uploaded + sent]
      /\ UNCHANGED <<subject, decision>>
  BY DEF applyRegion
<1>2. apply # NotDone
  BY <1>1 DEF NotDone
<1>3. /\ Applied(apply, i, apply.uploaded, apply.asked)
      /\ subject.command \in {"residency", "apply"} /\ decision.viable
  BY <1>2, ApplyIs
<1>4. /\ subject.file \in Files /\ subject.file.exists
      /\ decision.residency \in Strategies \cup {"HYBRID"} /\ decision.budget \in Nat
      /\ decision.residency # "STREAMING"
  BY <1>1, <1>3, Decided DEF Applied
<1>5. /\ Len(Regions) \in Nat /\ DOMAIN Regions = 1..Len(Regions)
      /\ i \in 1..(Len(Regions) + 1)
  BY <1>3, <1>4, RegionsAdd DEF Applied
<1>6. i \in 1..Len(Regions) /\ i + 1 \in 1..(Len(Regions) + 1) /\ (i + 1) - 1 = i
  BY <1>1, <1>5
<1>7. size \in Nat /\ Before(i) + size = Before(i + 1) /\ Before(i) \in Nat
  BY <1>4, <1>5, <1>6, RegionsAdd
<1>8. second => /\ use_accel /\ decision.residency = "PARTIAL_RESIDENT"
                /\ apply.uploaded + size <= decision.budget
  BY DEF Uploads
<1>9. /\ apply.uploaded \in Nat
      /\ decision.residency = "FULL_RESIDENT" => apply.uploaded <= Before(i)
      /\ decision.residency = "PARTIAL_RESIDENT" => apply.uploaded <= decision.budget
      /\ decision.residency = "CPU_FALLBACK" => apply.uploaded = 0
  BY <1>3, <1>4 DEF Applied, Sent
<1>10. Target = "ACCELERATOR" => decision.residency \in {"FULL_RESIDENT", "HYBRID"}
  BY DEF Target
<1>11. /\ {<<r, Target>> : r \in 1..(i - 1)} \subseteq apply.asked
       /\ \A a \in apply.asked :
             /\ a = <<a[1], a[2]>> /\ a[1] \in 1..(i - 1)
             /\ a[2] # Target => /\ use_accel /\ decision.residency = "PARTIAL_RESIDENT"
                                 /\ a[2] = "ACCELERATOR" /\ Regions[a[1]] <= decision.budget
  BY <1>3 DEF Applied, Asked
<1>12. second => size <= decision.budget
  BY <1>4, <1>7, <1>8, <1>9
<1> HIDE DEF second
<1>13. Sent(apply.uploaded + sent, i + 1)
  <2>1. sent \in Nat /\ sent <= size
    BY <1>7
  <2>2. decision.residency = "CPU_FALLBACK" => sent = 0
    BY <1>1, <1>8, <1>10
  <2>3. decision.residency = "PARTIAL_RESIDENT" => sent = 0 \/ apply.uploaded + sent <= decision.budget
    BY <1>1, <1>8, <1>10
  <2> HIDE DEF sent, size
  <2>4. apply.uploaded + sent \in Nat
    BY <1>9, <2>1
  <2>5. decision.residency = "FULL_RESIDENT" => apply.uploaded + sent <= Before(i + 1)
    BY <1>7, <1>9, <2>1
  <2>6. decision.residency = "PARTIAL_RESIDENT" => apply.uploaded + sent <= decision.budget
    BY <1>9, <2>1, <2>3
  <2>7. decision.residency = "CPU_FALLBACK" => apply.uploaded + sent = 0
    BY <1>9, <2>2
  <2> QED
    BY <1>4, <2>4, <2>5, <2>6, <2>7 DEF Sent
<1>14. Asked(asked, i + 1)
  <2>1. 1..((i + 1) - 1) = 1..(i - 1) \cup {i}
    BY <1>6
  <2>2. {<<r, Target>> : r \in 1..((i + 1) - 1)} \subseteq asked
    BY <1>11, <2>1
  <2>3. ASSUME NEW a \in asked
        PROVE  /\ a = <<a[1], a[2]>> /\ a[1] \in 1..((i + 1) - 1)
               /\ a[2] # Target => /\ use_accel /\ decision.residency = "PARTIAL_RESIDENT"
                                   /\ a[2] = "ACCELERATOR" /\ Regions[a[1]] <= decision.budget
    <3>1. CASE a \in apply.asked
      BY <1>11, <2>1, <3>1
    <3>2. CASE a = <<i, Target>>
      BY <2>1, <3>2
    <3>3. CASE second /\ a = <<i, "ACCELERATOR">>
      BY <1>8, <1>12, <2>1, <3>3
    <3> QED
      BY <2>3, <3>1, <3>2, <3>3
  <2> HIDE DEF asked
  <2> QED
    BY <2>2, <2>3 DEF Asked
<1> HIDE DEF sent, got, asked
<1>15. /\ apply' \in [pc : {"region", "done"}, i : {i + 1}, ram : {apply'.ram},
                      uploaded : {apply.uploaded + sent}, asked : {asked},
                      cancel : {apply'.cancel}, success : {apply'.success}]
       /\ apply'.pc = "region"
  BY <1>1, <1>3 DEF Applied
<1>16. Applied(apply', i + 1, apply.uploaded + sent, asked)
  BY <1>4, <1>6, <1>13, <1>14, <1>15 DEF Applied
<1> QED
  BY <1>1, <1>3, <1>16, ApplyBecomes

LEMMA ApplyStep ==
    ASSUME SubjectOK, DecisionOK, ApplyOK, ResidencyCommand PROVE ApplyOK'
<1>1. CASE applyBegins
  BY <1>1, ApplyBegun
<1>2. CASE Cancel
  <2>1. apply # NotDone /\ apply' = [apply EXCEPT !.cancel = TRUE] /\ UNCHANGED <<subject, decision>>
    BY <1>2 DEF Cancel, NotDone
  <2>2. Applied(apply, apply.i, apply.uploaded, apply.asked) /\ apply.pc = "region"
    BY <1>2, <2>1, ApplyIs DEF Cancel
  <2>3. Applied(apply', apply.i, apply.uploaded, apply.asked)
    BY <2>1, <2>2 DEF Applied
  <2> QED
    BY <2>1, <2>3, ApplyIs, ApplyBecomes
<1>3. CASE applyCancelled
  <2>1. apply # NotDone /\ apply' = [apply EXCEPT !.pc = "done"] /\ UNCHANGED <<subject, decision>>
    BY <1>3 DEF applyCancelled, NotDone
  <2>2. Applied(apply, apply.i, apply.uploaded, apply.asked) /\ apply.cancel
    BY <1>3, <2>1, ApplyIs DEF applyCancelled
  <2>3. Applied(apply', apply.i, apply.uploaded, apply.asked)
    BY <2>1, <2>2 DEF Applied
  <2> QED
    BY <2>1, <2>3, ApplyIs, ApplyBecomes
<1>4. CASE applyEnds
  <2> DEFINE ok == IF decision.residency = "CPU_FALLBACK" THEN apply.ram = Len(Regions) ELSE apply.ram > 0
  <2>1. /\ apply # NotDone /\ apply' = [apply EXCEPT !.pc = "done", !.success = ok]
        /\ UNCHANGED <<subject, decision>> /\ apply.i > Len(Regions)
    BY <1>4 DEF applyEnds, NotDone
  <2>2. Applied(apply, apply.i, apply.uploaded, apply.asked)
    BY <1>4, <2>1, ApplyIs
  <2>3. Len(Regions) \in Nat /\ apply.i \in 1..(Len(Regions) + 1)
    BY <2>1, <2>2, ApplyIs, Decided, RegionsNumber DEF Applied
  <2>4. apply.i = Len(Regions) + 1
    BY <2>1, <2>3
  <2> HIDE DEF ok
  <2>5. Applied(apply', apply.i, apply.uploaded, apply.asked)
    BY <2>1, <2>2, <2>4 DEF Applied, Complete
  <2> QED
    BY <2>1, <2>5, ApplyIs, ApplyBecomes
<1>5. ASSUME NEW ok \in BOOLEAN, NEW up \in BOOLEAN, applyRegion(ok, up) PROVE ApplyOK'
  BY <1>5, RegionApplied
<1> QED
  BY <1>1, <1>2, <1>3, <1>4, <1>5 DEF ResidencyCommand

-----------------------------------------------------------------------------
(* ExecutionGraphBuilder::build *)

LinkedPcs == {"validate", "validating", "built"}

\* The edges of the graph: with R residency nodes, of which n are linked.
Edges(pc, n, R, N, A) ==
    \A m \in N : A[m] = IF m <= n THEN <<R + 1>>
                         ELSE IF m = R + 1 /\ pc \in LinkedPcs THEN <<R + 2>> ELSE <<>>

\* The graph while it is built, N and A being its nodes and edges: the residency nodes, the barrier, the compute node.
Building(pc, next, n, R, N, A) ==
    /\ pc \in {"nodes", "edges", "link"} \cup LinkedPcs
    /\ R \in Nat /\ next \in Nat /\ n \in 0..R /\ N = 1..(next - 1)
    /\ pc = "nodes" => next \in 1..(R + 1) /\ n = 0
    /\ pc = "edges" => next = R + 2
    /\ pc \in {"link"} \cup LinkedPcs => next = R + 3 /\ n = R
    /\ Edges(pc, n, R, N, A)

BuilderOK ==
    \/ builder = NotDone /\ (subject.command # "library" => nodes = {})
    \/ /\ subject.command \in {"graph", "build"} /\ decision.viable
       /\ builder \in [pc : {builder.pc}, next_id : {builder.next_id}, linked : {builder.linked},
                       targets : {NodeTargets}]
       /\ Building(builder.pc, builder.next_id, builder.linked, Len(NodeTargets), nodes, adj)

LEMMA TargetsNumber ==
    ASSUME SubjectOK, DecisionOK, decision.viable
    PROVE  Len(NodeTargets) \in Nat
           /\ DOMAIN NodeTargets = IF decision.residency = "STREAMING" THEN {} ELSE DOMAIN Regions
<1>1. CASE decision.residency = "STREAMING"
  BY <1>1, SameTargets
<1>2. CASE decision.residency # "STREAMING"
  <2>1. subject.file \in Files
    BY Decided
  <2>2. Len(Regions) \in Nat /\ DOMAIN Regions = 1..Len(Regions)
    BY <2>1, RegionsNumber
  <2>3. DOMAIN NodeTargets = DOMAIN Regions
    BY <1>2, SameTargets
  <2>4. Len(NodeTargets) = Len(Regions)
    <3>1. \E f : NodeTargets = [r \in DOMAIN Regions |-> f]
      <4>1. decision.residency \in Strategies \cup {"HYBRID"}
        BY Decided
      <4>2. CASE decision.residency = "FULL_RESIDENT"
        BY <4>2 DEF NodeTargets
      <4>3. CASE decision.residency \in {"PARTIAL_RESIDENT", "HYBRID", "CPU_FALLBACK"}
        BY <4>3 DEF NodeTargets
      <4> QED
        BY <1>2, <4>1, <4>2, <4>3 DEF Strategies
    <3> DEFINE n == Len(Regions)
    <3> HIDE DEF n
    <3>2. PICK f : NodeTargets = [r \in 1..n |-> f]
      BY <2>2, <3>1 DEF n
    <3>3. n \in Nat
      BY <2>2 DEF n
    <3>4. Len([r \in 1..n |-> f]) = n
      BY <3>3
    <3> QED
      BY <3>2, <3>4 DEF n
  <2> QED
    BY <1>2, <2>2, <2>3, <2>4
<1> QED
  BY <1>1, <1>2

\* The chain has no cycle, and everything in it leads to the compute node.
LEMMA ChainIsAcyclic ==
    ASSUME NEW pc \in LinkedPcs, NEW next, NEW n, NEW R, Building(pc, next, n, R, nodes, adj)
    PROVE  /\ Acyclic
           /\ \A m \in nodes \ {R + 2} : R + 2 \in ReachableFrom(m)
           /\ ReachableFrom(R + 2) = {}
<1>1. R \in Nat /\ n = R /\ nodes = 1..(R + 2)
  <2>1. R \in Nat /\ n = R /\ next = R + 3 /\ nodes = 1..(next - 1)
    BY DEF Building
  <2>2. next - 1 = R + 2
    BY <2>1
  <2> QED
    BY <2>1, <2>2
<1>2. \A x : Elems(<<x>>) = {x}
  BY DEF Elems
<1>3. Elems(<<>>) = {}
  BY DEF Elems
<1>4. \A m \in nodes : Elems(adj[m]) = IF m <= R THEN {R + 1} ELSE IF m = R + 1 THEN {R + 2} ELSE {}
  BY <1>1, <1>2, <1>3 DEF Building, Edges
<1>5. /\ \A m \in 1..R : m \in nodes /\ Elems(adj[m]) = {R + 1}
      /\ R + 1 \in nodes /\ Elems(adj[R + 1]) = {R + 2}
      /\ R + 2 \in nodes /\ Elems(adj[R + 2]) = {}
      /\ \A m \in nodes : m \in 1..R \/ m = R + 1 \/ m = R + 2
  BY <1>1, <1>4
<1>6. R + 1 \notin 1..R /\ R + 2 \notin 1..R /\ R + 1 # R + 2
  BY <1>1
<1>7. ASSUME NEW S \in SUBSET nodes, S # {} PROVE \E x \in S : \A m \in S : x \notin Elems(adj[m])
  <2>1. CASE \E x \in S : x \in 1..R
    <3>1. PICK x \in S : x \in 1..R BY <2>1
    <3>2. ASSUME NEW m \in S PROVE x \notin Elems(adj[m])
      BY <1>5, <1>6, <3>1
    <3> QED BY <3>1, <3>2
  <2>2. CASE (~\E x \in S : x \in 1..R) /\ R + 1 \in S
    <3>1. ASSUME NEW m \in S PROVE R + 1 \notin Elems(adj[m])
      BY <1>5, <1>6, <2>2
    <3> QED BY <2>2, <3>1
  <2>3. CASE (~\E x \in S : x \in 1..R) /\ R + 1 \notin S
    <3>1. ASSUME NEW m \in S PROVE m = R + 2 /\ Elems(adj[m]) = {}
      BY <1>5, <2>3
    <3> QED BY <1>7, <3>1
  <2> QED
    BY <2>1, <2>2, <2>3
<1>8. ASSUME NEW m \in nodes \ {R + 2} PROVE R + 2 \in ReachableFrom(m)
  <2>1. ASSUME NEW S \in SUBSET nodes, \A x \in S \cup {m} : Elems(adj[x]) \subseteq S
        PROVE  R + 2 \in S
    <3>1. R + 1 \in S \cup {m}
      BY <1>5, <2>1
    <3> QED
      BY <1>5, <2>1, <3>1
  <2> QED
    BY <1>5, <2>1 DEF ReachableFrom
<1>9. ReachableFrom(R + 2) = {}
  <2>1. \A x \in {} \cup {R + 2} : Elems(adj[x]) \subseteq {}
    BY <1>5
  <2>2. {} \in SUBSET nodes
    OBVIOUS
  <2> QED
    BY <2>1, <2>2 DEF ReachableFrom
<1> QED
  BY <1>7, <1>8, <1>9 DEF Acyclic

LEMMA BuilderReads ==
    ASSUME SubjectOK, DecisionOK, BuilderOK
    PROVE  /\ builder.pc # "refused"
           /\ builder.pc = "built" =>
                 /\ DOMAIN builder.targets = IF decision.residency = "STREAMING" THEN {} ELSE DOMAIN Regions
                 /\ \A n \in nodes \ {Compute} : Compute \in ReachableFrom(n)
                 /\ ReachableFrom(Compute) = {}
<1>1. CASE builder = NotDone
  BY <1>1 DEF NotDone
<1>2. CASE builder # NotDone
  <2> DEFINE R == Len(NodeTargets)
  <2>1. /\ decision.viable /\ builder.targets = NodeTargets
        /\ Building(builder.pc, builder.next_id, builder.linked, R, nodes, adj)
    BY <1>2 DEF BuilderOK
  <2>2. builder.pc # "refused"
    BY <2>1 DEF Building, LinkedPcs
  <2>3. DOMAIN builder.targets = IF decision.residency = "STREAMING" THEN {} ELSE DOMAIN Regions
    BY <2>1, TargetsNumber
  <2>4. Compute = R + 2
    BY <2>1 DEF Compute, Residencies
  <2> HIDE DEF R
  <2>5. ASSUME builder.pc = "built"
        PROVE  /\ \A n \in nodes \ {R + 2} : R + 2 \in ReachableFrom(n)
               /\ ReachableFrom(R + 2) = {}
    <3>1. builder.pc \in LinkedPcs
      BY <2>5 DEF LinkedPcs
    <3> QED
      BY <2>1, <3>1, ChainIsAcyclic
  <2> QED
    BY <2>2, <2>3, <2>4, <2>5
<1> QED
  BY <1>1, <1>2

LEMMA Read == SubjectOK /\ DecisionOK /\ ApplyOK /\ BuilderOK => OneReading
  BY BuilderReads, ApplyAsks DEF OneReading, Alike

LEMMA BuilderIs ==
    ASSUME BuilderOK, builder # NotDone
    PROVE  /\ subject.command \in {"graph", "build"} /\ decision.viable
           /\ builder \in [pc : {builder.pc}, next_id : {builder.next_id}, linked : {builder.linked},
                            targets : {NodeTargets}]
           /\ builder.targets = NodeTargets /\ Residencies = Len(NodeTargets)
           /\ Sync = Len(NodeTargets) + 1 /\ Compute = Len(NodeTargets) + 2
           /\ Building(builder.pc, builder.next_id, builder.linked, Len(NodeTargets), nodes, adj)
  BY DEF BuilderOK, Residencies, Sync, Compute

\* A step of the builder.
LEMMA BuilderBecomes ==
    ASSUME UNCHANGED <<subject, decision>>, subject.command \in {"graph", "build"}, decision.viable,
           NEW pc, NEW next, NEW n,
           builder' \in [pc : {pc}, next_id : {next}, linked : {n}, targets : {NodeTargets}],
           Building(pc, next, n, Len(NodeTargets), nodes', adj')
    PROVE  BuilderOK'
<1>1. builder'.pc = pc /\ builder'.next_id = next /\ builder'.linked = n
  OBVIOUS
<1>2. NodeTargets' = NodeTargets
  BY SamePlan
<1> QED
  BY <1>1, <1>2 DEF BuilderOK

LEMMA BuilderKept ==
    ASSUME BuilderOK, UNCHANGED <<subject, decision, builder>>,
           UNCHANGED <<nodes, adj>> \/ (builder = NotDone /\ subject.command = "library")
    PROVE  BuilderOK'
<1>1. CASE builder = NotDone
  <2>1. subject.command # "library" => nodes = {}
    BY <1>1 DEF BuilderOK, NotDone
  <2> QED
    BY <1>1, <2>1 DEF BuilderOK
<1>2. CASE builder # NotDone
  <2>1. /\ Building(builder.pc, builder.next_id, builder.linked, Len(NodeTargets), nodes', adj')
        /\ builder' \in [pc : {builder.pc}, next_id : {builder.next_id}, linked : {builder.linked},
                         targets : {NodeTargets}]
    BY <1>2, BuilderIs
  <2> QED
    BY <1>2, <2>1, BuilderIs, BuilderBecomes
<1> QED
  BY <1>1, <1>2

\* The node next is added to the nodes that are numbered 1, 2, ...
LEMMA Numbered ==
    ASSUME NEW next \in Nat, next # 0, nodes = 1..(next - 1), addNode(next)
    PROVE  /\ nodes' = 1..((next + 1) - 1) /\ adj'[next] = <<>>
           /\ \A m \in nodes : adj'[m] = adj[m]
           /\ \A m \in nodes' : m = next \/ (m \in nodes /\ m \in Nat)
<1>1. nodes' = nodes \cup {next} /\ next \notin nodes
  BY DEF addNode
<1>2. nodes' = 1..((next + 1) - 1)
  BY <1>1
<1>3. \A m \in nodes' : adj'[m] = IF m \in nodes THEN adj[m] ELSE <<>>
  BY DEF addNode
<1>4. \A m \in nodes : m \in Nat
  OBVIOUS
<1> QED
  BY <1>1, <1>2, <1>3, <1>4

LEMMA NodeBuilt == ASSUME BuilderOK, buildNode PROVE BuilderOK'
<1> DEFINE R == Len(NodeTargets)
           next == builder.next_id
           pc == IF next = R + 1 THEN "edges" ELSE "nodes"
<1>1. builder # NotDone /\ builder.pc = "nodes"
  BY DEF buildNode, NotDone
<1>2. /\ subject.command \in {"graph", "build"} /\ decision.viable /\ UNCHANGED <<subject, decision>>
      /\ builder' \in [pc : {pc}, next_id : {next + 1}, linked : {builder.linked}, targets : {NodeTargets}]
  BY <1>1, BuilderIs DEF buildNode
<1>3. Building("nodes", next, builder.linked, R, nodes, adj)
  BY <1>1, BuilderIs
<1>4. /\ R \in Nat /\ next \in Nat /\ next # 0 /\ next <= R + 1 /\ builder.linked = 0
      /\ nodes = 1..(next - 1) /\ Edges("nodes", 0, R, nodes, adj)
  BY <1>3 DEF Building
<1>5. addNode(next)
  BY DEF buildNode
<1> HIDE DEF next, R
<1>6. /\ nodes' = 1..((next + 1) - 1) /\ adj'[next] = <<>>
      /\ \A m \in nodes : adj'[m] = adj[m]
      /\ \A m \in nodes' : m = next \/ (m \in nodes /\ m \in Nat)
  BY <1>4, <1>5, Numbered
<1>7. pc \in {"nodes", "edges"} /\ pc \notin LinkedPcs
  BY DEF LinkedPcs
<1>8. Edges(pc, 0, R, nodes', adj')
  <2>1. \A m \in nodes' : adj'[m] = <<>>
    <3>1. \A m \in nodes : adj[m] = <<>>
      BY <1>4 DEF Edges, LinkedPcs
    <3> QED BY <1>6, <3>1
  <2>2. \A m \in nodes' : ~(m <= 0)
    BY <1>4, <1>6
  <2> HIDE DEF pc
  <2> QED
    BY <1>7, <2>1, <2>2 DEF Edges
<1>9. Building(pc, next + 1, 0, R, nodes', adj')
  <2>1. next + 1 \in Nat /\ 0 \in 0..R
    BY <1>4
  <2>2. pc = "nodes" => next + 1 \in 1..(R + 1)
    BY <1>4
  <2>3. pc = "edges" => next + 1 = R + 2
    BY <1>4
  <2>4. pc \notin {"link"} \cup LinkedPcs
    BY DEF LinkedPcs
  <2> HIDE DEF pc
  <2> QED
    BY <1>4, <1>6, <1>7, <1>8, <2>1, <2>2, <2>3, <2>4 DEF Building
<1> HIDE DEF pc
<1> QED
  BY <1>2, <1>4, <1>9, BuilderBecomes DEF R

LEMMA EdgeBuilt == ASSUME GraphOK, BuilderOK, buildEdge PROVE BuilderOK'
<1> DEFINE R == Len(NodeTargets)
           n == builder.linked
<1>1. builder # NotDone /\ builder.pc = "edges"
  BY DEF buildEdge, NotDone
<1>2. /\ subject.command \in {"graph", "build"} /\ decision.viable /\ UNCHANGED <<subject, decision>>
      /\ builder' \in [pc : {"edges"}, next_id : {builder.next_id}, linked : {n + 1}, targets : {NodeTargets}]
      /\ n # R /\ addDependency(n + 1, R + 1)
  BY <1>1, BuilderIs DEF buildEdge, AllLinked
<1>3. Building("edges", builder.next_id, n, R, nodes, adj)
  BY <1>1, BuilderIs
<1>4. /\ R \in Nat /\ n \in 0..R /\ builder.next_id = R + 2 /\ nodes = 1..((R + 2) - 1)
      /\ Edges("edges", n, R, nodes, adj)
  BY <1>3 DEF Building
<1> HIDE DEF n, R
<1>5. n \in Nat /\ n + 1 \in 0..R /\ n + 1 <= R /\ n + 1 \in nodes /\ \A m \in nodes : m \in Nat
  BY <1>2, <1>4
<1>6. adj[n + 1] = <<>>
  BY <1>4, <1>5 DEF Edges, LinkedPcs
<1>7. nodes' = nodes /\ adj'[n + 1] = <<R + 1>> /\ \A m \in nodes \ {n + 1} : adj'[m] = adj[m]
  BY <1>2, <1>5, <1>6 DEF addDependency, GraphOK, PushNew, Elems
<1>8. Edges("edges", n + 1, R, nodes, adj')
  <2> SUFFICES ASSUME NEW m \in nodes PROVE adj'[m] = IF m <= n + 1 THEN <<R + 1>> ELSE <<>>
    BY DEF Edges, LinkedPcs
  <2>1. CASE m = n + 1
    BY <1>5, <1>7, <2>1
  <2>2. CASE m # n + 1
    <3>1. m <= n + 1 <=> m <= n
      BY <1>5, <2>2
    <3>2. adj[m] = IF m <= n THEN <<R + 1>> ELSE <<>>
      BY <1>4 DEF Edges, LinkedPcs
    <3> QED
      BY <1>7, <2>2, <3>1, <3>2
  <2> QED
    BY <2>1, <2>2
<1>9. Building("edges", R + 2, n + 1, R, nodes', adj')
  BY <1>4, <1>5, <1>7, <1>8 DEF Building, LinkedPcs
<1> QED
  BY <1>2, <1>4, <1>9, BuilderBecomes DEF R

LEMMA ComputeBuilt == ASSUME BuilderOK, buildCompute PROVE BuilderOK'
<1> DEFINE R == Len(NodeTargets)
<1>1. builder # NotDone /\ builder.pc = "edges"
  BY DEF buildCompute, NotDone
<1>2. Building("edges", builder.next_id, builder.linked, R, nodes, adj)
  BY <1>1, BuilderIs
<1>3. /\ R \in Nat /\ builder.next_id = R + 2 /\ nodes = 1..((R + 2) - 1)
      /\ Edges("edges", builder.linked, R, nodes, adj)
  BY <1>2 DEF Building
<1>4. /\ subject.command \in {"graph", "build"} /\ decision.viable /\ UNCHANGED <<subject, decision>>
      /\ builder.linked = R /\ addNode(R + 2)
      /\ builder' \in [pc : {"link"}, next_id : {(R + 2) + 1}, linked : {R}, targets : {NodeTargets}]
  BY <1>1, <1>3, BuilderIs DEF buildCompute, AllLinked
<1> HIDE DEF R
<1>5. R + 2 \in Nat /\ R + 2 # 0 /\ (R + 2) + 1 = R + 3
  BY <1>3
<1>6. /\ nodes' = 1..(((R + 2) + 1) - 1) /\ adj'[R + 2] = <<>>
      /\ \A m \in nodes : adj'[m] = adj[m]
      /\ \A m \in nodes' : m = R + 2 \/ (m \in nodes /\ m \in Nat)
  BY <1>3, <1>4, <1>5, Numbered
<1>7. Edges("link", R, R, nodes', adj')
  <2> SUFFICES ASSUME NEW m \in nodes' PROVE adj'[m] = IF m <= R THEN <<R + 1>> ELSE <<>>
    BY DEF Edges, LinkedPcs
  <2>1. CASE m = R + 2
    <3>1. ~(m <= R)
      BY <1>3, <2>1
    <3> QED
      BY <1>6, <2>1, <3>1
  <2>2. CASE m \in nodes
    <3>1. adj[m] = IF m <= R THEN <<R + 1>> ELSE <<>>
      BY <1>3, <1>4, <2>2 DEF Edges, LinkedPcs
    <3> QED
      BY <1>6, <2>2, <3>1
  <2> QED
    BY <1>6, <2>1, <2>2
<1>8. Building("link", R + 3, R, R, nodes', adj')
  BY <1>3, <1>5, <1>6, <1>7 DEF Building, LinkedPcs
<1> QED
  BY <1>4, <1>5, <1>8, BuilderBecomes DEF R

LEMMA LinkBuilt == ASSUME GraphOK, BuilderOK, buildLink PROVE BuilderOK'
<1> DEFINE R == Len(NodeTargets)
<1>1. builder # NotDone /\ builder.pc = "link"
  BY DEF buildLink, NotDone
<1>2. Building("link", builder.next_id, builder.linked, R, nodes, adj)
  BY <1>1, BuilderIs
<1>3. /\ R \in Nat /\ builder.next_id = R + 3 /\ builder.linked = R /\ nodes = 1..((R + 3) - 1)
      /\ Edges("link", R, R, nodes, adj)
  BY <1>2 DEF Building
<1>4. /\ subject.command \in {"graph", "build"} /\ decision.viable /\ UNCHANGED <<subject, decision>>
      /\ addDependency(R + 1, R + 2)
      /\ builder' \in [pc : {"validate"}, next_id : {R + 3}, linked : {R}, targets : {NodeTargets}]
  BY <1>1, <1>3, BuilderIs DEF buildLink
<1> HIDE DEF R
<1>5. R + 1 \in nodes /\ ~(R + 1 <= R) /\ R + 3 \in Nat
  BY <1>3
<1>6. adj[R + 1] = <<>>
  BY <1>3, <1>5 DEF Edges, LinkedPcs
<1>7. nodes' = nodes /\ adj'[R + 1] = <<R + 2>> /\ \A m \in nodes \ {R + 1} : adj'[m] = adj[m]
  BY <1>4, <1>5, <1>6 DEF addDependency, GraphOK, PushNew, Elems
<1>8. Edges("validate", R, R, nodes, adj')
  <2> SUFFICES ASSUME NEW m \in nodes
               PROVE  adj'[m] = IF m <= R THEN <<R + 1>> ELSE IF m = R + 1 THEN <<R + 2>> ELSE <<>>
    BY DEF Edges, LinkedPcs
  <2>1. adj[m] = IF m <= R THEN <<R + 1>> ELSE <<>>
    BY <1>3 DEF Edges, LinkedPcs
  <2> QED
    BY <1>5, <1>7, <2>1
<1>9. Building("validate", R + 3, R, R, nodes', adj')
  BY <1>3, <1>5, <1>7, <1>8 DEF Building, LinkedPcs
<1> QED
  BY <1>4, <1>9, BuilderBecomes DEF R

\* validate and its search leave the graph, and never find a cycle in it.
LEMMA ValidateBuilt ==
    ASSUME GraphInv, BuilderOK, buildValidates \/ buildSearches PROVE BuilderOK'
<1> DEFINE R == Len(NodeTargets)
           next == builder.next_id
           n == builder.linked
<1>1. builder # NotDone /\ builder.pc \in {"validate", "validating"} /\ UNCHANGED <<nodes, adj, subject, decision>>
  <2>1. ASSUME validate \/ validateGoesOn PROVE UNCHANGED <<nodes, adj>>
    BY <2>1, SearchReads DEF validate
  <2> QED
    BY <2>1, SMTT(20) DEF buildValidates, buildSearches, NotDone
<1>2. Building(builder.pc, next, n, R, nodes, adj) /\ subject.command \in {"graph", "build"} /\ decision.viable
  BY <1>1, BuilderIs
<1>3. Acyclic
  BY <1>1, <1>2, ChainIsAcyclic DEF LinkedPcs
<1>4. ASSUME NEW pc \in LinkedPcs,
             builder' \in [pc : {pc}, next_id : {next}, linked : {n}, targets : {NodeTargets}]
      PROVE  BuilderOK'
  <2>1. builder.pc \in LinkedPcs
    BY <1>1 DEF LinkedPcs
  <2>2. Building(pc, next, n, R, nodes, adj)
    BY <1>2, <2>1, <1>4 DEF Building, Edges, LinkedPcs
  <2> QED
    BY <1>1, <1>2, <1>4, <2>2, BuilderBecomes
<1>5. CASE buildValidates
  <2>1. builder' \in [pc : {"validating"}, next_id : {next}, linked : {n}, targets : {NodeTargets}]
    BY <1>1, <1>5, BuilderIs DEF buildValidates
  <2> QED
    BY <1>4, <2>1 DEF LinkedPcs
<1>6. CASE buildSearches
  <2> DEFINE pc == CASE search'.pc = "valid" -> "built" [] search'.pc = "cycle" -> "refused" [] OTHER -> builder.pc
  <2>1. builder' = [builder EXCEPT !.pc = pc]
    BY <1>6 DEF buildSearches
  <2>2. GraphInv' /\ (Acyclic' <=> Acyclic)
    BY <1>1, <1>6, GraphInductive, SameGraph DEF buildSearches
  <2>3. search'.pc # "cycle"
    BY <1>3, <2>2 DEF GraphInv, ValidateOK
  <2>4. pc \in LinkedPcs
    BY <1>1, <2>3 DEF LinkedPcs
  <2> HIDE DEF pc
  <2>5. builder' \in [pc : {pc}, next_id : {next}, linked : {n}, targets : {NodeTargets}]
    BY <1>1, <2>1, BuilderIs
  <2> QED
    BY <1>4, <2>4, <2>5
<1> QED
  BY <1>5, <1>6

LEMMA BuildBegun == ASSUME SubjectOK, DecisionOK, BuilderOK, buildBegins PROVE BuilderOK'
<1> DEFINE R == Len(NodeTargets)
<1>1. /\ subject.command \in {"graph", "build"} /\ decision.viable /\ UNCHANGED <<subject, decision, nodes, adj>>
      /\ builder = NotDone
      /\ builder' = [pc |-> "nodes", next_id |-> 1, linked |-> 0, targets |-> NodeTargets]
  BY DEF buildBegins, Planned, graphVars
<1>2. nodes = {}
  BY <1>1 DEF BuilderOK, NotDone
<1>3. R \in Nat
  BY <1>1, TargetsNumber
<1> HIDE DEF R
<1>4. Building("nodes", 1, 0, R, nodes', adj')
  <2>1. nodes' = 1..(1 - 1)
    BY <1>1, <1>2
  <2>2. Edges("nodes", 0, R, nodes', adj')
    BY <1>1, <1>2 DEF Edges
  <2> QED
    BY <1>3, <2>1, <2>2 DEF Building, LinkedPcs
<1> QED
  BY <1>1, <1>4, BuilderBecomes DEF R

LEMMA BuildStep ==
    ASSUME SubjectOK, DecisionOK, GraphInv, BuilderOK, GraphCommand
    PROVE  GraphInv' /\ BuilderOK'
<1>1. BuilderOK'
  BY BuildBegun, NodeBuilt, EdgeBuilt, ComputeBuilt, LinkBuilt, ValidateBuilt DEF GraphCommand, GraphInv
<1>2. GraphInv'
  BY GraphInductive DEF GraphCommand, buildBegins, buildNode, buildEdge, buildCompute, buildLink,
                        buildValidates, buildSearches
<1> QED
  BY <1>1, <1>2

-----------------------------------------------------------------------------
(* All commands *)

\* Only chat makes requests.
RequestsOK == IF subject.command = "chat" THEN TunerInv ELSE request = [c \in Callers |-> Idle]

IInv ==
    /\ SubjectOK /\ DecisionOK
    /\ GraphInv
    /\ ApplyOK /\ BuilderOK
    /\ RequestsOK

LEMMA Initially == Init => IInv
<1> SUFFICES ASSUME Init PROVE IInv
  OBVIOUS
<1>1. SubjectOK
  BY DEF Init, SubjectOK
<1>2. GraphInv
  BY EmptyGraph DEF Init
<1>3. DecisionOK /\ ApplyOK /\ BuilderOK
  BY DEF Init, DecisionOK, ApplyOK, BuilderOK, GraphInit
<1>4. RequestsOK
  <2>1. CASE TunerInit /\ subject = [command |-> "chat"]
    <3>1. NoStats \in Stats
      BY DEF NoStats, Stats
    <3>2. TunerInv
      BY <2>1, <3>1 DEF TunerInit, TunerInv, MachineOK, StateOK, RequestOK
    <3> QED
      BY <2>1, <3>2 DEF RequestsOK
  <2>2. CASE Quiet /\ subject.command # "chat"
    BY <2>2 DEF Quiet, RequestsOK
  <2> QED
    BY <2>1, <2>2 DEF Init
<1> QED
  BY <1>1, <1>2, <1>3, <1>4 DEF IInv

\* A step that leaves the requests.
LEMMA RequestsKept ==
    ASSUME RequestsOK, UNCHANGED <<subject, tunerVars>> PROVE RequestsOK'
<1>1. TunerInv => TunerInv'
  BY TunerStep
<1> QED
  BY <1>1 DEF RequestsOK, tunerVars

LEMMA Inductive == IInv /\ [Next]_vars => IInv'
<1> SUFFICES ASSUME IInv, [Next]_vars PROVE IInv'
  OBVIOUS
<1>1. SubjectOK /\ DecisionOK /\ GraphInv /\ ApplyOK /\ BuilderOK /\ RequestsOK
  BY DEF IInv
<1>2. CASE planExecution
  <2>1. /\ subject.command \in {"residency", "graph"} /\ decision = NoPlan
        /\ PlanFor(decision', subject.file, subject.machine, subject.registry, subject.config)
        /\ UNCHANGED <<subject, apply, builder, graphVars, tunerVars>>
    BY <1>2 DEF planExecution, PlanFor, Requirements, Report
  <2>2. ~decision.viable
    BY <2>1 DEF NoPlan
  <2>3. SubjectOK' /\ DecisionOK'
    BY <1>1, <2>1 DEF SubjectOK, DecisionOK
  <2>4. apply = NotDone /\ ApplyOK'
    BY <1>1, <2>1, <2>2 DEF ApplyOK
  <2>5. builder = NotDone /\ (subject.command # "library" => nodes = {})
    BY <1>1, <2>2 DEF BuilderOK
  <2>6. BuilderOK'
    BY <2>1, <2>5 DEF BuilderOK, graphVars
  <2>7. GraphInv' /\ RequestsOK'
    BY <1>1, <2>1, GraphInductive, RequestsKept
  <2> QED
    BY <2>3, <2>4, <2>6, <2>7 DEF IInv
<1>3. CASE ResidencyCommand
  <2>1. UNCHANGED <<subject, decision, builder, graphVars, tunerVars>>
    BY <1>3 DEF ResidencyCommand, applyBegins, Cancel, applyCancelled, applyRegion, applyEnds
  <2>2. SubjectOK' /\ DecisionOK' /\ ApplyOK'
    BY <1>1, <1>3, <2>1, SamePlan, ApplyStep
  <2>3. GraphInv' /\ RequestsOK' /\ BuilderOK'
    BY <1>1, <2>1, GraphInductive, RequestsKept, BuilderKept DEF graphVars
  <2> QED
    BY <2>2, <2>3 DEF IInv
<1>4. CASE GraphCommand
  <2>1. UNCHANGED <<subject, decision, apply, tunerVars>>
    BY <1>4 DEF GraphCommand, buildBegins, buildNode, buildEdge, buildCompute, buildLink,
                buildValidates, buildSearches
  <2>2. SubjectOK' /\ DecisionOK' /\ ApplyOK' /\ RequestsOK'
    BY <1>1, <2>1, SamePlan, ApplyKept, RequestsKept
  <2>3. GraphInv' /\ BuilderOK'
    BY <1>1, <1>4, BuildStep
  <2> QED
    BY <2>2, <2>3 DEF IInv
<1>5. CASE subject.command = "library" /\ GraphNext /\ UNCHANGED <<subject, decision, apply, builder, tunerVars>>
  <2>1. SubjectOK' /\ DecisionOK' /\ ApplyOK' /\ RequestsOK'
    BY <1>1, <1>5, SamePlan, ApplyKept, RequestsKept
  <2>2. GraphInv'
    BY <1>1, <1>5, GraphInductive DEF GraphNext
  <2>3. builder = NotDone
    BY <1>1, <1>5 DEF BuilderOK
  <2>4. BuilderOK'
    BY <1>1, <1>5, <2>3, BuilderKept
  <2> QED
    BY <2>1, <2>2, <2>4 DEF IInv
<1>6. CASE subject.command = "chat" /\ TunerNext /\ UNCHANGED <<subject, decision, apply, builder, graphVars>>
  <2>1. SubjectOK' /\ DecisionOK' /\ ApplyOK'
    BY <1>1, <1>6, SamePlan, ApplyKept
  <2>2. GraphInv' /\ BuilderOK'
    BY <1>1, <1>6, GraphInductive, BuilderKept DEF graphVars
  <2>3. RequestsOK'
    BY <1>1, <1>6, TunerStep DEF RequestsOK
  <2> QED
    BY <2>1, <2>2, <2>3 DEF IInv
<1>7. CASE UNCHANGED vars
  <2>1. UNCHANGED <<subject, decision, apply, builder>> /\ UNCHANGED graphVars /\ UNCHANGED tunerVars
    BY <1>7 DEF vars
  <2>2. SubjectOK' /\ DecisionOK' /\ ApplyOK' /\ RequestsOK' /\ GraphInv'
    BY <1>1, <2>1, SamePlan, ApplyKept, RequestsKept, GraphInductive
  <2>3. BuilderOK'
    BY <1>1, <2>1, BuilderKept DEF graphVars
  <2> QED
    BY <2>2, <2>3 DEF IInv
<1> QED
  BY <1>2, <1>3, <1>4, <1>5, <1>6, <1>7 DEF Next

-----------------------------------------------------------------------------
(* Theorems *)

\* The inductive invariant: what the search of validate knows of the graph, how far the
\* adapter and the builder have followed the plan, and what the tuner explores.
THEOREM Invariance == Spec => []IInv
  BY Initially, Inductive, PTL DEF Spec

\* validate accepts exactly the acyclic graphs, however the nodes and edges were added and
\* the hash map is iterated, and the scheduler's in-degrees are the edges it will follow.
THEOREM SearchIsRight == Spec => []ValidateIsAcyclic
<1>1. IInv => ValidateIsAcyclic
  BY GraphAnswers DEF IInv
<1> QED
  BY <1>1, Invariance, PTL

\* A plan that calls itself executable names a registered engine with the backend of a
\* device that is there, and what it places on the device fits.
THEOREM PlansAreCarriedOut == Spec => []PlanIsCarriedOut
<1>1. IInv => PlanIsCarriedOut
  BY CarriedOut DEF IInv
<1> QED
  BY <1>1, Invariance, PTL

\* What the adapter uploads is within the memory the plan was made for: of the planner's
\* plans, and of every partial plan, whatever loads and uploads have failed.
THEOREM AdapterFits == Spec => []UploadsFit
<1>1. IInv => UploadsFit
  BY ApplyFits DEF IInv
<1> QED
  BY <1>1, Invariance, PTL

\* The adapter, whatever loads fail, and the graph ask for the same regions: in the same
\* places for every plan of the planner, and for a client's plan but for the accelerator's
\* share of a partial or hybrid one, which stays within the budget if the plan is partial.
\* Everything in the graph comes before its compute node, and its validation never refuses it.
THEOREM OnePlanOneReading == Spec => []OneReading
<1>1. IInv => OneReading
  BY Read DEF IInv
<1> QED
  BY <1>1, Invariance, PTL

\* No suggestion of the tuner exceeds the ceiling that the policy set for its request, in
\* whatever order the results of overlapping requests arrive, and its result is recorded
\* under the key that was tuned.
THEOREM SuggestionsObey == Spec => []SuggestionObeysCeiling
<1>1. IInv => SuggestionObeysCeiling
  <2>1. TunerInv => SuggestionObeysCeiling
    BY DEF TunerInv, RequestOK, SuggestionObeysCeiling, Idle, Answered, ThreadCounts
  <2>2. request = [c \in Callers |-> Idle] => SuggestionObeysCeiling
    BY DEF SuggestionObeysCeiling, Idle
  <2> QED
    BY <2>1, <2>2 DEF IInv, RequestsOK
<1> QED
  BY <1>1, Invariance, PTL

=============================================================================
