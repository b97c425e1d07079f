-------------------------- MODULE ClientCallProofs --------------------------
(***************************************************************************)
(* Proofs about what the calls of the client engine return: listings, and  *)
(* when attach_with_reconnect gives up and how long it waits, for every    *)
(* policy and whatever the attempts meet.                                  *)
(***************************************************************************)
EXTENDS ClientEngineProofs

-----------------------------------------------------------------------------
(* Retries.                                                                *)

\* What a call and its policy have to do with each other: attempts are counted
\* as far as the policy allows, a call sleeps only when it may retry, and the
\* last delay is at most the one its attempt calls for.
Retrying(c, p) ==
    /\ c.at \in {"verify", "unplug", "remove", "cross"} => c.op # "attach"
    /\ p.max_retries # 0 => c.attempt <= p.max_retries
    /\ ~p.enabled => c.attempt = 0
    /\ c.at = "sleep" => should_retry(p, c.attempt)
    /\ c.op = "attach" /\ c.at = "returned" /\ ~c.ok =>
           IF p.enabled THEN c.attempt = p.max_retries /\ c.attempt # 0 ELSE c.attempt = 0
    /\ c.delay \in Nat /\ c.delay <= delay_for_attempt(p, c.attempt)

RetryInv == \A t \in Tasks : Retrying(call[t], PolicyOf[t])

\* What is slept when the doubled delay is x: capped, with its jitter, and capped
\* again.
Slept(x, max, jitter) == Least(Least(x, max) * (10000 + jitter), max * 10000)

\* Products with a jitter lie between ten and twenty thousand times the delay.
LEMMA JitterBounds ==
    ASSUME NEW y \in Nat, NEW j \in Nat, j < 1000
    PROVE  /\ y * (10000 + j) \in Nat
           /\ y * 10000 <= y * (10000 + j) /\ y * (10000 + j) <= y * 20000
<1>1. y * (10000 + j) = y * 10000 + y * j
  OBVIOUS
<1>2. y * j \in Nat /\ y * j <= y * 10000
  OBVIOUS
<1> QED
  BY <1>1, <1>2

\* A delay stays between the smaller and the larger of its limits, and twice
\* the delay, with any other jitter, is not slept for less.
LEMMA SleptGrows ==
    ASSUME NEW x \in Nat, NEW w \in Nat, w = 2 * x,
           NEW max \in Nat, NEW i \in Nat, i < 1000, NEW j \in Nat, j < 1000
    PROVE  /\ Slept(x, max, i) \in Nat
           /\ Slept(x, max, i) >= 10000 * Least(x, max)
           /\ Slept(x, max, i) <= 10000 * max
           /\ Slept(x, max, i) <= Slept(w, max, j)
<1> DEFINE y == Least(x, max)
           z == Least(w, max)
           a == y * (10000 + i)
           b == z * (10000 + j)
<1>1. /\ y \in Nat /\ z \in Nat /\ y <= max /\ z <= max
      /\ z = max \/ z = 2 * y
  BY DEF Least
<1>2. a \in Nat /\ b \in Nat /\ y * 10000 <= a /\ a <= y * 20000 /\ z * 10000 <= b
  <2> HIDE DEF y, z
  <2> QED BY <1>1, JitterBounds
<1>3. Slept(x, max, i) = Least(a, max * 10000) /\ Slept(w, max, j) = Least(b, max * 10000)
  BY DEF Slept
<1> HIDE DEF y, z, a, b
<1>4. Slept(x, max, i) \in Nat /\ Slept(x, max, i) >= 10000 * y /\ Slept(x, max, i) <= 10000 * max
  BY <1>1, <1>2, <1>3 DEF Least
<1>5. Slept(x, max, i) <= Slept(w, max, j)
  BY <1>1, <1>2, <1>3 DEF Least
<1> QED
  BY <1>4, <1>5 DEF y

\* What delay_for_attempt promises of the attempts a policy can reach.
LEMMA DelayGrows ==
    ASSUME NEW t \in Tasks, NEW k \in 0..MaxAttempt
    PROVE  LET p == PolicyOf[t] IN
           /\ delay_for_attempt(p, k) \in Nat
           /\ delay_for_attempt(p, k) >= 10000 * Least(p.initial_delay, p.max_delay)
           /\ delay_for_attempt(p, k) <= 10000 * p.max_delay
           /\ delay_for_attempt(p, k) <= delay_for_attempt(p, k + 1)
<1> DEFINE init == PolicyOf[t].initial_delay
           max == PolicyOf[t].max_delay
           e == 2^k
           x == init * e
           w == init * 2^(k + 1)
           i == jitter_for_attempt(k)
           j == jitter_for_attempt(k + 1)
<1>1. init \in Nat /\ max \in Nat
  BY EngineAssumption
<1>2. e \in Nat /\ e >= 1 /\ 2^(k + 1) = 2 * e
  BY DoublingAssumption
<1>3. i \in Nat /\ i < 1000 /\ j \in Nat /\ j < 1000
  BY EngineAssumption DEF jitter_for_attempt
<1>4. /\ delay_for_attempt(PolicyOf[t], k) = Slept(x, max, i)
      /\ delay_for_attempt(PolicyOf[t], k + 1) = Slept(w, max, j)
  BY DEF delay_for_attempt, Slept
<1> HIDE DEF init, max, e, i, j
<1>5. x \in Nat /\ x >= init /\ w \in Nat /\ w = 2 * x
  <2>1. w = init * (2 * e)
    BY <1>2
  <2> HIDE DEF w
  <2> QED BY <1>1, <1>2, <2>1
<1>6. Least(x, max) \in Nat /\ Least(x, max) >= Least(init, max)
  <2> HIDE DEF x
  <2> QED BY <1>1, <1>5 DEF Least
<1> HIDE DEF x, w
<1>7. /\ Slept(x, max, i) \in Nat /\ Slept(x, max, i) >= 10000 * Least(x, max)
      /\ Slept(x, max, i) <= 10000 * max /\ Slept(x, max, i) <= Slept(w, max, j)
  <2>1. /\ x \in Nat /\ max \in Nat /\ i \in Nat /\ i < 1000 /\ j \in Nat /\ j < 1000
        /\ w \in Nat /\ w = 2 * x
    BY <1>1, <1>3, <1>5
  <2> QED BY ONLY <2>1, SleptGrows
<1>8. Slept(x, max, i) >= 10000 * Least(init, max)
  <2>1. Least(init, max) \in Nat
    BY <1>1 DEF Least
  <2> QED BY <1>6, <1>7, <2>1
<1> QED
  BY <1>4, <1>7, <1>8 DEF init, max

\* The wait that a step of t starts is as long as the policy says.
WaitFits(t) ==
    LET p == PolicyOf[t] IN
    /\ call'[t].delay >= call[t].delay
    /\ call'[t].delay >= 10000 * Least(p.initial_delay, p.max_delay)
    /\ call'[t].delay <= 10000 * p.max_delay

\* What a step that changes the call of t has to do with the retries of t.
RetryStep(t) ==
    /\ OnlyCall(t) /\ Retrying(call'[t], PolicyOf[t])
    /\ call'[t].at = "sleep" => WaitFits(t)

\* A call that begins has made no attempt and has not slept.
LEMMA FreshRetries ==
    ASSUME NEW t \in Tasks, OnlyCall(t), call'[t].attempt = 0, call'[t].delay = 0,
           call'[t].at # "sleep", call'[t].at \in {"attach"} <=> call'[t].op = "attach"
    PROVE  RetryStep(t)
<1>1. 0 \in 0..MaxAttempt
  BY EngineAssumption
<1>2. delay_for_attempt(PolicyOf[t], 0) \in Nat
  BY <1>1, DelayGrows
<1> QED
  BY <1>2, EngineAssumption DEF RetryStep, Retrying

\* A step that neither fails nor wakes an attach.
LEMMA MovedRetries ==
    ASSUME NEW t \in Tasks, RetryInv, OnlyCall(t), call'[t].attempt = call[t].attempt,
           call'[t].delay = call[t].delay, call'[t].op = call[t].op, call'[t].at # "sleep",
           call'[t].at \in {"verify", "unplug", "remove", "cross"} => call[t].op # "attach",
           call'[t].at = "returned" => call'[t].ok \/ call[t].op # "attach"
    PROVE  RetryStep(t)
  BY DEF RetryInv, RetryStep, Retrying

\* A failed attach sleeps for the delay of its attempt when it may retry.
LEMMA FailedRetries ==
    ASSUME NEW t \in Tasks, EngineTypeOK, RetryInv, Failed(t)
    PROVE  RetryStep(t)
<1> DEFINE p == PolicyOf[t]
           k == call[t].attempt
<1>0. DOMAIN call = Tasks /\ DOMAIN call[t] = DOMAIN Returned /\ k \in 0..MaxAttempt /\ k \in Nat
  BY EngineAssumption DEF EngineTypeOK
<1>1. OnlyCall(t) /\ call'[t].attempt = k /\ call'[t].op = call[t].op
  BY FailedMoves
<1>2. /\ delay_for_attempt(p, k) \in Nat
      /\ delay_for_attempt(p, k) >= 10000 * Least(p.initial_delay, p.max_delay)
      /\ delay_for_attempt(p, k) <= 10000 * p.max_delay
  BY <1>0, DelayGrows
<1>3. CASE should_retry(p, k)
  <2>1. call'[t].at = "sleep" /\ call'[t].delay = delay_for_attempt(p, k)
    BY <1>0, <1>3 DEF Failed, Returned
  <2>2. Retrying(call[t], p)
    BY DEF RetryInv
  <2>3. WaitFits(t)
    BY <1>2, <2>1, <2>2 DEF Retrying, WaitFits
  <2>4. Retrying(call'[t], p)
    BY <1>1, <1>2, <1>3, <2>1, <2>2 DEF Retrying
  <2> QED
    BY <1>1, <2>3, <2>4 DEF RetryStep
<1>4. CASE ~should_retry(p, k)
  <2>1. call'[t].at = "returned" /\ call'[t].delay = call[t].delay
    BY <1>0, <1>4 DEF Failed, Returned
  <2>2. p.enabled => k = p.max_retries /\ k # 0
    BY <1>0, <1>4, EngineAssumption DEF should_retry, RetryInv, Retrying
  <2> QED
    BY <1>1, <2>1, <2>2 DEF RetryInv, RetryStep, Retrying
<1> QED
  BY <1>3, <1>4

\* The next attempt is one the policy allows, and its delay is not shorter.
LEMMA WakeRetries ==
    ASSUME NEW t \in Tasks, EngineTypeOK, RetryInv, wake(t)
    PROVE  RetryStep(t)
<1> DEFINE p == PolicyOf[t]
           k == call[t].attempt
<1>0. DOMAIN call = Tasks /\ DOMAIN call[t] = DOMAIN Returned /\ k \in 0..MaxAttempt /\ k \in Nat
  BY EngineAssumption DEF EngineTypeOK
<1>1. /\ OnlyCall(t) /\ call'[t].attempt = Least(k + 1, MaxAttempt) /\ call'[t].at = "attach"
      /\ call'[t].delay = call[t].delay /\ call[t].at = "sleep"
  BY <1>0 DEF wake, At, OnlyCall, Returned
<1>2. /\ should_retry(p, k) /\ call[t].delay \in Nat /\ call[t].delay <= delay_for_attempt(p, k)
      /\ p.enabled
  BY <1>1 DEF RetryInv, Retrying, should_retry
<1>3. p.max_retries # 0 => Least(k + 1, MaxAttempt) <= p.max_retries
  BY <1>0, <1>2, EngineAssumption DEF should_retry, Least
<1>4. call[t].delay <= delay_for_attempt(p, Least(k + 1, MaxAttempt))
  <2>1. CASE k = MaxAttempt
    <3>1. Least(k + 1, MaxAttempt) = k
      BY <1>0, <2>1, EngineAssumption DEF Least
    <3> QED BY <3>1, <1>2
  <2>2. CASE k # MaxAttempt
    <3>1. Least(k + 1, MaxAttempt) = k + 1 /\ k + 1 \in 0..MaxAttempt
      BY <1>0, <2>2, EngineAssumption DEF Least
    <3>2. /\ delay_for_attempt(p, k) \in Nat /\ delay_for_attempt(p, k + 1) \in Nat
          /\ delay_for_attempt(p, k) <= delay_for_attempt(p, k + 1)
      BY <1>0, <3>1, DelayGrows
    <3> QED BY <1>2, <3>1, <3>2
  <2> QED BY <2>1, <2>2
<1> QED
  BY <1>1, <1>2, <1>3, <1>4 DEF RetryStep, Retrying

\* Goto and Return keep what the retries of a call depend on.
LEMMA MovesKeepDelay ==
    ASSUME EngineTypeOK, NEW t \in Tasks, NEW at, NEW ok,
           Goto(t, at) \/ (Return(t, ok) /\ at = "returned")
    PROVE  call'[t].delay = call[t].delay /\ (Return(t, ok) => call'[t].ok = ok)
  BY DEF EngineTypeOK, Goto, Return, Returned

\* The step of a call that begins.
LEMMA CallsRetry ==
    ASSUME EngineTypeOK, NEW t \in Tasks, CallAttach(t) \/ CallDetach(t) \/ CallList(t)
    PROVE  RetryStep(t)
<1>0. DOMAIN call = Tasks
  BY DEF EngineTypeOK
<1>1. CASE CallAttach(t)
  <2>1. PICK b : call' = [call EXCEPT ![t] = [Returned EXCEPT !.op = "attach", !.at = "attach",
                                                             !.busid = b]]
    BY <1>1, Zenon DEF CallAttach
  <2> QED
    BY <1>0, <2>1, FreshRetries DEF OnlyCall, Returned
<1>2. CASE CallDetach(t)
  <2>1. PICK p \in Ports, at \in {"verify", "unplug"} :
            call' = [call EXCEPT ![t] = [Returned EXCEPT !.op = "detach", !.port = p, !.at = at]]
    BY <1>2, Zenon DEF CallDetach
  <2> QED
    BY <1>0, <2>1, FreshRetries DEF OnlyCall, Returned
<1>3. CASE CallList(t)
  <2>1. \/ call' = [call EXCEPT ![t] = [Returned EXCEPT !.op = "list", !.at = "cross",
                                                       !.seen = list_ports]]
        \/ call' = [call EXCEPT ![t] = [Returned EXCEPT !.op = "list", !.ok = FALSE]]
    BY <1>3 DEF CallList
  <2> QED
    BY <1>0, <2>1, FreshRetries, Zenon DEF OnlyCall, Returned
<1> QED
  BY <1>1, <1>2, <1>3

\* Every step of a call that runs.
LEMMA StepsRetry ==
    ASSUME EngineTypeOK, RetryInv, NEW t \in Tasks, hangup(t) \/ Step(t)
    PROVE  RetryStep(t)
<1>0. DOMAIN call = Tasks /\ DOMAIN call[t] = DOMAIN Returned
  BY DEF EngineTypeOK
<1>1. CASE wake(t)
  BY <1>1, WakeRetries
<1>2. CASE Failed(t)
  BY <1>2, FailedRetries
<1>3. ASSUME NEW at \in {"import", "unanswered", "find", "record", "unplug", "remove"},
             Goto(t, at),
             at \in {"unplug", "remove"} => call[t].at \in {"verify", "unplug"}
      PROVE  RetryStep(t)
  <2>1. call[t].at \in {"verify", "unplug"} => call[t].op # "attach"
    BY DEF RetryInv, Retrying
  <2> QED
    BY <1>3, <2>1, Moves, MovesKeepDelay, MovedRetries
<1>4. ASSUME NEW ok \in BOOLEAN, Return(t, ok),
             ~ok => call[t].at \in {"verify", "unplug"}
      PROVE  RetryStep(t)
  <2>1. call[t].at \in {"verify", "unplug"} => call[t].op # "attach"
    BY DEF RetryInv, Retrying
  <2> QED
    BY <1>4, <2>1, Moves, MovesKeepDelay, MovedRetries
<1>5. ASSUME NEW at \in {"plug", "record"}, NEW p,
             call' = [call EXCEPT ![t].at = at, ![t].port = p]
      PROVE  RetryStep(t)
  BY <1>0, <1>5, MovedRetries DEF OnlyCall, Returned
<1>6. CASE connect(t) \/ import(t) \/ hangup(t) \/ vhci_attach(t) \/ verify(t)
  BY <1>2, <1>3, <1>4, <1>6, Zenon DEF connect, import, hangup, vhci_attach, verify, At
<1>7. CASE find_free_port(t) \/ plugin_hardware(t)
  BY <1>2, <1>5, <1>7 DEF find_free_port, plugin_hardware
<1>8. CASE vhci_detach(t) \/ unplug_hardware(t) \/ record(t) \/ remove(t)
  BY <1>3, <1>4, <1>8, Zenon DEF vhci_detach, unplug_hardware, Unplug, record, remove, At
<1>9. CASE get_imported_devices(t)
  <2>1. PICK l : call' = [call EXCEPT ![t].at = "returned", ![t].listed = l]
    BY <1>9 DEF get_imported_devices
  <2>2. call[t].op # "attach"
    BY <1>9 DEF get_imported_devices, At, RetryInv, Retrying
  <2> QED
    BY <1>0, <2>1, <2>2, MovedRetries DEF OnlyCall, Returned
<1> QED
  BY <1>1, <1>6, <1>7, <1>8, <1>9 DEF Step

\* The retries of every task follow its policy in every step.
LEMMA RetryStepInv ==
    ASSUME EngineTypeOK, RetryInv, [EngineNext]_engineVars
    PROVE  RetryInv' /\ BackoffGrows
<1>1. ASSUME NEW t \in Tasks,
             CallAttach(t) \/ CallDetach(t) \/ CallList(t) \/ hangup(t) \/ Step(t)
      PROVE  RetryInv' /\ BackoffGrows
  <2>1. RetryStep(t)
    BY <1>1, CallsRetry, StepsRetry
  <2>2. RetryInv'
    BY <2>1 DEF RetryInv, RetryStep, OnlyCall
  <2>3. BackoffGrows
    BY <2>1 DEF BackoffGrows, RetryStep, WaitFits, OnlyCall
  <2> QED
    BY <2>2, <2>3
<1>2. CASE UNCHANGED call
  BY <1>2 DEF RetryInv, BackoffGrows
<1> QED
  BY <1>1, <1>2 DEF EngineNext, engineVars, PortDown, ServerDrops, SessionEnded, SessionLeaked

\* An attach gives up when its policy says so, neither earlier nor later, and
\* never with unlimited retries; the delays between its attempts never shrink
\* and stay between the initial and the maximal delay (attach_with_reconnect,
\* should_retry and delay_for_attempt), for every policy.
THEOREM RetriesAreAsConfigured == EngineSpec => RetriesAsConfigured
<1>1. EngineInit => RetryInv
  <2> SUFFICES ASSUME EngineInit, NEW t \in Tasks PROVE Retrying(call[t], PolicyOf[t])
    BY DEF RetryInv
  <2>1. call[t] = Returned
    BY DEF EngineInit
  <2>2. delay_for_attempt(PolicyOf[t], 0) \in Nat
    BY EngineAssumption, DelayGrows
  <2> QED
    BY <2>1, <2>2, EngineAssumption DEF Retrying, Returned
<1>2. PortInv /\ RetryInv /\ [EngineNext]_engineVars => RetryInv' /\ BackoffGrows
  BY RetryStepInv DEF PortInv
<1>3. RetryInv => GivesUpAsConfigured
  BY DEF RetryInv, Retrying, GivesUpAsConfigured
<1>4. RetryInv' => GivesUpAsConfigured'
  BY <1>3, PTL
<1> QED
  BY <1>1, <1>2, <1>4, PortInvCorrect, PTL DEF EngineSpec, RetriesAsConfigured
-----------------------------------------------------------------------------
(* Listings.  Every task has an engine of its own.                         *)

OwnEngines == \A t, u \in Tasks : EngineOf[t] = EngineOf[u] => t = u

Recording(t, p) == At(t, "record") /\ call[t].port = p

\* The entries of an engine for the ports its task has plugged are right, or
\* about to be written; what a listing has seen still has its entry when it is
\* read; and no detach is about to remove the entry of a port that is in use
\* by the same task.
EntriesRight(t) ==
    /\ \A p \in Ports : Plugged(p) /\ port[p].by = t =>
          /\ ~Recording(t, p) => registry[EngineOf[t]][p] = port[p].dev
          /\ Recording(t, p) => port[p].dev = call[t].busid
          /\ ~(At(t, "remove") /\ call[t].port = p)
    /\ call[t].op = "list" => call[t].at \in {"cross", "returned"}
    /\ At(t, "cross") =>
          \A s \in call[t].seen :
             s.by \in Tasks /\ (s.by = t => registry[EngineOf[t]][s.port] = s.devid)
    /\ call[t].op = "list" =>
          \A l \in call[t].listed : EngineOf[l.by] = EngineOf[t] => l.busid = l.devid

ListInv == \A t \in Tasks : EntriesRight(t)

\* What other tasks do does not concern the entries of an engine.
LEMMA EntriesFrame ==
    ASSUME NEW u \in Tasks, EntriesRight(u), call'[u] = call[u],
           registry'[EngineOf[u]] = registry[EngineOf[u]],
           \A p \in Ports : Plugged(p)' /\ port'[p].by = u => port'[p] = port[p]
    PROVE  EntriesRight(u)'
  BY DEF EntriesRight, Plugged, Recording, At

\* A step of a call that neither plugs, records, removes nor lists.
LEMMA EntriesQuiet ==
    ASSUME NEW t \in Tasks, EntriesRight(t), UNCHANGED <<port, registry>>,
           call[t].at \notin {"record", "remove", "cross", "returned"},
           call'[t].at \notin {"record", "remove", "cross"},
           call'[t].op = call[t].op
    PROVE  EntriesRight(t)'
  BY DEF EntriesRight, Plugged, Recording, At

\* A step that changes the call of t only keeps the entries of the others.
LEMMA OthersKept ==
    ASSUME ListInv, NEW t \in Tasks, OnlyCall(t), UNCHANGED <<port, registry>>,
           EntriesRight(t)'
    PROVE  ListInv'
<1>1. ASSUME NEW u \in Tasks, u # t PROVE EntriesRight(u)'
  BY <1>1, EntriesFrame DEF ListInv, OnlyCall
<1> QED
  BY <1>1 DEF ListInv

\* The steps of an attach before it plugs, and every step that fails.
LEMMA ListQuietStep ==
    ASSUME ListInv, EngineTypeOK, NEW t \in Tasks, UNCHANGED <<port, registry>>,
           \/ wake(t) \/ connect(t) \/ import(t) \/ hangup(t) \/ find_free_port(t) \/ verify(t)
           \/ vhci_attach(t) /\ Failed(t)
           \/ plugin_hardware(t) /\ Failed(t)
           \/ Unplug(t) /\ Return(t, FALSE)
    PROVE  ListInv'
<1>1. /\ OnlyCall(t) /\ call'[t].op = call[t].op
      /\ call[t].at \notin {"record", "remove", "cross", "returned"}
      /\ call'[t].at \notin {"record", "remove", "cross"}
  <2>1. CASE wake(t)
    BY <2>1 DEF wake, At, OnlyCall, EngineTypeOK, Returned
  <2>2. CASE connect(t)
    BY <2>2, Moves, FailedMoves DEF connect, At
  <2>3. CASE import(t)
    BY <2>3, Moves, FailedMoves DEF import, At
  <2>h. CASE hangup(t)
    BY <2>h, FailedMoves DEF hangup, At
  <2>4. CASE find_free_port(t) /\ Failed(t)
    BY <2>4, FailedMoves DEF find_free_port, At
  <2>5. CASE find_free_port(t) /\ ~Failed(t)
    <3> DEFINE p == find_free_port_in_list(parse_vhci_status, Speed[call[t].busid])
    <3>1. call' = [call EXCEPT ![t].at = "plug", ![t].port = p] /\ call[t].at = "find"
      BY <2>5 DEF find_free_port, At
    <3> HIDE DEF p
    <3> QED
      BY <3>1 DEF OnlyCall, EngineTypeOK, Returned
  <2>6. CASE verify(t)
    <3>1. call[t].at = "verify" /\ (Goto(t, "unplug") \/ Return(t, FALSE))
      BY <2>6, Zenon DEF verify, At
    <3>2. CASE Goto(t, "unplug")
      BY <3>1, <3>2, Moves
    <3>3. CASE Return(t, FALSE)
      BY <3>1, <3>3, ReturnMoves
    <3> QED
      BY <3>1, <3>2, <3>3, Zenon
  <2>7. CASE vhci_attach(t) /\ Failed(t)
    BY <2>7, FailedMoves DEF vhci_attach, At
  <2>8. CASE plugin_hardware(t) /\ Failed(t)
    BY <2>8, FailedMoves DEF plugin_hardware, At
  <2>9. CASE Unplug(t) /\ Return(t, FALSE)
    BY <2>9, ReturnMoves DEF Unplug, At
  <2> QED
    BY <2>1, <2>2, <2>3, <2>h, <2>4, <2>5, <2>6, <2>7, <2>8, <2>9, Zenon
<1>2. EntriesRight(t)'
  BY <1>1, EntriesQuiet DEF ListInv
<1> QED
  BY <1>1, <1>2, OthersKept

\* A port that is plugged by t is about to be recorded.
LEMMA ListPlugStep ==
    ASSUME ListInv, EngineTypeOK, NEW t \in Tasks, NEW p \in Ports, OnlyCall(t),
           port' = [port EXCEPT ![p] = [sta |-> 6, dev |-> call[t].busid, by |-> t]],
           call[t].at \in {"attach", "plug"}, call'[t].at = "record", call'[t].port = p,
           call'[t].busid = call[t].busid, call'[t].op = call[t].op, UNCHANGED registry
    PROVE  ListInv'
<1>1. /\ port'[p].sta = 6 /\ port'[p].dev = call[t].busid /\ port'[p].by = t
      /\ \A q \in Ports \ {p} : port'[q] = port[q]
  BY DEF EngineTypeOK
<1>2. EntriesRight(t)'
  <2>1. EntriesRight(t)
    BY DEF ListInv
  <2>2. call[t].op # "list" /\ call'[t].op # "list"
    BY <2>1 DEF EntriesRight
  <2>3. ASSUME NEW q \in Ports, Plugged(q)', port'[q].by = t
        PROVE  /\ ~Recording(t, q)' => registry'[EngineOf[t]][q] = port'[q].dev
               /\ Recording(t, q)' => port'[q].dev = call'[t].busid
    <3>1. CASE q = p
      BY <1>1, <3>1 DEF Recording, At
    <3>2. CASE q # p
      BY <1>1, <2>1, <2>3, <3>2 DEF EntriesRight, Plugged, Recording, At
    <3> QED BY <3>1, <3>2
  <2> QED
    BY <2>2, <2>3 DEF EntriesRight, At
<1>3. ASSUME NEW u \in Tasks, u # t PROVE EntriesRight(u)'
  BY <1>1, <1>3, EntriesFrame DEF ListInv, OnlyCall
<1> QED
  BY <1>2, <1>3 DEF ListInv
\* A call begins with nothing listed; a listing sees the ports as they are.
LEMMA ListCallStep ==
    ASSUME ListInv, PortInv, NEW t \in Tasks, CallAttach(t) \/ CallDetach(t) \/ CallList(t)
    PROVE  ListInv'
<1>t. EngineTypeOK /\ DOMAIN call = Tasks
  BY DEF PortInv, EngineTypeOK
<1>0. OnlyCall(t) /\ call[t].at = "returned" /\ UNCHANGED <<port, registry>>
  BY <1>t, Zenon DEF CallAttach, CallDetach, CallList, At, OnlyCall, EngineTypeOK, Returned
<1>1. /\ call'[t].listed = {} /\ call'[t].at \notin {"record", "remove"}
      /\ call'[t].op = "list" => call'[t].at \in {"cross", "returned"}
      /\ call'[t].at = "cross" => call'[t].seen = list_ports
  <2>1. CASE CallAttach(t)
    <3>1. \E b : call'[t] = [Returned EXCEPT !.op = "attach", !.at = "attach", !.busid = b]
      BY <2>1, <1>t, Zenon DEF CallAttach
    <3> QED
      BY <3>1 DEF Returned
  <2>2. CASE CallDetach(t)
    <3>1. \E p : call'[t] = [Returned EXCEPT !.op = "detach", !.port = p,
                              !.at = IF platform = "linux" THEN "verify" ELSE "unplug"]
      BY <2>2, <1>t, Zenon DEF CallDetach
    <3> QED
      BY <3>1 DEF Returned
  <2>3. CASE CallList(t)
    <3>1. \/ call'[t] = [Returned EXCEPT !.op = "list", !.at = "cross", !.seen = list_ports]
          \/ call'[t] = [Returned EXCEPT !.op = "list", !.ok = FALSE]
      BY <2>3, <1>t DEF CallList
    <3> QED
      BY <3>1, Zenon DEF Returned
  <2> QED
    BY <2>1, <2>2, <2>3
<1>3. \A s \in list_ports : /\ s.by \in Tasks
                            /\ s.by = t => registry[EngineOf[t]][s.port] = s.devid
  <2> SUFFICES ASSUME NEW s \in list_ports
               PROVE  s.by \in Tasks /\ (s.by = t => registry[EngineOf[t]][s.port] = s.devid)
    OBVIOUS
  <2>1. PICK p \in Ports : Plugged(p) /\ s = [port |-> p, devid |-> port[p].dev, by |-> port[p].by]
    <3>1. \A p \in Ports : is_free(parse_vhci_status[p].status) <=> ~Plugged(p)
      BY <1>t DEF EngineTypeOK, parse_vhci_status, from_raw, is_free, Plugged
    <3> QED
      BY <3>1 DEF list_ports, Plugged
  <2> QED
    BY <1>0, <2>1 DEF PortInv, EngineTypeOK, ListInv, EntriesRight, Recording, At
<1>4. EntriesRight(t)'
  BY <1>0, <1>1, <1>3 DEF ListInv, EntriesRight, Plugged, Recording, At
<1> QED
  BY <1>0, <1>4, OthersKept

\* get_imported_devices looks up what it has seen.
LEMMA ListCrossStep ==
    ASSUME ListInv, EngineTypeOK, OwnEngines, NEW t \in Tasks, get_imported_devices(t)
    PROVE  ListInv'
<1>1. /\ OnlyCall(t) /\ call[t].at = "cross" /\ call'[t].at = "returned"
      /\ call'[t].op = call[t].op /\ UNCHANGED <<port, registry>>
      /\ call'[t].listed = {[port |-> s.port, devid |-> s.devid, by |-> s.by,
                             busid |-> registry[EngineOf[t]][s.port]] : s \in call[t].seen}
  BY DEF get_imported_devices, At, OnlyCall, EngineTypeOK, Returned
<1>2. \A l \in call'[t].listed : EngineOf[l.by] = EngineOf[t] => l.busid = l.devid
  BY <1>1 DEF ListInv, EntriesRight, At, OwnEngines
<1>3. EntriesRight(t)'
  BY <1>1, <1>2 DEF ListInv, EntriesRight, Plugged, Recording, At
<1> QED
  BY <1>1, <1>3, OthersKept

\* The entry of a port is written or removed by the task that plugged or freed
\* it, in the engine of that task.
LEMMA ListRecordStep ==
    ASSUME ListInv, EngineTypeOK, OwnEngines, NEW t \in Tasks, record(t) \/ remove(t)
    PROVE  ListInv'
<1> DEFINE p == call[t].port
           e == IF call[t].at = "record" THEN call[t].busid ELSE "none"
<1>1. /\ call[t].at \in {"record", "remove"} /\ p \in Ports /\ UNCHANGED port
      /\ Return(t, TRUE)
      /\ registry' = [registry EXCEPT ![EngineOf[t]][p] = e]
  BY Zenon DEF record, remove, At, EngineTypeOK
<1>2. OnlyCall(t) /\ call'[t].at = "returned" /\ call'[t].op = call[t].op
  BY <1>1, Moves, Zenon
<1> HIDE DEF e
<1>3. /\ registry'[EngineOf[t]][p] = e
      /\ \A q \in Ports \ {p} : registry'[EngineOf[t]][q] = registry[EngineOf[t]][q]
      /\ \A u \in Tasks \ {t} : registry'[EngineOf[u]] = registry[EngineOf[u]]
  BY <1>1 DEF EngineTypeOK, Engines, OwnEngines
<1>4. EntriesRight(t)'
  BY <1>1, <1>2, <1>3 DEF ListInv, EntriesRight, Plugged, Recording, At, e
<1>5. ASSUME NEW u \in Tasks, u # t PROVE EntriesRight(u)'
  BY <1>1, <1>2, <1>3, <1>5, EntriesFrame DEF ListInv, OnlyCall
<1> QED
  BY <1>4, <1>5 DEF ListInv

\* A port that is freed has no entry to be right.
LEMMA ListFreeStep ==
    ASSUME ListInv, EngineTypeOK, NEW p \in Ports, port' = [port EXCEPT ![p] = FreePort],
           UNCHANGED registry,
           \A u \in Tasks : \/ call'[u] = call[u]
                            \/ /\ call[u].at = "unplug" /\ call'[u].at = "remove"
                               /\ call[u].port = p /\ call'[u].port = p
                               /\ call'[u].op = call[u].op
    PROVE  ListInv'
<1>1. port'[p].sta = 4 /\ \A q \in Ports \ {p} : port'[q] = port[q]
  BY DEF EngineTypeOK, FreePort
<1>2. ASSUME NEW u \in Tasks, call'[u] = call[u] PROVE EntriesRight(u)'
  BY <1>1, <1>2, EntriesFrame DEF ListInv, Plugged
<1>3. ASSUME NEW u \in Tasks, call[u].at = "unplug", call'[u].at = "remove",
             call[u].port = p, call'[u].port = p, call'[u].op = call[u].op
      PROVE  EntriesRight(u)'
  BY <1>1, <1>3 DEF ListInv, EntriesRight, Plugged, Recording, At
<1> QED
  BY <1>2, <1>3 DEF ListInv
\* No step of a call or of its environment makes a listing wrong.
LEMMA ListStep ==
    ASSUME OwnEngines PROVE PortInv /\ ListInv /\ [EngineNext]_engineVars => ListInv'
<1> SUFFICES ASSUME PortInv, ListInv, [EngineNext]_engineVars PROVE ListInv'
  OBVIOUS
<1>t. EngineTypeOK /\ DOMAIN call = Tasks
  BY DEF PortInv, EngineTypeOK
<1>1. ASSUME NEW t \in Tasks, \/ wake(t) \/ connect(t) \/ import(t) \/ hangup(t)
                              \/ find_free_port(t) \/ verify(t)
      PROVE  ListInv'
  BY <1>1, <1>t, ListQuietStep, Zenon
     DEF wake, connect, import, hangup, find_free_port, verify
<1>2. ASSUME NEW t \in Tasks, vhci_attach(t) PROVE ListInv'
  <2> DEFINE p == call[t].port
  <2>0. p \in Ports /\ call[t].at = "plug" /\ UNCHANGED registry
    BY <1>2, <1>t DEF vhci_attach, At, EngineTypeOK
  <2>1. CASE Failed(t) /\ UNCHANGED port
    BY <1>2, <1>t, <2>0, <2>1, ListQuietStep, Zenon
  <2>2. CASE /\ port' = [port EXCEPT ![p] = [sta |-> 6, dev |-> call[t].busid, by |-> t]]
             /\ Goto(t, "record")
    BY <2>0, <2>2, <1>t, Moves, ListPlugStep, Zenon
  <2> QED
    BY <1>2, <2>1, <2>2 DEF vhci_attach
<1>3. ASSUME NEW t \in Tasks, plugin_hardware(t) PROVE ListInv'
  <2>0. call[t].at = "attach" /\ UNCHANGED registry
    BY <1>3 DEF plugin_hardware, At
  <2>1. CASE Failed(t) /\ UNCHANGED port
    BY <1>3, <1>t, <2>0, <2>1, ListQuietStep, Zenon
  <2>2. ASSUME NEW p \in Ports,
               port' = [port EXCEPT ![p] = [sta |-> 6, dev |-> call[t].busid, by |-> t]],
               call' = [call EXCEPT ![t].at = "record", ![t].port = p]
        PROVE  ListInv'
    <3>1. /\ OnlyCall(t) /\ call'[t].at = "record" /\ call'[t].port = p
          /\ call'[t].busid = call[t].busid /\ call'[t].op = call[t].op
      BY <2>2, <1>t DEF OnlyCall, EngineTypeOK, Returned
    <3> QED
      BY <2>0, <2>2, <3>1, <1>t, ListPlugStep, Zenon
  <2> QED
    BY <1>3, <2>1, <2>2 DEF plugin_hardware
<1>4. ASSUME NEW t \in Tasks, record(t) \/ remove(t) PROVE ListInv'
  BY <1>4, <1>t, ListRecordStep
<1>5. ASSUME NEW t \in Tasks, vhci_detach(t) \/ unplug_hardware(t) PROVE ListInv'
  <2> DEFINE p == call[t].port
  <2>0. Unplug(t) /\ p \in Ports /\ call[t].at = "unplug" /\ UNCHANGED registry
    BY <1>5, <1>t, Zenon DEF vhci_detach, unplug_hardware, Unplug, At, EngineTypeOK
  <2>1. CASE Return(t, FALSE) /\ UNCHANGED port
    BY <1>t, <2>0, <2>1, ListQuietStep, Zenon
  <2>2. CASE port' = [port EXCEPT ![p] = FreePort] /\ Goto(t, "remove")
    <3>1. /\ OnlyCall(t) /\ call'[t].at = "remove" /\ call'[t].port = p
          /\ call'[t].op = call[t].op
      BY <2>2, <1>t, Moves
    <3> QED
      BY <2>0, <2>2, <3>1, <1>t, ListFreeStep, Zenon DEF OnlyCall
  <2> QED
    BY <2>0, <2>1, <2>2, Zenon DEF Unplug
<1>6. ASSUME NEW t \in Tasks, get_imported_devices(t) PROVE ListInv'
  BY <1>6, <1>t, ListCrossStep
<1>7. ASSUME NEW t \in Tasks, CallAttach(t) \/ CallDetach(t) \/ CallList(t) PROVE ListInv'
  BY <1>7, ListCallStep
<1>8. ASSUME NEW p \in Ports, PortDown(p) PROVE ListInv'
  BY <1>8, <1>t, ListFreeStep, Zenon DEF PortDown
<1>9. CASE UNCHANGED <<call, registry, port>>
  BY <1>9, EntriesFrame DEF ListInv
<1> QED
  BY <1>1, <1>2, <1>3, <1>4, <1>5, <1>6, <1>7, <1>8, <1>9
     DEF EngineNext, Step, engineVars, ServerDrops, SessionEnded, SessionLeaked

\* When no two tasks share an engine, get_imported_devices names the right bus
\* id for every import that was made through the engine and is still there.
THEOREM OwnImportsListedHolds == ASSUME OwnEngines PROVE EngineSpec => []OwnImportsListed
<1>1. EngineInit => ListInv
  <2> SUFFICES ASSUME EngineInit, NEW t \in Tasks PROVE EntriesRight(t)
    BY DEF ListInv
  <2>1. call[t].at = "returned" /\ call[t].op = "none"
    BY DEF EngineInit, Returned
  <2>2. \A p \in Ports : ~Plugged(p)
    BY DEF EngineInit, FreePort, Plugged
  <2> QED
    BY <2>1, <2>2 DEF EntriesRight, At
<1>2. PortInv /\ ListInv /\ [EngineNext]_engineVars => ListInv'
  BY ListStep
<1>3. ListInv => OwnImportsListed
  BY DEF ListInv, EntriesRight, OwnImportsListed
<1> QED
  BY <1>1, <1>2, <1>3, PortInvCorrect, PTL DEF EngineSpec
=============================================================================
