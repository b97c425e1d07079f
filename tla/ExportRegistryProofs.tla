------------------------ MODULE ExportRegistryProofs ------------------------
(***************************************************************************)
(* Proofs about the export registry, for any set of bus ids, any grace     *)
(* period and any number of sessions.                                      *)
(***************************************************************************)
EXTENDS ExportRegistry, TLAPS

\* Sessions that were handed out have ids below the counter, and a session that
\* has an expiry task is no longer held by its caller.
IdsIssued ==
    /\ \A g \in granted : g[2] < next_session_id
    /\ \A t \in timers : /\ t.session_id < next_session_id
                         /\ <<t.bus_id, t.session_id>> \notin granted

\* The inductive invariant.
RegistryInv ==
    /\ TypeOK
    /\ SessionAgreement
    /\ SessionsUnique
    /\ ReservationHasTimer
    /\ HeldStaysActive
    /\ IdsIssued

-----------------------------------------------------------------------------
\* The registry starts empty (ExportRegistry::new), in a state that satisfies
\* the invariant.
LEMMA InitInv == Init => RegistryInv
  BY DEF Init, RegistryInv, TypeOK, SessionId, SessionAgreement, SessionsUnique,
         ReservationHasTimer, HeldStaysActive, IdsIssued, InGrace, NoSession, NoState

\* Every operation of export.rs keeps the variables in their types.
LEMMA TypeStep == TypeOK /\ [Next]_registryVars => TypeOK'
<1> SUFFICES ASSUME TypeOK, [Next]_registryVars PROVE TypeOK'
  OBVIOUS
<1> USE TimeoutAssumption DEF TypeOK, SessionId, NoSession, NoState
<1>1. ASSUME NEW b \in BusIds, bind_device_with(b) \/ unbind_device(b) PROVE TypeOK'
  BY <1>1 DEF bind_device_with, unbind_device, Clear
<1>2. ASSUME NEW b \in BusIds, try_acquire_ext(b) PROVE TypeOK'
  BY <1>2 DEF try_acquire_ext, Active
<1>3. ASSUME NEW g \in granted, release(g[1], g[2]) PROVE TypeOK'
  BY <1>3 DEF release, Clear, Disconnected, Timer
<1>4. ASSUME NEW g \in granted, release_immediate(g[1], g[2]) PROVE TypeOK'
  BY <1>4 DEF release_immediate, Clear
<1>5. ASSUME NEW t \in timers, expire_disconnected_session(t) PROVE TypeOK'
  BY <1>5 DEF expire_disconnected_session, Clear
<1>6. CASE Tick
  BY <1>6 DEF Tick
<1>7. CASE UNCHANGED registryVars
  BY <1>7 DEF registryVars
<1> QED
  BY <1>1, <1>2, <1>3, <1>4, <1>5, <1>6, <1>7 DEF Next

\* Type correctness of the registry.
THEOREM TypeCorrect == Spec => []TypeOK
<1>1. Init => TypeOK
  BY InitInv DEF RegistryInv
<1> QED
  BY <1>1, TypeStep, PTL DEF Spec

-----------------------------------------------------------------------------
\* Every operation of export.rs preserves the invariant.
LEMMA InvStep == RegistryInv /\ [Next]_registryVars => RegistryInv'
<1> SUFFICES ASSUME RegistryInv, [Next]_registryVars PROVE RegistryInv'
  OBVIOUS
<1>t. TypeOK'
  BY TypeStep DEF RegistryInv
<1> USE TimeoutAssumption, <1>t DEF RegistryInv, TypeOK, SessionId, NoSession, NoState
<1>1. ASSUME NEW b \in BusIds, bind_device_with(b) \/ unbind_device(b)
      PROVE  RegistryInv'
  <2>0. /\ active_session \in [BusIds -> Nat] /\ next_session_id \in Nat \ {0}
        /\ active_session' = [active_session EXCEPT ![b] = 0]
        /\ next_session_id' = next_session_id
        /\ SessionsUnique
    BY <1>1 DEF bind_device_with, unbind_device, Clear
  <2>2. SessionsUnique'
    BY ONLY <2>0, b \in BusIds DEF SessionsUnique, NoSession
  <2> USE <1>1 DEF bind_device_with, unbind_device, Clear
  <2>1. SessionAgreement'
    BY DEF SessionAgreement
  <2>3. ReservationHasTimer'
    BY DEF ReservationHasTimer, InGrace, Timer
  <2>4. HeldStaysActive'
    BY DEF HeldStaysActive, Active
  <2>5. IdsIssued'
    BY DEF IdsIssued
  <2> QED
    BY <2>1, <2>2, <2>3, <2>4, <2>5
<1>2. ASSUME NEW b \in BusIds, try_acquire_ext(b)
      PROVE  RegistryInv'
  <2> USE <1>2 DEF try_acquire_ext, Active
  <2>1. SessionAgreement'
    BY DEF SessionAgreement, Acquirable
  <2>2. SessionsUnique'
    BY DEF SessionsUnique
  <2>3. ReservationHasTimer'
    BY DEF ReservationHasTimer, InGrace, Timer
  <2>4. HeldStaysActive' /\ IdsIssued'
    BY DEF HeldStaysActive, IdsIssued
  <2> QED
    BY <2>1, <2>2, <2>3, <2>4
<1>3. ASSUME NEW g \in granted, release(g[1], g[2])
      PROVE  RegistryInv'
  <2> DEFINE b == g[1]
             s == g[2]
  <2>0. b \in BusIds /\ s \in Nat \ {0} /\ g = <<b, s>>
    OBVIOUS
  <2>1. CASE Foreign(b, s)
    BY <1>3, <2>1 DEF release, SessionAgreement, SessionsUnique, ReservationHasTimer,
                      HeldStaysActive, IdsIssued, InGrace, Timer, Active
  <2>2. CASE ~Foreign(b, s) /\ session_timeout = 0
    <3>0. /\ granted' = granted \ {<<b, s>>}
          /\ Clear(b)
          /\ UNCHANGED <<devices, next_session_id, clock, timers>>
      BY <1>3, <2>2 DEF release
    <3> USE <2>0, <3>0 DEF Clear
    <3>1. SessionAgreement' /\ SessionsUnique'
      BY DEF SessionAgreement, SessionsUnique
    <3>2. ReservationHasTimer'
      BY DEF ReservationHasTimer, InGrace, Timer
    <3>3. HeldStaysActive' /\ IdsIssued'
      BY DEF HeldStaysActive, IdsIssued, Active
    <3> QED
      BY <3>1, <3>2, <3>3
  <2>3. CASE ~Foreign(b, s) /\ session_timeout # 0
    <3> DEFINE d == clock + session_timeout
    <3>0. /\ granted' = granted \ {<<b, s>>}
          /\ session_state' = [session_state EXCEPT ![b] = Disconnected(s, d)]
          /\ timers' = timers \union {Timer(b, s, d)}
          /\ UNCHANGED <<devices, next_session_id, clock, active_session>>
          /\ b \in devices /\ active_session[b] = s
      BY <1>3, <2>3 DEF release, Foreign
    <3>1. SessionAgreement' /\ SessionsUnique'
      BY <3>0, <2>0 DEF SessionAgreement, SessionsUnique, Disconnected
    <3>2. \A t \in timers : ~(t.bus_id = b /\ t.session_id = s)
      BY <2>0 DEF IdsIssued
    <3>3. ReservationHasTimer'
      BY <3>0, <3>2, <2>0 DEF ReservationHasTimer, InGrace, Timer, Disconnected
    <3>4. HeldStaysActive'
      BY <3>0, <2>0 DEF HeldStaysActive, Active
    <3>5. IdsIssued'
      BY <3>0, <2>0 DEF IdsIssued, Timer
    <3> QED
      BY <3>1, <3>3, <3>4, <3>5
  <2> QED
    BY <2>1, <2>2, <2>3
<1>4. ASSUME NEW g \in granted, release_immediate(g[1], g[2])
      PROVE  RegistryInv'
  <2>0. g[1] \in BusIds /\ g[2] \in Nat \ {0}
    OBVIOUS
  <2> USE <1>4, <2>0 DEF release_immediate, Clear
  <2>1. SessionAgreement' /\ SessionsUnique'
    BY DEF SessionAgreement, SessionsUnique
  <2>2. ReservationHasTimer'
    BY DEF ReservationHasTimer, InGrace, Timer
  <2>3. HeldStaysActive' /\ IdsIssued'
    BY DEF HeldStaysActive, IdsIssued, Active
  <2> QED
    BY <2>1, <2>2, <2>3
<1>5. ASSUME NEW t \in timers, expire_disconnected_session(t)
      PROVE  RegistryInv'
  <2>0. t.bus_id \in BusIds
    OBVIOUS
  <2> USE <1>5, <2>0 DEF expire_disconnected_session, Clear
  <2>1. SessionAgreement' /\ SessionsUnique'
    BY DEF SessionAgreement, SessionsUnique
  <2>2. ReservationHasTimer'
    BY DEF ReservationHasTimer, InGrace, Timer, SessionAgreement
  <2>3. HeldStaysActive' /\ IdsIssued'
    BY DEF HeldStaysActive, IdsIssued, Active
  <2> QED
    BY <2>1, <2>2, <2>3
<1>6. CASE Tick
  BY <1>6 DEF Tick, SessionAgreement, SessionsUnique, ReservationHasTimer,
              HeldStaysActive, IdsIssued, InGrace, Timer, Active
<1>7. CASE UNCHANGED registryVars
  BY <1>7 DEF registryVars, SessionAgreement, SessionsUnique, ReservationHasTimer,
              HeldStaysActive, IdsIssued, InGrace, Timer, Active
<1> QED
  BY <1>1, <1>2, <1>3, <1>4, <1>5, <1>6, <1>7 DEF Next

\* The inductive invariant holds in every reachable state.
THEOREM InvCorrect == Spec => []RegistryInv
  BY InitInv, InvStep, PTL DEF Spec

\* The two records of an entry's session, active_session and session_state,
\* never disagree.
THEOREM SessionAgreementHolds == Spec => []SessionAgreement
<1>1. RegistryInv => SessionAgreement
  BY DEF RegistryInv
<1> QED
  BY <1>1, InvCorrect, PTL

\* No session id is ever recorded for two devices.
THEOREM SessionsUniqueHolds == Spec => []SessionsUnique
<1>1. RegistryInv => SessionsUnique
  BY DEF RegistryInv
<1> QED
  BY <1>1, InvCorrect, PTL

\* Every reservation has its expiry task, due exactly at its deadline.
THEOREM ReservationHasTimerHolds == Spec => []ReservationHasTimer
<1>1. RegistryInv => ReservationHasTimer
  BY DEF RegistryInv
<1> QED
  BY <1>1, InvCorrect, PTL

\* A session its caller still holds is never in its grace period.
THEOREM HeldStaysActiveHolds == Spec => []HeldStaysActive
<1>1. RegistryInv => HeldStaysActive
  BY DEF RegistryInv
<1> QED
  BY <1>1, InvCorrect, PTL

-----------------------------------------------------------------------------
\* A session its caller still holds is not in its grace period.
LEMMA HeldNotInGrace ==
    ASSUME RegistryInv, NEW g \in granted, active_session[g[1]] = g[2]
    PROVE  ~InGrace(g[1])
<1>1. session_state[g[1]] = Active(g[2])
  BY DEF RegistryInv, HeldStaysActive
<1>2. Active(g[2]).tag = "Active"
  BY DEF Active
<1> QED
  BY <1>1, <1>2 DEF InGrace

\* Before its deadline, nothing but a resumption or an unbind ends a reservation.
THEOREM GraceIsKeptHolds == Spec => GraceIsKept
<1> DEFINE Kept(b) == has_disconnected_session(b) /\ b \in devices' =>
                         \/ session_state'[b] = session_state[b]
                         \/ session_state'[b] = Active(next_session_id)
<1>1. ASSUME RegistryInv, [Next]_registryVars, NEW b \in BusIds PROVE Kept(b)
  <2> SUFFICES ASSUME has_disconnected_session(b), b \in devices' PROVE Kept(b)
    OBVIOUS
  <2>0. InGrace(b) /\ clock < session_state[b].deadline /\ b \in devices
    BY DEF has_disconnected_session
  <2> USE <1>1 DEF RegistryInv, TypeOK, SessionId
  <2>1. ASSUME NEW a \in BusIds,
               bind_device_with(a) \/ unbind_device(a) \/ try_acquire_ext(a)
        PROVE  Kept(b)
    BY <2>0, <2>1 DEF bind_device_with, unbind_device, try_acquire_ext, Clear
  <2>2. ASSUME NEW g \in granted, release(g[1], g[2]) \/ release_immediate(g[1], g[2])
        PROVE  Kept(b)
    <3>0. g[1] = b => Foreign(g[1], g[2])
      BY <2>0, HeldNotInGrace DEF Foreign
    <3> QED
      BY <2>2, <3>0 DEF release, release_immediate, Clear
  <2>3. ASSUME NEW t \in timers, expire_disconnected_session(t) PROVE Kept(b)
    <3>0. ~(t.bus_id = b /\ session_state[b].session_id = t.session_id)
      BY <2>0, <2>3 DEF ReservationHasTimer, expire_disconnected_session
    <3> QED
      BY <2>3, <3>0 DEF expire_disconnected_session, Clear
  <2>4. CASE Tick \/ UNCHANGED registryVars
    BY <2>4 DEF Tick, registryVars
  <2> QED
    BY <1>1, <2>1, <2>2, <2>3, <2>4 DEF Next
<1>2. RegistryInv /\ [Next]_registryVars => [\A b \in BusIds : Kept(b)]_registryVars
  BY <1>1
<1> QED
  BY <1>2, InvCorrect, PTL DEF Spec, GraceIsKept

\* No exported device is taken from the session that holds it: it changes hands
\* only after its holder's release.
THEOREM NoTakeoverHolds == Spec => NoTakeover
<1> DEFINE Safe(b) == /\ session_state[b].tag = "Active" /\ b \in devices'
                      /\ session_state'[b] # session_state[b]
                      => /\ <<b, active_session[b]>> \in granted \ granted'
                         /\ session_state'[b].tag # "Active"
<1>1. ASSUME RegistryInv, [Next]_registryVars, NEW b \in BusIds PROVE Safe(b)
  <2> SUFFICES ASSUME session_state[b].tag = "Active", b \in devices',
                      session_state'[b] # session_state[b]
               PROVE  Safe(b)
    OBVIOUS
  <2> USE <1>1 DEF RegistryInv, TypeOK, SessionId, NoSession, NoState
  <2>0. b \in devices /\ active_session[b] # NoSession /\ ~InGrace(b)
    BY DEF SessionAgreement, InGrace
  <2>1. ASSUME NEW a \in BusIds,
               bind_device_with(a) \/ unbind_device(a) \/ try_acquire_ext(a)
        PROVE  Safe(b)
    BY <2>0, <2>1 DEF bind_device_with, unbind_device, try_acquire_ext, Clear, Acquirable
  <2>2. ASSUME NEW g \in granted, release(g[1], g[2]) \/ release_immediate(g[1], g[2])
        PROVE  Safe(b)
    <3>0. g[1] \in BusIds /\ g[2] \in Nat /\ g = <<g[1], g[2]>>
      OBVIOUS
    <3>1. g[1] = b /\ ~Foreign(g[1], g[2]) /\ granted' = granted \ {g}
      BY <2>2, <3>0 DEF release, release_immediate, Clear
    <3>2. session_state'[b].tag # "Active"
      BY <2>2, <3>1 DEF release, release_immediate, Clear, Disconnected
    <3> QED
      BY <3>0, <3>1, <3>2 DEF Foreign
  <2>3. ASSUME NEW t \in timers, expire_disconnected_session(t) PROVE Safe(b)
    BY <2>0, <2>3 DEF expire_disconnected_session, Clear
  <2>4. CASE Tick \/ UNCHANGED registryVars
    BY <2>4 DEF Tick, registryVars
  <2> QED
    BY <1>1, <2>1, <2>2, <2>3, <2>4 DEF Next
<1>2. RegistryInv /\ [Next]_registryVars => [\A b \in BusIds : Safe(b)]_registryVars
  BY <1>1
<1> QED
  BY <1>2, InvCorrect, PTL DEF Spec, NoTakeover

-----------------------------------------------------------------------------
\* The registry implements the abstract leases of DeviceLease: every operation
\* is a step of the lease of its device or none at all.
THEOREM ImplementsLease == Spec => LeaseSpec
<1> DEFINE lease == [b \in BusIds |-> LeaseOf(b)]
<1>1. Init => Lease!Init
  BY DEF Init, Lease!Init, Lease!Withdrawn, LeaseOf
<1>2. ASSUME RegistryInv, [Next]_registryVars PROVE [Lease!Next]_(Lease!leaseVars)
  <2>t. /\ active_session \in [BusIds -> Nat] /\ next_session_id \in Nat
        /\ session_state \in [BusIds -> [tag : {"None", "Active", "Disconnected"},
                                         session_id : Nat, deadline : Nat]]
    BY <1>2 DEF RegistryInv, TypeOK, SessionId
  <2>1. ASSUME NEW b \in BusIds, bind_device_with(b) PROVE Lease!Offer(b)
    <3>1. LeaseOf(b) = Lease!Withdrawn /\ LeaseOf(b)' = Lease!Free
      BY <2>t, <2>1 DEF bind_device_with, Clear, LeaseOf, NoState, Lease!Withdrawn, Lease!Free
    <3>2. \A a \in BusIds \ {b} : LeaseOf(a)' = LeaseOf(a)
      BY <2>t, <2>1 DEF bind_device_with, Clear, LeaseOf
    <3>3. lease' = [lease EXCEPT ![b] = Lease!Free]
      BY <3>1, <3>2
    <3> QED
      BY <2>1, <3>1, <3>3 DEF bind_device_with, Lease!Offer
  <2>2. ASSUME NEW b \in BusIds, unbind_device(b) PROVE Lease!Withdraw(b)
    <3>1. LeaseOf(b) # Lease!Withdrawn
      BY <2>t, <2>2 DEF unbind_device, LeaseOf, Lease!Withdrawn
    <3>2. LeaseOf(b)' = Lease!Withdrawn
      BY <2>t, <2>2 DEF unbind_device, LeaseOf, Lease!Withdrawn
    <3>3. \A a \in BusIds \ {b} : LeaseOf(a)' = LeaseOf(a)
      BY <2>t, <2>2 DEF unbind_device, Clear, LeaseOf
    <3>4. lease' = [lease EXCEPT ![b] = Lease!Withdrawn]
      BY <3>2, <3>3
    <3> QED
      BY <2>2, <3>1, <3>4 DEF unbind_device, Lease!Withdraw
  <2>3. ASSUME NEW b \in BusIds, try_acquire_ext(b) PROVE Lease!Grant(b)
    <3>1. LeaseOf(b).status \in {"Free", "Reserved"}
      BY <1>2, <2>t, <2>3 DEF RegistryInv, SessionAgreement, NoSession, NoState,
                              try_acquire_ext, Acquirable, InGrace, LeaseOf
    <3>2. LeaseOf(b)' = Lease!Held(next_session_id)
      BY <2>t, <2>3 DEF try_acquire_ext, Acquirable, Active, LeaseOf, Lease!Held
    <3>3. \A a \in BusIds \ {b} : LeaseOf(a)' = LeaseOf(a)
      BY <2>t, <2>3 DEF try_acquire_ext, LeaseOf
    <3>4. lease' = [lease EXCEPT ![b] = Lease!Held(next_session_id)]
      BY <3>2, <3>3
    <3>5. /\ (next_session_id - 1)' = next_session_id
          /\ (next_session_id - 1) + 1 = next_session_id
      BY <2>t, <2>3 DEF try_acquire_ext
    <3> QED
      BY <3>1, <3>4, <3>5 DEF Lease!Grant
  <2>4. ASSUME NEW g \in granted, release(g[1], g[2]) \/ release_immediate(g[1], g[2])
        PROVE  Lease!Lapse(g[1]) \/ UNCHANGED Lease!leaseVars
    <3> DEFINE b == g[1]
    <3>0. b \in BusIds /\ next_session_id' = next_session_id /\ devices' = devices
      BY <1>2, <2>4 DEF RegistryInv, TypeOK, release, release_immediate
    <3>1. CASE Foreign(g[1], g[2])
      BY <2>4, <3>0, <3>1 DEF release, release_immediate, LeaseOf, Lease!leaseVars
    <3>2. CASE ~Foreign(g[1], g[2])
      <4>1. b \in devices /\ active_session[b] = g[2] /\ session_state[b] = Active(g[2])
        BY <1>2, <3>2 DEF Foreign, RegistryInv, HeldStaysActive
      <4>2. LeaseOf(b) = Lease!Held(g[2])
        BY <4>1 DEF LeaseOf, Active, Lease!Held
      <4>3. \/ session_state' = [session_state EXCEPT ![b] = NoState]
            \/ session_state' = [session_state EXCEPT
                                   ![b] = Disconnected(g[2], clock + session_timeout)]
        BY <2>4, <3>2 DEF release, release_immediate, Clear
      <4>4. \A a \in BusIds \ {b} : LeaseOf(a)' = LeaseOf(a)
        BY <2>t, <3>0, <4>3 DEF LeaseOf
      <4>5. LeaseOf(b)' \in {Lease!Free, Lease!Reserved(g[2])}
        BY <2>t, <3>0, <4>1, <4>3 DEF LeaseOf, NoState, Disconnected, Lease!Free,
                                      Lease!Reserved
      <4>6. lease' \in {[lease EXCEPT ![b] = Lease!Free],
                        [lease EXCEPT ![b] = Lease!Reserved(g[2])]}
        BY <3>0, <4>4, <4>5
      <4>7. lease[b].status = "Held" /\ lease[b].id = g[2]
        BY <3>0, <4>2 DEF Lease!Held
      <4> QED
        BY <3>0, <4>6, <4>7 DEF Lease!Lapse
    <3> QED
      BY <3>1, <3>2
  <2>5. ASSUME NEW t \in timers, expire_disconnected_session(t)
        PROVE  Lease!Expire(t.bus_id) \/ UNCHANGED Lease!leaseVars
    <3> DEFINE b == t.bus_id
    <3>0. b \in BusIds /\ next_session_id' = next_session_id /\ devices' = devices
      BY <1>2, <2>5 DEF RegistryInv, TypeOK, expire_disconnected_session
    <3>1. CASE session_state' = session_state
      BY <3>0, <3>1 DEF LeaseOf, Lease!leaseVars
    <3>2. CASE session_state' # session_state
      <4>1. /\ b \in devices /\ InGrace(b)
            /\ session_state' = [session_state EXCEPT ![b] = NoState]
        BY <2>5, <3>2 DEF expire_disconnected_session, Clear
      <4>2. LeaseOf(b).status = "Reserved" /\ LeaseOf(b)' = Lease!Free
        BY <2>t, <3>0, <4>1 DEF LeaseOf, InGrace, NoState, Lease!Free
      <4>3. \A a \in BusIds \ {b} : LeaseOf(a)' = LeaseOf(a)
        BY <2>t, <3>0, <4>1 DEF LeaseOf
      <4>4. lease' = [lease EXCEPT ![b] = Lease!Free]
        BY <3>0, <4>2, <4>3
      <4> QED
        BY <3>0, <4>2, <4>4 DEF Lease!Expire
    <3> QED
      BY <3>1, <3>2
  <2>6. ASSUME Tick \/ UNCHANGED registryVars PROVE UNCHANGED Lease!leaseVars
    BY <2>6 DEF Tick, registryVars, Lease!leaseVars, LeaseOf
  <2>7. \A g \in granted : g[1] \in BusIds
    BY <1>2 DEF RegistryInv, TypeOK
  <2>8. \A t \in timers : t.bus_id \in BusIds
    BY <1>2 DEF RegistryInv, TypeOK
  <2> QED
    BY <1>2, <2>1, <2>2, <2>3, <2>4, <2>5, <2>6, <2>7, <2>8 DEF Next, Lease!Next
<1> QED
  BY <1>1, <1>2, InvCorrect, PTL DEF Spec, LeaseSpec, Lease!Spec
=============================================================================
