--------------------------- MODULE ExportRegistry ---------------------------
(***************************************************************************)
(* The device export registry of the USB/IP server (extender-server,       *)
(* export.rs): a map from bus ids to exported devices behind one RwLock,   *)
(* an atomic counter of session ids, and one sleeping task per session in  *)
(* its grace period.  Every operation takes the write lock for its whole   *)
(* body, so each is one action.                                            *)
(*                                                                         *)
(* The SessionState::Disconnected of an entry also records the entry's own *)
(* bus id, so the code's test `disconnected_bus_id == bus_id' is a test    *)
(* of the key against itself and is left out.                              *)
(***************************************************************************)
EXTENDS Naturals

CONSTANTS BusIds,           \* the bus ids of the machine's USB devices
          session_timeout,  \* the grace period, in ticks of the clock
          MaxSession        \* bound: session ids that are handed out

ASSUME TimeoutAssumption == session_timeout \in Nat
ASSUME BoundAssumption == MaxSession \in Nat

VARIABLES devices,          \* the keys of the map: the exported bus ids
          active_session,   \* active_session[b]: Option<SessionId>
          session_state,    \* session_state[b]: Option<SessionState>
          next_session_id,  \* the AtomicU64
          timers,           \* the sleeping expiry tasks
          clock,            \* tokio's Instant::now()
          granted           \* history: the pairs <<b, s>> whose caller of
                            \* try_acquire has not called release

registryVars == <<devices, active_session, session_state, next_session_id,
                  timers, clock, granted>>

-----------------------------------------------------------------------------
\* Option and SessionState.  Session ids start at 1; 0 stands for None.
NoSession == 0
NoState == [tag |-> "None", session_id |-> NoSession, deadline |-> 0]
Active(s) == [tag |-> "Active", session_id |-> s, deadline |-> 0]
Disconnected(s, d) == [tag |-> "Disconnected", session_id |-> s, deadline |-> d]

Timer(b, s, d) == [bus_id |-> b, session_id |-> s, due |-> d]

InGrace(b) == session_state[b].tag = "Disconnected"

has_disconnected_session(b) ==
    b \in devices /\ InGrace(b) /\ clock < session_state[b].deadline

\* Mutated form of Acquirable: the in-use check is missing.
Acquirable_InUse(b) == b \in devices

\* When try_acquire_ext succeeds.  A reservation is resumed before its deadline
\* and cleared after it, so it stops nobody either way (the deadline decides
\* only what is logged); otherwise no session may be recorded.
Acquirable(b) ==
    /\ b \in devices
    /\ InGrace(b) \/ active_session[b] = NoSession

-----------------------------------------------------------------------------
Init ==
    /\ devices = {}
    /\ active_session = [b \in BusIds |-> NoSession]
    /\ session_state = [b \in BusIds |-> NoState]
    /\ next_session_id = 1
    /\ timers = {}
    /\ clock = 0
    /\ granted = {}

\* Both fields of an entry become None.
Clear(b) ==
    /\ active_session' = [active_session EXCEPT ![b] = NoSession]
    /\ session_state' = [session_state EXCEPT ![b] = NoState]

\* bind_device_with, and bind_device once it holds the write lock.
bind_device_with(b) ==
    /\ b \notin devices
    /\ devices' = devices \union {b}
    /\ Clear(b)
    /\ UNCHANGED <<next_session_id, timers, clock, granted>>

unbind_device(b) ==
    /\ b \in devices
    /\ devices' = devices \ {b}
    /\ Clear(b)
    /\ UNCHANGED <<next_session_id, timers, clock, granted>>

\* The session id handed to the caller is the value of next_session_id.
try_acquire_ext(b) ==
    /\ Acquirable(b)
    /\ next_session_id <= MaxSession
    /\ next_session_id' = next_session_id + 1
    /\ active_session' = [active_session EXCEPT ![b] = next_session_id]
    /\ session_state' = [session_state EXCEPT ![b] = Active(next_session_id)]
    /\ granted' = granted \union {<<b, next_session_id>>}
    /\ UNCHANGED <<devices, timers, clock>>

\* Mutated form of Foreign: the entry's session id is not compared.
Foreign_AnySession(b, s) == b \notin devices

\* The entry is gone or belongs to another session: nothing to release.
Foreign(b, s) == ~(b \in devices /\ active_session[b] = s)

\* Mutated form of release: the expiry task is not spawned.
release_NoTimer(b, s) ==
    /\ granted' = granted \ {<<b, s>>}
    /\ IF Foreign(b, s)
       THEN UNCHANGED session_state
       ELSE session_state' = [session_state EXCEPT
                                ![b] = Disconnected(s, clock + session_timeout)]
    /\ UNCHANGED <<devices, active_session, next_session_id, timers, clock>>

release(b, s) ==
    /\ granted' = granted \ {<<b, s>>}
    /\ UNCHANGED <<devices, next_session_id, clock>>
    /\ \/ /\ Foreign(b, s)
          /\ UNCHANGED <<active_session, session_state, timers>>
       \/ /\ ~Foreign(b, s)
          /\ IF session_timeout = 0
             THEN Clear(b) /\ UNCHANGED timers
             ELSE LET deadline == clock + session_timeout
                  IN  /\ session_state' = [session_state EXCEPT
                                             ![b] = Disconnected(s, deadline)]
                      /\ timers' = timers \union {Timer(b, s, deadline)}
                      /\ UNCHANGED active_session

release_immediate(b, s) ==
    /\ granted' = granted \ {<<b, s>>}
    /\ UNCHANGED <<devices, next_session_id, timers, clock>>
    /\ IF Foreign(b, s)
       THEN UNCHANGED <<active_session, session_state>>
       ELSE Clear(b)

\* Mutated forms of expire_disconnected_session: the session id is not compared;
\* nothing about the entry is checked.
expire_AnySession(t) ==
    /\ t.due <= clock
    /\ timers' = timers \ {t}
    /\ UNCHANGED <<devices, next_session_id, clock, granted>>
    /\ IF InGrace(t.bus_id)
       THEN Clear(t.bus_id)
       ELSE UNCHANGED <<active_session, session_state>>
expire_Unchecked(t) ==
    /\ t.due <= clock
    /\ timers' = timers \ {t}
    /\ Clear(t.bus_id)
    /\ UNCHANGED <<devices, next_session_id, clock, granted>>

\* The spawned task sleeps at least the grace period, then clears the entry if
\* it is still the reservation the task was spawned for.
expire_disconnected_session(t) ==
    /\ t.due <= clock
    /\ timers' = timers \ {t}
    /\ UNCHANGED <<devices, next_session_id, clock, granted>>
    /\ IF /\ t.bus_id \in devices
          /\ InGrace(t.bus_id)
          /\ session_state[t.bus_id].session_id = t.session_id
       THEN Clear(t.bus_id)
       ELSE UNCHANGED <<active_session, session_state>>

\* Time passes.  The clock is only ever compared with the deadlines of sleeping
\* tasks, so it may stand still while none of them is left in the future.
Tick ==
    /\ \E t \in timers : clock < t.due
    /\ clock' = clock + 1
    /\ UNCHANGED <<devices, active_session, session_state, next_session_id,
                   timers, granted>>

\* The registry under any callers that give back at most once what they got.
Next ==
    \/ \E b \in BusIds :
          bind_device_with(b) \/ unbind_device(b) \/ try_acquire_ext(b)
    \/ \E g \in granted : release(g[1], g[2]) \/ release_immediate(g[1], g[2])
    \/ \E t \in timers : expire_disconnected_session(t)
    \/ Tick

\* Every sleeping task wakes up once its time has come, and time passes.
Fairness ==
    /\ WF_registryVars(Tick)
    /\ \A b \in BusIds, s \in 1..MaxSession :
          WF_registryVars(\E t \in timers : /\ t.bus_id = b /\ t.session_id = s
                                           /\ expire_disconnected_session(t))

Spec == Init /\ [][Next]_registryVars
FairSpec == Spec /\ Fairness

-----------------------------------------------------------------------------
SessionId == Nat \ {0}

TypeOK ==
    /\ devices \subseteq BusIds
    /\ active_session \in [BusIds -> Nat]
    /\ session_state \in [BusIds -> [tag : {"None", "Active", "Disconnected"},
                                     session_id : Nat, deadline : Nat]]
    /\ next_session_id \in SessionId
    /\ timers \subseteq [bus_id : BusIds, session_id : SessionId, due : Nat]
    /\ clock \in Nat
    /\ granted \subseteq BusIds \X SessionId

\* The two fields every operation of export.rs maintains side by side never
\* disagree: active_session is None exactly when session_state is, and otherwise
\* both name the same session.
SessionAgreement ==
    \A b \in BusIds :
        \/ active_session[b] = NoSession /\ session_state[b] = NoState
        \/ /\ active_session[b] # NoSession
           /\ session_state[b].tag # "None"
           /\ session_state[b].session_id = active_session[b]
           /\ b \in devices

\* No session id is recorded for two devices, and none is recorded that the
\* counter may still hand out: fetch_add under different entries never collides,
\* whatever was unbound, rebound or resumed in between.
SessionsUnique ==
    /\ \A b \in BusIds : active_session[b] < next_session_id
    /\ \A a, b \in BusIds :
          active_session[a] = active_session[b] /\ a # b
              => active_session[a] = NoSession

\* A reservation always has its sleeping task, with exactly its deadline: the
\* device cannot stay reserved because the task that frees it is missing, and
\* no task of an earlier session can cut the reservation short.
ReservationHasTimer ==
    \A b \in BusIds : InGrace(b) =>
        /\ Timer(b, session_state[b].session_id, session_state[b].deadline) \in timers
        /\ \A t \in timers :
              t.bus_id = b /\ t.session_id = session_state[b].session_id
                  => t.due = session_state[b].deadline

\* A session that its caller has not released is never in its grace period: as
\* long as its entry names it, the entry is Active, whatever late releases and
\* expiries of earlier sessions of the same bus id still arrive.
HeldStaysActive ==
    \A g \in granted :
        active_session[g[1]] = g[2] => session_state[g[1]] = Active(g[2])

\* Before its deadline nothing but a resumption or an unbind ends a
\* reservation: expiry tasks left over from earlier sessions of the bus id wake
\* up in the middle of it and must leave it alone.
GraceIsKept ==
    [][\A b \in BusIds :
          has_disconnected_session(b) /\ b \in devices' =>
              \/ session_state'[b] = session_state[b]
              \/ session_state'[b] = Active(next_session_id)]_registryVars

\* An exported device passes to a new session only from a reservation or from
\* nobody: no step replaces one active session by another, or makes an active
\* device free or reserved unless its holder released it.
NoTakeover ==
    [][\A b \in BusIds :
          /\ session_state[b].tag = "Active" /\ b \in devices'
          /\ session_state'[b] # session_state[b]
          => /\ <<b, active_session[b]>> \in granted \ granted'
             /\ session_state'[b].tag # "Active"]_registryVars

\* Every reservation ends: after release the device does not stay reserved
\* for the same session for ever.
ReservationEnds ==
    \A b \in BusIds, s \in 1..MaxSession :
        (InGrace(b) /\ session_state[b].session_id = s)
            ~> ~(InGrace(b) /\ session_state[b].session_id = s)

-----------------------------------------------------------------------------
\* The registry implements the abstract leases.
LeaseOf(b) ==
    IF b \notin devices THEN [status |-> "Withdrawn", id |-> 0]
    ELSE CASE session_state[b].tag = "None" -> [status |-> "Free", id |-> 0]
           [] session_state[b].tag = "Active" ->
                [status |-> "Held", id |-> session_state[b].session_id]
           [] OTHER ->
                [status |-> "Reserved", id |-> session_state[b].session_id]

Lease == INSTANCE DeviceLease WITH lease <- [b \in BusIds |-> LeaseOf(b)],
                                   issued <- next_session_id - 1

\* The map, the counter and the timers together behave as DeviceLease says.
LeaseSpec == Lease!Spec
=============================================================================
