-------------------------- MODULE UsbServerProofs --------------------------
(***************************************************************************)
(* Proofs about the server, for any sets of clients, devices and bind      *)
(* calls: the handlers use the registry as ExportRegistry expects, so its  *)
(* theorems hold of the running server, and no two clients ever drive the  *)
(* same device.                                                            *)
(***************************************************************************)
EXTENDS UsbServer, ExportRegistryProofs

\* The handler of c has a session that it has not released.
Engaged(c) == conns[c].pc \in {"replying", "urb", "releasing"}

\* Every such session was granted and not given back, and belongs to one handler.
HandlersHoldGrants ==
    /\ \A c \in Clients : Engaged(c) =>
          <<conns[c].bus_id, conns[c].session_id>> \in granted
    /\ \A c, d \in Clients :
          Engaged(c) /\ Engaged(d) /\ conns[c].session_id = conns[d].session_id => c = d

\* A bind knows its device.
BindsHaveDevice == \A k \in Binders : binds[k].pc # "idle" => binds[k].bus_id \in BusIds

\* The inductive invariant of the server.
ServerInv ==
    /\ RegistryInv
    /\ ServerTypeOK
    /\ HandlersHoldGrants
    /\ BindsHaveDevice
    /\ OneSessionPerDevice
    /\ DrivenIsActive
    /\ OpenedIsUnbound

-----------------------------------------------------------------------------
\* The server starts with no device exported and no connection.
LEMMA ServerInitInv == ServerInit => ServerInv
<1> SUFFICES ASSUME ServerInit PROVE ServerInv
  OBVIOUS
<1>1. RegistryInv
  BY InitInv DEF ServerInit
<1>2. ServerTypeOK /\ HandlersHoldGrants /\ BindsHaveDevice
  BY DEF ServerInit, ServerTypeOK, HandlersHoldGrants, BindsHaveDevice, Engaged, NoSession
<1>3. OneSessionPerDevice /\ DrivenIsActive /\ OpenedIsUnbound
  BY DEF ServerInit, OneSessionPerDevice, DrivenIsActive, OpenedIsUnbound, Driving
<1> QED
  BY <1>1, <1>2, <1>3 DEF ServerInv

\* Every step of the server is a step of the registry under well-behaved callers,
\* or leaves the registry alone.
LEMMA ServerStepIsRegistryStep ==
    ServerInv /\ [ServerNext]_serverVars => [Next]_registryVars
<1> SUFFICES ASSUME ServerInv, [ServerNext]_serverVars PROVE [Next]_registryVars
  OBVIOUS
<1>1. ASSUME NEW c \in Clients, NEW b \in BusIds, handle_import(c, b)
      PROVE  Next
  BY <1>1 DEF handle_import, Next
<1>2. ASSUME NEW c \in Clients, release_session(c)
      PROVE  Next
  <2> DEFINE g == <<conns[c].bus_id, conns[c].session_id>>
  <2>1. g \in granted
    BY <1>2 DEF ServerInv, HandlersHoldGrants, Engaged, release_session
  <2>2. release(g[1], g[2])
    BY <1>2 DEF release_session
  <2> QED
    BY <2>1, <2>2 DEF Next
<1>3. ASSUME NEW k \in Binders, bind_insert(k)
      PROVE  [Next]_registryVars
  BY <1>3 DEF bind_insert, Next, ServerInv, BindsHaveDevice
<1>4. ASSUME NEW b \in BusIds, handle_unbind_device(b)
      PROVE  Next
  BY <1>4 DEF handle_unbind_device, Next
<1>5. CASE RegistryTask
  BY <1>5 DEF RegistryTask, Next
<1>6. ASSUME NEW c \in Clients,
             \/ accept_loop(c) \/ handle_without_import(c)
             \/ import_replied(c) \/ import_reply_fails(c) \/ session_over(c)
             \/ \E b \in BusIds : import_rejected(c, b)
      PROVE  UNCHANGED registryVars
  BY <1>6 DEF accept_loop, handle_without_import, import_replied, import_reply_fails,
              session_over, import_rejected
<1>7. ASSUME NEW k \in Binders,
             bind_open(k) \/ bind_open_fails(k) \/ \E b \in BusIds : bind_check(k, b)
      PROVE  UNCHANGED registryVars
  BY <1>7 DEF bind_open, bind_open_fails, bind_check
<1>8. ASSUME NEW l \in lingering, transfer_returns(l)
      PROVE  UNCHANGED registryVars
  BY <1>8 DEF transfer_returns
<1>9. CASE UNCHANGED serverVars
  BY <1>9 DEF serverVars
<1> QED
  BY <1>1, <1>2, <1>3, <1>4, <1>5, <1>6, <1>7, <1>8, <1>9 DEF ServerNext

-----------------------------------------------------------------------------
\* Every step of the server keeps its own variables in their types.
LEMMA ServerTypeStep ==
    ServerInv /\ [ServerNext]_serverVars => ServerTypeOK'
<1> SUFFICES ASSUME ServerInv, [ServerNext]_serverVars PROVE ServerTypeOK'
  OBVIOUS
<1> USE DEF ServerTypeOK
<1>0. ServerTypeOK /\ next_session_id \in Nat
  BY DEF ServerInv, RegistryInv, TypeOK, SessionId
<1>1. ASSUME NEW c \in Clients,
             \/ accept_loop(c) \/ handle_without_import(c) \/ import_replied(c)
             \/ import_reply_fails(c) \/ release_session(c)
             \/ \E b \in BusIds : import_rejected(c, b)
      PROVE  ServerTypeOK'
  BY <1>0, <1>1 DEF accept_loop, handle_without_import, import_replied,
                    import_reply_fails, release_session, import_rejected, MoveTo
<1>2. ASSUME NEW c \in Clients, NEW b \in BusIds, handle_import(c, b)
      PROVE  ServerTypeOK'
  BY <1>0, <1>2 DEF handle_import
<1>3. ASSUME NEW c \in Clients, session_over(c)
      PROVE  ServerTypeOK'
  <2>1. <<conns[c].bus_id, conns[c].session_id>> \in BusIds \X SessionId
    BY <1>3 DEF session_over, ServerInv, HandlersHoldGrants, Engaged, RegistryInv, TypeOK
  <2> QED
    BY <1>0, <1>3, <2>1 DEF session_over, MoveTo
<1>4. ASSUME NEW k \in Binders,
             \/ bind_open(k) \/ bind_open_fails(k) \/ bind_insert(k)
             \/ \E b \in BusIds : bind_check(k, b)
      PROVE  ServerTypeOK'
  BY <1>0, <1>4 DEF bind_open, bind_open_fails, bind_insert, bind_check
<1>5. ASSUME NEW l \in lingering, transfer_returns(l)
      PROVE  ServerTypeOK'
  BY <1>0, <1>5 DEF transfer_returns
<1>6. CASE UNCHANGED serverOnlyVars
  BY <1>0, <1>6 DEF serverOnlyVars
<1> QED
  BY <1>1, <1>2, <1>3, <1>4, <1>5, <1>6
     DEF ServerNext, serverVars, handle_unbind_device, RegistryTask

-----------------------------------------------------------------------------
\* A handler that drives an exported device makes it unavailable to others.
LEMMA DrivenIsNotAcquirable ==
    ASSUME ServerInv, NEW c \in Clients, Driving(c)
    PROVE  \/ ~Acquirable(conns[c].bus_id) /\ ~InGrace(conns[c].bus_id)
           \/ conns[c].bus_id \notin devices
<1> SUFFICES ASSUME conns[c].bus_id \in devices
             PROVE  ~Acquirable(conns[c].bus_id) /\ ~InGrace(conns[c].bus_id)
  OBVIOUS
<1>1. session_state[conns[c].bus_id] = Active(conns[c].session_id)
  BY DEF ServerInv, DrivenIsActive
<1>2. session_state[conns[c].bus_id].tag = "Active"
  BY <1>1 DEF Active
<1>3. conns[c].bus_id \in BusIds
  BY DEF ServerInv, RegistryInv, TypeOK
<1>4. active_session[conns[c].bus_id] # NoSession
  BY <1>2, <1>3 DEF ServerInv, RegistryInv, SessionAgreement, NoState
<1> QED
  BY <1>2, <1>4 DEF Acquirable, InGrace

\* A session in use has an id that was handed out.
LEMMA EngagedIsIssued ==
    ASSUME ServerInv, NEW c \in Clients, Engaged(c)
    PROVE  /\ conns[c].session_id \in SessionId
           /\ conns[c].session_id < next_session_id
           /\ conns[c].bus_id \in BusIds
<1> DEFINE g == <<conns[c].bus_id, conns[c].session_id>>
<1>1. g \in granted
  BY DEF ServerInv, HandlersHoldGrants
<1>2. g \in BusIds \X SessionId /\ g[2] < next_session_id
  BY <1>1 DEF ServerInv, RegistryInv, TypeOK, IdsIssued
<1> QED
  BY <1>2

\* Steps that only move a handler on, without a new session, preserve what the
\* invariant says of handlers and binds.
LEMMA MoveStep ==
    ASSUME ServerInv, UNCHANGED registryVars, UNCHANGED binds, NEW c \in Clients,
           NEW pc \in {"closed", "reading", "urb", "releasing"}, MoveTo(c, pc),
           pc = "urb" => conns[c].pc = "replying",
           pc = "releasing" => conns[c].pc = "urb"
    PROVE  /\ HandlersHoldGrants' /\ BindsHaveDevice' /\ OneSessionPerDevice'
           /\ DrivenIsActive' /\ OpenedIsUnbound'
<1>0. conns \in [Clients -> [pc : {"closed", "reading", "replying", "urb", "releasing"},
                             bus_id : BusIds \union {NoBus}, session_id : Nat]]
  BY DEF ServerInv, ServerTypeOK
<1>1. \A d \in Clients : /\ conns'[d].bus_id = conns[d].bus_id
                          /\ conns'[d].session_id = conns[d].session_id
                          /\ conns'[d].pc = IF d = c THEN pc ELSE conns[d].pc
  BY <1>0 DEF MoveTo
<1>2. \A d \in Clients : (Engaged(d)' => Engaged(d)) /\ (Driving(d)' => Driving(d))
  BY <1>1 DEF Engaged, Driving
<1> USE <1>1, <1>2 DEF ServerInv, registryVars
<1>3. HandlersHoldGrants' /\ BindsHaveDevice'
  BY DEF HandlersHoldGrants, BindsHaveDevice
<1>4. OneSessionPerDevice' /\ OpenedIsUnbound'
  BY DEF OneSessionPerDevice, OpenedIsUnbound
<1>5. DrivenIsActive'
  BY DEF DrivenIsActive, Active
<1> QED
  BY <1>3, <1>4, <1>5

-----------------------------------------------------------------------------
\* Every step of the server preserves the invariant.
LEMMA ServerInvStep == ServerInv /\ [ServerNext]_serverVars => ServerInv'
<1> SUFFICES ASSUME ServerInv, [ServerNext]_serverVars PROVE ServerInv'
  OBVIOUS
<1> DEFINE Rest == /\ HandlersHoldGrants /\ BindsHaveDevice /\ OneSessionPerDevice
                   /\ DrivenIsActive /\ OpenedIsUnbound
<1>a. RegistryInv'
  BY ServerStepIsRegistryStep, InvStep DEF ServerInv
<1>b. ServerTypeOK'
  BY ServerTypeStep
<1>c. conns \in [Clients -> [pc : {"closed", "reading", "replying", "urb", "releasing"},
                             bus_id : BusIds \union {NoBus}, session_id : Nat]]
      /\ binds \in [Binders -> [pc : {"idle", "opening", "opened"},
                               bus_id : BusIds \union {NoBus}]]
      /\ session_state \in [BusIds -> [tag : {"None", "Active", "Disconnected"},
                                       session_id : Nat, deadline : Nat]]
  BY DEF ServerInv, ServerTypeOK, RegistryInv, TypeOK
<1>d. \A c \in Clients : Driving(c) => Engaged(c)
  BY DEF Driving, Engaged
<1>1. ASSUME NEW c \in Clients,
             \/ accept_loop(c) \/ handle_without_import(c)
             \/ import_replied(c) \/ import_reply_fails(c) \/ session_over(c)
             \/ \E b \in BusIds : import_rejected(c, b)
      PROVE  Rest'
  BY <1>1, MoveStep DEF accept_loop, handle_without_import, import_replied,
                        import_reply_fails, session_over, import_rejected
<1>2. ASSUME NEW c \in Clients, NEW b \in BusIds, handle_import(c, b)
      PROVE  Rest'
  <2> DEFINE s == next_session_id
  <2>1. /\ conns' = [conns EXCEPT ![c] = [pc |-> "replying", bus_id |-> b,
                                          session_id |-> s]]
        /\ Acquirable(b) /\ b \in devices
        /\ session_state' = [session_state EXCEPT ![b] = Active(s)]
        /\ granted' = granted \union {<<b, s>>}
        /\ UNCHANGED <<devices, binds>>
    BY <1>2 DEF handle_import, try_acquire_ext, Acquirable
  <2>2. \A d \in Clients : Driving(d) => conns[d].bus_id # b
    BY <2>1, DrivenIsNotAcquirable
  <2>3. \A d \in Clients : Engaged(d) => conns[d].session_id # s
    BY EngagedIsIssued DEF SessionId, ServerInv, RegistryInv, TypeOK
  <2>4. \A d \in Clients \ {c} : conns'[d] = conns[d]
    BY <2>1, <1>c
  <2>5. conns'[c] = [pc |-> "replying", bus_id |-> b, session_id |-> s]
    BY <2>1, <1>c
  <2>6. /\ \A d \in Clients \ {c} : Engaged(d)' = Engaged(d) /\ Driving(d)' = Driving(d)
        /\ Engaged(c)' /\ Driving(c)'
    BY <2>4, <2>5 DEF Engaged, Driving
  <2>7. HandlersHoldGrants'
    BY <2>1, <2>3, <2>4, <2>5, <2>6 DEF ServerInv, HandlersHoldGrants
  <2>8. OneSessionPerDevice'
    BY <2>2, <2>4, <2>5, <2>6 DEF ServerInv, OneSessionPerDevice
  <2>9. DrivenIsActive'
    <3> SUFFICES ASSUME NEW d \in Clients, Driving(d)', conns'[d].bus_id \in devices
                 PROVE  session_state'[conns'[d].bus_id] = Active(conns'[d].session_id)
      BY <2>1 DEF DrivenIsActive, Active
    <3>1. CASE d = c
      BY <3>1, <2>1, <2>5, <1>c
    <3>2. CASE d # c
      BY <3>2, <2>1, <2>2, <2>4, <2>6, <1>c DEF ServerInv, DrivenIsActive
    <3> QED
      BY <3>1, <3>2
  <2>10. OpenedIsUnbound' /\ BindsHaveDevice'
    BY <2>1, <2>4, <2>5, <2>6 DEF ServerInv, OpenedIsUnbound, BindsHaveDevice
  <2> QED
    BY <2>7, <2>8, <2>9, <2>10
<1>3. ASSUME NEW c \in Clients, release_session(c)
      PROVE  Rest'
  <2> DEFINE b == conns[c].bus_id
             s == conns[c].session_id
  <2>1. /\ release(b, s) /\ MoveTo(c, "closed") /\ conns[c].pc = "releasing"
        /\ UNCHANGED <<binds, devices>> /\ granted' = granted \ {<<b, s>>}
    BY <1>3 DEF release_session, release
  <2>2. Engaged(c) /\ ~Driving(c)
    BY <2>1 DEF Engaged, Driving
  <2>3. \A d \in Clients \ {c} : conns'[d] = conns[d]
    BY <2>1, <1>c DEF MoveTo
  <2>4. conns'[c].pc = "closed"
    BY <2>1, <1>c DEF MoveTo
  <2>5. /\ \A d \in Clients \ {c} : Engaged(d)' = Engaged(d) /\ Driving(d)' = Driving(d)
        /\ ~Engaged(c)' /\ ~Driving(c)'
    BY <2>3, <2>4 DEF Engaged, Driving
  <2>6. HandlersHoldGrants'
    BY <2>1, <2>2, <2>3, <2>5 DEF ServerInv, HandlersHoldGrants
  <2>7. OneSessionPerDevice'
    BY <2>3, <2>5 DEF ServerInv, OneSessionPerDevice
  <2>8. DrivenIsActive'
    <3> SUFFICES ASSUME NEW d \in Clients, d # c, Driving(d), conns[d].bus_id \in devices
                 PROVE  session_state'[conns[d].bus_id] = Active(conns[d].session_id)
      BY <2>1, <2>3, <2>5 DEF DrivenIsActive, Active
    <3>1. conns[d].session_id # s
      BY <2>2, <1>d DEF ServerInv, HandlersHoldGrants
    <3>2. session_state[conns[d].bus_id] = Active(conns[d].session_id)
      BY DEF ServerInv, DrivenIsActive
    <3>3. conns[d].bus_id \in BusIds
      BY <1>d, EngagedIsIssued
    <3>4. active_session[conns[d].bus_id] = conns[d].session_id
      BY <3>2, <3>3 DEF ServerInv, RegistryInv, SessionAgreement, Active, NoState
    <3>5. conns[d].bus_id = b => Foreign(b, s)
      BY <3>1, <3>4 DEF Foreign
    <3>6. session_state'[conns[d].bus_id] = session_state[conns[d].bus_id]
      BY <2>1, <3>3, <3>5, <1>c DEF release, Clear
    <3> QED
      BY <3>2, <3>6
  <2>9. OpenedIsUnbound' /\ BindsHaveDevice'
    BY <2>1, <2>3, <2>5 DEF ServerInv, OpenedIsUnbound, BindsHaveDevice
  <2> QED
    BY <2>6, <2>7, <2>8, <2>9
<1>4. ASSUME NEW k \in Binders, NEW b \in BusIds, bind_check(k, b)
      PROVE  Rest'
  BY <1>4, <1>c DEF bind_check, ServerInv, registryVars, HandlersHoldGrants, Engaged,
       BindsHaveDevice, OneSessionPerDevice, DrivenIsActive, Active, OpenedIsUnbound, Driving
<1>5. ASSUME NEW k \in Binders, bind_open(k)
      PROVE  Rest'
  <2>1. /\ binds[k].pc = "opening" /\ ~Claimed(binds[k].bus_id)
        /\ binds' = [binds EXCEPT ![k].pc = "opened"]
        /\ UNCHANGED <<registryVars, conns>>
    BY <1>5 DEF bind_open
  <2>2. binds'[k] = [pc |-> "opened", bus_id |-> binds[k].bus_id]
    BY <2>1, <1>c
  <2>3. /\ \A j \in Binders \ {k} : binds'[j] = binds[j] /\ binds'[j] # binds'[k]
        /\ binds[k].bus_id \notin devices
        /\ \A c \in Clients : Driving(c) => conns[c].bus_id # binds[k].bus_id
    BY <2>1, <2>2, <1>c DEF Claimed
  <2>4. OpenedIsUnbound'
    BY <2>1, <2>2, <2>3 DEF ServerInv, OpenedIsUnbound, Driving, registryVars
  <2>5. HandlersHoldGrants' /\ BindsHaveDevice' /\ OneSessionPerDevice' /\ DrivenIsActive'
    BY <2>1, <1>c DEF ServerInv, HandlersHoldGrants, Engaged, BindsHaveDevice,
                      OneSessionPerDevice, DrivenIsActive, Active, Driving, registryVars
  <2> QED
    BY <2>4, <2>5
<1>6. ASSUME NEW k \in Binders, bind_open_fails(k)
      PROVE  Rest'
  BY <1>6, <1>c DEF bind_open_fails, ServerInv, registryVars, HandlersHoldGrants, Engaged,
       BindsHaveDevice, OneSessionPerDevice, DrivenIsActive, Active, OpenedIsUnbound, Driving
<1>7. ASSUME NEW k \in Binders, bind_insert(k)
      PROVE  Rest'
  <2> DEFINE b == binds[k].bus_id
  <2>0. binds[k].pc = "opened" /\ b \notin devices
    BY <1>7 DEF bind_insert, ServerInv, OpenedIsUnbound
  <2>1. /\ binds' = [binds EXCEPT ![k] = [pc |-> "idle", bus_id |-> NoBus]]
        /\ devices' = devices \union {b}
        /\ session_state' = [session_state EXCEPT ![b] = NoState]
        /\ UNCHANGED <<conns, granted>>
    BY <1>7, <2>0 DEF bind_insert, bind_device_with, Clear
  <2>2. \A d \in Clients : Driving(d) => conns[d].bus_id # b
    BY <2>0 DEF ServerInv, OpenedIsUnbound
  <2>3. \A j \in Binders : binds[j].pc = "opened" /\ binds[j].bus_id = b => j = k
    <3> SUFFICES ASSUME NEW j \in Binders, binds[j].pc = "opened", binds[j].bus_id = b
                 PROVE  j = k
      OBVIOUS
    <3>1. binds[j] = binds[k]
      BY <1>c, <2>0
    <3> QED
      BY <2>0, <3>1 DEF ServerInv, OpenedIsUnbound
  <2>4. HandlersHoldGrants' /\ BindsHaveDevice' /\ OneSessionPerDevice'
    BY <2>1, <1>c DEF ServerInv, HandlersHoldGrants, Engaged, BindsHaveDevice,
                      OneSessionPerDevice, Driving
  <2>5. DrivenIsActive'
    BY <2>1, <2>2, <1>c DEF ServerInv, DrivenIsActive, Driving, Active
  <2>6. OpenedIsUnbound'
    BY <2>1, <2>3, <1>c DEF ServerInv, OpenedIsUnbound, Driving
  <2> QED
    BY <2>4, <2>5, <2>6
<1>8. ASSUME NEW b \in BusIds, handle_unbind_device(b)
      PROVE  Rest'
  <2>1. /\ UNCHANGED <<conns, binds, granted>> /\ devices' = devices \ {b}
        /\ session_state' = [session_state EXCEPT ![b] = NoState]
    BY <1>8 DEF handle_unbind_device, unbind_device, serverOnlyVars, Clear
  <2>2. HandlersHoldGrants' /\ BindsHaveDevice' /\ OneSessionPerDevice' /\ OpenedIsUnbound'
    BY <2>1 DEF ServerInv, HandlersHoldGrants, Engaged, BindsHaveDevice,
                OneSessionPerDevice, OpenedIsUnbound, Driving
  <2>3. DrivenIsActive'
    BY <2>1, <1>c DEF ServerInv, DrivenIsActive, Driving, Active
  <2> QED
    BY <2>2, <2>3
<1>9. ASSUME RegistryTask
      PROVE  Rest'
  <2>1. UNCHANGED <<devices, conns, binds, granted>>
    BY <1>9 DEF RegistryTask, serverOnlyVars, expire_disconnected_session, Tick
  <2>2. HandlersHoldGrants' /\ BindsHaveDevice' /\ OneSessionPerDevice' /\ OpenedIsUnbound'
    BY <2>1 DEF ServerInv, HandlersHoldGrants, Engaged, BindsHaveDevice,
                OneSessionPerDevice, OpenedIsUnbound, Driving
  <2>3. DrivenIsActive'
    <3> SUFFICES ASSUME NEW d \in Clients, Driving(d), conns[d].bus_id \in devices
                 PROVE  session_state'[conns[d].bus_id] = Active(conns[d].session_id)
      BY <2>1 DEF DrivenIsActive, Active, Driving
    <3>1. session_state[conns[d].bus_id] = Active(conns[d].session_id)
      BY DEF ServerInv, DrivenIsActive
    <3>2. ~InGrace(conns[d].bus_id)
      BY DrivenIsNotAcquirable
    <3>3. session_state'[conns[d].bus_id] = session_state[conns[d].bus_id]
      <4>1. CASE Tick
        BY <4>1 DEF Tick
      <4>2. ASSUME NEW t \in timers, expire_disconnected_session(t)
            PROVE  session_state'[conns[d].bus_id] = session_state[conns[d].bus_id]
        <5>1. CASE session_state' = session_state
          BY <5>1
        <5>2. CASE session_state' # session_state
          <6>1. /\ InGrace(t.bus_id)
                /\ session_state' = [session_state EXCEPT ![t.bus_id] = NoState]
            BY <4>2, <5>2 DEF expire_disconnected_session, Clear
          <6>2. t.bus_id # conns[d].bus_id
            BY <3>2, <6>1
          <6> QED
            BY <6>1, <6>2, <1>c
        <5> QED
          BY <5>1, <5>2
      <4> QED
        BY <1>9, <4>1, <4>2 DEF RegistryTask
    <3> QED
      BY <3>1, <3>3
  <2> QED
    BY <2>2, <2>3
<1>10. ASSUME NEW l \in lingering, transfer_returns(l)
       PROVE  Rest'
  BY <1>10 DEF transfer_returns, ServerInv, registryVars, HandlersHoldGrants, Engaged,
       BindsHaveDevice, OneSessionPerDevice, DrivenIsActive, Active, OpenedIsUnbound, Driving
<1>11. ASSUME UNCHANGED serverVars
       PROVE  Rest'
  BY <1>11 DEF serverVars, serverOnlyVars, ServerInv, registryVars, HandlersHoldGrants, Engaged,
       BindsHaveDevice, OneSessionPerDevice, DrivenIsActive, Active, OpenedIsUnbound, Driving
<1> QED
  BY <1>a, <1>b, <1>1, <1>2, <1>3, <1>4, <1>5, <1>6, <1>7, <1>8, <1>9, <1>10, <1>11
     DEF ServerNext, ServerInv

\* The inductive invariant of the server holds in every reachable state.
THEOREM ServerInvCorrect == ServerSpec => []ServerInv
  BY ServerInitInv, ServerInvStep, PTL DEF ServerSpec

-----------------------------------------------------------------------------
\* Two clients never drive the same device, across unbinding and rebinding.
THEOREM OneSessionPerDeviceHolds == ServerSpec => []OneSessionPerDevice
<1>1. ServerInv => OneSessionPerDevice
  BY DEF ServerInv
<1> QED
  BY <1>1, ServerInvCorrect, PTL

\* The entry of an exported device that a handler drives is Active for exactly
\* its session.
THEOREM DrivenIsActiveHolds == ServerSpec => []DrivenIsActive
<1>1. ServerInv => DrivenIsActive
  BY DEF ServerInv
<1> QED
  BY <1>1, ServerInvCorrect, PTL

\* A bind that has opened a device is alone with it until it inserts it.
THEOREM OpenedIsUnboundHolds == ServerSpec => []OpenedIsUnbound
<1>1. ServerInv => OpenedIsUnbound
  BY DEF ServerInv
<1> QED
  BY <1>1, ServerInvCorrect, PTL

\* The server's variables keep their types.
THEOREM ServerTypeCorrect == ServerSpec => []ServerTypeOK
<1>1. ServerInv => ServerTypeOK
  BY DEF ServerInv
<1> QED
  BY <1>1, ServerInvCorrect, PTL

\* The server uses the registry as ExportRegistry specifies it, so what is proved
\* of the registry holds in the server.
THEOREM UsesRegistryHolds == ServerSpec => UsesRegistry
<1>1. ServerInit => Init
  BY DEF ServerInit
<1> QED
  BY <1>1, ServerInvCorrect, ServerStepIsRegistryStep, PTL DEF ServerSpec, UsesRegistry, Spec

\* In the running server, too, every exported device has the lease DeviceLease
\* describes.
THEOREM ServerImplementsLease == ServerSpec => LeaseSpec
  BY UsesRegistryHolds, ImplementsLease, PTL DEF UsesRegistry
=============================================================================
