------------------------------ MODULE UsbServer ------------------------------
(***************************************************************************)
(* The USB/IP server around the export registry: the connection handlers   *)
(* of connection.rs, one per client and running concurrently, the binding  *)
(* and unbinding of devices on behalf of API clients, and the ownership of *)
(* the claimed device handle (an Arc<ManagedDevice> shared by the registry *)
(* entry, a bind in progress, the connections and the transfers that are   *)
(* still inside libusb).  The forwarding of URBs is UrbSession; here a     *)
(* session only begins and ends.                                           *)
(***************************************************************************)
EXTENDS ExportRegistry

CONSTANTS Clients,   \* client hosts, each with at most one connection
          Binders,   \* API calls of bind_device that may be in progress
          NoBus      \* the bus id of a handler that has none yet

ASSUME NoBusAssumption == NoBus \notin BusIds

VARIABLES conns,     \* conns[c]: the handler of c's connection; once closed, its
                     \* bus_id and session_id are those of c's last session
          binds,     \* binds[k]: a call of bind_device
          lingering  \* <<b, s>>: a blocking transfer of session s is still
                     \* running on device b although the session is over

serverOnlyVars == <<conns, binds, lingering>>
serverVars == <<registryVars, serverOnlyVars>>

-----------------------------------------------------------------------------
\* The handler of c owns a clone of the device handle.
Driving(c) == conns[c].pc \in {"replying", "urb"}

\* Some clone of the handle of device b is alive: its interfaces are claimed,
\* and the operating system refuses another claim.  Told apart by bus id: a
\* different device plugged in at the same port meanwhile is not covered.
Claimed(b) ==
    \/ b \in devices
    \/ \E k \in Binders : binds[k] = [pc |-> "opened", bus_id |-> b]
    \/ \E c \in Clients : Driving(c) /\ conns[c].bus_id = b
    \/ \E l \in lingering : l[1] = b

ServerInit ==
    /\ Init
    /\ conns = [c \in Clients |->
                   [pc |-> "closed", bus_id |-> NoBus, session_id |-> NoSession]]
    /\ binds = [k \in Binders |-> [pc |-> "idle", bus_id |-> NoBus]]
    /\ lingering = {}

-----------------------------------------------------------------------------
\* Connection handlers.
MoveTo(c, pc) == conns' = [conns EXCEPT ![c].pc = pc]

accept_loop(c) ==
    /\ conns[c].pc = "closed"
    /\ MoveTo(c, "reading")
    /\ UNCHANGED <<registryVars, binds, lingering>>

\* The first message does not come within 10 seconds, cannot be decoded, asks
\* for the device list, names a malformed bus id or is none of the requests.
handle_without_import(c) ==
    /\ conns[c].pc = "reading"
    /\ MoveTo(c, "closed")
    /\ UNCHANGED <<registryVars, binds, lingering>>

handle_import(c, b) ==
    /\ conns[c].pc = "reading"
    /\ try_acquire_ext(b)
    /\ conns' = [conns EXCEPT ![c] = [pc |-> "replying", bus_id |-> b,
                                      session_id |-> next_session_id]]
    /\ UNCHANGED <<binds, lingering>>

import_rejected(c, b) ==
    /\ conns[c].pc = "reading"
    /\ ~Acquirable(b)
    /\ MoveTo(c, "closed")
    /\ UNCHANGED <<registryVars, binds, lingering>>

import_replied(c) ==
    /\ conns[c].pc = "replying"
    /\ MoveTo(c, "urb")
    /\ UNCHANGED <<registryVars, binds, lingering>>

\* write_op_message fails: handle_import returns the error, its caller logs it,
\* the clone of the handle is dropped and release is not called.
import_reply_fails(c) ==
    /\ conns[c].pc = "replying"
    /\ MoveTo(c, "closed")
    /\ UNCHANGED <<registryVars, binds, lingering>>

\* DeviceSession::run returns and drops its handle.  Blocking transfers that
\* were cancelled may still be running, with clones of their own.
session_over(c) ==
    /\ conns[c].pc = "urb"
    /\ MoveTo(c, "releasing")
    /\ \/ UNCHANGED lingering
       \/ lingering' = lingering \union {<<conns[c].bus_id, conns[c].session_id>>}
    /\ UNCHANGED <<registryVars, binds>>

transfer_returns(l) ==
    /\ lingering' = lingering \ {l}
    /\ UNCHANGED <<registryVars, conns, binds>>

\* Mutated forms of release_session: release may be called again; it is not
\* called at all.
release_session_Again(c) ==
    /\ conns[c].pc = "releasing"
    /\ release(conns[c].bus_id, conns[c].session_id)
    /\ UNCHANGED serverOnlyVars
release_session_Skipped(c) ==
    /\ conns[c].pc = "releasing"
    /\ MoveTo(c, "closed")
    /\ UNCHANGED <<registryVars, binds, lingering>>

release_session(c) ==
    /\ conns[c].pc = "releasing"
    /\ release(conns[c].bus_id, conns[c].session_id)
    /\ MoveTo(c, "closed")
    /\ UNCHANGED <<binds, lingering>>

-----------------------------------------------------------------------------
\* bind_device: check under the read lock, open without a lock, insert under
\* the write lock.
bind_check(k, b) ==
    /\ binds[k].pc = "idle"
    /\ b \notin devices
    /\ binds' = [binds EXCEPT ![k] = [pc |-> "opening", bus_id |-> b]]
    /\ UNCHANGED <<registryVars, conns, lingering>>

\* Mutated form of bind_open: the interfaces are not claimed.
bind_open_NoClaim(k) ==
    /\ binds[k].pc = "opening"
    /\ binds' = [binds EXCEPT ![k].pc = "opened"]
    /\ UNCHANGED <<registryVars, conns, lingering>>

bind_open(k) ==
    /\ binds[k].pc = "opening"
    /\ ~Claimed(binds[k].bus_id)
    /\ binds' = [binds EXCEPT ![k].pc = "opened"]
    /\ UNCHANGED <<registryVars, conns, lingering>>

\* The device is gone, is claimed, or cannot be opened.
bind_open_fails(k) ==
    /\ binds[k].pc = "opening"
    /\ binds' = [binds EXCEPT ![k] = [pc |-> "idle", bus_id |-> NoBus]]
    /\ UNCHANGED <<registryVars, conns, lingering>>

bind_insert(k) ==
    /\ binds[k].pc = "opened"
    /\ binds' = [binds EXCEPT ![k] = [pc |-> "idle", bus_id |-> NoBus]]
    /\ IF binds[k].bus_id \in devices
       THEN UNCHANGED registryVars
       ELSE bind_device_with(binds[k].bus_id)
    /\ UNCHANGED <<conns, lingering>>

\* The API handler of unbind_device: it reports the returned session to its
\* caller and does nothing about it.
handle_unbind_device(b) ==
    /\ unbind_device(b)
    /\ UNCHANGED serverOnlyVars

\* Steps of the registry's own tasks.
RegistryTask ==
    /\ (\E t \in timers : expire_disconnected_session(t)) \/ Tick
    /\ UNCHANGED serverOnlyVars

-----------------------------------------------------------------------------
ServerNext ==
    \/ \E c \in Clients :
          \/ accept_loop(c) \/ handle_without_import(c)
          \/ \E b \in BusIds : handle_import(c, b) \/ import_rejected(c, b)
          \/ import_replied(c) \/ import_reply_fails(c)
          \/ session_over(c) \/ release_session(c)
    \/ \E l \in lingering : transfer_returns(l)
    \/ \E k \in Binders :
          \/ \E b \in BusIds : bind_check(k, b)
          \/ bind_open(k) \/ bind_open_fails(k) \/ bind_insert(k)
    \/ \E b \in BusIds : handle_unbind_device(b)
    \/ RegistryTask

\* tokio runs every task that can run: a handler whose session is over reaches
\* release, sleeping tasks wake up, and time passes.
ServerFairness ==
    /\ \A c \in Clients : WF_serverVars(release_session(c))
    /\ WF_serverVars(Tick /\ UNCHANGED serverOnlyVars)
    /\ \A b \in BusIds, s \in 1..MaxSession :
          WF_serverVars(/\ \E t \in timers : /\ t.bus_id = b /\ t.session_id = s
                                             /\ expire_disconnected_session(t)
                        /\ UNCHANGED serverOnlyVars)

ServerSpec == ServerInit /\ [][ServerNext]_serverVars
FairServerSpec == ServerSpec /\ ServerFairness

-----------------------------------------------------------------------------
ServerTypeOK ==
    /\ conns \in [Clients ->
                    [pc : {"closed", "reading", "replying", "urb", "releasing"},
                     bus_id : BusIds \union {NoBus}, session_id : Nat]]
    /\ binds \in [Binders -> [pc : {"idle", "opening", "opened"},
                              bus_id : BusIds \union {NoBus}]]
    /\ lingering \subseteq BusIds \X SessionId

\* Two clients never drive the same physical device: neither two imports of one
\* entry, nor an import that outlived an unbind next to one of the entry that a
\* later bind created.
OneSessionPerDevice ==
    \A c, d \in Clients :
        Driving(c) /\ Driving(d) /\ conns[c].bus_id = conns[d].bus_id => c = d

\* As long as a handler drives a device that is exported, the entry says so: no
\* late release of an earlier session, no late expiry and no rebinding clears or
\* reassigns the entry underneath the running session.
DrivenIsActive ==
    \A c \in Clients :
        Driving(c) /\ conns[c].bus_id \in devices
            => session_state[conns[c].bus_id] = Active(conns[c].session_id)

\* A bind that has opened the device finds it unexported when it gets the write
\* lock: the exclusive claim, not the second look-up of bind_device, is what
\* keeps two concurrent binds from both succeeding.
OpenedIsUnbound ==
    \A k \in Binders :
        binds[k].pc = "opened" =>
            /\ binds[k].bus_id \notin devices
            /\ \A c \in Clients : Driving(c) => conns[c].bus_id # binds[k].bus_id
            /\ \A j \in Binders : binds[j] = binds[k] => j = k

\* Seen from the registry, the handlers are callers as ExportRegistry expects
\* them: each gives back only what it was granted, at most once, and everything
\* ExportRegistry promises therefore holds in the running server.
UsesRegistry == Spec

\* Once its session is over, a device is not recorded as in use by it for ever.
EndedSessionIsForgotten ==
    \A c \in Clients, b \in BusIds, s \in 1..MaxSession :
        (conns[c] = [pc |-> "releasing", bus_id |-> b, session_id |-> s])
            ~> (active_session[b] # s)

-----------------------------------------------------------------------------
\* export.rs:30 on SessionState::Active: "A client is actively connected."  An
\* entry in state Active has a handler that works for its session.
ActiveHasClient ==
    \A b \in devices : session_state[b].tag = "Active" =>
        \E c \in Clients :
            /\ conns[c].pc \in {"replying", "urb", "releasing"}
            /\ conns[c].session_id = session_state[b].session_id
=============================================================================
