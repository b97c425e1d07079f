# TLA+ models of Extender

Extender shares USB devices over the network with the USB/IP protocol. A server
exports local devices, clients import them or drive them directly, and a daemon
with a JSON-RPC API controls both. This directory holds TLA+ specifications of
the parts that have state, TLC configurations that check them on small
instances, and proofs that TLAPS checks for every instance.

`PROJECT.json` lists the components, the runs, the lines of code each
definition models, the hazards, the findings and the theorems.

## The system and its parts

| Part | Code | Model |
|---|---|---|
| Export registry | `extender-server/src/export.rs` | `ExportRegistry`, `DeviceLease` |
| Connections, binding, device handle | `connection.rs`, `engine.rs`, `handle.rs` of the server | `UsbServer`; the bytes of the first message in `ClassClient` |
| URB session | `extender-server/src/session.rs` | `UrbSession`; what each kind of URB does in `ClassClient` |
| Transfers | `extender-server/src/transfer.rs`, `error.rs` | `ClassClient` (control, bulk); begin and end in `UrbSession` |
| Messages | `extender-protocol` | `UrbWire`, `OpWire` |
| Client engine and reconnection | `engine.rs`, `vhci*.rs`, `reconnect.rs` of the client | `ClientEngine`; macOS: `MacAttach`, `UrbForward` |
| Class clients | `mass_storage.rs`, `hid.rs`, `serial.rs`, `network.rs`, `audio.rs`, `remote.rs` | one module each, composed with the server in `ClassClient` |
| Discovery | `extender-client/src/discover.rs` | `Discover` |
| Daemon, API server, mDNS, signals | `extender-daemon`, `extender-api` | `Daemon` |
| Configuration and access list | `config.rs`, `device_acl.rs` | `DaemonConfig` |
| Command line | `extender-cli` | connecting, one call and discovery in `Daemon` |
| Driver extension | `extender-macos/ExtenderDriver` | `VirtualStorage`, `VirtualHID`, `UrbForward`, `PendingQueue`, `MacAttach` |

How they interact: the API asks the registry to bind a device, which claims it.
A connection handler acquires the device from the registry, answers the client,
runs a URB session on the connection, and releases the device, which stays
reserved for a grace period that an expiry task ends. At the other end of the
connection is a kernel that was handed the socket by the client engine, a class
client, or the forwarding loop of the macOS driver. The daemon runs the server
and the API, and meets other daemons at its PID file, its socket and its port.

## Modules

### Server

**`DeviceLease`** is the abstract promise: per bus id a lease that is withdrawn,
free, held or reserved, with numbers that are never used twice.

**`ExportRegistry`** models `export.rs`. `devices`, `active_session`,
`session_state` and `next_session_id` are the fields of the same names; `timers`
is the set of sleeping expiry tasks, `clock` is `Instant::now()`. Each operation
holds the write lock for its whole body and is one action. `granted` is a history
variable: the sessions whose caller has not yet called `release`. `Next` lets any
caller do anything, except give back what it was not granted. The `?` on
`to_protocol_device` in `try_acquire_ext` has no failing case in the model: it
fails only for bus ids of 32 bytes and more, and `format_bus_id` produces at most
31. `clock` is only compared with deadlines of sleeping tasks, so `Tick` is
enabled only while one of them lies ahead; this keeps the state space finite
without a bound on time.

**`UsbServer`** extends it with the tasks around the registry. `conns[c]` is the
handler of one connection, `binds[k]` a call of `bind_device` (check, open,
insert), `lingering` the blocking transfers that outlive their session.
`Claimed(b)` says that some clone of the handle is alive; the operating system
refuses a second claim. Claims are told apart by bus id: another device that is
plugged in at the same port while a clone of the old handle lives, and which could
be claimed, is not covered. Reading the first message has a nondeterministic
outcome.

**`UrbSession`** models `DeviceSession::run`: the reader (`reader`, `fresh`,
`response`), the tasks (`task`, `usb`, `in_flight`, `aborted`), and the channel
with its writer (`channel`, `writer`, `writing`, `wire`). Spawning a task and
recording it are two steps. An aborted task is dropped at a pending await, while
one that is being polled runs on to its next one, so `abort` does not stop a task
that is about to send. A transfer runs on a blocking thread and always runs to
its end. Messages are abstracted to their kind, the URB they are about, and the
status of a `RetUnlink`.

### Messages and class clients

**`UrbWire`** and **`OpWire`** are the encoders and decoders. One direction of a
connection is a sequence of words, each standing for a group of fields that is
always written and read together, or for one item of a buffer. What is kept is
which field decides how many words follow, and every check on the way: both
families of decoders (`codec.rs` and the `decode` methods), the direction that
decides whether data follows, isochronous packets, the limits on lengths and
counts. Byte order is left out, and so is the width of the length in a header:
no buffer of 4 GiB is considered.

**`MassStorageClient`**, **`HidClient`**, **`SerialClient`**, **`NetworkClient`**
and **`AudioClient`** give, for each class, the fields of the client, the steps
of every call (each step sends one `CmdSubmit` and waits for its answer), what a
reply changes, and the device (external, from how the client uses it). Sequence
numbers, tags, block addresses, block counts, transfer lengths, the lengths in an
NCM block and the bytes of a sample rate keep their wrap-around, with a small
modulus. A storage device may answer with less than it was asked for and still
report success.

**`ClassClient`** composes one client with the server end of its connection:
first message, import, session, one request after the other. Any transfer can
fail, fall short, or be performed and reported as failed. A bulk IN transfer that
fails may take its input with it, and one whose buffer is too small for the packet
always does (`lost` of the device). The connection can be cut anywhere, also inside
a message. A `"kernel"` client sends requests with
every mixture of header direction, setup direction, lengths and packets.

### Client engine

**`ClientEngine`** models attach, detach and listing on Linux and Windows and
`attach_with_reconnect`. The port table belongs to the kernel: an engine sees it
only by reading the status file, so a port found free may be taken when it is
written. `lease[d]` says who holds the server's session for a device: a task, a
port, a closed connection the server has not noticed yet (`"closed"`), one it will
not notice (`"leaked"`), or nobody. A lease leaks when the import reply cannot be
written (`connection.rs:143`, see the findings) or when a client vanishes silently,
since the session reads without a timeout (`session.rs:132`). A server may also
leave a request unanswered on an open connection. Reservations are not told apart
from free devices, since the server lets any client resume one. A `registry`
belongs to an engine.

**`MacAttach`** models `attach_device_macos` against the device table of
`ExtenderUserClient.cpp`, with the sizes of the code. The calls of the user client
run one at a time in the driver; requests interleave between them. As the
findings say, no attach gets as far as starting the forwarding loop at present;
`UrbForward` describes the loop and the devices for when one does.

**`UrbForward`** models the way of a request out of a virtual device of the macOS
driver extension: the ring both device classes keep (`pending`, `pendingHead`,
`pendingTail`, `pendingCount`) and `urb_forward_loop`, with `waiting` the request
ids of its map. The loop runs `read_urb_message` in a `select!` with a timer;
`stream` says whether a message is partly consumed, and a tick in that moment
leaves the stream misaligned. `lost` holds the ids whose driver call failed: a
`get_pending_output` that fails after the driver dequeued the request
(`engine.rs:711`), and a `complete_request` that fails after the id was taken out of
the map (`engine.rs:675`) are warned of, and the loop goes on. Sequence numbers are left out: each stands for one
request until its response is read, and a 32 bit counter does not come round in
between. **`VirtualStorage`** adds the storage device, whose requests carry ids of
the operating system that are reused, and **`VirtualHID`** the HID device, which
draws ids from a counter that wraps around at `IdModulus`; its initial states
include an idle device whose counter is about to wrap. **`PendingQueue`** is the
first-in-first-out queue the ring implements. `MCMacClient` puts the three
together; they share no state, so an instance explores one of them.

### Daemon

**`Daemon`** models processes that start, serve, are told to stop and crash.
Each system call on the PID file and the API socket is a step and may fail; pids
are reused. Removing the PID file or the socket may fail without consequence for
the daemon, and the files stay. `is_process_running` is `kill(pid, 0)`, which is
also an error for a process of another user. `overlooked` is a history variable: a
start took a running daemon for gone, because it could not read the PID file or was
not permitted to signal the process. The Unix build is modelled. A request that
asks another server may wait for ever.
API connections have a task each, whose requests go through `dispatch`. The
handlers for bind and unbind are modelled with their effect, the two lookups of a
bind as two steps. Attach, detach, the lists and the status change nothing in the
daemon and are modelled by the answers they can give; attach and detach
themselves are in `ClientEngine`. **`DaemonConfig`** has the layers of the
configuration and the patterns of the access list, **`Discover`** the sorting and
removal of duplicates on both platforms; a line of `dns-sd` counts as the record
whose type occurs anywhere in it, also within a name. `Daemon` takes the two browses as the
constants `DiscoverLinux` and `DiscoverMacos`, which the configurations set to the
operators of `Discover`: what is proved about the daemon holds whatever a browse
returns.

Operators whose comment begins with "Mutated form" describe plausible errors in
the code. They are used by no specification; substituted for the definition they
belong to, they show that each property can fail.

## Runs

| Run | Instance | What it shows |
|---|---|---|
| `registry` | 2 devices, 3 sessions, grace period of 2 ticks | reservations are kept until their deadline and end, late releases and expiries take nothing from a later session, refinement of `DeviceLease` |
| `server` | 1 device, 2 clients, 2 binds, 3 sessions | one driver per device, driven entries stay active, binds exclude each other, an ended session is forgotten, refinement of `ExportRegistry` |
| `session` | 2 URBs, 2 unlinks, channel of 1 | consistent answers, complete cleanup, `run()` returns, URBs are answered |
| `clients` | each class with the calls of `MCClassClient` | streams keep their framing, replies answer their own request, both decoders agree, settings, reads, frames and lists are what the device or server has, no mutual wait |
| `import` | 2 tasks, 3 devices, a port of each hub, both platforms | a session the server holds is in use, closed or leaked with its connection, listings name the right device, retries follow their policy and succeed unless they are kept out |
| `macos` | storage: 4 ids, ring and table of 3; HID: ids modulo 6, 5 requests; 3 attaches of 6 devices | ring, table and loop agree on every request but those whose driver call failed, the ring refines `PendingQueue`, the other I/Os complete, failed attaches leave nothing behind |
| `daemon` | 2 pids, 2 starts that do not overlap, 1 crash or fault, 1 connection with 2 calls | one daemon at a time and its socket its own unless a start overlooked it, access list, discovery, requests and shutdowns end |
| `server_reply`, `session_unlink`, `storage_drain`, `mac_attach_import`, `daemon_pid` | small instances of the same models | disagreements between the code and its documentation, below |

Bounds. Every interaction the properties of the registry speak of involves at
most two sessions of a bus id and a third that is new, hence three session ids. A
grace period of two ticks lets a timer of an earlier session come due in the
middle of a later reservation; that a timeout of zero is right too rests on the
theorems, which hold for every timeout. Two clients and two binds give every
pairwise race on one device; different devices share only the session counter,
which `registry` covers with two. A channel of one place is full as soon as one
response is waiting, and with two URBs the second finds the writer and the
channel occupied; the theorems cover any number. The moduli of `clients` are
small enough that sequence numbers and tags wrap around within the calls of a
client, and the calls have a block address, block counts, a transfer length, a
sample rate and a frame just at or beyond what their fields hold. The limits are
such that messages at the limit and one beyond it are sent, and a write of more
samples than its packets take. Two ports, one per hub, and two devices for one of
them make two attaches compete for a port and two tasks for a device. A ring as
small as the table is the tightest the code's assumption (16 slots, 64 places)
allows, and one more request id than slots makes the table full. Two starts and
one fault let a daemon meet what another left behind at every step. API requests
are made after the last start has begun: they do not touch the files a start looks
at. In `daemon`
no process begins to start while another is between its look at the PID file and
writing it (`ConcurrentStarts`); `daemon_pid` lifts this and shows what then goes
wrong.

Fairness. tokio polls every task that can run, so handlers, tasks, the writer and
woken timers get weak fairness, and so do the calls of the client engine
and the connection tasks of the API server. A daemon process that can go on does.
Time passes. A transfer has a timeout and ends. A write to the client succeeds or
fails. Both ends of a closed connection notice it eventually, a port becomes free
and a session ends, except for a lease that leaked. A request to a server that
stays silent on an open connection is not assumed to end: `hangup` and the answers
of a remote server have no fairness, and `ReconnectSucceeds` and `RequestsEnd` except
them. The timer of the forwarding loop keeps ticking, and the server
answers what it is sent (`SubmitIsAnswered`), which the loop reads while its
stream is aligned. Nothing is assumed about what a client sends, or that it sends
at all: a connection whose client is silently gone never ends, because the code
has no timeout on reading. Failures are bounded in number in the runs of the
client engine and the daemon (`MaxFaults`), so `ReconnectSucceeds` speaks of a
client whose calls fail finitely often, and excepts a device whose lease leaked or
is held by another import, and a hub without a free port.

`CHECK_DEADLOCK FALSE` stands where the system may stop: a class client has made
its calls, the tasks of an engine have returned, a forwarding task has exited, a
daemon has ended.

## Findings

* **A failed import reply leaks the device** (`server_reply`).
  `connection.rs:143` returns on a failed write after the device was acquired,
  and nothing releases it. The entry stays `Active` with no client and no timer.
* **A completed URB can be reported as cancelled** (`session_unlink`). The task
  leaves the in-flight map after it sent its `RetSubmit`, and can be recorded
  after it has finished.
* **A timer tick can cut a response in two** (`storage_drain`). `read_urb_message`
  is not safe to drop between its reads, and the `select!` at `engine.rs:649` drops
  it whenever the timer fires first.
* **The driver refuses every import** (`mac_attach_import`). The device id
  `busnum << 16 | devnum` is below 32 only for bus 0, and the 18 byte descriptor
  is shorter than the structure the driver expects.
* **Two daemons that start together both run** (`daemon_pid`). The PID file is
  created and written in two steps; a start in between takes the empty file for
  a stale one and removes it.

Behaviours that the models include, or that were met while reading, and that no
property forbids:

* Unbinding a device in use leaves its interfaces claimed until the session and
  its transfers drop their clones of the handle (`export.rs:170`). Aborting a task
  does not stop the transfer on its blocking thread (`session.rs:328`).
* Any client may resume a reserved device: `export.rs:245` compares a bus id with
  itself.
* The access list is asked about the device that a bind sees first; the registry
  looks the bus id up again. `ExportsAllowed` excepts a device that was plugged in
  between.
* A start that may not signal the running daemon, because it belongs to another
  user, takes its PID file for a stale one and removes it. The comment at
  `privileges.rs:107` says that the signal "tells us whether the process exists";
  `EPERM` does not. `OneDaemon` and `SocketIsServed` except this with `overlooked`.
  Off Unix `is_process_running` is always false.
* A daemon whose removals of the PID file or the socket fail, as after dropping
  privileges, leaves them behind with a warning (`privileges.rs:88`) or without one
  (`api_server.rs:101`). The socket also stays when its permissions cannot be set
  (`api_server.rs:71`). A later start deals with both.
* A server that cannot write its import reply, or whose client vanished silently,
  keeps the device for it, and no reconnection gets it back. The comment at
  `reconnect.rs:102` also promises a retry "if the session drops"; the function
  returns after the first success and watches no session.
* With an engine that several tasks share, `OwnImportsListed` does not hold: a
  detach removes the registry entry after it freed the port, and can erase that of
  a newer attach. The daemon makes an engine per request, whose registry is empty,
  so its listings have no bus ids, and `get_status` always counts no imports.
* A write that the device took in part is reported as whole by `serial.rs`,
  `mass_storage.rs` (`write_blocks`) and `audio.rs`. `FrameReachesDevice` speaks of
  frames that were taken whole.
* A device list longer than 256 is written without a check, and refused as a whole
  by the reader.
* Values that their fields do not hold are cut without an error. A block address of
  2^32 and more reads the block at that address modulo 2^32 (`mass_storage.rs:412`).
  A rate of 2^24 and more is sent cut and cached uncut (`audio.rs:327`). The lengths
  in an NCM block are 16 bit sums of a frame length that is not checked
  (`network.rs:254`; with overflow checks the sum panics).
  `ReadIsRequested`, `SettingsAgree` and `FrameReachesDevice` say what holds then.
* A short answer to READ CAPACITY whose status is good leaves the geometry unknown,
  with `Ok` (`mass_storage.rs:384`); reads then ask for blocks of size zero.
* Input of a serial or HID device is lost when it comes in a packet longer than
  the buffer of the read, or in a transfer that fails. `InputInOrder` says that
  nothing else is.
* In `audio.rs` the setup bytes of volume and mute differ from the comment above them.
  `execute_interrupt_transfer`, `update_device_count` and `attach_with_reconnect`
  are called by nothing in the repository; the last retries errors that cannot go
  away until its attempts are used up.
* The daemon drops privileges before it binds its port. A user configuration file
  replaces the system one as a whole, so that a deny list in the system file is void
  once the user has a file without one. The comments differ on this: "overwrites all
  fields present in the file" (`config.rs:201`) and "if a TOML section is present"
  (`config.rs:232`), but "we just overwrite everything from the user config"
  (`config.rs:239`), which is what the code does. `ExportsAllowed` is about the lists
  that are in force. A file named on the command line also leaves the environment
  out. A daemon whose API socket cannot be bound runs on
  without one until a signal comes. A PID file that holds the pid of the starting
  process itself, reused, keeps it from starting.
* `dns-sd` lines of a service with "SRV" in its name are taken for SRV records
  (`discover.rs:92`), so it is not shown, or without its devices; `DiscoveredOnce`
  does not claim that it is.

## Proofs

TLAPS proves the theorems of eight modules. They assume no more than the named
assumptions on the constants: timeouts, delays and bounds are naturals, capacities
are positive, names that stand for "none" are not names of devices, tasks or
ports, and a place for a configuration file holds at most one file
(`SourcesAssumption`). `DoublingAssumption` of `ClientEngine` is of another kind: it
states the law of exponentiation that `delay_for_attempt` rests on, which none of
the provers knows; TLC evaluates it up to the bound of the instance.

**`ExportRegistryProofs`.** The inductive invariant `RegistryInv` is the
conjunction of the type invariant, the state properties of the registry
(`SessionAgreement`, `SessionsUnique`, `ReservationHasTimer`, `HeldStaysActive`)
and `IdsIssued`: every id that is recorded, granted or kept by a timer is below
the counter. Without it a new session could have the id of an old timer, and none
of the other conjuncts would be preserved by `try_acquire_ext`. From it follow the
state properties, the action properties `GraceIsKept` and `NoTakeover`, and
`ImplementsLease`: every step of the registry is a step of one lease or none.

**`UsbServerProofs`.** `ServerStepIsRegistryStep` shows that every step of the
server is a step of the registry or leaves it alone, so `RegistryInv` carries
over. `ServerInv` adds that a handler holds the grant it is going to release, no
two hold the same (`HandlersHoldGrants`), and that a bind in progress names a
device (`BindsHaveDevice`). With these, `OneSessionPerDevice`, `DrivenIsActive`
and `OpenedIsUnbound` are inductive together: the exclusive claim excludes a
rebind while a session drives the device, and session ids keep late releases
away from later sessions. `ServerImplementsLease` composes both refinements.

**`UrbSessionProofs`.** `SessionInv` is the type invariant, `EveryTaskTracked`,
`CleanupIsComplete` and `ReaderState`, which says that only a reader that is about
to record a task has one unrecorded. That is why the cleanup misses none.
The order of responses is a property of one sequence: what
is on the wire, what the writer holds, and what waits in the channel. `ResponseInv`
says that its answers come from tasks that have sent them, that every such answer
is in it while the writer lives, and that no URB is answered twice in it; that
the hands of reader and writer are empty when they should be; and that a
prepared "not found" follows the answer it is about. From it follow
`NotFoundIsAnswered`, `AtMostOneReturn` and `NoUrbForgotten`, for any number of
URBs, unlinks and places in the channel.

**`WireProofs`.** Facts about the encoders and decoders, for any limits and any
messages, by arithmetic on where the parts of a message lie in the stream. A message
`Fits` when its length and packet count are within the limits and it carries the
buffer and the packets they announce, a buffer only in the direction that has one.
Of such a message `MessageIsReadBack` says that it is read back, and that the reader
then stands at the next one; `PartIsAwaited`, that every proper part of it leaves
the reader waiting. The condition cannot be dropped: the encoders write the buffer
they are given, and `MisfitShiftsStream` says by how many words a message that does
not fit leaves the reader beside the next one. That requests and replies fit is what
the run `clients` checks with `StreamsQuiet`. `DecodersReadTheSame` is
`DecodersAgree` for every stream instead of the reachable ones, and
`ImportReplyIsReadBack` covers the passage from the discovery phase to URBs.

**`ClientEngineProofs`.** `PortInv` is the type invariant, `LeaseIsUsed`,
`HubMatchesSpeed`, and that a port found for a device matches its speed until it
is written. Its step is one lemma per group of actions; `FirstOfIn` shows that the
search through the ports finds one of them.

**`ClientCallProofs`.** `RetryInv` says of every call that its attempts are counted
as far as its policy allows, that it sleeps only when it may retry, that it gave up
for the reason the policy has, and that its last delay is at most the one its
attempt calls for. The last is what makes "delays never shrink" provable:
`DelayGrows` shows that the delay of the next attempt, with another jitter, is not
shorter, because doubling outweighs the jitter until the cap is reached and the cap
is applied after the jitter. From it follows `RetriesAsConfigured`, for every
policy. `ListInv` says, for every task, that the entries of its engine for the
ports it plugged are right or about to be written, that a detach which is about to
remove an entry does not meet a port the same task uses, and that what a listing
saw has not changed when it is looked up. The last needs that no two tasks share an
engine, which is the assumption of `OwnImportsListedHolds`.

**`MacClientProofs`.** `ForwardInv` is what both devices keep: between head and tail
the ring holds every queued request once, the table holds the requests the system
waits for, each in one slot, no request is both in the ring and in the map of the
forwarding task, and a task that runs has forgotten none but those whose driver
call failed (`lost`). `StorageInv` adds that only
requests the system waits for are on their way. `HidInv` is the same for the HID
device, whose ids come from a counter that wraps around. There an id is new only
because it was not drawn within the last turn of the counter, so every id in use
has an age, its distance behind the counter, which is at most the number of requests
drawn; the theorem covers one turn, from wherever the counter stands at the start
(`IdsAssumption`). `AttachInv` is `NoOrphanDevice` and that no two attaches configure
the same device id, so that the clean-up of one does not destroy the device of the
other. From these follow `InOnePlace`, `NoRequestForgotten` and `NoOrphanDevice`.
`RingImplementsQueue` maps the ring to the queue of `PendingQueue`; its lemmas are
about the sequence that is read from a ring whose indices wrap.

**`DaemonProofs`.** `LifeInv` relates every process to the PID file and the socket:
a daemon that has written the PID file is the one the file names until it exits; a
start that got past its look at the file is alone, because nobody else is between
looking and writing; and the socket path leads to the daemon that serves it.
`WatchedInv` says that this holds unless a start has overlooked a daemon, whatever
files failed removals and crashes have left. It is true only while no two starts
overlap, so `OneDaemonAtATime` and
`SocketLeadsToDaemon` assume `~ConcurrentStarts`; without that assumption
`OneDaemon` is false, as the run `daemon_pid` shows. `CheckedInv` says of every bind
in progress and of every exported device that the access lists let the device
through which the first lookup saw. The lists of a process are those of its
configuration; `ConfigIsTopmost` shows that loading layer by layer, as the code does,
leaves in every field the value of the topmost layer that has one. From both follows
`ExportsAreAllowed`, for any layers, patterns and devices.

Only model-checked: all liveness properties (`ReservationEnds`,
`EndedSessionIsForgotten`, `SessionEnds`, `SubmitIsAnswered`, `StorageIoCompletes`,
`ReconnectSucceeds`, `ShutdownCompletes`, `RequestsEnd`), which are outside the reach
of the prover; what clients and server do with the messages (`clients`), apart from
the facts of `WireProofs`; the device list, which is written and read by recursion
over the devices; and `DiscoveredOnce`, whose sorting and removal of duplicates are
folds.

## Not modelled

* Enumeration of local devices (`device.rs` of the server): descriptors are read
  through libusb and formatted, without state.
* TLS: set-up of a library. A handshake that fails is a connection that is cut.
* Detaching on macOS and stopping a virtual device: no attach succeeds at present,
  so these steps cannot be reached in a faithful model. The serial, network and
  audio devices of the driver are not served by the forwarding loop; the export
  device is a stub.
* The effects of the API's attach and detach on the daemon's host, beyond
  `ClientEngine`; events, which nothing sends; formatting of answers, the command
  line's arguments and output.
* Parsing of TOML, of report and audio descriptors beyond what the calls use, and
  NCM blocks of several datagrams.
* USB error numbers: every failing transfer has one failing status. The health
  counters of a session, which decide nothing.
* The daemon's life cycle on Windows, which has no signals to ask after a process.
* Timing of a browse and its sockets.
* The macOS and Windows user interfaces: views and polling clients of the API.
  Installation scripts.
