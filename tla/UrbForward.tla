----------------------------- MODULE UrbForward -----------------------------
(***************************************************************************)
(* The path of a request from a virtual device of the macOS driver         *)
(* extension to the server: the ring of pending requests each virtual      *)
(* device keeps (ExtenderVirtualHID.cpp, ExtenderVirtualStorage.cpp) and   *)
(* the forwarding task that polls it (urb_forward_loop of engine.rs).      *)
(* A request is its request id; payloads are left out.  The modules        *)
(* VirtualHID and VirtualStorage add the two kinds of device, which put    *)
(* requests into the ring; both keep a table of the requests in flight and *)
(* complete one when the task delivers its response.                       *)
(***************************************************************************)
EXTENDS Naturals, Sequences, FiniteSets

CONSTANTS RequestIds,        \* the ids of requests
          RingCapacity,      \* EXTENDER_MAX_PENDING_OUTPUTS
          InFlightCapacity   \* kInFlightCapacity

ASSUME CapacityAssumption ==
    /\ RequestIds \subseteq Nat \ {0}
    /\ RingCapacity \in Nat \ {0}
    /\ InFlightCapacity \in 1..RingCapacity   \* 16 and 64 in the code

VARIABLES pending,        \* the array of the ring
          pendingHead,
          pendingTail,
          pendingCount,
          loop,           \* "running", or "exited" for ever
          stream,         \* where read_urb_message stands in the connection
          waiting,        \* the request ids in the task's map, keyed by seqnum there
          lost,           \* the ids whose driver call failed: warned of, and dropped
          inFlight,       \* the device's table: slot -> {} or the set of one id
          outstanding     \* the ids the operating system waits for

ringVars == <<pending, pendingHead, pendingTail, pendingCount>>
loopVars == <<loop, stream, waiting, lost>>
tableVars == <<inFlight, outstanding>>

Slots == 0..InFlightCapacity - 1

ForwardInit ==
    /\ pending = [i \in 0..RingCapacity - 1 |-> 0]
    /\ pendingHead = 0 /\ pendingTail = 0 /\ pendingCount = 0
    /\ loop = "running" /\ stream = "aligned" /\ waiting = {} /\ lost = {}
    /\ inFlight = [i \in Slots |-> {}] /\ outstanding = {}

\* The entries between head and tail, oldest first.
Window == [i \in 1..pendingCount |->
              pending[(pendingHead + i - 1) % RingCapacity]]
Queued == {Window[i] : i \in 1..pendingCount}

Free == {i \in Slots : inFlight[i] = {}}
FirstOf(S) == CHOOSE i \in S : \A j \in S : i <= j

-----------------------------------------------------------------------------
RingFull == pendingCount >= RingCapacity

enqueue(r) ==
    /\ pending' = [pending EXCEPT ![pendingTail] = r]
    /\ pendingTail' = (pendingTail + 1) % RingCapacity
    /\ pendingCount' = pendingCount + 1
    /\ UNCHANGED pendingHead

\* Mutated form of dequeuePendingOutput: the newest request is handed out.
dequeuePendingOutput_Newest(r) ==
    /\ pendingCount > 0
    /\ r = pending[(pendingTail + RingCapacity - 1) % RingCapacity]
    /\ pendingTail' = (pendingTail + RingCapacity - 1) % RingCapacity
    /\ pendingCount' = pendingCount - 1
    /\ UNCHANGED <<pending, pendingHead>>

\* r is the request handed to the daemon.
dequeuePendingOutput(r) ==
    /\ pendingCount > 0
    /\ r = pending[pendingHead]
    /\ pendingHead' = (pendingHead + 1) % RingCapacity
    /\ pendingCount' = pendingCount - 1
    /\ UNCHANGED <<pending, pendingTail>>

\* The two branches of the select! share the task.  A tick that is ready
\* while read_urb_message has consumed part of a message drops that read, and
\* the bytes with it.
AfterTick == IF stream = "partial" THEN "misaligned" ELSE stream

\* Mutated form of forward: the request is sent and not recorded.
forward_Unrecorded(r) ==
    /\ loop = "running"
    /\ dequeuePendingOutput(r)
    /\ stream' = AfterTick
    /\ UNCHANGED <<loop, waiting, lost>>

\* A tick: take a request and send it as CmdSubmit.  get_pending_output can
\* fail after the driver has dequeued the request: a header and the largest
\* payload do not fit its buffer.  The loop warns and goes on.  When the write
\* fails the task ends, and its map with it.
forward(r) ==
    /\ loop = "running"
    /\ dequeuePendingOutput(r)
    /\ stream' = AfterTick
    /\ \/ waiting' = waiting \union {r} /\ UNCHANGED <<loop, lost>>
       \/ lost' = lost \union {r} /\ UNCHANGED <<loop, waiting>>
       \/ waiting' = {} /\ loop' = "exited" /\ UNCHANGED lost

\* A tick that finds the ring empty, or whose call fails before the driver
\* looks into the ring.
poll_nothing ==
    /\ loop = "running"
    /\ stream' = AfterTick
    /\ UNCHANGED <<loop, waiting, lost>>

\* A part of a response has arrived and is consumed.
read_part ==
    /\ loop = "running"
    /\ stream = "aligned"
    /\ waiting # {}
    /\ stream' = "partial"
    /\ UNCHANGED <<loop, waiting, lost>>

\* A RetSubmit whose seqnum stands for r is read.  A response that names no
\* entry of the map is dropped.  In a misaligned stream the bytes that happen
\* to be read as a response can name any entry.
take_response(r) ==
    /\ loop = "running"
    /\ r \in waiting
    /\ waiting' = waiting \ {r}
    /\ stream' = IF stream = "partial" THEN "aligned" ELSE stream
    /\ UNCHANGED loop

\* Reading from the connection fails: it was closed, or what was read is not
\* a message.
read_fails ==
    /\ loop = "running"
    /\ loop' = "exited"
    /\ waiting' = {}
    /\ UNCHANGED <<stream, lost>>

reads == (poll_nothing \/ read_part \/ read_fails) /\ UNCHANGED <<ringVars, tableVars>>

\* CompleteIO or CompleteReport for the first slot that holds r; an unknown
\* id is ignored.
completeRequest(r) ==
    LET holders == {i \in Slots : inFlight[i] = {r}}
    IN  IF holders = {} THEN UNCHANGED tableVars
        ELSE /\ inFlight' = [inFlight EXCEPT ![FirstOf(holders)] = {}]
             /\ outstanding' = outstanding \ {r}

\* The call that delivers a response.  It is made when r has left the map,
\* and a failure is only warned of.
complete_request(r) ==
    \/ completeRequest(r) /\ UNCHANGED lost
    \/ lost' = lost \union {r} /\ UNCHANGED tableVars

-----------------------------------------------------------------------------
(* The table of completeRequest and the operating system agree: every request
   that is waited for occupies one slot, and no slot is left over, which a
   reused id would match first. *)
TableIsOutstanding ==
    /\ outstanding = UNION {inFlight[i] : i \in Slots}
    /\ \A i, j \in Slots : inFlight[i] = inFlight[j] /\ i # j => inFlight[i] = {}

(* As long as the forwarding task runs, a request the operating system waits
   for is in the ring or in the map of urb_forward_loop, unless a call into
   the driver failed for this very request: a failure costs no other one. *)
NoRequestForgotten ==
    loop = "running" => outstanding \subseteq Queued \union waiting \union lost

(* The array with its two indices and its counter is a first-in-first-out
   queue of RingCapacity places. *)
Queue == INSTANCE PendingQueue WITH Ids <- RequestIds, Capacity <- RingCapacity,
                                    queue <- Window
RingIsQueue == Queue!QueueSpec
=============================================================================
