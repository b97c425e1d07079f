----------------------------- MODULE VirtualHID -----------------------------
(***************************************************************************)
(* The HID device of the macOS driver extension, with the forwarding task  *)
(* of UrbForward.  getReport and setReport put a request into the ring,    *)
(* under an id the device draws from a counter that wraps around, and then *)
(* look for a slot of the in-flight table.  Without one the host is told   *)
(* that the request failed, and the request stays in the ring.             *)
(***************************************************************************)
EXTENDS UrbForward

CONSTANTS IdModulus,     \* 2^32 in the code
          MaxRequests    \* bound: getReport and setReport calls that are queued

\* Fewer requests than ids: no id comes round again.
ASSUME IdsAssumption ==
    /\ IdModulus \in Nat \ {0, 1}
    /\ MaxRequests \in 0..IdModulus - 1
    /\ 1..IdModulus - 1 \subseteq RequestIds

VARIABLES nextRequestId,
          refused,       \* the ids that were queued and then refused
          issued         \* number of requests queued

hidDeviceVars == <<nextRequestId, refused, issued>>
hidVars == <<ringVars, loopVars, tableVars, hidDeviceVars>>

\* The counter starts at 1; after a long life of answered requests the idle
\* device is in the same state but for the counter.
HidInit ==
    /\ ForwardInit
    /\ nextRequestId \in {1, IdModulus - 1}
    /\ refused = {} /\ issued = 0

Successor(n) == (n + 1) % IdModulus

-----------------------------------------------------------------------------
\* Mutated form of NewId: the id 0 is not skipped.
NewId_Zero == nextRequestId

\* nextRequestId++, and once more when that gave 0.
NewId == IF nextRequestId = 0 THEN 1 ELSE nextRequestId

trackInFlight(rid) ==
    \/ /\ Free # {}
       /\ inFlight' = [inFlight EXCEPT ![FirstOf(Free)] = {rid}]
       /\ outstanding' = outstanding \union {rid}
       /\ UNCHANGED refused
    \/ /\ Free = {}
       /\ refused' = refused \union {rid}
       /\ UNCHANGED <<inFlight, outstanding>>

\* getReport and setReport, which differ in the payload only.  A full ring
\* refuses the request before anything has changed.
submit_report ==
    \/ /\ RingFull
       /\ UNCHANGED hidVars
    \/ /\ ~RingFull
       /\ issued < MaxRequests
       /\ issued' = issued + 1
       /\ nextRequestId' = Successor(NewId)
       /\ enqueue(NewId)
       /\ IF NewId = 0   \* taken for a full ring
          THEN UNCHANGED <<inFlight, outstanding, refused>>
          ELSE trackInFlight(NewId)
       /\ UNCHANGED loopVars

hid_forward(r) == forward(r) /\ UNCHANGED <<tableVars, hidDeviceVars>>
hid_response(r) ==
    take_response(r) /\ complete_request(r) /\ UNCHANGED <<ringVars, hidDeviceVars>>

HidNext ==
    \/ submit_report
    \/ \E r \in 0..IdModulus - 1 : hid_forward(r) \/ hid_response(r)
    \/ reads /\ UNCHANGED hidDeviceVars

HidSpec == HidInit /\ [][HidNext]_hidVars

-----------------------------------------------------------------------------
(* A request is in one place, and the daemon sees only ids that stand for a
   report the host waits for or for one it was refused: a late response can
   not complete the report of another request, and a request that a failed
   call lost is not sent again. *)
ReportInOnePlace ==
    /\ Cardinality(Queued) = pendingCount
    /\ Queued \intersect waiting = {}
    /\ (Queued \union waiting) \intersect lost = {}
    /\ Queued \union waiting \union lost \subseteq outstanding \union refused
    /\ outstanding \intersect refused = {}

=============================================================================
