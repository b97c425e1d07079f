--------------------------- MODULE VirtualStorage ---------------------------
(***************************************************************************)
(* The block storage device of the macOS driver extension, with the        *)
(* forwarding task of UrbForward.  The operating system names its I/Os     *)
(* with ids of its own and reuses an id once the I/O is completed.  The    *)
(* device puts an I/O into the ring without looking whether there is       *)
(* room: only its table of I/Os in flight limits it.                       *)
(***************************************************************************)
EXTENDS UrbForward

CONSTANT Requests   \* the request ids the operating system uses

ASSUME RequestsAssumption == Requests \subseteq RequestIds

storageVars == <<ringVars, loopVars, tableVars>>

StorageInit == ForwardInit

-----------------------------------------------------------------------------
\* Without a free slot the I/O is completed at once, with an error.
DoAsyncReadWrite(r) ==
    /\ r \notin outstanding
    /\ \/ /\ Free = {}
          /\ UNCHANGED storageVars
       \/ /\ Free # {}
          /\ inFlight' = [inFlight EXCEPT ![FirstOf(Free)] = {r}]
          /\ outstanding' = outstanding \union {r}
          /\ enqueue(r)
          /\ UNCHANGED loopVars

storage_forward(r) == forward(r) /\ UNCHANGED tableVars
storage_response(r) ==
    take_response(r) /\ complete_request(r) /\ UNCHANGED ringVars

StorageNext ==
    \/ \E r \in Requests : \/ DoAsyncReadWrite(r)
                           \/ storage_forward(r)
                           \/ storage_response(r)
    \/ reads

StorageSpec == StorageInit /\ [][StorageNext]_storageVars

\* The timer keeps polling, and the server answers every URB: its responses
\* are read as long as the stream is aligned.
StorageLiveSpec ==
    /\ StorageSpec
    /\ WF_storageVars(\E r \in Requests : storage_forward(r))
    /\ \A r \in Requests :
          WF_storageVars(stream # "misaligned" /\ storage_response(r))

-----------------------------------------------------------------------------
(* A request is in one place: it is not polled a second time while the task
   waits for its response, neither the ring nor the task holds one that is
   already completed, and one that a failed call lost keeps its slot, so its
   id does not come back. *)
IoInOnePlace ==
    /\ Cardinality(Queued) = pendingCount
    /\ Queued \intersect waiting = {}
    /\ (Queued \union waiting) \intersect lost = {}
    /\ Queued \union waiting \union lost \subseteq outstanding

(* Every I/O is completed, unless the forwarding task exits, a call into the
   driver fails for it, or a tick has cut a response in two. *)
AlignedIoCompletes ==
    \A r \in Requests :
        r \in outstanding
            ~> \/ r \notin outstanding \/ r \in lost
               \/ loop = "exited" \/ stream = "misaligned"

(* The comment on urb_forward_loop: the task drains the responses of the
   server into the driver until the connection ends.  So an I/O is completed
   unless the task exits. *)
IoCompletes ==
    \A r \in Requests :
        r \in outstanding ~> (r \notin outstanding \/ loop = "exited")
=============================================================================
