---------------------------- MODULE MCMacClient -----------------------------
(* The macOS side: a storage device with four ids that are reused, a HID
   device whose ids wrap around, and the attach requests, with devices of the
   buses 0 and 1.  They share no state: an instance explores one of them, and
   the variables of the others stay as they were. *)
EXTENDS VirtualStorage, VirtualHID, MacAttach

CONSTANTS a1, a2, a3

VARIABLE part

MCRequestIds == 1..5
MCRequests == 1..4
MCAttaches == {a1, a2, a3}
MCDevices == {[busnum |-> b, devnum |-> n] : b \in 0..1, n \in {3, 31, 32}}

macVars == <<hidVars, attachVars, part>>

MacInit ==
    /\ part \in {"storage", "hid", "attach"}
    /\ HidInit /\ AttachInit
    /\ part # "hid" => nextRequestId = 1

MacNext ==
    /\ \/ part = "storage" /\ StorageNext /\ UNCHANGED <<hidDeviceVars, attachVars>>
       \/ part = "hid" /\ HidNext /\ UNCHANGED attachVars
       \/ part = "attach" /\ AttachNext /\ UNCHANGED hidVars
    /\ UNCHANGED part

\* The fairness of StorageLiveSpec.
MacSpec ==
    /\ MacInit /\ [][MacNext]_macVars
    /\ WF_storageVars(part = "storage" /\ \E r \in Requests : storage_forward(r))
    /\ \A r \in Requests :
          WF_storageVars(part = "storage" /\ stream # "misaligned" /\ storage_response(r))

(* Table, ring and task agree on where a request is.  The two kinds of device
   keep the two forms of the promise: the storage device refuses an I/O before
   it is queued, the HID device after. *)
InOnePlace ==
    /\ TableIsOutstanding
    /\ IF part = "storage" THEN IoInOnePlace ELSE ReportInOnePlace

(* The I/Os of the storage device complete: AlignedIoCompletes. *)
StorageIoCompletes == part = "storage" => AlignedIoCompletes

(* What the comment on urb_forward_loop says of them: IoCompletes. *)
StorageIoDrains == part = "storage" => IoCompletes
=============================================================================
