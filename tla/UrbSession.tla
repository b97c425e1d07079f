----------------------------- MODULE UrbSession -----------------------------
(***************************************************************************)
(* One import session of the server: DeviceSession::run of session.rs.     *)
(* A reader takes URB messages off the connection, every CmdSubmit runs in *)
(* a task of its own, the tasks and the reader put their responses into a  *)
(* bounded channel, and a writer task drains it.  The tasks that can be    *)
(* cancelled are recorded in the map in_flight.                            *)
(*                                                                         *)
(* A task is aborted at an await that is pending; one that is being polled *)
(* at that moment runs on to its next pending await.  The USB transfer     *)
(* itself runs on a thread of the blocking pool and is never interrupted.  *)
(***************************************************************************)
EXTENDS Naturals, Sequences, FiniteSets

CONSTANTS Seqnums,       \* the seqnums of the URBs the client submits, each once
          ChannelSize,   \* RESPONSE_CHANNEL_SIZE
          MaxUnlinks     \* bound: CmdUnlinks the client sends

ASSUME ChannelAssumption == ChannelSize \in Nat \ {0}
ASSUME UnlinksAssumption == MaxUnlinks \in Nat

VARIABLES reader,     \* where run() stands
          fresh,      \* the task the reader spawned and has not recorded yet
          response,   \* the RetUnlink the reader is about to send
          task,       \* task[s]: the task spawned for CmdSubmit s
          usb,        \* the transfers inside libusb
          in_flight,  \* the keys of the map
          aborted,    \* the tasks whose JoinHandle was aborted
          channel,    \* responses between senders and writer
          writer,     \* "recv", "writing" or "ended" (the receiver is dropped)
          writing,    \* the response taken from the channel, if any
          wire,       \* history: the responses written to the connection
          unlinks     \* the number of CmdUnlinks read

readerVars == <<reader, fresh, response, unlinks>>
taskVars == <<task, usb, in_flight, aborted>>
writerVars == <<channel, writer, writing, wire>>
sessionVars == <<readerVars, taskVars, writerVars>>

-----------------------------------------------------------------------------
ECONNRESET == 104   \* the wire carries its negation

RetSubmit(s) == [type |-> "RetSubmit", seqnum |-> s, status |-> 0]
RetUnlink(s, status) == [type |-> "RetUnlink", seqnum |-> s, status |-> status]

Full == Len(channel) >= ChannelSize
Closed == writer = "ended"

\* What the client has been or will be sent, in order.
Responses == wire \o writing \o channel

SessionInit ==
    /\ reader = "reading"
    /\ fresh = {} /\ response = <<>>
    /\ task = [s \in Seqnums |-> "none"]
    /\ usb = {} /\ in_flight = {} /\ aborted = {}
    /\ channel = <<>> /\ writer = "recv" /\ writing = <<>> /\ wire = <<>>
    /\ unlinks = 0

-----------------------------------------------------------------------------
\* The reader.

\* CmdSubmit: spawn the task, ...
read_submit(s) ==
    /\ reader = "reading"
    /\ task[s] = "none"
    /\ task' = [task EXCEPT ![s] = "spawned"]
    /\ reader' = "inserting"
    /\ fresh' = {s}
    /\ UNCHANGED <<response, unlinks, usb, in_flight, aborted, writerVars>>

\* ... then record it; the task may already have run, even to its end.
insert_in_flight ==
    /\ reader = "inserting"
    /\ in_flight' = in_flight \union fresh
    /\ reader' = "reading"
    /\ fresh' = {}
    /\ UNCHANGED <<response, unlinks, task, usb, aborted, writerVars>>

\* CmdUnlink of a URB the client submitted.
handle_unlink(s) ==
    /\ reader = "reading"
    /\ task[s] # "none"
    /\ unlinks < MaxUnlinks
    /\ unlinks' = unlinks + 1
    /\ reader' = "unlinking"
    /\ IF s \in in_flight
       THEN /\ in_flight' = in_flight \ {s}
            /\ aborted' = aborted \union {s}
            /\ response' = <<RetUnlink(s, ECONNRESET)>>
       ELSE /\ response' = <<RetUnlink(s, 0)>>
            /\ UNCHANGED <<in_flight, aborted>>
    /\ UNCHANGED <<fresh, task, usb, writerVars>>

send_unlink_response ==
    /\ reader = "unlinking"
    /\ response' = <<>>
    /\ \/ /\ ~Closed /\ ~Full
          /\ channel' = Append(channel, response[1])
          /\ reader' = "reading"
       \/ /\ Closed
          /\ reader' = "closing"
          /\ UNCHANGED channel
    /\ UNCHANGED <<fresh, unlinks, taskVars, writer, writing, wire>>

\* End of file, an I/O error or a message that cannot be decoded.
read_fails ==
    /\ reader = "reading"
    /\ reader' = "closing"
    /\ UNCHANGED <<fresh, response, unlinks, taskVars, writerVars>>

\* Mutated form of cancel_all_in_flight: the map is cleared and nothing aborted.
cancel_all_in_flight_NoAbort ==
    /\ reader = "closing"
    /\ in_flight' = {}
    /\ reader' = "draining"
    /\ UNCHANGED <<fresh, response, unlinks, task, usb, aborted, writerVars>>

\* cancel_all_in_flight, then drop(tx).
cancel_all_in_flight ==
    /\ reader = "closing"
    /\ aborted' = aborted \union in_flight
    /\ in_flight' = {}
    /\ reader' = "draining"
    /\ UNCHANGED <<fresh, response, unlinks, task, usb, writerVars>>

\* writer_handle.await returns, and with it run().
run_returns ==
    /\ reader = "draining"
    /\ Closed
    /\ reader' = "done"
    /\ UNCHANGED <<fresh, response, unlinks, taskVars, writerVars>>

-----------------------------------------------------------------------------
\* The task of one CmdSubmit.
SetTask(s, pc) == task' = [task EXCEPT ![s] = pc]

\* First poll: handle_submit hands the transfer to a blocking thread.
task_starts(s) ==
    /\ task[s] = "spawned" /\ s \notin aborted
    /\ SetTask(s, "transferring")
    /\ usb' = usb \union {s}
    /\ UNCHANGED <<readerVars, in_flight, aborted, writerVars>>

\* The transfer completes, fails, or times out.
transfer_ends(s) ==
    /\ s \in usb
    /\ usb' = usb \ {s}
    /\ UNCHANGED <<readerVars, task, in_flight, aborted, writerVars>>

\* Mutated form of task_resumes: the task leaves the map before it has sent its
\* response.
task_resumes_Removes(s) ==
    /\ task[s] = "transferring" /\ s \notin usb /\ s \notin aborted
    /\ SetTask(s, "polled")
    /\ in_flight' = in_flight \ {s}
    /\ UNCHANGED <<readerVars, usb, aborted, writerVars>>

\* The task is polled again and has its RetSubmit.
task_resumes(s) ==
    /\ task[s] = "transferring" /\ s \notin usb /\ s \notin aborted
    /\ SetTask(s, "polled")
    /\ UNCHANGED <<readerVars, usb, in_flight, aborted, writerVars>>

\* Mutated form of task_blocks: try_send, whose failure is ignored.
task_blocks_Drops(s) ==
    /\ task[s] = "polled" /\ ~Closed /\ Full
    /\ SetTask(s, "sent")
    /\ UNCHANGED <<readerVars, usb, in_flight, aborted, writerVars>>

\* tx.send(result).await finds no room and is pending.
task_blocks(s) ==
    /\ task[s] = "polled" /\ ~Closed /\ Full
    /\ SetTask(s, "blocked")
    /\ UNCHANGED <<readerVars, usb, in_flight, aborted, writerVars>>

\* Mutated forms of task_sends: the send is repeated; a task that waits for room
\* is not woken.
task_sends_Repeats(s) ==
    /\ task[s] = "polled" /\ ~Closed /\ ~Full
    /\ channel' = Append(channel, RetSubmit(s))
    /\ \E pc \in {"polled", "sent"} : SetTask(s, pc)
    /\ UNCHANGED <<readerVars, usb, in_flight, aborted, writer, writing, wire>>
task_sends_NoWakeup(s) ==
    /\ task[s] = "polled"
    /\ \/ ~Closed /\ ~Full /\ channel' = Append(channel, RetSubmit(s))
       \/ Closed /\ UNCHANGED channel
    /\ SetTask(s, "sent")
    /\ UNCHANGED <<readerVars, usb, in_flight, aborted, writer, writing, wire>>

task_sends(s) ==
    /\ task[s] = "polled" \/ (task[s] = "blocked" /\ s \notin aborted)
    /\ \/ ~Closed /\ ~Full /\ channel' = Append(channel, RetSubmit(s))
       \/ Closed /\ UNCHANGED channel
    /\ SetTask(s, "sent")
    /\ UNCHANGED <<readerVars, usb, in_flight, aborted, writer, writing, wire>>

\* in_flight_clone.lock().await.remove(&seqnum)
task_removes(s) ==
    /\ task[s] = "sent"
    /\ in_flight' = in_flight \ {s}
    /\ SetTask(s, "ended")
    /\ UNCHANGED <<readerVars, usb, aborted, writerVars>>

\* An aborted task is dropped at the await that is pending (the last one is the
\* lock of in_flight).
task_dropped(s) ==
    /\ s \in aborted
    /\ task[s] \in {"spawned", "transferring", "blocked", "sent"}
    /\ SetTask(s, "ended")
    /\ UNCHANGED <<readerVars, usb, in_flight, aborted, writerVars>>

-----------------------------------------------------------------------------
\* The writer task.
writer_recv ==
    /\ writer = "recv" /\ channel # <<>>
    /\ writing' = <<Head(channel)>>
    /\ channel' = Tail(channel)
    /\ writer' = "writing"
    /\ UNCHANGED <<readerVars, taskVars, wire>>

write_urb_message ==
    /\ writer = "writing"
    /\ wire' = wire \o writing
    /\ writing' = <<>>
    /\ writer' = "recv"
    /\ UNCHANGED <<readerVars, taskVars, channel>>

\* The write fails: the receiver is dropped with all it holds.
write_fails ==
    /\ writer = "writing"
    /\ writer' = "ended"
    /\ writing' = <<>> /\ channel' = <<>>
    /\ UNCHANGED <<readerVars, taskVars, wire>>

\* Mutated form of AllSendersDropped: run() keeps its sender until it returns.
AllSendersDropped_TxKept ==
    /\ reader = "done"
    /\ \A s \in Seqnums : task[s] \in {"none", "ended"}

\* recv() returns None: the channel is empty and every sender is dropped, the
\* reader's as well as those of the tasks.
AllSendersDropped ==
    /\ reader = "draining"
    /\ \A s \in Seqnums : task[s] \in {"none", "ended"}

writer_ends ==
    /\ writer = "recv" /\ channel = <<>>
    /\ AllSendersDropped
    /\ writer' = "ended"
    /\ UNCHANGED <<readerVars, taskVars, channel, writing, wire>>

-----------------------------------------------------------------------------
TaskStep(s) ==
    \/ task_starts(s) \/ transfer_ends(s) \/ task_resumes(s) \/ task_blocks(s)
    \/ task_sends(s) \/ task_removes(s) \/ task_dropped(s)

ReaderStep ==
    \/ \E s \in Seqnums : read_submit(s) \/ handle_unlink(s)
    \/ insert_in_flight \/ send_unlink_response \/ read_fails
    \/ cancel_all_in_flight \/ run_returns

WriterStep == writer_recv \/ write_urb_message \/ write_fails \/ writer_ends

\* run() has returned, and nothing it started is left.
AllOver ==
    /\ reader = "done" /\ usb = {}
    /\ \A s \in Seqnums : task[s] \in {"none", "ended"}

finished == AllOver /\ UNCHANGED sessionVars

SessionNext == ReaderStep \/ (\E s \in Seqnums : TaskStep(s)) \/ WriterStep \/ finished

\* tokio polls every task that is ready, a transfer has a timeout, the client
\* takes what it is sent or the write fails.  Nothing makes the client send.
SessionFairness ==
    /\ WF_sessionVars(insert_in_flight) /\ WF_sessionVars(send_unlink_response)
    /\ WF_sessionVars(cancel_all_in_flight) /\ WF_sessionVars(run_returns)
    /\ \A s \in Seqnums : WF_sessionVars(TaskStep(s))
    /\ WF_sessionVars(WriterStep)

SessionSpec == SessionInit /\ [][SessionNext]_sessionVars
FairSessionSpec == SessionSpec /\ SessionFairness

-----------------------------------------------------------------------------
Message == [type : {"RetSubmit", "RetUnlink"}, seqnum : Seqnums,
            status : {0, ECONNRESET}]

SessionTypeOK ==
    /\ reader \in {"reading", "inserting", "unlinking", "closing", "draining", "done"}
    /\ fresh \subseteq Seqnums
    /\ task \in [Seqnums -> {"none", "spawned", "transferring", "polled", "blocked",
                            "sent", "ended"}]
    /\ usb \subseteq Seqnums /\ in_flight \subseteq Seqnums /\ aborted \subseteq Seqnums
    /\ writer \in {"recv", "writing", "ended"}
    /\ channel \in Seq(Message) /\ Len(channel) <= ChannelSize
    /\ writing \in Seq(Message) /\ wire \in Seq(Message) /\ response \in Seq(Message)
    /\ unlinks \in 0..MaxUnlinks

\* A RetUnlink with status 0 tells the client that the URB was completed, and
\* the client then relies on having its RetSubmit: on the connection, a RetSubmit
\* of that URB (or the RetUnlink of an earlier cancellation) comes first.
NotFoundIsAnswered ==
    \A i \in DOMAIN Responses :
        Responses[i].type = "RetUnlink" /\ Responses[i].status = 0 =>
            \E j \in 1..(i - 1) :
                Responses[j] \in {RetSubmit(Responses[i].seqnum),
                                 RetUnlink(Responses[i].seqnum, ECONNRESET)}

\* Every CmdSubmit gets at most one RetSubmit.
AtMostOneReturn ==
    \A i, j \in DOMAIN Responses :
        Responses[i].type = "RetSubmit" /\ Responses[i] = Responses[j] => i = j

\* As long as the session runs and its writer lives, no URB is forgotten: one
\* whose task has ended was answered by a RetSubmit or by a RetUnlink that says
\* it was cancelled.
NoUrbForgotten ==
    \A s \in Seqnums :
        task[s] = "ended" /\ ~Closed /\ reader # "draining" =>
            \E i \in DOMAIN (Responses \o response) :
                (Responses \o response)[i] \in {RetSubmit(s), RetUnlink(s, ECONNRESET)}

\* A task that still has its transfer or its response before it can be found by
\* a CmdUnlink and by the cleanup: it is in the map, or the reader is about to
\* put it there, unless it was cancelled already.
EveryTaskTracked ==
    \A s \in Seqnums :
        task[s] \in {"spawned", "transferring", "polled", "blocked"}
            => s \in in_flight \union fresh \union aborted

\* The cleanup of run() reaches every task: afterwards no task that was not
\* cancelled waits for a transfer or for room in the channel.
CleanupIsComplete ==
    reader \in {"draining", "done"} =>
        \A s \in Seqnums : s \in aborted \/ task[s] \in {"none", "sent", "ended"}

\* When the client is gone, run() returns (so that the connection handler
\* releases the device) and all clones of the device handle are dropped: the
\* writer never waits for a sender that is never dropped.
SessionEnds == reader = "closing" ~> AllOver

\* Every CmdSubmit is answered on the connection, unless it is cancelled or the
\* connection breaks: neither a full channel nor other URBs starve it.
SubmitIsAnswered ==
    \A s \in Seqnums :
        task[s] = "spawned" ~> \/ \E i \in DOMAIN wire : wire[i] = RetSubmit(s)
                              \/ s \in aborted
                              \/ Closed

-----------------------------------------------------------------------------
\* docs/usbip-protocol-spec.md:145: "cancelled URBs receive no return
\* submission".  No URB is reported cancelled and also answered by a RetSubmit.
CancelledGetsNoReturn ==
    \A i, j \in DOMAIN Responses :
        ~ \E s \in Seqnums : /\ Responses[i] = RetUnlink(s, ECONNRESET)
                             /\ Responses[j] = RetSubmit(s)
=============================================================================
