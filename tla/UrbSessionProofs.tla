-------------------------- MODULE UrbSessionProofs --------------------------
(***************************************************************************)
(* Proofs about the import session, for any set of URBs, any capacity of   *)
(* the response channel and any number of CmdUnlinks.                      *)
(***************************************************************************)
EXTENDS UrbSession, SequenceTheorems, TLAPS

\* The reader has a task to record only between spawning and recording it, and
\* a response to send only between handling a CmdUnlink and sending its answer.
ReaderState ==
    /\ reader # "inserting" => fresh = {}
    /\ reader = "unlinking" => Len(response) = 1
    /\ writer = "writing" => Len(writing) = 1

\* The inductive invariant.
SessionInv == SessionTypeOK /\ ReaderState /\ EveryTaskTracked /\ CleanupIsComplete

-----------------------------------------------------------------------------
\* A session starts with nothing in flight, so the invariant holds.
LEMMA SessionInitInv == SessionInit => SessionInv
  BY ChannelAssumption, UnlinksAssumption
     DEF SessionInit, SessionInv, SessionTypeOK, ReaderState, EveryTaskTracked,
         CleanupIsComplete, Message

\* A response sent while there is room leaves the channel within its capacity.
LEMMA AppendFits ==
    ASSUME NEW q \in Seq(Message), NEW m \in Message, ~(Len(q) >= ChannelSize)
    PROVE  Append(q, m) \in Seq(Message) /\ Len(Append(q, m)) <= ChannelSize
  BY ChannelAssumption

\* The answer to a CmdUnlink is a sequence of one message.
LEMMA OneMessage ==
    ASSUME NEW m \in Message PROVE <<m>> \in Seq(Message) /\ Len(<<m>>) = 1
  OBVIOUS

\* What the reader sends is the message it prepared.
LEMMA FirstMessage ==
    ASSUME NEW q \in Seq(Message), Len(q) = 1 PROVE q[1] \in Message
  OBVIOUS

\* The steps of the reader keep the types.
LEMMA ReaderTypeStep == SessionTypeOK /\ ReaderState /\ ReaderStep => SessionTypeOK'
<1> SUFFICES ASSUME SessionTypeOK, ReaderState, ReaderStep PROVE SessionTypeOK'
  OBVIOUS
<1> USE ChannelAssumption, UnlinksAssumption DEF SessionTypeOK, taskVars, writerVars
<1>1. ASSUME NEW s \in Seqnums, read_submit(s) PROVE SessionTypeOK'
  BY <1>1 DEF read_submit
<1>2. ASSUME NEW s \in Seqnums, handle_unlink(s) PROVE SessionTypeOK'
  <2>1. RetUnlink(s, ECONNRESET) \in Message /\ RetUnlink(s, 0) \in Message
    BY DEF RetUnlink, Message
  <2>2. response' \in Seq(Message)
    <3>1. response' = <<RetUnlink(s, ECONNRESET)>> \/ response' = <<RetUnlink(s, 0)>>
      BY <1>2 DEF handle_unlink
    <3> QED
      BY <2>1, <3>1, OneMessage
  <2>3. unlinks' \in 0..MaxUnlinks
    BY <1>2 DEF handle_unlink
  <2> QED
    BY <1>2, <2>2, <2>3 DEF handle_unlink
<1>3. CASE insert_in_flight
  BY <1>3 DEF insert_in_flight
<1>4. CASE send_unlink_response
  <2>1. response[1] \in Message
    <3>1. response \in Seq(Message) /\ Len(response) = 1
      BY <1>4 DEF send_unlink_response, ReaderState
    <3> QED
      BY <3>1, FirstMessage
  <2>2. channel' \in Seq(Message) /\ Len(channel') <= ChannelSize
    <3>1. channel' = channel \/ (~Full /\ channel' = Append(channel, response[1]))
      BY <1>4 DEF send_unlink_response
    <3> QED
      BY <2>1, <3>1, AppendFits DEF Full
  <2>3. response' \in Seq(Message)
    BY <1>4 DEF send_unlink_response
  <2> QED
    BY <1>4, <2>2, <2>3 DEF send_unlink_response
<1>5. CASE read_fails \/ cancel_all_in_flight \/ run_returns
  BY <1>5 DEF read_fails, cancel_all_in_flight, run_returns
<1> QED
  BY <1>1, <1>2, <1>3, <1>4, <1>5 DEF ReaderStep

\* The steps of the transfer tasks keep the types.
LEMMA TaskTypeStep ==
    ASSUME SessionTypeOK, NEW s \in Seqnums, TaskStep(s) PROVE SessionTypeOK'
<1> USE ChannelAssumption DEF SessionTypeOK, readerVars, writerVars, SetTask
<1>1. CASE task_starts(s) \/ transfer_ends(s) \/ task_resumes(s)
  BY <1>1 DEF task_starts, transfer_ends, task_resumes
<1>2. CASE task_blocks(s) \/ task_removes(s) \/ task_dropped(s)
  BY <1>2 DEF task_blocks, task_removes, task_dropped
<1>3. CASE task_sends(s)
  <2>1. RetSubmit(s) \in Message
    BY DEF RetSubmit, Message
  <2>2. channel' \in Seq(Message) /\ Len(channel') <= ChannelSize
    BY <1>3, <2>1, AppendFits DEF task_sends, Full
  <2> QED
    BY <1>3, <2>2 DEF task_sends
<1> QED
  BY <1>1, <1>2, <1>3 DEF TaskStep

\* The steps of the writer keep the types.
LEMMA WriterTypeStep == SessionTypeOK /\ WriterStep => SessionTypeOK'
<1> SUFFICES ASSUME SessionTypeOK, WriterStep PROVE SessionTypeOK'
  OBVIOUS
<1> USE ChannelAssumption DEF SessionTypeOK, readerVars, taskVars
<1>1. CASE writer_recv
  BY <1>1 DEF writer_recv
<1>2. CASE write_urb_message
  BY <1>2 DEF write_urb_message
<1>3. CASE write_fails
  <2>1. writing' \in Seq(Message) /\ channel' \in Seq(Message) /\ Len(channel') = 0
    BY <1>3 DEF write_fails
  <2> QED
    BY <1>3, <2>1 DEF write_fails
<1>4. CASE writer_ends
  BY <1>4 DEF writer_ends
<1> QED
  BY <1>1, <1>2, <1>3, <1>4 DEF WriterStep

-----------------------------------------------------------------------------
\* Every step of the session preserves the invariant.
LEMMA SessionInvStep == SessionInv /\ [SessionNext]_sessionVars => SessionInv'
<1> SUFFICES ASSUME SessionInv, [SessionNext]_sessionVars PROVE SessionInv'
  OBVIOUS
<1>1. CASE ReaderStep
  <2>1. SessionTypeOK'
    BY <1>1, ReaderTypeStep DEF SessionInv
  <2> USE DEF SessionInv, SessionTypeOK, taskVars, writerVars
  <2>2. ReaderState'
    BY <1>1 DEF ReaderState, ReaderStep, read_submit, handle_unlink, insert_in_flight,
                send_unlink_response, read_fails, cancel_all_in_flight, run_returns
  <2>3. EveryTaskTracked'
    BY <1>1 DEF ReaderState, EveryTaskTracked, ReaderStep, read_submit, handle_unlink,
                insert_in_flight, send_unlink_response, read_fails,
                cancel_all_in_flight, run_returns
  <2>4. CleanupIsComplete'
    BY <1>1 DEF ReaderState, EveryTaskTracked, CleanupIsComplete, ReaderStep, read_submit,
                handle_unlink, insert_in_flight, send_unlink_response, read_fails,
                cancel_all_in_flight, run_returns
  <2> QED
    BY <2>1, <2>2, <2>3, <2>4
<1>2. ASSUME NEW s \in Seqnums, TaskStep(s) PROVE SessionInv'
  <2>1. SessionTypeOK'
    BY <1>2, TaskTypeStep DEF SessionInv
  <2> USE DEF SessionInv, SessionTypeOK, readerVars, writerVars, SetTask, TaskStep,
              task_starts, transfer_ends, task_resumes, task_blocks, task_sends,
              task_removes, task_dropped
  <2>2. ReaderState'
    BY <1>2 DEF ReaderState
  <2>3. EveryTaskTracked'
    BY <1>2 DEF EveryTaskTracked
  <2>4. CleanupIsComplete'
    BY <1>2 DEF CleanupIsComplete
  <2> QED
    BY <2>1, <2>2, <2>3, <2>4
<1>3. CASE WriterStep
  <2>1. SessionTypeOK'
    BY <1>3, WriterTypeStep DEF SessionInv
  <2>2. ReaderState' /\ EveryTaskTracked' /\ CleanupIsComplete'
    BY <1>3 DEF SessionInv, WriterStep, writer_recv, write_urb_message, write_fails,
                writer_ends, readerVars, taskVars, ReaderState, EveryTaskTracked,
                CleanupIsComplete
  <2> QED
    BY <2>1, <2>2 DEF SessionInv
<1>4. CASE finished \/ UNCHANGED sessionVars
  BY <1>4 DEF finished, sessionVars, readerVars, taskVars, writerVars, SessionInv,
              SessionTypeOK, ReaderState, EveryTaskTracked, CleanupIsComplete
<1> QED
  BY <1>1, <1>2, <1>3, <1>4 DEF SessionNext

\* The inductive invariant holds in every reachable state.
THEOREM SessionInvCorrect == SessionSpec => []SessionInv
  BY SessionInitInv, SessionInvStep, PTL DEF SessionSpec

\* Type correctness; in particular the channel never exceeds its capacity.
THEOREM SessionTypeCorrect == SessionSpec => []SessionTypeOK
<1>1. SessionInv => SessionTypeOK
  BY DEF SessionInv
<1> QED
  BY <1>1, SessionInvCorrect, PTL

\* Every unfinished task can be found by a CmdUnlink and by the cleanup.
THEOREM EveryTaskTrackedHolds == SessionSpec => []EveryTaskTracked
<1>1. SessionInv => EveryTaskTracked
  BY DEF SessionInv
<1> QED
  BY <1>1, SessionInvCorrect, PTL

\* The cleanup at the end of run() reaches every task.
THEOREM CleanupIsCompleteHolds == SessionSpec => []CleanupIsComplete
<1>1. SessionInv => CleanupIsComplete
  BY DEF SessionInv
<1> QED
  BY <1>1, SessionInvCorrect, PTL

-----------------------------------------------------------------------------
(***************************************************************************)
(* What the client is told.  A step of the session adds at most one        *)
(* message to the responses, or drops those that were not written; the     *)
(* invariant is stated so that it follows message by message.              *)
(***************************************************************************)


Has(Q, m) == \E i \in DOMAIN Q : Q[i] = m

Cancelled(s) == RetUnlink(s, ECONNRESET)

\* NotFoundIsAnswered and AtMostOneReturn of any sequence of responses.
Backed(Q) ==
    \A i \in DOMAIN Q :
        Q[i].type = "RetUnlink" /\ Q[i].status = 0 =>
            \E j \in 1..(i - 1) : Q[j] \in {RetSubmit(Q[i].seqnum), Cancelled(Q[i].seqnum)}
Single(Q) == \A i, j \in DOMAIN Q : Q[i].type = "RetSubmit" /\ Q[i] = Q[j] => i = j

\* The writer and the reader hold a message only while they write or send it.
HandsEmpty ==
    /\ writer # "writing" => writing = <<>>
    /\ Closed => channel = <<>>
    /\ reader # "unlinking" => response = <<>>
    /\ reader = "done" => Closed

\* A RetSubmit is sent by its task, once, as the last thing but one it does.
SentBySender == \A s \in Seqnums : Has(Responses, RetSubmit(s)) => task[s] \in {"sent", "ended"}

\* While the writer lives: a task that is past sending has sent, unless it was
\* cancelled, and one that was cancelled by a CmdUnlink is reported cancelled.
SentIsThere ==
    ~Closed =>
        \A s \in Seqnums :
            /\ task[s] = "sent" => Has(Responses, RetSubmit(s))
            /\ task[s] = "ended" => Has(Responses, RetSubmit(s)) \/ s \in aborted
            /\ s \in aborted /\ reader \notin {"draining", "done"} =>
                   Has(Responses, Cancelled(s)) \/ response = <<Cancelled(s)>>

\* The answer to a CmdUnlink that found nothing is prepared only for a URB that
\* was answered.
AnswerPrepared ==
    reader = "unlinking" =>
        \E s \in Seqnums :
            \/ response = <<Cancelled(s)>>
            \/ /\ response = <<RetUnlink(s, 0)>>
               /\ ~Closed => Has(Responses, RetSubmit(s)) \/ Has(Responses, Cancelled(s))

\* The inductive invariant, beside SessionInv.
ResponseInv ==
    /\ HandsEmpty /\ SentBySender /\ SentIsThere /\ AnswerPrepared
    /\ Backed(Responses) /\ Single(Responses)

-----------------------------------------------------------------------------
\* Facts about sequences of responses.

\* What a sequence has after a message is added.
LEMMA AppendHas ==
    ASSUME NEW Q \in Seq(Message), NEW m \in Message, NEW n
    PROVE  Has(Append(Q, m), n) <=> Has(Q, n) \/ n = m
<1>1. /\ DOMAIN Q = 1..Len(Q) /\ Len(Q) \in Nat
      /\ DOMAIN Append(Q, m) = 1..(Len(Q) + 1)
      /\ \A i \in 1..Len(Q) : Append(Q, m)[i] = Q[i]
      /\ Append(Q, m)[Len(Q) + 1] = m
  OBVIOUS
<1> QED
  BY <1>1 DEF Has

\* A RetUnlink that says "not found" may follow the answer it relies on.
LEMMA AppendBacked ==
    ASSUME NEW Q \in Seq(Message), NEW m \in Message, Backed(Q),
           m.type = "RetUnlink" /\ m.status = 0 =>
               Has(Q, RetSubmit(m.seqnum)) \/ Has(Q, Cancelled(m.seqnum))
    PROVE  Backed(Append(Q, m))
<1>1. /\ DOMAIN Q = 1..Len(Q) /\ Len(Q) \in Nat
      /\ DOMAIN Append(Q, m) = 1..(Len(Q) + 1)
      /\ \A i \in 1..Len(Q) : Append(Q, m)[i] = Q[i]
      /\ Append(Q, m)[Len(Q) + 1] = m
  OBVIOUS
<1> DEFINE A == Append(Q, m)
<1> HIDE DEF A
<1>2. SUFFICES ASSUME NEW i \in DOMAIN A, A[i].type = "RetUnlink", A[i].status = 0
               PROVE  \E j \in 1..(i - 1) : A[j] \in {RetSubmit(A[i].seqnum), Cancelled(A[i].seqnum)}
  BY DEF Backed, A
<1>3. CASE i \in 1..Len(Q)
  <2>1. A[i] = Q[i] /\ i \in DOMAIN Q
    BY <1>1, <1>3 DEF A
  <2>2. PICK j \in 1..(i - 1) : Q[j] \in {RetSubmit(Q[i].seqnum), Cancelled(Q[i].seqnum)}
    BY <1>2, <2>1 DEF Backed
  <2>3. j \in 1..Len(Q)
    BY <1>1, <1>3
  <2>4. A[j] = Q[j]
    BY <1>1, <2>3 DEF A
  <2> QED
    BY <2>1, <2>2, <2>4
<1>4. CASE i = Len(Q) + 1
  <2>1. A[i] = m
    BY <1>1, <1>4 DEF A
  <2>2. PICK j \in DOMAIN Q : Q[j] = RetSubmit(m.seqnum) \/ Q[j] = Cancelled(m.seqnum)
    BY <1>2, <2>1 DEF Has
  <2>3. A[j] = Q[j] /\ j \in 1..(i - 1)
    BY <1>1, <1>4, <2>2 DEF A
  <2> QED
    BY <2>1, <2>2, <2>3
<1> QED
  BY <1>1, <1>3, <1>4 DEF A

\* A RetSubmit that is new to the sequence stays the only one of its URB.
LEMMA AppendSingle ==
    ASSUME NEW Q \in Seq(Message), NEW m \in Message, Single(Q),
           m.type = "RetSubmit" => ~Has(Q, m)
    PROVE  Single(Append(Q, m))
<1>1. /\ DOMAIN Q = 1..Len(Q) /\ Len(Q) \in Nat
      /\ DOMAIN Append(Q, m) = 1..(Len(Q) + 1)
      /\ \A i \in 1..Len(Q) : Append(Q, m)[i] = Q[i]
      /\ Append(Q, m)[Len(Q) + 1] = m
  OBVIOUS
<1> QED
  BY <1>1 DEF Single, Has

\* The responses that remain when the writer stops are a prefix.
LEMMA PrefixKept ==
    ASSUME NEW Q \in Seq(Message), NEW P \in Seq(Message)
    PROVE  /\ \A n : Has(Q, n) => Has(Q \o P, n)
           /\ Backed(Q \o P) => Backed(Q)
           /\ Single(Q \o P) => Single(Q)
<1>1. /\ DOMAIN Q = 1..Len(Q) /\ Len(Q) \in Nat /\ Len(P) \in Nat
      /\ DOMAIN (Q \o P) = 1..(Len(Q) + Len(P))
      /\ \A i \in 1..Len(Q) : (Q \o P)[i] = Q[i]
  BY ConcatProperties, LenProperties
<1> DEFINE A == Q \o P
<1> HIDE DEF A
<1>2. DOMAIN Q \subseteq DOMAIN A /\ \A i \in DOMAIN Q : A[i] = Q[i]
  BY <1>1 DEF A
<1>3. \A n : Has(Q, n) => Has(A, n)
  BY <1>2 DEF Has
<1>4. Single(A) => Single(Q)
  BY <1>2 DEF Single
<1>5. ASSUME Backed(A), NEW i \in DOMAIN Q, Q[i].type = "RetUnlink", Q[i].status = 0
      PROVE  \E j \in 1..(i - 1) : Q[j] \in {RetSubmit(Q[i].seqnum), Cancelled(Q[i].seqnum)}
  <2>1. PICK j \in 1..(i - 1) : A[j] \in {RetSubmit(Q[i].seqnum), Cancelled(Q[i].seqnum)}
    BY <1>2, <1>5 DEF Backed
  <2>2. j \in DOMAIN Q
    BY <1>1
  <2> QED
    BY <1>2, <2>1, <2>2
<1> QED
  BY <1>3, <1>4, <1>5 DEF Backed, A

\* A sequence that is followed by one message ends with it.
LEMMA LastOfConcat ==
    ASSUME NEW Q \in Seq(Message), NEW P \in Seq(Message), Len(P) = 1
    PROVE  Len(Q) + 1 \in DOMAIN (Q \o P) /\ (Q \o P)[Len(Q) + 1] = P[1]
<1> DEFINE n == Len(Q)
<1>1. n \in Nat /\ n + 1 \in 1..(n + Len(P)) /\ ~(n + 1 <= n) /\ (n + 1) - n = 1
  OBVIOUS
<1>2. /\ Q \o P \in Seq(Message) /\ Len(Q \o P) = n + Len(P)
      /\ \A i \in 1..(n + Len(P)) : (Q \o P)[i] = IF i <= n THEN Q[i] ELSE P[i - n]
  BY ConcatProperties
<1>3. DOMAIN (Q \o P) = 1..Len(Q \o P)
  BY <1>2, LenProperties
<1> HIDE DEF n
<1>4. (Q \o P)[n + 1] = P[(n + 1) - n]
  BY <1>1, <1>2
<1> QED
  BY <1>1, <1>2, <1>3, <1>4 DEF n

-----------------------------------------------------------------------------
\* What the steps do to the responses.

\* They are a sequence of messages.
LEMMA ResponsesType == SessionTypeOK => Responses \in Seq(Message)
  BY ConcatProperties DEF SessionTypeOK, Responses

\* A message that enters the channel comes last.
LEMMA EntersChannel ==
    ASSUME SessionTypeOK, NEW m \in Message, channel' = Append(channel, m),
           writing' = writing, wire' = wire
    PROVE  Responses' = Append(Responses, m)
<1> DEFINE w == wire \o writing
<1>1. w \in Seq(Message) /\ channel \in Seq(Message)
  BY ConcatProperties DEF SessionTypeOK
<1>2. Responses = w \o channel /\ Responses' = w \o Append(channel, m)
  BY DEF Responses
<1> HIDE DEF w
<1>3. w \o Append(channel, m) = Append(w \o channel, m)
  BY <1>1
<1> QED
  BY <1>2, <1>3

\* Taking a message from the channel and writing it change nothing.
LEMMA WriterKeepsResponses ==
    ASSUME SessionTypeOK, HandsEmpty, writer_recv \/ write_urb_message
    PROVE  Responses' = Responses
<1> USE DEF SessionTypeOK
<1>1. CASE writer_recv
  <2>1. writing = <<>> /\ channel # <<>> /\ channel \in Seq(Message) /\ wire \in Seq(Message)
    BY <1>1 DEF writer_recv, HandsEmpty
  <2>2. Head(channel) \in Message /\ Tail(channel) \in Seq(Message)
    BY <2>1, HeadTailProperties
  <2>3. <<Head(channel)>> \o Tail(channel) = channel
    BY <2>1, <2>2
  <2>4. (wire \o <<Head(channel)>>) \o Tail(channel) = wire \o (<<Head(channel)>> \o Tail(channel))
    BY <2>1, <2>2, ConcatAssociative, OneMessage
  <2>5. wire \o writing = wire
    BY <2>1, ConcatEmptySeq
  <2>6. Responses' = (wire \o <<Head(channel)>>) \o Tail(channel)
    BY <1>1 DEF writer_recv, Responses
  <2> QED
    BY <2>3, <2>4, <2>5, <2>6 DEF Responses
<1>2. CASE write_urb_message
  <2>1. wire \o writing \in Seq(Message)
    BY ConcatProperties
  <2>2. (wire \o writing) \o <<>> = wire \o writing
    BY <2>1, ConcatEmptySeq
  <2>3. Responses' = ((wire \o writing) \o <<>>) \o channel
    BY <1>2 DEF write_urb_message, Responses
  <2> QED
    BY <2>2, <2>3 DEF Responses
<1> QED
  BY <1>1, <1>2

\* When the writer stops, what was written remains.
LEMMA WriterStopsResponses ==
    ASSUME SessionTypeOK, write_fails
    PROVE  Responses' = wire /\ Responses = wire \o (writing \o channel)
<1>1. wire \in Seq(Message) /\ writing \in Seq(Message) /\ channel \in Seq(Message)
  BY DEF SessionTypeOK
<1>2. (wire \o writing) \o channel = wire \o (writing \o channel)
  BY <1>1, ConcatAssociative
<1>3. (wire \o <<>>) \o <<>> = wire
  BY <1>1, ConcatEmptySeq
<1> QED
  BY <1>2, <1>3 DEF write_fails, Responses

-----------------------------------------------------------------------------
\* A session starts without responses.
LEMMA ResponseInitInv == SessionInit => ResponseInv
<1> SUFFICES ASSUME SessionInit PROVE ResponseInv
  OBVIOUS
<1>1. Responses = <<>>
  BY DEF SessionInit, Responses
<1>2. DOMAIN Responses = {}
  BY <1>1
<1> QED
  BY <1>2 DEF SessionInit, ResponseInv, HandsEmpty, SentBySender, SentIsThere, AnswerPrepared,
              Backed, Single, Has, Closed

\* A step that leaves the responses and the tasks alone, but for what is said
\* of it, keeps what the invariant says of the responses alone.
LEMMA SameResponses ==
    ASSUME Backed(Responses), Single(Responses), Responses' = Responses
    PROVE  Backed(Responses)' /\ Single(Responses)'
<1>1. Backed(Responses)' <=> Backed(Responses)
  BY DEF Backed, RetSubmit, Cancelled, RetUnlink, ECONNRESET
<1>2. Single(Responses)' <=> Single(Responses)
  BY DEF Single
<1> QED
  BY <1>1, <1>2

\* The steps of the reader preserve the invariant.
LEMMA ReaderResponseStep ==
    ASSUME SessionInv, ResponseInv, ReaderStep PROVE ResponseInv'
<1> USE DEF taskVars, writerVars
<1>1. ASSUME wire' = wire, writing' = writing, channel' = channel PROVE Responses' = Responses
  BY <1>1 DEF Responses
<1>2. ASSUME NEW s \in Seqnums, read_submit(s) PROVE ResponseInv'
  <2>1. Responses' = Responses
    BY <1>1, <1>2 DEF read_submit
  <2>2. Backed(Responses)' /\ Single(Responses)'
    BY <2>1, SameResponses DEF ResponseInv
  <2>3. task \in [Seqnums -> {"none", "spawned", "transferring", "polled", "blocked", "sent", "ended"}]
    BY DEF SessionInv, SessionTypeOK
  <2>4. SentBySender' /\ SentIsThere'
    BY <1>2, <2>1, <2>3 DEF ResponseInv, SentBySender, SentIsThere, read_submit, Has, Closed
  <2>5. HandsEmpty' /\ AnswerPrepared'
    BY <1>2, <2>1 DEF ResponseInv, HandsEmpty, AnswerPrepared, read_submit, Closed
  <2> QED
    BY <2>2, <2>4, <2>5 DEF ResponseInv
<1>3. ASSUME NEW s \in Seqnums, handle_unlink(s) PROVE ResponseInv'
  <2>1. Responses' = Responses
    BY <1>1, <1>3 DEF handle_unlink
  <2>2. Backed(Responses)' /\ Single(Responses)'
    BY <2>1, SameResponses DEF ResponseInv
  <2>3. HandsEmpty' /\ SentBySender'
    BY <1>3, <2>1 DEF ResponseInv, HandsEmpty, SentBySender, handle_unlink, Has, Closed
  <2>4. response = <<>> /\ reader = "reading"
    BY <1>3 DEF ResponseInv, HandsEmpty, handle_unlink
  <2>5. \A r \in Seqnums : response # <<Cancelled(r)>>
    BY <2>4
  <2>6. CASE s \in in_flight
    <3>1. response' = <<Cancelled(s)>> /\ aborted' = aborted \union {s}
      BY <1>3, <2>6 DEF handle_unlink, Cancelled
    <3>2. SentIsThere'
      BY <1>3, <2>1, <2>4, <2>5, <3>1
         DEF ResponseInv, SentIsThere, handle_unlink, Has, Closed
    <3>3. AnswerPrepared'
      BY <3>1 DEF AnswerPrepared
    <3> QED
      BY <2>2, <2>3, <3>2, <3>3 DEF ResponseInv
  <2>7. CASE s \notin in_flight
    <3>1. response' = <<RetUnlink(s, 0)>> /\ aborted' = aborted
      BY <1>3, <2>7 DEF handle_unlink
    <3>2. SentIsThere'
      BY <1>3, <2>1, <2>4, <2>5, <3>1
         DEF ResponseInv, SentIsThere, handle_unlink, Has, Closed
    <3>3. s \in aborted \/ task[s] \in {"sent", "ended"}
      BY <1>3, <2>4, <2>7 DEF SessionInv, SessionTypeOK, ReaderState, EveryTaskTracked, handle_unlink
    <3>4. ~Closed => Has(Responses, RetSubmit(s)) \/ Has(Responses, Cancelled(s))
      BY <2>4, <2>5, <3>3 DEF ResponseInv, SentIsThere
    <3>5. AnswerPrepared'
      BY <1>3, <2>1, <3>1, <3>4 DEF AnswerPrepared, handle_unlink, Closed, Has
    <3> QED
      BY <2>2, <2>3, <3>2, <3>5 DEF ResponseInv
  <2> QED
    BY <2>6, <2>7
<1>4. CASE send_unlink_response /\ ~Closed
  <2>1. PICK s \in Seqnums :
            \/ response = <<Cancelled(s)>>
            \/ /\ response = <<RetUnlink(s, 0)>>
               /\ Has(Responses, RetSubmit(s)) \/ Has(Responses, Cancelled(s))
    BY <1>4 DEF ResponseInv, AnswerPrepared, send_unlink_response
  <2> DEFINE m == response[1]
  <2>2. m = Cancelled(s) \/ m = RetUnlink(s, 0)
    BY <2>1
  <2>3. /\ m \in Message /\ m.type = "RetUnlink" /\ m.seqnum = s
        /\ \A r : m # RetSubmit(r)
        /\ m.status = 0 => Has(Responses, RetSubmit(s)) \/ Has(Responses, Cancelled(s))
    BY <2>1, <2>2 DEF Cancelled, RetUnlink, RetSubmit, Message, ECONNRESET
  <2>4. /\ Responses \in Seq(Message)
        /\ Responses' = Append(Responses, m)
    BY <1>4, <2>3, ResponsesType, EntersChannel DEF SessionInv, send_unlink_response
  <2> HIDE DEF m
  <2>5. Backed(Append(Responses, m)) /\ Single(Append(Responses, m))
    BY <2>3, <2>4, AppendBacked, AppendSingle DEF ResponseInv
  <2>6. Backed(Responses)' /\ Single(Responses)'
    BY <2>4, <2>5 DEF Backed, Single, RetSubmit, Cancelled, RetUnlink, ECONNRESET
  <2>7. \A n : Has(Responses', n) <=> Has(Responses, n) \/ n = m
    BY <2>3, <2>4, AppendHas
  <2>8. HandsEmpty' /\ AnswerPrepared'
    BY <1>4 DEF ResponseInv, HandsEmpty, AnswerPrepared, send_unlink_response, Closed
  <2>9. SentBySender'
    BY <1>4, <2>3, <2>7 DEF ResponseInv, SentBySender, send_unlink_response, RetSubmit
  <2>10. ASSUME NEW r \in Seqnums, response = <<Cancelled(r)>> PROVE m = Cancelled(r)
    BY <2>10 DEF m
  <2>11. SentIsThere'
    BY <1>4, <2>7, <2>10 DEF ResponseInv, SentIsThere, send_unlink_response, Closed, Cancelled, RetSubmit
  <2> QED
    BY <2>6, <2>8, <2>9, <2>11 DEF ResponseInv
<1>5. CASE \/ insert_in_flight \/ read_fails \/ cancel_all_in_flight \/ run_returns
           \/ (send_unlink_response /\ Closed)
  <2>1. Responses' = Responses /\ task' = task /\ writer' = writer /\ writing' = writing
        /\ channel' = channel
    BY <1>1, <1>5 DEF insert_in_flight, read_fails, cancel_all_in_flight, run_returns,
                      send_unlink_response
  <2>2. Backed(Responses)' /\ Single(Responses)'
    BY <2>1, SameResponses DEF ResponseInv
  <2>3. SentBySender'
    BY <2>1 DEF ResponseInv, SentBySender, Has
  <2>4. HandsEmpty' /\ AnswerPrepared'
    BY <1>5, <2>1 DEF ResponseInv, HandsEmpty, AnswerPrepared, Closed, insert_in_flight, read_fails,
                      cancel_all_in_flight, run_returns, send_unlink_response
  <2>5. SentIsThere'
    BY <1>5, <2>1 DEF ResponseInv, SentIsThere, Has, Closed, insert_in_flight, read_fails,
                      cancel_all_in_flight, run_returns, send_unlink_response
  <2> QED
    BY <2>2, <2>3, <2>4, <2>5 DEF ResponseInv
<1>6. CASE send_unlink_response
  BY <1>4, <1>5, <1>6
<1>7. CASE insert_in_flight \/ read_fails \/ cancel_all_in_flight \/ run_returns
  BY <1>5, <1>7
<1> QED
  BY <1>2, <1>3, <1>6, <1>7 DEF ReaderStep

\* The steps of the transfer tasks preserve the invariant.
LEMMA TaskResponseStep ==
    ASSUME SessionInv, ResponseInv, NEW s \in Seqnums, TaskStep(s) PROVE ResponseInv'
<1> USE DEF readerVars, SetTask
<1>1. task \in [Seqnums -> {"none", "spawned", "transferring", "polled", "blocked", "sent", "ended"}]
  BY DEF SessionInv, SessionTypeOK
<1>2. CASE task_sends(s) /\ ~Closed
  <2>1. RetSubmit(s) \in Message /\ RetSubmit(s).type = "RetSubmit"
    BY DEF RetSubmit, Message
  <2>2. /\ Responses \in Seq(Message)
        /\ Responses' = Append(Responses, RetSubmit(s))
    BY <1>2, <2>1, ResponsesType, EntersChannel DEF SessionInv, task_sends
  <2>3. ~Has(Responses, RetSubmit(s))
    BY <1>2 DEF ResponseInv, SentBySender, task_sends
  <2>4. Backed(Append(Responses, RetSubmit(s))) /\ Single(Append(Responses, RetSubmit(s)))
    BY <2>1, <2>2, <2>3, AppendBacked, AppendSingle DEF ResponseInv
  <2>5. Backed(Responses)' /\ Single(Responses)'
    BY <2>2, <2>4 DEF Backed, Single, RetSubmit, Cancelled, RetUnlink, ECONNRESET
  <2>6. \A n : Has(Responses', n) <=> Has(Responses, n) \/ n = RetSubmit(s)
    BY <2>1, <2>2, AppendHas
  <2>7. \A r \in Seqnums : RetSubmit(r) = RetSubmit(s) => r = s
    BY DEF RetSubmit
  <2>8. HandsEmpty'
    BY <1>2 DEF ResponseInv, HandsEmpty, task_sends, Closed
  <2>9. SentBySender'
    BY <1>1, <1>2, <2>6, <2>7 DEF ResponseInv, SentBySender, task_sends, RetSubmit
  <2>10. SentIsThere'
    BY <1>1, <1>2, <2>6 DEF ResponseInv, SentIsThere, task_sends, Closed, Cancelled, RetSubmit
  <2>11. AnswerPrepared'
    BY <1>2, <2>6 DEF ResponseInv, AnswerPrepared, task_sends, Closed, Cancelled, RetSubmit
  <2> QED
    BY <2>5, <2>8, <2>9, <2>10, <2>11 DEF ResponseInv
<1>3. ASSUME UNCHANGED <<channel, writer, writing, wire, reader, response, aborted>>,
             SentBySender', SentIsThere'
      PROVE  ResponseInv'
  <2>1. Responses' = Responses
    BY <1>3 DEF Responses
  <2>2. Backed(Responses)' /\ Single(Responses)'
    BY <2>1, SameResponses DEF ResponseInv
  <2>3. HandsEmpty' /\ AnswerPrepared'
    BY <1>3, <2>1 DEF ResponseInv, HandsEmpty, AnswerPrepared, Closed, Has
  <2> QED
    BY <1>3, <2>2, <2>3 DEF ResponseInv
<1>4. ASSUME UNCHANGED <<channel, writer, writing, wire>> PROVE Responses' = Responses
  BY <1>4 DEF Responses
<1>5. CASE task_starts(s) \/ transfer_ends(s) \/ task_resumes(s) \/ task_blocks(s)
  <2>1. UNCHANGED <<channel, writer, writing, wire, reader, response, aborted>>
    BY <1>5 DEF task_starts, transfer_ends, task_resumes, task_blocks, writerVars
  <2>2. Responses' = Responses
    BY <1>4, <2>1
  <2>3. \A r \in Seqnums : task'[r] \in {"sent", "ended"} <=> task[r] \in {"sent", "ended"}
    BY <1>1, <1>5 DEF task_starts, transfer_ends, task_resumes, task_blocks
  <2>4. \A r \in Seqnums : task[r] \in {"sent", "ended"} => task'[r] = task[r]
    BY <1>1, <1>5 DEF task_starts, transfer_ends, task_resumes, task_blocks
  <2>5. SentBySender'
    BY <2>2, <2>3 DEF ResponseInv, SentBySender, Has
  <2>6. SentIsThere'
    BY <2>1, <2>2, <2>3, <2>4 DEF ResponseInv, SentIsThere, Has, Closed
  <2> QED
    BY <1>3, <2>1, <2>5, <2>6
<1>6. CASE task_sends(s) /\ Closed
  <2>1. UNCHANGED <<channel, writer, writing, wire, reader, response, aborted>>
    BY <1>6 DEF task_sends
  <2>2. Responses' = Responses
    BY <1>4, <2>1
  <2>3. SentBySender' /\ SentIsThere'
    BY <1>1, <1>6, <2>2 DEF ResponseInv, SentBySender, SentIsThere, Has, Closed, task_sends
  <2> QED
    BY <1>3, <2>1, <2>3
<1>7. CASE task_removes(s) \/ task_dropped(s)
  <2>1. UNCHANGED <<channel, writer, writing, wire, reader, response, aborted>>
    BY <1>7 DEF task_removes, task_dropped, writerVars
  <2>2. Responses' = Responses
    BY <1>4, <2>1
  <2>3. task' = [task EXCEPT ![s] = "ended"] /\ (task[s] = "sent" \/ s \in aborted)
    BY <1>7 DEF task_removes, task_dropped
  <2>4. SentBySender'
    BY <1>1, <2>2, <2>3 DEF ResponseInv, SentBySender, Has
  <2>5. SentIsThere'
    BY <1>1, <2>1, <2>2, <2>3 DEF ResponseInv, SentIsThere, Has, Closed
  <2> QED
    BY <1>3, <2>1, <2>4, <2>5
<1>8. CASE task_sends(s)
  BY <1>2, <1>6, <1>8
<1> QED
  BY <1>5, <1>7, <1>8 DEF TaskStep

\* The steps of the writer preserve the invariant.
LEMMA WriterResponseStep ==
    ASSUME SessionInv, ResponseInv, WriterStep PROVE ResponseInv'
<1> USE DEF readerVars, taskVars
<1>1. CASE writer_recv \/ write_urb_message \/ writer_ends
  <2>1. Responses' = Responses
    BY <1>1, WriterKeepsResponses DEF SessionInv, ResponseInv, writer_ends, Responses
  <2>2. Backed(Responses)' /\ Single(Responses)'
    BY <2>1, SameResponses DEF ResponseInv
  <2>3. HandsEmpty'
    BY <1>1 DEF ResponseInv, HandsEmpty, Closed, writer_recv, write_urb_message, writer_ends
  <2>4. SentBySender' /\ SentIsThere' /\ AnswerPrepared'
    BY <1>1, <2>1 DEF ResponseInv, SentBySender, SentIsThere, AnswerPrepared, Has, Closed,
                      writer_recv, write_urb_message, writer_ends
  <2> QED
    BY <2>2, <2>3, <2>4 DEF ResponseInv
<1>2. CASE write_fails
  <2>1. /\ wire \in Seq(Message) /\ writing \o channel \in Seq(Message)
        /\ Responses' = wire /\ Responses = wire \o (writing \o channel)
    BY <1>2, WriterStopsResponses, ConcatProperties DEF SessionInv, SessionTypeOK
  <2>2. /\ \A n : Has(wire, n) => Has(Responses, n)
        /\ Backed(wire) /\ Single(wire)
    BY <2>1, PrefixKept DEF ResponseInv
  <2>3. Backed(Responses)' /\ Single(Responses)'
    BY <2>1, <2>2 DEF Backed, Single, RetSubmit, Cancelled, RetUnlink, ECONNRESET
  <2>4. SentBySender'
    BY <1>2, <2>1, <2>2 DEF ResponseInv, SentBySender, write_fails, Has, RetSubmit
  <2>5. HandsEmpty' /\ SentIsThere' /\ AnswerPrepared'
    BY <1>2 DEF ResponseInv, HandsEmpty, SentIsThere, AnswerPrepared, Closed, write_fails
  <2> QED
    BY <2>3, <2>4, <2>5 DEF ResponseInv
<1> QED
  BY <1>1, <1>2 DEF WriterStep

-----------------------------------------------------------------------------
\* The invariant holds in every reachable state.
THEOREM ResponseInvCorrect == SessionSpec => []ResponseInv
<1>1. SessionInv /\ ResponseInv /\ [SessionNext]_sessionVars => ResponseInv'
  <2> SUFFICES ASSUME SessionInv, ResponseInv, [SessionNext]_sessionVars PROVE ResponseInv'
    OBVIOUS
  <2>1. CASE finished \/ UNCHANGED sessionVars
    <3>1. UNCHANGED <<channel, writer, writing, wire, reader, response, aborted, task>>
      BY <2>1 DEF finished, sessionVars, readerVars, taskVars, writerVars
    <3>2. Responses' = Responses
      BY <3>1 DEF Responses
    <3>3. Backed(Responses)' /\ Single(Responses)'
      BY <3>2, SameResponses DEF ResponseInv
    <3> QED
      BY <3>1, <3>2, <3>3 DEF ResponseInv, HandsEmpty, SentBySender, SentIsThere, AnswerPrepared,
                              Has, Closed
  <2> QED
    BY <2>1, ReaderResponseStep, TaskResponseStep, WriterResponseStep DEF SessionNext
<1> QED
  BY <1>1, ResponseInitInv, SessionInvCorrect, PTL DEF SessionSpec

\* A "not found" on the connection comes after the answer it relies on.
THEOREM NotFoundIsAnsweredHolds == SessionSpec => []NotFoundIsAnswered
<1>1. ResponseInv => NotFoundIsAnswered
  BY DEF ResponseInv, Backed, NotFoundIsAnswered, Cancelled
<1> QED
  BY <1>1, ResponseInvCorrect, PTL

\* No CmdSubmit is answered by two RetSubmits.
THEOREM AtMostOneReturnHolds == SessionSpec => []AtMostOneReturn
<1>1. ResponseInv => AtMostOneReturn
  BY DEF ResponseInv, Single, AtMostOneReturn
<1> QED
  BY <1>1, ResponseInvCorrect, PTL

\* While the session runs and its writer lives, a URB whose task has ended was
\* answered or reported cancelled.
THEOREM NoUrbForgottenHolds == SessionSpec => []NoUrbForgotten
<1>1. SessionInv /\ ResponseInv => NoUrbForgotten
  <2> SUFFICES ASSUME SessionInv, ResponseInv, NEW s \in Seqnums,
                      task[s] = "ended", ~Closed, reader # "draining"
               PROVE  \E i \in DOMAIN (Responses \o response) :
                          (Responses \o response)[i] \in {RetSubmit(s), RetUnlink(s, ECONNRESET)}
    BY DEF NoUrbForgotten
  <2>1. \/ Has(Responses, RetSubmit(s)) \/ Has(Responses, Cancelled(s))
        \/ response = <<Cancelled(s)>>
    BY DEF ResponseInv, SentIsThere, HandsEmpty
  <2>2. Responses \in Seq(Message) /\ response \in Seq(Message)
    BY ResponsesType DEF SessionInv, SessionTypeOK
  <2>3. CASE response = <<Cancelled(s)>>
    <3>1. Len(response) = 1 /\ response[1] = Cancelled(s)
      BY <2>3
    <3>2. /\ Len(Responses) + 1 \in DOMAIN (Responses \o response)
          /\ (Responses \o response)[Len(Responses) + 1] = response[1]
      BY <2>2, <3>1, LastOfConcat
    <3> QED
      BY <3>1, <3>2 DEF Cancelled
  <2>4. CASE Has(Responses, RetSubmit(s)) \/ Has(Responses, Cancelled(s))
    <3>1. Has(Responses \o response, RetSubmit(s)) \/ Has(Responses \o response, Cancelled(s))
      BY <2>2, <2>4, PrefixKept
    <3> QED
      BY <3>1 DEF Has, Cancelled
  <2> QED
    BY <2>1, <2>3, <2>4
<1> QED
  BY <1>1, SessionInvCorrect, ResponseInvCorrect, PTL
=============================================================================
