-------------------------- MODULE MacClientProofs ---------------------------
(***************************************************************************)
(* Proofs about the macOS side of the client: the ring and the in-flight   *)
(* table of the storage and HID devices with the forwarding loop, and the  *)
(* device table under concurrent attaches, for any number of requests,     *)
(* slots, places and attaches.                                             *)
(***************************************************************************)
EXTENDS MCMacClient, FiniteSetTheorems, TLAPS

Places == 0..RingCapacity - 1

\* An index that has gone round at most once, without the division.
Wrap(x) == IF x < RingCapacity THEN x ELSE x - RingCapacity

\* The n entries of an array from the index h on.
Entries(p, h, n) == [i \in 1..n |-> p[Wrap(h + i - 1)]]

\* The two indices and the counter of the ring fit together.
RingOK ==
    /\ pending \in [Places -> Nat]
    /\ pendingHead \in Places /\ pendingTail \in Places
    /\ pendingCount \in 0..RingCapacity
    /\ pendingTail = Wrap(pendingHead + pendingCount)

-----------------------------------------------------------------------------
LEMMA Wrapped ==
    ASSUME NEW x \in Nat, x < 2 * RingCapacity
    PROVE  x % RingCapacity = Wrap(x)
  BY CapacityAssumption DEF Wrap

\* The index that follows an index.
LEMMA NextPlace ==
    ASSUME NEW h \in Places
    PROVE  (h + 1) % RingCapacity = Wrap(h + 1) /\ Wrap(h + 1) \in Places
<1>1. h + 1 \in Nat /\ h + 1 <= RingCapacity /\ h + 1 < 2 * RingCapacity
  BY CapacityAssumption DEF Places
<1>2. (h + 1) % RingCapacity = Wrap(h + 1)
  BY <1>1, Wrapped
<1> QED
  BY <1>1, <1>2, CapacityAssumption DEF Wrap, Places

\* The window of the model is a sequence of entries of the array.
LEMMA WindowEntries ==
    ASSUME NEW p \in [Places -> Nat], NEW h \in Places, NEW n \in 0..RingCapacity
    PROVE  /\ [i \in 1..n |-> p[(h + i - 1) % RingCapacity]] = Entries(p, h, n)
           /\ Entries(p, h, n) \in Seq(Nat) /\ Len(Entries(p, h, n)) = n
<1>1. ASSUME NEW i \in 1..n
      PROVE  (h + i - 1) % RingCapacity = Wrap(h + i - 1) /\ Wrap(h + i - 1) \in Places
  <2>1. h + i - 1 \in Nat /\ h + i - 1 < 2 * RingCapacity
    BY CapacityAssumption DEF Places
  <2>2. Wrap(h + i - 1) \in Places
    BY <2>1, CapacityAssumption DEF Wrap, Places
  <2> QED
    BY <2>1, <2>2, Wrapped
<1>2. Entries(p, h, n) \in [1..n -> Nat]
  BY <1>1 DEF Entries
<1>3. n \in Nat
  BY CapacityAssumption
<1>4. [i \in 1..n |-> p[(h + i - 1) % RingCapacity]] = Entries(p, h, n)
  BY <1>1 DEF Entries
<1> QED
  BY <1>2, <1>3, <1>4

LEMMA WindowSeq ==
    ASSUME RingOK
    PROVE  /\ Window = Entries(pending, pendingHead, pendingCount)
           /\ Window \in Seq(Nat) /\ Len(Window) = pendingCount /\ pendingCount \in Nat
<1>1. Window = Entries(pending, pendingHead, pendingCount)
  BY WindowEntries, Zenon DEF Window, RingOK
<1> QED
  BY <1>1, WindowEntries, CapacityAssumption DEF RingOK

\* Putting a request into a ring that is not full appends it to the window.
LEMMA EnqueueAppends ==
    ASSUME RingOK, NEW r \in Nat, pendingCount < RingCapacity, enqueue(r)
    PROVE  RingOK' /\ Window' = Append(Window, r)
<1>1. /\ pending' \in [Places -> Nat] /\ pendingHead' \in Places
      /\ pendingCount' \in 0..RingCapacity /\ pendingCount' = pendingCount + 1
      /\ pendingTail' = Wrap(pendingTail + 1) /\ pendingTail' \in Places
  BY NextPlace, CapacityAssumption DEF RingOK, enqueue
<1>2. pendingTail' = Wrap(pendingHead' + pendingCount')
  BY <1>1, CapacityAssumption DEF RingOK, enqueue, Wrap, Places
<1>3. RingOK'
  BY <1>1, <1>2 DEF RingOK
<1>4. /\ Window = Entries(pending, pendingHead, pendingCount)
      /\ Window \in Seq(Nat) /\ Len(Window) = pendingCount
  BY WindowSeq
<1>5. /\ Window' = Entries(pending', pendingHead', pendingCount')
      /\ Window' \in Seq(Nat) /\ Len(Window') = pendingCount + 1
  <2>1. Window' = Entries(pending', pendingHead', pendingCount')
    BY <1>1, WindowEntries, Zenon DEF Window
  <2> QED
    BY <1>1, <2>1, WindowEntries
<1>6. ASSUME NEW i \in 1..pendingCount + 1
      PROVE  Window'[i] = Append(Window, r)[i]
  <2> DEFINE j == Wrap(pendingHead + i - 1)
  <2>1. j \in Places /\ (j = pendingTail <=> i = pendingCount + 1)
    BY CapacityAssumption DEF RingOK, Places, Wrap
  <2>2. pending'[j] = IF i = pendingCount + 1 THEN r ELSE pending[j]
    BY <2>1 DEF enqueue, RingOK
  <2>3. Window'[i] = pending'[j]
    BY <1>1, <1>5 DEF enqueue, Entries
  <2>4. i # pendingCount + 1 => i \in 1..pendingCount /\ Window[i] = pending[j]
    BY <1>4 DEF RingOK, Entries
  <2> QED
    BY <1>4, <2>2, <2>3, <2>4
<1>7. Append(Window, r) \in Seq(Nat) /\ Len(Append(Window, r)) = pendingCount + 1
  BY <1>4
<1> QED
  BY <1>3, <1>5, <1>6, <1>7

\* The request that is handed out is the first of the window.
LEMMA DequeueTakesHead ==
    ASSUME RingOK, NEW r, dequeuePendingOutput(r)
    PROVE  RingOK' /\ Window # <<>> /\ r = Head(Window) /\ Window' = Tail(Window)
<1>1. /\ pending' = pending /\ pendingTail' = pendingTail /\ pendingCount > 0
      /\ pendingCount' \in 0..RingCapacity /\ pendingCount' = pendingCount - 1
      /\ pendingHead' = Wrap(pendingHead + 1) /\ pendingHead' \in Places
  BY NextPlace, CapacityAssumption DEF RingOK, dequeuePendingOutput
<1>2. pendingTail' = Wrap(pendingHead' + pendingCount')
  BY <1>1, CapacityAssumption DEF RingOK, Wrap, Places
<1>3. RingOK'
  BY <1>1, <1>2 DEF RingOK
<1>4. /\ Window = Entries(pending, pendingHead, pendingCount)
      /\ Window \in Seq(Nat) /\ Len(Window) = pendingCount
  BY WindowSeq
<1>5. /\ Window' = Entries(pending, pendingHead', pendingCount')
      /\ Window' \in Seq(Nat) /\ Len(Window') = pendingCount - 1
  <2>1. Window' = Entries(pending', pendingHead', pendingCount')
    BY <1>3, WindowEntries, Zenon DEF Window, RingOK
  <2> QED
    BY <1>1, <2>1, WindowEntries DEF RingOK
<1>6. r = Window[1]
  <2>1. 1 \in 1..pendingCount /\ Wrap(pendingHead + 1 - 1) = pendingHead
    BY <1>1, CapacityAssumption DEF RingOK, Wrap, Places
  <2> QED
    BY <1>4, <2>1 DEF dequeuePendingOutput, Entries
<1>7. ASSUME NEW i \in 1..pendingCount - 1
      PROVE  Window'[i] = Window[i + 1]
  <2>1. i \in 1..pendingCount' /\ i + 1 \in 1..pendingCount
    BY <1>1 DEF RingOK
  <2>2. Wrap(pendingHead' + i - 1) = Wrap(pendingHead + (i + 1) - 1)
    BY <1>1, CapacityAssumption DEF RingOK, Places, Wrap
  <2> QED
    BY <1>4, <1>5, <2>1, <2>2 DEF Entries
<1>8. Window # <<>> /\ Tail(Window) \in Seq(Nat) /\ Len(Tail(Window)) = pendingCount - 1
  BY <1>1, <1>4
<1> QED
  BY <1>3, <1>4, <1>5, <1>6, <1>7, <1>8

-----------------------------------------------------------------------------
\* No request is queued twice.
QueuedOnce == \A i, j \in 1..pendingCount : Window[i] = Window[j] => i = j

LEMMA EnqueueAdds ==
    ASSUME RingOK, NEW r \in Nat, pendingCount < RingCapacity, enqueue(r)
    PROVE  /\ RingOK' /\ Window' = Append(Window, r)
           /\ Queued' = Queued \union {r}
           /\ QueuedOnce /\ r \notin Queued => QueuedOnce'
<1>1. RingOK' /\ Window' = Append(Window, r) /\ pendingCount' = pendingCount + 1
  BY EnqueueAppends DEF enqueue
<1>2. Window \in Seq(Nat) /\ Len(Window) = pendingCount /\ pendingCount \in Nat
  BY WindowSeq
<1>3. \A i \in 1..pendingCount + 1 :
         Window'[i] = IF i = pendingCount + 1 THEN r ELSE Window[i]
  BY <1>1, <1>2
<1>4. Queued' = Queued \union {r}
  <2>1. Queued' = {Window'[i] : i \in 1..pendingCount + 1}
    BY <1>1 DEF Queued
  <2>2. \A i \in 1..pendingCount : i \in 1..pendingCount + 1 /\ i # pendingCount + 1
    BY <1>2
  <2>3. \A i \in 1..pendingCount + 1 : i = pendingCount + 1 \/ i \in 1..pendingCount
    BY <1>2
  <2>4. pendingCount + 1 \in 1..pendingCount + 1
    BY <1>2
  <2> QED
    BY <1>3, <2>1, <2>2, <2>3, <2>4 DEF Queued
<1>5. ASSUME QueuedOnce, r \notin Queued PROVE QueuedOnce'
  BY <1>1, <1>2, <1>3, <1>5 DEF QueuedOnce, Queued
<1> QED
  BY <1>1, <1>4, <1>5

LEMMA DequeueRemoves ==
    ASSUME RingOK, QueuedOnce, NEW r, dequeuePendingOutput(r)
    PROVE  /\ RingOK' /\ Window # <<>> /\ Window' = Tail(Window) /\ QueuedOnce'
           /\ r \in Queued /\ Queued' = Queued \ {r}
<1>1. /\ RingOK' /\ Window # <<>> /\ r = Head(Window) /\ Window' = Tail(Window)
      /\ pendingCount' = pendingCount - 1 /\ pendingCount > 0
  BY DequeueTakesHead DEF dequeuePendingOutput
<1>2. Window \in Seq(Nat) /\ Len(Window) = pendingCount /\ pendingCount \in Nat
  BY WindowSeq
<1>3. /\ r = Window[1] /\ 1 \in 1..pendingCount
      /\ \A i \in 1..pendingCount - 1 : Window'[i] = Window[i + 1]
  BY <1>1, <1>2
<1>4. QueuedOnce'
  BY <1>1, <1>2, <1>3 DEF QueuedOnce
<1>5. Queued' = {Window'[i] : i \in 1..pendingCount - 1}
  BY <1>1 DEF Queued
<1>6. Queued' \subseteq Queued \ {r}
  <2>1. \A i \in 1..pendingCount - 1 : i + 1 \in 1..pendingCount /\ i + 1 # 1
    BY <1>2
  <2> QED
    BY <1>3, <1>5, <2>1 DEF Queued, QueuedOnce
<1>7. Queued \ {r} \subseteq Queued'
  <2>1. \A i \in 1..pendingCount : i = 1 \/ (i - 1 \in 1..pendingCount - 1 /\ (i - 1) + 1 = i)
    BY <1>2
  <2> QED
    BY <1>3, <1>5, <2>1 DEF Queued
<1> QED
  BY <1>1, <1>3, <1>4, <1>6, <1>7 DEF Queued

\* The counter counts the requests.
LEMMA CountOfQueued ==
    ASSUME RingOK, QueuedOnce
    PROVE  Cardinality(Queued) = pendingCount
<1>1. pendingCount \in Nat /\ Window \in [1..pendingCount -> Nat]
  BY WindowSeq
<1>2. Window \in [1..pendingCount -> Queued]
  BY <1>1 DEF Queued
<1>3. Window \in Bijection(1..pendingCount, Queued)
  BY <1>2 DEF Queued, QueuedOnce, Bijection, Injection, IsInjective, Surjection
<1> QED
  BY <1>1, <1>3, FS_CountingElements DEF ExistsBijection

\* A set of slots has a first one.
LEMMA FirstOfIn == ASSUME NEW S \in SUBSET Nat, S # {} PROVE FirstOf(S) \in S
<1> DEFINE Below == {ss \in Nat \X Nat : ss[1] < ss[2]}
<1>0. IsWellFoundedOn(Below, Nat)
  <2>1. Below = OpToRel(<, Nat)
    BY Zenon DEF OpToRel
  <2> QED
    BY <2>1, NatLessThanWellFounded, Zenon
<1>1. PICK i \in S : \A j \in S : ~(<<j, i>> \in Below)
  <2> HIDE DEF Below
  <2> QED BY <1>0, WFMin
<1>2. ASSUME NEW j \in S PROVE i <= j
  <2>1. ~(<<j, i>> \in Below)
    BY <1>1, Zenon
  <2>2. i \in Nat /\ j \in Nat
    OBVIOUS
  <2> QED
    BY ONLY <2>1, <2>2
<1> QED
  BY <1>2 DEF FirstOf

-----------------------------------------------------------------------------
\* A slot of the table is empty or holds one request, each its own.
TableOK ==
    /\ inFlight \in [Slots -> {{}} \union {{r} : r \in Nat}]
    /\ TableIsOutstanding

\* A request that gets a slot of its own.
LEMMA TrackAdds ==
    ASSUME TableOK, Free # {}, NEW r \in Nat, r \notin outstanding,
           inFlight' = [inFlight EXCEPT ![FirstOf(Free)] = {r}],
           outstanding' = outstanding \union {r}
    PROVE  TableOK'
<1> DEFINE k == FirstOf(Free)
<1>1. k \in Slots /\ inFlight[k] = {}
  BY FirstOfIn, CapacityAssumption DEF Free, Slots
<1> HIDE DEF k
<1>2. /\ inFlight' = [inFlight EXCEPT ![k] = {r}]
      /\ inFlight' \in [Slots -> {{}} \union {{x} : x \in Nat}]
  BY <1>1 DEF TableOK, k
<1>3. \A i \in Slots : inFlight'[i] = IF i = k THEN {r} ELSE inFlight[i]
  BY <1>1, <1>2 DEF TableOK
<1>4. outstanding' = UNION {inFlight'[i] : i \in Slots}
  BY <1>1, <1>3 DEF TableOK, TableIsOutstanding
<1>5. \A i \in Slots : inFlight[i] # {r}
  BY DEF TableOK, TableIsOutstanding
<1>6. \A i, j \in Slots : inFlight'[i] = inFlight'[j] /\ i # j => inFlight'[i] = {}
  BY <1>1, <1>3, <1>5 DEF TableOK, TableIsOutstanding
<1> QED
  BY <1>2, <1>4, <1>6 DEF TableOK, TableIsOutstanding

\* completeRequest frees the slot of the request, if it has one.
LEMMA CompleteRemoves ==
    ASSUME TableOK, NEW r, completeRequest(r)
    PROVE  TableOK' /\ outstanding' = outstanding \ {r}
<1> DEFINE holders == {i \in Slots : inFlight[i] = {r}}
<1>1. CASE holders = {}
  <2>1. r \notin outstanding
    BY <1>1 DEF TableOK, TableIsOutstanding
  <2> QED
    BY <1>1, <2>1 DEF completeRequest, tableVars, TableOK, TableIsOutstanding
<1>2. CASE holders # {}
  <2> DEFINE k == FirstOf(holders)
  <2>1. k \in Slots /\ inFlight[k] = {r}
    <3>1. holders \in SUBSET Nat
      BY CapacityAssumption DEF Slots
    <3>2. k \in holders
      <4> HIDE DEF holders
      <4> QED BY <1>2, <3>1, FirstOfIn
    <3> QED
      BY <3>2
  <2>2. inFlight' = [inFlight EXCEPT ![k] = {}] /\ outstanding' = outstanding \ {r}
    BY <1>2 DEF completeRequest
  <2> HIDE DEF k, holders
  <2>3. inFlight' \in [Slots -> {{}} \union {{x} : x \in Nat}]
    BY <2>1, <2>2 DEF TableOK
  <2>4. \A i \in Slots : inFlight'[i] = IF i = k THEN {} ELSE inFlight[i]
    BY <2>1, <2>2 DEF TableOK
  <2>5. \A i \in Slots : i # k => r \notin inFlight[i]
    BY <2>1 DEF TableOK, TableIsOutstanding
  <2>6. outstanding' = UNION {inFlight'[i] : i \in Slots}
    BY <2>1, <2>2, <2>4, <2>5 DEF TableOK, TableIsOutstanding
  <2>7. \A i, j \in Slots : inFlight'[i] = inFlight'[j] /\ i # j => inFlight'[i] = {}
    BY <2>1, <2>4 DEF TableOK, TableIsOutstanding
  <2> QED
    BY <2>2, <2>3, <2>6, <2>7 DEF TableOK, TableIsOutstanding
<1> QED
  BY <1>1, <1>2

\* Only the table limits the storage device, and it is no larger than the
\* ring: while a slot is free the ring has room.
LEMMA FreeSlotMeansRoom ==
    ASSUME RingOK, QueuedOnce, TableOK, Queued \subseteq outstanding, Free # {}
    PROVE  pendingCount < RingCapacity
<1> DEFINE n == pendingCount
           slot == [i \in 1..n |-> CHOOSE k \in Slots : inFlight[k] = {Window[i]}]
           taken == Slots \ Free
<1>1. n \in Nat /\ InFlightCapacity \in Nat /\ InFlightCapacity <= RingCapacity
  BY CapacityAssumption DEF RingOK
<1>2. ASSUME NEW i \in 1..n
      PROVE  slot[i] \in taken /\ inFlight[slot[i]] = {Window[i]}
  <2>1. Window[i] \in outstanding
    BY DEF Queued
  <2>2. \E k \in Slots : inFlight[k] = {Window[i]}
    BY <2>1 DEF TableOK, TableIsOutstanding
  <2> QED
    BY <2>2 DEF Free
<1>3. slot \in Injection(1..n, taken)
  <2>1. slot \in [1..n -> taken]
    BY <1>2
  <2>2. ASSUME NEW i \in 1..n, NEW j \in 1..n, slot[i] = slot[j] PROVE i = j
    <3>1. {Window[i]} = {Window[j]}
      BY <1>2, <2>2
    <3> QED
      BY <3>1 DEF QueuedOnce
  <2> HIDE DEF slot
  <2> QED
    BY <2>1, <2>2 DEF Injection, IsInjective
<1>4. IsFiniteSet(Slots) /\ Cardinality(Slots) = InFlightCapacity
  BY <1>1, FS_Interval, CapacityAssumption DEF Slots
<1>5. IsFiniteSet(taken) /\ Cardinality(taken) < Cardinality(Slots)
  <2>1. IsFiniteSet(taken) /\ Cardinality(taken) <= Cardinality(Slots)
        /\ (Cardinality(Slots) = Cardinality(taken) => Slots = taken)
    BY <1>4, FS_Subset
  <2>2. taken # Slots
    BY DEF Free
  <2>3. Cardinality(taken) \in Nat
    BY <2>1, FS_CardinalityType
  <2> QED
    BY <1>1, <1>4, <2>1, <2>2, <2>3
<1>6. Cardinality(1..n) <= Cardinality(taken) /\ Cardinality(1..n) = n
  <2> HIDE DEF slot, taken
  <2>1. Cardinality(1..n) <= Cardinality(taken)
    BY <1>3, <1>5, FS_Injection
  <2>2. Cardinality(1..n) = n
    BY <1>1, FS_Interval
  <2> QED
    BY <2>1, <2>2
<1>7. Cardinality(taken) \in Nat
  BY <1>5, FS_CardinalityType
<1> QED
  BY <1>1, <1>4, <1>5, <1>6, <1>7, CapacityAssumption

-----------------------------------------------------------------------------
\* The requests on their way, and the ones a failed call lost on it.
Known == Queued \union waiting \union lost

\* What both devices keep: every request is in the ring once, or in the map of
\* the loop, or lost to a failed call, and the loop that runs has forgotten
\* no other.
ForwardInv ==
    /\ RingOK /\ QueuedOnce /\ TableOK
    /\ Queued \intersect waiting = {}
    /\ (Queued \union waiting) \intersect lost = {}
    /\ NoRequestForgotten

LEMMA ForwardInitInv == ForwardInit => ForwardInv /\ Queued = {} /\ Window = <<>>
<1> SUFFICES ASSUME ForwardInit PROVE ForwardInv /\ Queued = {} /\ Window = <<>>
  OBVIOUS
<1>1. RingOK
  BY CapacityAssumption DEF ForwardInit, RingOK, Places, Wrap
<1>2. pendingCount = 0
  BY DEF ForwardInit
<1>3. 1..pendingCount = {}
  BY <1>2
<1>4. Queued = {} /\ QueuedOnce
  BY <1>3 DEF Queued, QueuedOnce
<1>5. Window = <<>>
  BY <1>1, <1>2, WindowSeq
<1>6. TableOK
  BY DEF ForwardInit, TableOK, TableIsOutstanding
<1> QED
  BY <1>1, <1>4, <1>5, <1>6 DEF ForwardInv, NoRequestForgotten, ForwardInit

\* Nothing the invariants speak of changes.
LEMMA RingUnchanged ==
    ASSUME UNCHANGED ringVars
    PROVE  /\ RingOK => RingOK'
           /\ QueuedOnce => QueuedOnce'
           /\ Window' = Window /\ Queued' = Queued
<1>1. Window' = Window
  BY DEF ringVars, Window
<1>2. Queued' = Queued
  BY <1>1 DEF ringVars, Queued
<1> QED
  BY <1>1, <1>2 DEF ringVars, RingOK, QueuedOnce

LEMMA TableUnchanged == ASSUME TableOK, UNCHANGED tableVars PROVE TableOK'
  BY DEF TableOK, TableIsOutstanding, tableVars

\* A tick of urb_forward_loop that finds a request.
LEMMA ForwardStep ==
    ASSUME ForwardInv, NEW r, forward(r), UNCHANGED tableVars
    PROVE  /\ ForwardInv' /\ outstanding' = outstanding
           /\ Known' \subseteq Known
           /\ Window # <<>> /\ Window' = Tail(Window)
<1>1. dequeuePendingOutput(r)
  BY DEF forward
<1>2. /\ RingOK' /\ Window # <<>> /\ Window' = Tail(Window) /\ QueuedOnce'
      /\ r \in Queued /\ Queued' = Queued \ {r}
  BY <1>1, DequeueRemoves DEF ForwardInv
<1>3. TableOK' /\ outstanding' = outstanding
  BY TableUnchanged DEF ForwardInv, tableVars
<1>4. \/ waiting' = waiting \union {r} /\ loop' = loop /\ lost' = lost
      \/ waiting' = waiting /\ loop' = loop /\ lost' = lost \union {r}
      \/ waiting' = {} /\ loop' = "exited" /\ lost' = lost
  BY DEF forward
<1>5. NoRequestForgotten'
  BY <1>2, <1>3, <1>4 DEF ForwardInv, NoRequestForgotten
<1>6. /\ Queued' \intersect waiting' = {}
      /\ (Queued' \union waiting') \intersect lost' = {}
      /\ Known' \subseteq Known
  BY <1>2, <1>4 DEF ForwardInv, Known
<1> QED
  BY <1>2, <1>3, <1>5, <1>6 DEF ForwardInv

\* A response that is read completes its request, or its request is lost.
LEMMA ResponseStep ==
    ASSUME ForwardInv, NEW r, take_response(r), complete_request(r), UNCHANGED ringVars
    PROVE  /\ ForwardInv'
           /\ r \in waiting /\ waiting' = waiting \ {r}
           /\ Queued' = Queued /\ Window' = Window
           /\ \/ outstanding' = outstanding \ {r} /\ lost' = lost
              \/ outstanding' = outstanding /\ lost' = lost \union {r}
<1>1. /\ TableOK'
      /\ \/ outstanding' = outstanding \ {r} /\ lost' = lost
         \/ outstanding' = outstanding /\ lost' = lost \union {r}
  <2>1. CASE completeRequest(r) /\ lost' = lost
    BY <2>1, CompleteRemoves DEF ForwardInv
  <2>2. CASE lost' = lost \union {r} /\ UNCHANGED tableVars
    BY <2>2, TableUnchanged DEF ForwardInv, tableVars
  <2> QED
    BY <2>1, <2>2 DEF complete_request
<1>2. RingOK' /\ QueuedOnce' /\ Queued' = Queued /\ Window' = Window
  BY RingUnchanged DEF ForwardInv
<1>3. r \in waiting /\ waiting' = waiting \ {r} /\ loop' = loop
  BY DEF take_response
<1> QED
  BY <1>1, <1>2, <1>3 DEF ForwardInv, NoRequestForgotten

\* The other turns of the loop.
LEMMA ReadsStep ==
    ASSUME ForwardInv, reads
    PROVE  /\ ForwardInv' /\ outstanding' = outstanding
           /\ Known' \subseteq Known /\ Window' = Window
<1>1. TableOK' /\ outstanding' = outstanding
  BY TableUnchanged DEF ForwardInv, reads, tableVars
<1>2. RingOK' /\ QueuedOnce' /\ Queued' = Queued /\ Window' = Window
  BY RingUnchanged DEF ForwardInv, reads
<1>3. /\ lost' = lost
      /\ \/ waiting' = waiting /\ loop' = loop
         \/ waiting' = {} /\ loop' = "exited"
  BY DEF reads, poll_nothing, read_part, read_fails
<1> QED
  BY <1>1, <1>2, <1>3 DEF ForwardInv, NoRequestForgotten, Known

LEMMA ForwardUnchanged ==
    ASSUME ForwardInv, UNCHANGED storageVars
    PROVE  /\ ForwardInv' /\ outstanding' = outstanding
           /\ Known' = Known /\ Window' = Window
<1>1. TableOK' /\ outstanding' = outstanding
  BY TableUnchanged DEF ForwardInv, storageVars, tableVars
<1>2. RingOK' /\ QueuedOnce' /\ Queued' = Queued /\ Window' = Window
  BY RingUnchanged DEF ForwardInv, storageVars
<1>3. waiting' = waiting /\ loop' = loop /\ lost' = lost
  BY DEF storageVars, loopVars
<1> QED
  BY <1>1, <1>2, <1>3 DEF ForwardInv, NoRequestForgotten, Known

\* A request that enters an empty place of the ring and a free slot.
LEMMA QueueAndTrack ==
    ASSUME ForwardInv, NEW r \in Nat, r \notin Known \union outstanding,
           pendingCount < RingCapacity, enqueue(r), UNCHANGED loopVars, Free # {},
           inFlight' = [inFlight EXCEPT ![FirstOf(Free)] = {r}],
           outstanding' = outstanding \union {r}
    PROVE  /\ ForwardInv' /\ Known' = Known \union {r}
           /\ Window' = Append(Window, r)
<1>1. /\ RingOK' /\ Window' = Append(Window, r)
      /\ Queued' = Queued \union {r} /\ QueuedOnce'
  BY EnqueueAdds DEF ForwardInv, Known
<1>2. TableOK'
  BY TrackAdds DEF ForwardInv
<1>3. waiting' = waiting /\ loop' = loop /\ lost' = lost
  BY DEF loopVars
<1> QED
  BY <1>1, <1>2, <1>3 DEF ForwardInv, NoRequestForgotten, Known

-----------------------------------------------------------------------------
(* The storage device. *)

\* The inductive invariant: every request on its way, or lost, has a slot.
StorageInv == ForwardInv /\ Known \subseteq outstanding

\* What a step does to the window: it is a step of the abstract queue.
WindowStep ==
    \/ \E r \in RequestIds : Len(Window) < RingCapacity /\ Window' = Append(Window, r)
    \/ Window # <<>> /\ Window' = Tail(Window)
    \/ Window' = Window

LEMMA StorageStep ==
    ASSUME StorageInv, StorageNext \/ UNCHANGED storageVars
    PROVE  StorageInv' /\ WindowStep
<1>1. ASSUME NEW r \in Requests, DoAsyncReadWrite(r) PROVE StorageInv' /\ WindowStep
  <2>1. CASE UNCHANGED storageVars
    BY <2>1, ForwardUnchanged DEF StorageInv, WindowStep
  <2>2. CASE ~UNCHANGED storageVars
    <3>1. /\ Free # {} /\ r \notin outstanding
          /\ inFlight' = [inFlight EXCEPT ![FirstOf(Free)] = {r}]
          /\ outstanding' = outstanding \union {r}
          /\ enqueue(r) /\ UNCHANGED loopVars
      BY <1>1, <2>2 DEF DoAsyncReadWrite
    <3>2. r \in RequestIds /\ r \in Nat
      BY RequestsAssumption, CapacityAssumption
    <3>3. pendingCount < RingCapacity
      BY <3>1, FreeSlotMeansRoom DEF StorageInv, ForwardInv, Known
    <3>4. r \notin Known \union outstanding
      BY <3>1 DEF StorageInv
    <3>5. /\ ForwardInv' /\ Known' = Known \union {r}
          /\ Window' = Append(Window, r)
      BY <3>1, <3>2, <3>3, <3>4, QueueAndTrack DEF StorageInv
    <3>6. Len(Window) < RingCapacity
      BY <3>3, WindowSeq DEF StorageInv, ForwardInv
    <3> QED
      BY <3>1, <3>2, <3>5, <3>6 DEF StorageInv, WindowStep
  <2> QED
    BY <2>1, <2>2
<1>2. ASSUME NEW r \in Requests, storage_forward(r) PROVE StorageInv' /\ WindowStep
  <2>1. /\ ForwardInv' /\ outstanding' = outstanding
        /\ Known' \subseteq Known
        /\ Window # <<>> /\ Window' = Tail(Window)
    BY <1>2, ForwardStep DEF storage_forward, StorageInv
  <2> QED
    BY <2>1 DEF StorageInv, WindowStep
<1>3. ASSUME NEW r \in Requests, storage_response(r) PROVE StorageInv' /\ WindowStep
  <2>1. /\ ForwardInv'
        /\ r \in waiting /\ waiting' = waiting \ {r}
        /\ Queued' = Queued /\ Window' = Window
        /\ \/ outstanding' = outstanding \ {r} /\ lost' = lost
           \/ outstanding' = outstanding /\ lost' = lost \union {r}
    BY <1>3, ResponseStep DEF storage_response, StorageInv
  <2> QED
    BY <2>1 DEF StorageInv, ForwardInv, Known, WindowStep
<1>4. ASSUME reads PROVE StorageInv' /\ WindowStep
  <2>1. /\ ForwardInv' /\ outstanding' = outstanding
        /\ Known' \subseteq Known /\ Window' = Window
    BY <1>4, ReadsStep DEF StorageInv
  <2> QED
    BY <2>1 DEF StorageInv, WindowStep
<1>5. ASSUME UNCHANGED storageVars PROVE StorageInv' /\ WindowStep
  BY <1>5, ForwardUnchanged DEF StorageInv, WindowStep
<1> QED
  BY <1>1, <1>2, <1>3, <1>4, <1>5 DEF StorageNext

-----------------------------------------------------------------------------
(* The HID device. *)

Ids == 1..IdModulus - 1

\* How many draws before id n the id r was drawn last, at most a round ago.
Age(r, n) == IF r < n THEN n - r ELSE n - r + IdModulus - 1

\* The ids that stand for a report the host asked for.
Used == outstanding \union refused

\* The inductive invariant: every id in use was drawn among the last issued
\* ones, which are fewer than there are ids.
HidInv ==
    /\ ForwardInv
    /\ nextRequestId \in 0..IdModulus - 1
    /\ issued \in 0..MaxRequests
    /\ Known \subseteq Used
    /\ outstanding \intersect refused = {}
    /\ Used \subseteq Ids
    /\ \A r \in Used : Age(r, NewId) <= issued

\* The id that is drawn next is in use nowhere.
LEMMA FreshId ==
    ASSUME HidInv
    PROVE  /\ NewId \in Ids /\ NewId \in RequestIds /\ NewId \in Nat /\ NewId # 0
           /\ issued < MaxRequests => NewId \notin Used
<1>0. IdModulus \in Nat /\ IdModulus >= 2 /\ MaxRequests \in Nat /\ MaxRequests <= IdModulus - 1
  BY IdsAssumption
<1>1. NewId \in Ids /\ NewId \in Nat /\ NewId # 0
  BY <1>0 DEF NewId, Ids, HidInv
<1>2. NewId \in RequestIds
  BY <1>1, IdsAssumption DEF Ids
<1>3. issued < MaxRequests => ~(Age(NewId, NewId) <= issued)
  BY <1>0, <1>1 DEF Age, Ids, HidInv
<1> QED
  BY <1>1, <1>2, <1>3 DEF HidInv

\* Drawing it ages the others by one.
LEMMA NextAge ==
    ASSUME HidInv, nextRequestId' = Successor(NewId)
    PROVE  /\ nextRequestId' \in 0..IdModulus - 1
           /\ Age(NewId, NewId') = 1
           /\ \A r \in Ids \ {NewId} : Age(r, NewId') = Age(r, NewId) + 1
<1>0. IdModulus \in Nat /\ IdModulus >= 2
  BY IdsAssumption
<1>1. NewId \in Ids
  BY FreshId
<1>2. ASSUME NEW k \in Ids
      PROVE  Successor(k) = IF k = IdModulus - 1 THEN 0 ELSE k + 1
  BY <1>0 DEF Successor, Ids
<1>3. NewId' = IF NewId = IdModulus - 1 THEN 1 ELSE NewId + 1
  <2>1. nextRequestId' = IF NewId = IdModulus - 1 THEN 0 ELSE NewId + 1
    BY <1>1, <1>2
  <2>2. NewId' = IF nextRequestId' = 0 THEN 1 ELSE nextRequestId'
    BY DEF NewId
  <2>3. NewId + 1 # 0
    BY <1>0, <1>1 DEF Ids
  <2> QED
    BY <2>1, <2>2, <2>3
<1>4. nextRequestId' \in 0..IdModulus - 1
  BY <1>0, <1>1, <1>2 DEF Ids
<1>5. ASSUME NEW k \in Ids, NEW n, n = IF k = IdModulus - 1 THEN 1 ELSE k + 1
      PROVE  /\ Age(k, n) = 1
             /\ \A r \in Ids \ {k} : Age(r, n) = Age(r, k) + 1
  BY <1>0, <1>5 DEF Age, Ids
<1> QED
  BY <1>1, <1>3, <1>4, <1>5

LEMMA HidStep ==
    ASSUME HidInv, HidNext \/ UNCHANGED hidVars
    PROVE  HidInv' /\ WindowStep
<1>u. ASSUME UNCHANGED hidVars PROVE HidInv' /\ WindowStep
  <2>1. /\ ForwardInv' /\ outstanding' = outstanding
        /\ Known' = Known /\ Window' = Window
    BY <1>u, ForwardUnchanged DEF HidInv, hidVars, storageVars
  <2>2. UNCHANGED hidDeviceVars
    BY <1>u DEF hidVars
  <2> QED
    BY <2>1, <2>2 DEF HidInv, WindowStep, Used, NewId, hidDeviceVars
<1>1. ASSUME submit_report PROVE HidInv' /\ WindowStep
  <2>1. CASE UNCHANGED hidVars
    BY <1>u, <2>1
  <2>2. CASE ~UNCHANGED hidVars
    <3>1. /\ ~RingFull /\ issued < MaxRequests /\ issued' = issued + 1
          /\ nextRequestId' = Successor(NewId)
          /\ enqueue(NewId) /\ UNCHANGED loopVars
      BY <1>1, <2>2 DEF submit_report
    <3>2. /\ NewId \in Ids /\ NewId \in RequestIds /\ NewId \in Nat /\ NewId # 0
          /\ NewId \notin Used
      BY <3>1, FreshId
    <3>3. trackInFlight(NewId)
      BY <1>1, <2>2, <3>2 DEF submit_report
    <3>4. pendingCount < RingCapacity /\ Len(Window) < RingCapacity
      BY <3>1, WindowSeq, CapacityAssumption DEF RingFull, HidInv, ForwardInv, RingOK
    <3>5. NewId \notin Known \union outstanding
      BY <3>2 DEF HidInv, Used
    <3>6. /\ ForwardInv' /\ Known' = Known \union {NewId}
          /\ Window' = Append(Window, NewId)
          /\ Used' = Used \union {NewId} /\ outstanding' \intersect refused' = {}
      <4>1. CASE Free # {}
        <5>1. /\ inFlight' = [inFlight EXCEPT ![FirstOf(Free)] = {NewId}]
              /\ outstanding' = outstanding \union {NewId} /\ refused' = refused
          BY <3>3, <4>1 DEF trackInFlight
        <5>2. /\ ForwardInv' /\ Known' = Known \union {NewId}
              /\ Window' = Append(Window, NewId)
          BY <3>1, <3>2, <3>4, <3>5, <4>1, <5>1, QueueAndTrack DEF HidInv
        <5> QED
          BY <3>2, <5>1, <5>2 DEF Used, HidInv
      <4>2. CASE Free = {}
        <5>1. refused' = refused \union {NewId} /\ UNCHANGED <<inFlight, outstanding>>
          BY <3>3, <4>2 DEF trackInFlight
        <5>2. /\ RingOK' /\ Window' = Append(Window, NewId)
              /\ Queued' = Queued \union {NewId} /\ QueuedOnce'
          BY <3>1, <3>2, <3>4, <3>5, EnqueueAdds DEF HidInv, ForwardInv, Known
        <5>3. TableOK'
          BY <5>1, TableUnchanged DEF HidInv, ForwardInv, tableVars
        <5>4. waiting' = waiting /\ loop' = loop /\ lost' = lost
          BY <3>1 DEF loopVars
        <5>5. ForwardInv' /\ Known' = Known \union {NewId}
          BY <3>5, <5>1, <5>2, <5>3, <5>4 DEF ForwardInv, NoRequestForgotten, HidInv, Known
        <5> QED
          BY <3>2, <5>1, <5>2, <5>5 DEF Used, HidInv
      <4> QED
        BY <4>1, <4>2
    <3>7. /\ nextRequestId' \in 0..IdModulus - 1
          /\ Age(NewId, NewId') = 1
          /\ \A r \in Ids \ {NewId} : Age(r, NewId') = Age(r, NewId) + 1
      BY <3>1, NextAge
    <3>8. issued \in Nat /\ issued' \in 0..MaxRequests /\ 1 <= issued'
      BY <3>1, IdsAssumption DEF HidInv
    <3>9. ASSUME NEW r \in Used' PROVE Age(r, NewId') <= issued'
      <4>1. CASE r = NewId
        BY <3>7, <3>8, <4>1
      <4>2. CASE r # NewId
        <5>1. r \in Used /\ r \in Ids
          BY <3>6, <3>9, <4>2 DEF HidInv
        <5>2. Age(r, NewId) <= issued /\ Age(r, NewId') = Age(r, NewId) + 1
          BY <3>7, <4>2, <5>1 DEF HidInv
        <5>3. Age(r, NewId) \in Int
          BY <3>2, <5>1, IdsAssumption DEF Age, Ids
        <5> QED
          BY <3>1, <3>8, <5>2, <5>3
      <4> QED
        BY <4>1, <4>2
    <3>10. Known' \subseteq Used' /\ Used' \subseteq Ids
      BY <3>2, <3>6 DEF HidInv
    <3> QED
      BY <3>2, <3>4, <3>6, <3>7, <3>8, <3>9, <3>10 DEF HidInv, WindowStep
  <2> QED
    BY <2>1, <2>2
<1>2. ASSUME NEW r \in 0..IdModulus - 1, hid_forward(r) PROVE HidInv' /\ WindowStep
  <2>1. /\ ForwardInv' /\ outstanding' = outstanding
        /\ Known' \subseteq Known
        /\ Window # <<>> /\ Window' = Tail(Window)
    BY <1>2, ForwardStep DEF hid_forward, HidInv
  <2>2. UNCHANGED hidDeviceVars
    BY <1>2 DEF hid_forward
  <2> QED
    BY <2>1, <2>2 DEF HidInv, WindowStep, Used, NewId, hidDeviceVars
<1>3. ASSUME NEW r \in 0..IdModulus - 1, hid_response(r) PROVE HidInv' /\ WindowStep
  <2>1. /\ ForwardInv'
        /\ r \in waiting /\ waiting' = waiting \ {r}
        /\ Queued' = Queued /\ Window' = Window
        /\ \/ outstanding' = outstanding \ {r} /\ lost' = lost
           \/ outstanding' = outstanding /\ lost' = lost \union {r}
    BY <1>3, ResponseStep DEF hid_response, HidInv
  <2>2. UNCHANGED hidDeviceVars
    BY <1>3 DEF hid_response
  <2> QED
    BY <2>1, <2>2 DEF HidInv, ForwardInv, Known, WindowStep, Used, NewId, hidDeviceVars
<1>4. ASSUME reads, UNCHANGED hidDeviceVars PROVE HidInv' /\ WindowStep
  <2>1. /\ ForwardInv' /\ outstanding' = outstanding
        /\ Known' \subseteq Known /\ Window' = Window
    BY <1>4, ReadsStep DEF HidInv
  <2> QED
    BY <1>4, <2>1 DEF HidInv, WindowStep, Used, NewId, hidDeviceVars
<1> QED
  BY <1>u, <1>1, <1>2, <1>3, <1>4 DEF HidNext

-----------------------------------------------------------------------------
(* Attaching. *)

Stages == {"idle", "create", "configure", "no_import", "bad_id", "slot_taken",
           "no_service", "bad_config", "attached"}

\* The inductive invariant: two requests never configure the same device.
AttachInv ==
    /\ pc \in [Attaches -> Stages] /\ device \in [Attaches -> SUBSET Devices]
    /\ IsFiniteSet(active)
    /\ NoOrphanDevice
    /\ \A a, b \in Attaches :
          pc[a] = "configure" /\ pc[b] = "configure" /\ devid(a) = devid(b) => a = b

LEMMA SameDevid ==
    ASSUME NEW b, device'[b] = device[b]
    PROVE  devid(b)' = devid(b)
<1>1. (CHOOSE x \in device'[b] : TRUE) = CHOOSE x \in device[b] : TRUE
  BY Zenon
<1> QED
  BY <1>1 DEF devid

LEMMA AttachStep ==
    ASSUME AttachInv, AttachNext \/ UNCHANGED attachVars
    PROVE  AttachInv'
<1>1. ASSUME NEW a \in Attaches, import(a) \/ respond(a) PROVE AttachInv'
  <2>1. /\ UNCHANGED <<active, deviceCount, urb_tasks>>
        /\ pc[a] # "configure" /\ pc'[a] # "configure"
        /\ \A b \in Attaches \ {a} : pc'[b] = pc[b] /\ device'[b] = device[b]
        /\ pc' \in [Attaches -> Stages] /\ device' \in [Attaches -> SUBSET Devices]
    <3>1. CASE import(a)
      BY <3>1 DEF AttachInv, Stages, import
    <3>2. CASE respond(a)
      BY <3>2 DEF AttachInv, Stages, respond
    <3> QED
      BY <1>1, <3>1, <3>2
  <2>0. \A b \in Attaches \ {a} : devid(b)' = devid(b)
    BY <2>1, SameDevid
  <2>2. \A b \in Attaches : pc'[b] = "configure" =>
            b # a /\ pc[b] = "configure" /\ devid(b)' = devid(b)
    BY <2>0, <2>1
  <2>3. \A b \in Attaches : pc[b] = "configure" =>
            b # a /\ pc'[b] = "configure" /\ devid(b)' = devid(b)
    BY <2>0, <2>1
  <2>4. NoOrphanDevice'
    BY <2>1, <2>2, <2>3 DEF AttachInv, NoOrphanDevice
  <2> QED
    BY <2>1, <2>2, <2>4 DEF AttachInv
<1>2. ASSUME NEW a \in Attaches, create_device(a) PROVE AttachInv'
  <2>1. /\ device' = device /\ urb_tasks' = urb_tasks
        /\ pc \in [Attaches -> Stages] /\ pc' \in [Attaches -> Stages]
        /\ \A b \in Attaches \ {a} : pc'[b] = pc[b]
    BY <1>2 DEF AttachInv, Stages, create_device
  <2>0. \A b \in Attaches : devid(b)' = devid(b)
    BY <2>1, SameDevid
  <2>2. CASE pc'[a] # "configure"
    <3>1. UNCHANGED <<active, deviceCount>> /\ pc[a] # "configure"
      BY <1>2, <2>1, <2>2 DEF create_device
    <3> QED
      BY <2>0, <2>1, <2>2, <3>1 DEF AttachInv, NoOrphanDevice
  <2>3. CASE pc'[a] = "configure"
    <3>1. /\ devid(a) \notin active /\ active' = active \union {devid(a)}
          /\ deviceCount' = deviceCount + 1 /\ pc[a] # "configure"
      BY <1>2, <2>1, <2>3 DEF create_device, SlotTaken
    <3>2. IsFiniteSet(active') /\ Cardinality(active') = Cardinality(active) + 1
      BY <3>1, FS_AddElement DEF AttachInv
    <3>3. \A b \in Attaches \ {a} : pc[b] = "configure" => devid(b) # devid(a)
      BY <3>1 DEF AttachInv, NoOrphanDevice
    <3>4. NoOrphanDevice'
      BY <2>0, <2>1, <2>3, <3>1, <3>2 DEF AttachInv, NoOrphanDevice
    <3> QED
      BY <2>0, <2>1, <2>3, <3>2, <3>3, <3>4 DEF AttachInv
  <2> QED
    BY <2>2, <2>3
<1>3. ASSUME NEW a \in Attaches, configure_device(a) PROVE AttachInv'
  <2>1. /\ device' = device /\ pc[a] = "configure" /\ pc'[a] # "configure"
        /\ pc' \in [Attaches -> Stages]
        /\ \A b \in Attaches \ {a} : pc'[b] = pc[b]
    BY <1>3 DEF AttachInv, Stages, configure_device
  <2>0. \A b \in Attaches : devid(b)' = devid(b)
    BY <2>1, SameDevid
  <2>2. devid(a) \in active
    BY <2>1 DEF AttachInv, NoOrphanDevice
  <2>3. \A b \in Attaches \ {a} : pc[b] = "configure" => devid(b) # devid(a)
    BY <2>1 DEF AttachInv
  <2>4. CASE ConfigAccepted(a)
    <3>1. /\ UNCHANGED <<active, deviceCount>>
          /\ urb_tasks' = urb_tasks \union {devid(a)}
      BY <1>3, <2>4 DEF configure_device
    <3>2. NoOrphanDevice'
      BY <2>0, <2>1, <3>1 DEF AttachInv, NoOrphanDevice
    <3> QED
      BY <2>0, <2>1, <3>1, <3>2 DEF AttachInv
  <2>5. CASE ~ConfigAccepted(a)
    <3>1. /\ active' = active \ {devid(a)} /\ deviceCount' = deviceCount - 1
          /\ urb_tasks' = urb_tasks
      BY <1>3, <2>2, <2>5 DEF configure_device
    <3>2. IsFiniteSet(active') /\ Cardinality(active') = Cardinality(active) - 1
      BY <2>2, <3>1, FS_RemoveElement DEF AttachInv
    <3>3. NoOrphanDevice'
      BY <2>0, <2>1, <2>3, <3>1, <3>2 DEF AttachInv, NoOrphanDevice
    <3> QED
      BY <2>0, <2>1, <3>2, <3>3 DEF AttachInv
  <2> QED
    BY <2>4, <2>5
<1>4. ASSUME UNCHANGED attachVars PROVE AttachInv'
  BY <1>4 DEF attachVars, AttachInv, NoOrphanDevice, devid
<1> QED
  BY <1>1, <1>2, <1>3, <1>4 DEF AttachNext

-----------------------------------------------------------------------------
(* The macOS side, one part at a time. *)

MacInv ==
    /\ part = "storage" => StorageInv
    /\ part # "storage" => HidInv
    /\ AttachInv

LEMMA MacInitInv == MacInit => MacInv /\ Window = <<>>
<1> SUFFICES ASSUME MacInit PROVE MacInv /\ Window = <<>>
  OBVIOUS
<1>1. ForwardInv /\ Queued = {} /\ Window = <<>>
  BY ForwardInitInv DEF MacInit, HidInit
<1>2. Known = {} /\ outstanding = {} /\ refused = {} /\ issued = 0
  BY <1>1 DEF MacInit, HidInit, ForwardInit, Known
<1>3. nextRequestId \in 0..IdModulus - 1 /\ issued \in 0..MaxRequests
  BY <1>2, IdsAssumption DEF MacInit, HidInit
<1>4. StorageInv
  BY <1>1, <1>2 DEF StorageInv
<1>5. HidInv
  BY <1>1, <1>2, <1>3 DEF HidInv, Used
<1>6. AttachInv
  <2>1. active = {} /\ deviceCount = 0
    BY DEF MacInit, AttachInit
  <2>2. IsFiniteSet(active) /\ Cardinality(active) = 0
    BY <2>1, FS_EmptySet
  <2>3. /\ pc \in [Attaches -> Stages] /\ device \in [Attaches -> SUBSET Devices]
        /\ \A a \in Attaches : pc[a] # "configure"
    BY DEF MacInit, AttachInit, Stages
  <2> QED
    BY <2>1, <2>2, <2>3 DEF AttachInv, NoOrphanDevice
<1> QED
  BY <1>1, <1>4, <1>5, <1>6 DEF MacInv

LEMMA MacStep ==
    ASSUME MacInv, [MacNext]_macVars
    PROVE  MacInv' /\ WindowStep
<1>1. CASE part = "storage" /\ StorageNext /\ UNCHANGED <<hidDeviceVars, attachVars>>
           /\ UNCHANGED part
  BY <1>1, StorageStep, AttachStep DEF MacInv
<1>2. CASE part = "hid" /\ HidNext /\ UNCHANGED attachVars /\ UNCHANGED part
  BY <1>2, HidStep, AttachStep DEF MacInv
<1>3. CASE part = "attach" /\ AttachNext /\ UNCHANGED hidVars /\ UNCHANGED part
  BY <1>3, HidStep, AttachStep DEF MacInv
<1>4. CASE UNCHANGED macVars
  <2>1. UNCHANGED hidVars /\ UNCHANGED attachVars /\ UNCHANGED part
    BY <1>4 DEF macVars
  <2>2. UNCHANGED storageVars
    BY <2>1 DEF hidVars, storageVars
  <2> QED
    BY <2>1, <2>2, StorageStep, HidStep, AttachStep DEF MacInv
<1> QED
  BY <1>1, <1>2, <1>3, <1>4 DEF MacNext

LEMMA MacInvariant == MacSpec => []MacInv
<1>1. MacSpec => MacInit /\ [][MacNext]_macVars
  BY PTL DEF MacSpec
<1> QED
  BY <1>1, MacInitInv, MacStep, PTL

(* A request of a virtual device is in the ring or with the forwarding task,
   or a failed call has lost it; it is never in two of these places nor twice
   in one, and the in-flight table knows it, or the host was told it was
   refused. *)
THEOREM RequestsInOnePlace == MacSpec => []InOnePlace
<1>1. ForwardInv => Cardinality(Queued) = pendingCount /\ TableIsOutstanding
  BY CountOfQueued DEF ForwardInv, TableOK
<1>2. MacInv => InOnePlace
  BY <1>1 DEF MacInv, StorageInv, HidInv, Used, ForwardInv, InOnePlace,
              IoInOnePlace, ReportInOnePlace, Known
<1> QED
  BY <1>2, MacInvariant, PTL

(* While the forwarding task runs, every request the host waits for is still
   in the ring or waits for the server's response, but for the requests whose
   own call into the driver failed. *)
THEOREM RequestsRemembered == MacSpec => []NoRequestForgotten
<1>1. MacInv => NoRequestForgotten
  BY DEF MacInv, StorageInv, HidInv, ForwardInv
<1> QED
  BY <1>1, MacInvariant, PTL

(* Attach requests that fail half way, or that race for one slot of the driver,
   leave no virtual device behind and count the slots right. *)
THEOREM DevicesAreOwned == MacSpec => []NoOrphanDevice
<1>1. MacInv => NoOrphanDevice
  BY DEF MacInv, AttachInv
<1> QED
  BY <1>1, MacInvariant, PTL

(* The ring buffer of a virtual device implements a bounded first-in-first-out
   queue: what enqueue writes, dequeue returns, once and in that order, across
   the wrap-around of both indices. *)
THEOREM RingImplementsQueue == MacSpec => RingIsQueue
<1>1. MacInit => Queue!QueueInit
  BY MacInitInv DEF Queue!QueueInit
<1>2. WindowStep => [Queue!QueueNext]_Window
  BY DEF WindowStep, Queue!QueueNext, Queue!Put, Queue!Get
<1>3. MacInv /\ [MacNext]_macVars => [Queue!QueueNext]_Window
  BY <1>2, MacStep
<1>4. MacSpec => MacInit /\ [][MacNext]_macVars
  BY PTL DEF MacSpec
<1> QED
  BY <1>1, <1>3, <1>4, MacInvariant, PTL DEF RingIsQueue, Queue!QueueSpec
=============================================================================
