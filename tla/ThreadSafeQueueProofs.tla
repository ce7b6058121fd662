------------------------ MODULE ThreadSafeQueueProofs ------------------------
(***************************************************************************)
(* Proofs about ThreadSafeQueue for every number of consumers, every size  *)
(* and every set of elements.                                              *)
(***************************************************************************)
EXTENDS ThreadSafeQueue, FiniteSetTheorems, TLAPS

\* Moving the head of one sequence to the end of another, as pop() moves the
\* front of m_queue to its caller, leaves their concatenation as it was.
LEMMA MoveHead ==
  ASSUME NEW S, NEW r \in Seq(S), NEW q \in Seq(S), q # <<>>
  PROVE  Append(r, Head(q)) \o Tail(q) = r \o q
<1>1. /\ Append(r, Head(q)) \in Seq(S)
      /\ Tail(q) \in Seq(S)
      /\ Len(Append(r, Head(q)) \o Tail(q)) = Len(r \o q)
  OBVIOUS
<1>2. \A i \in 1..Len(r \o q) : (Append(r, Head(q)) \o Tail(q))[i] = (r \o q)[i]
  OBVIOUS
<1>3. QED
  BY <1>1, <1>2

\* Pushing an element at the back, as push() does, extends the concatenation.
LEMMA AppendBack ==
  ASSUME NEW S, NEW r \in Seq(S), NEW q \in Seq(S), NEW e \in S
  PROVE  r \o Append(q, e) = Append(r \o q, e)
<1>1. /\ r \o Append(q, e) \in Seq(S)
      /\ Append(r \o q, e) \in Seq(S)
      /\ Len(r \o Append(q, e)) = Len(Append(r \o q, e))
  OBVIOUS
<1>2. \A i \in 1..Len(r \o Append(q, e)) : (r \o Append(q, e))[i] = Append(r \o q, e)[i]
  OBVIOUS
<1>3. QED
  BY <1>1, <1>2

\* How many consumers are between the two halves of pop() changes by one with
\* each half.
LEMMA InPopCardinality ==
  ASSUME NEW P \in SUBSET Consumer
  PROVE  /\ Cardinality(P) \in Nat
         /\ \A c \in Consumer \ P : Cardinality(P \cup {c}) = Cardinality(P) + 1
         /\ \A c \in P : Cardinality(P \ {c}) = Cardinality(P) - 1
         /\ \A c \in P : Cardinality(P) > 0
<1>1. IsFiniteSet(P)
  BY FS_Subset, QueueAssumption
<1>2. Cardinality(P) \in Nat /\ (Cardinality(P) = 0 <=> P = {})
  BY <1>1, FS_CardinalityType, FS_EmptySet
<1>3. \A c \in Consumer \ P : Cardinality(P \cup {c}) = Cardinality(P) + 1
  BY <1>1, FS_AddElement
<1>4. \A c \in P : Cardinality(P \ {c}) = Cardinality(P) - 1
  BY <1>1, FS_RemoveElement
<1>5. \A c \in P : Cardinality(P) > 0
  BY <1>2
<1>6. QED
  BY <1>2, <1>3, <1>4, <1>5

LEMMA InitIInv == Init => IInv
<1>1. Cardinality({}) = 0
  BY FS_EmptySet
<1>2. QED
  BY <1>1, QueueAssumption
     DEF Init, IInv, TypeOK, PermitPerElement, DeliveredInOrder, EmptyPopsBounded, WithinSize

\* push() keeps the invariant: accepted or refused, it adds one permit.
LEMMA PushIInv ==
  ASSUME IInv, NEW e \in Element, Push(e)
  PROVE  IInv'
<1>1. TypeOK'
  <2>1. queue' \in Seq(Element) /\ accepted' \in Seq(Element) /\ refused' \in Nat
    <3>1. /\ queue \in Seq(Element) /\ accepted \in Seq(Element) /\ refused \in Nat
          /\ Append(queue, e) \in Seq(Element) /\ Append(accepted, e) \in Seq(Element)
      BY DEF IInv, TypeOK
    <3>2. \/ queue' = Append(queue, e) /\ accepted' = Append(accepted, e) /\ refused' = refused
          \/ queue' = queue /\ accepted' = accepted /\ refused' = refused + 1
      BY DEF Push, Enqueue, Refuse
    <3>3. refused' \in Nat
      BY <3>1, <3>2, SMT
    <3>4. queue' \in Seq(Element) /\ accepted' \in Seq(Element)
      BY <3>1, <3>2, Zenon
    <3>5. QED
      BY <3>3, <3>4
  <2>2. count' \in Nat /\ UNCHANGED <<size, inPop, returned, empties>>
    BY DEF IInv, TypeOK, Push
  <2>3. QED
    BY <2>1, <2>2 DEF IInv, TypeOK
<1>2. PermitPerElement' /\ EmptyPopsBounded'
  <2>onTheWay. Cardinality(inPop) \in Nat /\ inPop' = inPop
    BY InPopCardinality DEF IInv, TypeOK, Push
  <2>appended. Len(queue) \in Nat /\ Len(Append(queue, e)) = Len(queue) + 1
    BY DEF IInv, TypeOK
  <2>either. \/ Len(queue') = Len(queue) + 1 /\ refused' = refused
             \/ Len(queue') = Len(queue) /\ refused' = refused + 1
    BY <2>appended DEF Push, Enqueue, Refuse
  <2>released. count' = count + 1 /\ empties' = empties
    BY DEF Push
  <2>bound. count \in Nat /\ refused \in Nat /\ empties \in Nat
    BY DEF IInv, TypeOK
  <2> QED
    BY <2>onTheWay, <2>appended, <2>either, <2>released, <2>bound DEF IInv, PermitPerElement, EmptyPopsBounded
<1>3. DeliveredInOrder'
  <2>1. returned \o Append(queue, e) = Append(returned \o queue, e)
    BY AppendBack DEF IInv, TypeOK
  <2>2. CASE HasRoom /\ Enqueue(e)
    BY <2>1, <2>2 DEF IInv, DeliveredInOrder, Push, Enqueue
  <2>3. CASE ~HasRoom /\ Refuse
    BY <2>3 DEF IInv, DeliveredInOrder, Push, Refuse
  <2>4. QED
    BY <2>2, <2>3 DEF Push
<1>4. WithinSize'
  <2>1. Len(queue) \in Nat /\ Len(Append(queue, e)) = Len(queue) + 1
    BY DEF IInv, TypeOK
  <2>2. QED
    BY <2>1, QueueAssumption DEF IInv, TypeOK, WithinSize, Push, Enqueue, Refuse, HasRoom
<1>5. QED
  BY <1>1, <1>2, <1>3, <1>4 DEF IInv

\* The first half of pop() trades one permit for one consumer under way.
LEMMA AcquireIInv ==
  ASSUME IInv, NEW c \in Consumer, Acquire(c)
  PROVE  IInv'
<1>1. TypeOK'
  BY DEF IInv, TypeOK, Acquire
<1>2. PermitPerElement' /\ EmptyPopsBounded'
  <2>1. Cardinality(inPop) \in Nat /\ Cardinality(inPop \cup {c}) = Cardinality(inPop) + 1
    BY InPopCardinality DEF IInv, TypeOK, Acquire
  <2>2. Cardinality(inPop') = Cardinality(inPop) + 1
    BY <2>1 DEF Acquire
  <2>3. Len(queue) \in Nat /\ queue' = queue
    BY DEF IInv, TypeOK, Acquire
  <2>4. QED
    BY <2>1, <2>2, <2>3 DEF IInv, TypeOK, PermitPerElement, EmptyPopsBounded, Acquire
<1>3. DeliveredInOrder' /\ WithinSize'
  BY DEF IInv, DeliveredInOrder, WithinSize, Acquire
<1>4. QED
  BY <1>1, <1>2, <1>3 DEF IInv

\* The second half consumes that consumer together with the front element, or
\* alone when the queue is empty.
LEMMA DequeueIInv ==
  ASSUME IInv, NEW c \in Consumer, Dequeue(c)
  PROVE  IInv'
<1>1. /\ Cardinality(inPop) \in Nat
      /\ Cardinality(inPop) > 0
      /\ Cardinality(inPop') = Cardinality(inPop) - 1
  BY InPopCardinality DEF IInv, TypeOK, Dequeue
<1>2. CASE queue # <<>> /\ returned' = Append(returned, Head(queue)) /\ queue' = Tail(queue) /\ UNCHANGED empties
  <2>1. /\ Append(returned, Head(queue)) \o Tail(queue) = returned \o queue
        /\ Tail(queue) \in Seq(Element)
        /\ Head(queue) \in Element
        /\ Len(queue) \in Nat
        /\ Len(Tail(queue)) = Len(queue) - 1
    BY <1>2, MoveHead DEF IInv, TypeOK
  <2>2. TypeOK'
    <3>1. queue' \in Seq(Element) /\ returned' \in Seq(Element)
      <4>1. returned \in Seq(Element)
        BY DEF IInv, TypeOK
      <4>2. Append(returned, Head(queue)) \in Seq(Element)
        BY <2>1, <4>1
      <4>3. QED
        BY <1>2, <2>1, <4>2
    <3>2. inPop' \in SUBSET Consumer /\ UNCHANGED <<size, count, accepted, refused, empties>>
      BY <1>2 DEF IInv, TypeOK, Dequeue
    <3>3. QED
      BY <3>1, <3>2 DEF IInv, TypeOK
  <2>3. DeliveredInOrder'
    <3>1. returned' \o queue' = returned \o queue /\ accepted' = accepted
      BY <1>2, <2>1 DEF Dequeue
    <3>2. QED
      BY <3>1 DEF IInv, DeliveredInOrder
  <2>4. PermitPerElement' /\ EmptyPopsBounded'
    <3>1. Len(queue') = Len(queue) - 1
      BY <1>2, <2>1
    <3>2. count' = count /\ refused' = refused /\ empties' = empties
      BY <1>2 DEF Dequeue
    <3>3. count \in Nat /\ refused \in Nat /\ empties \in Nat
      BY DEF IInv, TypeOK
    <3>4. Len(queue) \in Nat
      BY <2>1
    <3>5. QED
      BY <1>1, <3>1, <3>2, <3>3, <3>4 DEF IInv, PermitPerElement, EmptyPopsBounded
  <2>5. WithinSize'
    BY <1>2, <2>1, QueueAssumption DEF IInv, WithinSize
  <2>6. QED
    BY <2>2, <2>3, <2>4, <2>5 DEF IInv
<1>3. CASE queue = <<>> /\ empties' = empties + 1 /\ UNCHANGED <<queue, returned>>
  <2>1. TypeOK' /\ DeliveredInOrder' /\ WithinSize'
    BY <1>3 DEF IInv, TypeOK, DeliveredInOrder, WithinSize, Dequeue
  <2>2. PermitPerElement' /\ EmptyPopsBounded'
    <3>1. Len(queue) = 0 /\ Len(queue') = 0
      BY <1>3
    <3>2. QED
      BY <1>1, <1>3, <3>1 DEF IInv, TypeOK, PermitPerElement, EmptyPopsBounded, Dequeue
  <2>3. QED
    BY <2>1, <2>2 DEF IInv
<1>4. QED
  BY <1>2, <1>3 DEF Dequeue

LEMMA NextIInv == IInv /\ [Next]_vars => IInv'
<1> SUFFICES ASSUME IInv, [Next]_vars PROVE IInv'
  OBVIOUS
<1>1. CASE \E e \in Element : Push(e)
  BY <1>1, PushIInv
<1>2. CASE \E c \in Consumer : Acquire(c)
  BY <1>2, AcquireIInv
<1>3. CASE \E c \in Consumer : Dequeue(c)
  BY <1>3, DequeueIInv
<1>4. CASE SetSize
  BY <1>4 DEF IInv, TypeOK, PermitPerElement, DeliveredInOrder, EmptyPopsBounded, WithinSize, SetSize
<1>5. CASE UNCHANGED vars
  BY <1>5 DEF IInv, TypeOK, PermitPerElement, DeliveredInOrder, EmptyPopsBounded, WithinSize, vars
<1>6. QED
  BY <1>1, <1>2, <1>3, <1>4, <1>5 DEF Next

\* The invariant that ties the semaphore's permits to the queue's contents
\* holds throughout every behaviour of push(), pop() and setSize().
THEOREM QueueInvariant == Spec => []IInv
<1>1. QED
  BY InitIInv, NextIInv, PTL DEF Spec

\* No consumer of a ThreadSafeQueue sleeps in acquire() while an element
\* waits: every queued element has a permit or a consumer on its way.
THEOREM NoLostWakeup == Spec => []PermitPerElement
<1>1. IInv => PermitPerElement
  BY DEF IInv
<1>2. QED
  BY <1>1, QueueInvariant, PTL

\* Elements leave pop() exactly once and in the order push() accepted them.
THEOREM FirstInFirstOut == Spec => []DeliveredInOrder
<1>1. IInv => DeliveredInOrder
  BY DEF IInv
<1>2. QED
  BY <1>1, QueueInvariant, PTL

\* Each empty element pop() returns is paid for by a push() it refused.
THEOREM EmptyPopsPaidFor == Spec => []EmptyPopsBounded
<1>1. IInv => EmptyPopsBounded
  BY DEF IInv
<1>2. QED
  BY <1>1, QueueInvariant, PTL

\* An accepted push() is an Offer, the second half of a pop() that finds an
\* element a Take; refusals, permits and setSize() do not touch the FIFO queue.
LEMMA StepMaps ==
  ASSUME [Next]_vars
  PROVE  Fifo!FifoNext \/ UNCHANGED Fifo!fifoVars
<1> USE DEF Fifo!FifoNext, Fifo!fifoVars, Fifo!Offer, Fifo!Take
<1>1. ASSUME NEW e \in Element, Push(e) PROVE Fifo!FifoNext \/ UNCHANGED Fifo!fifoVars
  BY <1>1 DEF Push, Enqueue, Refuse
<1>2. ASSUME NEW c \in Consumer, Dequeue(c) PROVE Fifo!FifoNext \/ UNCHANGED Fifo!fifoVars
  BY <1>2 DEF Dequeue
<1>3. (\E c \in Consumer : Acquire(c)) \/ SetSize \/ UNCHANGED vars => UNCHANGED Fifo!fifoVars
  BY DEF Acquire, SetSize, vars
<1>4. QED
  BY <1>1, <1>2, <1>3 DEF Next

\* ThreadSafeQueue, with its semaphore and its two-step pop(), implements the
\* abstract first-in first-out queue its users assume.
THEOREM Refinement == Spec => ImplementsFifo
<1>init. Init => Fifo!FifoInit
  BY DEF Init, Fifo!FifoInit
<1>step. [Next]_vars => [Fifo!FifoNext]_(Fifo!fifoVars)
  BY StepMaps
<1> QED
  BY <1>init, <1>step, PTL DEF Spec, ImplementsFifo, Fifo!FifoSpec
=============================================================================
