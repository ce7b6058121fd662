--------------------------- MODULE ThreadSafeQueue ---------------------------
(***************************************************************************)
(* The queue every tape processor, reporting thread and streaming session  *)
(* of orkbasecxx waits on (ThreadSafeQueue.h), with the counting semaphore *)
(* it blocks on (OrkSemaphore, Utils.h).                                   *)
(*                                                                         *)
(* push() holds m_mutex from end to end and releases the semaphore under   *)
(* it, so it is one action.  pop() first acquires the semaphore and only   *)
(* then takes m_mutex, so another thread can run between the two halves:   *)
(* Acquire and Dequeue.                                                    *)
(***************************************************************************)
EXTENDS Naturals, Sequences, FiniteSets

CONSTANTS
  Consumer,      \* the threads that call pop()
  Element,       \* what producers push
  DefaultSize,   \* m_size given by the constructor (50000 in the code)
  ConfigSize,    \* the size setSize() installs, read from the configuration
  MaxPush        \* bound of the model: how many times push() is called

ASSUME QueueAssumption ==
  /\ IsFiniteSet(Consumer)
  /\ DefaultSize \in Nat
  /\ ConfigSize \in Nat
  /\ MaxPush \in Nat

VARIABLES
  queue,      \* m_queue
  size,       \* m_size
  count,      \* m_semaphore.m_count
  inPop,      \* the consumers that acquired the semaphore, not yet m_mutex
  accepted,   \* history: the elements push() took (returned true for)
  refused,    \* history: how many calls of push() returned false
  returned,   \* history: the elements pop() returned
  empties     \* history: how many calls of pop() returned the empty element

vars == <<queue, size, count, inPop, accepted, refused, returned, empties>>

\* The constructor acquires the semaphore once: OrkSemaphore starts at 1.
Init ==
  /\ queue = <<>>
  /\ size = DefaultSize
  /\ count = 0
  /\ inPop = {}
  /\ accepted = <<>>
  /\ refused = 0
  /\ returned = <<>>
  /\ empties = 0

(* A definition named X_Y is X with a plausible mistake Y in it: it takes no *)
(* part in the specification, and serves to see that a property notices.     *)

HasRoom == Len(queue) < size

Enqueue_AtFront(e) ==
  /\ queue' = <<e>> \o queue
  /\ accepted' = Append(accepted, e)
  /\ UNCHANGED refused

Enqueue(e) ==
  /\ queue' = Append(queue, e)
  /\ accepted' = Append(accepted, e)
  /\ UNCHANGED refused

Refuse ==
  /\ refused' = refused + 1
  /\ UNCHANGED <<queue, accepted>>

Push_NoRelease(e) ==
  /\ Len(accepted) + refused < MaxPush
  /\ \/ HasRoom /\ Enqueue(e)
     \/ ~HasRoom /\ Refuse
  /\ UNCHANGED <<size, count, inPop, returned, empties>>

\* The semaphore is released whether or not the element found room.
Push(e) ==
  /\ Len(accepted) + refused < MaxPush
  /\ \/ HasRoom /\ Enqueue(e)
     \/ ~HasRoom /\ Refuse
  /\ count' = count + 1
  /\ UNCHANGED <<size, inPop, returned, empties>>

Acquire_KeepsPermit(c) ==
  /\ c \notin inPop
  /\ count > 0
  /\ inPop' = inPop \cup {c}
  /\ UNCHANGED <<queue, size, count, accepted, refused, returned, empties>>

\* First half of pop(): m_semaphore.acquire(), blocked while the count is 0.
Acquire(c) ==
  /\ c \notin inPop
  /\ count > 0
  /\ count' = count - 1
  /\ inPop' = inPop \cup {c}
  /\ UNCHANGED <<queue, size, accepted, refused, returned, empties>>

\* Second half of pop(), under m_mutex: the front element, or the empty one.
Dequeue(c) ==
  /\ c \in inPop
  /\ inPop' = inPop \ {c}
  /\ \/ /\ queue # <<>>
        /\ returned' = Append(returned, Head(queue))
        /\ queue' = Tail(queue)
        /\ UNCHANGED empties
     \/ /\ queue = <<>>
        /\ empties' = empties + 1
        /\ UNCHANGED <<queue, returned>>
  /\ UNCHANGED <<size, count, accepted, refused>>

\* setSize(): no lock, at any time (BatchProcessing calls it from the worker
\* thread, when producers may already have pushed).
SetSize ==
  /\ size' = ConfigSize
  /\ UNCHANGED <<queue, count, inPop, accepted, refused, returned, empties>>

Pop(c) == Acquire(c) \/ Dequeue(c)

Next ==
  \/ \E e \in Element : Push(e)
  \/ \E c \in Consumer : Acquire(c)
  \/ \E c \in Consumer : Dequeue(c)
  \/ SetSize

Spec == Init /\ [][Next]_vars

\* A consumer thread is a loop around pop(): it is scheduled when it can run.
\* Nothing is assumed of the producers.
FairSpec == Spec /\ WF_vars(\E c \in Consumer : Pop(c))

-----------------------------------------------------------------------------
TypeOK ==
  /\ queue \in Seq(Element)
  /\ size \in {DefaultSize, ConfigSize}
  /\ count \in Nat
  /\ inPop \in SUBSET Consumer
  /\ accepted \in Seq(Element)
  /\ refused \in Nat
  /\ returned \in Seq(Element)
  /\ empties \in Nat

\* Every queued element has a permit, or a consumer already on its way to it:
\* no consumer sleeps in acquire() while an element waits in m_queue.
PermitPerElement == Len(queue) <= count + Cardinality(inPop)

\* Each accepted element is returned at most once, in the order of the calls
\* of push(), and none is lost: what was returned followed by what is still
\* queued is what was accepted.
DeliveredInOrder == returned \o queue = accepted

\* pop() returns the empty element only in exchange for a push() that
\* returned false: the permits it left behind are all accounted for.
EmptyPopsBounded ==
  empties + count + Cardinality(inPop) = refused + Len(queue)

\* m_queue never outgrows the larger of the two sizes, although setSize() may
\* lower m_size below the present length.
WithinSize == Len(queue) <= DefaultSize \/ Len(queue) <= ConfigSize

\* The inductive invariant: the permits of the semaphore, the consumers past
\* it and the queued elements stay in step.
IInv == TypeOK /\ PermitPerElement /\ DeliveredInOrder /\ EmptyPopsBounded /\ WithinSize

\* Whatever push() accepted is handed to a consumer, although consumers may
\* be woken in between by the permits of refused pushes, for nothing.
EveryElementDelivered ==
  \A i \in 1..MaxPush : Len(accepted) >= i ~> Len(returned) >= i

\* push() and pop() implement the abstract queue, pop() of the empty element
\* and a refused push() being steps that leave it unchanged.
Fifo == INSTANCE BlockingFifo WITH fifo <- queue, taken <- returned
ImplementsFifo == Fifo!FifoSpec
=============================================================================
