---------------------------- MODULE BlockingFifo ----------------------------
(***************************************************************************)
(* What the users of a ThreadSafeQueue rely on: a first-in first-out queue *)
(* that takes an element or refuses it, and that hands every element it    *)
(* took to exactly one Take, in the order it took them.  The refusals are  *)
(* not visible here: a refused element simply never enters the queue.      *)
(***************************************************************************)
EXTENDS Sequences

CONSTANT Element

VARIABLES
  fifo,   \* the elements taken and not handed out yet
  taken   \* the elements handed out so far, oldest first

fifoVars == <<fifo, taken>>

FifoInit ==
  /\ fifo = <<>>
  /\ taken = <<>>

Offer(e) ==
  /\ fifo' = Append(fifo, e)
  /\ UNCHANGED taken

Take ==
  /\ fifo # <<>>
  /\ taken' = Append(taken, Head(fifo))
  /\ fifo' = Tail(fifo)

FifoNext ==
  \/ \E e \in Element : Offer(e)
  \/ Take

FifoSpec == FifoInit /\ [][FifoNext]_fifoVars
=============================================================================
