------------------------------ MODULE TapeFate ------------------------------
(***************************************************************************)
(* What the tape processing chain promises of the recordings it is given:  *)
(* each is reported once, or given up, and never both.                     *)
(***************************************************************************)
EXTENDS Sequences

CONSTANT Tape

VARIABLES
  waiting,   \* tapes the chain was given and is not finished with
  dropped,   \* tapes a processor gave up
  told       \* tapes reported as ready, in the order of the reports

FateInit == waiting = {} /\ dropped = {} /\ told = <<>>

Known(t) == t \in waiting \cup dropped \/ \E i \in DOMAIN told : told[i] = t

\* RunProcessingChain gives the chain a tape.
Give(t) == ~Known(t) /\ waiting' = waiting \cup {t} /\ UNCHANGED <<dropped, told>>

\* A tape may be refused at once, its processor's queue being full.
Refuse(t) == ~Known(t) /\ dropped' = dropped \cup {t} /\ UNCHANGED <<waiting, told>>

\* A processor may give a tape up later, or pass it on to the last, Reporting.
Drop(t) ==
  /\ t \in waiting
  /\ waiting' = waiting \ {t}
  /\ dropped' = dropped \cup {t}
  /\ UNCHANGED told

Report(t) ==
  /\ t \in waiting
  /\ waiting' = waiting \ {t}
  /\ told' = Append(told, t)
  /\ UNCHANGED dropped

\* A chain of Reporting alone reports it at once.
Forward(t) == ~Known(t) /\ told' = Append(told, t) /\ UNCHANGED <<waiting, dropped>>

FateNext == \E t \in Tape : Give(t) \/ Refuse(t) \/ Forward(t) \/ Drop(t) \/ Report(t)

FateSpec == FateInit /\ [][FateNext]_<<waiting, dropped, told>>

=============================================================================
