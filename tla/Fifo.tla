-------------------------------- MODULE Fifo --------------------------------
(***************************************************************************)
(* What a queue between one producer and one consumer promises: what is    *)
(* taken is what was put, in order, once each.  The producer may ask       *)
(* whether the queue is empty; the answer is worth something only when     *)
(* nothing was taken between the question and the answer.  CoreTiming and  *)
(* DVDThread use their queues at this level.                               *)
(***************************************************************************)
EXTENDS Sequences

CONSTANTS Values, Nothing

VARIABLES
  queue,  \* the values that were put and not yet taken
  taken,  \* the last value that was taken
  asked,  \* whether the producer is asking, and nothing was taken since
  answer  \* the last answer it got

vars == <<queue, taken, asked, answer>>

Init == queue = <<>> /\ taken = Nothing /\ asked = "no" /\ answer = FALSE

Put(v) == asked = "no" /\ queue' = Append(queue, v) /\ UNCHANGED <<taken, asked, answer>>

Ask == asked = "no" /\ asked' = "fresh" /\ UNCHANGED <<queue, taken, answer>>

Answer ==
  /\ asked # "no" /\ asked' = "no"
  /\ answer' \in IF asked = "fresh" THEN {queue = <<>>} ELSE BOOLEAN
  /\ UNCHANGED <<queue, taken>>

Outdate == asked' = IF asked = "fresh" THEN "stale" ELSE asked

Take == queue # <<>> /\ taken' = Head(queue) /\ queue' = Tail(queue) /\ Outdate /\ UNCHANGED answer

Drop == queue # <<>> /\ queue' = Tail(queue) /\ Outdate /\ UNCHANGED <<taken, answer>>

Clear == asked = "no" /\ queue' = <<>> /\ UNCHANGED <<taken, asked, answer>>

Next == Take \/ Drop \/ Clear \/ Ask \/ Answer \/ \E v \in Values : Put(v)

Spec == Init /\ [][Next]_vars
=============================================================================
