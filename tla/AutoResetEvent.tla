--------------------------- MODULE AutoResetEvent ---------------------------
(***************************************************************************)
(* What Common::Event promises its users: an auto-reset event.  A signal   *)
(* is remembered until one waiter takes it, one signal is taken by one     *)
(* waiter, and a signal that stays up while somebody waits is taken.       *)
(* BlockingLoop, DVDThread and Fifo use events at this level.              *)
(***************************************************************************)
CONSTANT Threads

VARIABLES
  flag,     \* the event is signalled
  waiting   \* the threads inside Wait() or WaitFor()

vars == <<flag, waiting>>

Init == flag = FALSE /\ waiting = {}

Set == flag' = TRUE /\ UNCHANGED waiting

Reset == flag' = FALSE /\ UNCHANGED waiting

Arrive(t) == t \notin waiting /\ waiting' = waiting \cup {t} /\ UNCHANGED flag

Take(t) == flag /\ t \in waiting /\ flag' = FALSE /\ waiting' = waiting \ {t}

\* A Wait() that finds the event signalled on entry.
TakeAtOnce(t) == flag /\ t \notin waiting /\ flag' = FALSE /\ UNCHANGED waiting

GiveUp(t) == ~flag /\ t \in waiting /\ waiting' = waiting \ {t} /\ UNCHANGED flag

Next ==
  \/ Set \/ Reset
  \/ \E t \in Threads : Arrive(t) \/ Take(t) \/ TakeAtOnce(t) \/ GiveUp(t)

\* A signal that stays up while a thread waits is taken by some waiter.
Fairness == WF_vars(\E t \in Threads : Take(t))

Spec == Init /\ [][Next]_vars /\ Fairness
=============================================================================
