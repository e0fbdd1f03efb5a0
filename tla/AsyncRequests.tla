--------------------------- MODULE AsyncRequests ----------------------------
(***************************************************************************)
(* AsyncRequests (VideoCommon/AsyncRequests.cpp): the CPU thread queues    *)
(* requests for the GPU thread and, for a blocking one, sleeps on m_cond   *)
(* until the queue is empty.  A stretch of code that holds m_mutex is one  *)
(* step; m_empty is tested without it.  The GPU thread handles requests    *)
(* with the mutex released: pokes after it has taken a whole batch of them *)
(* off the queue, anything else before.                                    *)
(***************************************************************************)
EXTENDS Naturals, Sequences, SequencesExt

CONSTANTS
  Requests,  \* the requests the CPU thread makes
  MaxQueue   \* bound on the length of the queue

\* EFB pokes; swaps; and peeks, bounding box reads and performance queries.
AllRequests == {"poke", "swap", "peek"}
Blocking(request) == request = "peek"

ASSUME RequestsAssumption == Requests \subseteq AllRequests /\ MaxQueue \in Nat \ {0}

VARIABLES
  queue,        \* m_queue
  empty,        \* m_empty
  wakeMe,       \* m_wake_me_up_again
  enable,       \* m_enable
  passthrough,  \* m_passthrough
  notified,     \* m_cond was notified since the CPU thread began to wait on it
  handling,     \* the batch that the GPU thread handles with the mutex released
  unhandled     \* how many requests were queued and not handled since

requests == <<queue, empty, wakeMe, enable, passthrough, notified, handling, unhandled>>

RequestsInit ==
  /\ queue = <<>> /\ empty = FALSE /\ wakeMe = FALSE
  /\ enable = FALSE /\ passthrough = TRUE
  /\ notified = FALSE /\ handling = <<>> /\ unhandled = 0
-----------------------------------------------------------------------------
(***************************************************************************)
(* PushEvent(), up to the wait of a blocking request.  It calls RunGpu()   *)
(* when the request was queued.  In passthrough mode the CPU thread        *)
(* handles the request itself.                                             *)
(***************************************************************************)
Queues == ~passthrough /\ enable

PushEvent(request) ==
  /\ Len(queue) < MaxQueue
  /\ queue' = IF Queues THEN Append(queue, request) ELSE queue
  /\ unhandled' = IF Queues THEN unhandled + 1 ELSE unhandled
  /\ empty' = (empty /\ passthrough)
  /\ wakeMe' = (wakeMe \/ (~passthrough /\ Blocking(request)))
  /\ notified' = FALSE
  /\ UNCHANGED <<enable, passthrough, handling>>

\* m_cond.wait() returns: its predicate is tested again.
WaitReturns ==
  /\ queue = <<>>
  /\ notified' = FALSE
  /\ UNCHANGED <<queue, empty, wakeMe, enable, passthrough, handling, unhandled>>
-----------------------------------------------------------------------------
(***************************************************************************)
(* PullEvents()                                                            *)
(***************************************************************************)
\* The batch at the front of a queue: as many pokes as there are, or one
\* other request.
Batch(q) ==
  IF Head(q) = "poke"
    THEN LongestCommonPrefix({q, [i \in DOMAIN q |-> "poke"]})
    ELSE <<Head(q)>>

\* The mutex is held and the queue is q: what happens until it is released.
Proceed(q) ==
  IF q = <<>>
    THEN /\ queue' = q /\ handling' = <<>>
         /\ wakeMe' = FALSE
         /\ notified' = (notified \/ wakeMe)
    ELSE /\ handling' = Batch(q)
         /\ queue' = IF Head(q) = "poke" THEN SubSeq(q, Len(Batch(q)) + 1, Len(q)) ELSE q
         /\ UNCHANGED <<wakeMe, notified>>

\* Fault: every request is taken off the queue before it is handled.
PullBeginPops ==
  /\ empty' = TRUE
  /\ IF queue = <<>> THEN Proceed(queue)
     ELSE /\ handling' = Batch(queue)
          /\ queue' = SubSeq(queue, Len(Batch(queue)) + 1, Len(queue))
          /\ UNCHANGED <<wakeMe, notified>>
  /\ UNCHANGED <<enable, passthrough, unhandled>>

PullBegin ==
  /\ empty' = TRUE
  /\ Proceed(queue)
  /\ UNCHANGED <<enable, passthrough, unhandled>>

PullHandled ==
  /\ handling # <<>>
  /\ unhandled' = unhandled - Len(handling)
  /\ Proceed(IF handling[1] = "poke" THEN queue ELSE Tail(queue))
  /\ UNCHANGED <<empty, enable, passthrough>>
-----------------------------------------------------------------------------
\* Switching off drops what is queued.  m_wake_me_up_again stays as it is.
SetEnable(b) ==
  /\ enable' = b
  /\ queue' = IF b THEN queue ELSE <<>>
  /\ unhandled' = IF b THEN unhandled ELSE 0
  /\ notified' = (notified \/ (~b /\ wakeMe))
  /\ UNCHANGED <<empty, wakeMe, passthrough, handling>>

SetPassthrough(b) ==
  /\ passthrough' = b
  /\ UNCHANGED <<queue, empty, wakeMe, enable, notified, handling, unhandled>>
-----------------------------------------------------------------------------
RequestsTypeOK ==
  /\ queue \in Seq(Requests) /\ Len(queue) <= MaxQueue
  /\ handling \in Seq(Requests)
  /\ unhandled \in 0 .. 2 * MaxQueue
  /\ empty \in BOOLEAN /\ wakeMe \in BOOLEAN /\ notified \in BOOLEAN
  /\ enable \in BOOLEAN /\ passthrough \in BOOLEAN
=============================================================================
