----------------------------- MODULE DVDThread ------------------------------
(***************************************************************************)
(* Disc reads on a thread of their own (Core/HW/DVD/DVDThread.cpp).  The   *)
(* CPU thread queues requests and schedules a CoreTiming event for each;   *)
(* the DVD thread reads the disc and queues the results; the event's       *)
(* handler FinishRead() looks for the result with its ID, in a map of      *)
(* results it passed over and then in the queue.  Everything that touches  *)
(* the disc from the CPU thread first waits until the DVD thread is idle,  *)
(* by letting it run dry and restarting it.                                *)
(*                                                                         *)
(* The two queues are used at the level of Fifo and the two events at the  *)
(* level of AutoResetEvent.                                                *)
(***************************************************************************)
EXTENDS Naturals, Sequences, FiniteSets

CONSTANTS
  Discs,       \* the discs that may be inserted
  NoDisc,      \* a null s_disc
  MaxReads,    \* bound on the reads that are ever started
  MaxSessions, \* bound on Start() calls
  CanLoad      \* savestates are made and loaded

ASSUME DiscAssumption ==
  /\ NoDisc \notin Discs
  /\ (Discs \cup {NoDisc}) \cap {"query", "save", "load", "stop"} = {}
  /\ MaxReads \in Nat /\ MaxSessions \in Nat /\ CanLoad \in BOOLEAN

VARIABLES
  requests,       \* s_request_queue
  results,        \* s_result_queue
  resultMap,      \* s_result_map, as the set of its results
  nextId,         \* s_next_id
  requestEvent,   \* s_request_queue_expanded is signalled
  resultEvent,    \* s_result_queue_expanded is signalled
  exiting,        \* s_dvd_thread_exiting
  disc,           \* s_disc
  dpc,            \* where the DVD thread is; "none" when there is no thread
  current,        \* the request or the result the DVD thread holds, or <<>>
  cpc,            \* where the CPU thread is
  task,           \* what the CPU thread does once the DVD thread is idle
  finishing,      \* the event whose FinishRead() runs, or <<>>
  overtaken,      \* a request was popped since Empty() loaded m_read_ptr
  misled,         \* an Empty() said so of a queue that held a request (history)
  scheduled,      \* the FinishRead events in the CoreTiming queue
  delivered,      \* the event and the result of the last FinishRead(), or <<>>
  reads,          \* how many reads were ever started
  sessions,       \* how many times Start() was called
  saved           \* the savestate, or <<>>

queues == <<requests, results, resultMap, nextId>>
signals == <<requestEvent, resultEvent, exiting>>
dvd == <<dpc, current>>
asking == <<overtaken, misled>>
cpu == <<cpc, task, finishing, asking>>
emulator == <<scheduled, delivered, reads, sessions, saved>>
vars == <<queues, signals, disc, dvd, cpu, emulator>>

\* What the CPU thread calls WaitUntilIdle() for; a query is GetTMD(),
\* GetTicket() or UpdateRunningGameMetadata().
Tasks == {"query", "save", "load", "stop"} \cup Discs \cup {NoDisc}

Init ==
  /\ requests = <<>> /\ results = <<>> /\ resultMap = {} /\ nextId = 0
  /\ requestEvent = FALSE /\ resultEvent = FALSE /\ exiting = FALSE
  /\ disc = NoDisc
  /\ dpc = "none" /\ current = <<>>
  /\ cpc = "off" /\ task = "query" /\ finishing = <<>>
  /\ overtaken = FALSE /\ misled = FALSE
  /\ scheduled = {} /\ delivered = <<>> /\ reads = 0 /\ sessions = 0 /\ saved = <<>>

\* Start(): s_result_map is not among the things it resets.
Start ==
  /\ cpc = "off" /\ sessions < MaxSessions
  /\ requestEvent' = FALSE /\ resultEvent' = FALSE
  /\ requests' = <<>> /\ results' = <<>>
  /\ nextId' = 0
  /\ exiting' = FALSE /\ dpc' = "wait" /\ current' = <<>>
  /\ cpc' = "idle"
  /\ sessions' = sessions + 1
  /\ UNCHANGED <<resultMap, disc, task, finishing, scheduled, delivered, reads, saved, asking>>
-----------------------------------------------------------------------------
(***************************************************************************)
(* The DVD thread.                                                         *)
(***************************************************************************)
\* s_request_queue_expanded.Wait()
DVDWait ==
  /\ dpc = "wait" /\ requestEvent
  /\ requestEvent' = FALSE
  /\ dpc' = "woken"
  /\ UNCHANGED <<queues, resultEvent, exiting, disc, current, cpu, emulator>>

\* s_dvd_thread_exiting is tested after each wait and after each result.
DVDTestExit ==
  /\ dpc \in {"woken", "signalled"}
  /\ dpc' = IF exiting THEN "none" ELSE "pop"
  /\ UNCHANGED <<queues, signals, disc, current, cpu, emulator>>

DVDPop ==
  /\ dpc = "pop"
  /\ IF requests = <<>>
       THEN dpc' = "wait" /\ UNCHANGED <<requests, current, overtaken>>
       ELSE /\ dpc' = "read" /\ current' = Head(requests) /\ requests' = Tail(requests)
            /\ overtaken' = (cpc = "drain_test")
  /\ UNCHANGED <<results, resultMap, nextId, signals, disc, cpc, task, finishing, misled, emulator>>

DVDRead ==
  /\ dpc = "read" /\ dpc' = "push"
  /\ current' = [id |-> current.id, nth |-> current.nth, disc |-> disc]
  /\ UNCHANGED <<queues, signals, disc, cpu, emulator>>

DVDPush ==
  /\ dpc = "push" /\ dpc' = "signal"
  /\ results' = Append(results, current)
  /\ current' = <<>>
  /\ UNCHANGED <<requests, resultMap, nextId, signals, disc, cpu, emulator>>

\* Fault: a waiting CPU thread is not told of the result.
DVDSignalForgotten ==
  /\ dpc = "signal" /\ dpc' = "signalled"
  /\ UNCHANGED <<queues, signals, disc, current, cpu, emulator>>

DVDSignal ==
  /\ dpc = "signal" /\ dpc' = "signalled"
  /\ resultEvent' = TRUE
  /\ UNCHANGED <<queues, requestEvent, exiting, disc, current, cpu, emulator>>

DVDStep == DVDWait \/ DVDTestExit \/ DVDPop \/ DVDRead \/ DVDPush \/ DVDSignal
-----------------------------------------------------------------------------
(***************************************************************************)
(* StartRead() and StartReadToEmulatedRAM() (of an inserted disc, as       *)
(* DVDInterface checks).                                                   *)
(***************************************************************************)
StartRead ==
  /\ cpc = "idle" /\ disc # NoDisc /\ reads < MaxReads
  /\ requests' = Append(requests, [id |-> nextId, nth |-> reads + 1])
  /\ nextId' = nextId + 1 /\ reads' = reads + 1
  /\ scheduled' = scheduled \cup {[id |-> nextId, nth |-> reads + 1, disc |-> disc]}
  /\ cpc' = "started"
  /\ UNCHANGED <<results, resultMap, signals, disc, dvd, task, finishing, delivered, sessions,
                 saved, asking>>

StartReadSignal ==
  /\ cpc = "started" /\ cpc' = "idle"
  /\ requestEvent' = TRUE
  /\ UNCHANGED <<queues, resultEvent, exiting, disc, dvd, task, finishing, emulator, asking>>
-----------------------------------------------------------------------------
(***************************************************************************)
(* FinishRead(): the CoreTiming events fire in any order.                  *)
(***************************************************************************)
Deliver(result) ==
  /\ delivered' = <<finishing, result>>
  /\ finishing' = <<>>
  /\ cpc' = "idle"

FinishRead(event) ==
  /\ cpc = "idle" /\ event \in scheduled
  /\ scheduled' = scheduled \ {event}
  /\ finishing' = event
  /\ cpc' = "find"
  /\ UNCHANGED <<queues, signals, disc, dvd, task, delivered, reads, sessions, saved, asking>>

FinishFind ==
  /\ cpc = "find"
  /\ \/ \E result \in resultMap :
          /\ result.id = finishing.id
          /\ resultMap' = resultMap \ {result}
          /\ Deliver(result)
     \/ /\ \A result \in resultMap : result.id # finishing.id
        /\ cpc' = "search"
        /\ UNCHANGED <<resultMap, finishing, delivered>>
  /\ UNCHANGED <<requests, results, nextId, signals, disc, dvd, task, scheduled, reads, sessions,
                 saved, asking>>

\* Fault: results of other reads are dropped.
FinishPopDrops ==
  /\ cpc = "search"
  /\ IF results = <<>>
       THEN cpc' = "search_wait" /\ UNCHANGED <<results, resultMap, finishing, delivered>>
       ELSE /\ results' = Tail(results)
            /\ IF Head(results).id = finishing.id
                 THEN Deliver(Head(results))
                 ELSE UNCHANGED <<cpc, finishing, delivered>>
            /\ UNCHANGED resultMap
  /\ UNCHANGED <<requests, nextId, signals, disc, dvd, task, scheduled, reads, sessions, saved, asking>>

\* Fault: the first result is taken for the wanted one.
FinishPopTakesFirst ==
  /\ cpc = "search"
  /\ IF results = <<>>
       THEN cpc' = "search_wait" /\ UNCHANGED <<results, finishing, delivered>>
       ELSE results' = Tail(results) /\ Deliver(Head(results))
  /\ UNCHANGED <<requests, resultMap, nextId, signals, disc, dvd, task, scheduled, reads,
                 sessions, saved, asking>>

\* s_result_map.emplace() keeps the result that is already there.
FinishPop ==
  /\ cpc = "search"
  /\ IF results = <<>>
       THEN cpc' = "search_wait" /\ UNCHANGED <<results, resultMap, finishing, delivered>>
       ELSE /\ results' = Tail(results)
            /\ IF Head(results).id = finishing.id
                 THEN Deliver(Head(results)) /\ UNCHANGED resultMap
                 ELSE /\ resultMap' = IF \E r \in resultMap : r.id = Head(results).id
                                        THEN resultMap ELSE resultMap \cup {Head(results)}
                      /\ UNCHANGED <<cpc, finishing, delivered>>
  /\ UNCHANGED <<requests, nextId, signals, disc, dvd, task, scheduled, reads, sessions, saved, asking>>

FinishWait ==
  /\ cpc = "search_wait" /\ resultEvent
  /\ resultEvent' = FALSE
  /\ cpc' = "search"
  /\ UNCHANGED <<queues, requestEvent, exiting, disc, dvd, task, finishing, emulator, asking>>
-----------------------------------------------------------------------------
(***************************************************************************)
(* WaitUntilIdle(), and Stop(), which goes straight to StopDVDThread().    *)
(***************************************************************************)
Begin(what) ==
  /\ cpc = "idle"
  /\ what \in {"save", "load"} => CanLoad
  /\ what = "load" => saved # <<>>
  /\ task' = what
  /\ cpc' = IF what = "stop" THEN "stop" ELSE "drain"
  /\ UNCHANGED <<queues, signals, disc, dvd, finishing, emulator, asking>>

\* s_request_queue.Empty() is called on the producer's side here: it loads the
\* cell at m_read_ptr and then tests its next pointer.
DrainLoad ==
  /\ cpc = "drain" /\ cpc' = "drain_test"
  /\ overtaken' = FALSE
  /\ UNCHANGED <<queues, signals, disc, dvd, task, finishing, misled, emulator>>

\* If the DVD thread has popped that cell, it is cut off or deleted.
EmptyAnswers == IF overtaken THEN BOOLEAN ELSE {requests = <<>>}

\* Fault: an empty request queue is taken to mean an idle thread.
DrainIsEnough ==
  /\ cpc = "drain_test"
  /\ \E empty \in EmptyAnswers :
       /\ cpc' = IF empty THEN "act" ELSE "drain_wait"
       /\ misled' = (misled \/ (empty /\ requests # <<>>))
  /\ overtaken' = FALSE
  /\ UNCHANGED <<queues, signals, disc, dvd, task, finishing, emulator>>

Drain ==
  /\ cpc = "drain_test"
  /\ \E empty \in EmptyAnswers :
       /\ cpc' = IF empty THEN "stop" ELSE "drain_wait"
       /\ misled' = (misled \/ (empty /\ requests # <<>>))
  /\ overtaken' = FALSE
  /\ UNCHANGED <<queues, signals, disc, dvd, task, finishing, emulator>>

DrainWait ==
  /\ cpc = "drain_wait" /\ resultEvent
  /\ resultEvent' = FALSE
  /\ cpc' = "drain"
  /\ UNCHANGED <<queues, requestEvent, exiting, disc, dvd, task, finishing, emulator, asking>>

\* StopDVDThread()
StopSet ==
  /\ cpc = "stop" /\ cpc' = "stop_signal"
  /\ exiting' = TRUE
  /\ UNCHANGED <<queues, requestEvent, resultEvent, disc, dvd, task, finishing, emulator, asking>>

StopSignal ==
  /\ cpc = "stop_signal" /\ cpc' = "join"
  /\ requestEvent' = TRUE
  /\ UNCHANGED <<queues, resultEvent, exiting, disc, dvd, task, finishing, emulator, asking>>

\* The end of Stop(), or StartDVDThread().
Join ==
  /\ cpc = "join" /\ dpc = "none"
  /\ IF task = "stop"
       THEN /\ cpc' = "off" /\ disc' = NoDisc
            /\ scheduled' = {}
            /\ UNCHANGED <<exiting, dpc>>
       ELSE /\ cpc' = "act" /\ exiting' = FALSE /\ dpc' = "wait"
            /\ UNCHANGED <<disc, scheduled>>
  /\ UNCHANGED <<queues, requestEvent, resultEvent, current, task, finishing, delivered, reads,
                 sessions, saved, asking>>

\* DoState() moves every result to the map.
AllResults == resultMap \cup {results[i] : i \in DOMAIN results}

\* What WaitUntilIdle() was called for.  A state holds the CoreTiming events.
Act ==
  /\ cpc = "act" /\ cpc' = "idle"
  /\ \/ /\ task = "query"
        /\ UNCHANGED <<results, resultMap, nextId, disc, scheduled, saved>>
     \/ /\ task \in Discs \cup {NoDisc} /\ disc' = task
        /\ UNCHANGED <<results, resultMap, nextId, scheduled, saved>>
     \/ /\ task = "save"
        /\ results' = <<>> /\ resultMap' = AllResults
        /\ saved' = <<[map |-> AllResults, nextId |-> nextId, hadDisc |-> disc # NoDisc,
                       scheduled |-> scheduled]>>
        /\ UNCHANGED <<nextId, disc, scheduled>>
     \/ /\ task = "load"
        /\ results' = <<>> /\ resultMap' = saved[1].map
        /\ nextId' = saved[1].nextId /\ scheduled' = saved[1].scheduled
        /\ disc' = IF saved[1].hadDisc THEN disc ELSE NoDisc
        /\ UNCHANGED saved
  /\ UNCHANGED <<requests, signals, dvd, task, finishing, delivered, reads, sessions, asking>>
-----------------------------------------------------------------------------
\* The steps of a call that is in progress on the CPU thread.
CPUStep ==
  \/ StartReadSignal \/ FinishFind \/ FinishPop \/ FinishWait
  \/ DrainLoad \/ Drain \/ DrainWait \/ StopSet \/ StopSignal \/ Join \/ Act

Next ==
  \/ DVDStep \/ CPUStep
  \/ Start \/ StartRead
  \/ \E event \in scheduled : FinishRead(event)
  \/ \E what \in Tasks : Begin(what)

\* Both threads are scheduled; no read has to be started.
Spec == Init /\ [][Next]_vars /\ WF_vars(DVDStep) /\ WF_vars(CPUStep)
-----------------------------------------------------------------------------
Reads == [id : 0 .. MaxReads - 1, nth : 1 .. MaxReads]
ReadResults == [id : 0 .. MaxReads - 1, nth : 1 .. MaxReads,
                disc : Discs \cup {NoDisc}]
Elements(s) == {s[i] : i \in DOMAIN s}

\* Types; the DVD thread dereferences s_disc without testing it, so there is
\* one whenever it reads, unless WaitUntilIdle() was misled.
TypeOK ==
  /\ Elements(requests) \subseteq Reads
  /\ Elements(results) \cup resultMap \cup scheduled \subseteq ReadResults
  /\ nextId \in 0 .. MaxReads /\ reads \in 0 .. MaxReads /\ sessions \in 0 .. MaxSessions
  /\ disc \in Discs \cup {NoDisc} /\ task \in Tasks
  /\ requestEvent \in BOOLEAN /\ resultEvent \in BOOLEAN /\ exiting \in BOOLEAN
  /\ dpc \in {"none", "wait", "woken", "pop", "read", "push", "signal", "signalled"}
  /\ cpc \in {"off", "idle", "started", "find", "search", "search_wait", "drain", "drain_test",
              "drain_wait", "stop", "stop_signal", "join", "act"}
  /\ overtaken \in BOOLEAN /\ misled \in BOOLEAN
  /\ dpc = "read" /\ ~misled => disc # NoDisc

\* FinishRead(), "we have now obtained the right ReadResult": the read that
\* was started for this event, from the disc that was in the drive then, in
\* whatever order reads complete, discs are changed and states are loaded, as
\* long as no Empty() of WaitUntilIdle() was misled by the DVD thread's Pop().
RightResult ==
  ~misled /\ delivered # <<>> => /\ delivered[2].nth = delivered[1].nth
                                 /\ delivered[2].disc = delivered[1].disc

\* The DVD thread reads s_disc without a lock: while the CPU thread changes or
\* queries the disc, no read is in progress and none can start.  DoState() says
\* it of every WaitUntilIdle(); it is so of those that were not misled.
DiscIsPrivate ==
  cpc = "act" /\ ~misled => requests = <<>> /\ current = <<>>

\* A read that still has its event is in exactly one place: the request
\* queue, the hands of the DVD thread, the result queue or the map (a
\* savestate has no request queue, so not after a misled save).
Holders(event) ==
  {<<"request", i>> : i \in {i \in DOMAIN requests : requests[i].id = event.id}}
    \cup {<<"result", i>> : i \in {i \in DOMAIN results : results[i].id = event.id}}
    \cup {<<"map", r>> : r \in {r \in resultMap : r.id = event.id}}
    \cup (IF current # <<>> /\ current.id = event.id THEN {<<"thread", 0>>} ELSE {})

EachReadOnce ==
  ~misled =>
    \A event \in scheduled \cup (IF finishing = <<>> THEN {} ELSE {finishing}) :
      Cardinality(Holders(event)) = 1

\* Each call of the CPU thread returns: FinishRead() gets its result and
\* WaitUntilIdle() and Stop() see the DVD thread end, also when the cell that
\* Empty() tests is gone, unless a misled save has lost a read.
CallsReturn == (cpc # "idle") ~> (cpc \in {"idle", "off"} \/ (misled /\ saved # <<>>))
=============================================================================
