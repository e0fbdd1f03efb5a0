-------------------------- MODULE DVDThreadProofs ---------------------------
(***************************************************************************)
(* For any discs, any number of reads, disc changes and savestates: as     *)
(* long as the Empty() of WaitUntilIdle() was right, the DVD thread and    *)
(* the CPU thread never use the disc at the same time, and FinishRead()    *)
(* gets the result of its own read.                                        *)
(*                                                                         *)
(* Quiet is what WaitUntilIdle() achieves; it holds over any number of     *)
(* sessions.  Once says that the IDs in use are distinct and below         *)
(* s_next_id, and that each event has its read somewhere; it holds in one  *)
(* session only, since Start() begins again at ID 0 without clearing       *)
(* s_result_map.  SavedOnce is the same of the savestate: it holds no      *)
(* request, which is why WaitUntilIdle() comes before DoState().           *)
(***************************************************************************)
EXTENDS DVDThread, FiniteSetTheorems, TLAPS

\* FinishRead() is running.
FinishPCs == {"find", "search", "search_wait"}

States == [map : SUBSET ReadResults, nextId : 0 .. MaxReads, hadDisc : BOOLEAN,
           scheduled : SUBSET ReadResults]

\* The types, with those of the locals of both threads and of the savestate.
Typed ==
  /\ requests \in Seq(Reads) /\ results \in Seq(ReadResults)
  /\ resultMap \subseteq ReadResults /\ scheduled \subseteq ReadResults
  /\ nextId \in Nat /\ reads \in Nat /\ nextId <= reads /\ reads <= MaxReads
  /\ sessions \in 0 .. MaxSessions
  /\ disc \in Discs \cup {NoDisc} /\ task \in Tasks
  /\ requestEvent \in BOOLEAN /\ resultEvent \in BOOLEAN /\ exiting \in BOOLEAN
  /\ dpc \in {"none", "wait", "woken", "pop", "read", "push", "signal", "signalled"}
  /\ cpc \in {"off", "idle", "started", "find", "search", "search_wait", "drain", "drain_test",
              "drain_wait", "stop", "stop_signal", "join", "act"}
  /\ overtaken \in BOOLEAN /\ misled \in BOOLEAN

\* What the threads hold in their hands.
Held ==
  /\ dpc = "read" => current \in Reads
  /\ dpc = "push" => current \in ReadResults
  /\ dpc \notin {"read", "push"} => current = <<>>
  /\ cpc \in FinishPCs => finishing \in ReadResults
  /\ cpc \notin FinishPCs => finishing = <<>>
  /\ saved # <<>> => saved[1] \in States /\ saved[1].nextId <= reads
  /\ task = "load" => saved # <<>>

\* Who may touch the disc.  WaitUntilIdle() saw the queue of requests empty,
\* and only the CPU thread fills it.
Quiet ==
  /\ cpc = "off" => dpc = "none"
  /\ cpc \in {"stop", "stop_signal", "join"} /\ task # "stop" => requests = <<>>
  /\ cpc = "act" => requests = <<>> /\ dpc \notin {"read", "push"}
  /\ cpc # "off" /\ requests # <<>> => disc # NoDisc
  /\ dpc = "read" => disc # NoDisc

\* No two of the requests and the results have the same ID.
Distinct ==
  /\ \A i, j \in DOMAIN requests : requests[i].id = requests[j].id => i = j
  /\ \A i, j \in DOMAIN results : results[i].id = results[j].id => i = j
  /\ \A r, s \in resultMap : r.id = s.id => r = s
  /\ \A i \in DOMAIN requests, j \in DOMAIN results : requests[i].id # results[j].id
  /\ \A i \in DOMAIN requests, r \in resultMap : requests[i].id # r.id
  /\ \A i \in DOMAIN results, r \in resultMap : results[i].id # r.id

\* ... nor the one that the DVD thread holds.
Apart ==
  dpc \in {"read", "push"} =>
    /\ \A i \in DOMAIN requests : requests[i].id # current.id
    /\ \A i \in DOMAIN results : results[i].id # current.id
    /\ \A r \in resultMap : r.id # current.id

\* s_next_id is new.
Used ==
  /\ \A i \in DOMAIN requests : requests[i].id < nextId
  /\ \A i \in DOMAIN results : results[i].id < nextId
  /\ \A r \in resultMap : r.id < nextId
  /\ dpc \in {"read", "push"} => current.id < nextId

\* Where the read of an event is.
Matched(e) ==
  \/ \E i \in DOMAIN requests :
       requests[i].id = e.id /\ requests[i].nth = e.nth /\ e.disc = disc
  \/ dpc = "read" /\ current.id = e.id /\ current.nth = e.nth /\ e.disc = disc
  \/ dpc = "push" /\ current = e
  \/ \E i \in DOMAIN results : results[i] = e
  \/ e \in resultMap

Events ==
  /\ \A e \in scheduled : Matched(e)
  /\ \A e, f \in scheduled : e.id = f.id => e = f
  /\ cpc \in FinishPCs => Matched(finishing) /\ \A e \in scheduled : e.id # finishing.id
  /\ cpc = "off" => scheduled = {}

SavedOnce ==
  saved # <<>> =>
    /\ \A r, s \in saved[1].map : r.id = s.id => r = s
    /\ \A r \in saved[1].map : r.id < saved[1].nextId
    /\ saved[1].scheduled \subseteq saved[1].map

\* RightResult, of a session that was not misled.
Delivered ==
  delivered # <<>> => delivered[2].nth = delivered[1].nth /\ delivered[2].disc = delivered[1].disc

FirstSession == sessions = 0 => cpc = "off" /\ resultMap = {} /\ saved = <<>>

Once == Distinct /\ Apart /\ Used /\ Events /\ SavedOnce /\ FirstSession /\ Delivered

IInv == Typed /\ Held /\ (~misled => Quiet /\ (MaxSessions <= 1 => Once))
-----------------------------------------------------------------------------
\* What the queues hand out and what they keep.
LEMMA HeadTailFacts ==
  ASSUME NEW S, NEW s \in Seq(S), s # <<>>
  PROVE  /\ Head(s) \in S /\ Head(s) = s[1] /\ 1 \in DOMAIN s
         /\ Tail(s) \in Seq(S)
         /\ \A i \in DOMAIN Tail(s) : i + 1 \in DOMAIN s /\ Tail(s)[i] = s[i + 1]
         /\ \A i \in DOMAIN s : i = 1 \/ (i - 1 \in DOMAIN Tail(s) /\ s[i] = Tail(s)[i - 1])
         /\ DOMAIN Tail(s) \subseteq Nat /\ DOMAIN s \subseteq Nat
         /\ 0 \notin DOMAIN Tail(s)
  OBVIOUS

LEMMA AppendFacts ==
  ASSUME NEW S, NEW s \in Seq(S), NEW e \in S
  PROVE  /\ Append(s, e) \in Seq(S)
         /\ DOMAIN Append(s, e) = DOMAIN s \cup {Len(s) + 1}
         /\ Len(s) + 1 \notin DOMAIN s
         /\ Append(s, e)[Len(s) + 1] = e
         /\ \A i \in DOMAIN s : Append(s, e)[i] = s[i]
  OBVIOUS

\* A record is not the empty sequence.
LEMMA RecordNotEmpty ==
  /\ \A r \in Reads : r # <<>>
  /\ \A r \in ReadResults : r # <<>>
<1>1. DOMAIN <<>> = {}
  OBVIOUS
<1>2. ASSUME NEW r \in Reads PROVE r # <<>>
  <2>1. "id" \in DOMAIN r
    BY DEF Reads
  <2> QED
    BY <1>1, <2>1
<1>3. ASSUME NEW r \in ReadResults PROVE r # <<>>
  <2>1. "id" \in DOMAIN r
    BY DEF ReadResults
  <2> QED
    BY <1>1, <2>1
<1> QED
  BY <1>2, <1>3

\* Types
LEMMA InitTyped == Init => Typed /\ Held /\ Quiet
<1> SUFFICES ASSUME Init PROVE Typed /\ Held /\ Quiet
  OBVIOUS
<1>1. /\ requestEvent \in BOOLEAN /\ resultEvent \in BOOLEAN /\ exiting \in BOOLEAN
      /\ overtaken \in BOOLEAN /\ misled \in BOOLEAN
  BY Zenon DEF Init
<1>2. Typed
  BY <1>1, DiscAssumption DEF Init, Typed, Tasks
<1>3. Held /\ Quiet
  BY DEF Init, Held, Quiet, FinishPCs
<1> QED
  BY <1>2, <1>3

\* Only the test of WaitUntilIdle() sets misled, and nothing resets it.
LEMMA MisledForEver == [Next]_vars /\ misled => misled'
<1> SUFFICES ASSUME [Next]_vars, misled PROVE misled'
  OBVIOUS
<1> USE DEF cpu, asking
<1>1. CASE DVDStep
  BY <1>1 DEF DVDStep, DVDWait, DVDTestExit, DVDPop, DVDRead, DVDPush, DVDSignal
<1>2. CASE CPUStep
  BY <1>2 DEF CPUStep, StartReadSignal, FinishFind, FinishPop, FinishWait, DrainLoad, Drain,
     DrainWait, StopSet, StopSignal, Join, Act
<1>3. CASE Start \/ StartRead
  BY <1>3 DEF Start, StartRead
<1>4. CASE \E event \in scheduled : FinishRead(event)
  BY <1>4 DEF FinishRead
<1>5. CASE \E what \in Tasks : Begin(what)
  BY <1>5 DEF Begin
<1>6. CASE UNCHANGED vars
  BY <1>6 DEF vars
<1> QED
  BY <1>1, <1>2, <1>3, <1>4, <1>5, <1>6 DEF Next

\* Only an idle DVD thread leaves the disc to the CPU thread.
LEMMA NextQuiet == Typed /\ Held /\ ~misled' /\ Quiet /\ [Next]_vars => Quiet'
<1> SUFFICES ASSUME Typed, Held, ~misled', Quiet, [Next]_vars PROVE Quiet'
  OBVIOUS
<1> USE DiscAssumption DEF Typed, Held, Quiet, queues, signals, dvd, cpu, asking, emulator
<1>1. CASE DVDWait \/ DVDTestExit \/ DVDSignal
  BY <1>1 DEF DVDWait, DVDTestExit, DVDSignal
<1>2. CASE DVDPop
  BY <1>2 DEF DVDPop
<1>3. CASE DVDRead
  BY <1>3 DEF DVDRead
<1>4. CASE DVDPush
  BY <1>4 DEF DVDPush
<1>5. CASE StartRead
  BY <1>5, AppendFacts DEF StartRead
<1>6. CASE \E event \in scheduled : FinishRead(event)
  BY <1>6 DEF FinishRead
<1>7. CASE FinishFind
  BY <1>7 DEF FinishFind, Deliver
<1>8. CASE FinishPop
  BY <1>8 DEF FinishPop, Deliver
<1>9. CASE StartReadSignal \/ FinishWait \/ DrainLoad \/ Drain \/ DrainWait \/ StopSet \/ StopSignal
  BY <1>9 DEF StartReadSignal, FinishWait, DrainLoad, Drain, DrainWait, StopSet, StopSignal
<1>10. CASE Join
  BY <1>10 DEF Join
<1>11. CASE Act
  BY <1>11 DEF Act, AllResults
<1>12. CASE Start
  BY <1>12 DEF Start
<1>13. CASE \E what \in Tasks : Begin(what)
  BY <1>13 DEF Begin
<1>14. CASE UNCHANGED vars
  BY <1>14 DEF vars
<1> QED
  BY <1>1, <1>2, <1>3, <1>4, <1>5, <1>6, <1>7, <1>8, <1>9, <1>10, <1>11, <1>12, <1>13, <1>14
     DEF Next, DVDStep, CPUStep

\* What the threads hold in their hands.
LEMMA NextHeld == Typed /\ Held /\ [Next]_vars => Held'
<1> SUFFICES ASSUME Typed, Held, [Next]_vars PROVE Held'
  OBVIOUS
<1> USE DiscAssumption DEF Typed, Held, FinishPCs, queues, signals, dvd, cpu, asking, emulator
<1>1. CASE DVDWait \/ DVDTestExit \/ DVDSignal
  BY <1>1 DEF DVDWait, DVDTestExit, DVDSignal
<1>2. CASE DVDPop
  BY <1>2 DEF DVDPop
<1>3. CASE DVDRead
  <2>1. current \in Reads /\ disc \in Discs \cup {NoDisc}
    BY <1>3 DEF DVDRead
  <2>2. [id |-> current.id, nth |-> current.nth, disc |-> disc] \in ReadResults
    BY <2>1 DEF Reads, ReadResults
  <2> QED
    BY <1>3, <2>2 DEF DVDRead
<1>4. CASE DVDPush
  BY <1>4 DEF DVDPush
<1>5. CASE StartRead
  <2>1. reads' = reads + 1 /\ UNCHANGED <<saved, dpc, current, finishing, task>>
    BY <1>5 DEF StartRead
  <2>2. saved # <<>> => saved[1].nextId <= reads'
    BY <2>1 DEF States
  <2>3. cpc \notin FinishPCs /\ cpc' \notin FinishPCs
    BY <1>5 DEF StartRead
  <2> QED
    BY <2>1, <2>2, <2>3
<1>6. CASE \E event \in scheduled : FinishRead(event)
  BY <1>6 DEF FinishRead
<1>7. CASE FinishFind
  BY <1>7 DEF FinishFind, Deliver
<1>8. CASE FinishPop
  BY <1>8 DEF FinishPop, Deliver
<1>9. CASE StartReadSignal \/ FinishWait \/ DrainLoad \/ Drain \/ DrainWait \/ StopSet \/ StopSignal
  BY <1>9 DEF StartReadSignal, FinishWait, DrainLoad, Drain, DrainWait, StopSet, StopSignal
<1>10. CASE Join
  BY <1>10 DEF Join
<1>11. CASE Act
  <2>1. UNCHANGED <<dpc, current, finishing, reads, task>>
    BY <1>11 DEF Act
  <2>3. cpc \notin FinishPCs /\ cpc' \notin FinishPCs
    BY <1>11 DEF Act
  <2>2. saved' # <<>> => saved'[1] \in States /\ saved'[1].nextId <= reads
    <3>1. CASE task = "save"
      <4>1. AllResults \subseteq ReadResults
        BY DEF AllResults
      <4>2. [map |-> AllResults, nextId |-> nextId, hadDisc |-> disc # NoDisc,
             scheduled |-> scheduled] \in States
        BY <4>1 DEF States
      <4>3. \/ saved' = <<[map |-> AllResults, nextId |-> nextId, hadDisc |-> disc # NoDisc,
                           scheduled |-> scheduled]>>
            \/ UNCHANGED saved
        BY <1>11, <3>1 DEF Act
      <4> QED
        BY <4>2, <4>3
    <3>2. CASE task # "save"
      BY <1>11, <3>2 DEF Act
    <3> QED
      BY <3>1, <3>2
  <2>4. task = "load" => saved' # <<>>
    BY <1>11 DEF Act
  <2> QED
    BY <2>1, <2>2, <2>3, <2>4
<1>12. CASE Start
  BY <1>12 DEF Start
<1>13. CASE \E what \in Tasks : Begin(what)
  BY <1>13 DEF Begin
<1>14. CASE UNCHANGED vars
  BY <1>14 DEF vars
<1> QED
  BY <1>1, <1>2, <1>3, <1>4, <1>5, <1>6, <1>7, <1>8, <1>9, <1>10, <1>11, <1>12, <1>13, <1>14
     DEF Next, DVDStep, CPUStep

\* Types
LEMMA NextTyped == Typed /\ Held /\ [Next]_vars => Typed'
<1> SUFFICES ASSUME Typed, Held, [Next]_vars PROVE Typed'
  OBVIOUS
<1> USE DiscAssumption DEF Typed, Held, FinishPCs, queues, signals, dvd, cpu, asking, emulator
<1>1. CASE DVDWait \/ DVDTestExit \/ DVDSignal
  BY <1>1 DEF DVDWait, DVDTestExit, DVDSignal
<1>2. CASE DVDPop
  <2>1. CASE requests = <<>>
    BY <1>2, <2>1 DEF DVDPop
  <2>2. CASE requests # <<>>
    <3>1. Tail(requests) \in Seq(Reads)
      BY <2>2, HeadTailFacts
    <3> QED
      BY <1>2, <2>2, <3>1 DEF DVDPop
  <2> QED
    BY <2>1, <2>2
<1>3. CASE DVDRead
  BY <1>3 DEF DVDRead
<1>4. CASE DVDPush
  BY <1>4 DEF DVDPush
<1>5. CASE StartRead
  <2>1. nextId < MaxReads /\ reads < MaxReads /\ disc \in Discs
    BY <1>5 DEF StartRead
  <2>2. /\ [id |-> nextId, nth |-> reads + 1] \in Reads
        /\ [id |-> nextId, nth |-> reads + 1, disc |-> disc] \in ReadResults
    BY <2>1 DEF Reads, ReadResults
  <2>3. requests' \in Seq(Reads)
    BY <1>5, <2>2, AppendFacts DEF StartRead
  <2>4. nextId' = nextId + 1 /\ reads' = reads + 1
    BY <1>5 DEF StartRead
  <2>5. scheduled' \subseteq ReadResults
    BY <1>5, <2>2 DEF StartRead
  <2>6. /\ UNCHANGED <<results, resultMap, sessions, disc, task, signals, dpc, asking>>
        /\ cpc' = "started"
    BY <1>5 DEF StartRead
  <2> HIDE <1>5
  <2> QED
    BY <2>1, <2>3, <2>4, <2>5, <2>6
<1>6. CASE \E event \in scheduled : FinishRead(event)
  BY <1>6 DEF FinishRead
<1>7. CASE FinishFind
  BY <1>7 DEF FinishFind, Deliver
<1>8. CASE FinishPop
  <2>1. CASE results = <<>>
    BY <1>8, <2>1 DEF FinishPop
  <2>2. CASE results # <<>>
    <3>1. Tail(results) \in Seq(ReadResults) /\ Head(results) \in ReadResults
      BY <2>2, HeadTailFacts
    <3>2. resultMap' \subseteq ReadResults
      BY <1>8, <2>2, <3>1 DEF FinishPop
    <3> QED
      BY <1>8, <2>2, <3>1, <3>2 DEF FinishPop, Deliver
  <2> QED
    BY <2>1, <2>2
<1>9. CASE StartReadSignal \/ FinishWait \/ DrainLoad \/ Drain \/ DrainWait \/ StopSet \/ StopSignal
  BY <1>9 DEF StartReadSignal, FinishWait, DrainLoad, Drain, DrainWait, StopSet, StopSignal
<1>10. CASE Join
  BY <1>10 DEF Join
<1>11. CASE Act
  <2>1. AllResults \subseteq ReadResults
    BY DEF AllResults
  <2>2. results' \in Seq(ReadResults) /\ resultMap' \subseteq ReadResults
    <3>1. results' = <<>> \/ UNCHANGED results
      BY <1>11 DEF Act
    <3>2. resultMap' \subseteq ReadResults
      BY <1>11, <2>1 DEF Act, States
    <3>3. CASE results' = <<>>
      BY <3>2, <3>3
    <3>4. CASE UNCHANGED results
      BY <3>2, <3>4
    <3> QED
      BY <3>1, <3>3, <3>4
  <2>3. nextId' \in Nat /\ nextId' <= reads /\ scheduled' \subseteq ReadResults
    BY <1>11 DEF Act, States
  <2>4. disc' \in Discs \cup {NoDisc}
    BY <1>11 DEF Act
  <2> QED
    BY <1>11, <2>2, <2>3, <2>4 DEF Act
<1>12. CASE Start
  <2>1. requestEvent' \in BOOLEAN /\ resultEvent' \in BOOLEAN /\ exiting' \in BOOLEAN
    BY <1>12, Zenon DEF Start
  <2>2. requests' = <<>> /\ results' = <<>> /\ nextId' = 0
    BY <1>12 DEF Start
  <2>3. /\ UNCHANGED <<resultMap, scheduled, reads, disc, task, asking>>
        /\ dpc' = "wait" /\ cpc' = "idle"
    BY <1>12 DEF Start
  <2>4. sessions' \in 0 .. MaxSessions
    BY <1>12 DEF Start
  <2> HIDE <1>12
  <2> QED
    BY <2>1, <2>2, <2>3, <2>4
<1>13. CASE \E what \in Tasks : Begin(what)
  BY <1>13 DEF Begin
<1>14. CASE UNCHANGED vars
  BY <1>14 DEF vars
<1> QED
  BY <1>1, <1>2, <1>3, <1>4, <1>5, <1>6, <1>7, <1>8, <1>9, <1>10, <1>11, <1>12, <1>13, <1>14
     DEF Next, DVDStep, CPUStep

\* Steps that leave the queues and the events alone.
LEMMA OnceSame ==
  ASSUME Once, dpc' = dpc \/ (dpc \notin {"read", "push"} /\ dpc' \notin {"read", "push"}),
         cpc' \in FinishPCs <=> cpc \in FinishPCs, cpc' = "off" <=> cpc = "off",
         UNCHANGED <<queues, current, disc, finishing, scheduled, delivered, saved, sessions>>
  PROVE  Once'
<1> USE DEF Once, queues
<1>1. Distinct' /\ Used' /\ Apart'
  BY DEF Distinct, Used, Apart
<1>2. Events'
  BY DEF Events, Matched
<1>3. SavedOnce' /\ FirstSession' /\ Delivered'
  BY DEF SavedOnce, FirstSession, Delivered
<1> QED
  BY <1>1, <1>2, <1>3

\* A result is determined by its fields.
LEMMA ResultFields ==
  ASSUME NEW r \in ReadResults
  PROVE  r = [id |-> r.id, nth |-> r.nth, disc |-> r.disc]
  BY DEF ReadResults

\* The result with the ID of an event is the one of its read, and s_next_id
\* is not the ID of any event.
LEMMA MatchIsUnique ==
  ASSUME Held, Distinct, Apart, Used, NEW e \in ReadResults, Matched(e)
  PROVE  /\ \A r \in resultMap : r.id = e.id => r = e
         /\ \A i \in DOMAIN results : results[i].id = e.id => results[i] = e
         /\ e.id < nextId
<1>1. \A r \in resultMap : r.id = e.id => r = e
  BY DEF Distinct, Apart, Matched
<1>2. \A i \in DOMAIN results : results[i].id = e.id => results[i] = e
  BY DEF Distinct, Apart, Matched
<1>3. e.id < nextId
  BY DEF Used, Matched
<1> QED
  BY <1>1, <1>2, <1>3

\* The DVD thread takes a request.
LEMMA PopOnce == ASSUME Typed, Held, Once, DVDPop PROVE Once'
<1> USE DEF Once
<1>1. CASE requests = <<>>
  BY <1>1, OnceSame DEF DVDPop, Held, queues, signals, cpu, emulator
<1>2. CASE requests # <<>>
  <2> DEFINE t == Tail(requests)
  <2>1. /\ requests' = t /\ current' = Head(requests) /\ dpc = "pop" /\ dpc' = "read"
        /\ UNCHANGED <<results, resultMap, nextId, disc, cpc, finishing, scheduled, delivered,
                       saved, sessions>>
    BY <1>2 DEF DVDPop, cpu, emulator
  <2>2. /\ Head(requests) = requests[1] /\ 1 \in DOMAIN requests
        /\ \A i \in DOMAIN t : i + 1 \in DOMAIN requests /\ t[i] = requests[i + 1]
        /\ \A i \in DOMAIN requests : i = 1 \/ (i - 1 \in DOMAIN t /\ requests[i] = t[i - 1])
        /\ DOMAIN t \subseteq Nat /\ DOMAIN requests \subseteq Nat /\ 0 \notin DOMAIN t
    BY <1>2, HeadTailFacts DEF Typed
  <2> HIDE DEF t
  <2>3. Distinct'
    BY <2>1, <2>2 DEF Distinct
  <2>4. Apart' /\ Used'
    BY <2>1, <2>2 DEF Apart, Used, Distinct
  <2>5. Events'
    <3>1. ASSUME NEW e, Matched(e) PROVE Matched(e)'
      BY <2>1, <2>2, <3>1 DEF Matched
    <3> QED
      BY <2>1, <3>1 DEF Events
  <2>6. SavedOnce' /\ FirstSession' /\ Delivered'
    BY <2>1 DEF SavedOnce, FirstSession, Delivered
  <2> QED
    BY <2>3, <2>4, <2>5, <2>6
<1> QED
  BY <1>1, <1>2

\* It reads the disc that was in the drive when the read was started.
LEMMA ReadOnce == ASSUME Typed, Held, Once, DVDRead PROVE Once'
<1> USE DEF Once
<1>1. /\ dpc = "read" /\ dpc' = "push"
      /\ current'.id = current.id /\ current'.nth = current.nth /\ current'.disc = disc
      /\ current' = [id |-> current.id, nth |-> current.nth, disc |-> disc]
      /\ UNCHANGED <<requests, results, resultMap, nextId, disc, cpc, finishing, scheduled,
                     delivered, saved, sessions>>
  BY DEF DVDRead, cpu, emulator, queues
<1>2. Distinct' /\ Apart' /\ Used'
  BY <1>1 DEF Distinct, Apart, Used
<1>3. Events'
  <2>1. ASSUME NEW e \in ReadResults, Matched(e) PROVE Matched(e)'
    BY <1>1, <2>1, ResultFields DEF Matched
  <2> QED
    BY <1>1, <2>1 DEF Events, Typed, Held
<1>4. SavedOnce' /\ FirstSession' /\ Delivered'
  BY <1>1 DEF SavedOnce, FirstSession, Delivered
<1> QED
  BY <1>2, <1>3, <1>4

\* It queues the result.
LEMMA PushOnce == ASSUME Typed, Held, Once, DVDPush PROVE Once'
<1> USE DEF Once
<1> DEFINE t == Append(results, current)
<1>1. /\ dpc = "push" /\ dpc' = "signal" /\ results' = t
      /\ UNCHANGED <<requests, resultMap, nextId, disc, cpc, finishing, scheduled,
                     delivered, saved, sessions>>
  BY DEF DVDPush, cpu, emulator, queues
<1>2. /\ DOMAIN t = DOMAIN results \cup {Len(results) + 1}
      /\ Len(results) + 1 \notin DOMAIN results
      /\ t[Len(results) + 1] = current
      /\ \A i \in DOMAIN results : t[i] = results[i]
  BY <1>1, AppendFacts DEF Typed, Held
<1> HIDE DEF t
<1>3. Distinct' /\ Apart' /\ Used'
  BY <1>1, <1>2 DEF Distinct, Apart, Used
<1>4. Events'
  <2>1. ASSUME NEW e, Matched(e) PROVE Matched(e)'
    BY <1>1, <1>2, <2>1 DEF Matched
  <2> QED
    BY <1>1, <2>1 DEF Events
<1>5. SavedOnce' /\ FirstSession' /\ Delivered'
  BY <1>1 DEF SavedOnce, FirstSession, Delivered
<1> QED
  BY <1>3, <1>4, <1>5

\* StartRead() gives the request and its event a new ID.
LEMMA StartOnce == ASSUME Typed, Held, Once, StartRead PROVE Once'
<1> USE DEF Once
<1> DEFINE new == [id |-> nextId, nth |-> reads + 1]
           event == [id |-> nextId, nth |-> reads + 1, disc |-> disc]
           t == Append(requests, new)
<1>1. /\ new.id = nextId /\ new.nth = reads + 1
      /\ event.id = nextId /\ event.nth = reads + 1 /\ event.disc = disc
  OBVIOUS
<1>2. /\ requests' = t /\ scheduled' = scheduled \cup {event} /\ nextId' = nextId + 1
      /\ cpc = "idle" /\ cpc' = "started"
      /\ UNCHANGED <<results, resultMap, disc, dpc, current, finishing, delivered, saved,
                     sessions>>
  BY DEF StartRead, dvd
<1>3. new \in Reads
  <2>1. nextId < MaxReads /\ reads < MaxReads
    BY DiscAssumption DEF StartRead, Typed
  <2> QED
    BY <2>1, DiscAssumption DEF Typed, Reads
<1>4. /\ DOMAIN t = DOMAIN requests \cup {Len(requests) + 1}
      /\ Len(requests) + 1 \notin DOMAIN requests
      /\ t[Len(requests) + 1] = new
      /\ \A i \in DOMAIN requests : t[i] = requests[i]
  BY <1>3, AppendFacts DEF Typed
<1>5. /\ \A i \in DOMAIN requests : requests[i].id \in Nat
      /\ \A i \in DOMAIN results : results[i].id \in Nat
      /\ \A r \in resultMap \cup scheduled : r.id \in Nat
      /\ dpc \in {"read", "push"} => current.id \in Nat
      /\ nextId \in Nat
  <2>1. \A r \in Reads \cup ReadResults : r.id \in Nat
    BY DiscAssumption DEF Reads, ReadResults
  <2> QED
    BY <2>1 DEF Typed, Held
<1> HIDE DEF t, new, event
<1>6. Distinct'
  BY <1>1, <1>2, <1>4, <1>5 DEF Distinct, Used
<1>7. Apart' /\ Used'
  BY <1>1, <1>2, <1>4, <1>5 DEF Apart, Used
<1>8. Events'
  <2>1. ASSUME NEW e, Matched(e) PROVE Matched(e)'
    BY <1>2, <1>4, <2>1 DEF Matched
  <2>2. ASSUME NEW e, e = event PROVE Matched(e)'
    BY <1>1, <1>2, <1>4, <2>2 DEF Matched
  <2>3. \A e \in scheduled : e.id < nextId
    BY MatchIsUnique DEF Events, Typed
  <2>4. \A e \in scheduled' : Matched(e)'
    BY <1>2, <2>1, <2>2 DEF Events
  <2>5. \A e, f \in scheduled' : e.id = f.id => e = f
    BY <1>1, <1>2, <1>5, <2>3 DEF Events
  <2> QED
    BY <1>2, <2>4, <2>5 DEF Events, FinishPCs
<1>9. SavedOnce' /\ FirstSession' /\ Delivered'
  BY <1>2 DEF SavedOnce, FirstSession, Delivered
<1> QED
  BY <1>6, <1>7, <1>8, <1>9

\* FinishRead() begins.
LEMMA FinishOnce ==
  ASSUME Typed, Once, NEW event \in scheduled, FinishRead(event) PROVE Once'
<1> USE DEF Once
<1>1. /\ scheduled' = scheduled \ {event} /\ finishing' = event
      /\ cpc = "idle" /\ cpc' = "find"
      /\ UNCHANGED <<requests, results, resultMap, nextId, disc, dpc, current, delivered, saved,
                     sessions>>
  BY DEF FinishRead, dvd, queues
<1>2. Distinct' /\ Apart' /\ Used'
  BY <1>1 DEF Distinct, Apart, Used
<1>3. Events'
  <2>1. ASSUME NEW e, Matched(e) PROVE Matched(e)'
    BY <1>1, <2>1 DEF Matched
  <2> QED
    BY <1>1, <2>1 DEF Events, FinishPCs
<1>4. SavedOnce' /\ FirstSession' /\ Delivered'
  BY <1>1 DEF SavedOnce, FirstSession, Delivered
<1> QED
  BY <1>2, <1>3, <1>4

\* It finds the result in the map.
LEMMA FindOnce == ASSUME Typed, Held, Once, FinishFind PROVE Once'
<1> USE DEF Once
<1>1. cpc = "find" /\ finishing \in ReadResults /\ Matched(finishing)
  BY DEF FinishFind, Held, Events, FinishPCs
<1>2. CASE \A result \in resultMap : result.id # finishing.id
  <2>1. /\ cpc' = "search"
        /\ UNCHANGED <<queues, dpc, current, disc, finishing, scheduled, delivered, saved,
                       sessions>>
    BY <1>2 DEF FinishFind, dvd, queues
  <2> QED
    BY <1>1, <2>1, OnceSame DEF FinishPCs
<1>3. CASE \E result \in resultMap : result.id = finishing.id
  <2>1. finishing \in resultMap /\ \A r \in resultMap : r.id = finishing.id => r = finishing
    BY <1>1, <1>3, MatchIsUnique
  <2>2. /\ resultMap' = resultMap \ {finishing}
        /\ delivered' = <<finishing, finishing>> /\ cpc' = "idle"
        /\ UNCHANGED <<requests, results, nextId, disc, dpc, current, scheduled, saved, sessions>>
    BY <1>3, <2>1 DEF FinishFind, Deliver, dvd
  <2>3. Distinct' /\ Apart' /\ Used'
    BY <2>2 DEF Distinct, Apart, Used
  <2>4. Events'
    <3>1. ASSUME NEW e \in scheduled PROVE Matched(e)'
      BY <1>1, <2>2 DEF Events, Matched, FinishPCs
    <3> QED
      BY <2>2, <3>1 DEF Events, FinishPCs
  <2>5. SavedOnce' /\ FirstSession' /\ Delivered'
    BY <1>1, <2>2 DEF SavedOnce, FirstSession, Delivered
  <2> QED
    BY <2>3, <2>4, <2>5
<1> QED
  BY <1>2, <1>3

\* It looks for the result in the queue, and puts others into the map.
LEMMA SearchOnce == ASSUME Typed, Held, Once, FinishPop PROVE Once'
<1> USE DEF Once
<1>1. cpc = "search" /\ finishing \in ReadResults /\ Matched(finishing)
  BY DEF FinishPop, Held, Events, FinishPCs
<1>2. CASE results = <<>>
  <2>1. /\ cpc' = "search_wait"
        /\ UNCHANGED <<queues, dpc, current, disc, finishing, scheduled, delivered, saved,
                       sessions>>
    BY <1>2 DEF FinishPop, dvd, queues
  <2> QED
    BY <1>1, <2>1, OnceSame DEF FinishPCs
<1>3. CASE results # <<>>
  <2> DEFINE t == Tail(results)
             h == Head(results)
  <2>1. /\ h = results[1] /\ 1 \in DOMAIN results /\ h \in ReadResults
        /\ \A i \in DOMAIN t : i + 1 \in DOMAIN results /\ t[i] = results[i + 1]
        /\ \A i \in DOMAIN results : i = 1 \/ (i - 1 \in DOMAIN t /\ results[i] = t[i - 1])
        /\ DOMAIN t \subseteq Nat /\ DOMAIN results \subseteq Nat /\ 0 \notin DOMAIN t
    BY <1>3, HeadTailFacts DEF Typed
  <2>2. /\ results' = t
        /\ UNCHANGED <<requests, nextId, disc, dpc, current, scheduled, saved, sessions>>
    BY <1>3 DEF FinishPop, dvd
  <2>3. SavedOnce'
    BY <2>2 DEF SavedOnce
  <2>4. CASE h.id = finishing.id
    <3>1. h = finishing
      BY <1>1, <2>1, <2>4, MatchIsUnique
    <3>2. delivered' = <<finishing, finishing>> /\ cpc' = "idle" /\ UNCHANGED resultMap
      BY <1>3, <2>4, <3>1 DEF FinishPop, Deliver
    <3> HIDE DEF t, h
    <3>3. Distinct'
      BY <2>1, <2>2, <3>2 DEF Distinct
    <3>4. Apart' /\ Used'
      BY <2>1, <2>2, <3>2 DEF Apart, Used
    <3>5. Events'
      <4>1. ASSUME NEW e \in scheduled PROVE Matched(e)'
        <5>1. e # h /\ Matched(e)
          BY <1>1, <3>1 DEF Events, FinishPCs
        <5> QED
          BY <2>1, <2>2, <3>2, <5>1 DEF Matched
      <4> QED
        BY <2>2, <3>2, <4>1 DEF Events, FinishPCs
    <3>6. FirstSession' /\ Delivered'
      BY <1>1, <2>2, <3>2 DEF FirstSession, Delivered
    <3> QED
      BY <2>3, <3>3, <3>4, <3>5, <3>6
  <2>5. CASE h.id # finishing.id
    <3>1. ~ \E r \in resultMap : r.id = h.id
      BY <2>1 DEF Distinct
    <3>2. resultMap' = resultMap \cup {h} /\ UNCHANGED <<cpc, finishing, delivered>>
      BY <1>3, <2>5, <3>1 DEF FinishPop
    <3> HIDE DEF t, h
    <3>3. Distinct'
      BY <2>1, <2>2, <3>1, <3>2 DEF Distinct
    <3>4. Apart' /\ Used'
      BY <2>1, <2>2, <3>2 DEF Apart, Used
    <3>5. Events'
      <4>1. ASSUME NEW e, Matched(e) PROVE Matched(e)'
        BY <2>1, <2>2, <3>2, <4>1 DEF Matched
      <4> QED
        BY <2>2, <3>2, <4>1 DEF Events
    <3>6. FirstSession' /\ Delivered'
      BY <1>1, <2>2, <3>2 DEF FirstSession, Delivered
    <3> QED
      BY <2>3, <3>3, <3>4, <3>5, <3>6
  <2> QED
    BY <2>4, <2>5
<1> QED
  BY <1>2, <1>3

\* The end of WaitUntilIdle() or of Stop().
LEMMA JoinOnce == ASSUME Held, Once, Join PROVE Once'
<1> USE DEF Once
<1>1. /\ cpc = "join" /\ dpc = "none" /\ dpc' \notin {"read", "push"}
      /\ cpc' \in {"off", "act"}
      /\ UNCHANGED <<requests, results, resultMap, nextId, current, finishing, delivered, saved,
                     sessions>>
  BY DEF Join, queues
<1>2. Distinct' /\ Apart' /\ Used'
  BY <1>1 DEF Distinct, Apart, Used
<1>3. Events'
  <2>1. CASE task = "stop"
    BY <1>1, <2>1 DEF Join, Events, FinishPCs
  <2>2. CASE task # "stop"
    <3>1. UNCHANGED <<disc, scheduled>> /\ cpc' = "act"
      BY <2>2 DEF Join
    <3>2. ASSUME NEW e, Matched(e) PROVE Matched(e)'
      BY <1>1, <3>1, <3>2 DEF Matched
    <3> QED
      BY <1>1, <3>1, <3>2 DEF Events, FinishPCs
  <2> QED
    BY <2>1, <2>2
<1>4. SavedOnce' /\ FirstSession' /\ Delivered'
  BY <1>1 DEF SavedOnce, FirstSession, Delivered
<1> QED
  BY <1>2, <1>3, <1>4

\* A savestate holds every event with its result, and loading it takes back
\* s_next_id together with all that has an ID.
LEMMA ActOnce == ASSUME Typed, Held, Quiet, Once, Act PROVE Once'
<1> USE DEF Once
<1>1. /\ cpc = "act" /\ cpc' = "idle" /\ requests = <<>> /\ dpc \notin {"read", "push"}
      /\ UNCHANGED <<requests, dpc, current, finishing, delivered, sessions>>
  BY DEF Act, Quiet, dvd
<1>2. requests' = <<>> /\ dpc' \notin {"read", "push"} /\ DOMAIN requests' = {}
  BY <1>1
<1>3. FirstSession' /\ Delivered'
  BY <1>1 DEF FirstSession, Delivered
<1>4. CASE task = "query" \/ task \in Discs \cup {NoDisc}
  <2>1. UNCHANGED <<results, resultMap, nextId, scheduled, saved>>
    BY <1>4, DiscAssumption DEF Act
  <2>2. Distinct' /\ Apart' /\ Used' /\ SavedOnce'
    BY <1>1, <1>2, <2>1 DEF Distinct, Apart, Used, SavedOnce
  <2>3. ASSUME NEW e, Matched(e) PROVE Matched(e)'
    BY <1>1, <1>2, <2>1, <2>3 DEF Matched
  <2>4. Events'
    BY <1>1, <2>1, <2>3 DEF Events, FinishPCs
  <2> QED
    BY <1>3, <2>2, <2>4
<1>5. CASE task = "save"
  <2> DEFINE state == [map |-> AllResults, nextId |-> nextId, hadDisc |-> disc # NoDisc,
                       scheduled |-> scheduled]
  <2>1. /\ results' = <<>> /\ resultMap' = AllResults /\ saved' = <<state>>
        /\ UNCHANGED <<nextId, disc, scheduled>>
    BY <1>5, DiscAssumption DEF Act
  <2>2. /\ saved'[1].map = AllResults /\ saved'[1].nextId = nextId
        /\ saved'[1].scheduled = scheduled
    BY <2>1
  <2>3. DOMAIN results' = {}
    BY <2>1
  <2> HIDE DEF state
  <2>4. /\ \A r, s \in AllResults : r.id = s.id => r = s
        /\ \A r \in AllResults : r.id < nextId
    BY DEF AllResults, Distinct, Used
  <2>5. \A e \in scheduled : e \in AllResults
    BY <1>1 DEF Events, Matched, AllResults
  <2>6. Distinct' /\ Apart' /\ Used' /\ SavedOnce'
    BY <1>2, <2>1, <2>2, <2>3, <2>4, <2>5 DEF Distinct, Apart, Used, SavedOnce
  <2>7. \A e \in scheduled' : Matched(e)'
    BY <2>1, <2>5 DEF Matched
  <2>8. Events'
    BY <1>1, <2>1, <2>7 DEF Events, FinishPCs
  <2> QED
    BY <1>3, <2>6, <2>8
<1>6. CASE task = "load"
  <2>1. /\ results' = <<>> /\ resultMap' = saved[1].map /\ UNCHANGED saved
        /\ nextId' = saved[1].nextId /\ scheduled' = saved[1].scheduled
    BY <1>6, DiscAssumption DEF Act
  <2>2. DOMAIN results' = {}
    BY <2>1
  <2>3. /\ \A r, s \in saved[1].map : r.id = s.id => r = s
        /\ \A r \in saved[1].map : r.id < saved[1].nextId
        /\ saved[1].scheduled \subseteq saved[1].map
    BY <1>6 DEF SavedOnce, Held
  <2>4. Distinct' /\ Apart' /\ Used' /\ SavedOnce'
    BY <1>2, <2>1, <2>2, <2>3 DEF Distinct, Apart, Used, SavedOnce
  <2>5. \A e \in scheduled' : Matched(e)'
    BY <2>1, <2>3 DEF Matched
  <2>6. Events'
    BY <1>1, <2>1, <2>3, <2>5 DEF Events, FinishPCs
  <2> QED
    BY <1>3, <2>4, <2>6
<1> QED
  BY <1>4, <1>5, <1>6 DEF Act

\* A session begins.
LEMMA SessionOnce == ASSUME MaxSessions <= 1, Typed, Once, Start PROVE Once'
<1> USE DEF Once
<1>1. sessions = 0
  BY DiscAssumption DEF Start, Typed
<1>2. resultMap = {} /\ saved = <<>> /\ scheduled = {}
  BY <1>1 DEF Start, FirstSession, Events
<1>3. /\ requests' = <<>> /\ results' = <<>> /\ dpc' = "wait" /\ cpc' = "idle"
      /\ UNCHANGED <<resultMap, saved, scheduled, delivered>> /\ sessions' = 1
  BY <1>1 DEF Start
<1>4. DOMAIN requests' = {} /\ DOMAIN results' = {}
  BY <1>3
<1>5. Distinct' /\ Apart' /\ Used'
  BY <1>2, <1>3, <1>4 DEF Distinct, Apart, Used
<1>6. Events' /\ SavedOnce'
  BY <1>2, <1>3 DEF Events, SavedOnce, FinishPCs
<1>7. FirstSession' /\ Delivered'
  BY <1>3 DEF FirstSession, Delivered
<1> QED
  BY <1>5, <1>6, <1>7

\* A read with an event has one holder.
LEMMA OneHolder ==
  ASSUME Held, Distinct, Apart, NEW e, Matched(e)
  PROVE  Cardinality(Holders(e)) = 1
<1> DEFINE A == {i \in DOMAIN requests : requests[i].id = e.id}
           B == {i \in DOMAIN results : results[i].id = e.id}
           C == {r \in resultMap : r.id = e.id}
           T == IF current # <<>> /\ current.id = e.id THEN {<<"thread", 0>>} ELSE {}
           Tagged(tag, S) == {<<tag, x>> : x \in S}
<1>1. Holders(e) = Tagged("request", A) \cup Tagged("result", B) \cup Tagged("map", C) \cup T
  BY DEF Holders
<1>2. dpc \in {"read", "push"} <=> current # <<>>
  BY RecordNotEmpty DEF Held
<1>3. /\ A = {} \/ \E x : A = {x}
      /\ B = {} \/ \E x : B = {x}
      /\ C = {} \/ \E x : C = {x}
      /\ T = {} \/ T = {<<"thread", 0>>}
  <2>1. ASSUME NEW x \in A PROVE A = {x}
    BY DEF Distinct
  <2>2. ASSUME NEW x \in B PROVE B = {x}
    BY DEF Distinct
  <2>3. ASSUME NEW x \in C PROVE C = {x}
    BY DEF Distinct
  <2>4. T = {} \/ T = {<<"thread", 0>>}
    OBVIOUS
  <2> HIDE DEF A, B, C, T
  <2> QED
    BY <2>1, <2>2, <2>3, <2>4
<1>4. /\ A # {} => B = {} /\ C = {} /\ T = {}
      /\ B # {} => A = {} /\ C = {} /\ T = {}
      /\ C # {} => A = {} /\ B = {} /\ T = {}
  BY <1>2 DEF Distinct, Apart
<1>5. A # {} \/ B # {} \/ C # {} \/ T # {}
  BY <1>2 DEF Matched
<1> HIDE DEF A, B, C, T
<1>6. \E x : Holders(e) = {x}
  <2>1. CASE A # {}
    <3>1. PICK x : A = {x}
      BY <1>3, <2>1
    <3>2. Holders(e) = {<<"request", x>>}
      BY <1>1, <1>4, <2>1, <3>1
    <3> QED
      BY <3>2
  <2>2. CASE B # {}
    <3>1. PICK x : B = {x}
      BY <1>3, <2>2
    <3>2. Holders(e) = {<<"result", x>>}
      BY <1>1, <1>4, <2>2, <3>1
    <3> QED
      BY <3>2
  <2>3. CASE C # {}
    <3>1. PICK x : C = {x}
      BY <1>3, <2>3
    <3>2. Holders(e) = {<<"map", x>>}
      BY <1>1, <1>4, <2>3, <3>1
    <3> QED
      BY <3>2
  <2>4. CASE A = {} /\ B = {} /\ C = {}
    <3>1. T = {<<"thread", 0>>}
      BY <1>3, <1>5, <2>4
    <3>2. Holders(e) = {<<"thread", 0>>}
      BY <1>1, <2>4, <3>1
    <3> QED
      BY <3>2
  <2> QED
    BY <2>1, <2>2, <2>3, <2>4
<1> QED
  BY <1>6, FS_Singleton

\* All of it, in every step of the only session.
LEMMA NextOnce ==
  ASSUME MaxSessions <= 1, Typed, Held, Quiet, Once, [Next]_vars
  PROVE  Once'
<1>1. CASE DVDPop \/ DVDRead \/ DVDPush
  BY <1>1, PopOnce, ReadOnce, PushOnce
<1>2. CASE StartRead \/ \E event \in scheduled : FinishRead(event)
  BY <1>2, StartOnce, FinishOnce
<1>3. CASE FinishFind \/ FinishPop
  BY <1>3, FindOnce, SearchOnce
<1>4. CASE Join \/ Act \/ Start
  BY <1>4, JoinOnce, ActOnce, SessionOnce
<1>5. CASE DVDWait \/ DVDTestExit \/ DVDSignal
  BY <1>5, OnceSame DEF DVDWait, DVDTestExit, DVDSignal, cpu, emulator
<1>6. CASE StartReadSignal \/ FinishWait \/ DrainLoad \/ Drain \/ DrainWait \/ StopSet \/ StopSignal
  BY <1>6, OnceSame
     DEF StartReadSignal, FinishWait, DrainLoad, Drain, DrainWait, StopSet, StopSignal, FinishPCs, dvd,
         emulator
<1>7. CASE \E what \in Tasks : Begin(what)
  BY <1>7, OnceSame DEF Begin, FinishPCs, dvd, emulator
<1>8. CASE UNCHANGED vars
  BY <1>8, OnceSame DEF vars, dvd, cpu, emulator
<1> QED
  BY <1>1, <1>2, <1>3, <1>4, <1>5, <1>6, <1>7, <1>8 DEF Next, DVDStep, CPUStep

\* The invariant holds in every reachable state.
LEMMA Inductive == Spec => []IInv
<1>1. Init => IInv
  <2> SUFFICES ASSUME Init PROVE Once
    BY InitTyped DEF IInv
  <2>1. DOMAIN requests = {} /\ DOMAIN results = {}
    BY DEF Init
  <2>2. Distinct /\ Apart /\ Used /\ Events
    BY <2>1 DEF Init, Distinct, Apart, Used, Events, FinishPCs
  <2>3. SavedOnce /\ FirstSession /\ Delivered
    BY DEF Init, SavedOnce, FirstSession, Delivered
  <2> QED
    BY <2>2, <2>3 DEF Once
<1>2. ASSUME IInv, [Next]_vars PROVE IInv'
  <2>1. ~misled' => ~misled
    BY <1>2, MisledForEver
  <2> QED
    BY <1>2, <2>1, NextTyped, NextHeld, NextQuiet, NextOnce DEF IInv
<1> QED
  BY <1>1, <1>2, PTL DEF Spec
-----------------------------------------------------------------------------

\* Types: over any number of sessions; the DVD thread dereferences no null
\* s_disc unless an Empty() of WaitUntilIdle() was wrong.
THEOREM TypeCorrect == Spec => []TypeOK
<1>1. IInv => TypeOK
  <2> SUFFICES ASSUME IInv PROVE TypeOK
    OBVIOUS
  <2>1. Elements(requests) \subseteq Reads /\ Elements(results) \subseteq ReadResults
    BY DEF IInv, Typed, Elements
  <2>2. nextId \in 0 .. MaxReads /\ reads \in 0 .. MaxReads
    BY DiscAssumption DEF IInv, Typed
  <2> QED
    BY <2>1, <2>2 DEF IInv, Typed, Quiet, TypeOK
<1> QED
  BY <1>1, Inductive, PTL

\* WaitUntilIdle(): whatever the CPU thread does to the disc, it does while
\* the DVD thread neither reads nor can begin to, as long as no Empty() was
\* wrong.
THEOREM DiscStaysPrivate == Spec => []DiscIsPrivate
<1>1. IInv => DiscIsPrivate
  BY DEF IInv, Quiet, Held, DiscIsPrivate
<1> QED
  BY <1>1, Inductive, PTL

\* FinishRead(): the result of the right read of the right disc, through disc
\* changes and savestates, within one session in which no Empty() was wrong.
THEOREM ResultsAreRight == MaxSessions <= 1 => (Spec => []RightResult)
<1> SUFFICES ASSUME MaxSessions <= 1 PROVE Spec => []RightResult
  OBVIOUS
<1>1. IInv => RightResult
  BY DEF IInv, Once, Delivered, RightResult
<1> QED
  BY <1>1, Inductive, PTL

\* No read is lost or done twice: while its event is there, exactly one queue,
\* map or thread has it, within one session in which no Empty() was wrong.
THEOREM ReadsAreKeptOnce == MaxSessions <= 1 => (Spec => []EachReadOnce)
<1> SUFFICES ASSUME MaxSessions <= 1 PROVE Spec => []EachReadOnce
  OBVIOUS
<1>1. IInv => EachReadOnce
  <2> SUFFICES ASSUME IInv, ~misled,
                      NEW e \in scheduled \cup (IF finishing = <<>> THEN {} ELSE {finishing})
               PROVE  Cardinality(Holders(e)) = 1
    BY DEF EachReadOnce
  <2>1. Matched(e)
    BY DEF IInv, Once, Events, Held
  <2> QED
    BY <2>1, OneHolder DEF IInv, Once
<1> QED
  BY <1>1, Inductive, PTL
=============================================================================
