----------------------------- MODULE SPSCQueue ------------------------------
(***************************************************************************)
(* Common::SPSCQueue (Common/SPSCQueue.h): a linked list of heap cells     *)
(* with one producer at its tail and one consumer at its head and no lock. *)
(* The last cell is always empty; storing its next pointer publishes it.   *)
(* The release store and the acquire load of next order the accesses to    *)
(* current, so the steps are interleaved one at a time.                    *)
(*                                                                         *)
(* The allocator hands out any free cell, so a cell deleted by the         *)
(* consumer may come back to the producer at once.                         *)
(***************************************************************************)
EXTENDS Naturals, FiniteSets, Sequences

CONSTANTS
  Values,   \* the elements
  Cells,    \* the heap; bounds the length of the queue
  Nil,      \* the null pointer
  Garbage,  \* what a new cell's current holds
  SizeMod   \* m_size counts modulo this (2^32 in the code)

ASSUME QueueAssumption ==
  /\ Nil \notin Cells /\ Garbage \notin Values /\ IsFiniteSet(Cells)
  /\ SizeMod \in Nat /\ SizeMod > Cardinality(Cells)

VARIABLES
  allocated,  \* the cells that new returned and delete did not get back
  current,    \* ElementPtr::current of each cell
  next,       \* ElementPtr::next of each cell
  writePtr,   \* m_write_ptr
  readPtr,    \* m_read_ptr
  size,       \* m_size
  ppc,        \* where the producer is
  newPtr,     \* new_ptr of Push()
  seen,       \* the m_read_ptr that the producer's Empty() loaded, or Nil
  answer,     \* what it last returned
  cpc,        \* where the consumer is
  tmpPtr,     \* tmpptr of Pop()
  moving,     \* the Pop() in progress is Pop(T&), which moves the element out
  result      \* the last element that Pop(T&) returned

cells    == <<allocated, current, next>>
probe    == <<seen, answer>>
producer == <<ppc, newPtr, probe>>
consumer == <<cpc, tmpPtr, moving>>
vars == <<cells, writePtr, readPtr, size, producer, consumer, result>>

Init ==
  \E cell \in Cells :
    /\ allocated = {cell}
    /\ current = [c \in Cells |-> Garbage]
    /\ next = [c \in Cells |-> Nil]
    /\ writePtr = cell /\ readPtr = cell
    /\ size = 0
    /\ ppc = "idle" /\ newPtr = Nil /\ seen = Nil /\ answer = FALSE
    /\ cpc = "idle" /\ tmpPtr = Nil /\ moving = FALSE
    /\ result = Garbage

\* new ElementPtr()
New(cell) == cell \in Cells \ allocated

\* The cells from c to the end of the list, which ~ElementPtr() visits.
Path(c) ==
  LET from[n \in 0 .. Cardinality(Cells)] ==
        [d \in Cells |-> IF n = 0 \/ next[d] = Nil THEN <<d>> ELSE <<d>> \o from[n - 1][next[d]]]
  IN  from[Cardinality(Cells)][c]

Reach(c) == {Path(c)[i] : i \in DOMAIN Path(c)}

\* The memory of a deleted cell is lost.
Delete(gone) ==
  /\ allocated' = allocated \ gone
  /\ current' = [c \in Cells |-> IF c \in gone THEN Garbage ELSE current[c]]
  /\ next' = [c \in Cells |-> IF c \in gone THEN Nil ELSE next[c]]
-----------------------------------------------------------------------------
(***************************************************************************)
(* Push(), by the producer.                                                *)
(***************************************************************************)
\* Fault: the element is published before it is written.
PushCurrentLate(v) ==
  /\ ppc = "idle" /\ ppc' = "link"
  /\ \E cell \in Cells :
       /\ New(cell)
       /\ newPtr' = cell
       /\ allocated' = allocated \cup {cell}
       /\ current' = [current EXCEPT ![cell] = v]
  /\ UNCHANGED <<next, writePtr, readPtr, size, probe, consumer, result>>

PushCurrent(v) ==
  /\ ppc = "idle" /\ ppc' = "link"
  /\ \E cell \in Cells :
       /\ New(cell)
       /\ newPtr' = cell
       /\ allocated' = allocated \cup {cell}
       /\ current' = [current EXCEPT ![writePtr] = v]
  /\ UNCHANGED <<next, writePtr, readPtr, size, probe, consumer, result>>

PushLink ==
  /\ ppc = "link" /\ ppc' = "advance"
  /\ next' = [next EXCEPT ![writePtr] = newPtr]
  /\ UNCHANGED <<allocated, current, writePtr, readPtr, size, newPtr, probe, consumer, result>>

PushAdvance ==
  /\ ppc = "advance" /\ ppc' = "count"
  /\ writePtr' = newPtr
  /\ UNCHANGED <<cells, readPtr, size, newPtr, probe, consumer, result>>

PushCount ==
  /\ ppc = "count" /\ ppc' = "idle"
  /\ size' = (size + 1) % SizeMod
  /\ newPtr' = Nil
  /\ UNCHANGED <<cells, writePtr, readPtr, probe, consumer, result>>
-----------------------------------------------------------------------------
(***************************************************************************)
(* Empty(), as the producer calls it (DVDThread::WaitUntilIdle): it loads  *)
(* m_read_ptr, which belongs to the consumer, and then the next pointer of *)
(* that cell, which Pop() may have cleared or deleted in between.          *)
(***************************************************************************)
EmptyLoad ==
  /\ ppc = "idle" /\ ppc' = "empty"
  /\ seen' = readPtr
  /\ UNCHANGED <<cells, writePtr, readPtr, size, newPtr, answer, consumer, result>>

\* What a deleted cell holds is anybody's guess.
EmptyTest ==
  /\ ppc = "empty" /\ ppc' = "idle"
  /\ answer' \in IF seen \in allocated THEN {next[seen] = Nil} ELSE BOOLEAN
  /\ seen' = Nil
  /\ UNCHANGED <<cells, writePtr, readPtr, size, newPtr, consumer, result>>
-----------------------------------------------------------------------------
(***************************************************************************)
(* Pop(T&) and Pop(), by the consumer, which only calls the latter after   *)
(* it saw the queue not empty.                                             *)
(***************************************************************************)
PopTest(isMoving) ==
  /\ cpc = "idle"
  /\ next[readPtr] # Nil
  /\ cpc' = "count" /\ moving' = isMoving
  /\ UNCHANGED <<cells, writePtr, readPtr, size, producer, tmpPtr, result>>

\* Fault: the counter is set from a value that was read before.
PopCountLost ==
  /\ cpc = "count" /\ cpc' = "advance"
  /\ size' = IF ppc = "count" THEN size ELSE (size + SizeMod - 1) % SizeMod
  /\ UNCHANGED <<cells, writePtr, readPtr, producer, tmpPtr, moving, result>>

PopCount ==
  /\ cpc = "count" /\ cpc' = "advance"
  /\ size' = (size + SizeMod - 1) % SizeMod
  /\ UNCHANGED <<cells, writePtr, readPtr, producer, tmpPtr, moving, result>>

PopAdvance ==
  /\ cpc = "advance" /\ cpc' = IF moving THEN "move" ELSE "unlink"
  /\ tmpPtr' = readPtr
  /\ readPtr' = next[readPtr]
  /\ UNCHANGED <<cells, writePtr, size, producer, moving, result>>

PopMove ==
  /\ cpc = "move" /\ cpc' = "unlink"
  /\ result' = current[tmpPtr]
  /\ UNCHANGED <<cells, writePtr, readPtr, size, producer, tmpPtr, moving>>

\* Fault: the rest of the list is not cut off before the recursive delete.
PopUnlinkMissing ==
  /\ cpc = "unlink" /\ cpc' = "delete"
  /\ UNCHANGED <<cells, writePtr, readPtr, size, producer, tmpPtr, moving, result>>

PopUnlink ==
  /\ cpc = "unlink" /\ cpc' = "delete"
  /\ next' = [next EXCEPT ![tmpPtr] = Nil]
  /\ UNCHANGED <<allocated, current, writePtr, readPtr, size, producer, tmpPtr, moving, result>>

PopDelete ==
  /\ cpc = "delete" /\ cpc' = "idle"
  /\ Delete(Reach(tmpPtr))
  /\ tmpPtr' = Nil /\ moving' = FALSE
  /\ UNCHANGED <<writePtr, readPtr, size, producer, result>>

\* Clear() is "not thread-safe": its callers have both ends to themselves.
Clear ==
  /\ ppc = "idle" /\ cpc = "idle"
  /\ size' = 0
  /\ \E cell \in Cells :
       /\ cell \notin allocated \ Reach(readPtr)
       /\ allocated' = (allocated \ Reach(readPtr)) \cup {cell}
       /\ current' = [c \in Cells |-> Garbage]
       /\ next' = [c \in Cells |-> Nil]
       /\ writePtr' = cell /\ readPtr' = cell
  /\ UNCHANGED <<producer, consumer, result>>
-----------------------------------------------------------------------------
Push == PushLink \/ PushAdvance \/ PushCount \/ \E v \in Values : PushCurrent(v)

Pop ==
  \/ PopCount \/ PopAdvance \/ PopMove \/ PopUnlink \/ PopDelete
  \/ \E isMoving \in BOOLEAN : PopTest(isMoving)

Empty == EmptyLoad \/ EmptyTest

Next == Push \/ Empty \/ Pop \/ Clear

Spec == Init /\ [][Next]_vars
-----------------------------------------------------------------------------
\* Types: in particular m_read_ptr and m_write_ptr are never null, since
\* Pop(T&) only moves on from a cell whose next was published.
TypeOK ==
  /\ allocated \subseteq Cells
  /\ current \in [Cells -> Values \cup {Garbage}]
  /\ next \in [Cells -> Cells \cup {Nil}]
  /\ writePtr \in Cells /\ readPtr \in Cells
  /\ size \in 0 .. SizeMod - 1
  /\ ppc \in {"idle", "link", "advance", "count", "empty"}
  /\ cpc \in {"idle", "count", "advance", "move", "unlink", "delete"}
  /\ {newPtr, tmpPtr, seen} \subseteq Cells \cup {Nil}
  /\ answer \in BOOLEAN
  /\ moving \in BOOLEAN /\ result \in Values \cup {Garbage}

\* The consumer deletes cells while the producer writes to the tail: every
\* cell that Push() or Pop() is going to touch is still allocated, and nothing
\* else is (neither a use after free nor a leak).  It does not speak of the
\* cell that the producer's Empty() loaded: that one may be gone.
CellsInUse ==
  /\ allocated = Reach(readPtr)
                   \cup (IF ppc = "link" THEN {newPtr} ELSE {})
                   \cup (IF cpc \in {"move", "unlink", "delete"} THEN {tmpPtr} ELSE {})
  /\ ppc \in {"idle", "link", "empty"} => writePtr \in Reach(readPtr) /\ next[writePtr] = Nil

\* The number of published elements.
Length == Len(Path(readPtr)) - 1

\* m_size is updated after an element is published and before it is removed,
\* by two threads: at rest it is the length, and while calls are in progress
\* it may only be short of it, modulo 2^32, by one call of each side.
SizeCountsCalls ==
  (size + (IF ppc \in {"advance", "count"} THEN 1 ELSE 0)) % SizeMod
    = (Length + SizeMod - (IF cpc = "advance" THEN 1 ELSE 0)) % SizeMod

\* The elements, read off the list.
Contents == [i \in 1 .. Length |-> current[Path(readPtr)[i]]]

Abstract == INSTANCE Fifo WITH
  Nothing <- Garbage,
  queue <- Contents,
  taken <- IF cpc = "move" THEN current[tmpPtr] ELSE result,
  asked <- IF seen = Nil THEN "no" ELSE IF seen = readPtr THEN "fresh" ELSE "stale"

\* The lock-free list implements the queue: elements come out once, in order
\* and complete, whatever the interleaving of Push(), Pop() and Clear(), and
\* the producer's Empty() is right if nothing was popped since it began.
ImplementsFifo == Abstract!Spec
=============================================================================
