---------------------------- MODULE ProcessList ----------------------------
(***************************************************************************)
(* The linked lists of processes: run queues and the waiting lists of       *)
(* semaphores (src/prims.rs).  A list has a head and a tail slot, a process *)
(* a nextLink and a myList slot; there is no list object per element, so a  *)
(* process is on at most one list.                                          *)
(*                                                                          *)
(* The history variable queue holds each list as module Scheduler has it, a *)
(* sequence changed by Append, Tail and RemoveAt.                           *)
(***************************************************************************)
EXTENDS Integers, Sequences, SequencesExt

CONSTANTS Process, List, Nil

ASSUME ProcessListAssumption == Nil \notin Process \cup List

VARIABLES
    head,     \* firstLink or queueHead of every list
    tail,     \* lastLink or queueTail
    next,     \* nextLink of every process
    myList,   \* myList of every process
    queue     \* history: the list as a sequence

vars == <<head, tail, next, myList, queue>>

\* Types, and that a list with a tail has a head.
TypeOK ==
    /\ head \in [List -> Process \cup {Nil}]
    /\ tail \in [List -> Process \cup {Nil}]
    /\ next \in [Process -> Process \cup {Nil}]
    /\ myList \in [Process -> List \cup {Nil}]
    /\ queue \in [List -> Seq(Process)]
    /\ \A l \in List : head[l] = Nil <=> tail[l] = Nil

-----------------------------------------------------------------------------
\* enqueue_process.  Its callers enqueue no process that is on a list already
\* (ListsAgree and OneState of Scheduler).
EnqueueProcess(l, p) ==
    /\ myList[p] = Nil
    /\ myList' = [myList EXCEPT ![p] = l]
    /\ \/ /\ head[l] = Nil
          /\ head' = [head EXCEPT ![l] = p]
          /\ next' = [next EXCEPT ![p] = Nil]
       \/ /\ head[l] # Nil
          /\ next' = [next EXCEPT ![p] = Nil, ![tail[l]] = p]
          /\ UNCHANGED head
    /\ tail' = [tail EXCEPT ![l] = p]
    /\ queue' = [queue EXCEPT ![l] = Append(@, p)]

\* Mutant of TailAfterDequeue: the tail of an emptied list is left alone.
TailKept(l) == tail

\* The tail slot follows when the last process leaves.
TailAfterDequeue(l) ==
    IF next[head[l]] = Nil THEN [tail EXCEPT ![l] = Nil] ELSE tail

\* dequeue_process, of a list that is not empty
DequeueProcess(l) ==
    /\ head[l] # Nil
    /\ head' = [head EXCEPT ![l] = next[head[l]]]
    /\ tail' = TailAfterDequeue(l)
    /\ next' = [next EXCEPT ![head[l]] = Nil]
    /\ myList' = [myList EXCEPT ![head[l]] = Nil]
    /\ queue' = [queue EXCEPT ![l] = Tail(@)]

PositionOf(q, p) == CHOOSE i \in DOMAIN q : q[i] = p

\* The element the walk from the head meets just before p
Before(p) == CHOOSE q \in Process : next[q] = p /\ myList[q] = myList[p]

\* Mutant of TailAfterRemoval: the tail stays when the last process is removed.
TailOfLongList(l, p) == IF head[l] = p /\ next[p] = Nil THEN Nil ELSE tail[l]

TailAfterRemoval(l, p) ==
    IF next[p] # Nil THEN tail[l] ELSE IF head[l] = p THEN Nil ELSE Before(p)

\* remove_process_from_its_list, of a process on a list
RemoveProcess(p) ==
    LET l == myList[p] IN
    /\ l # Nil
    /\ \/ /\ head[l] = p
          /\ head' = [head EXCEPT ![l] = next[p]]
          /\ next' = [next EXCEPT ![p] = Nil]
       \/ /\ head[l] # p
          /\ next' = [next EXCEPT ![Before(p)] = next[p], ![p] = Nil]
          /\ UNCHANGED head
    /\ tail' = [tail EXCEPT ![l] = TailAfterRemoval(l, p)]
    /\ myList' = [myList EXCEPT ![p] = Nil]
    /\ queue' = [queue EXCEPT ![l] = RemoveAt(@, PositionOf(@, p))]

Init ==
    /\ head = [l \in List |-> Nil]
    /\ tail = [l \in List |-> Nil]
    /\ next = [p \in Process |-> Nil]
    /\ myList = [p \in Process |-> Nil]
    /\ queue = [l \in List |-> <<>>]

Next ==
    \/ \E l \in List, p \in Process : EnqueueProcess(l, p)
    \/ \E l \in List : DequeueProcess(l)
    \/ \E p \in Process : RemoveProcess(p)

Spec == Init /\ [][Next]_vars

-----------------------------------------------------------------------------
\* The chain of l reads q: it starts at the head, follows nextLink and ends
\* with nil at the tail.
Chain(l, q) ==
    /\ q = <<>> => head[l] = Nil
    /\ q # <<>> => head[l] = q[1] /\ tail[l] = q[Len(q)] /\ next[q[Len(q)]] = Nil
    /\ \A i \in 1..(Len(q) - 1) : next[q[i]] = q[i + 1]

\* The pointers are the sequence, in every list at any time, whatever order the
\* operations come in: none is lost from the middle of a chain, none is on two
\* lists or twice on one, and the myList slot names the list that has it.
ChainsAreQueues ==
    /\ \A l \in List : Chain(l, queue[l])
    /\ \A l \in List : \A i, j \in DOMAIN queue[l] :
          queue[l][i] = queue[l][j] => i = j
    /\ \A l \in List, p \in Process :
          myList[p] = l <=> \E i \in DOMAIN queue[l] : queue[l][i] = p

=============================================================================
