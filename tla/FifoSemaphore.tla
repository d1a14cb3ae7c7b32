--------------------------- MODULE FifoSemaphore ---------------------------
(***************************************************************************)
(* What the semaphores promise (SPEC section 13): signals are counted, a    *)
(* signal goes to the process that has waited longest, and it is kept only  *)
(* when nobody waits.  A waiting process may be withdrawn, by suspend or    *)
(* terminate, without taking a signal.                                      *)
(***************************************************************************)
EXTENDS Naturals, Sequences, SequencesExt

CONSTANTS Process, Semaphore

VARIABLES
    count,      \* per semaphore, the signals not yet taken
    waiters     \* per semaphore, the processes that wait, longest first

vars == <<count, waiters>>

Init ==
    /\ count = [s \in Semaphore |-> 0]
    /\ waiters = [s \in Semaphore |-> <<>>]

Acquire(s) ==
    /\ count[s] > 0 /\ waiters[s] = <<>>
    /\ count' = [count EXCEPT ![s] = @ - 1]
    /\ UNCHANGED waiters

Block(s, p) ==
    /\ count[s] = 0
    /\ \A t \in Semaphore : \A i \in DOMAIN waiters[t] : waiters[t][i] # p
    /\ waiters' = [waiters EXCEPT ![s] = Append(@, p)]
    /\ UNCHANGED count

Release(s) ==
    /\ waiters[s] # <<>>
    /\ waiters' = [waiters EXCEPT ![s] = Tail(@)]
    /\ UNCHANGED count

Keep(s) ==
    /\ waiters[s] = <<>>
    /\ count' = [count EXCEPT ![s] = @ + 1]
    /\ UNCHANGED waiters

Withdraw(s, i) ==
    /\ waiters' = [waiters EXCEPT ![s] = RemoveAt(@, i)]
    /\ UNCHANGED count

Next ==
    \E s \in Semaphore :
        \/ Acquire(s) \/ Release(s) \/ Keep(s)
        \/ \E p \in Process : Block(s, p)
        \/ \E i \in DOMAIN waiters[s] : Withdraw(s, i)

Spec == Init /\ [][Next]_vars
=============================================================================
