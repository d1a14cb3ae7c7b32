----------------------------- MODULE Scheduler -----------------------------
(***************************************************************************)
(* The process scheduler of the VM (SPEC section 13): the process           *)
(* primitives of src/prims.rs, the context switch, the safepoint and the    *)
(* halt branch of the run loop in src/interp.rs, Process forking in         *)
(* st/kernel/kernel.st, and what a snapshot of it all is when it is loaded.  *)
(*                                                                          *)
(* The VM is single threaded, so a primitive is one step.  Only the loops   *)
(* that fire due timers are taken one semaphore per step (vm = "poll" or    *)
(* "pick"); nothing but the clock moves between those steps.  The bytecode  *)
(* of a process is any sequence of primitive calls.                         *)
(*                                                                          *)
(* A run queue is named by its priority and a semaphore's waiting list by   *)
(* the semaphore.  The nextLink chain of a list is a sequence here; module  *)
(* ProcessList shows that the pointer code implements it.                   *)
(***************************************************************************)
EXTENDS Integers, Sequences, SequencesExt

CONSTANTS
    Process,        \* the Process objects that may ever exist
    Main,           \* the process the image starts with
    Semaphore,      \* the Semaphore objects
    NumPriorities,  \* run queues (Treaty NUM_PRIORITIES)
    Priority,       \* values the priority slot may hold, out of range too
    NoList,         \* nil in a myList slot
    UntilIdle,      \* TRUE: the driver is run_until_idle, FALSE: a single run
    TransferScope,  \* which processes transferTo: is sent to, see below
    MaxSignals,     \* bound: signals of one semaphore, kept or still to come
    MaxTime         \* bound: milliseconds on the clock

RunQueue == 1..NumPriorities
List == RunQueue \cup Semaphore

ASSUME SchedulerAssumption ==
    /\ Main \in Process
    /\ NumPriorities \in Nat \ {0}
    /\ Priority \subseteq Int /\ Priority # {}
    /\ Semaphore \cap RunQueue = {}
    /\ NoList \notin List
    /\ UntilIdle \in BOOLEAN
    /\ TransferScope \in {"none", "suspended", "any"}
    /\ MaxSignals \in Nat /\ MaxTime \in Nat

VARIABLES
    vm,       \* what the interpreter is doing, see Phase
    active,   \* Vm::active_process
    target,   \* the process Vm::run was called with
    stack,    \* the stack slot: "none" before the fork, "live", "nil" once ended
    prio,     \* the priority slot
    queue,    \* the processes on each list, head first
    myList,   \* the myList slot
    excess,   \* Semaphore>>excessSignals
    doomed,   \* processes whose top frame is a fresh terminate trampoline
    timers,   \* Vm::timer_requests
    cutoff,   \* service_timers' local now: what is due then gets fired
    armed,    \* SafepointState::armed
    polled,   \* the poll of the send now executing has been made
    now       \* start_instant.elapsed()

vars == <<vm, active, target, stack, prio, queue, myList, excess, doomed,
          timers, cutoff, armed, polled, now>>

\* "run": bytecode of the active process; "poll": service_safepoint;
\* "pick": the loop of pick_next_or_wait; "returned": Vm::run returned Ok;
\* "exit": run_until_idle returned Ok; "deadlock": the fatal error;
\* "loaded": an image has been loaded and nothing of it run yet.
Phase == {"run", "poll", "pick", "returned", "exit", "deadlock", "loaded"}

Request == [at : 0..MaxTime, sem : Semaphore]

TypeOK ==
    /\ vm \in Phase
    /\ active \in Process
    /\ target \in Process
    /\ stack \in [Process -> {"none", "live", "nil"}]
    /\ prio \in [Process -> Priority]
    /\ queue \in [List -> Seq(Process)]
    /\ myList \in [Process -> List \cup {NoList}]
    /\ excess \in [Semaphore -> Nat]
    /\ doomed \in SUBSET Process
    /\ timers \in Seq(Request)
    /\ cutoff \in -1..MaxTime
    /\ armed \in BOOLEAN
    /\ polled \in BOOLEAN
    /\ now \in 0..MaxTime

-----------------------------------------------------------------------------
(* Lists.  The operators map one value of the three list variables to the   *)
(* next, because a primitive may apply several of them in a row.            *)

Lists == [queue |-> queue, myList |-> myList, excess |-> excess]

SetLists(L) ==
    /\ queue' = L.queue
    /\ myList' = L.myList
    /\ excess' = L.excess

PositionOf(q, p) == CHOOSE i \in DOMAIN q : q[i] = p

\* Mutant of Enqueue: the newcomer becomes the head.
EnqueueAtHead(L, l, p) ==
    [L EXCEPT !.queue[l] = <<p>> \o @, !.myList[p] = l]

\* enqueue_process
Enqueue(L, l, p) ==
    [L EXCEPT !.queue[l] = Append(@, p), !.myList[p] = l]

\* Mutant of Dequeue: the myList slot is not cleared.
DequeueStale(L, l) == [L EXCEPT !.queue[l] = Tail(@)]

\* dequeue_process, of a list that is not empty
Dequeue(L, l) ==
    [L EXCEPT !.queue[l] = Tail(@), !.myList[Head(L.queue[l])] = NoList]

\* remove_process_from_its_list
Unlink(L, p) ==
    IF L.myList[p] = NoList THEN L
    ELSE [L EXCEPT !.queue[L.myList[p]] = RemoveAt(@, PositionOf(@, p)),
                   !.myList[p] = NoList]

Clamp(k) == IF k < 1 THEN 1 ELSE IF k > NumPriorities THEN NumPriorities ELSE k

MakeRunnable(L, p) == Enqueue(L, Clamp(prio[p]), p)

HasRunnable(L) == \E k \in RunQueue : L.queue[k] # <<>>

\* runnable_priority_ceiling, when some process is runnable
Ceiling(L) ==
    CHOOSE k \in RunQueue :
        /\ L.queue[k] # <<>>
        /\ \A j \in RunQueue : L.queue[j] # <<>> => j <= k

\* Mutant of SignalInternal: the signal is counted although somebody waits.
SignalAlwaysKept(L, s) == [L EXCEPT !.excess[s] = @ + 1]

\* semaphore_signal_internal
SignalInternal(L, s) ==
    IF L.queue[s] # <<>>
    THEN MakeRunnable(Dequeue(L, s), Head(L.queue[s]))
    ELSE [L EXCEPT !.excess[s] = @ + 1]

-----------------------------------------------------------------------------
(* Switching.                                                               *)

\* take_next_runnable and transfer_to.  When the run's own target has ended
\* it is run_until_idle that picks, and it runs the next process as target.
Dispatch(L) ==
    LET next == Head(L.queue[Ceiling(L)])
    IN  /\ SetLists(Dequeue(L, Ceiling(L)))
        /\ active' = next
        /\ target' = IF stack[target] = "live" THEN target ELSE next
        /\ vm' = "run"

\* No runnable process and no timer: pick_next_or_wait fails, which Vm::run
\* reports and run_until_idle takes for a clean end.
NothingLeft == IF stack[target] = "live" THEN "deadlock" ELSE "exit"

\* pick_next_or_wait
PickNextOrWait(L) ==
    \/ /\ HasRunnable(L)
       /\ Dispatch(L)
    \/ /\ ~HasRunnable(L)
       /\ SetLists(L)
       /\ vm' = IF timers = <<>> THEN NothingLeft ELSE "pick"
       /\ UNCHANGED <<active, target>>

\* The active process goes back on its run queue and p runs instead.
Preempt(L, p) ==
    /\ SetLists(MakeRunnable(L, active))
    /\ active' = p

-----------------------------------------------------------------------------
(* What the bytecode of the active process does.                            *)

Executing == vm = "run" /\ active \notin doomed

\* Every primitive is reached by a send, which polls before it does anything.
Sending == Executing /\ (armed => polled) /\ polled' = FALSE

\* The bound on signals: excess ones and timers that may yet become excess.
RoomFor(s) == excess[s] + Len(timers) < MaxSignals

\* Mutant of TakesSignal: off by one.
TakesSignalAtZero(s) == excess[s] >= 0

TakesSignal(s) == excess[s] > 0

\* Semaphore>>wait
Wait(s) ==
    /\ Sending
    /\ \/ /\ TakesSignal(s)
          /\ excess' = [excess EXCEPT ![s] = @ - 1]
          /\ UNCHANGED <<vm, active, target, queue, myList>>
       \/ /\ ~TakesSignal(s)
          /\ PickNextOrWait(Enqueue(Lists, s, active))
    /\ UNCHANGED <<stack, prio, doomed, timers, cutoff, armed, now>>

\* Semaphore>>signal
Signal(s) ==
    /\ Sending
    /\ \/ /\ queue[s] = <<>>
          /\ RoomFor(s)
          /\ excess' = [excess EXCEPT ![s] = @ + 1]
          /\ UNCHANGED <<active, queue, myList>>
       \/ /\ queue[s] # <<>>
          /\ prio[Head(queue[s])] > prio[active]
          /\ Preempt(Dequeue(Lists, s), Head(queue[s]))
       \/ /\ queue[s] # <<>>
          /\ prio[Head(queue[s])] <= prio[active]
          /\ SetLists(MakeRunnable(Dequeue(Lists, s), Head(queue[s])))
          /\ UNCHANGED active
    /\ UNCHANGED <<vm, target, stack, prio, doomed, timers, cutoff, armed, now>>

\* ProcessorScheduler>>yield
Yield ==
    /\ Sending
    /\ PickNextOrWait(MakeRunnable(Lists, active))
    /\ UNCHANGED <<stack, prio, doomed, timers, cutoff, armed, now>>

\* The queue effect of Process>>resume on a suspended process, whose
\* priority slot holds k.
ResumeAt(p, k) ==
    \/ /\ k > prio[active]
       /\ Preempt(Lists, p)
    \/ /\ k <= prio[active]
       /\ SetLists(Enqueue(Lists, Clamp(k), p))
       /\ UNCHANGED active

\* Mutant of MayResume: the active process may resume itself.
MayResumeActive(p) == stack[p] = "live" /\ myList[p] = NoList

\* The primitive fails, changing nothing, for any other process.
MayResume(p) == p # active /\ stack[p] = "live" /\ myList[p] = NoList

\* Process>>resume
Resume(p) ==
    /\ Sending
    /\ MayResume(p)
    /\ ResumeAt(p, prio[p])
    /\ UNCHANGED <<vm, target, stack, prio, doomed, timers, cutoff, armed, now>>

\* BlockClosure>>forkAt:, a new process with one frame, then resumed
Fork(p, k) ==
    /\ Sending
    /\ stack[p] = "none"
    /\ stack' = [stack EXCEPT ![p] = "live"]
    /\ prio' = [prio EXCEPT ![p] = k]
    /\ ResumeAt(p, k)
    /\ UNCHANGED <<vm, target, doomed, timers, cutoff, armed, now>>

\* Process>>suspend
Suspend(p) ==
    /\ Sending
    /\ \/ /\ p = active
          /\ PickNextOrWait(Lists)
       \/ /\ p # active
          /\ SetLists(Unlink(Lists, p))
          /\ UNCHANGED <<vm, active, target>>
    /\ UNCHANGED <<stack, prio, doomed, timers, cutoff, armed, now>>

\* Mutant of MayTerminate: a process that has already ended is not left alone.
MayTerminateEnded(p) == p # active /\ stack[p] # "none"

MayTerminate(p) == p # active /\ stack[p] = "live"

\* Process>>terminate of another process: a trampoline frame is pushed on its
\* stack and it is made runnable, whatever it was doing.
TerminateOther(p) ==
    /\ Sending
    /\ MayTerminate(p)
    /\ doomed' = doomed \cup {p}
    /\ SetLists(MakeRunnable(Unlink(Lists, p), p))
    /\ UNCHANGED <<vm, active, target, stack, prio, timers, cutoff, armed, now>>

\* Process>>transferTo:, which leaves the running process on no list and does
\* not take the target off its own.  The kernel sources declare no method for
\* it (scope "none"), a debugger would send it to a suspended process, and
\* the primitive itself accepts any process that has a stack.
TransferTo(p) ==
    /\ Sending
    /\ stack[p] = "live"
    /\ \/ TransferScope = "any"
       \/ TransferScope = "suspended" /\ myList[p] = NoList
    /\ active' = p
    /\ UNCHANGED <<vm, target, stack, prio, queue, myList, excess, doomed,
                   timers, cutoff, armed, now>>

\* Mutant of ArmForTimer: the new request does not arm the safepoint.
LeaveUnarmed == armed

ArmForTimer == TRUE

\* Delay>>primSignal:atMs:
SignalAt(s, t) ==
    /\ Sending
    /\ RoomFor(s)
    /\ timers' = Append(timers, [at |-> t, sem |-> s])
    /\ armed' = ArmForTimer
    /\ UNCHANGED <<vm, active, target, stack, prio, queue, myList, excess,
                   doomed, cutoff, now>>

\* The halt branch of the run loop: the base frame of the active process
\* returned.
BaseFrameReturns ==
    LET L == [Lists EXCEPT !.myList[active] = NoList]
    IN  /\ stack' = [stack EXCEPT ![active] = "nil"]
        /\ doomed' = doomed \ {active}
        /\ \/ /\ active = target
              /\ vm' = "returned"
              /\ SetLists(L)
              /\ UNCHANGED <<active, target>>
           \/ /\ active # target
              /\ PickNextOrWait(L)
        /\ polled' = FALSE
        /\ UNCHANGED <<prio, timers, cutoff, armed, now>>

\* The process runs to its end, or terminates itself with no ensure frame left.
Halt == Executing /\ BaseFrameReturns

\* A terminate trampoline runs: the process unwinds to its base frame, and
\* ends there unless an ensure block on the way has to run first.
RunTrampoline ==
    /\ vm = "run" /\ active \in doomed
    /\ \/ BaseFrameReturns
       \/ /\ doomed' = doomed \ {active}
          /\ polled' = FALSE
          /\ UNCHANGED <<vm, active, target, stack, prio, queue, myList,
                         excess, timers, cutoff, armed, now>>

-----------------------------------------------------------------------------
(* Snapshots.  The primitive leaves the virtual machine that runs it as it   *)
(* was; what it is for is the day the image is loaded.                      *)

\* The image that the active process writes is loaded: the heap and the active
\* process are those of the snapshot, and the rest of the machine is new, with
\* no timer request, a clear safepoint and a clock that starts again.
Restart ==
    /\ Sending
    /\ vm' = "loaded"
    /\ timers' = <<>>
    /\ armed' = FALSE
    /\ now' = 0
    /\ UNCHANGED <<active, target, stack, prio, queue, myList, excess, doomed, cutoff>>

\* run_until_idle on the process the image names
RunImage ==
    /\ vm = "loaded"
    /\ vm' = "run"
    /\ target' = active
    /\ UNCHANGED <<active, stack, prio, queue, myList, excess, doomed, timers,
                   cutoff, armed, polled, now>>

-----------------------------------------------------------------------------
(* Timers, the safepoint and waiting for a timer.                           *)

\* service_timers starts.  What is due leaves the list one request at a time,
\* not all at once, which nothing can tell: nothing reads the list meanwhile.
StartService == cutoff' = now

NoneDue == \A i \in DOMAIN timers : timers[i].at > cutoff

\* poll_safepoint finds the flag set and service_safepoint starts.
PollSafepoint ==
    /\ Executing
    /\ armed
    /\ vm' = "poll"
    /\ polled' = TRUE
    /\ StartService
    /\ UNCHANGED <<active, target, stack, prio, queue, myList, excess,
                   doomed, timers, armed, now>>

\* service_timers' loop: the due requests are fired in the order they were made.
FireDue ==
    /\ vm \in {"poll", "pick"}
    /\ \E i \in DOMAIN timers :
        /\ timers[i].at <= cutoff
        /\ \A j \in DOMAIN timers : timers[j].at <= cutoff => i <= j
        /\ timers' = RemoveAt(timers, i)
        /\ SetLists(SignalInternal(Lists, timers[i].sem))
    /\ UNCHANGED <<vm, active, target, stack, prio, doomed, cutoff, armed,
                   polled, now>>

\* Mutant of StaysArmed: a served safepoint is disarmed for good.
DisarmAfterPoll == FALSE

\* The store to the flag in service_safepoint
StaysArmed == timers # <<>>

\* Mutant of MustPreempt: compares with the process the run was called for.
PreemptsTarget ==
    /\ HasRunnable(Lists)
    /\ Ceiling(Lists) > prio[target]

MustPreempt ==
    /\ HasRunnable(Lists)
    /\ Ceiling(Lists) > prio[active]

\* The rest of service_safepoint: rearm, and preempt for a higher priority.
FinishPoll ==
    /\ vm = "poll"
    /\ NoneDue
    /\ cutoff' = -1
    /\ armed' = StaysArmed
    /\ \/ /\ MustPreempt
          /\ Dispatch(MakeRunnable(Lists, active))
       \/ /\ ~MustPreempt
          /\ vm' = "run"
          /\ UNCHANGED <<active, target, queue, myList, excess>>
    /\ UNCHANGED <<stack, prio, doomed, timers, polled, now>>

\* An iteration of pick_next_or_wait that fires timers; until one is due the
\* thread sleeps.
WakeToFire ==
    /\ vm = "pick"
    /\ NoneDue /\ ~HasRunnable(Lists)
    /\ \E i \in DOMAIN timers : timers[i].at <= now
    /\ StartService
    /\ UNCHANGED <<vm, active, target, stack, prio, queue, myList, excess,
                   doomed, timers, armed, polled, now>>

\* An iteration of pick_next_or_wait that returns.
StopWaiting ==
    /\ vm = "pick"
    /\ NoneDue
    /\ cutoff' = -1
    /\ HasRunnable(Lists) \/ timers = <<>>
    /\ PickNextOrWait(Lists)
    /\ UNCHANGED <<stack, prio, doomed, timers, armed, polled, now>>

\* run_until_idle, once the run it started has returned
RunNext ==
    /\ vm = "returned" /\ UntilIdle
    /\ PickNextOrWait(Lists)
    /\ UNCHANGED <<stack, prio, doomed, timers, cutoff, armed, polled, now>>

Stopped == vm \in {"exit", "deadlock"} \/ (vm = "returned" /\ ~UntilIdle)

Tick ==
    /\ ~Stopped
    /\ now < MaxTime
    /\ now' = now + 1
    /\ UNCHANGED <<vm, active, target, stack, prio, queue, myList, excess,
                   doomed, timers, cutoff, armed, polled>>

Terminated == Stopped /\ UNCHANGED vars

-----------------------------------------------------------------------------
Init ==
    /\ vm = "run"
    /\ active = Main
    /\ target = Main
    /\ stack = [p \in Process |-> IF p = Main THEN "live" ELSE "none"]
    /\ prio \in {[p \in Process |-> k] : k \in Priority}
    /\ queue = [l \in List |-> <<>>]
    /\ myList = [p \in Process |-> NoList]
    /\ excess = [s \in Semaphore |-> 0]
    /\ doomed = {}
    /\ timers = <<>>
    /\ cutoff = -1
    /\ armed = FALSE
    /\ polled = FALSE
    /\ now = 0

Next ==
    \/ \E s \in Semaphore : Wait(s) \/ Signal(s)
    \/ \E s \in Semaphore, t \in 0..MaxTime : SignalAt(s, t)
    \/ \E p \in Process : Resume(p) \/ Suspend(p) \/ TerminateOther(p) \/ TransferTo(p)
    \/ \E p \in Process, k \in Priority : Fork(p, k)
    \/ Yield \/ Halt \/ RunTrampoline
    \/ Restart \/ RunImage
    \/ PollSafepoint \/ FireDue \/ FinishPoll
    \/ WakeToFire \/ StopWaiting \/ RunNext
    \/ Tick
    \/ Terminated

Spec == Init /\ [][Next]_vars

-----------------------------------------------------------------------------
(* Properties.                                                              *)

\* The lists and the myList slots tell the same story: a process is on at
\* most one list, once, and its myList slot names that list, so that suspend,
\* resume and terminate find a process where it is (src/prims.rs:1060).
ListsAgree ==
    /\ \A l \in List : \A i \in DOMAIN queue[l] : myList[queue[l][i]] = l
    /\ \A l \in List : \A i, j \in DOMAIN queue[l] :
            queue[l][i] = queue[l][j] => i = j
    /\ \A p \in Process : myList[p] # NoList =>
            \E i \in DOMAIN queue[myList[p]] : queue[myList[p]][i] = p

\* The process that has the CPU is alive and on no list, and a process that
\* has ended or was never forked is on no list: SPEC section 7's running,
\* runnable, blocked, suspended and terminated exclude each other.
OneState ==
    /\ vm \in {"run", "poll", "loaded"} => stack[active] = "live" /\ myList[active] = NoList
    /\ \A p \in Process : stack[p] # "live" => myList[p] = NoList

\* No lost wakeup: a semaphore never keeps a signal while a process waits on
\* it, however wait, signal, suspend, terminate and timers interleave.
NoSignalWithheld ==
    \A s \in Semaphore : excess[s] > 0 => queue[s] = <<>>

\* The flag that makes bytecode poll is set as long as a timer is pending: a
\* process that never blocks cannot outrun a Delay (src/interp.rs:970).
TimersKeepPolling == timers # <<>> => armed

Runnable(p) == \E k \in RunQueue : myList[p] = k

\* p is kept waiting by a process of lower priority.
Inverted(p) ==
    /\ vm \in {"run", "loaded"}
    /\ Runnable(p)
    /\ Clamp(prio[p]) > Clamp(prio[active])

\* No priority inversion begins: while bytecode runs, a process of higher
\* priority becomes runnable and is not run only when it is told to terminate,
\* or when the running process gives the processor away with transferTo:, the
\* two primitives that look at no priority.
NoInversion ==
    [][\A p \in Process :
          Inverted(p)' /\ ~Inverted(p) =>
              \/ p \in doomed'
              \/ \E q \in Process : TransferTo(q)]_vars

Before(q, x, y) ==
    \E i, j \in DOMAIN q : i < j /\ q[i] = x /\ q[j] = y

\* Within a priority nobody is overtaken: a process keeps its place before
\* everyone who was not before it, unless it was told to terminate, which
\* sends it to the back.
NoOvertaking ==
    [][\A k \in RunQueue : \A x, y \in Process :
          ( /\ x # y
            /\ \E i \in DOMAIN queue[k] : queue[k][i] = x
            /\ \E i \in DOMAIN queue'[k] : queue'[k][i] = x
            /\ \E i \in DOMAIN queue'[k] : queue'[k][i] = y
            /\ ~Before(queue[k], y, x) )
          => Before(queue'[k], x, y) \/ x \in doomed']_vars

\* The semaphores implement counting semaphores that serve waiters in order.
Abstract == INSTANCE FifoSemaphore WITH
                count <- excess,
                waiters <- [s \in Semaphore |-> queue[s]]
SemaphoresAreFifo == Abstract!Spec

\* A terminated process stays terminated: nothing resumes, signals or
\* dispatches it again.
TerminatedForGood ==
    [][\A p \in Process : stack[p] = "nil" =>
          /\ stack'[p] = "nil"
          /\ myList'[p] = NoList
          /\ vm' = "run" => active' # p]_vars

\* What the run loop, the timer list and the clock do by themselves.  Nothing
\* is assumed of what bytecode chooses to do: a send or a backward jump, where
\* it polls, comes round in every loop it can make.
Fairness ==
    /\ WF_vars(PollSafepoint)
    /\ WF_vars(FireDue)
    /\ WF_vars(FinishPoll)
    /\ WF_vars(WakeToFire)
    /\ WF_vars(StopWaiting)
    /\ WF_vars(RunNext)
    /\ WF_vars(RunTrampoline)
    /\ WF_vars(RunImage)
    /\ WF_vars(Tick)

FairSpec == Spec /\ Fairness

\* A Delay ends: the first process waiting on a semaphore with a pending timer
\* stops waiting, unless the whole VM stops first.  An image does not hold the
\* timer list, so that the one it was waiting in when the image was written
\* never ends once it is loaded (vm = "loaded").
SleeperWakes ==
    \A p \in Process, s \in Semaphore :
        (/\ queue[s] # <<>> /\ Head(queue[s]) = p
         /\ \E i \in DOMAIN timers : timers[i].sem = s)
        ~> (myList[p] # s \/ Stopped \/ vm = "loaded")

=============================================================================
