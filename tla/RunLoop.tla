------------------------------ MODULE RunLoop ------------------------------
(***************************************************************************)
(* The fetch-and-execute loop of src/interp.rs and what a context switch    *)
(* does to it: registers in local variables, an instruction already         *)
(* decoded, and polls of the safepoint in the middle of an instruction.     *)
(*                                                                          *)
(* Scheduler has the queues; here a process is ready, asleep on a timer or  *)
(* due, and ready ones are told apart by priority only.  A process runs one *)
(* frame, whose code is a sequence of operations:                           *)
(*   "plain"   no poll, the next instruction follows                        *)
(*   "loop"    a conditional jump back to the first instruction: it polls   *)
(*             when taken; if the operand is no boolean, mustBeBoolean is   *)
(*             sent and the jump is executed again                          *)
(*   "send"    polls, then sends; its callee is not followed                *)
(*   "sleep"   a send of Delay>>wait: polls, then blocks the process        *)
(*   "start", "stop"   a send of a primitive of Profiler                    *)
(*   "ret"     the base frame returns and the process ends                  *)
(* Beside the loop runs the thread of the profiler, which asks for a sample   *)
(* in two stores that the poll may come between.                            *)
(***************************************************************************)
EXTENDS Naturals, Sequences

CONSTANTS
    Process,
    Priority,   \* Priority[p]: the priority slot
    Code,       \* Code[p]: its operations
    Target,     \* the process `run` was called for
    NoInsn, NoProcess

Sends == {"send", "sleep", "start", "stop"}

Op == Sends \cup {"plain", "loop", "ret"}

ASSUME RunLoopAssumption ==
    /\ Priority \in [Process -> Nat]
    /\ Code \in [Process -> Seq(Op)]
    /\ \A p \in Process : Code[p] # <<>> /\ Code[p][Len(Code[p])] = "ret"
    /\ Target \in Process
    /\ NoProcess \notin Process
    /\ NoInsn \notin [of : Process, at : Nat, op : Op]

VARIABLES
    active,     \* Vm::active_process, NoProcess while all are asleep
    phase,      \* "fetch", "poll" and "service" (in poll_safepoint), "execute",
                \* "join" (waiting for the profiler's thread) or "stopped"
    pc,         \* regs.pc
    savedPc,    \* the pc slot of every process
    insn,       \* the decoded instruction: its process, place and operation
    ready,      \* processes on the run queues
    asleep,     \* processes that wait for a timer
    due,        \* those of them whose time has come
    armed,      \* the safepoint flag
    sampling,   \* Profiler::active
    sampleDue,  \* the other flag shared with the profiler's thread
    ticker,     \* where that thread is: "none", "asleep", "awake" or "raising"
    halt,       \* ProfTimer::stop
    place       \* history: the instruction each process has to execute next

profiler == <<sampling, sampleDue, ticker, halt>>
vars == <<active, phase, pc, savedPc, insn, ready, asleep, due, armed, place,
          profiler>>

Insn == [of : Process, at : Nat, op : Op]

TypeOK ==
    /\ active \in Process \cup {NoProcess}
    /\ phase \in {"fetch", "poll", "service", "execute", "join", "stopped"}
    /\ pc \in Nat
    /\ savedPc \in [Process -> Nat]
    /\ insn \in Insn \cup {NoInsn}
    /\ ready \subseteq Process /\ asleep \subseteq Process /\ due \subseteq asleep
    /\ ready \cap asleep = {} /\ active \notin ready \cup asleep
    /\ {armed, sampling, sampleDue, halt} \subseteq BOOLEAN
    /\ ticker \in {"none", "asleep", "awake", "raising"}
    /\ place \in [Process -> Nat]

-----------------------------------------------------------------------------
\* Mutant of Pending: a request that fired stays on the list.
FiredStay == asleep

\* service_timers: the requests that are not due yet
Pending == asleep \ due

\* A process in Q whose priority nobody in Q exceeds
Top(Q) == {p \in Q : \A q \in Q : Priority[q] <= Priority[p]}

\* Mutant of Saved: the pc in the process is not brought up to date.
SavedNot == savedPc

\* save_regs, which leaves the slot of no process but the active one
Saved == IF active = NoProcess THEN savedPc ELSE [savedPc EXCEPT ![active] = pc]

\* transfer_to: registers into the outgoing process, out of the incoming one
TransferTo(p) ==
    /\ savedPc' = Saved
    /\ active' = p
    /\ pc' = savedPc[p]

\* The loop decodes the instruction and moves pc past it.
Fetch ==
    /\ phase = "fetch" /\ active # NoProcess
    /\ insn' = [of |-> active, at |-> pc, op |-> Code[active][pc]]
    /\ pc' = pc + 1
    /\ phase' = IF Code[active][pc] \in Sends THEN "poll" ELSE "execute"
    /\ UNCHANGED <<active, savedPc, ready, asleep, due, armed, place, profiler>>

\* The effect of the decoded instruction on the frame of the active process,
\* which is thereby one instruction further, if it was this one's turn.
Executed(next) ==
    place' = IF insn.of = active /\ insn.at = place[active]
             THEN [place EXCEPT ![active] = next] ELSE place

Done == insn' = NoInsn /\ phase' = "fetch"

\* sample_due_here: while the profiler is active, a primitive and a collection
\* take the sample that is due before they begin.
SampleHere ==
    /\ sampleDue' = (sampleDue /\ ~sampling)
    /\ UNCHANGED <<sampling, ticker, halt>>

\* Any instruction may allocate, and a send may run a primitive.
ExecuteInFrame ==
    /\ phase = "execute" /\ insn.op \in {"plain", "send"}
    /\ Executed(insn.at + 1)
    /\ Done
    /\ SampleHere \/ UNCHANGED profiler
    /\ UNCHANGED <<active, pc, savedPc, ready, asleep, due, armed>>

\* The backward jump is complete before it polls.
JumpBack ==
    /\ phase = "execute" /\ insn.op = "loop"
    /\ pc' = 1
    /\ Executed(1)
    /\ insn' = NoInsn
    /\ phase' = "poll"
    /\ UNCHANGED <<active, savedPc, ready, asleep, due, armed, profiler>>

LeaveLoop ==
    /\ phase = "execute" /\ insn.op = "loop"
    /\ Executed(insn.at + 1)
    /\ Done
    /\ UNCHANGED <<active, pc, savedPc, ready, asleep, due, armed, profiler>>

\* mustBeBoolean: the answer replaces the operand, the jump comes again.
JumpAgain ==
    /\ phase = "execute" /\ insn.op = "loop"
    /\ pc' = pc - 1
    /\ Done
    /\ UNCHANGED <<active, savedPc, ready, asleep, due, armed, place, profiler>>

\* pick_next_or_wait and transfer_to, or the wait it comes to
RunNext ==
    \/ \E p \in Top(ready) : TransferTo(p) /\ ready' = ready \ {p}
    \/ /\ ready = {}
       /\ savedPc' = Saved
       /\ active' = NoProcess
       /\ UNCHANGED <<pc, ready>>

\* Delay>>wait: a timer request, then Semaphore>>wait
ExecuteSleep ==
    /\ phase = "execute" /\ insn.op = "sleep"
    /\ Executed(insn.at + 1)
    /\ Done
    /\ asleep' = asleep \cup {active}
    /\ armed' = TRUE
    /\ SampleHere
    /\ RunNext
    /\ UNCHANGED due

\* The base frame returned (regs.halted): `run` returns if it was the frame of
\* its target, and the next process runs otherwise.
ExecuteReturn ==
    /\ phase = "execute" /\ insn.op = "ret"
    /\ Executed(insn.at + 1)
    /\ insn' = NoInsn
    /\ \/ active # Target /\ RunNext /\ phase' = "fetch"
       \/ /\ active = Target
          /\ phase' = "stopped"
          /\ UNCHANGED <<active, pc, savedPc, ready>>
    /\ UNCHANGED <<asleep, due, armed, profiler>>

\* profiler_stop, as a primitive or by profiler_start: the thread is told to
\* end, and the virtual machine waits for it.
ExecuteProfiler ==
    /\ phase = "execute" /\ insn.op \in {"start", "stop"}
    /\ sampleDue' = (sampleDue /\ ~sampling)
    /\ sampling' = FALSE
    /\ halt' = TRUE
    /\ phase' = "join"
    /\ UNCHANGED <<active, pc, savedPc, insn, ready, asleep, due, armed, place, ticker>>

\* Mutant of Joined: the flag is cleared without the thread having ended.
JoinedEarly == phase = "join"

Joined == phase = "join" /\ ticker = "none"

\* The rest of the two primitives: a request that came while the thread ended is
\* taken back, and a start has a new thread.
ProfilerDone ==
    /\ Joined
    /\ Executed(insn.at + 1)
    /\ Done
    /\ sampleDue' = FALSE
    /\ IF insn.op = "start" THEN sampling' = TRUE /\ ticker' = "asleep" /\ halt' = FALSE
                            ELSE UNCHANGED <<sampling, ticker, halt>>
    /\ UNCHANGED <<active, pc, savedPc, ready, asleep, due, armed>>

\* pick_next_or_wait, once a timer is due and nobody runs
WakeFromIdle ==
    /\ active = NoProcess
    /\ due # {}
    /\ asleep' = Pending
    /\ due' = {}
    /\ \E p \in Top(ready \cup due) :
          /\ TransferTo(p)
          /\ ready' = (ready \cup due) \ {p}
    /\ UNCHANGED <<phase, insn, armed, place, profiler>>

AfterPoll == phase' = IF insn = NoInsn THEN "fetch" ELSE "execute"

\* poll_safepoint with the flag clear
PollUnarmed ==
    /\ phase = "poll" /\ ~armed
    /\ AfterPoll
    /\ UNCHANGED <<active, pc, savedPc, insn, ready, asleep, due, armed, place, profiler>>

\* poll_safepoint with the flag set: a sample that is due is taken of the frames
\* of the active process, if the profiler is active.
PollArmed ==
    /\ phase = "poll" /\ armed
    /\ sampleDue' = FALSE
    /\ phase' = "service"
    /\ UNCHANGED <<active, pc, savedPc, insn, ready, asleep, due, armed, place,
                   sampling, ticker, halt>>

\* Mutant of MustPreempt: the ceiling is read before the timers fire.
CeilingFirst == \E p \in ready : Priority[p] > Priority[active]

MustPreempt == \E p \in ready \cup due : Priority[p] > Priority[active]

\* The rest of service_safepoint: timers fire, the flag stays set as long as one
\* is pending, whatever the profiler's thread has just stored in it, and a ready
\* process of higher priority takes over.  The instruction that polled goes on,
\* whoever is active.
Service ==
    /\ phase = "service"
    /\ asleep' = Pending
    /\ due' = {}
    /\ armed' = (Pending # {})
    /\ \/ /\ MustPreempt
          /\ \E p \in Top(ready \cup due) :
                /\ TransferTo(p)
                /\ ready' = (ready \cup due \cup {active}) \ {p}
       \/ /\ ~MustPreempt
          /\ ready' = ready \cup due
          /\ UNCHANGED <<active, pc, savedPc>>
    /\ AfterPoll
    /\ UNCHANGED <<insn, place, profiler>>

\* The clock reaches the time of a sleeping process's request.
Expire(p) ==
    /\ p \in asleep \ due
    /\ due' = due \cup {p}
    /\ UNCHANGED <<active, phase, pc, savedPc, insn, ready, asleep, armed, place, profiler>>

-----------------------------------------------------------------------------
(* The thread of the profiler: every interval it looks whether it is to end, *)
(* and if not says that a sample is due and arms the safepoint.             *)

\* Mutant of TickerRaise: the safepoint is armed for a new request only.
RaiseIfNew ==
    /\ ticker = "awake"
    /\ sampleDue' = TRUE
    /\ ticker' = IF sampleDue THEN "asleep" ELSE "raising"
    /\ UNCHANGED <<active, phase, pc, savedPc, insn, ready, asleep, due, armed, place,
                   sampling, halt>>

TickerWakes ==
    /\ ticker = "asleep"
    /\ ticker' = IF halt THEN "none" ELSE "awake"
    /\ UNCHANGED <<active, phase, pc, savedPc, insn, ready, asleep, due, armed, place,
                   sampling, sampleDue, halt>>

TickerRaise ==
    /\ ticker = "awake"
    /\ sampleDue' = TRUE
    /\ ticker' = "raising"
    /\ UNCHANGED <<active, phase, pc, savedPc, insn, ready, asleep, due, armed, place,
                   sampling, halt>>

TickerArm ==
    /\ ticker = "raising"
    /\ armed' = TRUE
    /\ ticker' = "asleep"
    /\ UNCHANGED <<active, phase, pc, savedPc, insn, ready, asleep, due, place,
                   sampling, sampleDue, halt>>

-----------------------------------------------------------------------------

\* The target has started the others; one of the most important of them all,
\* perhaps the target itself, runs.
Init ==
    /\ active \in Top(Process)
    /\ phase = "fetch"
    /\ pc = 1
    /\ savedPc = [p \in Process |-> 1]
    /\ insn = NoInsn
    /\ ready = Process \ {active}
    /\ asleep = {} /\ due = {}
    /\ armed = FALSE
    /\ sampling = FALSE /\ sampleDue = FALSE /\ ticker = "none" /\ halt = FALSE
    /\ place = [p \in Process |-> 1]

Stopped == phase = "stopped" /\ UNCHANGED vars

Next ==
    \/ Fetch
    \/ ExecuteInFrame \/ JumpBack \/ LeaveLoop \/ JumpAgain
    \/ ExecuteSleep \/ ExecuteReturn
    \/ ExecuteProfiler \/ ProfilerDone
    \/ PollUnarmed \/ PollArmed \/ Service
    \/ WakeFromIdle
    \/ \E p \in Process : Expire(p)
    \/ TickerWakes \/ TickerRaise \/ TickerArm
    \/ Stopped

Spec == Init /\ [][Next]_vars

-----------------------------------------------------------------------------
(* Properties.                                                              *)

\* A switch is invisible to the code that was interrupted: whatever instruction
\* is executed is executed in the frame it was fetched from, and it is the one
\* that follows the last one executed there.  None is lost, none done twice
\* (SPEC.md:354: the poll stores pc and frame, "services the request, and
\* continues or switches").
OwnInstruction ==
    insn # NoInsn /\ phase = "execute" =>
        insn.of = active /\ insn.at = place[active]

\* Nobody's registers are lost: the pc of a process that is not running is the
\* instruction it has to execute next.
SavedInPlace ==
    \A p \in Process \ {active} : savedPc[p] = place[p]

\* The virtual machine goes on executing.  A process may loop forever, but not
\* on an operand that is never a boolean: mustBeBoolean signals an error
\* (st/kernel/kernel.st:368), and what its handler answers is not one that
\* comes back to the jump again and again.  The clock runs, and the operating
\* system runs the profiler's thread.
Fairness ==
    /\ WF_vars(Fetch) /\ WF_vars(ExecuteInFrame)
    /\ SF_vars(JumpBack \/ LeaveLoop)
    /\ WF_vars(ExecuteSleep) /\ WF_vars(ExecuteReturn)
    /\ WF_vars(ExecuteProfiler) /\ WF_vars(ProfilerDone)
    /\ WF_vars(PollUnarmed) /\ WF_vars(PollArmed) /\ WF_vars(Service)
    /\ WF_vars(WakeFromIdle)
    /\ \A p \in Process : WF_vars(Expire(p))
    /\ WF_vars(TickerWakes) /\ WF_vars(TickerRaise) /\ WF_vars(TickerArm)

FairSpec == Spec /\ Fairness

\* A loop that never blocks does not keep the processor from a process of
\* higher priority whose timer is due: sooner or later the running process is
\* at least as important (SPEC.md:354, every backward branch polls).
DueGetsCpu ==
    \A p \in Process :
        p \in due ~> \/ phase = "stopped"
                     \/ active # NoProcess /\ Priority[active] >= Priority[p]

\* A profiler that has stopped leaves nothing behind that would be taken as a
\* sample of the next session: neither its thread nor a request, although the
\* thread may have passed its last look at `stop` (src/src/profile.rs:175).
NothingLeftBehind ==
    ~sampling /\ phase # "join" => ticker = "none" /\ ~sampleDue

\* A sample that is due is taken, or taken back by a stop, although the poll may
\* clear the flag that the thread has just set: a process that goes on running
\* is not left out of the profile (the comment of service_safepoint: "the
\* profiler timer thread re-arms it on its own").
SampleTaken ==
    sampleDue ~> ~sampleDue \/ phase = "stopped"

=============================================================================
