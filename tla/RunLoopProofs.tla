--------------------------- MODULE RunLoopProofs ---------------------------
(***************************************************************************)
(* For all processes, priorities and programs:                              *)
(*                                                                         *)
(* A profiling session leaves nothing behind.  It rests on the join: the    *)
(* thread may have looked at `stop` before it was set and raise one more    *)
(* request, but only while the virtual machine waits for the thread, and    *)
(* the request is taken back after that.                                    *)
(*                                                                         *)
(* A switch is invisible to the code that was interrupted, if no send can   *)
(* be interrupted (OnlyTopSends): jumps poll with the pc that is to be       *)
(* saved, sends with the pc of what follows.                                *)
(***************************************************************************)
EXTENDS RunLoop, TLAPS

ProfilerTypeOK ==
    /\ sampling \in BOOLEAN /\ sampleDue \in BOOLEAN
    /\ ticker \in {"none", "asleep", "awake", "raising"}

\* The thread lives, and a request is there, only in a session or while its end
\* is waited for.
SessionInv ==
    /\ ProfilerTypeOK
    /\ ticker # "none" => sampling \/ phase = "join"
    /\ sampleDue => sampling \/ phase = "join"

\* The session invariant holds before anything is profiled.
LEMMA SessionInit == Init => SessionInv
  BY DEF Init, SessionInv, ProfilerTypeOK

\* The loop starts and ends sessions, takes samples and no more.
LEMMA LoopKeepsSession ==
    ASSUME SessionInv,
           \/ Fetch \/ ExecuteInFrame \/ JumpBack \/ LeaveLoop \/ JumpAgain
           \/ ExecuteSleep \/ ExecuteReturn \/ ExecuteProfiler \/ ProfilerDone
    PROVE  SessionInv'
<1> USE DEF SessionInv, ProfilerTypeOK
<1>1. CASE Fetch
  BY <1>1 DEF Fetch, profiler
<1>2. CASE ExecuteInFrame
  <2>1. phase = "execute" /\ phase' = "fetch"
    BY <1>2 DEF ExecuteInFrame, Done
  <2>2. SampleHere \/ UNCHANGED profiler
    BY <1>2 DEF ExecuteInFrame
  <2>3. CASE SampleHere
    BY <2>1, <2>3 DEF SampleHere
  <2>4. CASE UNCHANGED profiler
    BY <2>1, <2>4 DEF profiler
  <2> QED BY <2>2, <2>3, <2>4
<1>3. CASE JumpBack
  BY <1>3 DEF JumpBack, profiler
<1>4. CASE LeaveLoop
  BY <1>4 DEF LeaveLoop, Done, profiler
<1>5. CASE JumpAgain
  BY <1>5 DEF JumpAgain, Done, profiler
<1>6. CASE ExecuteSleep
  BY <1>6 DEF ExecuteSleep, Done, SampleHere
<1>7. CASE ExecuteReturn
  BY <1>7 DEF ExecuteReturn, profiler
<1>8. CASE ExecuteProfiler
  BY <1>8 DEF ExecuteProfiler
<1>9. CASE ProfilerDone
  <2>1. ticker = "none" /\ sampleDue' = FALSE
    BY <1>9 DEF ProfilerDone, Joined
  <2>2. CASE insn.op = "start"
    BY <1>9, <2>1, <2>2 DEF ProfilerDone
  <2>3. CASE insn.op # "start"
    BY <1>9, <2>1, <2>3 DEF ProfilerDone
  <2> QED BY <2>2, <2>3
<1> QED
  BY <1>1, <1>2, <1>3, <1>4, <1>5, <1>6, <1>7, <1>8, <1>9

\* Polls, timers and idling are no end of a session.
LEMMA PollsKeepSession ==
    ASSUME SessionInv,
           \/ PollUnarmed \/ PollArmed \/ Service \/ WakeFromIdle
           \/ \E p \in Process : Expire(p)
           \/ Stopped
    PROVE  SessionInv'
<1> USE DEF SessionInv, ProfilerTypeOK
<1>1. CASE PollUnarmed
  BY <1>1 DEF PollUnarmed, AfterPoll, profiler
<1>2. CASE PollArmed
  BY <1>2 DEF PollArmed
<1>3. CASE Service
  BY <1>3 DEF Service, AfterPoll, profiler
<1>4. CASE WakeFromIdle
  BY <1>4 DEF WakeFromIdle, profiler
<1>5. CASE \E p \in Process : Expire(p)
  BY <1>5 DEF Expire, profiler
<1>6. CASE Stopped
  BY <1>6 DEF Stopped, vars, profiler
<1> QED
  BY <1>1, <1>2, <1>3, <1>4, <1>5, <1>6

\* The thread raises a request only while it lives.
LEMMA TickerKeepsSession ==
    ASSUME SessionInv, TickerWakes \/ TickerRaise \/ TickerArm
    PROVE  SessionInv'
<1> USE DEF SessionInv, ProfilerTypeOK
<1>1. CASE TickerWakes
  BY <1>1 DEF TickerWakes
<1>2. CASE TickerRaise
  BY <1>2 DEF TickerRaise
<1>3. CASE TickerArm
  BY <1>3 DEF TickerArm
<1> QED
  BY <1>1, <1>2, <1>3

\* A profiler that is not active has no thread and no request (profiler_stop
\* and profiler_start of src/prims.rs, Profiler::stop of src/profile.rs).
THEOREM NothingLeftBehindHolds == Spec => []NothingLeftBehind
<1>1. SessionInv /\ [Next]_vars => SessionInv'
  <2> SUFFICES ASSUME SessionInv, [Next]_vars
               PROVE  SessionInv'
    OBVIOUS
  <2>1. CASE Next
    BY <2>1, LoopKeepsSession, PollsKeepSession, TickerKeepsSession DEF Next
  <2>2. CASE UNCHANGED vars
    BY <2>2 DEF SessionInv, ProfilerTypeOK, vars, profiler
  <2> QED BY <2>1, <2>2
<1>2. SessionInv => NothingLeftBehind
  BY DEF SessionInv, NothingLeftBehind
<1> QED
  BY SessionInit, <1>1, <1>2, PTL DEF Spec

-----------------------------------------------------------------------------
(* Switches.                                                                *)

\* No send is interrupted: who sends has a priority that nobody exceeds.
OnlyTopSends ==
    \A p \in Process : \A i \in DOMAIN Code[p] :
        Code[p][i] \in Sends => p \in Top(Process)

\* Between two instructions the registers are those of the active process.
AtPlace == active # NoProcess => pc = place[active]

\* An instruction has been decoded, for the active process.
Decoded ==
    /\ active \in Process
    /\ insn # NoInsn
    /\ insn.of = active
    /\ insn.at = place[active]
    /\ insn.op = Code[active][place[active]]
    /\ pc = place[active] + 1

\* What the registers hold in each phase.
Registers ==
    /\ phase = "fetch" => insn = NoInsn /\ AtPlace
    /\ phase \in {"poll", "service"} =>
          /\ active # NoProcess
          /\ insn = NoInsn => AtPlace
          /\ insn # NoInsn => Decoded /\ active \in Top(Process)
    /\ phase \in {"execute", "join"} => Decoded
    /\ phase = "join" => insn.op \in {"start", "stop"}
    /\ phase = "stopped" => active # NoProcess

\* Nobody who may run again has run past the end of its code.
Within(p) == place[p] \in DOMAIN Code[p]

CodeLeft ==
    /\ \A p \in ready \cup asleep : Within(p)
    /\ phase # "stopped" /\ active # NoProcess => Within(active)

PlaceInv == TypeOK /\ SavedInPlace /\ Registers /\ CodeLeft

\* A code is not left but by its last instruction, which returns.
LEMMA NextWithin ==
    ASSUME NEW p \in Process, NEW i \in DOMAIN Code[p], Code[p][i] # "ret"
    PROVE  i + 1 \in DOMAIN Code[p]
<1>1. Code[p] \in Seq(Op) /\ Code[p][Len(Code[p])] = "ret"
  BY RunLoopAssumption
<1>2. DOMAIN Code[p] = 1..Len(Code[p]) /\ Len(Code[p]) \in Nat
  BY <1>1
<1>3. i # Len(Code[p])
  BY <1>1
<1> QED
  BY <1>2, <1>3

\* Every code has a first instruction.
LEMMA FirstWithin ==
    ASSUME NEW p \in Process
    PROVE  1 \in DOMAIN Code[p]
<1>1. Code[p] \in Seq(Op) /\ Code[p] # <<>>
  BY RunLoopAssumption
<1> QED
  BY <1>1

\* Top picks from the set it is given.
LEMMA TopSubset == \A Q : \A p \in Top(Q) : p \in Q
  BY DEF Top

\* Executing what has been decoded moves the place of the active process alone.
LEMMA ExecutedMoves ==
    ASSUME TypeOK, Decoded, NEW next \in Nat, Executed(next)
    PROVE  /\ place' = [place EXCEPT ![active] = next]
           /\ place' \in [Process -> Nat]
           /\ place'[active] = next
           /\ \A p \in Process \ {active} : place'[p] = place[p]
  BY DEF Executed, Decoded, TypeOK

\* Who is switched to finds its registers, who is switched from keeps its own.
LEMMA SwitchKeeps ==
    ASSUME TypeOK, SavedInPlace, NEW p \in Process \ {active}, TransferTo(p),
           place' \in [Process -> Nat],
           \A q \in Process \ {active} : place'[q] = place[q],
           active # NoProcess => pc = place'[active]
    PROVE  /\ SavedInPlace'
           /\ active' = p /\ pc' = place'[p] /\ pc' \in Nat
           /\ savedPc' \in [Process -> Nat]
<1>1. savedPc' = Saved /\ active' = p /\ pc' = savedPc[p]
  BY DEF TransferTo
<1>2. savedPc[p] = place[p] /\ savedPc[p] = place'[p]
  BY DEF SavedInPlace
<1>3. savedPc' \in [Process -> Nat]
  BY <1>1 DEF Saved, TypeOK
<1>4. SavedInPlace'
  <2> SUFFICES ASSUME NEW q \in Process, q # p
               PROVE  savedPc'[q] = place'[q]
    BY <1>1 DEF SavedInPlace
  <2>1. CASE q = active
    BY <1>1, <2>1, RunLoopAssumption DEF Saved, TypeOK
  <2>2. CASE q # active
    BY <1>1, <2>2 DEF Saved, SavedInPlace, TypeOK
  <2> QED BY <2>1, <2>2
<1> QED
  BY <1>1, <1>2, <1>3, <1>4 DEF TypeOK

\* The same where there may be nobody to switch to.
LEMMA RunNextKeeps ==
    ASSUME TypeOK, SavedInPlace, RunNext,
           place' \in [Process -> Nat],
           \A q \in Process \ {active} : place'[q] = place[q],
           active \in Process, pc = place'[active]
    PROVE  /\ SavedInPlace'
           /\ active' \in ready \cup {NoProcess}
           /\ active' # NoProcess => pc' = place'[active']
           /\ pc' \in Nat /\ savedPc' \in [Process -> Nat]
           /\ ready' \subseteq ready /\ active' \notin ready'
<1>1. CASE \E p \in Top(ready) : TransferTo(p) /\ ready' = ready \ {p}
  <2>1. PICK p \in Top(ready) : TransferTo(p) /\ ready' = ready \ {p}
    BY <1>1
  <2>2. p \in ready /\ p \in Process \ {active}
    BY TopSubset DEF TypeOK
  <2> QED
    BY <2>1, <2>2, SwitchKeeps DEF TypeOK
<1>2. CASE ready = {} /\ savedPc' = Saved /\ active' = NoProcess /\ UNCHANGED <<pc, ready>>
  <2>1. savedPc' \in [Process -> Nat]
    BY <1>2 DEF Saved, TypeOK
  <2>2. SavedInPlace'
    <3> SUFFICES ASSUME NEW q \in Process
                 PROVE  savedPc'[q] = place'[q]
      BY <1>2 DEF SavedInPlace
    <3> QED
      BY <1>2, RunLoopAssumption DEF Saved, SavedInPlace, TypeOK
  <2> QED
    BY <1>2, <2>1, <2>2 DEF TypeOK
<1> QED
  BY <1>1, <1>2 DEF RunNext

\* Everybody begins with the first instruction of its code.
LEMMA PlaceInit == Init => PlaceInv
<1> SUFFICES ASSUME Init
             PROVE  PlaceInv
  OBVIOUS
<1>1. active \in Process
  BY TopSubset DEF Init
<1>2. TypeOK
  BY <1>1 DEF Init, TypeOK
<1>3. SavedInPlace
  BY DEF Init, SavedInPlace
<1>4. Registers
  BY <1>1 DEF Init, Registers, AtPlace
<1>5. CodeLeft
  BY <1>1, FirstWithin DEF Init, CodeLeft, Within
<1> QED
  BY <1>2, <1>3, <1>4, <1>5 DEF PlaceInv

\* Fetching decodes the instruction at the place of the active process.
LEMMA FetchPlace ==
    ASSUME OnlyTopSends, PlaceInv, Fetch
    PROVE  PlaceInv'
<1> USE DEF PlaceInv
<1>1. /\ active \in Process
      /\ pc = place[active] /\ pc \in Nat
      /\ pc \in DOMAIN Code[active]
  BY DEF Fetch, TypeOK, Registers, AtPlace, CodeLeft, Within
<1>2. Code[active] \in Seq(Op)
  BY <1>1, RunLoopAssumption
<1>3. Code[active][pc] \in Op
  BY <1>1, <1>2
<1>4. insn' \in Insn /\ insn' # NoInsn
  BY <1>1, <1>3, RunLoopAssumption DEF Fetch, Insn
<1>5. TypeOK'
  BY <1>1, <1>4 DEF Fetch, TypeOK, profiler
<1>6. Decoded'
  BY <1>1, <1>4 DEF Fetch, Decoded
<1>7. phase' = "poll" => active' \in Top(Process)
  BY <1>1 DEF Fetch, OnlyTopSends
<1>8. phase' \in {"poll", "execute"}
  BY DEF Fetch
<1>9. Registers'
  BY <1>1, <1>4, <1>6, <1>7, <1>8, RunLoopAssumption DEF Registers, Fetch
<1>10. SavedInPlace' /\ CodeLeft'
  BY <1>8 DEF Fetch, SavedInPlace, CodeLeft, Within
<1> QED
  BY <1>5, <1>9, <1>10

\* An instruction that stays in the frame of the active process and is done.
LEMMA InFramePlace ==
    ASSUME PlaceInv, phase \in {"execute", "join"}, insn.op # "ret",
           Executed(insn.at + 1), Done,
           UNCHANGED <<active, pc, savedPc, ready, asleep, due>>,
           armed' \in BOOLEAN, sampling' \in BOOLEAN, sampleDue' \in BOOLEAN,
           halt' \in BOOLEAN, ticker' \in {"none", "asleep", "awake", "raising"}
    PROVE  PlaceInv'
<1> USE DEF PlaceInv
<1>1. Decoded
  BY DEF Registers
<1>2. insn.at + 1 \in Nat /\ pc = insn.at + 1 /\ active \in Process
  BY <1>1 DEF Decoded, TypeOK
<1>3. /\ place' \in [Process -> Nat] /\ place'[active] = insn.at + 1
      /\ \A p \in Process \ {active} : place'[p] = place[p]
  BY <1>1, <1>2, ExecutedMoves
<1>4. TypeOK'
  BY <1>3 DEF TypeOK, Done
<1>5. SavedInPlace'
  BY <1>3 DEF SavedInPlace
<1>6. Registers'
  BY <1>2, <1>3 DEF Registers, AtPlace, Done
<1>7. CodeLeft'
  <2>1. Within(active)
    BY <1>2, RunLoopAssumption DEF CodeLeft
  <2>2. Within(active)'
    BY <1>1, <1>2, <1>3, <2>1, NextWithin DEF Within, Decoded
  <2>3. \A p \in ready \cup asleep : Within(p)'
    BY <1>3 DEF CodeLeft, Within, TypeOK
  <2> QED
    BY <2>2, <2>3 DEF CodeLeft
<1> QED
  BY <1>4, <1>5, <1>6, <1>7

\* The taken jump is at the first instruction when it polls.
LEMMA JumpBackPlace ==
    ASSUME PlaceInv, JumpBack
    PROVE  PlaceInv'
<1> USE DEF PlaceInv
<1>1. Decoded /\ active \in Process /\ active # NoProcess
  BY RunLoopAssumption DEF JumpBack, Registers, Decoded
<1>2. /\ place' \in [Process -> Nat] /\ place'[active] = 1
      /\ \A p \in Process \ {active} : place'[p] = place[p]
  BY <1>1, ExecutedMoves DEF JumpBack
<1>3. TypeOK'
  BY <1>2 DEF TypeOK, JumpBack, profiler
<1>4. SavedInPlace'
  BY <1>2 DEF SavedInPlace, JumpBack
<1>5. Registers'
  BY <1>1, <1>2 DEF Registers, AtPlace, JumpBack
<1>6. CodeLeft'
  BY <1>1, <1>2, FirstWithin DEF CodeLeft, Within, TypeOK, JumpBack
<1> QED
  BY <1>3, <1>4, <1>5, <1>6

\* The jump whose operand is no boolean is to be fetched again.
LEMMA JumpAgainPlace ==
    ASSUME PlaceInv, JumpAgain
    PROVE  PlaceInv'
<1> USE DEF PlaceInv
<1>1. Decoded
  BY DEF JumpAgain, Registers
<1>2. pc' = place[active] /\ pc' \in Nat
  BY <1>1 DEF JumpAgain, Decoded, TypeOK
<1>3. TypeOK'
  BY <1>2 DEF TypeOK, JumpAgain, Done, profiler
<1>4. Registers'
  BY <1>2 DEF Registers, AtPlace, JumpAgain, Done
<1>5. SavedInPlace' /\ CodeLeft'
  BY DEF SavedInPlace, CodeLeft, Within, JumpAgain, Done
<1> QED
  BY <1>3, <1>4, <1>5

\* A process that goes to sleep, or ends, leaves its place in its slot.
LEMMA LeavePlace ==
    ASSUME PlaceInv, phase = "execute", Executed(insn.at + 1), RunNext,
           insn' = NoInsn, phase' = "fetch",
           \/ asleep' = asleep
           \/ asleep' = asleep \cup {active} /\ insn.op # "ret",
           UNCHANGED due, armed' \in BOOLEAN, sampling' \in BOOLEAN,
           sampleDue' \in BOOLEAN, halt' \in BOOLEAN,
           ticker' \in {"none", "asleep", "awake", "raising"}
    PROVE  PlaceInv'
<1> USE DEF PlaceInv
<1>1. Decoded /\ active \in Process
  BY DEF Registers, Decoded
<1>2. insn.at + 1 \in Nat /\ pc = insn.at + 1
  BY <1>1 DEF Decoded, TypeOK
<1>3. /\ place' \in [Process -> Nat] /\ place'[active] = insn.at + 1
      /\ \A p \in Process \ {active} : place'[p] = place[p]
  BY <1>1, <1>2, ExecutedMoves
<1>4. /\ SavedInPlace'
      /\ active' \in ready \cup {NoProcess}
      /\ active' # NoProcess => pc' = place'[active']
      /\ pc' \in Nat /\ savedPc' \in [Process -> Nat]
      /\ ready' \subseteq ready /\ active' \notin ready'
  BY <1>1, <1>2, <1>3, RunNextKeeps
<1>5. active \notin ready \cup asleep /\ active' # active /\ active' \notin asleep'
  BY <1>1, <1>4, RunLoopAssumption DEF TypeOK
<1>6. TypeOK'
  BY <1>1, <1>3, <1>4, <1>5 DEF TypeOK
<1>7. Registers'
  BY <1>4 DEF Registers, AtPlace
<1>8. CodeLeft'
  <2>1. \A p \in ready \cup asleep : Within(p)'
    BY <1>3, <1>5 DEF CodeLeft, Within, TypeOK
  <2>2. Within(active)
    BY <1>1, RunLoopAssumption DEF CodeLeft
  <2>3. insn.op # "ret" => place'[active] \in DOMAIN Code[active]
    BY <1>1, <1>2, <1>3, <2>2, NextWithin DEF Within, Decoded
  <2> QED
    BY <1>4, <2>1, <2>3 DEF CodeLeft, Within
<1> QED
  BY <1>4, <1>6, <1>7, <1>8

\* The last instruction stops the run of its process, or of everything.
LEMMA ReturnPlace ==
    ASSUME PlaceInv, ExecuteReturn
    PROVE  PlaceInv'
<1>1. CASE active # Target /\ RunNext /\ phase' = "fetch"
  BY <1>1, LeavePlace DEF ExecuteReturn, PlaceInv, TypeOK, profiler
<1>2. CASE active = Target /\ phase' = "stopped" /\ UNCHANGED <<active, pc, savedPc, ready>>
  <2> USE DEF PlaceInv
  <2>1. Decoded /\ active \in Process /\ active # NoProcess
    BY RunLoopAssumption DEF ExecuteReturn, Registers, Decoded
  <2>2. insn.at + 1 \in Nat
    BY <2>1 DEF Decoded, TypeOK
  <2>3. /\ place' \in [Process -> Nat]
        /\ \A p \in Process \ {active} : place'[p] = place[p]
    BY <2>1, <2>2, ExecutedMoves DEF ExecuteReturn
  <2>4. TypeOK'
    BY <1>2, <2>3 DEF TypeOK, ExecuteReturn, profiler
  <2>5. SavedInPlace'
    BY <1>2, <2>3 DEF SavedInPlace
  <2>6. Registers'
    BY <1>2, <2>1 DEF Registers
  <2>7. CodeLeft'
    BY <1>2, <2>3 DEF CodeLeft, Within, TypeOK, ExecuteReturn
  <2> QED BY <2>4, <2>5, <2>6, <2>7
<1> QED
  BY <1>1, <1>2 DEF ExecuteReturn

\* Every instruction leaves everybody at its place.
LEMMA ExecutePlace ==
    ASSUME PlaceInv,
           \/ ExecuteInFrame \/ JumpBack \/ LeaveLoop \/ JumpAgain
           \/ ExecuteSleep \/ ExecuteReturn \/ ExecuteProfiler \/ ProfilerDone
    PROVE  PlaceInv'
<1>0. TypeOK /\ Registers
  BY DEF PlaceInv
<1>1. CASE ExecuteInFrame
  <2>1. /\ sampling' \in BOOLEAN /\ sampleDue' \in BOOLEAN /\ halt' \in BOOLEAN
        /\ ticker' \in {"none", "asleep", "awake", "raising"}
    <3>1. CASE SampleHere
      BY <1>0, <3>1 DEF TypeOK, SampleHere
    <3>2. CASE UNCHANGED profiler
      BY <1>0, <3>2 DEF TypeOK, profiler
    <3> QED BY <1>1, <3>1, <3>2 DEF ExecuteInFrame
  <2>2. armed' \in BOOLEAN /\ phase = "execute" /\ insn.op # "ret"
    BY <1>0, <1>1 DEF TypeOK, ExecuteInFrame
  <2> QED
    BY <1>1, <2>1, <2>2, InFramePlace DEF ExecuteInFrame
<1>2. CASE JumpBack
  BY <1>2, JumpBackPlace
<1>3. CASE LeaveLoop
  BY <1>0, <1>3, InFramePlace DEF LeaveLoop, TypeOK, profiler
<1>4. CASE JumpAgain
  BY <1>4, JumpAgainPlace
<1>5. CASE ExecuteSleep
  <2>1. /\ sampling' \in BOOLEAN /\ sampleDue' \in BOOLEAN /\ halt' \in BOOLEAN
        /\ ticker' \in {"none", "asleep", "awake", "raising"}
    BY <1>0, <1>5 DEF TypeOK, ExecuteSleep, SampleHere
  <2> QED
    BY <1>5, <2>1, LeavePlace DEF ExecuteSleep, Done
<1>6. CASE ExecuteReturn
  BY <1>6, ReturnPlace
<1>7. CASE ExecuteProfiler
  <2> USE DEF PlaceInv
  <2>1. TypeOK'
    BY <1>0, <1>7 DEF TypeOK, ExecuteProfiler
  <2>2. Decoded'
    BY <1>0, <1>7 DEF Registers, Decoded, ExecuteProfiler
  <2>3. Registers'
    BY <1>0, <1>7, <2>2 DEF Registers, ExecuteProfiler
  <2>4. SavedInPlace' /\ CodeLeft'
    BY <1>0, <1>7 DEF SavedInPlace, CodeLeft, Within, ExecuteProfiler
  <2> QED BY <2>1, <2>3, <2>4
<1>8. CASE ProfilerDone
  <2>1. /\ sampling' \in BOOLEAN /\ sampleDue' \in BOOLEAN /\ halt' \in BOOLEAN
        /\ ticker' \in {"none", "asleep", "awake", "raising"}
    BY <1>0, <1>8 DEF TypeOK, ProfilerDone
  <2>2. phase = "join" /\ insn.op # "ret" /\ armed' \in BOOLEAN
    BY <1>0, <1>8 DEF TypeOK, Registers, ProfilerDone, Joined
  <2> QED
    BY <1>8, <2>1, <2>2, InFramePlace DEF ProfilerDone
<1> QED
  BY <1>1, <1>2, <1>3, <1>4, <1>5, <1>6, <1>7, <1>8

\* A poll that services nothing yet.
LEMMA PollPlace ==
    ASSUME PlaceInv, PollUnarmed \/ PollArmed
    PROVE  PlaceInv'
<1> USE DEF PlaceInv
<1>1. TypeOK'
  BY DEF TypeOK, PollUnarmed, PollArmed, AfterPoll, profiler
<1>2. UNCHANGED <<active, pc, savedPc, insn, ready, asleep, place>>
  BY DEF PollUnarmed, PollArmed
<1>3. phase = "poll"
      /\ (phase' = "service" \/ phase' = IF insn = NoInsn THEN "fetch" ELSE "execute")
  BY DEF PollUnarmed, PollArmed, AfterPoll
<1>4. Registers'
  BY <1>2, <1>3 DEF Registers, AtPlace, Decoded
<1>5. SavedInPlace' /\ CodeLeft'
  BY <1>2, <1>3 DEF SavedInPlace, CodeLeft, Within
<1> QED
  BY <1>1, <1>4, <1>5

\* The service switches after a jump, and not before a send.
LEMMA ServicePlace ==
    ASSUME PlaceInv, Service
    PROVE  PlaceInv'
<1> USE DEF PlaceInv
<1>0. /\ active \in Process /\ active # NoProcess
      /\ ready \cup due \subseteq Process \ {active}
      /\ Pending \subseteq asleep /\ armed' \in BOOLEAN
  BY DEF Service, Registers, TypeOK, Pending
<1>1. CASE /\ MustPreempt
           /\ \E p \in Top(ready \cup due) :
                 /\ TransferTo(p)
                 /\ ready' = (ready \cup due \cup {active}) \ {p}
  <2>1. PICK p \in Top(ready \cup due) :
           /\ TransferTo(p)
           /\ ready' = (ready \cup due \cup {active}) \ {p}
    BY <1>1
  <2>2. p \in ready \cup due /\ p \in Process \ {active}
    BY <1>0, TopSubset
  <2>3. insn = NoInsn
    <3>1. PICK q \in ready \cup due : Priority[q] > Priority[active]
      BY <1>1 DEF MustPreempt
    <3>2. q \in Process /\ Priority[q] \in Nat /\ Priority[active] \in Nat
      BY <1>0, RunLoopAssumption
    <3>3. ~(Priority[q] <= Priority[active])
      BY <3>1, <3>2
    <3>4. active \notin Top(Process)
      BY <3>2, <3>3 DEF Top
    <3> QED
      BY <3>4 DEF Service, Registers
  <2>4. pc = place[active]
    BY <1>0, <2>3 DEF Service, Registers, AtPlace
  <2>5. place' = place /\ insn' = NoInsn /\ phase' = "fetch"
    BY <2>3 DEF Service, AfterPoll
  <2>6. /\ SavedInPlace'
        /\ active' = p /\ pc' = place'[p] /\ pc' \in Nat
        /\ savedPc' \in [Process -> Nat]
    BY <2>1, <2>2, <2>4, <2>5, SwitchKeeps DEF TypeOK
  <2>7. asleep' = Pending /\ due' = {} /\ UNCHANGED profiler
    BY DEF Service
  <2>8. p \notin Pending
    BY <2>2 DEF Pending, TypeOK
  <2>9. TypeOK'
    BY <1>0, <2>1, <2>2, <2>5, <2>6, <2>7, <2>8 DEF TypeOK, Pending, profiler
  <2>10. Registers'
    BY <2>5, <2>6 DEF Registers, AtPlace
  <2>11. CodeLeft'
    BY <1>0, <2>1, <2>2, <2>5, <2>6, <2>7 DEF CodeLeft, Within, TypeOK, Service
  <2> QED BY <2>6, <2>9, <2>10, <2>11
<1>2. CASE /\ ready' = ready \cup due
           /\ UNCHANGED <<active, pc, savedPc>>
  <2>1. TypeOK'
    BY <1>0, <1>2 DEF Service, TypeOK, Pending, AfterPoll, profiler
  <2>2. Registers'
    BY <1>2 DEF Service, Registers, AtPlace, Decoded, AfterPoll
  <2>3. SavedInPlace' /\ CodeLeft'
    BY <1>0, <1>2 DEF Service, SavedInPlace, CodeLeft, Within, TypeOK
  <2> QED BY <2>1, <2>2, <2>3
<1> QED
  BY <1>1, <1>2 DEF Service

\* Waking up is a switch from nobody.
LEMMA WakePlace ==
    ASSUME PlaceInv, WakeFromIdle
    PROVE  PlaceInv'
<1> USE DEF PlaceInv
<1>1. PICK p \in Top(ready \cup due) :
         TransferTo(p) /\ ready' = (ready \cup due) \ {p}
  BY DEF WakeFromIdle
<1>2. p \in ready \cup due /\ p \in Process \ {active}
  BY <1>1, TopSubset DEF TypeOK
<1>3. place' = place /\ insn' = insn /\ phase' = phase /\ active = NoProcess
  BY DEF WakeFromIdle
<1>4. /\ SavedInPlace'
      /\ active' = p /\ pc' = place'[p] /\ pc' \in Nat
      /\ savedPc' \in [Process -> Nat]
  BY <1>1, <1>2, <1>3, SwitchKeeps DEF TypeOK
<1>5. phase = "fetch"
  BY <1>3, RunLoopAssumption DEF Registers, Decoded, TypeOK
<1>6. TypeOK'
  BY <1>1, <1>2, <1>3, <1>4 DEF TypeOK, WakeFromIdle, Pending, profiler
<1>7. Registers'
  BY <1>3, <1>4, <1>5 DEF Registers, AtPlace
<1>8. CodeLeft'
  BY <1>1, <1>2, <1>3, <1>4 DEF CodeLeft, Within, TypeOK, WakeFromIdle, Pending
<1> QED
  BY <1>4, <1>6, <1>7, <1>8

\* The clock, and the profiler's thread, touch no registers.
LEMMA BesidePlace ==
    ASSUME PlaceInv,
           \/ \E p \in Process : Expire(p)
           \/ TickerWakes \/ TickerRaise \/ TickerArm
           \/ UNCHANGED vars
    PROVE  PlaceInv'
<1> USE DEF PlaceInv
<1>1. UNCHANGED <<active, phase, pc, savedPc, insn, ready, asleep, place>>
  BY DEF Expire, TickerWakes, TickerRaise, TickerArm, vars
<1>2. TypeOK'
  <2>1. CASE \E p \in Process : Expire(p)
    BY <2>1 DEF TypeOK, Expire, profiler
  <2>2. CASE TickerWakes \/ TickerRaise \/ TickerArm
    BY <2>2 DEF TypeOK, TickerWakes, TickerRaise, TickerArm
  <2>3. CASE UNCHANGED vars
    BY <2>3 DEF TypeOK, vars, profiler
  <2> QED BY <2>1, <2>2, <2>3
<1>3. Registers' /\ SavedInPlace' /\ CodeLeft'
  BY <1>1 DEF Registers, AtPlace, Decoded, SavedInPlace, CodeLeft, Within
<1> QED
  BY <1>2, <1>3

\* The inductive invariant of the loop: every register and slot holds the place
\* of its process.
THEOREM PlaceInvHolds ==
    ASSUME OnlyTopSends
    PROVE  Spec => []PlaceInv
<1>1. PlaceInv /\ [Next]_vars => PlaceInv'
  <2> SUFFICES ASSUME PlaceInv, [Next]_vars
               PROVE  PlaceInv'
    OBVIOUS
  <2>1. CASE Next
    BY <2>1, FetchPlace, ExecutePlace, PollPlace, ServicePlace, WakePlace, BesidePlace
       DEF Next, Stopped
  <2>2. CASE UNCHANGED vars
    BY <2>2, BesidePlace
  <2> QED BY <2>1, <2>2
<1> QED
  BY PlaceInit, <1>1, PTL DEF Spec

\* The variables of the loop keep their types, for programs whose sends are not
\* interrupted.
THEOREM TypeCorrect ==
    ASSUME OnlyTopSends
    PROVE  Spec => []TypeOK
<1>1. PlaceInv => TypeOK
  BY DEF PlaceInv
<1> QED
  BY <1>1, PlaceInvHolds, PTL

\* Whatever instruction is executed is the next one of the active process, in
\* its frame (run_rooted and poll_safepoint), unless a send is interrupted.
THEOREM OwnInstructionHolds ==
    ASSUME OnlyTopSends
    PROVE  Spec => []OwnInstruction
<1>1. PlaceInv => OwnInstruction
  BY DEF PlaceInv, Registers, Decoded, OwnInstruction
<1> QED
  BY <1>1, PlaceInvHolds, PTL

\* The pc slot of a process that is not running is where it goes on
\* (save_regs and transfer_to), unless a send is interrupted.
THEOREM SavedInPlaceHolds ==
    ASSUME OnlyTopSends
    PROVE  Spec => []SavedInPlace
<1>1. PlaceInv => SavedInPlace
  BY DEF PlaceInv
<1> QED
  BY <1>1, PlaceInvHolds, PTL
=============================================================================
