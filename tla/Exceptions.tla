----------------------------- MODULE Exceptions -----------------------------
(***************************************************************************)
(* The stack of one process: non-local return, exceptions, ensure blocks    *)
(* and termination (SPEC sections 10 and 11), the unwinder of src/interp.rs,*)
(* the handler primitives of src/prims.rs and the image code over them in   *)
(* st/kernel/kernel.st.                                                     *)
(*                                                                          *)
(* A frame's offset is its position in the sequence frames; a serial number *)
(* tells an activation from a later one at the same offset.  Kinds:         *)
(*   "code"        a method or block of the program                         *)
(*   "handler"     protectOn:do:, whose receiver runs in the frame above    *)
(*   "ensure", "curtail"   ensure: and ifCurtailed:, likewise               *)
(*   "signal"      Exception>>signal                                        *)
(*   "handling"    a handler block, on top of the signal frame              *)
(*   "signaler"    a method that signals and answers what signal answers:   *)
(*                 pass, cannotReturn:, an unwindTo: that failed            *)
(*   "cleanup"     the block of ensure: or ifCurtailed:                     *)
(*   "trampoline"  pushed by another process to make this one terminate     *)
(* The frame of on:do:, which only loops over protectOn:do:, is left out.   *)
(***************************************************************************)
EXTENDS Naturals, Sequences, SequencesExt

CONSTANTS
    Exception,       \* exception objects
    Class,           \* their classes
    CannotReturn,    \* the class BlockCannotReturn
    Handles,         \* <<class a handler names, class of an exception>>
    Outcomes,        \* what programs send: "return", "resume", "retry", "pass"
    KillScope,       \* when others terminate the process: "never", "settled", "any"
    DeadReturnScope, \* which frames run a ^ with a dead home: "never", "called", "any"
    MaxSerial        \* bound: the program pushes no frame beyond this serial

ASSUME ExceptionsAssumption ==
    /\ Handles \subseteq Class \X Class
    /\ CannotReturn \in Class
    /\ Outcomes \subseteq {"return", "resume", "retry", "pass"}
    /\ KillScope \in {"never", "settled", "any"}
    /\ DeadReturnScope \in {"never", "called", "any"}
    /\ MaxSerial \in Nat \ {0}

VARIABLES
    frames,     \* base frame first
    serial,     \* the process's serial counter
    op,         \* what the VM does next, see Op
    exc         \* per exception: class, signalOff/Serial, handlerOff/Serial

vars == <<frames, serial, op, exc>>

Kind == {"code", "handler", "ensure", "curtail", "signal", "handling", "signaler",
         "cleanup", "trampoline"}

\* The frame at off with that serial, and the value it is going to return:
\* anything, or the token that makes on:do: start over.
Target == [off : Nat, serial : Nat, value : {"any", "retry"}]

At(off, s) == [off |-> off, serial |-> s, value |-> "any"]

Nowhere == At(0, 0)

\* slot: the handler state, or what is left of the ensure block; of: the
\* exception, or the class of a handler; for: of a handler block, the serial of
\* its handler frame; cont: the unwind-continuation flag; pending: the unwind
\* an ensure frame holds.  ran is history: the frame's block has been started.
FrameType ==
    [kind : Kind, serial : Nat, slot : {"none", "armed", "running", "taken", "nil"},
     of : Exception \cup Class \cup {"none"}, for : Nat, cont : BOOLEAN,
     pending : Target, ran : BOOLEAN]

\* "run": bytecode of the top frame; "unwind": unwind_and_return_from;
\* "return": do_return; "ended": the base frame returned; "fatal": VmError.
Op == [do : {"run", "unwind", "return", "ended", "fatal"}, to : Target]

\* Types, and the numbering of frames: a frame is younger than those below it
\* (bump_serial in push_frame, interp.rs), which is what lets a serial tell a
\* dead activation from a live one at its offset.
TypeOK ==
    /\ frames \in Seq(FrameType)
    /\ serial \in Nat
    /\ op \in Op
    /\ exc \in [Exception -> [class : Class, signal : Target, handler : Target]]
    /\ \A i \in DOMAIN frames : frames[i].serial <= serial
    /\ \A i \in 1..(Len(frames) - 1) : frames[i].serial < frames[i + 1].serial

-----------------------------------------------------------------------------
Top == Last(frames)

Frame(k) == [kind |-> k, serial |-> 0, slot |-> "none", of |-> "none", for |-> 0,
             cont |-> FALSE, pending |-> Nowhere, ran |-> FALSE]

Run == [do |-> "run", to |-> Nowhere]

Executing == op.do = "run"

ProgramRuns == Executing /\ Top.kind \in {"code", "handling", "cleanup"}

\* Mutant of Numbered: frames pushed together share one serial.
NumberedAlike(fs) == [i \in DOMAIN fs |-> [fs[i] EXCEPT !.serial = serial + 1]]

\* bump_serial for each of them
Numbered(fs) == [i \in DOMAIN fs |-> [fs[i] EXCEPT !.serial = serial + i]]

\* push_frame of one or more frames on the stack s
PushOn(s, fs) ==
    /\ frames' = s \o Numbered(fs)
    /\ serial' = serial + Len(fs)

RoomFor(n) == serial + n <= MaxSerial

\* Mutant of Live: any activation at that offset will do.
LiveOffset(t) == t.off \in DOMAIN frames

\* The frame at that offset is still the one the serial was read from.
Live(t) == t.off \in DOMAIN frames /\ frames[t.off].serial = t.serial

-----------------------------------------------------------------------------
(* Calls, on:do:, ensure: and returns.                                      *)

Call ==
    /\ ProgramRuns /\ RoomFor(1)
    /\ PushOn(frames, <<Frame("code")>>)
    /\ UNCHANGED <<op, exc>>

\* protectOn:do: has armed its frame and evaluates the receiver.
Protected(c) ==
    << [Frame("handler") EXCEPT !.slot = "armed", !.of = c], Frame("code") >>

OnDo(c) ==
    /\ ProgramRuns /\ RoomFor(2)
    /\ PushOn(frames, Protected(c))
    /\ UNCHANGED <<op, exc>>

\* ensure: and ifCurtailed:, up to the evaluation of the receiver
Guard(k) ==
    /\ ProgramRuns /\ RoomFor(2)
    /\ PushOn(frames, << [Frame(k) EXCEPT !.slot = "armed"], Frame("code") >>)
    /\ UNCHANGED <<op, exc>>

\* The receiver of ensure: has completed: runNow := eBlock. eBlock := nil.
TakeBlock ==
    /\ Executing /\ Top.kind = "ensure" /\ Top.slot = "armed"
    /\ frames' = [frames EXCEPT ![Len(frames)].slot = "taken"]
    /\ UNCHANGED <<serial, op, exc>>

\* runNow value, a send later
RunTaken ==
    /\ Executing /\ Top.kind = "ensure" /\ Top.slot = "taken"
    /\ PushOn([frames EXCEPT ![Len(frames)].slot = "nil", ![Len(frames)].ran = TRUE],
              <<Frame("cleanup")>>)
    /\ UNCHANGED <<op, exc>>

\* The top frame comes to a RET; ifCurtailed: drops its block before it.
Return ==
    /\ Executing
    /\ \/ Top.kind \in {"code", "handling", "cleanup", "handler", "curtail", "signaler"}
       \/ Top.kind \in {"ensure", "signal"} /\ Top.slot = "nil"
    /\ op' = [op EXCEPT !.do = "return"]
    /\ UNCHANGED <<frames, serial, exc>>

-----------------------------------------------------------------------------
(* The unwinder.                                                            *)

UnwindTo(t) == op' = [do |-> "unwind", to |-> t]

\* The bottom of the stack (STACK_FRAMES_BASE)
Base == At(1, frames[1].serial)

\* do_return; from an unwind-continuation frame, continue_unwind_after_ensure.
\* on:do: starts over when protectOn:do: answers the retry token.
DoReturn ==
    /\ op.do = "return"
    /\ \/ /\ Top.cont
          /\ LET t == Last(Front(frames)).pending
             IN  op' = [do |-> IF Live(t) THEN "unwind" ELSE "fatal", to |-> t]
          /\ frames' = Front(frames)
          /\ UNCHANGED serial
       \/ /\ ~Top.cont /\ Len(frames) = 1
          /\ op' = [Run EXCEPT !.do = "ended"]
          /\ UNCHANGED <<frames, serial>>
       \/ /\ ~Top.cont /\ Len(frames) > 1
          /\ IF Top.kind = "handler" /\ op.to.value = "retry"
             THEN PushOn(Front(frames), Protected(Top.of))
             ELSE frames' = Front(frames) /\ UNCHANGED serial
          /\ op' = Run
    /\ UNCHANGED exc

\* Mutant of BlockAfterUnwind: the block stays in its slot while it runs.
BlockKept == "armed"

BlockAfterUnwind == "nil"

\* Mutant of MustClean: ifCurtailed: is taken for an ordinary frame.
CleanEnsureOnly == Top.kind = "ensure" /\ Top.slot = "armed"

\* A has-ensure frame that still has its block
MustClean == Top.kind \in {"ensure", "curtail"} /\ Top.slot = "armed"

\* run_ensure_block_then_continue: the unwind is put off in the ensure frame.
CleanFirst ==
    /\ PushOn([frames EXCEPT ![Len(frames)].slot = BlockAfterUnwind,
                             ![Len(frames)].ran = TRUE,
                             ![Len(frames)].pending =
                                 [op.to EXCEPT !.serial = frames[op.to.off].serial]],
              << [Frame("cleanup") EXCEPT !.cont = TRUE] >>)
    /\ op' = Run

\* One turn of the loop in unwind_and_return_from: the target returns, a frame
\* with an ensure block runs it, any other is popped.
Unwind ==
    /\ op.do = "unwind"
    /\ \/ /\ Len(frames) <= op.to.off
          /\ op' = [op EXCEPT !.do = IF Len(frames) = op.to.off THEN "return" ELSE "fatal"]
          /\ UNCHANGED <<frames, serial>>
       \/ Len(frames) > op.to.off /\ MustClean /\ CleanFirst
       \/ /\ Len(frames) > op.to.off /\ ~MustClean
          /\ frames' = Front(frames)
          /\ UNCHANGED <<serial, op>>
    /\ UNCHANGED exc

-----------------------------------------------------------------------------
(* Exceptions.                                                              *)

\* Mutant of Searched: a handler whose block is running is found again.
SearchedAgain(f) == f.kind = "handler"

\* findHandlerFor:from: skips handlers that are in progress.
Searched(f) == f.kind = "handler" /\ f.slot = "armed"

Candidates(s, c) == {i \in DOMAIN s : Searched(s[i]) /\ <<s[i].of, c>> \in Handles}

\* Mutant of SignalContext: the frame that sent signal.
SenderContext(s, by) ==
    LET under == s \o Numbered(by)
    IN  At(Len(under), Last(under).serial)

\* signalContext, sent by the signal frame that comes on top of s and by
SignalContext(s, by) == At(Len(s) + Len(by) + 1, serial + Len(by) + 1)

\* An exception no frame refers to
Fresh(e) == \A i \in DOMAIN frames : frames[i].of # e

\* Exception>>signal of e on the stack s, sent by its top or by the method "by"
\* on it: the handler block starts, or noHandler terminates the process.
SignalOn(s, by, e, c) ==
    LET found == Candidates(s, c)
    IN  \/ \E h \in found :
              /\ \A i \in found : i <= h
              /\ exc' = [exc EXCEPT ![e] =
                    [class |-> c, signal |-> SignalContext(s, by),
                     handler |-> At(h, s[h].serial)]]
              /\ PushOn([s EXCEPT ![h].slot = "running"],
                    by \o << [Frame("signal") EXCEPT !.of = e],
                             [Frame("handling") EXCEPT !.of = e, !.for = s[h].serial] >>)
              /\ UNCHANGED op
        \/ /\ found = {}
           /\ exc' = [exc EXCEPT ![e].class = c, ![e].signal = SignalContext(s, by)]
           /\ PushOn(s, by \o << [Frame("signal") EXCEPT !.of = e] >>)
           /\ UnwindTo(Base)

Signal(e, c) ==
    /\ ProgramRuns /\ RoomFor(2) /\ Fresh(e)
    /\ SignalOn(frames, <<>>, e, c)

\* A method on the stack s signals BlockCannotReturn.
SignalCannotReturn(s) ==
    \E e \in Exception : Fresh(e) /\ SignalOn(s, <<Frame("signaler")>>, e, CannotReturn)

\* unwindTo:serial:return:, sent by the top of s; it signals if t is dead.
PrimUnwindTo(s, t) ==
    IF Live(t)
    THEN UnwindTo(t) /\ frames' = s /\ UNCHANGED <<serial, exc>>
    ELSE SignalCannotReturn(s)

\* The handler block has answered its value, and signal returns it.
FallOff ==
    /\ Executing /\ Top.kind = "signal" /\ Top.slot = "none"
    /\ PrimUnwindTo([frames EXCEPT ![Len(frames)].slot = "nil"], exc[Top.of].handler)

\* What return:, resume: and retry unwind to
Goal(e, outcome) ==
    CASE outcome = "return" -> exc[e].handler
      [] outcome = "resume" -> exc[e].signal
      [] outcome = "retry"  -> [exc[e].handler EXCEPT !.value = "retry"]

\* A handler block, or any code the exception has come to, then or later,
\* decides: by an unwind, or by pass, which signals the exception again.
Decide(e, outcome) ==
    /\ ProgramRuns /\ RoomFor(2) /\ exc[e].signal # Nowhere
    /\ IF outcome = "pass"
       THEN SignalOn(frames, <<Frame("signaler")>>, e, exc[e].class)
       ELSE PrimUnwindTo(frames, Goal(e, outcome))

-----------------------------------------------------------------------------
(* Non-local return and termination.                                        *)

\* The homes a running block can have: a live method activation, or a dead one.
Homes == {At(i, frames[i].serial) : i \in {j \in DOMAIN frames : frames[j].kind = "code"}}
             \cup {Nowhere}

\* do_nlr.  With a dead home, the send of cannotReturn: takes the block's place
\* in its caller.  A base frame has no caller; and an ensure frame that was
\* entered by the unwinder has no instruction to send it from, since regs.pc is
\* still that of the frame the unwind started in.
NonLocalReturn(home) ==
    /\ ProgramRuns
    /\ \/ /\ Live(home)
          /\ UnwindTo(home)
          /\ UNCHANGED <<frames, serial, exc>>
       \/ /\ ~Live(home) /\ DeadReturnScope # "never" /\ Len(frames) > 1 /\ ~Top.cont
          /\ RoomFor(2)
          /\ SignalCannotReturn(Front(frames))
       \/ /\ ~Live(home) /\ DeadReturnScope = "any" /\ (Len(frames) = 1 \/ Top.cont)
          /\ op' = [op EXCEPT !.do = "fatal"]
          /\ UNCHANGED <<frames, serial, exc>>

\* finish_terminate_other, by another process while this one is switched out
Kill ==
    /\ Executing /\ RoomFor(1)
    /\ \/ KillScope = "any"
       \/ KillScope = "settled" /\ Top.slot # "taken"
    /\ PushOn(frames, <<Frame("trampoline")>>)
    /\ UNCHANGED <<op, exc>>

\* Process>>terminate of itself, by the program or by the trampoline
Terminate ==
    /\ ProgramRuns \/ (Executing /\ Top.kind = "trampoline")
    /\ UnwindTo(Base)
    /\ UNCHANGED <<frames, serial, exc>>

Ended ==
    /\ op.do \in {"ended", "fatal"}
    /\ UNCHANGED vars

-----------------------------------------------------------------------------
Init ==
    /\ frames = << [Frame("code") EXCEPT !.serial = 1] >>
    /\ serial = 1
    /\ op = Run
    /\ exc = [e \in Exception |->
                [class |-> CannotReturn, signal |-> Nowhere, handler |-> Nowhere]]

Next ==
    \/ Call
    \/ \E c \in Class : OnDo(c)
    \/ \E k \in {"ensure", "curtail"} : Guard(k)
    \/ TakeBlock
    \/ RunTaken
    \/ Return
    \/ DoReturn
    \/ Unwind
    \/ \E e \in Exception, c \in Class : Signal(e, c)
    \/ FallOff
    \/ \E e \in Exception, o \in Outcomes : Decide(e, o)
    \/ \E home \in Homes : NonLocalReturn(home)
    \/ Kill
    \/ Terminate
    \/ Ended

Spec == Init /\ [][Next]_vars

-----------------------------------------------------------------------------
(* Properties.                                                              *)

\* The block of an ensure: or ifCurtailed: frame is started at most once: by
\* normal completion or by one unwind, however many pass through the frame and
\* whatever its block does (the slot is emptied first, kernel.st and interp.rs).
EnsureRunsOnce ==
    [][Len(frames') > Len(frames) /\ Last(frames').kind = "cleanup" => ~Top.ran]_vars

\* No ensure: frame goes away before its block was started, and an unwind takes
\* no ifCurtailed: frame away before its block was: with non-local returns,
\* handlers and terminations crossing it in any order.
EnsureNotSkipped ==
    [][\A i \in DOMAIN frames :
          /\ frames[i].kind \in {"ensure", "curtail"} /\ ~frames[i].ran
          /\ \A j \in DOMAIN frames' : frames'[j].serial # frames[i].serial
          => frames[i].kind = "curtail" /\ op.do = "return"]_vars

\* A handler whose block runs is skipped by the search: no two handler blocks
\* of one handler frame are on the stack.
HandlerNotReentered ==
    \A i, j \in DOMAIN frames :
        frames[i].kind = "handling" /\ frames[j].kind = "handling"
            /\ frames[i].for = frames[j].for => i = j

\* While a handler block runs, its exception names the signal frame beneath it
\* and the handler frame the block belongs to, both still on the stack: resume:,
\* return: and the end of the block cannot reach another activation.
ExceptionIsCurrent ==
    \A i \in DOMAIN frames :
        frames[i].kind = "handling" =>
            LET x == exc[frames[i].of]
            IN  /\ x.signal = At(i - 1, frames[i - 1].serial)
                /\ x.handler.serial = frames[i].for
                /\ \E h \in 1..(i - 1) : x.handler = At(h, frames[h].serial)

\* An unwind, also one that was put off while ensure blocks ran and themselves
\* unwound, has its target on the stack, the same activation it was begun for;
\* no path of unwinds ends in a fatal error of the VM.
UnwindsArrive ==
    /\ op.do # "fatal"
    /\ op.do = "unwind" => /\ op.to.off \in DOMAIN frames
                           /\ frames[op.to.off].serial = op.to.serial

\* A handler is in progress only while the signal it answers is: the state is
\* there for exceptions raised within the handler block to be skipped (SPEC
\* section 11).  The ensure blocks of an unwind to the handler are left out.
InProgressOnlyWithin ==
    \A i \in DOMAIN frames :
        frames[i].slot = "running" /\ Executing /\ (\A j \in DOMAIN frames : ~frames[j].cont)
        =>  \E j \in DOMAIN frames :
                /\ frames[j].kind = "signal"
                /\ exc[frames[j].of].handler = At(i, frames[i].serial)

\* Falling off a handler block answers its value from the on:do: it belongs to
\* (SPEC section 11).
FallsOffToItsHandler ==
    [][Top.kind = "handling" /\ op.do = "return" =>
          exc[Top.of].handler.serial = Top.for]_vars
=============================================================================
