-------------------------------- MODULE Heap --------------------------------
(***************************************************************************)
(* The generational collector (gc.rs), the write barrier and its exemption *)
(* for the running stack (vm.rs, interp.rs), and the code that relies on   *)
(* both: allocation, context switches, stack growth, terminating another   *)
(* process, snapshots, and what native code keeps in a local variable over  *)
(* an allocation.                                                          *)
(*                                                                         *)
(* An object keeps its name when it moves. What a move can break is kept   *)
(* instead: a slot that a collection should have rewritten and did not     *)
(* leaves its object in torn. Sizes, ages and addresses are left out: a    *)
(* survivor may or may not be tenured, and an allocation may succeed at    *)
(* once, after a scavenge, or after a compaction.                          *)
(***************************************************************************)
EXTENDS FiniteSets

CONSTANTS
    Root,     \* what the root vectors name: scheduler, run queues, globals
    Process,
    Stack,
    Data,     \* any other object with pointer slots
    Main,     \* the process the VM was started for
    HeldMoves \* may a collection move what is only held in a local variable?

Mortal == Process \cup Stack \cup Data
Object == {Root} \cup Mortal

ASSUME HeapAssumption ==
    /\ IsFiniteSet(Object)
    /\ Main \in Process /\ HeldMoves \in BOOLEAN
    /\ Root \notin Mortal
    /\ Process \cap Stack = {} /\ Process \cap Data = {} /\ Stack \cap Data = {}

VARIABLES
    space,    \* where an object is
    refs,     \* the objects its slots name
    torn,     \* the objects with a slot that names a place no object is at
    ssb,      \* the objects of the remembered set
    active    \* the active process

vars == <<space, refs, torn, ssb, active>>

TypeOK ==
    /\ space \in [Object -> {"free", "young", "old"}]
    /\ refs \in [Object -> SUBSET Object]
    /\ torn \subseteq Object
    /\ ssb \subseteq {o \in Object : space[o] = "old"}
    /\ active \in Process

-----------------------------------------------------------------------------
(* One value of the heap, because an operation applies several of these in a row. *)

Heap == [space |-> space, refs |-> refs, torn |-> torn, ssb |-> ssb]

In(h, where) == {o \in Object : h.space[o] = where}
Named(h, S) == UNION {h.refs[o] : o \in S}
StackOf(h, p) == h.refs[p] \cap Stack

\* What of universe U is reached from S along slots inside U.
Reached(h, S, U) ==
    LET from[C \in SUBSET U] ==
            LET more == C \cup (Named(h, C) \cap U) IN IF more = C THEN C ELSE from[more]
    IN from[S \cap U]

\* The roots: Vm::run keeps the process it was called for in temp_roots.
Roots == {Root, Main, active}

Live(h, R) == Reached(h, R \cup Roots, Object \ In(h, "free"))

\* The next heap is h. What neither roots (Root names the active process) nor
\* the remembered set lead to is not looked at again: it is free from then on.
Becomes(h) ==
    LET kept == Reached(h, {Root, Main} \cup h.ssb, Object \ In(h, "free")) IN
    /\ space' = [o \in Object |-> IF o \in kept THEN h.space[o] ELSE "free"]
    /\ refs' = [o \in Object |-> IF o \in kept THEN h.refs[o] ELSE {}]
    /\ torn' = h.torn \cap kept
    /\ ssb' = h.ssb

-----------------------------------------------------------------------------
(* Collections.                                                            *)

\* Mutant of Scanned: the running stack is read only when it is remembered.
ScannedRemembered(h) == h.ssb

\* The objects a scavenge reads whatever space they are in.
Scanned(h) == h.ssb \cup StackOf(h, active)

Survivors(h, R) ==
    Reached(h, R \cup Roots \cup StackOf(h, active) \cup Named(h, Scanned(h)), In(h, "young"))

\* collect_young, with temporary roots R, where the survivors in T are tenured.
\* An old object that is not read keeps its slots as they are, though what they
\* name goes; but the slot with the active process's stack is corrected.
Scavenged(h, live, T) ==
    LET young == In(h, "young")
        dead == young \ live
        unread == In(h, "old") \ Scanned(h)
        missed == [o \in unread |-> (h.refs[o] \cap young) \ (IF o = active THEN StackOf(h, o) ELSE {})]
        place == [o \in Object |-> IF o \in T THEN "old" ELSE IF o \in dead THEN "free" ELSE h.space[o]]
        slots == [o \in Object |-> IF o \in dead THEN {}
                                   ELSE IF o \in unread THEN h.refs[o] \ missed[o]
                                   ELSE h.refs[o]]
        recheck == h.ssb \cup T \cup StackOf(h, active)
    IN [space |-> place,
        refs |-> slots,
        torn |-> (h.torn \ dead) \cup {o \in unread : missed[o] # {}},
        ssb |-> {o \in recheck : place[o] = "old" /\ \E x \in slots[o] : place[x] = "young"}]

\* The part of collect_old that follows the scavenge. A young object that is
\* not marked is not corrected when what it names moves.
Slid(h, R) ==
    LET live == Live(h, R)
        dead == In(h, "old") \ live
        astray == {o \in In(h, "young") \ live : h.refs[o] \cap In(h, "old") # {}}
        slots == [o \in Object |-> IF o \in dead THEN {}
                                   ELSE IF o \in astray THEN h.refs[o] \ In(h, "old")
                                   ELSE h.refs[o]]
    IN [space |-> [o \in Object |-> IF o \in dead THEN "free" ELSE h.space[o]],
        refs |-> slots,
        torn |-> (h.torn \ dead) \cup astray,
        ssb |-> {o \in In(h, "old") \cap live : slots[o] \cap In(h, "young") # {}}]

\* Mutant of Compactions: the remembered set is not rebuilt after the slide.
SlidOnly(h, R) ==
    LET Stale(s) == [Slid(s, R) EXCEPT !.ssb = s.ssb]
    IN {Stale(Scavenged(h, Survivors(h, R), T)) : T \in SUBSET Survivors(h, R)}

Scavenges(h, R) ==
    LET live == Survivors(h, R) IN {Scavenged(h, live, T) : T \in SUBSET live}

Compactions(h, R) == {Slid(s, R) : s \in Scavenges(h, R)}

\* alloc_gc: the heap in which the allocation succeeds. The scavenge before a
\* compaction is its own: two in a row tenure what one may.
AllocGc(h, R) == {h} \cup Scavenges(h, R) \cup Compactions(h, R)

\* The same by what it came to, for who keeps an object in a local variable.
Collection == {"none", "scavenge", "compaction"}
After(how) ==
    CASE how = "none"       -> {Heap}
      [] how = "scavenge"   -> Scavenges(Heap, {})
      [] how = "compaction" -> Compactions(Heap, {})

\* Whether a local variable with x, which no collection corrects, is stale: a
\* scavenge moves what is young, the slide what lies behind a gap.
Stale(x, how) ==
    {b \in BOOLEAN :
        /\ b => HeldMoves /\ x # Root /\ how # "none"
        /\ how = "scavenge" => b = (space[x] = "young")
        /\ how = "compaction" /\ space[x] = "young" => b}

-----------------------------------------------------------------------------
(* Stores.                                                                 *)

SetSlotRaw(h, o, x) == [h EXCEPT !.refs[o] = @ \cup {x}]

WriteBarrier(h, o, x) ==
    IF h.space[x] = "young" /\ h.space[o] = "old" THEN [h EXCEPT !.ssb = @ \cup {o}] ELSE h

StoreSlot(h, o, x) == WriteBarrier(SetSlotRaw(h, o, x), o, x)

\* What a local variable holds is stored; that an object names Root tells nothing.
SetSlotHeld(h, o, x, stale) ==
    IF stale THEN [h EXCEPT !.torn = @ \cup {o}]
    ELSE IF x = Root THEN h ELSE SetSlotRaw(h, o, x)

\* A new object in a free place.
Placed(h, o, where, slots) == [h EXCEPT !.space[o] = where, !.refs[o] = slots]

\* The stack slot of a process gets another stack.
SetStack(h, p, s) == StoreSlot([h EXCEPT !.refs[p] = @ \ Stack], p, s)

\* Mutant of RememberStack: nothing makes up for the stores that went unseen.
ForgetStack(h, s) == h

\* A stack that may name young objects and is not the running one.
RememberStack(h, s) == IF h.space[s] = "old" THEN [h EXCEPT !.ssb = @ \cup {s}] ELSE h

-----------------------------------------------------------------------------
(* Bytecode of the active process, on what its frames name.                *)

RunningStack == CHOOSE s \in Stack : s \in refs[active]
Locals == refs[RunningStack]
InHand == {Root} \cup (Locals \cap Data)

InitWith(s) ==
    /\ space = [o \in Object |-> IF o = Root THEN "old" ELSE IF o \in {Main, s} THEN "young" ELSE "free"]
    /\ refs = [o \in Object |-> CASE o = Root -> {Main} [] o = Main -> {s} [] o = s -> {Main} [] OTHER -> {}]
    /\ torn = {}
    /\ ssb = {Root}
    /\ active = Main

Init == \E s \in Stack : InitWith(s)

\* A slot is read into a register: the stores of the running process into its
\* own stack pass no barrier.
Load(o, x) ==
    /\ o \in InHand /\ x \in refs[o] /\ x \notin Locals
    /\ Becomes(SetSlotRaw(Heap, RunningStack, x))
    /\ UNCHANGED active

\* A register is overwritten. A stack keeps naming the process it belongs to.
Drop(x) ==
    /\ x \in Locals \ {active}
    /\ Becomes([Heap EXCEPT !.refs[RunningStack] = @ \ {x}])
    /\ UNCHANGED active

Store(o, x) ==
    /\ o \in InHand /\ x \in Locals \ (refs[o] \cup {o})
    /\ Becomes(StoreSlot(Heap, o, x))
    /\ UNCHANGED active

\* nil is stored over a slot; the scheduler keeps naming the active process.
Clear(o, x) ==
    /\ o \in InHand /\ x \in refs[o] /\ <<o, x>> # <<Root, active>>
    /\ Becomes([Heap EXCEPT !.refs[o] = @ \ {x}])
    /\ UNCHANGED active

\* An object is made: a large one in old space.
New(kind, where) ==
    /\ kind = Process => where = "young"
    /\ \E h \in AllocGc(Heap, {}) : \E o \in kind \cap In(h, "free") :
          Becomes(SetSlotRaw(Placed(h, o, where, {}), RunningStack, o))
    /\ UNCHANGED active

\* The rest of forkAt: a stack for a process made before, then resume, which
\* puts the process on a run queue.
Fork(p, x) ==
    /\ p \in Locals \cap Process /\ StackOf(Heap, p) = {}
    /\ x \in Locals \cap Data
    /\ \E h \in AllocGc(Heap, {}) : \E s \in Stack \cap In(h, "free") :
          LET filled == StoreSlot(StoreSlot(Placed(h, s, "young", {}), s, p), s, x)
          IN Becomes(StoreSlot(SetStack(filled, p, s), Root, p))
    /\ UNCHANGED active

-----------------------------------------------------------------------------
(* The running stack changes, or a stack that is not running does.         *)

\* Processes that can be switched to: run queues, and what the code has in hand.
Ready == {p \in (refs[Root] \cup Locals) \cap Process : p # active /\ StackOf(Heap, p) # {}}

\* The scheduler's slot gets the next process; the one before stays where Root
\* names it unless nothing else does.
Transferred(h, q, kept) ==
    StoreSlot(IF kept THEN h ELSE [h EXCEPT !.refs[Root] = @ \ {active}], Root, q)

\* transfer_to: from now on stores into the outgoing stack are not seen.
TransferTo(q, kept) ==
    /\ q \in Ready
    /\ Becomes(Transferred(RememberStack(Heap, RunningStack), q, kept))
    /\ active' = q

\* The base frame of the active process returns, and the next one runs; when
\* it is the process that Vm::run was called for, the run is over.
Halt(q, kept) ==
    /\ active # Main
    /\ q \in Ready \cap refs[Root]
    /\ Becomes(Transferred([Heap EXCEPT !.refs[active] = @ \ Stack], q, kept))
    /\ active' = q

\* grow_stack: in young space, else in old space, else there after compacting.
\* The copy is raw, which the root of the running stack makes good.
Grown(h, s, where) == SetStack(Placed(h, s, where, Locals), active, s)

\* Methods, blocks and symbols: those the image began with, which lie before
\* any gap and are not moved, are Root.
CodeInHand == {Root} \cup ((Locals \cup Named(Heap, InHand)) \cap Data)

\* push_frame on a stack that is too small, which is what a send, perform: or
\* value does: x is the method or the block and goes into the new frame.
PushFrame(x, where) ==
    /\ x \in CodeInHand
    /\ \E how \in {"none"} \cup (IF where = "old" THEN {"compaction"} ELSE {}) :
          \E stale \in Stale(x, how), h \in After(how) : \E s \in Stack \cap In(h, "free") :
              Becomes(SetSlotHeld(Grown(h, s, where), s, x, stale))
    /\ UNCHANGED active

\* does_not_understand: a Message, with its array of arguments one object here,
\* takes up the selector, which the failed lookup had in hand.
DoesNotUnderstand(x) ==
    /\ x \in CodeInHand
    /\ \E how \in Collection : \E stale \in Stale(x, how), h \in After(how) :
          \E o \in Data \cap In(h, "free") :
              Becomes(SetSlotRaw(SetSlotHeld(Placed(h, o, "young", {}), o, x, stale),
                                 RunningStack, o))
    /\ UNCHANGED active

\* primFrameInfo: an array of what a frame of p's stack names, read through the
\* process that was in the receiver's register before the array was allocated.
FrameInfo(p) ==
    /\ p \in Locals \cap Process /\ StackOf(Heap, p) # {}
    /\ \E how \in Collection : \E stale \in Stale(p, how), h \in After(how) :
          \E o \in Data \cap In(h, "free") :
              LET frame == Named(h, StackOf(h, p)) \cap Data
                  array == IF stale THEN [Placed(h, o, "young", {}) EXCEPT !.torn = @ \cup {o}]
                           ELSE Placed(h, o, "young", frame)
              IN Becomes(SetSlotRaw(array, RunningStack, o))
    /\ UNCHANGED active

\* The collections of the snapshot primitive tenure whatever is young.
Tenured == Scavenged(Heap, Survivors(Heap, {}), Survivors(Heap, {}))

Snapshot == Becomes(Tenured) /\ UNCHANGED active

\* When the image cannot be written the primitive fails, and activate pushes a
\* frame for m, the primitive's own method.
SnapshotFails(m) ==
    /\ m \in CodeInHand
    /\ \E stale \in Stale(m, "scavenge") :
          Becomes(SetSlotHeld(Tenured, RunningStack, m, stale))
    /\ UNCHANGED active

\* The end of terminating another process: a frame of the trampoline on its
\* stack, and the process on a run queue.
FinishTerminateOther(h, p) ==
    StoreSlot(StoreSlot(h, CHOOSE s \in Stack : s \in h.refs[p], p), Root, p)

TerminateOther(p) ==
    /\ p \in Ready
    /\ Becomes(FinishTerminateOther(Heap, p))
    /\ UNCHANGED active

\* The same when the trampoline's frame needs a larger stack, which an
\* allocation with p as temporary root provides.
TerminateOtherGrowing(p, where) ==
    /\ p \in Ready
    /\ \E h \in AllocGc(Heap, {p}) : \E s \in Stack \cap In(h, "free") :
          LET grown == SetStack(Placed(h, s, where, Named(h, StackOf(h, p))), p, s)
          IN Becomes(FinishTerminateOther(RememberStack(grown, s), p))
    /\ UNCHANGED active

Next ==
    \/ \E o \in Object, x \in Data : Load(o, x) \/ Store(o, x)
    \/ \E o \in Object, x \in Process \cup Data : Clear(o, x)
    \/ \E x \in Process \cup Data : Drop(x)
    \/ \E kind \in {Process, Data}, where \in {"young", "old"} : New(kind, where)
    \/ \E p \in Process, x \in Data : Fork(p, x)
    \/ \E q \in Process, kept \in BOOLEAN : TransferTo(q, kept) \/ Halt(q, kept)
    \/ \E x \in {Root} \cup Data, where \in {"young", "old"} : PushFrame(x, where)
    \/ \E x \in {Root} \cup Data : DoesNotUnderstand(x)
    \/ \E p \in Process : FrameInfo(p)
    \/ Snapshot
    \/ \E m \in {Root} \cup Data : SnapshotFails(m)
    \/ \E p \in Process : TerminateOther(p)
    \/ \E p \in Process, where \in {"young", "old"} : TerminateOtherGrowing(p, where)

Spec == Init /\ [][Next]_vars

-----------------------------------------------------------------------------
(* Nothing that the program can reach is lost: every collection keeps it and *)
(* corrects every slot that names it (gc.rs, collect_young and collect_old). *)
NothingLost ==
    \A o \in Live(Heap, {}) : o \notin torn /\ \A x \in refs[o] : space[x] # "free"

(* An object of old space that the program can reach and that names a young *)
(* one is in the remembered set, unless it is the running stack: the store  *)
(* barrier (vm.rs), the exemption of the running stack and what transfer_to *)
(* makes up for it (interp.rs), and the rebuilding in gc.rs.                *)
OldPointersRemembered ==
    \A o \in Live(Heap, {}) \ StackOf(Heap, active) :
        space[o] = "old" /\ (\E x \in refs[o] : space[x] = "young") => o \in ssb
=============================================================================
