# A TLA+ development of the smallishtalk VM

smallishtalk is a Smalltalk system: a register virtual machine in Rust
(`src/src/`), a kernel, a compiler and a user interface in Smalltalk (`src/st/`),
and a specification of the whole (`src/SPEC.md`). This directory holds TLA+
modules of its control, configurations that check them with TLC, and theorems
checked by TLAPS. Paths below are relative to the repository.

`PROJECT.json` names, for every definition that models code, the lines it
translates; for every property, a mutation of the model that violates it; the
hazards of the code with the properties that cover them; and the findings.

## 1. The system

| Component | State | Operations | Interacts with |
|---|---|---|---|
| Run loop (`interp.rs`) | registers `pc`, `fp`, `halted` in locals; the running stack; the safepoint flag | one instruction at a time; polls on sends and on backward jumps; context switch | scheduler, lookup, unwinder, heap |
| Scheduler and semaphores (`prims.rs`, SPEC 13) | run queues, the active process, timer requests, the slots of `Process` and `Semaphore` | fork, resume, suspend, yield, terminate, `transferTo:`, wait, signal, timers | run loop (polls, halt), process lists |
| Process lists (`prims.rs`) | head and tail slots of lists, `nextLink` and `myList` of processes | enqueue, dequeue, unlink | scheduler |
| Lookup and caches (`interp.rs`, `vm.rs`, SPEC 8) | method dictionaries, class table, inline caches, the global cache, the registry of send-site tables | send, super send, `perform:`, install, register class, flush | heap (moves what the global cache names), image, live compiler |
| Exceptions and unwinding (`interp.rs`, `prims.rs`, `kernel.st`, SPEC 10, 11) | the frames of a stack, their serial numbers, ensure and handler slots, the offsets an exception holds | `on:do:`, `ensure:`, `ifCurtailed:`, signal, return, resume, retry, pass, non-local return, terminate | scheduler (terminate, base-frame return) |
| Heap and collector (`heap.rs`, `gc.rs`) | semispaces, old space, remembered set | allocate, write barrier, young and old collection, stack growth | everything that holds an object |
| Snapshot and image (`image.rs`) | an image file | write, load | heap, caches, scheduler |
| Profiler (`profile.rs`), counters | a session, a thread and its stop flag, the flag `sample_due` | start, stop, raise a request, take a sample | the safepoint flag, which both store to |
| Host UI (`host_ui.rs`) | event queue, a window, what was last reported of it | harvest, next event, post event, present | the user, the UI loop of the image |
| Graphics, files, streams | pixels, file handles | primitives | image code |
| Compiler, image writer (`st/compiler/`) | syntax trees, byte buffers | translate sources to images | none at run time |
| Live compiler, reflection (`st/ui/kernel/`) | dictionaries, class table | compile and install, evaluate, define classes | lookup and caches |
| Kernel classes (`st/kernel/`) | objects | collections, numbers, streams, processes, exceptions | primitives |
| UI of the image (`st/ui/`) | widgets, windows, the damage flag of `UISupervisor` | pump, dispatch, paint, present, delay | host UI, processes |
| Assembler, fixtures, treaty | none at run time | tests and shared constants | none |

### What is hard here

* **Green threads.** The VM is single threaded, but a process switch can come
  at any send or backward jump, in the middle of an instruction, and a process
  may be suspended, terminated, signalled or woken by a timer at any point.
* **Caches.** Two caches sit in front of lookup. One holds addresses that a
  moving collector changes; the other is spread over heap objects that must all
  be found when a method is installed.
* **Unwinding.** An unwind can be put off while an ensure block runs, and that
  block can itself unwind, signal or be terminated. Frames are referred to by
  offset and serial number from closures and exceptions that outlive them.
* **One real thread.** The profiler's thread stores two flags with nothing but
  the stores to order them, and one of the two is the scheduler's as well.
* **Native code over collections.** A collection may move whatever the VM has in
  hand; registers of the frame are corrected, local variables of Rust are not.
* **Sampled input.** The window is a snapshot that only presenting refreshes,
  turned into edges whenever an event is asked for.
* **Restarts.** An image stores inline caches and suspended processes, but
  neither the global cache, the registry nor pending timers.

### What makes each component correct

* Scheduler: a process is in one state, on at most one list, the one its slot
  names; no signal is lost or kept beside a waiter; the most important runnable
  process runs; equals are served in order; the ended stay ended; a delay ends.
* Process lists: the pointers are a queue, whatever is pulled out of the middle.
* Run loop: a switch is invisible to the code that was interrupted.
* Lookup and caches: caching cannot be observed.
* Exceptions: ensure blocks run exactly once, every unwind arrives at the
  activation it was begun for, a handler is not entered again by what its own
  block does, an exception names the frames it was signalled with.
* Heap: no live object is lost or duplicated, and no old object refers to a
  young one without being remembered.
* Image: a restart is invisible, but for what the image cannot hold.
* Profiler: a sample that is due is taken, and a session leaves nothing behind.
* UI loop: each pump ends with all input told once, what is presented is
  current, a static screen hears its user, and closing ends the loop.

## 2. Modules

Each component module has its constants with a named assumption, its variables,
one action per operation, its properties and, where it needs one, its fairness.
The `MC...` modules give the constants values that a cfg cannot write.
Mutants are operators defined just before the definition they mutate.

### `Scheduler`, `FifoSemaphore`

The VM is single threaded, so a primitive is one step: `Wait`, `Signal`,
`Yield`, `Resume`, `Fork` (`newProcess` and `resume` of the kernel source),
`Suspend`, `TerminateOther`, `TransferTo`, `SignalAt` (the timer primitive).
`Halt` is the halt branch of the run loop, `RunTrampoline` the frame that
terminating a process pushes on its stack, `RunNext` the loop of
`run_until_idle`. `UntilIdle` tells the two drivers apart. `Restart` is the
snapshot primitive seen from the day its image is loaded: heap and active
process are as written, timers, safepoint, clock and target are new, and
`RunImage` starts the driver on the process that the image names. A snapshot of
which no image is loaded changes nothing here.

The loops that fire timers are taken one semaphore per step: `PollSafepoint`,
`FireDue`, `FinishPoll` are `service_safepoint`, and `WakeToFire`, `FireDue`,
`StopWaiting` the waiting loop of `pick_next_or_wait`. `vm` says where the VM
is. Bytecode is any sequence of primitive calls of the active process; a call
is a send, so with the flag set it polls before it does anything.

A list is a sequence. `Lists`, `Enqueue`, `Dequeue`, `Unlink`,
`SignalInternal` map one value of the three list variables to the next, because
a primitive applies several in a row. `FifoSemaphore` is what the semaphores
promise: signals are counted, a signal goes to the process that has waited
longest, and is kept only when nobody waits.

### `ProcessList`

The pointer code behind those sequences: head, tail and `nextLink` slots, and
the sequence as a history variable. It justifies the sequences of `Scheduler`.

### `RunLoop`

`Scheduler` takes a primitive as one step, but the interpreter decodes an
instruction, polls, and executes. Here the registers are a variable of their
own, an instruction is fetched (`Fetch`), may poll (`PollUnarmed`,
`PollArmed`), and is executed in whatever frame is then the active one. The
queues are reduced to a set of ready processes. A process executes one frame
whose code is a sequence of a few kinds of operation; opcodes that only compute
on their frame are `"plain"`. `place` is history: where each process should
be.

`TickerWakes`, `TickerRaise` and `TickerArm` are the profiler's thread, one
store or look at a flag per step. The poll is two steps for its sake: `PollArmed`
takes the sample, `Service` fires timers and stores to the flag that the thread
may have set in between. `ExecuteProfiler` and `ProfilerDone` are the two
primitives around the join.

### `MethodLookup`, `LookupCaches`

`MethodLookup` is the abstract specification: dictionaries, superclass chains,
and a send that activates the nearest definition. `LookupCaches` has what the
VM has: inline caches per send site, a global cache keyed by class and address
of the selector, the registry a flush walks, and a placement of objects that
collections change. `Install` is the whole of compiling and installing live
code, with the flush at its end; `Restart` a snapshot and a load.

A site is in the table of its method or in that of a block inside it, which is
what `nested` says.

### `Exceptions`

One stack, from the base frame up. A frame has its kind, its serial number,
its ensure or handler slot and the continuation flag; an offset is a position
in the sequence. `op` says whether bytecode runs, an unwind is at work or a
frame returns: one turn of the loop of `unwind_and_return_from` is one step.
The methods of `kernel.st` on the stack (`protectOn:do:`, `ensure:`,
`ifCurtailed:`, `signal`) are frame kinds, and their steps are actions
(`TakeBlock`, `RunTaken`, `FallOff`). The frame of `on:do:`, which only loops
over `protectOn:do:`, is left out; `pass`, `cannotReturn:` and an `unwindTo:`
that fails share a kind, because each only signals and answers what comes back.
`Kill` is what another process does to a stack when it terminates its process.

### `Heap`

`space` says where each object is, `refs` what its slots name, `ssb` which old
objects are remembered. One collection maps a value of the heap to the next,
since an allocation may do several (`AllocGc`). An object keeps its name when
it moves; a slot that a collection should have rewritten and did not puts its
object into `torn`. A survivor may be tenured or not, whatever the others are:
that stands for ages, and for old space being full. The root vectors name
objects of the image; `Root` is one old object that stands for these, for the
scheduler and its queues. It is read only when it is remembered, so a store
into it needs the barrier, as in the code.

What native code has in a local variable is told by `Stale`: a collection may
leave it naming a place its object has left, and with `HeldMoves` does so
whenever it moves the object. `PushFrame` (a method or block over `grow_stack`),
`DoesNotUnderstand` (a selector over the allocation of the message), `FrameInfo`
(a process over the allocation of its array) and `SnapshotFails` (a method over
the collections before a dump) use what they held. Methods and symbols of the
image lie before any gap and never move; they are `Root`.

`Load`, `Drop`, `Store`, `Clear`, `New` and `Fork` are what bytecode and the
primitives it calls do with the frames of the running stack. `TransferTo`,
`Halt`, `PushFrame`, `TerminateOther` and `TerminateOtherGrowing` change which
stack is running or replace a stack. What no root and no remembered object
leads to is taken out of the heap at once (`Becomes`), because neither the
program nor a collection looks at it again; it would only multiply the states.

### `UISupervisor`

The loop of `UISupervisor>>run` and what it stands on. `user` is what the user
does with mouse, button, a key and the close box, `snapshot` what the window
library last reported of it, `last` what `HostUi` remembers in order to report
edges only. `NextEvent` is one round of `pumpEvents`: `primNextEvent` harvests
(`News`, `Harvested`) and pops, and `Dispatch` is `dispatch:`, where a view may
handle the event and change. `Paint`, `Present`, `PresentNothing`,
`PresentBlank`, `NoWindow` and `NextStep` are the rest of `runStep` and `run`. An
update of the window is the only thing that refreshes the snapshot; it may fail,
the first one of a new window too (`PresentBlank`), and so may making the window.

`Post` is `primPostEvent`: any event, moves, buttons and keys included (the tests
of the browser drive whole drags with it), at any moment, also from within a
handler. Posted events pass by what the host remembers in `last`, so the image may
well be told of a button that the window has not reported. In the model a posted
event is marked as such. The code forgets the difference, and no step but those
of the history variables depends on it: `What` removes the mark before
`dispatch:` looks. `told`, `owed` and `painted` are these history variables: the
mouse as the window's own events have told it to the image, keystrokes the window
reported and the image was not yet told, and whether the Display shows the views
as they are. `EdgesAddUp`, `CaughtUp` and `InputArrives` are thus about what the
window reports: it arrives in order, complete and once, whatever is posted in
between. They do not say that the image's own idea of the button agrees with the
window, which posted events make false by intent. minifb is external and modelled from its use: between
updates it reports the same snapshot, and a key once, in the update in which it
has gone down.

### Proof modules

`SchedulerProofs`, `ProcessListProofs`, `LookupProofs`, `RunLoopProofs`,
`HeapProofs`, `ExceptionsProofs`, `UISupervisorProofs`, and `SequenceLemmas` with
what they share about sequences.

## 3. Runs

| Run | Question | Instance |
|---|---|---|
| `processes` | do lists, slots and semaphores agree, implement FIFO semaphores, and stay so over restarts? is a more important process ever kept waiting, or an equal overtaken, and does a delay end whatever the others do? | 3 processes, a semaphore, 2 run queues, priority slots 0, 2 and 3, 2 signals, a tick, `transferTo:` of suspended processes |
| `chains` | are the pointers the queues? | 4 processes, 2 lists |
| `jumps` | is a switch at a backward jump invisible, and does it come? does a profiling session get its samples and leave none behind? | 2 computing processes, 2 sleepers that start and stop the profiler |
| `sends` | and at a send? *violated* | the same, with sends in the loops |
| `caches` | can caching be observed? | a class and its subclass, 2 selectors, 2 methods, 3 sites, 2 buckets, 4 addresses |
| `blocks` | and with blocks in live code? *violated* | the same, a live site in a block |
| `unwind` | do ensure blocks run once, and unwinds arrive? | 2 exceptions, 2 classes, serials up to 9 |
| `resume` | is a handler armed again after `resume:`? *violated* | the same |
| `pass` | does a handler block that passed answer from its own `on:do:`? *violated* | the same |
| `heap` | does every collection keep and correct all that is reachable? | 2 processes, 3 stacks, 1 other object, the image |
| `locals` | and is what native code has in hand still there? *violated* | 2 processes, 2 stacks, 2 other objects |
| `events` | does the loop hear all that the user does, once, show what is, and end when told? | 2 places, a key, posted events of every kind, one at a time |

### Bounds, and why they are enough

* `Scheduler`: `MaxSignals` bounds the signals of one semaphore, kept or still
  to come from a timer; `MaxTime` the clock, where one tick parts what is due
  from what is not. Three processes give a running one, one that is waited for
  and one that interferes, in every order; two on a list let the second be
  pulled from behind the first. There are more priority values than run queues,
  so that clamping at both ends happens, two processes of different raw and
  equal clamped priority among them. That the invariants hold with more
  semaphores, and with any number of processes and priorities, is proved.
* `ProcessList`: with four processes a chain has a head, a tail and two in
  between; nothing else is bounded. Proved for any number.
* `RunLoop`: nothing is bounded; code is finite and the jump goes back. The
  two computing processes have different priorities and both loop, so that a
  preemption and a return to the preempted one both happen; two sleepers of
  equal priority let one be due while the other runs. Both use the profiler, so
  that a session ends by a stop and by another start, with its thread at any
  point.
* `LookupCaches`: nothing is bounded. Two classes share the buckets with both
  selectors, so that entries collide; four addresses for four objects make a
  collection permute them all, which is the worst a moving collector can do to
  addresses kept outside the heap. Proved for any hierarchy, hash and placement.
* `Exceptions`: `MaxSerial` bounds the frames that the program pushes in one
  behaviour; frames pushed by the unwinder and by the methods it calls may go
  beyond it. Nine leave room for two guarded or handled regions, a signal with
  its handler block, a termination and the ensure blocks of all of them. The
  limit is on serials and not on depth, so that popped frames make room for no
  others and every behaviour ends. Two exceptions give an exception signalled
  while another is handled. Of the classes, one handles all and one itself
  only.
* `Heap`: nothing is bounded but the number of objects. A place is used again
  once its object is gone. Three stacks let both processes have one and either
  get a larger one, so that a stack is in old space while it runs, after it
  ran, and without ever having run. One other object is enough for pointers
  from old to young out of every kind of holder that the code treats apart: the
  image, a process, a running stack and one that does not run.
* `UISupervisor`: `MaxPosted` bounds the queue at the moment an event is posted
  into it, not what the window adds: with 1, an event of any kind is posted into
  the empty queue, at any point of a tick and again as soon as it was taken, and
  what the window reports is queued behind it. Longer queues are left to the
  proofs, which bound nothing. Two places make a move within the window; one
  key is enough, since keys are told apart by the same test each.

### Scopes

Some calls are possible that the kernel sources never make or that lead to a
known failure. A constant says which of them a run includes.

* `TransferScope` (`Scheduler`): `transferTo:` accepts a process that is on a
  list and leaves it there; no method of the kernel sources sends it. Runs and
  theorems take `"none"` or `"suspended"`. With `"any"`, `OneState` fails.
* `KillScope` (`Exceptions`): `ensure:` empties its slot one send before it
  runs the block (`kernel.st`, `runNow := eBlock. eBlock := nil. runNow
  value`). A termination that strikes between the two skips the block: with
  `"any"`, `EnsureNotSkipped` fails. `unwind` takes `"settled"`, every other
  point.
* `DeadReturnScope` (`Exceptions`): a `^` with a dead home in a base frame is
  a fatal error, and one out of an ensure block that the unwinder started
  resumes its frame with the wrong pc. With `"any"` they happen and
  `UnwindsArrive` fails; `unwind` takes `"called"`, where such a block has a
  caller to send `cannotReturn:` from.
* `HeldMoves` (`Heap`): whether a collection moves what only a local variable
  of native code holds. `heap` takes `FALSE`: these objects stay where they are,
  and the collector is on trial alone. With `TRUE`, `NothingLost` fails, which
  is finding 5.
* `NestedSites` (`MCLookupCaches`): whether live code has a block with a send.

### Fairness

* `Scheduler!Fairness`: weak fairness of what the VM does by itself, each
  started loop going on to its end (`FireDue`, `FinishPoll`, `StopWaiting`,
  `RunNext`, `RunImage`), of the poll (a send or a backward jump comes round in every loop
  bytecode can make, and with the flag set it polls), of a terminate trampoline
  (its frame has nothing else to do), of `WakeToFire` (the thread sleeps until
  a request is due) and of the clock. Nothing is assumed of what bytecode
  chooses to call.
* `RunLoop!Fairness`: weak fairness of every step of the loop: the interpreter
  does not stop. Strong fairness of leaving or taking a conditional jump:
  otherwise `mustBeBoolean` could answer a non-boolean to the same jump
  forever. No process is assumed to leave its loop. The clock runs, so that a
  request becomes due, and the operating system runs the profiler's thread.
* `UISupervisor!FairSpec`: weak fairness of every step of the loop, whose
  process runs at a high priority (UI.md:476) and whose delay ends (`SleeperWakes`
  of `Scheduler`). Strong fairness of `Present`: in a window that is there, or can
  be made, an update succeeds now and then. Of who posts events one thing is
  assumed: from some time on they post only while the loop waits for its next
  tick, where they may go on for ever. Without that no pump need end, since
  `pumpEvents` drains whatever is queued; `PumpEnds` shows that harvesting alone
  does not feed it. Nothing is assumed of the user, and the safety properties
  assume nothing of either.
* The other modules state safety only.

## 4. Findings

Five runs check what a document, comment or test says and find it violated.
`PROJECT.json` quotes the lines.

1. `sends`: `OP_SEND` polls after it has decoded its instruction. When the poll
   switches, the send is executed in the frame of the other process, and that
   of the first is lost. Backward jumps, which poll after their effect, pass
   the same property (`jumps`).
2. `blocks`: installing a method registers its own site table and not those of
   its blocks, so that a later install leaves their inline caches stale.
   Without blocks in live code the caches are transparent (`caches`, and
   proved).
3. `resume`: a handler is left in progress by `resume:`, and the next exception
   of its protected block passes it by.
4. `pass`: `pass` overwrites the handler an exception names; the handler block
   that passed then answers from another `on:do:`.
5. `locals`: `primFrameInfo` re-derives stack and method after its allocation,
   but from a process that the allocation may have moved. `does_not_understand`,
   `push_frame` and `activate` have the same shape.

Disagreements met on the way that no run is spent on: the comment of
`run_until_idle` (`interp.rs:1256`) says that a fully idle system exits cleanly,
and it fails with a fatal deadlock error when the last process to end is not the
one the run was started for (`Scheduler` reaches `vm = "deadlock"`). Pending timer
requests are not in an image, while SPEC.md:470 plans to compare a restarted
run with an uninterrupted one. Timers read `start_instant.elapsed()`, also when
the image's clock is virtual (UI.md:355). `close_sent` is never reset, so that a
second run in the same VM would not be told of its closed window.

## 5. Proofs

All theorems hold for every value of the constants that meets the module's
named assumption, with the further hypothesis stated in the theorem. Each safety
invariant, action property and refinement that a passing run checks is stated by
a theorem, so that what the runs add for these is a check of the statements
themselves, and of the hypotheses: where a theorem has one, a run or a hazard
shows what happens without it.

* **`SchedulerProofs`**, for `TransferScope # "any"`. The invariant `Inv` is
  the conjunction of `TypeOK`, `ListsAgree`, `OneState`, `NoSignalWithheld` and
  `TimersKeepPolling`. None of the middle three is inductive alone: `resume`
  may put a process on a queue because its `myList` slot is nil, which means
  that it is on no list only by `ListsAgree`; that the active process may be
  appended to a list needs `OneState`; a signal is kept only with no waiter.
  Facts about `Enqueue`, `Dequeue`, `Unlink` and `SignalInternal` on any value
  of the lists come first, then one lemma per action. From `InvHolds` follow
  the five invariants, `TerminatedStays` (no step revives the ended) and
  `SemaphoresImplementFifo`: each step is a step of `FifoSemaphore` or leaves
  its variables alone. The properties about order need one more invariant,
  `Placed`: who is on a run queue is on that of its priority, clamped. The
  primitives compare priorities as they are and the poll compares a ceiling of
  clamped ones with one that is not, and `NoInversionHolds` shows that this makes
  no difference. `OrderStep` says what each action does to those who are ready
  (`Kept`: nobody passes anybody on a queue; `Highest` or `Above`: who has to wait
  for a lower priority had to before), and is put together from what appending,
  taking the head and removing do to the order of one queue.
* **`ProcessListProofs`**. `TypeOK` and `ChainsAreQueues` together are
  inductive: that the walk of `remove_process_from_its_list` meets exactly one
  predecessor follows from the chain having no repetition, and that the tail
  slot is right after a removal from the chain ending at it.
* **`LookupProofs`**, for `NoLiveBlocks` (sites in blocks belong to methods of
  the loaded image). `IInv` is `TypeOK`, `SitesRegistered` and `CachesAgree`:
  a flush restores `CachesAgree` after an install only if every cache it must
  clear is registered. `CachingIsInvisible` then shows that every step is one
  of `MethodLookup`, or a stutter. Without the hypothesis the statement is
  false: that is finding 2.
* **`RunLoopProofs`**. `SessionInv`: the thread lives, and a request is there,
  only in a session or while its end is waited for. `NothingLeftBehind` alone is
  not inductive, since the thread may raise a request after the stop flag is
  set; only the join keeps that from the next session.
  `PlaceInv` is about switches, under the hypothesis `OnlyTopSends`: a process
  that sends has a priority that no other exceeds, so no poll of a send finds
  anyone to yield to. Without it the statements are false: that is finding 1.
  `SavedInPlace` is not inductive, since a slot is written from the register and
  read back into it; `Registers` says what the register holds meanwhile (the
  place of the active process between instructions; its instruction, decoded,
  within one), and `CodeLeft` that no place is past the end of its program.
  `OwnInstruction` follows.
* **`HeapProofs`**. `HeapInv` is `Sound` of the objects in use: what is in use
  names only what is in use (`Shape`), a stack has one owner (`Exclusive`), the
  active process is named and has a stack (`Runs`), and whatever old object names
  a young one is remembered, but for the stack that runs (`Remembered`). It
  speaks of all objects in use where the properties speak of the live ones: that
  what is live is in use is `LiveUsed`. The actions are chains of allocations,
  stores and collections, so `Sound` is kept through each link for a set `K` of
  objects that the rest of the chain may still look at, and a collection keeps
  any such set that what it traces from can reach. What the trace computes is a
  recursive function on sets; `ReachedLeast` shows it to be the least set that is
  closed, by taking the smallest counterexample, since finite sets are well
  founded under inclusion. `NothingLostHolds` is for `HeldMoves = FALSE`: without
  it the statement is false, and that is finding 5. `OldPointersRemembered`
  does not depend on it.
* **`ExceptionsProofs`**. `StackInv` says of the stack that serials grow upwards
  (`Numbering`), that an unwind that was put off goes further down to a frame that
  is there (`PutOff`), what the slot of a guarding frame says of its block
  (`Blocks`), that a handler block has its handler beneath it, in progress
  for it alone (`Handlings`), and what the offsets and serials of an exception
  still name (`Known`, `Current`); and that what the VM does next can be done
  (`Ready`). Serials are what makes it inductive: a target whose frame is gone
  never names another one. Each action is a chain of pops, pushes and turns of a
  slot, each of which keeps the parts (`PopStacked`, `PushStacked`,
  `TurnStacked`), with an unwind over many frames as one pop to a height.
  `HandlerNotReenteredHolds` and `EnsureRunsOnceHolds` have no hypothesis.
  `ExceptionIsCurrentHolds` is for programs without `pass`, which overwrites the
  signal and the handler that the exception names while the handler block that
  passed is still there (finding 4);
  `UnwindsArriveHolds` for `DeadReturnScope # "any"` and `EnsureNotSkippedHolds`
  for `KillScope # "any"`: the first excludes the fatal error of
  `interp.rs:1083`, the second the gap between the two steps of `ensure:` at
  `kernel.st:1124`, and both are listed as hazards.
* **`UISupervisorProofs`**. `PaintedOrDamaged`: the Display shows the views, or
  the damage flag is set; painting mends the second, and between painting and
  presenting nothing is dispatched. It rests on `dispatch:` damaging the screen
  for every event that may change it. `QueueInv` is about what the host has
  queued for the window: at most one move, one change of the button and one
  keystroke are under way, each as the last snapshot of the window has it, and
  where none is, the image was told what the host holds. Events of every kind may
  be posted among them by any step: they are not counted, and the lemma `Kinds`
  says that none is taken for one of the window's. `CaughtUp` is a part of it, since what a pump
  leaves is inductive only with it, and `EdgesAddUp` follows.

What the provers cannot reach stays with TLC: `SleeperWakes`, `DueGetsCpu`,
`SampleTaken`, `PumpEnds`, `InputArrives` and `CloseEndsLoop`, which are liveness
under fairness.

## 6. Not modelled

* Of the heap: ages, sizes and addresses, byte objects (they name nothing, and
  their allocation collects as any other does), and the raw stores that
  fill a new closure or box (small, hence young). Stacks are named by their
  processes only. Locals held over an allocation by other code than the four
  places named above are taken as read again.
* Snapshot and image: the encoding, relocation and decoding of objects. A
  snapshot when old space is full is not modelled, since sizes are not: `forward`
  then leaves survivors in young space, which a debug assertion alone
  (`image.rs:35`) keeps from making an image with slots that name nothing.
* Of exceptions: message texts, and an exception handed
  from one process to another.
* The layout of stacks, frames and objects; arithmetic; strings; formats.
* What a profile records and reports, counters, graphics, screenshots, files:
  they change no state of the components above. Widgets, the class browser and
  the compiler: sequential library code.
* Of the UI loop: key releases, window sizes, and a second run in one VM.
* Wraparound of serial numbers at 2^30, which SPEC.md accepts.

## 7. Plan

Done, in this order: `Scheduler` with its abstract semaphores and proofs;
`ProcessList` with proofs; `LookupCaches` over `MethodLookup` with proofs;
`RunLoop`; `Exceptions`; `Heap`; restarts in `Scheduler`; the profiler's thread
in `RunLoop`; locals of native code in `Heap`; `UISupervisor`.

Proofs of all safety properties, action properties and refinements followed:
`Heap`, `Exceptions`, the queue of `UISupervisor`, and the order of the run queues
in `Scheduler`.

Next:

1. A refinement of `Scheduler`'s lists by `ProcessList` for several lists at once,
   so that the two are composed by a theorem and not by reading.
2. Two stacks and exceptions shared between them, over `Exceptions`.
3. The compiler's capture analysis as functions on scopes, checked against
   their definition.
