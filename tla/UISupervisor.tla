---------------------------- MODULE UISupervisor ----------------------------
(***************************************************************************)
(* The user interface loop: UISupervisor in st/ui/wm, and under it the      *)
(* event queue and the window of src/host_ui.rs.                            *)
(*                                                                         *)
(* Four parties act.  The user moves the mouse, clicks, types and closes    *)
(* the window.  The window library reports a snapshot of that, which only   *)
(* an update of the window refreshes.  The loop harvests snapshots into the *)
(* event queue, every time it asks for an event, dispatches what is queued, *)
(* paints what is damaged and presents the Display.  Scripts and tests post *)
(* events of any kind into the same queue.                                  *)
(***************************************************************************)
EXTENDS Naturals, Sequences

CONSTANTS
    Place,          \* where in the window the mouse may be
    Outside,        \* or that it is elsewhere
    CursorVisible,  \* Display>>cursorVisible: the image draws the cursor itself
    MaxPosted       \* bound: events in the queue when one is posted

ASSUME UISupervisorAssumption ==
    Outside \notin Place /\ CursorVisible \in BOOLEAN /\ MaxPosted \in Nat

VARIABLES
    user,      \* mouse, button, a key, and whether the window is closed or
               \* Escape pressed
    windowed,  \* HostUi::windowed
    window,    \* is there a window?
    snapshot,  \* what it has reported since its last update
    wasHeld,   \* the window library: was the key down at the last update?
    last,      \* last_pos, last_down, last_keys and close_sent
    events,    \* HostUi::events
    phase,     \* "pump", "paint" and "present" of runStep, "delay" or "done"
    running, damaged,
    told,      \* history: the mouse as the window's events have told the image
    owed,      \* history: keystrokes the window has reported and not dispatched
    painted    \* history: the Display shows the views as they are

hostUi == <<windowed, window, snapshot, wasHeld, last, events>>
vars == <<user, hostUi, phase, running, damaged, told, owed, painted>>

Where == Place \cup {Outside}
Move == {"move"} \X Place
Button == {"button"} \X BOOLEAN
KeyDown == <<"key", TRUE>>
Scroll == <<"scroll", TRUE>>   \* and every other type the window does not report
Close == <<"close", TRUE>>

\* What the window reports is queued as it is.  What is posted, of any kind, is
\* marked: the code forgets where an event comes from, and only the history
\* variables and the properties tell it.
Posted == {"posted"} \X (Move \cup Button \cup {KeyDown, Scroll, Close})
Event == Move \cup Button \cup {KeyDown, Close} \cup Posted

\* The event as the image gets it
What(e) == IF e \in Posted THEN e[2] ELSE e

TypeOK ==
    /\ user \in [pos : Where, down : BOOLEAN, key : BOOLEAN, quit : BOOLEAN]
    /\ snapshot \in [pos : Where, down : BOOLEAN, key : BOOLEAN, quit : BOOLEAN]
    /\ last \in [pos : Where, down : BOOLEAN, key : BOOLEAN, quit : BOOLEAN]
    /\ {windowed, window, wasHeld, running, damaged, painted} \subseteq BOOLEAN
    /\ events \in Seq(Event)
    /\ phase \in {"pump", "paint", "present", "delay", "done"}
    /\ told \in [pos : Where, down : BOOLEAN]
    /\ owed \in Nat

-----------------------------------------------------------------------------
(* The queue and the window.                                                *)

\* Mutant of Moved: the position is reported whenever there is one.
MovedAlways == snapshot.pos # Outside

Moved == snapshot.pos \notin {Outside, last.pos}

\* Mutant of Pressed: only a press is an edge.
PressedOnly == snapshot.pos # Outside /\ snapshot.down /\ ~last.down

Pressed == snapshot.pos # Outside /\ snapshot.down # last.down

If(b, e) == IF b THEN <<e>> ELSE <<>>

\* ingest_window_state: what a harvest adds to the queue
News ==
    CASE ~window -> <<>>
      [] window /\ snapshot.quit -> If(~last.quit, Close)
      [] OTHER -> If(Moved, <<"move", snapshot.pos>>)
                    \o If(Pressed, <<"button", snapshot.down>>)
                    \o If(snapshot.key /\ ~last.key, KeyDown)

\* Mutant of Harvested: the button is remembered wherever the mouse is.
HarvestedOutside ==
    CASE ~window -> last
      [] window /\ snapshot.quit -> [last EXCEPT !.quit = TRUE]
      [] OTHER -> [snapshot EXCEPT !.pos = IF Moved THEN @ ELSE last.pos,
                                   !.quit = last.quit]

\* Mutant of Harvested: the close is not remembered.
HarvestedOpen ==
    IF ~window \/ snapshot.quit THEN last
    ELSE [last EXCEPT !.pos = IF Moved THEN snapshot.pos ELSE @,
                      !.down = IF Pressed THEN snapshot.down ELSE @,
                      !.key = snapshot.key]

\* Mutant of Harvested: the keys are not remembered.
HarvestedKeyless ==
    CASE ~window -> last
      [] window /\ snapshot.quit -> [last EXCEPT !.quit = TRUE]
      [] OTHER -> [last EXCEPT !.pos = IF Moved THEN snapshot.pos ELSE @,
                               !.down = IF Pressed THEN snapshot.down ELSE @]

\* What it remembers so as not to report the same again
Harvested ==
    CASE ~window -> last
      [] window /\ snapshot.quit -> [last EXCEPT !.quit = TRUE]
      [] OTHER -> [last EXCEPT !.pos = IF Moved THEN snapshot.pos ELSE @,
                               !.down = IF Pressed THEN snapshot.down ELSE @,
                               !.key = snapshot.key]

\* An update of the window: the key is reported once, when it has gone down.
Refreshed == [user EXCEPT !.key = @ /\ ~wasHeld]

-----------------------------------------------------------------------------
(* The loop.                                                                *)

\* Mutant of Damages: a move that a view has handled does not count.
DamagesUnhandled(e, handled) == IF e \in Move THEN CursorVisible ELSE TRUE

\* dispatch: is the screen damaged by an event other than a close?
Damages(e, handled) == IF e \in Move THEN CursorVisible \/ handled ELSE TRUE

\* dispatch: an event may change what a view shows; but it says so of a move.
Dispatch(e) ==
    /\ IF What(e) = Close
       THEN running' = FALSE /\ UNCHANGED <<damaged, painted>>
       ELSE /\ \E handled \in BOOLEAN :
                  /\ damaged' = (damaged \/ Damages(What(e), handled))
                  /\ painted' = (/\ painted
                                 /\ What(e) \in Move /\ ~handled /\ ~CursorVisible)
            /\ UNCHANGED running
    /\ told' = CASE e \in Move   -> [told EXCEPT !.pos = e[2]]
                 [] e \in Button -> [told EXCEPT !.down = e[2]]
                 [] OTHER        -> told
    /\ owed' = IF e = KeyDown THEN owed - 1 ELSE owed

\* One round of pumpEvents: primNextEvent harvests and pops.
NextEvent ==
    /\ phase = "pump"
    /\ last' = Harvested
    /\ LET queue == events \o News
       IN  \/ /\ queue # <<>>
              /\ events' = Tail(queue)
              /\ Dispatch(Head(queue))
              /\ UNCHANGED phase
           \/ /\ queue = <<>>
              /\ phase' = "paint"
              /\ UNCHANGED <<events, running, damaged, painted, told, owed>>
    /\ UNCHANGED <<user, windowed, window, snapshot, wasHeld>>

\* Mutant of AfterPaint: an undamaged screen is not presented.
AfterPaintDamaged == IF damaged THEN "present" ELSE "delay"

\* An undamaged screen is not painted, and presented all the same.
AfterPaint == "present"

Paint ==
    /\ phase = "paint"
    /\ phase' = AfterPaint
    /\ painted' = (painted \/ damaged)
    /\ damaged' = FALSE
    /\ UNCHANGED <<user, hostUi, running, told, owed>>

\* display flush, in a window that is there or can be made
Present ==
    /\ phase = "present" /\ windowed
    /\ phase' = "delay"
    /\ window' = TRUE
    /\ snapshot' = Refreshed
    /\ wasHeld' = user.key
    /\ owed' = IF Refreshed.key /\ ~Refreshed.quit THEN owed + 1 ELSE owed
    /\ UNCHANGED <<user, windowed, last, events, running, damaged, told, painted>>

\* An update fails, or there is only the buffer to present in.
PresentNothing ==
    /\ phase = "present"
    /\ phase' = "delay"
    /\ windowed => window
    /\ UNCHANGED <<user, hostUi, running, damaged, told, owed, painted>>

\* The window is made, and its first update fails: it has reported nothing but
\* where the mouse is.
PresentBlank ==
    /\ phase = "present" /\ windowed /\ ~window
    /\ phase' = "delay"
    /\ window' = TRUE
    /\ \E p \in Where : snapshot' = [snapshot EXCEPT !.pos = p]
    /\ UNCHANGED <<user, windowed, wasHeld, last, events, running, damaged, told,
                   owed, painted>>

\* The window cannot be made: there will be none, and the loop is to end.
NoWindow ==
    /\ phase = "present" /\ windowed /\ ~window
    /\ phase' = "delay"
    /\ windowed' = FALSE
    /\ events' = Append(events, Close)
    /\ UNCHANGED <<user, window, snapshot, wasHeld, last, running, damaged, told,
                   owed, painted>>

\* The end of the Delay in run
NextStep ==
    /\ phase = "delay"
    /\ phase' = IF running THEN "pump" ELSE "done"
    /\ UNCHANGED <<user, hostUi, running, damaged, told, owed, painted>>

-----------------------------------------------------------------------------
(* What goes on beside the loop.                                            *)

\* The user does something, at any moment.
UserActs ==
    /\ \/ \E p \in Where \ {user.pos} : user' = [user EXCEPT !.pos = p]
       \/ user' = [user EXCEPT !.down = ~@]
       \/ user' = [user EXCEPT !.key = ~@]
       \/ user' = [user EXCEPT !.quit = ~@]
    /\ UNCHANGED <<hostUi, phase, running, damaged, told, owed, painted>>

\* primPostEvent, of any event and at any moment, by a script, by a test or from
\* within a handler.
Post(e) ==
    /\ phase # "done" /\ Len(events) < MaxPosted
    /\ events' = Append(events, e)
    /\ UNCHANGED <<user, windowed, window, snapshot, wasHeld, last, phase, running,
                   damaged, told, owed, painted>>

Done == phase = "done" /\ UNCHANGED vars

Init ==
    /\ user = [pos |-> Outside, down |-> FALSE, key |-> FALSE, quit |-> FALSE]
    /\ snapshot = user /\ last = user
    /\ windowed \in BOOLEAN /\ window = FALSE /\ wasHeld = FALSE
    /\ events = <<>>
    /\ phase = "pump" /\ running = TRUE /\ damaged = TRUE
    /\ told = [pos |-> Outside, down |-> FALSE]
    /\ owed = 0 /\ painted = FALSE

Next ==
    \/ NextEvent \/ Paint \/ NextStep
    \/ Present \/ PresentNothing \/ PresentBlank \/ NoWindow
    \/ UserActs
    \/ \E e \in Posted : Post(e)
    \/ Done

Spec == Init /\ [][Next]_vars

\* The loop goes on, and an update of the window succeeds now and then.  Others may
\* post for ever while the loop waits, but do not feed a tick for ever: pumpEvents
\* drains whatever there is.  Nothing is assumed of the user.
FairSpec ==
    /\ Spec
    /\ WF_vars(NextEvent) /\ WF_vars(Paint)
    /\ WF_vars(Present \/ PresentNothing \/ PresentBlank \/ NoWindow)
    /\ SF_vars(Present)
    /\ WF_vars(NextStep)
    /\ <>[][(\E e \in Posted : Post(e)) => phase = "delay"]_vars

-----------------------------------------------------------------------------
(* Properties.                                                              *)

\* What the window's events have told of the button before event i.
ToldBefore(i) ==
    LET earlier == {j \in 1..(i - 1) : events[j] \in Button}
        latest == CHOOSE j \in earlier : \A k \in earlier : k <= j
    IN  IF earlier = {} THEN told.down ELSE events[latest][2]

\* The button events of the window tell a coherent story, whatever is posted
\* between them: each is the opposite of the one before, and all of them together
\* lead to what the host holds for the state of the button, although it samples
\* the window, is asked at every event, and looks at the button only where it
\* sees the mouse (src/src/host_ui.rs:288).
EdgesAddUp ==
    /\ \A i \in DOMAIN events : events[i] \in Button => events[i][2] # ToldBefore(i)
    /\ last.down = ToldBefore(Len(events) + 1)

\* After a pump the image has caught up with the window: it has been told all that
\* the window has reported, each keystroke once, and nothing is queued but what
\* others have posted since (the contract stated at src/src/host_ui.rs:282).
CaughtUp ==
    phase = "paint" =>
        /\ \A i \in DOMAIN events : events[i] \in Posted
        /\ window /\ ~snapshot.quit =>
              /\ owed = 0
              /\ snapshot.pos # Outside =>
                    told = [pos |-> snapshot.pos, down |-> snapshot.down]

\* What is presented is what the views would draw now, although undamaged ticks
\* are not painted (UISupervisor>>dispatch and runStep).
PresentsCurrent == phase = "present" => painted

\* A pump ends: harvesting at every event does not feed the queue for ever
\* (src/src/host_ui.rs:78).
PumpEnds == phase = "pump" ~> phase # "pump"

\* A press is noticed however long the screen has been static, the first and
\* every later one: while a button is held down in the window, the window's events
\* tell the image that it is down, or the loop ends.
InputArrives ==
    <>[](windowed /\ user.down /\ user.pos # Outside)
        => []<>(told.down \/ phase = "done")

\* Closing the window ends the loop, and so does a window that cannot be made.
CloseEndsLoop ==
    ((window /\ snapshot.quit) \/ (\E i \in DOMAIN events : What(events[i]) = Close))
        ~> phase = "done"

=============================================================================
