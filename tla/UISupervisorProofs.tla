------------------------- MODULE UISupervisorProofs -------------------------
(***************************************************************************)
(* What the loop presents is current, what it is told adds up, and a pump   *)
(* leaves nothing, for any places and either cursor.                        *)
(*                                                                          *)
(* The Display shows the views as they are, or is damaged; painting mends    *)
(* the second, and nothing is dispatched between painting and presenting.    *)
(* Of the mouse, the button and the key at most one change each is under      *)
(* way: a snapshot changes only when all of the one before has been           *)
(* dispatched, and only the first harvest of it adds to the queue.  What      *)
(* others post comes between them and is not taken for the window's.          *)
(***************************************************************************)
EXTENDS UISupervisor, TLAPS

PaintedOrDamaged ==
    /\ painted \in BOOLEAN /\ damaged \in BOOLEAN
    /\ painted \/ damaged
    /\ PresentsCurrent

\* An event that may change what is shown damages the screen.
LEMMA DispatchDamages ==
    ASSUME NEW e, painted \/ damaged, Dispatch(e),
           painted \in BOOLEAN, damaged \in BOOLEAN
    PROVE  /\ painted' \/ damaged'
           /\ painted' \in BOOLEAN /\ damaged' \in BOOLEAN
<1> DEFINE w == What(e)
<1>1. CASE w = Close
  BY <1>1 DEF Dispatch
<1>2. CASE w # Close
  <2>1. PICK handled \in BOOLEAN :
           /\ damaged' = (damaged \/ Damages(w, handled))
           /\ painted' = (painted /\ w \in Move /\ ~handled /\ ~CursorVisible)
    BY <1>2 DEF Dispatch
  <2> HIDE DEF w
  <2>2. Damages(w, handled) \/ (w \in Move /\ ~handled /\ ~CursorVisible)
    BY DEF Damages
  <2> QED
    BY <2>1, <2>2, UISupervisorAssumption DEF Damages
<1> QED
  BY <1>1, <1>2

\* Every step keeps the Display painted or damaged, and painted when presented.
LEMMA PaintedStep == PaintedOrDamaged /\ [Next]_vars => PaintedOrDamaged'
<1> SUFFICES ASSUME PaintedOrDamaged, [Next]_vars
             PROVE  PaintedOrDamaged'
  OBVIOUS
<1> USE DEF PaintedOrDamaged, PresentsCurrent
<1>1. CASE NextEvent
  <2>1. phase' \in {"pump", "paint"}
    BY <1>1 DEF NextEvent
  <2>2. \/ UNCHANGED <<damaged, painted>>
        \/ \E e : Dispatch(e)
    BY <1>1 DEF NextEvent
  <2> QED
    BY <2>1, <2>2, DispatchDamages
<1>2. CASE Paint
  BY <1>2 DEF Paint
<1>3. CASE Present \/ PresentNothing \/ PresentBlank \/ NoWindow
  BY <1>3 DEF Present, PresentNothing, PresentBlank, NoWindow
<1>4. CASE NextStep
  BY <1>4 DEF NextStep
<1>5. CASE UserActs \/ \E e \in Posted : Post(e)
  BY <1>5 DEF UserActs, Post
<1>6. CASE Done \/ UNCHANGED vars
  BY <1>6 DEF Done, vars
<1> QED
  BY <1>1, <1>2, <1>3, <1>4, <1>5, <1>6 DEF Next

\* Although an undamaged screen is not painted, what is presented is what the
\* views would draw (UISupervisor>>dispatch and runStep).
THEOREM PresentsCurrentHolds == Spec => []PresentsCurrent
<1>1. Init => PaintedOrDamaged
  BY DEF Init, PaintedOrDamaged, PresentsCurrent
<1>2. PaintedOrDamaged => PresentsCurrent
  BY DEF PaintedOrDamaged
<1> QED
  BY <1>1, <1>2, PaintedStep, PTL DEF Spec
-----------------------------------------------------------------------------
(* The queue: what is told of a change, and when it is under way.           *)

\* What is queued, in a queue q, of the events in C.
Queued(q, C) == \E i \in DOMAIN q : q[i] \in C
Single(q, C) == \A i, j \in DOMAIN q : q[i] \in C /\ q[j] \in C => i = j

\* Of the button, the position and the key at most one change is under way: it
\* is that of the snapshot, l has been told of it, and the image (s) has not.
ButtonInv(q, l, s) ==
    /\ Single(q, Button)
    /\ \A i \in DOMAIN q : q[i] \in Button =>
          q[i][2] = l.down /\ l.down = snapshot.down /\ l.down # s.down
    /\ Queued(q, Button) \/ s.down = l.down

MoveInv(q, l, s) ==
    /\ Single(q, Move)
    /\ \A i \in DOMAIN q : q[i] \in Move => q[i][2] = l.pos /\ l.pos = snapshot.pos
    /\ Queued(q, Move) \/ s.pos = l.pos

\* A key of the snapshot that has not been harvested
Pending(l) == window /\ ~snapshot.quit /\ snapshot.key /\ ~l.key

KeyInv(q, l, o) ==
    /\ Single(q, {KeyDown})
    /\ Queued(q, {KeyDown}) => snapshot.key /\ l.key /\ o = 1
    /\ ~Queued(q, {KeyDown}) => o = IF Pending(l) THEN 1 ELSE 0

CloseInv(q, l) == l.quit => Queued(q, {Close}) \/ ~running

\* Once a pump has ended the snapshot is harvested, until there is another.
Harvest ==
    phase \in {"paint", "present"} =>
        /\ window /\ snapshot.quit => ~running
        /\ window /\ ~snapshot.quit => last.key = snapshot.key

\* Nothing that a harvest adds is left when the pump has ended, a close excepted.
Drained == phase # "pump" => \A i \in DOMAIN events : events[i] \in Posted \cup {Close}

\* A key that goes down is in one snapshot only.
KeyOnce ==
    /\ snapshot.key => wasHeld
    /\ ~window => ~last.key /\ ~snapshot.key

QueueInv ==
    /\ TypeOK
    /\ ButtonInv(events, last, told)
    /\ MoveInv(events, last, told)
    /\ KeyInv(events, last, owed) \/ (phase \in {"delay", "done"} /\ ~running)
    /\ CloseInv(events, last)
    /\ Harvest /\ Drained /\ KeyOnce
    /\ CaughtUp

\* No event is of two kinds.
LEMMA Kinds ==
    /\ Move \cap Button = {} /\ KeyDown \notin Move \cup Button
    /\ Close \notin Move \cup Button \cup {KeyDown}
    /\ \A e \in Posted : e \notin Move \cup Button \cup {KeyDown, Close}
    /\ \A e \in Button : e[2] \in BOOLEAN
    /\ \A e \in Move : e[2] \in Place
    /\ \A b : <<"button", b>> \notin Move \cup {KeyDown, Close}
    /\ \A x : <<"move", x>> \notin Button \cup {KeyDown, Close}
<1>1. /\ \A e \in Posted : e[1] = "posted"
      /\ \A e \in Move : e[1] = "move"
      /\ \A e \in Button : e[1] = "button"
      /\ KeyDown[1] = "key" /\ Close[1] = "close"
  BY DEF Posted, Move, Button, KeyDown, Close
<1>2. /\ \A e \in Button : e[2] \in BOOLEAN
      /\ \A e \in Move : e[2] \in Place
      /\ \A b : <<"button", b>> \notin Move \cup {KeyDown, Close}
      /\ \A x : <<"move", x>> \notin Button \cup {KeyDown, Close}
  BY DEF Move, Button, KeyDown, Close
<1> QED
  BY <1>1, <1>2

\* One event, if b.
LEMMA IfFacts ==
    ASSUME NEW b \in BOOLEAN, NEW e, b => e \in Event, NEW n, n = If(b, e)
    PROVE  /\ n \in Seq(Event)
           /\ \A C : Single(n, C) /\ (Queued(n, C) <=> b /\ e \in C)
           /\ \A i \in DOMAIN n : n[i] = e
<1>1. CASE b
  <2>1. n = <<e>>
    BY <1>1 DEF If
  <2>a. e \in Event
    BY <1>1
  <2>2. n \in Seq(Event) /\ DOMAIN n = {1} /\ n[1] = e
    BY <2>a, <2>1
  <2>3. ASSUME NEW C  PROVE Single(n, C) /\ (Queued(n, C) <=> e \in C)
    BY <2>2 DEF Single, Queued
  <2> QED
    BY <1>1, <2>2, <2>3
<1>2. CASE ~b
  <2>1. n = <<>>
    BY <1>2 DEF If
  <2> QED
    BY <1>2, <2>1 DEF Single, Queued
<1> QED
  BY <1>1, <1>2

\* What a harvest appends comes after what is there.
LEMMA ConcatFacts ==
    ASSUME NEW q \in Seq(Event), NEW n \in Seq(Event), NEW r, r = q \o n
    PROVE  /\ r \in Seq(Event)
           /\ \A C : Queued(r, C) <=> Queued(q, C) \/ Queued(n, C)
           /\ \A C : Single(q, C) /\ Single(n, C) /\ ~(Queued(q, C) /\ Queued(n, C)) => Single(r, C)
           /\ \A i \in DOMAIN r : \/ \E j \in DOMAIN q : r[i] = q[j]
                                  \/ \E j \in DOMAIN n : r[i] = n[j]
<1>1. /\ r \in Seq(Event) /\ Len(r) = Len(q) + Len(n) /\ Len(q) \in Nat /\ Len(n) \in Nat
      /\ DOMAIN r = 1..Len(r) /\ DOMAIN q = 1..Len(q) /\ DOMAIN n = 1..Len(n)
      /\ \A i \in 1..Len(r) : r[i] = IF i <= Len(q) THEN q[i] ELSE n[i - Len(q)]
  OBVIOUS
<1>2. \A i \in DOMAIN q : i \in DOMAIN r /\ r[i] = q[i]
  BY <1>1
<1>3. \A j \in DOMAIN n : j + Len(q) \in DOMAIN r /\ r[j + Len(q)] = n[j]
  BY <1>1
<1>4. \A i \in DOMAIN r : \/ i \in DOMAIN q /\ r[i] = q[i]
                          \/ i - Len(q) \in DOMAIN n /\ r[i] = n[i - Len(q)]
  BY <1>1
<1>5. \A i, j \in DOMAIN r : i - Len(q) = j - Len(q) => i = j
  BY <1>1
<1>6. ASSUME NEW C  PROVE Queued(r, C) <=> Queued(q, C) \/ Queued(n, C)
  BY <1>2, <1>3, <1>4 DEF Queued
<1>7. ASSUME NEW C, Single(q, C), Single(n, C), ~(Queued(q, C) /\ Queued(n, C))
      PROVE  Single(r, C)
  <2> SUFFICES ASSUME NEW i \in DOMAIN r, NEW j \in DOMAIN r, r[i] \in C, r[j] \in C
               PROVE  i = j
    BY DEF Single
  <2>1. CASE i \in DOMAIN q /\ r[i] = q[i] /\ j \in DOMAIN q /\ r[j] = q[j]
    BY <1>7, <2>1 DEF Single
  <2>2. CASE i - Len(q) \in DOMAIN n /\ r[i] = n[i - Len(q)] /\ j - Len(q) \in DOMAIN n /\ r[j] = n[j - Len(q)]
    BY <1>5, <1>7, <2>2 DEF Single
  <2>3. CASE Queued(q, C) /\ Queued(n, C)
    BY <1>7, <2>3
  <2> QED
    BY <1>4, <2>1, <2>2, <2>3 DEF Queued
<1> QED
  BY <1>1, <1>4, <1>6, <1>7

\* The first event, e, is taken from q, and t is left.
Popped(q, e, t) ==
    /\ q \in Seq(Event) /\ t \in Seq(Event) /\ Len(q) > 0 /\ Len(t) = Len(q) - 1
    /\ \A i \in 1..Len(t) : t[i] = q[i + 1]
    /\ e = q[1]

LEMMA TailFacts ==
    ASSUME NEW q, NEW e, NEW t, Popped(q, e, t)
    PROVE  /\ t \in Seq(Event) /\ e \in Event
           /\ \E i \in DOMAIN q : q[i] = e
           /\ \A C : Queued(q, C) => Queued(t, C) \/ e \in C
           /\ \A C : Queued(t, C) => Queued(q, C)
           /\ \A C : e \in C => Queued(q, C)
           /\ \A C : Single(q, C) => Single(t, C) /\ (e \in C => ~Queued(t, C))
           /\ \A i \in DOMAIN t : \E j \in DOMAIN q : t[i] = q[j]
<1>1. /\ t \in Seq(Event) /\ Len(q) \in Nat \ {0} /\ Len(t) = Len(q) - 1
      /\ DOMAIN t = 1..Len(t) /\ DOMAIN q = 1..Len(q) /\ q[1] \in Event
      /\ \A i \in 1..Len(t) : t[i] = q[i + 1]
      /\ e = q[1]
  BY DEF Popped
<1>2. 1 \in DOMAIN q /\ e \in Event
  BY <1>1
<1>3. \A i \in DOMAIN t : i + 1 \in DOMAIN q /\ t[i] = q[i + 1] /\ i + 1 # 1
  BY <1>1
<1>4. \A i \in DOMAIN q : i = 1 \/ (i - 1 \in DOMAIN t /\ t[i - 1] = q[i])
  BY <1>1
<1>5. \A i, j \in DOMAIN t : i + 1 = j + 1 => i = j
  BY <1>1
<1>6. ASSUME NEW C  PROVE Queued(q, C) <=> e \in C \/ Queued(t, C)
  BY <1>1, <1>2, <1>3, <1>4 DEF Queued
<1>7. ASSUME NEW C, Single(q, C)
      PROVE  Single(t, C) /\ (e \in C => ~Queued(t, C))
  <2>1. ASSUME NEW i \in DOMAIN t, NEW j \in DOMAIN t, t[i] \in C, t[j] \in C
        PROVE  i = j
    BY <1>3, <1>5, <1>7, <2>1 DEF Single
  <2>2. ASSUME NEW i \in DOMAIN t, t[i] \in C, e \in C
        PROVE  FALSE
    BY <1>1, <1>2, <1>3, <1>7, <2>2 DEF Single
  <2> QED
    BY <2>1, <2>2 DEF Single, Queued
<1> QED
  BY <1>1, <1>2, <1>3, <1>6, <1>7

Live == window /\ ~snapshot.quit

\* What a harvest adds.
LEMMA NewsFacts ==
    ASSUME TypeOK, NEW n, n = News
    PROVE  /\ n \in Seq(Event)
           /\ Single(n, Button) /\ Single(n, Move) /\ Single(n, {KeyDown})
           /\ Queued(n, Button) <=> Live /\ Pressed
           /\ Queued(n, Move) <=> Live /\ Moved
           /\ Queued(n, {KeyDown}) <=> Live /\ snapshot.key /\ ~last.key
           /\ Queued(n, {Close}) <=> window /\ snapshot.quit /\ ~last.quit
           /\ \A i \in DOMAIN n : /\ n[i] \in Button => n[i][2] = snapshot.down
                                  /\ n[i] \in Move => n[i][2] = snapshot.pos
<1> DEFINE m == <<"move", snapshot.pos>>
           b == <<"button", snapshot.down>>
           nm == If(Moved, m)
           nb == If(Pressed, b)
           key == snapshot.key /\ ~last.key
           open == ~last.quit
           nk == If(key, KeyDown)
           nc == If(open, Close)
<1>1. /\ Moved \in BOOLEAN /\ Pressed \in BOOLEAN
      /\ key \in BOOLEAN /\ open \in BOOLEAN
  BY DEF Moved, Pressed
<1>2. snapshot.pos \in Place \cup {Outside} /\ snapshot.down \in BOOLEAN
  BY DEF TypeOK, Where
<1>3. /\ Moved => m \in Move /\ m \in Event
      /\ b \in Button /\ b \in Event /\ KeyDown \in Event /\ Close \in Event
  BY <1>2 DEF Moved, Move, Button, Event
<1>4. /\ m \notin Button \cup {KeyDown, Close} /\ b \notin Move \cup {KeyDown, Close}
      /\ KeyDown \notin Move \cup Button \cup {Close} /\ Close \notin Move \cup Button \cup {KeyDown}
  BY Kinds
<1>5. m[2] = snapshot.pos /\ b[2] = snapshot.down
  OBVIOUS
<1> HIDE DEF m, b, key, open
<1>6. /\ nm \in Seq(Event)
      /\ \A C : Single(nm, C) /\ (Queued(nm, C) <=> Moved /\ m \in C)
      /\ \A i \in DOMAIN nm : nm[i] = m
  BY <1>1, <1>3, IfFacts
<1>7. /\ nb \in Seq(Event)
      /\ \A C : Single(nb, C) /\ (Queued(nb, C) <=> Pressed /\ b \in C)
      /\ \A i \in DOMAIN nb : nb[i] = b
  BY <1>1, <1>3, IfFacts
<1>8. /\ nk \in Seq(Event)
      /\ \A C : Single(nk, C) /\ (Queued(nk, C) <=> key /\ KeyDown \in C)
      /\ \A i \in DOMAIN nk : nk[i] = KeyDown
  BY <1>1, <1>3, IfFacts
<1>9. /\ nc \in Seq(Event)
      /\ \A C : Single(nc, C) /\ (Queued(nc, C) <=> open /\ Close \in C)
      /\ \A i \in DOMAIN nc : nc[i] = Close
  BY <1>1, <1>3, IfFacts
<1> HIDE DEF nm, nb, nk, nc
<1>10. CASE ~window
  <2>1. n = <<>>
    BY <1>10 DEF News
  <2> QED
    BY <1>10, <2>1 DEF Single, Queued, Live
<1>11. CASE window /\ snapshot.quit
  <2>1. n = nc
    BY <1>11 DEF News, nc, open
  <2> QED
    BY <1>4, <1>9, <1>11, <2>1 DEF Live, open
<1>12. CASE window /\ ~snapshot.quit
  <2> DEFINE n1 == nm \o nb
  <2>1. n = n1 \o nk
    BY <1>12 DEF News, nm, nb, nk, m, b, key
  <2>2. /\ n1 \in Seq(Event)
        /\ \A C : Queued(n1, C) <=> Queued(nm, C) \/ Queued(nb, C)
        /\ \A C : Single(nm, C) /\ Single(nb, C) /\ ~(Queued(nm, C) /\ Queued(nb, C)) => Single(n1, C)
        /\ \A i \in DOMAIN n1 : \/ \E j \in DOMAIN nm : n1[i] = nm[j]
                                \/ \E j \in DOMAIN nb : n1[i] = nb[j]
    BY <1>6, <1>7, ConcatFacts
  <2> HIDE DEF n1
  <2>3. /\ n \in Seq(Event)
        /\ \A C : Queued(n, C) <=> Queued(n1, C) \/ Queued(nk, C)
        /\ \A C : Single(n1, C) /\ Single(nk, C) /\ ~(Queued(n1, C) /\ Queued(nk, C)) => Single(n, C)
        /\ \A i \in DOMAIN n : \/ \E j \in DOMAIN n1 : n[i] = n1[j]
                               \/ \E j \in DOMAIN nk : n[i] = nk[j]
    BY <1>8, <2>1, <2>2, ConcatFacts
  <2>4. \A C : Queued(n, C) <=> \/ Moved /\ m \in C
                                \/ Pressed /\ b \in C
                                \/ key /\ KeyDown \in C
    BY <1>6, <1>7, <1>8, <2>2, <2>3
  <2>a. ASSUME NEW C, ~(m \in C /\ b \in C), ~(m \in C /\ KeyDown \in C), ~(b \in C /\ KeyDown \in C)
        PROVE  Single(n, C)
    <3>1. Single(n1, C)
      BY <1>6, <1>7, <2>2, <2>a
    <3>2. ~(Queued(n1, C) /\ Queued(nk, C))
      BY <1>6, <1>7, <1>8, <2>2, <2>a
    <3> QED
      BY <1>8, <2>3, <3>1, <3>2
  <2>5. Single(n, Button) /\ Single(n, Move) /\ Single(n, {KeyDown})
    BY <1>4, <2>a
  <2>6. \A i \in DOMAIN n : n[i] \in {m, b, KeyDown}
    BY <1>6, <1>7, <1>8, <2>2, <2>3
  <2>7. \A i \in DOMAIN n : /\ n[i] \in Button => n[i][2] = snapshot.down
                            /\ n[i] \in Move => n[i][2] = snapshot.pos
    BY <1>4, <1>5, <2>6
  <2> QED
    BY <1>3, <1>4, <1>12, <2>3, <2>4, <2>5, <2>7 DEF Live, key
<1> QED
  BY <1>10, <1>11, <1>12

\* What a harvest remembers.
LEMMA HarvestedFacts ==
    ASSUME TypeOK, NEW l, l = Harvested
    PROVE  /\ l \in [pos : Where, down : BOOLEAN, key : BOOLEAN, quit : BOOLEAN]
           /\ l.pos = IF Live /\ Moved THEN snapshot.pos ELSE last.pos
           /\ l.down = IF Live /\ Pressed THEN snapshot.down ELSE last.down
           /\ l.key = IF Live THEN snapshot.key ELSE last.key
           /\ l.quit <=> last.quit \/ (window /\ snapshot.quit)
<1> USE DEF TypeOK
<1>1. CASE ~window
  <2>1. l = last
    BY <1>1 DEF Harvested
  <2> QED BY <1>1, <2>1 DEF Live
<1>2. CASE window /\ snapshot.quit
  <2>1. l = [last EXCEPT !.quit = TRUE]
    BY <1>2 DEF Harvested
  <2> QED BY <1>2, <2>1 DEF Live
<1>3. CASE window /\ ~snapshot.quit
  <2>1. l = [last EXCEPT !.pos = IF Moved THEN snapshot.pos ELSE @,
                         !.down = IF Pressed THEN snapshot.down ELSE @,
                         !.key = snapshot.key]
    BY <1>3 DEF Harvested
  <2> QED BY <1>3, <2>1 DEF Live
<1> QED
  BY <1>1, <1>2, <1>3

LEMMA HarvestKeeps ==
    ASSUME TypeOK, ButtonInv(events, last, told), MoveInv(events, last, told),
           KeyInv(events, last, owed), CloseInv(events, last),
           NEW r, r = events \o News, NEW l, l = Harvested
    PROVE  /\ ButtonInv(r, l, told) /\ MoveInv(r, l, told)
           /\ KeyInv(r, l, owed) /\ CloseInv(r, l)
           /\ r \in Seq(Event)
<1> DEFINE n == News
<1>1. n = News /\ r = events \o n /\ events \in Seq(Event)
  BY DEF TypeOK
<1> HIDE DEF n
<1>2. /\ n \in Seq(Event)
      /\ Single(n, Button) /\ Single(n, Move) /\ Single(n, {KeyDown})
      /\ Queued(n, Button) <=> Live /\ Pressed
      /\ Queued(n, Move) <=> Live /\ Moved
      /\ Queued(n, {KeyDown}) <=> Live /\ snapshot.key /\ ~last.key
      /\ Queued(n, {Close}) <=> window /\ snapshot.quit /\ ~last.quit
      /\ \A i \in DOMAIN n : /\ n[i] \in Button => n[i][2] = snapshot.down
                             /\ n[i] \in Move => n[i][2] = snapshot.pos
  BY <1>1, NewsFacts
<1>3. /\ r \in Seq(Event)
      /\ \A C : Queued(r, C) <=> Queued(events, C) \/ Queued(n, C)
      /\ \A C : Single(events, C) /\ Single(n, C) /\ ~(Queued(events, C) /\ Queued(n, C)) => Single(r, C)
      /\ \A i \in DOMAIN r : \/ \E j \in DOMAIN events : r[i] = events[j]
                             \/ \E j \in DOMAIN n : r[i] = n[j]
  BY <1>1, <1>2, ConcatFacts
<1>4. /\ l.pos = IF Live /\ Moved THEN snapshot.pos ELSE last.pos
      /\ l.down = IF Live /\ Pressed THEN snapshot.down ELSE last.down
      /\ l.key = IF Live THEN snapshot.key ELSE last.key
      /\ l.quit <=> last.quit \/ (window /\ snapshot.quit)
  BY HarvestedFacts
<1>5. /\ Queued(events, Button) => last.down = snapshot.down /\ last.down # told.down
      /\ Queued(events, Move) => last.pos = snapshot.pos
  BY DEF Queued, ButtonInv, MoveInv
<1>6. ButtonInv(r, l, told)
  <2>1. ~(Queued(events, Button) /\ Queued(n, Button))
    BY <1>2, <1>5 DEF Pressed
  <2>2. Single(r, Button)
    BY <1>2, <1>3, <2>1 DEF ButtonInv
  <2>3. Queued(r, Button) \/ told.down = l.down
    BY <1>2, <1>3, <1>4 DEF ButtonInv
  <2>4. ASSUME NEW i \in DOMAIN r, r[i] \in Button
        PROVE  r[i][2] = l.down /\ l.down = snapshot.down /\ l.down # told.down
    <3>1. CASE \E j \in DOMAIN events : r[i] = events[j]
      <4>1. Queued(events, Button) /\ r[i][2] = last.down
        BY <2>4, <3>1 DEF Queued, ButtonInv
      <4> QED
        BY <1>2, <1>4, <1>5, <2>1, <4>1
    <3>2. CASE \E j \in DOMAIN n : r[i] = n[j]
      <4>1. Queued(n, Button) /\ r[i][2] = snapshot.down
        BY <1>2, <2>4, <3>2 DEF Queued
      <4>2. told.down = last.down /\ Live /\ Pressed
        BY <1>2, <2>1, <4>1 DEF ButtonInv
      <4> QED
        BY <1>4, <4>1, <4>2 DEF Pressed
    <3> QED BY <1>3, <3>1, <3>2
  <2> QED
    BY <2>2, <2>3, <2>4 DEF ButtonInv
<1>7. MoveInv(r, l, told)
  <2>1. ~(Queued(events, Move) /\ Queued(n, Move))
    BY <1>2, <1>5 DEF Moved
  <2>2. Single(r, Move)
    BY <1>2, <1>3, <2>1 DEF MoveInv
  <2>3. Queued(r, Move) \/ told.pos = l.pos
    BY <1>2, <1>3, <1>4 DEF MoveInv
  <2>4. ASSUME NEW i \in DOMAIN r, r[i] \in Move
        PROVE  r[i][2] = l.pos /\ l.pos = snapshot.pos
    <3>1. CASE \E j \in DOMAIN events : r[i] = events[j]
      <4>1. Queued(events, Move) /\ r[i][2] = last.pos
        BY <2>4, <3>1 DEF Queued, MoveInv
      <4> QED
        BY <1>2, <1>4, <1>5, <2>1, <4>1
    <3>2. CASE \E j \in DOMAIN n : r[i] = n[j]
      <4>1. Queued(n, Move) /\ r[i][2] = snapshot.pos
        BY <1>2, <2>4, <3>2 DEF Queued
      <4> QED
        BY <1>2, <1>4, <4>1
    <3> QED BY <1>3, <3>1, <3>2
  <2> QED
    BY <2>2, <2>3, <2>4 DEF MoveInv
<1>8. KeyInv(r, l, owed)
  <2>1. ~(Queued(events, {KeyDown}) /\ Queued(n, {KeyDown}))
    BY <1>2 DEF KeyInv
  <2>2. Single(r, {KeyDown})
    BY <1>2, <1>3, <2>1 DEF KeyInv
  <2> QED
    BY <1>2, <1>3, <1>4, <2>1, <2>2 DEF KeyInv, Pending, Live
<1>9. CloseInv(r, l)
  BY <1>2, <1>3, <1>4 DEF CloseInv
<1> QED
  BY <1>3, <1>6, <1>7, <1>8, <1>9

\* The image is told of the first event.
LEMMA DispatchKeeps ==
    ASSUME TypeOK, NEW q \in Seq(Event), q # <<>>, NEW l, NEW t, t = Tail(q),
           ButtonInv(q, l, told), MoveInv(q, l, told), KeyInv(q, l, owed), CloseInv(q, l),
           Dispatch(Head(q))
    PROVE  /\ ButtonInv(t, l, told') /\ MoveInv(t, l, told') /\ KeyInv(t, l, owed')
           /\ l.quit => Queued(t, {Close}) \/ ~running'
           /\ t \in Seq(Event)
           /\ told' \in [pos : Where, down : BOOLEAN] /\ owed' \in Nat
           /\ damaged' \in BOOLEAN /\ painted' \in BOOLEAN /\ running' \in BOOLEAN
<1> DEFINE e == Head(q)
<1>1. /\ t \in Seq(Event) /\ e \in Event
      /\ \E i \in DOMAIN q : q[i] = e
      /\ \A C : Queued(q, C) => Queued(t, C) \/ e \in C
      /\ \A C : Queued(t, C) => Queued(q, C)
      /\ \A C : e \in C => Queued(q, C)
      /\ \A C : Single(q, C) => Single(t, C) /\ (e \in C => ~Queued(t, C))
      /\ \A i \in DOMAIN t : \E j \in DOMAIN q : t[i] = q[j]
  <2>1. Popped(q, e, t)
    BY DEF Popped
  <2> HIDE DEF e
  <2> QED
    BY <2>1, TailFacts
<1>2. Dispatch(e)
  OBVIOUS
<1> HIDE DEF e
<1>3. told \in [pos : Where, down : BOOLEAN] /\ owed \in Nat
      /\ damaged \in BOOLEAN /\ painted \in BOOLEAN /\ running \in BOOLEAN
  BY DEF TypeOK
<1>4. /\ e \in Move => e[2] \in Place /\ e[2] = l.pos
      /\ e \in Button => e[2] \in BOOLEAN /\ e[2] = l.down /\ l.down = snapshot.down
  BY <1>1, Kinds DEF ButtonInv, MoveInv
<1>5. /\ told'.pos = IF e \in Move THEN e[2] ELSE told.pos
      /\ told'.down = IF e \in Button THEN e[2] ELSE told.down
      /\ told' \in [pos : Where, down : BOOLEAN]
  <2>1. told' = CASE e \in Move   -> [told EXCEPT !.pos = e[2]]
                  [] e \in Button -> [told EXCEPT !.down = e[2]]
                  [] OTHER        -> told
    BY <1>2, Kinds DEF Dispatch
  <2>2. CASE e \in Move
    <3>1. told' = [told EXCEPT !.pos = e[2]] /\ e \notin Button
      BY <2>1, <2>2, Kinds
    <3> QED
      BY <1>3, <1>4, <2>2, <3>1 DEF Where
  <2>3. CASE e \in Button
    <3>1. told' = [told EXCEPT !.down = e[2]] /\ e \notin Move
      BY <2>1, <2>3, Kinds
    <3> QED
      BY <1>3, <1>4, <2>3, <3>1
  <2>4. CASE e \notin Move \cup Button
    <3>1. told' = told
      BY <2>1, <2>4
    <3> QED
      BY <1>3, <2>4, <3>1
  <2> QED BY <2>2, <2>3, <2>4
<1>6. owed' = IF e = KeyDown THEN owed - 1 ELSE owed
  BY <1>2, Kinds DEF Dispatch
<1>7. ButtonInv(t, l, told')
  <2>1. CASE e \in Button
    <3>1. ~Queued(t, Button) /\ Single(t, Button)
      BY <1>1, <2>1 DEF ButtonInv
    <3>2. told'.down = l.down
      BY <1>4, <1>5, <2>1
    <3> QED
      BY <3>1, <3>2 DEF ButtonInv, Queued
  <2>2. CASE e \notin Button
    <3>1. told'.down = told.down
      BY <1>5, <2>2
    <3> QED
      BY <1>1, <2>2, <3>1 DEF ButtonInv
  <2> QED BY <2>1, <2>2
<1>8. MoveInv(t, l, told')
  <2>1. CASE e \in Move
    <3>1. ~Queued(t, Move) /\ Single(t, Move)
      BY <1>1, <2>1 DEF MoveInv
    <3>2. told'.pos = l.pos
      BY <1>4, <1>5, <2>1
    <3> QED
      BY <3>1, <3>2 DEF MoveInv, Queued
  <2>2. CASE e \notin Move
    <3>1. told'.pos = told.pos
      BY <1>5, <2>2
    <3> QED
      BY <1>1, <2>2, <3>1 DEF MoveInv
  <2> QED BY <2>1, <2>2
<1>9. KeyInv(t, l, owed') /\ owed' \in Nat
  <2>1. CASE e = KeyDown
    <3>1. ~Queued(t, {KeyDown}) /\ Single(t, {KeyDown}) /\ Queued(q, {KeyDown})
      BY <1>1, <2>1 DEF KeyInv
    <3>2. owed = 1 /\ l.key
      BY <3>1 DEF KeyInv
    <3>3. owed' = 0
      BY <1>6, <2>1, <3>2
    <3> QED
      BY <3>1, <3>2, <3>3 DEF KeyInv, Pending
  <2>2. CASE e # KeyDown
    <3>1. owed' = owed /\ (Queued(t, {KeyDown}) <=> Queued(q, {KeyDown})) /\ Single(t, {KeyDown})
      BY <1>1, <1>6, <2>2 DEF KeyInv
    <3> QED
      BY <1>3, <3>1 DEF KeyInv
  <2> QED BY <2>1, <2>2
<1>10. l.quit => Queued(t, {Close}) \/ ~running'
  <2>1. CASE What(e) = Close
    BY <1>2, <2>1 DEF Dispatch
  <2>2. CASE What(e) # Close
    <3>1. running' = running
      BY <1>2, <2>2 DEF Dispatch
    <3>2. e # Close
      BY <2>2, Kinds DEF What
    <3> QED
      BY <1>1, <3>1, <3>2 DEF CloseInv
  <2> QED BY <2>1, <2>2
<1>11. damaged' \in BOOLEAN /\ painted' \in BOOLEAN /\ running' \in BOOLEAN
  <2>1. CASE What(e) = Close
    BY <1>2, <1>3, <2>1 DEF Dispatch
  <2>2. CASE What(e) # Close
    BY <1>2, <1>3, <2>2 DEF Dispatch
  <2> QED BY <2>1, <2>2
<1> QED
  BY <1>1, <1>5, <1>7, <1>8, <1>9, <1>10, <1>11

\* A round of the pump: a harvest, and the first event is dispatched or the
\* pump has ended.
LEMMA NextEventStep == QueueInv /\ NextEvent => QueueInv'
<1> SUFFICES ASSUME QueueInv, NextEvent  PROVE QueueInv'
  OBVIOUS
<1> DEFINE r == events \o News
           l == Harvested
<1>1. /\ TypeOK /\ ButtonInv(events, last, told) /\ MoveInv(events, last, told)
      /\ KeyInv(events, last, owed) /\ CloseInv(events, last) /\ KeyOnce
  BY DEF QueueInv, NextEvent
<1>2. /\ last' = l /\ phase = "pump"
      /\ UNCHANGED <<user, windowed, window, snapshot, wasHeld>>
      /\ \/ r # <<>> /\ events' = Tail(r) /\ Dispatch(Head(r)) /\ phase' = phase
         \/ r = <<>> /\ phase' = "paint" /\ UNCHANGED <<events, running, damaged, painted, told, owed>>
  BY DEF NextEvent
<1>3. /\ ButtonInv(r, l, told) /\ MoveInv(r, l, told)
      /\ KeyInv(r, l, owed) /\ CloseInv(r, l)
      /\ r \in Seq(Event)
  BY <1>1, HarvestKeeps
<1>4. /\ l \in [pos : Where, down : BOOLEAN, key : BOOLEAN, quit : BOOLEAN]
      /\ l.pos = IF Live /\ Moved THEN snapshot.pos ELSE last.pos
      /\ l.down = IF Live /\ Pressed THEN snapshot.down ELSE last.down
      /\ l.key = IF Live THEN snapshot.key ELSE last.key
      /\ l.quit <=> last.quit \/ (window /\ snapshot.quit)
  BY <1>1, HarvestedFacts
<1>x. r = events \o News /\ events \in Seq(Event)
  BY <1>1 DEF TypeOK
<1> HIDE DEF r, l
<1>5. KeyOnce'
  BY <1>1, <1>2, <1>4 DEF KeyOnce, Live
<1>6. CASE r # <<>> /\ events' = Tail(r) /\ Dispatch(Head(r)) /\ phase' = phase
  <2>1. /\ ButtonInv(events', l, told') /\ MoveInv(events', l, told') /\ KeyInv(events', l, owed')
        /\ l.quit => Queued(events', {Close}) \/ ~running'
        /\ events' \in Seq(Event)
        /\ told' \in [pos : Where, down : BOOLEAN] /\ owed' \in Nat
        /\ damaged' \in BOOLEAN /\ painted' \in BOOLEAN /\ running' \in BOOLEAN
    BY <1>1, <1>3, <1>6, DispatchKeeps
  <2>2. TypeOK'
    BY <1>1, <1>2, <1>4, <1>6, <2>1 DEF TypeOK
  <2>3. ButtonInv(events, last, told)' /\ MoveInv(events, last, told)'
    BY <1>2, <2>1 DEF ButtonInv, MoveInv, Queued, Single
  <2>4. KeyInv(events, last, owed)'
    BY <1>2, <2>1 DEF KeyInv, Pending, Queued, Single
  <2>5. CloseInv(events, last)'
    BY <1>2, <2>1 DEF CloseInv, Queued
  <2>6. phase' = "pump"
    BY <1>2, <1>6
  <2> QED
    BY <1>5, <2>2, <2>3, <2>4, <2>5, <2>6 DEF QueueInv, Harvest, Drained, CaughtUp
<1>7. CASE r = <<>> /\ phase' = "paint" /\ UNCHANGED <<events, running, damaged, painted, told, owed>>
  <2>1. events = <<>>
    <3> DEFINE n == News
    <3>1. n \in Seq(Event) /\ r = events \o n
      BY <1>1, <1>x, NewsFacts
    <3> HIDE DEF n
    <3>2. Len(r) = Len(events) + Len(n)
      BY <1>x, <3>1
    <3>3. Len(r) = 0
      BY <1>7
    <3>4. Len(events) = 0
      BY <1>x, <3>1, <3>2, <3>3
    <3> QED
      BY <1>x, <3>4
  <2>2. \A C : ~Queued(r, C)
    BY <1>7 DEF Queued
  <2>3. TypeOK'
    BY <1>1, <1>2, <1>4, <1>7 DEF TypeOK
  <2>4. ButtonInv(events, last, told)' /\ MoveInv(events, last, told)'
    BY <1>2, <1>3, <1>7, <2>1 DEF ButtonInv, MoveInv, Queued, Single
  <2>5. KeyInv(events, last, owed)'
    BY <1>2, <1>3, <1>7, <2>1 DEF KeyInv, Pending, Queued, Single
  <2>6. CloseInv(events, last)' /\ (l.quit => ~running)
    BY <1>2, <1>3, <1>7, <2>1, <2>2 DEF CloseInv, Queued
  <2>7. Harvest'
    BY <1>2, <1>4, <1>7, <2>1, <2>6 DEF Harvest, Live
  <2>8. Drained'
    BY <1>7, <2>1 DEF Drained
  <2>9. CaughtUp'
    <3> SUFFICES ASSUME window, ~snapshot.quit
                 PROVE  /\ owed = 0
                        /\ snapshot.pos # Outside =>
                              told = [pos |-> snapshot.pos, down |-> snapshot.down]
      BY <1>2, <1>7, <2>1 DEF CaughtUp
    <3>1. Live /\ l.key = snapshot.key
      BY <1>4 DEF Live
    <3>2. owed = 0
      BY <1>3, <2>2, <3>1 DEF KeyInv, Pending
    <3>3. told.down = l.down /\ told.pos = l.pos
      BY <1>3, <2>2 DEF ButtonInv, MoveInv
    <3>4. snapshot.pos # Outside => l.down = snapshot.down /\ l.pos = snapshot.pos
      BY <1>4, <3>1 DEF Moved, Pressed
    <3>5. told = [pos |-> told.pos, down |-> told.down]
      BY <1>1 DEF TypeOK
    <3> QED
      BY <3>2, <3>3, <3>4, <3>5
  <2> QED
    BY <1>5, <2>3, <2>4, <2>5, <2>6, <2>7, <2>8, <2>9 DEF QueueInv
<1> QED
  BY <1>2, <1>6, <1>7

\* What is neither of the loop nor of the window: the queue may grow by an event
\* of any kind that others have posted, and the window's failure posts a close.
LEMMA PostedFacts ==
    ASSUME NEW q \in Seq(Event), NEW e \in Posted \cup {Close}, NEW r, r = Append(q, e)
    PROVE  /\ r \in Seq(Event)
           /\ \A i \in DOMAIN q : i \in DOMAIN r /\ r[i] = q[i]
           /\ \A i \in DOMAIN r : i \in DOMAIN q \/ r[i] = e
BY DEF Event

LEMMA PostedKeeps ==
    ASSUME NEW q \in Seq(Event), NEW e \in Posted \cup {Close}, NEW r, r = Append(q, e), NEW l,
           NEW s, NEW o
    PROVE  /\ ButtonInv(q, l, s) => ButtonInv(r, l, s)
           /\ MoveInv(q, l, s) => MoveInv(r, l, s)
           /\ KeyInv(q, l, o) => KeyInv(r, l, o)
           /\ CloseInv(q, l) => CloseInv(r, l)
<1>1. /\ \A i \in DOMAIN q : i \in DOMAIN r /\ r[i] = q[i]
      /\ \A i \in DOMAIN r : i \in DOMAIN q \/ r[i] = e
  BY PostedFacts
<1>2. e \notin Button /\ e \notin Move /\ e \notin {KeyDown}
  BY Kinds
<1>3. ASSUME NEW C, e \notin C
      PROVE  /\ Queued(r, C) <=> Queued(q, C)
             /\ Single(q, C) => Single(r, C)
             /\ \A i \in DOMAIN r : r[i] \in C => i \in DOMAIN q /\ r[i] = q[i]
  BY <1>1, <1>3 DEF Queued, Single
<1>4. Queued(q, {Close}) => Queued(r, {Close})
  BY <1>1 DEF Queued
<1>5. ButtonInv(q, l, s) => ButtonInv(r, l, s)
  BY <1>2, <1>3 DEF ButtonInv
<1>6. MoveInv(q, l, s) => MoveInv(r, l, s)
  BY <1>2, <1>3 DEF MoveInv
<1>7. KeyInv(q, l, o) => KeyInv(r, l, o)
  BY <1>2, <1>3 DEF KeyInv
<1> QED
  BY <1>4, <1>5, <1>6, <1>7 DEF CloseInv

LEMMA PostStep == QueueInv /\ (\E e \in Posted : Post(e)) => QueueInv'
<1> SUFFICES ASSUME QueueInv, NEW e \in Posted, Post(e)  PROVE QueueInv'
  OBVIOUS
<1>1. /\ e \in Posted \cup {Close} /\ events' = Append(events, e) /\ events \in Seq(Event)
      /\ UNCHANGED <<user, windowed, window, snapshot, wasHeld, last, phase, running,
                     damaged, told, owed, painted>>
  BY DEF Post, QueueInv, TypeOK
<1>2. /\ events' \in Seq(Event)
      /\ \A i \in DOMAIN events' : i \in DOMAIN events \/ events'[i] = e
      /\ \A i \in DOMAIN events : events'[i] = events[i]
  BY <1>1, PostedFacts
<1>3. /\ ButtonInv(events, last, told) => ButtonInv(events', last, told)
      /\ MoveInv(events, last, told) => MoveInv(events', last, told)
      /\ KeyInv(events, last, owed) => KeyInv(events', last, owed)
      /\ CloseInv(events, last) => CloseInv(events', last)
  BY <1>1, PostedKeeps
<1>4. TypeOK'
  BY <1>1, <1>2 DEF TypeOK, QueueInv
<1>5. /\ ButtonInv(events, last, told)' /\ MoveInv(events, last, told)'
      /\ KeyInv(events, last, owed) => KeyInv(events, last, owed)'
      /\ CloseInv(events, last)'
  BY <1>1, <1>3 DEF QueueInv, ButtonInv, MoveInv, KeyInv, CloseInv, Pending, Queued, Single
<1>6. Harvest' /\ KeyOnce'
  BY <1>1 DEF QueueInv, Harvest, KeyOnce
<1>7. Drained' /\ CaughtUp'
  BY <1>1, <1>2 DEF QueueInv, Drained, CaughtUp
<1> QED
  BY <1>1, <1>4, <1>5, <1>6, <1>7 DEF QueueInv

LEMMA NoWindowStep == QueueInv /\ NoWindow => QueueInv'
<1> SUFFICES ASSUME QueueInv, NoWindow  PROVE QueueInv'
  OBVIOUS
<1>1. /\ phase = "present" /\ phase' = "delay" /\ windowed' = FALSE
      /\ events' = Append(events, Close) /\ events \in Seq(Event) /\ Close \in Posted \cup {Close}
      /\ UNCHANGED <<user, window, snapshot, wasHeld, last, running, damaged, told, owed, painted>>
  BY DEF NoWindow, QueueInv, TypeOK
<1>2. /\ events' \in Seq(Event)
      /\ \A i \in DOMAIN events' : i \in DOMAIN events \/ events'[i] = Close
      /\ \A i \in DOMAIN events : events'[i] = events[i]
  BY <1>1, PostedFacts
<1>3. /\ ButtonInv(events, last, told) => ButtonInv(events', last, told)
      /\ MoveInv(events, last, told) => MoveInv(events', last, told)
      /\ KeyInv(events, last, owed) => KeyInv(events', last, owed)
      /\ CloseInv(events, last) => CloseInv(events', last)
  BY <1>1, PostedKeeps
<1>4. TypeOK'
  BY <1>1, <1>2 DEF TypeOK, QueueInv
<1>5. /\ ButtonInv(events, last, told)' /\ MoveInv(events, last, told)'
      /\ KeyInv(events, last, owed)'
      /\ CloseInv(events, last)'
  BY <1>1, <1>3 DEF QueueInv, ButtonInv, MoveInv, KeyInv, CloseInv, Pending, Queued, Single
<1>6. Harvest' /\ KeyOnce' /\ CaughtUp'
  BY <1>1 DEF QueueInv, Harvest, KeyOnce, CaughtUp
<1>7. Drained'
  BY <1>1, <1>2 DEF QueueInv, Drained
<1> QED
  BY <1>1, <1>4, <1>5, <1>6, <1>7 DEF QueueInv

\* An update of the window: all of the snapshot before it has been told, and if
\* the loop goes on none of the keys in it is one that was down before.
LEMMA PresentStep == QueueInv /\ Present => QueueInv'
<1> SUFFICES ASSUME QueueInv, Present  PROVE QueueInv'
  OBVIOUS
<1>1. /\ phase = "present" /\ phase' = "delay" /\ window' = TRUE
      /\ snapshot' = Refreshed /\ wasHeld' = user.key
      /\ owed' = IF Refreshed.key /\ ~Refreshed.quit THEN owed + 1 ELSE owed
      /\ UNCHANGED <<user, windowed, last, events, running, damaged, told, painted>>
  BY DEF Present
<1>2. /\ TypeOK /\ ButtonInv(events, last, told) /\ MoveInv(events, last, told)
      /\ KeyInv(events, last, owed) /\ CloseInv(events, last) /\ KeyOnce
      /\ \A i \in DOMAIN events : events[i] \in Posted \cup {Close}
      /\ window /\ snapshot.quit => ~running
      /\ window /\ ~snapshot.quit => last.key = snapshot.key
  BY <1>1 DEF QueueInv, Harvest, Drained
<1>3. /\ Refreshed \in [pos : Where, down : BOOLEAN, key : BOOLEAN, quit : BOOLEAN]
      /\ Refreshed.key <=> user.key /\ ~wasHeld
      /\ user.key \in BOOLEAN /\ owed \in Nat
  BY <1>2 DEF Refreshed, TypeOK
<1>4. \A C \in {Button, Move, {KeyDown}} : \A i \in DOMAIN events : events[i] \notin C
  BY <1>2, Kinds
<1>5. TypeOK'
  BY <1>1, <1>2, <1>3 DEF TypeOK
<1>6. ButtonInv(events, last, told)' /\ MoveInv(events, last, told)' /\ CloseInv(events, last)'
  BY <1>1, <1>2, <1>4 DEF ButtonInv, MoveInv, CloseInv, Queued, Single
<1>7. ASSUME running  PROVE KeyInv(events, last, owed)'
  <2>1. owed = 0
    BY <1>2, <1>4, <1>7 DEF KeyInv, Pending, Queued
  <2>2. last.key => wasHeld
    BY <1>2, <1>7 DEF KeyOnce
  <2>3. owed' = IF Refreshed.key /\ ~Refreshed.quit THEN 1 ELSE 0
    BY <1>1, <2>1
  <2>4. Pending(last)' <=> Refreshed.key /\ ~Refreshed.quit
    BY <1>1, <1>3, <2>2 DEF Pending
  <2>5. ~Queued(events', {KeyDown}) /\ Single(events', {KeyDown})
    BY <1>1, <1>4 DEF Queued, Single
  <2> QED
    BY <2>3, <2>4, <2>5 DEF KeyInv, Pending, Queued, Single
<1>8. Harvest' /\ Drained' /\ CaughtUp'
  BY <1>1, <1>2 DEF Harvest, Drained, CaughtUp
<1>9. KeyOnce'
  BY <1>1, <1>3 DEF KeyOnce
<1> QED
  BY <1>1, <1>5, <1>6, <1>7, <1>8, <1>9 DEF QueueInv

\* A window whose first update has failed has reported no button and no key.
LEMMA PresentBlankStep == QueueInv /\ PresentBlank => QueueInv'
<1> SUFFICES ASSUME QueueInv, PresentBlank  PROVE QueueInv'
  OBVIOUS
<1>1. PICK p \in Where : snapshot' = [snapshot EXCEPT !.pos = p]
  BY DEF PresentBlank
<1>2. /\ phase = "present" /\ phase' = "delay" /\ ~window /\ window' = TRUE
      /\ UNCHANGED <<user, windowed, wasHeld, last, events, running, damaged, told,
                     owed, painted>>
  BY DEF PresentBlank
<1>3. /\ TypeOK /\ ButtonInv(events, last, told) /\ MoveInv(events, last, told)
      /\ KeyInv(events, last, owed) /\ CloseInv(events, last) /\ KeyOnce
      /\ \A i \in DOMAIN events : events[i] \in Posted \cup {Close}
  BY <1>2 DEF QueueInv, Drained
<1>4. \A C \in {Button, Move, {KeyDown}} : \A i \in DOMAIN events : events[i] \notin C
  BY <1>3, Kinds
<1>5. /\ snapshot' \in [pos : Where, down : BOOLEAN, key : BOOLEAN, quit : BOOLEAN]
      /\ snapshot'.key = snapshot.key
  BY <1>1, <1>3 DEF TypeOK
<1>6. TypeOK'
  BY <1>2, <1>3, <1>5 DEF TypeOK
<1>7. ButtonInv(events, last, told)' /\ MoveInv(events, last, told)' /\ CloseInv(events, last)'
  BY <1>2, <1>3, <1>4 DEF ButtonInv, MoveInv, CloseInv, Queued, Single
<1>8. KeyInv(events, last, owed)'
  <2>1. ~Pending(last) /\ ~Pending(last)'
    BY <1>2, <1>3, <1>5 DEF Pending, KeyOnce
  <2>2. owed = 0
    BY <1>3, <1>4, <2>1 DEF KeyInv, Queued
  <2> QED
    BY <1>2, <1>4, <2>1, <2>2 DEF KeyInv, Queued, Single
<1>9. Harvest' /\ Drained' /\ CaughtUp' /\ KeyOnce'
  BY <1>2, <1>3, <1>5 DEF Harvest, Drained, CaughtUp, KeyOnce
<1> QED
  BY <1>6, <1>7, <1>8, <1>9 DEF QueueInv

\* The steps that leave queue and window alone.
LEMMA QuietStep ==
    ASSUME QueueInv,
           UNCHANGED <<window, snapshot, wasHeld, last, events, running, told, owed>>,
           TypeOK',
           \/ phase' = phase
           \/ phase = "paint" /\ phase' = "present"
           \/ phase = "present" /\ phase' = "delay"
           \/ phase = "delay" /\ phase' = IF running THEN "pump" ELSE "done"
    PROVE  QueueInv'
<1>1. ButtonInv(events, last, told)' /\ MoveInv(events, last, told)'
  BY DEF QueueInv, ButtonInv, MoveInv, Queued, Single
<1>2. KeyInv(events, last, owed) => KeyInv(events, last, owed)'
  BY DEF KeyInv, Pending, Queued, Single
<1>3. KeyInv(events, last, owed)' \/ (phase' \in {"delay", "done"} /\ ~running')
  BY <1>2 DEF QueueInv
<1>4. CloseInv(events, last)'
  BY DEF QueueInv, CloseInv, Queued
<1>5. Harvest'
  BY DEF QueueInv, Harvest
<1>6. Drained'
  BY DEF QueueInv, Drained
<1>7. KeyOnce'
  BY DEF QueueInv, KeyOnce
<1>8. CaughtUp'
  BY DEF QueueInv, CaughtUp
<1> QED
  BY <1>1, <1>3, <1>4, <1>5, <1>6, <1>7, <1>8 DEF QueueInv

LEMMA QueueStep == QueueInv /\ [Next]_vars => QueueInv'
<1> SUFFICES ASSUME QueueInv, [Next]_vars  PROVE QueueInv'
  OBVIOUS
<1>t. TypeOK
  BY DEF QueueInv
<1>1. CASE NextEvent
  BY <1>1, NextEventStep
<1>2. CASE Paint
  <2>1. TypeOK'
    BY <1>t, <1>2 DEF TypeOK, Paint, AfterPaint, hostUi
  <2> QED
    BY <1>2, <2>1, QuietStep DEF Paint, AfterPaint, hostUi
<1>3. CASE Present
  BY <1>3, PresentStep
<1>4. CASE PresentNothing
  <2>1. TypeOK'
    BY <1>t, <1>4 DEF TypeOK, PresentNothing, hostUi
  <2> QED
    BY <1>4, <2>1, QuietStep DEF PresentNothing, hostUi
<1>5. CASE NoWindow
  BY <1>5, NoWindowStep
<1>b. CASE PresentBlank
  BY <1>b, PresentBlankStep
<1>6. CASE NextStep
  <2>1. TypeOK'
    BY <1>t, <1>6 DEF TypeOK, NextStep, hostUi
  <2> QED
    BY <1>6, <2>1, QuietStep DEF NextStep, hostUi
<1>7. CASE UserActs
  <2>1. user' \in [pos : Where, down : BOOLEAN, key : BOOLEAN, quit : BOOLEAN]
    BY <1>t, <1>7 DEF TypeOK, UserActs
  <2>2. TypeOK'
    BY <1>t, <1>7, <2>1 DEF TypeOK, UserActs, hostUi
  <2> QED
    BY <1>7, <2>2, QuietStep DEF UserActs, hostUi
<1>8. CASE \E e \in Posted : Post(e)
  BY <1>8, PostStep
<1>9. CASE Done \/ UNCHANGED vars
  <2>1. TypeOK'
    BY <1>t, <1>9 DEF TypeOK, Done, vars, hostUi
  <2> QED
    BY <1>9, <2>1, QuietStep DEF Done, vars, hostUi
<1> QED
  BY <1>1, <1>2, <1>3, <1>4, <1>5, <1>6, <1>7, <1>8, <1>9, <1>b DEF Next

LEMMA QueueInit == Init => QueueInv
<1> SUFFICES ASSUME Init  PROVE QueueInv
  OBVIOUS
<1> USE DEF Init
<1>1. TypeOK
  <2>1. /\ user \in [pos : Where, down : BOOLEAN, key : BOOLEAN, quit : BOOLEAN]
        /\ told \in [pos : Where, down : BOOLEAN]
    BY DEF Where
  <2>2. events \in Seq(Event) /\ owed \in Nat /\ snapshot = user /\ last = user
    OBVIOUS
  <2>3. {windowed, window, wasHeld, running, damaged, painted} \subseteq BOOLEAN /\ phase = "pump"
    OBVIOUS
  <2> QED
    BY ONLY <2>1, <2>2, <2>3 DEF TypeOK
<1>2. ButtonInv(events, last, told) /\ MoveInv(events, last, told)
      /\ KeyInv(events, last, owed) /\ CloseInv(events, last)
  BY DEF ButtonInv, MoveInv, KeyInv, CloseInv, Pending, Queued, Single
<1>3. Harvest /\ Drained /\ KeyOnce /\ CaughtUp
  BY DEF Harvest, Drained, KeyOnce, CaughtUp
<1> QED
  BY <1>1, <1>2, <1>3 DEF QueueInv

\* The inductive invariant of the queue, whatever is posted into it: of what the
\* window reports at most one change of the mouse, of the button and of the key is
\* under way, what the host holds is what the window's events have told the image
\* and are about to tell it, and a pump leaves none of them (src/src/host_ui.rs,
\* ingest_window_state and next_event).
THEOREM QueueInvHolds == Spec => []QueueInv
<1> QED
  BY QueueInit, QueueStep, PTL DEF Spec

\* The variables of the loop and of the host keep their types: a keystroke the
\* window reported is not dispatched twice, whatever keys are posted beside it.
THEOREM TypeCorrect == Spec => []TypeOK
<1>1. QueueInv => TypeOK
  BY DEF QueueInv
<1> QED
  BY <1>1, QueueInvHolds, PTL

\* After a pump the image has been told all that the window has reported, each
\* keystroke once, and only posted events are queued (src/src/host_ui.rs:282).
THEOREM CaughtUpHolds == Spec => []CaughtUp
<1>1. QueueInv => CaughtUp
  BY DEF QueueInv
<1> QED
  BY <1>1, QueueInvHolds, PTL

\* The window's button events in the queue are each the opposite of the one before,
\* and lead from what they have told the image to what the host holds
\* (src/src/host_ui.rs:288), whatever is posted between them.
THEOREM EdgesAddUpHolds == Spec => []EdgesAddUp
<1>1. QueueInv => EdgesAddUp
  <2> SUFFICES ASSUME QueueInv  PROVE EdgesAddUp
    OBVIOUS
  <2> DEFINE earlier(i) == {j \in 1..(i - 1) : events[j] \in Button}
  <2>1. ButtonInv(events, last, told) /\ events \in Seq(Event)
    BY DEF QueueInv, TypeOK
  <2>2. Len(events) \in Nat /\ DOMAIN events = 1..Len(events)
    BY <2>1
  <2>3. \A i \in 1..(Len(events) + 1) : earlier(i) = {} => ToldBefore(i) = told.down
    BY DEF ToldBefore
  <2>4. ASSUME NEW i \in 1..(Len(events) + 1), NEW j \in earlier(i)
        PROVE  ToldBefore(i) = last.down
    <3>1. j \in DOMAIN events /\ events[j] \in Button /\ j \in Nat
      BY <2>2
    <3>2. \A k \in earlier(i) : k \in DOMAIN events /\ events[k] \in Button
      BY <2>2
    <3>3. \A k \in earlier(i) : k = j
      BY <2>1, <3>1, <3>2 DEF ButtonInv, Single
    <3> DEFINE latest == CHOOSE m \in earlier(i) : \A k \in earlier(i) : k <= m
    <3>4. latest = j
      BY <3>1, <3>3
    <3>5. ToldBefore(i) = events[latest][2]
      BY DEF ToldBefore
    <3> QED
      BY <2>1, <3>1, <3>4, <3>5 DEF ButtonInv
  <2>5. ASSUME NEW i \in DOMAIN events, events[i] \in Button
        PROVE  events[i][2] # ToldBefore(i)
    <3>1. i \in 1..(Len(events) + 1) /\ i \in Nat
      BY <2>2
    <3>2. \A j \in earlier(i) : j \in DOMAIN events /\ events[j] \in Button /\ j # i
      BY <2>2
    <3>3. earlier(i) = {}
      BY <2>1, <2>5, <3>2 DEF ButtonInv, Single
    <3>4. ToldBefore(i) = told.down
      BY <2>3, <3>1, <3>3
    <3> QED
      BY <2>1, <2>5, <3>4 DEF ButtonInv
  <2>6. last.down = ToldBefore(Len(events) + 1)
    <3>1. Len(events) + 1 \in 1..(Len(events) + 1) /\ (Len(events) + 1) - 1 = Len(events)
      BY <2>2
    <3>2. CASE Queued(events, Button)
      <4>1. PICK j \in DOMAIN events : events[j] \in Button
        BY <3>2 DEF Queued
      <4>2. j \in earlier(Len(events) + 1)
        BY <2>2, <3>1, <4>1
      <4> QED
        BY <2>4, <3>1, <4>2
    <3>3. CASE ~Queued(events, Button)
      <4>1. earlier(Len(events) + 1) = {}
        BY <2>2, <3>1, <3>3 DEF Queued
      <4>2. told.down = last.down
        BY <2>1, <3>3 DEF ButtonInv
      <4> QED
        BY <2>3, <3>1, <4>1, <4>2
    <3> QED
      BY <3>2, <3>3
  <2> QED
    BY <2>5, <2>6 DEF EdgesAddUp
<1> QED
  BY <1>1, QueueInvHolds, PTL
=============================================================================
