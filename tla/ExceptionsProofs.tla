-------------------------- MODULE ExceptionsProofs --------------------------
(***************************************************************************)
(* What the unwinder, the handler primitives and the image code over them   *)
(* keep true of a stack, for every number of exceptions and classes, every  *)
(* length of stack, and with or without pass, kills and dead returns.       *)
(*                                                                         *)
(* StackInv is inductive.  It is a conjunction of parts, each about the      *)
(* stack and one thing that may go wrong with it.  An action is a chain of   *)
(* pops, pushes and writes of one slot; each of these keeps the parts (Pop-, *)
(* Push- and TurnStacked), and the lemma of an action puts them together.    *)
(***************************************************************************)
EXTENDS Exceptions, SequenceLemmas

\* The frame that t names in the stack s is there, and is one an unwind can go
\* to: a method, an on:do: or a signal.
ArrivesIn(s, t) ==
    /\ t.off \in 1..Len(s) /\ s[t.off].serial = t.serial
    /\ s[t.off].kind \in {"code", "handler", "signal"}

\* No serial names two frames.
Numbering(s, n) ==
    /\ s \in Seq(FrameType) /\ n \in Nat
    /\ \A i \in 1..Len(s) : s[i].serial <= n
    /\ \A i, j \in 1..Len(s) : i < j => s[i].serial < s[j].serial

Bottom(s) == Len(s) > 0 /\ s[1].kind = "code" /\ ~s[1].cont

\* An unwind that is put off goes further down, and the frame above, which ends
\* with it, has it beneath.
PutOff(s) ==
    \A i \in 1..Len(s) :
        /\ s[i].pending # Nowhere => s[i].pending.off < i /\ ArrivesIn(s, s[i].pending)
        /\ s[i].cont => i > 1 /\ s[i - 1].pending # Nowhere

\* The slot of a frame that guards says whether its block was started.
BlockIn(f) ==
    /\ f.kind \in {"ensure", "curtail"} =>
          f.slot \in {"armed", "taken", "nil"} /\ (f.ran <=> f.slot = "nil")
    /\ f.slot = "taken" => f.kind = "ensure"
    /\ f.kind \in {"signal", "handling"} => f.of \in Exception

Blocks(s) == \A i \in 1..Len(s) : BlockIn(s[i])

\* A handler block runs above the handler it is for, which is in progress, and
\* no other is for that handler.
InProgress(f, h) == h.kind = "handler" /\ h.slot = "running" /\ h.serial = f.for

Handlings(s) ==
    \A j \in 1..Len(s) : s[j].kind = "handling" =>
        /\ \E h \in 1..(j - 1) : InProgress(s[j], s[h])
        /\ \A k \in 1..Len(s) : s[k].kind = "handling" /\ s[k].for = s[j].for => k = j

\* What t names is a frame of that kind, if it is there still.
Names(s, n, t, kind) ==
    /\ t \in Target /\ t.serial <= n
    /\ t.off \in 1..Len(s) /\ s[t.off].serial = t.serial => s[t.off].kind = kind

Known(s, n, x) ==
    /\ x \in [Exception -> [class : Class, signal : Target, handler : Target]]
    /\ \A e \in Exception : Names(s, n, x[e].signal, "signal") /\ Names(s, n, x[e].handler, "handler")

\* The exception of the handler block at i is the one it was started for.
CurrentAt(s, i, r) ==
    /\ i > 1 /\ r.signal = At(i - 1, s[i - 1].serial)
    /\ r.handler.serial = s[i].for
    /\ \E h \in 1..(i - 1) : r.handler = At(h, s[h].serial)

Current(s, x) ==
    "pass" \notin Outcomes =>
        \A i \in 1..Len(s) : s[i].kind = "handling" => CurrentAt(s, i, x[s[i].of])

Stacked(s, n, x) ==
    Numbering(s, n) /\ Bottom(s) /\ PutOff(s) /\ Blocks(s) /\ Handlings(s)
        /\ Known(s, n, x) /\ Current(s, x)

\* What o says is to be done next can be done with the stack s.
Ready(s, o) ==
    /\ o \in Op
    /\ o.do = "run" => o = Run
    /\ o.do = "unwind" => ArrivesIn(s, o.to)
    /\ o.do = "return" /\ s[Len(s)].kind = "ensure" => s[Len(s)].ran
    /\ o.do = "fatal" => DeadReturnScope = "any"

\* Where nobody kills between the two steps of ensure:, a frame that is between
\* them is the top one.
TakenOnTop(s, o) ==
    KillScope # "any" =>
        \A i \in 1..Len(s) : s[i].slot = "taken" => i = Len(s) /\ o.do = "run"

Whole(s, n, o, x) == Stacked(s, n, x) /\ Ready(s, o) /\ TakenOnTop(s, o)

StackInv == Whole(frames, serial, op, exc)

\* A stack on which no frame is between the two steps, unless kills hit there.
Calm(s, n, x) ==
    /\ Stacked(s, n, x)
    /\ KillScope # "any" => \A i \in 1..Len(s) : s[i].slot # "taken"

-----------------------------------------------------------------------------
(* Stacks.                                                                  *)

LEMMA StackFacts ==
    ASSUME NEW s \in Seq(FrameType)
    PROVE  /\ Len(s) \in Nat /\ DOMAIN s = 1..Len(s)
           /\ \A i \in 1..Len(s) : s[i] \in FrameType
           /\ Last(s) = s[Len(s)]
BY SeqFacts DEF Last

LEMMA FrontFacts ==
    ASSUME NEW s \in Seq(FrameType), Len(s) > 0, NEW r, r = Front(s)
    PROVE  /\ r \in Seq(FrameType) /\ Len(r) = Len(s) - 1
           /\ \A i \in 1..Len(r) : r[i] = s[i]
<1>1. Len(s) \in Nat /\ \A i \in 1..Len(s) : s[i] \in FrameType
  BY StackFacts
<1>2. \A i \in 1..(Len(s) - 1) : s[i] \in FrameType
  BY <1>1
<1> DEFINE m == Len(s) - 1
<1>3. m \in Nat
  BY <1>1
<1> HIDE DEF m
<1>4. \A i \in Nat : 1 + i - 1 = i
  OBVIOUS
<1>5. /\ 1 \in Int /\ m \in Int /\ m - 1 + 1 = m
      /\ (IF 1 <= m THEN m - 1 + 1 ELSE 0) = m
  BY <1>3
<1>6. /\ SubSeq(s, 1, m) \in Seq(FrameType)
      /\ Len(SubSeq(s, 1, m)) = IF 1 <= m THEN m - 1 + 1 ELSE 0
      /\ \A i \in 1..(m - 1 + 1) : SubSeq(s, 1, m)[i] = s[1 + i - 1]
  BY <1>2, <1>5, SubSeqProperties DEF m
<1>7. r = SubSeq(s, 1, m)
  BY DEF Front, m
<1>8. Len(r) = m
  BY <1>5, <1>6, <1>7
<1>9. \A i \in 1..m : i \in Nat /\ r[i] = s[i]
  BY <1>4, <1>5, <1>6, <1>7
<1> QED
  BY <1>6, <1>7, <1>8, <1>9 DEF m

\* The top frame goes.
LEMMA PopStacked ==
    ASSUME NEW s, NEW n, NEW x, Stacked(s, n, x), Len(s) > 1, NEW r, r = Front(s)
    PROVE  /\ Stacked(r, n, x) /\ Len(r) = Len(s) - 1
           /\ \A i \in 1..Len(r) : r[i] = s[i]
           /\ \A t : ArrivesIn(s, t) /\ t.off < Len(s) => ArrivesIn(r, t)
<1>1. s \in Seq(FrameType) /\ Len(s) \in Nat
  BY StackFacts DEF Stacked, Numbering
<1>2. /\ r \in Seq(FrameType) /\ Len(r) = Len(s) - 1
      /\ \A i \in 1..Len(r) : r[i] = s[i]
  BY <1>1, FrontFacts
<1>3. \A t : ArrivesIn(s, t) /\ t.off < Len(s) => ArrivesIn(r, t)
  BY <1>1, <1>2 DEF ArrivesIn
<1>4. Numbering(r, n) /\ Bottom(r) /\ Blocks(r)
  BY <1>1, <1>2 DEF Stacked, Numbering, Bottom, Blocks
<1>5. PutOff(r)
  <2> SUFFICES ASSUME NEW i \in 1..Len(r)
               PROVE  /\ r[i].pending # Nowhere => r[i].pending.off < i /\ ArrivesIn(r, r[i].pending)
                      /\ r[i].cont => i > 1 /\ r[i - 1].pending # Nowhere
    BY DEF PutOff
  <2>1. i \in 1..Len(s) /\ i < Len(s) /\ r[i] = s[i]
    BY <1>1, <1>2
  <2>2. s[i].pending # Nowhere => s[i].pending.off < i /\ ArrivesIn(s, s[i].pending)
    BY <2>1 DEF Stacked, PutOff
  <2>3. s[i].cont => i > 1 /\ s[i - 1].pending # Nowhere
    BY <2>1 DEF Stacked, PutOff
  <2>4. ArrivesIn(s, s[i].pending) /\ s[i].pending.off < i => s[i].pending.off < Len(s)
    BY <2>1, <1>1 DEF ArrivesIn
  <2>5. i > 1 => i - 1 \in 1..Len(r)
    BY <2>1, <1>1, <1>2
  <2> QED
    BY <2>1, <2>2, <2>3, <2>4, <2>5, <1>2, <1>3
<1>6. Handlings(r)
  BY <1>1, <1>2 DEF Stacked, Handlings
<1>7. Known(r, n, x)
  BY <1>1, <1>2 DEF Stacked, Known, Names
<1>8. Current(r, x)
  BY <1>1, <1>2 DEF Stacked, Current, CurrentAt
<1> QED
  BY <1>2, <1>3, <1>4, <1>5, <1>6, <1>7, <1>8 DEF Stacked

\* What a frame f that takes place i of the stack s has to bring.
Fits(s, n, x, f) ==
    /\ f \in FrameType /\ f.serial = n + 1 /\ BlockIn(f) /\ f.pending = Nowhere
    /\ f.cont => s[Len(s)].pending # Nowhere
    /\ f.kind = "handling" =>
          /\ \E h \in 1..Len(s) : InProgress(f, s[h])
          /\ \A k \in 1..Len(s) : s[k].kind = "handling" => s[k].for # f.for
          /\ "pass" \notin Outcomes =>
                /\ x[f.of].signal = At(Len(s), s[Len(s)].serial)
                /\ x[f.of].handler.serial = f.for
                /\ \E h \in 1..Len(s) : x[f.of].handler = At(h, s[h].serial)

\* A frame comes on top.
On(s, f) == Append(s, f)

LEMMA PushStacked ==
    ASSUME NEW s, NEW n, NEW x, Stacked(s, n, x), NEW f, Fits(s, n, x, f),
           NEW r, r = On(s, f)
    PROVE  /\ Stacked(r, n + 1, x) /\ Len(r) = Len(s) + 1 /\ r[Len(s) + 1] = f
           /\ \A i \in 1..Len(s) : r[i] = s[i]
           /\ \A t : ArrivesIn(s, t) => ArrivesIn(r, t)
<1>1. s \in Seq(FrameType) /\ Len(s) \in Nat /\ n \in Nat /\ Len(s) > 0
      /\ \A i \in 1..Len(s) : s[i].serial \in Nat
  BY StackFacts DEF Stacked, Numbering, Bottom, FrameType
<1>2. f \in FrameType /\ f.serial = n + 1
  BY DEF Fits
<1>3. /\ r \in Seq(FrameType) /\ Len(r) = Len(s) + 1 /\ r[Len(s) + 1] = f
      /\ \A i \in 1..Len(s) : r[i] = s[i]
  BY <1>1, <1>2, AppendFacts DEF On
<1>4. \A t : ArrivesIn(s, t) => ArrivesIn(r, t)
  BY <1>1, <1>3 DEF ArrivesIn
<1>5. \A i \in 1..Len(r) : i \in 1..Len(s) \/ i = Len(s) + 1
  BY <1>1, <1>3
<1>6. Numbering(r, n + 1)
  BY <1>1, <1>2, <1>3 DEF Stacked, Numbering
<1>7. Bottom(r)
  BY <1>1, <1>3 DEF Stacked, Bottom
<1>8. Blocks(r)
  BY <1>3, <1>5 DEF Stacked, Blocks, Fits
<1>9. PutOff(r)
  <2>1. ASSUME NEW i \in 1..Len(s)
        PROVE  /\ r[i].pending # Nowhere => r[i].pending.off < i /\ ArrivesIn(r, r[i].pending)
               /\ r[i].cont => i > 1 /\ r[i - 1].pending # Nowhere
    BY <1>1, <1>3, <1>4 DEF Stacked, PutOff
  <2>2. /\ f.pending = Nowhere
        /\ f.cont => Len(s) + 1 > 1 /\ r[Len(s)].pending # Nowhere
    BY <1>1, <1>3 DEF Fits
  <2>3. Len(s) + 1 - 1 = Len(s)
    BY <1>1
  <2>4. ASSUME NEW i \in 1..Len(r)
        PROVE  /\ r[i].pending # Nowhere => r[i].pending.off < i /\ ArrivesIn(r, r[i].pending)
               /\ r[i].cont => i > 1 /\ r[i - 1].pending # Nowhere
    <3>1. CASE i \in 1..Len(s)
      BY <2>1, <3>1
    <3>2. CASE i = Len(s) + 1
      <4>1. r[i] = f /\ i - 1 = Len(s)
        BY <1>3, <2>3, <3>2
      <4> QED BY <2>2, <3>2, <4>1
    <3> QED BY <1>5, <3>1, <3>2
  <2> QED
    BY <2>4 DEF PutOff
<1>10. Handlings(r)
  <2>1. ASSUME NEW j \in 1..Len(s), s[j].kind = "handling"
        PROVE  /\ \E h \in 1..(j - 1) : InProgress(r[j], r[h])
               /\ \A k \in 1..Len(r) : r[k].kind = "handling" /\ r[k].for = r[j].for => k = j
    BY <1>1, <1>3, <1>5, <2>1 DEF Stacked, Handlings, Fits
  <2>2. ASSUME f.kind = "handling"
        PROVE  /\ \E h \in 1..Len(s) : InProgress(f, r[h])
               /\ \A k \in 1..Len(r) : r[k].kind = "handling" /\ r[k].for = f.for => k = Len(s) + 1
    BY <1>1, <1>3, <1>5, <2>2 DEF Fits
  <2>3. Len(s) + 1 - 1 = Len(s)
    BY <1>1
  <2> QED
    BY <1>3, <1>5, <2>1, <2>2, <2>3 DEF Handlings
<1>11. Known(r, n + 1, x)
  <2>1. ASSUME NEW t, NEW k, Names(s, n, t, k)  PROVE Names(r, n + 1, t, k)
    <3>1. t.serial \in Nat /\ t.off \in Nat /\ t.serial <= n
      BY <2>1 DEF Names, Target
    <3> QED
      BY <2>1, <3>1, <1>1, <1>2, <1>3, <1>5 DEF Names
  <2> QED
    BY <2>1 DEF Stacked, Known
<1>12. Current(r, x)
  <2> SUFFICES ASSUME "pass" \notin Outcomes, NEW i \in 1..Len(r), r[i].kind = "handling"
               PROVE  CurrentAt(r, i, x[r[i].of])
    BY DEF Current
  <2>1. CASE i \in 1..Len(s)
    <3>1. CurrentAt(s, i, x[s[i].of])
      BY <1>3, <2>1 DEF Stacked, Current
    <3>2. (i > 1 => i - 1 \in 1..Len(s)) /\ \A h \in 1..(i - 1) : h \in 1..Len(s)
      BY <1>1, <2>1
    <3> QED BY <1>3, <2>1, <3>1, <3>2 DEF CurrentAt
  <2>2. CASE i = Len(s) + 1
    BY <1>1, <1>3, <2>2 DEF Fits, CurrentAt
  <2> QED BY <1>5, <2>1, <2>2
<1> QED
  BY <1>3, <1>4, <1>6, <1>7, <1>8, <1>9, <1>10, <1>11, <1>12 DEF Stacked

\* The frame at k may turn into f: the same activation, its handler still in
\* progress if it was, and an unwind put off in it if there was one.
Turns(s, k, f) ==
    /\ f \in FrameType /\ BlockIn(f)
    /\ f.kind = s[k].kind /\ f.serial = s[k].serial /\ f.cont = s[k].cont
    /\ f.of = s[k].of /\ f.for = s[k].for
    /\ s[k].kind = "handler" /\ s[k].slot = "running" => f.slot = "running"
    /\ \/ f.pending = s[k].pending
       \/ f.pending # Nowhere /\ f.pending.off < k /\ ArrivesIn(s, f.pending)

\* A frame is changed.
Turned(s, k, f) == [s EXCEPT ![k] = f]

LEMMA TurnStacked ==
    ASSUME NEW s, NEW n, NEW x, Stacked(s, n, x), NEW k \in 1..Len(s),
           NEW f, Turns(s, k, f), NEW r, r = Turned(s, k, f)
    PROVE  /\ Stacked(r, n, x) /\ Len(r) = Len(s) /\ r[k] = f
           /\ \A i \in 1..Len(s) : i # k => r[i] = s[i]
           /\ \A i \in 1..Len(s) : r[i].serial = s[i].serial /\ r[i].kind = s[i].kind
           /\ \A t : ArrivesIn(s, t) => ArrivesIn(r, t)
<1>1. s \in Seq(FrameType) /\ Len(s) \in Nat /\ n \in Nat
      /\ \A i \in 1..Len(s) : s[i] \in FrameType
  BY StackFacts DEF Stacked, Numbering
<1>2. /\ r \in Seq(FrameType) /\ Len(r) = Len(s) /\ r[k] = f
      /\ \A i \in 1..Len(s) : i # k => r[i] = s[i]
  BY <1>1, StackFacts DEF Turns, Turned
<1>3. \A i \in 1..Len(s) : r[i].serial = s[i].serial /\ r[i].kind = s[i].kind
          /\ r[i].cont = s[i].cont /\ r[i].of = s[i].of /\ r[i].for = s[i].for
  BY <1>2 DEF Turns
<1>4. \A t : ArrivesIn(s, t) => ArrivesIn(r, t)
  BY <1>2, <1>3 DEF ArrivesIn
<1>5. Numbering(r, n) /\ Bottom(r) /\ Blocks(r)
  <2>1. Numbering(r, n)
    BY <1>1, <1>2, <1>3 DEF Stacked, Numbering
  <2>2. Bottom(r)
    BY <1>1, <1>2, <1>3 DEF Stacked, Bottom
  <2>3. Blocks(r)
    BY <1>2 DEF Stacked, Blocks, Turns
  <2> QED BY <2>1, <2>2, <2>3
<1>6. PutOff(r)
  <2> SUFFICES ASSUME NEW i \in 1..Len(s)
               PROVE  /\ r[i].pending # Nowhere => r[i].pending.off < i /\ ArrivesIn(r, r[i].pending)
                      /\ r[i].cont => i > 1 /\ r[i - 1].pending # Nowhere
    BY <1>2 DEF PutOff
  <2>1. s[i].pending # Nowhere => s[i].pending.off < i /\ ArrivesIn(s, s[i].pending)
    BY DEF Stacked, PutOff
  <2>2. r[i].pending # Nowhere => r[i].pending.off < i /\ ArrivesIn(r, r[i].pending)
    <3>1. CASE i = k
      BY <1>2, <1>4, <2>1, <3>1 DEF Turns
    <3>2. CASE i # k
      BY <1>2, <1>4, <2>1, <3>2
    <3> QED BY <3>1, <3>2
  <2>3. \A j \in 1..Len(s) : s[j].pending # Nowhere => r[j].pending # Nowhere
    BY <1>2 DEF Turns
  <2>4. r[i].cont => i > 1 /\ s[i - 1].pending # Nowhere
    BY <1>3 DEF Stacked, PutOff
  <2>5. i > 1 => i - 1 \in 1..Len(s)
    BY <1>1
  <2> QED BY <2>2, <2>3, <2>4, <2>5
<1>7. Handlings(r)
  <2>1. \A i, j \in 1..Len(s) : InProgress(s[j], s[i]) => InProgress(r[j], r[i])
    BY <1>2, <1>3 DEF InProgress, Turns
  <2>2. \A j \in 1..Len(s) : \A h \in 1..(j - 1) : h \in 1..Len(s)
    BY <1>1
  <2> QED
    BY <1>2, <1>3, <2>1, <2>2 DEF Stacked, Handlings
<1>8. Known(r, n, x)
  BY <1>2, <1>3 DEF Stacked, Known, Names
<1>9. Current(r, x)
  <2> SUFFICES ASSUME "pass" \notin Outcomes, NEW i \in 1..Len(s), r[i].kind = "handling"
               PROVE  CurrentAt(r, i, x[r[i].of])
    BY <1>2 DEF Current
  <2>1. CurrentAt(s, i, x[s[i].of])
    BY <1>3 DEF Stacked, Current
  <2>2. (i > 1 => i - 1 \in 1..Len(s)) /\ \A h \in 1..(i - 1) : h \in 1..Len(s)
    BY <1>1
  <2> QED BY <1>3, <2>1, <2>2 DEF CurrentAt
<1> QED
  BY <1>2, <1>3, <1>4, <1>5, <1>6, <1>7, <1>8, <1>9 DEF Stacked

\* What the exception e may hold next: no handler block relies on what it holds,
\* unless pass has taken it away already.
Settles(s, n, e, r) ==
    /\ r \in [class : Class, signal : Target, handler : Target]
    /\ Names(s, n, r.signal, "signal") /\ Names(s, n, r.handler, "handler")
    /\ "pass" \notin Outcomes => \A i \in 1..Len(s) : s[i].kind = "handling" => s[i].of # e

Set(x, e, r) == [x EXCEPT ![e] = r]

LEMMA SettleStacked ==
    ASSUME NEW s, NEW n, NEW x, Stacked(s, n, x), NEW e \in Exception,
           NEW r, Settles(s, n, e, r), NEW y, y = Set(x, e, r)
    PROVE  Stacked(s, n, y) /\ y[e] = r
<1>1. x \in [Exception -> [class : Class, signal : Target, handler : Target]]
  BY DEF Stacked, Known
<1>2. /\ y \in [Exception -> [class : Class, signal : Target, handler : Target]]
      /\ y[e] = r /\ \A d \in Exception : d # e => y[d] = x[d]
  BY <1>1 DEF Settles, Set
<1>3. Known(s, n, y)
  BY <1>2 DEF Stacked, Known, Settles
<1>4. Current(s, y)
  BY <1>2 DEF Stacked, Current, Settles, Blocks, BlockIn
<1> QED
  BY <1>2, <1>3, <1>4 DEF Stacked

\* push_frame, one frame at a time: what bump_serial makes of f
Bumped(f, n) == [f EXCEPT !.serial = n]

LEMMA BumpedFacts ==
    ASSUME NEW f \in FrameType, NEW n \in Nat
    PROVE  /\ Bumped(f, n) \in FrameType /\ Bumped(f, n).serial = n
           /\ Bumped(f, n).kind = f.kind /\ Bumped(f, n).slot = f.slot
           /\ Bumped(f, n).of = f.of /\ Bumped(f, n).for = f.for
           /\ Bumped(f, n).cont = f.cont /\ Bumped(f, n).pending = f.pending
           /\ Bumped(f, n).ran = f.ran
BY DEF FrameType, Bumped

LEMMA PairConcat ==
    ASSUME NEW a \in FrameType, NEW b \in FrameType
    PROVE  <<a>> \o <<b>> = <<a, b>>
<1>1. <<a>> \in Seq(FrameType)
  OBVIOUS
<1>2. Append(<<a>>, b) = <<a>> \o <<b>>
  BY <1>1, AppendIsConcat
<1>3. Append(<<a>>, b) = <<a, b>>
  <2>1. /\ Append(<<a>>, b) \in Seq(FrameType) /\ Len(Append(<<a>>, b)) = Len(<<a>>) + 1
        /\ \A i \in 1..Len(<<a>>) : Append(<<a>>, b)[i] = <<a>>[i]
        /\ Append(<<a>>, b)[Len(<<a>>) + 1] = b
    BY <1>1, AppendFacts
  <2>2. /\ <<a, b>> \in Seq(FrameType) /\ Len(<<a, b>>) = 2 /\ Len(<<a>>) = 1
        /\ <<a, b>>[1] = a /\ <<a, b>>[2] = b /\ <<a>>[1] = a
    OBVIOUS
  <2> DEFINE p == Append(<<a>>, b)
             q == <<a, b>>
  <2>3. p \in Seq(FrameType) /\ q \in Seq(FrameType) /\ Len(p) = 2 /\ Len(q) = 2
    BY <2>1, <2>2
  <2>4. p[1] = q[1] /\ p[2] = q[2]
    BY <2>1, <2>2
  <2> HIDE DEF p, q
  <2>5. \A i \in 1..Len(p) : p[i] = q[i]
    BY <2>3, <2>4
  <2>6. p = q
    BY <2>3, <2>5, SeqEqual
  <2> QED BY <2>6 DEF p, q
<1> QED BY <1>2, <1>3

LEMMA TripleConcat ==
    ASSUME NEW a \in FrameType, NEW b \in FrameType, NEW c \in FrameType
    PROVE  <<a>> \o <<b, c>> = <<a, b, c>>
<1>1. <<a>> \in Seq(FrameType) /\ <<b>> \in Seq(FrameType) /\ <<c>> \in Seq(FrameType)
      /\ <<a, b>> \in Seq(FrameType)
  OBVIOUS
<1>2. Append(<<a, b>>, c) = <<a, b>> \o <<c>>
  BY <1>1, AppendIsConcat
<1>3. Append(<<a, b>>, c) = <<a, b, c>>
  <2>1. /\ Append(<<a, b>>, c) \in Seq(FrameType) /\ Len(Append(<<a, b>>, c)) = Len(<<a, b>>) + 1
        /\ \A i \in 1..Len(<<a, b>>) : Append(<<a, b>>, c)[i] = <<a, b>>[i]
        /\ Append(<<a, b>>, c)[Len(<<a, b>>) + 1] = c
    BY <1>1, AppendFacts
  <2>2. /\ <<a, b, c>> \in Seq(FrameType) /\ Len(<<a, b, c>>) = 3 /\ Len(<<a, b>>) = 2
        /\ <<a, b, c>>[1] = a /\ <<a, b, c>>[2] = b /\ <<a, b, c>>[3] = c
        /\ <<a, b>>[1] = a /\ <<a, b>>[2] = b
    OBVIOUS
  <2> DEFINE p == Append(<<a, b>>, c)
             q == <<a, b, c>>
  <2>3. p \in Seq(FrameType) /\ q \in Seq(FrameType) /\ Len(p) = 3 /\ Len(q) = 3
    BY <2>1, <2>2
  <2>4. p[1] = q[1] /\ p[2] = q[2] /\ p[3] = q[3]
    BY <2>1, <2>2
  <2> HIDE DEF p, q
  <2>5. \A i \in 1..Len(p) : p[i] = q[i]
    BY <2>3, <2>4
  <2>6. p = q
    BY <2>3, <2>5, SeqEqual
  <2> QED BY <2>6 DEF p, q
<1>4. (<<a>> \o <<b>>) \o <<c>> = <<a>> \o (<<b>> \o <<c>>)
  BY <1>1, ConcatAssociative
<1>5. <<a>> \o <<b>> = <<a, b>> /\ <<b>> \o <<c>> = <<b, c>>
  BY PairConcat
<1> QED BY <1>2, <1>3, <1>4, <1>5

LEMMA ConcatTwo ==
    ASSUME NEW s \in Seq(FrameType), NEW a \in FrameType, NEW b \in FrameType
    PROVE  s \o <<a, b>> = Append(Append(s, a), b)
<1>1. Append(s, a) \in Seq(FrameType)
  BY AppendFacts
<1>2. Append(Append(s, a), b) = Append(s, a) \o <<b>>
  BY <1>1, AppendIsConcat
<1>3. Append(s, a) = s \o <<a>>
  BY AppendIsConcat
<1>4. <<a>> \in Seq(FrameType) /\ <<b>> \in Seq(FrameType)
  OBVIOUS
<1>5. (s \o <<a>>) \o <<b>> = s \o (<<a>> \o <<b>>)
  BY <1>4, ConcatAssociative
<1> QED
  BY <1>2, <1>3, <1>5, PairConcat

LEMMA ConcatThree ==
    ASSUME NEW s \in Seq(FrameType), NEW a \in FrameType, NEW b \in FrameType, NEW c \in FrameType
    PROVE  s \o <<a, b, c>> = Append(Append(Append(s, a), b), c)
<1>1. Append(s, a) \in Seq(FrameType)
  BY AppendFacts
<1>2. Append(Append(Append(s, a), b), c) = Append(s, a) \o <<b, c>>
  BY <1>1, ConcatTwo
<1>3. Append(s, a) = s \o <<a>>
  BY AppendIsConcat
<1>4. <<a>> \in Seq(FrameType) /\ <<b, c>> \in Seq(FrameType)
  OBVIOUS
<1>5. (s \o <<a>>) \o <<b, c>> = s \o (<<a>> \o <<b, c>>)
  BY <1>4, ConcatAssociative
<1> QED
  BY <1>2, <1>3, <1>5, TripleConcat

LEMMA PushedOne ==
    ASSUME NEW s \in Seq(FrameType), serial \in Nat, NEW f \in FrameType, PushOn(s, <<f>>)
    PROVE  frames' = On(s, Bumped(f, serial + 1)) /\ serial' = serial + 1
<1>1. Bumped(f, serial + 1) \in FrameType
  BY BumpedFacts
<1>2. Numbered(<<f>>) = <<Bumped(f, serial + 1)>>
  BY DEF Numbered, Bumped
<1>3. Append(s, Bumped(f, serial + 1)) = s \o <<Bumped(f, serial + 1)>>
  BY <1>1, AppendIsConcat
<1> QED
  BY <1>2, <1>3 DEF PushOn, On

LEMMA PushedTwo ==
    ASSUME NEW s \in Seq(FrameType), serial \in Nat, NEW f \in FrameType, NEW g \in FrameType,
           PushOn(s, <<f, g>>)
    PROVE  /\ frames' = On(On(s, Bumped(f, serial + 1)), Bumped(g, serial + 2))
           /\ serial' = serial + 2
<1> DEFINE a == Bumped(f, serial + 1)
           b == Bumped(g, serial + 2)
<1>1. a \in FrameType /\ b \in FrameType
  BY BumpedFacts
<1>2. Numbered(<<f, g>>) = <<a, b>>
  BY DEF Numbered, Bumped
<1>3. Len(<<f, g>>) = 2
  OBVIOUS
<1> HIDE DEF a, b
<1>4. s \o <<a, b>> = Append(Append(s, a), b)
  BY <1>1, ConcatTwo
<1>5. frames' = Append(Append(s, a), b) /\ serial' = serial + 2
  BY <1>2, <1>3, <1>4 DEF PushOn
<1> QED BY <1>5 DEF a, b, On

LEMMA PushedThree ==
    ASSUME NEW s \in Seq(FrameType), serial \in Nat,
           NEW f \in FrameType, NEW g \in FrameType, NEW h \in FrameType,
           PushOn(s, <<f, g, h>>)
    PROVE  /\ frames' = On(On(On(s, Bumped(f, serial + 1)), Bumped(g, serial + 2)),
                           Bumped(h, serial + 3))
           /\ serial' = serial + 3
<1> DEFINE a == Bumped(f, serial + 1)
           b == Bumped(g, serial + 2)
           c == Bumped(h, serial + 3)
<1>1. a \in FrameType /\ b \in FrameType /\ c \in FrameType
  <2>1. serial + 1 \in Nat /\ serial + 2 \in Nat /\ serial + 3 \in Nat
    OBVIOUS
  <2> QED BY <2>1, BumpedFacts
<1>2. Numbered(<<f, g, h>>) = <<a, b, c>>
  <2> DEFINE q == <<f, g, h>>
  <2>1. Numbered(q) = [i \in 1..3 |-> Bumped(q[i], serial + i)]
    BY DEF Numbered, Bumped
  <2>2. q[1] = f /\ q[2] = g /\ q[3] = h
    OBVIOUS
  <2> HIDE DEF q
  <2>3. [i \in 1..3 |-> Bumped(q[i], serial + i)] = <<a, b, c>>
    BY <2>2
  <2> QED BY <2>1, <2>3 DEF q
<1>3. Len(<<f, g, h>>) = 3
  OBVIOUS
<1> HIDE DEF a, b, c
<1>4. s \o <<a, b, c>> = Append(Append(Append(s, a), b), c)
  BY <1>1, ConcatThree
<1>5. frames' = Append(Append(Append(s, a), b), c) /\ serial' = serial + 3
  BY <1>2, <1>3, <1>4 DEF PushOn
<1> QED BY <1>5 DEF a, b, c, On

-----------------------------------------------------------------------------
(* From stacks to states.                                                   *)

LEMMA CalmRun ==
    ASSUME NEW s, NEW n, NEW x, Calm(s, n, x)
    PROVE  Whole(s, n, Run, x)
BY DEF Calm, Whole, Ready, TakenOnTop, Run, Op, Nowhere, At, Target

LEMMA CalmUnwind ==
    ASSUME NEW s, NEW n, NEW x, Calm(s, n, x), NEW t \in Target, ArrivesIn(s, t)
    PROVE  Whole(s, n, [do |-> "unwind", to |-> t], x)
BY DEF Calm, Whole, Ready, TakenOnTop, Op

\* The running stack is calm but for an ensure: on top.
LEMMA CalmFrames ==
    ASSUME StackInv, Executing, Top.slot # "taken" \/ KillScope = "any"
    PROVE  Calm(frames, serial, exc) /\ op = Run
<1>1. Top = frames[Len(frames)]
  BY DEF Top, Last
<1> QED
  BY <1>1 DEF StackInv, Whole, Calm, TakenOnTop, Ready, Executing

LEMMA TopFacts ==
    ASSUME StackInv
    PROVE  /\ frames \in Seq(FrameType) /\ Len(frames) \in Nat /\ Len(frames) > 0
           /\ Len(frames) \in 1..Len(frames)
           /\ DOMAIN frames = 1..Len(frames)
           /\ Top = frames[Len(frames)] /\ Top \in FrameType /\ BlockIn(Top)
           /\ serial \in Nat
           /\ \A i \in 1..Len(frames) : frames[i] \in FrameType
<1>1. frames \in Seq(FrameType) /\ Len(frames) > 0 /\ serial \in Nat
  BY DEF StackInv, Whole, Stacked, Numbering, Bottom
<1>2. /\ Len(frames) \in Nat /\ DOMAIN frames = 1..Len(frames)
      /\ \A i \in 1..Len(frames) : frames[i] \in FrameType
      /\ Top = frames[Len(frames)]
  BY <1>1, StackFacts DEF Top
<1>3. Len(frames) \in 1..Len(frames)
  BY <1>1, <1>2
<1> QED
  BY <1>1, <1>2, <1>3 DEF StackInv, Whole, Stacked, Blocks

LEMMA ProgramCalm ==
    ASSUME StackInv, Executing, Top.kind # "ensure"
    PROVE  Calm(frames, serial, exc) /\ op = Run
BY CalmFrames, TopFacts DEF BlockIn

\* The stack r keeps the frames of s.
Keeps(s, r) == Len(s) <= Len(r) /\ \A i \in 1..Len(s) : r[i].serial = s[i].serial

\* One frame, other than a handler block, comes on a calm stack.
Plain(s, f) ==
    /\ f \in FrameType /\ BlockIn(f) /\ f.pending = Nowhere
    /\ f.slot # "taken" /\ f.kind # "handling"
    /\ f.cont => s[Len(s)].pending # Nowhere

LEMMA CalmPush ==
    ASSUME NEW s, NEW n, NEW x, Calm(s, n, x), NEW f, f.slot # "taken", Fits(s, n, x, f),
           NEW r, r = On(s, f)
    PROVE  /\ Calm(r, n + 1, x) /\ Len(r) = Len(s) + 1 /\ r[Len(s) + 1] = f /\ Last(r) = f
           /\ \A i \in 1..Len(s) : r[i] = s[i]
           /\ \A t : ArrivesIn(s, t) => ArrivesIn(r, t)
<1>1. Stacked(s, n, x)
  BY DEF Calm
<1>2. /\ Stacked(r, n + 1, x) /\ Len(r) = Len(s) + 1 /\ r[Len(s) + 1] = f
      /\ \A i \in 1..Len(s) : r[i] = s[i]
      /\ \A t : ArrivesIn(s, t) => ArrivesIn(r, t)
  BY <1>1, PushStacked
<1>3. Len(s) \in Nat
  BY <1>1, StackFacts DEF Stacked, Numbering
<1>4. \A i \in 1..Len(r) : i \in 1..Len(s) \/ i = Len(s) + 1
  BY <1>2, <1>3
<1> QED
  BY <1>2, <1>4 DEF Calm, Last

LEMMA PlainFits ==
    ASSUME NEW s, NEW n, NEW x, Calm(s, n, x), NEW f, Plain(s, f)
    PROVE  Fits(s, n, x, Bumped(f, n + 1)) /\ Bumped(f, n + 1).slot # "taken"
<1>1. n \in Nat /\ n + 1 \in Nat
  BY DEF Calm, Stacked, Numbering
<1>2. f \in FrameType
  BY DEF Plain
<1> QED
  BY <1>1, <1>2, BumpedFacts DEF Plain, Fits, BlockIn

LEMMA PlainOne ==
    ASSUME NEW s, NEW x, Calm(s, serial, x), NEW f, Plain(s, f), PushOn(s, <<f>>)
    PROVE  /\ Calm(frames', serial', x) /\ Len(frames') = Len(s) + 1 /\ Keeps(s, frames')
           /\ Last(frames').kind = f.kind
           /\ \A t : ArrivesIn(s, t) => ArrivesIn(frames', t)
<1>1. s \in Seq(FrameType) /\ serial \in Nat /\ f \in FrameType /\ Len(s) \in Nat
  BY StackFacts DEF Calm, Stacked, Numbering, Plain
<1>2. frames' = On(s, Bumped(f, serial + 1)) /\ serial' = serial + 1
  BY <1>1, PushedOne
<1>3. Fits(s, serial, x, Bumped(f, serial + 1)) /\ Bumped(f, serial + 1).slot # "taken"
  BY PlainFits
<1>4. Bumped(f, serial + 1).kind = f.kind
  BY <1>1, BumpedFacts
<1> QED
  BY <1>1, <1>2, <1>3, <1>4, CalmPush DEF Keeps

LEMMA PlainTwo ==
    ASSUME NEW s, NEW x, Calm(s, serial, x), NEW f, Plain(s, f), NEW g,
           \A r : Plain(r, g), PushOn(s, <<f, g>>)
    PROVE  /\ Calm(frames', serial', x) /\ Len(frames') = Len(s) + 2 /\ Keeps(s, frames')
           /\ Last(frames').kind = g.kind
<1>1. s \in Seq(FrameType) /\ serial \in Nat /\ Len(s) \in Nat
  BY StackFacts DEF Calm, Stacked, Numbering
<1>2. f \in FrameType /\ g \in FrameType
  BY DEF Plain
<1> DEFINE r == On(s, Bumped(f, serial + 1))
<1>3. frames' = On(r, Bumped(g, serial + 2)) /\ serial' = serial + 2
  BY <1>1, <1>2, PushedTwo
<1>4. Fits(s, serial, x, Bumped(f, serial + 1)) /\ Bumped(f, serial + 1).slot # "taken"
  BY PlainFits
<1>5. /\ Calm(r, serial + 1, x) /\ Len(r) = Len(s) + 1 /\ \A i \in 1..Len(s) : r[i] = s[i]
  BY <1>4, CalmPush
<1> HIDE DEF r
<1>6. Plain(r, g) /\ serial + 1 + 1 = serial + 2
  BY <1>1
<1>7. Fits(r, serial + 1, x, Bumped(g, serial + 2)) /\ Bumped(g, serial + 2).slot # "taken"
  BY <1>5, <1>6, PlainFits
<1>8. /\ Calm(frames', serial + 2, x) /\ Len(frames') = Len(r) + 1
      /\ \A i \in 1..Len(r) : frames'[i] = r[i]
      /\ Last(frames') = Bumped(g, serial + 2)
  BY <1>3, <1>5, <1>6, <1>7, CalmPush
<1>9. Bumped(g, serial + 2).kind = g.kind
  BY <1>1, <1>2, BumpedFacts
<1> QED
  BY <1>1, <1>3, <1>5, <1>8, <1>9 DEF Keeps

-----------------------------------------------------------------------------
(* Signals.                                                                 *)

SignalFrame(e) == [Frame("signal") EXCEPT !.of = e]

HandlingFrame(e, n) == [Frame("handling") EXCEPT !.of = e, !.for = n]

LEMMA FrameFacts ==
    /\ \A k \in Kind : Frame(k) \in FrameType /\ Frame(k).kind = k /\ Frame(k).slot = "none"
          /\ Frame(k).cont = FALSE /\ Frame(k).pending = Nowhere
    /\ \A e \in Exception : SignalFrame(e) \in FrameType /\ SignalFrame(e).of = e
          /\ SignalFrame(e).kind = "signal" /\ SignalFrame(e).slot = "none"
          /\ SignalFrame(e).cont = FALSE /\ SignalFrame(e).pending = Nowhere
    /\ \A e \in Exception, n \in Nat : HandlingFrame(e, n) \in FrameType
          /\ HandlingFrame(e, n).of = e /\ HandlingFrame(e, n).for = n
          /\ HandlingFrame(e, n).kind = "handling" /\ HandlingFrame(e, n).slot = "none"
          /\ HandlingFrame(e, n).cont = FALSE /\ HandlingFrame(e, n).pending = Nowhere
BY DEF Frame, FrameType, SignalFrame, HandlingFrame, Kind, Nowhere, At, Target

LEMMA PlainFrames ==
    ASSUME NEW s
    PROVE  /\ \A k \in {"code", "signaler", "trampoline", "cleanup"} : Plain(s, Frame(k))
           /\ \A e \in Exception : Plain(s, SignalFrame(e))
BY FrameFacts DEF Plain, BlockIn, Kind

\* No handler block of the stack is for e, or pass has mixed them up already.
Unhandled(s, e) ==
    "pass" \notin Outcomes => \A i \in 1..Len(s) : s[i].kind = "handling" => s[i].of # e

\* signal comes on top, and e holds where it is and the handler hd.
LEMMA RaiseCalm ==
    ASSUME NEW s, NEW n, NEW x, Calm(s, n, x), NEW e \in Exception, NEW c \in Class,
           NEW hd \in Target, Names(s, n, hd, "handler"), Unhandled(s, e),
           NEW r, r = On(s, Bumped(SignalFrame(e), n + 1)),
           NEW y, y = Set(x, e, [class |-> c, signal |-> At(Len(s) + 1, n + 1), handler |-> hd])
    PROVE  /\ Calm(r, n + 1, y) /\ Len(r) = Len(s) + 1
           /\ \A i \in 1..Len(s) : r[i] = s[i]
           /\ r[Len(s) + 1] = Bumped(SignalFrame(e), n + 1)
           /\ r[Len(s) + 1].serial = n + 1 /\ r[Len(s) + 1].kind = "signal"
           /\ Last(r).kind = "signal"
           /\ y[e].signal = At(Len(s) + 1, n + 1) /\ y[e].handler = hd
           /\ \A t : ArrivesIn(s, t) => ArrivesIn(r, t)
<1> DEFINE f == SignalFrame(e)
           v == [class |-> c, signal |-> At(Len(s) + 1, n + 1), handler |-> hd]
<1>1. s \in Seq(FrameType) /\ Len(s) \in Nat /\ n \in Nat /\ n + 1 \in Nat
  BY StackFacts DEF Calm, Stacked, Numbering
<1>2. Plain(s, f) /\ f \in FrameType /\ f.kind = "signal"
  BY PlainFrames, FrameFacts
<1>3. Bumped(f, n + 1).kind = "signal" /\ Bumped(f, n + 1).serial = n + 1
  BY <1>1, <1>2, BumpedFacts
<1> HIDE DEF f
<1>4. Fits(s, n, x, Bumped(f, n + 1)) /\ Bumped(f, n + 1).slot # "taken"
  BY <1>2, PlainFits
<1>5. /\ Calm(r, n + 1, x) /\ Len(r) = Len(s) + 1 /\ r[Len(s) + 1] = Bumped(f, n + 1)
      /\ Last(r) = Bumped(f, n + 1) /\ \A i \in 1..Len(s) : r[i] = s[i]
      /\ \A t : ArrivesIn(s, t) => ArrivesIn(r, t)
  BY <1>4, CalmPush DEF f
<1>6. v \in [class : Class, signal : Target, handler : Target]
  BY <1>1 DEF At, Target
<1>7. Names(r, n + 1, At(Len(s) + 1, n + 1), "signal")
  BY <1>1, <1>3, <1>5 DEF Names, At, Target
<1>8. Names(r, n + 1, hd, "handler")
  <2>1. hd.serial \in Nat /\ hd.serial <= n /\ hd.off \in Nat
    BY DEF Names, Target
  <2>2. \A i \in 1..Len(r) : i \in 1..Len(s) \/ i = Len(s) + 1
    BY <1>1, <1>5
  <2> QED
    BY <1>1, <1>3, <1>5, <2>1, <2>2 DEF Names
<1>9. "pass" \notin Outcomes => \A i \in 1..Len(r) : r[i].kind = "handling" => r[i].of # e
  <2>1. \A i \in 1..Len(r) : i \in 1..Len(s) \/ i = Len(s) + 1
    BY <1>1, <1>5
  <2> QED
    BY <1>3, <1>5, <2>1 DEF Unhandled
<1>10. Settles(r, n + 1, e, v)
  BY <1>6, <1>7, <1>8, <1>9 DEF Settles
<1> HIDE DEF v
<1>11. y = Set(x, e, v)
  BY DEF v
<1>12. Stacked(r, n + 1, y) /\ y[e] = v
  <2>1. Stacked(r, n + 1, x) /\ e \in Exception
    BY <1>5 DEF Calm
  <2> QED
    BY ONLY <2>1, <1>10, <1>11, SettleStacked
<1>13. Calm(r, n + 1, y)
  BY <1>5, <1>12 DEF Calm
<1> QED
  BY <1>3, <1>5, <1>12, <1>13 DEF v, f

\* The block of the handler h starts, on the signal frame of e.
LEMMA HandleCalm ==
    ASSUME NEW s, NEW n, NEW x, Calm(s, n, x), NEW e \in Exception, NEW h \in 1..Len(s),
           s[h].kind = "handler", s[h].slot = "running",
           \A k \in 1..Len(s) : s[k].kind = "handling" => s[k].for # s[h].serial,
           x[e].signal = At(Len(s), s[Len(s)].serial), x[e].handler = At(h, s[h].serial),
           NEW r, r = On(s, Bumped(HandlingFrame(e, s[h].serial), n + 1))
    PROVE  /\ Calm(r, n + 1, x) /\ Len(r) = Len(s) + 1 /\ Last(r).kind = "handling"
           /\ \A i \in 1..Len(s) : r[i] = s[i]
<1>1. s \in Seq(FrameType) /\ n \in Nat /\ n + 1 \in Nat /\ s[h].serial \in Nat
  <2>1. s \in Seq(FrameType) /\ n \in Nat
    BY DEF Calm, Stacked, Numbering
  <2>2. s[h] \in FrameType
    BY <2>1, StackFacts
  <2> QED BY <2>1, <2>2 DEF FrameType
<1> DEFINE g == HandlingFrame(e, s[h].serial)
           f == Bumped(g, n + 1)
<1>2. /\ g \in FrameType /\ g.of = e /\ g.for = s[h].serial /\ g.kind = "handling"
      /\ g.slot = "none" /\ g.cont = FALSE /\ g.pending = Nowhere
  BY <1>1, FrameFacts
<1> HIDE DEF g
<1>3. /\ f \in FrameType /\ f.serial = n + 1 /\ f.of = e /\ f.for = s[h].serial
      /\ f.kind = "handling" /\ f.slot = "none" /\ f.cont = FALSE /\ f.pending = Nowhere
  BY <1>1, <1>2, BumpedFacts
<1> HIDE DEF f
<1>4. BlockIn(f) /\ InProgress(f, s[h])
  BY <1>3 DEF BlockIn, InProgress
<1>5. x[e].handler.serial = s[h].serial
  BY DEF At
<1>6. Fits(s, n, x, f)
  BY <1>3, <1>4, <1>5 DEF Fits
<1>7. r = On(s, f) /\ f.slot # "taken"
  BY <1>3 DEF f, g
<1> QED
  BY <1>3, <1>6, <1>7, CalmPush

\* The method that sends signal comes first, if there is one.
Signaler == <<Frame("signaler")>>

Under(u, by) == IF by = <<>> THEN u ELSE On(u, Bumped(Frame("signaler"), serial + 1))

LEMMA BySender ==
    ASSUME NEW u, NEW x, Calm(u, serial, x), NEW by \in {<<>>, Signaler},
           NEW v, v = Under(u, by)
    PROVE  /\ Len(by) \in Nat /\ Calm(v, serial + Len(by), x) /\ Len(v) = Len(u) + Len(by)
           /\ \A i \in 1..Len(u) : v[i] = u[i]
           /\ \A i \in 1..Len(v) : i \in 1..Len(u) \/ v[i].kind = "signaler"
           /\ \A t : ArrivesIn(u, t) => ArrivesIn(v, t)
<1>1. u \in Seq(FrameType) /\ Len(u) \in Nat /\ serial \in Nat /\ serial + 1 \in Nat
  BY StackFacts DEF Calm, Stacked, Numbering
<1>2. CASE by = <<>>
  <2>1. Len(by) = 0 /\ v = u
    BY <1>2 DEF Under
  <2> QED BY <1>1, <2>1
<1>3. CASE by = Signaler
  <2>1. Len(by) = 1 /\ by # <<>>
    BY <1>3 DEF Signaler
  <2> DEFINE f == Frame("signaler")
  <2>2. Plain(u, f) /\ f \in FrameType /\ f.kind = "signaler"
    BY PlainFrames, FrameFacts DEF Kind
  <2>3. Bumped(f, serial + 1).kind = "signaler"
    BY <1>1, <2>2, BumpedFacts
  <2>4. v = On(u, Bumped(f, serial + 1))
    BY <2>1 DEF Under
  <2> HIDE DEF f
  <2>5. Fits(u, serial, x, Bumped(f, serial + 1)) /\ Bumped(f, serial + 1).slot # "taken"
    BY <2>2, PlainFits
  <2>6. /\ Calm(v, serial + 1, x) /\ Len(v) = Len(u) + 1 /\ v[Len(u) + 1] = Bumped(f, serial + 1)
        /\ \A i \in 1..Len(u) : v[i] = u[i]
        /\ \A t : ArrivesIn(u, t) => ArrivesIn(v, t)
    BY <2>4, <2>5, CalmPush
  <2>7. \A i \in 1..Len(v) : i \in 1..Len(u) \/ i = Len(u) + 1
    BY <1>1, <2>6
  <2> QED BY <2>1, <2>3, <2>6, <2>7
<1> QED
  BY <1>2, <1>3

LEMMA PushedSignal ==
    ASSUME NEW u \in Seq(FrameType), serial \in Nat, NEW by \in {<<>>, Signaler},
           NEW f \in FrameType, PushOn(u, by \o <<f>>)
    PROVE  /\ frames' = On(Under(u, by), Bumped(f, serial + Len(by) + 1))
           /\ serial' = serial + Len(by) + 1
<1>1. Frame("signaler") \in FrameType
  BY FrameFacts DEF Kind
<1>2. CASE by = <<>>
  <2>1. by \o <<f>> = <<f>> /\ Len(by) = 0 /\ Under(u, by) = u
    <3>1. <<f>> \in Seq(FrameType)
      OBVIOUS
    <3> QED BY <1>2, <3>1, ConcatEmptySeq DEF Under
  <2>2. serial + Len(by) + 1 = serial + 1
    BY <2>1
  <2> QED BY <2>1, <2>2, PushedOne
<1>3. CASE by = Signaler
  <2>1. by \o <<f>> = <<Frame("signaler"), f>>
    BY <1>1, <1>3, PairConcat DEF Signaler
  <2>2. Len(by) = 1 /\ by # <<>>
    BY <1>3 DEF Signaler
  <2>3. serial + Len(by) + 1 = serial + 2 /\ Under(u, by) = On(u, Bumped(Frame("signaler"), serial + 1))
    BY <2>2 DEF Under
  <2> QED BY <1>1, <2>1, <2>3, PushedTwo
<1> QED
  BY <1>2, <1>3

LEMMA PushedHandling ==
    ASSUME NEW u \in Seq(FrameType), serial \in Nat, NEW by \in {<<>>, Signaler},
           NEW f \in FrameType, NEW g \in FrameType, PushOn(u, by \o <<f, g>>)
    PROVE  /\ frames' = On(On(Under(u, by), Bumped(f, serial + Len(by) + 1)),
                           Bumped(g, serial + Len(by) + 2))
           /\ serial' = serial + Len(by) + 2
<1>1. Frame("signaler") \in FrameType
  BY FrameFacts DEF Kind
<1>2. CASE by = <<>>
  <2>1. by \o <<f, g>> = <<f, g>> /\ Len(by) = 0 /\ Under(u, by) = u
    <3>1. <<f, g>> \in Seq(FrameType)
      OBVIOUS
    <3> QED BY <1>2, <3>1, ConcatEmptySeq DEF Under
  <2>2. serial + Len(by) + 1 = serial + 1 /\ serial + Len(by) + 2 = serial + 2
    BY <2>1
  <2> QED BY <2>1, <2>2, PushedTwo
<1>3. CASE by = Signaler
  <2>1. by \o <<f, g>> = <<Frame("signaler"), f, g>>
    BY <1>1, <1>3, TripleConcat DEF Signaler
  <2>2. Len(by) = 1 /\ by # <<>>
    BY <1>3 DEF Signaler
  <2>3. /\ serial + Len(by) + 1 = serial + 2 /\ serial + Len(by) + 2 = serial + 3
        /\ Under(u, by) = On(u, Bumped(Frame("signaler"), serial + 1))
    BY <2>2 DEF Under
  <2> QED BY <1>1, <2>1, <2>3, PushedThree
<1> QED
  BY <1>2, <1>3

LEMMA TurnCalm ==
    ASSUME NEW s, NEW n, NEW x, Calm(s, n, x), NEW k \in 1..Len(s),
           NEW f, f.slot # "taken", Turns(s, k, f), NEW r, r = Turned(s, k, f)
    PROVE  /\ Calm(r, n, x) /\ Len(r) = Len(s) /\ r[k] = f
           /\ \A i \in 1..Len(s) : i # k => r[i] = s[i]
           /\ \A i \in 1..Len(s) : r[i].serial = s[i].serial /\ r[i].kind = s[i].kind
           /\ \A t : ArrivesIn(s, t) => ArrivesIn(r, t)
<1>1. Stacked(s, n, x)
  BY DEF Calm
<1>2. /\ Stacked(r, n, x) /\ Len(r) = Len(s) /\ r[k] = f
      /\ \A i \in 1..Len(s) : i # k => r[i] = s[i]
      /\ \A i \in 1..Len(s) : r[i].serial = s[i].serial /\ r[i].kind = s[i].kind
      /\ \A t : ArrivesIn(s, t) => ArrivesIn(r, t)
  BY <1>1, TurnStacked
<1> QED
  BY <1>2 DEF Calm

\* No handler block is for a handler that the search may find.
LEMMA ArmedIsFree ==
    ASSUME NEW s, NEW n, NEW x, Stacked(s, n, x), NEW h \in 1..Len(s), s[h].slot = "armed",
           NEW k \in 1..Len(s), s[k].kind = "handling"
    PROVE  s[k].for # s[h].serial
<1>1. Len(s) \in Nat /\ \A i \in 1..Len(s) : s[i].serial \in Nat
  <2>1. s \in Seq(FrameType)
    BY DEF Stacked, Numbering
  <2>2. Len(s) \in Nat /\ \A i \in 1..Len(s) : s[i] \in FrameType
    BY <2>1, StackFacts
  <2> QED BY <2>2 DEF FrameType
<1>2. PICK j \in 1..(k - 1) : InProgress(s[k], s[j])
  BY DEF Stacked, Handlings
<1>3. j \in 1..Len(s) /\ j # h
  BY <1>1, <1>2 DEF InProgress
<1>4. s[j].serial # s[h].serial
  <2>1. j < h \/ h < j
    BY <1>3
  <2> QED BY <1>1, <1>3, <2>1 DEF Stacked, Numbering
<1> QED
  BY <1>2, <1>4 DEF InProgress

\* A handler is found: it is in progress, and its block starts on the signal frame.
LEMMA SignalFound ==
    ASSUME NEW s, Calm(s, serial, exc), NEW by \in {<<>>, Signaler},
           NEW e \in Exception, NEW c \in Class, Unhandled(s, e),
           NEW h \in 1..Len(s), Searched(s[h]),
           exc' = Set(exc, e, [class |-> c, signal |-> SignalContext(s, by),
                               handler |-> At(h, s[h].serial)]),
           PushOn(Turned(s, h, [s[h] EXCEPT !.slot = "running"]),
                  by \o <<SignalFrame(e), HandlingFrame(e, s[h].serial)>>)
    PROVE  /\ Calm(frames', serial', exc') /\ Keeps(s, frames')
           /\ Last(frames').kind = "handling"
<1> DEFINE f == [s[h] EXCEPT !.slot = "running"]
           u == Turned(s, h, f)
           v == Under(u, by)
           m == serial + Len(by)
           w == On(v, Bumped(SignalFrame(e), m + 1))
<1>1. /\ s \in Seq(FrameType) /\ Len(s) \in Nat /\ serial \in Nat /\ Stacked(s, serial, exc)
      /\ s[h] \in FrameType /\ s[h].serial \in Nat /\ BlockIn(s[h])
  <2>1. s \in Seq(FrameType) /\ serial \in Nat /\ Stacked(s, serial, exc) /\ BlockIn(s[h])
    BY DEF Calm, Stacked, Numbering, Blocks
  <2>2. Len(s) \in Nat /\ s[h] \in FrameType
    BY <2>1, StackFacts
  <2> QED BY <2>1, <2>2 DEF FrameType
<1>2. /\ f \in FrameType /\ f.slot = "running" /\ f.kind = s[h].kind /\ f.serial = s[h].serial
      /\ f.cont = s[h].cont /\ f.of = s[h].of /\ f.for = s[h].for /\ f.pending = s[h].pending
      /\ f.ran = s[h].ran
  BY <1>1 DEF FrameType
<1>3. s[h].kind = "handler" /\ s[h].slot = "armed"
  BY DEF Searched
<1> HIDE DEF f
<1>4. Turns(s, h, f)
  BY <1>1, <1>2, <1>3 DEF Turns, BlockIn
<1>5. /\ Calm(u, serial, exc) /\ Len(u) = Len(s) /\ u[h] = f
      /\ \A i \in 1..Len(s) : i # h => u[i] = s[i]
      /\ \A i \in 1..Len(s) : u[i].serial = s[i].serial /\ u[i].kind = s[i].kind
  <2>1. f.slot # "taken"
    BY <1>2
  <2> QED BY <1>4, <2>1, TurnCalm
<1> HIDE DEF u
<1>6. \A k \in 1..Len(s) : s[k].kind = "handling" => s[k].for # s[h].serial
  BY <1>1, <1>3, ArmedIsFree
<1>7. /\ Len(by) \in Nat /\ Calm(v, m, exc) /\ Len(v) = Len(s) + Len(by)
      /\ \A i \in 1..Len(s) : v[i] = u[i]
      /\ \A i \in 1..Len(v) : i \in 1..Len(s) \/ v[i].kind = "signaler"
  BY <1>5, BySender
<1> HIDE DEF v
<1>8. /\ h \in 1..Len(v) /\ v[h].kind = "handler" /\ v[h].slot = "running"
      /\ v[h].serial = s[h].serial
  BY <1>1, <1>2, <1>3, <1>5, <1>7
<1>9. \A k \in 1..Len(v) : v[k].kind = "handling" => v[k] = s[k] /\ k \in 1..Len(s)
  BY <1>3, <1>5, <1>7
<1>10. Unhandled(v, e) /\ \A k \in 1..Len(v) : v[k].kind = "handling" => v[k].for # s[h].serial
  BY <1>6, <1>9 DEF Unhandled
<1>11. /\ At(h, s[h].serial) \in Target /\ Names(v, m, At(h, s[h].serial), "handler")
  <2>1. s[h].serial <= m
    <3>1. s[h].serial <= serial
      BY <1>1 DEF Stacked, Numbering
    <3> QED BY <1>1, <1>7, <3>1
  <2> QED
    BY <1>1, <1>8, <2>1 DEF Names, At, Target
<1>12. m \in Nat /\ SignalContext(s, by) = At(Len(v) + 1, m + 1)
  BY <1>1, <1>7 DEF SignalContext
<1> HIDE DEF m
<1>13. exc' = Set(exc, e, [class |-> c, signal |-> At(Len(v) + 1, m + 1),
                           handler |-> At(h, s[h].serial)])
  BY <1>12
<1>14. /\ Calm(w, m + 1, exc') /\ Len(w) = Len(v) + 1
       /\ \A i \in 1..Len(v) : w[i] = v[i]
       /\ w[Len(v) + 1].serial = m + 1 /\ w[Len(v) + 1].kind = "signal"
       /\ exc'[e].signal = At(Len(v) + 1, m + 1) /\ exc'[e].handler = At(h, s[h].serial)
  <2> DEFINE hd == At(h, s[h].serial)
  <2>1. /\ hd \in Target /\ Names(v, m, hd, "handler")
        /\ exc' = Set(exc, e, [class |-> c, signal |-> At(Len(v) + 1, m + 1), handler |-> hd])
    BY <1>11, <1>13
  <2> HIDE DEF hd
  <2>2. Calm(v, m, exc) /\ Unhandled(v, e) /\ e \in Exception /\ c \in Class
    BY <1>7, <1>10
  <2>3. w = On(v, Bumped(SignalFrame(e), m + 1))
    OBVIOUS
  <2> HIDE DEF w
  <2>4. /\ Calm(w, m + 1, exc') /\ Len(w) = Len(v) + 1
        /\ \A i \in 1..Len(v) : w[i] = v[i]
        /\ w[Len(v) + 1].serial = m + 1 /\ w[Len(v) + 1].kind = "signal"
        /\ exc'[e].signal = At(Len(v) + 1, m + 1) /\ exc'[e].handler = hd
    BY ONLY <2>1, <2>2, <2>3, RaiseCalm
  <2> QED
    BY <2>4 DEF hd
<1> HIDE DEF w
<1>15. /\ h \in 1..Len(w) /\ w[h].kind = "handler" /\ w[h].slot = "running"
       /\ w[h].serial = s[h].serial /\ Len(v) \in Nat
  BY <1>1, <1>7, <1>8, <1>14
<1>16. \A k \in 1..Len(w) : w[k].kind = "handling" => w[k].for # w[h].serial
  <2>1. \A k \in 1..Len(w) : k \in 1..Len(v) \/ k = Len(v) + 1
    BY <1>14, <1>15
  <2> QED BY <1>10, <1>14, <1>15, <2>1
<1>17. exc'[e].signal = At(Len(w), w[Len(w)].serial) /\ exc'[e].handler = At(h, w[h].serial)
  BY <1>14, <1>15
<1>18. frames' = On(w, Bumped(HandlingFrame(e, w[h].serial), m + 1 + 1)) /\ serial' = m + 1 + 1
  <2>1. SignalFrame(e) \in FrameType /\ HandlingFrame(e, s[h].serial) \in FrameType
    BY <1>1, FrameFacts
  <2>2. u \in Seq(FrameType)
    BY <1>5 DEF Calm, Stacked, Numbering
  <2>3. PushOn(u, by \o <<SignalFrame(e), HandlingFrame(e, s[h].serial)>>)
    BY DEF u, f
  <2>4. /\ frames' = On(On(Under(u, by), Bumped(SignalFrame(e), serial + Len(by) + 1)),
                        Bumped(HandlingFrame(e, s[h].serial), serial + Len(by) + 2))
        /\ serial' = serial + Len(by) + 2
    BY <1>1, <2>1, <2>2, <2>3, PushedHandling
  <2>5. m + 1 + 1 = serial + Len(by) + 2 /\ m + 1 = serial + Len(by) + 1
    BY <1>1, <1>7 DEF m
  <2> QED
    BY <1>15, <2>4, <2>5 DEF w, v
<1>19. /\ Calm(frames', m + 1 + 1, exc') /\ Len(frames') = Len(w) + 1
       /\ Last(frames').kind = "handling" /\ \A i \in 1..Len(w) : frames'[i] = w[i]
  BY <1>14, <1>15, <1>16, <1>17, <1>18, HandleCalm
<1>20. Keeps(s, frames')
  <2>1. \A i \in 1..Len(s) : i \in 1..Len(v) /\ i \in 1..Len(w)
    BY <1>1, <1>7, <1>14, <1>15
  <2>2. Len(s) <= Len(frames')
    BY <1>1, <1>7, <1>14, <1>19
  <2> QED
    BY <1>5, <1>7, <1>14, <1>19, <2>1, <2>2 DEF Keeps
<1> QED
  BY <1>18, <1>19, <1>20

\* None is found: the exception keeps the handler it had.
LEMMA SignalUnhandled ==
    ASSUME NEW s, Calm(s, serial, exc), NEW by \in {<<>>, Signaler},
           NEW e \in Exception, NEW c \in Class, Unhandled(s, e),
           exc' = Set(exc, e, [class |-> c, signal |-> SignalContext(s, by),
                               handler |-> exc[e].handler]),
           PushOn(s, by \o <<SignalFrame(e)>>)
    PROVE  /\ Calm(frames', serial', exc') /\ Keeps(s, frames')
           /\ Last(frames').kind = "signal"
           /\ \A t : ArrivesIn(s, t) => ArrivesIn(frames', t)
<1> DEFINE v == Under(s, by)
           m == serial + Len(by)
           hd == exc[e].handler
<1>1. s \in Seq(FrameType) /\ Len(s) \in Nat /\ serial \in Nat /\ Stacked(s, serial, exc)
  <2>1. s \in Seq(FrameType) /\ serial \in Nat /\ Stacked(s, serial, exc)
    BY DEF Calm, Stacked, Numbering
  <2> QED BY <2>1, StackFacts
<1>2. /\ Len(by) \in Nat /\ Calm(v, m, exc) /\ Len(v) = Len(s) + Len(by)
      /\ \A i \in 1..Len(s) : v[i] = s[i]
      /\ \A i \in 1..Len(v) : i \in 1..Len(s) \/ v[i].kind = "signaler"
      /\ \A t : ArrivesIn(s, t) => ArrivesIn(v, t)
  BY BySender
<1>3. SignalFrame(e) \in FrameType
  BY FrameFacts
<1>4. frames' = On(v, Bumped(SignalFrame(e), m + 1)) /\ serial' = m + 1
  BY <1>1, <1>3, PushedSignal
<1> HIDE DEF v
<1>5. Unhandled(v, e)
  BY <1>2 DEF Unhandled
<1>6. m \in Nat /\ SignalContext(s, by) = At(Len(v) + 1, m + 1)
  BY <1>1, <1>2 DEF SignalContext
<1> HIDE DEF m
<1>7. hd \in Target /\ Names(v, m, hd, "handler")
  BY <1>2 DEF Calm, Stacked, Known, Names
<1>8. exc' = Set(exc, e, [class |-> c, signal |-> At(Len(v) + 1, m + 1), handler |-> hd])
  BY <1>6
<1> HIDE DEF hd
<1>9. Calm(v, m, exc) /\ e \in Exception /\ c \in Class
  BY <1>2
<1>10. /\ Calm(frames', m + 1, exc') /\ Len(frames') = Len(v) + 1
       /\ \A i \in 1..Len(v) : frames'[i] = v[i]
       /\ Last(frames').kind = "signal"
       /\ \A t : ArrivesIn(v, t) => ArrivesIn(frames', t)
  BY ONLY <1>4, <1>5, <1>7, <1>8, <1>9, RaiseCalm
<1>11. Keeps(s, frames')
  <2>1. Len(s) <= Len(frames') /\ \A i \in 1..Len(s) : i \in 1..Len(v)
    BY <1>1, <1>2, <1>10
  <2> QED BY <1>2, <1>10, <2>1 DEF Keeps
<1> QED
  BY <1>2, <1>4, <1>10, <1>11

\* What a step from a calm stack s leaves: a state, and no cleanup that starts.
Left(s) ==
    /\ Whole(frames', serial', op', exc') /\ Keeps(s, frames')
    /\ Len(frames') > Len(s) => Last(frames').kind # "cleanup"

LEMMA SignaledAgain ==
    ASSUME NEW r \in [class : Class, signal : Target, handler : Target], NEW c, NEW t
    PROVE  [r EXCEPT !.class = c, !.signal = t] = [class |-> c, signal |-> t, handler |-> r.handler]
<1>1. [r EXCEPT !.class = c] = [class |-> c, signal |-> r.signal, handler |-> r.handler]
  OBVIOUS
<1> DEFINE q == [class |-> c, signal |-> r.signal, handler |-> r.handler]
<1>2. [q EXCEPT !.signal = t] = [class |-> c, signal |-> t, handler |-> r.handler]
  OBVIOUS
<1>3. [[r EXCEPT !.class = c] EXCEPT !.signal = t]
        = [class |-> c, signal |-> t, handler |-> r.handler]
  BY <1>1, <1>2
<1>4. [r EXCEPT !.class = c, !.signal = t] = [[r EXCEPT !.class = c] EXCEPT !.signal = t]
  OBVIOUS
<1> QED
  BY <1>3, <1>4

LEMMA SignalOnLeft ==
    ASSUME NEW s, Calm(s, serial, exc), NEW by \in {<<>>, Signaler}, op = Run,
           frames[1].serial = s[1].serial,
           NEW e \in Exception, NEW c \in Class, Unhandled(s, e), SignalOn(s, by, e, c)
    PROVE  Left(s)
<1>1. /\ s \in Seq(FrameType) /\ Len(s) \in Nat /\ serial \in Nat /\ DOMAIN s = 1..Len(s)
      /\ Bottom(s) /\ exc \in [Exception -> [class : Class, signal : Target, handler : Target]]
      /\ s[1] \in FrameType
  <2>1. s \in Seq(FrameType) /\ serial \in Nat /\ Bottom(s)
        /\ exc \in [Exception -> [class : Class, signal : Target, handler : Target]]
    BY DEF Calm, Stacked, Numbering, Known
  <2>2. Len(s) \in Nat /\ DOMAIN s = 1..Len(s) /\ \A i \in 1..Len(s) : s[i] \in FrameType
    BY <2>1, StackFacts
  <2> QED BY <2>1, <2>2 DEF Bottom
<1>2. CASE \E h \in Candidates(s, c) :
              /\ exc' = [exc EXCEPT ![e] =
                    [class |-> c, signal |-> SignalContext(s, by),
                     handler |-> At(h, s[h].serial)]]
              /\ PushOn([s EXCEPT ![h].slot = "running"],
                    by \o << [Frame("signal") EXCEPT !.of = e],
                             [Frame("handling") EXCEPT !.of = e, !.for = s[h].serial] >>)
              /\ UNCHANGED op
  <2>1. PICK h \in Candidates(s, c) :
              /\ exc' = [exc EXCEPT ![e] =
                    [class |-> c, signal |-> SignalContext(s, by),
                     handler |-> At(h, s[h].serial)]]
              /\ PushOn([s EXCEPT ![h].slot = "running"],
                    by \o << [Frame("signal") EXCEPT !.of = e],
                             [Frame("handling") EXCEPT !.of = e, !.for = s[h].serial] >>)
              /\ UNCHANGED op
    BY <1>2
  <2>2. h \in 1..Len(s) /\ Searched(s[h])
    BY <1>1 DEF Candidates
  <2>3. exc' = Set(exc, e, [class |-> c, signal |-> SignalContext(s, by),
                            handler |-> At(h, s[h].serial)])
    BY <2>1 DEF Set
  <2>4. PushOn(Turned(s, h, [s[h] EXCEPT !.slot = "running"]),
               by \o <<SignalFrame(e), HandlingFrame(e, s[h].serial)>>)
    <3>1. [s EXCEPT ![h].slot = "running"] = Turned(s, h, [s[h] EXCEPT !.slot = "running"])
      BY DEF Turned
    <3> QED BY <2>1, <3>1 DEF SignalFrame, HandlingFrame
  <2>5. /\ Calm(frames', serial', exc') /\ Keeps(s, frames')
        /\ Last(frames').kind = "handling"
    BY <2>2, <2>3, <2>4, SignalFound
  <2> QED
    BY <2>1, <2>5, CalmRun DEF Left
<1>3. CASE /\ exc' = [exc EXCEPT ![e].class = c, ![e].signal = SignalContext(s, by)]
           /\ PushOn(s, by \o << [Frame("signal") EXCEPT !.of = e] >>)
           /\ UnwindTo(Base)
  <2>1. exc' = Set(exc, e, [class |-> c, signal |-> SignalContext(s, by),
                            handler |-> exc[e].handler])
    <3> DEFINE t == SignalContext(s, by)
    <3>1. exc' = [exc EXCEPT ![e].class = c, ![e].signal = t]
      BY <1>3
    <3> HIDE DEF t
    <3>2. exc[e] \in [class : Class, signal : Target, handler : Target]
      BY <1>1
    <3>3. [exc[e] EXCEPT !.class = c, !.signal = t]
            = [class |-> c, signal |-> t, handler |-> exc[e].handler]
      BY <3>2, SignaledAgain
    <3>4. exc' = [exc EXCEPT ![e] = [exc[e] EXCEPT !.class = c, !.signal = t]]
      BY <1>1, <3>1
    <3>5. exc' = Set(exc, e, [class |-> c, signal |-> t, handler |-> exc[e].handler])
      BY <3>3, <3>4 DEF Set
    <3> QED BY <3>5 DEF t
  <2>2. PushOn(s, by \o <<SignalFrame(e)>>)
    BY <1>3 DEF SignalFrame
  <2>3. /\ Calm(frames', serial', exc') /\ Keeps(s, frames')
        /\ Last(frames').kind = "signal"
        /\ \A t : ArrivesIn(s, t) => ArrivesIn(frames', t)
    BY <2>1, <2>2, SignalUnhandled
  <2>4. Base \in Target /\ ArrivesIn(s, Base)
    BY <1>1 DEF Base, At, Target, ArrivesIn, Bottom, FrameType
  <2>5. op' = [do |-> "unwind", to |-> Base] /\ ArrivesIn(frames', Base)
    BY <1>3, <2>3, <2>4 DEF UnwindTo
  <2> QED
    BY <2>3, <2>4, <2>5, CalmUnwind DEF Left
<1> QED
  BY <1>2, <1>3 DEF SignalOn

\* A stack the running one has been turned into: its top frame changed or gone.
Follows(s) ==
    /\ Calm(s, serial, exc) /\ Len(s) <= Len(frames)
    /\ \A i \in 1..Len(s) : s[i].serial = frames[i].serial /\ s[i].of = frames[i].of

LEMMA CannotReturnLeft ==
    ASSUME NEW s, Follows(s), StackInv, op = Run, SignalCannotReturn(s)
    PROVE  Left(s)
<1>1. PICK e \in Exception : Fresh(e) /\ SignalOn(s, Signaler, e, CannotReturn)
  BY DEF SignalCannotReturn, Signaler
<1>2. Len(s) \in Nat /\ Len(s) > 0
  <2>1. s \in Seq(FrameType) /\ Len(s) > 0
    BY DEF Follows, Calm, Stacked, Numbering, Bottom
  <2> QED BY <2>1, StackFacts
<1>3. \A i \in 1..Len(s) : i \in DOMAIN frames
  BY <1>2, TopFacts DEF Follows
<1>4. Unhandled(s, e) /\ frames[1].serial = s[1].serial
  BY <1>1, <1>2, <1>3 DEF Follows, Fresh, Unhandled
<1>5. CannotReturn \in Class
  BY ExceptionsAssumption
<1> QED
  BY <1>1, <1>4, <1>5, SignalOnLeft DEF Follows

\* unwindTo:serial:return: with a target that is one of the frames an exception
\* or a home may name
LEMMA PrimLeft ==
    ASSUME NEW s, Follows(s), StackInv, op = Run, NEW t \in Target,
           Live(t) => ArrivesIn(s, t), PrimUnwindTo(s, t)
    PROVE  Left(s)
<1>1. CASE Live(t)
  <2>1. op' = [do |-> "unwind", to |-> t] /\ frames' = s /\ serial' = serial /\ exc' = exc
    BY <1>1 DEF PrimUnwindTo, UnwindTo
  <2>2. Whole(frames', serial', op', exc')
    BY <1>1, <2>1, CalmUnwind DEF Follows
  <2>3. Len(s) \in Nat
    <3>1. s \in Seq(FrameType)
      BY DEF Follows, Calm, Stacked, Numbering
    <3> QED BY <3>1, StackFacts
  <2> QED
    BY <2>1, <2>2, <2>3 DEF Left, Keeps
<1>2. CASE ~Live(t)
  BY <1>2, CannotReturnLeft DEF PrimUnwindTo
<1> QED
  BY <1>1, <1>2

-----------------------------------------------------------------------------
(* The actions.                                                             *)

StartsOnce == Len(frames') > Len(frames) /\ Last(frames').kind = "cleanup" => ~Top.ran

\* A frame that may go away while o is done: its block was started, or it is an
\* ifCurtailed: that returns.
MayGo(f, o) ==
    f.kind \in {"ensure", "curtail"} /\ ~f.ran => f.kind = "curtail" /\ o.do = "return"

SkipsNone ==
    \A i \in DOMAIN frames :
        /\ frames[i].kind \in {"ensure", "curtail"} /\ ~frames[i].ran
        /\ \A j \in DOMAIN frames' : frames'[j].serial # frames[i].serial
        => frames[i].kind = "curtail" /\ op.do = "return"

Done == StackInv' /\ StartsOnce /\ (KillScope # "any" => SkipsNone)

LEMMA NextStack ==
    ASSUME StackInv'
    PROVE  /\ frames' \in Seq(FrameType) /\ Len(frames') \in Nat
           /\ DOMAIN frames' = 1..Len(frames')
<1>1. frames' \in Seq(FrameType)
  BY DEF StackInv, Whole, Stacked, Numbering
<1> QED
  BY <1>1, StackFacts

LEMMA DoneKept ==
    ASSUME StackInv, StackInv', Keeps(frames, frames'), StartsOnce
    PROVE  Done
<1>1. \A i \in 1..Len(frames) : i \in 1..Len(frames')
  BY TopFacts, NextStack DEF Keeps
<1>2. SkipsNone
  BY <1>1, TopFacts, NextStack DEF SkipsNone, Keeps
<1> QED
  BY <1>2 DEF Done

LEMMA DonePopped ==
    ASSUME StackInv, StackInv', StartsOnce, NEW s, Len(s) = Len(frames) - 1,
           \A i \in 1..Len(s) : s[i].serial = frames[i].serial, Keeps(s, frames'),
           KillScope # "any" => MayGo(Top, op)
    PROVE  Done
<1>1. \A i \in 1..Len(s) : i \in 1..Len(frames')
  BY TopFacts, NextStack DEF Keeps
<1>2. \A i \in 1..Len(frames) : i \in 1..Len(s) \/ i = Len(frames)
  BY TopFacts
<1>3. ASSUME KillScope # "any"  PROVE SkipsNone
  <2> SUFFICES ASSUME NEW i \in 1..Len(frames),
                      frames[i].kind \in {"ensure", "curtail"}, ~frames[i].ran,
                      \A j \in 1..Len(frames') : frames'[j].serial # frames[i].serial
               PROVE  frames[i].kind = "curtail" /\ op.do = "return"
    BY TopFacts, NextStack DEF SkipsNone
  <2>1. i = Len(frames)
    BY <1>1, <1>2 DEF Keeps
  <2> QED
    BY <1>3, <2>1, TopFacts DEF MayGo
<1> QED
  BY <1>3 DEF Done

\* A step that leaves something of the whole stack, or of a stack with its places
LEMMA DoneLeft ==
    ASSUME StackInv, NEW s, Len(s) = Len(frames),
           \A i \in 1..Len(s) : s[i].serial = frames[i].serial, Left(s)
    PROVE  Done
<1>1. StackInv' /\ Keeps(frames, frames') /\ StartsOnce
  BY DEF Left, Keeps, StackInv, StartsOnce
<1> QED
  BY <1>1, DoneKept

LEMMA KeptItself == ASSUME StackInv, frames' = frames  PROVE Keeps(frames, frames') /\ StartsOnce
<1>1. Len(frames) \in Nat
  BY TopFacts
<1> QED
  BY <1>1 DEF Keeps, StartsOnce

LEMMA PushOneDone ==
    ASSUME StackInv, Calm(frames, serial, exc), NEW f, Plain(frames, f), f.kind # "cleanup",
           op = Run, op' = Run, exc' = exc, PushOn(frames, <<f>>)
    PROVE  Done
<1>1. /\ Calm(frames', serial', exc') /\ Keeps(frames, frames') /\ Last(frames').kind # "cleanup"
  BY PlainOne
<1>2. StackInv'
  BY <1>1, CalmRun DEF StackInv
<1> QED
  BY <1>1, <1>2, DoneKept DEF StartsOnce

LEMMA PushTwoDone ==
    ASSUME StackInv, Calm(frames, serial, exc), NEW f, Plain(frames, f),
           op = Run, op' = Run, exc' = exc, PushOn(frames, <<f, Frame("code")>>)
    PROVE  Done
<1>1. \A r : Plain(r, Frame("code"))
  BY PlainFrames
<1>2. Frame("code").kind = "code"
  BY DEF Frame
<1>3. /\ Calm(frames', serial', exc') /\ Keeps(frames, frames') /\ Last(frames').kind = "code"
  BY <1>1, <1>2, PlainTwo
<1>4. StackInv'
  BY <1>3, CalmRun DEF StackInv
<1> QED
  BY <1>3, <1>4, DoneKept DEF StartsOnce

LEMMA CallDone == ASSUME StackInv, Call  PROVE Done
<1>1. Calm(frames, serial, exc) /\ op = Run
  BY ProgramCalm DEF Call, ProgramRuns
<1>2. Plain(frames, Frame("code")) /\ Frame("code").kind = "code"
  BY PlainFrames DEF Frame
<1> QED
  BY <1>1, <1>2, PushOneDone DEF Call

LEMMA ArmedFrames ==
    /\ \A s : \A c \in Class : Plain(s, [Frame("handler") EXCEPT !.slot = "armed", !.of = c])
    /\ \A s : \A k \in {"ensure", "curtail"} : Plain(s, [Frame(k) EXCEPT !.slot = "armed"])
<1>1. ASSUME NEW s, NEW c \in Class
      PROVE  Plain(s, [Frame("handler") EXCEPT !.slot = "armed", !.of = c])
  BY DEF Plain, BlockIn, Frame, FrameType, Kind, Nowhere, At, Target
<1>2. ASSUME NEW s, NEW k \in {"ensure", "curtail"}
      PROVE  Plain(s, [Frame(k) EXCEPT !.slot = "armed"])
  BY DEF Plain, BlockIn, Frame, FrameType, Kind, Nowhere, At, Target
<1> QED
  BY <1>1, <1>2

LEMMA OnDoDone == ASSUME StackInv, NEW c \in Class, OnDo(c)  PROVE Done
<1>1. Calm(frames, serial, exc) /\ op = Run
  BY ProgramCalm DEF OnDo, ProgramRuns
<1> DEFINE f == [Frame("handler") EXCEPT !.slot = "armed", !.of = c]
<1>2. Plain(frames, f)
  BY ArmedFrames
<1>3. PushOn(frames, <<f, Frame("code")>>) /\ op' = op /\ exc' = exc
  BY DEF OnDo, Protected
<1> HIDE DEF f
<1> QED
  BY <1>1, <1>2, <1>3, PushTwoDone

LEMMA GuardDone == ASSUME StackInv, NEW k \in {"ensure", "curtail"}, Guard(k)  PROVE Done
<1>1. Calm(frames, serial, exc) /\ op = Run
  BY ProgramCalm DEF Guard, ProgramRuns
<1> DEFINE f == [Frame(k) EXCEPT !.slot = "armed"]
<1>2. Plain(frames, f)
  BY ArmedFrames
<1>3. PushOn(frames, <<f, Frame("code")>>) /\ op' = op /\ exc' = exc
  BY DEF Guard
<1> HIDE DEF f
<1> QED
  BY <1>1, <1>2, <1>3, PushTwoDone

LEMMA KillDone == ASSUME StackInv, Kill  PROVE Done
<1>1. Calm(frames, serial, exc) /\ op = Run
  BY CalmFrames DEF Kill
<1>2. Plain(frames, Frame("trampoline")) /\ Frame("trampoline").kind = "trampoline"
  BY PlainFrames DEF Frame
<1> QED
  BY <1>1, <1>2, PushOneDone DEF Kill

LEMMA TerminateDone == ASSUME StackInv, Terminate  PROVE Done
<1>1. Calm(frames, serial, exc)
  BY ProgramCalm DEF Terminate, ProgramRuns
<1>2. Base \in Target /\ ArrivesIn(frames, Base)
  BY TopFacts DEF Base, At, Target, ArrivesIn, FrameType, StackInv, Whole, Stacked, Bottom
<1>3. Whole(frames, serial, [do |-> "unwind", to |-> Base], exc)
  BY <1>1, <1>2, CalmUnwind
<1>4. StackInv' /\ frames' = frames
  BY <1>3 DEF Terminate, UnwindTo, StackInv
<1> QED
  BY <1>4, KeptItself, DoneKept

LEMMA TakeBlockDone == ASSUME StackInv, TakeBlock  PROVE Done
<1> DEFINE k == Len(frames)
           f == [Top EXCEPT !.slot = "taken"]
<1>1. k \in 1..Len(frames) /\ Top = frames[k] /\ Top \in FrameType /\ BlockIn(Top)
  BY TopFacts
<1>2. Top.kind = "ensure" /\ Top.slot = "armed" /\ op = Run
  BY DEF TakeBlock, Executing, StackInv, Whole, Ready
<1>3. /\ f \in FrameType /\ f.slot = "taken" /\ f.kind = Top.kind /\ f.serial = Top.serial
      /\ f.cont = Top.cont /\ f.of = Top.of /\ f.for = Top.for /\ f.pending = Top.pending
      /\ f.ran = Top.ran
  BY <1>1 DEF FrameType
<1>4. frames' = Turned(frames, k, f)
  BY <1>1 DEF TakeBlock, Turned
<1> HIDE DEF f
<1>5. Turns(frames, k, f)
  BY <1>1, <1>2, <1>3 DEF Turns, BlockIn
<1>6. Stacked(frames, serial, exc) /\ Calm(frames, serial, exc)
  BY <1>2, CalmFrames DEF Calm, TakeBlock
<1>7. /\ Stacked(frames', serial, exc) /\ Len(frames') = Len(frames) /\ frames'[k] = f
      /\ \A i \in 1..Len(frames) : i # k => frames'[i] = frames[i]
      /\ \A i \in 1..Len(frames) : frames'[i].serial = frames[i].serial
  BY <1>1, <1>4, <1>5, <1>6, TurnStacked
<1>8. TakenOnTop(frames', Run)
  BY <1>6, <1>7 DEF TakenOnTop, Calm, Run
<1>9. Ready(frames', Run)
  BY DEF Ready, Run, Op, Target, Nowhere, At
<1>10. StackInv'
  BY <1>2, <1>7, <1>8, <1>9 DEF TakeBlock, StackInv, Whole
<1>11. Len(frames) \in Nat
  BY TopFacts
<1> QED
  BY <1>7, <1>10, <1>11, DoneKept DEF Keeps, StartsOnce

\* A frame whose block is started: its slot is emptied, and its unwind put off.
Started(f, t) == [f EXCEPT !.slot = "nil", !.ran = TRUE, !.pending = t]

IsStarted(g, f, t) ==
    /\ g \in FrameType /\ g.slot = "nil" /\ g.ran /\ g.pending = t
    /\ g.kind = f.kind /\ g.serial = f.serial /\ g.cont = f.cont
    /\ g.of = f.of /\ g.for = f.for

LEMMA StartedFacts ==
    ASSUME NEW f \in FrameType, NEW t \in Target
    PROVE  IsStarted(Started(f, t), f, t)
<1> DEFINE a == [f EXCEPT !.slot = "nil"]
           b == [a EXCEPT !.ran = TRUE]
           c == [b EXCEPT !.pending = t]
<1>1. /\ a \in FrameType /\ a.slot = "nil"
      /\ a.kind = f.kind /\ a.serial = f.serial /\ a.cont = f.cont
      /\ a.of = f.of /\ a.for = f.for
  BY DEF FrameType
<1> HIDE DEF a
<1>2. /\ b \in FrameType /\ b.slot = "nil" /\ b.ran = TRUE
      /\ b.kind = f.kind /\ b.serial = f.serial /\ b.cont = f.cont
      /\ b.of = f.of /\ b.for = f.for
  BY <1>1 DEF FrameType
<1> HIDE DEF b
<1>3. /\ c \in FrameType /\ c.slot = "nil" /\ c.ran = TRUE /\ c.pending = t
      /\ c.kind = f.kind /\ c.serial = f.serial /\ c.cont = f.cont
      /\ c.of = f.of /\ c.for = f.for
  BY <1>2 DEF FrameType
<1>4. Started(f, t) = c
  BY DEF Started, a, b
<1> HIDE DEF c
<1> QED
  BY <1>3, <1>4 DEF IsStarted

\* On the top of the stack
LEMMA TurnedTwice ==
    ASSUME NEW s \in Seq(FrameType), NEW k \in 1..Len(s)
    PROVE  [s EXCEPT ![k].slot = "nil", ![k].ran = TRUE] = Turned(s, k, Started(s[k], s[k].pending))
<1> DEFINE a == [s[k] EXCEPT !.slot = "nil"]
           b == [a EXCEPT !.ran = TRUE]
           t == s[k].pending
<1>1. s[k] \in FrameType /\ DOMAIN s = 1..Len(s)
  BY StackFacts
<1>2. [b EXCEPT !.pending = t] = b
  <2>1. b \in FrameType /\ b.pending = t
    BY <1>1 DEF FrameType
  <2> HIDE DEF b, t
  <2> QED BY <2>1 DEF FrameType
<1>3. Started(s[k], t) = [b EXCEPT !.pending = t]
  BY DEF Started
<1>4. [s EXCEPT ![k].slot = "nil"] = [s EXCEPT ![k] = a]
  OBVIOUS
<1>5. [[s EXCEPT ![k] = a] EXCEPT ![k].ran = TRUE] = [s EXCEPT ![k] = b]
  <2> HIDE DEF a
  <2> QED BY <1>1
<1>6. [s EXCEPT ![k].slot = "nil", ![k].ran = TRUE] = [[s EXCEPT ![k].slot = "nil"] EXCEPT ![k].ran = TRUE]
  OBVIOUS
<1> QED
  BY <1>2, <1>3, <1>4, <1>5, <1>6 DEF Turned

PutOffIn(s, k, t) == [s EXCEPT ![k].slot = "nil", ![k].ran = TRUE, ![k].pending = t]

LEMMA TurnedThrice ==
    ASSUME NEW s \in Seq(FrameType), NEW k \in 1..Len(s), NEW t
    PROVE  PutOffIn(s, k, t) = Turned(s, k, Started(s[k], t))
<1> DEFINE a == [s[k] EXCEPT !.slot = "nil"]
           b == [a EXCEPT !.ran = TRUE]
           c == [b EXCEPT !.pending = t]
<1>1. DOMAIN s = 1..Len(s)
  BY StackFacts
<1>2. Started(s[k], t) = c
  BY DEF Started
<1>3. [s EXCEPT ![k].slot = "nil"] = [s EXCEPT ![k] = a]
  OBVIOUS
<1>4. [[s EXCEPT ![k] = a] EXCEPT ![k].ran = TRUE] = [s EXCEPT ![k] = b]
  <2> HIDE DEF a
  <2> QED BY <1>1
<1>5. [[s EXCEPT ![k] = b] EXCEPT ![k].pending = t] = [s EXCEPT ![k] = c]
  <2> HIDE DEF b
  <2> QED BY <1>1
<1>6. PutOffIn(s, k, t)
        = [[[s EXCEPT ![k].slot = "nil"] EXCEPT ![k].ran = TRUE] EXCEPT ![k].pending = t]
  BY DEF PutOffIn
<1> QED
  BY <1>2, <1>3, <1>4, <1>5, <1>6 DEF Turned

\* The frame of the block, which goes on with the unwind t if it has to
CleansFor(c, t) ==
    /\ c.kind = "cleanup" /\ c \in FrameType /\ c.slot = "none" /\ c.pending = Nowhere
    /\ c.cont => t # Nowhere

\* An unwind that goes below the top frame, or the one that is put off there.
Further(t) == t = Top.pending \/ (ArrivesIn(frames, t) /\ t.off < Len(frames))

\* The top frame starts its block.
StartsBlock(c, t) == PushOn(Turned(frames, Len(frames), Started(Top, t)), <<c>>)

\* The block of the top frame starts: of a frame that has it yet, put off or not.
LEMMA StartDone ==
    ASSUME StackInv, Top.kind \in {"ensure", "curtail"}, Top.slot \in {"armed", "taken"},
           NEW t \in Target, Further(t),
           NEW c, CleansFor(c, t),
           StartsBlock(c, t), op' = Run, exc' = exc
    PROVE  Done
<1> DEFINE k == Len(frames)
           f == Started(Top, t)
           u == Turned(frames, k, f)
<1>1. /\ k \in 1..Len(frames) /\ Top = frames[k] /\ Top \in FrameType /\ BlockIn(Top)
      /\ k \in Nat
  BY TopFacts
<1>2. IsStarted(f, Top, t)
  BY <1>1, StartedFacts
<1> HIDE DEF f
<1>3. Turns(frames, k, f)
  <2>1. BlockIn(f)
    BY <1>1, <1>2 DEF BlockIn, IsStarted
  <2>2. f.pending = frames[k].pending \/ (f.pending # Nowhere /\ f.pending.off < k /\ ArrivesIn(frames, f.pending))
    BY <1>1, <1>2 DEF Nowhere, At, ArrivesIn, IsStarted, Further
  <2> QED
    BY <1>1, <1>2, <2>1, <2>2 DEF Turns, IsStarted
<1>4. Stacked(frames, serial, exc)
  BY DEF StackInv, Whole
<1>5. /\ Stacked(u, serial, exc) /\ Len(u) = k /\ u[k] = f
      /\ \A i \in 1..k : i # k => u[i] = frames[i]
      /\ \A i \in 1..k : u[i].serial = frames[i].serial
  BY <1>1, <1>3, <1>4, TurnStacked
<1> HIDE DEF u
<1>6. Calm(u, serial, exc)
  BY <1>2, <1>5 DEF Calm, StackInv, Whole, TakenOnTop, IsStarted
<1>7. Plain(u, c)
  BY <1>2, <1>5 DEF Plain, BlockIn, IsStarted, CleansFor
<1>8. PushOn(u, <<c>>)
  BY DEF u, f, StartsBlock
<1>9. /\ Calm(frames', serial', exc) /\ Len(frames') = Len(u) + 1 /\ Keeps(u, frames')
  BY <1>6, <1>7, <1>8, PlainOne
<1>10. StackInv'
  BY <1>9, CalmRun DEF StackInv
<1>11. Keeps(frames, frames')
  BY <1>1, <1>5, <1>9 DEF Keeps
<1>12. ~Top.ran
  BY <1>1 DEF BlockIn
<1> QED
  BY <1>10, <1>11, <1>12, DoneKept DEF StartsOnce

LEMMA RunTakenDone == ASSUME StackInv, RunTaken  PROVE Done
<1>1. /\ Top = frames[Len(frames)] /\ Top \in FrameType /\ frames \in Seq(FrameType)
      /\ Len(frames) \in 1..Len(frames)
  BY TopFacts
<1>2. Top.pending \in Target
  BY <1>1 DEF FrameType
<1>3. op = Run /\ exc' = exc /\ op' = op
  BY DEF RunTaken, Executing, StackInv, Whole, Ready
<1>4. PushOn(Turned(frames, Len(frames), Started(Top, Top.pending)), <<Frame("cleanup")>>)
  <2>1. [frames EXCEPT ![Len(frames)].slot = "nil", ![Len(frames)].ran = TRUE]
          = Turned(frames, Len(frames), Started(Top, Top.pending))
    BY <1>1, TurnedTwice
  <2> QED
    BY <2>1 DEF RunTaken
<1> DEFINE c == Frame("cleanup")
<1>5. \A t : CleansFor(c, t)
  BY FrameFacts DEF Kind, CleansFor
<1>6. Top.kind \in {"ensure", "curtail"} /\ Top.slot \in {"armed", "taken"}
  BY DEF RunTaken
<1> DEFINE t == Top.pending
<1>7. t \in Target /\ Further(t) /\ StartsBlock(c, t)
  <2>1. StartsBlock(c, t)
    BY ONLY <1>4 DEF StartsBlock
  <2>2. Further(t)
    BY DEF Further
  <2> QED BY <1>2, <2>1, <2>2
<1>8. op' = Run /\ CleansFor(c, t)
  BY <1>3, <1>5
<1> HIDE DEF c, t
<1> QED
  BY ONLY StackInv, <1>3, <1>6, <1>7, <1>8, StartDone

LEMMA ReturnDone == ASSUME StackInv, Return  PROVE Done
<1>1. BlockIn(Top) /\ Top = frames[Len(frames)]
  BY TopFacts
<1>2. Top.slot # "taken" /\ (Top.kind = "ensure" => Top.ran)
  BY <1>1 DEF Return, BlockIn
<1>3. Calm(frames, serial, exc) /\ op = Run
  BY <1>2, CalmFrames DEF Return
<1>4. op' = [do |-> "return", to |-> Nowhere]
  BY <1>3 DEF Return, Run
<1>5. Ready(frames, op')
  BY <1>1, <1>2, <1>4 DEF Ready, Op, Nowhere, At, Target
<1>6. TakenOnTop(frames, op')
  BY <1>3 DEF Calm, TakenOnTop
<1>7. StackInv' /\ frames' = frames
  BY <1>3, <1>5, <1>6 DEF Return, StackInv, Whole, Calm
<1> QED
  BY <1>7, KeptItself, DoneKept

\* While the VM returns or unwinds, no frame is between the two steps.
LEMMA MachineCalm ==
    ASSUME StackInv, op.do # "run"
    PROVE  Calm(frames, serial, exc)
BY DEF StackInv, Whole, Calm, TakenOnTop

LEMMA PopCalm ==
    ASSUME StackInv, Calm(frames, serial, exc), Len(frames) > 1, NEW s, s = Front(frames)
    PROVE  /\ Calm(s, serial, exc) /\ Len(s) = Len(frames) - 1
           /\ \A i \in 1..Len(s) : s[i] = frames[i] /\ i \in 1..Len(frames)
           /\ \A t : ArrivesIn(frames, t) /\ t.off < Len(frames) => ArrivesIn(s, t)
<1>1. /\ Stacked(s, serial, exc) /\ Len(s) = Len(frames) - 1
      /\ \A i \in 1..Len(s) : s[i] = frames[i]
      /\ \A t : ArrivesIn(frames, t) /\ t.off < Len(frames) => ArrivesIn(s, t)
  BY PopStacked DEF Calm
<1>2. \A i \in 1..Len(s) : i \in 1..Len(frames)
  BY <1>1, TopFacts
<1> QED
  BY <1>1, <1>2 DEF Calm

\* The top frame is popped, and nothing is pushed.
LEMMA PopDone ==
    ASSUME StackInv, op.do # "run", Len(frames) > 1, frames' = Front(frames),
           serial' = serial, exc' = exc, KillScope # "any" => MayGo(Top, op),
           NEW o, op' = o, Ready(frames', o)
    PROVE  Done
<1>1. Calm(frames, serial, exc)
  BY MachineCalm
<1>2. /\ Calm(frames', serial, exc) /\ Len(frames') = Len(frames) - 1
      /\ \A i \in 1..Len(frames') : frames'[i] = frames[i] /\ i \in 1..Len(frames)
  BY <1>1, PopCalm
<1>3. StackInv'
  BY <1>2 DEF StackInv, Whole, Calm, TakenOnTop
<1>4. Keeps(frames', frames') /\ StartsOnce
  BY <1>2, TopFacts DEF Keeps, StartsOnce
<1> DEFINE s == frames'
<1>5. Len(s) = Len(frames) - 1 /\ (\A i \in 1..Len(s) : s[i].serial = frames[i].serial)
  BY <1>2
<1>6. Keeps(s, frames')
  BY <1>4
<1> HIDE DEF s
<1> QED
  BY <1>3, <1>4, <1>5, <1>6, DonePopped

LEMMA ReadyRun == ASSUME NEW s  PROVE Ready(s, Run)
BY DEF Ready, Run, Op, Target, Nowhere, At

LEMMA ReadyUnwind ==
    ASSUME NEW s, NEW t \in Target, ArrivesIn(s, t)
    PROVE  Ready(s, [do |-> "unwind", to |-> t])
BY DEF Ready, Op

LEMMA DoReturnDone == ASSUME StackInv, DoReturn  PROVE Done
<1>1. /\ frames \in Seq(FrameType) /\ Len(frames) \in Nat /\ Len(frames) > 0
      /\ Top = frames[Len(frames)] /\ Len(frames) \in 1..Len(frames) /\ Top \in FrameType
      /\ \A i \in 1..Len(frames) : frames[i] \in FrameType
  BY TopFacts
<1>2. op.do = "return" /\ op.do # "run" /\ exc' = exc
  BY DEF DoReturn
<1>3. MayGo(Top, op)
  BY <1>1, <1>2 DEF MayGo, StackInv, Whole, Ready
<1>4. CASE Top.cont
  <2>1. /\ Len(frames) > 1 /\ frames[Len(frames) - 1].pending # Nowhere
        /\ Len(frames) - 1 \in 1..Len(frames)
    BY <1>1, <1>4 DEF StackInv, Whole, Stacked, PutOff
  <2> DEFINE s == Front(frames)
             t == frames[Len(frames) - 1].pending
  <2>2. /\ Calm(s, serial, exc) /\ Len(s) = Len(frames) - 1
        /\ \A i \in 1..Len(s) : s[i] = frames[i] /\ i \in 1..Len(frames)
        /\ \A x : ArrivesIn(frames, x) /\ x.off < Len(frames) => ArrivesIn(s, x)
    BY <1>2, <2>1, MachineCalm, PopCalm
  <2>3. t.off < Len(frames) - 1 /\ ArrivesIn(frames, t)
    BY <2>1 DEF StackInv, Whole, Stacked, PutOff
  <2>4. t \in Target /\ t.off \in Nat
    BY <1>1, <2>1 DEF FrameType, Target
  <2>5. Last(s).pending = t
    <3> HIDE DEF s
    <3>1. Len(s) \in 1..Len(s)
      BY <1>1, <2>1, <2>2
    <3>2. Last(s) = s[Len(s)]
      BY DEF Last
    <3>3. s[Len(s)] = frames[Len(frames) - 1]
      BY <2>2, <3>1
    <3> QED BY <3>2, <3>3
  <2> HIDE DEF t
  <2>6. ArrivesIn(s, t)
    BY <1>1, <2>2, <2>3, <2>4
  <2>7. Live(t)
    BY <2>3, TopFacts DEF ArrivesIn, Live
  <2>8. op' = [do |-> "unwind", to |-> t] /\ frames' = s /\ serial' = serial
    BY <1>4, <2>5, <2>7 DEF DoReturn
  <2>9. Ready(frames', [do |-> "unwind", to |-> t])
    BY <2>4, <2>6, <2>8, ReadyUnwind
  <2>10. frames' = Front(frames)
    BY <2>8
  <2> HIDE DEF s
  <2> QED
    BY <1>2, <1>3, <2>1, <2>8, <2>9, <2>10, PopDone
<1>5. CASE ~Top.cont /\ Len(frames) = 1
  <2>1. op' = [do |-> "ended", to |-> Nowhere] /\ frames' = frames /\ serial' = serial
    BY <1>5 DEF DoReturn, Run
  <2>2. Ready(frames, op')
    BY <2>1 DEF Ready, Op, Target, Nowhere, At
  <2>3. StackInv'
    BY <1>2, <2>1, <2>2, MachineCalm DEF StackInv, Whole, Calm, TakenOnTop
  <2> QED
    BY <2>1, <2>3, KeptItself, DoneKept
<1>6. CASE ~Top.cont /\ Len(frames) > 1 /\ ~(Top.kind = "handler" /\ op.to.value = "retry")
  <2>1. Len(frames) # 1
    BY <1>1, <1>6
  <2>2. \/ IF Top.kind = "handler" /\ op.to.value = "retry"
           THEN PushOn(Front(frames), Protected(Top.of))
           ELSE frames' = Front(frames) /\ UNCHANGED serial
        \/ Top.cont \/ Len(frames) = 1
    BY Zenon DEF DoReturn
  <2>3. frames' = Front(frames) /\ serial' = serial
    BY <1>6, <2>1, <2>2, Zenon
  <2>4. op' = Run
    BY <1>6, <2>1, Zenon DEF DoReturn
  <2>5. Ready(frames', Run)
    BY ReadyRun
  <2> QED
    BY <1>2, <1>3, <1>6, <2>3, <2>4, <2>5, PopDone
<1>7. CASE ~Top.cont /\ Len(frames) > 1 /\ Top.kind = "handler" /\ op.to.value = "retry"
  <2> DEFINE s == Front(frames)
             f == [Frame("handler") EXCEPT !.slot = "armed", !.of = Top.of]
  <2>1. PushOn(s, <<f, Frame("code")>>) /\ op' = Run
    BY <1>7 DEF DoReturn, Protected
  <2>2. /\ Calm(s, serial, exc) /\ Len(s) = Len(frames) - 1
        /\ \A i \in 1..Len(s) : s[i] = frames[i] /\ i \in 1..Len(frames)
    BY <1>2, <1>7, MachineCalm, PopCalm
  <2>3. Plain(s, f)
    <3>1. Top.of \in Exception \cup Class \cup {"none"}
      BY <1>1 DEF FrameType
    <3> QED
      BY <3>1 DEF Plain, BlockIn, Frame, FrameType, Kind, Nowhere, At, Target
  <2>4. (\A r : Plain(r, Frame("code"))) /\ Frame("code").kind = "code"
    BY PlainFrames DEF Frame
  <2> HIDE DEF s, f
  <2>5. /\ Calm(frames', serial', exc) /\ Keeps(s, frames') /\ Last(frames').kind = "code"
    BY <2>1, <2>2, <2>3, <2>4, PlainTwo
  <2>6. StackInv'
    BY <1>2, <2>1, <2>5, CalmRun DEF StackInv
  <2>7. StartsOnce
    BY <2>5 DEF StartsOnce
  <2>8. Len(s) = Len(frames) - 1 /\ (\A i \in 1..Len(s) : s[i].serial = frames[i].serial)
    BY <2>2
  <2> QED
    BY <1>3, <2>5, <2>6, <2>7, <2>8, DonePopped
<1>8. Len(frames) = 1 \/ Len(frames) > 1
  <2>1. \A n \in Nat : n > 0 => n = 1 \/ n > 1
    OBVIOUS
  <2> QED BY <1>1, <2>1, Zenon
<1> QED
  BY <1>4, <1>5, <1>6, <1>7, <1>8, Zenon

LEMMA UnwindDone == ASSUME StackInv, Unwind  PROVE Done
<1> DEFINE t == op.to
<1>1. /\ frames \in Seq(FrameType) /\ Len(frames) \in Nat /\ Len(frames) > 0
      /\ Top = frames[Len(frames)] /\ Top \in FrameType /\ BlockIn(Top)
  BY TopFacts
<1>2. op.do = "unwind" /\ op.do # "run" /\ exc' = exc /\ op \in Op /\ ArrivesIn(frames, t)
      /\ op = [do |-> "unwind", to |-> t] /\ t \in Target
  BY DEF Unwind, StackInv, Whole, Ready, Op
<1>3. t.off \in Nat /\ t.off <= Len(frames) /\ t.off > 0
  BY <1>1, <1>2 DEF ArrivesIn
<1>4. CASE Len(frames) <= t.off
  <2>1. t.off = Len(frames)
    BY <1>1, <1>3, <1>4
  <2>2. op' = [op EXCEPT !.do = "return"] /\ frames' = frames /\ serial' = serial
    BY <1>1, <1>4, <2>1 DEF Unwind
  <2>3. op' = [do |-> "return", to |-> t]
    BY <1>2, <2>2
  <2>4. Ready(frames, op')
    BY <1>2, <2>1, <2>3 DEF Ready, Op, ArrivesIn
  <2>5. StackInv'
    BY <1>2, <2>2, <2>3, <2>4, MachineCalm DEF StackInv, Whole, Calm, TakenOnTop
  <2> QED
    BY <2>2, <2>5, KeptItself, DoneKept
<1>5. CASE Len(frames) > t.off /\ MustClean
  <2>1. CleanFirst
    BY <1>1, <1>3, <1>5 DEF Unwind
  <2> DEFINE c == [Frame("cleanup") EXCEPT !.cont = TRUE]
  <2>2. CleansFor(c, t)
    <3>1. t # Nowhere
      BY <1>3 DEF Nowhere, At
    <3> QED
      BY <3>1 DEF CleansFor, Frame, FrameType, Kind, Nowhere, At, Target
  <2>3. [t EXCEPT !.serial = frames[t.off].serial] = t
    BY <1>2 DEF ArrivesIn, Target
  <2>4. PushOn([frames EXCEPT ![Len(frames)].slot = "nil", ![Len(frames)].ran = TRUE,
                              ![Len(frames)].pending = t], <<c>>)
    BY <2>1, <2>3 DEF CleanFirst, BlockAfterUnwind
  <2>5. Len(frames) \in 1..Len(frames)
    BY <1>1
  <2>6. [frames EXCEPT ![Len(frames)].slot = "nil", ![Len(frames)].ran = TRUE,
                       ![Len(frames)].pending = t] = Turned(frames, Len(frames), Started(Top, t))
    <3>1. PutOffIn(frames, Len(frames), t) = Turned(frames, Len(frames), Started(Top, t))
      BY <1>1, <2>5, TurnedThrice
    <3> QED BY <3>1 DEF PutOffIn
  <2>7. StartsBlock(c, t)
    BY <2>4, <2>6 DEF StartsBlock
  <2>8. Further(t)
    BY <1>2, <1>5 DEF Further
  <2>9. Top.kind \in {"ensure", "curtail"} /\ Top.slot \in {"armed", "taken"}
    BY <1>5 DEF MustClean
  <2>10. op' = Run /\ t \in Target
    BY <1>2, <2>1 DEF CleanFirst
  <2> HIDE DEF c
  <2> QED
    BY <1>2, <2>2, <2>7, <2>8, <2>9, <2>10, StartDone
<1>6. CASE Len(frames) > t.off /\ ~MustClean
  <2>1. frames' = Front(frames) /\ serial' = serial /\ op' = op /\ Len(frames) > 1
    BY <1>1, <1>3, <1>6 DEF Unwind
  <2>2. KillScope # "any" => MayGo(Top, op)
    <3>1. KillScope # "any" => Top.slot # "taken"
      <4>1. Calm(frames, serial, exc) /\ Len(frames) \in 1..Len(frames)
        BY <1>1, <1>2, MachineCalm
      <4> QED BY <1>1, <4>1 DEF Calm
    <3> QED
      BY <1>1, <1>6, <3>1 DEF MayGo, MustClean, BlockIn
  <2>3. ArrivesIn(frames', t)
    BY <1>2, <1>6, <2>1, MachineCalm, PopCalm
  <2>4. Ready(frames', op)
    BY <1>2, <2>3, ReadyUnwind
  <2> DEFINE o == op
  <2>5. op' = o /\ Ready(frames', o)
    BY <2>1, <2>4
  <2> HIDE DEF o
  <2> QED
    BY <1>2, <2>1, <2>2, <2>5, PopDone
<1> QED
  BY <1>1, <1>3, <1>4, <1>5, <1>6

\* A target that an exception names arrives, if it is live.
LEMMA NamedArrives ==
    ASSUME StackInv, NEW e \in Exception,
           NEW t, t \in {exc[e].signal, exc[e].handler,
                         [exc[e].handler EXCEPT !.value = "retry"]}
    PROVE  t \in Target /\ (Live(t) => ArrivesIn(frames, t))
<1>1. /\ exc[e].signal \in Target /\ Names(frames, serial, exc[e].signal, "signal")
      /\ exc[e].handler \in Target /\ Names(frames, serial, exc[e].handler, "handler")
  BY DEF StackInv, Whole, Stacked, Known
<1>2. DOMAIN frames = 1..Len(frames)
  BY TopFacts
<1>3. ASSUME NEW r \in Target, NEW k \in {"signal", "handler"}, Names(frames, serial, r, k)
      PROVE  Live(r) => ArrivesIn(frames, r)
  BY <1>2, <1>3 DEF Names, Live, ArrivesIn
<1>4. CASE t = exc[e].signal
  BY <1>1, <1>3, <1>4
<1>5. CASE t = exc[e].handler
  BY <1>1, <1>3, <1>5
<1>6. CASE t = [exc[e].handler EXCEPT !.value = "retry"]
  <2>1. t \in Target /\ t.off = exc[e].handler.off /\ t.serial = exc[e].handler.serial
    BY <1>1, <1>6 DEF Target
  <2>2. Names(frames, serial, t, "handler")
    BY <1>1, <2>1 DEF Names
  <2> QED
    BY <1>3, <2>1, <2>2
<1> QED
  BY <1>4, <1>5, <1>6

LEMMA FollowsItself ==
    ASSUME StackInv, Calm(frames, serial, exc)
    PROVE  Follows(frames)
BY TopFacts DEF Follows

LEMMA SignalDone == ASSUME StackInv, NEW e \in Exception, NEW c \in Class, Signal(e, c)  PROVE Done
<1>1. Calm(frames, serial, exc) /\ op = Run
  BY ProgramCalm DEF Signal, ProgramRuns
<1>2. Unhandled(frames, e)
  BY TopFacts DEF Unhandled, Signal, Fresh
<1>3. SignalOn(frames, <<>>, e, c)
  BY DEF Signal
<1>4. Left(frames)
  BY <1>1, <1>2, <1>3, SignalOnLeft
<1> QED
  BY <1>4, DoneLeft

LEMMA FallOffDone == ASSUME StackInv, FallOff  PROVE Done
<1> DEFINE k == Len(frames)
           f == [Top EXCEPT !.slot = "nil"]
           s == Turned(frames, k, f)
           e == Top.of
           t == exc[e].handler
<1>1. /\ k \in 1..Len(frames) /\ Top = frames[k] /\ Top \in FrameType /\ BlockIn(Top)
  BY TopFacts
<1>2. Top.kind = "signal" /\ Top.slot = "none" /\ PrimUnwindTo(s, t)
  <2>1. [frames EXCEPT ![Len(frames)].slot = "nil"] = s
    BY <1>1 DEF Turned
  <2> QED BY <2>1 DEF FallOff
<1>3. Calm(frames, serial, exc) /\ op = Run
  BY ProgramCalm DEF FallOff
<1>4. /\ f \in FrameType /\ f.slot = "nil" /\ f.kind = Top.kind /\ f.serial = Top.serial
      /\ f.cont = Top.cont /\ f.of = Top.of /\ f.for = Top.for /\ f.pending = Top.pending
      /\ f.ran = Top.ran
  BY <1>1 DEF FrameType
<1> HIDE DEF f
<1>5. Turns(frames, k, f) /\ f.slot # "taken"
  BY <1>1, <1>2, <1>4 DEF Turns, BlockIn
<1>6. /\ Calm(s, serial, exc) /\ Len(s) = k /\ s[k] = f
      /\ \A i \in 1..k : i # k => s[i] = frames[i]
      /\ \A i \in 1..k : s[i].serial = frames[i].serial
      /\ \A x : ArrivesIn(frames, x) => ArrivesIn(s, x)
  BY <1>1, <1>3, <1>5, TurnCalm
<1> HIDE DEF s
<1>7. Follows(s)
  <2>1. Len(s) <= Len(frames)
    BY <1>6, TopFacts
  <2> QED
    BY <1>1, <1>4, <1>6, <2>1 DEF Follows
<1>8. e \in Exception
  BY <1>1, <1>2 DEF BlockIn
<1> HIDE DEF e
<1>9. t \in Target /\ (Live(t) => ArrivesIn(s, t))
  BY <1>6, <1>8, NamedArrives
<1>10. PrimUnwindTo(s, t)
  BY <1>2
<1> HIDE DEF t
<1>11. Left(s)
  BY <1>3, <1>7, <1>9, <1>10, PrimLeft
<1> QED
  BY <1>6, <1>11, DoneLeft

LEMMA DecideDone ==
    ASSUME StackInv, NEW e \in Exception, NEW o \in Outcomes, Decide(e, o)
    PROVE  Done
<1>1. Calm(frames, serial, exc) /\ op = Run
  BY ProgramCalm DEF Decide, ProgramRuns
<1>2. CASE o = "pass"
  <2>1. SignalOn(frames, Signaler, e, exc[e].class)
    BY <1>2 DEF Decide, Signaler
  <2>2. exc[e].class \in Class
    BY DEF StackInv, Whole, Stacked, Known
  <2>3. Unhandled(frames, e)
    BY <1>2 DEF Unhandled
  <2> DEFINE c == exc[e].class
  <2>4. c \in Class /\ SignalOn(frames, Signaler, e, c)
    BY <2>1, <2>2
  <2> HIDE DEF c
  <2>5. Left(frames)
    BY <1>1, <2>3, <2>4, SignalOnLeft
  <2> QED
    BY <2>5, DoneLeft
<1>3. CASE o # "pass"
  <2> DEFINE t == Goal(e, o)
  <2>1. t \in {exc[e].signal, exc[e].handler, [exc[e].handler EXCEPT !.value = "retry"]}
    <3>1. o \in {"return", "resume", "retry"}
      BY <1>3, ExceptionsAssumption
    <3> QED BY <3>1 DEF Goal
  <2>2. PrimUnwindTo(frames, t)
    BY <1>3 DEF Decide
  <2> HIDE DEF t
  <2>3. t \in Target /\ (Live(t) => ArrivesIn(frames, t))
    BY <2>1, NamedArrives
  <2>4. Left(frames)
    BY <1>1, <2>2, <2>3, FollowsItself, PrimLeft
  <2> QED
    BY <2>4, DoneLeft
<1> QED
  BY <1>2, <1>3

LEMMA NonLocalReturnDone ==
    ASSUME StackInv, NEW home \in Homes, NonLocalReturn(home)
    PROVE  Done
<1>1. /\ Calm(frames, serial, exc) /\ op = Run
      /\ Top.kind \in {"code", "handling", "cleanup"}
  BY ProgramCalm DEF NonLocalReturn, ProgramRuns
<1>2. CASE /\ Live(home) /\ UnwindTo(home) /\ UNCHANGED <<frames, serial, exc>>
  <2>1. home \in Target /\ ArrivesIn(frames, home)
    BY <1>2, TopFacts DEF Homes, Live, At, Nowhere, ArrivesIn, Target, FrameType
  <2>2. StackInv'
    BY <1>1, <1>2, <2>1, CalmUnwind DEF UnwindTo, StackInv
  <2> QED
    BY <1>2, <2>2, KeptItself, DoneKept
<1>3. CASE Len(frames) > 1 /\ SignalCannotReturn(Front(frames))
  <2> DEFINE s == Front(frames)
  <2>1. /\ Calm(s, serial, exc) /\ Len(s) = Len(frames) - 1
        /\ \A i \in 1..Len(s) : s[i] = frames[i] /\ i \in 1..Len(frames)
    BY <1>1, <1>3, PopCalm
  <2>2. SignalCannotReturn(s)
    BY <1>3
  <2> HIDE DEF s
  <2>3. Follows(s) /\ Len(s) < Len(frames) /\ Len(frames) \in Nat
    BY <2>1, TopFacts DEF Follows
  <2>4. Left(s)
    BY <1>1, <2>2, <2>3, CannotReturnLeft
  <2>5. StackInv' /\ Keeps(s, frames')
    BY <2>4 DEF Left, StackInv
  <2>6. StartsOnce
    <3>1. Len(frames') \in Nat
      BY <2>5, NextStack
    <3>2. Len(frames') > Len(frames) => Len(frames') > Len(s)
      BY <2>1, <2>3, <3>1
    <3> QED
      BY <2>4, <3>2 DEF Left, StartsOnce
  <2>7. MayGo(Top, op)
    BY <1>1 DEF MayGo
  <2>8. \A i \in 1..Len(s) : s[i].serial = frames[i].serial
    BY <2>1
  <2> QED
    BY <2>1, <2>5, <2>6, <2>7, <2>8, DonePopped
<1>4. CASE /\ DeadReturnScope = "any" /\ op' = [op EXCEPT !.do = "fatal"]
           /\ UNCHANGED <<frames, serial, exc>>
  <2>1. op' = [do |-> "fatal", to |-> Nowhere]
    BY <1>1, <1>4 DEF Run
  <2>2. Ready(frames, op')
    <3>1. op' \in Op /\ op'.do = "fatal"
      BY <2>1 DEF Op, Target, Nowhere, At
    <3> QED BY <1>4, <3>1 DEF Ready
  <2>3. StackInv'
    BY <1>1, <1>4, <2>2 DEF StackInv, Whole, Calm, TakenOnTop
  <2> QED
    BY <1>4, <2>3, KeptItself, DoneKept
<1>5. \/ /\ Live(home) /\ UnwindTo(home) /\ UNCHANGED <<frames, serial, exc>>
      \/ Len(frames) > 1 /\ SignalCannotReturn(Front(frames))
      \/ /\ DeadReturnScope = "any" /\ op' = [op EXCEPT !.do = "fatal"]
         /\ UNCHANGED <<frames, serial, exc>>
  BY Zenon DEF NonLocalReturn
<1> QED
  BY <1>2, <1>3, <1>4, <1>5

-----------------------------------------------------------------------------
(* The theorems.                                                            *)

LEMMA InitHolds == Init => StackInv
<1> SUFFICES ASSUME Init  PROVE StackInv
  OBVIOUS
<1> DEFINE f == [Frame("code") EXCEPT !.serial = 1]
<1>1. frames = <<f>> /\ serial = 1 /\ op = Run
  BY DEF Init
<1>2. /\ f \in FrameType /\ f.kind = "code" /\ f.serial = 1 /\ f.slot = "none"
      /\ ~f.cont /\ f.pending = Nowhere /\ BlockIn(f)
  BY DEF Frame, FrameType, Kind, Nowhere, At, Target, BlockIn
<1> HIDE DEF f
<1>3. frames \in Seq(FrameType) /\ Len(frames) = 1 /\ frames[1] = f
  BY <1>1, <1>2
<1>4. \A i \in 1..Len(frames) : i = 1
  BY <1>3
<1>5. Numbering(frames, serial)
  BY <1>1, <1>2, <1>3, <1>4 DEF Numbering
<1>6. Bottom(frames) /\ PutOff(frames) /\ Blocks(frames) /\ Handlings(frames)
  BY <1>2, <1>3, <1>4 DEF Bottom, PutOff, Blocks, Handlings
<1>7. Known(frames, serial, exc)
  BY <1>1, <1>3, ExceptionsAssumption DEF Init, Known, Names, Nowhere, At, Target
<1>8. Current(frames, exc)
  BY <1>2, <1>3, <1>4 DEF Current
<1>9. Calm(frames, serial, exc)
  BY <1>2, <1>3, <1>4, <1>5, <1>6, <1>7, <1>8 DEF Calm, Stacked
<1> QED
  BY <1>1, <1>9, CalmRun DEF StackInv

LEMMA StepDone == ASSUME StackInv, Next, ~UNCHANGED vars  PROVE Done
<1>1. CASE Call
  BY <1>1, CallDone
<1>2. ASSUME NEW c \in Class, OnDo(c)  PROVE Done
  BY <1>2, OnDoDone
<1>3. ASSUME NEW k \in {"ensure", "curtail"}, Guard(k)  PROVE Done
  BY <1>3, GuardDone
<1>4. CASE TakeBlock
  BY <1>4, TakeBlockDone
<1>5. CASE RunTaken
  BY <1>5, RunTakenDone
<1>6. CASE Return
  BY <1>6, ReturnDone
<1>7. CASE DoReturn
  BY <1>7, DoReturnDone
<1>8. CASE Unwind
  BY <1>8, UnwindDone
<1>9. ASSUME NEW e \in Exception, NEW c \in Class, Signal(e, c)  PROVE Done
  BY <1>9, SignalDone
<1>10. CASE FallOff
  BY <1>10, FallOffDone
<1>11. ASSUME NEW e \in Exception, NEW o \in Outcomes, Decide(e, o)  PROVE Done
  BY <1>11, DecideDone
<1>12. ASSUME NEW home \in Homes, NonLocalReturn(home)  PROVE Done
  BY <1>12, NonLocalReturnDone
<1>13. CASE Kill
  BY <1>13, KillDone
<1>14. CASE Terminate
  BY <1>14, TerminateDone
<1>15. ~Ended
  BY DEF Ended
<1> QED
  BY <1>1, <1>2, <1>3, <1>4, <1>5, <1>6, <1>7, <1>8, <1>9, <1>10, <1>11, <1>12, <1>13,
     <1>14, <1>15 DEF Next

\* What holds of every stack: StackInv is inductive.
THEOREM StackInvHolds == Spec => []StackInv
<1>1. StackInv /\ [Next]_vars => StackInv'
  <2> SUFFICES ASSUME StackInv, [Next]_vars  PROVE StackInv'
    OBVIOUS
  <2>1. CASE UNCHANGED vars
    BY <2>1 DEF vars, StackInv
  <2>2. CASE Next /\ ~UNCHANGED vars
    BY <2>2, StepDone DEF Done
  <2> QED BY <2>1, <2>2
<1> QED
  BY <1>1, InitHolds, PTL DEF Spec

\* Every value has its type, and a frame is younger than those beneath it:
\* bump_serial and the popping of frames never leave a serial that names two.
THEOREM TypeCorrect == Spec => []TypeOK
<1>1. StackInv => TypeOK
  <2> SUFFICES ASSUME StackInv  PROVE TypeOK
    OBVIOUS
  <2>1. \A i \in 1..(Len(frames) - 1) : i \in 1..Len(frames) /\ i + 1 \in 1..Len(frames) /\ i < i + 1
    BY TopFacts
  <2> QED
    BY <2>1, TopFacts DEF StackInv, Whole, Stacked, Numbering, Known, Ready, TypeOK
<1> QED
  BY <1>1, StackInvHolds, PTL

\* A handler in progress is not found again (findHandlerFor:from: in kernel.st):
\* no two handler blocks of one activation are ever on a stack, whatever is
\* raised, passed, retried or killed within them.
THEOREM HandlerNotReenteredHolds == Spec => []HandlerNotReentered
<1>1. StackInv => HandlerNotReentered
  BY TopFacts DEF StackInv, Whole, Stacked, Handlings, HandlerNotReentered
<1> QED
  BY <1>1, StackInvHolds, PTL

\* As long as no program sends pass, a handler block's exception names the signal
\* under it and the handler it is for (with pass, FallsOffToItsHandler fails).
THEOREM ExceptionIsCurrentHolds ==
    ASSUME "pass" \notin Outcomes
    PROVE  Spec => []ExceptionIsCurrent
<1>1. StackInv => ExceptionIsCurrent
  <2> SUFFICES ASSUME StackInv, NEW i \in 1..Len(frames), frames[i].kind = "handling"
               PROVE  CurrentAt(frames, i, exc[frames[i].of])
    BY TopFacts DEF ExceptionIsCurrent, CurrentAt
  <2> QED
    BY DEF StackInv, Whole, Stacked, Current
<1> QED
  BY <1>1, StackInvHolds, PTL

\* Every unwind has its target beneath it, the activation it was begun for, also
\* when it was put off while ensure blocks ran; what is left of fatal errors is
\* the block with a dead home in a frame that has nobody to send cannotReturn:.
THEOREM UnwindsArriveHolds ==
    ASSUME DeadReturnScope # "any"
    PROVE  Spec => []UnwindsArrive
<1>1. StackInv => UnwindsArrive
  BY TopFacts DEF StackInv, Whole, Ready, ArrivesIn, UnwindsArrive
<1> QED
  BY <1>1, StackInvHolds, PTL

\* The block of an ensure: or ifCurtailed: is started at most once, whatever the
\* unwinds and kills that go through its frame.
THEOREM EnsureRunsOnceHolds == Spec => EnsureRunsOnce
<1>1. StackInv /\ [Next]_vars => [StartsOnce]_vars
  BY StepDone DEF Done
<1> QED
  BY <1>1, StackInvHolds, PTL DEF Spec, EnsureRunsOnce, StartsOnce

\* It is not lost either, as long as no kill comes between the two steps of
\* ensure: (kernel.st empties the slot before it sends value).
THEOREM EnsureNotSkippedHolds ==
    ASSUME KillScope # "any"
    PROVE  Spec => EnsureNotSkipped
<1>1. StackInv /\ [Next]_vars => [SkipsNone]_vars
  BY StepDone DEF Done
<1> QED
  BY <1>1, StackInvHolds, PTL DEF Spec, EnsureNotSkipped, SkipsNone

=============================================================================
