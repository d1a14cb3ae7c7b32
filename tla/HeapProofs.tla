----------------------------- MODULE HeapProofs -----------------------------
(***************************************************************************)
(* What the collector and the code around it keep true, for every number of *)
(* processes, stacks and objects.                                           *)
(*                                                                          *)
(* The invariant Sound speaks of a heap, of the process that runs and of a   *)
(* set K of objects: K is closed under slots, a stack in it belongs to one    *)
(* process, and its old objects that name young ones are remembered, but for  *)
(* the stack that runs. Each store, placement and collection takes a heap     *)
(* that is sound for K to one that is sound for what it leaves of K, and an   *)
(* action is a chain of these. What Reached computes is characterised first,  *)
(* as the least closed set: the recursion is over sets, so the set where it    *)
(* would go wrong first is the counterexample that well-foundedness gives.     *)
(***************************************************************************)
EXTENDS Heap, FiniteSetTheorems, TLAPS

\* A set that holds what of U its own members name.
Closed(h, U, K) == Named(h, K) \cap U \subseteq K

\* A larger set names more.
LEMMA NamedMonotone ==
    ASSUME NEW h, NEW C, NEW K, C \subseteq K
    PROVE  Named(h, C) \subseteq Named(h, K)
BY DEF Named

\* The recursion of Reached, over a finite universe, computes the least closed
\* set above S: no other function satisfies its equation.
LEMMA ReachedLeast ==
    ASSUME NEW h, NEW S, NEW U \in SUBSET Object
    PROVE  /\ S \cap U \subseteq Reached(h, S, U)
           /\ Reached(h, S, U) \subseteq U
           /\ Closed(h, U, Reached(h, S, U))
           /\ \A K : S \cap U \subseteq K /\ Closed(h, U, K) => Reached(h, S, U) \subseteq K
<1> DEFINE More(C) == C \cup (Named(h, C) \cap U)
           Least(C) == {o \in U : \A K \in SUBSET U : C \subseteq K /\ Closed(h, U, K) => o \in K}
           G == [C \in SUBSET U |-> Least(C)]
           Solves(f) == f = [C \in SUBSET U |-> IF More(C) = C THEN C ELSE f[More(C)]]
           F == CHOOSE f : Solves(f)
<1>1. \A C \in SUBSET U : /\ C \subseteq More(C) /\ More(C) \in SUBSET U
                          /\ Least(C) \in SUBSET U /\ C \subseteq Least(C)
  OBVIOUS
<1>2. \A C \in SUBSET U : More(C) = C => Least(C) = C
  <2> SUFFICES ASSUME NEW C \in SUBSET U, More(C) = C  PROVE Least(C) \subseteq C
    BY <1>1
  <2>1. Closed(h, U, C)
    BY DEF Closed
  <2> QED
    BY <2>1
<1>3. \A C \in SUBSET U : Least(More(C)) = Least(C)
  <2> SUFFICES ASSUME NEW C \in SUBSET U, NEW K \in SUBSET U, Closed(h, U, K)
               PROVE  C \subseteq K <=> More(C) \subseteq K
    OBVIOUS
  <2> QED
    BY NamedMonotone DEF Closed
<1>4. Solves(G)
  <2>1. \A C \in SUBSET U : Least(C) = IF More(C) = C THEN C ELSE G[More(C)]
    <3> HIDE DEF More, Least
    <3> QED BY <1>1, <1>2, <1>3
  <2> HIDE DEF More, Least
  <2> QED
    BY <2>1
<1>5. Solves(F)
  <2> HIDE DEF Solves, G
  <2> QED BY <1>4
<1>6. \A C \in SUBSET U : F[C] = IF More(C) = C THEN C ELSE F[More(C)]
  <2> HIDE DEF More, F
  <2> QED BY <1>5
<1>7. \A C \in SUBSET U : F[C] = Least(C)
  <2> DEFINE Bad == {D \in SUBSET U : F[U \ D] # Least(U \ D)}
  <2> HIDE DEF F, Least, More
  <2> SUFFICES ASSUME Bad # {}  PROVE FALSE
    <3> SUFFICES ASSUME NEW C \in SUBSET U, F[C] # Least(C)  PROVE Bad # {}
      OBVIOUS
    <3>1. U \ (U \ C) = C /\ U \ C \in SUBSET U
      OBVIOUS
    <3> QED BY <3>1
  <2>1. IsFiniteSet(U)
    BY HeapAssumption, FS_Subset
  <2>2. Bad \subseteq FiniteSubsetsOf(U)
    BY <2>1, FS_Subset DEF FiniteSubsetsOf
  <2>3. PICK D \in Bad : \A E \in Bad : ~ (<<E, D>> \in StrictSubsetOrdering(U))
    <3> HIDE DEF Bad
    <3> QED BY <2>2, FS_StrictSubsetOrderingWellFounded, WFMin
  <2> DEFINE C == U \ D
  <2>4. C \in SUBSET U /\ F[C] # Least(C)
    OBVIOUS
  <2>5. More(C) # C
    BY <2>4, <1>6, <1>2
  <2>6. More(C) \in SUBSET U /\ C \subseteq More(C)
    BY <1>1, <2>4
  <2>7. U \ More(C) \in SUBSET U /\ U \ More(C) # D /\ U \ More(C) \subseteq D
        /\ U \ (U \ More(C)) = More(C)
    BY <2>5, <2>6
  <2>8. F[More(C)] = Least(More(C))
    BY <2>7, <2>3 DEF StrictSubsetOrdering
  <2> QED
    BY <2>4, <2>5, <2>8, <1>6, <1>3
<1>8. Reached(h, S, U) = F[S \cap U]
  BY DEF Reached
<1>9. Reached(h, S, U) = Least(S \cap U)
  <2> HIDE DEF F, Least
  <2> QED BY <1>7, <1>8
<1>10. Closed(h, U, Least(S \cap U))
  BY NamedMonotone DEF Closed
<1>11. ASSUME NEW K, S \cap U \subseteq K, Closed(h, U, K)  PROVE Least(S \cap U) \subseteq K
  <2>1. K \cap U \in SUBSET U /\ S \cap U \subseteq K \cap U
    BY <1>11
  <2>2. Closed(h, U, K \cap U)
    BY <1>11, NamedMonotone DEF Closed
  <2> QED BY <2>1, <2>2
<1>12. S \cap U \in SUBSET U
  OBVIOUS
<1> HIDE DEF Least, More
<1>13. S \cap U \subseteq Least(S \cap U) /\ Least(S \cap U) \subseteq U
  BY <1>1, <1>12
<1> QED
  BY <1>9, <1>10, <1>11, <1>13

-----------------------------------------------------------------------------
(* The invariant, of a heap h, the active process a, and a set K of objects *)
(* that holds whatever is going to be looked at again.                      *)

HeapType ==
    [space : [Object -> {"free", "young", "old"}], refs : [Object -> SUBSET Object],
     torn : SUBSET Object, ssb : SUBSET Object]

\* A stack is named by one process, and a process names one stack.
Exclusive(h, K) ==
    \A o \in K : \A s \in h.refs[o] \cap Stack :
        /\ o \in Process
        /\ \A p \in K : \A t \in h.refs[p] \cap Stack : p = o <=> t = s

\* No slot of o names a place that what it named has left, as long as no
\* collection moves what is only held in a local variable.
Intact(h, o) == HeldMoves = FALSE => o \notin h.torn

\* K is whole: what is in it is somewhere, as is all that it names, and its slots
\* are intact, as those of a place that is given out next are.
Shape(h, K) ==
    /\ h \in HeapType
    /\ h.ssb \subseteq In(h, "old")
    /\ K \subseteq Object \ In(h, "free")
    /\ \A o \in K \cup In(h, "free") : Intact(h, o)
    /\ {Root, Main} \cup h.ssb \subseteq K
    /\ Named(h, K) \subseteq K
    /\ h.space[Root] = "old"
    /\ Exclusive(h, K)

Runs(h, a) == a \in Process /\ a \in h.refs[Root] /\ StackOf(h, a) # {}

NamesYoung(h, o) == h.space[o] = "old" /\ \E x \in h.refs[o] : h.space[x] = "young"

Remembered(h, D) == \A o \in D : NamesYoung(h, o) => o \in h.ssb

Sound(h, a, K) == Shape(h, K) /\ Runs(h, a) /\ Remembered(h, K \ StackOf(h, a))

HeapInv == Sound(Heap, active, Object \ In(Heap, "free"))

LEMMA ObjectKinds ==
    /\ Root \in Object /\ Main \in Object /\ Process \subseteq Object
    /\ Stack \subseteq Object /\ Data \subseteq Object
    /\ Root \notin Stack /\ Root \notin Process /\ Main \notin Stack
    /\ Process \cap Stack = {} /\ Data \cap Stack = {}
BY HeapAssumption DEF Object, Mortal

\* What is in a heap's hand: the active process, its stack and what that names.
LEMMA RunningFacts ==
    ASSUME NEW h, NEW a, NEW K, Sound(h, a, K)
    PROVE  /\ a \in K /\ StackOf(h, a) \subseteq K
           /\ \E s \in Stack : StackOf(h, a) = {s}
           /\ \A o \in K : h.refs[o] \subseteq K
<1> USE DEF Sound, Shape, Runs, StackOf
<1>1. \A o \in K : h.refs[o] \subseteq K
  BY DEF Named
<1>2. a \in K
  BY <1>1
<1>3. PICK s \in Stack : s \in h.refs[a]
  OBVIOUS
<1>4. \A t \in h.refs[a] \cap Stack : t = s
  BY <1>2, <1>3 DEF Exclusive
<1> QED
  BY <1>1, <1>2, <1>3, <1>4

-----------------------------------------------------------------------------
(* Stores.                                                                  *)

\* The slots of one object, for facts about a heap that need not be expanded.
Slots(h, o) == h.refs[o]

LEMMA RawFacts ==
    ASSUME NEW h \in HeapType, NEW o \in Object, NEW x \in Object
    PROVE  LET g == SetSlotRaw(h, o, x) IN
           /\ g \in HeapType /\ g.space = h.space /\ g.torn = h.torn /\ g.ssb = h.ssb
           /\ \A p \in Object : p # o => Slots(g, p) = Slots(h, p)
           /\ \A y : y \in Slots(g, o) <=> y \in Slots(h, o) \/ y = x
BY DEF SetSlotRaw, HeapType, Slots

LEMMA StoreFacts ==
    ASSUME NEW h \in HeapType, NEW o \in Object, NEW x \in Object,
           NEW g, g = StoreSlot(h, o, x)
    PROVE  /\ g \in HeapType /\ g.space = h.space /\ g.torn = h.torn
           /\ \A p \in Object : p # o => Slots(g, p) = Slots(h, p)
           /\ \A y : y \in Slots(g, o) <=> y \in Slots(h, o) \/ y = x
           /\ \A z : z \in g.ssb <=> z \in h.ssb \/ (z = o /\ h.space[x] = "young" /\ h.space[o] = "old")
<1> DEFINE r == SetSlotRaw(h, o, x)
<1>1. /\ r \in HeapType /\ r.space = h.space /\ r.torn = h.torn /\ r.ssb = h.ssb
      /\ \A p \in Object : p # o => Slots(r, p) = Slots(h, p)
      /\ \A y : y \in Slots(r, o) <=> y \in Slots(h, o) \/ y = x
  BY RawFacts
<1> HIDE DEF r
<1>2. g = IF h.space[x] = "young" /\ h.space[o] = "old"
          THEN [r EXCEPT !.ssb = r.ssb \cup {o}] ELSE r
  BY <1>1 DEF StoreSlot, WriteBarrier, r
<1>3. /\ g \in HeapType /\ g.space = r.space /\ g.torn = r.torn /\ g.refs = r.refs
      /\ g.ssb = IF h.space[x] = "young" /\ h.space[o] = "old"
                 THEN r.ssb \cup {o} ELSE r.ssb
  BY <1>1, <1>2 DEF HeapType
<1> QED
  BY <1>1, <1>3 DEF Slots

\* A slot of K gets something of K that is no stack: K stays whole, if the
\* remembered set takes up the object where it must.
LEMMA MoreShape ==
    ASSUME NEW h, NEW K, Shape(h, K), NEW o \in K, NEW x \in K, x \notin Stack,
           NEW g \in HeapType, g.space = h.space, g.torn = h.torn,
           \A p \in Object : p # o => Slots(g, p) = Slots(h, p),
           \A y : y \in Slots(g, o) <=> y \in Slots(h, o) \/ y = x,
           g.ssb \subseteq h.ssb \cup {o}, o \in g.ssb => h.space[o] = "old"
    PROVE  /\ Shape(g, K)
           /\ \A p \in Object : StackOf(g, p) = StackOf(h, p)
           /\ \A a : Runs(h, a) => Runs(g, a)
<1> USE ObjectKinds
<1>1. h \in HeapType /\ K \subseteq Object
  BY DEF Shape
<1>4. \A p \in Object : p # o => g.refs[p] = h.refs[p]
  BY DEF Slots
<1>a. \A y : y \in g.refs[o] <=> y \in h.refs[o] \/ y = x
  BY DEF Slots
<1>2. \A p \in Object : StackOf(g, p) = StackOf(h, p)
  BY <1>4, <1>a DEF StackOf
<1>3. \A p \in Object : h.refs[p] \subseteq g.refs[p] /\ g.refs[p] \subseteq h.refs[p] \cup {x}
  BY <1>4, <1>a
<1>5. Named(g, K) \subseteq K
  BY <1>1, <1>3 DEF Shape, Named
<1>6. Exclusive(g, K)
  BY <1>1, <1>2 DEF Shape, Exclusive, StackOf
<1>7. g.ssb \subseteq In(g, "old") /\ In(g, "free") = In(h, "free")
  BY <1>1 DEF Shape, In
<1>8. Shape(g, K)
  BY <1>1, <1>5, <1>6, <1>7 DEF Shape, Intact
<1>9. \A a : Runs(h, a) => Runs(g, a)
  BY <1>2, <1>3 DEF Runs
<1> QED
  BY <1>2, <1>8, <1>9

LEMMA StoreSound ==
    ASSUME NEW h, NEW a, NEW K, Sound(h, a, K), NEW o \in K, NEW x \in K, x \notin Stack
    PROVE  Sound(StoreSlot(h, o, x), a, K)
<1> DEFINE g == StoreSlot(h, o, x)
<1>1. h \in HeapType /\ K \subseteq Object /\ a \in Object
  BY ObjectKinds DEF Sound, Shape, Runs
<1>2. /\ g \in HeapType /\ g.space = h.space /\ g.torn = h.torn
      /\ \A p \in Object : p # o => Slots(g, p) = Slots(h, p)
      /\ \A y : y \in Slots(g, o) <=> y \in Slots(h, o) \/ y = x
      /\ \A z : z \in g.ssb <=> z \in h.ssb \/ (z = o /\ h.space[x] = "young" /\ h.space[o] = "old")
  <2>1. h \in HeapType
    BY <1>1
  <2>2. o \in Object /\ x \in Object
    BY <1>1
  <2> QED
    BY <2>1, <2>2, StoreFacts
<1> HIDE DEF g
<1>3. o \in g.ssb => h.space[o] = "old"
  BY <1>2 DEF Sound, Shape, In
<1>4. /\ Shape(g, K) /\ Runs(g, a) /\ StackOf(g, a) = StackOf(h, a)
  BY <1>1, <1>2, <1>3, MoreShape DEF Sound
<1>5. Remembered(g, K \ StackOf(h, a))
  <2> SUFFICES ASSUME NEW p \in K \ StackOf(h, a), NamesYoung(g, p)  PROVE p \in g.ssb
    BY DEF Remembered
  <2>1. CASE NamesYoung(h, p)
    BY <2>1, <1>2 DEF Sound, Remembered
  <2>2. CASE ~NamesYoung(h, p)
    <3>1. p \in Object /\ o \in Object
      BY <1>1
    <3> QED
      BY <2>2, <3>1, <1>2 DEF NamesYoung, Slots
  <2> QED BY <2>1, <2>2
<1> QED
  BY <1>4, <1>5 DEF Sound, g

\* Without the barrier: into a young object or into the running stack.
LEMMA RawSound ==
    ASSUME NEW h, NEW a, NEW K, Sound(h, a, K), NEW o \in K, NEW x \in K, x \notin Stack,
           h.space[o] = "young" \/ o \in StackOf(h, a)
    PROVE  Sound(SetSlotRaw(h, o, x), a, K)
<1> DEFINE g == SetSlotRaw(h, o, x)
<1>1. h \in HeapType /\ K \subseteq Object /\ a \in Object
  BY ObjectKinds DEF Sound, Shape, Runs
<1>2. /\ g \in HeapType /\ g.space = h.space /\ g.torn = h.torn /\ g.ssb = h.ssb
      /\ \A p \in Object : p # o => Slots(g, p) = Slots(h, p)
      /\ \A y : y \in Slots(g, o) <=> y \in Slots(h, o) \/ y = x
  BY <1>1, RawFacts
<1> HIDE DEF g
<1>3. o \in g.ssb => h.space[o] = "old"
  BY <1>2 DEF Sound, Shape, In
<1>4. /\ Shape(g, K) /\ Runs(g, a) /\ StackOf(g, a) = StackOf(h, a)
  BY <1>1, <1>2, <1>3, MoreShape DEF Sound
<1>5. Remembered(g, K \ StackOf(h, a))
  <2> SUFFICES ASSUME NEW p \in K \ StackOf(h, a), NamesYoung(g, p)  PROVE p \in g.ssb
    BY DEF Remembered
  <2>1. p # o
    BY <1>2 DEF NamesYoung
  <2>2. NamesYoung(h, p)
    BY <2>1, <1>1, <1>2 DEF NamesYoung, Slots
  <2> QED BY <2>2, <1>2 DEF Sound, Remembered
<1> QED
  BY <1>4, <1>5 DEF Sound, g

\* Slots are cleared, but not the scheduler's with the active process.
LEMMA ClearSound ==
    ASSUME NEW h, NEW a, NEW K, Sound(h, a, K), NEW o \in K, NEW x,
           x \notin Stack, o = Root => x # a
    PROVE  Sound([h EXCEPT !.refs[o] = @ \ {x}], a, K)
<1> DEFINE g == [h EXCEPT !.refs[o] = @ \ {x}]
<1>1. h \in HeapType /\ K \subseteq Object /\ a \in Object
  BY ObjectKinds DEF Sound, Shape, Runs
<1>2. /\ g \in HeapType /\ g.space = h.space /\ g.torn = h.torn /\ g.ssb = h.ssb
      /\ g.refs = [h.refs EXCEPT ![o] = h.refs[o] \ {x}]
  BY <1>1 DEF HeapType
<1> HIDE DEF g
<1>3. \A p \in Object : g.refs[p] \subseteq h.refs[p] /\ StackOf(g, p) = StackOf(h, p)
  BY <1>1, <1>2 DEF HeapType, StackOf
<1>4. Named(g, K) \subseteq K
  BY <1>1, <1>3 DEF Sound, Shape, Named
<1>5. Exclusive(g, K)
  BY <1>1, <1>3 DEF Sound, Shape, Exclusive, StackOf
<1>6. Shape(g, K)
  BY <1>2, <1>4, <1>5 DEF Sound, Shape, In, Intact
<1>7. Runs(g, a)
  BY <1>1, <1>2, <1>3, ObjectKinds DEF Sound, Runs, HeapType
<1>8. Remembered(g, K \ StackOf(g, a))
  BY <1>1, <1>2, <1>3 DEF Sound, Remembered, NamesYoung
<1> QED
  BY <1>6, <1>7, <1>8 DEF Sound, g

-----------------------------------------------------------------------------
(* New objects, and stacks that change hands.                               *)

Unnamed(h, K, s) == \A p \in K : s \notin h.refs[p]

\* Placing changes nothing for the objects that were there.
LEMMA PlacedFacts ==
    ASSUME NEW h, NEW K, Shape(h, K), NEW o \in In(h, "free"),
           NEW where \in {"young", "old"}, NEW slots \in SUBSET K, slots \cap Stack = {},
           NEW g, g = Placed(h, o, where, slots), NEW L, L = K \cup {o}
    PROVE  /\ Shape(g, L) /\ Unnamed(g, L, o) /\ o \notin K
           /\ g.refs[o] = slots /\ g.space[o] = where
           /\ \A p \in K : StackOf(g, p) = StackOf(h, p) /\ g.refs[p] = h.refs[p]
           /\ \A a \in K : Runs(h, a) => Runs(g, a)
           /\ \A p \in K : NamesYoung(g, p) => NamesYoung(h, p)
           /\ g.ssb = h.ssb
<1>1. h \in HeapType /\ K \subseteq Object /\ o \in Object /\ o \notin K /\ Intact(h, o)
  BY DEF Shape, In
<1>2. /\ g \in HeapType /\ g.torn = h.torn /\ g.ssb = h.ssb
      /\ g.refs = [h.refs EXCEPT ![o] = slots]
      /\ g.space = [h.space EXCEPT ![o] = where]
  BY <1>1 DEF HeapType, Placed
<1>3. \A p \in K : g.refs[p] = h.refs[p] /\ g.space[p] = h.space[p] /\ h.refs[p] \subseteq K
  BY <1>1, <1>2 DEF HeapType, Shape, Named
<1>4. g.refs[o] = slots /\ g.space[o] = where
  BY <1>1, <1>2 DEF HeapType
<1>5. Named(g, L) \subseteq L /\ Unnamed(g, L, o)
  BY <1>1, <1>3, <1>4 DEF Named, Unnamed
<1>6. \A p \in K : StackOf(g, p) = StackOf(h, p)
  BY <1>3 DEF StackOf
<1>7. Exclusive(g, L)
  BY <1>3, <1>4 DEF Shape, Exclusive
<1>8. g.ssb \subseteq In(g, "old") /\ g.space[Root] = "old" /\ {Root, Main} \cup g.ssb \subseteq L
  BY <1>1, <1>2, <1>3 DEF Shape, In
<1>9. In(g, "free") = In(h, "free") \ {o}
  BY <1>1, <1>2 DEF In, HeapType
<1>10. L \subseteq Object \ In(g, "free")
  BY <1>1, <1>9 DEF Shape
<1>11. Shape(g, L)
  BY <1>1, <1>2, <1>5, <1>7, <1>8, <1>9, <1>10 DEF Shape, Intact
<1>12. \A a \in K : Runs(h, a) => Runs(g, a)
  BY <1>3, <1>6 DEF Runs, Shape
<1>13. \A p \in K : NamesYoung(g, p) => NamesYoung(h, p)
  BY <1>1, <1>3, <1>2 DEF NamesYoung, HeapType
<1> QED
  BY <1>1, <1>2, <1>3, <1>4, <1>5, <1>6, <1>11, <1>12, <1>13

\* A new object that names nothing is sound wherever it is placed, and as a
\* young one with any slots.
LEMMA PlacedSound ==
    ASSUME NEW h, NEW a, NEW K, Sound(h, a, K), NEW o \in In(h, "free"),
           NEW where \in {"young", "old"}, NEW slots \in SUBSET K, slots \cap Stack = {},
           where = "young" \/ slots = {},
           NEW g, g = Placed(h, o, where, slots), NEW L, L = K \cup {o}
    PROVE  /\ Sound(g, a, L) /\ Unnamed(g, L, o) /\ o \notin K
           /\ g.refs[o] = slots /\ g.space[o] = where
           /\ \A p \in K : StackOf(g, p) = StackOf(h, p) /\ g.refs[p] = h.refs[p]
<1>1. a \in K
  BY RunningFacts
<1>2. Shape(h, K) /\ Runs(h, a) /\ Remembered(h, K \ StackOf(h, a))
  BY DEF Sound
<1>3. /\ Shape(g, L) /\ Unnamed(g, L, o) /\ o \notin K
      /\ g.refs[o] = slots /\ g.space[o] = where
      /\ \A p \in K : StackOf(g, p) = StackOf(h, p) /\ g.refs[p] = h.refs[p]
      /\ \A p \in K : Runs(h, p) => Runs(g, p)
      /\ \A p \in K : NamesYoung(g, p) => NamesYoung(h, p)
      /\ g.ssb = h.ssb
  BY <1>2, PlacedFacts
<1>4. StackOf(g, a) = StackOf(h, a) /\ Runs(g, a)
  BY <1>1, <1>2, <1>3
<1>5. ~NamesYoung(g, o)
  BY <1>3 DEF NamesYoung
<1>6. Remembered(g, L \ StackOf(g, a))
  BY <1>2, <1>3, <1>4, <1>5 DEF Remembered
<1> QED
  BY <1>3, <1>4, <1>6 DEF Sound

\* A process gets another stack, that nothing names yet. The one before goes,
\* unless it is remembered.
LEMMA SetStackFacts ==
    ASSUME NEW h, NEW K, Shape(h, K), NEW p \in K \cap Process, NEW s \in K \cap Stack,
           Unnamed(h, K, s),
           NEW g, g = SetStack(h, p, s), NEW L, L = K \ (StackOf(h, p) \ h.ssb)
    PROVE  /\ Shape(g, L) /\ s \in L /\ p \in L
           /\ h.ssb \subseteq g.ssb
           /\ \A q \in K : StackOf(g, q) = IF q = p THEN {s} ELSE StackOf(h, q)
           /\ \A a : Runs(h, a) => Runs(g, a)
           /\ \A q \in K : NamesYoung(g, q) => NamesYoung(h, q) \/ q \in g.ssb
<1> DEFINE r == [h EXCEPT !.refs[p] = @ \ Stack]
<1>1. h \in HeapType /\ K \subseteq Object
  BY DEF Shape
<1>a. p \in Object /\ s \in Object /\ Root \notin Process
  BY ObjectKinds
<1>2. /\ r \in HeapType /\ r.space = h.space /\ r.torn = h.torn /\ r.ssb = h.ssb
      /\ r.refs = [h.refs EXCEPT ![p] = h.refs[p] \ Stack]
  BY <1>1, <1>a DEF HeapType
<1>3. g = StoreSlot(r, p, s)
  BY DEF SetStack
<1> HIDE DEF r
<1>4. /\ g \in HeapType /\ g.space = r.space /\ g.torn = r.torn
      /\ \A q \in Object : q # p => Slots(g, q) = Slots(r, q)
      /\ \A y : y \in Slots(g, p) <=> y \in Slots(r, p) \/ y = s
      /\ \A z : z \in g.ssb <=> z \in r.ssb \/ (z = p /\ r.space[s] = "young" /\ r.space[p] = "old")
  <2>1. r \in HeapType
    BY <1>2
  <2>2. p \in Object /\ s \in Object
    BY <1>a
  <2> QED
    BY <2>1, <2>2, <1>3, StoreFacts
<1> USE ObjectKinds
<1>5. \A q \in K : /\ h.refs[q] \subseteq K /\ s \notin h.refs[q]
                   /\ g.refs[q] = IF q = p THEN (h.refs[p] \ Stack) \cup {s} ELSE h.refs[q]
  <2>1. \A q \in Object : r.refs[q] = IF q = p THEN h.refs[p] \ Stack ELSE h.refs[q]
    BY <1>1, <1>2 DEF HeapType
  <2>2. \A q \in K : h.refs[q] \subseteq K /\ s \notin h.refs[q]
    BY DEF Shape, Named, Unnamed
  <2>3. p \in Object
    OBVIOUS
  <2>4. g.refs[p] = (h.refs[p] \ Stack) \cup {s}
    BY <2>1, <2>3, <1>4 DEF Slots
  <2>5. \A q \in K : q # p => g.refs[q] = h.refs[q]
    BY <2>1, <1>1, <1>4 DEF Slots
  <2> QED BY <2>2, <2>4, <2>5
<1>6. \A q \in K : StackOf(g, q) = IF q = p THEN {s} ELSE StackOf(h, q)
  BY <1>5 DEF StackOf
<1>7. \A q \in K : q # p => h.refs[q] \cap StackOf(h, p) = {}
  BY DEF Shape, Exclusive, StackOf
<1>8. s \in L /\ p \in L /\ L \subseteq K
  BY <1>5 DEF StackOf
<1>9. Named(g, L) \subseteq L
  <2> SUFFICES ASSUME NEW q \in L, NEW x \in g.refs[q]  PROVE x \in L
    BY DEF Named
  <2> QED BY <1>5, <1>7, <1>8 DEF StackOf
<1>10. Exclusive(g, L)
  <2> SUFFICES ASSUME NEW q \in L, NEW t \in StackOf(g, q)
               PROVE  /\ q \in Process
                      /\ \A q2 \in L : \A t2 \in StackOf(g, q2) : q2 = q <=> t2 = t
    BY DEF Exclusive, StackOf
  <2>1. q \in Process
    BY <1>6, <1>8 DEF Shape, Exclusive, StackOf
  <2> SUFFICES ASSUME NEW q2 \in L, NEW t2 \in StackOf(g, q2)  PROVE q2 = q <=> t2 = t
    BY <2>1
  <2>2. \A q3 \in K : \A t3 \in StackOf(h, q3) : t3 # s
    BY <1>5 DEF StackOf
  <2>3. CASE q # p /\ q2 # p
    BY <2>3, <1>6, <1>8 DEF Shape, Exclusive, StackOf
  <2>4. CASE q = p \/ q2 = p
    BY <2>2, <2>4, <1>6, <1>8
  <2> QED BY <2>3, <2>4
<1>11. g.ssb \subseteq In(g, "old") /\ In(g, "free") = In(h, "free")
  BY <1>1, <1>2, <1>4 DEF Shape, In
<1>12. {Root, Main} \cup g.ssb \subseteq L
  BY <1>2, <1>4, <1>8 DEF Shape, StackOf
<1>13. Shape(g, L)
  BY <1>2, <1>4, <1>8, <1>9, <1>10, <1>11, <1>12 DEF Shape, Intact
<1>14. \A a : Runs(h, a) => Runs(g, a)
  <2> SUFFICES ASSUME NEW a, Runs(h, a)  PROVE Runs(g, a)
    OBVIOUS
  <2>1. Root \in K /\ Root # p /\ a \in K
    BY <1>5 DEF Shape, Runs
  <2> QED
    BY <2>1, <1>5, <1>6 DEF Runs
<1>15. \A q \in K : NamesYoung(g, q) => NamesYoung(h, q) \/ q \in g.ssb
  BY <1>2, <1>4, <1>5 DEF NamesYoung
<1> QED
  BY <1>2, <1>4, <1>6, <1>8, <1>13, <1>14, <1>15

\* A stack for another than the active process.
LEMMA SetStackSound ==
    ASSUME NEW h, NEW a, NEW K, Sound(h, a, K), NEW p \in K \cap Process,
           NEW s \in K \cap Stack, Unnamed(h, K, s), p # a,
           NEW g, g = SetStack(h, p, s)
    PROVE  \E L \in SUBSET K : Sound(g, a, L) /\ p \in L
<1> DEFINE L == K \ (StackOf(h, p) \ h.ssb)
<1>1. a \in K
  BY RunningFacts
<1>2. Shape(h, K) /\ Runs(h, a) /\ Remembered(h, K \ StackOf(h, a))
  BY DEF Sound
<1>3. /\ Shape(g, L) /\ p \in L
      /\ h.ssb \subseteq g.ssb
      /\ \A q \in K : StackOf(g, q) = IF q = p THEN {s} ELSE StackOf(h, q)
      /\ \A q : Runs(h, q) => Runs(g, q)
      /\ \A q \in K : NamesYoung(g, q) => NamesYoung(h, q) \/ q \in g.ssb
  <2> HIDE DEF L
  <2>1. L = K \ (StackOf(h, p) \ h.ssb)
    BY DEF L
  <2> QED BY <1>2, <2>1, SetStackFacts
<1>4. StackOf(g, a) = StackOf(h, a) /\ Runs(g, a)
  BY <1>1, <1>2, <1>3
<1>5. Remembered(g, L \ StackOf(g, a))
  BY <1>2, <1>3, <1>4 DEF Remembered
<1> QED
  BY <1>3, <1>4, <1>5 DEF Sound

\* A larger stack for the active process: as the running one it needs not be
\* remembered, and the one before it goes or is.
LEMMA GrownSound ==
    ASSUME NEW h, NEW a, NEW K, Sound(h, a, K), NEW s \in Stack \cap In(h, "free"),
           NEW where \in {"young", "old"}, NEW slots \in SUBSET K, slots \cap Stack = {},
           NEW g, g = SetStack(Placed(h, s, where, slots), a, s)
    PROVE  \E L : /\ Sound(g, a, L) /\ StackOf(g, a) = {s} /\ s \in L
                  /\ \A x \in K : x \notin Stack => x \in L
<1> DEFINE f == Placed(h, s, where, slots)
           M == K \cup {s}
           L == M \ (StackOf(f, a) \ f.ssb)
<1>1. a \in K /\ a \in Process
  BY RunningFacts DEF Sound, Runs
<1>2. Shape(h, K) /\ Runs(h, a) /\ Remembered(h, K \ StackOf(h, a)) /\ s \in In(h, "free")
  BY DEF Sound
<1>x. f = Placed(h, s, where, slots) /\ M = K \cup {s} /\ L = M \ (StackOf(f, a) \ f.ssb)
      /\ g = SetStack(f, a, s)
  OBVIOUS
<1> HIDE DEF f, M, L
<1>3. /\ Shape(f, M) /\ Unnamed(f, M, s)
      /\ \A p \in K : StackOf(f, p) = StackOf(h, p)
      /\ \A p \in K : Runs(h, p) => Runs(f, p)
      /\ \A p \in K : NamesYoung(f, p) => NamesYoung(h, p)
      /\ f.ssb = h.ssb
  BY <1>2, <1>x, PlacedFacts
<1>4. StackOf(f, a) = StackOf(h, a) /\ Runs(f, a)
  BY <1>1, <1>2, <1>3
<1>y. a \in M \cap Process /\ s \in M \cap Stack
  BY <1>1, <1>x
<1>5. /\ Shape(g, L) /\ s \in L
      /\ f.ssb \subseteq g.ssb
      /\ \A q \in M : StackOf(g, q) = IF q = a THEN {s} ELSE StackOf(f, q)
      /\ \A q : Runs(f, q) => Runs(g, q)
      /\ \A q \in M : NamesYoung(g, q) => NamesYoung(f, q) \/ q \in g.ssb
  BY <1>3, <1>x, <1>y, SetStackFacts
<1>6. StackOf(g, a) = {s} /\ Runs(g, a)
  BY <1>1, <1>4, <1>5, <1>x
<1>7. Remembered(g, L \ StackOf(g, a))
  BY <1>2, <1>3, <1>4, <1>5, <1>6, <1>x DEF Remembered
<1>8. \A x \in K : x \notin Stack => x \in L
  BY <1>x DEF StackOf
<1>9. Sound(g, a, L)
  BY <1>5, <1>6, <1>7 DEF Sound
<1> QED
  BY <1>5, <1>6, <1>8, <1>9

\* A stack that the remembered set is given, as what goes on being named young.
LEMMA RememberFacts ==
    ASSUME NEW h, NEW K, Shape(h, K), NEW s \in K,
           NEW g, g = RememberStack(h, s)
    PROVE  /\ Shape(g, K)
           /\ \A p \in Object : StackOf(g, p) = StackOf(h, p) /\ g.refs[p] = h.refs[p]
           /\ \A a : Runs(h, a) => Runs(g, a)
           /\ \A p \in K : NamesYoung(g, p) => NamesYoung(h, p)
           /\ NamesYoung(g, s) => s \in g.ssb
           /\ h.ssb \subseteq g.ssb
<1>1. h \in HeapType /\ K \subseteq Object
  BY DEF Shape
<1>2. /\ g \in HeapType /\ g.space = h.space /\ g.torn = h.torn /\ g.refs = h.refs
      /\ g.ssb = IF h.space[s] = "old" THEN h.ssb \cup {s} ELSE h.ssb
  BY <1>1 DEF RememberStack, HeapType
<1>3. \A p \in Object : StackOf(g, p) = StackOf(h, p)
  BY <1>2 DEF StackOf
<1>4. Named(g, K) = Named(h, K) /\ In(g, "free") = In(h, "free") /\ g.ssb \subseteq In(g, "old")
  BY <1>1, <1>2 DEF Named, In, Shape
<1>5. Shape(g, K)
  BY <1>2, <1>4 DEF Shape, Exclusive, Intact
<1> QED
  BY <1>2, <1>3, <1>5 DEF Runs, NamesYoung, StackOf

\* The scheduler's slot names the next process, and the stack before it is
\* remembered, has gone, or names nothing young.
LEMMA TransferredSound ==
    ASSUME NEW h, NEW K, Shape(h, K), Remembered(h, K),
           NEW q \in K \cap Process, StackOf(h, q) # {}, NEW kept \in BOOLEAN,
           active \in Process
    PROVE  Sound(Transferred(h, q, kept), q, K)
<1> DEFINE f == IF kept THEN h ELSE [h EXCEPT !.refs[Root] = @ \ {active}]
           g == StoreSlot(f, Root, q)
<1>1. h \in HeapType /\ K \subseteq Object /\ Root \in K
  BY ObjectKinds DEF Shape
<1>a. q \in Object /\ Root \in Object /\ active \notin Stack /\ q \notin Stack
  BY ObjectKinds
<1>2. /\ f \in HeapType /\ f.space = h.space /\ f.torn = h.torn /\ f.ssb = h.ssb
      /\ \A p \in Object : /\ f.refs[p] \subseteq h.refs[p]
                           /\ f.refs[p] \cap Stack = h.refs[p] \cap Stack
                           /\ p # Root => f.refs[p] = h.refs[p]
  BY <1>1, <1>a DEF HeapType
<1>3. g = Transferred(h, q, kept)
  BY DEF Transferred
<1> HIDE DEF f
<1>4. /\ g \in HeapType /\ g.space = f.space /\ g.torn = f.torn
      /\ \A p \in Object : p # Root => Slots(g, p) = Slots(f, p)
      /\ \A y : y \in Slots(g, Root) <=> y \in Slots(f, Root) \/ y = q
      /\ \A z : z \in g.ssb <=> z \in f.ssb \/ (z = Root /\ f.space[q] = "young" /\ f.space[Root] = "old")
  <2>1. f \in HeapType
    BY <1>2
  <2>2. Root \in Object /\ q \in Object
    BY <1>a
  <2>3. g = StoreSlot(f, Root, q)
    OBVIOUS
  <2> HIDE DEF g
  <2> QED
    BY <2>1, <2>2, <2>3, StoreFacts
<1> HIDE DEF g
<1> USE ObjectKinds
<1>5. Named(f, K) \subseteq K
  BY <1>1, <1>2 DEF Shape, Named
<1>6. Exclusive(f, K)
  BY <1>1, <1>2 DEF Shape, Exclusive
<1>7. Shape(f, K)
  BY <1>2, <1>5, <1>6 DEF Shape, In, Intact
<1>8. Root \in g.ssb => f.space[Root] = "old"
  BY <1>4, <1>7 DEF Shape
<1>9. Shape(g, K) /\ StackOf(g, q) = StackOf(f, q)
  BY <1>1, <1>4, <1>7, <1>8, MoreShape
<1>10. Runs(g, q)
  BY <1>1, <1>2, <1>4, <1>9 DEF Runs, StackOf, Slots
<1>11. Remembered(g, K)
  <2> SUFFICES ASSUME NEW p \in K, NamesYoung(g, p)  PROVE p \in g.ssb
    BY DEF Remembered
  <2>1. CASE NamesYoung(h, p)
    BY <2>1, <1>2, <1>4 DEF Remembered
  <2>2. CASE ~NamesYoung(h, p)
    <3>1. p = Root
      BY <2>2, <1>1, <1>2, <1>4 DEF NamesYoung, Slots
    <3>2. PICK x \in g.refs[p] : g.space[x] = "young"
      BY DEF NamesYoung
    <3>3. x \notin h.refs[p]
      BY <2>2, <3>1, <3>2, <1>2, <1>4, <1>7 DEF NamesYoung, Shape
    <3>4. x = q
      BY <3>1, <3>2, <3>3, <1>1, <1>2, <1>4 DEF Slots
    <3> QED
      BY <3>1, <3>2, <3>4, <1>2, <1>4, <1>7 DEF Shape
  <2> QED BY <2>1, <2>2
<1> QED
  BY <1>3, <1>9, <1>10, <1>11 DEF Sound, Remembered

\* What a process had is dropped when it ends.
LEMMA EndedFacts ==
    ASSUME NEW h, NEW a, NEW K, Sound(h, a, K), a # Main,
           NEW g, g = [h EXCEPT !.refs[a] = @ \ Stack],
           NEW L, L = K \ (StackOf(h, a) \ h.ssb)
    PROVE  /\ Shape(g, L) /\ Remembered(g, L)
           /\ \A q \in L : q # a => StackOf(g, q) = StackOf(h, q)
<1> USE ObjectKinds
<1>1. h \in HeapType /\ K \subseteq Object /\ a \in K /\ a \in Process
  BY RunningFacts DEF Sound, Shape, Runs
<1>2. /\ g \in HeapType /\ g.space = h.space /\ g.torn = h.torn /\ g.ssb = h.ssb
      /\ g.refs = [h.refs EXCEPT ![a] = h.refs[a] \ Stack]
  BY <1>1 DEF HeapType
<1>3. \A q \in K : /\ h.refs[q] \subseteq K
                   /\ g.refs[q] = IF q = a THEN h.refs[a] \ Stack ELSE h.refs[q]
  BY <1>1, <1>2, RunningFacts DEF HeapType
<1>4. \A q \in K : q # a => h.refs[q] \cap StackOf(h, a) = {}
  BY <1>1 DEF Sound, Shape, Exclusive, StackOf
<1>5. Named(g, L) \subseteq L
  <2> SUFFICES ASSUME NEW q \in L, NEW x \in g.refs[q]  PROVE x \in L
    BY DEF Named
  <2> QED BY <1>3, <1>4 DEF StackOf
<1>6. Exclusive(g, L)
  <2>1. \A q \in L : q \in K /\ g.refs[q] \cap Stack \subseteq h.refs[q] \cap Stack
    BY <1>3
  <2> QED
    BY <2>1 DEF Sound, Shape, Exclusive
<1>7. g.ssb \subseteq In(g, "old") /\ In(g, "free") = In(h, "free")
      /\ {Root, Main} \cup g.ssb \subseteq L
  BY <1>1, <1>2 DEF Sound, Shape, In, StackOf
<1>8. Shape(g, L)
  BY <1>2, <1>5, <1>6, <1>7 DEF Sound, Shape, Intact
<1>9. Remembered(g, L)
  BY <1>2, <1>3 DEF Sound, Remembered, NamesYoung
<1> QED
  BY <1>3, <1>8, <1>9 DEF StackOf

-----------------------------------------------------------------------------
(* The next state.                                                          *)

\* Becomes gives up what is outside K, at least: what is left is sound.
LEMMA BecomesSound ==
    ASSUME NEW h, NEW K, Sound(h, active', K), Becomes(h)
    PROVE  HeapInv'
<1> DEFINE U == Object \ In(h, "free")
           R == {Root, Main} \cup h.ssb
           kept == Reached(h, R, U)
<1> USE ObjectKinds
<1>1. /\ h \in HeapType /\ K \subseteq U /\ R \subseteq K /\ Named(h, K) \subseteq K
  BY DEF Sound, Shape
<1>2. U \in SUBSET Object
  OBVIOUS
<1>3. /\ R \cap U \subseteq kept /\ kept \subseteq U /\ Closed(h, U, kept)
      /\ \A C : R \cap U \subseteq C /\ Closed(h, U, C) => kept \subseteq C
  <2> HIDE DEF U, R
  <2> QED BY <1>2, ReachedLeast
<1>4. /\ space' = [o \in Object |-> IF o \in kept THEN h.space[o] ELSE "free"]
      /\ refs' = [o \in Object |-> IF o \in kept THEN h.refs[o] ELSE {}]
      /\ torn' = h.torn \cap kept
      /\ ssb' = h.ssb
  BY DEF Becomes
<1> HIDE DEF kept
<1>5. kept \subseteq K
  BY <1>1, <1>3 DEF Closed
<1>6. Named(h, kept) \subseteq kept
  BY <1>1, <1>3, <1>5, NamedMonotone DEF Closed
<1>7. R \subseteq kept
  BY <1>1, <1>3
<1> DEFINE g == Heap'
<1>8. /\ g.space = space' /\ g.refs = refs' /\ g.torn = torn' /\ g.ssb = ssb'
      /\ g \in HeapType
  BY <1>1, <1>2, <1>3, <1>4 DEF Heap, HeapType
<1> HIDE DEF g
<1>9. \A o \in kept : g.space[o] = h.space[o] /\ g.refs[o] = h.refs[o]
  BY <1>2, <1>3, <1>4, <1>8
<1>10. Object \ In(g, "free") = kept
  BY <1>1, <1>2, <1>3, <1>4, <1>8 DEF In, HeapType
<1>11. \A o \in kept \cup In(g, "free") : Intact(g, o)
  BY <1>1, <1>4, <1>5, <1>8, <1>10 DEF Sound, Shape, Intact, In
<1>12. Named(g, kept) \subseteq kept
  BY <1>6, <1>9 DEF Named
<1>13. Exclusive(g, kept)
  BY <1>5, <1>9 DEF Sound, Shape, Exclusive
<1>14. g.ssb \subseteq In(g, "old") /\ g.space[Root] = "old"
  BY <1>1, <1>4, <1>7, <1>8, <1>9 DEF Sound, Shape, In
<1>15. Shape(g, kept)
  BY <1>4, <1>7, <1>8, <1>10, <1>11, <1>12, <1>13, <1>14 DEF Shape
<1>16. active' \in kept
  BY <1>6, <1>7 DEF Sound, Runs, Named
<1>17. Runs(g, active') /\ StackOf(g, active') = StackOf(h, active')
  BY <1>7, <1>9, <1>16 DEF Sound, Runs, StackOf
<1>18. Remembered(g, kept \ StackOf(g, active'))
  <2> SUFFICES ASSUME NEW o \in kept \ StackOf(h, active'), NamesYoung(g, o)
               PROVE  o \in g.ssb
    BY <1>17 DEF Remembered
  <2>1. NamesYoung(h, o)
    BY <1>6, <1>9 DEF NamesYoung, Named
  <2> QED
    BY <2>1, <1>4, <1>5, <1>8 DEF Sound, Remembered
<1>19. Sound(g, active', kept)
  BY <1>15, <1>17, <1>18 DEF Sound
<1> QED
  BY <1>10, <1>19 DEF HeapInv, g

-----------------------------------------------------------------------------
(* Collections.                                                             *)

\* What survives a scavenge is in K, and takes along what it names.
LEMMA SurvivorFacts ==
    ASSUME NEW h, NEW K, Sound(h, active, K), NEW R \in SUBSET K,
           NEW live, live = Survivors(h, R)
    PROVE  /\ live \subseteq K \cap In(h, "young")
           /\ \A o \in K : h.space[o] = "young" =>
                 /\ o \in R \cup Roots \cup StackOf(h, active) => o \in live
                 /\ \A p \in live \cup h.ssb \cup StackOf(h, active) : o \in h.refs[p] => o \in live
<1> DEFINE U == In(h, "young")
           S == R \cup Roots \cup StackOf(h, active) \cup Named(h, Scanned(h))
<1> USE ObjectKinds
<1>1. U \in SUBSET Object
  BY DEF In
<1>2. live = Reached(h, S, U)
  BY DEF Survivors
<1>3. /\ S \cap U \subseteq live /\ live \subseteq U /\ Closed(h, U, live)
      /\ \A C : S \cap U \subseteq C /\ Closed(h, U, C) => live \subseteq C
  <2> HIDE DEF U, S
  <2> QED BY <1>1, <1>2, ReachedLeast
<1>4. /\ active \in K /\ StackOf(h, active) \subseteq K
      /\ {Root, Main} \cup h.ssb \subseteq K
      /\ Named(h, K) \subseteq K
  BY RunningFacts DEF Sound, Shape
<1>5. S \subseteq K
  BY <1>4, NamedMonotone DEF Roots, Scanned
<1>6. live \subseteq K
  BY <1>3, <1>4, <1>5 DEF Closed
<1>7. \A o \in K : h.space[o] = "young" => o \in U
  <2>1. K \subseteq Object
    BY DEF Sound, Shape
  <2> QED
    BY <2>1 DEF In
<1> HIDE DEF U
<1>8. \A o \in U : o \in R \cup Roots \cup StackOf(h, active) => o \in live
  BY <1>3
<1>9. \A o \in U : \A p \in h.ssb \cup StackOf(h, active) : o \in h.refs[p] => o \in live
  BY <1>3 DEF Named, Scanned
<1>10. \A o \in U : \A p \in live : o \in h.refs[p] => o \in live
  BY <1>3 DEF Closed, Named
<1> QED
  BY <1>3, <1>6, <1>7, <1>8, <1>9, <1>10 DEF U

\* The scavenge moves or frees what is young. In K nothing is missed: what an old
\* object names there is old, or the object is read.
LEMMA ScavengedFacts ==
    ASSUME NEW h, NEW K, Sound(h, active, K), NEW R \in SUBSET K,
           NEW live, live = Survivors(h, R), NEW T \in SUBSET live,
           NEW g, g = Scavenged(h, live, T)
    PROVE  /\ g \in HeapType /\ g.ssb \subseteq In(g, "old")
           /\ \A o \in Object : g.space[o] = IF o \in T THEN "old"
                                             ELSE IF h.space[o] = "young" /\ o \notin live THEN "free"
                                             ELSE h.space[o]
           /\ \A o \in K : g.space[o] # "free" => g.refs[o] = h.refs[o] /\ Intact(g, o)
           /\ \A o \in Object : g.space[o] = "free" => Intact(g, o)
           /\ \A o \in g.ssb : o \in h.ssb \cup T \cup StackOf(h, active)
           /\ \A o \in h.ssb \cup T \cup StackOf(h, active) : NamesYoung(g, o) => o \in g.ssb
<1> DEFINE young == In(h, "young")
           dead == young \ live
           unread == In(h, "old") \ Scanned(h)
           missed == [o \in unread |-> (h.refs[o] \cap young) \ (IF o = active THEN StackOf(h, o) ELSE {})]
           place == [o \in Object |-> IF o \in T THEN "old" ELSE IF o \in dead THEN "free" ELSE h.space[o]]
           slots == [o \in Object |-> IF o \in dead THEN {}
                                      ELSE IF o \in unread THEN h.refs[o] \ missed[o]
                                      ELSE h.refs[o]]
           recheck == h.ssb \cup T \cup StackOf(h, active)
<1> USE ObjectKinds
<1>1. /\ g.space = place /\ g.refs = slots
      /\ g.torn = (h.torn \ dead) \cup {o \in unread : missed[o] # {}}
      /\ g.ssb = {o \in recheck : place[o] = "old" /\ \E x \in slots[o] : place[x] = "young"}
      /\ g = [space |-> g.space, refs |-> g.refs, torn |-> g.torn, ssb |-> g.ssb]
  BY DEF Scavenged
<1>2. h \in HeapType /\ K \subseteq Object
  BY DEF Sound, Shape
<1>3. live \subseteq K \cap young
  BY SurvivorFacts
<1>4. recheck \subseteq K /\ h.torn \subseteq Object
  BY <1>2, <1>3, RunningFacts DEF Sound, Shape, HeapType
<1>5. place \in [Object -> {"free", "young", "old"}]
  BY <1>2 DEF HeapType
<1>6. slots \in [Object -> SUBSET Object]
  BY <1>2 DEF HeapType
<1>7. (h.torn \ dead) \cup {o \in unread : missed[o] # {}} \in SUBSET Object
  BY <1>4 DEF In
<1>8. \A o \in Object : place[o] = IF o \in T THEN "old"
                                   ELSE IF h.space[o] = "young" /\ o \notin live THEN "free"
                                   ELSE h.space[o]
  BY DEF In
<1>9. \A o \in K : o \in unread => missed[o] = {}
  <2> SUFFICES ASSUME NEW o \in K, o \in unread, NEW x \in h.refs[o], x \in young
               PROVE  FALSE
    OBVIOUS
  <2>1. NamesYoung(h, o) /\ o \notin h.ssb /\ o \notin StackOf(h, active)
    BY DEF NamesYoung, In, Scanned
  <2> QED
    BY <2>1 DEF Sound, Remembered
<1>10. \A o \in K : o \notin dead => slots[o] = h.refs[o]
  BY <1>2, <1>9
<1>11. \A o \in K : o \in dead => place[o] = "free"
  BY <1>2
<1>12. \A o \in K \cup In(h, "free") : Intact(h, o)
  BY DEF Sound, Shape
<1>13. \A o \in Object : place[o] = "free" => o \in dead \/ o \in In(h, "free")
  BY <1>8 DEF In
<1>14. dead \cap unread = {} /\ In(h, "free") \cap unread = {}
  BY DEF In
<1> HIDE DEF place, slots, missed, dead, unread, young, recheck
<1>15. g \in HeapType
  <2>1. g.ssb \subseteq Object
    BY <1>1, <1>2, <1>4
  <2> QED
    BY <1>1, <1>5, <1>6, <1>7, <2>1 DEF HeapType
<1>16. g.ssb \subseteq In(g, "old")
  BY <1>1, <1>2, <1>4 DEF In
<1>17. \A o \in K : g.space[o] # "free" => g.refs[o] = h.refs[o] /\ Intact(g, o)
  BY <1>1, <1>9, <1>10, <1>11, <1>12 DEF Intact
<1>18. \A o \in Object : g.space[o] = "free" => Intact(g, o)
  BY <1>1, <1>12, <1>13, <1>14 DEF Intact
<1>19. \A o \in recheck : NamesYoung(g, o) => o \in g.ssb
  BY <1>1 DEF NamesYoung
<1>20. \A o \in g.ssb : o \in recheck
  BY <1>1
<1> QED
  BY <1>1, <1>8, <1>15, <1>16, <1>17, <1>18, <1>19, <1>20 DEF recheck

\* What is left of K after a scavenge is sound, and keeps its slots.
LEMMA ScavengedSound ==
    ASSUME NEW h, NEW K, Sound(h, active, K), NEW R \in SUBSET K, NEW g \in Scavenges(h, R)
    PROVE  \E L \in SUBSET K : /\ Sound(g, active, L) /\ R \subseteq L
                               /\ \A o \in L : g.refs[o] = h.refs[o]
<1> DEFINE live == Survivors(h, R)
           L == {o \in K : g.space[o] # "free"}
<1> USE ObjectKinds
<1>1. PICK T \in SUBSET live : g = Scavenged(h, live, T)
  BY DEF Scavenges
<1>2. live = Survivors(h, R)
  OBVIOUS
<1> HIDE DEF live
<1>3. /\ g \in HeapType /\ g.ssb \subseteq In(g, "old")
      /\ \A o \in Object : g.space[o] = IF o \in T THEN "old"
                                        ELSE IF h.space[o] = "young" /\ o \notin live THEN "free"
                                        ELSE h.space[o]
      /\ \A o \in K : g.space[o] # "free" => g.refs[o] = h.refs[o] /\ Intact(g, o)
      /\ \A o \in Object : g.space[o] = "free" => Intact(g, o)
      /\ \A o \in g.ssb : o \in h.ssb \cup T \cup StackOf(h, active)
      /\ \A o \in h.ssb \cup T \cup StackOf(h, active) : NamesYoung(g, o) => o \in g.ssb
  BY <1>1, <1>2, ScavengedFacts
<1>4. /\ live \subseteq K \cap In(h, "young")
      /\ \A o \in K : h.space[o] = "young" =>
            /\ o \in R \cup Roots \cup StackOf(h, active) => o \in live
            /\ \A p \in live \cup h.ssb \cup StackOf(h, active) : o \in h.refs[p] => o \in live
  BY <1>2, SurvivorFacts
<1>5. /\ h \in HeapType /\ K \subseteq Object /\ K \cap In(h, "free") = {}
      /\ {Root, Main} \cup h.ssb \subseteq K /\ h.space[Root] = "old"
      /\ \A o \in K : h.refs[o] \subseteq K
      /\ active \in K /\ StackOf(h, active) \subseteq K
  BY RunningFacts DEF Sound, Shape
<1>6. \A o \in K : o \in L <=> (h.space[o] = "young" => o \in live)
  BY <1>3, <1>4, <1>5 DEF In, HeapType
<1>7. \A o \in L : o \in K /\ g.refs[o] = h.refs[o] /\ g.space[o] # "free" /\ Intact(g, o)
  BY <1>3
<1>8. R \cup Roots \cup StackOf(h, active) \subseteq L
  BY <1>4, <1>5, <1>6 DEF Roots
<1> HIDE DEF L
<1>9. StackOf(g, active) = StackOf(h, active) /\ active \in L
  BY <1>7, <1>8 DEF StackOf, Roots
<1>10. \A o \in L : h.space[o] = "old" => \A x \in h.refs[o] : x \in L
  <2> SUFFICES ASSUME NEW o \in L, h.space[o] = "old", NEW x \in h.refs[o]  PROVE x \in L
    OBVIOUS
  <2>1. x \in K
    BY <1>5, <1>7
  <2>2. CASE h.space[x] # "young"
    BY <2>1, <2>2, <1>6
  <2>3. CASE h.space[x] = "young"
    <3>1. o \in h.ssb \cup StackOf(h, active)
      BY <2>3, <1>7 DEF Sound, Remembered, NamesYoung
    <3> QED
      BY <2>1, <2>3, <3>1, <1>4, <1>6
  <2> QED BY <2>2, <2>3
<1>11. \A o \in L : h.space[o] # "old" => \A x \in h.refs[o] : x \in L
  <2> SUFFICES ASSUME NEW o \in L, h.space[o] # "old", NEW x \in h.refs[o]  PROVE x \in L
    OBVIOUS
  <2>1. x \in K /\ o \in K
    BY <1>5, <1>7
  <2>2. h.space[o] = "young"
    BY <2>1, <1>5 DEF HeapType, In
  <2>3. o \in live
    BY <2>1, <2>2, <1>6
  <2> QED
    BY <2>1, <2>3, <1>4, <1>6
<1>12. Named(g, L) \subseteq L
  BY <1>7, <1>10, <1>11 DEF Named
<1>13. Exclusive(g, L)
  BY <1>7 DEF Sound, Shape, Exclusive
<1>14. g.ssb \subseteq L
  BY <1>3, <1>4, <1>5, <1>6, <1>8 DEF In, Sound, Shape
<1>15. L \subseteq Object \ In(g, "free") /\ \A o \in L \cup In(g, "free") : Intact(g, o)
  BY <1>3, <1>5, <1>7 DEF In
<1>16. {Root, Main} \subseteq L /\ g.space[Root] = "old"
  BY <1>3, <1>4, <1>5, <1>8 DEF Roots, In
<1>17. Shape(g, L)
  BY <1>3, <1>12, <1>13, <1>14, <1>15, <1>16 DEF Shape
<1>18. Runs(g, active)
  BY <1>7, <1>9, <1>16 DEF Sound, Runs
<1>19. Remembered(g, L \ StackOf(g, active))
  <2> SUFFICES ASSUME NEW o \in L \ StackOf(h, active), NamesYoung(g, o)
               PROVE  o \in g.ssb
    BY <1>9 DEF Remembered
  <2>1. CASE o \in T
    BY <2>1, <1>3
  <2>2. CASE o \notin T
    <3>1. PICK x \in h.refs[o] : g.space[x] = "young"
      BY <1>7 DEF NamesYoung
    <3>2. x \in Object /\ o \in Object
      BY <1>5, <1>7, <3>1
    <3>3. h.space[x] = "young"
      BY <1>3, <3>1, <3>2
    <3>4. h.space[o] = "old"
      BY <1>3, <2>2, <3>2 DEF NamesYoung
    <3>5. o \in h.ssb
      BY <3>1, <3>3, <3>4, <1>7 DEF Sound, Remembered, NamesYoung
    <3> QED
      BY <3>5, <1>3
  <2> QED BY <2>1, <2>2
<1>20. L \in SUBSET K /\ R \subseteq L
  BY <1>7, <1>8
<1> QED
  BY <1>7, <1>17, <1>18, <1>19, <1>20 DEF Sound

\* After a compaction just what is live is left, and keeps its slots; the
\* remembered set is as it must be even for the running stack.
LEMMA SlidSound ==
    ASSUME NEW h, NEW K, Sound(h, active, K), NEW R \in SUBSET K, NEW g, g = Slid(h, R)
    PROVE  \E L \in SUBSET K : /\ Sound(g, active, L) /\ R \subseteq L
                               /\ \A o \in L : g.refs[o] = h.refs[o]
<1> DEFINE L == Live(h, R)
           U == Object \ In(h, "free")
           S == R \cup Roots
           dead == In(h, "old") \ L
           astray == {o \in In(h, "young") \ L : h.refs[o] \cap In(h, "old") # {}}
           slots == [o \in Object |-> IF o \in dead THEN {}
                                      ELSE IF o \in astray THEN h.refs[o] \ In(h, "old")
                                      ELSE h.refs[o]]
           place == [o \in Object |-> IF o \in dead THEN "free" ELSE h.space[o]]
<1> USE ObjectKinds
<1>1. /\ g.space = place /\ g.refs = slots
      /\ g.torn = (h.torn \ dead) \cup astray
      /\ g.ssb = {o \in In(h, "old") \cap L : slots[o] \cap In(h, "young") # {}}
      /\ g = [space |-> g.space, refs |-> g.refs, torn |-> g.torn, ssb |-> g.ssb]
  BY DEF Slid
<1>2. /\ h \in HeapType /\ K \subseteq U /\ {Root, Main, active} \subseteq K
      /\ Named(h, K) \subseteq K
      /\ h.space[Root] = "old" /\ \A o \in K \cup In(h, "free") : Intact(h, o)
  BY RunningFacts DEF Sound, Shape
<1>3. U \in SUBSET Object /\ S \subseteq K
  BY <1>2 DEF Roots
<1>4. /\ S \cap U \subseteq L /\ L \subseteq U /\ Closed(h, U, L)
      /\ \A C : S \cap U \subseteq C /\ Closed(h, U, C) => L \subseteq C
  <2>1. L = Reached(h, S, U)
    BY DEF Live
  <2> HIDE DEF U, S, L
  <2> QED BY <1>3, <2>1, ReachedLeast
<1> HIDE DEF L
<1>5. L \subseteq K
  BY <1>2, <1>3, <1>4 DEF Closed
<1>6. Named(h, L) \subseteq L
  BY <1>2, <1>4, <1>5, NamedMonotone DEF Closed
<1>7. S \subseteq L
  BY <1>2, <1>3, <1>4
<1>8. \A o \in L : o \in Object /\ o \notin dead /\ o \notin astray
  BY <1>2, <1>5
<1>9. place \in [Object -> {"free", "young", "old"}] /\ slots \in [Object -> SUBSET Object]
  BY <1>2 DEF HeapType
<1>10. (h.torn \ dead) \cup astray \in SUBSET Object
  BY <1>2 DEF HeapType, In
<1>11. \A o \in L : place[o] = h.space[o] /\ slots[o] = h.refs[o]
  BY <1>8
<1>12. \A o \in Object : place[o] = "free" => o \in dead \/ o \in In(h, "free")
  BY DEF In
<1>13. dead \cap astray = {} /\ In(h, "free") \cap astray = {}
  BY DEF In
<1> HIDE DEF place, slots, dead, astray
<1>14. g \in HeapType
  <2>1. g.ssb \in SUBSET Object
    BY <1>1 DEF In
  <2> QED
    BY <1>1, <1>9, <1>10, <2>1 DEF HeapType
<1>15. \A o \in L : g.space[o] = h.space[o] /\ g.refs[o] = h.refs[o]
  BY <1>1, <1>11
<1>16. g.ssb \subseteq L /\ g.ssb \subseteq In(g, "old")
  BY <1>1, <1>15 DEF In
<1>17. \A o \in L \cup In(g, "free") : Intact(g, o)
  BY <1>1, <1>2, <1>5, <1>8, <1>12, <1>13 DEF In, Intact
<1>18. L \subseteq Object \ In(g, "free")
  BY <1>2, <1>5, <1>15 DEF In
<1>19. Named(g, L) \subseteq L
  BY <1>6, <1>15 DEF Named
<1>20. Exclusive(g, L)
  BY <1>5, <1>15 DEF Sound, Shape, Exclusive
<1>21. {Root, Main, active} \subseteq L
  BY <1>7 DEF Roots
<1>22. Shape(g, L)
  BY <1>2, <1>14, <1>15, <1>16, <1>17, <1>18, <1>19, <1>20, <1>21 DEF Shape
<1>23. Runs(g, active)
  BY <1>15, <1>21 DEF Sound, Runs, StackOf
<1>24. Remembered(g, L)
  <2> SUFFICES ASSUME NEW o \in L, NamesYoung(g, o)  PROVE o \in g.ssb
    BY DEF Remembered
  <2>1. PICK x \in h.refs[o] : g.space[x] = "young"
    BY <1>15 DEF NamesYoung
  <2>2. x \in L
    BY <1>6, <2>1 DEF Named
  <2>3. x \in In(h, "young") /\ o \in In(h, "old")
    BY <1>8, <1>15, <2>1, <2>2 DEF NamesYoung, In
  <2> QED
    BY <1>1, <1>11, <2>1, <2>3
<1>25. L \in SUBSET K /\ R \subseteq L
  BY <1>5, <1>7
<1> QED
  BY <1>15, <1>22, <1>23, <1>24, <1>25 DEF Sound, Remembered

\* However an allocation comes to succeed, what is in hand, R among it, is there
\* and names what it named.
LEMMA AllocSound ==
    ASSUME NEW h, NEW K, Sound(h, active, K), NEW R \in SUBSET K, NEW g \in AllocGc(h, R)
    PROVE  \E L \in SUBSET K : /\ Sound(g, active, L) /\ R \subseteq L
                               /\ \A o \in L : g.refs[o] = h.refs[o]
<1>1. CASE g = h
  BY <1>1
<1>2. CASE g \in Scavenges(h, R)
  BY <1>2, ScavengedSound
<1>3. CASE g \in Compactions(h, R)
  <2>1. PICK f \in Scavenges(h, R) : g = Slid(f, R)
    BY <1>3 DEF Compactions
  <2>2. PICK M \in SUBSET K : /\ Sound(f, active, M) /\ R \subseteq M
                              /\ \A o \in M : f.refs[o] = h.refs[o]
    BY ScavengedSound
  <2>3. PICK L \in SUBSET M : /\ Sound(g, active, L) /\ R \subseteq L
                              /\ \A o \in L : g.refs[o] = f.refs[o]
    BY <2>1, <2>2, SlidSound
  <2> QED
    BY <2>2, <2>3
<1> QED
  BY <1>1, <1>2, <1>3 DEF AllocGc

-----------------------------------------------------------------------------
(* The steps of the program.                                                *)

Used == Object \ In(Heap, "free")

LEMMA HeapFields ==
    Heap.space = space /\ Heap.refs = refs /\ Heap.torn = torn /\ Heap.ssb = ssb
BY DEF Heap

\* What bytecode has in hand, in any heap that an allocation leaves it.
LEMMA InHandKept ==
    ASSUME NEW h, NEW L, Sound(h, active, L), \A o \in L : h.refs[o] = refs[o]
    PROVE  /\ RunningStack \in Stack /\ RunningStack \in L
           /\ StackOf(h, active) = {RunningStack}
           /\ \A p \in L : StackOf(h, p) = StackOf(Heap, p) /\ refs[p] \subseteq L
           /\ Locals \subseteq L /\ Locals \cap Stack = {}
           /\ InHand \subseteq L
           /\ CodeInHand \subseteq L /\ CodeInHand \cap Stack = {}
<1> USE ObjectKinds, HeapFields
<1>1. /\ active \in L /\ StackOf(h, active) \subseteq L
      /\ \A o \in L : refs[o] \subseteq L
  BY RunningFacts
<1>2. PICK s \in Stack : StackOf(h, active) = {s}
  BY RunningFacts
<1>3. refs[active] \cap Stack = {s}
  BY <1>1, <1>2 DEF StackOf
<1>4. RunningStack = s
  BY <1>3 DEF RunningStack
<1>5. s \in L
  BY <1>1, <1>2
<1>6. Locals \subseteq L
  BY <1>1, <1>4, <1>5 DEF Locals
<1>7. Locals \cap Stack = {}
  <2>1. s \notin Process
    OBVIOUS
  <2> QED
    BY <2>1, <1>4, <1>5 DEF Locals, Sound, Shape, Exclusive
<1>8. Root \in L
  BY DEF Sound, Shape
<1>9. InHand \subseteq L
  BY <1>6, <1>8 DEF InHand
<1>10. Named(Heap, InHand) \subseteq L
  BY <1>1, <1>9 DEF Named
<1>11. CodeInHand \subseteq L /\ CodeInHand \cap Stack = {}
  BY <1>6, <1>8, <1>10 DEF CodeInHand
<1>12. \A p \in L : StackOf(h, p) = StackOf(Heap, p)
  BY DEF StackOf
<1> QED
  BY <1>1, <1>2, <1>4, <1>5, <1>6, <1>7, <1>9, <1>11, <1>12

\* The same in the heap as it is.
LEMMA InHandNow ==
    ASSUME HeapInv
    PROVE  /\ Sound(Heap, active, Used)
           /\ RunningStack \in Stack /\ RunningStack \in Used
           /\ StackOf(Heap, active) = {RunningStack}
           /\ \A p \in Used : refs[p] \subseteq Used
           /\ Locals \subseteq Used /\ Locals \cap Stack = {}
           /\ InHand \subseteq Used
           /\ CodeInHand \subseteq Used /\ CodeInHand \cap Stack = {}
<1>1. Sound(Heap, active, Used)
  BY DEF HeapInv, Used
<1> QED
  BY <1>1, InHandKept, HeapFields

\* And after an allocation.
LEMMA InHandAllocated ==
    ASSUME HeapInv, NEW R \in SUBSET Used, NEW h \in AllocGc(Heap, R)
    PROVE  \E L : /\ Sound(h, active, L) /\ R \subseteq L /\ L \subseteq Used
                  /\ \A o \in L : h.refs[o] = refs[o]
<1>1. Sound(Heap, active, Used)
  BY DEF HeapInv, Used
<1> QED
  BY <1>1, AllocSound, HeapFields

LEMMA LoadStep ==
    ASSUME HeapInv, NEW o \in Object, NEW x \in Data, Load(o, x)
    PROVE  HeapInv'
<1>1. /\ Sound(Heap, active, Used) /\ RunningStack \in Used
      /\ RunningStack \in StackOf(Heap, active) /\ x \in Used /\ x \notin Stack
  BY InHandNow, ObjectKinds DEF Load
<1>2. Sound(SetSlotRaw(Heap, RunningStack, x), active, Used)
  BY <1>1, RawSound
<1> QED
  BY <1>2, BecomesSound DEF Load

LEMMA StoreStep ==
    ASSUME HeapInv, NEW o \in Object, NEW x \in Data, Store(o, x)
    PROVE  HeapInv'
<1>1. Sound(Heap, active, Used) /\ o \in Used /\ x \in Used /\ x \notin Stack
  BY InHandNow, ObjectKinds DEF Store
<1>2. Sound(StoreSlot(Heap, o, x), active, Used)
  BY <1>1, StoreSound
<1> QED
  BY <1>2, BecomesSound DEF Store

LEMMA ClearStep ==
    ASSUME HeapInv, NEW o \in Object, NEW x \in Process \cup Data, Clear(o, x)
    PROVE  HeapInv'
<1>1. Sound(Heap, active, Used) /\ o \in Used /\ x \notin Stack /\ (o = Root => x # active)
  BY InHandNow, ObjectKinds DEF Clear
<1>2. Sound([Heap EXCEPT !.refs[o] = @ \ {x}], active, Used)
  BY <1>1, ClearSound
<1> QED
  BY <1>2, BecomesSound DEF Clear

LEMMA DropStep ==
    ASSUME HeapInv, NEW x \in Process \cup Data, Drop(x)
    PROVE  HeapInv'
<1>1. Sound(Heap, active, Used) /\ RunningStack \in Used /\ x \notin Stack /\ RunningStack # Root
  BY InHandNow, ObjectKinds DEF Drop
<1>2. Sound([Heap EXCEPT !.refs[RunningStack] = @ \ {x}], active, Used)
  BY <1>1, ClearSound
<1> QED
  BY <1>2, BecomesSound DEF Drop

LEMMA NewStep ==
    ASSUME HeapInv, NEW kind \in {Process, Data}, NEW where \in {"young", "old"}, New(kind, where)
    PROVE  HeapInv'
<1>1. PICK h \in AllocGc(Heap, {}) : \E o \in kind \cap In(h, "free") :
          Becomes(SetSlotRaw(Placed(h, o, where, {}), RunningStack, o))
  BY DEF New
<1>2. PICK o \in kind \cap In(h, "free") :
          Becomes(SetSlotRaw(Placed(h, o, where, {}), RunningStack, o))
  BY <1>1
<1>3. PICK L : Sound(h, active, L) /\ \A p \in L : h.refs[p] = refs[p]
  BY <1>1, InHandAllocated
<1>4. RunningStack \in L /\ StackOf(h, active) = {RunningStack} /\ active \in L
  BY <1>3, InHandKept, RunningFacts
<1> DEFINE f == Placed(h, o, where, {})
           M == L \cup {o}
<1>a. f = Placed(h, o, where, {}) /\ M = L \cup {o}
  OBVIOUS
<1> HIDE DEF f, M
<1>5. /\ Sound(f, active, M)
      /\ \A p \in L : StackOf(f, p) = StackOf(h, p) /\ f.refs[p] = h.refs[p]
  <2>1. Sound(h, active, L)
    BY <1>3
  <2>2. o \in In(h, "free") /\ {} \in SUBSET L /\ {} \cap Stack = {}
    BY <1>2
  <2> QED
    BY <1>a, <2>1, <2>2, PlacedSound
<1>6. RunningStack \in M /\ o \in M /\ o \notin Stack /\ RunningStack \in StackOf(f, active)
  BY <1>a, <1>2, <1>4, <1>5, ObjectKinds
<1>7. Sound(SetSlotRaw(f, RunningStack, o), active, M)
  BY <1>5, <1>6, RawSound
<1> QED
  BY <1>2, <1>7, BecomesSound DEF New, f

LEMMA ForkStep ==
    ASSUME HeapInv, NEW p \in Process, NEW x \in Data, Fork(p, x)
    PROVE  HeapInv'
<1> DEFINE Filled(h, s) == StoreSlot(StoreSlot(Placed(h, s, "young", {}), s, p), s, x)
<1>1. PICK h \in AllocGc(Heap, {}) : \E s \in Stack \cap In(h, "free") :
          Becomes(StoreSlot(SetStack(Filled(h, s), p, s), Root, p))
  BY DEF Fork
<1>2. PICK s \in Stack \cap In(h, "free") :
          Becomes(StoreSlot(SetStack(Filled(h, s), p, s), Root, p))
  BY <1>1
<1>3. PICK L : Sound(h, active, L) /\ \A o \in L : h.refs[o] = refs[o]
  BY <1>1, InHandAllocated
<1>4. p \in L /\ x \in L /\ p # active
  BY <1>3, InHandKept, InHandNow DEF Fork
<1> DEFINE f == Placed(h, s, "young", {})
           M == L \cup {s}
           g == StoreSlot(f, s, p)
           k == StoreSlot(g, s, x)
<1>a. f = Placed(h, s, "young", {}) /\ M = L \cup {s}
  OBVIOUS
<1> HIDE DEF f, M
<1>5. /\ Sound(f, active, M) /\ Unnamed(f, M, s)
  <2>1. Sound(h, active, L)
    BY <1>3
  <2>2. s \in In(h, "free")
    BY <1>2
  <2>3. {} \in SUBSET L /\ {} \cap Stack = {} /\ "young" \in {"young", "old"}
    OBVIOUS
  <2> QED
    BY <1>a, <2>1, <2>2, <2>3, PlacedSound
<1>6. s \in M /\ p \in M /\ x \in M /\ p \notin Stack /\ x \notin Stack
      /\ M \subseteq Object /\ f \in HeapType
  BY <1>2, <1>4, <1>5, <1>a, ObjectKinds DEF Sound, Shape
<1>7. Sound(g, active, M)
  BY <1>5, <1>6, StoreSound
<1>8. Sound(k, active, M)
  BY <1>6, <1>7, StoreSound
<1>9. Unnamed(k, M, s)
  <2>1. /\ \A o \in Object : o # s => Slots(g, o) = Slots(f, o)
        /\ \A y : y \in Slots(g, s) <=> y \in Slots(f, s) \/ y = p
    <3>1. f \in HeapType
      BY <1>6
    <3>2. s \in Object /\ p \in Object
      BY <1>6
    <3> QED
      BY <3>1, <3>2, StoreFacts
  <2>2. g \in HeapType
    BY <1>7 DEF Sound, Shape
  <2> HIDE DEF g
  <2>3. /\ \A o \in Object : o # s => Slots(k, o) = Slots(g, o)
        /\ \A y : y \in Slots(k, s) <=> y \in Slots(g, s) \/ y = x
    <3>1. s \in Object /\ x \in Object
      BY <1>6
    <3> QED
      BY <2>2, <3>1, StoreFacts
  <2> HIDE DEF k
  <2> QED
    BY <1>5, <1>6, <1>2, <2>1, <2>3 DEF Unnamed, Slots
<1> HIDE DEF k
<1>10. p \in M \cap Process /\ s \in M \cap Stack
  BY <1>2, <1>6
<1> DEFINE j == SetStack(k, p, s)
<1>11. PICK K : Sound(j, active, K) /\ p \in K
  BY <1>4, <1>8, <1>9, <1>10, SetStackSound
<1> HIDE DEF j
<1>12. Root \in K
  BY <1>11 DEF Sound, Shape
<1>13. Sound(StoreSlot(j, Root, p), active, K)
  BY <1>6, <1>11, <1>12, StoreSound
<1> QED
  BY <1>2, <1>13, BecomesSound DEF Fork, f, g, k, j

\* Who can be switched to is known, has a stack, and is not the active process.
LEMMA ReadyFacts ==
    ASSUME HeapInv, NEW q \in Ready
    PROVE  /\ q \in Used \cap Process /\ q # active
           /\ StackOf(Heap, q) # {} /\ active \in Used \cap Process
<1>1. q \in refs[Root] \cup Locals /\ q \in Process /\ q # active /\ StackOf(Heap, q) # {}
  BY DEF Ready
<1>2. Root \in Used /\ Sound(Heap, active, Used)
  BY InHandNow DEF Sound, Shape
<1>3. active \in Used /\ active \in Process
  BY <1>2, RunningFacts DEF Sound, Runs
<1> QED
  BY <1>1, <1>2, <1>3, InHandNow

LEMMA TransferToStep ==
    ASSUME HeapInv, NEW q \in Process, NEW kept \in BOOLEAN, TransferTo(q, kept)
    PROVE  HeapInv'
<1> DEFINE g == RememberStack(Heap, RunningStack)
<1>1. /\ Shape(Heap, Used) /\ Remembered(Heap, Used \ {RunningStack})
      /\ RunningStack \in Used /\ Used \subseteq Object
  BY InHandNow DEF Sound, Used
<1>2. /\ q \in Used \cap Process /\ StackOf(Heap, q) # {} /\ active \in Process
  BY ReadyFacts DEF TransferTo
<1>a. g = RememberStack(Heap, RunningStack)
  OBVIOUS
<1> HIDE DEF g
<1>3. /\ Shape(g, Used)
      /\ \A p \in Object : StackOf(g, p) = StackOf(Heap, p) /\ g.refs[p] = Heap.refs[p]
      /\ \A p \in Used : NamesYoung(g, p) => NamesYoung(Heap, p)
      /\ NamesYoung(g, RunningStack) => RunningStack \in g.ssb
      /\ Heap.ssb \subseteq g.ssb
  BY <1>1, <1>a, RememberFacts
<1>4. Remembered(g, Used)
  BY <1>1, <1>3 DEF Remembered
<1>5. StackOf(g, q) # {}
  BY <1>1, <1>2, <1>3
<1>6. Sound(Transferred(g, q, kept), q, Used)
  BY <1>2, <1>3, <1>4, <1>5, TransferredSound
<1>7. active' = q /\ Becomes(Transferred(g, q, kept))
  BY <1>a DEF TransferTo
<1> QED
  BY <1>6, <1>7, BecomesSound

LEMMA HaltStep ==
    ASSUME HeapInv, NEW q \in Process, NEW kept \in BOOLEAN, Halt(q, kept)
    PROVE  HeapInv'
<1> DEFINE g == [Heap EXCEPT !.refs[active] = @ \ Stack]
           L == Used \ (StackOf(Heap, active) \ Heap.ssb)
<1>1. Sound(Heap, active, Used) /\ active # Main
  BY InHandNow DEF Halt
<1>2. /\ q \in Used \cap Process /\ q # active /\ StackOf(Heap, q) # {} /\ active \in Process
  BY ReadyFacts DEF Halt
<1>3. q \in L
  BY <1>2, ObjectKinds DEF StackOf
<1>a. g = [Heap EXCEPT !.refs[active] = @ \ Stack] /\ L = Used \ (StackOf(Heap, active) \ Heap.ssb)
  OBVIOUS
<1> HIDE DEF g, L
<1>4. /\ Shape(g, L) /\ Remembered(g, L)
      /\ \A p \in L : p # active => StackOf(g, p) = StackOf(Heap, p)
  BY <1>1, <1>a, EndedFacts
<1>5. Sound(Transferred(g, q, kept), q, L)
  BY <1>2, <1>3, <1>4, TransferredSound
<1>6. active' = q /\ Becomes(Transferred(g, q, kept))
  BY <1>a DEF Halt
<1> QED
  BY <1>5, <1>6, BecomesSound

\* A slot may be torn where collections move what is only held.
LEMMA TornSound ==
    ASSUME HeldMoves # FALSE, NEW h, NEW a, NEW K, Sound(h, a, K), NEW o \in Object,
           NEW g, g = [h EXCEPT !.torn = @ \cup {o}]
    PROVE  Sound(g, a, K) /\ g.refs = h.refs
<1>1. h \in HeapType
  BY DEF Sound, Shape
<1>2. g \in HeapType /\ g.space = h.space /\ g.refs = h.refs /\ g.ssb = h.ssb
  BY <1>1 DEF HeapType
<1>3. \A p : Intact(g, p)
  BY DEF Intact
<1>4. Named(g, K) = Named(h, K) /\ StackOf(g, a) = StackOf(h, a)
  BY <1>2 DEF Named, StackOf
<1>5. Exclusive(g, K)
  BY <1>2 DEF Sound, Shape, Exclusive
<1>6. Shape(g, K)
  BY <1>2, <1>3, <1>4, <1>5 DEF Sound, Shape, In
<1> QED
  BY <1>2, <1>4, <1>6 DEF Sound, Runs, Remembered, NamesYoung

LEMMA AfterAlloc ==
    ASSUME NEW how \in Collection, NEW h \in After(how)
    PROVE  h \in AllocGc(Heap, {})
BY DEF Collection, After, AllocGc

LEMMA StaleFacts ==
    ASSUME NEW x, NEW how, NEW stale \in Stale(x, how)
    PROVE  stale = FALSE \/ (stale = TRUE /\ HeldMoves # FALSE)
BY DEF Stale

LEMMA HeldSound ==
    ASSUME NEW h, NEW a, NEW K, Sound(h, a, K), NEW o \in K, NEW x \in K, x \notin Stack,
           h.space[o] = "young" \/ o \in StackOf(h, a),
           NEW y, NEW how, NEW stale \in Stale(y, how),
           NEW g, g = SetSlotHeld(h, o, x, stale)
    PROVE  Sound(g, a, K) /\ \A p \in Object : StackOf(g, p) = StackOf(h, p)
<1>1. h \in HeapType /\ K \subseteq Object /\ o \in Object
  BY DEF Sound, Shape
<1>2. CASE stale = TRUE /\ HeldMoves # FALSE
  <2>1. g = [h EXCEPT !.torn = @ \cup {o}]
    BY <1>2 DEF SetSlotHeld
  <2>2. Sound(g, a, K) /\ g.refs = h.refs
    BY <1>1, <1>2, <2>1, TornSound
  <2> QED
    BY <2>2 DEF StackOf
<1>3. CASE stale = FALSE /\ x = Root
  BY <1>3 DEF SetSlotHeld
<1>4. CASE stale = FALSE /\ x # Root
  <2>1. g = SetSlotRaw(h, o, x)
    BY <1>4 DEF SetSlotHeld
  <2>2. Sound(g, a, K)
    BY <2>1, RawSound
  <2>3. g.refs = [h.refs EXCEPT ![o] = h.refs[o] \cup {x}]
    BY <1>1, <2>1 DEF SetSlotRaw, HeapType
  <2>4. \A p \in Object : StackOf(g, p) = StackOf(h, p)
    BY <1>1, <2>3 DEF StackOf, HeapType
  <2> QED
    BY <2>2, <2>4
<1>5. stale = FALSE \/ (stale = TRUE /\ HeldMoves # FALSE)
  BY StaleFacts
<1> QED
  BY <1>2, <1>3, <1>4, <1>5

LEMMA PushFrameStep ==
    ASSUME HeapInv, NEW x \in {Root} \cup Data, NEW where \in {"young", "old"}, PushFrame(x, where)
    PROVE  HeapInv'
<1>1. PICK how \in Collection : \E stale \in Stale(x, how), h \in After(how) :
          \E s \in Stack \cap In(h, "free") : Becomes(SetSlotHeld(Grown(h, s, where), s, x, stale))
  BY DEF PushFrame, Collection
<1>2. PICK stale \in Stale(x, how), h \in After(how) :
          \E s \in Stack \cap In(h, "free") : Becomes(SetSlotHeld(Grown(h, s, where), s, x, stale))
  BY <1>1
<1>3. PICK s \in Stack \cap In(h, "free") : Becomes(SetSlotHeld(Grown(h, s, where), s, x, stale))
  BY <1>2
<1>4. h \in AllocGc(Heap, {})
  BY AfterAlloc
<1>5. PICK L : Sound(h, active, L) /\ \A o \in L : h.refs[o] = refs[o]
  BY <1>4, InHandAllocated
<1>6. x \in L /\ x \notin Stack /\ Locals \in SUBSET L /\ Locals \cap Stack = {}
  BY <1>5, InHandKept DEF PushFrame
<1> DEFINE f == Grown(h, s, where)
           g == SetSlotHeld(f, s, x, stale)
<1>7. PICK K : /\ Sound(f, active, K) /\ StackOf(f, active) = {s} /\ s \in K /\ x \in K
  <2>1. f = SetStack(Placed(h, s, where, Locals), active, s)
    BY DEF Grown
  <2> HIDE DEF f
  <2>2. Sound(h, active, L)
    BY <1>5
  <2>3. \E K : /\ Sound(f, active, K) /\ StackOf(f, active) = {s} /\ s \in K
               /\ \A y \in L : y \notin Stack => y \in K
    BY <1>6, <2>1, <2>2, GrownSound
  <2> QED
    BY <1>6, <2>3
<1> HIDE DEF f
<1>8. Sound(g, active, K)
  BY <1>6, <1>7, HeldSound
<1>9. active' = active
  BY DEF PushFrame
<1> QED
  BY <1>3, <1>8, <1>9, BecomesSound DEF f

\* A new object of data, which names nothing but what is there already, is
\* put in a register.
LEMMA RegisterSound ==
    ASSUME NEW h, NEW K, Sound(h, active, K), NEW s \in StackOf(h, active),
           NEW o \in K, o \in Data
    PROVE  Sound(SetSlotRaw(h, s, o), active, K)
<1>1. s \in K /\ o \notin Stack
  BY RunningFacts, ObjectKinds
<1> QED
  BY <1>1, RawSound

LEMMA DoesNotUnderstandStep ==
    ASSUME HeapInv, NEW x \in {Root} \cup Data, DoesNotUnderstand(x)
    PROVE  HeapInv'
<1> DEFINE Message(h, o, stale) == SetSlotHeld(Placed(h, o, "young", {}), o, x, stale)
<1>1. PICK how \in Collection : \E stale \in Stale(x, how), h \in After(how) :
          \E o \in Data \cap In(h, "free") : Becomes(SetSlotRaw(Message(h, o, stale), RunningStack, o))
  BY DEF DoesNotUnderstand
<1>2. PICK stale \in Stale(x, how), h \in After(how) :
          \E o \in Data \cap In(h, "free") : Becomes(SetSlotRaw(Message(h, o, stale), RunningStack, o))
  BY <1>1
<1>3. PICK o \in Data \cap In(h, "free") : Becomes(SetSlotRaw(Message(h, o, stale), RunningStack, o))
  BY <1>2
<1>4. h \in AllocGc(Heap, {})
  BY AfterAlloc
<1>5. PICK L : Sound(h, active, L) /\ \A p \in L : h.refs[p] = refs[p]
  BY <1>4, InHandAllocated
<1>6. x \in L /\ x \notin Stack /\ StackOf(h, active) = {RunningStack} /\ active \in L
  BY <1>5, InHandKept, RunningFacts DEF DoesNotUnderstand
<1> DEFINE f == Placed(h, o, "young", {})
           M == L \cup {o}
           g == SetSlotHeld(f, o, x, stale)
<1>a. f = Placed(h, o, "young", {}) /\ M = L \cup {o}
  OBVIOUS
<1> HIDE DEF f, M
<1>7. /\ Sound(f, active, M) /\ f.space[o] = "young"
      /\ \A p \in L : StackOf(f, p) = StackOf(h, p)
  <2>1. Sound(h, active, L)
    BY <1>5
  <2>2. o \in In(h, "free") /\ {} \in SUBSET L /\ {} \cap Stack = {} /\ "young" \in {"young", "old"}
    BY <1>3
  <2> QED
    BY <1>a, <2>1, <2>2, PlacedSound
<1>8. o \in M /\ x \in M /\ active \in Object
  BY <1>a, <1>6, <1>7, ObjectKinds DEF Sound, Runs
<1>9. Sound(g, active, M) /\ StackOf(g, active) = StackOf(f, active)
  <2>1. Sound(g, active, M) /\ \A p \in Object : StackOf(g, p) = StackOf(f, p)
    BY <1>6, <1>7, <1>8, HeldSound
  <2> QED
    BY <1>8, <2>1
<1>10. RunningStack \in StackOf(g, active)
  BY <1>6, <1>7, <1>9
<1> HIDE DEF g
<1>11. Sound(SetSlotRaw(g, RunningStack, o), active, M)
  BY <1>8, <1>9, <1>10, RegisterSound
<1>12. active' = active
  BY DEF DoesNotUnderstand
<1> QED
  BY <1>a, <1>3, <1>11, <1>12, BecomesSound DEF g

LEMMA FrameInfoStep ==
    ASSUME HeapInv, NEW p \in Process, FrameInfo(p)
    PROVE  HeapInv'
<1> DEFINE Frame(h) == Named(h, StackOf(h, p)) \cap Data
           Array(h, o, stale) ==
               IF stale THEN [Placed(h, o, "young", {}) EXCEPT !.torn = @ \cup {o}]
               ELSE Placed(h, o, "young", Frame(h))
<1>1. PICK how \in Collection : \E stale \in Stale(p, how), h \in After(how) :
          \E o \in Data \cap In(h, "free") : Becomes(SetSlotRaw(Array(h, o, stale), RunningStack, o))
  BY DEF FrameInfo
<1>2. PICK stale \in Stale(p, how), h \in After(how) :
          \E o \in Data \cap In(h, "free") : Becomes(SetSlotRaw(Array(h, o, stale), RunningStack, o))
  BY <1>1
<1>3. PICK o \in Data \cap In(h, "free") : Becomes(SetSlotRaw(Array(h, o, stale), RunningStack, o))
  BY <1>2
<1>4. h \in AllocGc(Heap, {})
  BY AfterAlloc
<1>5. PICK L : Sound(h, active, L) /\ \A q \in L : h.refs[q] = refs[q]
  BY <1>4, InHandAllocated
<1>6. p \in L /\ StackOf(h, active) = {RunningStack} /\ active \in L
  BY <1>5, InHandKept, RunningFacts DEF FrameInfo
<1>7. Frame(h) \in SUBSET L /\ Frame(h) \cap Stack = {}
  <2>1. \A q \in L : h.refs[q] \subseteq L
    BY <1>5, RunningFacts
  <2>2. \A s \in StackOf(h, p) : h.refs[s] \subseteq L
    BY <1>6, <2>1 DEF StackOf
  <2> QED
    BY <2>2, ObjectKinds DEF Named
<1> DEFINE F == Frame(h)
           f(slots) == Placed(h, o, "young", slots)
           M == L \cup {o}
<1>8. ASSUME NEW slots \in SUBSET L, slots \cap Stack = {}
      PROVE  /\ Sound(f(slots), active, M) /\ RunningStack \in StackOf(f(slots), active)
  <2> DEFINE g == f(slots)
  <2>a. g = Placed(h, o, "young", slots) /\ M = L \cup {o}
    OBVIOUS
  <2> HIDE DEF f, M, g
  <2>1. Sound(h, active, L)
    BY <1>5
  <2>2. o \in In(h, "free") /\ "young" \in {"young", "old"}
    BY <1>3
  <2>3. Sound(g, active, M) /\ \A q \in L : StackOf(g, q) = StackOf(h, q)
    BY <1>8, <2>a, <2>1, <2>2, PlacedSound
  <2> QED
    BY <1>6, <2>3 DEF g
<1>9. Sound(Array(h, o, stale), active, M) /\ RunningStack \in StackOf(Array(h, o, stale), active)
  <2>1. CASE stale = FALSE
    <3>1. Array(h, o, stale) = f(F)
      BY <2>1
    <3> HIDE DEF f, M, Array, Frame
    <3> QED
      BY <1>7, <1>8, <3>1
  <2>2. CASE stale = TRUE /\ HeldMoves # FALSE
    <3> DEFINE e == f({})
               g == Array(h, o, stale)
    <3>1. g = [e EXCEPT !.torn = @ \cup {o}]
      BY <2>2
    <3>2. Sound(e, active, M) /\ RunningStack \in StackOf(e, active)
      <4>1. {} \in SUBSET L /\ {} \cap Stack = {}
        OBVIOUS
      <4> HIDE DEF f, M
      <4> QED BY <1>8, <4>1
    <3>3. o \in Object
      BY <1>3, ObjectKinds
    <3> HIDE DEF e, g, M
    <3>4. Sound(g, active, M) /\ g.refs = e.refs
      BY <2>2, <3>1, <3>2, <3>3, TornSound
    <3> QED
      BY <3>2, <3>4 DEF g, StackOf
  <2> QED
    BY <2>1, <2>2, StaleFacts
<1> DEFINE g == Array(h, o, stale)
<1>10. o \in M /\ o \in Data
  BY <1>3
<1> HIDE DEF Array, M
<1>11. Sound(SetSlotRaw(g, RunningStack, o), active, M)
  BY <1>9, <1>10, RegisterSound
<1>12. active' = active
  BY DEF FrameInfo
<1> QED
  BY <1>3, <1>11, <1>12, BecomesSound

\* The collections of a snapshot are a scavenge.
LEMMA TenuredSound ==
    ASSUME HeapInv
    PROVE  \E L : Sound(Tenured, active, L) /\ \A o \in L : Tenured.refs[o] = refs[o]
<1>1. Tenured \in Scavenges(Heap, {})
  BY DEF Tenured, Scavenges
<1>2. Tenured \in AllocGc(Heap, {})
  BY <1>1 DEF AllocGc
<1> QED
  BY <1>2, InHandAllocated

LEMMA SnapshotStep ==
    ASSUME HeapInv, Snapshot
    PROVE  HeapInv'
BY TenuredSound, BecomesSound DEF Snapshot

LEMMA SnapshotFailsStep ==
    ASSUME HeapInv, NEW m \in {Root} \cup Data, SnapshotFails(m)
    PROVE  HeapInv'
<1>1. PICK L : Sound(Tenured, active, L) /\ \A o \in L : Tenured.refs[o] = refs[o]
  BY TenuredSound
<1>2. PICK stale \in Stale(m, "scavenge") : Becomes(SetSlotHeld(Tenured, RunningStack, m, stale))
  BY DEF SnapshotFails
<1>3. /\ m \in L /\ m \notin Stack
      /\ RunningStack \in L /\ RunningStack \in StackOf(Tenured, active)
  BY <1>1, InHandKept DEF SnapshotFails
<1>4. Sound(SetSlotHeld(Tenured, RunningStack, m, stale), active, L)
  BY <1>1, <1>3, HeldSound
<1> QED
  BY <1>2, <1>4, BecomesSound DEF SnapshotFails

\* The end of terminating a process that has a stack.
LEMMA FinishSound ==
    ASSUME NEW h, NEW a, NEW K, Sound(h, a, K), NEW p \in K \cap Process, StackOf(h, p) # {}
    PROVE  Sound(FinishTerminateOther(h, p), a, K)
<1> DEFINE s == CHOOSE t \in Stack : t \in h.refs[p]
           g == StoreSlot(h, s, p)
<1>1. s \in StackOf(h, p)
  BY DEF StackOf
<1> HIDE DEF s
<1>2. s \in K /\ p \notin Stack /\ Root \in K
  <2>1. h.refs[p] \subseteq K
    BY RunningFacts
  <2> QED
    BY <1>1, <2>1, ObjectKinds DEF StackOf, Sound, Shape
<1>3. Sound(g, a, K)
  BY <1>2, StoreSound
<1> HIDE DEF g
<1>4. Sound(StoreSlot(g, Root, p), a, K)
  BY <1>2, <1>3, StoreSound
<1> QED
  BY <1>4 DEF FinishTerminateOther, g, s

LEMMA TerminateOtherStep ==
    ASSUME HeapInv, NEW p \in Process, TerminateOther(p)
    PROVE  HeapInv'
<1>1. Sound(Heap, active, Used) /\ p \in Used \cap Process /\ StackOf(Heap, p) # {}
  BY InHandNow, ReadyFacts DEF TerminateOther
<1>2. Sound(FinishTerminateOther(Heap, p), active, Used)
  BY <1>1, FinishSound
<1> QED
  BY <1>2, BecomesSound DEF TerminateOther

\* A larger stack for another than the active process, with all that was on the
\* one before: in old space the remembered set takes it up.
LEMMA OtherGrownSound ==
    ASSUME NEW h, NEW a, NEW K, Sound(h, a, K), NEW p \in K \cap Process, p # a,
           NEW s \in Stack \cap In(h, "free"), NEW where \in {"young", "old"},
           NEW slots, slots = Named(h, StackOf(h, p)),
           NEW g, g = RememberStack(SetStack(Placed(h, s, where, slots), p, s), s)
    PROVE  \E L : Sound(g, a, L) /\ p \in L /\ StackOf(g, p) # {}
<1> DEFINE f == Placed(h, s, where, slots)
           j == SetStack(f, p, s)
           M == K \cup {s}
           L == M \ (StackOf(f, p) \ f.ssb)
<1>x. /\ f = Placed(h, s, where, slots) /\ M = K \cup {s} /\ L = M \ (StackOf(f, p) \ f.ssb)
      /\ j = SetStack(f, p, s) /\ g = RememberStack(j, s)
  OBVIOUS
<1> HIDE DEF f, j, M, L
<1>1. /\ Shape(h, K) /\ Runs(h, a) /\ Remembered(h, K \ StackOf(h, a)) /\ s \in In(h, "free")
      /\ a \in K /\ K \subseteq Object
  BY RunningFacts DEF Sound, Shape
<1>2. slots \in SUBSET K /\ slots \cap Stack = {}
  <2>1. \A q \in K : h.refs[q] \subseteq K
    BY RunningFacts
  <2>2. \A t \in StackOf(h, p) : t \in K /\ t \notin Process
    BY <2>1, ObjectKinds DEF StackOf
  <2>3. \A t \in StackOf(h, p) : h.refs[t] \cap Stack = {}
    BY <1>1, <2>2 DEF Shape, Exclusive
  <2> QED
    BY <2>1, <2>2, <2>3 DEF Named
<1>3. /\ Shape(f, M) /\ Unnamed(f, M, s)
      /\ \A q \in K : StackOf(f, q) = StackOf(h, q)
      /\ \A q \in K : Runs(h, q) => Runs(f, q)
      /\ \A q \in K : NamesYoung(f, q) => NamesYoung(h, q)
      /\ f.ssb = h.ssb
  BY <1>1, <1>2, <1>x, PlacedFacts
<1>4. p \in M \cap Process /\ s \in M \cap Stack
  BY <1>x
<1>5. /\ Shape(j, L) /\ s \in L /\ p \in L
      /\ f.ssb \subseteq j.ssb
      /\ \A q \in M : StackOf(j, q) = IF q = p THEN {s} ELSE StackOf(f, q)
      /\ \A q : Runs(f, q) => Runs(j, q)
      /\ \A q \in M : NamesYoung(j, q) => NamesYoung(f, q) \/ q \in j.ssb
  BY <1>3, <1>4, <1>x, SetStackFacts
<1>6. /\ Shape(g, L)
      /\ \A q \in Object : StackOf(g, q) = StackOf(j, q)
      /\ \A q : Runs(j, q) => Runs(g, q)
      /\ \A q \in L : NamesYoung(g, q) => NamesYoung(j, q)
      /\ NamesYoung(g, s) => s \in g.ssb
      /\ j.ssb \subseteq g.ssb
  BY <1>5, <1>x, RememberFacts
<1>7. Runs(g, a) /\ StackOf(g, a) = StackOf(h, a)
  BY <1>1, <1>3, <1>5, <1>6, <1>x
<1>8. StackOf(g, p) # {}
  BY <1>1, <1>4, <1>5, <1>6
<1>9. Remembered(g, L \ StackOf(g, a))
  <2> SUFFICES ASSUME NEW q \in L, q \notin StackOf(g, a), NamesYoung(g, q)  PROVE q \in g.ssb
    BY DEF Remembered
  <2>1. CASE q = s
    BY <2>1, <1>6
  <2>2. CASE q # s
    <3>1. q \in K /\ q \in M
      BY <2>2, <1>x
    <3>2. NamesYoung(j, q)
      BY <1>6
    <3>3. NamesYoung(f, q) => q \in h.ssb
      BY <3>1, <1>1, <1>3, <1>7 DEF Remembered
    <3> QED
      BY <3>1, <3>2, <3>3, <1>3, <1>5, <1>6
  <2> QED BY <2>1, <2>2
<1>10. Sound(g, a, L)
  BY <1>6, <1>7, <1>9 DEF Sound
<1> QED
  BY <1>5, <1>8, <1>10

LEMMA TerminateOtherGrowingStep ==
    ASSUME HeapInv, NEW p \in Process, NEW where \in {"young", "old"},
           TerminateOtherGrowing(p, where)
    PROVE  HeapInv'
<1> DEFINE Bigger(h, s) ==
               RememberStack(SetStack(Placed(h, s, where, Named(h, StackOf(h, p))), p, s), s)
<1>1. PICK h \in AllocGc(Heap, {p}) : \E s \in Stack \cap In(h, "free") :
          Becomes(FinishTerminateOther(Bigger(h, s), p))
  BY DEF TerminateOtherGrowing
<1>2. PICK s \in Stack \cap In(h, "free") : Becomes(FinishTerminateOther(Bigger(h, s), p))
  BY <1>1
<1>3. p \in Ready /\ {p} \in SUBSET Used
  BY ReadyFacts DEF TerminateOtherGrowing
<1>4. PICK L : Sound(h, active, L) /\ {p} \subseteq L
  BY <1>1, <1>3, InHandAllocated
<1> DEFINE g == Bigger(h, s)
<1>5. PICK K : Sound(g, active, K) /\ p \in K /\ StackOf(g, p) # {}
  <2>1. Sound(h, active, L)
    BY <1>4
  <2>2. p \in L \cap Process /\ p # active
    BY <1>3, <1>4, ReadyFacts
  <2>3. g = RememberStack(SetStack(Placed(h, s, where, Named(h, StackOf(h, p))), p, s), s)
    OBVIOUS
  <2> HIDE DEF g
  <2> QED
    BY <2>1, <2>2, <2>3, OtherGrownSound
<1> HIDE DEF g
<1>6. Sound(FinishTerminateOther(g, p), active, K)
  BY <1>5, FinishSound
<1>7. active' = active
  BY DEF TerminateOtherGrowing
<1> QED
  BY <1>2, <1>6, <1>7, BecomesSound DEF g

-----------------------------------------------------------------------------
(* What holds in every behaviour.                                           *)

LEMMA HeapInit ==
    ASSUME Init
    PROVE  HeapInv
<1>1. PICK s \in Stack : InitWith(s)
  BY DEF Init
<1>2. /\ Root \in Object /\ Main \in Object /\ s \in Object
      /\ Root # Main /\ Root # s /\ Main # s
  BY ObjectKinds, HeapAssumption
<1>3. /\ space = [o \in Object |-> IF o = Root THEN "old" ELSE IF o \in {Main, s} THEN "young" ELSE "free"]
      /\ refs = [o \in Object |-> CASE o = Root -> {Main} [] o = Main -> {s} [] o = s -> {Main} [] OTHER -> {}]
      /\ torn = {} /\ ssb = {Root} /\ active = Main
  BY <1>1 DEF InitWith
<1>4. /\ \A o \in Object : refs[o] = IF o = Root \/ o = s THEN {Main} ELSE IF o = Main THEN {s} ELSE {}
      /\ \A o \in Object : space[o] = IF o = Root THEN "old"
                                      ELSE IF o = Main \/ o = s THEN "young" ELSE "free"
      /\ space \in [Object -> {"free", "young", "old"}] /\ refs \in [Object -> SUBSET Object]
  BY <1>2, <1>3
<1> DEFINE K == Object \ In(Heap, "free")
<1>5. K = {Root, Main, s}
  BY <1>2, <1>4, HeapFields DEF In
<1>6. Heap \in HeapType
  BY <1>2, <1>3, <1>4 DEF Heap, HeapType
<1> HIDE DEF K
<1>7. Exclusive(Heap, K)
  <2>1. \A o \in K : \A t \in refs[o] \cap Stack : o = Main /\ t = s
    BY <1>2, <1>4, <1>5, ObjectKinds
  <2>2. \A o \in K : \A t \in Heap.refs[o] \cap Stack : o = Main /\ t = s
    BY <2>1, HeapFields
  <2> QED
    BY <2>2, HeapAssumption DEF Exclusive
<1>8. Named(Heap, K) \subseteq K
  BY <1>2, <1>4, <1>5, HeapFields DEF Named
<1>9. K \subseteq Object \ In(Heap, "free")
  BY DEF K
<1>10. Heap.ssb \subseteq In(Heap, "old") /\ Heap.space[Root] = "old"
       /\ {Root, Main} \cup Heap.ssb \subseteq K
  BY <1>2, <1>3, <1>4, <1>5, HeapFields DEF In
<1>11. \A o : Intact(Heap, o)
  BY <1>3, HeapFields DEF Intact
<1>12. Shape(Heap, K)
  BY <1>6, <1>7, <1>8, <1>9, <1>10, <1>11 DEF Shape
<1>13. Runs(Heap, active)
  BY <1>1, <1>2, <1>3, <1>4, HeapFields, HeapAssumption DEF Runs, StackOf
<1>14. Remembered(Heap, K)
  BY <1>2, <1>3, <1>4, <1>5, HeapFields DEF Remembered, NamesYoung
<1> QED
  BY <1>12, <1>13, <1>14 DEF HeapInv, Sound, Remembered, K

LEMMA HeapStep ==
    ASSUME HeapInv, [Next]_vars
    PROVE  HeapInv'
<1>1. CASE \E o \in Object, x \in Data : Load(o, x) \/ Store(o, x)
  BY <1>1, LoadStep, StoreStep
<1>2. CASE \E o \in Object, x \in Process \cup Data : Clear(o, x)
  BY <1>2, ClearStep
<1>3. CASE \E x \in Process \cup Data : Drop(x)
  BY <1>3, DropStep
<1>4. CASE \E kind \in {Process, Data}, where \in {"young", "old"} : New(kind, where)
  BY <1>4, NewStep
<1>5. CASE \E p \in Process, x \in Data : Fork(p, x)
  BY <1>5, ForkStep
<1>6. CASE \E q \in Process, kept \in BOOLEAN : TransferTo(q, kept) \/ Halt(q, kept)
  BY <1>6, TransferToStep, HaltStep
<1>7. CASE \E x \in {Root} \cup Data, where \in {"young", "old"} : PushFrame(x, where)
  BY <1>7, PushFrameStep
<1>8. CASE \E x \in {Root} \cup Data : DoesNotUnderstand(x)
  BY <1>8, DoesNotUnderstandStep
<1>9. CASE \E p \in Process : FrameInfo(p)
  BY <1>9, FrameInfoStep
<1>10. CASE Snapshot
  BY <1>10, SnapshotStep
<1>11. CASE \E m \in {Root} \cup Data : SnapshotFails(m)
  BY <1>11, SnapshotFailsStep
<1>12. CASE \E p \in Process : TerminateOther(p)
  BY <1>12, TerminateOtherStep
<1>13. CASE \E p \in Process, where \in {"young", "old"} : TerminateOtherGrowing(p, where)
  BY <1>13, TerminateOtherGrowingStep
<1>14. CASE UNCHANGED vars
  <2>1. Heap' = Heap /\ active' = active
    BY <1>14 DEF vars, Heap
  <2> QED
    BY <2>1 DEF HeapInv
<1> QED
  BY <1>1, <1>2, <1>3, <1>4, <1>5, <1>6, <1>7, <1>8, <1>9, <1>10, <1>11, <1>12, <1>13, <1>14
     DEF Next

(* In every state of every heap the invariant holds: what is in use is whole *)
(* and named by one owner where it is a stack, and what the remembered set   *)
(* leaves out is the stack that runs (gc.rs, vm.rs, interp.rs).              *)
THEOREM HeapInvHolds == Spec => []HeapInv
<1>1. Init => HeapInv
  BY HeapInit
<1>2. HeapInv /\ [Next]_vars => HeapInv'
  BY HeapStep
<1> QED
  BY <1>1, <1>2, PTL DEF Spec

(* Each variable keeps its type; in particular only what is in old space is *)
(* ever in the remembered set (vm.rs, write_barrier).                        *)
THEOREM TypeCorrect == Spec => []TypeOK
<1>1. HeapInv => TypeOK
  <2> SUFFICES ASSUME HeapInv  PROVE TypeOK
    OBVIOUS
  <2>1. Heap \in HeapType /\ Heap.ssb \subseteq In(Heap, "old") /\ active \in Process
    BY DEF HeapInv, Sound, Shape, Runs
  <2>2. /\ Heap.space \in [Object -> {"free", "young", "old"}]
        /\ Heap.refs \in [Object -> SUBSET Object] /\ Heap.torn \subseteq Object
    BY <2>1 DEF HeapType
  <2> QED
    BY <2>1, <2>2, HeapFields DEF TypeOK, In
<1> QED
  BY <1>1, HeapInvHolds, PTL

\* What the program can reach is in use.
LEMMA LiveUsed == Live(Heap, {}) \subseteq Used
<1>1. Used \in SUBSET Object
  BY DEF Used
<1>2. Live(Heap, {}) = Reached(Heap, {} \cup Roots, Used)
  BY DEF Live, Used
<1> QED
  BY <1>1, <1>2, ReachedLeast

(* Whatever the code keeps in local variables over an allocation, an object of *)
(* old space that the program can reach and that names a young one is in the   *)
(* remembered set, or it is the running stack: the barrier (vm.rs), what        *)
(* transfer_to makes up for it (interp.rs) and the rebuilding in gc.rs agree.   *)
THEOREM OldPointersRememberedHolds == Spec => []OldPointersRemembered
<1>1. HeapInv => OldPointersRemembered
  BY LiveUsed, HeapFields DEF HeapInv, Sound, Remembered, NamesYoung, OldPointersRemembered, Used
<1> QED
  BY <1>1, HeapInvHolds, PTL

(* Where no collection moves what is only held in a local variable, nothing   *)
(* that the program can reach is lost: every collection keeps it and corrects *)
(* every slot that names it (gc.rs, collect_young and collect_old).           *)
THEOREM NothingLostHolds ==
    ASSUME HeldMoves = FALSE
    PROVE  Spec => []NothingLost
<1>1. HeapInv => NothingLost
  <2> SUFFICES ASSUME HeapInv, NEW o \in Live(Heap, {})
               PROVE  o \notin torn /\ \A x \in refs[o] : space[x] # "free"
    BY DEF NothingLost
  <2>1. o \in Used /\ Sound(Heap, active, Used)
    BY LiveUsed DEF HeapInv, Used
  <2>2. Intact(Heap, o) /\ refs[o] \subseteq Used
    BY <2>1, HeapFields DEF Sound, Shape, Named
  <2> QED
    BY <2>2, HeapFields DEF Intact, Used, In
<1> QED
  BY <1>1, HeapInvHolds, PTL
=============================================================================
