-------------------------- MODULE SchedulerProofs --------------------------
(* Theorems about Scheduler, for any number of processes, semaphores and    *)
(* priorities.                                                              *)
EXTENDS Scheduler, SequenceLemmas, WellFoundedInduction

ListsType ==
    [ queue  : [List -> Seq(Process)],
      myList : [Process -> List \cup {NoList}],
      excess : [Semaphore -> Nat] ]

\* ListsAgree, of any value of the three list variables.
Agree(L) ==
    /\ \A l \in List : \A i \in DOMAIN L.queue[l] : L.myList[L.queue[l][i]] = l
    /\ \A l \in List : \A i, j \in DOMAIN L.queue[l] :
            L.queue[l][i] = L.queue[l][j] => i = j
    /\ \A p \in Process : L.myList[p] # NoList =>
            \E i \in DOMAIN L.queue[L.myList[p]] : L.queue[L.myList[p]][i] = p

LEMMA UpdateTyped ==
    ASSUME NEW L \in ListsType, NEW l \in List, NEW q \in Seq(Process),
           NEW p \in Process, NEW v \in List \cup {NoList}
    PROVE  [L EXCEPT !.queue[l] = q, !.myList[p] = v] \in ListsType
BY DEF ListsType

LEMMA EnqueueFacts ==
    ASSUME NEW L \in ListsType, Agree(L),
           NEW l \in List, NEW p \in Process, L.myList[p] = NoList, NoList \notin List
    PROVE  /\ Enqueue(L, l, p) \in ListsType
           /\ Agree(Enqueue(L, l, p))
           /\ Enqueue(L, l, p).queue = [L.queue EXCEPT ![l] = Append(@, p)]
           /\ Enqueue(L, l, p).myList = [L.myList EXCEPT ![p] = l]
           /\ Enqueue(L, l, p).excess = L.excess
<1> DEFINE E == Enqueue(L, l, p)
           q == L.queue[l]
<1>1. /\ E.queue = [L.queue EXCEPT ![l] = Append(q, p)]
      /\ E.myList = [L.myList EXCEPT ![p] = l]
      /\ E.excess = L.excess
  BY DEF Enqueue, ListsType
<1>3. /\ q \in Seq(Process)
      /\ Append(q, p) \in Seq(Process)
      /\ Len(q) \in Nat
      /\ DOMAIN q = 1..Len(q)
      /\ DOMAIN Append(q, p) = 1..(Len(q) + 1)
      /\ \A i \in 1..Len(q) : Append(q, p)[i] = q[i] /\ q[i] \in Process
      /\ Append(q, p)[Len(q) + 1] = p
  BY AppendProperties, LenProperties, ElementOfSeq DEF ListsType
<1>4. \A k \in List : /\ L.queue[k] \in Seq(Process)
                      /\ k # l => E.queue[k] = L.queue[k]
                      /\ \A i \in DOMAIN L.queue[k] : L.queue[k][i] \in Process /\ L.queue[k][i] # p
  BY <1>1, LenProperties, ElementOfSeq DEF ListsType, Agree
<1>5. E.queue[l] = Append(q, p)
  BY <1>1 DEF ListsType
<1>6. \A x \in Process : E.myList[x] = IF x = p THEN l ELSE L.myList[x]
  BY <1>1 DEF ListsType
<1>2. E \in ListsType
  BY <1>3 DEF Enqueue, ListsType
<1> HIDE DEF E, q
<1>7. ASSUME NEW k \in List, NEW i \in DOMAIN E.queue[k]
      PROVE  E.myList[E.queue[k][i]] = k
  <2>1. CASE k # l
    BY <2>1, <1>4, <1>6 DEF Agree
  <2>2. CASE k = l
    BY <2>2, <1>3, <1>4, <1>5, <1>6 DEF Agree, q
  <2> QED
    BY <2>1, <2>2
<1>8. ASSUME NEW k \in List, NEW i \in DOMAIN E.queue[k], NEW j \in DOMAIN E.queue[k],
             E.queue[k][i] = E.queue[k][j]
      PROVE  i = j
  <2>1. CASE k # l
    BY <2>1, <1>4, <1>8 DEF Agree
  <2>2. CASE k = l
    BY <2>2, <1>3, <1>4, <1>5, <1>8 DEF Agree, q
  <2> QED
    BY <2>1, <2>2
<1>9. ASSUME NEW x \in Process, E.myList[x] # NoList
      PROVE  \E i \in DOMAIN E.queue[E.myList[x]] : E.queue[E.myList[x]][i] = x
  <2>1. CASE x = p
    BY <2>1, <1>3, <1>5, <1>6
  <2>2. CASE x # p /\ L.myList[x] = l
    <3>1. PICK i \in DOMAIN q : q[i] = x
      BY <2>2 DEF Agree, q
    <3> QED
      BY <2>2, <3>1, <1>3, <1>5, <1>6
  <2>3. CASE x # p /\ L.myList[x] # l
    <3>1. L.myList[x] \in List
      BY <2>3, <1>6, <1>9 DEF ListsType
    <3> QED
      BY <2>3, <3>1, <1>4, <1>6, <1>9 DEF Agree
  <2> QED
    BY <2>1, <2>2, <2>3
<1>10. Agree(E)
  BY <1>7, <1>8, <1>9 DEF Agree
<1> QED
  BY <1>1, <1>2, <1>10 DEF E, q

LEMMA DequeueFacts ==
    ASSUME NEW L \in ListsType, Agree(L),
           NEW l \in List, L.queue[l] # <<>>, NoList \notin List
    PROVE  /\ Head(L.queue[l]) \in Process
           /\ L.myList[Head(L.queue[l])] = l
           /\ Dequeue(L, l) \in ListsType
           /\ Agree(Dequeue(L, l))
           /\ Dequeue(L, l).queue = [L.queue EXCEPT ![l] = Tail(@)]
           /\ Dequeue(L, l).myList = [L.myList EXCEPT ![Head(L.queue[l])] = NoList]
           /\ Dequeue(L, l).excess = L.excess
<1> DEFINE D == Dequeue(L, l)
           q == L.queue[l]
           p == Head(q)
<1>1. /\ q \in Seq(Process)
      /\ Len(q) \in Nat /\ Len(q) >= 1
      /\ DOMAIN q = 1..Len(q)
      /\ p \in Process /\ p = q[1]
      /\ Tail(q) \in Seq(Process)
      /\ DOMAIN Tail(q) = 1..(Len(q) - 1)
      /\ \A i \in 1..(Len(q) - 1) : Tail(q)[i] = q[i + 1]
  BY HeadTailProperties, LenProperties, ElementOfSeq, EmptySeq DEF ListsType
<1>2. /\ D.queue = [L.queue EXCEPT ![l] = Tail(q)]
      /\ D.myList = [L.myList EXCEPT ![p] = NoList]
      /\ D.excess = L.excess
  BY DEF Dequeue, ListsType
<1>3. D \in ListsType
  BY <1>1 DEF Dequeue, ListsType
<1>4. L.myList[p] = l
  BY <1>1 DEF Agree
<1>5. ASSUME NEW k \in List
      PROVE  /\ L.queue[k] \in Seq(Process)
             /\ k # l => D.queue[k] = L.queue[k]
             /\ k # l => \A i \in DOMAIN L.queue[k] :
                           L.queue[k][i] \in Process /\ L.queue[k][i] # p
  BY <1>2, <1>4, LenProperties, ElementOfSeq DEF ListsType, Agree
<1>6. D.queue[l] = Tail(q)
  BY <1>2 DEF ListsType
<1>7. \A x \in Process : D.myList[x] = IF x = p THEN NoList ELSE L.myList[x]
  BY <1>2 DEF ListsType
<1>8. \A i \in 1..(Len(q) - 1) :
        /\ i + 1 \in DOMAIN q /\ q[i + 1] \in Process
        /\ q[i + 1] # p
  BY <1>1, ElementOfSeq DEF Agree
<1> HIDE DEF D, q, p
<1>9. ASSUME NEW k \in List, NEW i \in DOMAIN D.queue[k]
      PROVE  D.myList[D.queue[k][i]] = k
  <2>1. CASE k # l
    BY <2>1, <1>5, <1>7 DEF Agree
  <2>2. CASE k = l
    BY <2>2, <1>1, <1>6, <1>7, <1>8 DEF Agree, q
  <2> QED
    BY <2>1, <2>2
<1>10. ASSUME NEW k \in List, NEW i \in DOMAIN D.queue[k], NEW j \in DOMAIN D.queue[k],
              D.queue[k][i] = D.queue[k][j]
       PROVE  i = j
  <2>1. CASE k # l
    BY <2>1, <1>5, <1>10 DEF Agree
  <2>2. CASE k = l
    <3>1. i + 1 = j + 1
      BY <2>2, <1>1, <1>6, <1>8, <1>10 DEF Agree, q
    <3> QED
      BY <3>1, <2>2, <1>1, <1>6
  <2> QED
    BY <2>1, <2>2
<1>11. ASSUME NEW x \in Process, D.myList[x] # NoList
       PROVE  \E i \in DOMAIN D.queue[D.myList[x]] : D.queue[D.myList[x]][i] = x
  <2>1. x # p /\ D.myList[x] = L.myList[x] /\ L.myList[x] \in List
    BY <1>7, <1>11 DEF ListsType
  <2>2. PICK i \in DOMAIN L.queue[L.myList[x]] : L.queue[L.myList[x]][i] = x
    BY <2>1, <1>11 DEF Agree
  <2>3. CASE L.myList[x] = l
    <3>1. i \in 2..Len(q)
      BY <2>1, <2>2, <2>3, <1>1 DEF q
    <3>2. i - 1 \in DOMAIN Tail(q) /\ Tail(q)[i - 1] = x
      BY <3>1, <2>2, <2>3, <1>1 DEF q
    <3> QED
      BY <3>2, <2>1, <2>3, <1>6
  <2>4. CASE L.myList[x] # l
    BY <2>1, <2>2, <2>4, <1>5
  <2> QED
    BY <2>3, <2>4
<1>12. Agree(D)
  BY <1>9, <1>10, <1>11 DEF Agree
<1> QED
  BY <1>1, <1>2, <1>3, <1>4, <1>12 DEF D, q, p

LEMMA UnlinkFacts ==
    ASSUME NEW L \in ListsType, Agree(L), NEW p \in Process, NoList \notin List
    PROVE  /\ Unlink(L, p) \in ListsType
           /\ Agree(Unlink(L, p))
           /\ Unlink(L, p).myList = [L.myList EXCEPT ![p] = NoList]
           /\ Unlink(L, p).excess = L.excess
           /\ L.myList[p] = NoList => Unlink(L, p) = L
           /\ L.myList[p] # NoList =>
                 \E i \in DOMAIN L.queue[L.myList[p]] :
                    Unlink(L, p).queue = [L.queue EXCEPT ![L.myList[p]] = RemoveAt(@, i)]
<1>1. CASE L.myList[p] = NoList
  <2>1. Unlink(L, p) = L
    BY <1>1 DEF Unlink
  <2>2. L.myList = [L.myList EXCEPT ![p] = NoList]
    BY <1>1 DEF ListsType
  <2> QED
    BY <1>1, <2>1, <2>2
<1>2. CASE L.myList[p] # NoList
  <2> DEFINE U == Unlink(L, p)
             l == L.myList[p]
             q == L.queue[l]
  <2>1. /\ l \in List
        /\ q \in Seq(Process)
        /\ Len(q) \in Nat
        /\ DOMAIN q = 1..Len(q)
    BY <1>2, LenProperties DEF ListsType
  <2>2. PICK n \in 1..Len(q) : q[n] = p /\ PositionOf(q, p) = n
    <3>1. \E i \in DOMAIN q : q[i] = p
      BY <1>2, <2>1 DEF Agree
    <3> QED
      BY <3>1, <2>1 DEF PositionOf
  <2> DEFINE r == RemoveAt(q, n)
  <2>3. /\ r \in Seq(Process)
        /\ DOMAIN r = 1..(Len(q) - 1)
        /\ \A j \in 1..(Len(q) - 1) : r[j] = IF j < n THEN q[j] ELSE q[j + 1]
    <3>1. /\ r \in Seq(Process)
          /\ Len(r) = Len(q) - 1
          /\ \A j \in 1..(Len(q) - 1) : r[j] = IF j < n THEN q[j] ELSE q[j + 1]
      BY <2>1, RemoveAtFacts
    <3> QED
      BY <3>1, LenProperties
  <2>4. /\ U.queue = [L.queue EXCEPT ![l] = r]
        /\ U.myList = [L.myList EXCEPT ![p] = NoList]
        /\ U.excess = L.excess
    BY <1>2, <2>2 DEF Unlink, ListsType
  <2>5. U \in ListsType
    <3>1. U = [L EXCEPT !.queue[l] = r, !.myList[p] = NoList]
      BY <1>2, <2>2 DEF Unlink
    <3> HIDE DEF U, l, r
    <3> QED
      BY <3>1, <2>1, <2>3, UpdateTyped
  <2>6. /\ U.queue[l] = r
        /\ \A k \in List : k # l => U.queue[k] = L.queue[k]
        /\ \A x \in Process : U.myList[x] = IF x = p THEN NoList ELSE L.myList[x]
    BY <2>1, <2>4 DEF ListsType
  <2>7. \A k \in List : /\ L.queue[k] \in Seq(Process)
                        /\ \A i \in DOMAIN L.queue[k] : L.queue[k][i] \in Process
                        /\ k # l => \A i \in DOMAIN L.queue[k] : L.queue[k][i] # p
    BY LenProperties, ElementOfSeq DEF ListsType, Agree
  <2>8. ASSUME NEW j \in DOMAIN r
        PROVE  \E i \in DOMAIN q : /\ i # n /\ r[j] = q[i]
                                   /\ i = IF j < n THEN j ELSE j + 1
    <3> HIDE DEF r, q, l
    <3>1. CASE j < n
      BY <3>1, <2>1, <2>2, <2>3
    <3>2. CASE ~(j < n)
      <4>1. j + 1 \in DOMAIN q /\ j + 1 # n /\ r[j] = q[j + 1]
        BY <3>2, <2>1, <2>2, <2>3
      <4> QED
        BY <3>2, <4>1
    <3> QED
      BY <3>1, <3>2
  <2>9. \A i \in DOMAIN q : i # n => q[i] # p
    BY <2>1, <2>2 DEF Agree
  <2> HIDE DEF U, r, q, l
  <2>10. ASSUME NEW k \in List, NEW i \in DOMAIN U.queue[k]
         PROVE  U.myList[U.queue[k][i]] = k
    <3>1. CASE k # l
      BY <3>1, <2>6, <2>7 DEF Agree
    <3>2. CASE k = l
      <4>1. PICK m \in DOMAIN q : m # n /\ r[i] = q[m]
        BY <3>2, <2>6, <2>8
      <4> QED
        BY <4>1, <3>2, <2>6, <2>7, <2>9 DEF Agree, q
    <3> QED
      BY <3>1, <3>2
  <2>11. ASSUME NEW k \in List, NEW i \in DOMAIN U.queue[k], NEW j \in DOMAIN U.queue[k],
                U.queue[k][i] = U.queue[k][j]
         PROVE  i = j
    <3>1. CASE k # l
      BY <3>1, <2>6, <2>7, <2>11 DEF Agree
    <3>2. CASE k = l
      <4>1. PICK m \in DOMAIN q : /\ m # n /\ r[i] = q[m]
                                 /\ m = IF i < n THEN i ELSE i + 1
        BY <3>2, <2>6, <2>8
      <4>2. PICK o \in DOMAIN q : /\ o # n /\ r[j] = q[o]
                                 /\ o = IF j < n THEN j ELSE j + 1
        BY <3>2, <2>6, <2>8
      <4>3. m = o
        BY <4>1, <4>2, <3>2, <2>6, <2>1, <2>11 DEF Agree, q
      <4>4. i \in Int /\ j \in Int /\ n \in Int
        BY <3>2, <2>1, <2>2, <2>3, <2>6
      <4> QED
        BY <4>1, <4>2, <4>3, <4>4
    <3> QED
      BY <3>1, <3>2
  <2>12. ASSUME NEW x \in Process, U.myList[x] # NoList
         PROVE  \E i \in DOMAIN U.queue[U.myList[x]] : U.queue[U.myList[x]][i] = x
    <3>1. x # p /\ U.myList[x] = L.myList[x] /\ L.myList[x] \in List
      BY <2>6, <2>12 DEF ListsType
    <3>2. PICK i \in DOMAIN L.queue[L.myList[x]] : L.queue[L.myList[x]][i] = x
      BY <3>1, <2>12 DEF Agree
    <3>3. CASE L.myList[x] = l
      <4>1. i \in DOMAIN q /\ q[i] = x /\ i # n
        BY <3>1, <3>2, <3>3, <2>2 DEF q
      <4>2. CASE i < n
        <5>1. i \in DOMAIN r /\ r[i] = x
          BY <4>1, <4>2, <2>1, <2>2, <2>3
        <5> QED
          BY <5>1, <3>1, <3>3, <2>6
      <4>3. CASE i > n
        <5>1. i - 1 \in DOMAIN r /\ r[i - 1] = x
          BY <4>1, <4>3, <2>1, <2>2, <2>3
        <5> QED
          BY <5>1, <3>1, <3>3, <2>6
      <4> QED
        BY <4>1, <4>2, <4>3, <2>1, <2>2
    <3>4. CASE L.myList[x] # l
      BY <3>1, <3>2, <3>4, <2>6
    <3> QED
      BY <3>3, <3>4
  <2>13. Agree(U)
    BY <2>10, <2>11, <2>12 DEF Agree
  <2> QED
    BY <1>2, <2>1, <2>2, <2>4, <2>5, <2>13 DEF U, r, q, l
<1> QED
  BY <1>1, <1>2

-----------------------------------------------------------------------------
(* What every primitive must keep true of the three list variables.         *)

\* L agrees with itself, keeps no signal from a waiting process, and lists
\* only processes that st calls live.
Good(L, st) ==
    /\ L \in ListsType
    /\ Agree(L)
    /\ \A s \in Semaphore : L.excess[s] > 0 => L.queue[s] = <<>>
    /\ \A p \in Process : st[p] # "live" => L.myList[p] = NoList

LEMMA ListFacts ==
    /\ NoList \notin List
    /\ Semaphore \subseteq List /\ RunQueue \subseteq List
    /\ \A k \in RunQueue : k \notin Semaphore
    /\ \A k \in Int : Clamp(k) \in RunQueue
BY SchedulerAssumption DEF List, RunQueue, Clamp

LEMMA MakeRunnableGood ==
    ASSUME NEW L, NEW st, Good(L, st), NEW p \in Process, st[p] = "live",
           L.myList[p] = NoList, prio[p] \in Int
    PROVE  /\ Good(MakeRunnable(L, p), st)
           /\ \A x \in Process : x # p => MakeRunnable(L, p).myList[x] = L.myList[x]
           /\ \A s \in Semaphore : MakeRunnable(L, p).queue[s] = L.queue[s]
           /\ HasRunnable(MakeRunnable(L, p))
<1> DEFINE k == Clamp(prio[p])
           E == Enqueue(L, k, p)
<1>1. k \in RunQueue /\ k \in List /\ k \notin Semaphore /\ NoList \notin List
  BY ListFacts
<1>2. L \in ListsType /\ Agree(L)
  BY DEF Good
<1> HIDE DEF k
<1>3. /\ E \in ListsType /\ Agree(E)
      /\ E.queue = [L.queue EXCEPT ![k] = Append(@, p)]
      /\ E.myList = [L.myList EXCEPT ![p] = k]
      /\ E.excess = L.excess
  BY <1>1, <1>2, EnqueueFacts
<1> HIDE DEF E
<1>4. /\ \A x \in Process : x # p => E.myList[x] = L.myList[x]
      /\ \A s \in Semaphore : E.queue[s] = L.queue[s]
  BY <1>1, <1>2, <1>3, ListFacts DEF ListsType
<1>5. Good(E, st)
  BY <1>3, <1>4 DEF Good
<1>6. HasRunnable(E)
  <2>1. L.queue[k] \in Seq(Process) /\ E.queue[k] = Append(L.queue[k], p)
    BY <1>1, <1>2, <1>3 DEF ListsType
  <2> QED
    BY <1>1, <2>1, AppendProperties DEF HasRunnable
<1> QED
  BY <1>3, <1>4, <1>5, <1>6 DEF MakeRunnable, E, k

LEMMA DequeueGood ==
    ASSUME NEW L, NEW st, Good(L, st), NEW l \in List, L.queue[l] # <<>>
    PROVE  /\ Good(Dequeue(L, l), st)
           /\ Head(L.queue[l]) \in Process
           /\ st[Head(L.queue[l])] = "live"
           /\ Dequeue(L, l).myList[Head(L.queue[l])] = NoList
           /\ \A x \in Process : L.myList[x] = NoList => Dequeue(L, l).myList[x] = NoList
           /\ L.myList[Head(L.queue[l])] = l
<1> DEFINE D == Dequeue(L, l)
           p == Head(L.queue[l])
<1>1. L \in ListsType /\ Agree(L) /\ NoList \notin List
  BY ListFacts DEF Good
<1>2. /\ p \in Process /\ L.myList[p] = l
      /\ D \in ListsType /\ Agree(D)
      /\ D.queue = [L.queue EXCEPT ![l] = Tail(@)]
      /\ D.myList = [L.myList EXCEPT ![p] = NoList]
      /\ D.excess = L.excess
  BY <1>1, DequeueFacts
<1> HIDE DEF D, p
<1>3. \A x \in Process : D.myList[x] = IF x = p THEN NoList ELSE L.myList[x]
  BY <1>1, <1>2 DEF ListsType
<1>4. \A s \in Semaphore : D.excess[s] > 0 => D.queue[s] = <<>>
  BY <1>1, <1>2, ListFacts DEF ListsType, Good, p
<1>5. st[p] = "live"
  BY <1>1, <1>2 DEF Good
<1>6. Good(D, st)
  BY <1>2, <1>3, <1>4 DEF Good
<1> QED
  BY <1>2, <1>3, <1>5, <1>6 DEF D, p

LEMMA UnlinkGood ==
    ASSUME NEW L, NEW st, Good(L, st), NEW p \in Process
    PROVE  /\ Good(Unlink(L, p), st)
           /\ Unlink(L, p).myList[p] = NoList
           /\ \A x \in Process : L.myList[x] = NoList => Unlink(L, p).myList[x] = NoList
           /\ Unlink(L, p).excess = L.excess
<1> DEFINE U == Unlink(L, p)
<1>1. L \in ListsType /\ Agree(L) /\ NoList \notin List
  BY ListFacts DEF Good
<1>2. /\ U \in ListsType /\ Agree(U)
      /\ U.myList = [L.myList EXCEPT ![p] = NoList]
      /\ U.excess = L.excess
      /\ L.myList[p] = NoList => U = L
      /\ L.myList[p] # NoList =>
            \E i \in DOMAIN L.queue[L.myList[p]] :
               U.queue = [L.queue EXCEPT ![L.myList[p]] = RemoveAt(@, i)]
  BY <1>1, UnlinkFacts
<1> HIDE DEF U
<1>3. \A x \in Process : U.myList[x] = IF x = p THEN NoList ELSE L.myList[x]
  BY <1>1, <1>2 DEF ListsType
<1>4. ASSUME NEW s \in Semaphore, U.excess[s] > 0
      PROVE  U.queue[s] = <<>>
  <2>1. L.queue[s] = <<>>
    BY <1>2, <1>4 DEF Good
  <2>2. CASE L.myList[p] = NoList
    BY <2>1, <2>2, <1>2
  <2>3. CASE L.myList[p] # NoList
    <3>1. PICK i \in DOMAIN L.queue[L.myList[p]] :
               U.queue = [L.queue EXCEPT ![L.myList[p]] = RemoveAt(@, i)]
      BY <2>3, <1>2
    <3>2. L.myList[p] # s
      BY <3>1, <2>1, EmptySeq, LenProperties
    <3> QED
      BY <3>1, <3>2, <2>1, <1>1, ListFacts DEF ListsType
  <2> QED
    BY <2>2, <2>3
<1>5. Good(U, st)
  BY <1>2, <1>3, <1>4 DEF Good
<1> QED
  BY <1>2, <1>3, <1>5 DEF U

LEMMA EnqueueGood ==
    ASSUME NEW L, NEW st, Good(L, st), NEW s \in Semaphore, ~(L.excess[s] > 0),
           NEW p \in Process, st[p] = "live", L.myList[p] = NoList
    PROVE  Good(Enqueue(L, s, p), st)
<1> DEFINE E == Enqueue(L, s, p)
<1>1. L \in ListsType /\ Agree(L) /\ NoList \notin List /\ s \in List
  BY ListFacts DEF Good
<1>2. /\ E \in ListsType /\ Agree(E)
      /\ E.queue = [L.queue EXCEPT ![s] = Append(@, p)]
      /\ E.myList = [L.myList EXCEPT ![p] = s]
      /\ E.excess = L.excess
  BY <1>1, EnqueueFacts
<1> HIDE DEF E
<1>3. \A x \in Process : x # p => E.myList[x] = L.myList[x]
  BY <1>1, <1>2 DEF ListsType
<1>4. \A r \in Semaphore : r # s => E.queue[r] = L.queue[r]
  BY <1>1, <1>2, ListFacts DEF ListsType
<1> QED
  BY <1>2, <1>3, <1>4 DEF Good, E

LEMMA SignalInternalGood ==
    ASSUME NEW L, NEW st, Good(L, st), NEW s \in Semaphore,
           \A p \in Process : prio[p] \in Int
    PROVE  /\ Good(SignalInternal(L, s), st)
           /\ \A x \in Process : L.myList[x] = NoList => SignalInternal(L, s).myList[x] = NoList
<1>1. CASE L.queue[s] # <<>>
  <2> DEFINE D == Dequeue(L, s)
             p == Head(L.queue[s])
  <2>1. /\ Good(D, st) /\ p \in Process /\ st[p] = "live" /\ D.myList[p] = NoList
        /\ L.myList[p] = s
        /\ \A x \in Process : L.myList[x] = NoList => D.myList[x] = NoList
    <3>1. s \in List
      BY ListFacts
    <3> QED
      BY <1>1, <3>1, DequeueGood
  <2> HIDE DEF D, p
  <2>2. /\ Good(MakeRunnable(D, p), st)
        /\ \A x \in Process : x # p => MakeRunnable(D, p).myList[x] = D.myList[x]
    BY <2>1, MakeRunnableGood
  <2>3. SignalInternal(L, s) = MakeRunnable(D, p)
    BY <1>1 DEF SignalInternal, D, p
  <2> QED
    BY <2>1, <2>2, <2>3, ListFacts
<1>2. CASE L.queue[s] = <<>>
  <2> DEFINE K == [L EXCEPT !.excess[s] = @ + 1]
  <2>1. /\ K \in ListsType
        /\ K.queue = L.queue /\ K.myList = L.myList
        /\ \A r \in Semaphore : r # s => K.excess[r] = L.excess[r]
    <3>1. L \in ListsType
      BY DEF Good
    <3>2. L.excess[s] + 1 \in Nat
      BY <3>1 DEF ListsType
    <3> QED
      BY <3>1, <3>2 DEF ListsType
  <2> HIDE DEF K
  <2>2. Good(K, st)
    BY <1>2, <2>1 DEF Good, Agree
  <2>3. SignalInternal(L, s) = K
    BY <1>2 DEF SignalInternal, K
  <2> QED
    BY <2>1, <2>2, <2>3
<1> QED
  BY <1>1, <1>2

-----------------------------------------------------------------------------
(* Choosing and running a process.                                          *)

\* A bounded set of numbers has a greatest one: without it Ceiling would be
\* undefined.
LEMMA GreatestExists ==
    ASSUME NEW n \in Nat, NEW T, T \subseteq 1..n, T # {}
    PROVE  \E m \in T : \A k \in T : k <= m
<1> DEFINE R == OpToRel(<, Nat)
           D == {d \in Nat : \E k \in T : d = n - k}
<1>1. \A k \in T : k \in Nat /\ n - k \in D
  OBVIOUS
<1>2. D \subseteq Nat /\ D # {}
  BY <1>1
<1>3. IsWellFoundedOn(R, Nat)
  BY NatLessThanWellFounded
<1>4. \A x, y \in Nat : y < x => <<y, x>> \in R
  BY DEF OpToRel
<1> HIDE DEF R, D
<1>5. PICK d \in D : \A y \in D : ~ (<<y, d>> \in R)
  BY <1>2, <1>3, WFMin
<1>6. \A y \in D : y \in Nat /\ d \in Nat /\ ~(y < d)
  BY <1>2, <1>4, <1>5
<1>7. PICK m \in T : d = n - m
  BY <1>5 DEF D
<1>8. ASSUME NEW k \in T
      PROVE  k <= m
  <2>1. n - k \in D /\ k \in Nat /\ m \in Nat
    BY <1>1
  <2>2. n - k \in Nat /\ d \in Nat /\ ~(n - k < d)
    BY <2>1, <1>6
  <2> QED
    BY <2>1, <2>2, <1>7
<1> QED
  BY <1>8

LEMMA CeilingFacts ==
    ASSUME NEW L, HasRunnable(L)
    PROVE  /\ Ceiling(L) \in RunQueue
           /\ L.queue[Ceiling(L)] # <<>>
           /\ \A j \in RunQueue : L.queue[j] # <<>> => j <= Ceiling(L)
<1> DEFINE T == {k \in RunQueue : L.queue[k] # <<>>}
<1>1. NumPriorities \in Nat /\ T \subseteq 1..NumPriorities /\ T # {}
  BY SchedulerAssumption DEF RunQueue, HasRunnable
<1> HIDE DEF T
<1>2. PICK m \in T : \A k \in T : k <= m
  BY <1>1, GreatestExists
<1>3. \E k \in RunQueue : /\ L.queue[k] # <<>>
                          /\ \A j \in RunQueue : L.queue[j] # <<>> => j <= k
  BY <1>2 DEF T
<1> QED
  BY <1>3 DEF Ceiling

LEMMA SetListsFacts ==
    ASSUME NEW L \in ListsType, SetLists(L)
    PROVE  Lists' = L
<1>1. L = [queue |-> L.queue, myList |-> L.myList, excess |-> L.excess]
  BY DEF ListsType
<1> QED
  BY <1>1 DEF Lists, SetLists

LEMMA DispatchFacts ==
    ASSUME NEW L, NEW st, Good(L, st), HasRunnable(L), Dispatch(L), target \in Process
    PROVE  /\ Good(Lists, st)'
           /\ active' \in Process /\ target' \in Process
           /\ st[active'] = "live" /\ myList'[active'] = NoList
           /\ vm' = "run"
<1> DEFINE c == Ceiling(L)
           D == Dequeue(L, c)
<1>1. c \in List /\ L.queue[c] # <<>>
  BY CeilingFacts, ListFacts
<1> HIDE DEF c
<1>2. /\ Good(D, st)
      /\ Head(L.queue[c]) \in Process
      /\ st[Head(L.queue[c])] = "live"
      /\ D.myList[Head(L.queue[c])] = NoList
  BY <1>1, DequeueGood
<1>3. SetLists(D) /\ active' = Head(L.queue[c]) /\ vm' = "run"
      /\ target' \in {target, active'}
  BY DEF Dispatch, c
<1>4. Lists' = D /\ myList' = D.myList
  BY <1>2, <1>3, SetListsFacts DEF Good, SetLists
<1> QED
  BY <1>2, <1>3, <1>4

LEMMA PickFacts ==
    ASSUME NEW L, NEW st, Good(L, st), PickNextOrWait(L),
           active \in Process, target \in Process
    PROVE  /\ Good(Lists, st)'
           /\ active' \in Process /\ target' \in Process
           /\ vm' \in {"run", "pick", "exit", "deadlock"}
           /\ vm' = "run" => st[active'] = "live" /\ myList'[active'] = NoList
<1>1. CASE HasRunnable(L) /\ Dispatch(L)
  BY <1>1, DispatchFacts
<1>2. CASE /\ SetLists(L)
           /\ vm' = IF timers = <<>> THEN NothingLeft ELSE "pick"
           /\ UNCHANGED <<active, target>>
  <2>1. Lists' = L
    BY <1>2, SetListsFacts DEF Good
  <2>2. vm' \in {"pick", "exit", "deadlock"}
    BY <1>2 DEF NothingLeft
  <2> QED
    BY <1>2, <2>1, <2>2
<1> QED
  BY <1>1, <1>2 DEF PickNextOrWait

LEMMA PreemptFacts ==
    ASSUME NEW L, NEW st, Good(L, st), NEW p \in Process, Preempt(L, p),
           active \in Process, st[active] = "live", L.myList[active] = NoList,
           p # active, L.myList[p] = NoList, prio[active] \in Int
    PROVE  /\ Good(Lists, st)'
           /\ active' = p /\ myList'[p] = NoList
<1> DEFINE M == MakeRunnable(L, active)
<1>1. Good(M, st) /\ M.myList[p] = NoList
  BY MakeRunnableGood
<1>2. SetLists(M) /\ active' = p
  BY DEF Preempt
<1> HIDE DEF M
<1>3. Lists' = M /\ myList' = M.myList
  BY <1>1, <1>2, SetListsFacts DEF Good, SetLists
<1> QED
  BY <1>1, <1>2, <1>3

LEMMA ResumeAtFacts ==
    ASSUME NEW st, Good(Lists, st), NEW p \in Process, NEW k \in Int, ResumeAt(p, k),
           active \in Process, st[active] = "live", myList[active] = NoList,
           p # active, st[p] = "live", myList[p] = NoList, prio[active] \in Int
    PROVE  /\ Good(Lists, st)'
           /\ active' \in Process
           /\ st[active'] = "live" /\ myList'[active'] = NoList
<1>1. Lists.myList[active] = NoList /\ Lists.myList[p] = NoList
  BY DEF Lists
<1>2. CASE k > prio[active] /\ Preempt(Lists, p)
  BY <1>1, <1>2, PreemptFacts
<1>3. CASE SetLists(Enqueue(Lists, Clamp(k), p)) /\ UNCHANGED active
  <2> DEFINE l == Clamp(k)
             E == Enqueue(Lists, l, p)
  <2>1. l \in List /\ l \notin Semaphore /\ NoList \notin List
    BY ListFacts
  <2> HIDE DEF l
  <2>2. Lists \in ListsType /\ Agree(Lists)
    BY DEF Good
  <2>3. /\ E \in ListsType /\ Agree(E)
        /\ E.queue = [Lists.queue EXCEPT ![l] = Append(@, p)]
        /\ E.myList = [Lists.myList EXCEPT ![p] = l]
        /\ E.excess = Lists.excess
    BY <1>1, <2>1, <2>2, EnqueueFacts
  <2> HIDE DEF E
  <2>4. /\ \A x \in Process : x # p => E.myList[x] = Lists.myList[x]
        /\ \A s \in Semaphore : E.queue[s] = Lists.queue[s]
    BY <2>1, <2>2, <2>3, ListFacts DEF ListsType
  <2>5. Good(E, st)
    BY <2>3, <2>4 DEF Good
  <2>6. Lists' = E /\ myList' = E.myList
    BY <1>3, <2>3, SetListsFacts DEF E, l, SetLists
  <2> QED
    BY <1>1, <1>3, <2>4, <2>5, <2>6
<1> QED
  BY <1>2, <1>3 DEF ResumeAt

-----------------------------------------------------------------------------
(* The inductive invariant.                                                 *)

\* TypeOK without the variables of the lists.
ScalarsOK ==
    /\ vm \in Phase
    /\ active \in Process /\ target \in Process
    /\ stack \in [Process -> {"none", "live", "nil"}]
    /\ prio \in [Process -> Priority]
    /\ doomed \in SUBSET Process
    /\ timers \in Seq(Request)
    /\ cutoff \in -1..MaxTime
    /\ armed \in BOOLEAN /\ polled \in BOOLEAN
    /\ now \in 0..MaxTime

\* The process that runs bytecode is alive and on no list.
RunnerOK ==
    vm \in {"run", "poll", "loaded"} => stack[active] = "live" /\ myList[active] = NoList

Inv == TypeOK /\ ListsAgree /\ OneState /\ NoSignalWithheld /\ TimersKeepPolling

\* Inv in the terms of the lemmas on lists.
LEMMA InvParts ==
    Inv <=> ScalarsOK /\ Good(Lists, stack) /\ RunnerOK /\ TimersKeepPolling
<1>1. Lists \in ListsType <=> /\ queue \in [List -> Seq(Process)]
                             /\ myList \in [Process -> List \cup {NoList}]
                             /\ excess \in [Semaphore -> Nat]
  BY DEF Lists, ListsType
<1>2. Agree(Lists) <=> ListsAgree
  BY DEF Agree, Lists, ListsAgree
<1> QED
  BY <1>1, <1>2 DEF Inv, Good, ScalarsOK, RunnerOK, TypeOK, OneState,
                    NoSignalWithheld, Lists

LEMMA InvPartsPrimed ==
    ScalarsOK' /\ Good(Lists, stack)' /\ RunnerOK' /\ TimersKeepPolling' => Inv'
BY InvParts, PTL

LEMMA InitInv == Init => Inv
<1> SUFFICES ASSUME Init PROVE Inv
  OBVIOUS
<1>1. TypeOK
  <2>1. queue \in [List -> Seq(Process)]
    BY EmptySeq DEF Init
  <2>2. stack \in [Process -> {"none", "live", "nil"}] /\ prio \in [Process -> Priority]
    BY DEF Init
  <2>3. timers \in Seq(Request)
    BY EmptySeq DEF Init
  <2>4. myList \in [Process -> List \cup {NoList}] /\ excess \in [Semaphore -> Nat]
    BY DEF Init
  <2>5. vm \in Phase /\ active \in Process /\ target \in Process
    BY SchedulerAssumption DEF Init, Phase
  <2>6. cutoff \in -1..MaxTime /\ now \in 0..MaxTime
    BY SchedulerAssumption DEF Init
  <2>7. doomed \in SUBSET Process /\ armed \in BOOLEAN /\ polled \in BOOLEAN
    BY DEF Init
  <2> QED
    BY <2>1, <2>2, <2>3, <2>4, <2>5, <2>6, <2>7 DEF TypeOK
<1>2. ListsAgree
  BY EmptySeq, ListFacts DEF Init, ListsAgree
<1>3. OneState /\ NoSignalWithheld /\ TimersKeepPolling
  BY SchedulerAssumption, ListFacts DEF Init, OneState, NoSignalWithheld, TimersKeepPolling
<1> QED
  BY <1>1, <1>2, <1>3 DEF Inv

\* What each action is shown to do.
InvStep ==
    ScalarsOK' /\ Good(Lists, stack)' /\ RunnerOK' /\ TimersKeepPolling'

LEMMA ExcessGood ==
    ASSUME NEW st, Good(Lists, st), NEW s \in Semaphore, NEW n \in Nat,
           queue[s] = <<>>, excess' = [excess EXCEPT ![s] = n],
           UNCHANGED <<queue, myList>>
    PROVE  Good(Lists, st)'
<1>1. Lists' \in ListsType /\ Agree(Lists')
  BY DEF Good, Lists, ListsType, Agree
<1>2. \A r \in Semaphore : excess'[r] > 0 => queue'[r] = <<>>
  BY DEF Good, Lists, ListsType
<1> QED
  BY <1>1, <1>2 DEF Good, Lists

\* The facts about the running process that every primitive starts from.
LEMMA RunningFacts ==
    ASSUME ScalarsOK, RunnerOK, vm \in {"run", "poll"}
    PROVE  /\ active \in Process /\ stack[active] = "live"
           /\ myList[active] = NoList /\ Lists.myList[active] = NoList
           /\ \A p \in Process : prio[p] \in Int
BY SchedulerAssumption DEF ScalarsOK, RunnerOK, Lists

LEMMA WaitStep ==
    ASSUME ScalarsOK, Good(Lists, stack), RunnerOK, TimersKeepPolling,
           NEW s \in Semaphore, Wait(s)
    PROVE  InvStep
<1>1. /\ vm = "run" /\ polled' = FALSE
      /\ UNCHANGED <<stack, prio, doomed, timers, cutoff, armed, now>>
  BY DEF Wait, Sending, Executing
<1>2. /\ active \in Process /\ stack[active] = "live"
      /\ myList[active] = NoList /\ Lists.myList[active] = NoList
  BY <1>1, RunningFacts
<1>3. CASE TakesSignal(s) /\ excess' = [excess EXCEPT ![s] = @ - 1]
           /\ UNCHANGED <<vm, active, target, queue, myList>>
  <2>1. excess[s] - 1 \in Nat /\ queue[s] = <<>>
    BY <1>3 DEF TakesSignal, Good, Lists, ListsType
  <2>2. Good(Lists, stack)'
    BY <1>1, <1>3, <2>1, ExcessGood
  <2> QED
    BY <1>1, <1>2, <1>3, <2>2 DEF InvStep, ScalarsOK, RunnerOK, TimersKeepPolling
<1>4. CASE ~TakesSignal(s) /\ PickNextOrWait(Enqueue(Lists, s, active))
  <2>1. Good(Enqueue(Lists, s, active), stack)
    BY <1>2, <1>4, EnqueueGood DEF TakesSignal, Lists
  <2>2. /\ Good(Lists, stack)'
        /\ active' \in Process /\ target' \in Process
        /\ vm' \in {"run", "pick", "exit", "deadlock"}
        /\ vm' = "run" => stack[active'] = "live" /\ myList'[active'] = NoList
    BY <1>1, <1>4, <2>1, PickFacts DEF ScalarsOK
  <2> QED
    BY <1>1, <2>2 DEF InvStep, ScalarsOK, RunnerOK, TimersKeepPolling, Phase
<1> QED
  BY <1>3, <1>4 DEF Wait

LEMMA SignalStep ==
    ASSUME ScalarsOK, Good(Lists, stack), RunnerOK, TimersKeepPolling,
           NEW s \in Semaphore, Signal(s)
    PROVE  InvStep
<1>1. /\ vm = "run" /\ polled' = FALSE
      /\ UNCHANGED <<vm, target, stack, prio, doomed, timers, cutoff, armed, now>>
  BY DEF Signal, Sending, Executing
<1>2. /\ active \in Process /\ stack[active] = "live"
      /\ myList[active] = NoList /\ Lists.myList[active] = NoList
      /\ \A p \in Process : prio[p] \in Int
      /\ s \in List
  BY <1>1, RunningFacts, ListFacts
<1> DEFINE D == Dequeue(Lists, s)
           p == Head(queue[s])
<1>3. ASSUME queue[s] # <<>>
      PROVE  /\ Good(D, stack) /\ p \in Process /\ stack[p] = "live"
             /\ D.myList[p] = NoList /\ D.myList[active] = NoList
             /\ p # active
  <2>1. Lists.queue[s] = queue[s]
    BY DEF Lists
  <2>2. Lists.myList[p] = s /\ s # NoList
    BY <1>2, <1>3, <2>1, DequeueGood, ListFacts
  <2> QED
    BY <1>2, <1>3, <2>1, <2>2, DequeueGood
<1> HIDE DEF D, p
<1>4. CASE queue[s] = <<>> /\ excess' = [excess EXCEPT ![s] = @ + 1]
           /\ UNCHANGED <<active, queue, myList>>
  <2>1. excess[s] + 1 \in Nat
    BY DEF Good, Lists, ListsType
  <2>2. Good(Lists, stack)'
    BY <1>1, <1>4, <2>1, ExcessGood
  <2> QED
    BY <1>1, <1>2, <1>4, <2>2 DEF InvStep, ScalarsOK, RunnerOK, TimersKeepPolling
<1>5. CASE queue[s] # <<>> /\ Preempt(D, p)
  <2>1. Good(Lists', stack) /\ active' = p /\ myList'[p] = NoList
    <3>1. Good(D, stack) /\ p \in Process /\ p # active /\ D.myList[p] = NoList
      BY <1>3, <1>5
    <3>2. D.myList[active] = NoList /\ prio[active] \in Int
      BY <1>2, <1>3, <1>5
    <3> QED
      BY <1>2, <3>1, <3>2, <1>5, PreemptFacts
  <2> QED
    BY <1>1, <1>3, <1>5, <2>1 DEF InvStep, ScalarsOK, RunnerOK, TimersKeepPolling
<1>6. CASE queue[s] # <<>> /\ SetLists(MakeRunnable(D, p)) /\ UNCHANGED active
  <2> DEFINE M == MakeRunnable(D, p)
  <2>1. Good(M, stack) /\ M.myList[active] = NoList
    BY <1>2, <1>3, <1>6, MakeRunnableGood
  <2> HIDE DEF M
  <2>2. Lists' = M /\ myList' = M.myList
    BY <1>6, <2>1, SetListsFacts DEF Good, SetLists, M
  <2> QED
    BY <1>1, <1>2, <1>6, <2>1, <2>2 DEF InvStep, ScalarsOK, RunnerOK, TimersKeepPolling
<1> QED
  BY <1>4, <1>5, <1>6 DEF Signal, D, p

LEMMA YieldStep ==
    ASSUME ScalarsOK, Good(Lists, stack), RunnerOK, TimersKeepPolling, Yield
    PROVE  InvStep
<1>1. /\ vm = "run" /\ polled' = FALSE
      /\ UNCHANGED <<stack, prio, doomed, timers, cutoff, armed, now>>
  BY DEF Yield, Sending, Executing
<1>2. /\ active \in Process /\ stack[active] = "live" /\ Lists.myList[active] = NoList
      /\ prio[active] \in Int /\ target \in Process
  BY <1>1, RunningFacts DEF ScalarsOK
<1>3. Good(MakeRunnable(Lists, active), stack)
  BY <1>2, MakeRunnableGood
<1>4. /\ Good(Lists', stack)
      /\ active' \in Process /\ target' \in Process
      /\ vm' \in {"run", "pick", "exit", "deadlock"}
      /\ vm' = "run" => stack[active'] = "live" /\ myList'[active'] = NoList
  BY <1>2, <1>3, PickFacts DEF Yield
<1> QED
  BY <1>1, <1>4 DEF InvStep, ScalarsOK, RunnerOK, TimersKeepPolling, Phase

LEMMA ResumeStep ==
    ASSUME ScalarsOK, Good(Lists, stack), RunnerOK, TimersKeepPolling,
           NEW p \in Process, Resume(p)
    PROVE  InvStep
<1>1. /\ vm = "run" /\ polled' = FALSE
      /\ UNCHANGED <<vm, target, stack, prio, doomed, timers, cutoff, armed, now>>
  BY DEF Resume, Sending, Executing
<1>2. /\ active \in Process /\ stack[active] = "live" /\ myList[active] = NoList
      /\ prio[active] \in Int /\ prio[p] \in Int
  BY <1>1, RunningFacts
<1>3. p # active /\ stack[p] = "live" /\ myList[p] = NoList /\ ResumeAt(p, prio[p])
  BY DEF Resume, MayResume
<1>4. /\ Good(Lists', stack) /\ active' \in Process
      /\ stack[active'] = "live" /\ myList'[active'] = NoList
  BY <1>2, <1>3, ResumeAtFacts
<1> QED
  BY <1>1, <1>4 DEF InvStep, ScalarsOK, RunnerOK, TimersKeepPolling, Phase

LEMMA ForkStep ==
    ASSUME ScalarsOK, Good(Lists, stack), RunnerOK, TimersKeepPolling,
           NEW p \in Process, NEW k \in Priority, Fork(p, k)
    PROVE  InvStep
<1>1. /\ vm = "run" /\ polled' = FALSE
      /\ stack[p] = "none"
      /\ stack' = [stack EXCEPT ![p] = "live"]
      /\ prio' = [prio EXCEPT ![p] = k]
      /\ ResumeAt(p, k)
      /\ UNCHANGED <<vm, target, doomed, timers, cutoff, armed, now>>
  BY DEF Fork, Sending, Executing
<1>2. /\ active \in Process /\ stack[active] = "live" /\ myList[active] = NoList
      /\ prio[active] \in Int /\ k \in Int
  BY <1>1, RunningFacts, SchedulerAssumption
<1>3. /\ stack' \in [Process -> {"none", "live", "nil"}]
      /\ prio' \in [Process -> Priority]
      /\ stack'[p] = "live" /\ stack'[active] = "live" /\ p # active
      /\ \A x \in Process : stack'[x] # "live" => stack[x] # "live"
  BY <1>1, <1>2 DEF ScalarsOK
<1>4. Good(Lists, stack') /\ myList[p] = NoList
  BY <1>1, <1>3 DEF Good, Lists
<1>5. /\ Good(Lists', stack') /\ active' \in Process
      /\ stack'[active'] = "live" /\ myList'[active'] = NoList
  BY <1>1, <1>2, <1>3, <1>4, ResumeAtFacts
<1> QED
  BY <1>1, <1>3, <1>5 DEF InvStep, ScalarsOK, RunnerOK, TimersKeepPolling, Phase

LEMMA SuspendStep ==
    ASSUME ScalarsOK, Good(Lists, stack), RunnerOK, TimersKeepPolling,
           NEW p \in Process, Suspend(p)
    PROVE  InvStep
<1>1. /\ vm = "run" /\ polled' = FALSE
      /\ UNCHANGED <<stack, prio, doomed, timers, cutoff, armed, now>>
  BY DEF Suspend, Sending, Executing
<1>2. /\ active \in Process /\ stack[active] = "live" /\ Lists.myList[active] = NoList
      /\ target \in Process
  BY <1>1, RunningFacts DEF ScalarsOK
<1>3. CASE PickNextOrWait(Lists)
  <2>1. /\ Good(Lists', stack)
        /\ active' \in Process /\ target' \in Process
        /\ vm' \in {"run", "pick", "exit", "deadlock"}
        /\ vm' = "run" => stack[active'] = "live" /\ myList'[active'] = NoList
    BY <1>2, <1>3, PickFacts
  <2> QED
    BY <1>1, <2>1 DEF InvStep, ScalarsOK, RunnerOK, TimersKeepPolling, Phase
<1>4. CASE SetLists(Unlink(Lists, p)) /\ UNCHANGED <<vm, active, target>>
  <2> DEFINE U == Unlink(Lists, p)
  <2>1. Good(U, stack) /\ U.myList[active] = NoList
    BY <1>2, UnlinkGood
  <2> HIDE DEF U
  <2>2. Lists' = U /\ myList' = U.myList
    BY <1>4, <2>1, SetListsFacts DEF Good, SetLists, U
  <2> QED
    BY <1>1, <1>2, <1>4, <2>1, <2>2 DEF InvStep, ScalarsOK, RunnerOK, TimersKeepPolling
<1> QED
  BY <1>3, <1>4 DEF Suspend

LEMMA TerminateStep ==
    ASSUME ScalarsOK, Good(Lists, stack), RunnerOK, TimersKeepPolling,
           NEW p \in Process, TerminateOther(p)
    PROVE  InvStep
<1> DEFINE U == Unlink(Lists, p)
           M == MakeRunnable(U, p)
<1>1. /\ vm = "run" /\ polled' = FALSE
      /\ doomed' = doomed \cup {p}
      /\ p # active /\ stack[p] = "live"
      /\ SetLists(M)
      /\ UNCHANGED <<vm, active, target, stack, prio, timers, cutoff, armed, now>>
  BY DEF TerminateOther, MayTerminate, Sending, Executing
<1>2. /\ active \in Process /\ stack[active] = "live" /\ Lists.myList[active] = NoList
      /\ prio[p] \in Int
  BY <1>1, RunningFacts
<1>3. Good(U, stack) /\ U.myList[p] = NoList /\ U.myList[active] = NoList
  BY <1>2, UnlinkGood
<1> HIDE DEF U
<1>4. Good(M, stack) /\ M.myList[active] = NoList
  BY <1>1, <1>2, <1>3, MakeRunnableGood
<1> HIDE DEF M
<1>5. Lists' = M /\ myList' = M.myList
  BY <1>1, <1>4, SetListsFacts DEF Good, SetLists
<1> QED
  BY <1>1, <1>2, <1>4, <1>5 DEF InvStep, ScalarsOK, RunnerOK, TimersKeepPolling

LEMMA TransferStep ==
    ASSUME ScalarsOK, Good(Lists, stack), RunnerOK, TimersKeepPolling,
           TransferScope # "any", NEW p \in Process, TransferTo(p)
    PROVE  InvStep
BY DEF TransferTo, Sending, Executing, InvStep, ScalarsOK, RunnerOK, TimersKeepPolling,
       Good, Lists

LEMMA SignalAtStep ==
    ASSUME ScalarsOK, Good(Lists, stack), RunnerOK, TimersKeepPolling,
           NEW s \in Semaphore, NEW t \in 0..MaxTime, SignalAt(s, t)
    PROVE  InvStep
<1>1. [at |-> t, sem |-> s] \in Request
  BY DEF Request
<1>2. timers' \in Seq(Request)
  BY <1>1, AppendProperties DEF SignalAt, ScalarsOK
<1>3. Good(Lists, stack)'
  BY DEF SignalAt, Good, Lists
<1> QED
  BY <1>2, <1>3 DEF SignalAt, ArmForTimer, Sending, Executing, InvStep, ScalarsOK,
                    RunnerOK, TimersKeepPolling

LEMMA BaseFrameStep ==
    ASSUME ScalarsOK, Good(Lists, stack), RunnerOK, TimersKeepPolling,
           vm = "run", BaseFrameReturns
    PROVE  InvStep
<1> DEFINE L == [Lists EXCEPT !.myList[active] = NoList]
<1>1. /\ active \in Process /\ Lists.myList[active] = NoList /\ target \in Process
  BY RunningFacts DEF ScalarsOK
<1>2. L = Lists
  BY <1>1 DEF Good, ListsType
<1>3. /\ stack' = [stack EXCEPT ![active] = "nil"]
      /\ doomed' = doomed \ {active}
      /\ polled' = FALSE
      /\ UNCHANGED <<prio, timers, cutoff, armed, now>>
  BY DEF BaseFrameReturns
<1>4. /\ stack' \in [Process -> {"none", "live", "nil"}]
      /\ doomed' \in SUBSET Process
      /\ Good(Lists, stack')
  BY <1>1, <1>3 DEF ScalarsOK, Good
<1>5. CASE vm' = "returned" /\ SetLists(L) /\ UNCHANGED <<active, target>>
  <2>1. Lists' = Lists
    BY <1>2, <1>5, SetListsFacts DEF Good
  <2> QED
    BY <1>1, <1>3, <1>4, <1>5, <2>1
    DEF InvStep, ScalarsOK, RunnerOK, TimersKeepPolling, Phase
<1>6. CASE PickNextOrWait(L)
  <2>1. /\ Good(Lists', stack')
        /\ active' \in Process /\ target' \in Process
        /\ vm' \in {"run", "pick", "exit", "deadlock"}
        /\ vm' = "run" => stack'[active'] = "live" /\ myList'[active'] = NoList
    BY <1>1, <1>2, <1>4, <1>6, PickFacts
  <2> QED
    BY <1>3, <1>4, <2>1 DEF InvStep, ScalarsOK, RunnerOK, TimersKeepPolling, Phase
<1> QED
  BY <1>5, <1>6 DEF BaseFrameReturns

LEMMA TrampolineStep ==
    ASSUME ScalarsOK, Good(Lists, stack), RunnerOK, TimersKeepPolling, RunTrampoline
    PROVE  InvStep
<1>1. CASE BaseFrameReturns
  BY <1>1, BaseFrameStep DEF RunTrampoline
<1>2. CASE /\ doomed' = doomed \ {active}
           /\ polled' = FALSE
           /\ UNCHANGED <<vm, active, target, stack, prio, queue, myList,
                          excess, timers, cutoff, armed, now>>
  BY <1>2 DEF InvStep, ScalarsOK, RunnerOK, TimersKeepPolling, Good, Lists
<1> QED
  BY <1>1, <1>2 DEF RunTrampoline

LEMMA PollStep ==
    ASSUME ScalarsOK, Good(Lists, stack), RunnerOK, TimersKeepPolling, PollSafepoint
    PROVE  InvStep
<1>1. now \in -1..MaxTime
  BY SchedulerAssumption DEF ScalarsOK
<1> QED
  BY <1>1 DEF PollSafepoint, StartService, Executing, InvStep, ScalarsOK, RunnerOK,
              TimersKeepPolling, Good, Lists, Phase

LEMMA FireDueStep ==
    ASSUME ScalarsOK, Good(Lists, stack), RunnerOK, TimersKeepPolling, FireDue
    PROVE  InvStep
<1>1. PICK i \in DOMAIN timers :
          /\ timers' = RemoveAt(timers, i)
          /\ SetLists(SignalInternal(Lists, timers[i].sem))
  BY DEF FireDue
<1>2. /\ vm \in {"poll", "pick"}
      /\ UNCHANGED <<vm, active, target, stack, prio, doomed, cutoff, armed,
                     polled, now>>
  BY DEF FireDue
<1>3. /\ timers \in Seq(Request) /\ Len(timers) \in Nat /\ i \in 1..Len(timers)
      /\ timers[i] \in Request
  BY LenProperties, ElementOfSeq DEF ScalarsOK
<1>4. timers' \in Seq(Request) /\ timers # <<>>
  BY <1>1, <1>3, RemoveAtFacts, EmptySeq
<1> DEFINE s == timers[i].sem
           F == SignalInternal(Lists, s)
<1>5. s \in Semaphore
  BY <1>3 DEF Request
<1> HIDE DEF s
<1>6. \A p \in Process : prio[p] \in Int
  BY SchedulerAssumption DEF ScalarsOK
<1>7. /\ Good(F, stack)
      /\ \A x \in Process : Lists.myList[x] = NoList => F.myList[x] = NoList
  BY <1>5, <1>6, SignalInternalGood
<1>8. SetLists(F)
  BY <1>1 DEF s
<1> HIDE DEF F
<1>9. Lists' = F /\ myList' = F.myList
  BY <1>7, <1>8, SetListsFacts DEF Good, SetLists
<1>10. RunnerOK'
  BY <1>2, <1>7, <1>9 DEF RunnerOK, ScalarsOK, Lists
<1> QED
  BY <1>2, <1>4, <1>7, <1>9, <1>10 DEF InvStep, ScalarsOK, TimersKeepPolling

LEMMA FinishPollStep ==
    ASSUME ScalarsOK, Good(Lists, stack), RunnerOK, TimersKeepPolling, FinishPoll
    PROVE  InvStep
<1>1. /\ vm = "poll" /\ cutoff' = -1 /\ armed' = (timers # <<>>)
      /\ UNCHANGED <<stack, prio, doomed, timers, polled, now>>
  BY DEF FinishPoll, StaysArmed
<1>2. /\ active \in Process /\ stack[active] = "live" /\ Lists.myList[active] = NoList
      /\ myList[active] = NoList
      /\ prio[active] \in Int /\ target \in Process /\ -1 \in -1..MaxTime
  BY <1>1, RunningFacts, SchedulerAssumption DEF ScalarsOK
<1>3. CASE MustPreempt /\ Dispatch(MakeRunnable(Lists, active))
  <2> DEFINE M == MakeRunnable(Lists, active)
  <2>1. Good(M, stack)
    BY <1>2, MakeRunnableGood
  <2>2. HasRunnable(M)
    BY <1>2, MakeRunnableGood
  <2> HIDE DEF M
  <2>3. /\ Good(Lists', stack)
        /\ active' \in Process /\ target' \in Process
        /\ stack[active'] = "live" /\ myList'[active'] = NoList
        /\ vm' = "run"
    BY <1>2, <1>3, <2>1, <2>2, DispatchFacts DEF M
  <2> QED
    BY <1>1, <1>2, <2>3 DEF InvStep, ScalarsOK, RunnerOK, TimersKeepPolling, Phase
<1>4. CASE vm' = "run" /\ UNCHANGED <<active, target, queue, myList, excess>>
  BY <1>1, <1>2, <1>4
  DEF InvStep, ScalarsOK, RunnerOK, TimersKeepPolling, Phase, Good, Lists
<1> QED
  BY <1>3, <1>4 DEF FinishPoll

LEMMA WakeStep ==
    ASSUME ScalarsOK, Good(Lists, stack), RunnerOK, TimersKeepPolling, WakeToFire
    PROVE  InvStep
<1>1. now \in -1..MaxTime
  BY SchedulerAssumption DEF ScalarsOK
<1> QED
  BY <1>1 DEF WakeToFire, StartService, InvStep, ScalarsOK, RunnerOK,
              TimersKeepPolling, Good, Lists, Phase

LEMMA StopWaitingStep ==
    ASSUME ScalarsOK, Good(Lists, stack), RunnerOK, TimersKeepPolling, StopWaiting
    PROVE  InvStep
<1>1. /\ cutoff' = -1 /\ -1 \in -1..MaxTime
      /\ UNCHANGED <<stack, prio, doomed, timers, armed, polled, now>>
  BY SchedulerAssumption DEF StopWaiting
<1>2. /\ Good(Lists', stack)
      /\ active' \in Process /\ target' \in Process
      /\ vm' \in {"run", "pick", "exit", "deadlock"}
      /\ vm' = "run" => stack[active'] = "live" /\ myList'[active'] = NoList
  BY PickFacts DEF StopWaiting, ScalarsOK
<1> QED
  BY <1>1, <1>2 DEF InvStep, ScalarsOK, RunnerOK, TimersKeepPolling, Phase

LEMMA RunNextStep ==
    ASSUME ScalarsOK, Good(Lists, stack), RunnerOK, TimersKeepPolling, RunNext
    PROVE  InvStep
<1>1. /\ Good(Lists', stack)
      /\ active' \in Process /\ target' \in Process
      /\ vm' \in {"run", "pick", "exit", "deadlock"}
      /\ vm' = "run" => stack[active'] = "live" /\ myList'[active'] = NoList
  BY PickFacts DEF RunNext, ScalarsOK
<1> QED
  BY <1>1 DEF RunNext, InvStep, ScalarsOK, RunnerOK, TimersKeepPolling, Phase

LEMMA RestartStep ==
    ASSUME ScalarsOK, Good(Lists, stack), RunnerOK, TimersKeepPolling,
           Restart \/ RunImage
    PROVE  InvStep
<1>1. /\ vm' \in Phase /\ vm \in {"run", "poll", "loaded"}
      /\ UNCHANGED <<active, stack, prio, queue, myList, excess, doomed, cutoff>>
  BY DEF Restart, RunImage, Sending, Executing, Phase
<1>2. /\ timers' \in Seq(Request) /\ (timers' # <<>> => armed')
      /\ armed' \in BOOLEAN /\ polled' \in BOOLEAN /\ now' \in 0..MaxTime
  <2>1. CASE RunImage
    BY <2>1 DEF RunImage, ScalarsOK, TimersKeepPolling
  <2>2. CASE Restart
    <3>1. timers' = <<>> /\ armed' = FALSE /\ now' = 0 /\ polled' = FALSE
      BY <2>2 DEF Restart, Sending
    <3>2. 0 \in 0..MaxTime
      BY SchedulerAssumption
    <3> QED
      BY <3>1, <3>2, EmptySeq
  <2> QED
    BY <2>1, <2>2
<1>3. target' \in Process
  BY DEF Restart, RunImage, ScalarsOK
<1> QED
  BY <1>1, <1>2, <1>3 DEF InvStep, ScalarsOK, RunnerOK, TimersKeepPolling, Good, Lists

LEMMA QuietStep ==
    ASSUME ScalarsOK, Good(Lists, stack), RunnerOK, TimersKeepPolling,
           Tick \/ UNCHANGED vars
    PROVE  InvStep
<1>1. UNCHANGED <<vm, active, target, stack, prio, queue, myList, excess,
                  doomed, timers, cutoff, armed, polled>>
  BY DEF Tick, vars
<1>2. now' \in 0..MaxTime
  BY SchedulerAssumption DEF Tick, vars, ScalarsOK
<1> QED
  BY <1>1, <1>2 DEF InvStep, ScalarsOK, RunnerOK, TimersKeepPolling, Good, Lists

\* Inv is inductive, one action at a time.
LEMMA NextInv ==
    ASSUME TransferScope # "any", Inv, [Next]_vars
    PROVE  Inv'
<1>1. ScalarsOK /\ Good(Lists, stack) /\ RunnerOK /\ TimersKeepPolling
  BY InvParts
<1>2. InvStep
  <2>1. ASSUME NEW s \in Semaphore, Wait(s) \/ Signal(s)
        PROVE  InvStep
    BY <1>1, <2>1, WaitStep, SignalStep
  <2>2. ASSUME NEW s \in Semaphore, NEW t \in 0..MaxTime, SignalAt(s, t)
        PROVE  InvStep
    BY <1>1, <2>2, SignalAtStep
  <2>3. ASSUME NEW p \in Process,
               Resume(p) \/ Suspend(p) \/ TerminateOther(p) \/ TransferTo(p)
        PROVE  InvStep
    BY <1>1, <2>3, ResumeStep, SuspendStep, TerminateStep, TransferStep
  <2>4. ASSUME NEW p \in Process, NEW k \in Priority, Fork(p, k)
        PROVE  InvStep
    BY <1>1, <2>4, ForkStep
  <2>5. CASE Yield \/ Halt \/ RunTrampoline
    BY <1>1, <2>5, YieldStep, BaseFrameStep, TrampolineStep DEF Halt, Executing
  <2>6. CASE PollSafepoint \/ FireDue \/ FinishPoll
    BY <1>1, <2>6, PollStep, FireDueStep, FinishPollStep
  <2>7. CASE WakeToFire \/ StopWaiting \/ RunNext
    BY <1>1, <2>7, WakeStep, StopWaitingStep, RunNextStep
  <2>8. CASE Tick \/ UNCHANGED vars
    BY <1>1, <2>8, QuietStep
  <2>9. CASE Restart \/ RunImage
    BY <1>1, <2>9, RestartStep
  <2> QED
    BY <2>1, <2>2, <2>3, <2>4, <2>5, <2>6, <2>7, <2>8, <2>9 DEF Next, Terminated
<1> QED
  BY <1>2, InvPartsPrimed DEF InvStep

\* The invariant, and with it type correctness, holds in every reachable
\* state of the scheduler, as long as transferTo: is sent to suspended
\* processes only (src/prims.rs:1174 accepts others).
THEOREM InvHolds ==
    ASSUME TransferScope # "any"
    PROVE  Spec => []Inv
<1>1. Init => Inv
  BY InitInv
<1>2. Inv /\ [Next]_vars => Inv'
  BY NextInv
<1> QED
  BY <1>1, <1>2, PTL DEF Spec

\* Every variable keeps its type, whatever bytecode does.
THEOREM TypeCorrect ==
    ASSUME TransferScope # "any"
    PROVE  Spec => []TypeOK
<1>1. Inv => TypeOK
  BY DEF Inv
<1> QED
  BY <1>1, InvHolds, PTL

\* A process is on at most one list, once, and its myList slot names it: the
\* chains that src/prims.rs:1060 walks are the ones the slots tell of.
THEOREM ListsAlwaysAgree ==
    ASSUME TransferScope # "any"
    PROVE  Spec => []ListsAgree
<1>1. Inv => ListsAgree
  BY DEF Inv
<1> QED
  BY <1>1, InvHolds, PTL

\* Running, listed and ended exclude each other (SPEC section 7).
THEOREM StatesExclude ==
    ASSUME TransferScope # "any"
    PROVE  Spec => []OneState
<1>1. Inv => OneState
  BY DEF Inv
<1> QED
  BY <1>1, InvHolds, PTL

\* No wakeup is lost: no signal is kept while a process waits for it
\* (src/prims.rs:1163, 1184, 1205).
THEOREM NoLostWakeup ==
    ASSUME TransferScope # "any"
    PROVE  Spec => []NoSignalWithheld
<1>1. Inv => NoSignalWithheld
  BY DEF Inv
<1> QED
  BY <1>1, InvHolds, PTL

\* A pending timer keeps the safepoint armed (src/interp.rs:980).
THEOREM PendingTimersPoll ==
    ASSUME TransferScope # "any"
    PROVE  Spec => []TimersKeepPolling
<1>1. Inv => TimersKeepPolling
  BY DEF Inv
<1> QED
  BY <1>1, InvHolds, PTL

\* An ended process gets no stack back: only forking and ending write one.
LEMMA StackStep ==
    ASSUME Inv, [Next]_vars, NEW p \in Process, stack[p] = "nil"
    PROVE  stack'[p] = "nil"
<1>1. stack \in [Process -> {"none", "live", "nil"}] /\ active \in Process
  BY DEF Inv, TypeOK
<1>2. ASSUME NEW q \in Process, NEW k \in Priority, Fork(q, k)
      PROVE  stack'[p] = "nil"
  BY <1>1, <1>2 DEF Fork
<1>3. CASE BaseFrameReturns
  BY <1>1, <1>3 DEF BaseFrameReturns
<1>4. CASE UNCHANGED stack
  BY <1>4
<1>5. CASE \E s \in Semaphore : Wait(s) \/ Signal(s)
  BY <1>4, <1>5 DEF Wait, Signal
<1>6. CASE \E s \in Semaphore, t \in 0..MaxTime : SignalAt(s, t)
  BY <1>4, <1>6 DEF SignalAt
<1>7. CASE \E q \in Process : Resume(q) \/ Suspend(q) \/ TerminateOther(q) \/ TransferTo(q)
  BY <1>4, <1>7 DEF Resume, Suspend, TerminateOther, TransferTo
<1>8. CASE Yield \/ Halt \/ RunTrampoline
  BY <1>3, <1>4, <1>8 DEF Yield, Halt, RunTrampoline
<1>9. CASE PollSafepoint \/ FireDue \/ FinishPoll
  BY <1>4, <1>9 DEF PollSafepoint, FireDue, FinishPoll
<1>10. CASE WakeToFire \/ StopWaiting \/ RunNext
  BY <1>4, <1>10 DEF WakeToFire, StopWaiting, RunNext
<1>11. CASE Tick \/ Terminated \/ UNCHANGED vars
  BY <1>4, <1>11 DEF Tick, Terminated, vars
<1>12. CASE Restart \/ RunImage
  BY <1>4, <1>12 DEF Restart, RunImage
<1> QED
  BY <1>2, <1>5, <1>6, <1>7, <1>8, <1>9, <1>10, <1>11, <1>12 DEF Next

\* Nothing resumes, lists or dispatches a process that has ended.
THEOREM TerminatedStays ==
    ASSUME TransferScope # "any"
    PROVE  Spec => TerminatedForGood
<1> DEFINE A == \A p \in Process : stack[p] = "nil" =>
                    /\ stack'[p] = "nil"
                    /\ myList'[p] = NoList
                    /\ vm' = "run" => active' # p
<1>1. Inv /\ Inv' /\ [Next]_vars => A
  <2> SUFFICES ASSUME Inv, Inv', [Next]_vars, NEW p \in Process, stack[p] = "nil"
               PROVE  /\ stack'[p] = "nil"
                      /\ myList'[p] = NoList
                      /\ vm' = "run" => active' # p
    OBVIOUS
  <2>1. stack'[p] = "nil"
    BY StackStep
  <2> QED
    BY <2>1 DEF Inv, OneState
<1> HIDE DEF A
<1>2. Spec => []Inv
  BY InvHolds
<1>3. Spec => [][A]_vars
  BY <1>1, <1>2, PTL DEF Spec
<1> QED
  BY <1>3 DEF TerminatedForGood, A

-----------------------------------------------------------------------------
(* Refinement of FifoSemaphore.                                             *)

\* M differs from L in no semaphore.
SameSemaphores(L, M) ==
    M.excess = L.excess /\ \A s \in Semaphore : M.queue[s] = L.queue[s]

Waiters(L) == [s \in Semaphore |-> L.queue[s]]

LEMMA MakeRunnableSem ==
    ASSUME NEW L \in ListsType, NEW p \in Process, prio[p] \in Int
    PROVE  SameSemaphores(L, MakeRunnable(L, p))
<1> DEFINE k == Clamp(prio[p])
<1>1. k \in List /\ \A s \in Semaphore : s \in List /\ s # k
  BY ListFacts
<1> HIDE DEF k
<1> QED
  BY <1>1 DEF SameSemaphores, MakeRunnable, Enqueue, ListsType, k

LEMMA DequeueRunSem ==
    ASSUME NEW L \in ListsType, NEW k \in RunQueue
    PROVE  SameSemaphores(L, Dequeue(L, k))
<1>1. k \in List /\ \A s \in Semaphore : s \in List /\ s # k
  BY ListFacts
<1> QED
  BY <1>1 DEF SameSemaphores, Dequeue, ListsType

\* Switching to another process touches the run queues only.
LEMMA PickSem ==
    ASSUME NEW L, NEW st, Good(L, st), PickNextOrWait(L)
    PROVE  SameSemaphores(L, Lists')
<1>1. L \in ListsType
  BY DEF Good
<1>2. CASE HasRunnable(L) /\ Dispatch(L)
  <2>1. Ceiling(L) \in RunQueue
    BY <1>2, CeilingFacts
  <2>2. SameSemaphores(L, Dequeue(L, Ceiling(L)))
    BY <1>1, <2>1, DequeueRunSem
  <2>3. SetLists(Dequeue(L, Ceiling(L)))
    BY <1>2 DEF Dispatch
  <2> QED
    BY <2>2, <2>3 DEF SetLists, SameSemaphores, Lists
<1>3. CASE SetLists(L)
  BY <1>3 DEF SetLists, SameSemaphores, Lists
<1> QED
  BY <1>2, <1>3 DEF PickNextOrWait

\* What SameSemaphores means for the abstract variables.
LEMMA SameSemFacts ==
    ASSUME NEW L, SameSemaphores(L, Lists')
    PROVE  excess' = L.excess /\ Waiters(Lists)' = Waiters(L)
BY DEF SameSemaphores, Lists, Waiters

LEMMA WaitersFacts ==
    /\ \A s \in Semaphore : Waiters(Lists)[s] = queue[s]
    /\ Waiters(Lists) = [s \in Semaphore |-> queue[s]]
BY DEF Waiters, Lists

LEMMA WaitRefines ==
    ASSUME Inv, NEW s \in Semaphore, Wait(s)
    PROVE  Abstract!Acquire(s) \/ \E p \in Process : Abstract!Block(s, p)
<1>1. /\ ScalarsOK /\ Good(Lists, stack) /\ RunnerOK /\ vm = "run"
      /\ ListsAgree /\ NoSignalWithheld /\ excess \in [Semaphore -> Nat]
      /\ queue \in [List -> Seq(Process)] /\ Semaphore \subseteq List
  BY InvParts, ListFacts DEF Inv, TypeOK, Wait, Sending, Executing
<1>2. /\ active \in Process /\ stack[active] = "live"
      /\ myList[active] = NoList /\ Lists.myList[active] = NoList
  BY <1>1, RunningFacts
<1>3. CASE TakesSignal(s) /\ excess' = [excess EXCEPT ![s] = @ - 1]
           /\ UNCHANGED queue
  <2>1. queue[s] = <<>> /\ excess[s] > 0
    BY <1>1, <1>3 DEF TakesSignal, NoSignalWithheld
  <2> QED
    BY <1>3, <2>1 DEF Abstract!Acquire
<1>4. CASE ~TakesSignal(s) /\ PickNextOrWait(Enqueue(Lists, s, active))
  <2> DEFINE E == Enqueue(Lists, s, active)
  <2>1. Good(E, stack)
    BY <1>1, <1>2, <1>4, EnqueueGood DEF TakesSignal, Lists
  <2>2. /\ E.excess = excess
        /\ Waiters(E) = [Waiters(Lists) EXCEPT ![s] = Append(@, active)]
    BY <1>1 DEF Enqueue, Lists, Waiters
  <2> HIDE DEF E
  <2>3. SameSemaphores(E, Lists')
    BY <1>4, <2>1, PickSem DEF E
  <2>4. excess' = excess /\ Waiters(Lists)' = [Waiters(Lists) EXCEPT ![s] = Append(@, active)]
    BY <2>2, <2>3, SameSemFacts
  <2>5. excess[s] = 0
    BY <1>1, <1>4 DEF TakesSignal
  <2>6. \A t \in Semaphore : \A i \in DOMAIN queue[t] : queue[t][i] # active
    BY <1>1, <1>2, ListFacts DEF ListsAgree
  <2>7. PICK p \in Process : p = active
    BY <1>2
  <2>8. Abstract!Block(s, p)
    BY <2>4, <2>5, <2>6, <2>7 DEF Abstract!Block, Waiters, Lists
  <2> QED
    BY <2>8
<1> QED
  BY <1>3, <1>4 DEF Wait

\* Handing a signal to the first waiter, who becomes runnable.
LEMMA HandOver ==
    ASSUME Inv, NEW s \in Semaphore, queue[s] # <<>>
    PROVE  /\ Dequeue(Lists, s) \in ListsType
           /\ Head(queue[s]) \in Process
           /\ Dequeue(Lists, s).excess = excess
           /\ Waiters(Dequeue(Lists, s)) = [Waiters(Lists) EXCEPT ![s] = Tail(@)]
<1>1. /\ Good(Lists, stack) /\ s \in List /\ Semaphore \subseteq List
      /\ Lists.queue[s] # <<>> /\ Lists.queue[s] = queue[s]
      /\ queue \in [List -> Seq(Process)]
  BY InvParts, ListFacts DEF Lists, Inv, TypeOK
<1>2. Good(Dequeue(Lists, s), stack) /\ Head(queue[s]) \in Process
  BY <1>1, DequeueGood
<1>3. Dequeue(Lists, s).excess = excess
  BY DEF Dequeue, Lists
<1>4. Waiters(Dequeue(Lists, s)) = [Waiters(Lists) EXCEPT ![s] = Tail(@)]
  BY <1>1 DEF Dequeue, Lists, Waiters
<1> QED
  BY <1>2, <1>3, <1>4 DEF Good

\* The tail of HandOver's list belongs to the abstract release.
LEMMA ReleaseRefines ==
    ASSUME NEW s \in Semaphore, queue[s] # <<>>, NEW L,
           L.excess = excess, Waiters(L) = [Waiters(Lists) EXCEPT ![s] = Tail(@)],
           SameSemaphores(L, Lists')
    PROVE  Abstract!Release(s)
<1>1. excess' = excess /\ Waiters(Lists)' = [Waiters(Lists) EXCEPT ![s] = Tail(@)]
  BY SameSemFacts
<1> QED
  BY <1>1 DEF Abstract!Release, Waiters, Lists

LEMMA SignalRefines ==
    ASSUME Inv, NEW s \in Semaphore, Signal(s)
    PROVE  Abstract!Keep(s) \/ Abstract!Release(s)
<1>1. /\ active \in Process /\ \A p \in Process : prio[p] \in Int
  BY SchedulerAssumption DEF Inv, TypeOK
<1> DEFINE D == Dequeue(Lists, s)
           p == Head(queue[s])
<1>2. CASE queue[s] = <<>> /\ excess' = [excess EXCEPT ![s] = @ + 1] /\ UNCHANGED queue
  BY <1>2 DEF Abstract!Keep
<1>3. CASE queue[s] # <<>> /\ (Preempt(D, p) \/ SetLists(MakeRunnable(D, p)))
  <2>1. /\ D \in ListsType /\ p \in Process /\ D.excess = excess
        /\ Waiters(D) = [Waiters(Lists) EXCEPT ![s] = Tail(@)]
    BY <1>3, HandOver
  <2> HIDE DEF D, p
  <2>2. SameSemaphores(D, MakeRunnable(D, active)) /\ SameSemaphores(D, MakeRunnable(D, p))
    BY <1>1, <2>1, MakeRunnableSem
  <2>3. SetLists(MakeRunnable(D, active)) \/ SetLists(MakeRunnable(D, p))
    BY <1>3 DEF Preempt
  <2>4. SameSemaphores(D, Lists')
    BY <2>2, <2>3 DEF SameSemaphores, SetLists, Lists
  <2> QED
    BY <1>3, <2>1, <2>4, ReleaseRefines
<1> QED
  BY <1>2, <1>3 DEF Signal, D, p

LEMMA FireRefines ==
    ASSUME Inv, FireDue
    PROVE  \E s \in Semaphore : Abstract!Keep(s) \/ Abstract!Release(s)
<1>1. PICK i \in DOMAIN timers : SetLists(SignalInternal(Lists, timers[i].sem))
  BY DEF FireDue
<1> DEFINE s == timers[i].sem
<1>2. s \in Semaphore /\ \A p \in Process : prio[p] \in Int
  <2>1. timers \in Seq(Request) /\ i \in 1..Len(timers)
    BY LenProperties DEF Inv, TypeOK
  <2>2. timers[i] \in Request
    BY <2>1, ElementOfSeq
  <2> QED
    BY <2>2, SchedulerAssumption DEF Inv, TypeOK, Request
<1>3. SetLists(SignalInternal(Lists, s))
  BY <1>1
<1> HIDE DEF s
<1> DEFINE D == Dequeue(Lists, s)
           p == Head(queue[s])
<1>4. CASE queue[s] = <<>>
  <2>1. excess' = [excess EXCEPT ![s] = @ + 1] /\ queue' = queue
    BY <1>3, <1>4 DEF SignalInternal, SetLists, Lists
  <2> QED
    BY <1>2, <1>4, <2>1 DEF Abstract!Keep
<1>5. CASE queue[s] # <<>>
  <2>1. /\ D \in ListsType /\ p \in Process /\ D.excess = excess
        /\ Waiters(D) = [Waiters(Lists) EXCEPT ![s] = Tail(@)]
    BY <1>2, <1>5, HandOver
  <2>2. SetLists(MakeRunnable(D, p))
    BY <1>3, <1>5 DEF SignalInternal, Lists
  <2> HIDE DEF D, p
  <2>3. SameSemaphores(D, MakeRunnable(D, p))
    BY <1>2, <2>1, MakeRunnableSem
  <2>4. SameSemaphores(D, Lists')
    BY <2>2, <2>3 DEF SameSemaphores, SetLists, Lists
  <2> QED
    BY <1>2, <1>5, <2>1, <2>4, ReleaseRefines
<1> QED
  BY <1>4, <1>5

\* Taking a process off its list withdraws it from at most one semaphore.
LEMMA UnlinkRefines ==
    ASSUME Inv, NEW p \in Process, SameSemaphores(Unlink(Lists, p), Lists')
    PROVE  \/ UNCHANGED <<excess, Waiters(Lists)>>
           \/ \E s \in Semaphore : \E i \in DOMAIN queue[s] : Abstract!Withdraw(s, i)
<1> DEFINE U == Unlink(Lists, p)
           l == myList[p]
<1>1. /\ Lists \in ListsType /\ Agree(Lists) /\ NoList \notin List
      /\ Semaphore \subseteq List
      /\ queue \in [List -> Seq(Process)]
      /\ myList \in [Process -> List \cup {NoList}]
  BY InvParts, ListFacts DEF Good, Inv, TypeOK
<1>2. /\ U.excess = excess
      /\ l = NoList => U = Lists
      /\ l # NoList => \E i \in DOMAIN queue[l] : U.queue = [queue EXCEPT ![l] = RemoveAt(@, i)]
  <2>1. /\ U.excess = Lists.excess
        /\ Lists.myList[p] = NoList => U = Lists
        /\ Lists.myList[p] # NoList =>
              \E i \in DOMAIN Lists.queue[Lists.myList[p]] :
                 U.queue = [Lists.queue EXCEPT ![Lists.myList[p]] = RemoveAt(@, i)]
    BY <1>1, UnlinkFacts
  <2>2. Lists.myList = myList /\ Lists.queue = queue /\ Lists.excess = excess
    BY DEF Lists
  <2> HIDE DEF U
  <2> QED
    BY <2>1, <2>2
<1> HIDE DEF U
<1>3. excess' = excess /\ Waiters(Lists)' = Waiters(U)
  BY <1>2, SameSemFacts DEF U
<1>4. CASE l = NoList
  BY <1>2, <1>3, <1>4
<1>5. CASE l # NoList
  <2>1. PICK i \in DOMAIN queue[l] : U.queue = [queue EXCEPT ![l] = RemoveAt(@, i)]
    BY <1>2, <1>5
  <2>2. CASE l \in Semaphore
    <3> DEFINE r == RemoveAt(queue[l], i)
    <3>1. U.queue = [queue EXCEPT ![l] = r]
      BY <2>1
    <3> HIDE DEF r, l
    <3>2. \A s \in Semaphore : U.queue[s] = IF s = l THEN r ELSE queue[s]
      BY <1>1, <2>2, <3>1
    <3>3. Waiters(U) = [[s \in Semaphore |-> queue[s]] EXCEPT ![l] = r]
      BY <2>2, <3>2 DEF Waiters
    <3>4. [s \in Semaphore |-> queue[s]]' = Waiters(U)
      BY <1>3 DEF Waiters, Lists
    <3>5. [s \in Semaphore |-> queue[s]]' =
             [[s \in Semaphore |-> queue[s]] EXCEPT ![l] = RemoveAt(@, i)]
      BY <2>2, <3>3, <3>4 DEF r
    <3>6. Abstract!Withdraw(l, i)
      BY <1>3, <3>5 DEF Abstract!Withdraw, Abstract!RemoveAt, RemoveAt
    <3> QED
      BY <2>1, <2>2, <3>6
  <2>3. CASE l \notin Semaphore
    <3>1. Waiters(U) = Waiters(Lists)
      BY <1>1, <1>5, <2>1, <2>3 DEF Waiters, Lists
    <3> QED
      BY <1>3, <3>1
  <2> QED
    BY <2>2, <2>3
<1> QED
  BY <1>4, <1>5

\* Every other action leaves the semaphores alone.
LEMMA PickRefines ==
    ASSUME Inv, NEW L, NEW st, Good(L, st), PickNextOrWait(L),
           SameSemaphores(Lists, L)
    PROVE  UNCHANGED <<excess, Waiters(Lists)>>
<1>1. SameSemaphores(L, Lists')
  BY PickSem
<1> QED
  BY <1>1 DEF SameSemaphores, Lists, Waiters

LEMMA ResumeAtRefines ==
    ASSUME Inv, NEW p \in Process, NEW k \in Int, ResumeAt(p, k)
    PROVE  UNCHANGED <<excess, Waiters(Lists)>>
<1>1. /\ Lists \in ListsType /\ active \in Process /\ prio[active] \in Int
  BY InvParts, SchedulerAssumption DEF Good, Inv, TypeOK
<1>2. CASE Preempt(Lists, p)
  <2>1. SameSemaphores(Lists, MakeRunnable(Lists, active))
    BY <1>1, MakeRunnableSem
  <2> QED
    BY <1>2, <2>1 DEF Preempt, SetLists, SameSemaphores, Lists, Waiters
<1>3. CASE SetLists(Enqueue(Lists, Clamp(k), p))
  <2> DEFINE l == Clamp(k)
  <2>1. l \in List /\ \A s \in Semaphore : s \in List /\ s # l
    BY ListFacts
  <2> HIDE DEF l
  <2>2. SameSemaphores(Lists, Enqueue(Lists, l, p))
    BY <1>1, <2>1 DEF SameSemaphores, Enqueue, ListsType
  <2> QED
    BY <1>3, <2>2 DEF l, SetLists, SameSemaphores, Lists, Waiters
<1> QED
  BY <1>2, <1>3 DEF ResumeAt

\* Putting the running process back on its run queue.
LEMMA RequeueFacts ==
    ASSUME Inv, vm \in {"run", "poll"}
    PROVE  /\ Lists.myList[active] = NoList
           /\ Good(MakeRunnable(Lists, active), stack)
           /\ HasRunnable(MakeRunnable(Lists, active))
           /\ SameSemaphores(Lists, MakeRunnable(Lists, active))
<1>1. /\ ScalarsOK /\ RunnerOK /\ Good(Lists, stack) /\ Lists \in ListsType
  BY InvParts DEF Good
<1>2. /\ active \in Process /\ stack[active] = "live" /\ Lists.myList[active] = NoList
      /\ prio[active] \in Int
  BY <1>1, RunningFacts
<1> QED
  BY <1>1, <1>2, MakeRunnableGood, MakeRunnableSem

LEMMA YieldRefines ==
    ASSUME Inv, Yield
    PROVE  UNCHANGED <<excess, Waiters(Lists)>>
BY RequeueFacts, PickRefines DEF Yield, Sending, Executing

LEMMA FinishPollRefines ==
    ASSUME Inv, FinishPoll
    PROVE  UNCHANGED <<excess, Waiters(Lists)>>
<1> DEFINE M == MakeRunnable(Lists, active)
<1>1. CASE Dispatch(M)
  <2>1. Good(M, stack) /\ SameSemaphores(Lists, M) /\ HasRunnable(M)
    BY RequeueFacts DEF FinishPoll
  <2> HIDE DEF M
  <2>2. PickNextOrWait(M)
    BY <1>1, <2>1 DEF PickNextOrWait
  <2> QED
    BY <2>1, <2>2, PickRefines
<1>2. CASE UNCHANGED <<queue, excess>>
  BY <1>2 DEF Waiters, Lists
<1> QED
  BY <1>1, <1>2 DEF FinishPoll

LEMMA PickAgainRefines ==
    ASSUME Inv, PickNextOrWait(Lists)
    PROVE  UNCHANGED <<excess, Waiters(Lists)>>
<1>1. Good(Lists, stack) /\ SameSemaphores(Lists, Lists)
  BY InvParts DEF SameSemaphores
<1> QED
  BY <1>1, PickRefines

LEMMA BaseFrameRefines ==
    ASSUME Inv, BaseFrameReturns, vm = "run"
    PROVE  UNCHANGED <<excess, Waiters(Lists)>>
<1> DEFINE L == [Lists EXCEPT !.myList[active] = NoList]
<1>1. Lists \in ListsType /\ Lists.myList[active] = NoList
  BY InvParts, RequeueFacts DEF Good
<1>2. L = Lists
  BY <1>1 DEF ListsType
<1>3. SetLists(L) \/ PickNextOrWait(L)
  BY DEF BaseFrameReturns
<1>4. SetLists(Lists) \/ PickNextOrWait(Lists)
  BY <1>2, <1>3
<1>5. CASE SetLists(Lists)
  BY <1>5 DEF SetLists, Lists, Waiters
<1> QED
  BY <1>4, <1>5, PickAgainRefines

\* Suspend and terminate may withdraw a waiter.
LEMMA WithdrawRefines ==
    ASSUME Inv, NEW p \in Process, Suspend(p) \/ TerminateOther(p)
    PROVE  \/ UNCHANGED <<excess, Waiters(Lists)>>
           \/ \E s \in Semaphore : \E i \in DOMAIN queue[s] : Abstract!Withdraw(s, i)
<1> DEFINE U == Unlink(Lists, p)
<1>1. /\ Good(Lists, stack) /\ SameSemaphores(Lists, Lists) /\ prio[p] \in Int
  BY InvParts, SchedulerAssumption DEF Inv, TypeOK, SameSemaphores
<1>2. U \in ListsType
  BY <1>1, UnlinkGood DEF Good
<1> HIDE DEF U
<1>3. CASE PickNextOrWait(Lists)
  BY <1>1, <1>3, PickRefines
<1>4. CASE SetLists(U) \/ SetLists(MakeRunnable(U, p))
  <2>1. SameSemaphores(U, MakeRunnable(U, p)) /\ SameSemaphores(U, U)
    BY <1>1, <1>2, MakeRunnableSem DEF SameSemaphores
  <2>2. SameSemaphores(U, Lists')
    BY <1>4, <2>1 DEF SetLists, SameSemaphores, Lists
  <2> QED
    BY <2>2, UnlinkRefines DEF U
<1> QED
  BY <1>3, <1>4 DEF Suspend, TerminateOther, U

LEMMA StepRefines ==
    ASSUME Inv, [Next]_vars
    PROVE  [Abstract!Next]_(Abstract!vars)
<1>1. SUFFICES ASSUME ~ UNCHANGED <<excess, Waiters(Lists)>>
               PROVE  Abstract!Next
  BY WaitersFacts DEF Abstract!vars, Waiters, Lists
<1>2. UNCHANGED <<queue, excess>> => FALSE
  BY <1>1 DEF Waiters, Lists
<1>3. CASE \E s \in Semaphore : Wait(s) \/ Signal(s)
  <2>1. PICK s \in Semaphore : Wait(s) \/ Signal(s)
    BY <1>3
  <2>2. \/ Abstract!Acquire(s) \/ \E p \in Process : Abstract!Block(s, p)
        \/ Abstract!Keep(s) \/ Abstract!Release(s)
    BY <2>1, WaitRefines, SignalRefines
  <2> QED
    BY <2>2 DEF Abstract!Next
<1>4. CASE \E s \in Semaphore, t \in 0..MaxTime : SignalAt(s, t)
  BY <1>2, <1>4 DEF SignalAt
<1>5. CASE \E p \in Process : Resume(p) \/ Suspend(p) \/ TerminateOther(p) \/ TransferTo(p)
  <2>1. PICK p \in Process : Resume(p) \/ Suspend(p) \/ TerminateOther(p) \/ TransferTo(p)
    BY <1>5
  <2>2. CASE Resume(p)
    <3>1. prio[p] \in Int
      BY SchedulerAssumption DEF Inv, TypeOK
    <3> QED
      BY <1>1, <2>2, <3>1, ResumeAtRefines DEF Resume
  <2>3. CASE Suspend(p) \/ TerminateOther(p)
    BY <1>1, <2>3, WithdrawRefines DEF Abstract!Next, Waiters, Lists
  <2>4. CASE TransferTo(p)
    BY <1>2, <2>4 DEF TransferTo
  <2> QED
    BY <2>1, <2>2, <2>3, <2>4
<1>6. CASE \E p \in Process, k \in Priority : Fork(p, k)
  BY <1>1, <1>6, ResumeAtRefines, SchedulerAssumption DEF Fork
<1>7. CASE Yield \/ Halt \/ RunTrampoline
  BY <1>1, <1>2, <1>7, YieldRefines, BaseFrameRefines DEF Halt, Executing, RunTrampoline
<1>8. CASE PollSafepoint \/ FireDue \/ FinishPoll
  <2>1. CASE PollSafepoint
    BY <1>2, <2>1 DEF PollSafepoint
  <2>2. CASE FireDue
    BY <2>2, FireRefines DEF Abstract!Next
  <2>3. CASE FinishPoll
    BY <1>1, <2>3, FinishPollRefines
  <2> QED
    BY <1>8, <2>1, <2>2, <2>3
<1>9. CASE WakeToFire \/ StopWaiting \/ RunNext
  BY <1>1, <1>2, <1>9, PickAgainRefines DEF WakeToFire, StopWaiting, RunNext
<1>10. CASE Tick \/ Terminated \/ UNCHANGED vars
  BY <1>2, <1>10 DEF Tick, Terminated, vars
<1>11. CASE Restart \/ RunImage
  BY <1>2, <1>11 DEF Restart, RunImage
<1> QED
  BY <1>3, <1>4, <1>5, <1>6, <1>7, <1>8, <1>9, <1>10, <1>11 DEF Next

\* The pointer lists, timers, preemption and termination of the scheduler
\* together implement counting semaphores that serve their waiters in order
\* (SPEC section 13).
THEOREM SemaphoresImplementFifo ==
    ASSUME TransferScope # "any"
    PROVE  Spec => SemaphoresAreFifo
<1>1. Init => Abstract!Init
  BY ListFacts DEF Init, Abstract!Init
<1>2. Inv /\ [Next]_vars => [Abstract!Next]_(Abstract!vars)
  BY StepRefines
<1> QED
  BY <1>1, <1>2, InvHolds, PTL DEF Spec, SemaphoresAreFifo, Abstract!Spec

-----------------------------------------------------------------------------
(* Order: who is before whom on a run queue, and at which priority.         *)

\* A process on a run queue is on that of its priority.
Placed(L, pr) ==
    \A p \in Process : L.myList[p] \in RunQueue => L.myList[p] = Clamp(pr[p])

\* From L to M nobody on a run queue, other than those in D, is overtaken.
Kept(L, M, D) ==
    \A k \in RunQueue : \A x, y \in Process :
        L.myList[x] = k /\ M.myList[x] = k /\ x \notin D /\ Before(M.queue[k], y, x)
            => Before(L.queue[k], y, x)

\* Whoever is on a run queue stays there.
Stays(L, M) ==
    \A x \in Process : L.myList[x] \in RunQueue => M.myList[x] = L.myList[x]

\* p is on a run queue of a higher priority than that of a.
Above(L, pr, a, p) == L.myList[p] \in RunQueue /\ Clamp(pr[p]) > Clamp(pr[a])

\* With a in charge, nobody of a higher priority is kept waiting.
Highest(L, pr, a) == \A p \in Process : ~Above(L, pr, a, p)

LEMMA ClampFacts ==
    /\ \A k \in Int : Clamp(k) \in Int /\ 1 <= Clamp(k) /\ Clamp(k) <= NumPriorities
    /\ \A j, k \in Int : j <= k => Clamp(j) <= Clamp(k)
    /\ \A j \in RunQueue, k \in Int : j <= k => j <= Clamp(k)
BY SchedulerAssumption DEF Clamp, RunQueue

LEMMA KeptSame ==
    ASSUME NEW L, NEW M, \A k \in RunQueue : M.queue[k] = L.queue[k], NEW D
    PROVE  Kept(L, M, D)
BY DEF Kept

LEMMA KeptLess ==
    ASSUME NEW L, NEW M, Kept(L, M, {}), NEW D
    PROVE  Kept(L, M, D)
BY DEF Kept

LEMMA KeptTwice ==
    ASSUME NEW L, NEW M, NEW N, NEW D, Kept(L, M, D), Kept(M, N, D), Stays(L, M)
    PROVE  Kept(L, N, D)
BY DEF Kept, Stays

\* Who comes to a queue stands behind those who are there.
LEMMA AppendOrder ==
    ASSUME NEW q \in Seq(Process), NEW p \in Process, NEW x \in Process, NEW y \in Process,
           NEW r, r = Append(q, p), x # p, Before(r, y, x)
    PROVE  Before(q, y, x)
<1>1. /\ Len(q) \in Nat /\ DOMAIN q = 1..Len(q)
      /\ DOMAIN Append(q, p) = 1..(Len(q) + 1)
      /\ \A i \in 1..Len(q) : Append(q, p)[i] = q[i]
      /\ Append(q, p)[Len(q) + 1] = p
  BY AppendProperties, LenProperties
<1>2. PICK i, j \in DOMAIN Append(q, p) :
          i < j /\ Append(q, p)[i] = y /\ Append(q, p)[j] = x
  BY DEF Before
<1>3. j # Len(q) + 1
  BY <1>1, <1>2
<1>4. i \in 1..Len(q) /\ j \in 1..Len(q)
  BY <1>1, <1>2, <1>3
<1>5. q[i] = y /\ q[j] = x
  BY <1>1, <1>2, <1>4
<1> QED
  BY <1>1, <1>2, <1>4, <1>5 DEF Before

\* Those behind the head stay in their order.
LEMMA TailOrder ==
    ASSUME NEW q \in Seq(Process), q # <<>>, NEW x \in Process, NEW y \in Process,
           Before(Tail(q), y, x)
    PROVE  Before(q, y, x)
<1>1. /\ Len(q) \in Nat /\ DOMAIN q = 1..Len(q)
      /\ DOMAIN Tail(q) = 1..(Len(q) - 1)
      /\ \A i \in 1..(Len(q) - 1) : Tail(q)[i] = q[i + 1]
  BY HeadTailProperties, LenProperties
<1>2. PICK i, j \in DOMAIN Tail(q) : i < j /\ Tail(q)[i] = y /\ Tail(q)[j] = x
  BY DEF Before
<1>3. i + 1 \in 1..Len(q) /\ j + 1 \in 1..Len(q) /\ i + 1 < j + 1
  BY <1>1, <1>2
<1>4. q[i + 1] = y /\ q[j + 1] = x
  BY <1>1, <1>2
<1> QED
  BY <1>1, <1>3, <1>4 DEF Before

\* So do those around someone who is taken out.
LEMMA RemoveOrder ==
    ASSUME NEW q \in Seq(Process), NEW n \in DOMAIN q, NEW x \in Process, NEW y \in Process,
           Before(RemoveAt(q, n), y, x)
    PROVE  Before(q, y, x)
<1>1. /\ Len(q) \in Nat /\ DOMAIN q = 1..Len(q) /\ n \in 1..Len(q)
  BY LenProperties
<1>2. /\ RemoveAt(q, n) \in Seq(Process)
      /\ Len(RemoveAt(q, n)) = Len(q) - 1
      /\ \A j \in 1..(Len(q) - 1) : RemoveAt(q, n)[j] = IF j < n THEN q[j] ELSE q[j + 1]
  BY <1>1, RemoveAtFacts
<1>3. DOMAIN RemoveAt(q, n) = 1..(Len(q) - 1)
  BY <1>2, LenProperties
<1>4. PICK i, j \in 1..(Len(q) - 1) :
          i < j /\ RemoveAt(q, n)[i] = y /\ RemoveAt(q, n)[j] = x
  BY <1>3 DEF Before
<1> DEFINE up(m) == IF m < n THEN m ELSE m + 1
<1>5. up(i) \in 1..Len(q) /\ up(j) \in 1..Len(q) /\ up(i) < up(j)
  BY <1>1, <1>4
<1>6. q[up(i)] = y /\ q[up(j)] = x
  BY <1>2, <1>4
<1> HIDE DEF up
<1> QED
  BY <1>1, <1>5, <1>6 DEF Before

-----------------------------------------------------------------------------
(* Order over the operations on lists.                                      *)

LEMMA EnqueueOrder ==
    ASSUME NEW L, NEW st, Good(L, st), NEW l \in RunQueue, NEW p \in Process,
           L.myList[p] = NoList, NEW pr, Clamp(pr[p]) = l, Placed(L, pr)
    PROVE  /\ Enqueue(L, l, p) \in ListsType
           /\ \A x \in Process : Enqueue(L, l, p).myList[x] = IF x = p THEN l ELSE L.myList[x]
           /\ Kept(L, Enqueue(L, l, p), {})
           /\ Stays(L, Enqueue(L, l, p))
           /\ Placed(Enqueue(L, l, p), pr)
<1> DEFINE E == Enqueue(L, l, p)
<1>1. L \in ListsType /\ Agree(L) /\ NoList \notin List /\ l \in List /\ NoList \notin RunQueue
  BY ListFacts DEF Good
<1>2. /\ E \in ListsType
      /\ E.queue = [L.queue EXCEPT ![l] = Append(@, p)]
      /\ E.myList = [L.myList EXCEPT ![p] = l]
  BY <1>1, EnqueueFacts
<1> HIDE DEF E
<1>3. \A x \in Process : E.myList[x] = IF x = p THEN l ELSE L.myList[x]
  BY <1>1, <1>2 DEF ListsType
<1>4. /\ L.queue[l] \in Seq(Process) /\ E.queue[l] = Append(L.queue[l], p)
      /\ \A k \in RunQueue : k # l => E.queue[k] = L.queue[k]
  BY <1>1, <1>2, ListFacts DEF ListsType
<1>5. Kept(L, E, {})
  <2> SUFFICES ASSUME NEW k \in RunQueue, NEW x \in Process, NEW y \in Process,
                      L.myList[x] = k, Before(E.queue[k], y, x)
               PROVE  Before(L.queue[k], y, x)
    BY DEF Kept
  <2>1. x # p
    BY <1>1
  <2>2. CASE k = l
    BY <1>4, <2>1, <2>2, AppendOrder
  <2>3. CASE k # l
    BY <1>4, <2>3
  <2> QED
    BY <2>2, <2>3
<1>6. Stays(L, E)
  BY <1>1, <1>3 DEF Stays
<1>7. Placed(E, pr)
  BY <1>3 DEF Placed
<1> QED
  BY <1>2, <1>3, <1>5, <1>6, <1>7 DEF E

LEMMA MakeRunnableOrder ==
    ASSUME NEW L, NEW st, Good(L, st), NEW p \in Process, L.myList[p] = NoList,
           prio[p] \in Int, NEW pr, pr[p] = prio[p], Placed(L, pr)
    PROVE  /\ \A x \in Process : x # p => MakeRunnable(L, p).myList[x] = L.myList[x]
           /\ MakeRunnable(L, p).myList[p] = Clamp(prio[p])
           /\ Kept(L, MakeRunnable(L, p), {})
           /\ Stays(L, MakeRunnable(L, p))
           /\ Placed(MakeRunnable(L, p), pr)
<1> DEFINE k == Clamp(prio[p])
<1>1. k \in RunQueue /\ Clamp(pr[p]) = k
  BY ListFacts
<1>2. MakeRunnable(L, p) = Enqueue(L, k, p)
  BY DEF MakeRunnable
<1> HIDE DEF k
<1>3. /\ \A x \in Process : Enqueue(L, k, p).myList[x] = IF x = p THEN k ELSE L.myList[x]
      /\ Kept(L, Enqueue(L, k, p), {})
      /\ Stays(L, Enqueue(L, k, p))
      /\ Placed(Enqueue(L, k, p), pr)
  BY <1>1, EnqueueOrder
<1> QED
  BY <1>2, <1>3 DEF k

\* A process that waits on a semaphore is not on a run queue.
LEMMA WaitOrder ==
    ASSUME NEW L, NEW st, Good(L, st), NEW s \in Semaphore, NEW p \in Process,
           L.myList[p] = NoList, NEW pr, Placed(L, pr)
    PROVE  /\ Kept(L, Enqueue(L, s, p), {})
           /\ Stays(L, Enqueue(L, s, p))
           /\ Placed(Enqueue(L, s, p), pr)
<1> DEFINE E == Enqueue(L, s, p)
<1>1. /\ L \in ListsType /\ Agree(L) /\ NoList \notin List /\ s \in List
      /\ NoList \notin RunQueue /\ s \notin RunQueue
  BY ListFacts DEF Good
<1>2. /\ E.queue = [L.queue EXCEPT ![s] = Append(@, p)]
      /\ E.myList = [L.myList EXCEPT ![p] = s]
  BY <1>1, EnqueueFacts
<1> HIDE DEF E
<1>3. \A x \in Process : E.myList[x] = IF x = p THEN s ELSE L.myList[x]
  BY <1>1, <1>2 DEF ListsType
<1>4. \A k \in RunQueue : E.queue[k] = L.queue[k]
  BY <1>1, <1>2, ListFacts DEF ListsType
<1>5. Kept(L, E, {})
  BY <1>4, KeptSame
<1> QED
  BY <1>1, <1>3, <1>5 DEF Stays, Placed, E

LEMMA DequeueOrder ==
    ASSUME NEW L, NEW st, Good(L, st), NEW l \in List, L.queue[l] # <<>>,
           NEW pr, Placed(L, pr)
    PROVE  /\ Kept(L, Dequeue(L, l), {})
           /\ Placed(Dequeue(L, l), pr)
           /\ \A x \in Process : x # Head(L.queue[l]) => Dequeue(L, l).myList[x] = L.myList[x]
           /\ l \notin RunQueue => Stays(L, Dequeue(L, l))
<1> DEFINE D == Dequeue(L, l)
           p == Head(L.queue[l])
<1>1. L \in ListsType /\ Agree(L) /\ NoList \notin List /\ NoList \notin RunQueue
  BY ListFacts DEF Good
<1>2. /\ p \in Process /\ L.myList[p] = l
      /\ D.queue = [L.queue EXCEPT ![l] = Tail(@)]
      /\ D.myList = [L.myList EXCEPT ![p] = NoList]
  BY <1>1, DequeueFacts
<1> HIDE DEF D, p
<1>3. \A x \in Process : D.myList[x] = IF x = p THEN NoList ELSE L.myList[x]
  BY <1>1, <1>2 DEF ListsType
<1>4. /\ L.queue[l] \in Seq(Process) /\ D.queue[l] = Tail(L.queue[l])
      /\ \A k \in RunQueue : k # l => D.queue[k] = L.queue[k]
  BY <1>1, <1>2, ListFacts DEF ListsType
<1>5. Kept(L, D, {})
  BY <1>4, TailOrder DEF Kept
<1>6. Placed(D, pr)
  BY <1>1, <1>3 DEF Placed
<1>7. l \notin RunQueue => Stays(L, D)
  BY <1>2, <1>3 DEF Stays
<1> QED
  BY <1>3, <1>5, <1>6, <1>7 DEF D, p

LEMMA UnlinkOrder ==
    ASSUME NEW L, NEW st, Good(L, st), NEW p \in Process, NEW pr, Placed(L, pr)
    PROVE  /\ Kept(L, Unlink(L, p), {})
           /\ Placed(Unlink(L, p), pr)
           /\ \A x \in Process : x # p => Unlink(L, p).myList[x] = L.myList[x]
<1> DEFINE U == Unlink(L, p)
           l == L.myList[p]
<1>1. L \in ListsType /\ Agree(L) /\ NoList \notin List /\ NoList \notin RunQueue
  BY ListFacts DEF Good
<1>2. /\ U.myList = [L.myList EXCEPT ![p] = NoList]
      /\ l = NoList => U = L
      /\ l # NoList => \E i \in DOMAIN L.queue[l] :
                           U.queue = [L.queue EXCEPT ![l] = RemoveAt(@, i)]
  BY <1>1, UnlinkFacts
<1> HIDE DEF U
<1>3. \A x \in Process : U.myList[x] = IF x = p THEN NoList ELSE L.myList[x]
  BY <1>1, <1>2 DEF ListsType
<1>4. CASE l = NoList
  BY <1>2, <1>3, <1>4, KeptSame DEF U
<1>5. CASE l # NoList
  <2>1. l \in List /\ L.queue[l] \in Seq(Process)
    BY <1>1, <1>5 DEF ListsType
  <2>2. PICK i \in DOMAIN L.queue[l] : U.queue = [L.queue EXCEPT ![l] = RemoveAt(@, i)]
    BY <1>2, <1>5
  <2> HIDE DEF l
  <2>3. /\ U.queue[l] = RemoveAt(L.queue[l], i)
        /\ \A k \in RunQueue : k # l => U.queue[k] = L.queue[k]
    BY <1>1, <2>1, <2>2, ListFacts DEF ListsType
  <2>4. Kept(L, U, {})
    BY <2>1, <2>3, RemoveOrder DEF Kept
  <2> QED
    BY <1>1, <1>3, <2>4 DEF Placed, U
<1> QED
  BY <1>4, <1>5

LEMMA SignalInternalOrder ==
    ASSUME NEW L, NEW st, Good(L, st), NEW s \in Semaphore,
           \A p \in Process : prio[p] \in Int, Placed(L, prio)
    PROVE  /\ Kept(L, SignalInternal(L, s), {})
           /\ Placed(SignalInternal(L, s), prio)
<1>1. CASE L.queue[s] # <<>>
  <2> DEFINE D == Dequeue(L, s)
             p == Head(L.queue[s])
  <2>0. s \in List /\ s \notin RunQueue
    BY ListFacts
  <2>1. Good(D, st) /\ p \in Process /\ st[p] = "live" /\ D.myList[p] = NoList
    BY <1>1, <2>0, DequeueGood
  <2>2. Kept(L, D, {}) /\ Placed(D, prio) /\ Stays(L, D)
    BY <1>1, <2>0, DequeueOrder
  <2> HIDE DEF D, p
  <2>3. Kept(D, MakeRunnable(D, p), {}) /\ Placed(MakeRunnable(D, p), prio)
    BY <2>1, <2>2, MakeRunnableOrder
  <2>4. Kept(L, MakeRunnable(D, p), {})
    BY <2>2, <2>3, KeptTwice
  <2>5. SignalInternal(L, s) = MakeRunnable(D, p)
    BY <1>1 DEF SignalInternal, D, p
  <2> QED
    BY <2>3, <2>4, <2>5
<1>2. CASE L.queue[s] = <<>>
  <2>1. SignalInternal(L, s) = [L EXCEPT !.excess[s] = @ + 1]
    BY <1>2 DEF SignalInternal
  <2>2. /\ SignalInternal(L, s).queue = L.queue
        /\ SignalInternal(L, s).myList = L.myList
    BY <2>1 DEF Good, ListsType
  <2> QED
    BY <2>2, KeptSame DEF Placed
<1> QED
  BY <1>1, <1>2

-----------------------------------------------------------------------------
(* Order over a switch.                                                     *)

\* Whoever is on a run queue is at most at the ceiling.
LEMMA CeilingAbove ==
    ASSUME NEW L, NEW st, Good(L, st), NEW p \in Process, L.myList[p] \in RunQueue
    PROVE  HasRunnable(L) /\ L.myList[p] <= Ceiling(L)
<1>1. Agree(L) /\ L \in ListsType /\ NoList \notin RunQueue /\ L.myList[p] \in List
  BY ListFacts DEF Good
<1>2. \E i \in DOMAIN L.queue[L.myList[p]] : L.queue[L.myList[p]][i] = p
  BY <1>1 DEF Agree
<1>3. L.queue[L.myList[p]] # <<>>
  BY <1>2, EmptySeq, LenProperties
<1>4. HasRunnable(L)
  BY <1>3 DEF HasRunnable
<1> QED
  BY <1>3, <1>4, CeilingFacts

\* The process that is dispatched has the highest priority there is.
LEMMA DispatchOrder ==
    ASSUME NEW L, NEW st, Good(L, st), HasRunnable(L), Dispatch(L), Placed(L, prio)
    PROVE  Placed(Lists', prio) /\ Kept(L, Lists', {}) /\ Highest(Lists', prio, active')
<1> DEFINE c == Ceiling(L)
           D == Dequeue(L, c)
           n == Head(L.queue[c])
<1>1. c \in List /\ c \in RunQueue /\ L.queue[c] # <<>>
  BY CeilingFacts, ListFacts
<1>2. \A p \in Process : L.myList[p] \in RunQueue => L.myList[p] <= c
  BY CeilingAbove
<1> HIDE DEF c
<1>3. Good(D, st) /\ n \in Process /\ L.myList[n] = c /\ D.myList[n] = NoList
  BY <1>1, DequeueGood
<1>4. /\ Kept(L, D, {}) /\ Placed(D, prio)
      /\ \A x \in Process : x # n => D.myList[x] = L.myList[x]
  BY <1>1, DequeueOrder
<1>5. SetLists(D) /\ active' = n
  BY DEF Dispatch, c
<1> HIDE DEF D, n
<1>6. Lists' = D
  BY <1>3, <1>5, SetListsFacts DEF Good
<1>7. Clamp(prio[n]) = c
  BY <1>1, <1>3 DEF Placed
<1>8. ASSUME NEW p \in Process, D.myList[p] \in RunQueue
      PROVE  ~(Clamp(prio[p]) > Clamp(prio[n]))
  <2>1. p # n
    BY <1>3, <1>8, ListFacts
  <2>2. L.myList[p] \in RunQueue
    BY <1>4, <1>8, <2>1
  <2>3. Clamp(prio[p]) = L.myList[p] /\ L.myList[p] <= c
    BY <1>2, <2>2 DEF Placed
  <2>4. L.myList[p] \in Int /\ c \in Int
    BY <1>1, <2>2 DEF RunQueue
  <2> QED
    BY <1>7, <2>3, <2>4
<1> QED
  BY <1>4, <1>5, <1>6, <1>8 DEF Highest, Above

LEMMA PickOrder ==
    ASSUME NEW L, NEW st, Good(L, st), PickNextOrWait(L), Placed(L, prio)
    PROVE  /\ Placed(Lists', prio) /\ Kept(L, Lists', {})
           /\ vm' \in {"run", "loaded"} => Highest(Lists', prio, active')
<1>1. CASE HasRunnable(L) /\ Dispatch(L)
  BY <1>1, DispatchOrder
<1>2. CASE /\ SetLists(L)
           /\ vm' = IF timers = <<>> THEN NothingLeft ELSE "pick"
  <2>1. Lists' = L
    BY <1>2, SetListsFacts DEF Good
  <2>2. vm' \notin {"run", "loaded"}
    BY <1>2 DEF NothingLeft
  <2> QED
    BY <2>1, <2>2, KeptSame
<1> QED
  BY <1>1, <1>2 DEF PickNextOrWait

\* A process that preempts keeps nobody waiting that the preempted did not, and
\* not the preempted either.
LEMMA PreemptOrder ==
    ASSUME NEW L, NEW st, Good(L, st), NEW p \in Process, Preempt(L, p),
           active \in Process, st[active] = "live", L.myList[active] = NoList,
           p # active, L.myList[p] = NoList, prio[active] \in Int,
           NEW pr, pr[active] = prio[active], pr[p] \in Int, pr[p] > prio[active],
           \A x \in Process : pr[x] \in Int, Placed(L, pr)
    PROVE  /\ Placed(Lists', pr) /\ Kept(L, Lists', {})
           /\ \A x \in Process : Above(Lists', pr, active', x) => Above(L, pr, active, x)
<1> DEFINE M == MakeRunnable(L, active)
<1>1. Good(M, st)
  BY MakeRunnableGood
<1>2. /\ \A x \in Process : x # active => M.myList[x] = L.myList[x]
      /\ Kept(L, M, {}) /\ Placed(M, pr)
  BY MakeRunnableOrder
<1>3. SetLists(M) /\ active' = p
  BY DEF Preempt
<1> HIDE DEF M
<1>4. Lists' = M
  BY <1>1, <1>3, SetListsFacts DEF Good
<1>5. /\ \A x \in Process : Clamp(pr[x]) \in Int
      /\ Clamp(pr[active]) <= Clamp(pr[p])
  BY ClampFacts
<1>6. ASSUME NEW x \in Process, M.myList[x] \in RunQueue, Clamp(pr[x]) > Clamp(pr[p])
      PROVE  L.myList[x] \in RunQueue /\ Clamp(pr[x]) > Clamp(pr[active])
  <2>1. x # active
    BY <1>5, <1>6
  <2>2. Clamp(pr[x]) \in Int /\ Clamp(pr[p]) \in Int /\ Clamp(pr[active]) \in Int
    BY <1>5
  <2> QED
    BY <1>2, <1>5, <1>6, <2>1, <2>2
<1> QED
  BY <1>2, <1>3, <1>4, <1>6 DEF Above

LEMMA ResumeAtOrder ==
    ASSUME NEW st, Good(Lists, st), NEW p \in Process, NEW k \in Int, ResumeAt(p, k),
           active \in Process, st[active] = "live", Lists.myList[active] = NoList,
           p # active, Lists.myList[p] = NoList, prio[active] \in Int,
           NEW pr, pr[active] = prio[active], pr[p] = k,
           \A x \in Process : pr[x] \in Int, Placed(Lists, pr)
    PROVE  /\ Placed(Lists', pr) /\ Kept(Lists, Lists', {})
           /\ \A x \in Process : Above(Lists', pr, active', x) => Above(Lists, pr, active, x)
<1>1. CASE k > prio[active] /\ Preempt(Lists, p)
  BY <1>1, PreemptOrder
<1>2. CASE k <= prio[active] /\ SetLists(Enqueue(Lists, Clamp(k), p)) /\ UNCHANGED active
  <2> DEFINE l == Clamp(k)
             E == Enqueue(Lists, l, p)
  <2>1. l \in RunQueue /\ Clamp(pr[p]) = l
    BY ListFacts
  <2>2. /\ l \in Int /\ Clamp(pr[active]) \in Int /\ l <= Clamp(pr[active])
    BY <1>2, ClampFacts
  <2>3. SetLists(E) /\ active' = active
    BY <1>2
  <2> HIDE DEF l
  <2>4. /\ E \in ListsType
        /\ \A x \in Process : E.myList[x] = IF x = p THEN l ELSE Lists.myList[x]
        /\ Kept(Lists, E, {}) /\ Placed(E, pr)
    BY <2>1, EnqueueOrder
  <2> HIDE DEF E
  <2>5. Lists' = E
    BY <2>3, <2>4, SetListsFacts
  <2>6. ASSUME NEW x \in Process, E.myList[x] \in RunQueue, Clamp(pr[x]) > Clamp(pr[active])
        PROVE  Lists.myList[x] \in RunQueue
    <3>1. x # p
      BY <2>1, <2>2, <2>6
    <3> QED
      BY <2>4, <2>6, <3>1
  <2> QED
    BY <2>3, <2>4, <2>5, <2>6 DEF Above
<1> QED
  BY <1>1, <1>2 DEF ResumeAt

-----------------------------------------------------------------------------
(* Order over each action.                                                  *)

\* What a step does to those who are ready: nobody is put where they do not
\* belong or is overtaken, and those who have to wait for a process of lower
\* priority had to wait before.
OrderStep ==
    /\ Placed(Lists', prio')
    /\ Kept(Lists, Lists', doomed')
    /\ \/ vm' \notin {"run", "loaded"}
       \/ Highest(Lists', prio', active')
       \/ /\ vm \in {"run", "loaded"}
          /\ \A p \in Process : Above(Lists', prio', active', p) /\ p \notin doomed'
                                    => Above(Lists, prio, active, p)
       \/ \E p \in Process : TransferTo(p)

\* A step that moves nobody.
LEMMA StillOrder ==
    ASSUME Placed(Lists, prio), UNCHANGED <<queue, myList, prio>>,
           \/ vm' \notin {"run", "loaded"}
           \/ vm \in {"run", "loaded"} /\ active' = active
           \/ \E p \in Process : TransferTo(p)
    PROVE  OrderStep
<1>1. Lists'.queue = Lists.queue /\ Lists'.myList = Lists.myList /\ prio' = prio
  BY DEF Lists
<1>2. Kept(Lists, Lists', doomed')
  BY <1>1, KeptSame
<1>3. Placed(Lists', prio')
  BY <1>1 DEF Placed
<1>4. active' = active =>
          \A p \in Process : Above(Lists', prio', active', p) => Above(Lists, prio, active, p)
  BY <1>1 DEF Above
<1> QED
  BY <1>2, <1>3, <1>4 DEF OrderStep

\* A step after which pick_next_or_wait decides.
LEMMA PickingOrder ==
    ASSUME NEW L, NEW st, Good(L, st), Placed(L, prio), Kept(Lists, L, {}), Stays(Lists, L),
           PickNextOrWait(L), UNCHANGED prio
    PROVE  OrderStep
<1>1. /\ Placed(Lists', prio) /\ Kept(L, Lists', {})
      /\ vm' \in {"run", "loaded"} => Highest(Lists', prio, active')
  BY PickOrder
<1>2. Kept(Lists, Lists', {})
  BY <1>1, KeptTwice
<1>3. Kept(Lists, Lists', doomed')
  BY <1>2, KeptLess
<1> QED
  BY <1>1, <1>3 DEF OrderStep

LEMMA StayingFacts ==
    ASSUME NEW L
    PROVE  Kept(L, L, {}) /\ Stays(L, L)
BY KeptSame DEF Stays

LEMMA WaitKeeps ==
    ASSUME ScalarsOK, Good(Lists, stack), RunnerOK, Placed(Lists, prio),
           NEW s \in Semaphore, Wait(s)
    PROVE  OrderStep
<1>1. vm = "run" /\ UNCHANGED prio
  BY DEF Wait, Sending, Executing
<1>2. active \in Process /\ stack[active] = "live" /\ Lists.myList[active] = NoList
  BY <1>1, RunningFacts
<1>3. CASE UNCHANGED <<vm, active, target, queue, myList>>
  BY <1>1, <1>3, StillOrder
<1>4. CASE ~TakesSignal(s) /\ PickNextOrWait(Enqueue(Lists, s, active))
  <2> DEFINE E == Enqueue(Lists, s, active)
  <2>1. Good(E, stack)
    BY <1>2, <1>4, EnqueueGood DEF TakesSignal, Lists
  <2>2. Kept(Lists, E, {}) /\ Stays(Lists, E) /\ Placed(E, prio)
    BY <1>2, WaitOrder
  <2>3. PickNextOrWait(E)
    BY <1>4
  <2> HIDE DEF E
  <2> QED
    BY <1>1, <2>1, <2>2, <2>3, PickingOrder
<1> QED
  BY <1>3, <1>4 DEF Wait

\* The running process goes to the back of its queue.
LEMMA RequeueKeeps ==
    ASSUME Good(Lists, stack), Placed(Lists, prio), active \in Process,
           stack[active] = "live", Lists.myList[active] = NoList, prio[active] \in Int
    PROVE  /\ Good(MakeRunnable(Lists, active), stack)
           /\ Kept(Lists, MakeRunnable(Lists, active), {})
           /\ Stays(Lists, MakeRunnable(Lists, active))
           /\ Placed(MakeRunnable(Lists, active), prio)
BY MakeRunnableGood, MakeRunnableOrder

LEMMA YieldKeeps ==
    ASSUME ScalarsOK, Good(Lists, stack), RunnerOK, Placed(Lists, prio), Yield
    PROVE  OrderStep
<1>1. vm = "run" /\ UNCHANGED prio /\ PickNextOrWait(MakeRunnable(Lists, active))
  BY DEF Yield, Sending, Executing
<1>2. /\ active \in Process /\ stack[active] = "live" /\ Lists.myList[active] = NoList
      /\ prio[active] \in Int
  BY <1>1, RunningFacts
<1> DEFINE M == MakeRunnable(Lists, active)
<1>3. /\ Good(M, stack) /\ Kept(Lists, M, {}) /\ Stays(Lists, M) /\ Placed(M, prio)
  BY <1>2, RequeueKeeps
<1>4. PickNextOrWait(M)
  BY <1>1
<1> HIDE DEF M
<1> QED
  BY <1>1, <1>3, <1>4, PickingOrder

LEMMA SignalKeeps ==
    ASSUME ScalarsOK, Good(Lists, stack), RunnerOK, Placed(Lists, prio),
           NEW s \in Semaphore, Signal(s)
    PROVE  OrderStep
<1>1. vm = "run" /\ UNCHANGED <<vm, prio>>
  BY DEF Signal, Sending, Executing
<1>2. /\ active \in Process /\ stack[active] = "live" /\ Lists.myList[active] = NoList
      /\ \A p \in Process : prio[p] \in Int
      /\ s \in List /\ s \notin RunQueue /\ s # NoList
  BY <1>1, RunningFacts, ListFacts
<1> DEFINE D == Dequeue(Lists, s)
           p == Head(queue[s])
<1>3. ASSUME queue[s] # <<>>
      PROVE  /\ Good(D, stack) /\ p \in Process /\ stack[p] = "live"
             /\ D.myList[p] = NoList /\ D.myList[active] = NoList
             /\ p # active
             /\ Kept(Lists, D, {}) /\ Placed(D, prio) /\ Stays(Lists, D)
             /\ \A x \in Process : D.myList[x] \in RunQueue => Lists.myList[x] = D.myList[x]
  <2>1. Lists.queue[s] = queue[s]
    BY DEF Lists
  <2>2. /\ Lists.myList[p] = s
        /\ Good(D, stack) /\ p \in Process /\ stack[p] = "live" /\ D.myList[p] = NoList
        /\ \A x \in Process : Lists.myList[x] = NoList => D.myList[x] = NoList
    BY <1>2, <1>3, <2>1, DequeueGood
  <2>3. /\ Kept(Lists, D, {}) /\ Placed(D, prio) /\ Stays(Lists, D)
        /\ \A x \in Process : x # p => D.myList[x] = Lists.myList[x]
    BY <1>2, <1>3, <2>1, DequeueOrder
  <2>4. NoList \notin RunQueue
    BY ListFacts
  <2> QED
    BY <1>2, <2>2, <2>3, <2>4
<1> HIDE DEF D, p
<1>4. CASE UNCHANGED <<active, queue, myList>>
  BY <1>1, <1>4, StillOrder
<1>5. CASE queue[s] # <<>> /\ prio[p] > prio[active] /\ Preempt(D, p)
  <2>1. p \in Process /\ p # active /\ D.myList[p] = NoList /\ D.myList[active] = NoList
    BY <1>3, <1>5
  <2>2. Good(D, stack) /\ Placed(D, prio) /\ Kept(Lists, D, {}) /\ Stays(Lists, D)
    BY <1>3, <1>5
  <2>3. /\ Placed(Lists', prio) /\ Kept(D, Lists', {})
        /\ \A x \in Process : Above(Lists', prio, active', x) => Above(D, prio, active, x)
    BY <1>2, <1>5, <2>1, <2>2, PreemptOrder
  <2>4. Kept(Lists, Lists', {})
    BY <2>2, <2>3, KeptTwice
  <2>5. Kept(Lists, Lists', doomed')
    BY <2>4, KeptLess
  <2>6. \A x \in Process : Above(D, prio, active, x) => Above(Lists, prio, active, x)
    BY <1>3, <1>5 DEF Above
  <2> QED
    BY <1>1, <2>3, <2>5, <2>6 DEF OrderStep
<1>6. CASE queue[s] # <<>> /\ prio[p] <= prio[active] /\ SetLists(MakeRunnable(D, p))
           /\ UNCHANGED active
  <2> DEFINE M == MakeRunnable(D, p)
  <2>1. p \in Process /\ stack[p] = "live" /\ D.myList[p] = NoList /\ prio[p] \in Int
    BY <1>2, <1>3, <1>6
  <2>2. Good(D, stack) /\ Placed(D, prio) /\ Kept(Lists, D, {}) /\ Stays(Lists, D)
    BY <1>3, <1>6
  <2>3. Good(M, stack)
    BY <2>1, <2>2, MakeRunnableGood
  <2>4. /\ \A x \in Process : x # p => M.myList[x] = D.myList[x]
        /\ Kept(D, M, {}) /\ Placed(M, prio)
    BY <2>1, <2>2, MakeRunnableOrder
  <2> HIDE DEF M
  <2>5. Lists' = M
    BY <1>6, <2>3, SetListsFacts DEF Good, M
  <2>6. Kept(Lists, M, {})
    BY <2>2, <2>4, KeptTwice
  <2>7. Kept(Lists, Lists', doomed')
    BY <2>5, <2>6, KeptLess
  <2>8. /\ Clamp(prio[p]) \in Int /\ Clamp(prio[active]) \in Int
        /\ Clamp(prio[p]) <= Clamp(prio[active])
    BY <1>2, <1>6, <2>1, ClampFacts
  <2>9. ASSUME NEW x \in Process, Above(M, prio, active, x)
        PROVE  Above(Lists, prio, active, x)
    <3>1. x # p
      BY <2>8, <2>9 DEF Above
    <3> QED
      BY <1>3, <1>6, <2>4, <2>9, <3>1 DEF Above
  <2> QED
    BY <1>1, <1>6, <2>4, <2>5, <2>7, <2>9 DEF OrderStep
<1> QED
  BY <1>4, <1>5, <1>6 DEF Signal, D, p

LEMMA ResumeKeeps ==
    ASSUME ScalarsOK, Good(Lists, stack), RunnerOK, Placed(Lists, prio),
           NEW p \in Process, Resume(p)
    PROVE  OrderStep
<1>1. vm = "run" /\ UNCHANGED <<vm, prio>>
  BY DEF Resume, Sending, Executing
<1>2. /\ active \in Process /\ stack[active] = "live" /\ Lists.myList[active] = NoList
      /\ \A x \in Process : prio[x] \in Int
  BY <1>1, RunningFacts
<1>3. p # active /\ Lists.myList[p] = NoList /\ ResumeAt(p, prio[p])
  BY DEF Resume, MayResume, Lists
<1>4. /\ Placed(Lists', prio) /\ Kept(Lists, Lists', {})
      /\ \A x \in Process : Above(Lists', prio, active', x) => Above(Lists, prio, active, x)
  BY <1>2, <1>3, ResumeAtOrder
<1>5. Kept(Lists, Lists', doomed')
  BY <1>4, KeptLess
<1> QED
  BY <1>1, <1>4, <1>5 DEF OrderStep

\* The new process is on no list, so that the order is the one of its new
\* priority too.
LEMMA ForkKeeps ==
    ASSUME ScalarsOK, Good(Lists, stack), RunnerOK, Placed(Lists, prio),
           NEW p \in Process, NEW k \in Priority, Fork(p, k)
    PROVE  OrderStep
<1>1. /\ vm = "run" /\ UNCHANGED vm
      /\ stack[p] = "none" /\ prio' = [prio EXCEPT ![p] = k] /\ ResumeAt(p, k)
  BY DEF Fork, Sending, Executing
<1>2. /\ active \in Process /\ stack[active] = "live" /\ Lists.myList[active] = NoList
      /\ \A x \in Process : prio[x] \in Int
      /\ k \in Int
  BY <1>1, RunningFacts, SchedulerAssumption
<1>3. p # active /\ Lists.myList[p] = NoList
  BY <1>1, <1>2 DEF Good
<1>4. prio \in [Process -> Priority]
  BY DEF ScalarsOK
<1>5. /\ \A x \in Process : x # p => prio'[x] = prio[x]
      /\ prio'[p] = k
  BY <1>1, <1>4
<1>6. \A x \in Process : Lists.myList[x] \in RunQueue => x # p
  BY <1>3, ListFacts
<1>7. Placed(Lists, prio')
  BY <1>5, <1>6 DEF Placed
<1>8. \A x \in Process : Above(Lists, prio', active, x) => Above(Lists, prio, active, x)
  BY <1>2, <1>3, <1>5, <1>6 DEF Above
<1>9. prio'[active] = prio[active] /\ \A x \in Process : prio'[x] \in Int
  BY <1>2, <1>3, <1>5
<1>10. /\ Placed(Lists', prio') /\ Kept(Lists, Lists', {})
       /\ \A x \in Process : Above(Lists', prio', active', x) => Above(Lists, prio', active, x)
  BY <1>1, <1>2, <1>3, <1>5, <1>7, <1>9, ResumeAtOrder
<1>11. Kept(Lists, Lists', doomed')
  BY <1>10, KeptLess
<1> QED
  BY <1>1, <1>8, <1>10, <1>11 DEF OrderStep

LEMMA SuspendKeeps ==
    ASSUME ScalarsOK, Good(Lists, stack), RunnerOK, Placed(Lists, prio),
           NEW p \in Process, Suspend(p)
    PROVE  OrderStep
<1>1. vm = "run" /\ UNCHANGED prio
  BY DEF Suspend, Sending, Executing
<1>2. /\ active \in Process /\ Lists.myList[active] = NoList /\ NoList \notin RunQueue
  BY <1>1, RunningFacts, ListFacts
<1>3. CASE PickNextOrWait(Lists)
  <2>1. Kept(Lists, Lists, {}) /\ Stays(Lists, Lists)
    BY StayingFacts
  <2> QED
    BY <1>1, <1>3, <2>1, PickingOrder
<1>4. CASE SetLists(Unlink(Lists, p)) /\ UNCHANGED <<vm, active, target>>
  <2> DEFINE U == Unlink(Lists, p)
  <2>1. Good(U, stack) /\ U.myList[p] = NoList
    BY UnlinkGood
  <2>2. /\ Kept(Lists, U, {}) /\ Placed(U, prio)
        /\ \A x \in Process : x # p => U.myList[x] = Lists.myList[x]
    BY UnlinkOrder
  <2> HIDE DEF U
  <2>3. Lists' = U
    BY <1>4, <2>1, SetListsFacts DEF Good, U
  <2>4. Kept(Lists, Lists', doomed')
    BY <2>2, <2>3, KeptLess
  <2>5. \A x \in Process : U.myList[x] \in RunQueue => Lists.myList[x] = U.myList[x]
    BY <1>2, <2>1, <2>2
  <2>6. \A x \in Process : Above(U, prio, active, x) => Above(Lists, prio, active, x)
    BY <2>5 DEF Above
  <2> QED
    BY <1>1, <1>4, <2>2, <2>3, <2>4, <2>6 DEF OrderStep
<1> QED
  BY <1>3, <1>4 DEF Suspend

\* The process that is told to terminate leaves its place; nobody else does.
LEMMA TerminateKeeps ==
    ASSUME ScalarsOK, Good(Lists, stack), RunnerOK, Placed(Lists, prio),
           NEW p \in Process, TerminateOther(p)
    PROVE  OrderStep
<1> DEFINE U == Unlink(Lists, p)
           M == MakeRunnable(U, p)
<1>1. /\ vm = "run" /\ doomed' = doomed \cup {p} /\ stack[p] = "live"
      /\ SetLists(M) /\ UNCHANGED <<vm, active, prio>>
  BY DEF TerminateOther, MayTerminate, Sending, Executing
<1>2. prio[p] \in Int
  BY <1>1, RunningFacts
<1>3. Good(U, stack) /\ U.myList[p] = NoList
  BY UnlinkGood
<1>4. /\ Kept(Lists, U, {}) /\ Placed(U, prio)
      /\ \A x \in Process : x # p => U.myList[x] = Lists.myList[x]
  BY UnlinkOrder
<1> HIDE DEF U
<1>5. Good(M, stack)
  BY <1>1, <1>2, <1>3, MakeRunnableGood
<1>6. /\ \A x \in Process : x # p => M.myList[x] = U.myList[x]
      /\ Kept(U, M, {}) /\ Placed(M, prio)
  BY <1>2, <1>3, <1>4, MakeRunnableOrder
<1> HIDE DEF M
<1>7. Lists' = M
  BY <1>1, <1>5, SetListsFacts DEF Good
<1>8. Kept(Lists, M, doomed')
  BY <1>1, <1>4, <1>6 DEF Kept
<1>9. \A x \in Process : Above(M, prio, active, x) /\ x \notin doomed'
                             => Above(Lists, prio, active, x)
  BY <1>1, <1>4, <1>6 DEF Above
<1> QED
  BY <1>1, <1>6, <1>7, <1>8, <1>9 DEF OrderStep

LEMMA BaseFrameKeeps ==
    ASSUME ScalarsOK, Good(Lists, stack), RunnerOK, Placed(Lists, prio),
           vm = "run", BaseFrameReturns
    PROVE  OrderStep
<1> DEFINE L == [Lists EXCEPT !.myList[active] = NoList]
<1>1. active \in Process /\ Lists.myList[active] = NoList
  BY RunningFacts
<1>2. L = Lists
  BY <1>1 DEF Good, ListsType
<1>3. stack' = [stack EXCEPT ![active] = "nil"] /\ UNCHANGED prio
  BY DEF BaseFrameReturns
<1>4. Good(Lists, stack')
  BY <1>1, <1>3 DEF ScalarsOK, Good
<1>5. CASE vm' = "returned" /\ SetLists(L)
  <2>1. Lists' = Lists
    BY <1>2, <1>5, SetListsFacts DEF Good
  <2>2. UNCHANGED <<queue, myList>>
    BY <2>1 DEF Lists
  <2> QED
    BY <1>3, <1>5, <2>2, StillOrder
<1>6. CASE PickNextOrWait(L)
  <2>1. Kept(Lists, Lists, {}) /\ Stays(Lists, Lists)
    BY StayingFacts
  <2> QED
    BY <1>2, <1>3, <1>4, <1>6, <2>1, PickingOrder
<1> QED
  BY <1>5, <1>6 DEF BaseFrameReturns

LEMMA FireDueKeeps ==
    ASSUME ScalarsOK, Good(Lists, stack), Placed(Lists, prio), FireDue
    PROVE  OrderStep
<1>1. PICK i \in DOMAIN timers : SetLists(SignalInternal(Lists, timers[i].sem))
  BY DEF FireDue
<1>2. vm' \notin {"run", "loaded"} /\ UNCHANGED prio
  BY DEF FireDue
<1>3. timers[i] \in Request
  BY LenProperties, ElementOfSeq DEF ScalarsOK
<1> DEFINE s == timers[i].sem
           F == SignalInternal(Lists, s)
<1>4. s \in Semaphore
  BY <1>3 DEF Request
<1> HIDE DEF s
<1>5. \A p \in Process : prio[p] \in Int
  BY SchedulerAssumption DEF ScalarsOK
<1>6. Good(F, stack) /\ Kept(Lists, F, {}) /\ Placed(F, prio)
  BY <1>4, <1>5, SignalInternalGood, SignalInternalOrder
<1>7. SetLists(F)
  BY <1>1 DEF s
<1> HIDE DEF F
<1>8. Lists' = F
  BY <1>6, <1>7, SetListsFacts DEF Good
<1>9. Kept(Lists, Lists', doomed')
  BY <1>6, <1>8, KeptLess
<1> QED
  BY <1>2, <1>6, <1>8, <1>9 DEF OrderStep

\* The poll preempts for the ceiling, and leaves the process that is running
\* only if the ceiling, and so everybody, is below it.
LEMMA FinishPollKeeps ==
    ASSUME ScalarsOK, Good(Lists, stack), RunnerOK, Placed(Lists, prio), FinishPoll
    PROVE  OrderStep
<1>1. vm = "poll" /\ UNCHANGED prio
  BY DEF FinishPoll
<1>2. /\ active \in Process /\ stack[active] = "live" /\ Lists.myList[active] = NoList
      /\ \A p \in Process : prio[p] \in Int
  BY <1>1, RunningFacts
<1>3. CASE Dispatch(MakeRunnable(Lists, active))
  <2> DEFINE M == MakeRunnable(Lists, active)
  <2>1. HasRunnable(M)
    BY <1>2, MakeRunnableGood
  <2>2. Good(M, stack) /\ Kept(Lists, M, {}) /\ Stays(Lists, M) /\ Placed(M, prio)
    BY <1>2, RequeueKeeps
  <2>3. PickNextOrWait(M)
    BY <1>3, <2>1 DEF PickNextOrWait
  <2> HIDE DEF M
  <2> QED
    BY <1>1, <2>2, <2>3, PickingOrder
<1>4. CASE ~MustPreempt /\ UNCHANGED <<active, target, queue, myList, excess>>
  <2>1. Lists' = Lists /\ prio' = prio /\ active' = active
    BY <1>1, <1>4 DEF Lists
  <2>2. ASSUME NEW p \in Process, Lists.myList[p] \in RunQueue
        PROVE  ~(Clamp(prio[p]) > Clamp(prio[active]))
    <3>1. HasRunnable(Lists) /\ Lists.myList[p] <= Ceiling(Lists) /\ Ceiling(Lists) \in RunQueue
      BY <2>2, CeilingAbove, CeilingFacts
    <3>2. ~(Ceiling(Lists) > prio[active])
      BY <1>4, <3>1 DEF MustPreempt
    <3>3. /\ Lists.myList[p] \in Int /\ Ceiling(Lists) \in Int /\ prio[active] \in Int
          /\ Clamp(prio[active]) \in Int
      BY <1>2, <2>2, <3>1, ClampFacts DEF RunQueue
    <3>4. Lists.myList[p] <= prio[active]
      BY <3>1, <3>2, <3>3
    <3>5. Lists.myList[p] <= Clamp(prio[active])
      BY <2>2, <3>3, <3>4, ClampFacts
    <3>6. Clamp(prio[p]) = Lists.myList[p]
      BY <2>2 DEF Placed
    <3> QED
      BY <3>3, <3>5, <3>6
  <2>3. Highest(Lists', prio', active')
    BY <2>1, <2>2 DEF Highest, Above
  <2>4. Kept(Lists, Lists', doomed')
    BY <2>1, KeptSame
  <2> QED
    BY <2>1, <2>3, <2>4 DEF OrderStep
<1> QED
  BY <1>3, <1>4 DEF FinishPoll

LEMMA PickAgainKeeps ==
    ASSUME Good(Lists, stack), Placed(Lists, prio), StopWaiting \/ RunNext
    PROVE  OrderStep
<1>1. Kept(Lists, Lists, {}) /\ Stays(Lists, Lists)
  BY StayingFacts
<1>2. PickNextOrWait(Lists) /\ UNCHANGED prio
  BY DEF StopWaiting, RunNext
<1> QED
  BY <1>1, <1>2, PickingOrder

LEMMA QuietKeeps ==
    ASSUME Placed(Lists, prio),
           \/ \E s \in Semaphore, t \in 0..MaxTime : SignalAt(s, t)
           \/ \E p \in Process : TransferTo(p)
           \/ Restart \/ RunImage \/ PollSafepoint \/ WakeToFire
           \/ Tick \/ UNCHANGED vars
    PROVE  OrderStep
<1>1. UNCHANGED <<queue, myList, prio>>
  BY DEF SignalAt, TransferTo, Restart, RunImage, PollSafepoint, WakeToFire, Tick, vars
<1>2. \/ vm' \notin {"run", "loaded"}
      \/ vm \in {"run", "loaded"} /\ active' = active
      \/ \E p \in Process : TransferTo(p)
  BY DEF SignalAt, Restart, RunImage, PollSafepoint, WakeToFire, Tick, vars,
         Sending, Executing
<1> QED
  BY <1>1, <1>2, StillOrder

LEMMA TrampolineKeeps ==
    ASSUME ScalarsOK, Good(Lists, stack), RunnerOK, Placed(Lists, prio), RunTrampoline
    PROVE  OrderStep
<1>1. CASE BaseFrameReturns
  BY <1>1, BaseFrameKeeps DEF RunTrampoline
<1>2. CASE UNCHANGED <<vm, active, target, stack, prio, queue, myList,
                       excess, timers, cutoff, armed, now>>
  <2>1. vm = "run"
    BY DEF RunTrampoline
  <2> QED
    BY <1>2, <2>1, StillOrder
<1> QED
  BY <1>1, <1>2 DEF RunTrampoline

LEMMA NextKeeps ==
    ASSUME Inv, Placed(Lists, prio), [Next]_vars
    PROVE  OrderStep
<1>1. ScalarsOK /\ Good(Lists, stack) /\ RunnerOK
  BY InvParts
<1>2. ASSUME NEW s \in Semaphore, Wait(s) \/ Signal(s)
      PROVE  OrderStep
  BY <1>1, <1>2, WaitKeeps, SignalKeeps
<1>3. ASSUME NEW p \in Process, Resume(p) \/ Suspend(p) \/ TerminateOther(p)
      PROVE  OrderStep
  BY <1>1, <1>3, ResumeKeeps, SuspendKeeps, TerminateKeeps
<1>4. ASSUME NEW p \in Process, NEW k \in Priority, Fork(p, k)
      PROVE  OrderStep
  BY <1>1, <1>4, ForkKeeps
<1>5. CASE Yield \/ Halt \/ RunTrampoline
  BY <1>1, <1>5, YieldKeeps, BaseFrameKeeps, TrampolineKeeps DEF Halt, Executing
<1>6. CASE FireDue \/ FinishPoll \/ StopWaiting \/ RunNext
  BY <1>1, <1>6, FireDueKeeps, FinishPollKeeps, PickAgainKeeps
<1>7. CASE \/ \E s \in Semaphore, t \in 0..MaxTime : SignalAt(s, t)
           \/ \E p \in Process : TransferTo(p)
           \/ Restart \/ RunImage \/ PollSafepoint \/ WakeToFire
           \/ Tick \/ UNCHANGED vars
  BY <1>7, QuietKeeps
<1> QED
  BY <1>2, <1>3, <1>4, <1>5, <1>6, <1>7 DEF Next, Terminated

OrderInv == Inv /\ Placed(Lists, prio)

\* A process on a run queue is on that of its priority, in every reachable
\* state: forkAt: (kernel.st) writes the slot of a process that is on no list.
THEOREM OrderInvHolds ==
    ASSUME TransferScope # "any"
    PROVE  Spec => []OrderInv
<1>1. Init => OrderInv
  <2> SUFFICES ASSUME Init PROVE OrderInv
    OBVIOUS
  <2>1. \A p \in Process : Lists.myList[p] = NoList
    BY DEF Init, Lists
  <2>2. Placed(Lists, prio)
    BY <2>1, ListFacts DEF Placed
  <2> QED
    BY <2>2, InitInv DEF OrderInv
<1>2. OrderInv /\ [Next]_vars => OrderInv'
  <2> SUFFICES ASSUME OrderInv, [Next]_vars PROVE OrderInv'
    OBVIOUS
  <2>1. Inv'
    BY NextInv DEF OrderInv
  <2>2. Placed(Lists', prio')
    BY NextKeeps DEF OrderInv, OrderStep
  <2> QED
    BY <2>1, <2>2 DEF OrderInv
<1> QED
  BY <1>1, <1>2, PTL DEF Spec

\* No step of bytecode, of a timer or of the poll leaves a process waiting for one
\* of lower priority that did not wait for one before: signal, resume, fork and
\* service_safepoint compare what they must, and what was clamped on its way to
\* the queue with what was not.  Exempt are the two primitives that compare nothing.
THEOREM NoInversionHolds ==
    ASSUME TransferScope # "any"
    PROVE  Spec => NoInversion
<1> DEFINE A == \A p \in Process :
                    Inverted(p)' /\ ~Inverted(p) =>
                        \/ p \in doomed'
                        \/ \E q \in Process : TransferTo(q)
<1>1. OrderInv /\ [Next]_vars => A
  <2> SUFFICES ASSUME OrderInv, [Next]_vars, NEW p \in Process,
                      Inverted(p)', ~Inverted(p), p \notin doomed'
               PROVE  \E q \in Process : TransferTo(q)
    OBVIOUS
  <2>1. OrderStep
    BY NextKeeps DEF OrderInv
  <2>2. vm' \in {"run", "loaded"} /\ Above(Lists', prio', active', p)
    BY DEF Inverted, Runnable, Above, Lists
  <2>3. ~(vm \in {"run", "loaded"} /\ Above(Lists, prio, active, p))
    BY DEF Inverted, Runnable, Above, Lists
  <2> QED
    BY <2>1, <2>2, <2>3 DEF OrderStep, Highest
<1> HIDE DEF A
<1>2. Spec => []OrderInv
  BY OrderInvHolds
<1>3. Spec => [][A]_vars
  BY <1>1, <1>2, PTL DEF Spec
<1> QED
  BY <1>3 DEF NoInversion, A

\* Within a priority nobody is overtaken, in any step: every operation on a run
\* queue appends, takes the head, or takes one process out (src/prims.rs).
THEOREM NoOvertakingHolds ==
    ASSUME TransferScope # "any"
    PROVE  Spec => NoOvertaking
<1> DEFINE A == \A k \in RunQueue : \A x, y \in Process :
                  ( /\ x # y
                    /\ \E i \in DOMAIN queue[k] : queue[k][i] = x
                    /\ \E i \in DOMAIN queue'[k] : queue'[k][i] = x
                    /\ \E i \in DOMAIN queue'[k] : queue'[k][i] = y
                    /\ ~Before(queue[k], y, x) )
                  => Before(queue'[k], x, y) \/ x \in doomed'
<1>1. OrderInv /\ OrderInv' /\ [Next]_vars => A
  <2> SUFFICES ASSUME OrderInv, OrderInv', [Next]_vars,
                      NEW k \in RunQueue, NEW x \in Process, NEW y \in Process, x # y,
                      \E i \in DOMAIN queue[k] : queue[k][i] = x,
                      \E i \in DOMAIN queue'[k] : queue'[k][i] = x,
                      \E i \in DOMAIN queue'[k] : queue'[k][i] = y,
                      ~Before(queue[k], y, x)
               PROVE  Before(queue'[k], x, y) \/ x \in doomed'
    OBVIOUS
  <2>1. Kept(Lists, Lists', doomed')
    BY NextKeeps DEF OrderInv, OrderStep
  <2>2. k \in List
    BY ListFacts
  <2>3. Lists.myList[x] = k
    BY <2>2 DEF OrderInv, Inv, ListsAgree, Lists
  <2>4. Lists'.myList[x] = k
    BY <2>2 DEF OrderInv, Inv, ListsAgree, Lists
  <2>5. PICK i \in DOMAIN queue'[k], j \in DOMAIN queue'[k] : queue'[k][i] = x /\ queue'[k][j] = y
    OBVIOUS
  <2>6. i \in Int /\ j \in Int /\ i # j
    <3>1. queue'[k] \in Seq(Process)
      BY <2>2 DEF OrderInv, Inv, TypeOK
    <3>2. DOMAIN queue'[k] = 1..Len(queue'[k]) /\ Len(queue'[k]) \in Nat
      BY <3>1, LenProperties
    <3> QED
      BY <2>5, <3>2
  <2>7. CASE i < j
    BY <2>5, <2>7 DEF Before
  <2>8. CASE j < i
    <3>1. Before(queue'[k], y, x)
      BY <2>5, <2>8 DEF Before
    <3>2. Lists'.queue[k] = queue'[k] /\ Lists.queue[k] = queue[k]
      BY DEF Lists
    <3> QED
      BY <2>1, <2>3, <2>4, <3>1, <3>2 DEF Kept
  <2> QED
    BY <2>6, <2>7, <2>8
<1> HIDE DEF A
<1>2. Spec => []OrderInv
  BY OrderInvHolds
<1>3. Spec => [][A]_vars
  BY <1>1, <1>2, PTL DEF Spec
<1> QED
  BY <1>3 DEF NoOvertaking, A

=============================================================================
