------------------------- MODULE ProcessListProofs -------------------------
(* The pointers of ProcessList are the sequences of Scheduler, for any      *)
(* number of processes and lists.                                           *)
EXTENDS ProcessList, SequenceLemmas

Inv == TypeOK /\ ChainsAreQueues

\* What the invariant says of one list and its elements, position by position.
LEMMA ListFacts ==
    ASSUME Inv, NEW l \in List
    PROVE  /\ queue[l] \in Seq(Process)
           /\ Len(queue[l]) \in Nat
           /\ DOMAIN queue[l] = 1..Len(queue[l])
           /\ \A i \in 1..Len(queue[l]) :
                 queue[l][i] \in Process /\ myList[queue[l][i]] = l
           /\ \A i, j \in 1..Len(queue[l]) : queue[l][i] = queue[l][j] => i = j
           /\ queue[l] = <<>> <=> Len(queue[l]) = 0
           /\ head[l] = Nil <=> queue[l] = <<>>
           /\ tail[l] = Nil <=> queue[l] = <<>>
           /\ queue[l] # <<>> =>
                 /\ head[l] = queue[l][1] /\ tail[l] = queue[l][Len(queue[l])]
                 /\ next[queue[l][Len(queue[l])]] = Nil
           /\ \A i \in 1..(Len(queue[l]) - 1) : next[queue[l][i]] = queue[l][i + 1]
<1> DEFINE q == queue[l]
<1>1. q \in Seq(Process)
  BY DEF Inv, TypeOK
<1>2. /\ Len(q) \in Nat /\ DOMAIN q = 1..Len(q)
      /\ \A i \in 1..Len(q) : q[i] \in Process
      /\ q = <<>> <=> Len(q) = 0
  BY <1>1, SeqFacts
<1>3. \A i \in 1..Len(q) : myList[q[i]] = l
  BY <1>2 DEF Inv, ChainsAreQueues
<1>4. \A i, j \in 1..Len(q) : q[i] = q[j] => i = j
  BY <1>2 DEF Inv, ChainsAreQueues
<1>5. Chain(l, q)
  BY DEF Inv, ChainsAreQueues
<1>6. q # <<>> => head[l] \in Process
  BY <1>2, <1>5 DEF Chain
<1>7. head[l] = Nil <=> q = <<>>
  BY <1>5, <1>6, ProcessListAssumption DEF Chain
<1>8. tail[l] = Nil <=> q = <<>>
  BY <1>7 DEF Inv, TypeOK
<1> QED
  BY <1>1, <1>2, <1>3, <1>4, <1>5, <1>7, <1>8 DEF Chain

\* A process that is on no list is in no sequence.
LEMMA Unlisted ==
    ASSUME Inv, NEW p \in Process, myList[p] = Nil
    PROVE  \A l \in List : \A i \in 1..Len(queue[l]) : queue[l][i] # p
BY ListFacts, ProcessListAssumption

-----------------------------------------------------------------------------
\* What an operation that makes q of list l has to establish about that list
\* and about the others.
Updated(l, q) ==
    /\ queue' = [queue EXCEPT ![l] = q]
    /\ head' \in [List -> Process \cup {Nil}]
    /\ tail' \in [List -> Process \cup {Nil}]
    /\ next' \in [Process -> Process \cup {Nil}]
    /\ myList' \in [Process -> List \cup {Nil}]
    /\ \A k \in List \ {l} : head'[k] = head[k] /\ tail'[k] = tail[k]
    /\ \A x \in Process : myList[x] \in List \ {l} =>
          next'[x] = next[x] /\ myList'[x] = myList[x]
    /\ \A x \in Process : myList'[x] \in List \ {l} => myList[x] = myList'[x]
    /\ head'[l] = Nil <=> tail'[l] = Nil
    /\ q = <<>> => head'[l] = Nil
    /\ q # <<>> => /\ head'[l] = q[1] /\ tail'[l] = q[Len(q)]
                   /\ next'[q[Len(q)]] = Nil
    /\ \A i \in 1..(Len(q) - 1) : next'[q[i]] = q[i + 1]
    /\ \A i, j \in 1..Len(q) : q[i] = q[j] => i = j
    /\ \A x \in Process : myList'[x] = l <=> \E i \in 1..Len(q) : q[i] = x

LEMMA StepInv ==
    ASSUME Inv, NEW l \in List, NEW q \in Seq(Process), Updated(l, q)
    PROVE  Inv'
<1>1. queue[l] \in Seq(Process) /\ queue \in [List -> Seq(Process)]
  BY DEF Inv, TypeOK
<1>2. /\ queue' \in [List -> Seq(Process)]
      /\ queue'[l] = q
      /\ \A k \in List \ {l} : queue'[k] = queue[k]
  BY <1>1 DEF Updated
<1>3. TypeOK'
  <2>1. \A k \in List : head'[k] = Nil <=> tail'[k] = Nil
    <3> TAKE k \in List
    <3>1. CASE k = l
      BY <3>1 DEF Updated
    <3>2. CASE k # l
      BY <3>2 DEF Updated, Inv, TypeOK
    <3> QED
      BY <3>1, <3>2
  <2> QED
    BY <1>2, <2>1 DEF TypeOK, Updated
<1>4. DOMAIN q = 1..Len(q)
  BY SeqFacts
<1>5. ASSUME NEW k \in List
      PROVE  /\ Chain(k, queue[k])'
             /\ \A i, j \in DOMAIN queue'[k] : queue'[k][i] = queue'[k][j] => i = j
             /\ \A x \in Process :
                   myList'[x] = k <=> \E i \in DOMAIN queue'[k] : queue'[k][i] = x
  <2>1. CASE k = l
    <3>1. Chain(l, queue[l])'
      BY <1>2 DEF Chain, Updated
    <3>2. \A i, j \in DOMAIN queue'[l] : queue'[l][i] = queue'[l][j] => i = j
      BY <1>2, <1>4 DEF Updated
    <3>3. \A x \in Process :
             myList'[x] = l <=> \E i \in DOMAIN queue'[l] : queue'[l][i] = x
      BY <1>2, <1>4 DEF Updated
    <3> QED
      BY <2>1, <3>1, <3>2, <3>3
  <2>2. CASE k # l
    <3>1. queue'[k] = queue[k] /\ head'[k] = head[k] /\ tail'[k] = tail[k]
      BY <2>2, <1>2 DEF Updated
    <3>2. /\ Len(queue[k]) \in Nat /\ DOMAIN queue[k] = 1..Len(queue[k])
          /\ \A i \in 1..Len(queue[k]) :
                queue[k][i] \in Process /\ myList[queue[k][i]] = k
          /\ queue[k] = <<>> <=> Len(queue[k]) = 0
      BY ListFacts
    <3>3. \A i \in 1..Len(queue[k]) : next'[queue[k][i]] = next[queue[k][i]]
      BY <2>2, <3>2 DEF Updated
    <3>4. Chain(k, queue[k])
      BY DEF Inv, ChainsAreQueues
    <3>5. Chain(k, queue[k])'
      <4>1. queue[k] # <<>> => Len(queue[k]) \in 1..Len(queue[k])
        BY <3>2
      <4>2. \A i \in 1..(Len(queue[k]) - 1) : i \in 1..Len(queue[k])
        BY <3>2
      <4>3. queue[k] = <<>> => head'[k] = Nil
        BY <3>1, <3>4 DEF Chain
      <4>4. queue[k] # <<>> =>
               /\ head'[k] = queue[k][1] /\ tail'[k] = queue[k][Len(queue[k])]
               /\ next'[queue[k][Len(queue[k])]] = Nil
        BY <3>1, <3>3, <3>4, <4>1 DEF Chain
      <4>5. \A i \in 1..(Len(queue[k]) - 1) : next'[queue[k][i]] = queue[k][i + 1]
        BY <3>3, <3>4, <4>2 DEF Chain
      <4> QED
        BY <3>1, <4>3, <4>4, <4>5 DEF Chain
    <3>6. \A x \in Process : myList'[x] = k <=> myList[x] = k
      BY <2>2 DEF Updated
    <3>7. \A i, j \in DOMAIN queue'[k] : queue'[k][i] = queue'[k][j] => i = j
      BY <3>1 DEF Inv, ChainsAreQueues
    <3>8. \A x \in Process :
             myList'[x] = k <=> \E i \in DOMAIN queue'[k] : queue'[k][i] = x
      BY <3>1, <3>6 DEF Inv, ChainsAreQueues
    <3> QED
      BY <3>5, <3>7, <3>8
  <2> QED
    BY <2>1, <2>2
<1>6. ChainsAreQueues'
  BY <1>5 DEF ChainsAreQueues
<1> QED
  BY <1>3, <1>6 DEF Inv

LEMMA EnqueueStep ==
    ASSUME Inv, NEW l \in List, NEW p \in Process, EnqueueProcess(l, p)
    PROVE  Inv'
<1> DEFINE n == Len(queue[l])
           q == Append(queue[l], p)
<1>1. /\ queue[l] \in Seq(Process) /\ n \in Nat
      /\ \A i \in 1..n : queue[l][i] \in Process /\ myList[queue[l][i]] = l
      /\ \A i, j \in 1..n : queue[l][i] = queue[l][j] => i = j
      /\ queue[l] = <<>> <=> n = 0
      /\ head[l] = Nil <=> n = 0
      /\ n # 0 => head[l] = queue[l][1] /\ tail[l] = queue[l][n]
      /\ \A i \in 1..(n - 1) : next[queue[l][i]] = queue[l][i + 1]
  BY ListFacts
<1>2. /\ q \in Seq(Process) /\ Len(q) = n + 1
      /\ \A i \in 1..n : q[i] = queue[l][i]
      /\ q[n + 1] = p
  BY <1>1, AppendFacts
<1>3. \A i \in 1..n : queue[l][i] # p
  BY Unlisted DEF EnqueueProcess
<1>4. myList' = [myList EXCEPT ![p] = l] /\ tail' = [tail EXCEPT ![l] = p]
      /\ queue' = [queue EXCEPT ![l] = q] /\ myList[p] = Nil
  BY DEF EnqueueProcess
<1>5. /\ head \in [List -> Process \cup {Nil}] /\ tail \in [List -> Process \cup {Nil}]
      /\ next \in [Process -> Process \cup {Nil}]
      /\ myList \in [Process -> List \cup {Nil}]
  BY DEF Inv, TypeOK
<1>6. /\ head' \in [List -> Process \cup {Nil}]
      /\ \A k \in List \ {l} : head'[k] = head[k]
      /\ head'[l] = IF n = 0 THEN p ELSE head[l]
  BY <1>1, <1>5 DEF EnqueueProcess
<1>7. /\ next' \in [Process -> Process \cup {Nil}]
      /\ next'[p] = Nil
      /\ \A x \in Process \ {p} : next'[x] = IF n # 0 /\ x = tail[l] THEN p ELSE next[x]
  <2>1. CASE n = 0
    BY <1>1, <1>5, <2>1 DEF EnqueueProcess
  <2>2. CASE n # 0
    <3>1. next' = [next EXCEPT ![p] = Nil, ![tail[l]] = p]
      BY <1>1, <2>2 DEF EnqueueProcess
    <3>2. tail[l] \in Process /\ tail[l] # p
      BY <1>1, <1>3, <2>2
    <3> QED
      BY <1>5, <2>2, <3>1, <3>2
  <2> QED
    BY <2>1, <2>2
<1> HIDE DEF q
<1>8. \A x \in Process : myList[x] \in List \ {l} => x # p /\ (n # 0 => x # tail[l])
  BY <1>1, <1>4, ProcessListAssumption
<1>9. \A i \in 1..(Len(q) - 1) : next'[q[i]] = q[i + 1]
  <2> TAKE i \in 1..(Len(q) - 1)
  <2>1. i \in 1..n /\ q[i] = queue[l][i] /\ q[i] \in Process \ {p}
    BY <1>1, <1>2, <1>3
  <2>2. CASE i = n
    BY <1>1, <1>2, <1>7, <2>1, <2>2
  <2>3. CASE i # n
    <3>1. i \in 1..(n - 1) /\ n \in 1..n /\ i + 1 \in 1..n
      BY <1>1, <2>1, <2>3
    <3>2. q[i] # tail[l]
      BY <1>1, <2>1, <2>3, <3>1
    <3> QED
      BY <1>1, <1>2, <1>7, <2>1, <3>1, <3>2
  <2> QED
    BY <2>2, <2>3
<1>10. \A i, j \in 1..Len(q) : q[i] = q[j] => i = j
  <2>1. \A i \in 1..Len(q) : i = n + 1 \/ i \in 1..n
    BY <1>1, <1>2
  <2> QED
    BY <1>1, <1>2, <1>3, <2>1
<1>11. \A x \in Process : myList'[x] = l <=> \E i \in 1..Len(q) : q[i] = x
  <2> TAKE x \in Process
  <2>1. CASE x = p
    BY <1>1, <1>2, <1>4, <1>5, <2>1
  <2>2. CASE x # p
    <3>1. myList'[x] = l <=> \E i \in 1..n : queue[l][i] = x
      <4>1. DOMAIN queue[l] = 1..n
        BY ListFacts
      <4> QED
        BY <1>4, <1>5, <2>2, <4>1 DEF Inv, ChainsAreQueues
    <3>2. (\E i \in 1..n : queue[l][i] = x) <=> \E i \in 1..Len(q) : q[i] = x
      <4>1. \A i \in 1..Len(q) : i = n + 1 \/ i \in 1..n
        BY <1>1, <1>2
      <4>2. \A i \in 1..n : i \in 1..Len(q)
        BY <1>1, <1>2
      <4> QED
        BY <1>2, <2>2, <4>1, <4>2
    <3> QED
      BY <3>1, <3>2
  <2> QED
    BY <2>1, <2>2
<1>12. /\ tail' \in [List -> Process \cup {Nil}] /\ tail'[l] = p
       /\ \A k \in List \ {l} : tail'[k] = tail[k]
       /\ myList' \in [Process -> List \cup {Nil}]
       /\ \A x \in Process \ {p} : myList'[x] = myList[x]
       /\ myList'[p] = l
  BY <1>4, <1>5
<1>13. q # <<>> /\ head'[l] # Nil /\ tail'[l] # Nil /\ head'[l] = q[1]
       /\ tail'[l] = q[Len(q)] /\ next'[q[Len(q)]] = Nil
  <2>1. q # <<>>
    BY <1>1, <1>2, SeqFacts
  <2>2. head'[l] = q[1]
    BY <1>1, <1>2, <1>6
  <2>3. head'[l] # Nil
    BY <1>1, <1>6, ProcessListAssumption
  <2> QED
    BY <1>2, <1>7, <1>12, <2>1, <2>2, <2>3, ProcessListAssumption
<1> HIDE DEF n
<1>14. \A x \in Process : myList[x] \in List \ {l} =>
          next'[x] = next[x] /\ myList'[x] = myList[x]
  BY <1>7, <1>8, <1>12
<1>15. \A x \in Process : myList'[x] \in List \ {l} => myList[x] = myList'[x]
  BY <1>12
<1>16. q \in Seq(Process) /\ queue' = [queue EXCEPT ![l] = q]
  BY <1>2, <1>4
<1>17. Updated(l, q)
  BY <1>6, <1>7, <1>9, <1>10, <1>11, <1>12, <1>13, <1>14, <1>15, <1>16 DEF Updated
<1> QED
  BY <1>16, <1>17, StepInv

-----------------------------------------------------------------------------
\* The element at position i of list l leaves; the gap is closed by pointing
\* its predecessor, or the head, at its successor.
Leaves(l, i, r) ==
    LET q == queue[l] IN
    /\ queue' = [queue EXCEPT ![l] = r]
    /\ Len(r) = Len(q) - 1
    /\ \A j \in 1..(Len(q) - 1) : r[j] = IF j < i THEN q[j] ELSE q[j + 1]
    /\ head' = IF i = 1 THEN [head EXCEPT ![l] = next[q[i]]] ELSE head
    /\ tail' = [tail EXCEPT ![l] = IF next[q[i]] # Nil THEN tail[l]
                                   ELSE IF i = 1 THEN Nil ELSE q[i - 1]]
    /\ next' = IF i = 1 THEN [next EXCEPT ![q[i]] = Nil]
               ELSE [next EXCEPT ![q[i - 1]] = next[q[i]], ![q[i]] = Nil]
    /\ myList' = [myList EXCEPT ![q[i]] = Nil]

LEMMA LeavesInv ==
    ASSUME Inv, NEW l \in List, NEW i \in 1..Len(queue[l]),
           NEW r \in Seq(Process), Leaves(l, i, r)
    PROVE  Inv'
<1> DEFINE q == queue[l]
           n == Len(q)
           p == q[i]
<1>1. /\ q \in Seq(Process) /\ n \in Nat /\ DOMAIN q = 1..n
      /\ \A j \in 1..n : q[j] \in Process /\ myList[q[j]] = l
      /\ \A j, k \in 1..n : q[j] = q[k] => j = k
      /\ head[l] = q[1] /\ tail[l] = q[n] /\ next[q[n]] = Nil
      /\ \A j \in 1..(n - 1) : next[q[j]] = q[j + 1]
      /\ i \in 1..n /\ p \in Process
  <2>1. n \in Nat /\ i \in 1..n /\ (q = <<>> <=> n = 0)
    BY ListFacts
  <2>2. q # <<>>
    BY <2>1
  <2> QED
    BY <2>1, <2>2, ListFacts
<1>2. /\ Len(r) = n - 1
      /\ \A j \in 1..(n - 1) : r[j] = IF j < i THEN q[j] ELSE q[j + 1]
      /\ r = <<>> <=> n = 1
  <2>1. /\ Len(r) = n - 1
        /\ \A j \in 1..(n - 1) : r[j] = IF j < i THEN q[j] ELSE q[j + 1]
    BY DEF Leaves
  <2>2. r = <<>> <=> Len(r) = 0
    BY SeqFacts
  <2> QED
    BY <1>1, <2>1, <2>2
<1>3. /\ head \in [List -> Process \cup {Nil}] /\ tail \in [List -> Process \cup {Nil}]
      /\ next \in [Process -> Process \cup {Nil}]
      /\ myList \in [Process -> List \cup {Nil}]
  BY DEF Inv, TypeOK
<1>4. next[p] = IF i = n THEN Nil ELSE q[i + 1]
  BY <1>1
<1>5. i # n => next[p] # Nil /\ next[p] \in Process
  BY <1>1, <1>4, ProcessListAssumption
<1>6. next[p] \in Process \cup {Nil}
  BY <1>1, <1>3
<1>7. i # 1 => i - 1 \in 1..n /\ q[i - 1] \in Process /\ q[i - 1] # p
  BY <1>1
<1>8. /\ head' \in [List -> Process \cup {Nil}]
      /\ head'[l] = IF i = 1 THEN next[p] ELSE q[1]
      /\ \A k \in List \ {l} : head'[k] = head[k]
  BY <1>1, <1>3, <1>6 DEF Leaves
<1>9. /\ tail' \in [List -> Process \cup {Nil}]
      /\ tail'[l] = IF i # n THEN q[n] ELSE IF n = 1 THEN Nil ELSE q[n - 1]
      /\ \A k \in List \ {l} : tail'[k] = tail[k]
  <2>1. tail' = [tail EXCEPT ![l] = IF i # n THEN q[n] ELSE IF n = 1 THEN Nil ELSE q[n - 1]]
    <3>1. (next[q[i]] # Nil) <=> (i # n)
      BY <1>4, <1>5
    <3>2. PICK v : /\ v = IF next[q[i]] # Nil THEN tail[l]
                           ELSE IF i = 1 THEN Nil ELSE q[i - 1]
                   /\ tail' = [tail EXCEPT ![l] = v]
      BY DEF Leaves
    <3>3. v = IF i # n THEN q[n] ELSE IF n = 1 THEN Nil ELSE q[n - 1]
      <4>1. CASE i = n
        BY <3>1, <3>2, <4>1
      <4>2. CASE i # n
        BY <1>1, <3>1, <3>2, <4>2
      <4> QED
        BY <4>1, <4>2
    <3> QED
      BY <3>2, <3>3
  <2>2. /\ q[n] \in Process
        /\ n # 1 => q[n - 1] \in Process
    <3>1. n \in 1..n /\ (n # 1 => n - 1 \in 1..n)
      <4>1. n \in Nat /\ i \in 1..n
        BY <1>1
      <4> HIDE DEF n
      <4> QED
        BY <4>1
    <3> QED
      BY <1>1, <3>1
  <2> QED
    BY <1>3, <2>1, <2>2
<1>10. /\ next' \in [Process -> Process \cup {Nil}]
       /\ next'[p] = Nil
       /\ \A x \in Process \ {p} :
             next'[x] = IF i # 1 /\ x = q[i - 1] THEN next[p] ELSE next[x]
  BY <1>1, <1>3, <1>6, <1>7 DEF Leaves
<1>11. /\ myList' \in [Process -> List \cup {Nil}]
       /\ myList'[p] = Nil
       /\ \A x \in Process \ {p} : myList'[x] = myList[x]
  BY <1>1, <1>3 DEF Leaves
<1>12. queue' = [queue EXCEPT ![l] = r]
  BY DEF Leaves
<1> HIDE DEF q, n, p
<1>13. \A x \in Process : myList[x] \in List \ {l} =>
          next'[x] = next[x] /\ myList'[x] = myList[x]
  <2> SUFFICES ASSUME NEW x \in Process, myList[x] \in List \ {l}
               PROVE  next'[x] = next[x] /\ myList'[x] = myList[x]
    OBVIOUS
  <2>1. x # p /\ (i # 1 => x # q[i - 1])
    BY <1>1, <1>7 DEF p
  <2> QED
    BY <1>10, <1>11, <2>1
<1>14. \A x \in Process : myList'[x] \in List \ {l} => myList[x] = myList'[x]
  BY <1>11, ProcessListAssumption
<1>15. head'[l] = Nil <=> n = 1
  <2>1. i = 1 => (next[p] = Nil <=> n = 1)
    BY <1>1, <1>4, <1>5
  <2>2. i # 1 => n # 1 /\ q[1] \in Process
    BY <1>1
  <2> QED
    BY <1>8, <2>1, <2>2, ProcessListAssumption
<1>16. tail'[l] = Nil <=> n = 1
  <2>1. q[n] \in Process /\ (n # 1 => q[n - 1] \in Process)
    BY <1>1
  <2>2. i # n => n # 1
    BY <1>1
  <2> QED
    BY <1>9, <2>1, <2>2, ProcessListAssumption
<1>17. n # 1 => /\ head'[l] = r[1]
                /\ tail'[l] = r[n - 1]
                /\ next'[r[n - 1]] = Nil
  <2> SUFFICES ASSUME n # 1
               PROVE  head'[l] = r[1] /\ tail'[l] = r[n - 1] /\ next'[r[n - 1]] = Nil
    OBVIOUS
  <2>1. 1 \in 1..(n - 1) /\ n - 1 \in 1..(n - 1) /\ n - 1 \in 1..n /\ n \in 1..n
    BY <1>1
  <2>2. r[1] = IF i = 1 THEN q[2] ELSE q[1]
    BY <1>1, <1>2, <2>1
  <2>3. r[n - 1] = IF i = n THEN q[n - 1] ELSE q[n]
    BY <1>1, <1>2, <2>1
  <2>4. head'[l] = r[1]
    BY <1>1, <1>4, <1>8, <2>2
  <2>5. tail'[l] = r[n - 1]
    BY <1>9, <2>3
  <2>6. CASE i = n
    <3>1. r[n - 1] = q[i - 1] /\ i # 1 /\ next[p] = Nil
      BY <1>1, <1>4, <2>3, <2>6
    <3> QED
      BY <1>7, <1>10, <2>4, <2>5, <3>1
  <2>7. CASE i # n
    <3>1. r[n - 1] = q[n] /\ q[n] # p /\ q[n] \in Process
      BY <1>1, <2>1, <2>3, <2>7 DEF p
    <3>2. i # 1 => q[n] # q[i - 1]
      BY <1>1, <1>7, <2>1
    <3>3. next'[q[n]] = Nil
      BY <1>1, <1>10, <3>1, <3>2
    <3> QED
      BY <2>4, <2>5, <3>1, <3>3
  <2> QED
    BY <2>6, <2>7
<1>18. \A j \in 1..(Len(r) - 1) : next'[r[j]] = r[j + 1]
  <2> TAKE j \in 1..(Len(r) - 1)
  <2>1. j \in 1..(n - 1) /\ j + 1 \in 1..(n - 1) /\ j \in 1..n /\ j + 1 \in 1..n
        /\ j \in Nat /\ i \in Nat
    BY <1>1, <1>2
  <2>2. /\ r[j] = IF j < i THEN q[j] ELSE q[j + 1]
        /\ r[j + 1] = IF j + 1 < i THEN q[j + 1] ELSE q[(j + 1) + 1]
    BY <1>2, <2>1
  <2>3. CASE j + 1 < i
    <3>1. r[j] = q[j] /\ r[j + 1] = q[j + 1] /\ i # 1 /\ j # i - 1 /\ j # i
      BY <2>1, <2>2, <2>3
    <3>2. q[j] \in Process \ {p} /\ q[j] # q[i - 1]
      BY <1>1, <1>7, <2>1, <3>1 DEF p
    <3> QED
      BY <1>1, <1>10, <2>1, <3>1, <3>2
  <2>4. CASE j + 1 = i
    <3>1. r[j] = q[i - 1] /\ r[j + 1] = q[i + 1] /\ i # 1 /\ i # n
      BY <1>1, <2>1, <2>2, <2>4
    <3> QED
      BY <1>4, <1>7, <1>10, <3>1
  <2>5. CASE j >= i
    <3>1. r[j] = q[j + 1] /\ r[j + 1] = q[(j + 1) + 1] /\ j + 1 # i /\ j + 1 # i - 1
      BY <2>1, <2>2, <2>5
    <3>2. q[j + 1] \in Process \ {p} /\ (i # 1 => q[j + 1] # q[i - 1])
      BY <1>1, <1>7, <2>1, <3>1 DEF p
    <3> QED
      BY <1>1, <1>10, <2>1, <3>1, <3>2
  <2> QED
    BY <2>1, <2>3, <2>4, <2>5
<1>19. \A j, k \in 1..Len(r) : r[j] = r[k] => j = k
  <2> SUFFICES ASSUME NEW j \in 1..(n - 1), NEW k \in 1..(n - 1), r[j] = r[k]
               PROVE  j = k
    BY <1>2
  <2>1. j \in 1..n /\ k \in 1..n /\ j + 1 \in 1..n /\ k + 1 \in 1..n
    BY <1>1
  <2>2. PICK a \in 1..n : r[j] = q[a] /\ a = IF j < i THEN j ELSE j + 1
    BY <1>2, <2>1
  <2>3. PICK b \in 1..n : r[k] = q[b] /\ b = IF k < i THEN k ELSE k + 1
    BY <1>2, <2>1
  <2>4. q[a] = q[b]
    BY <2>2, <2>3
  <2>5. \A x, y \in 1..n : q[x] = q[y] => x = y
    BY <1>1
  <2>6. a = b
    BY <2>4, <2>5
  <2> QED
    BY <1>1, <2>2, <2>3, <2>6
<1>20. \A x \in Process : myList'[x] = l <=> \E j \in 1..Len(r) : r[j] = x
  <2> TAKE x \in Process
  <2>1. \A j \in 1..(n - 1) :
           /\ r[j] = q[IF j < i THEN j ELSE j + 1]
           /\ (IF j < i THEN j ELSE j + 1) \in 1..n
           /\ (IF j < i THEN j ELSE j + 1) # i
    BY <1>1, <1>2
  <2>2. CASE x = p
    <3>1. \A j \in 1..(n - 1) : r[j] # p
      BY <1>1, <2>1 DEF p
    <3> QED
      BY <1>2, <1>11, <2>2, <3>1, ProcessListAssumption
  <2>3. CASE x # p
    <3>1. myList'[x] = l <=> \E j \in 1..n : q[j] = x
      BY <1>1, <1>11, <2>3 DEF Inv, ChainsAreQueues, q
    <3>2. ASSUME NEW j \in 1..n, q[j] = x
          PROVE  \E k \in 1..(n - 1) : r[k] = x
      <4>1. j # i
        BY <2>3, <3>2 DEF p
      <4>2. CASE j < i
        BY <1>1, <1>2, <3>2, <4>2
      <4>3. CASE j > i
        <5>1. j - 1 \in 1..(n - 1) /\ ~(j - 1 < i) /\ (j - 1) + 1 = j
          BY <1>1, <4>3
        <5> QED
          BY <1>2, <3>2, <5>1
      <4> QED
        BY <1>1, <4>1, <4>2, <4>3
    <3>3. ASSUME NEW j \in 1..(n - 1), r[j] = x
          PROVE  \E k \in 1..n : q[k] = x
      BY <2>1, <3>3
    <3> QED
      BY <1>2, <3>1, <3>2, <3>3
  <2> QED
    BY <2>2, <2>3
<1>21. Updated(l, r)
  BY <1>2, <1>8, <1>9, <1>10, <1>11, <1>12, <1>13, <1>14, <1>15, <1>16, <1>17,
     <1>18, <1>19, <1>20 DEF Updated
<1> QED
  BY <1>21, StepInv

-----------------------------------------------------------------------------
LEMMA DequeueStep ==
    ASSUME Inv, NEW l \in List, DequeueProcess(l)
    PROVE  Inv'
<1> DEFINE q == queue[l]
           r == Tail(q)
<1>1. /\ q \in Seq(Process) /\ q # <<>> /\ Len(q) \in Nat /\ Len(q) # 0
      /\ head[l] = q[1] /\ tail[l] = q[Len(q)]
  BY ListFacts DEF DequeueProcess
<1>2. /\ r \in Seq(Process) /\ Len(r) = Len(q) - 1
      /\ \A j \in 1..(Len(q) - 1) : r[j] = q[j + 1]
  BY <1>1, TailFacts
<1>3. 1 \in 1..Len(q)
  BY <1>1
<1>4. tail' = [tail EXCEPT ![l] = IF next[q[1]] # Nil THEN tail[l] ELSE Nil]
  BY <1>1 DEF DequeueProcess, TailAfterDequeue, Inv, TypeOK
<1>5. \A j \in 1..(Len(q) - 1) : r[j] = IF j < 1 THEN q[j] ELSE q[j + 1]
  BY <1>2
<1>6. Leaves(l, 1, r)
  BY <1>1, <1>2, <1>4, <1>5 DEF Leaves, DequeueProcess
<1> QED
  BY <1>2, <1>3, <1>6, LeavesInv

\* The walk of remove_process_from_its_list ends at the position of p, and its
\* prev is the element before it.
LEMMA WalkFacts ==
    ASSUME Inv, NEW p \in Process, myList[p] # Nil
    PROVE  LET q == queue[myList[p]]
               i == PositionOf(q, p)
           IN /\ myList[p] \in List
              /\ i \in 1..Len(q) /\ q[i] = p
              /\ head[myList[p]] = p <=> i = 1
              /\ i # 1 => Before(p) = q[i - 1]
<1> DEFINE l == myList[p]
           q == queue[l]
           i == PositionOf(q, p)
<1>1. l \in List
  BY DEF Inv, TypeOK
<1>2. /\ Len(q) \in Nat /\ DOMAIN q = 1..Len(q)
      /\ \A j \in 1..Len(q) : q[j] \in Process /\ myList[q[j]] = l
      /\ \A j, k \in 1..Len(q) : q[j] = q[k] => j = k
      /\ q # <<>> => head[l] = q[1] /\ next[q[Len(q)]] = Nil
      /\ \A j \in 1..(Len(q) - 1) : next[q[j]] = q[j + 1]
      /\ q = <<>> <=> Len(q) = 0
  BY <1>1, ListFacts
<1>3. i \in 1..Len(q) /\ q[i] = p
  <2>1. \E j \in DOMAIN q : q[j] = p
    BY <1>1 DEF Inv, ChainsAreQueues
  <2> QED
    BY <1>2, <2>1 DEF PositionOf
<1> HIDE DEF i
<1>4. head[l] = p <=> i = 1
  BY <1>2, <1>3
<1>5. i # 1 => Before(p) = q[i - 1]
  <2> SUFFICES ASSUME i # 1 PROVE Before(p) = q[i - 1]
    OBVIOUS
  <2>1. i - 1 \in 1..(Len(q) - 1) /\ i - 1 \in 1..Len(q)
    BY <1>2, <1>3
  <2>2. q[i - 1] \in Process /\ next[q[i - 1]] = p /\ myList[q[i - 1]] = l
    BY <1>2, <1>3, <2>1
  <2>3. ASSUME NEW x \in Process, next[x] = p, myList[x] = l
        PROVE  x = q[i - 1]
    <3>1. PICK j \in 1..Len(q) : q[j] = x
      BY <1>1, <1>2, <2>3 DEF Inv, ChainsAreQueues
    <3>2. j # Len(q)
      BY <1>2, <2>3, <3>1, ProcessListAssumption
    <3>3. j \in 1..(Len(q) - 1) /\ j + 1 \in 1..Len(q)
      BY <1>2, <3>2
    <3>4. j + 1 = i
      BY <1>2, <1>3, <2>3, <3>1, <3>3
    <3> QED
      BY <3>1, <3>3, <3>4
  <2> QED
    BY <2>2, <2>3 DEF Before
<1> QED
  BY <1>1, <1>3, <1>4, <1>5 DEF i

LEMMA RemoveStep ==
    ASSUME Inv, NEW p \in Process, RemoveProcess(p)
    PROVE  Inv'
<1> DEFINE l == myList[p]
           q == queue[l]
           i == PositionOf(q, p)
           r == RemoveAt(q, i)
<1>1. /\ l \in List /\ i \in 1..Len(q) /\ q[i] = p
      /\ head[l] = p <=> i = 1
      /\ i # 1 => Before(p) = q[i - 1]
  BY WalkFacts DEF RemoveProcess
<1>2. q \in Seq(Process)
  BY <1>1, ListFacts
<1>3. /\ r \in Seq(Process) /\ Len(r) = Len(q) - 1
      /\ \A j \in 1..(Len(q) - 1) : r[j] = IF j < i THEN q[j] ELSE q[j + 1]
  BY <1>1, <1>2, RemoveAtFacts
<1>4. head \in [List -> Process \cup {Nil}]
  BY DEF Inv, TypeOK
<1>5. tail' = [tail EXCEPT ![l] = IF next[q[i]] # Nil THEN tail[l]
                                  ELSE IF i = 1 THEN Nil ELSE q[i - 1]]
  BY <1>1 DEF RemoveProcess, TailAfterRemoval
<1>6. queue' = [queue EXCEPT ![l] = r] /\ myList' = [myList EXCEPT ![q[i]] = Nil]
  BY <1>1 DEF RemoveProcess
<1>7. /\ head' = IF i = 1 THEN [head EXCEPT ![l] = next[q[i]]] ELSE head
      /\ next' = IF i = 1 THEN [next EXCEPT ![q[i]] = Nil]
                 ELSE [next EXCEPT ![q[i - 1]] = next[q[i]], ![q[i]] = Nil]
  BY <1>1 DEF RemoveProcess
<1> HIDE DEF r, i
<1>8. Leaves(l, i, r)
  BY <1>3, <1>5, <1>6, <1>7 DEF Leaves
<1> QED
  BY <1>1, <1>3, <1>8, LeavesInv

LEMMA InitInv == Init => Inv
<1> SUFFICES ASSUME Init PROVE Inv
  OBVIOUS
<1>1. TypeOK
  BY DEF Init, TypeOK
<1>2. \A l \in List : queue[l] = <<>> /\ Len(queue[l]) = 0 /\ DOMAIN queue[l] = {}
  BY DEF Init
<1>3. \A l \in List : Chain(l, queue[l])
  BY <1>2 DEF Init, Chain
<1>4. \A l \in List, p \in Process : myList[p] # l
  BY ProcessListAssumption DEF Init
<1> QED
  BY <1>1, <1>2, <1>3, <1>4 DEF Inv, ChainsAreQueues

LEMMA NextInv == Inv /\ [Next]_vars => Inv'
<1> SUFFICES ASSUME Inv, [Next]_vars PROVE Inv'
  OBVIOUS
<1>1. ASSUME NEW l \in List, NEW p \in Process, EnqueueProcess(l, p) PROVE Inv'
  BY <1>1, EnqueueStep
<1>2. ASSUME NEW l \in List, DequeueProcess(l) PROVE Inv'
  BY <1>2, DequeueStep
<1>3. ASSUME NEW p \in Process, RemoveProcess(p) PROVE Inv'
  BY <1>3, RemoveStep
<1>4. CASE UNCHANGED vars
  BY <1>4 DEF Inv, TypeOK, ChainsAreQueues, Chain, vars
<1> QED
  BY <1>1, <1>2, <1>3, <1>4 DEF Next

\* enqueue_process, dequeue_process and remove_process_from_its_list keep every
\* chain of nextLinks equal to the sequence that Scheduler has in its place.
THEOREM PointersAreQueues == Spec => []ChainsAreQueues
<1>1. Spec => []Inv
  BY InitInv, NextInv, PTL DEF Spec
<1>2. Inv => ChainsAreQueues
  BY DEF Inv
<1> QED
  BY <1>1, <1>2, PTL

\* The slots hold processes, lists and nil, and a list has a tail exactly when
\* it has a head.
THEOREM ListTypes == Spec => []TypeOK
<1>1. Spec => []Inv
  BY InitInv, NextInv, PTL DEF Spec
<1>2. Inv => TypeOK
  BY DEF Inv
<1> QED
  BY <1>1, <1>2, PTL

=============================================================================
