----------------------------- MODULE SpiArbiterProofs -----------------------------
(* The arbiter's list, the contexts that preempt one another on their way to and   *)
(* from it, and the pair of sensors that submits to it, for any number of threads: *)
(* the pointers form one list, one context at most starts its first task, and the  *)
(* whole implements a queue with one callback per transfer.                        *)
EXTENDS SpiArbiter, TLAPS, FiniteSetTheorems, SequenceTheorems, WellFoundedInduction

-----------------------------------------------------------------------------------
(* Orders: the sequences of tasks that name none twice.                            *)
LEMMA TasksAreFinite == IsFiniteSet(Tasks) /\ Cardinality(Tasks) \in Nat
<1>1. IsFiniteSet(Sensors)
  <2>1. Sensors = {"main"} \union {"aux"}
    BY DEF Sensors
  <2> QED
    BY <2>1, FS_Singleton, FS_Union
<1>2. IsFiniteSet(Tasks)
  BY <1>1, SpiAssumption, FS_Union DEF Tasks
<1> QED
  BY <1>2, FS_CardinalityType

LEMMA OrderIs ==
  ASSUME NEW s \in Orders
  PROVE  /\ s \in Seq(Tasks) /\ Len(s) \in Nat /\ DOMAIN s = 1..Len(s)
         /\ s # <<>> => Len(s) > 0
         /\ \A i \in 1..Len(s) : s[i] \in Tasks
         /\ \A i, j \in 1..Len(s) : s[i] = s[j] => i = j
<1>1. PICK n \in 0..Cardinality(Tasks) : s \in [1..n -> Tasks]
  BY DEF Orders
<1>2. n \in Nat
  BY TasksAreFinite
<1>3. s \in Seq(Tasks)
  BY <1>1, <1>2
<1> QED
  BY <1>3, LenProperties, EmptySeq DEF Orders

(* Places in a sequence and their neighbours.                                      *)
LEMMA Neighbours ==
  ASSUME NEW n \in Nat, NEW i \in 1..n
  PROVE  /\ i \in Nat /\ 1 \in 1..n /\ n \in 1..n
         /\ i + 1 # 1 /\ i + 1 \in 1..(n + 1)
         /\ i # n => i + 1 \in 1..n
         /\ i # 1 => i - 1 \in 1..(n - 1) /\ i - 1 \in 1..n /\ i - 1 # n /\ (i - 1) + 1 = i
OBVIOUS

LEMMA OrderIf ==
  ASSUME NEW s \in Seq(Tasks), \A i, j \in 1..Len(s) : s[i] = s[j] => i = j
  PROVE  s \in Orders
<1>1. Len(s) \in Nat /\ DOMAIN s = 1..Len(s) /\ s \in [1..Len(s) -> Tasks]
  BY LenProperties
<1>2. s \in Injection(1..Len(s), Tasks)
  BY <1>1 DEF Injection, IsInjective
<1>3. Cardinality(1..Len(s)) <= Cardinality(Tasks)
  BY <1>2, TasksAreFinite, FS_Injection
<1>4. Cardinality(1..Len(s)) = Len(s)
  BY <1>1, FS_Interval
<1>5. Len(s) \in 0..Cardinality(Tasks)
  BY <1>1, <1>3, <1>4, TasksAreFinite
<1> QED
  BY <1>1, <1>5 DEF Orders

-----------------------------------------------------------------------------------
(* The list, as a sequence of tasks: what is not on it points nowhere.            *)
Listed(s) ==
  /\ s \in Orders /\ IsChain(s)
  /\ \A t \in Tasks : (\A i \in DOMAIN s : s[i] # t) => next[t] = NoTask

ListHolds == \E s \in Orders : Listed(s)

(* Who is to start the first task: nobody while the bus is busy or the list is    *)
(* empty, and never two contexts.                                                 *)
Starting(c) == frame[c].pc \in {"start", "remove"} \/ frame[c].more

OneStarts ==
  /\ bus.phase # "idle" => bus.task = taskList
  /\ \A c \in Contexts :
       /\ Starting(c) => /\ bus.phase = "idle" /\ taskList # NoTask
                         /\ \A d \in Contexts : Starting(d) => d = c
       /\ frame[c].pc \in {"start", "remove"} => frame[c].task = taskList /\ ~frame[c].more
       /\ frame[c].pc = "remove" => faulted
       /\ frame[c].more => c \in {"txDone", "rxDone"} /\ frame[c].pc # "idle"

(* A task that is linked, or on its way to the list or back from it, waits for    *)
(* its callback.                                                                  *)
Pending(t) ==
  IF t \in Sensors THEN inUse[t] /\ inFlight[t]
  ELSE frame[t].pc # "idle" /\ result[t] = "unset"

(* A context has a task in hand from its submission until it is linked, and from  *)
(* its removal until it is released.                                              *)
InHand == {"append", "start", "remove", "deliver"}
Holds(c) == frame[c].pc \in InHand \union {"take", "release"}

OneHolds ==
  /\ \A t \in Linked : Pending(t)
  /\ \A c \in Contexts :
       /\ Holds(c) => /\ frame[c].task \in Tasks
                      /\ \A d \in Contexts :
                            Holds(d) /\ frame[d].task = frame[c].task => d = c
       /\ frame[c].pc \in InHand => Pending(frame[c].task)
       /\ frame[c].pc \in {"append", "deliver", "take", "release"}
            => frame[c].task \notin Linked
       /\ frame[c].pc \in {"take", "release"}
            => frame[c].task \in Sensors /\ inUse[frame[c].task]
  /\ \A t \in Threads :
       /\ frame[t].pc \in {"idle", "append", "start", "remove", "wait", "deliver"}
       /\ frame[t].pc # "idle" => frame[t].task = t

(* The pair's request is in one place: with the sensor that is read for it, or    *)
(* with the context that is to call the pair back.                                *)
Tells(c) == frame[c].pc \in {"release", "notify"} /\ frame[c].cb = "pair"

OneRequest ==
  /\ \A t \in Sensors :
       /\ inFlight[t] \/ callback[t] # "none" => inUse[t]
       /\ callback[t] = "pair" => pairState = t
       /\ pairState = t => Outstanding(t)
  /\ inUse["aux"] => pairState = "aux"
  /\ \A c \in Contexts :
       /\ frame[c].pc \in {"take", "release"} => ~inFlight[frame[c].task]
       /\ frame[c].pc = "release" => callback[frame[c].task] = "none"
       /\ Tells(c) => /\ frame[c].task \in Sensors /\ pairState = frame[c].task
                      /\ \A d \in Contexts : Tells(d) => d = c
                      /\ \A t \in Sensors : callback[t] # "pair"
                      /\ frame[c].pc = "notify" /\ frame[c].task = "aux" => ~inUse["aux"]

IInv ==
  TypeOK /\ ListHolds /\ OneStarts /\ NothingForgotten /\ OneHolds /\ OneRequest

-----------------------------------------------------------------------------------
(* The list.                                                                       *)

(* Two orders that the pointers form agree as far as the first one goes: at the    *)
(* least place where they did not, the place before would point to both.           *)
LEMMA ChainsAgree ==
  ASSUME NEW r \in Orders, NEW s \in Orders, IsChain(r), IsChain(s), NEW i \in 1..Len(s)
  PROVE  i <= Len(r) /\ r[i] = s[i]
<1> DEFINE Differ == {k \in 1..Len(s) : ~(k <= Len(r) /\ r[k] = s[k])}
           R == OpToRel(<, Nat)
<1>1. /\ Len(r) \in Nat /\ DOMAIN r = 1..Len(r) /\ (r # <<>> => Len(r) > 0)
      /\ Len(s) \in Nat /\ DOMAIN s = 1..Len(s)
      /\ \A k \in 1..Len(s) : s[k] \in Tasks /\ s[k] # NoTask
      /\ \A k \in 1..Len(r) : r[k] \in Tasks
  BY OrderIs, SpiAssumption
<1>2. CASE Differ # {}
  <2>1. PICK k \in Differ : \A j \in Differ : <<j, k>> \notin R
    <3> HIDE DEF R
    <3>1. IsWellFoundedOn(R, Nat)
      BY NatLessThanWellFounded DEF R
    <3>2. Differ \subseteq Nat
      BY <1>1
    <3> QED
      BY <1>2, <3>1, <3>2, WFMin
  <2>2. k \in Nat /\ k >= 1 /\ k <= Len(s)
    BY <1>1
  <2>3. CASE k = 1
    <3>1. s # <<>> /\ taskList = s[1] /\ s[1] # NoTask
      BY <1>1, <2>2, <2>3 DEF IsChain
    <3>2. r # <<>> /\ r[1] = s[1]
      BY <3>1 DEF IsChain
    <3> QED
      BY <1>1, <2>3, <3>2
  <2>4. CASE k > 1
    <3>1. k - 1 \in 1..Len(s) /\ k - 1 < k /\ k - 1 # Len(s) /\ (k - 1) + 1 = k
      BY <1>1, <2>2, <2>4
    <3>2. <<k - 1, k>> \in R
      BY <2>2, <3>1 DEF OpToRel
    <3>3. k - 1 \notin Differ
      BY <2>1, <3>2
    <3>4. k - 1 <= Len(r) /\ r[k - 1] = s[k - 1]
      BY <3>1, <3>3
    <3> HIDE DEF Differ, R
    <3>5. k - 1 \in 1..Len(r)
      BY <1>1, <3>1, <3>4
    <3>6. next[s[k - 1]] = s[k]
      BY <1>1, <3>1 DEF IsChain
    <3>7. next[r[k - 1]] = IF k - 1 = Len(r) THEN NoTask ELSE r[k]
      BY <1>1, <3>1, <3>5 DEF IsChain
    <3>8. s[k] # NoTask
      BY <1>1, <2>2
    <3>9. k - 1 # Len(r) /\ r[k] = s[k]
      BY <3>4, <3>6, <3>7, <3>8
    <3>10. k <= Len(r)
      BY <1>1, <2>2, <3>5, <3>9
    <3> QED
      BY <3>9, <3>10 DEF Differ
  <2> QED
    BY <2>2, <2>3, <2>4
<1> QED
  BY <1>2

(* So the list that the pointers form is the queue, and what the code finds by     *)
(* following them is the queue's head, its last task and its end.                  *)
ReadAs(s) ==
  /\ Queue = s
  /\ taskList = IF s = <<>> THEN NoTask ELSE s[1]
  /\ taskList = NoTask <=> s = <<>>
  /\ Linked = {s[i] : i \in 1..Len(s)}
  /\ s # <<>> => /\ s[1] \in Tasks /\ s[Len(s)] \in Tasks
                 /\ taskList \in Linked /\ LastTask = s[Len(s)]

LEMMA ListIs ==
  ASSUME NEW s \in Orders, Listed(s)
  PROVE  ReadAs(s)
<1>1. /\ Len(s) \in Nat /\ DOMAIN s = 1..Len(s) /\ (s # <<>> => Len(s) > 0)
      /\ \A i \in 1..Len(s) : s[i] \in Tasks /\ s[i] # NoTask
      /\ \A i, j \in 1..Len(s) : s[i] = s[j] => i = j
  BY OrderIs, SpiAssumption
<1>2. IsChain(s)
  BY DEF Listed
<1>3. taskList = IF s = <<>> THEN NoTask ELSE s[1]
  BY <1>2 DEF IsChain
<1>4. s # <<>> => 1 \in 1..Len(s) /\ Len(s) \in 1..Len(s)
  BY <1>1
<1>5. \A i \in 1..Len(s) : next[s[i]] = IF i = Len(s) THEN NoTask ELSE s[i + 1]
  BY <1>1, <1>2 DEF IsChain
<1>6. Queue = s
  <2>1. Queue \in Orders /\ IsChain(Queue)
    BY <1>2 DEF Queue
  <2> DEFINE r == Queue
  <2> HIDE DEF r
  <2>2. Len(r) \in Nat /\ r \in Seq(Tasks) /\ s \in Seq(Tasks)
    BY <2>1, OrderIs DEF r
  <2>3. \A i \in 1..Len(s) : i <= Len(r) /\ r[i] = s[i]
    BY <1>2, <2>1, ChainsAgree DEF r
  <2>4. \A i \in 1..Len(r) : i <= Len(s)
    BY <1>2, <2>1, ChainsAgree DEF r
  <2>5. Len(r) = Len(s)
    <3>1. Len(s) <= Len(r)
      <4>1. CASE Len(s) = 0
        BY <2>2, <4>1
      <4>2. CASE Len(s) > 0
        <5>1. Len(s) \in 1..Len(s)
          BY <1>1, <4>2
        <5> QED
          BY <2>3, <5>1
      <4> QED
        BY <1>1, <4>1, <4>2
    <3>2. Len(r) <= Len(s)
      <4>1. CASE Len(r) = 0
        BY <1>1, <4>1
      <4>2. CASE Len(r) > 0
        <5>1. Len(r) \in 1..Len(r)
          BY <2>2, <4>2
        <5> QED
          BY <2>4, <5>1
      <4> QED
        BY <2>2, <4>1, <4>2
    <3> QED
      BY <1>1, <2>2, <3>1, <3>2
  <2>6. r = s
    BY <2>2, <2>3, <2>5, SeqEqual
  <2> QED
    BY <2>6 DEF r
<1>7. taskList = NoTask <=> s = <<>>
  BY <1>1, <1>3, <1>4
<1>8. Linked = {s[i] : i \in 1..Len(s)}
  <2>1. ASSUME NEW t \in Linked PROVE \E i \in 1..Len(s) : t = s[i]
    <3>1. t \in Tasks /\ t # NoTask
      BY SpiAssumption DEF Linked
    <3>2. CASE t = taskList
      BY <1>3, <1>4, <3>1, <3>2
    <3>3. CASE \E u \in Tasks : next[u] = t
      <4>1. PICK u \in Tasks : next[u] = t
        BY <3>3
      <4>2. PICK i \in 1..Len(s) : s[i] = u
        BY <1>1, <3>1, <4>1 DEF Listed
      <4>3. i # Len(s) /\ t = s[i + 1]
        BY <1>5, <3>1, <4>1, <4>2
      <4>4. i + 1 \in 1..Len(s)
        BY <1>1, <4>3, Neighbours
      <4> QED
        BY <4>3, <4>4
    <3> QED
      BY <3>2, <3>3 DEF Linked
  <2>2. ASSUME NEW i \in 1..Len(s) PROVE s[i] \in Linked
    <3>1. CASE i = 1
      BY <1>1, <1>3, <3>1 DEF Linked
    <3>2. CASE i # 1
      <4>1. i - 1 \in 1..Len(s) /\ i - 1 # Len(s) /\ (i - 1) + 1 = i
        BY <1>1, <3>2
      <4>2. next[s[i - 1]] = s[i] /\ s[i - 1] \in Tasks
        BY <1>1, <1>5, <4>1
      <4> QED
        BY <1>1, <4>2 DEF Linked
    <3> QED
      BY <3>1, <3>2
  <2> QED
    BY <2>1, <2>2
<1>9. ASSUME s # <<>> PROVE LastTask = s[Len(s)]
  <2>1. s[Len(s)] \in Linked /\ next[s[Len(s)]] = NoTask
    BY <1>4, <1>5, <1>8, <1>9
  <2>2. ASSUME NEW t \in Linked, next[t] = NoTask PROVE t = s[Len(s)]
    <3>1. PICK i \in 1..Len(s) : t = s[i]
      BY <1>8
    <3>2. i # Len(s) => i + 1 \in 1..Len(s)
      BY <1>1, Neighbours
    <3>3. next[t] = IF i = Len(s) THEN NoTask ELSE s[i + 1]
      BY <1>5, <3>1
    <3>4. i # Len(s) => s[i + 1] # NoTask
      BY <1>1, <3>2
    <3> QED
      BY <2>2, <3>1, <3>3, <3>4
  <2> QED
    BY <2>1, <2>2 DEF LastTask
<1> QED
  BY <1>1, <1>3, <1>4, <1>6, <1>7, <1>8, <1>9 DEF ReadAs

LEMMA ListIsNext == (\A s \in Orders : Listed(s) => ReadAs(s))'
<1>1. \A s \in Orders : Listed(s) => ReadAs(s)
  BY ListIs
<1> QED
  BY <1>1, PTL

(* Appending: the new task is where the last one now points.                       *)
LEMMA AppendListed ==
  ASSUME NEW s \in Orders, Listed(s), NEW t \in Tasks, t \notin Linked,
         next \in [Tasks -> Tasks \union {NoTask}],
         IF taskList = NoTask
         THEN taskList' = t /\ next' = [next EXCEPT ![t] = NoTask]
         ELSE taskList' = taskList /\ next' = [next EXCEPT ![t] = NoTask, ![LastTask] = t]
  PROVE  Append(s, t) \in Orders /\ Listed(Append(s, t))'
<1> DEFINE r == Append(s, t)
<1>1. /\ s \in Seq(Tasks) /\ Len(s) \in Nat /\ DOMAIN s = 1..Len(s)
      /\ (s # <<>> => Len(s) > 0)
      /\ \A i \in 1..Len(s) : s[i] \in Tasks
      /\ \A i, j \in 1..Len(s) : s[i] = s[j] => i = j
  BY OrderIs
<1>2. /\ r \in Seq(Tasks) /\ Len(r) = Len(s) + 1 /\ DOMAIN r = 1..Len(r)
      /\ r[Len(r)] = t /\ r # <<>>
      /\ \A i \in 1..Len(s) : r[i] = s[i]
  BY <1>1, AppendProperties
<1>3. \A i \in 1..Len(s) : s[i] # t
  BY ListIs DEF ReadAs
<1>4. \A i \in 1..Len(r) : i \in 1..Len(s) \/ i = Len(r)
  BY <1>1, <1>2
<1> HIDE DEF r
<1>5. r \in Orders
  <2>1. \A i, j \in 1..Len(r) : r[i] = r[j] => i = j
    BY <1>1, <1>2, <1>3, <1>4
  <2> QED
    BY <1>2, <2>1, OrderIf
<1>6. s # <<>> => LastTask = s[Len(s)] /\ Len(s) \in 1..Len(s) /\ taskList = s[1]
  BY <1>1, ListIs DEF ReadAs
<1>7. taskList = NoTask <=> s = <<>>
  BY ListIs DEF ReadAs
<1>8. taskList' = r[1]
  <2>1. CASE s = <<>>
    BY <1>1, <1>2, <1>7, <2>1
  <2>2. CASE s # <<>>
    BY <1>1, <1>2, <1>6, <1>7, <2>2
  <2> QED
    BY <2>1, <2>2
<1>9. \A u \in Tasks : next'[u] = IF u = t THEN NoTask
                                  ELSE IF s # <<>> /\ u = s[Len(s)] THEN t ELSE next[u]
  <2>1. CASE s = <<>>
    BY <1>7, <2>1
  <2>2. CASE s # <<>>
    BY <1>1, <1>3, <1>6, <1>7, <2>2
  <2> QED
    BY <2>1, <2>2
<1>10. ASSUME NEW i \in 1..Len(r)
       PROVE  next'[r[i]] = IF i = Len(r) THEN NoTask ELSE r[i + 1]
  <2>1. CASE i = Len(r)
    BY <1>2, <1>9, <2>1
  <2>2. CASE i = Len(s)
    <3>0. Len(s) \in Nat /\ Len(r) = Len(s) + 1
      BY <1>1, <1>2
    <3>1. i # Len(r) /\ i + 1 = Len(r)
      BY <2>2, <3>0
    <3>2. i \in 1..Len(s)
      BY <1>4, <3>1
    <3>3. s # <<>>
      BY <3>2, EmptySeq
    <3>4. r[i] = s[Len(s)] /\ s[Len(s)] # t /\ s[Len(s)] \in Tasks
      BY <1>1, <1>2, <1>3, <2>2, <3>2
    <3> QED
      BY <1>2, <1>9, <3>1, <3>3, <3>4
  <2>3. CASE i # Len(s) /\ i # Len(r)
    <3>0. i \in 1..Len(s)
      BY <1>4, <2>3
    <3>1. i \in 1..Len(s) /\ i + 1 \in 1..Len(s) /\ Len(s) \in 1..Len(s)
      BY <1>1, <2>3, <3>0, Neighbours
    <3>2. next[s[i]] = s[i + 1]
      BY <1>1, <2>3, <3>1 DEF Listed, IsChain
    <3>3. s[i] # s[Len(s)] /\ s[i] # t
      BY <1>1, <1>3, <2>3, <3>1
    <3>4. r[i] = s[i] /\ r[i + 1] = s[i + 1] /\ s[i] \in Tasks
      BY <1>1, <1>2, <3>1
    <3> QED
      BY <1>9, <2>3, <3>2, <3>3, <3>4
  <2> QED
    BY <2>1, <2>2, <2>3
<1>11. IsChain(r)'
  BY <1>2, <1>8, <1>10 DEF IsChain
<1>12. ASSUME NEW u \in Tasks, \A i \in DOMAIN r : r[i] # u PROVE next'[u] = NoTask
  <2>1. u # t /\ \A i \in 1..Len(s) : s[i] # u
    BY <1>1, <1>2, <1>12
  <2>2. next[u] = NoTask
    BY <1>1, <2>1 DEF Listed
  <2> QED
    BY <1>6, <1>9, <2>1, <2>2
<1>13. Listed(r)'
  BY <1>5, <1>11, <1>12 DEF Listed
<1> QED
  BY <1>5, <1>13 DEF r

(* Unlinking the first task.                                                       *)
LEMMA HeadUnlinked ==
  ASSUME NEW s \in Orders, Listed(s), s # <<>>,
         next \in [Tasks -> Tasks \union {NoTask}],
         taskList' = next[taskList], next' = [next EXCEPT ![taskList] = NoTask]
  PROVE  Tail(s) \in Orders /\ Listed(Tail(s))'
<1> DEFINE r == Tail(s)
<1>1. /\ s \in Seq(Tasks) /\ Len(s) \in Nat /\ DOMAIN s = 1..Len(s) /\ Len(s) > 0
      /\ \A i \in 1..Len(s) : s[i] \in Tasks
      /\ \A i, j \in 1..Len(s) : s[i] = s[j] => i = j
  BY OrderIs
<1>2. /\ r \in Seq(Tasks) /\ Len(r) = Len(s) - 1 /\ DOMAIN r = 1..Len(r)
      /\ \A i \in 1..Len(r) : r[i] = s[i + 1]
  BY <1>1, HeadTailProperties
<1>3. \A i \in 1..Len(r) : i + 1 \in 1..Len(s) /\ i + 1 # 1
  BY <1>1, <1>2
<1>4. r = <<>> <=> Len(s) = 1
  <2>1. r = <<>> => Len(r) = 0
    BY EmptySeq
  <2>2. Len(r) = 0 => r = <<>>
    BY <1>2, EmptySeq
  <2> HIDE DEF r
  <2> QED
    BY <1>1, <1>2, <2>1, <2>2
<1> HIDE DEF r
<1>5. r \in Orders
  <2>1. \A i, j \in 1..Len(r) : r[i] = r[j] => i = j
    BY <1>1, <1>2, <1>3
  <2> QED
    BY <1>2, <2>1, OrderIf
<1>6. taskList = s[1] /\ s[1] \in Tasks
  BY ListIs DEF ReadAs
<1>7. \A i \in 1..Len(s) : next[s[i]] = IF i = Len(s) THEN NoTask ELSE s[i + 1]
  BY <1>1 DEF Listed, IsChain
<1>8. \A u \in Tasks : next'[u] = IF u = s[1] THEN NoTask ELSE next[u]
  BY <1>6
<1>9. taskList' = IF r = <<>> THEN NoTask ELSE r[1]
  <2>1. taskList' = IF 1 = Len(s) THEN NoTask ELSE s[1 + 1]
    <3>1. 1 \in 1..Len(s)
      BY <1>1
    <3>2. next[s[1]] = IF 1 = Len(s) THEN NoTask ELSE s[1 + 1]
      BY <1>7, <3>1
    <3> QED
      BY <1>6, <3>2
  <2>2. r # <<>> => 1 \in 1..Len(r)
    BY <1>1, <1>2, <1>4
  <2> QED
    BY <1>2, <1>4, <2>1, <2>2
<1>10. ASSUME NEW i \in 1..Len(r)
       PROVE  next'[r[i]] = IF i = Len(r) THEN NoTask ELSE r[i + 1]
  <2>1. r[i] = s[i + 1] /\ i + 1 \in 1..Len(s) /\ s[i + 1] # s[1] /\ s[i + 1] \in Tasks
    BY <1>1, <1>2, <1>3
  <2>2. next'[r[i]] = IF i + 1 = Len(s) THEN NoTask ELSE s[(i + 1) + 1]
    BY <1>7, <1>8, <2>1
  <2>3. Len(r) \in Nat /\ i \in Nat /\ (i = Len(r) <=> i + 1 = Len(s))
    BY <1>1, <1>2
  <2>4. i # Len(r) => i + 1 \in 1..Len(r)
    BY <2>3, Neighbours
  <2>5. i # Len(r) => r[i + 1] = s[(i + 1) + 1]
    BY <1>2, <2>4
  <2> QED
    BY <2>2, <2>3, <2>5
<1>11. IsChain(r)'
  BY <1>2, <1>9, <1>10 DEF IsChain
<1>12. ASSUME NEW u \in Tasks, \A i \in DOMAIN r : r[i] # u PROVE next'[u] = NoTask
  <2>1. CASE u = s[1]
    BY <1>8, <2>1
  <2>2. CASE u # s[1]
    <3>1. ASSUME NEW i \in 1..Len(s) PROVE s[i] # u
      <4>1. CASE i = 1
        BY <2>2, <4>1
      <4>2. CASE i # 1
        <5>1. i - 1 \in 1..Len(r) /\ (i - 1) + 1 = i
          BY <1>1, <1>2, <4>2
        <5> QED
          BY <1>2, <1>12, <5>1
      <4> QED
        BY <4>1, <4>2
    <3>2. next[u] = NoTask
      BY <1>1, <3>1 DEF Listed
    <3> QED
      BY <1>8, <2>2, <3>2
  <2> QED
    BY <2>1, <2>2
<1>13. Listed(r)'
  BY <1>5, <1>11, <1>12 DEF Listed
<1> QED
  BY <1>5, <1>13 DEF r

-----------------------------------------------------------------------------------
(* The frames.                                                                     *)
Pcs == {"idle", "append", "start", "remove", "wait", "deliver", "take", "release",
        "notify", "finish", "startNext"}
Frames == [pc : Pcs, task : Tasks \union {NoTask}, ok : BOOLEAN,
           cb : {"none", "single", "pair"}, more : BOOLEAN]

(* The names: a thread is not taken for an interrupt or for a sensor.              *)
LEMMA Names ==
  /\ "main" \in Sensors /\ "aux" \in Sensors /\ \A t \in Sensors : t = "main" \/ t = "aux"
  /\ Sensors \subseteq Tasks /\ Threads \subseteq Tasks
  /\ \A t \in Tasks : t \in Sensors \/ t \in Threads
  /\ \A t \in Threads : t \notin Sensors /\ t \notin Interrupts
  /\ \A t \in Threads : t # "sample" /\ t # "txDone" /\ t # "rxDone"
  /\ Threads \subseteq Contexts
  /\ "sample" \in Contexts /\ "txDone" \in Contexts /\ "rxDone" \in Contexts
  /\ \A c \in Contexts : c \in Threads \/ c \in {"sample", "txDone", "rxDone"}
  /\ NoTask \notin Tasks
BY SpiAssumption DEF Sensors, Tasks, Contexts, Interrupts

LEMMA FramesAre ==
  ASSUME TypeOK
  PROVE  /\ frame \in [Contexts -> Frames]
         /\ \A c \in Contexts : frame[c] \in Frames
BY DEF TypeOK, Frames, Pcs

(* Where Return() takes a context.                                                 *)
LEMMA Returned ==
  ASSUME TypeOK, NEW c \in Contexts, Return(c)
  PROVE  /\ frame' \in [Contexts -> Frames]
         /\ \A d \in Contexts \ {c} : frame'[d] = frame[d]
         /\ frame'[c].pc = IF c = "sample" THEN "idle"
                           ELSE IF c \in Threads THEN "wait" ELSE "startNext"
         /\ c # "sample" => /\ frame'[c].task = frame[c].task
                            /\ frame'[c].more = frame[c].more
         /\ c = "sample" => frame'[c] = Rest
<1>1. frame \in [Contexts -> Frames] /\ frame[c] \in Frames
  BY FramesAre
<1>2. Rest \in Frames
  BY DEF Rest, Frames, Pcs
<1>3. CASE c = "sample"
  <2>1. frame' = [frame EXCEPT ![c] = Rest]
    BY <1>3, Names DEF Return
  <2> QED
    BY <1>1, <1>2, <1>3, <2>1 DEF Rest
<1>4. CASE c \in Threads
  <2>1. c # "sample"
    BY <1>4, Names
  <2>2. frame' = [frame EXCEPT ![c] = [frame[c] EXCEPT !.pc = "wait"]]
    BY <1>4, <2>1 DEF Return
  <2>3. [frame[c] EXCEPT !.pc = "wait"] \in Frames
    BY <1>1 DEF Frames, Pcs
  <2>4. /\ [frame[c] EXCEPT !.pc = "wait"].pc = "wait"
        /\ [frame[c] EXCEPT !.pc = "wait"].task = frame[c].task
        /\ [frame[c] EXCEPT !.pc = "wait"].more = frame[c].more
    BY <1>1 DEF Frames
  <2> QED
    BY <1>1, <1>4, <2>1, <2>2, <2>3, <2>4
<1>5. CASE c # "sample" /\ c \notin Threads
  <2>2. frame' = [frame EXCEPT ![c] = [frame[c] EXCEPT !.pc = "startNext"]]
    BY <1>5 DEF Return
  <2>3. [frame[c] EXCEPT !.pc = "startNext"] \in Frames
    BY <1>1 DEF Frames, Pcs
  <2>4. /\ [frame[c] EXCEPT !.pc = "startNext"].pc = "startNext"
        /\ [frame[c] EXCEPT !.pc = "startNext"].task = frame[c].task
        /\ [frame[c] EXCEPT !.pc = "startNext"].more = frame[c].more
    BY <1>1 DEF Frames
  <2> QED
    BY <1>1, <1>5, <2>2, <2>3, <2>4
<1> QED
  BY <1>3, <1>4, <1>5

(* A context that is to start the next task does not forget it.                     *)
LEMMA ReturnedMore ==
  ASSUME IInv, NEW c \in Contexts, Return(c)
  PROVE  (frame'[c].more <=> frame[c].more) /\ (frame[c].more => frame'[c].pc # "idle")
<1>1. frame[c].more \in BOOLEAN /\ (frame[c].more => c \in {"txDone", "rxDone"})
  BY FramesAre DEF IInv, OneStarts, Frames
<1>2. CASE c = "sample"
  <2>1. ~frame[c].more
    BY <1>1, <1>2
  <2>2. ~frame'[c].more
    BY <1>2, Returned DEF IInv, Rest
  <2> QED
    BY <2>1, <2>2
<1>3. CASE c # "sample"
  BY <1>1, <1>3, Returned DEF IInv
<1> QED
  BY <1>2, <1>3

LEMMA Gone ==
  ASSUME TypeOK, NEW c \in Contexts, NEW pc \in Pcs, Goto(c, pc)
  PROVE  /\ frame' \in [Contexts -> Frames]
         /\ \A d \in Contexts \ {c} : frame'[d] = frame[d]
         /\ frame'[c].pc = pc /\ frame'[c].task = frame[c].task
         /\ frame'[c].ok = frame[c].ok /\ frame'[c].cb = frame[c].cb
         /\ frame'[c].more = frame[c].more
BY FramesAre DEF Goto, Frames

LEMMA Acquired ==
  ASSUME TypeOK, NEW c \in Contexts, NEW t \in Sensors, NEW cb \in {"none", "single", "pair"},
         Acquire(c, t, cb)
  PROVE  /\ frame' \in [Contexts -> Frames]
         /\ \A d \in Contexts \ {c} : frame'[d] = frame[d]
         /\ frame'[c].pc = "append" /\ frame'[c].task = t /\ frame'[c].more = frame[c].more
         /\ inUse' \in [Sensors -> BOOLEAN] /\ inFlight' \in [Sensors -> BOOLEAN]
         /\ callback' \in [Sensors -> {"none", "single", "pair"}]
         /\ \A u \in Sensors \ {t} : /\ inUse'[u] = inUse[u] /\ inFlight'[u] = inFlight[u]
                                     /\ callback'[u] = callback[u]
         /\ inUse'[t] /\ inFlight'[t] /\ callback'[t] = cb
<1>1. frame' = [frame EXCEPT ![c] = [frame[c] EXCEPT !.pc = "append", !.task = t]]
  BY FramesAre DEF Acquire
<1>2. t \in Tasks
  BY Names
<1>3. /\ [frame[c] EXCEPT !.pc = "append", !.task = t] \in Frames
      /\ [frame[c] EXCEPT !.pc = "append", !.task = t].pc = "append"
      /\ [frame[c] EXCEPT !.pc = "append", !.task = t].task = t
      /\ [frame[c] EXCEPT !.pc = "append", !.task = t].more = frame[c].more
  BY <1>2, FramesAre DEF Frames, Pcs
<1> QED
  BY <1>1, <1>3, FramesAre DEF Acquire, TypeOK

LEMMA NextType ==
  ASSUME IInv, [Next]_vars
  PROVE  TypeOK'
<1> USE DEF driver
<1>0. TypeOK /\ OneStarts /\ OneHolds
  BY DEF IInv
<1>1. ASSUME frame' \in [Contexts -> Frames],
             taskList' \in Tasks \union {NoTask}, next' \in [Tasks -> Tasks \union {NoTask}],
             bus' \in {IdleBus} \union [phase : {"moving", "done"}, task : Tasks],
             faulted' \in BOOLEAN, UNCHANGED receiving,
             result' \in [Threads -> {"unset", "done", "failed"}],
             UNCHANGED driver
      PROVE  TypeOK'
  BY <1>0, <1>1 DEF TypeOK, Frames, Pcs
<1>2. ASSUME frame' \in [Contexts -> Frames],
             UNCHANGED <<taskList, next, bus, faulted, receiving, result>>,
             inUse' \in [Sensors -> BOOLEAN], inFlight' \in [Sensors -> BOOLEAN],
             callback' \in [Sensors -> {"none", "single", "pair"}],
             pairState' \in {"idle", "main", "aux"}, pairCb' \in BOOLEAN
      PROVE  TypeOK'
  BY <1>0, <1>2 DEF TypeOK, Frames, Pcs
<1>3. CASE UNCHANGED vars
  BY <1>0, <1>3 DEF TypeOK, vars
<1>4. CASE BusDone \/ BusFails
  <2>1. bus' \in {IdleBus} \union [phase : {"moving", "done"}, task : Tasks]
    <3>1. bus.phase = "moving" => bus \in [phase : {"moving", "done"}, task : Tasks]
      BY <1>0 DEF TypeOK, IdleBus
    <3> QED
      BY <1>4, <3>1 DEF BusDone, BusFails
  <2>2. faulted' \in BOOLEAN
    BY <1>0, <1>4 DEF BusDone, BusFails, TypeOK
  <2> QED
    BY <1>0, <1>1, <1>4, <2>1, <2>2, FramesAre DEF BusDone, BusFails, TypeOK
<1>5. CASE SampleMain \/ SamplePair
  BY <1>0, <1>2, <1>5, Acquired, Names DEF SampleMain, SamplePair, TypeOK
<1>6. ASSUME NEW t \in Threads, TransferReturns(t) PROVE TypeOK'
  <2>1. t \in Contexts /\ Rest \in Frames
    BY Names DEF Rest, Frames, Pcs
  <2>2. frame' \in [Contexts -> Frames]
    BY <1>0, <1>6, <2>1, FramesAre DEF TransferReturns
  <2> QED
    BY <1>0, <1>1, <1>6, <2>2 DEF TransferReturns, TypeOK
<1>7. ASSUME NEW t \in Threads, NEW r \in BOOLEAN, Transfer(t, r) PROVE TypeOK'
  <2>1. t \in Contexts /\ t \in Tasks
    BY Names
  <2>2. frame' \in [Contexts -> Frames]
    BY <1>0, <1>7, <2>1, FramesAre DEF Transfer, Frames, Pcs
  <2> QED
    BY <1>0, <1>7, <2>2 DEF Transfer, TypeOK, Frames, Pcs
<1>8. ASSUME NEW c \in Contexts, ContextStep(c) PROVE TypeOK'
  <2>0. frame[c] \in Frames /\ frame \in [Contexts -> Frames]
    BY <1>0, FramesAre
  <2>1. CASE AppendTask(c)
    <3>1. Goto(c, "start") \/ Return(c)
      BY <2>1 DEF AppendTask
    <3>2. frame' \in [Contexts -> Frames]
      BY <1>0, <3>1, Gone, Returned DEF Pcs
    <3>3. taskList' \in Tasks \union {NoTask} /\ next' \in [Tasks -> Tasks \union {NoTask}]
      BY <1>0, <2>0, <2>1 DEF AppendTask, TypeOK, Frames
    <3> QED
      BY <1>0, <1>1, <2>1, <3>2, <3>3 DEF AppendTask, TypeOK
  <2>2. CASE RemoveOwn(c)
    <3>1. frame' \in [Contexts -> Frames]
      BY <2>0, <2>2 DEF RemoveOwn, Frames, Pcs
    <3>2. taskList' \in Tasks \union {NoTask} /\ next' \in [Tasks -> Tasks \union {NoTask}]
      <4>1. frame[c].task \in Tasks
        BY <1>0, <2>2 DEF RemoveOwn, At, OneHolds, Holds, InHand
      <4> QED
        BY <1>0, <2>0, <2>2, <4>1 DEF RemoveOwn, TypeOK
    <3> QED
      BY <1>0, <1>1, <2>2, <3>1, <3>2 DEF RemoveOwn, TypeOK
  <2>3. CASE OnComplete(c)
    <3>1. taskList \in Tasks
      BY <1>0, <2>3 DEF OnComplete, TypeOK
    <3>2. frame' \in [Contexts -> Frames]
      BY <2>0, <2>3, <3>1 DEF OnComplete, Frames, Pcs
    <3> QED
      BY <1>0, <1>1, <2>3, <3>1, <3>2 DEF OnComplete, TypeOK
  <2>4. CASE \E ok \in BOOLEAN : StartOwn(c, ok) \/ StartNext(c, ok)
    <3>1. PICK ok \in BOOLEAN : StartOwn(c, ok) \/ StartNext(c, ok)
      BY <2>4
    <3>2. frame' \in [Contexts -> Frames]
      <4>1. CASE StartOwn(c, ok)
        <5>1. Goto(c, "remove") \/ Return(c)
          BY <4>1 DEF StartOwn
        <5> QED
          BY <1>0, <5>1, Gone, Returned DEF Pcs
      <4>2. CASE StartNext(c, ok)
        <5>1. Rest \in Frames
          BY DEF Rest, Frames, Pcs
        <5> QED
          BY <2>0, <4>2, <5>1 DEF StartNext
      <4> QED
        BY <3>1, <4>1, <4>2
    <3>3. /\ bus' \in {IdleBus} \union [phase : {"moving", "done"}, task : Tasks]
          /\ faulted' \in BOOLEAN
      <4>1. CASE Start(ok) /\ Starting(c)
        <5>1. taskList \in Tasks
          BY <1>0, <4>1 DEF OneStarts, TypeOK
        <5> QED
          BY <1>0, <4>1, <5>1 DEF Start, TypeOK
      <4>2. CASE UNCHANGED <<bus, faulted>>
        BY <1>0, <4>2 DEF TypeOK
      <4> QED
        BY <3>1, <4>1, <4>2 DEF StartOwn, StartNext, At, Starting
    <3> QED
      BY <1>0, <1>1, <3>1, <3>2, <3>3 DEF StartOwn, StartNext, TypeOK
  <2>5. CASE DeliverDrv(c)
    BY <1>0, <1>1, <2>5, Returned DEF DeliverDrv, TypeOK
  <2>6. CASE DeliverSample(c)
    BY <1>0, <1>2, <2>6, Gone DEF DeliverSample, TypeOK, Pcs
  <2>7. CASE TakeCallback(c)
    <3>1. callback[frame[c].task] \in {"none", "single", "pair"}
      BY <1>0, <2>7 DEF TakeCallback, At, OneHolds, TypeOK
    <3>2. frame' \in [Contexts -> Frames]
      BY <2>0, <2>7, <3>1 DEF TakeCallback, Frames, Pcs
    <3> QED
      BY <1>0, <1>2, <2>7, <3>2 DEF TakeCallback, TypeOK
  <2>8. CASE ReleaseTask(c)
    BY <1>0, <1>2, <2>8, Gone DEF ReleaseTask, TypeOK, Pcs
  <2>9. CASE NotifyEncoder(c)
    BY <1>0, <1>2, <2>9, Returned DEF NotifyEncoder, TypeOK
  <2>10. CASE NotifyMainDone(c)
    BY <1>0, <1>2, <2>10, Acquired, Names DEF NotifyMainDone, TypeOK
  <2>11. CASE NotifyAuxDone(c)
    BY <1>0, <1>2, <2>11, Gone DEF NotifyAuxDone, TypeOK, Pcs
  <2>12. CASE FinishPair(c)
    BY <1>0, <1>2, <2>12, Returned DEF FinishPair, TypeOK
  <2> QED
    BY <1>8, <2>1, <2>2, <2>3, <2>4, <2>5, <2>6, <2>7, <2>8, <2>9, <2>10, <2>11, <2>12
    DEF ContextStep
<1> QED
  BY <1>3, <1>4, <1>5, <1>6, <1>7, <1>8 DEF Next, Step

-----------------------------------------------------------------------------------
(* What the steps do to the list: most leave it alone, one appends the task in      *)
(* hand, two unlink the first.                                                      *)
LEMMA ListStays ==
  ASSUME UNCHANGED <<taskList, next>>
  PROVE  /\ Linked' = Linked /\ Queue' = Queue
         /\ ListHolds => ListHolds'
<1>1. \A s : IsChain(s)' <=> IsChain(s)
  BY DEF IsChain
<1> QED
  BY <1>1 DEF Linked, Queue, ListHolds, Listed

LEMMA AppendIs ==
  ASSUME IInv, NEW c \in Contexts, AppendTask(c)
  PROVE  /\ frame[c].task \in Tasks /\ frame[c].task \notin Linked
         /\ ListHolds' /\ Queue' = Append(Queue, frame[c].task)
         /\ Linked' = Linked \union {frame[c].task}
         /\ taskList' = IF taskList = NoTask THEN frame[c].task ELSE taskList
         /\ taskList = NoTask => Linked = {}
<1>0. PICK t : t = frame[c].task
  OBVIOUS
<1>1. t \in Tasks /\ t \notin Linked
  BY <1>0 DEF IInv, OneHolds, Holds, InHand, AppendTask, At
<1>2. PICK s \in Orders : Listed(s)
  BY DEF IInv, ListHolds
<1>3. next \in [Tasks -> Tasks \union {NoTask}]
  BY DEF IInv, TypeOK
<1>4. IF taskList = NoTask
      THEN taskList' = t /\ next' = [next EXCEPT ![t] = NoTask]
      ELSE taskList' = taskList /\ next' = [next EXCEPT ![t] = NoTask, ![LastTask] = t]
  BY <1>0 DEF AppendTask
<1>5. Append(s, t) \in Orders /\ Listed(Append(s, t))'
  BY <1>1, <1>2, <1>3, <1>4, AppendListed
<1>6. ReadAs(s) /\ ReadAs(Append(s, t))'
  BY <1>2, <1>5, ListIs, ListIsNext
<1>7. /\ s \in Seq(Tasks) /\ Len(s) \in Nat /\ Len(Append(s, t)) = Len(s) + 1
      /\ Append(s, t)[Len(s) + 1] = t /\ \A i \in 1..Len(s) : Append(s, t)[i] = s[i]
  BY <1>1, <1>2, OrderIs, AppendProperties
<1>8. Linked' = Linked \union {t}
  <2>1. Linked = {s[i] : i \in 1..Len(s)}
    BY <1>6 DEF ReadAs
  <2>2. Linked' = {Append(s, t)[i] : i \in 1..(Len(s) + 1)}
    BY <1>6, <1>7 DEF ReadAs
  <2>3. \A i \in 1..(Len(s) + 1) : i \in 1..Len(s) \/ i = Len(s) + 1
    BY <1>7
  <2>4. \A i \in 1..Len(s) : i \in 1..(Len(s) + 1)
    BY <1>7
  <2>5. Len(s) + 1 \in 1..(Len(s) + 1)
    BY <1>7
  <2> QED
    BY <1>7, <2>1, <2>2, <2>3, <2>4, <2>5
<1>9. taskList = NoTask => Linked = {}
  <2>1. taskList = NoTask => s = <<>>
    BY <1>6 DEF ReadAs
  <2>2. s = <<>> => {s[i] : i \in 1..Len(s)} = {}
    BY EmptySeq
  <2> QED
    BY <1>6, <2>1, <2>2 DEF ReadAs
<1> QED
  BY <1>0, <1>1, <1>4, <1>5, <1>6, <1>8, <1>9 DEF ReadAs, ListHolds

LEMMA LeaveIs ==
  ASSUME IInv, NEW c \in Contexts, RemoveOwn(c) \/ OnComplete(c)
  PROVE  /\ taskList \in Tasks /\ taskList \in Linked
         /\ ListHolds' /\ Queue # <<>> /\ Queue' = Tail(Queue)
         /\ Linked' = Linked \ {taskList} /\ taskList' = next[taskList]
<1>1. taskList # NoTask
  BY DEF IInv, OneStarts, Starting, RemoveOwn, OnComplete, At
<1>2. taskList' = next[taskList] /\ next' = [next EXCEPT ![taskList] = NoTask]
  <2>1. CASE RemoveOwn(c)
    <3>1. frame[c].task = taskList
      BY <2>1 DEF IInv, OneStarts, RemoveOwn, At
    <3> QED
      BY <2>1, <3>1 DEF RemoveOwn
  <2>2. CASE OnComplete(c)
    BY <2>2 DEF OnComplete
  <2> QED
    BY <2>1, <2>2
<1>3. PICK s \in Orders : Listed(s)
  BY DEF IInv, ListHolds
<1>4. next \in [Tasks -> Tasks \union {NoTask}]
  BY DEF IInv, TypeOK
<1>5. ReadAs(s) /\ s # <<>>
  BY <1>1, <1>3, ListIs DEF ReadAs
<1>6. Tail(s) \in Orders /\ Listed(Tail(s))'
  BY <1>2, <1>3, <1>4, <1>5, HeadUnlinked
<1>7. ReadAs(Tail(s))'
  BY <1>6, ListIsNext
<1>8. /\ s \in Seq(Tasks) /\ Len(s) \in Nat /\ Len(s) > 0 /\ Len(Tail(s)) = Len(s) - 1
      /\ \A i \in 1..(Len(s) - 1) : Tail(s)[i] = s[i + 1]
      /\ \A i, j \in 1..Len(s) : s[i] = s[j] => i = j
  BY <1>3, <1>5, OrderIs, HeadTailProperties
<1>9. Linked' = Linked \ {taskList}
  <2>1. Linked = {s[i] : i \in 1..Len(s)} /\ taskList = s[1]
    BY <1>5 DEF ReadAs
  <2>2. Linked' = {Tail(s)[i] : i \in 1..(Len(s) - 1)}
    BY <1>7, <1>8 DEF ReadAs
  <2>3. \A i \in 1..Len(s) : i # 1 => i - 1 \in 1..(Len(s) - 1) /\ (i - 1) + 1 = i
    BY <1>8, Neighbours
  <2>4. \A i \in 1..(Len(s) - 1) : i + 1 \in 1..Len(s) /\ i + 1 # 1
    BY <1>8
  <2>5. 1 \in 1..Len(s)
    BY <1>8
  <2>6. ASSUME NEW t \in Linked' PROVE t \in Linked \ {taskList}
    <3>1. PICK i \in 1..(Len(s) - 1) : t = s[i + 1]
      BY <1>8, <2>2
    <3> QED
      BY <1>8, <2>1, <2>4, <2>5, <3>1
  <2>7. ASSUME NEW t \in Linked, t # taskList PROVE t \in Linked'
    <3>1. PICK i \in 1..Len(s) : t = s[i]
      BY <2>1
    <3>2. i # 1
      BY <2>1, <2>7, <3>1
    <3>3. i - 1 \in 1..(Len(s) - 1) /\ t = Tail(s)[i - 1]
      BY <1>8, <2>3, <3>1, <3>2
    <3> QED
      BY <2>2, <3>3
  <2> QED
    BY <2>6, <2>7
<1> QED
  BY <1>1, <1>2, <1>5, <1>6, <1>7, <1>9 DEF ReadAs, ListHolds, Linked

(* Each action leaves the pointers alone, or is one of these.                       *)
LEMMA ListStep ==
  ASSUME IInv, [Next]_vars
  PROVE  /\ ListHolds'
         /\ \/ UNCHANGED <<taskList, next>>
            \/ \E c \in Contexts : AppendTask(c) \/ RemoveOwn(c) \/ OnComplete(c)
<1>1. \/ UNCHANGED <<taskList, next>>
      \/ \E c \in Contexts : AppendTask(c) \/ RemoveOwn(c) \/ OnComplete(c)
  BY DEF Next, Step, ContextStep, vars, BusDone, BusFails, SampleMain, SamplePair, Transfer,
         TransferReturns, StartOwn, StartNext, DeliverDrv, DeliverSample, TakeCallback,
         ReleaseTask, NotifyEncoder, NotifyMainDone, NotifyAuxDone, FinishPair
<1>2. IInv => ListHolds
  BY DEF IInv
<1> QED
  BY <1>1, <1>2, ListStays, AppendIs, LeaveIs

-----------------------------------------------------------------------------------
(* Who starts the first task. Most steps leave that as it is.                       *)
LEMMA StartsStay ==
  ASSUME IInv, NEW c \in Contexts, UNCHANGED <<taskList, bus, faulted>>,
         \A d \in Contexts \ {c} : frame'[d] = frame[d],
         frame[c].pc \notin {"start", "remove"}, frame'[c].pc \notin {"start", "remove"},
         frame'[c].more <=> frame[c].more, frame[c].more => frame'[c].pc # "idle"
  PROVE  OneStarts' /\ NothingForgotten'
<1>1. \A d \in Contexts : Starting(d)' <=> Starting(d)
  BY DEF Starting
<1>2. OneStarts'
  BY <1>1 DEF IInv, OneStarts
<1>3. NothingForgotten'
  BY DEF IInv, NothingForgotten
<1> QED
  BY <1>2, <1>3

LEMMA AppendStarts ==
  ASSUME IInv, NEW c \in Contexts, AppendTask(c)
  PROVE  OneStarts' /\ NothingForgotten'
<1>1. frame[c].pc = "append" /\ UNCHANGED <<bus, faulted>>
  BY DEF AppendTask, At
<1>2. CASE taskList = NoTask
  <2>1. \A d \in Contexts : ~Starting(d)
    BY <1>2 DEF IInv, OneStarts
  <2>2. bus.phase = "idle"
    BY <1>2, SpiAssumption DEF IInv, OneStarts, TypeOK, IdleBus
  <2>3. /\ \A d \in Contexts \ {c} : frame'[d] = frame[d]
        /\ frame'[c].pc = "start" /\ frame'[c].task = frame[c].task
        /\ frame'[c].more = frame[c].more
    BY <1>2, Gone DEF AppendTask, IInv, Pcs
  <2>4. taskList' = frame[c].task /\ taskList' # NoTask
    BY <1>2, AppendIs, SpiAssumption
  <2>5. Starting(c)' /\ \A d \in Contexts \ {c} : ~Starting(d)'
    BY <2>1, <2>3 DEF Starting
  <2>6. \A d \in Contexts : ~frame'[d].more
    BY <2>1, <2>3 DEF Starting
  <2>7. \A d \in Contexts \ {c} : frame'[d].pc \notin {"start", "remove"}
    BY <2>1, <2>3 DEF Starting
  <2> QED
    BY <1>1, <2>2, <2>3, <2>4, <2>5, <2>6, <2>7 DEF OneStarts, NothingForgotten
<1>3. CASE taskList # NoTask
  <2>1. Return(c) /\ taskList' = taskList
    BY <1>3 DEF AppendTask
  <2>2. \A d \in Contexts \ {c} : frame'[d] = frame[d]
    BY <2>1, Returned DEF IInv
  <2>3. frame'[c].pc \in {"idle", "wait", "startNext"}
    BY <2>1, Returned DEF IInv
  <2> QED
    BY <1>1, <2>1, <2>2, <2>3, ReturnedMore, StartsStay
<1> QED
  BY <1>2, <1>3

LEMMA StartOwnStarts ==
  ASSUME IInv, NEW c \in Contexts, NEW ok \in BOOLEAN, StartOwn(c, ok)
  PROVE  OneStarts' /\ NothingForgotten'
<1>1. frame[c].pc = "start" /\ UNCHANGED taskList /\ Start(ok)
  BY DEF StartOwn, At
<1>2. /\ Starting(c) /\ bus.phase = "idle" /\ taskList # NoTask
      /\ frame[c].task = taskList /\ ~frame[c].more
      /\ \A d \in Contexts \ {c} : ~Starting(d)
  BY <1>1 DEF IInv, OneStarts, Starting
<1>3. CASE ok
  <2>1. Return(c)
    BY <1>3 DEF StartOwn
  <2>2. /\ \A d \in Contexts \ {c} : frame'[d] = frame[d]
        /\ frame'[c].pc \in {"idle", "wait", "startNext"} /\ ~frame'[c].more
    BY <1>2, <2>1, Returned, ReturnedMore DEF IInv
  <2>3. \A d \in Contexts : ~Starting(d)'
    BY <1>2, <2>2 DEF Starting
  <2>4. bus'.phase = "moving" /\ bus'.task = taskList'
    BY <1>1, <1>3 DEF Start
  <2> QED
    BY <2>3, <2>4 DEF OneStarts, NothingForgotten, Starting
<1>4. CASE ~ok
  <2>1. Goto(c, "remove") /\ faulted' /\ UNCHANGED bus
    BY <1>1, <1>4 DEF StartOwn, Start
  <2>2. /\ \A d \in Contexts \ {c} : frame'[d] = frame[d]
        /\ frame'[c].pc = "remove" /\ frame'[c].task = frame[c].task /\ ~frame'[c].more
    BY <1>2, <2>1, Gone DEF IInv, Pcs
  <2>3. Starting(c)' /\ \A d \in Contexts \ {c} : ~Starting(d)'
    BY <1>2, <2>2 DEF Starting
  <2> QED
    BY <1>1, <1>2, <2>1, <2>2, <2>3 DEF OneStarts, NothingForgotten, Starting
<1> QED
  BY <1>3, <1>4

LEMMA StartNextStarts ==
  ASSUME IInv, NEW c \in Contexts, NEW ok \in BOOLEAN, StartNext(c, ok)
  PROVE  OneStarts' /\ NothingForgotten'
<1>1. frame[c].pc = "startNext" /\ UNCHANGED taskList /\ frame' = [frame EXCEPT ![c] = Rest]
  BY DEF StartNext, At
<1>2. /\ \A d \in Contexts \ {c} : frame'[d] = frame[d]
      /\ frame'[c].pc = "idle" /\ ~frame'[c].more
  BY <1>1, FramesAre DEF IInv, Rest
<1>3. CASE frame[c].more
  <2>1. Start(ok)
    BY <1>3 DEF StartNext
  <2>2. /\ bus.phase = "idle" /\ \A d \in Contexts \ {c} : ~Starting(d)
    BY <1>3 DEF IInv, OneStarts, Starting
  <2>3. \A d \in Contexts : ~Starting(d)'
    BY <1>2, <2>2 DEF Starting
  <2>4. \/ bus'.phase = "moving" /\ bus'.task = taskList'
        \/ bus'.phase = "idle" /\ faulted'
    BY <1>1, <2>1, <2>2 DEF Start
  <2> QED
    BY <2>3, <2>4 DEF OneStarts, NothingForgotten, Starting
<1>4. CASE ~frame[c].more
  <2>1. UNCHANGED <<bus, faulted>>
    BY <1>4 DEF StartNext
  <2> QED
    BY <1>1, <1>2, <1>4, <2>1, StartsStay
<1> QED
  BY <1>3, <1>4

LEMMA RemoveStarts ==
  ASSUME IInv, NEW c \in Contexts, RemoveOwn(c)
  PROVE  OneStarts' /\ NothingForgotten'
<1>1. frame[c].pc = "remove" /\ UNCHANGED <<bus, faulted>>
  BY DEF RemoveOwn, At
<1>2. /\ bus.phase = "idle" /\ faulted /\ ~frame[c].more
      /\ \A d \in Contexts \ {c} : ~Starting(d)
  BY <1>1 DEF IInv, OneStarts, Starting
<1>3. /\ \A d \in Contexts \ {c} : frame'[d] = frame[d]
      /\ frame'[c].pc = "deliver" /\ ~frame'[c].more
  BY <1>2, FramesAre DEF IInv, RemoveOwn, Frames
<1>4. \A d \in Contexts : ~Starting(d)'
  BY <1>2, <1>3 DEF Starting
<1> QED
  BY <1>1, <1>2, <1>4 DEF OneStarts, NothingForgotten, Starting

LEMMA CompleteStarts ==
  ASSUME IInv, NEW c \in Contexts, OnComplete(c)
  PROVE  OneStarts' /\ NothingForgotten'
<1>1. /\ bus.phase = "done" /\ bus'.phase = "idle" /\ c \in {"txDone", "rxDone"}
      /\ UNCHANGED faulted /\ taskList' = next[taskList]
  BY DEF OnComplete, DoneContext, IdleBus
<1>2. \A d \in Contexts : ~Starting(d)
  BY <1>1 DEF IInv, OneStarts
<1>3. /\ \A d \in Contexts \ {c} : frame'[d] = frame[d]
      /\ frame'[c].pc = "deliver" /\ frame'[c].more = (taskList' # NoTask)
  BY <1>1, FramesAre DEF IInv, OnComplete
<1>4. (Starting(c)' <=> taskList' # NoTask) /\ \A d \in Contexts \ {c} : ~Starting(d)'
  BY <1>2, <1>3 DEF Starting
<1> QED
  BY <1>1, <1>3, <1>4 DEF OneStarts, NothingForgotten, Starting

LEMMA StartsStep ==
  ASSUME IInv, [Next]_vars
  PROVE  OneStarts' /\ NothingForgotten'
<1>0. /\ TypeOK /\ OneStarts /\ NothingForgotten
      /\ frame \in [Contexts -> Frames] /\ \A c \in Contexts : frame[c].more \in BOOLEAN
  BY FramesAre DEF IInv, Frames
<1>1. CASE UNCHANGED vars
  BY <1>0, <1>1 DEF vars, OneStarts, NothingForgotten, Starting
<1>2. CASE BusDone
  <2>1. /\ bus.phase = "moving" /\ bus'.phase = "done" /\ bus'.task = bus.task
        /\ UNCHANGED <<taskList, frame, faulted>>
    BY <1>0, <1>2 DEF BusDone, TypeOK, IdleBus
  <2> QED
    BY <1>0, <2>1 DEF OneStarts, NothingForgotten, Starting
<1>3. CASE BusFails
  <2>1. bus.phase = "moving" /\ bus'.phase = "idle" /\ faulted' /\ UNCHANGED <<taskList, frame>>
    BY <1>0, <1>3 DEF BusFails, IdleBus
  <2> QED
    BY <1>0, <2>1 DEF OneStarts, NothingForgotten, Starting
<1>4. ASSUME NEW c \in Contexts, NEW t \in Sensors, NEW cb \in {"none", "single", "pair"},
             Acquire(c, t, cb), UNCHANGED <<taskList, bus, faulted>>,
             frame[c].pc \in {"idle", "notify"}
      PROVE  OneStarts' /\ NothingForgotten'
  <2>1. /\ \A d \in Contexts \ {c} : frame'[d] = frame[d]
        /\ frame'[c].pc = "append" /\ frame'[c].more = frame[c].more
    BY <1>0, <1>4, Acquired
  <2> QED
    BY <1>4, <2>1, StartsStay
<1>5. CASE SampleMain \/ SamplePair
  BY <1>4, <1>5, Names DEF SampleMain, SamplePair, At
<1>6. ASSUME NEW t \in Threads, TransferReturns(t) PROVE OneStarts' /\ NothingForgotten'
  <2>1. t \in Contexts /\ ~frame[t].more
    BY <1>0, Names DEF OneStarts
  <2>2. /\ \A d \in Contexts \ {t} : frame'[d] = frame[d]
        /\ frame'[t].pc = "idle" /\ ~frame'[t].more
    BY <1>0, <1>6, <2>1 DEF TransferReturns, Rest
  <2>3. frame[t].pc = "wait" /\ UNCHANGED <<taskList, bus, faulted>>
    BY <1>6 DEF TransferReturns, At
  <2> QED
    BY <2>1, <2>2, <2>3, StartsStay
<1>7. ASSUME NEW t \in Threads, NEW r \in BOOLEAN, Transfer(t, r)
      PROVE  OneStarts' /\ NothingForgotten'
  <2>1. t \in Contexts
    BY Names
  <2>2. /\ \A d \in Contexts \ {t} : frame'[d] = frame[d]
        /\ frame'[t].pc = "append" /\ frame'[t].more = frame[t].more
    BY <1>0, <1>7, <2>1 DEF Transfer, Frames
  <2>3. frame[t].pc = "idle" /\ UNCHANGED <<taskList, bus, faulted>>
    BY <1>7 DEF Transfer, At
  <2> QED
    BY <2>1, <2>2, <2>3, StartsStay
<1>8. ASSUME NEW c \in Contexts, ContextStep(c) PROVE OneStarts' /\ NothingForgotten'
  <2>1. CASE AppendTask(c)
    BY <2>1, AppendStarts
  <2>2. CASE RemoveOwn(c)
    BY <2>2, RemoveStarts
  <2>3. CASE OnComplete(c)
    BY <2>3, CompleteStarts
  <2>4. CASE \E ok \in BOOLEAN : StartOwn(c, ok) \/ StartNext(c, ok)
    BY <2>4, StartOwnStarts, StartNextStarts
  <2>5. ASSUME frame[c].pc \in {"deliver", "take", "release", "notify", "finish"},
               UNCHANGED <<taskList, bus, faulted>>,
               Return(c) \/ \E pc \in {"take", "notify", "finish"} : Goto(c, pc)
        PROVE  OneStarts' /\ NothingForgotten'
    <3>1. CASE Return(c)
      <4>1. /\ \A d \in Contexts \ {c} : frame'[d] = frame[d]
            /\ frame'[c].pc \in {"idle", "wait", "startNext"}
        BY <1>0, <3>1, Returned
      <4> QED
        BY <2>5, <3>1, <4>1, ReturnedMore, StartsStay
    <3>2. CASE \E pc \in {"take", "notify", "finish"} : Goto(c, pc)
      <4>1. /\ \A d \in Contexts \ {c} : frame'[d] = frame[d]
            /\ frame'[c].pc \in {"take", "notify", "finish"} /\ frame'[c].more = frame[c].more
        BY <1>0, <3>2, Gone DEF Pcs
      <4> QED
        BY <2>5, <4>1, StartsStay
    <3> QED
      BY <2>5, <3>1, <3>2
  <2>6. CASE DeliverDrv(c) \/ DeliverSample(c) \/ ReleaseTask(c) \/ NotifyEncoder(c)
               \/ NotifyAuxDone(c) \/ FinishPair(c)
    BY <2>5, <2>6 DEF DeliverDrv, DeliverSample, ReleaseTask, NotifyEncoder, NotifyAuxDone,
                      FinishPair, At
  <2>7. CASE TakeCallback(c)
    <3>1. /\ \A d \in Contexts \ {c} : frame'[d] = frame[d]
          /\ frame'[c].pc = "release" /\ frame'[c].more = frame[c].more
      BY <1>0, <2>7 DEF TakeCallback, Frames
    <3>2. frame[c].pc = "take" /\ UNCHANGED <<taskList, bus, faulted>>
      BY <2>7 DEF TakeCallback, At
    <3> QED
      BY <3>1, <3>2, StartsStay
  <2>8. CASE NotifyMainDone(c)
    BY <1>4, <2>8, Names DEF NotifyMainDone, At
  <2> QED
    BY <1>8, <2>1, <2>2, <2>3, <2>4, <2>6, <2>7, <2>8 DEF ContextStep
<1> QED
  BY <1>1, <1>2, <1>3, <1>5, <1>6, <1>7, <1>8 DEF Next, Step

-----------------------------------------------------------------------------------
(* Who has a task in hand. A step is one of one context, and it concerns one task,  *)
(* t, which nobody else has in hand.                                                *)
Apart == {"append", "deliver", "take", "release"}

Moves(c, t) ==
  /\ \A d \in Contexts \ {c} : frame'[d] = frame[d] /\ (Holds(d) => frame[d].task # t)
  /\ \A u \in Tasks \ {t} : Pending(u) => Pending(u)'
  /\ \A u \in Sensors \ {t} : inUse'[u] = inUse[u]
  /\ Holds(c)' => /\ frame'[c].task \in Tasks
                  /\ \A d \in Contexts \ {c} : Holds(d) => frame[d].task # frame'[c].task
  /\ frame'[c].pc \in InHand => Pending(frame[c].task)'
  /\ frame'[c].pc \in Apart => frame'[c].task \notin Linked'
  /\ frame'[c].pc \in {"take", "release"}
        => frame'[c].task \in Sensors /\ inUse'[frame'[c].task]
  /\ c \in Threads =>
        /\ frame'[c].pc \in {"idle", "append", "start", "remove", "wait", "deliver"}
        /\ frame'[c].pc # "idle" => frame'[c].task = c

LEMMA HoldsIf ==
  ASSUME IInv, NEW c \in Contexts, NEW t, Moves(c, t),
         \A d \in Contexts \ {c} : frame[d].pc \in Apart => frame[d].task \notin Linked',
         \A u \in Linked' : Pending(u)'
  PROVE  OneHolds'
<1> USE DEF Moves
<1>1. OneHolds
  BY DEF IInv
<1>2. \A d \in Contexts \ {c} : Holds(d)' <=> Holds(d)
  BY DEF Holds
<1>3. ASSUME NEW d \in Contexts
      PROVE  /\ Holds(d)' => /\ frame'[d].task \in Tasks
                             /\ \A e \in Contexts :
                                   Holds(e)' /\ frame'[e].task = frame'[d].task => e = d
             /\ frame'[d].pc \in InHand => Pending(frame[d].task)'
             /\ frame'[d].pc \in Apart => frame'[d].task \notin Linked'
             /\ frame'[d].pc \in {"take", "release"}
                  => frame'[d].task \in Sensors /\ inUse'[frame'[d].task]
  <2>1. CASE d = c
    <3>1. \A e \in Contexts \ {c} : Holds(e)' => frame'[e].task # frame'[c].task \/ ~Holds(c)'
      BY <1>2
    <3> QED
      BY <2>1, <3>1
  <2>2. CASE d # c
    <3>1. frame'[d] = frame[d] /\ (Holds(d)' <=> Holds(d))
      BY <1>2, <2>2
    <3>2. Holds(d) => /\ frame[d].task \in Tasks \ {t}
                      /\ \A e \in Contexts :
                            Holds(e) /\ frame[e].task = frame[d].task => e = d
      BY <1>1, <2>2 DEF OneHolds
    <3>3. \A e \in Contexts :
             Holds(d)' /\ Holds(e)' /\ frame'[e].task = frame'[d].task => e = d
      <4>1. \A e \in Contexts \ {c} :
               Holds(d)' /\ Holds(e)' /\ frame'[e].task = frame'[d].task => e = d
        BY <1>2, <3>1, <3>2
      <4>2. Holds(d)' /\ Holds(c)' => frame'[c].task # frame'[d].task
        BY <2>2, <3>1
      <4> QED
        BY <4>1, <4>2
    <3>4. frame[d].pc \in InHand => Pending(frame[d].task) /\ Holds(d)
      BY <1>1 DEF OneHolds, Holds
    <3>5. frame'[d].pc \in InHand => Pending(frame[d].task)'
      <4>1. \A u : u = frame[d].task /\ frame[d].pc \in InHand => Pending(u)'
        BY <3>2, <3>4
      <4>2. \A u : u = frame'[d].task /\ Pending(u)' => Pending(frame[d].task)'
        BY DEF Pending
      <4> QED
        BY <3>1, <4>1, <4>2
    <3>6. frame'[d].pc \in {"take", "release"}
             => frame'[d].task \in Sensors /\ inUse'[frame'[d].task]
      BY <1>1, <3>1, <3>2 DEF OneHolds, Holds
    <3> QED
      BY <2>2, <3>1, <3>2, <3>3, <3>5, <3>6
  <2> QED
    BY <2>1, <2>2
<1>4. \A u \in Threads :
         /\ frame'[u].pc \in {"idle", "append", "start", "remove", "wait", "deliver"}
         /\ frame'[u].pc # "idle" => frame'[u].task = u
  BY <1>1, Names DEF OneHolds
<1> QED
  BY <1>3, <1>4 DEF OneHolds, Apart

(* The same, when the list stays.                                                   *)
LEMMA HoldsStay ==
  ASSUME IInv, NEW c \in Contexts, NEW t, Moves(c, t), t \notin Linked,
         UNCHANGED <<taskList, next>>
  PROVE  OneHolds'
<1>1. Linked' = Linked /\ Linked \subseteq Tasks
  BY ListStays DEF Linked
<1>2. \A d \in Contexts \ {c} : frame[d].pc \in Apart => frame[d].task \notin Linked'
  BY <1>1 DEF IInv, OneHolds, Apart
<1>3. \A u \in Linked' : Pending(u)'
  BY <1>1 DEF IInv, OneHolds, Moves
<1> QED
  BY <1>1, <1>2, <1>3, HoldsIf

LEMMA PendingStays ==
  ASSUME NEW c \in Contexts, NEW t,
         \A d \in Contexts \ {c} : frame'[d] = frame[d],
         c \in Threads \ {t} => frame'[c].pc # "idle",
         \A u \in Sensors \ {t} : inUse'[u] = inUse[u] /\ inFlight'[u] = inFlight[u],
         \A u \in Threads \ {t} : result'[u] = result[u]
  PROVE  \A u \in Tasks \ {t} : Pending(u) => Pending(u)'
<1> SUFFICES ASSUME NEW u \in Tasks \ {t}, Pending(u) PROVE Pending(u)'
  OBVIOUS
<1>1. CASE u \in Sensors
  BY <1>1 DEF Pending
<1>2. CASE u \in Threads
  <2>1. u \notin Sensors /\ u \in Contexts
    BY <1>2, Names
  <2>2. frame[u].pc # "idle" /\ result[u] = "unset"
    BY <2>1 DEF Pending
  <2>3. frame'[u].pc # "idle"
    BY <1>2, <2>1, <2>2
  <2> QED
    BY <1>2, <2>1, <2>2, <2>3 DEF Pending
<1> QED
  BY <1>1, <1>2, Names

(* What is known of a task in hand.                                                 *)
LEMMA HeldIs ==
  ASSUME IInv, NEW c \in Contexts, Holds(c)
  PROVE  /\ frame[c].task \in Tasks /\ frame[c].task # NoTask
         /\ \A d \in Contexts \ {c} : Holds(d) => frame[d].task # frame[c].task
         /\ frame[c].pc \in InHand => Pending(frame[c].task)
         /\ frame[c].pc \in Apart => frame[c].task \notin Linked
         /\ frame[c].pc \in {"take", "release"}
              => frame[c].task \in Sensors /\ inUse[frame[c].task]
         /\ c \in Threads => frame[c].task = c
BY Names DEF IInv, OneHolds, Holds, InHand, Apart

(* No task: a step that concerns none.                                              *)
LEMMA NoTaskIs ==
  ASSUME IInv
  PROVE  /\ NoTask \notin Linked /\ \A c \in Contexts : Holds(c) => frame[c].task # NoTask
         /\ Tasks \ {NoTask} = Tasks /\ Sensors \ {NoTask} = Sensors
         /\ Threads \ {NoTask} = Threads
BY HeldIs, Names DEF Linked

LEMMA AppendHolds ==
  ASSUME IInv, NEW c \in Contexts, AppendTask(c)
  PROVE  OneHolds'
<1>1. /\ frame[c].pc = "append" /\ Holds(c)
      /\ UNCHANGED <<inUse, inFlight, result>>
  BY DEF AppendTask, At, Holds, InHand, driver
<1>2. Goto(c, "start") \/ Return(c)
  BY DEF AppendTask
<1>3. /\ \A d \in Contexts \ {c} : frame'[d] = frame[d]
      /\ \/ frame'[c].pc = "start" /\ frame'[c].task = frame[c].task
         \/ frame'[c].pc \in {"idle", "wait", "startNext"}
      /\ c \in Threads => /\ frame'[c].pc \in {"start", "wait"}
                          /\ frame'[c].task = frame[c].task
  BY <1>2, Gone, Returned, Names DEF IInv, Pcs
<1>4. \A u \in Tasks : Pending(u) => Pending(u)'
  BY <1>1, <1>3, NoTaskIs, PendingStays
<1>5. Linked' = Linked \union {frame[c].task}
  BY AppendIs
<1>6. \A u \in Linked' : Pending(u)'
  <2>1. \A u \in Linked : u \in Tasks /\ Pending(u)
    BY DEF IInv, OneHolds, Linked
  <2>2. \A u : u = frame[c].task => u \in Tasks /\ Pending(u)
    BY <1>1, HeldIs DEF InHand
  <2> QED
    BY <1>4, <1>5, <2>1, <2>2
<1>7. \A d \in Contexts \ {c} : frame[d].pc \in Apart => frame[d].task \notin Linked'
  BY <1>1, <1>5, HeldIs DEF Apart, Holds, InHand
<1>8. frame'[c].pc \in InHand => Pending(frame[c].task)'
  <2>1. frame'[c].pc \in InHand => frame'[c].task \in Linked'
    BY <1>3, <1>5 DEF InHand
  <2>2. \A u : u = frame'[c].task /\ Pending(u)' => Pending(frame[c].task)'
    BY DEF Pending
  <2> QED
    BY <1>6, <2>1, <2>2
<1>9. Holds(c)' => frame'[c].task = frame[c].task
  BY <1>3 DEF Holds, InHand
<1>10. Moves(c, NoTask)
  <2>1. \A d \in Contexts \ {c} : Holds(d) => frame[d].task # frame[c].task
    BY <1>1, HeldIs
  <2>2. frame[c].task \in Tasks /\ (c \in Threads => frame[c].task = c)
    BY <1>1, HeldIs
  <2>3. \A d \in Contexts \ {c} : Holds(d) => frame[d].task # NoTask
    BY NoTaskIs
  <2>4. Holds(c)' => /\ frame'[c].task \in Tasks
                    /\ \A d \in Contexts \ {c} : Holds(d) => frame[d].task # frame'[c].task
    BY <1>9, <2>1, <2>2
  <2>5. frame'[c].pc \notin Apart /\ frame'[c].pc \notin {"take", "release"}
    BY <1>3 DEF Apart
  <2> QED
    BY <1>1, <1>3, <1>4, <1>8, <2>2, <2>3, <2>4, <2>5, NoTaskIs DEF Moves
<1> QED
  BY <1>6, <1>7, <1>10, HoldsIf

LEMMA RemoveHolds ==
  ASSUME IInv, NEW c \in Contexts, RemoveOwn(c)
  PROVE  OneHolds'
<1>1. /\ frame[c].pc = "remove" /\ Holds(c)
      /\ UNCHANGED <<inUse, inFlight, result>>
  BY DEF RemoveOwn, At, Holds, InHand, driver
<1>2. /\ \A d \in Contexts \ {c} : frame'[d] = frame[d]
      /\ frame'[c].pc = "deliver" /\ frame'[c].task = frame[c].task
  BY FramesAre DEF RemoveOwn, IInv, Frames
<1>3. frame[c].task = taskList
  BY <1>1 DEF IInv, OneStarts
<1>4. \A u \in Tasks : Pending(u) => Pending(u)'
  BY <1>1, <1>2, NoTaskIs, PendingStays
<1>5. Linked' = Linked \ {frame[c].task}
  BY <1>3, LeaveIs
<1>6. \A u \in Linked' : Pending(u)'
  BY <1>4, <1>5 DEF IInv, OneHolds, Linked
<1>7. \A d \in Contexts \ {c} : frame[d].pc \in Apart => frame[d].task \notin Linked'
  BY <1>5 DEF IInv, OneHolds, Apart
<1>8. Pending(frame[c].task)'
  <2>1. \A u : u = frame[c].task => Pending(u)'
    BY <1>1, <1>4, HeldIs DEF InHand
  <2>2. \A u : u = frame'[c].task /\ Pending(u)' => Pending(frame[c].task)'
    BY DEF Pending
  <2> QED
    BY <1>2, <2>1, <2>2
<1>9. Moves(c, NoTask)
  <2>1. /\ frame[c].task \in Tasks /\ (c \in Threads => frame[c].task = c)
        /\ \A d \in Contexts \ {c} : Holds(d) => frame[d].task # frame[c].task
    BY <1>1, HeldIs
  <2>2. \A d \in Contexts \ {c} : Holds(d) => frame[d].task # NoTask
    BY NoTaskIs
  <2>3. frame'[c].task \notin Linked' /\ frame'[c].pc \notin {"take", "release"}
    BY <1>2, <1>5
  <2> QED
    BY <1>1, <1>2, <1>4, <1>8, <2>1, <2>2, <2>3, NoTaskIs DEF Moves
<1> QED
  BY <1>6, <1>7, <1>9, HoldsIf

LEMMA CompleteHolds ==
  ASSUME IInv, NEW c \in Contexts, OnComplete(c)
  PROVE  OneHolds'
<1>1. /\ bus.phase = "done" /\ c \in {"txDone", "rxDone"} /\ c \notin Threads
      /\ UNCHANGED <<inUse, inFlight, result>>
  BY Names DEF OnComplete, DoneContext, driver
<1>2. /\ \A d \in Contexts \ {c} : frame'[d] = frame[d]
      /\ frame'[c].pc = "deliver" /\ frame'[c].task = taskList
  BY FramesAre DEF IInv, OnComplete
<1>3. taskList \in Tasks /\ taskList \in Linked /\ Linked' = Linked \ {taskList}
  BY LeaveIs
<1>4. \A u \in Tasks : Pending(u) => Pending(u)'
  BY <1>1, <1>2, NoTaskIs, PendingStays
<1>5. \A d \in Contexts : Holds(d) => frame[d].task # taskList
  <2>1. \A d \in Contexts : frame[d].pc \notin {"start", "remove"}
    BY <1>1 DEF IInv, OneStarts, Starting
  <2> QED
    BY <1>3, <2>1 DEF IInv, OneHolds, Holds, InHand
<1>6. \A u \in Linked' : Pending(u)'
  BY <1>3, <1>4 DEF IInv, OneHolds, Linked
<1>7. \A d \in Contexts \ {c} : frame[d].pc \in Apart => frame[d].task \notin Linked'
  BY <1>3 DEF IInv, OneHolds, Apart
<1>8. Pending(frame[c].task)'
  <2>1. \A u : u = taskList => Pending(u)'
    BY <1>3, <1>4 DEF IInv, OneHolds
  <2>2. \A u : u = frame'[c].task /\ Pending(u)' => Pending(frame[c].task)'
    BY DEF Pending
  <2> QED
    BY <1>2, <2>1, <2>2
<1>9. Moves(c, NoTask)
  <2>1. \A d \in Contexts \ {c} : Holds(d) => frame[d].task # NoTask
    BY NoTaskIs
  <2>2. frame'[c].task \notin Linked' /\ frame'[c].pc \notin {"take", "release"}
    BY <1>2, <1>3
  <2> QED
    BY <1>1, <1>2, <1>3, <1>4, <1>5, <1>8, <2>1, <2>2, NoTaskIs DEF Moves
<1> QED
  BY <1>6, <1>7, <1>9, HoldsIf

(* Steps that leave the tasks alone.                                                *)
LEMMA HoldsKept ==
  ASSUME IInv, NEW c \in Contexts, UNCHANGED <<taskList, next, inUse, inFlight, result>>,
         \A d \in Contexts \ {c} : frame'[d] = frame[d],
         \/ frame'[c].pc \in {"idle", "wait", "startNext", "notify", "finish"}
         \/ /\ frame'[c].task = frame[c].task
            /\ \/ frame[c].pc = "start" /\ frame'[c].pc = "remove"
               \/ frame[c].pc = "take" /\ frame'[c].pc = "release",
         c \in Threads => frame'[c].pc \in {"wait", "remove"} /\ frame'[c].task = c
  PROVE  OneHolds'
<1>1. /\ \A u \in Tasks : Pending(u) => Pending(u)'
      /\ \A d \in Contexts \ {c} : Holds(d) => frame[d].task # NoTask
      /\ Linked' = Linked /\ NoTask \notin Linked
  BY NoTaskIs, PendingStays, ListStays
<1>2. Holds(c)' => Holds(c) /\ frame'[c].task = frame[c].task
  BY DEF Holds, InHand
<1>3. frame'[c].pc \in InHand => Pending(frame[c].task)'
  <2>1. frame'[c].pc \in InHand => frame[c].pc \in InHand /\ frame'[c].task = frame[c].task
                                   /\ Holds(c)
    BY DEF InHand, Holds
  <2>2. \A u : u = frame[c].task /\ frame'[c].pc \in InHand => Pending(u)'
    BY <1>1, <2>1, HeldIs
  <2>3. \A u : u = frame'[c].task /\ Pending(u)' => Pending(frame[c].task)'
    BY DEF Pending
  <2> QED
    BY <2>1, <2>2, <2>3
<1>4. Holds(c)' => /\ frame'[c].task \in Tasks
                  /\ \A d \in Contexts \ {c} : Holds(d) => frame[d].task # frame'[c].task
  BY <1>2, HeldIs
<1>5. /\ frame'[c].pc \in Apart => frame'[c].task \notin Linked'
      /\ frame'[c].pc \in {"take", "release"}
           => frame'[c].task \in Sensors /\ inUse'[frame'[c].task]
  <2>1. frame'[c].pc \in Apart \union {"take", "release"} => frame[c].pc = "take"
    BY DEF Apart
  <2>2. frame[c].pc = "take" => /\ frame[c].task \notin Linked
                                /\ frame[c].task \in Sensors /\ inUse[frame[c].task]
    BY DEF IInv, OneHolds
  <2>3. frame[c].pc = "take" /\ frame'[c].pc \in Apart \union {"take", "release"}
          => frame'[c].task = frame[c].task
    BY DEF Apart
  <2> QED
    BY <1>1, <2>1, <2>2, <2>3
<1>6. Moves(c, NoTask)
  BY <1>1, <1>3, <1>4, <1>5, NoTaskIs DEF Moves
<1> QED
  BY <1>1, <1>6, HoldsStay

(* Steps that end a context's hold on its task, t, or that let it know of it.       *)
LEMMA HoldsLess ==
  ASSUME IInv, NEW c \in Contexts, NEW t \in Tasks, t \notin Linked,
         UNCHANGED <<taskList, next>>,
         \A d \in Contexts \ {c} : frame'[d] = frame[d] /\ (Holds(d) => frame[d].task # t),
         \/ frame'[c].pc \in {"idle", "wait", "startNext", "notify"}
         \/ frame'[c].pc = "take" /\ frame'[c].task = t /\ t \in Sensors /\ inUse'[t],
         c \in Threads => \/ c = t /\ frame'[c].pc = "idle"
                          \/ frame'[c].pc = "wait" /\ frame'[c].task = c,
         \A u \in Sensors \ {t} : inUse'[u] = inUse[u] /\ inFlight'[u] = inFlight[u],
         \A u \in Threads \ {t} : result'[u] = result[u]
  PROVE  OneHolds'
<1>1. \A u \in Tasks \ {t} : Pending(u) => Pending(u)'
  <2>1. c \in Threads \ {t} => frame'[c].pc # "idle"
    OBVIOUS
  <2> QED
    BY <2>1, PendingStays
<1>2. Linked' = Linked
  BY ListStays
<1>3. frame'[c].pc \notin InHand
  BY DEF InHand
<1>4. Moves(c, t)
  BY <1>1, <1>2, <1>3 DEF Moves, Holds, Apart, InHand
<1> QED
  BY <1>4, HoldsStay

(* A task that nobody waits for is not linked, and nobody has it in hand.           *)
LEMMA NotPending ==
  ASSUME IInv, NEW t \in Tasks, ~Pending(t), t \in Sensors => ~inUse[t]
  PROVE  t \notin Linked /\ \A c \in Contexts : Holds(c) => frame[c].task # t
<1>1. t \notin Linked
  BY DEF IInv, OneHolds
<1>2. ASSUME NEW c \in Contexts, Holds(c), frame[c].task = t PROVE FALSE
  BY <1>2, HeldIs DEF Holds
<1> QED
  BY <1>1, <1>2

(* Steps by which a context takes a task in hand.                                   *)
LEMMA HoldsMore ==
  ASSUME IInv, NEW c \in Contexts, NEW t \in Tasks, ~Pending(t), t \in Sensors => ~inUse[t],
         UNCHANGED <<taskList, next>>,
         \A d \in Contexts \ {c} : frame'[d] = frame[d],
         frame'[c].pc = "append", frame'[c].task = t, Pending(t)', c \in Threads => c = t,
         \A u \in Sensors \ {t} : inUse'[u] = inUse[u] /\ inFlight'[u] = inFlight[u],
         \A u \in Threads \ {t} : result'[u] = result[u]
  PROVE  OneHolds'
<1>1. t \notin Linked /\ (\A d \in Contexts : Holds(d) => frame[d].task # t)
      /\ Linked' = Linked
  BY NotPending, ListStays
<1>2. \A u \in Tasks \ {t} : Pending(u) => Pending(u)'
  <2>1. c \in Threads \ {t} => frame'[c].pc # "idle"
    OBVIOUS
  <2> QED
    BY <2>1, PendingStays
<1>3. Pending(frame[c].task)'
  BY DEF Pending
<1>4. Moves(c, t)
  BY <1>1, <1>2, <1>3 DEF Moves
<1> QED
  BY <1>1, <1>4, HoldsStay

LEMMA AcquireHolds ==
  ASSUME IInv, NEW c \in Contexts \ Threads, NEW t \in Sensors,
         NEW cb \in {"none", "single", "pair"}, Free(t), Acquire(c, t, cb),
         UNCHANGED <<taskList, next, result>>
  PROVE  OneHolds'
<1>1. t \in Tasks /\ ~Pending(t) /\ ~inUse[t]
  BY Names DEF Free, Pending
<1>2. /\ frame'[c].pc = "append" /\ frame'[c].task = t
      /\ \A d \in Contexts \ {c} : frame'[d] = frame[d]
      /\ \A u \in Sensors \ {t} : inUse'[u] = inUse[u] /\ inFlight'[u] = inFlight[u]
      /\ inUse'[t] /\ inFlight'[t]
  BY Acquired DEF IInv
<1>3. Pending(t)'
  BY <1>2 DEF Pending
<1>4. \A u \in Threads \ {t} : result'[u] = result[u]
  OBVIOUS
<1> QED
  BY <1>1, <1>2, <1>3, <1>4, HoldsMore

LEMMA TransferHolds ==
  ASSUME IInv, NEW t \in Threads, NEW receives \in BOOLEAN, Transfer(t, receives)
  PROVE  OneHolds'
<1>1. t \in Contexts /\ t \in Tasks /\ t \notin Sensors
  BY Names
<1>2. /\ frame[t].pc = "idle" /\ UNCHANGED <<taskList, next, inUse, inFlight>>
      /\ frame' = [frame EXCEPT ![t].pc = "append", ![t].task = t]
      /\ result' = [result EXCEPT ![t] = "unset"]
  BY DEF Transfer, At, driver
<1>3. /\ frame'[t].pc = "append" /\ frame'[t].task = t
      /\ \A d \in Contexts \ {t} : frame'[d] = frame[d]
  BY <1>1, <1>2, FramesAre DEF IInv, Frames
<1>4. /\ \A u \in Threads \ {t} : result'[u] = result[u]
      /\ result'[t] = "unset"
  BY <1>2 DEF IInv, TypeOK
<1>5. ~Pending(t) /\ Pending(t)'
  BY <1>1, <1>2, <1>3, <1>4 DEF Pending
<1> QED
  BY <1>1, <1>2, <1>3, <1>4, <1>5, HoldsMore

LEMMA ReturnsHolds ==
  ASSUME IInv, NEW t \in Threads, TransferReturns(t)
  PROVE  OneHolds'
<1>1. t \in Contexts /\ t \in Tasks /\ t \notin Sensors
  BY Names
<1>2. /\ result[t] # "unset" /\ UNCHANGED <<taskList, next, inUse, inFlight, result>>
      /\ frame' = [frame EXCEPT ![t] = Rest]
  BY DEF TransferReturns, driver
<1>3. frame'[t].pc = "idle" /\ \A d \in Contexts \ {t} : frame'[d] = frame[d]
  BY <1>1, <1>2, FramesAre DEF IInv, Rest
<1>4. t \notin Linked /\ \A d \in Contexts : Holds(d) => frame[d].task # t
  <2>1. ~Pending(t)
    BY <1>1, <1>2 DEF Pending
  <2> QED
    BY <1>1, <2>1, NotPending
<1> QED
  BY <1>1, <1>2, <1>3, <1>4, HoldsLess

(* The threads never leave transfer() on the way of an interrupt.                   *)
LEMMA ThreadIs ==
  ASSUME IInv, NEW c \in Threads
  PROVE  /\ frame[c].pc \notin {"take", "release", "notify", "finish", "startNext"}
         /\ frame[c].pc # "idle" => frame[c].task = c
BY DEF IInv, OneHolds

LEMMA ReturnHolds ==
  ASSUME IInv, NEW c \in Contexts, Return(c), frame[c].pc # "idle",
         UNCHANGED <<taskList, next, inUse, inFlight, result>>
  PROVE  OneHolds'
<1>1. /\ \A d \in Contexts \ {c} : frame'[d] = frame[d]
      /\ frame'[c].pc \in {"idle", "wait", "startNext"}
      /\ c \in Threads => frame'[c].pc = "wait" /\ frame'[c].task = c
  BY Returned, ThreadIs, Names DEF IInv
<1> QED
  BY <1>1, HoldsKept

LEMMA StartHolds ==
  ASSUME IInv, NEW c \in Contexts, NEW ok \in BOOLEAN, StartOwn(c, ok) \/ StartNext(c, ok)
  PROVE  OneHolds'
<1>1. UNCHANGED <<taskList, next, inUse, inFlight, result>>
  BY DEF StartOwn, StartNext, driver
<1>2. CASE StartOwn(c, ok)
  <2>1. frame[c].pc = "start"
    BY <1>2 DEF StartOwn, At
  <2>2. CASE ok
    <3>1. Return(c)
      BY <1>2, <2>2 DEF StartOwn
    <3> QED
      BY <1>1, <2>1, <3>1, ReturnHolds
  <2>3. CASE ~ok
    <3>1. Goto(c, "remove")
      BY <1>2, <2>3 DEF StartOwn
    <3>2. /\ \A d \in Contexts \ {c} : frame'[d] = frame[d]
          /\ frame'[c].pc = "remove" /\ frame'[c].task = frame[c].task
      BY <3>1, Gone DEF IInv, Pcs
    <3>3. c \in Threads => frame[c].task = c
      BY <2>1, ThreadIs
    <3> QED
      BY <1>1, <2>1, <3>2, <3>3, HoldsKept
  <2> QED
    BY <2>2, <2>3
<1>3. CASE StartNext(c, ok)
  <2>1. frame[c].pc = "startNext" /\ frame' = [frame EXCEPT ![c] = Rest]
    BY <1>3 DEF StartNext, At
  <2>2. c \notin Threads /\ frame'[c].pc = "idle"
        /\ \A d \in Contexts \ {c} : frame'[d] = frame[d]
    BY <2>1, ThreadIs, FramesAre DEF IInv, Rest
  <2> QED
    BY <1>1, <2>2, HoldsKept
<1> QED
  BY <1>2, <1>3

LEMMA DeliverHolds ==
  ASSUME IInv, NEW c \in Contexts, DeliverDrv(c) \/ DeliverSample(c)
  PROVE  OneHolds'
<1>1. frame[c].pc = "deliver" /\ UNCHANGED <<taskList, next, inUse>> /\ Holds(c)
  BY DEF DeliverDrv, DeliverSample, At, driver, Holds, InHand
<1>2. PICK t : t = frame[c].task
  OBVIOUS
<1>3. /\ t \in Tasks /\ t \notin Linked /\ Pending(t)
      /\ \A d \in Contexts \ {c} : Holds(d) => frame[d].task # t
      /\ c \in Threads => t = c
  BY <1>1, <1>2, HeldIs DEF Apart, InHand
<1>4. CASE DeliverDrv(c)
  <2>1. /\ Return(c) /\ UNCHANGED inFlight /\ t \in Threads
        /\ result' = [result EXCEPT ![t] = IF frame[c].ok THEN "done" ELSE "failed"]
    BY <1>2, <1>4 DEF DeliverDrv, driver
  <2>2. /\ \A d \in Contexts \ {c} : frame'[d] = frame[d]
        /\ frame'[c].pc \in {"idle", "wait", "startNext"}
        /\ c \in Threads => frame'[c].pc = "wait" /\ frame'[c].task = c
    BY <1>1, <2>1, Returned, ThreadIs, Names DEF IInv
  <2>3. \A u \in Threads \ {t} : result'[u] = result[u]
    BY <2>1 DEF IInv, TypeOK
  <2> QED
    BY <1>1, <1>3, <2>1, <2>2, <2>3, HoldsLess
<1>5. CASE DeliverSample(c)
  <2>1. /\ Goto(c, "take") /\ UNCHANGED result /\ t \in Sensors
        /\ inFlight' = [inFlight EXCEPT ![t] = FALSE]
    BY <1>2, <1>5 DEF DeliverSample
  <2>2. /\ \A d \in Contexts \ {c} : frame'[d] = frame[d]
        /\ frame'[c].pc = "take" /\ frame'[c].task = t
    BY <1>2, <2>1, Gone DEF IInv, Pcs
  <2>3. \A u \in Sensors \ {t} : inUse'[u] = inUse[u] /\ inFlight'[u] = inFlight[u]
    BY <1>1, <2>1 DEF IInv, TypeOK
  <2>4. inUse'[t] /\ c \notin Threads
    BY <1>1, <1>3, <2>1, Names DEF Pending
  <2>5. /\ \A d \in Contexts \ {c} : frame'[d] = frame[d] /\ (Holds(d) => frame[d].task # t)
        /\ \A u \in Threads \ {t} : result'[u] = result[u]
    BY <1>3, <2>1, <2>2
  <2>6. /\ frame'[c].pc = "take" /\ frame'[c].task = t /\ t \in Sensors /\ inUse'[t]
        /\ UNCHANGED <<taskList, next>> /\ t \in Tasks /\ t \notin Linked
    BY <1>1, <1>3, <2>1, <2>2, <2>4
  <2> QED
    BY <2>3, <2>4, <2>5, <2>6, HoldsLess
<1> QED
  BY <1>4, <1>5

LEMMA ReleaseHolds ==
  ASSUME IInv, NEW c \in Contexts, ReleaseTask(c)
  PROVE  OneHolds'
<1>1. /\ frame[c].pc = "release" /\ UNCHANGED <<taskList, next, inFlight, result>>
      /\ Holds(c) /\ Goto(c, "notify")
  BY DEF ReleaseTask, At, driver, Holds, InHand
<1>2. PICK t : t = frame[c].task
  OBVIOUS
<1>3. /\ t \in Tasks /\ t \notin Linked /\ t \in Sensors
      /\ \A d \in Contexts \ {c} : Holds(d) => frame[d].task # t
      /\ c \notin Threads
  BY <1>1, <1>2, HeldIs, ThreadIs DEF Apart
<1>4. \A u \in Sensors \ {t} : inUse'[u] = inUse[u] /\ inFlight'[u] = inFlight[u]
  BY <1>1, <1>2 DEF ReleaseTask, IInv, TypeOK
<1>5. frame'[c].pc = "notify" /\ \A d \in Contexts \ {c} : frame'[d] = frame[d]
  BY <1>1, Gone DEF IInv, Pcs
<1> QED
  BY <1>1, <1>3, <1>4, <1>5, HoldsLess

LEMMA CallbackHolds ==
  ASSUME IInv, NEW c \in Contexts,
         TakeCallback(c) \/ NotifyEncoder(c) \/ NotifyAuxDone(c) \/ FinishPair(c)
  PROVE  OneHolds'
<1>1. /\ UNCHANGED <<taskList, next, inUse, inFlight, result>>
      /\ frame[c].pc \in {"take", "notify", "finish"} /\ c \notin Threads
  BY ThreadIs DEF TakeCallback, NotifyEncoder, NotifyAuxDone, FinishPair, At, driver
<1>2. CASE TakeCallback(c)
  <2>1. /\ frame[c].pc = "take"
        /\ frame' = [frame EXCEPT ![c].pc = "release", ![c].cb = callback[frame[c].task]]
    BY <1>2 DEF TakeCallback, At
  <2>2. /\ \A d \in Contexts \ {c} : frame'[d] = frame[d]
        /\ frame'[c].pc = "release" /\ frame'[c].task = frame[c].task
    BY <2>1, FramesAre DEF IInv, Frames
  <2> QED
    BY <1>1, <2>1, <2>2, HoldsKept
<1>3. CASE NotifyEncoder(c) \/ FinishPair(c)
  BY <1>1, <1>3, ReturnHolds DEF NotifyEncoder, FinishPair
<1>4. CASE NotifyAuxDone(c)
  <2>1. Goto(c, "finish")
    BY <1>4 DEF NotifyAuxDone
  <2>2. frame'[c].pc = "finish" /\ \A d \in Contexts \ {c} : frame'[d] = frame[d]
    BY <2>1, Gone DEF IInv, Pcs
  <2> QED
    BY <1>1, <2>2, HoldsKept
<1> QED
  BY <1>2, <1>3, <1>4

LEMMA HoldsStep ==
  ASSUME IInv, [Next]_vars
  PROVE  OneHolds'
<1>1. CASE BusDone \/ BusFails \/ UNCHANGED vars
  <2>1. UNCHANGED <<taskList, next, frame, inUse, inFlight, result>>
    BY <1>1 DEF BusDone, BusFails, vars, driver
  <2>2. /\ Linked' = Linked /\ (\A t \in Tasks : Pending(t)' <=> Pending(t))
        /\ \A c \in Contexts : Holds(c)' <=> Holds(c)
    BY <2>1, ListStays DEF Pending, Holds
  <2>3. \A c \in Contexts : Pending(frame[c].task)' <=> Pending(frame[c].task)
    BY <2>1 DEF Pending
  <2>4. OneHolds /\ Linked \subseteq Tasks
    BY DEF IInv, Linked
  <2>5. \A t \in Linked' : Pending(t)'
    BY <2>2, <2>4 DEF OneHolds
  <2>6. \A c \in Contexts : frame[c].pc \in InHand => Pending(frame[c].task)'
    BY <2>3, <2>4 DEF OneHolds
  <2>7. \A c \in Contexts : Holds(c)' =>
           /\ frame'[c].task \in Tasks
           /\ \A d \in Contexts : Holds(d)' /\ frame'[d].task = frame'[c].task => d = c
    BY <2>1, <2>2, <2>4 DEF OneHolds
  <2> QED
    BY <2>1, <2>2, <2>4, <2>5, <2>6, <2>7 DEF OneHolds
<1>2. CASE SampleMain \/ SamplePair
  <2>1. "sample" \in Contexts \ Threads /\ "main" \in Sensors
    BY Names
  <2>2. /\ Acquire("sample", "main", "single") \/ Acquire("sample", "main", "pair")
        /\ Free("main") /\ UNCHANGED <<taskList, next, result>>
    BY <1>2 DEF SampleMain, SamplePair
  <2> QED
    BY <2>1, <2>2, AcquireHolds
<1>3. CASE \E t \in Threads, receives \in BOOLEAN : Transfer(t, receives)
  BY <1>3, TransferHolds
<1>4. CASE \E t \in Threads : TransferReturns(t)
  BY <1>4, ReturnsHolds
<1>5. ASSUME NEW c \in Contexts, ContextStep(c) PROVE OneHolds'
  <2>1. CASE AppendTask(c) \/ RemoveOwn(c) \/ OnComplete(c)
    BY <2>1, AppendHolds, RemoveHolds, CompleteHolds
  <2>2. CASE \E ok \in BOOLEAN : StartOwn(c, ok) \/ StartNext(c, ok)
    BY <2>2, StartHolds
  <2>3. CASE DeliverDrv(c) \/ DeliverSample(c) \/ ReleaseTask(c)
    BY <2>3, DeliverHolds, ReleaseHolds
  <2>4. CASE TakeCallback(c) \/ NotifyEncoder(c) \/ NotifyAuxDone(c) \/ FinishPair(c)
    BY <2>4, CallbackHolds
  <2>5. CASE NotifyMainDone(c)
    <3>1. /\ frame[c].pc = "notify" /\ Free("aux") /\ Acquire(c, "aux", "pair")
          /\ UNCHANGED <<taskList, next, result>>
      BY <2>5 DEF NotifyMainDone, At
    <3>2. c \in Contexts \ Threads /\ "aux" \in Sensors
      BY <3>1, ThreadIs, Names
    <3> QED
      BY <3>1, <3>2, AcquireHolds
  <2> QED
    BY <1>5, <2>1, <2>2, <2>3, <2>4, <2>5 DEF ContextStep
<1> QED
  BY <1>1, <1>2, <1>3, <1>4, <1>5 DEF Next, Step

-----------------------------------------------------------------------------------
(* The pair's request.                                                              *)
LEMMA OutstandingIs ==
  /\ \A t \in Sensors :
        Outstanding(t) <=> \/ callback[t] = "pair"
                           \/ \E c \in Contexts : Tells(c) /\ frame[c].task = t
  /\ \A t \in Sensors :
        Outstanding(t)' <=> \/ callback'[t] = "pair"
                            \/ \E c \in Contexts : Tells(c)' /\ frame'[c].task = t
BY DEF Outstanding, Tells

(* What the invariant says of the context that is to call the pair back.            *)
LEMMA TellsIs ==
  ASSUME IInv, NEW c \in Contexts, Tells(c)
  PROVE  /\ frame[c].task \in Sensors /\ pairState = frame[c].task
         /\ \A d \in Contexts : Tells(d) => d = c
         /\ \A t \in Sensors : callback[t] # "pair"
         /\ frame[c].pc = "notify" /\ frame[c].task = "aux" => ~inUse["aux"]
BY DEF IInv, OneRequest

(* What it says of a context between the callback it takes and the task it releases. *)
LEMMA TakenIs ==
  ASSUME IInv, NEW c \in Contexts, frame[c].pc \in {"take", "release"}
  PROVE  /\ frame[c].task \in Sensors /\ inUse[frame[c].task] /\ ~inFlight[frame[c].task]
         /\ frame[c].pc = "release" => callback[frame[c].task] = "none"
BY DEF IInv, OneHolds, OneRequest

LEMMA SensorsAre ==
  ASSUME IInv, NEW t \in Sensors
  PROVE  /\ inFlight[t] \/ callback[t] # "none" => inUse[t]
         /\ callback[t] = "pair" => pairState = t
         /\ pairState = t => Outstanding(t)
         /\ inUse["aux"] => pairState = "aux"
         /\ t # "idle"
BY DEF IInv, OneRequest, Sensors

(* Steps that leave the driver alone.                                               *)
LEMMA RequestStays ==
  ASSUME IInv, NEW c \in Contexts, \A d \in Contexts \ {c} : frame'[d] = frame[d],
         UNCHANGED <<inUse, inFlight, callback, pairState>>, ~Tells(c),
         frame'[c].pc \notin {"take", "release", "notify"}
  PROVE  OneRequest'
<1>1. ~Tells(c)' /\ \A d \in Contexts \ {c} : Tells(d)' <=> Tells(d)
  BY DEF Tells
<1>2. UNCHANGED <<inUse, inFlight, callback, pairState>>
  OBVIOUS
<1>3. \A t \in Sensors : Outstanding(t) => Outstanding(t)'
  BY <1>1, <1>2, OutstandingIs
<1>4. \A t \in Sensors :
         /\ inFlight'[t] \/ callback'[t] # "none" => inUse'[t]
         /\ callback'[t] = "pair" => pairState' = t
         /\ pairState' = t => Outstanding(t)'
  BY <1>2, <1>3, SensorsAre
<1>5. inUse'["aux"] => pairState' = "aux"
  BY <1>2, SensorsAre, Names
<1>6. \A d \in Contexts :
         /\ frame'[d].pc \in {"take", "release"} => ~inFlight'[frame'[d].task]
         /\ frame'[d].pc = "release" => callback'[frame'[d].task] = "none"
  BY <1>2, TakenIs
<1>7. ASSUME NEW d \in Contexts, Tells(d)'
      PROVE  /\ frame'[d].task \in Sensors /\ pairState' = frame'[d].task
             /\ \A e \in Contexts : Tells(e)' => e = d
             /\ \A t \in Sensors : callback'[t] # "pair"
             /\ frame'[d].pc = "notify" /\ frame'[d].task = "aux" => ~inUse'["aux"]
  <2>1. d # c /\ Tells(d) /\ frame'[d] = frame[d]
    BY <1>1, <1>7
  <2>2. \A e \in Contexts : Tells(e)' => Tells(e)
    BY <1>1
  <2> QED
    BY <1>2, <2>1, <2>2, TellsIs
<1> QED
  BY <1>4, <1>5, <1>6, <1>7 DEF OneRequest

(* Where the token of a request for a sensor comes from.                            *)
LEMMA SampleRequest ==
  ASSUME IInv, SampleMain \/ SamplePair
  PROVE  OneRequest'
<1>1. "sample" \in Contexts /\ "main" \in Sensors /\ "aux" \in Sensors /\ "main" # "aux"
      /\ \A t \in Sensors : t = "main" \/ t = "aux"
  BY Names
<1>2. PICK cb \in {"single", "pair"} :
         /\ frame["sample"].pc = "idle" /\ Free("main") /\ Acquire("sample", "main", cb)
         /\ cb = "single" => UNCHANGED pairState
         /\ cb = "pair" => pairState = "idle" /\ pairState' = "main"
  BY DEF SampleMain, SamplePair, At
<1>3. /\ frame'["sample"].pc = "append"
      /\ \A d \in Contexts \ {"sample"} : frame'[d] = frame[d]
      /\ inUse'["aux"] = inUse["aux"] /\ inFlight'["aux"] = inFlight["aux"]
      /\ callback'["aux"] = callback["aux"]
      /\ inUse'["main"] /\ inFlight'["main"] /\ callback'["main"] = cb
  BY <1>1, <1>2, Acquired DEF IInv
<1>4. ~inUse["main"] /\ callback["main"] = "none"
  BY <1>1, <1>2, SensorsAre DEF Free
<1>5. /\ ~Tells("sample") /\ ~Tells("sample")'
      /\ \A d \in Contexts \ {"sample"} : Tells(d)' <=> Tells(d)
  BY <1>2, <1>3 DEF Tells
<1>6. cb = "pair" => /\ ~inUse["aux"] /\ callback["aux"] # "pair"
                     /\ \A d \in Contexts : ~Tells(d)
  BY <1>1, <1>2, SensorsAre, TellsIs
<1>7. \A t \in Sensors : Outstanding(t) => Outstanding(t)'
  BY <1>1, <1>3, <1>4, <1>5, OutstandingIs
<1>8. \A t \in Sensors :
         /\ inFlight'[t] \/ callback'[t] # "none" => inUse'[t]
         /\ callback'[t] = "pair" => pairState' = t
         /\ pairState' = t => Outstanding(t)'
  <2>1. /\ inFlight'["aux"] \/ callback'["aux"] # "none" => inUse'["aux"]
        /\ callback'["aux"] = "pair" => pairState' = "aux"
        /\ callback'["main"] = "pair" => pairState' = "main"
    BY <1>1, <1>2, <1>3, <1>6, SensorsAre
  <2>2. \A t \in Sensors : pairState' = t => Outstanding(t)'
    <3>1. CASE cb = "single"
      BY <1>2, <1>7, <3>1, SensorsAre
    <3>2. CASE cb = "pair"
      BY <1>1, <1>2, <1>3, <3>2, OutstandingIs
    <3> QED
      BY <3>1, <3>2
  <2> QED
    BY <1>1, <1>3, <2>1, <2>2
<1>9. inUse'["aux"] => pairState' = "aux"
  BY <1>1, <1>2, <1>3, <1>6, SensorsAre
<1>10. ASSUME NEW d \in Contexts
       PROVE  /\ frame'[d].pc \in {"take", "release"} => ~inFlight'[frame'[d].task]
              /\ frame'[d].pc = "release" => callback'[frame'[d].task] = "none"
  <2>1. CASE d = "sample"
    BY <1>3, <2>1
  <2>2. CASE d # "sample" /\ frame[d].pc \in {"take", "release"}
    <3>1. frame[d].task = "aux" /\ frame'[d] = frame[d]
      BY <1>1, <1>3, <1>4, <2>2, TakenIs
    <3> QED
      BY <1>3, <2>2, <3>1, TakenIs
  <2> QED
    BY <1>3, <2>1, <2>2
<1>11. ASSUME NEW d \in Contexts, Tells(d)'
       PROVE  /\ frame'[d].task \in Sensors /\ pairState' = frame'[d].task
              /\ \A e \in Contexts : Tells(e)' => e = d
              /\ \A t \in Sensors : callback'[t] # "pair"
              /\ frame'[d].pc = "notify" /\ frame'[d].task = "aux" => ~inUse'["aux"]
  <2>1. d # "sample" /\ Tells(d) /\ frame'[d] = frame[d] /\ cb = "single"
    BY <1>5, <1>6, <1>11, <1>3
  <2>2. \A e \in Contexts : Tells(e)' => Tells(e)
    BY <1>5
  <2>3. \A t \in Sensors : callback'[t] # "pair"
    BY <1>1, <1>3, <2>1, TellsIs
  <2> QED
    BY <1>2, <1>3, <2>1, <2>2, <2>3, TellsIs
<1> QED
  BY <1>8, <1>9, <1>10, <1>11 DEF OneRequest

LEMMA DeliverRequest ==
  ASSUME IInv, NEW c \in Contexts, DeliverSample(c)
  PROVE  OneRequest'
<1>1. PICK t : t = frame[c].task
  OBVIOUS
<1>2. /\ frame[c].pc = "deliver" /\ Goto(c, "take") /\ t \in Sensors
      /\ inFlight' = [inFlight EXCEPT ![t] = FALSE]
      /\ UNCHANGED <<inUse, callback, pairState>>
  BY <1>1 DEF DeliverSample, At
<1>3. /\ frame'[c].pc = "take" /\ frame'[c].task = t
      /\ \A d \in Contexts \ {c} : frame'[d] = frame[d]
  BY <1>1, <1>2, Gone DEF IInv, Pcs
<1>4. ~inFlight'[t] /\ \A u \in Sensors : inFlight'[u] => inFlight[u]
  BY <1>2 DEF IInv, TypeOK
<1>5. \A d \in Contexts : /\ Tells(d)' <=> Tells(d)
                          /\ Tells(d) => d # c /\ frame'[d] = frame[d]
  BY <1>2, <1>3 DEF Tells
<1>6. \A u \in Sensors : Outstanding(u) => Outstanding(u)'
  BY <1>2, <1>5, OutstandingIs
<1>7. \A u \in Sensors :
         /\ inFlight'[u] \/ callback'[u] # "none" => inUse'[u]
         /\ callback'[u] = "pair" => pairState' = u
         /\ pairState' = u => Outstanding(u)'
  BY <1>2, <1>4, <1>6, SensorsAre
<1>8. inUse'["aux"] => pairState' = "aux"
  BY <1>2, SensorsAre
<1>9. \A d \in Contexts :
         /\ frame'[d].pc \in {"take", "release"} => ~inFlight'[frame'[d].task]
         /\ frame'[d].pc = "release" => callback'[frame'[d].task] = "none"
  BY <1>2, <1>3, <1>4, TakenIs
<1>10. \A d \in Contexts : Tells(d)' =>
         /\ frame'[d].task \in Sensors /\ pairState' = frame'[d].task
         /\ \A e \in Contexts : Tells(e)' => e = d
         /\ \A u \in Sensors : callback'[u] # "pair"
         /\ frame'[d].pc = "notify" /\ frame'[d].task = "aux" => ~inUse'["aux"]
  BY <1>2, <1>5, TellsIs
<1> QED
  BY <1>7, <1>8, <1>9, <1>10 DEF OneRequest

LEMMA TakeRequest ==
  ASSUME IInv, NEW c \in Contexts, TakeCallback(c)
  PROVE  OneRequest'
<1>1. PICK t : t = frame[c].task
  OBVIOUS
<1>2. /\ frame[c].pc = "take" /\ t \in Sensors /\ inUse[t] /\ ~inFlight[t]
      /\ callback' = [callback EXCEPT ![t] = "none"]
      /\ frame' = [frame EXCEPT ![c].pc = "release", ![c].cb = callback[t]]
      /\ UNCHANGED <<inUse, inFlight, pairState>>
  BY <1>1, TakenIs DEF TakeCallback, At
<1>3. /\ frame'[c].pc = "release" /\ frame'[c].task = t /\ frame'[c].cb = callback[t]
      /\ \A d \in Contexts \ {c} : frame'[d] = frame[d]
  BY <1>1, <1>2, FramesAre DEF IInv, Frames
<1>4. callback'[t] = "none" /\ \A u \in Sensors \ {t} : callback'[u] = callback[u]
  BY <1>2 DEF IInv, TypeOK
<1>5. /\ \A d \in Contexts \ {c} : Tells(d)' <=> Tells(d)
      /\ Tells(c)' <=> callback[t] = "pair"
      /\ ~Tells(c)
  BY <1>2, <1>3 DEF Tells
<1>6. callback[t] = "pair" => /\ pairState = t /\ \A d \in Contexts : ~Tells(d)
                              /\ \A u \in Sensors \ {t} : callback[u] # "pair"
  BY <1>2, SensorsAre, TellsIs
<1>7. \A u \in Sensors : Outstanding(u) => Outstanding(u)'
  BY <1>3, <1>4, <1>5, OutstandingIs
<1>8. \A u \in Sensors :
         /\ inFlight'[u] \/ callback'[u] # "none" => inUse'[u]
         /\ callback'[u] = "pair" => pairState' = u
         /\ pairState' = u => Outstanding(u)'
  BY <1>2, <1>4, <1>7, SensorsAre
<1>9. inUse'["aux"] => pairState' = "aux"
  BY <1>2, SensorsAre
<1>10. ASSUME NEW d \in Contexts, frame'[d].pc \in {"take", "release"}
       PROVE  /\ ~inFlight'[frame'[d].task]
              /\ frame'[d].pc = "release" => callback'[frame'[d].task] = "none"
  <2>1. CASE d = c
    BY <1>2, <1>3, <1>4, <2>1
  <2>2. CASE d # c
    <3>1. frame'[d] = frame[d] /\ frame[d].pc \in {"take", "release"}
      BY <1>3, <1>10, <2>2
    <3>2. /\ frame[d].task \in Sensors /\ ~inFlight'[frame[d].task]
          /\ frame[d].pc = "release" => callback[frame[d].task] = "none"
      BY <1>2, <3>1, TakenIs
    <3>3. \A u \in Sensors : callback[u] = "none" => callback'[u] = "none"
      BY <1>4
    <3> QED
      BY <3>1, <3>2, <3>3
  <2> QED
    BY <2>1, <2>2
<1>11. ASSUME NEW d \in Contexts, Tells(d)'
       PROVE  /\ frame'[d].task \in Sensors /\ pairState' = frame'[d].task
              /\ \A e \in Contexts : Tells(e)' => e = d
              /\ \A u \in Sensors : callback'[u] # "pair"
              /\ frame'[d].pc = "notify" /\ frame'[d].task = "aux" => ~inUse'["aux"]
  <2>1. CASE d = c
    BY <1>2, <1>3, <1>4, <1>5, <1>6, <1>11, <2>1
  <2>2. CASE d # c
    <3>1. Tells(d) /\ frame'[d] = frame[d] /\ ~Tells(c)'
      BY <1>2, <1>3, <1>5, <1>6, <1>11, <2>2
    <3> QED
      BY <1>2, <1>4, <1>5, <3>1, TellsIs
  <2> QED
    BY <2>1, <2>2
<1> QED
  BY <1>8, <1>9, <1>10, <1>11 DEF OneRequest

LEMMA ReleaseRequest ==
  ASSUME IInv, NEW c \in Contexts, ReleaseTask(c)
  PROVE  OneRequest'
<1>1. PICK t : t = frame[c].task
  OBVIOUS
<1>2. /\ frame[c].pc = "release" /\ t \in Sensors /\ ~inFlight[t] /\ callback[t] = "none"
      /\ inUse' = [inUse EXCEPT ![t] = FALSE] /\ Goto(c, "notify")
      /\ UNCHANGED <<inFlight, callback, pairState>>
  BY <1>1, TakenIs DEF ReleaseTask, At
<1>3. /\ frame'[c].pc = "notify" /\ frame'[c].task = t /\ frame'[c].cb = frame[c].cb
      /\ \A d \in Contexts \ {c} : frame'[d] = frame[d]
  BY <1>1, <1>2, Gone DEF IInv, Pcs
<1>4. /\ ~inUse'[t] /\ \A u \in Sensors \ {t} : inUse'[u] = inUse[u]
      /\ inUse'["aux"] => inUse["aux"]
  BY <1>2, Names DEF IInv, TypeOK
<1>5. \A d \in Contexts : /\ Tells(d)' <=> Tells(d)
                          /\ frame'[d].task = frame[d].task
  BY <1>1, <1>2, <1>3 DEF Tells
<1>6. \A u \in Sensors : Outstanding(u) => Outstanding(u)'
  BY <1>2, <1>5, OutstandingIs
<1>7. \A u \in Sensors :
         /\ inFlight'[u] \/ callback'[u] # "none" => inUse'[u]
         /\ callback'[u] = "pair" => pairState' = u
         /\ pairState' = u => Outstanding(u)'
  BY <1>2, <1>4, <1>6, SensorsAre
<1>8. inUse'["aux"] => pairState' = "aux"
  BY <1>2, <1>4, SensorsAre
<1>9. \A d \in Contexts :
         /\ frame'[d].pc \in {"take", "release"} => ~inFlight'[frame'[d].task]
         /\ frame'[d].pc = "release" => callback'[frame'[d].task] = "none"
  BY <1>2, <1>3, TakenIs
<1>10. ASSUME NEW d \in Contexts, Tells(d)'
       PROVE  /\ frame'[d].task \in Sensors /\ pairState' = frame'[d].task
              /\ \A e \in Contexts : Tells(e)' => e = d
              /\ \A u \in Sensors : callback'[u] # "pair"
              /\ frame'[d].pc = "notify" /\ frame'[d].task = "aux" => ~inUse'["aux"]
  <2>1. frame'[d].pc = "notify" /\ frame'[d].task = "aux" => ~inUse'["aux"]
    BY <1>3, <1>4, <1>5, <1>10, TellsIs
  <2> QED
    BY <1>2, <1>5, <1>10, <2>1, TellsIs
<1> QED
  BY <1>7, <1>8, <1>9, <1>10 DEF OneRequest

LEMMA MainDoneRequest ==
  ASSUME IInv, NEW c \in Contexts, NotifyMainDone(c)
  PROVE  OneRequest'
<1>1. "main" \in Sensors /\ "aux" \in Sensors /\ "main" # "aux"
      /\ \A t \in Sensors : t = "main" \/ t = "aux"
  BY Names
<1>2. /\ frame[c].pc = "notify" /\ Tells(c) /\ frame[c].task = "main" /\ pairState = "main"
      /\ Free("aux") /\ Acquire(c, "aux", "pair") /\ pairState' = "aux"
  BY DEF NotifyMainDone, At, Tells
<1>3. /\ frame'[c].pc = "append"
      /\ \A d \in Contexts \ {c} : frame'[d] = frame[d]
      /\ inUse'["main"] = inUse["main"] /\ inFlight'["main"] = inFlight["main"]
      /\ callback'["main"] = callback["main"]
      /\ inUse'["aux"] /\ callback'["aux"] = "pair"
  BY <1>1, <1>2, Acquired DEF IInv
<1>4. \A d \in Contexts : ~Tells(d)'
  BY <1>2, <1>3, TellsIs DEF Tells
<1>5. callback["main"] # "pair"
  BY <1>1, <1>2, TellsIs
<1>6. \A t \in Sensors :
         /\ inFlight'[t] \/ callback'[t] # "none" => inUse'[t]
         /\ callback'[t] = "pair" => pairState' = t
         /\ pairState' = t => Outstanding(t)'
  BY <1>1, <1>2, <1>3, <1>5, SensorsAre, OutstandingIs
<1>7. ASSUME NEW d \in Contexts, frame'[d].pc \in {"take", "release"}
      PROVE  /\ ~inFlight'[frame'[d].task]
             /\ frame'[d].pc = "release" => callback'[frame'[d].task] = "none"
  <2>1. frame'[d] = frame[d] /\ frame[d].task = "main"
    BY <1>1, <1>2, <1>3, <1>7, TakenIs DEF Free
  <2> QED
    BY <1>3, <1>7, <2>1, TakenIs
<1> QED
  BY <1>2, <1>4, <1>6, <1>7 DEF OneRequest

LEMMA AuxDoneRequest ==
  ASSUME IInv, NEW c \in Contexts, NotifyAuxDone(c)
  PROVE  OneRequest'
<1>1. /\ frame[c].pc = "notify" /\ Tells(c) /\ frame[c].task = "aux" /\ Goto(c, "finish")
      /\ pairState' = "idle" /\ UNCHANGED <<inUse, inFlight, callback>>
  BY DEF NotifyAuxDone, At, Tells
<1>2. frame'[c].pc = "finish" /\ \A d \in Contexts \ {c} : frame'[d] = frame[d]
  BY <1>1, Gone DEF IInv, Pcs
<1>3. \A d \in Contexts : ~Tells(d)'
  BY <1>1, <1>2, TellsIs DEF Tells
<1>4. ~inUse["aux"] /\ \A t \in Sensors : callback[t] # "pair" /\ t # "idle"
  BY <1>1, TellsIs, SensorsAre
<1>5. \A d \in Contexts :
         /\ frame'[d].pc \in {"take", "release"} => ~inFlight'[frame'[d].task]
         /\ frame'[d].pc = "release" => callback'[frame'[d].task] = "none"
  BY <1>1, <1>2, TakenIs
<1>6. \A t \in Sensors : inFlight'[t] \/ callback'[t] # "none" => inUse'[t]
  BY <1>1, SensorsAre
<1> QED
  BY <1>1, <1>3, <1>4, <1>5, <1>6 DEF OneRequest

LEMMA RequestStep ==
  ASSUME IInv, [Next]_vars
  PROVE  OneRequest'
<1>1. CASE BusDone \/ BusFails \/ UNCHANGED vars
  <2>1. UNCHANGED <<frame, inUse, inFlight, callback, pairState>>
    BY <1>1 DEF BusDone, BusFails, vars, driver
  <2>2. /\ \A t \in Sensors : Outstanding(t)' <=> Outstanding(t)
        /\ \A c \in Contexts : Tells(c)' <=> Tells(c)
    BY <2>1 DEF Outstanding, Tells
  <2> QED
    BY <2>1, <2>2 DEF IInv, OneRequest
<1>2. CASE SampleMain \/ SamplePair
  BY <1>2, SampleRequest
<1>3. ASSUME NEW t \in Threads, NEW receives \in BOOLEAN, Transfer(t, receives)
      PROVE  OneRequest'
  <2>1. /\ t \in Contexts /\ frame[t].pc = "idle"
        /\ frame' = [frame EXCEPT ![t].pc = "append", ![t].task = t]
        /\ UNCHANGED <<inUse, inFlight, callback, pairState>>
    BY <1>3, Names DEF Transfer, At, driver
  <2>2. frame'[t].pc = "append" /\ \A d \in Contexts \ {t} : frame'[d] = frame[d]
    BY <2>1, FramesAre DEF IInv, Frames
  <2> QED
    BY <2>1, <2>2, RequestStays DEF Tells
<1>4. ASSUME NEW t \in Threads, TransferReturns(t) PROVE OneRequest'
  <2>1. /\ t \in Contexts /\ frame[t].pc = "wait" /\ frame' = [frame EXCEPT ![t] = Rest]
        /\ UNCHANGED <<inUse, inFlight, callback, pairState>>
    BY <1>4, Names DEF TransferReturns, At, driver
  <2>2. frame'[t].pc = "idle" /\ \A d \in Contexts \ {t} : frame'[d] = frame[d]
    BY <2>1, FramesAre DEF IInv, Rest
  <2> QED
    BY <2>1, <2>2, RequestStays DEF Tells
<1>5. ASSUME NEW c \in Contexts, ContextStep(c) PROVE OneRequest'
  <2>1. ASSUME Return(c), ~Tells(c), UNCHANGED <<inUse, inFlight, callback, pairState>>
        PROVE  OneRequest'
    <3>1. /\ \A d \in Contexts \ {c} : frame'[d] = frame[d]
          /\ frame'[c].pc \in {"idle", "wait", "startNext"}
      BY <2>1, Returned DEF IInv
    <3> QED
      BY <2>1, <3>1, RequestStays
  <2>2. ASSUME NEW pc \in {"start", "remove"}, Goto(c, pc), ~Tells(c),
               UNCHANGED <<inUse, inFlight, callback, pairState>>
        PROVE  OneRequest'
    <3>1. frame'[c].pc = pc /\ \A d \in Contexts \ {c} : frame'[d] = frame[d]
      BY <2>2, Gone DEF IInv, Pcs
    <3> QED
      BY <2>2, <3>1, RequestStays
  <2>3. CASE AppendTask(c)
    <3>1. /\ ~Tells(c) /\ UNCHANGED <<inUse, inFlight, callback, pairState>>
          /\ Goto(c, "start") \/ Return(c)
      BY <2>3 DEF AppendTask, At, Tells, driver
    <3> QED
      BY <2>1, <2>2, <3>1
  <2>4. CASE RemoveOwn(c) \/ OnComplete(c)
    <3>1. ~Tells(c) /\ UNCHANGED <<inUse, inFlight, callback, pairState>>
      BY <2>4 DEF RemoveOwn, OnComplete, At, Tells, driver
    <3>2. frame'[c].pc = "deliver" /\ \A d \in Contexts \ {c} : frame'[d] = frame[d]
      BY <2>4, FramesAre DEF RemoveOwn, OnComplete, IInv, Frames
    <3> QED
      BY <3>1, <3>2, RequestStays
  <2>5. ASSUME NEW ok \in BOOLEAN, StartOwn(c, ok) PROVE OneRequest'
    <3>1. /\ ~Tells(c) /\ UNCHANGED <<inUse, inFlight, callback, pairState>>
          /\ Goto(c, "remove") \/ Return(c)
      BY <2>5 DEF StartOwn, At, Tells, driver
    <3> QED
      BY <2>1, <2>2, <3>1
  <2>6. ASSUME NEW ok \in BOOLEAN, StartNext(c, ok) PROVE OneRequest'
    <3>1. /\ ~Tells(c) /\ UNCHANGED <<inUse, inFlight, callback, pairState>>
          /\ frame' = [frame EXCEPT ![c] = Rest]
      BY <2>6 DEF StartNext, At, Tells, driver
    <3>2. frame'[c].pc = "idle" /\ \A d \in Contexts \ {c} : frame'[d] = frame[d]
      BY <3>1, FramesAre DEF IInv, Rest
    <3> QED
      BY <3>1, <3>2, RequestStays
  <2>7. CASE DeliverDrv(c) \/ NotifyEncoder(c) \/ FinishPair(c)
    <3>1. /\ ~Tells(c) /\ UNCHANGED <<inUse, inFlight, callback, pairState>> /\ Return(c)
      BY <2>7 DEF DeliverDrv, NotifyEncoder, FinishPair, At, Tells, driver
    <3> QED
      BY <2>1, <3>1
  <2> QED
    BY <1>5, <2>3, <2>4, <2>5, <2>6, <2>7, DeliverRequest, TakeRequest, ReleaseRequest,
       MainDoneRequest, AuxDoneRequest DEF ContextStep
<1> QED
  BY <1>1, <1>2, <1>3, <1>4, <1>5 DEF Next, Step

-----------------------------------------------------------------------------------
(* The invariant.                                                                   *)
LEMMA InitHolds == Init => IInv
<1> SUFFICES ASSUME Init PROVE IInv
  OBVIOUS
<1>1. TypeOK
  BY Names DEF Init, TypeOK, Rest, IdleBus
<1>2. /\ \A c \in Contexts : frame[c].pc = "idle" /\ ~frame[c].more
      /\ \A t \in Tasks : next[t] = NoTask
      /\ \A t \in Sensors : ~inUse[t] /\ ~inFlight[t] /\ callback[t] = "none" /\ t # "idle"
      /\ bus.phase = "idle" /\ taskList = NoTask /\ pairState = "idle" /\ "aux" \in Sensors
  BY Names DEF Init, Rest, IdleBus, Sensors
<1>3. Linked = {}
  BY <1>2, Names DEF Linked
<1>4. ListHolds
  <2>1. <<>> \in Seq(Tasks) /\ Len(<<>>) = 0
    OBVIOUS
  <2>2. 1..Len(<<>>) = {} /\ DOMAIN <<>> = {}
    BY <2>1
  <2>3. <<>> \in Orders
    BY <2>1, <2>2, OrderIf
  <2> QED
    BY <1>2, <2>2, <2>3 DEF ListHolds, Listed, IsChain
<1>5. OneStarts /\ NothingForgotten
  BY <1>2 DEF OneStarts, Starting, NothingForgotten
<1>6. OneHolds
  <2>1. \A t \in Threads : frame[t].pc = "idle"
    BY <1>2, Names
  <2> QED
    BY <1>2, <1>3, <2>1 DEF OneHolds, Holds, InHand
<1>7. OneRequest
  BY <1>2 DEF OneRequest, Tells
<1> QED
  BY <1>1, <1>4, <1>5, <1>6, <1>7 DEF IInv

LEMMA Inductive == Spec => []IInv
<1>1. IInv /\ [Next]_vars => IInv'
  <2> SUFFICES ASSUME IInv, [Next]_vars PROVE IInv'
    OBVIOUS
  <2> QED
    BY NextType, ListStep, StartsStep, HoldsStep, RequestStep DEF IInv
<1> QED
  BY <1>1, InitHolds, PTL DEF Spec

LEMMA IInvImplies ==
  ASSUME IInv
  PROVE  ArbiterIsSound
<1>1. ListIsSound
  <2>1. PICK s \in Orders : Listed(s)
    BY DEF IInv, ListHolds
  <2>2. IsChain(s) /\ Linked = {s[i] : i \in 1..Len(s)} /\ DOMAIN s = 1..Len(s)
    BY <2>1, ListIs, OrderIs DEF Listed, ReadAs
  <2>3. \A t \in Tasks \ Linked : next[t] = NoTask
    BY <2>1, <2>2 DEF Listed
  <2>4. \A t \in Linked : Alive(t)
    <3>1. \A t \in Linked : t \in Tasks /\ Pending(t)
      BY DEF IInv, OneHolds, Linked
    <3> QED
      BY <3>1, Names DEF Pending, Alive
  <2>5. \A c \in Contexts : frame[c].pc = "append" => frame[c].task \notin Linked
    BY DEF IInv, OneHolds
  <2> QED
    BY <2>2, <2>3, <2>4, <2>5 DEF ListIsSound
<1>2. BusServesHead
  BY DEF IInv, OneStarts, Starting, BusServesHead
<1>3. PairInStep
  <2>1. ASSUME NEW t \in Sensors PROVE pairState = t <=> Outstanding(t)
    <3>1. callback[t] = "pair" => pairState = t
      BY SensorsAre
    <3>2. (\E c \in Contexts : Tells(c) /\ frame[c].task = t) => pairState = t
      BY TellsIs
    <3> QED
      BY <3>1, <3>2, SensorsAre, OutstandingIs
  <2>2. ASSUME NEW c \in Contexts, frame[c].pc = "notify", frame[c].cb = "pair",
               frame[c].task = "main"
        PROVE  Free("aux")
    <3>1. pairState = "main" /\ "aux" \in Sensors
      BY <2>2, TellsIs, Names DEF Tells
    <3>2. ~inUse["aux"]
      BY <3>1, SensorsAre
    <3> QED
      BY <3>1, <3>2, SensorsAre DEF Free
  <2> QED
    BY <2>1, <2>2 DEF PairInStep
<1> QED
  BY <1>1, <1>2, <1>3 DEF IInv, ArbiterIsSound

(* For any number of threads, and however the contexts interleave: the list is one  *)
(* list that ends and holds only tasks their users still own, the bus serves its    *)
(* head, no queued task is forgotten, and the pair's state says which sensor it     *)
(* waits for.                                                                       *)
THEOREM ArbiterSound == Spec => []ArbiterIsSound
BY Inductive, IInvImplies, PTL

-----------------------------------------------------------------------------------
(* The service. Whose callback is owed: a task that waits for one and is no longer  *)
(* on its way to the list.                                                          *)
Awaited(t) ==
  IF t \in Sensors THEN inFlight[t] ELSE frame[t].pc # "idle" /\ result[t] = "unset"
Submitting(t) == \E c \in Contexts : frame[c].pc = "append" /\ frame[c].task = t

LEMMA OwedIs == Owed = {t \in Tasks : Awaited(t) /\ ~Submitting(t)}
<1>1. ASSUME NEW t PROVE t \in Owed <=> t \in Tasks /\ Awaited(t) /\ ~Submitting(t)
  <2>1. t \in Sensors => t \in Tasks /\ t \notin Threads
    BY Names
  <2>2. t \in Threads => t \in Tasks /\ t \notin Sensors
    BY Names
  <2>3. t \in Tasks => t \in Sensors \/ t \in Threads
    BY Names
  <2>4. t \in {frame[c].task : c \in {d \in Contexts : frame[d].pc = "append"}}
          <=> Submitting(t)
    BY DEF Submitting
  <2> QED
    BY <2>1, <2>2, <2>3, <2>4 DEF Owed, Awaited, Alive
<1> QED
  BY <1>1

LEMMA OwedIsNext == Owed' = {t \in Tasks : Awaited(t)' /\ ~Submitting(t)'}
<1>1. (Owed = {t \in Tasks : Awaited(t) /\ ~Submitting(t)})'
  BY OwedIs, PTL
<1> QED
  BY <1>1

LEMMA AwaitedStays ==
  ASSUME NEW c \in Contexts, NEW t, \A d \in Contexts \ {c} : frame'[d] = frame[d],
         c \in Threads \ {t} => (frame'[c].pc = "idle" <=> frame[c].pc = "idle"),
         \A u \in Sensors \ {t} : inFlight'[u] = inFlight[u],
         \A u \in Threads \ {t} : result'[u] = result[u]
  PROVE  \A u \in Tasks \ {t} : Awaited(u)' <=> Awaited(u)
<1> SUFFICES ASSUME NEW u \in Tasks \ {t} PROVE Awaited(u)' <=> Awaited(u)
  OBVIOUS
<1>1. CASE u \in Sensors
  BY <1>1 DEF Awaited
<1>2. CASE u \in Threads
  <2>1. u \notin Sensors /\ u \in Contexts
    BY <1>2, Names
  <2>2. frame'[u].pc = "idle" <=> frame[u].pc = "idle"
    BY <1>2, <2>1
  <2> QED
    BY <1>2, <2>1, <2>2 DEF Awaited
<1> QED
  BY <1>1, <1>2, Names

(* Steps the service does not see.                                                  *)
LEMMA OwedStays ==
  ASSUME NEW c \in Contexts, \A d \in Contexts \ {c} : frame'[d] = frame[d],
         frame[c].pc # "append", frame'[c].pc # "append",
         c \in Threads => (frame'[c].pc = "idle" <=> frame[c].pc = "idle"),
         UNCHANGED <<inFlight, result>>
  PROVE  Owed' = Owed
<1>1. Tasks \ {NoTask} = Tasks
  BY SpiAssumption
<1>2. \A u \in Tasks : Awaited(u)' <=> Awaited(u)
  BY <1>1, AwaitedStays
<1>3. \A u : Submitting(u)' <=> Submitting(u)
  BY DEF Submitting
<1> QED
  BY <1>2, <1>3, OwedIs, OwedIsNext

(* A task that goes to the list is not owed yet.                                    *)
LEMMA OwedLater ==
  ASSUME NEW c \in Contexts, NEW t \in Tasks, ~Awaited(t),
         \A d \in Contexts \ {c} : frame'[d] = frame[d],
         frame[c].pc # "append", frame'[c].pc = "append", frame'[c].task = t,
         c \in Threads => c = t,
         \A u \in Sensors \ {t} : inFlight'[u] = inFlight[u],
         \A u \in Threads \ {t} : result'[u] = result[u]
  PROVE  Owed' = Owed
<1>1. \A u \in Tasks \ {t} : Awaited(u)' <=> Awaited(u)
  <2>1. c \in Threads \ {t} => (frame'[c].pc = "idle" <=> frame[c].pc = "idle")
    OBVIOUS
  <2> QED
    BY <2>1, AwaitedStays
<1>2. Submitting(t)' /\ \A u \in Tasks \ {t} : Submitting(u)' <=> Submitting(u)
  BY DEF Submitting
<1> QED
  BY <1>1, <1>2, OwedIs, OwedIsNext

LEMMA Submits ==
  ASSUME IInv, NEW c \in Contexts, AppendTask(c)
  PROVE  \E t \in Tasks : Service!Submit(t)
<1>1. PICK t : t = frame[c].task
  OBVIOUS
<1>2. /\ frame[c].pc = "append" /\ Holds(c) /\ UNCHANGED <<inFlight, result>>
      /\ Goto(c, "start") \/ Return(c)
  BY DEF AppendTask, At, Holds, InHand, driver
<1>3. /\ \A d \in Contexts \ {c} : frame'[d] = frame[d]
      /\ frame'[c].pc # "append" /\ (c \in Threads => frame'[c].pc # "idle")
  BY <1>2, Gone, Returned, Names DEF IInv, Pcs
<1>4. /\ t \in Tasks /\ Pending(t)
      /\ \A d \in Contexts \ {c} : Holds(d) => frame[d].task # t
  BY <1>1, <1>2, HeldIs DEF InHand
<1>5. \A u \in Tasks : Awaited(u)' <=> Awaited(u)
  BY <1>2, <1>3, AwaitedStays, NoTaskIs
<1>6. Awaited(t)
  BY <1>4 DEF Pending, Awaited
<1>7. /\ Submitting(t) /\ ~Submitting(t)'
      /\ \A u \in Tasks \ {t} : Submitting(u)' <=> Submitting(u)
  BY <1>1, <1>2, <1>3, <1>4 DEF Submitting, Holds, InHand
<1>8. t \notin Owed /\ Owed' = Owed \union {t}
  BY <1>4, <1>5, <1>6, <1>7, OwedIs, OwedIsNext
<1>9. Queue' = Append(Queue, t)
  BY <1>1, AppendIs
<1> QED
  BY <1>4, <1>8, <1>9 DEF Service!Submit

LEMMA Leaves ==
  ASSUME IInv, NEW c \in Contexts, RemoveOwn(c) \/ OnComplete(c)
  PROVE  Service!Leave
<1>1. /\ frame[c].pc # "append" /\ UNCHANGED <<inFlight, result>>
      /\ c \in Threads => frame[c].pc = "remove"
  BY Names DEF RemoveOwn, OnComplete, DoneContext, At, driver
<1>2. frame'[c].pc = "deliver" /\ \A d \in Contexts \ {c} : frame'[d] = frame[d]
  BY FramesAre DEF RemoveOwn, OnComplete, IInv, Frames
<1>3. Owed' = Owed
  BY <1>1, <1>2, OwedStays
<1> QED
  BY <1>3, LeaveIs DEF Service!Leave

LEMMA CallsBack ==
  ASSUME IInv, NEW c \in Contexts, DeliverDrv(c) \/ DeliverSample(c)
  PROVE  \E t \in Tasks : Service!CallBack(t)
<1>1. PICK t : t = frame[c].task
  OBVIOUS
<1>2. frame[c].pc = "deliver" /\ UNCHANGED <<taskList, next>> /\ Holds(c)
  BY DEF DeliverDrv, DeliverSample, At, Holds, InHand
<1>3. /\ t \in Tasks /\ t \notin Linked /\ Pending(t)
      /\ \A d \in Contexts \ {c} : Holds(d) => frame[d].task # t
      /\ c \in Threads => t = c
  BY <1>1, <1>2, HeldIs DEF Apart, InHand
<1>4. Awaited(t) /\ ~Submitting(t)
  BY <1>2, <1>3 DEF Pending, Awaited, Submitting, Holds, InHand
<1>5. /\ \A d \in Contexts \ {c} : frame'[d] = frame[d]
      /\ frame'[c].pc # "append"
      /\ \A u \in Sensors \ {t} : inFlight'[u] = inFlight[u]
      /\ \A u \in Threads \ {t} : result'[u] = result[u]
      /\ ~Awaited(t)'
  <2>1. CASE DeliverDrv(c)
    <3>1. /\ Return(c) /\ UNCHANGED inFlight /\ t \in Threads
          /\ result' = [result EXCEPT ![t] = IF frame[c].ok THEN "done" ELSE "failed"]
      BY <1>1, <2>1 DEF DeliverDrv, driver
    <3>2. /\ \A d \in Contexts \ {c} : frame'[d] = frame[d]
          /\ frame'[c].pc # "append"
      BY <3>1, Returned DEF IInv
    <3>3. result'[t] # "unset" /\ \A u \in Threads \ {t} : result'[u] = result[u]
      BY <3>1 DEF IInv, TypeOK
    <3> QED
      BY <3>1, <3>2, <3>3, Names DEF Awaited
  <2>2. CASE DeliverSample(c)
    <3>1. /\ Goto(c, "take") /\ UNCHANGED result /\ t \in Sensors
          /\ inFlight' = [inFlight EXCEPT ![t] = FALSE]
      BY <1>1, <2>2 DEF DeliverSample
    <3>2. /\ \A d \in Contexts \ {c} : frame'[d] = frame[d]
          /\ frame'[c].pc # "append"
      BY <3>1, Gone DEF IInv, Pcs
    <3>3. ~inFlight'[t] /\ \A u \in Sensors \ {t} : inFlight'[u] = inFlight[u]
      BY <3>1 DEF IInv, TypeOK
    <3> QED
      BY <3>1, <3>2, <3>3 DEF Awaited
  <2> QED
    BY <2>1, <2>2
<1>6. \A u \in Tasks \ {t} : Awaited(u)' <=> Awaited(u)
  BY <1>3, <1>5, AwaitedStays
<1>7. \A u \in Tasks : Submitting(u)' <=> Submitting(u)
  BY <1>2, <1>5 DEF Submitting
<1>8. t \in Owed /\ Owed' = Owed \ {t}
  BY <1>3, <1>4, <1>5, <1>6, <1>7, OwedIs, OwedIsNext
<1>9. \A i \in DOMAIN Queue : Queue[i] # t
  <2>1. PICK s \in Orders : Listed(s)
    BY DEF IInv, ListHolds
  <2> QED
    BY <1>3, <2>1, ListIs, OrderIs DEF ReadAs
<1> QED
  BY <1>2, <1>3, <1>8, <1>9, ListStays DEF Service!CallBack

LEMMA AcquireUnseen ==
  ASSUME IInv, NEW c \in Contexts \ Threads, NEW t \in Sensors,
         NEW cb \in {"none", "single", "pair"}, Free(t), Acquire(c, t, cb),
         frame[c].pc # "append", UNCHANGED result
  PROVE  Owed' = Owed
<1>1. t \in Tasks /\ ~Awaited(t)
  BY Names DEF Free, Awaited
<1>2. /\ frame'[c].pc = "append" /\ frame'[c].task = t
      /\ \A d \in Contexts \ {c} : frame'[d] = frame[d]
      /\ \A u \in Sensors \ {t} : inFlight'[u] = inFlight[u]
  BY Acquired DEF IInv
<1> QED
  BY <1>1, <1>2, OwedLater

LEMMA TransferUnseen ==
  ASSUME IInv, NEW t \in Threads, NEW receives \in BOOLEAN, Transfer(t, receives)
  PROVE  Owed' = Owed
<1>1. t \in Contexts /\ t \in Tasks /\ t \notin Sensors
  BY Names
<1>2. /\ frame[t].pc = "idle" /\ UNCHANGED inFlight
      /\ frame' = [frame EXCEPT ![t].pc = "append", ![t].task = t]
      /\ result' = [result EXCEPT ![t] = "unset"]
  BY DEF Transfer, At, driver
<1>3. /\ frame'[t].pc = "append" /\ frame'[t].task = t
      /\ \A d \in Contexts \ {t} : frame'[d] = frame[d]
  BY <1>1, <1>2, FramesAre DEF IInv, Frames
<1>4. \A u \in Threads \ {t} : result'[u] = result[u]
  BY <1>2 DEF IInv, TypeOK
<1>5. ~Awaited(t)
  BY <1>1, <1>2 DEF Awaited
<1> QED
  BY <1>1, <1>2, <1>3, <1>4, <1>5, OwedLater

LEMMA ReturnsUnseen ==
  ASSUME IInv, NEW t \in Threads, TransferReturns(t)
  PROVE  Owed' = Owed
<1>1. t \in Contexts /\ t \in Tasks /\ t \notin Sensors
  BY Names
<1>2. /\ result[t] # "unset" /\ UNCHANGED <<inFlight, result>>
      /\ frame[t].pc = "wait" /\ frame' = [frame EXCEPT ![t] = Rest]
  BY DEF TransferReturns, At, driver
<1>3. frame'[t].pc = "idle" /\ \A d \in Contexts \ {t} : frame'[d] = frame[d]
  BY <1>1, <1>2, FramesAre DEF IInv, Rest
<1>4. ~Awaited(t) /\ ~Awaited(t)'
  BY <1>1, <1>2 DEF Awaited
<1>5. \A u \in Tasks \ {t} : Awaited(u)' <=> Awaited(u)
  BY <1>1, <1>2, <1>3, AwaitedStays
<1>6. \A u \in Tasks : Submitting(u)' <=> Submitting(u)
  BY <1>2, <1>3 DEF Submitting
<1> QED
  BY <1>4, <1>5, <1>6, OwedIs, OwedIsNext

LEMMA ReturnUnseen ==
  ASSUME IInv, NEW c \in Contexts, Return(c), frame[c].pc \notin {"idle", "append"},
         UNCHANGED <<inFlight, result>>
  PROVE  Owed' = Owed
<1>1. /\ \A d \in Contexts \ {c} : frame'[d] = frame[d]
      /\ frame'[c].pc # "append" /\ (c \in Threads => frame'[c].pc # "idle")
  BY Returned, Names DEF IInv
<1> QED
  BY <1>1, OwedStays

LEMMA StartUnseen ==
  ASSUME IInv, NEW c \in Contexts, NEW ok \in BOOLEAN, StartOwn(c, ok) \/ StartNext(c, ok)
  PROVE  Owed' = Owed /\ Queue' = Queue
<1>1. UNCHANGED <<taskList, next, inFlight, result>>
  BY DEF StartOwn, StartNext, driver
<1>2. CASE StartOwn(c, ok)
  <2>1. frame[c].pc = "start" /\ (Return(c) \/ Goto(c, "remove"))
    BY <1>2 DEF StartOwn, At
  <2>2. CASE Return(c)
    BY <1>1, <2>1, <2>2, ReturnUnseen, ListStays
  <2>3. CASE Goto(c, "remove")
    <3>1. frame'[c].pc = "remove" /\ \A d \in Contexts \ {c} : frame'[d] = frame[d]
      BY <2>3, Gone DEF IInv, Pcs
    <3> QED
      BY <1>1, <2>1, <3>1, OwedStays, ListStays
  <2> QED
    BY <2>1, <2>2, <2>3
<1>3. CASE StartNext(c, ok)
  <2>1. frame[c].pc = "startNext" /\ frame' = [frame EXCEPT ![c] = Rest]
    BY <1>3 DEF StartNext, At
  <2>2. c \notin Threads /\ frame'[c].pc = "idle"
        /\ \A d \in Contexts \ {c} : frame'[d] = frame[d]
    BY <2>1, ThreadIs, FramesAre DEF IInv, Rest
  <2> QED
    BY <1>1, <2>1, <2>2, OwedStays, ListStays
<1> QED
  BY <1>2, <1>3

LEMMA CallbackUnseen ==
  ASSUME IInv, NEW c \in Contexts,
         \/ TakeCallback(c) \/ ReleaseTask(c)
         \/ NotifyEncoder(c) \/ NotifyAuxDone(c) \/ FinishPair(c)
  PROVE  Owed' = Owed /\ Queue' = Queue
<1>1. /\ UNCHANGED <<taskList, next, inFlight, result>>
      /\ frame[c].pc \in {"take", "release", "notify", "finish"} /\ c \notin Threads
  BY ThreadIs DEF TakeCallback, ReleaseTask, NotifyEncoder, NotifyAuxDone, FinishPair, At, driver
<1>2. CASE TakeCallback(c)
  <2>1. frame' = [frame EXCEPT ![c].pc = "release", ![c].cb = callback[frame[c].task]]
    BY <1>2 DEF TakeCallback
  <2>2. frame'[c].pc = "release" /\ \A d \in Contexts \ {c} : frame'[d] = frame[d]
    BY <2>1, FramesAre DEF IInv, Frames
  <2> QED
    BY <1>1, <2>2, OwedStays, ListStays
<1>3. CASE ReleaseTask(c) \/ NotifyAuxDone(c)
  <2>1. PICK pc \in {"notify", "finish"} : Goto(c, pc)
    BY <1>3 DEF ReleaseTask, NotifyAuxDone
  <2>2. frame'[c].pc = pc /\ \A d \in Contexts \ {c} : frame'[d] = frame[d]
    BY <2>1, Gone DEF IInv, Pcs
  <2> QED
    BY <1>1, <2>2, OwedStays, ListStays
<1>4. CASE NotifyEncoder(c) \/ FinishPair(c)
  BY <1>1, <1>4, ReturnUnseen, ListStays DEF NotifyEncoder, FinishPair
<1> QED
  BY <1>2, <1>3, <1>4

LEMMA ServiceStep == IInv /\ [Next]_vars => [Service!Next]_(Service!vars)
<1> SUFFICES ASSUME IInv, [Next]_vars
             PROVE  Service!Next \/ (Owed' = Owed /\ Queue' = Queue)
  BY DEF Service!vars
<1>1. CASE BusDone \/ BusFails \/ UNCHANGED vars
  <2>1. UNCHANGED <<taskList, next, frame, inFlight, result>>
    BY <1>1 DEF BusDone, BusFails, vars, driver
  <2>2. Owed' = Owed
    BY <2>1 DEF Owed, Alive
  <2> QED
    BY <2>1, <2>2, ListStays
<1>2. CASE SampleMain \/ SamplePair
  <2>1. "sample" \in Contexts \ Threads /\ "main" \in Sensors
    BY Names
  <2>2. /\ Acquire("sample", "main", "single") \/ Acquire("sample", "main", "pair")
        /\ Free("main") /\ frame["sample"].pc = "idle"
        /\ UNCHANGED <<taskList, next, result>>
    BY <1>2 DEF SampleMain, SamplePair, At
  <2> QED
    BY <2>1, <2>2, AcquireUnseen, ListStays
<1>3. ASSUME NEW t \in Threads, NEW receives \in BOOLEAN, Transfer(t, receives)
      PROVE  Owed' = Owed /\ Queue' = Queue
  <2>1. UNCHANGED <<taskList, next>>
    BY <1>3 DEF Transfer
  <2> QED
    BY <1>3, <2>1, TransferUnseen, ListStays
<1>4. ASSUME NEW t \in Threads, TransferReturns(t)
      PROVE  Owed' = Owed /\ Queue' = Queue
  <2>1. UNCHANGED <<taskList, next>>
    BY <1>4 DEF TransferReturns
  <2> QED
    BY <1>4, <2>1, ReturnsUnseen, ListStays
<1>5. ASSUME NEW c \in Contexts, ContextStep(c)
      PROVE  Service!Next \/ (Owed' = Owed /\ Queue' = Queue)
  <2>1. CASE AppendTask(c)
    BY <2>1, Submits DEF Service!Next
  <2>2. CASE RemoveOwn(c) \/ OnComplete(c)
    BY <2>2, Leaves DEF Service!Next
  <2>3. CASE DeliverDrv(c) \/ DeliverSample(c)
    BY <2>3, CallsBack DEF Service!Next
  <2>4. CASE \E ok \in BOOLEAN : StartOwn(c, ok) \/ StartNext(c, ok)
    BY <2>4, StartUnseen
  <2>5. CASE NotifyMainDone(c)
    <3>1. /\ frame[c].pc = "notify" /\ Free("aux") /\ Acquire(c, "aux", "pair")
          /\ UNCHANGED <<taskList, next, result>>
      BY <2>5 DEF NotifyMainDone, At
    <3>2. c \in Contexts \ Threads /\ "aux" \in Sensors
      BY <3>1, ThreadIs, Names
    <3> QED
      BY <3>1, <3>2, AcquireUnseen, ListStays
  <2> QED
    BY <1>5, <2>1, <2>2, <2>3, <2>4, <2>5, CallbackUnseen DEF ContextStep
<1> QED
  BY <1>1, <1>2, <1>3, <1>4, <1>5 DEF Next, Step

LEMMA ServiceInit == Init => Service!Init
<1> SUFFICES ASSUME Init PROVE Service!Init
  OBVIOUS
<1>1. PICK s \in Orders : Listed(s)
  BY InitHolds DEF IInv, ListHolds
<1>2. Queue = <<>>
  BY <1>1, ListIs DEF Init, ReadAs
<1>3. \A t \in Tasks : ~Awaited(t)
  BY Names DEF Init, Awaited, Rest
<1>4. Owed = {}
  BY <1>3, OwedIs
<1> QED
  BY <1>2, <1>4 DEF Service!Init

(* However the contexts preempt one another, and for any number of threads, the     *)
(* arbiter serves a queue: transfers leave in the order they were submitted, no     *)
(* task is submitted again before its callback, and every callback answers one      *)
(* submitted transfer, after it has left the queue.                                 *)
THEOREM ServiceImplemented == Spec => ImplementsService
<1>1. []IInv /\ [][Next]_vars => [][Service!Next]_(Service!vars)
  BY ServiceStep, PTL
<1> QED
  BY <1>1, Inductive, ServiceInit, PTL DEF Spec, ImplementsService, Service!Spec

====================================================================================
