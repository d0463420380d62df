---------------------------- MODULE KernelProofs ----------------------------
(***************************************************************************)
(* The kernel's queues are lines of whole messages, the right task runs,   *)
(* nobody sleeps on work, wakes late or gives up early: for every length   *)
(* of every queue, every number of ticks and every width of the tick       *)
(* counter.                                                                *)
(*                                                                         *)
(* Three inductive invariants carry it.                                    *)
(*                                                                         *)
(* QueueInv needs nothing of the scheduler: each ring is well-formed, its  *)
(* write position as far from its read position as there are messages      *)
(* waiting, and every call is one the tasks make.                          *)
(*                                                                         *)
(* KernelInv adds the scheduler.  TasksFit says where in its call a task   *)
(* may be in which list; Held and Locks, that a suspension and the lock of *)
(* a queue are those of the current task's call; Running, that no ready    *)
(* task outranks the current one unnoticed; Works, that a task found its   *)
(* queue without work and that whatever brought some since will wake it.   *)
(*                                                                         *)
(* TimeInv adds the time: the ticks a task has waited are those its turns  *)
(* of the loop have spent and those since its time of entry, and its alarm *)
(* is set for no more than what is left.                                   *)
(*                                                                         *)
(* The scheduler's functions, recursive ones among them, are first shown   *)
(* to do their part whatever state they are given.                         *)
(***************************************************************************)
EXTENDS Kernel, FiniteSetTheorems, SequenceTheorems, TLAPS

(***************************************************************************)
(* The queues.                                                             *)
(***************************************************************************)

\* A ring of q, and the messages in it.
Slots == Messages \cup {Unread}
Ring(q) ==
    [store : [0..(Length[q] - 1) -> Slots],
     writeTo : 0..(Length[q] - 1), readFrom : 0..(Length[q] - 1),
     waiting : 0..Length[q], txLock : Int]
Balanced(r, q) == r.writeTo = (r.readFrom + 1 + r.waiting) % Length[q]
Line(r, q) == [i \in 1..r.waiting |-> r.store[(r.readFrom + i) % Length[q]]]

Rings ==
    /\ queue = [q \in Queues |-> queue[q]]
    /\ \A q \in Queues : queue[q] \in Ring(q) /\ Balanced(queue[q], q)

Calls ==
    {Send(q, m, n) : q \in Queues, m \in Messages, n \in {0, SendTicks}}
        \cup {Receive(q) : q \in Queues} \cup {Wait(Period), Busy}

CallsMade ==
    /\ task = [t \in Tasks |-> task[t]]
    /\ \A t \in Tasks :
          /\ task[t] = [call |-> task[t].call, pc   |-> task[t].pc,
                        left |-> task[t].left, then |-> task[t].then]
          /\ task[t].call \in Calls
          /\ task[t].call.op = "busy" => task[t].pc = "try"

QueueInv == Rings /\ CallsMade

---------------------------------------------------------------------------
\* Arithmetic of a ring of L slots.
LEMMA Turn ==
    ASSUME NEW L \in Nat \ {0}, NEW x \in 0..(L - 1), NEW i \in 0..L
    PROVE  /\ (x + i) % L = IF x + i < L THEN x + i ELSE x + i - L
           /\ (x + i) % L \in 0..(L - 1)
    BY SMT

\* Two turns of a ring are one.
LEMMA TurnAgain ==
    ASSUME NEW L \in Nat \ {0}, NEW x \in 0..(L - 1), NEW i \in 0..L
    PROVE  (((x + 1) % L) + i) % L = (x + 1 + i) % L
<1>1. CASE x + 1 < L
  <2>1. (x + 1) % L = x + 1
    BY <1>1, SMT
  <2> QED
    BY <2>1
<1>2. CASE x + 1 = L
  <2>1. (x + 1) % L = 0
    BY <1>2, SMT
  <2>2. (0 + i) % L = (L + i) % L
    BY SMT
  <2> QED
    BY <2>1, <2>2, <1>2, SMT
<1> QED
  BY <1>1, <1>2, SMT

\* The slot written next is none of those waiting.
LEMMA WriteAhead ==
    ASSUME NEW L \in Nat \ {0}, NEW x \in 0..(L - 1), NEW w \in 0..(L - 1)
    PROVE  /\ (((x + 1 + w) % L) + 1) % L = (x + 1 + (w + 1)) % L
           /\ \A i \in 1..w : (x + i) % L # (x + 1 + w) % L
<1>1. (x + (w + 1)) % L = IF x + (w + 1) < L THEN x + (w + 1) ELSE x + (w + 1) - L
  <2>1. w + 1 \in 0..L
    BY SMT
  <2> QED
    BY <2>1, Turn
<1>2. x + 1 + w = x + (w + 1) /\ x + 1 + (w + 1) = x + 1 + w + 1
  BY SMT
<1>3. (((x + 1 + w) % L) + 1) % L = (x + 1 + (w + 1)) % L
  <2>1. CASE x + 1 + w < L
    BY <1>1, <1>2, <2>1, SMT
  <2>2. CASE x + 1 + w >= L
    <3>1. (x + 1 + w) % L = x + 1 + w - L
      BY <1>1, <1>2, <2>2, SMT
    <3>2. (x + 1 + w - L + 1) % L = (x + 1 + w + 1) % L
      BY <2>2, SMT
    <3> QED
      BY <1>2, <3>1, <3>2
  <2> QED
    BY <2>1, <2>2, SMT
<1>4. ASSUME NEW i \in 1..w
      PROVE  (x + i) % L # (x + 1 + w) % L
  <2>1. (x + i) % L = IF x + i < L THEN x + i ELSE x + i - L
    <3>1. i \in 0..L
      BY SMT
    <3> QED
      BY <3>1, Turn
  <2> QED
    BY <1>1, <1>2, <2>1, SMT
<1> QED
  BY <1>3, <1>4

\* After a step of the read position the other messages are one place nearer.
LEMMA ReadAhead ==
    ASSUME NEW N \in Nat \ {0}, NEW y \in 0..(N - 1), NEW v \in 1..N
    PROVE  /\ (((y + 1) % N) + 1 + (v - 1)) % N = (y + 1 + v) % N
           /\ \A i \in 1..(v - 1) :
                 /\ (((y + 1) % N) + i) % N = (y + (i + 1)) % N
                 /\ (((y + 1) % N) + i) % N \in 0..(N - 1)
                 /\ (((y + 1) % N) + i) % N # (y + 1) % N
<1> DEFINE n == (y + 1) % N
<1>1. n \in 0..(N - 1)
  BY SMT
<1>2. ASSUME NEW i \in 0..N
      PROVE  (n + i) % N = (y + 1 + i) % N
  BY TurnAgain
<1> HIDE DEF n
<1>3. (n + 1 + (v - 1)) % N = (y + 1 + v) % N
  <2>1. n + 1 + (v - 1) = n + v /\ v \in 0..N
    BY <1>1, SMT
  <2> QED
    BY <1>2, <2>1
<1>4. ASSUME NEW i \in 1..(v - 1)
      PROVE  /\ (n + i) % N = (y + (i + 1)) % N
             /\ (n + i) % N \in 0..(N - 1)
             /\ (n + i) % N # n
  <2>1. i \in 0..N /\ i # 0 /\ i < N /\ y + 1 + i = y + (i + 1)
    BY SMT
  <2>2. (n + i) % N = (y + (i + 1)) % N
    BY <1>2, <2>1
  <2>3. (n + i) % N = IF n + i < N THEN n + i ELSE n + i - N
    BY <1>1, <2>1, Turn
  <2> QED
    BY <1>1, <2>1, <2>2, <2>3, SMT
<1> QED
  BY <1>3, <1>4 DEF n

\* A function on 1..n is a sequence of length n.
LEMMA LineIsSeq ==
    ASSUME NEW S, NEW n \in Nat, NEW f \in [1..n -> S]
    PROVE  f \in Seq(S) /\ Len(f) = n
<1>1. f \in Seq(S)
  BY SeqDef
<1>2. Len(f) \in Nat /\ DOMAIN f = 1..Len(f) /\ DOMAIN f = 1..n
  BY <1>1, LenProperties
<1> QED
  BY <1>1, <1>2, SMT

\* Every queue has room for a message.
LEMMA LengthType == \A q \in Queues : Length[q] \in Nat \ {0}
  BY LengthAssumption

\* The messages in a ring are a sequence.
LEMMA LineType ==
    ASSUME NEW q \in Queues, NEW r \in Ring(q)
    PROVE  /\ Line(r, q) \in [1..r.waiting -> Slots]
           /\ Line(r, q) \in Seq(Slots) /\ Len(Line(r, q)) = r.waiting
<1> DEFINE L == Length[q]
<1>1. L \in Nat \ {0}
  BY LengthType
<1>2. /\ r.store \in [0..(L - 1) -> Slots] /\ r.readFrom \in 0..(L - 1)
      /\ r.waiting \in 0..L /\ r.waiting \in Nat
  BY <1>1 DEF Ring
<1>3. ASSUME NEW i \in 1..r.waiting
      PROVE  r.store[(r.readFrom + i) % L] \in Slots
  <2> HIDE DEF L
  <2>1. i \in 0..L
    BY <1>1, <1>2
  <2>2. (r.readFrom + i) % L \in 0..(L - 1)
    BY <1>1, <1>2, <2>1, Turn
  <2> QED
    BY <1>2, <2>2
<1>4. Line(r, q) \in [1..r.waiting -> Slots]
  BY <1>3 DEF Line
<1> QED
  BY <1>2, <1>4, LineIsSeq

\* prvCopyDataToQueue puts a message at the end of the line.
LEMMA PutLine ==
    ASSUME NEW q \in Queues, NEW r \in Ring(q), Balanced(r, q),
           NEW m \in Messages, r.waiting < Length[q]
    PROVE  LET s == CopyDataToQueue(r, q, m)
           IN  /\ s \in Ring(q) /\ Balanced(s, q)
               /\ Line(s, q) = Append(Line(r, q), m)
<1> DEFINE L == Length[q]
           s == CopyDataToQueue(r, q, m)
           w == r.waiting
           x == r.readFrom
<1>1. L \in Nat \ {0}
  BY LengthType
<1>2. x \in 0..(L - 1) /\ w \in 0..(L - 1)
  BY <1>1 DEF Ring
<1>3. r.store \in [0..(L - 1) -> Slots] /\ r.writeTo \in 0..(L - 1)
  BY DEF Ring
<1>4. r.writeTo = (x + 1 + w) % L
  BY DEF Balanced
<1>5. /\ s.store = [r.store EXCEPT ![r.writeTo] = m]
      /\ s.writeTo = (r.writeTo + 1) % L
      /\ s.readFrom = x /\ s.waiting = w + 1
  BY DEF Ring, CopyDataToQueue
<1>6. m \in Slots /\ [r.store EXCEPT ![r.writeTo] = m] \in [0..(L - 1) -> Slots]
  BY <1>3 DEF Slots
<1>7. (r.writeTo + 1) % L \in 0..(L - 1) /\ w + 1 \in 0..L
  <2> HIDE DEF L, w
  <2>1. \A a \in 0..(L - 1) : (a + 1) % L \in 0..(L - 1)
    BY <1>1, SMT
  <2> QED
    BY <1>1, <1>2, <1>3, <2>1, SMT
<1>8. s \in Ring(q)
  BY <1>6, <1>7 DEF Ring, CopyDataToQueue
<1> HIDE DEF L, s, w, x
<1>9. /\ (((x + 1 + w) % L) + 1) % L = (x + 1 + (w + 1)) % L
      /\ \A i \in 1..w : (x + i) % L # (x + 1 + w) % L
  BY <1>1, <1>2, WriteAhead
<1>10. s.writeTo = (s.readFrom + 1 + s.waiting) % L
  BY <1>4, <1>5, <1>9
<1>11. /\ Line(s, q) \in Seq(Slots) /\ Len(Line(s, q)) = w + 1
       /\ Line(r, q) \in Seq(Slots) /\ Len(Line(r, q)) = w
  BY <1>5, <1>8, LineType DEF w
<1>12. w \in Nat /\ x + (w + 1) = x + 1 + w
  BY <1>1, <1>2, SMT
<1>13. /\ Append(Line(r, q), m) \in Seq(Slots)
       /\ Len(Append(Line(r, q), m)) = w + 1
       /\ \A i \in 1..w : Append(Line(r, q), m)[i] = Line(r, q)[i]
       /\ Append(Line(r, q), m)[w + 1] = m
  BY <1>6, <1>11, <1>12, SMT
<1>14. ASSUME NEW i \in 1..(w + 1)
       PROVE  Line(s, q)[i] = Append(Line(r, q), m)[i]
  <2>1. Line(s, q)[i] = s.store[(x + i) % L]
    BY <1>5 DEF Line, L
  <2>2. CASE i \in 1..w
    <3>1. Line(r, q)[i] = r.store[(x + i) % L]
      BY <2>2 DEF Line, L, w, x
    <3>2. s.store[(x + i) % L] = r.store[(x + i) % L]
      <4>1. (x + i) % L # r.writeTo
        BY <1>4, <1>9, <2>2
      <4>2. i \in 0..L
        BY <1>1, <1>2, <2>2, SMT
      <4>3. (x + i) % L \in 0..(L - 1)
        BY <1>1, <1>2, <4>2, Turn
      <4> QED
        BY <1>3, <1>5, <4>1, <4>3
    <3> QED
      BY <1>13, <2>1, <2>2, <3>1, <3>2
  <2>3. CASE i = w + 1
    <3>1. s.store[(x + i) % L] = m
      BY <1>3, <1>4, <1>5, <1>12, <2>3
    <3> QED
      BY <1>13, <2>1, <2>3, <3>1
  <2>4. i \in 1..w \/ i = w + 1
    BY <1>12, SMT
  <2> QED
    BY <2>2, <2>3, <2>4
<1>15. Line(s, q) = Append(Line(r, q), m)
  BY <1>11, <1>13, <1>14, SeqEqual
<1> QED
  BY <1>8, <1>10, <1>15 DEF Balanced, s, L

\* prvCopyDataFromQueue takes the message in front.
LEMMA GetLine ==
    ASSUME NEW q \in Queues, NEW r \in Ring(q), r = queue[q], Balanced(r, q),
           ~IsEmpty(q)
    PROVE  LET s == CopyDataFromQueue(q)
           IN  /\ s \in Ring(q) /\ Balanced(s, q)
               /\ Line(r, q) # << >>
               /\ Front(q) = Head(Line(r, q)) /\ Line(s, q) = Tail(Line(r, q))
<1> DEFINE L == Length[q]
           s == CopyDataFromQueue(q)
           w == r.waiting
           x == r.readFrom
           n == (x + 1) % L
<1>1. L \in Nat \ {0}
  BY LengthType
<1>2. x \in 0..(L - 1) /\ w \in 1..L
  BY <1>1 DEF Ring, IsEmpty
<1>3. r.store \in [0..(L - 1) -> Slots] /\ r.writeTo \in 0..(L - 1)
  BY DEF Ring
<1>4. r.writeTo = (x + 1 + w) % L
  BY DEF Balanced
<1>5. /\ s.store = [r.store EXCEPT ![n] = Unread]
      /\ s.writeTo = r.writeTo
      /\ s.readFrom = n /\ s.waiting = w - 1
  BY DEF Ring, CopyDataFromQueue, NextRead
<1>6. Front(q) = r.store[n]
  BY DEF Front, NextRead
<1>7. [r.store EXCEPT ![n] = Unread] \in [0..(L - 1) -> Slots]
  BY <1>3 DEF Slots
<1>8. n \in 0..(L - 1) /\ w - 1 \in 0..L
  <2> HIDE DEF L, w, x
  <2> QED
    BY <1>1, <1>2, SMT
<1>9. s \in Ring(q)
  BY <1>7, <1>8 DEF Ring, CopyDataFromQueue, NextRead
<1> HIDE DEF L, s, w, x
<1>10. /\ (n + 1 + (w - 1)) % L = (x + 1 + w) % L
       /\ \A i \in 1..(w - 1) : /\ (n + i) % L = (x + (i + 1)) % L
                                 /\ (n + i) % L \in 0..(L - 1)
                                 /\ (n + i) % L # n
  <2> HIDE DEF n
  <2>1. (((x + 1) % L) + 1 + (w - 1)) % L = (x + 1 + w) % L
    BY <1>1, <1>2, ReadAhead
  <2>2. \A i \in 1..(w - 1) : (((x + 1) % L) + i) % L = (x + (i + 1)) % L
    BY <1>1, <1>2, ReadAhead
  <2>3. \A i \in 1..(w - 1) : (((x + 1) % L) + i) % L \in 0..(L - 1)
    BY <1>1, <1>2, ReadAhead
  <2>4. \A i \in 1..(w - 1) : (((x + 1) % L) + i) % L # (x + 1) % L
    BY <1>1, <1>2, ReadAhead
  <2> QED
    BY <2>1, <2>2, <2>3, <2>4 DEF n
<1> HIDE DEF n
<1>11. s.writeTo = (s.readFrom + 1 + s.waiting) % L
  BY <1>4, <1>5, <1>10
<1>12. /\ Line(s, q) \in Seq(Slots) /\ Len(Line(s, q)) = w - 1
       /\ Line(r, q) \in Seq(Slots) /\ Len(Line(r, q)) = w
  BY <1>5, <1>9, LineType DEF w
<1>13. w \in Nat \ {0} /\ 1 \in 1..w
  BY <1>1, <1>2, SMT
<1>14. Line(r, q) # << >>
  BY <1>12, <1>13, SMT
<1>15. Front(q) = Head(Line(r, q))
  <2>1. Line(r, q)[1] = r.store[(x + 1) % L]
    BY <1>13 DEF Line, L, w, x
  <2>2. Head(Line(r, q)) = Line(r, q)[1]
    BY <1>12, <1>14, SMT
  <2> QED
    BY <1>6, <2>1, <2>2 DEF n
<1>16. /\ Tail(Line(r, q)) \in Seq(Slots) /\ Len(Tail(Line(r, q))) = w - 1
       /\ \A i \in 1..(w - 1) : Tail(Line(r, q))[i] = Line(r, q)[i + 1]
  BY <1>12, <1>13, <1>14, SMT
<1>17. ASSUME NEW i \in 1..(w - 1)
       PROVE  Line(s, q)[i] = Tail(Line(r, q))[i]
  <2>1. Line(s, q)[i] = s.store[(n + i) % L]
    BY <1>5 DEF Line, L
  <2>2. i + 1 \in 1..w
    BY <1>13, SMT
  <2>3. Line(r, q)[i + 1] = r.store[(x + (i + 1)) % L]
    BY <2>2 DEF Line, L, w, x
  <2>4. s.store[(n + i) % L] = r.store[(n + i) % L]
    BY <1>3, <1>5, <1>10
  <2> QED
    BY <1>10, <1>16, <2>1, <2>3, <2>4
<1>18. Line(s, q) = Tail(Line(r, q))
  BY <1>12, <1>16, <1>17, SeqEqual
<1> QED
  BY <1>9, <1>11, <1>14, <1>15, <1>18 DEF Balanced, s, L

---------------------------------------------------------------------------
\* One ring changes, and with it one line.
Lines == [q \in Queues |-> Contents(q)]

\* When one ring is replaced, its line is replaced and no other.
LEMMA RingChanged ==
    ASSUME Rings, NEW q \in Queues, NEW r \in Ring(q), Balanced(r, q),
           queue' = [queue EXCEPT ![q] = r]
    PROVE  Rings' /\ Lines' = [Lines EXCEPT ![q] = Line(r, q)]
<1>1. \A p \in Queues : queue'[p] = IF p = q THEN r ELSE queue[p]
  BY DEF Rings
<1>2. queue' = [p \in Queues |-> queue'[p]]
  BY <1>1 DEF Rings
<1>3. Rings'
  BY <1>1, <1>2 DEF Rings
<1>4. ASSUME NEW p \in Queues
      PROVE  Contents(p)' = IF p = q THEN Line(r, q) ELSE Contents(p)
  <2>1. CASE p = q
    BY <1>1, <2>1 DEF Contents, Line
  <2>2. CASE p # q
    <3>1. queue'[p] = queue[p]
      BY <1>1, <2>2
    <3> QED
      BY <2>2, <3>1 DEF Contents
  <2> QED
    BY <2>1, <2>2
<1>5. Lines' = [Lines EXCEPT ![q] = Line(r, q)]
  BY <1>4 DEF Lines
<1> QED
  BY <1>3, <1>5

\* The lock of a ring says nothing of its messages.
LEMMA Relocked ==
    ASSUME NEW q \in Queues, NEW r \in Ring(q), Balanced(r, q), NEW n \in Int
    PROVE  LET s == [r EXCEPT !.txLock = n]
           IN  s \in Ring(q) /\ Balanced(s, q) /\ Line(s, q) = Line(r, q)
<1> DEFINE s == [r EXCEPT !.txLock = n]
<1>1. /\ s \in Ring(q) /\ s.store = r.store /\ s.readFrom = r.readFrom
      /\ s.writeTo = r.writeTo /\ s.waiting = r.waiting
  BY DEF Ring
<1> HIDE DEF s
<1>2. Balanced(s, q) /\ Line(s, q) = Line(r, q)
  BY <1>1 DEF Balanced, Line
<1> QED
  BY <1>1, <1>2 DEF s

\* A queue with its lock changed holds the same messages.
LEMMA LockStep ==
    ASSUME Rings, NEW q \in Queues, NEW n \in Int,
           queue' = [queue EXCEPT ![q].txLock = n]
    PROVE  Rings' /\ Lines' = Lines
<1> DEFINE s == [queue[q] EXCEPT !.txLock = n]
<1>1. queue[q] \in Ring(q) /\ Balanced(queue[q], q)
  BY DEF Rings
<1>2. s \in Ring(q) /\ Balanced(s, q) /\ Line(s, q) = Line(queue[q], q)
  BY <1>1, Relocked
<1>3. queue' = [queue EXCEPT ![q] = s]
  BY DEF Rings
<1> HIDE DEF s
<1>4. Rings' /\ Lines' = [Lines EXCEPT ![q] = Line(s, q)]
  BY <1>2, <1>3, RingChanged
<1>5. Line(s, q) = Lines[q]
  BY <1>2 DEF Lines, Contents, Line
<1>6. [Lines EXCEPT ![q] = Lines[q]] = Lines
  BY DEF Lines
<1> QED
  BY <1>4, <1>5, <1>6

\* Nothing of a queue changes.
LEMMA QuietStep ==
    ASSUME Rings, UNCHANGED queue
    PROVE  Rings' /\ Lines' = Lines
  BY DEF Rings, Lines, Contents

\* A message is put, by a task or an interrupt, and the lock may count it.
LEMMA PutStep ==
    ASSUME Rings, NEW q \in Queues, NEW m \in Messages, NEW n \in Int, HasRoom(q),
           \/ queue' = [queue EXCEPT ![q] = CopyDataToQueue(queue[q], q, m)]
           \/ queue' = [queue EXCEPT ![q] =
                            [CopyDataToQueue(queue[q], q, m) EXCEPT !.txLock = n]],
           got' \in {got, Nothing}
    PROVE  Rings' /\ Fifo!Put(q, m)
<1> DEFINE s == CopyDataToQueue(queue[q], q, m)
           l == [s EXCEPT !.txLock = n]
<1>1. queue[q] \in Ring(q) /\ Balanced(queue[q], q) /\ queue[q].waiting < Length[q]
  BY DEF Rings, HasRoom
<1>2. s \in Ring(q) /\ Balanced(s, q) /\ Line(s, q) = Append(Line(queue[q], q), m)
  BY <1>1, PutLine
<1> HIDE DEF s
<1>3. l \in Ring(q) /\ Balanced(l, q) /\ Line(l, q) = Line(s, q)
  BY <1>2, Relocked
<1>4. queue' = [queue EXCEPT ![q] = s] \/ queue' = [queue EXCEPT ![q] = l]
  BY DEF s
<1> HIDE DEF l
<1>5. Rings' /\ Lines' = [Lines EXCEPT ![q] = Append(Line(queue[q], q), m)]
  BY <1>2, <1>3, <1>4, RingChanged
<1>6. Lines[q] = Line(queue[q], q)
  BY DEF Lines, Contents, Line
<1>7. Len(Lines[q]) < Length[q]
  BY <1>1, <1>6, LineType
<1>8. Fifo!Put(q, m)
  BY <1>5, <1>6, <1>7 DEF Fifo!Put, Lines
<1> QED
  BY <1>5, <1>8

\* A task gets the message in front.
LEMMA GetStep ==
    ASSUME Rings, NEW q \in Queues, NEW t \in Tasks, ~IsEmpty(q),
           queue' = [queue EXCEPT ![q] = CopyDataFromQueue(q)],
           got' = <<Front(q), t>>
    PROVE  Rings' /\ Fifo!Get(q, t)
<1> DEFINE s == CopyDataFromQueue(q)
<1>1. queue[q] \in Ring(q) /\ Balanced(queue[q], q)
  BY DEF Rings
<1>2. /\ s \in Ring(q) /\ Balanced(s, q) /\ Line(queue[q], q) # << >>
      /\ Front(q) = Head(Line(queue[q], q)) /\ Line(s, q) = Tail(Line(queue[q], q))
  BY <1>1, GetLine
<1> HIDE DEF s
<1>3. Rings' /\ Lines' = [Lines EXCEPT ![q] = Tail(Line(queue[q], q))]
  BY <1>2, RingChanged DEF s
<1>4. Lines[q] = Line(queue[q], q)
  BY DEF Lines, Contents, Line
<1>5. Fifo!Get(q, t)
  BY <1>2, <1>3, <1>4 DEF Fifo!Get, Lines
<1> QED
  BY <1>3, <1>5

---------------------------------------------------------------------------
\* The calls of the tasks name queues and messages there are.
LEMMA CallTypes ==
    ASSUME NEW c \in Calls
    PROVE  /\ c.op = "send" => c.queue \in Queues /\ c.message \in Messages
           /\ c.op = "receive" => c.queue \in Queues
           /\ c.op \in {"send", "receive", "wait", "busy"}
<1>1. ASSUME NEW q \in Queues, NEW m \in Messages, NEW n \in {0, SendTicks},
             c = Send(q, m, n)
      PROVE  c.op = "send" /\ c.queue \in Queues /\ c.message \in Messages
  BY <1>1 DEF Send
<1>2. ASSUME NEW q \in Queues, c = Receive(q)
      PROVE  c.op = "receive" /\ c.queue \in Queues
  BY <1>2 DEF Receive
<1>3. CASE c = Wait(Period)
  BY <1>3 DEF Wait
<1>4. CASE c = Busy
  BY <1>4 DEF Busy
<1> QED
  BY <1>1, <1>2, <1>3, <1>4 DEF Calls

\* Every task starts with one of these calls,
LEMMA FirstCalls == \A t \in Tasks : FirstCall(t) \in Calls
<1>1. /\ SendOff \in Calls /\ SendSetting \in Calls /\ SendReading \in Calls /\ SendSample \in Calls
      /\ Wait(Period) \in Calls /\ Busy \in Calls
      /\ \A q \in Queues : Receive(q) \in Calls
  BY DEF Calls, SendOff, SendSetting, SendReading, SendSample, Messages, Queues
<1> QED
  BY <1>1 DEF FirstCall, Tasks, Queues

\* and goes on to another.
LEMMA NextCallTypes ==
    ASSUME NEW t \in Tasks, NEW d, NEW c \in NextCalls(t, d)
    PROVE  c \in Calls
<1>1. /\ SendOff \in Calls /\ SendSetting \in Calls /\ SendReading \in Calls /\ SendSample \in Calls
      /\ Wait(Period) \in Calls /\ Busy \in Calls
      /\ \A q \in Queues : Receive(q) \in Calls
  BY DEF Calls, SendOff, SendSetting, SendReading, SendSample, Messages, Queues
<1>2. "tick" \in Queues /\ "control" \in Queues
  BY DEF Queues
<1>3. CASE t = "sensor"
  BY <1>1, <1>2, <1>3 DEF NextCalls
<1>4. CASE t = "control"
  BY <1>1, <1>2, <1>4 DEF NextCalls
<1>5. CASE t = "timer"
  BY <1>1, <1>5 DEF NextCalls
<1>6. CASE t \in {"display", "cdc"}
  BY FirstCalls, <1>6 DEF NextCalls
<1> QED
  BY <1>3, <1>4, <1>5, <1>6 DEF Tasks

\* A task goes on in its call.
LEMMA CallGoesOn ==
    ASSUME CallsMade, NEW t \in Tasks, task[t].call.op # "busy",
           \E p, l, n :
              \/ task' = [task EXCEPT ![t].pc = p]
              \/ task' = [task EXCEPT ![t].pc = p, ![t].then = n]
              \/ task' = [task EXCEPT ![t].left = l, ![t].pc = p, ![t].then = n]
    PROVE  CallsMade'
<1> PICK p, l, n :
       \/ task' = [task EXCEPT ![t].pc = p]
       \/ task' = [task EXCEPT ![t].pc = p, ![t].then = n]
       \/ task' = [task EXCEPT ![t].left = l, ![t].pc = p, ![t].then = n]
  OBVIOUS
<1>1. /\ task[t] = [call |-> task[t].call, pc   |-> task[t].pc,
                    left |-> task[t].left, then |-> task[t].then]
      /\ task[t].call \in Calls
  BY DEF CallsMade
<1>2. /\ task' = [u \in Tasks |-> task'[u]]
      /\ \A u \in Tasks \ {t} : task'[u] = task[u]
  BY DEF CallsMade
<1>3. \/ task'[t] = [task[t] EXCEPT !.pc = p]
      \/ task'[t] = [task[t] EXCEPT !.pc = p, !.then = n]
      \/ task'[t] = [task[t] EXCEPT !.left = l, !.pc = p, !.then = n]
  BY DEF CallsMade
<1>4. /\ task'[t] = [call |-> task'[t].call, pc   |-> task'[t].pc,
                     left |-> task'[t].left, then |-> task'[t].then]
      /\ task'[t].call = task[t].call
  BY <1>1, <1>3
<1> QED
  BY <1>1, <1>2, <1>4 DEF CallsMade

\* A task makes its next call.
LEMMA NextCallMade ==
    ASSUME CallsMade, NEW t \in Tasks, NEW s, Return(t, s)
    PROVE  CallsMade'
<1>1. PICK c \in NextCalls(t, task[t].call) : task' = [task EXCEPT ![t] = Begun(c)]
  BY DEF Return
<1>2. c \in Calls
  BY <1>1, NextCallTypes
<1>3. /\ task' = [u \in Tasks |-> task'[u]]
      /\ \A u \in Tasks : task'[u] = IF u = t THEN Begun(c) ELSE task[u]
  BY <1>1 DEF CallsMade
<1> QED
  BY <1>2, <1>3 DEF CallsMade, Begun

\* Interrupts leave the calls alone.
LEMMA SameCalls == CallsMade /\ UNCHANGED task => CallsMade'
  BY DEF CallsMade

---------------------------------------------------------------------------
\* The queues are created empty.
LEMMA QueuesStart == Init => QueueInv /\ Fifo!Init
<1> SUFFICES ASSUME Init PROVE QueueInv /\ Fifo!Init
  OBVIOUS
<1>1. ASSUME NEW q \in Queues
      PROVE  /\ queue[q] \in Ring(q) /\ Balanced(queue[q], q)
             /\ Contents(q) = << >>
  <2> DEFINE L == Length[q]
  <2>1. L \in Nat \ {0}
    BY LengthType
  <2>2. queue[q] = [store    |-> [i \in 0..(L - 1) |-> Unread], writeTo |-> 0,
                    readFrom |-> L - 1, waiting |-> 0, txLock |-> -1]
    BY DEF Init
  <2> HIDE DEF L
  <2>3. /\ [i \in 0..(L - 1) |-> Unread] \in [0..(L - 1) -> Slots]
        /\ 0 \in 0..(L - 1) /\ L - 1 \in 0..(L - 1) /\ 0 \in 0..L /\ -1 \in Int
        /\ (L - 1 + 1 + 0) % L = 0
    <3>1. L - 1 + 1 + 0 = L /\ L % L = 0
      BY <2>1, SMT
    <3> QED
      BY <2>1, <3>1 DEF Slots
  <2>4. queue[q] \in Ring(q)
    BY <2>2, <2>3 DEF Ring, L
  <2>5. Balanced(queue[q], q)
    BY <2>2, <2>3 DEF Balanced, L
  <2>6. Contents(q) = Line(queue[q], q) /\ Line(queue[q], q) \in Seq(Slots)
    BY <2>4, LineType DEF Contents, Line
  <2>7. Len(Line(queue[q], q)) = 0
    BY <2>2, <2>4, LineType
  <2> QED
    BY <2>4, <2>5, <2>6, <2>7, EmptySeq
<1>2. Rings
  BY <1>1 DEF Init, Rings
<1>3. CallsMade
  BY FirstCalls DEF Init, CallsMade, Begun
<1>4. Fifo!Init
  BY <1>1 DEF Init, Fifo!Init
<1> QED
  BY <1>2, <1>3, <1>4 DEF QueueInv

---------------------------------------------------------------------------
\* A step that leaves the rings alone only forgets what was got.
LEMMA QueueLeftAlone ==
    ASSUME QueueInv, NEW t \in Tasks, got' = Nothing, UNCHANGED queue, CallsMade'
    PROVE  QueueInv' /\ Fifo!Forget
  BY QuietStep DEF QueueInv, Fifo!Forget, Lines

\* A task's step is a put, a get, or nothing to the queues.
LEMMA TaskSteps ==
    ASSUME QueueInv, NEW t \in Tasks, TaskStep(t)
    PROVE  QueueInv' /\ Fifo!Next
<1> DEFINE c == task[t].call
<1>1. Rings /\ CallsMade /\ c \in Calls
  BY DEF QueueInv, CallsMade
<1>2. /\ c.op = "send" => c.queue \in Queues /\ c.message \in Messages
      /\ c.op = "receive" => c.queue \in Queues
  BY <1>1, CallTypes
<1>3. ASSUME GetMessage(t)
      PROVE  QueueInv' /\ Fifo!Next
  <2>1. c.queue \in Queues
    BY <1>2, <1>3 DEF GetMessage
  <2>2. Rings' /\ Fifo!Get(c.queue, t)
    BY <1>1, <1>3, <2>1, GetStep DEF GetMessage
  <2>3. CallsMade'
    BY <1>1, <1>3, NextCallMade DEF GetMessage
  <2> QED
    BY <2>1, <2>2, <2>3 DEF QueueInv, Fifo!Next
<1>4. ASSUME PutMessage(t), got' = Nothing
      PROVE  QueueInv' /\ Fifo!Next
  <2>1. c.queue \in Queues /\ c.message \in Messages /\ HasRoom(c.queue)
    BY <1>2, <1>4 DEF PutMessage
  <2>2. queue' = [queue EXCEPT ![c.queue] =
                      CopyDataToQueue(queue[c.queue], c.queue, c.message)]
    BY <1>1, <1>4 DEF PutMessage, Rings
  <2>3. Rings' /\ Fifo!Put(c.queue, c.message)
    <3>1. 0 \in Int /\ got' \in {got, Nothing}
      BY <1>4, SMT
    <3> HIDE DEF c
    <3> QED
      BY <1>1, <2>1, <2>2, <3>1, PutStep
  <2>4. CallsMade'
    BY <1>1, <1>4, NextCallMade DEF PutMessage
  <2> QED
    BY <2>1, <2>3, <2>4 DEF QueueInv, Fifo!Next
<1>5. ASSUME LeaveAtOnce(t) \/ TimerExpires(t), got' = Nothing
      PROVE  QueueInv' /\ Fifo!Next
  <2>1. CallsMade' /\ UNCHANGED queue
    BY <1>1, <1>5, NextCallMade DEF LeaveAtOnce, TimerExpires
  <2> QED
    BY <1>5, <2>1, QueueLeftAlone DEF Fifo!Next
<1>6. ASSUME \/ BeginToWait(t) \/ CheckExpired(t) \/ CheckWaits(t) \/ Place(t)
             \/ PlaceTimer(t) \/ YieldWithinApi(t),
             got' = Nothing
      PROVE  QueueInv' /\ Fifo!Next
  <2>1. UNCHANGED queue
    <3>1. CASE BeginToWait(t) \/ YieldWithinApi(t)
      BY <3>1 DEF BeginToWait, YieldWithinApi
    <3>2. CASE CheckExpired(t) \/ CheckWaits(t)
      BY <3>2 DEF CheckExpired, CheckWaits
    <3>3. CASE Place(t) \/ PlaceTimer(t)
      BY <3>3 DEF Place, PlaceTimer
    <3> QED
      BY <1>6, <3>1, <3>2, <3>3
  <2>2. \E p, l, n :
           \/ task' = [task EXCEPT ![t].pc = p]
           \/ task' = [task EXCEPT ![t].pc = p, ![t].then = n]
           \/ task' = [task EXCEPT ![t].left = l, ![t].pc = p, ![t].then = n]
    <3>1. CASE BeginToWait(t) \/ Place(t) \/ YieldWithinApi(t)
      BY <3>1 DEF BeginToWait, Place, YieldWithinApi, Continue, Goto
    <3>2. CASE CheckExpired(t) \/ PlaceTimer(t)
      BY <3>2 DEF CheckExpired, PlaceTimer
    <3>3. CASE CheckWaits(t)
      BY <3>3 DEF CheckWaits
    <3> QED
      BY <1>6, <3>1, <3>2, <3>3
  <2>3. c.op # "busy"
    <3>1. CASE BeginToWait(t)
      BY <3>1 DEF BeginToWait, Blocked
    <3>2. CASE ~BeginToWait(t)
      <4>1. task[t].pc \in {"check", "place", "yield"}
        BY <1>6, <3>2 DEF CheckExpired, CheckWaits, Place, PlaceTimer, YieldWithinApi, At
      <4> QED
        BY <1>1, <4>1 DEF CallsMade
    <3> QED
      BY <3>1, <3>2
  <2>4. CallsMade'
    BY <1>1, <2>2, <2>3, CallGoesOn
  <2> QED
    BY <1>6, <2>1, <2>4, QueueLeftAlone DEF Fifo!Next
<1>7. ASSUME Suspend(t), got' = Nothing
      PROVE  QueueInv' /\ Fifo!Next
  <2>1. c.op # "busy"
    BY <1>1, <1>7 DEF Suspend, At, CallsMade
  <2>2. CallsMade'
    BY <1>1, <1>7, <2>1, CallGoesOn DEF Suspend, Goto
  <2>3. Rings' /\ Lines' = Lines
    <3>1. CASE c.op = "wait"
      BY <1>1, <1>7, <3>1, QuietStep DEF Suspend
    <3>2. CASE c.op # "wait"
      <4>1. c.queue \in Queues /\ queue' = [queue EXCEPT ![c.queue].txLock = 0] /\ 0 \in Int
        BY <1>1, <1>2, <1>7, <2>1, <3>2, CallTypes DEF Suspend
      <4> QED
        BY <1>1, <4>1, LockStep
    <3> QED
      BY <3>1, <3>2
  <2> QED
    BY <1>7, <2>2, <2>3 DEF QueueInv, Fifo!Next, Fifo!Forget, Lines
<1>8. ASSUME Resume(t), got' = Nothing
      PROVE  QueueInv' /\ Fifo!Next
  <2>1. c.op # "busy"
    BY <1>1, <1>8 DEF Resume, At, CallsMade
  <2>2. CallsMade'
    <3>1. \/ \E x : Return(t, x)
          \/ \E p : task' = [task EXCEPT ![t].pc = p]
      BY <1>8 DEF Resume, Continue, Goto
    <3> QED
      BY <1>1, <2>1, <3>1, CallGoesOn, NextCallMade
  <2>3. Rings' /\ Lines' = Lines
    <3>1. CASE c.op = "wait"
      BY <1>1, <1>8, <3>1, QuietStep DEF Resume
    <3>2. CASE c.op # "wait"
      <4>1. /\ c.queue \in Queues /\ -1 \in Int
            /\ queue' = [queue EXCEPT ![c.queue].txLock = -1]
        BY <1>1, <1>2, <1>8, <2>1, <3>2, CallTypes DEF Resume
      <4> QED
        BY <1>1, <4>1, LockStep
    <3> QED
      BY <3>1, <3>2
  <2> QED
    BY <1>8, <2>2, <2>3 DEF QueueInv, Fifo!Next, Fifo!Forget, Lines
<1> QED
  BY <1>3, <1>4, <1>5, <1>6, <1>7, <1>8 DEF TaskStep

\* An interrupt's step is a put, or nothing to the queues.
LEMMA InterruptSteps ==
    ASSUME QueueInv, Interrupt \/ \E t \in Tasks : PendSV(t)
    PROVE  QueueInv' /\ [Fifo!Next]_(Fifo!vars)
<1>1. Rings /\ CallsMade
  BY DEF QueueInv
<1>2. ASSUME NEW m \in Inputs, SendFromISR(m)
      PROVE  QueueInv' /\ Fifo!Next
  <2>1. "control" \in Queues /\ m \in Messages /\ HasRoom("control")
    BY <1>2 DEF Queues, Messages, SendFromISR
  <2>2. CallsMade' /\ got' = got
    BY <1>1, <1>2, SameCalls DEF SendFromISR
  <2>3. \E n \in Int :
           \/ queue' = [queue EXCEPT !["control"] =
                            CopyDataToQueue(queue["control"], "control", m)]
           \/ queue' = [queue EXCEPT !["control"] =
                            [CopyDataToQueue(queue["control"], "control", m)
                                EXCEPT !.txLock = n]]
    <3> DEFINE s == CopyDataToQueue(queue["control"], "control", m)
    <3>1. CASE Unlocked("control")
      BY <1>1, <1>2, <2>1, <3>1 DEF SendFromISR, Rings
    <3>2. CASE ~Unlocked("control")
      <4>1. queue["control"].txLock \in Int /\ queue["control"] \in Ring("control")
        BY <1>1, <2>1 DEF Rings, Ring
      <4>2. s.txLock = queue["control"].txLock
        BY <4>1 DEF CopyDataToQueue, Ring
      <4>3. s.txLock + 1 \in Int
        BY <4>1, <4>2, SMT
      <4>4. queue' = [queue EXCEPT !["control"] = [s EXCEPT !.txLock = s.txLock + 1]]
        BY <1>2, <3>2, Zenon DEF SendFromISR
      <4> QED
        BY <4>3, <4>4
    <3> QED
      BY <3>1, <3>2
  <2>4. Rings' /\ Fifo!Put("control", m)
    BY <1>1, <2>1, <2>2, <2>3, PutStep
  <2> QED
    BY <2>1, <2>2, <2>4 DEF QueueInv, Fifo!Next
<1>3. ASSUME UNCHANGED <<queue, task, got>>
      PROVE  QueueInv' /\ UNCHANGED Fifo!vars
  BY <1>1, <1>3, QuietStep, SameCalls DEF QueueInv, Fifo!vars, Lines
<1> QED
  BY <1>2, <1>3 DEF Interrupt, SysTick, PendSV

\* The rings are in order in every state, whatever the interrupts and the
\* scheduler do between two steps of a call (queue.c).
LEMMA QueuesStep == QueueInv /\ [Next]_vars => QueueInv' /\ [Fifo!Next]_(Fifo!vars)
<1> SUFFICES ASSUME QueueInv, [Next]_vars
             PROVE  QueueInv' /\ [Fifo!Next]_(Fifo!vars)
  OBVIOUS
<1>1. CASE UNCHANGED vars
  BY <1>1, QuietStep, SameCalls DEF vars, QueueInv, Fifo!vars, Lines
<1> QED
  BY <1>1, TaskSteps, InterruptSteps DEF Next

\* Each queue is a line in which messages are put whole at the end and got
\* from the front, for queues of every length, any number of ticks and every
\* order of the tasks' and the interrupts' steps (queue.c:577, queue.c:1057).
THEOREM QueuesAlwaysFifo == Spec => QueuesAreFifo
<1>1. Spec => []QueueInv
  BY QueuesStart, QueuesStep, PTL DEF Spec
<1>2. QueueInv /\ [Next]_vars => [Fifo!Next]_(Fifo!vars)
  BY QueuesStep
<1>3. Init => Fifo!Init
  BY QueuesStart
<1> QED
  BY <1>1, <1>2, <1>3, PTL DEF Spec, QueuesAreFifo, Fifo!Spec

(***************************************************************************)
(* The scheduler, as functions of its state.                               *)
(***************************************************************************)

Sched == SchedulerStates({"send", "receive"} \X Queues, MaxPended)

Ready(s, t) == s.generic[t] = "ready"
Waits(s, t) == s.event[t] \notin {Nowhere, PendingReady}
Naps(s, t)  == s.generic[t] \in {"delayed", "overflow"}

\* A ready task waits for no event; the pending list is that of a suspension.
Placed(s) ==
    \A t \in Tasks : /\ Ready(s, t) => s.event[t] = Nowhere
                     /\ s.event[t] = PendingReady => s.suspended

\* Nobody ready is more urgent than the current task, or a switch is noted.
Calm(s) ==
    s.yieldPending \/ \A t \in Tasks : Ready(s, t) => ~Outranks(t, s.current)

\* From s to r tasks are woken, and nothing else happens to them.
Wakes(s, r) ==
    /\ r \in Sched /\ r.current = s.current /\ r.entered = s.entered
    /\ Placed(r)
    /\ \A t \in Tasks : /\ Waits(r, t) => r.event[t] = s.event[t]
                        /\ Ready(s, t) => Ready(r, t)
                        /\ Naps(r, t) => Naps(s, t)
                        /\ r.event[t] = Nowhere => Ready(r, t) \/ s.event[t] = Nowhere

\* It is noted when one of them is more urgent than the current task.
Noted(s, r, b) ==
    /\ s.yieldPending => b
    /\ \A t \in Tasks : Ready(r, t) /\ ~Ready(s, t) /\ Outranks(t, s.current) => b

Rouses(s, r) == Wakes(s, r) /\ Noted(s, r, r.yieldPending)

---------------------------------------------------------------------------
\* The lists are different.
LEMMA Lists ==
    /\ Nowhere # PendingReady
    /\ \A list \in {"send", "receive"} \X Queues : list # Nowhere /\ list # PendingReady
    /\ \A q \in Queues : /\ ToSend(q) \notin {Nowhere, PendingReady}
                         /\ ToReceive(q) \notin {Nowhere, PendingReady}
                         /\ ToSend(q) = <<"send", q>> /\ ToReceive(q) = <<"receive", q>>
                         /\ \A p \in Queues : /\ ToSend(q) # ToReceive(p)
                                              /\ ToSend(q) = ToSend(p) => q = p
                                              /\ ToReceive(q) = ToReceive(p) => q = p
                         /\ ToSend(q) \in {"send", "receive"} \X Queues
                         /\ ToReceive(q) \in {"send", "receive"} \X Queues
  BY DEF Nowhere, PendingReady, ToSend, ToReceive

\* Priorities are from 1 to 3.
LEMMA Priorities == \A t \in Tasks : Priority[t] \in 1..3
  BY DEF Tasks, Priority

\* To outrank is a strict order.
LEMMA OutranksLemma ==
    ASSUME NEW t \in Tasks, NEW u \in Tasks
    PROVE  /\ ~Outranks(t, t) /\ (Outranks(t, u) => ~Outranks(u, t))
           /\ Outranks(t, u) \in BOOLEAN
  BY Priorities DEF Outranks

\* Of some tasks, one is a most urgent one.
LEMMA HighestExists ==
    ASSUME NEW ts \in SUBSET Tasks, ts # {}
    PROVE  \E t \in Highest(ts) : t \in ts
<1>1. \A t \in ts : Priority[t] \in 1..3
  BY Priorities
<1>2. CASE \E t \in ts : Priority[t] = 3
  BY <1>1, <1>2 DEF Highest, Outranks
<1>3. CASE ~(\E t \in ts : Priority[t] = 3) /\ \E t \in ts : Priority[t] = 2
  BY <1>1, <1>3 DEF Highest, Outranks
<1>4. CASE \A t \in ts : Priority[t] = 1
  BY <1>1, <1>4 DEF Highest, Outranks
<1> QED
  BY <1>1, <1>2, <1>3, <1>4

\* Tasks taken out of their lists and put among the ready ones.
LEMMA AddToReadyLemma ==
    ASSUME NEW s \in Sched, NEW ts \in SUBSET Tasks
    PROVE  LET r == AddToReadyLists(s, ts)
           IN  /\ r \in Sched
               /\ r.current = s.current /\ r.entered = s.entered /\ r.wrapped = s.wrapped
               /\ r.tick = s.tick /\ r.pended = s.pended /\ r.nextUnblock = s.nextUnblock
               /\ r.suspended = s.suspended /\ r.yieldPending = s.yieldPending
               /\ r.switchPending = s.switchPending
               /\ \A t \in Tasks :
                     IF t \in ts
                     THEN r.generic[t] = "ready" /\ r.event[t] = Nowhere /\ r.wake[t] = 0
                     ELSE /\ r.generic[t] = s.generic[t] /\ r.event[t] = s.event[t]
                          /\ r.wake[t] = s.wake[t]
<1>1. 0 \in 0..MaxTick
  BY TickAssumption
<1> QED
  BY <1>1 DEF AddToReadyLists, Sched, SchedulerStates

\* One waiter of a list is woken.
LEMMA RemoveLemma ==
    ASSUME NEW s \in Sched, NEW list \in {"send", "receive"} \X Queues, Waiters(s, list) # {}
    PROVE  LET r == RemoveFromEventList(s, list)
           IN  \E t \in Waiters(s, list) :
               /\ t \in Highest(Waiters(s, list))
               /\ r \in Sched
               /\ r.current = s.current /\ r.entered = s.entered /\ r.wrapped = s.wrapped
               /\ r.tick = s.tick /\ r.pended = s.pended /\ r.nextUnblock = s.nextUnblock
               /\ r.suspended = s.suspended
               /\ r.yieldPending = (s.yieldPending \/ Outranks(t, s.current))
               /\ r.switchPending = s.switchPending
               /\ \A u \in Tasks \ {t} :
                     /\ r.generic[u] = s.generic[u] /\ r.event[u] = s.event[u]
                     /\ r.wake[u] = s.wake[u]
               /\ IF s.suspended
                  THEN /\ r.event[t] = PendingReady /\ r.generic[t] = s.generic[t]
                       /\ r.wake[t] = s.wake[t]
                  ELSE r.generic[t] = "ready" /\ r.event[t] = Nowhere /\ r.wake[t] = 0
<1> DEFINE t == CHOOSE u \in Highest(Waiters(s, list)) : TRUE
           woken == IF s.suspended THEN [s EXCEPT !.event[t] = PendingReady]
                    ELSE AddToReadyLists(s, {t})
           r == [woken EXCEPT !.yieldPending = @ \/ Outranks(t, s.current)]
<1>1. Waiters(s, list) \in SUBSET Tasks
  BY DEF Waiters
<1>2. t \in Highest(Waiters(s, list)) /\ t \in Waiters(s, list) /\ t \in Tasks
  BY <1>1, HighestExists DEF Highest
<1>3. r = RemoveFromEventList(s, list)
  BY DEF RemoveFromEventList
<1>4. Outranks(t, s.current) \in BOOLEAN
  BY <1>2, OutranksLemma DEF Sched, SchedulerStates
<1> HIDE DEF t
<1>5. CASE s.suspended
  <2>1. woken = [s EXCEPT !.event[t] = PendingReady]
    BY <1>5
  <2> DEFINE w == [s EXCEPT !.event[t] = PendingReady]
  <2>2. /\ w \in Sched
        /\ w.current = s.current /\ w.entered = s.entered /\ w.wrapped = s.wrapped
        /\ w.tick = s.tick /\ w.pended = s.pended /\ w.nextUnblock = s.nextUnblock
        /\ w.suspended = s.suspended /\ w.yieldPending = s.yieldPending
        /\ w.switchPending = s.switchPending
        /\ w.generic = s.generic /\ w.wake = s.wake
    BY <1>2 DEF Sched, SchedulerStates
  <2>6. \A u \in Tasks : w.event[u] = IF u = t THEN PendingReady ELSE s.event[u]
    BY <1>2 DEF Sched, SchedulerStates
  <2>3. r = [w EXCEPT !.yieldPending = @ \/ Outranks(t, s.current)]
    BY <2>1
  <2> HIDE DEF w, woken
  <2>4. r \in Sched /\ r.yieldPending = (s.yieldPending \/ Outranks(t, s.current))
    BY <1>4, <2>2, <2>3 DEF Sched, SchedulerStates
  <2>5. /\ r.current = s.current /\ r.entered = s.entered /\ r.wrapped = s.wrapped
        /\ r.tick = s.tick /\ r.pended = s.pended /\ r.nextUnblock = s.nextUnblock
        /\ r.suspended = s.suspended /\ r.switchPending = s.switchPending
        /\ r.generic = w.generic /\ r.event = w.event /\ r.wake = w.wake
    BY <2>2, <2>3 DEF Sched, SchedulerStates
  <2> HIDE DEF r
  <2> QED
    BY <1>2, <1>3, <1>5, <2>2, <2>4, <2>5, <2>6
<1>6. CASE ~s.suspended
  <2> DEFINE w == AddToReadyLists(s, {t})
  <2>1. woken = w
    BY <1>6
  <2>2. /\ w \in Sched
        /\ w.current = s.current /\ w.entered = s.entered /\ w.wrapped = s.wrapped
        /\ w.tick = s.tick /\ w.pended = s.pended /\ w.nextUnblock = s.nextUnblock
        /\ w.suspended = s.suspended /\ w.yieldPending = s.yieldPending
        /\ w.switchPending = s.switchPending
        /\ \A u \in Tasks :
              IF u = t
              THEN w.generic[u] = "ready" /\ w.event[u] = Nowhere /\ w.wake[u] = 0
              ELSE /\ w.generic[u] = s.generic[u] /\ w.event[u] = s.event[u]
                   /\ w.wake[u] = s.wake[u]
    BY <1>2, AddToReadyLemma
  <2>3. r = [w EXCEPT !.yieldPending = @ \/ Outranks(t, s.current)]
    BY <2>1
  <2> HIDE DEF w, woken
  <2>4. r \in Sched /\ r.yieldPending = (s.yieldPending \/ Outranks(t, s.current))
    BY <1>4, <2>2, <2>3 DEF Sched, SchedulerStates
  <2>5. /\ r.current = s.current /\ r.entered = s.entered /\ r.wrapped = s.wrapped
        /\ r.tick = s.tick /\ r.pended = s.pended /\ r.nextUnblock = s.nextUnblock
        /\ r.suspended = s.suspended /\ r.switchPending = s.switchPending
        /\ r.generic = w.generic /\ r.event = w.event /\ r.wake = w.wake
    BY <2>2, <2>3 DEF Sched, SchedulerStates
  <2> HIDE DEF r
  <2> QED
    BY <1>2, <1>3, <1>6, <2>2, <2>4, <2>5
<1> QED
  BY <1>5, <1>6

\* From s to r no time passes, and who sleeps on sleeps as long as before.
Still(s, r) ==
    /\ r.tick = s.tick /\ r.nextUnblock = s.nextUnblock /\ r.wrapped = s.wrapped
    /\ r.pended = s.pended /\ r.suspended = s.suspended
    /\ \A t \in Tasks : Naps(r, t) => r.generic[t] = s.generic[t] /\ r.wake[t] = s.wake[t]

\* Then it stays calm.
LEMMA StaysCalm ==
    ASSUME NEW s, NEW r, Rouses(s, r), Calm(s)
    PROVE  Calm(r)
  BY DEF Rouses, Noted, Wakes, Calm

\* Where nothing happens, nobody is woken.
LEMMA RousesSelf ==
    ASSUME NEW s \in Sched, Placed(s)
    PROVE  Rouses(s, s) /\ Still(s, s)
  BY DEF Rouses, Wakes, Still, Noted

\* Wake-ups one after the other are wake-ups.
LEMMA RousesTwice ==
    ASSUME NEW s, NEW r, NEW u, Rouses(s, r), Rouses(r, u)
    PROVE  Rouses(s, u)
<1>1. Wakes(s, u)
  BY DEF Rouses, Wakes, Waits
<1>2. Noted(s, u, u.yieldPending)
  BY DEF Rouses, Wakes, Noted
<1> QED
  BY <1>1, <1>2 DEF Rouses

\* And so are steps that leave the time alone.
LEMMA StillTwice ==
    ASSUME NEW s, NEW r, NEW u, Still(s, r), Still(r, u)
    PROVE  Still(s, u)
  BY DEF Still, Naps

\* A signal wakes one waiter of its list, when there is one.
LEMMA SignalLemma ==
    ASSUME NEW s \in Sched, Placed(s), NEW list \in {"send", "receive"} \X Queues
    PROVE  LET r == Signal(s, list)
           IN  /\ Rouses(s, r) /\ Still(s, r) /\ r.switchPending = s.switchPending
               /\ \A u \in Tasks : Ready(r, u) /\ ~Ready(s, u) => u \in Waiters(s, list)
               /\ Waiters(s, list) = {} => r = s
               /\ Waiters(s, list) # {} =>
                     \E t \in Waiters(s, list) :
                        /\ ~Waits(r, t)
                        /\ \A u \in Tasks \ {t} : r.event[u] = s.event[u]
<1> DEFINE r == Signal(s, list)
<1>1. CASE Waiters(s, list) = {}
  <2>1. r = s
    BY <1>1 DEF Signal
  <2> QED
    BY <1>1, <2>1, RousesSelf
<1>2. CASE Waiters(s, list) # {}
  <2>1. r = RemoveFromEventList(s, list)
    BY <1>2 DEF Signal
  <2>2. PICK t \in Waiters(s, list) :
               /\ r \in Sched
               /\ r.current = s.current /\ r.entered = s.entered /\ r.wrapped = s.wrapped
               /\ r.tick = s.tick /\ r.pended = s.pended /\ r.nextUnblock = s.nextUnblock
               /\ r.suspended = s.suspended
               /\ r.yieldPending = (s.yieldPending \/ Outranks(t, s.current))
               /\ r.switchPending = s.switchPending
               /\ \A u \in Tasks \ {t} :
                     /\ r.generic[u] = s.generic[u] /\ r.event[u] = s.event[u]
                     /\ r.wake[u] = s.wake[u]
               /\ IF s.suspended
                  THEN /\ r.event[t] = PendingReady /\ r.generic[t] = s.generic[t]
                       /\ r.wake[t] = s.wake[t]
                  ELSE r.generic[t] = "ready" /\ r.event[t] = Nowhere /\ r.wake[t] = 0
    BY <1>2, <2>1, RemoveLemma
  <2> HIDE DEF r
  <2>3. t \in Tasks /\ s.event[t] = list
    BY DEF Waiters
  <2>4. list # Nowhere /\ list # PendingReady /\ Nowhere # PendingReady
    BY Lists
  <2>5. ~Ready(s, t)
    BY <2>3, <2>4 DEF Placed
  <2>6. Placed(r)
    BY <2>2, <2>3, <2>4, <2>5 DEF Placed, Ready
  <2>7. \A u \in Tasks : /\ Waits(r, u) => r.event[u] = s.event[u]
                         /\ Ready(s, u) => Ready(r, u)
                         /\ Naps(r, u) => Naps(s, u) /\ r.generic[u] = s.generic[u]
                                          /\ r.wake[u] = s.wake[u]
                         /\ r.event[u] = Nowhere => Ready(r, u) \/ s.event[u] = Nowhere
    BY <2>2, <2>3, <2>4, <2>5 DEF Waits, Ready, Naps
  <2>8. Noted(s, r, r.yieldPending)
    BY <2>2, <2>3 DEF Noted, Ready
  <2>9. ~Waits(r, t)
    BY <2>2, <2>4 DEF Waits
  <2>10. \A u \in Tasks : Ready(r, u) /\ ~Ready(s, u) => u \in Waiters(s, list)
    BY <2>2 DEF Ready
  <2> QED
    BY <1>2, <2>2, <2>6, <2>7, <2>8, <2>9, <2>10 DEF Rouses, Wakes, Still, r
<1> QED
  BY <1>1, <1>2

\* So it does when it may ask for a switch.
LEMMA SignalAndYieldLemma ==
    ASSUME NEW s \in Sched, Placed(s), NEW list \in {"send", "receive"} \X Queues
    PROVE  LET r == SignalAndYield(s, list)
           IN  /\ Rouses(s, r) /\ Still(s, r)
               /\ \A t \in Tasks : Ready(r, t) /\ ~Ready(s, t) /\ Outranks(t, s.current)
                                    => r.switchPending
               /\ Waiters(s, list) = {} => r.event = s.event
               /\ Waiters(s, list) # {} =>
                     \E t \in Waiters(s, list) :
                        /\ ~Waits(r, t)
                        /\ \A u \in Tasks \ {t} : r.event[u] = s.event[u]
<1> DEFINE w == Signal(s, list)
           b == w.switchPending \/ \E t \in Waiters(s, list) : Outranks(t, s.current)
           r == [w EXCEPT !.switchPending = b]
<1>1. /\ Rouses(s, w) /\ Still(s, w)
      /\ \A u \in Tasks : Ready(w, u) /\ ~Ready(s, u) => u \in Waiters(s, list)
      /\ Waiters(s, list) = {} => w = s
      /\ Waiters(s, list) # {} =>
            \E t \in Waiters(s, list) :
               /\ ~Waits(w, t)
               /\ \A u \in Tasks \ {t} : w.event[u] = s.event[u]
  BY SignalLemma
<1>2. w \in Sched /\ b \in BOOLEAN
  BY <1>1 DEF Rouses, Wakes, Sched, SchedulerStates
<1>3. r = SignalAndYield(s, list)
  BY DEF SignalAndYield
<1>6. \A t \in Waiters(s, list) : Outranks(t, s.current) => b
  OBVIOUS
<1> HIDE DEF w, b
<1>4. /\ r \in Sched /\ r.current = w.current /\ r.entered = w.entered /\ r.event = w.event
      /\ r.switchPending = b
      /\ r.generic = w.generic /\ r.wake = w.wake /\ r.tick = w.tick
      /\ r.nextUnblock = w.nextUnblock /\ r.wrapped = w.wrapped /\ r.pended = w.pended
      /\ r.suspended = w.suspended /\ r.yieldPending = w.yieldPending
  BY <1>2 DEF Sched, SchedulerStates
<1> HIDE DEF r
<1>5. Rouses(s, r) /\ Still(s, r)
  BY <1>1, <1>4 DEF Rouses, Wakes, Still, Placed, Noted, Ready, Waits, Naps
<1>7. \A t \in Tasks : Ready(r, t) /\ ~Ready(s, t) /\ Outranks(t, s.current) => r.switchPending
  BY <1>1, <1>4, <1>6 DEF Ready
<1> QED
  BY <1>1, <1>3, <1>4, <1>5, <1>7 DEF Waits

---------------------------------------------------------------------------
(* Time.  *)

\* What holds of 0, and of n + 1 when of n, up to k, holds of k: by counting,
\* for n -> n + 1 would map the set into itself without 0.
LEMMA ClimbsTo ==
    ASSUME NEW k \in Nat, NEW S \in SUBSET (0..k), 0 \in S,
           \A n \in S : n < k => n + 1 \in S
    PROVE  k \in S
<1> SUFFICES ASSUME k \notin S PROVE FALSE
  OBVIOUS
<1> DEFINE f == [n \in S |-> n + 1]
           T == S \ {0}
<1>1. IsFiniteSet(S) /\ Cardinality(S) \in Nat
  <2>1. IsFiniteSet(0..k)
    BY FS_Interval
  <2>2. IsFiniteSet(S)
    BY <2>1, FS_Subset
  <2> QED
    BY <2>2, FS_CardinalityType
<1>2. IsFiniteSet(T) /\ Cardinality(T) = Cardinality(S) - 1
  BY <1>1, FS_RemoveElement
<1>3. f \in [S -> T] /\ \A x, y \in S : f[x] = f[y] => x = y
  OBVIOUS
<1>4. Cardinality(T) < Cardinality(S)
  BY <1>1, <1>2
<1> HIDE DEF f, T
<1>5. \E x, y \in S : x # y /\ f[x] = f[y]
  BY <1>1, <1>2, <1>3, <1>4, FS_PigeonHole
<1> QED
  BY <1>3, <1>5

\* A set of numbers has a least one.
LEMMA LeastExists ==
    ASSUME NEW S \in SUBSET Nat, S # {}
    PROVE  Min(S) \in S /\ \A y \in S : Min(S) <= y
<1>1. \E x \in S : \A y \in S : x <= y
  <2> SUFFICES ASSUME \A x \in S : \E y \in S : y < x
               PROVE  FALSE
    OBVIOUS
  <2>1. PICK k \in S : k \in Nat
    OBVIOUS
  <2> DEFINE T == {j \in 0..k : \A i \in 0..j : i \notin S}
  <2>2. \A j \in 0..k : (\A i \in 0..(j - 1) : i \notin S) => j \notin S
    OBVIOUS
  <2>3. 0 \in T
    BY <2>1, <2>2
  <2>4. \A n \in T : n < k => n + 1 \in T
    <3> SUFFICES ASSUME NEW n \in T, n < k
                 PROVE  n + 1 \in T
      OBVIOUS
    <3>1. n \in 0..k /\ n + 1 \in 0..k /\ (n + 1) - 1 = n /\ \A i \in 0..n : i \notin S
      BY <2>1
    <3>2. n + 1 \notin S
      BY <2>2, <3>1
    <3>3. \A i \in 0..(n + 1) : i \in 0..n \/ i = n + 1
      BY <3>1
    <3> QED
      BY <3>1, <3>2, <3>3
  <2>5. T \in SUBSET (0..k)
    OBVIOUS
  <2> HIDE DEF T
  <2>6. k \in T
    BY <2>1, <2>3, <2>4, <2>5, ClimbsTo
  <2>7. k \in 0..k
    BY <2>1
  <2> QED
    BY <2>1, <2>6, <2>7 DEF T
<1> QED
  BY <1>1 DEF Min

\* No delayed task is due before the time to look for it.
LEMMA EarliestLemma ==
    ASSUME NEW s \in Sched
    PROVE  /\ EarliestWake(s) \in 0..MaxTick
           /\ \A t \in Tasks : s.generic[t] = "delayed" => EarliestWake(s) <= s.wake[t]
<1> DEFINE ts == InList(s, "delayed")
           S  == {s.wake[t] : t \in ts}
<1>1. \A t \in Tasks : s.wake[t] \in 0..MaxTick /\ (t \in ts <=> s.generic[t] = "delayed")
  BY DEF Sched, SchedulerStates, InList
<1>2. ts \subseteq Tasks
  BY DEF InList
<1>3. MaxTick \in 0..MaxTick
  BY TickAssumption
<1>4. EarliestWake(s) = IF ts = {} THEN MaxTick ELSE Min(S)
  BY DEF EarliestWake
<1> HIDE DEF ts
<1>5. CASE ts = {}
  BY <1>1, <1>3, <1>4, <1>5
<1>6. CASE ts # {}
  <2>1. S \in SUBSET Nat /\ S # {} /\ \A x \in S : x \in 0..MaxTick
    BY <1>1, <1>2, <1>6
  <2>2. \A t \in ts : s.wake[t] \in S
    OBVIOUS
  <2> HIDE DEF S
  <2>3. Min(S) \in S /\ \A y \in S : Min(S) <= y
    BY <2>1, LeastExists
  <2> QED
    BY <1>1, <1>4, <1>6, <2>1, <2>2, <2>3
<1> QED
  BY <1>5, <1>6

\* The tick count advances, and the two delayed lists change their places
\* when it wraps.
LEMMA AdvancedLemma ==
    ASSUME NEW s \in Sched
    PROVE  LET a == Advanced(s)
           IN  /\ a \in Sched
               /\ a.current = s.current /\ a.entered = s.entered /\ a.pended = s.pended
               /\ a.event = s.event /\ a.wake = s.wake
               /\ a.suspended = s.suspended /\ a.yieldPending = s.yieldPending
               /\ a.switchPending = s.switchPending
               /\ s.tick < MaxTick =>
                     /\ a.tick = s.tick + 1 /\ a.generic = s.generic
                     /\ a.wrapped = s.wrapped /\ a.nextUnblock = s.nextUnblock
               /\ s.tick = MaxTick =>
                     /\ a.tick = 0
                     /\ a.wrapped = {t \in Tasks : s.entered[t] # None}
                     /\ \A t \in Tasks :
                           /\ a.generic[t] = IF s.generic[t] = "delayed" THEN "overflow"
                                             ELSE IF s.generic[t] = "overflow" THEN "delayed"
                                             ELSE s.generic[t]
                           /\ a.generic[t] = "delayed" => a.nextUnblock <= a.wake[t]
<1> DEFINE a == Advanced(s)
           next == [s EXCEPT !.tick = (@ + 1) % (MaxTick + 1)]
<1>1. s.tick \in 0..MaxTick /\ MaxTick \in Nat
  BY TickAssumption DEF Sched, SchedulerStates
<1>2. (s.tick + 1) % (MaxTick + 1) = IF s.tick = MaxTick THEN 0 ELSE s.tick + 1
  BY <1>1
<1>3. /\ next \in Sched
      /\ next.tick = IF s.tick = MaxTick THEN 0 ELSE s.tick + 1
      /\ next.current = s.current /\ next.entered = s.entered /\ next.pended = s.pended
      /\ next.event = s.event /\ next.wake = s.wake /\ next.generic = s.generic
      /\ next.suspended = s.suspended /\ next.yieldPending = s.yieldPending
      /\ next.switchPending = s.switchPending
      /\ next.wrapped = s.wrapped /\ next.nextUnblock = s.nextUnblock
  BY <1>1, <1>2 DEF Sched, SchedulerStates
<1>4. a = IF next.tick = 0 THEN SwitchDelayedLists(next) ELSE next
  BY DEF Advanced
<1> HIDE DEF next, a
<1>5. CASE s.tick < MaxTick
  <2>1. a = next
    BY <1>1, <1>3, <1>4, <1>5
  <2> QED
    BY <1>1, <1>3, <1>5, <2>1 DEF a
<1>6. CASE s.tick = MaxTick
  <2> DEFINE g == [t \in Tasks |-> CASE next.generic[t] = "delayed"  -> "overflow"
                                     [] next.generic[t] = "overflow" -> "delayed"
                                     [] OTHER             -> next.generic[t]]
             x == {t \in Tasks : next.entered[t] # None}
             w == [next EXCEPT !.generic = g, !.wrapped = x]
             n == EarliestWake(w)
  <2>1. a = [w EXCEPT !.nextUnblock = n]
    BY <1>3, <1>4, <1>6 DEF SwitchDelayedLists
  <2>2. \A t \in Tasks : next.generic[t] \in {"ready", "delayed", "overflow", "suspended"}
    BY <1>3 DEF Sched, SchedulerStates
  <2>3. \A t \in Tasks : g[t] = IF next.generic[t] = "delayed" THEN "overflow"
                                ELSE IF next.generic[t] = "overflow" THEN "delayed"
                                ELSE next.generic[t]
    OBVIOUS
  <2>4. g \in [Tasks -> {"ready", "delayed", "overflow", "suspended"}] /\ x \in SUBSET Tasks
    BY <2>2
  <2> HIDE DEF g, x
  <2>5. /\ w \in Sched /\ w.generic = g /\ w.wrapped = x /\ w.tick = next.tick
        /\ w.current = next.current /\ w.entered = next.entered /\ w.pended = next.pended
        /\ w.event = next.event /\ w.wake = next.wake /\ w.suspended = next.suspended
        /\ w.yieldPending = next.yieldPending /\ w.switchPending = next.switchPending
    BY <1>3, <2>4 DEF Sched, SchedulerStates
  <2> HIDE DEF w
  <2>6. n \in 0..MaxTick /\ \A t \in Tasks : w.generic[t] = "delayed" => n <= w.wake[t]
    BY <2>5, EarliestLemma
  <2> HIDE DEF n
  <2>7. /\ a \in Sched /\ a.generic = g /\ a.wrapped = x /\ a.tick = next.tick
        /\ a.nextUnblock = n
        /\ a.current = next.current /\ a.entered = next.entered /\ a.pended = next.pended
        /\ a.event = next.event /\ a.wake = next.wake /\ a.suspended = next.suspended
        /\ a.yieldPending = next.yieldPending /\ a.switchPending = next.switchPending
    BY <2>1, <2>5, <2>6 DEF Sched, SchedulerStates
  <2>8. x = {t \in Tasks : s.entered[t] # None}
    BY <1>3 DEF x
  <2> QED
    BY <1>1, <1>3, <1>6, <2>3, <2>5, <2>6, <2>7, <2>8 DEF a
<1> QED
  BY <1>1, <1>5, <1>6

\* Those whose time has come are woken.
LEMMA UnblockedLemma ==
    ASSUME NEW s \in Sched
    PROVE  LET r == Unblocked(s)
           IN  /\ r \in Sched
               /\ r.current = s.current /\ r.entered = s.entered /\ r.wrapped = s.wrapped
               /\ r.tick = s.tick /\ r.pended = s.pended
               /\ r.suspended = s.suspended /\ r.yieldPending = s.yieldPending
               /\ r.switchPending = s.switchPending
               /\ \A t \in Tasks :
                     IF t \in Due(s)
                     THEN r.generic[t] = "ready" /\ r.event[t] = Nowhere /\ r.wake[t] = 0
                     ELSE /\ r.generic[t] = s.generic[t] /\ r.event[t] = s.event[t]
                          /\ r.wake[t] = s.wake[t]
               /\ \A t \in Tasks : t \in Due(s) <=> /\ s.tick >= s.nextUnblock
                                                    /\ s.generic[t] = "delayed"
                                                    /\ s.wake[t] <= s.tick
               /\ IF s.tick < s.nextUnblock THEN r.nextUnblock = s.nextUnblock
                  ELSE \A t \in Tasks : r.generic[t] = "delayed" => r.nextUnblock <= r.wake[t]
<1> DEFINE r == Unblocked(s)
           out == AddToReadyLists(s, Due(s))
<1>1. s.tick \in 0..MaxTick /\ s.nextUnblock \in 0..MaxTick /\ MaxTick \in Nat
  BY TickAssumption DEF Sched, SchedulerStates
<1>2. \A t \in Tasks : t \in Due(s) <=> /\ s.tick >= s.nextUnblock
                                        /\ s.generic[t] = "delayed"
                                        /\ s.wake[t] <= s.tick
  BY <1>1 DEF Due, InList
<1>3. Due(s) \in SUBSET Tasks
  BY DEF Due, InList
<1>4. CASE s.tick < s.nextUnblock
  <2>1. r = s
    BY <1>4 DEF Unblocked
  <2> QED
    BY <1>1, <1>2, <1>4, <2>1
<1>5. CASE ~(s.tick < s.nextUnblock)
  <2> DEFINE n == EarliestWake(out)
  <2>1. r = [out EXCEPT !.nextUnblock = n]
    BY <1>5 DEF Unblocked
  <2>2. /\ out \in Sched
        /\ out.current = s.current /\ out.entered = s.entered /\ out.wrapped = s.wrapped
        /\ out.tick = s.tick /\ out.pended = s.pended /\ out.nextUnblock = s.nextUnblock
        /\ out.suspended = s.suspended /\ out.yieldPending = s.yieldPending
        /\ out.switchPending = s.switchPending
        /\ \A t \in Tasks :
              IF t \in Due(s)
              THEN out.generic[t] = "ready" /\ out.event[t] = Nowhere /\ out.wake[t] = 0
              ELSE /\ out.generic[t] = s.generic[t] /\ out.event[t] = s.event[t]
                   /\ out.wake[t] = s.wake[t]
    BY <1>3, AddToReadyLemma
  <2> HIDE DEF out, r
  <2>3. n \in 0..MaxTick /\ \A t \in Tasks : out.generic[t] = "delayed" => n <= out.wake[t]
    BY <2>2, EarliestLemma
  <2> HIDE DEF n
  <2>4. /\ r \in Sched /\ r.nextUnblock = n
        /\ r.generic = out.generic /\ r.wrapped = out.wrapped /\ r.tick = out.tick
        /\ r.current = out.current /\ r.entered = out.entered /\ r.pended = out.pended
        /\ r.event = out.event /\ r.wake = out.wake /\ r.suspended = out.suspended
        /\ r.yieldPending = out.yieldPending /\ r.switchPending = out.switchPending
    BY <2>1, <2>2, <2>3 DEF Sched, SchedulerStates
  <2> QED
    BY <1>2, <1>5, <2>2, <2>3, <2>4 DEF r
<1> QED
  BY <1>4, <1>5

\* What a tick does to the tasks.
LEMMA IncrementLemma ==
    ASSUME NEW s \in Sched, Placed(s), ~s.suspended
    PROVE  LET r == IncrementTick(s)
           IN  /\ Wakes(s, r)
               /\ r.pended = s.pended /\ r.suspended = s.suspended
               /\ r.yieldPending = s.yieldPending /\ r.switchPending = s.switchPending
               /\ TickSwitches(s) \in BOOLEAN /\ Noted(s, r, TickSwitches(s))
<1> DEFINE a == Advanced(s)
           r == Unblocked(a)
           b == \/ \E t \in Due(a) : ~Outranks(s.current, t)
                \/ Cardinality({t \in InList(r, "ready") : Priority[t] = Priority[s.current]}) > 1
<1>1. r = IncrementTick(s) /\ s.suspended \in BOOLEAN /\ s.yieldPending \in BOOLEAN
  BY DEF IncrementTick, Sched, SchedulerStates
<1>2. TickSwitches(s) = (s.yieldPending \/ (~s.suspended /\ b))
  BY DEF TickSwitches
<1>3. b \in BOOLEAN
  OBVIOUS
<1>4. /\ a \in Sched
      /\ a.current = s.current /\ a.entered = s.entered /\ a.pended = s.pended
      /\ a.event = s.event /\ a.suspended = s.suspended /\ a.yieldPending = s.yieldPending
      /\ a.switchPending = s.switchPending
      /\ \A t \in Tasks : /\ Ready(a, t) <=> Ready(s, t)
                          /\ Naps(a, t) <=> Naps(s, t)
  <2>1. s.tick \in 0..MaxTick /\ MaxTick \in Nat
    BY TickAssumption DEF Sched, SchedulerStates
  <2>2. CASE s.tick < MaxTick
    BY <2>2, AdvancedLemma DEF Ready, Naps
  <2>3. CASE s.tick = MaxTick
    BY <2>3, AdvancedLemma DEF Ready, Naps
  <2> QED
    BY <2>1, <2>2, <2>3
<1>5. /\ r \in Sched
      /\ r.current = a.current /\ r.entered = a.entered /\ r.pended = a.pended
      /\ r.suspended = a.suspended /\ r.yieldPending = a.yieldPending
      /\ r.switchPending = a.switchPending
      /\ \A t \in Tasks :
            IF t \in Due(a)
            THEN r.generic[t] = "ready" /\ r.event[t] = Nowhere
            ELSE r.generic[t] = a.generic[t] /\ r.event[t] = a.event[t]
  BY <1>4, UnblockedLemma
<1>6. Due(a) \subseteq Tasks
  BY DEF Due, InList
<1> HIDE DEF a, r
<1>7. Placed(r)
  <2>1. Placed(s) /\ a.suspended = s.suspended /\ a.event = s.event
    BY <1>4
  <2>2. ASSUME NEW t \in Tasks
        PROVE  /\ Ready(r, t) => r.event[t] = Nowhere
               /\ r.event[t] = PendingReady => r.suspended
    <3>1. CASE t \in Due(a)
      BY <1>5, <3>1, Lists
    <3>2. CASE t \notin Due(a)
      BY <1>4, <1>5, <2>1, <3>2 DEF Placed, Ready
    <3> QED
      BY <3>1, <3>2
  <2> QED
    BY <2>2 DEF Placed
<1>8. \A t \in Tasks : /\ Waits(r, t) => r.event[t] = s.event[t]
                       /\ Ready(s, t) => Ready(r, t)
                       /\ Naps(r, t) => Naps(s, t)
                       /\ r.event[t] = Nowhere => Ready(r, t) \/ s.event[t] = Nowhere
  BY <1>4, <1>5 DEF Waits, Ready, Naps
<1>9. ASSUME NEW t \in Tasks, Ready(r, t), ~Ready(s, t), Outranks(t, s.current)
      PROVE  b
  <2>1. t \in Due(a)
    BY <1>4, <1>5, <1>9 DEF Ready
  <2>2. ~Outranks(s.current, t)
    BY <1>9, OutranksLemma DEF Sched, SchedulerStates
  <2> QED
    BY <2>1, <2>2
<1> HIDE DEF b
<1>10. Wakes(s, r)
  BY <1>4, <1>5, <1>7, <1>8 DEF Wakes
<1>11. TickSwitches(s) \in BOOLEAN /\ Noted(s, r, TickSwitches(s))
  BY <1>1, <1>2, <1>3, <1>9 DEF Noted
<1> QED
  BY <1>1, <1>4, <1>5, <1>10, <1>11 DEF r

---------------------------------------------------------------------------
(* How long a task has waited.  *)

\* The ticks since the time of entry of t was taken.
Elapsed(s, t) ==
    IF s.tick >= s.entered[t] THEN s.tick - s.entered[t]
    ELSE s.tick - s.entered[t] + MaxTick + 1

Limit(t) == task[t].call.ticks
Spent(t) == Limit(t) - task[t].left

\* With l[t] ticks gone by since t began to wait, it is woken in time, and
\* its time of entry says how many of them were in this turn of the loop.
Time(s, l) ==
    \A t \in Tasks :
       /\ s.generic[t] = "delayed" =>
             /\ s.nextUnblock <= s.wake[t] /\ s.tick < s.wake[t]
             /\ l[t] + (s.wake[t] - s.tick) <= Limit(t)
       /\ s.generic[t] = "overflow" =>
             /\ s.wake[t] <= s.tick
             /\ l[t] + (s.wake[t] + MaxTick + 1 - s.tick) <= Limit(t)
       /\ s.entered[t] # None =>
             /\ l[t] = Spent(t) + Elapsed(s, t)
             /\ t \in s.wrapped <=> s.tick < s.entered[t]

\* The waits that are timed have an end, and are nowhere near a whole turn of
\* the tick counter.
Counted(s, l) ==
    \A t \in Tasks :
       /\ l[t] \in Int
       /\ Naps(s, t) => Limit(t) \in Int
       /\ s.entered[t] # None => Spent(t) \in Nat /\ l[t] + 1 <= MaxTick

\* A tick brings every sleeper one tick nearer to its time, and wakes it then.
LEMMA TimeGoesOn ==
    ASSUME NEW s \in Sched, Placed(s), ~s.suspended, NEW l, Time(s, l), Counted(s, l),
           NEW k, \A t \in Tasks : Naps(s, t) \/ s.entered[t] # None => k[t] = l[t] + 1
    PROVE  Time(IncrementTick(s), k)
<1> DEFINE a == Advanced(s)
           r == Unblocked(a)
<1>1. r = IncrementTick(s)
  BY DEF IncrementTick
<1>2. /\ s.tick \in 0..MaxTick /\ MaxTick \in Nat
      /\ \A t \in Tasks : s.wake[t] \in 0..MaxTick
      /\ \A t \in Tasks : s.entered[t] # None => s.entered[t] \in 0..MaxTick
      /\ s.nextUnblock \in 0..MaxTick
  BY TickAssumption DEF Sched, SchedulerStates
<1>3. /\ a \in Sched /\ a.entered = s.entered /\ a.wake = s.wake
      /\ s.tick < MaxTick =>
            /\ a.tick = s.tick + 1 /\ a.generic = s.generic
            /\ a.wrapped = s.wrapped /\ a.nextUnblock = s.nextUnblock
      /\ s.tick = MaxTick =>
            /\ a.tick = 0
            /\ a.wrapped = {t \in Tasks : s.entered[t] # None}
            /\ \A t \in Tasks :
                  /\ a.generic[t] = IF s.generic[t] = "delayed" THEN "overflow"
                                    ELSE IF s.generic[t] = "overflow" THEN "delayed"
                                    ELSE s.generic[t]
                  /\ a.generic[t] = "delayed" => a.nextUnblock <= a.wake[t]
  BY AdvancedLemma
<1>4. /\ r \in Sched /\ r.entered = a.entered /\ r.wrapped = a.wrapped /\ r.tick = a.tick
      /\ \A t \in Tasks :
            IF t \in Due(a) THEN r.generic[t] = "ready"
            ELSE r.generic[t] = a.generic[t] /\ r.wake[t] = a.wake[t]
      /\ \A t \in Tasks : t \in Due(a) <=> /\ a.tick >= a.nextUnblock
                                           /\ a.generic[t] = "delayed"
                                           /\ a.wake[t] <= a.tick
      /\ IF a.tick < a.nextUnblock THEN r.nextUnblock = a.nextUnblock
         ELSE \A t \in Tasks : r.generic[t] = "delayed" => r.nextUnblock <= r.wake[t]
  BY <1>3, UnblockedLemma
<1>5. a.nextUnblock \in 0..MaxTick
  BY <1>3 DEF Sched, SchedulerStates
<1> HIDE DEF a, r
<1>6. ASSUME NEW t \in Tasks, r.generic[t] = "delayed"
      PROVE  /\ r.nextUnblock <= r.wake[t] /\ r.tick < r.wake[t]
             /\ k[t] + (r.wake[t] - r.tick) <= Limit(t)
  <2>1. /\ t \notin Due(a) /\ a.generic[t] = "delayed" /\ r.wake[t] = s.wake[t]
        /\ r.tick = a.tick
    BY <1>3, <1>4, <1>6
  <2>2. CASE s.tick < MaxTick
    <3>1. /\ s.generic[t] = "delayed" /\ k[t] = l[t] + 1 /\ l[t] \in Int /\ Limit(t) \in Int
          /\ s.nextUnblock <= s.wake[t] /\ s.tick < s.wake[t]
          /\ l[t] + (s.wake[t] - s.tick) <= Limit(t)
      BY <1>3, <2>1, <2>2 DEF Time, Counted, Naps
    <3>2. r.tick < r.wake[t]
      BY <1>2, <1>3, <1>4, <1>5, <2>1, <2>2, <3>1
    <3>3. r.nextUnblock <= r.wake[t]
      BY <1>3, <1>4, <1>6, <2>1, <2>2, <3>1
    <3> QED
      BY <1>2, <1>3, <2>1, <2>2, <3>1, <3>2, <3>3
  <2>3. CASE s.tick = MaxTick
    <3>1. s.generic[t] = "overflow"
      BY <1>3, <2>1, <2>3
    <3>2. /\ k[t] = l[t] + 1 /\ l[t] \in Int /\ Limit(t) \in Int
          /\ l[t] + (s.wake[t] + MaxTick + 1 - s.tick) <= Limit(t)
      BY <3>1 DEF Time, Counted, Naps
    <3>3. r.tick = 0 /\ a.nextUnblock <= s.wake[t]
      BY <1>3, <2>1, <2>3
    <3>4. r.tick < r.wake[t]
      BY <1>2, <1>3, <1>4, <1>5, <2>1, <3>3
    <3>5. r.nextUnblock <= r.wake[t]
      BY <1>4, <1>6, <2>1, <3>3
    <3> QED
      BY <1>2, <2>1, <2>3, <3>2, <3>3, <3>4, <3>5
  <2> QED
    BY <1>2, <2>2, <2>3
<1>7. ASSUME NEW t \in Tasks, r.generic[t] = "overflow"
      PROVE  /\ r.wake[t] <= r.tick
             /\ k[t] + (r.wake[t] + MaxTick + 1 - r.tick) <= Limit(t)
  <2>1. a.generic[t] = "overflow" /\ r.wake[t] = s.wake[t] /\ r.tick = a.tick
    BY <1>3, <1>4, <1>7
  <2>2. CASE s.tick < MaxTick
    <3>1. /\ k[t] = l[t] + 1 /\ l[t] \in Int /\ Limit(t) \in Int
          /\ s.wake[t] <= s.tick
          /\ l[t] + (s.wake[t] + MaxTick + 1 - s.tick) <= Limit(t)
      BY <1>3, <2>1, <2>2 DEF Time, Counted, Naps
    <3> QED
      BY <1>2, <1>3, <2>1, <2>2, <3>1
  <2>3. CASE s.tick = MaxTick
    <3>1. s.generic[t] = "delayed"
      BY <1>3, <2>1, <2>3
    <3> QED
      BY <1>2, <2>3, <3>1 DEF Time
  <2> QED
    BY <1>2, <2>2, <2>3
<1>8. ASSUME NEW t \in Tasks, r.entered[t] # None
      PROVE  /\ k[t] = Spent(t) + Elapsed(r, t)
             /\ t \in r.wrapped <=> r.tick < r.entered[t]
  <2>1. /\ r.entered[t] = s.entered[t] /\ s.entered[t] \in 0..MaxTick
        /\ r.tick = a.tick /\ r.wrapped = a.wrapped
    BY <1>2, <1>3, <1>4, <1>8
  <2>2. /\ k[t] = l[t] + 1 /\ l[t] \in Int /\ Spent(t) \in Nat /\ l[t] + 1 <= MaxTick
        /\ l[t] = Spent(t) + Elapsed(s, t)
        /\ t \in s.wrapped <=> s.tick < s.entered[t]
    BY <1>8, <2>1 DEF Time, Counted
  <2>3. CASE s.tick < MaxTick
    BY <1>2, <1>3, <2>1, <2>2, <2>3 DEF Elapsed
  <2>4. CASE s.tick = MaxTick
    <3>1. t \in r.wrapped /\ r.tick = 0
      BY <1>3, <1>8, <2>1, <2>4
    <3> QED
      BY <1>2, <2>1, <2>2, <2>4, <3>1 DEF Elapsed
  <2> QED
    BY <1>2, <2>3, <2>4
<1> QED
  BY <1>1, <1>6, <1>7, <1>8 DEF Time

---------------------------------------------------------------------------
\* A tick that was held back is like any other.
LEMMA PendedTickLemma ==
    ASSUME NEW s \in Sched, Placed(s), ~s.suspended, s.pended > 0
    PROVE  LET r == PendedTick(s)
           IN  /\ Rouses(s, r) /\ r.pended = s.pended - 1
               /\ r.suspended = s.suspended /\ r.switchPending = s.switchPending
               /\ \A l, k : /\ Time(s, l) /\ Counted(s, l)
                            /\ \A t \in Tasks : Naps(s, t) \/ s.entered[t] # None => k[t] = l[t] + 1
                            => Time(r, k)
<1> DEFINE w == IncrementTick(s)
           b == TickSwitches(s)
           r == PendedTick(s)
<1>1. /\ Wakes(s, w) /\ w.pended = s.pended /\ w.suspended = s.suspended
      /\ w.switchPending = s.switchPending
      /\ b \in BOOLEAN /\ Noted(s, w, b)
  BY IncrementLemma
<1>2. \A l, k : /\ Time(s, l) /\ Counted(s, l)
                /\ \A t \in Tasks : Naps(s, t) \/ s.entered[t] # None => k[t] = l[t] + 1
                => Time(w, k)
  BY TimeGoesOn
<1>3. r = [w EXCEPT !.yieldPending = b, !.pended = @ - 1]
  BY DEF PendedTick
<1> HIDE DEF w, b, r
<1>4. w \in Sched /\ w.pended - 1 \in 0..MaxPended
  <2>1. s.pended \in 0..MaxPended /\ MaxPended \in Nat
    BY TickAssumption DEF Sched, SchedulerStates
  <2> QED
    BY <1>1, <2>1 DEF Wakes
<1>5. /\ r \in Sched /\ r.current = w.current /\ r.entered = w.entered /\ r.event = w.event
      /\ r.generic = w.generic /\ r.wake = w.wake /\ r.tick = w.tick
      /\ r.nextUnblock = w.nextUnblock /\ r.wrapped = w.wrapped /\ r.pended = w.pended - 1
      /\ r.suspended = w.suspended /\ r.yieldPending = b /\ r.switchPending = w.switchPending
  BY <1>1, <1>3, <1>4 DEF Sched, SchedulerStates
<1>6. Wakes(s, r)
  BY <1>1, <1>5 DEF Wakes, Placed, Ready, Waits, Naps
<1>7. Noted(s, r, r.yieldPending)
  BY <1>1, <1>5 DEF Noted, Ready
<1>8. \A l : Time(w, l) => Time(r, l)
  BY <1>5 DEF Time, Elapsed
<1> QED
  BY <1>1, <1>2, <1>5, <1>6, <1>7, <1>8 DEF Rouses, r

\* The states passed on the way through the ticks held back.
CaughtTo(g, s, n) ==
    g = [i \in 0..n |-> IF i = 0 THEN s ELSE PendedTick(g[i - 1])]

\* The function CatchUp is defined by exists.
LEMMA CaughtExists ==
    ASSUME NEW s, s.pended \in Nat
    PROVE  \E g : CaughtTo(g, s, s.pended) /\ CatchUp(s) = g[s.pended]
<1> DEFINE N == s.pended
           T == {k \in 0..N : \E g : CaughtTo(g, s, k)}
<1>1. 0 \in T
  <2> DEFINE g == [i \in 0..0 |-> s]
  <2>1. \A i \in 0..0 : g[i] = IF i = 0 THEN s ELSE PendedTick(g[i - 1])
    OBVIOUS
  <2>2. g = [i \in 0..0 |-> g[i]]
    OBVIOUS
  <2>3. CaughtTo(g, s, 0)
    <3> HIDE DEF g
    <3> QED
      BY <2>1, <2>2, Zenon DEF CaughtTo
  <2> QED
    BY <2>3
<1>2. ASSUME NEW k \in T, k < N
      PROVE  k + 1 \in T
  <2>1. PICK g : CaughtTo(g, s, k)
    OBVIOUS
  <2>0. k \in Nat /\ k + 1 \in 0..N
    <3>1. k \in 0..N
      OBVIOUS
    <3> HIDE DEF T
    <3> QED
      BY <1>2, <3>1
  <2> HIDE DEF T
  <2> DEFINE h == [i \in 0..(k + 1) |-> IF i <= k THEN g[i] ELSE
                                        IF i = 0 THEN s ELSE PendedTick(g[i - 1])]
  <2>2. \A i \in 0..(k + 1) : h[i] = IF i = 0 THEN s ELSE PendedTick(h[i - 1])
    <3>1. \A i \in 0..k : g[i] = IF i = 0 THEN s ELSE PendedTick(g[i - 1])
      BY <2>1, Zenon DEF CaughtTo
    <3> QED
      BY <2>0, <3>1
  <2>3. h = [i \in 0..(k + 1) |-> h[i]]
    OBVIOUS
  <2>4. CaughtTo(h, s, k + 1)
    <3> HIDE DEF h
    <3> QED
      BY <2>2, <2>3, Zenon DEF CaughtTo
  <2> QED
    BY <2>0, <2>4, Zenon DEF T
<1>3. N \in T
  <2>1. T \in SUBSET (0..N)
    OBVIOUS
  <2> HIDE DEF T
  <2> QED
    BY <1>1, <1>2, <2>1, ClimbsTo
<1>4. \E g : CaughtTo(g, s, N)
  BY <1>3
<1>5. CatchUp(s) = (CHOOSE g : CaughtTo(g, s, N))[N]
  BY Zenon DEF CatchUp, CaughtTo
<1> QED
  BY <1>4, <1>5, Zenon

\* The task t has waited l ticks and may be kept n more.
CountedOn(s, l, n) ==
    \A t \in Tasks :
       /\ l[t] \in Int
       /\ Naps(s, t) => Limit(t) \in Int
       /\ s.entered[t] # None => Spent(t) \in Nat /\ l[t] + n <= MaxTick

\* All the ticks held back are made up for.
LEMMA CatchUpLemma ==
    ASSUME NEW s \in Sched, Placed(s), ~s.suspended,
           NEW l, NEW k, \A t \in Tasks : Naps(s, t) \/ s.entered[t] # None => k[t] = l[t] + s.pended
    PROVE  LET r == CatchUp(s)
           IN  /\ Rouses(s, r) /\ r.pended = 0
               /\ r.suspended = s.suspended /\ r.switchPending = s.switchPending
               /\ Time(s, l) /\ CountedOn(s, l, s.pended) => Time(r, k)
<1> DEFINE N == s.pended
           Goes == Time(s, l) /\ CountedOn(s, l, N)
<1>1. N \in Nat /\ N \in 0..MaxPended
  BY TickAssumption DEF Sched, SchedulerStates
<1>2. PICK g : CaughtTo(g, s, N) /\ CatchUp(s) = g[N]
  BY <1>1, CaughtExists
<1>3. g[0] = s /\ \A i \in 0..N : i # 0 => g[i] = PendedTick(g[i - 1])
  <2>1. \A i \in 0..N : g[i] = IF i = 0 THEN s ELSE PendedTick(g[i - 1])
    BY <1>2, Zenon DEF CaughtTo
  <2> QED
    BY <1>1, <2>1
<1> DEFINE Fine(i) ==
              /\ Rouses(s, g[i]) /\ g[i].pended = N - i
              /\ g[i].suspended = s.suspended /\ g[i].switchPending = s.switchPending
              /\ Goes => Time(g[i], [t \in Tasks |-> l[t] + i])
           T == {i \in 0..N : Fine(i)}
<1>4. 0 \in T
  <2>1. Rouses(s, s)
    BY RousesSelf
  <2>2. ASSUME Goes
        PROVE  Time(s, [t \in Tasks |-> l[t] + 0])
    <3>1. \A t \in Tasks : l[t] + 0 = l[t]
      BY <2>2 DEF CountedOn
    <3>2. Time(s, l)
      BY <2>2
    <3> QED
      BY <3>1, <3>2 DEF Time
  <2> HIDE DEF Goes
  <2> QED
    BY <1>1, <1>3, <2>1, <2>2
<1>5. ASSUME NEW i \in T, i < N
      PROVE  i + 1 \in T
  <2>1. i \in 0..N /\ Fine(i)
    OBVIOUS
  <2> HIDE DEF T
  <2>2. i + 1 \in 0..N /\ i + 1 # 0 /\ (i + 1) - 1 = i /\ N - i > 0 /\ i \in Nat
    BY <1>1, <1>5, <2>1
  <2>3. g[i + 1] = PendedTick(g[i])
    BY <1>3, <2>2
  <2> DEFINE c == g[i]
             r == PendedTick(c)
             li == [t \in Tasks |-> l[t] + i]
             ln == [t \in Tasks |-> l[t] + (i + 1)]
  <2>4. /\ c \in Sched /\ Placed(c) /\ ~c.suspended /\ c.pended > 0
        /\ c.entered = s.entered
        /\ \A t \in Tasks : Naps(c, t) => Naps(s, t)
    BY <2>1, <2>2 DEF Rouses, Wakes
  <2>5. /\ Rouses(c, r) /\ r.pended = c.pended - 1
        /\ r.suspended = c.suspended /\ r.switchPending = c.switchPending
        /\ \A x, y : /\ Time(c, x) /\ Counted(c, x)
                     /\ \A t \in Tasks : Naps(c, t) \/ c.entered[t] # None => y[t] = x[t] + 1
                     => Time(r, y)
    <3> HIDE DEF c
    <3> QED
      BY <2>4, PendedTickLemma
  <2>6. Rouses(s, r)
    BY <2>1, <2>5, RousesTwice
  <2>7. ASSUME Goes
        PROVE  Time(r, ln)
    <3>1. Time(c, li)
      BY <2>1, <2>7
    <3>0. CountedOn(s, l, N)
      BY <2>7
    <3> HIDE DEF Goes
    <3>2. Counted(c, li)
      <4>1. ASSUME NEW t \in Tasks
            PROVE  /\ li[t] \in Int
                   /\ Naps(c, t) => Limit(t) \in Int
                   /\ c.entered[t] # None => Spent(t) \in Nat /\ li[t] + 1 <= MaxTick
        <5>1. /\ l[t] \in Int /\ (Naps(s, t) => Limit(t) \in Int)
              /\ s.entered[t] # None => Spent(t) \in Nat /\ l[t] + N <= MaxTick
          BY <3>0 DEF CountedOn
        <5>2. li[t] = l[t] + i /\ MaxTick \in Nat
          BY TickAssumption
        <5> HIDE DEF c, li, N
        <5> QED
          BY <1>1, <1>5, <2>2, <2>4, <5>1, <5>2
      <4> QED
        BY <4>1 DEF Counted
    <3>3. \A t \in Tasks : ln[t] = li[t] + 1
      BY <2>2, <3>0 DEF CountedOn
    <3> HIDE DEF c, r, li, ln
    <3> QED
      BY <2>5, <3>1, <3>2, <3>3
  <2>8. Fine(i + 1)
    <3>1. r.pended = N - (i + 1)
      BY <1>1, <2>1, <2>2, <2>5
    <3> HIDE DEF Goes, Fine
    <3>2. /\ r.suspended = s.suspended /\ r.switchPending = s.switchPending
      BY <2>1, <2>5 DEF Fine
    <3> QED
      BY <2>3, <2>6, <2>7, <3>1, <3>2 DEF Fine
  <2> HIDE DEF Fine
  <2> QED
    BY <2>2, <2>8 DEF T
<1>6. T \in SUBSET (0..N)
  OBVIOUS
<1>7. N \in T
  <2> HIDE DEF T
  <2> QED
    BY <1>1, <1>4, <1>5, <1>6, ClimbsTo
<1>8. Fine(N)
  BY <1>7
<1>9. ASSUME Goes
      PROVE  Time(g[N], k)
  <2> DEFINE ln == [t \in Tasks |-> l[t] + N]
  <2>1. Time(g[N], ln)
    BY <1>8, <1>9
  <2>2. /\ g[N].entered = s.entered
        /\ \A t \in Tasks : Naps(g[N], t) => Naps(s, t)
    BY <1>8 DEF Rouses, Wakes
  <2>3. \A t \in Tasks : Naps(g[N], t) \/ g[N].entered[t] # None => k[t] = ln[t]
    BY <2>2
  <2> HIDE DEF Goes, Fine, ln
  <2> QED
    BY <2>1, <2>3 DEF Time, Naps
<1> HIDE DEF T
<1>10. N - N = 0
  BY <1>1
<1> QED
  BY <1>2, <1>8, <1>9, <1>10

---------------------------------------------------------------------------
\* The scheduler is resumed: who was woken meanwhile is ready, and the ticks
\* held back have been counted.
LEMMA ResumeAllLemma ==
    ASSUME NEW s \in Sched, Placed(s),
           NEW l, NEW k, \A t \in Tasks : Naps(s, t) \/ s.entered[t] # None => k[t] = l[t] + s.pended
    PROVE  LET r == ResumeAll(s)
           IN  /\ Rouses(s, r) /\ r.pended = 0 /\ ~r.suspended
               /\ r.switchPending = (s.switchPending \/ r.yieldPending)
               /\ r.yieldPending = AlreadyYielded(s)
               /\ Time(s, l) /\ CountedOn(s, l, s.pended) => Time(r, k)
<1> DEFINE ts == Waiters(s, PendingReady)
           w == AddToReadyLists(s, ts)
           b == w.yieldPending \/ \E t \in ts : ~Outranks(s.current, t)
           m == [w EXCEPT !.suspended = FALSE, !.yieldPending = b]
           c == CatchUp(m)
           r == [c EXCEPT !.switchPending = @ \/ c.yieldPending]
<1>1. r = ResumeAll(s)
  BY Zenon DEF ResumeAll
<1>2. ts \in SUBSET Tasks /\ \A t \in Tasks : t \in ts <=> s.event[t] = PendingReady
  BY DEF Waiters
<1>3. /\ w \in Sched
      /\ w.current = s.current /\ w.entered = s.entered /\ w.wrapped = s.wrapped
      /\ w.tick = s.tick /\ w.pended = s.pended /\ w.nextUnblock = s.nextUnblock
      /\ w.yieldPending = s.yieldPending
      /\ w.switchPending = s.switchPending
      /\ \A t \in Tasks :
            IF t \in ts
            THEN w.generic[t] = "ready" /\ w.event[t] = Nowhere /\ w.wake[t] = 0
            ELSE /\ w.generic[t] = s.generic[t] /\ w.event[t] = s.event[t]
                 /\ w.wake[t] = s.wake[t]
  BY <1>2, AddToReadyLemma
<1> HIDE DEF w
<1>4. b \in BOOLEAN
  BY <1>3 DEF Sched, SchedulerStates
<1>5. /\ s.yieldPending => b
      /\ \A t \in ts : Outranks(t, s.current) => b
  <2>1. \A t \in ts : Outranks(t, s.current) => ~Outranks(s.current, t)
    BY <1>2, OutranksLemma DEF Sched, SchedulerStates
  <2> QED
    BY <1>3, <2>1
<1> HIDE DEF b, ts
<1>6. /\ m \in Sched
      /\ m.current = s.current /\ m.entered = s.entered /\ m.wrapped = s.wrapped
      /\ m.tick = s.tick /\ m.pended = s.pended /\ m.nextUnblock = s.nextUnblock
      /\ m.generic = w.generic /\ m.event = w.event /\ m.wake = w.wake
      /\ m.suspended = FALSE /\ m.yieldPending = b
      /\ m.switchPending = s.switchPending
  BY <1>3, <1>4 DEF Sched, SchedulerStates
<1> HIDE DEF m
<1>7. Placed(m)
  BY <1>2, <1>3, <1>6, Lists DEF Placed, Ready
<1>8. \A t \in Tasks : /\ Waits(m, t) => m.event[t] = s.event[t]
                       /\ Ready(s, t) => Ready(m, t)
                       /\ Naps(m, t) => Naps(s, t) /\ t \notin ts
                       /\ m.event[t] = Nowhere => Ready(m, t) \/ s.event[t] = Nowhere
                       /\ Ready(m, t) /\ ~Ready(s, t) => t \in ts
  BY <1>3, <1>6 DEF Waits, Ready, Naps
<1>9. Rouses(s, m)
  BY <1>5, <1>6, <1>7, <1>8 DEF Rouses, Wakes, Noted
<1>10. /\ Rouses(m, c) /\ c.pended = 0
       /\ c.suspended = m.suspended /\ c.switchPending = m.switchPending
       /\ Time(m, l) /\ CountedOn(m, l, m.pended) => Time(c, k)
  <2>1. \A t \in Tasks : Naps(m, t) \/ m.entered[t] # None => k[t] = l[t] + m.pended
    BY <1>6, <1>8
  <2> QED
    BY <1>6, <1>7, <2>1, CatchUpLemma
<1> HIDE DEF c
<1>11. Rouses(s, c)
  BY <1>9, <1>10, RousesTwice
<1>12. ASSUME Time(s, l), CountedOn(s, l, s.pended)
       PROVE  Time(c, k)
  <2>1. Time(m, l)
    BY <1>3, <1>6, <1>8, <1>12 DEF Time, Naps, Elapsed
  <2>2. CountedOn(m, l, m.pended)
    BY <1>6, <1>8, <1>12 DEF CountedOn
  <2> QED
    BY <1>10, <2>1, <2>2
<1>13. c \in Sched /\ c.switchPending \in BOOLEAN /\ c.yieldPending \in BOOLEAN
  BY <1>11 DEF Rouses, Wakes, Sched, SchedulerStates
<1>14. /\ r \in Sched /\ r.current = c.current /\ r.entered = c.entered /\ r.event = c.event
       /\ r.generic = c.generic /\ r.wake = c.wake /\ r.tick = c.tick
       /\ r.nextUnblock = c.nextUnblock /\ r.wrapped = c.wrapped /\ r.pended = c.pended
       /\ r.suspended = c.suspended /\ r.yieldPending = c.yieldPending
       /\ r.switchPending = (c.switchPending \/ c.yieldPending)
  BY <1>13 DEF Sched, SchedulerStates
<1> HIDE DEF r
<1>15. Rouses(s, r)
  BY <1>11, <1>14 DEF Rouses, Wakes, Placed, Noted, Ready, Waits, Naps
<1>16. Time(c, k) => Time(r, k)
  BY <1>14 DEF Time, Elapsed
<1> QED
  BY <1>1, <1>6, <1>10, <1>12, <1>14, <1>15, <1>16 DEF AlreadyYielded

---------------------------------------------------------------------------
\* The states passed on the way through the messages the lock remembers.
WokenTo(g, s, list, n) ==
    g = [i \in 0..n |-> IF i = 0 THEN s ELSE Signal(g[i - 1], list)]

\* The function WokenByUnlock is defined by exists.
LEMMA WokenExists ==
    ASSUME NEW s, NEW c, c.op # "wait", queue[c.queue].txLock \in Nat
    PROVE  \E g : /\ WokenTo(g, s, ToReceive(c.queue), queue[c.queue].txLock)
                  /\ WokenByUnlock(s, c) = g[queue[c.queue].txLock]
<1> DEFINE N == queue[c.queue].txLock
           list == ToReceive(c.queue)
           T == {k \in 0..N : \E g : WokenTo(g, s, list, k)}
<1>5. WokenByUnlock(s, c) = (CHOOSE g : WokenTo(g, s, list, N))[N]
  BY Zenon DEF WokenByUnlock, WokenTo
<1> HIDE DEF list
<1>1. 0 \in T
  <2> DEFINE g == [i \in 0..0 |-> s]
  <2>1. \A i \in 0..0 : g[i] = IF i = 0 THEN s ELSE Signal(g[i - 1], list)
    OBVIOUS
  <2>2. g = [i \in 0..0 |-> g[i]]
    OBVIOUS
  <2>3. WokenTo(g, s, list, 0)
    <3> HIDE DEF g
    <3> QED
      BY <2>1, <2>2, Zenon DEF WokenTo
  <2> QED
    BY <2>3
<1>2. ASSUME NEW k \in T, k < N
      PROVE  k + 1 \in T
  <2>1. PICK g : WokenTo(g, s, list, k)
    OBVIOUS
  <2>0. k \in Nat /\ k + 1 \in 0..N
    <3>1. k \in 0..N
      OBVIOUS
    <3> HIDE DEF T
    <3> QED
      BY <1>2, <3>1
  <2> HIDE DEF T
  <2> DEFINE h == [i \in 0..(k + 1) |-> IF i <= k THEN g[i] ELSE
                                        IF i = 0 THEN s ELSE Signal(g[i - 1], list)]
  <2>2. \A i \in 0..(k + 1) : h[i] = IF i = 0 THEN s ELSE Signal(h[i - 1], list)
    <3>1. \A i \in 0..k : g[i] = IF i = 0 THEN s ELSE Signal(g[i - 1], list)
      BY <2>1, Zenon DEF WokenTo
    <3> QED
      BY <2>0, <3>1
  <2>3. h = [i \in 0..(k + 1) |-> h[i]]
    OBVIOUS
  <2>4. WokenTo(h, s, list, k + 1)
    <3> HIDE DEF h
    <3> QED
      BY <2>2, <2>3, Zenon DEF WokenTo
  <2> QED
    BY <2>0, <2>4, Zenon DEF T
<1>3. N \in T
  <2>1. T \in SUBSET (0..N)
    OBVIOUS
  <2> HIDE DEF T
  <2> QED
    BY <1>1, <1>2, <2>1, ClimbsTo
<1>4. \E g : WokenTo(g, s, list, N)
  BY <1>3
<1> QED
  BY <1>4, <1>5, Zenon DEF list

\* A queue is unlocked: its one receiver is woken when messages came.
LEMMA UnlockLemma ==
    ASSUME NEW s \in Sched, Placed(s), NEW c,
           c.op # "wait" => c.queue \in Queues /\ queue[c.queue].txLock \in Nat
    PROVE  LET r == WokenByUnlock(s, c)
           IN  /\ Rouses(s, r) /\ Still(s, r) /\ r.switchPending = s.switchPending
               /\ \A u \in Tasks :
                     /\ c.op # "wait" /\ queue[c.queue].txLock > 0
                     /\ Waiters(s, ToReceive(c.queue)) \subseteq {u}
                     => Waiters(r, ToReceive(c.queue)) = {}
<1>1. CASE c.op = "wait"
  <2>1. WokenByUnlock(s, c) = s
    BY <1>1 DEF WokenByUnlock
  <2> QED
    BY <1>1, <2>1, RousesSelf
<1>2. CASE c.op # "wait"
  <2> DEFINE N == queue[c.queue].txLock
             list == ToReceive(c.queue)
  <2>1. N \in Nat /\ list \in {"send", "receive"} \X Queues /\ list \notin {Nowhere, PendingReady}
    BY <1>2, Lists
  <2>2. PICK g : WokenTo(g, s, list, N) /\ WokenByUnlock(s, c) = g[N]
    BY <1>2, <2>1, WokenExists
  <2> HIDE DEF list, N
  <2>3. g[0] = s /\ \A i \in 0..N : i # 0 => g[i] = Signal(g[i - 1], list)
    <3>1. \A i \in 0..N : g[i] = IF i = 0 THEN s ELSE Signal(g[i - 1], list)
      BY <2>2, Zenon DEF WokenTo
    <3> QED
      BY <2>1, <3>1
  <2> DEFINE Fine(i) ==
                /\ Rouses(s, g[i]) /\ Still(s, g[i]) /\ g[i].switchPending = s.switchPending
                /\ \A u \in Tasks : i > 0 /\ Waiters(s, list) \subseteq {u} => Waiters(g[i], list) = {}
             T == {i \in 0..N : Fine(i)}
  <2>4. 0 \in T
    BY <2>1, <2>3, RousesSelf
  <2>5. ASSUME NEW i \in T, i < N
        PROVE  i + 1 \in T
    <3>1. i \in 0..N /\ Fine(i)
      OBVIOUS
    <3> HIDE DEF T
    <3>2. i + 1 \in 0..N /\ i + 1 # 0 /\ (i + 1) - 1 = i /\ i \in Nat
      BY <2>1, <2>5, <3>1
    <3>3. g[i + 1] = Signal(g[i], list)
      BY <2>3, <3>2
    <3> DEFINE w == g[i]
               r == Signal(w, list)
    <3>4. w \in Sched /\ Placed(w)
      BY <3>1 DEF Rouses, Wakes
    <3>5. /\ Rouses(w, r) /\ Still(w, r) /\ r.switchPending = w.switchPending
          /\ Waiters(w, list) = {} => r = w
          /\ Waiters(w, list) # {} =>
                \E t \in Waiters(w, list) :
                   /\ ~Waits(r, t)
                   /\ \A u \in Tasks \ {t} : r.event[u] = w.event[u]
      <4> HIDE DEF w
      <4> QED
        BY <2>1, <3>4, SignalLemma
    <3>6. Rouses(s, w) /\ Still(s, w) /\ w.switchPending = s.switchPending
      BY <3>1
    <3>7. Rouses(s, r) /\ Still(s, r)
      BY <3>5, <3>6, RousesTwice, StillTwice
    <3>8. ASSUME NEW u \in Tasks, Waiters(s, list) \subseteq {u}
          PROVE  Waiters(r, list) = {}
      <4>1. \A t \in Tasks : w.event[t] = list => t = u
        BY <2>1, <3>6, <3>8 DEF Rouses, Wakes, Waits, Waiters
      <4>2. CASE Waiters(w, list) = {}
        BY <3>5, <4>2
      <4>3. CASE Waiters(w, list) # {}
        <5>1. ~Waits(r, u) /\ \A t \in Tasks \ {u} : r.event[t] = w.event[t]
          BY <3>5, <4>1, <4>3 DEF Waiters
        <5> HIDE DEF r, w
        <5> QED
          BY <2>1, <4>1, <5>1 DEF Waiters, Waits
      <4> QED
        BY <4>2, <4>3
    <3>9. Fine(i + 1)
      BY <3>3, <3>5, <3>6, <3>7, <3>8
    <3> HIDE DEF Fine
    <3> QED
      BY <3>2, <3>9 DEF T
  <2>6. T \in SUBSET (0..N)
    OBVIOUS
  <2>7. N \in T
    <3> HIDE DEF T
    <3> QED
      BY <2>1, <2>4, <2>5, <2>6, ClimbsTo
  <2>8. Fine(N)
    BY <2>7
  <2> HIDE DEF T
  <2> QED
    BY <1>2, <2>2, <2>8 DEF N, list
<1> QED
  BY <1>1, <1>2

(***************************************************************************)
(* Tasks, the scheduler and the queues together.                           *)
(***************************************************************************)

\* What each task may be calling.
OwnCalls(t) == CASE t = "sensor"  -> {Receive("tick"), SendReading}
                 [] t = "control" -> {SendOff, SendSetting, Receive("control")}
                 [] t = "timer"   -> {Wait(Period), SendSample}
                 [] t = "display" -> {Receive("display")}
                 [] OTHER         -> {Busy}

Announces(c) == c.op = "send" /\ c.queue = "display"
Reads(t)     == IF t = "sensor" THEN "tick" ELSE t

\* How far it may be in which call.
CallFits(t, k) ==
    /\ k.call \in OwnCalls(t)
    /\ k.pc \in {"try", "suspend", "check", "place", "resume", "yield"}
    /\ k.left \in 0..MaxTick /\ k.then \in {"again", "sleep", "fail"}
    /\ k.call.op = "busy" => k.pc = "try" /\ k.left = 0
    /\ k.call.op = "send" /\ k.call.queue = "tick" => k.pc = "try" /\ k.left = 0
    /\ k.call.op = "receive" => k.left = Forever /\ k.then # "fail"
    /\ k.call.op = "wait" => /\ k.left = Period /\ k.pc # "check"
                             /\ k.pc = "resume" => k.then = "sleep"
    /\ Announces(k.call) => k.left \in 1..SendTicks
    /\ k.pc = "place" /\ k.call.op # "wait" => k.then = "sleep"

\* A time of entry is that of an announcement, and only who counts the ticks
\* sleeps among the delayed.
StampFits(t, k, s) ==
    /\ s.entered[t] # None => Announces(k.call)
    /\ Announces(k.call) /\ k.pc # "try" => s.entered[t] # None
    /\ Naps(s, t) => s.entered[t] # None \/ k.call.op = "wait"

\* Who waits for an event waits for that of its call, and only the timer
\* service sleeps without one; who goes on in its call is ready.
PlaceFits(t, k, s) ==
    /\ Waits(s, t) => /\ s.event[t] = <<k.call.op, k.call.queue>>
                      /\ k.call.op = "receive" \/ Announces(k.call)
    /\ s.event[t] = Nowhere /\ k.call.op # "wait" => Ready(s, t)
    /\ k.pc \in {"suspend", "check", "place"} => Ready(s, t)
    /\ k.pc = "resume" /\ k.then # "sleep" => Ready(s, t)

---------------------------------------------------------------------------
\* What the calls of a task have in common.
LEMMA OwnFacts ==
    ASSUME NEW t \in Tasks, NEW c \in OwnCalls(t)
    PROVE  /\ c.op \in {"send", "receive", "wait", "busy"}
           /\ c.op = "receive" => /\ c.queue = Reads(t) /\ c.queue \in Queues
                                  /\ t \in {"sensor", "control", "display"}
                                  /\ c.ticks = Forever
           /\ c.op = "send" =>
                 \/ c.queue = "display" /\ t \in {"sensor", "control"} /\ c.ticks = SendTicks
                 \/ c.queue = "tick" /\ t = "timer" /\ c.ticks = 0
           /\ c.op = "send" => c.queue \in Queues
           /\ c.op = "wait" => t = "timer" /\ c.ticks = Period
           /\ c.op = "busy" => t = "cdc"
<1>1. CASE t = "sensor"
  BY <1>1 DEF OwnCalls, Receive, SendReading, Send, Reads, Queues
<1>2. CASE t = "control"
  BY <1>2 DEF OwnCalls, Receive, SendOff, SendSetting, Send, Reads, Queues
<1>3. CASE t = "timer"
  BY <1>3 DEF OwnCalls, Wait, SendSample, Send, Reads, Queues
<1>4. CASE t = "display"
  BY <1>4 DEF OwnCalls, Receive, Reads, Queues
<1>5. CASE t = "cdc"
  BY <1>5 DEF OwnCalls, Busy
<1> QED
  BY <1>1, <1>2, <1>3, <1>4, <1>5 DEF Tasks

\* A task goes from one of its calls to another.
LEMMA NextOwn ==
    ASSUME NEW t \in Tasks, NEW d
    PROVE  FirstCall(t) \in OwnCalls(t) /\ \A c \in NextCalls(t, d) : c \in OwnCalls(t)
<1>1. CASE t = "sensor"
  BY <1>1 DEF OwnCalls, NextCalls, FirstCall
<1>2. CASE t = "control"
  BY <1>2 DEF OwnCalls, NextCalls, FirstCall
<1>3. CASE t = "timer"
  BY <1>3 DEF OwnCalls, NextCalls, FirstCall
<1>4. CASE t = "display"
  BY <1>4 DEF OwnCalls, NextCalls, FirstCall
<1>5. CASE t = "cdc"
  BY <1>5 DEF OwnCalls, NextCalls, FirstCall
<1> QED
  BY <1>1, <1>2, <1>3, <1>4, <1>5 DEF Tasks

\* A call begins where it should.
LEMMA BegunFits ==
    ASSUME NEW t \in Tasks, NEW c \in OwnCalls(t)
    PROVE  /\ CallFits(t, Begun(c)) /\ Begun(c).call = c
           /\ Begun(c).pc = IF c.op = "wait" THEN "suspend" ELSE "try"
           /\ Announces(c) => Begun(c).left = SendTicks
<1> DEFINE k == Begun(c)
<1>1. /\ k.call = c /\ k.then = "again"
      /\ k.pc = IF c.op = "wait" THEN "suspend" ELSE "try"
      /\ k.left = IF c.op = "busy" THEN 0 ELSE c.ticks
  BY DEF Begun
<1> HIDE DEF k
<1>2. /\ MaxTick \in Nat /\ SendTicks \in 1..(MaxTick - 1) /\ Period \in 1..(MaxTick - 1)
      /\ Forever = MaxTick
  BY TickAssumption DEF Forever
<1> QED
  BY <1>1, <1>2, OwnFacts DEF CallFits, Announces, k

---------------------------------------------------------------------------
\* The times of entry.
LEMMA SetTimeOutLemma ==
    ASSUME NEW s \in Sched, NEW t \in Tasks
    PROVE  LET r == SetTimeOutState(s, t)
           IN  /\ r \in Sched
               /\ r.current = s.current /\ r.generic = s.generic /\ r.event = s.event
               /\ r.wake = s.wake /\ r.tick = s.tick /\ r.pended = s.pended
               /\ r.nextUnblock = s.nextUnblock /\ r.suspended = s.suspended
               /\ r.yieldPending = s.yieldPending /\ r.switchPending = s.switchPending
               /\ r.entered[t] = s.tick /\ r.entered[t] # None /\ t \notin r.wrapped
               /\ \A u \in Tasks \ {t} : /\ r.entered[u] = s.entered[u]
                                         /\ u \in r.wrapped <=> u \in s.wrapped
<1>1. s.tick \in 0..MaxTick /\ s.tick # None
  BY TickAssumption DEF Sched, SchedulerStates, None
<1> QED
  BY <1>1 DEF SetTimeOutState, Sched, SchedulerStates

\* The time of entry goes with its call.
LEMMA DropTimeOutLemma ==
    ASSUME NEW s \in Sched, NEW t \in Tasks
    PROVE  LET r == DropTimeOut(s, t)
           IN  /\ r \in Sched
               /\ r.current = s.current /\ r.generic = s.generic /\ r.event = s.event
               /\ r.wake = s.wake /\ r.tick = s.tick /\ r.pended = s.pended
               /\ r.nextUnblock = s.nextUnblock /\ r.suspended = s.suspended
               /\ r.yieldPending = s.yieldPending /\ r.switchPending = s.switchPending
               /\ r.entered[t] = None /\ t \notin r.wrapped
               /\ \A u \in Tasks \ {t} : /\ r.entered[u] = s.entered[u]
                                         /\ u \in r.wrapped <=> u \in s.wrapped
  BY DEF DropTimeOut, Sched, SchedulerStates

\* A difference of tick counts is the time that went by, over a wrap too.
LEMMA ElapsedLemma ==
    ASSUME NEW s \in Sched, NEW t \in Tasks, s.entered[t] # None
    PROVE  SinceEntering(s, t) = Elapsed(s, t) /\ Elapsed(s, t) \in 0..MaxTick
<1>1. s.tick \in 0..MaxTick /\ s.entered[t] \in 0..MaxTick /\ MaxTick \in Nat
  BY TickAssumption DEF Sched, SchedulerStates
<1>2. \A M \in Nat : \A x, y \in 0..M :
          (x - y) % (M + 1) = IF x >= y THEN x - y ELSE x - y + M + 1
  <2> SUFFICES ASSUME NEW M \in Nat, NEW x \in 0..M, NEW y \in 0..M
               PROVE  (x - y) % (M + 1) = IF x >= y THEN x - y ELSE x - y + M + 1
    OBVIOUS
  <2> QED
    BY SMT
<1>3. SinceEntering(s, t) = Elapsed(s, t)
  <2> DEFINE M == MaxTick
             x == s.tick
             y == s.entered[t]
  <2>1. M \in Nat /\ x \in 0..M /\ y \in 0..M
    BY <1>1
  <2>2. SinceEntering(s, t) = (x - y) % (M + 1)
    BY DEF SinceEntering
  <2>3. Elapsed(s, t) = IF x >= y THEN x - y ELSE x - y + M + 1
    BY DEF Elapsed
  <2> HIDE DEF M, x, y
  <2> QED
    BY <1>2, <2>1, <2>2, <2>3
<1>4. Elapsed(s, t) \in 0..MaxTick
  BY <1>1 DEF Elapsed
<1> QED
  BY <1>3, <1>4

---------------------------------------------------------------------------
\* The current task goes to sleep for n ticks.
LEMMA DelayLemma ==
    ASSUME NEW s \in Sched, NEW n \in 1..(MaxTick - 1)
    PROVE  LET r == Delay(s, n)
               c == s.current
           IN  /\ r \in Sched
               /\ r.current = c /\ r.entered = s.entered /\ r.event = s.event
               /\ r.wrapped = s.wrapped /\ r.tick = s.tick /\ r.pended = s.pended
               /\ r.suspended = s.suspended
               /\ r.yieldPending = s.yieldPending /\ r.switchPending = s.switchPending
               /\ \A u \in Tasks \ {c} : r.generic[u] = s.generic[u] /\ r.wake[u] = s.wake[u]
               /\ r.nextUnblock <= s.nextUnblock
               /\ \/ /\ r.generic[c] = "delayed" /\ r.wake[c] = s.tick + n
                     /\ r.nextUnblock <= r.wake[c]
                  \/ /\ r.generic[c] = "overflow" /\ r.wake[c] = s.tick + n - (MaxTick + 1)
                     /\ r.wake[c] <= s.tick
<1> DEFINE c == s.current
           w == (s.tick + n) % (MaxTick + 1)
           put(list) == [s EXCEPT !.generic[c] = list, !.wake[c] = w]
           m == Min({s.nextUnblock, w})
           r == Delay(s, n)
<1>1. /\ s.tick \in 0..MaxTick /\ MaxTick \in Nat /\ c \in Tasks
      /\ s.nextUnblock \in 0..MaxTick
  BY TickAssumption DEF Sched, SchedulerStates
<1>2. w = IF s.tick + n <= MaxTick THEN s.tick + n ELSE s.tick + n - (MaxTick + 1)
  <2>1. \A M \in Nat : \A x \in 0..M : \A y \in 1..(M - 1) :
            (x + y) % (M + 1) = IF x + y <= M THEN x + y ELSE x + y - (M + 1)
    <3> SUFFICES ASSUME NEW M \in Nat, NEW x \in 0..M, NEW y \in 1..(M - 1)
                 PROVE  (x + y) % (M + 1) = IF x + y <= M THEN x + y ELSE x + y - (M + 1)
      OBVIOUS
    <3> QED
      BY SMT
  <2> QED
    BY <1>1, <2>1
<1>3. w \in 0..MaxTick
  BY <1>1, <1>2
<1>4. r = IF w < s.tick THEN put("overflow") ELSE [put("delayed") EXCEPT !.nextUnblock = m]
  BY DEF Delay, AddCurrentTaskToDelayedList
<1>5. m \in 0..MaxTick /\ m <= s.nextUnblock /\ m <= w
  <2> DEFINE S == {s.nextUnblock, w}
  <2>1. S \in SUBSET Nat /\ S # {} /\ \A x \in S : x \in 0..MaxTick
    BY <1>1, <1>3
  <2>2. s.nextUnblock \in S /\ w \in S
    OBVIOUS
  <2> HIDE DEF S
  <2>3. Min(S) \in S /\ \A y \in S : Min(S) <= y
    BY <2>1, LeastExists
  <2> QED
    BY <2>1, <2>2, <2>3 DEF S
<1> HIDE DEF w, m
<1>6. CASE w < s.tick
  <2> DEFINE p == put("overflow")
  <2>1. r = p
    BY <1>4, <1>6
  <2>2. /\ p \in Sched
        /\ p.current = c /\ p.entered = s.entered /\ p.event = s.event
        /\ p.wrapped = s.wrapped /\ p.tick = s.tick /\ p.pended = s.pended
        /\ p.suspended = s.suspended /\ p.nextUnblock = s.nextUnblock
        /\ p.yieldPending = s.yieldPending /\ p.switchPending = s.switchPending
        /\ \A u \in Tasks \ {c} : p.generic[u] = s.generic[u] /\ p.wake[u] = s.wake[u]
        /\ p.generic[c] = "overflow" /\ p.wake[c] = w
    BY <1>1, <1>3 DEF Sched, SchedulerStates
  <2>3. w = s.tick + n - (MaxTick + 1)
    BY <1>1, <1>2, <1>6
  <2> HIDE DEF p, r
  <2> QED
    BY <1>1, <1>3, <1>6, <2>1, <2>2, <2>3 DEF r
<1>7. CASE ~(w < s.tick)
  <2> DEFINE p == put("delayed")
  <2>1. r = [p EXCEPT !.nextUnblock = m]
    BY <1>4, <1>7
  <2>2. /\ p \in Sched
        /\ p.current = c /\ p.entered = s.entered /\ p.event = s.event
        /\ p.wrapped = s.wrapped /\ p.tick = s.tick /\ p.pended = s.pended
        /\ p.suspended = s.suspended /\ p.nextUnblock = s.nextUnblock
        /\ p.yieldPending = s.yieldPending /\ p.switchPending = s.switchPending
        /\ \A u \in Tasks \ {c} : p.generic[u] = s.generic[u] /\ p.wake[u] = s.wake[u]
        /\ p.generic[c] = "delayed" /\ p.wake[c] = w
    BY <1>1, <1>3 DEF Sched, SchedulerStates
  <2>3. w = s.tick + n
    BY <1>1, <1>2, <1>7
  <2> HIDE DEF p, r
  <2>4. /\ r \in Sched
        /\ r.current = c /\ r.entered = p.entered /\ r.event = p.event
        /\ r.wrapped = p.wrapped /\ r.tick = p.tick /\ r.pended = p.pended
        /\ r.suspended = p.suspended /\ r.nextUnblock = m
        /\ r.yieldPending = p.yieldPending /\ r.switchPending = p.switchPending
        /\ r.generic = p.generic /\ r.wake = p.wake
    BY <1>5, <2>1, <2>2 DEF Sched, SchedulerStates
  <2> QED
    BY <1>1, <1>5, <1>7, <2>2, <2>3, <2>4 DEF r
<1> QED
  BY <1>6, <1>7

\* The current task is put on an event list.
LEMMA PlaceOnLemma ==
    ASSUME NEW s \in Sched, NEW list \in {"send", "receive"} \X Queues,
           NEW n \in 1..(MaxTick - 1) \cup {MaxTick}
    PROVE  LET r == PlaceOnEventList(s, list, n)
               c == s.current
           IN  /\ r \in Sched
               /\ r.current = c /\ r.entered = s.entered
               /\ r.wrapped = s.wrapped /\ r.tick = s.tick /\ r.pended = s.pended
               /\ r.suspended = s.suspended
               /\ r.yieldPending = s.yieldPending /\ r.switchPending = s.switchPending
               /\ \A u \in Tasks \ {c} : /\ r.generic[u] = s.generic[u] /\ r.wake[u] = s.wake[u]
                                         /\ r.event[u] = s.event[u]
               /\ r.event[c] = list /\ ~Ready(r, c)
               /\ r.nextUnblock <= s.nextUnblock
               /\ n = MaxTick => ~Naps(r, c)
               /\ n # MaxTick =>
                  \/ /\ r.generic[c] = "delayed" /\ r.wake[c] = s.tick + n
                     /\ r.nextUnblock <= r.wake[c]
                  \/ /\ r.generic[c] = "overflow" /\ r.wake[c] = s.tick + n - (MaxTick + 1)
                     /\ r.wake[c] <= s.tick
<1> DEFINE c == s.current
           v == [s EXCEPT !.event[c] = list]
           r == PlaceOnEventList(s, list, n)
<1>1. c \in Tasks /\ s.nextUnblock \in 0..MaxTick /\ MaxTick \in Nat
  BY TickAssumption DEF Sched, SchedulerStates
<1>2. /\ v \in Sched
      /\ v.current = c /\ v.entered = s.entered
      /\ v.wrapped = s.wrapped /\ v.tick = s.tick /\ v.pended = s.pended
      /\ v.suspended = s.suspended /\ v.generic = s.generic /\ v.wake = s.wake
      /\ v.yieldPending = s.yieldPending /\ v.switchPending = s.switchPending
      /\ v.nextUnblock = s.nextUnblock
      /\ v.event[c] = list /\ \A u \in Tasks \ {c} : v.event[u] = s.event[u]
  BY <1>1 DEF Sched, SchedulerStates
<1>3. r = IF n = MaxTick THEN [v EXCEPT !.generic[v.current] = "suspended"] ELSE Delay(v, n)
  <2>1. v.current = c
    BY <1>2
  <2> QED
    BY <2>1 DEF PlaceOnEventList
<1> HIDE DEF v, r
<1>4. CASE n = MaxTick
  <2>1. r = [v EXCEPT !.generic[c] = "suspended"]
    BY <1>2, <1>3, <1>4
  <2>2. /\ r \in Sched
        /\ r.current = c /\ r.entered = v.entered /\ r.event = v.event
        /\ r.wrapped = v.wrapped /\ r.tick = v.tick /\ r.pended = v.pended
        /\ r.suspended = v.suspended /\ r.nextUnblock = v.nextUnblock /\ r.wake = v.wake
        /\ r.yieldPending = v.yieldPending /\ r.switchPending = v.switchPending
        /\ \A u \in Tasks \ {c} : r.generic[u] = v.generic[u]
        /\ r.generic[c] = "suspended"
    BY <1>1, <1>2, <2>1 DEF Sched, SchedulerStates
  <2> QED
    BY <1>1, <1>2, <1>4, <2>2 DEF Ready, Naps, r
<1>5. CASE n # MaxTick
  <2>1. r = Delay(v, n) /\ n \in 1..(MaxTick - 1)
    BY <1>3, <1>5
  <2>2. /\ r \in Sched
        /\ r.current = c /\ r.entered = v.entered /\ r.event = v.event
        /\ r.wrapped = v.wrapped /\ r.tick = v.tick /\ r.pended = v.pended
        /\ r.suspended = v.suspended
        /\ r.yieldPending = v.yieldPending /\ r.switchPending = v.switchPending
        /\ \A u \in Tasks \ {c} : r.generic[u] = v.generic[u] /\ r.wake[u] = v.wake[u]
        /\ r.nextUnblock <= v.nextUnblock
        /\ \/ /\ r.generic[c] = "delayed" /\ r.wake[c] = v.tick + n
              /\ r.nextUnblock <= r.wake[c]
           \/ /\ r.generic[c] = "overflow" /\ r.wake[c] = v.tick + n - (MaxTick + 1)
              /\ r.wake[c] <= v.tick
    BY <1>2, <2>1, DelayLemma
  <2> QED
    BY <1>1, <1>2, <1>5, <2>2 DEF Ready, r
<1> QED
  BY <1>4, <1>5

---------------------------------------------------------------------------
HeldAt == {"check", "place", "resume"}

\* Every task is in a call of its own, placed and stamped as it is there.
TasksFit ==
    /\ sched \in Sched /\ Placed(sched)
    /\ \A t \in Tasks : /\ CallFits(t, task[t])
                        /\ StampFits(t, task[t], sched)
                        /\ PlaceFits(t, task[t], sched)

\* Switches are held off by the current task, while it checks and places.
Held ==
    /\ sched.suspended <=> task[sched.current].pc \in HeldAt
    /\ \A t \in Tasks : task[t].pc \in HeldAt => t = sched.current
    /\ ~sched.suspended => sched.pended = 0

\* It locks the queue of its call, and the lock counts messages in it.
LockedBy(q) ==
    /\ sched.suspended
    /\ task[sched.current].call.op # "wait" /\ task[sched.current].call.queue = q

Locks ==
    \A q \in Queues : /\ queue[q].txLock \in -1..queue[q].waiting
                      /\ queue[q].txLock # -1 <=> LockedBy(q)

\* Who runs is ready, or about to give way, and nobody ready is more urgent.
GivesWay(t) ==
    \/ sched.switchPending \/ task[t].pc = "yield"
    \/ task[t].pc = "resume" /\ task[t].then = "sleep"

\* The display task runs only when nobody ready has an announcement to make.
DisplayLast ==
    sched.current = "display" /\ (sched.suspended \/ ~sched.switchPending) =>
        \A t \in Tasks : Announces(task[t].call) => ~Ready(sched, t)

Running ==
    /\ Ready(sched, sched.current) \/ GivesWay(sched.current)
    /\ sched.switchPending \/ Calm(sched)
    /\ DisplayLast

\* Who waits for a message, or is about to, has none to come.
HearsFor(t) ==
    task[t].call.op = "receive" /\ (Waits(sched, t) \/ task[t].pc = "place") =>
        queue[task[t].call.queue].waiting = 0 \/ queue[task[t].call.queue].txLock > 0

\* Who found the display queue full finds it full until it sleeps.
FullFor(t) ==
    /\ Announces(task[t].call)
    /\ \/ task[t].pc \in {"suspend", "check", "place"}
       \/ task[t].pc = "resume" /\ task[t].then = "fail"
    => ~HasRoom("display")

\* While someone waits for room there is none, or one place that another
\* sender is awake to take.
TakesRoom(t) ==
    /\ Announces(task[t].call) /\ sched.event[t] # ToSend("display")
    /\ task[t].pc \in {"try", "yield"}

RoomKept ==
    Waiters(sched, ToSend("display")) # {} =>
        /\ queue["display"].waiting + 1 >= Length["display"]
        /\ HasRoom("display") => \E t \in Tasks : TakesRoom(t)

Works ==
    /\ \A t \in Tasks : HearsFor(t) /\ FullFor(t)
    /\ RoomKept

KernelInv == QueueInv /\ TasksFit /\ Held /\ Locks /\ Running /\ Works

---------------------------------------------------------------------------
\* Waiters of a queue: whom it may wake.
LEMMA WaitersFit ==
    ASSUME TasksFit, NEW t \in Tasks, NEW q \in Queues
    PROVE  /\ sched.event[t] = ToReceive(q) => /\ task[t].call.op = "receive"
                                               /\ task[t].call.queue = q /\ q = Reads(t)
           /\ sched.event[t] = ToSend(q) => Announces(task[t].call) /\ q = "display"
<1>1. /\ task[t].call \in OwnCalls(t) /\ PlaceFits(t, task[t], sched)
  BY DEF TasksFit, CallFits
<1>2. /\ ToSend(q) \notin {Nowhere, PendingReady} /\ ToSend(q) = <<"send", q>>
      /\ ToReceive(q) \notin {Nowhere, PendingReady} /\ ToReceive(q) = <<"receive", q>>
  BY Lists
<1>3. ASSUME sched.event[t] = ToReceive(q)
      PROVE  /\ task[t].call.op = "receive" /\ task[t].call.queue = q
  BY <1>1, <1>2, <1>3 DEF PlaceFits, Waits
<1>4. ASSUME sched.event[t] = ToSend(q)
      PROVE  /\ task[t].call.op = "send" /\ task[t].call.queue = q /\ Announces(task[t].call)
  BY <1>1, <1>2, <1>4 DEF PlaceFits, Waits, Announces
<1> QED
  BY <1>1, <1>3, <1>4, OwnFacts DEF Announces

\* Two tasks do not read one queue.
LEMMA OneReader ==
    ASSUME NEW t \in {"sensor", "control", "display"}, NEW u \in {"sensor", "control", "display"},
           Reads(t) = Reads(u)
    PROVE  t = u
  BY DEF Reads

\* The current task, when it may act.
LEMMA AtPc ==
    ASSUME KernelInv, NEW t \in Tasks, NEW pc, At(t, pc)
    PROVE  /\ sched.current = t /\ ~sched.switchPending /\ task[t].pc = pc
           /\ sched.suspended <=> pc \in HeldAt
           /\ pc \notin {"yield", "resume"} => Ready(sched, t)
           /\ pc = "resume" /\ task[t].then # "sleep" => Ready(sched, t)
           /\ ~sched.suspended => sched.pended = 0 /\ \A q \in Queues : queue[q].txLock = -1
<1>1. sched.current = t /\ ~sched.switchPending /\ task[t].pc = pc
  BY DEF At
<1>2. sched.suspended <=> pc \in HeldAt
  BY <1>1 DEF KernelInv, Held
<1>3. ~sched.suspended => sched.pended = 0 /\ \A q \in Queues : queue[q].txLock = -1
  BY DEF KernelInv, Held, Locks, LockedBy
<1>4. Ready(sched, t) \/ GivesWay(t)
  BY <1>1 DEF KernelInv, Running
<1>5. pc = "resume" /\ task[t].then # "sleep" => Ready(sched, t)
  BY <1>1, <1>4 DEF GivesWay
<1>6. pc \notin {"yield", "resume"} => Ready(sched, t)
  BY <1>1, <1>4 DEF GivesWay
<1> QED
  BY <1>1, <1>2, <1>3, <1>5, <1>6

---------------------------------------------------------------------------
\* To the other tasks a step of t is at most a wake-up.
OthersWake(t) ==
    \A u \in Tasks \ {t} :
        /\ task'[u] = task[u]
        /\ sched'.entered[u] = sched.entered[u]
        /\ Waits(sched', u) => sched'.event[u] = sched.event[u]
        /\ Ready(sched, u) => Ready(sched', u)
        /\ Naps(sched', u) => Naps(sched, u)
        /\ sched'.event[u] = Nowhere => Ready(sched', u) \/ sched.event[u] = Nowhere

\* And who is woken and more urgent is let run.
LetRun(t) ==
    /\ sched.yieldPending => sched'.yieldPending \/ sched'.switchPending
    /\ \A u \in Tasks \ {t} :
          Ready(sched', u) /\ ~Ready(sched, u) => 
             /\ ~sched'.suspended
             /\ Outranks(u, t) => sched'.switchPending

\* A task's step leaves the scheduler in order when it leaves the task so.
LEMMA TaskMoves ==
    ASSUME KernelInv, NEW t \in Tasks, sched.current = t, ~sched.switchPending,
           sched' \in Sched, Placed(sched'), sched'.current = t,
           OthersWake(t), LetRun(t),
           CallFits(t, task'[t]), StampFits(t, task'[t], sched'), PlaceFits(t, task'[t], sched'),
           sched'.suspended <=> task'[t].pc \in HeldAt,
           ~sched'.suspended => sched'.pended = 0,
           Ready(sched', t) \/ GivesWay(t)'
    PROVE  TasksFit' /\ Held' /\ Running'
<1>1. ASSUME NEW u \in Tasks
      PROVE  CallFits(u, task'[u]) /\ StampFits(u, task'[u], sched') /\ PlaceFits(u, task'[u], sched')
  <2>1. CASE u = t
    BY <2>1
  <2>2. CASE u # t
    <3>1. CallFits(u, task[u]) /\ StampFits(u, task[u], sched) /\ PlaceFits(u, task[u], sched)
      BY DEF KernelInv, TasksFit
    <3>2. StampFits(u, task[u], sched')
      BY <2>2, <3>1 DEF StampFits, OthersWake
    <3>3. PlaceFits(u, task[u], sched')
      <4>1. /\ Waits(sched', u) => Waits(sched, u) /\ sched'.event[u] = sched.event[u]
            /\ Ready(sched, u) => Ready(sched', u)
            /\ sched'.event[u] = Nowhere => Ready(sched', u) \/ sched.event[u] = Nowhere
        BY <2>2 DEF OthersWake, Waits
      <4> QED
        BY <3>1, <4>1 DEF PlaceFits
    <3> QED
      BY <2>2, <3>1, <3>2, <3>3 DEF OthersWake
  <2> QED
    BY <2>1, <2>2
<1>2. TasksFit'
  BY <1>1 DEF TasksFit
<1>3. Held'
  <2>1. \A u \in Tasks \ {t} : task'[u].pc \notin HeldAt
    BY DEF KernelInv, Held, OthersWake
  <2> QED
    BY <2>1 DEF Held
<1>4. sched'.switchPending \/ Calm(sched')
  <2>1. Calm(sched)
    BY DEF KernelInv, Running
  <2>2. ASSUME NEW u \in Tasks, Ready(sched', u), ~sched'.switchPending, ~sched'.yieldPending
        PROVE  ~Outranks(u, t)
    <3>1. CASE u = t
      BY <3>1, OutranksLemma
    <3>2. CASE u # t
      BY <2>1, <2>2, <3>2 DEF LetRun, Calm
    <3> QED
      BY <3>1, <3>2
  <2> QED
    BY <2>2 DEF Calm
<1>5. DisplayLast'
  <2> SUFFICES ASSUME t = "display", sched'.suspended \/ ~sched'.switchPending,
                      NEW u \in Tasks, Announces(task'[u].call), Ready(sched', u)
               PROVE  FALSE
    BY DEF DisplayLast
  <2>1. u \in {"sensor", "control"}
    <3>1. task'[u].call \in OwnCalls(u)
      BY <1>1 DEF CallFits
    <3> QED
      BY <3>1, OwnFacts DEF Announces
  <2>2. u # t /\ Outranks(u, t)
    BY <2>1 DEF Outranks, Priority, Tasks
  <2>3. ~Ready(sched, u)
    BY <2>2 DEF KernelInv, Running, DisplayLast, OthersWake
  <2> QED
    BY <2>2, <2>3 DEF LetRun
<1> QED
  BY <1>2, <1>3, <1>4, <1>5 DEF Running

\* It leaves the work of the others in order when no message is moved.
LEMMA WorkKept ==
    ASSUME KernelInv, NEW t \in Tasks, sched.current = t, OthersWake(t),
           \A q \in Queues : queue'[q].waiting = queue[q].waiting,
           HearsFor(t)', FullFor(t)',
           \A u \in Tasks \ {t} : \A q \in Queues :
               Waits(sched', u) /\ sched.event[u] = ToReceive(q) /\ queue[q].txLock > 0
                  => queue'[q].txLock > 0,
           sched'.event[t] = ToSend("display") =>
               ~HasRoom("display") \/ sched.event[t] = ToSend("display"),
           TakesRoom(t) => ~HasRoom("display") \/ TakesRoom(t)'
    PROVE  Works'
<1>0. "display" \in Queues
  BY DEF Queues
<1>1. ASSUME NEW u \in Tasks \ {t}
      PROVE  HearsFor(u)' /\ FullFor(u)'
  <2>1. HearsFor(u) /\ FullFor(u) /\ task'[u] = task[u]
    BY DEF KernelInv, Works, OthersWake
  <2>2. FullFor(u)'
    BY <1>0, <2>1 DEF FullFor, HasRoom
  <2>3. task[u].pc # "place"
    BY DEF KernelInv, Held, HeldAt
  <2>4. ASSUME task[u].call.op = "receive", Waits(sched', u) \/ task[u].pc = "place"
        PROVE  \/ queue'[task[u].call.queue].waiting = 0
               \/ queue'[task[u].call.queue].txLock > 0
    <3> DEFINE q == task[u].call.queue
    <3>1. q \in Queues /\ PlaceFits(u, task[u], sched)
      BY <2>4, OwnFacts DEF KernelInv, TasksFit, CallFits
    <3>2. queue[q].waiting = 0 \/ queue[q].txLock > 0
      <4>1. Waits(sched, u) \/ task[u].pc = "place"
        BY <2>4 DEF OthersWake, Waits
      <4> QED
        BY <2>1, <2>4, <4>1 DEF HearsFor
    <3>3. Waits(sched', u) /\ Waits(sched, u)
      BY <2>3, <2>4 DEF OthersWake, Waits
    <3>4. sched.event[u] = ToReceive(q)
      BY <2>4, <3>1, <3>3 DEF PlaceFits, ToReceive
    <3> HIDE DEF q
    <3>5. queue[q].txLock > 0 => queue'[q].txLock > 0
      BY <3>1, <3>3, <3>4
    <3>6. queue'[q].waiting = queue[q].waiting
      BY <3>1
    <3> QED
      BY <3>2, <3>5, <3>6 DEF q
  <2> QED
    BY <2>1, <2>2, <2>4 DEF HearsFor
<1>2. RoomKept'
  <2>1. ASSUME NEW u \in Tasks, sched'.event[u] = ToSend("display")
        PROVE  ~HasRoom("display") \/ sched.event[u] = ToSend("display")
    <3>1. CASE u = t
      BY <2>1, <3>1
    <3>2. CASE u # t
      BY <1>0, <2>1, <3>2, Lists DEF OthersWake, Waits
    <3> QED
      BY <3>1, <3>2
  <2>2. HasRoom("display")' <=> HasRoom("display")
    BY <1>0 DEF HasRoom
  <2>3. RoomKept /\ queue'["display"].waiting = queue["display"].waiting
    BY <1>0 DEF KernelInv, Works
  <2>4. /\ queue["display"].waiting \in 0..Length["display"]
        /\ Length["display"] \in Nat
    BY <1>0, LengthType DEF KernelInv, QueueInv, Rings, Ring
  <2>5. CASE ~HasRoom("display")
    BY <2>2, <2>3, <2>4, <2>5 DEF RoomKept, HasRoom
  <2>6. CASE HasRoom("display")
    <3> SUFFICES ASSUME Waiters(sched, ToSend("display"))' # {}
                 PROVE  /\ queue'["display"].waiting + 1 >= Length["display"]
                        /\ \E u \in Tasks : TakesRoom(u)'
      BY <2>2, <2>6 DEF RoomKept
    <3>1. Waiters(sched, ToSend("display")) # {}
      BY <2>1, <2>6 DEF Waiters
    <3>2. PICK u \in Tasks : TakesRoom(u)
      BY <2>3, <2>6, <3>1 DEF RoomKept
    <3>3. TakesRoom(u)'
      <4>1. CASE u = t
        BY <2>6, <3>2, <4>1
      <4>2. CASE u # t
        BY <1>0, <3>2, <4>2, Lists DEF TakesRoom, OthersWake, Waits
      <4> QED
        BY <4>1, <4>2
    <3> QED
      BY <2>3, <3>1, <3>3 DEF RoomKept
  <2> QED
    BY <2>5, <2>6
<1> QED
  BY <1>1, <1>2 DEF Works

---------------------------------------------------------------------------
\* The call of a task returns while the task is ready and may be switched out.
LEMMA ReturnLemma ==
    ASSUME KernelInv, NEW t \in Tasks, sched.current = t, ~sched.switchPending,
           Ready(sched, t), NEW r, Rouses(sched, r), ~r.suspended, r.pended = 0,
           \A u \in Tasks : Ready(r, u) /\ ~Ready(sched, u) /\ Outranks(u, t) => r.switchPending,
           Return(t, r)
    PROVE  /\ TasksFit' /\ Held' /\ Running' /\ OthersWake(t)
           /\ HearsFor(t)' /\ FullFor(t)'
           /\ ~Waits(sched', t) /\ sched'.event = r.event /\ ~sched'.suspended
           /\ task'[t].pc \in {"try", "suspend"}
<1>1. PICK c \in NextCalls(t, task[t].call) : task' = [task EXCEPT ![t] = Begun(c)]
  BY DEF Return
<1>2. c \in OwnCalls(t)
  BY <1>1, NextOwn
<1>3. task'[t] = Begun(c) /\ \A u \in Tasks \ {t} : task'[u] = task[u]
  BY <1>1 DEF KernelInv, QueueInv, CallsMade
<1>4. /\ CallFits(t, task'[t]) /\ task'[t].call = c
      /\ task'[t].pc = IF c.op = "wait" THEN "suspend" ELSE "try"
  BY <1>2, <1>3, BegunFits
<1>5. r \in Sched /\ Placed(r) /\ r.current = t /\ Ready(r, t)
  BY DEF Rouses, Wakes
<1>6. /\ sched' \in Sched
      /\ sched'.current = t /\ sched'.generic = r.generic /\ sched'.event = r.event
      /\ sched'.suspended = r.suspended /\ sched'.pended = r.pended
      /\ sched'.yieldPending = r.yieldPending /\ sched'.switchPending = r.switchPending
      /\ sched'.entered[t] = None
      /\ \A u \in Tasks \ {t} : sched'.entered[u] = r.entered[u]
  BY <1>5, DropTimeOutLemma DEF Return
<1>7. Placed(sched') /\ Ready(sched', t) /\ sched'.event[t] = Nowhere
  BY <1>5, <1>6 DEF Placed, Ready
<1>8. OthersWake(t)
  BY <1>3, <1>6 DEF OthersWake, Rouses, Wakes, Waits, Ready, Naps
<1>9. LetRun(t)
  BY <1>6 DEF LetRun, Rouses, Noted, Ready
<1>10. ~Naps(sched', t) /\ ~Waits(sched', t)
  BY <1>7 DEF Naps, Waits, Ready
<1>11. StampFits(t, task'[t], sched')
  BY <1>4, <1>6, <1>10 DEF StampFits, Announces
<1>12. PlaceFits(t, task'[t], sched')
  BY <1>7, <1>10 DEF PlaceFits
<1>13. task'[t].pc \in {"try", "suspend"} /\ task'[t].pc \notin HeldAt
  BY <1>4 DEF HeldAt
<1>14. TasksFit' /\ Held' /\ Running'
  BY <1>4, <1>6, <1>7, <1>8, <1>9, <1>11, <1>12, <1>13, TaskMoves
<1>15. HearsFor(t)' /\ FullFor(t)'
  BY <1>4, <1>10, <1>13 DEF HearsFor, FullFor, Announces
<1> QED
  BY <1>6, <1>8, <1>10, <1>13, <1>14, <1>15

\* Nothing is locked while switches are not held off.
LEMMA LocksOpen ==
    ASSUME QueueInv', ~sched'.suspended, \A q \in Queues : queue'[q].txLock = -1
    PROVE  Locks'
<1>1. \A q \in Queues : queue'[q].waiting \in Nat
  BY LengthType DEF QueueInv, Rings, Ring
<1> QED
  BY <1>1 DEF Locks, LockedBy

\* The types a step of t starts from.
LEMMA TaskTypes ==
    ASSUME KernelInv, NEW t \in Tasks
    PROVE  /\ CallFits(t, task[t]) /\ StampFits(t, task[t], sched)
           /\ PlaceFits(t, task[t], sched) /\ task[t].call \in OwnCalls(t)
           /\ sched \in Sched /\ Placed(sched) /\ Rouses(sched, sched) /\ Still(sched, sched)
<1>1. sched \in Sched /\ Placed(sched)
  BY DEF KernelInv, TasksFit
<1> QED
  BY <1>1, RousesSelf DEF KernelInv, TasksFit, CallFits

\* Each queue is a ring.
LEMMA QueueTypes ==
    ASSUME QueueInv, NEW q \in Queues
    PROVE  /\ queue[q].waiting \in 0..Length[q] /\ Length[q] \in Nat \ {0}
           /\ queue[q].txLock \in Int /\ queue[q] \in Ring(q)
           /\ queue = [p \in Queues |-> queue[p]]
  BY LengthType DEF QueueInv, Rings, Ring

\* A message put is one more in the line.
LEMMA MovedTypes ==
    ASSUME NEW q \in Queues, NEW r \in Ring(q), NEW m
    PROVE  /\ CopyDataToQueue(r, q, m).waiting = r.waiting + 1
           /\ CopyDataToQueue(r, q, m).txLock = r.txLock
  BY DEF CopyDataToQueue, Ring

\* A message is put: who waits for one is woken.
LEMMA HeardOnPut ==
    ASSUME KernelInv, NEW u \in Tasks, NEW q \in Queues, NEW r,
           \/ Waiters(sched, ToReceive(q)) = {} /\ r.event = sched.event
           \/ \E v \in Waiters(sched, ToReceive(q)) : ~Waits(r, v),
           Waits(r, u) => r.event[u] = sched.event[u]
    PROVE  Waits(r, u) /\ task[u].call.op = "receive" => task[u].call.queue # q
<1> SUFFICES ASSUME Waits(r, u), task[u].call.op = "receive", task[u].call.queue = q
             PROVE  FALSE
  OBVIOUS
<1>1. PlaceFits(u, task[u], sched) /\ task[u].call \in OwnCalls(u)
  BY TaskTypes
<1>2. sched.event[u] = ToReceive(q)
  BY <1>1 DEF PlaceFits, Waits, ToReceive
<1>3. PICK v \in Waiters(sched, ToReceive(q)) : ~Waits(r, v)
  BY <1>2 DEF Waiters
<1>4. /\ v \in Tasks /\ task[v].call.op = "receive" /\ task[v].call.queue = q
      /\ task[v].call \in OwnCalls(v)
  BY <1>3, WaitersFit, TaskTypes DEF Waiters, KernelInv
<1>5. u = v
  BY <1>1, <1>4, OwnFacts, OneReader
<1> QED
  BY <1>3, <1>5

\* xQueueGenericSend puts its message.
LEMMA PutMessageKeeps ==
    ASSUME KernelInv, QueueInv', NEW t \in Tasks, PutMessage(t)
    PROVE  KernelInv'
<1> DEFINE c == task[t].call
           q == c.queue
           r == SignalAndYield(sched, ToReceive(q))
<1>1. /\ sched.current = t /\ ~sched.switchPending /\ task[t].pc = "try"
      /\ ~sched.suspended /\ Ready(sched, t) /\ sched.pended = 0
      /\ \A p \in Queues : queue[p].txLock = -1
  BY AtPc DEF PutMessage, HeldAt
<1>2. /\ c \in OwnCalls(t) /\ c.op = "send" /\ q \in Queues /\ sched \in Sched /\ Placed(sched)
      /\ Announces(c) \/ q = "tick"
  BY TaskTypes, OwnFacts DEF PutMessage, Announces
<1>3. /\ Return(t, r) /\ HasRoom(q)
      /\ queue' = [queue EXCEPT ![q] = CopyDataToQueue(@, q, c.message)]
  BY DEF PutMessage
<1>4. /\ Rouses(sched, r) /\ Still(sched, r)
      /\ \A u \in Tasks : Ready(r, u) /\ ~Ready(sched, u) /\ Outranks(u, t) => r.switchPending
      /\ Waiters(sched, ToReceive(q)) = {} => r.event = sched.event
      /\ Waiters(sched, ToReceive(q)) # {} =>
            \E v \in Waiters(sched, ToReceive(q)) : ~Waits(r, v)
  <2>1. ToReceive(q) \in {"send", "receive"} \X Queues
    BY <1>2, Lists
  <2> QED
    BY <1>1, <1>2, <2>1, SignalAndYieldLemma
<1> HIDE DEF r
<1>5. /\ TasksFit' /\ Held' /\ Running' /\ OthersWake(t)
      /\ HearsFor(t)' /\ FullFor(t)' /\ sched'.event = r.event
      /\ ~Waits(sched', t) /\ ~sched'.suspended
  <2>1. ~r.suspended /\ r.pended = 0
    BY <1>1, <1>4 DEF Still
  <2> QED
    BY <1>1, <1>3, <1>4, <2>1, ReturnLemma
<1>6. \A p \in Queues : /\ queue'[p].waiting = IF p = q THEN queue[p].waiting + 1
                                               ELSE queue[p].waiting
                        /\ queue'[p].txLock = -1
  <2>1. queue[q] \in Ring(q) /\ queue = [p \in Queues |-> queue[p]]
    BY <1>2, QueueTypes DEF KernelInv
  <2>2. \A p \in Queues : queue'[p] = IF p = q THEN CopyDataToQueue(queue[q], q, c.message)
                                      ELSE queue[p]
    BY <1>3, <2>1
  <2> HIDE DEF c, q
  <2> QED
    BY <1>1, <1>2, <2>1, <2>2, MovedTypes
<1>7. Locks'
  BY <1>5, <1>6, LocksOpen
<1>8. ASSUME NEW u \in Tasks \ {t}
      PROVE  HearsFor(u)' /\ FullFor(u)'
  <2>1. /\ task'[u] = task[u] /\ HearsFor(u) /\ FullFor(u) /\ CallFits(u, task[u])
        /\ task[u].call \in OwnCalls(u)
    BY <1>5, TaskTypes DEF OthersWake, KernelInv, Works
  <2>2. task[u].pc \notin HeldAt
    BY <1>1 DEF KernelInv, Held
  <2>3. HearsFor(u)'
    <3> SUFFICES ASSUME task[u].call.op = "receive", Waits(sched', u)
                 PROVE  queue'[task[u].call.queue].waiting = 0
      BY <2>1, <2>2 DEF HearsFor, HeldAt
    <3>1. Waits(sched, u) /\ Waits(r, u) /\ r.event[u] = sched.event[u]
      BY <1>5 DEF OthersWake, Waits
    <3>2. task[u].call.queue # q
      BY <1>1, <1>2, <1>4, <3>1, HeardOnPut
    <3>3. task[u].call.queue \in Queues
      BY <2>1, OwnFacts
    <3> QED
      BY <1>1, <1>6, <2>1, <3>1, <3>2, <3>3 DEF HearsFor
  <2>4. FullFor(u)'
    <3>1. "display" \in Queues
      BY DEF Queues
    <3>2. queue["display"].waiting \in 0..Length["display"] /\ Length["display"] \in Nat
      BY <3>1, QueueTypes DEF KernelInv
    <3>3. HasRoom("display")' => HasRoom("display")
      BY <1>6, <3>1, <3>2 DEF HasRoom
    <3> QED
      BY <2>1, <3>3 DEF FullFor
  <2> QED
    BY <2>3, <2>4
<1>9. RoomKept'
  <2> SUFFICES ASSUME Waiters(sched, ToSend("display"))' # {}
               PROVE  /\ queue'["display"].waiting + 1 >= Length["display"]
                      /\ HasRoom("display")' => \E u \in Tasks : TakesRoom(u)'
    BY DEF RoomKept
  <2>1. "display" \in Queues
    BY DEF Queues
  <2>2. queue["display"].waiting \in 0..Length["display"] /\ Length["display"] \in Nat
    BY <2>1, QueueTypes DEF KernelInv
  <2>3. \A u \in Tasks : sched'.event[u] = ToSend("display") => sched.event[u] = ToSend("display")
    BY <1>5, <2>1, Lists DEF OthersWake, Waits
  <2>4. Waiters(sched, ToSend("display")) # {}
    BY <2>3 DEF Waiters
  <2>5. /\ queue["display"].waiting + 1 >= Length["display"]
        /\ HasRoom("display") => \E u \in Tasks : TakesRoom(u)
    BY <2>4 DEF KernelInv, Works, RoomKept
  <2>6. CASE q = "display"
    BY <1>6, <2>1, <2>2, <2>5, <2>6 DEF HasRoom
  <2>7. CASE q # "display"
    <3>1. ASSUME NEW u \in Tasks, TakesRoom(u)
          PROVE  TakesRoom(u)'
      <4>1. u # t
        BY <1>2, <2>7, <3>1 DEF TakesRoom, Announces
      <4> QED
        BY <1>5, <2>3, <3>1, <4>1 DEF TakesRoom, OthersWake
    <3>2. HasRoom("display")' <=> HasRoom("display")
      BY <1>6, <2>1, <2>7 DEF HasRoom
    <3>3. HasRoom("display")' => \E u \in Tasks : TakesRoom(u)'
      BY <2>5, <3>1, <3>2
    <3> QED
      BY <1>6, <2>1, <2>5, <2>7, <3>3
  <2> QED
    BY <2>6, <2>7
<1> QED
  BY <1>5, <1>7, <1>8, <1>9 DEF KernelInv, Works

---------------------------------------------------------------------------
\* xQueueGenericReceive takes its message.
LEMMA GetMessageKeeps ==
    ASSUME KernelInv, QueueInv', NEW t \in Tasks, GetMessage(t)
    PROVE  KernelInv'
<1> DEFINE c == task[t].call
           q == c.queue
           r == SignalAndYield(sched, ToSend(q))
<1>1. /\ sched.current = t /\ ~sched.switchPending /\ task[t].pc = "try"
      /\ ~sched.suspended /\ Ready(sched, t) /\ sched.pended = 0
      /\ \A p \in Queues : queue[p].txLock = -1
  BY AtPc DEF GetMessage, HeldAt
<1>2. /\ c \in OwnCalls(t) /\ c.op = "receive" /\ q \in Queues /\ q = Reads(t)
      /\ t \in {"sensor", "control", "display"}
      /\ sched \in Sched /\ Placed(sched)
  BY TaskTypes, OwnFacts DEF GetMessage
<1>3. /\ Return(t, r) /\ ~IsEmpty(q)
      /\ queue' = [queue EXCEPT ![q] = CopyDataFromQueue(q)]
  BY DEF GetMessage
<1>4. /\ Rouses(sched, r) /\ Still(sched, r)
      /\ \A u \in Tasks : Ready(r, u) /\ ~Ready(sched, u) /\ Outranks(u, t) => r.switchPending
      /\ Waiters(sched, ToSend(q)) # {} =>
            \E v \in Waiters(sched, ToSend(q)) : ~Waits(r, v)
  <2>1. ToSend(q) \in {"send", "receive"} \X Queues
    BY <1>2, Lists
  <2> QED
    BY <1>1, <1>2, <2>1, SignalAndYieldLemma
<1> HIDE DEF r
<1>5. /\ TasksFit' /\ Held' /\ Running' /\ OthersWake(t)
      /\ HearsFor(t)' /\ FullFor(t)' /\ sched'.event = r.event
      /\ ~Waits(sched', t) /\ ~sched'.suspended
  <2>1. ~r.suspended /\ r.pended = 0
    BY <1>1, <1>4 DEF Still
  <2> QED
    BY <1>1, <1>3, <1>4, <2>1, ReturnLemma
<1>6. \A p \in Queues : /\ queue'[p].waiting = IF p = q THEN queue[p].waiting - 1
                                               ELSE queue[p].waiting
                        /\ queue'[p].txLock = -1
  <2>1. queue[q] \in Ring(q) /\ queue = [p \in Queues |-> queue[p]]
    BY <1>2, QueueTypes DEF KernelInv
  <2>2. \A p \in Queues : queue'[p] = IF p = q THEN CopyDataFromQueue(q) ELSE queue[p]
    BY <1>3, <2>1
  <2>3. /\ CopyDataFromQueue(q).waiting = queue[q].waiting - 1
        /\ CopyDataFromQueue(q).txLock = queue[q].txLock
    <3> HIDE DEF c, q
    <3> QED
      BY <2>1 DEF CopyDataFromQueue, Ring
  <2> HIDE DEF c, q
  <2> QED
    BY <1>1, <1>2, <2>2, <2>3
<1>7. Locks'
  BY <1>5, <1>6, LocksOpen
<1>d. "display" \in Queues
  BY DEF Queues
<1>e. queue["display"].waiting \in 0..Length["display"] /\ Length["display"] \in Nat
  BY <1>d, QueueTypes DEF KernelInv
<1>r. ASSUME q = "display", NEW u \in Tasks, Announces(task[u].call)
      PROVE  ~Ready(sched, u)
  <2>1. t = "display"
    BY <1>2, <1>r DEF Reads
  <2> QED
    BY <1>1, <1>r, <2>1 DEF KernelInv, Running, DisplayLast
<1>8. ASSUME NEW u \in Tasks \ {t}
      PROVE  HearsFor(u)' /\ FullFor(u)'
  <2>1. /\ task'[u] = task[u] /\ HearsFor(u) /\ FullFor(u) /\ PlaceFits(u, task[u], sched)
        /\ task[u].call \in OwnCalls(u)
    BY <1>5, TaskTypes DEF OthersWake, KernelInv, Works
  <2>2. task[u].pc \notin HeldAt
    BY <1>1 DEF KernelInv, Held
  <2>3. HearsFor(u)'
    <3> SUFFICES ASSUME task[u].call.op = "receive", Waits(sched', u)
                 PROVE  queue'[task[u].call.queue].waiting = 0
      BY <2>1, <2>2 DEF HearsFor, HeldAt
    <3>1. Waits(sched, u)
      BY <1>5 DEF OthersWake, Waits
    <3>2. task[u].call.queue # q /\ task[u].call.queue \in Queues
      BY <1>2, <2>1, OwnFacts, OneReader
    <3> QED
      BY <1>1, <1>6, <2>1, <3>1, <3>2 DEF HearsFor
  <2>4. FullFor(u)'
    <3>1. CASE q = "display"
      <4>1. ~Announces(task[u].call) \/ task[u].pc \notin {"suspend", "check", "place"}
        BY <1>r, <2>1, <3>1 DEF PlaceFits
      <4> QED
        BY <2>1, <2>2, <4>1 DEF FullFor, HeldAt
    <3>2. CASE q # "display"
      BY <1>6, <1>d, <2>1, <3>2 DEF FullFor, HasRoom
    <3> QED
      BY <3>1, <3>2
  <2> QED
    BY <2>3, <2>4
<1>9. RoomKept'
  <2> SUFFICES ASSUME Waiters(sched, ToSend("display"))' # {}
               PROVE  /\ queue'["display"].waiting + 1 >= Length["display"]
                      /\ HasRoom("display")' => \E u \in Tasks : TakesRoom(u)'
    BY DEF RoomKept
  <2>3. \A u \in Tasks : sched'.event[u] = ToSend("display") => sched.event[u] = ToSend("display")
    BY <1>5, <1>d, Lists DEF OthersWake, Waits
  <2>4. Waiters(sched, ToSend("display")) # {}
    BY <2>3 DEF Waiters
  <2>5. /\ queue["display"].waiting + 1 >= Length["display"]
        /\ HasRoom("display") => \E u \in Tasks : TakesRoom(u)
    BY <2>4 DEF KernelInv, Works, RoomKept
  <2>6. CASE q = "display"
    <3>1. ~HasRoom("display")
      <4> SUFFICES ASSUME HasRoom("display") PROVE FALSE
        OBVIOUS
      <4>1. PICK u \in Tasks : TakesRoom(u)
        BY <2>5
      <4>2. PlaceFits(u, task[u], sched)
        BY TaskTypes
      <4>3. sched.event[u] = Nowhere
        <5>1. sched.event[u] # PendingReady
          BY <1>1, <1>2 DEF Placed
        <5>2. ~Waits(sched, u)
          BY <4>1, <4>2, Lists, <1>d DEF PlaceFits, TakesRoom, Announces, ToSend
        <5> QED
          BY <5>1, <5>2 DEF Waits
      <4>4. Ready(sched, u)
        BY <4>1, <4>2, <4>3 DEF PlaceFits, TakesRoom, Announces
      <4> QED
        BY <1>r, <2>6, <4>1, <4>4 DEF TakesRoom
    <3>2. queue'["display"].waiting + 1 >= Length["display"]
      BY <1>6, <1>d, <1>e, <2>6, <3>1 DEF HasRoom
    <3>3. PICK v \in Waiters(sched, ToSend("display")) : ~Waits(r, v)
      BY <1>4, <2>4, <2>6
    <3>4. v \in Tasks /\ sched.event[v] = ToSend("display") /\ Announces(task[v].call)
      BY <3>3, <1>d, WaitersFit DEF Waiters, KernelInv
    <3>5. ToSend("display") \notin {Nowhere, PendingReady}
      BY <1>d, Lists
    <3>6. v # t
      BY <1>1, <1>2, <3>4, <3>5 DEF Placed
    <3>7. task[v].pc \in {"try", "yield"}
      <4>1. CallFits(v, task[v]) /\ PlaceFits(v, task[v], sched) /\ ~Ready(sched, v)
        BY <1>2, <3>4, <3>5, TaskTypes DEF Placed
      <4>2. task[v].pc \notin HeldAt
        BY <1>1, <3>4, <3>6 DEF KernelInv, Held
      <4> QED
        BY <4>1, <4>2 DEF PlaceFits, CallFits, HeldAt
    <3>8. TakesRoom(v)'
      BY <1>5, <3>3, <3>4, <3>5, <3>6, <3>7 DEF TakesRoom, OthersWake, Waits
    <3> QED
      BY <3>2, <3>4, <3>8
  <2>7. CASE q # "display"
    <3>1. ASSUME NEW u \in Tasks, TakesRoom(u)
          PROVE  TakesRoom(u)'
      <4>1. u # t
        BY <1>2, <3>1 DEF TakesRoom, Announces
      <4> QED
        BY <1>5, <2>3, <3>1, <4>1 DEF TakesRoom, OthersWake
    <3>2. HasRoom("display")' <=> HasRoom("display")
      BY <1>6, <1>d, <2>7 DEF HasRoom
    <3>3. HasRoom("display")' => \E u \in Tasks : TakesRoom(u)'
      BY <2>5, <3>1, <3>2
    <3> QED
      BY <1>6, <1>d, <2>5, <2>7, <3>3
  <2> QED
    BY <2>6, <2>7
<1> QED
  BY <1>5, <1>7, <1>8, <1>9 DEF KernelInv, Works

\* A call that does not wait, and the timer service that was woken.
LEMMA LeavingKeeps ==
    ASSUME KernelInv, QueueInv', NEW t \in Tasks, LeaveAtOnce(t) \/ TimerExpires(t)
    PROVE  KernelInv'
<1>1. /\ sched.current = t /\ ~sched.switchPending /\ task[t].pc = "try"
      /\ ~sched.suspended /\ Ready(sched, t) /\ sched.pended = 0
      /\ \A p \in Queues : queue[p].txLock = -1
  BY AtPc DEF LeaveAtOnce, TimerExpires, HeldAt
<1>2. Return(t, sched) /\ queue' = queue
  BY DEF LeaveAtOnce, TimerExpires
<1>3. ~Announces(task[t].call)
  BY TaskTypes DEF LeaveAtOnce, TimerExpires, CallFits, Announces
<1>4. /\ TasksFit' /\ Held' /\ Running' /\ OthersWake(t)
      /\ HearsFor(t)' /\ FullFor(t)'
      /\ ~Waits(sched', t) /\ ~sched'.suspended
  BY <1>1, <1>2, TaskTypes, ReturnLemma
<1>5. Locks'
  BY <1>1, <1>2, <1>4, LocksOpen
<1>6. Works'
  <2>1. sched'.event[t] # ToSend("display")
    BY <1>4, Lists DEF Waits, Queues
  <2> QED
    BY <1>1, <1>2, <1>3, <1>4, <2>1, WorkKept DEF TakesRoom
<1> QED
  BY <1>4, <1>5, <1>6 DEF KernelInv

---------------------------------------------------------------------------
\* Steps within a call that move no message and no lock.
LEMMA LocksKept ==
    ASSUME KernelInv, UNCHANGED queue, sched'.suspended = sched.suspended,
           sched'.current = sched.current,
           task'[sched.current].call = task[sched.current].call
    PROVE  Locks'
  BY DEF KernelInv, Locks, LockedBy

\* The task goes on in its call; nobody is woken.
LEMMA OthersStay ==
    ASSUME KernelInv, NEW t \in Tasks,
           \A u \in Tasks \ {t} : /\ task'[u] = task[u]
                                  /\ sched'.entered[u] = sched.entered[u]
                                  /\ sched'.event[u] = sched.event[u]
                                  /\ sched'.generic[u] = sched.generic[u],
           sched'.yieldPending = sched.yieldPending
    PROVE  OthersWake(t) /\ LetRun(t)
  BY DEF OthersWake, LetRun, Ready, Waits, Naps

\* The full or empty queue is noted, and the time.
LEMMA BeginToWaitKeeps ==
    ASSUME KernelInv, QueueInv', NEW t \in Tasks, BeginToWait(t)
    PROVE  KernelInv'
<1> DEFINE c == task[t].call
<1>1. /\ sched.current = t /\ ~sched.switchPending /\ task[t].pc = "try"
      /\ ~sched.suspended /\ Ready(sched, t) /\ sched.pended = 0
      /\ \A p \in Queues : queue[p].txLock = -1
  BY AtPc DEF BeginToWait, HeldAt
<1>2. /\ CallFits(t, task[t]) /\ StampFits(t, task[t], sched) /\ PlaceFits(t, task[t], sched)
      /\ sched \in Sched /\ Placed(sched) /\ c \in OwnCalls(t)
  BY TaskTypes
<1>3. /\ Blocked(c) /\ task[t].left # 0 /\ queue' = queue
      /\ task' = [task EXCEPT ![t].pc = "suspend"]
      /\ sched' = IF sched.entered[t] = None /\ task[t].left # Forever
                  THEN SetTimeOutState(sched, t) ELSE sched
  BY DEF BeginToWait, Goto
<1>4. /\ task'[t].call = c /\ task'[t].pc = "suspend"
      /\ task'[t].left = task[t].left /\ task'[t].then = task[t].then
      /\ \A u \in Tasks \ {t} : task'[u] = task[u]
  BY <1>3 DEF KernelInv, QueueInv, CallsMade
<1>5. c.op = "receive" \/ Announces(c)
  BY <1>2, <1>3, OwnFacts DEF Blocked, CallFits, Announces
<1>6. Announces(c) => task[t].left # Forever /\ ~HasRoom("display")
  BY <1>2, <1>3, TickAssumption DEF CallFits, Announces, Forever, Blocked
<1>7. /\ sched' \in Sched /\ sched'.current = t /\ sched'.generic = sched.generic
      /\ sched'.event = sched.event /\ sched'.suspended = sched.suspended
      /\ sched'.pended = sched.pended /\ sched'.yieldPending = sched.yieldPending
      /\ sched'.switchPending = sched.switchPending
      /\ sched'.entered[t] # None <=> sched.entered[t] # None \/ task[t].left # Forever
      /\ \A u \in Tasks \ {t} : sched'.entered[u] = sched.entered[u]
  BY <1>1, <1>2, <1>3, SetTimeOutLemma
<1>8. Placed(sched') /\ Ready(sched', t) /\ sched'.event[t] = Nowhere
  BY <1>1, <1>2, <1>7 DEF Placed, Ready
<1>9. OthersWake(t) /\ LetRun(t)
  BY <1>4, <1>7, OthersStay
<1>10. CallFits(t, task'[t])
  BY <1>2, <1>4, <1>5 DEF CallFits, Announces
<1>11. StampFits(t, task'[t], sched')
  <2>1. Announces(c) => sched'.entered[t] # None
    BY <1>6, <1>7
  <2>2. sched'.entered[t] # None => Announces(c)
    BY <1>2, <1>5, <1>7 DEF StampFits, CallFits
  <2> QED
    BY <1>4, <1>8, <2>1, <2>2 DEF StampFits, Naps, Ready
<1>12. PlaceFits(t, task'[t], sched')
  BY <1>8 DEF PlaceFits, Waits
<1>13. TasksFit' /\ Held' /\ Running'
  <2>1. sched'.suspended <=> task'[t].pc \in HeldAt
    BY <1>1, <1>4, <1>7 DEF HeldAt
  <2> QED
    BY <1>1, <1>7, <1>8, <1>9, <1>10, <1>11, <1>12, <2>1, TaskMoves
<1>14. Locks'
  BY <1>1, <1>3, <1>7, LocksOpen
<1>15. Works'
  <2>1. HasRoom("display")' <=> HasRoom("display")
    BY <1>3 DEF HasRoom
  <2>2. HearsFor(t)' /\ FullFor(t)'
    BY <1>4, <1>6, <1>8, <2>1 DEF HearsFor, FullFor, Waits
  <2>3. sched'.event[t] # ToSend("display")
    BY <1>8, Lists DEF Queues
  <2>4. TakesRoom(t) => ~HasRoom("display")
    BY <1>6 DEF TakesRoom
  <2> QED
    BY <1>1, <1>3, <1>9, <2>2, <2>3, <2>4, WorkKept
<1> QED
  BY <1>13, <1>14, <1>15 DEF KernelInv

---------------------------------------------------------------------------
\* The scheduler is suspended and the queue locked.
LEMMA SuspendKeeps ==
    ASSUME KernelInv, QueueInv', NEW t \in Tasks, Suspend(t)
    PROVE  KernelInv'
<1> DEFINE c == task[t].call
           pc == IF c.op = "wait" THEN "place" ELSE "check"
<1>1. /\ sched.current = t /\ ~sched.switchPending /\ task[t].pc = "suspend"
      /\ ~sched.suspended /\ Ready(sched, t) /\ sched.pended = 0
      /\ \A p \in Queues : queue[p].txLock = -1
  BY AtPc DEF Suspend, HeldAt
<1>2. /\ CallFits(t, task[t]) /\ StampFits(t, task[t], sched) /\ PlaceFits(t, task[t], sched)
      /\ sched \in Sched /\ Placed(sched) /\ c \in OwnCalls(t)
  BY TaskTypes
<1>3. /\ sched' = SuspendAll(sched)
      /\ queue' = IF c.op = "wait" THEN queue ELSE [queue EXCEPT ![c.queue].txLock = 0]
      /\ task' = [task EXCEPT ![t].pc = pc]
  BY DEF Suspend, Goto
<1>4. /\ task'[t].call = c /\ task'[t].pc = pc
      /\ task'[t].left = task[t].left /\ task'[t].then = task[t].then
      /\ \A u \in Tasks \ {t} : task'[u] = task[u]
  BY <1>3 DEF KernelInv, QueueInv, CallsMade
<1>5. c.op # "wait" => (c.op = "receive" \/ Announces(c)) /\ c.queue \in Queues
  BY <1>1, <1>2, OwnFacts DEF CallFits, Announces
<1>7. /\ sched' \in Sched /\ sched'.current = t /\ sched'.generic = sched.generic
      /\ sched'.event = sched.event /\ sched'.suspended
      /\ sched'.pended = sched.pended /\ sched'.yieldPending = sched.yieldPending
      /\ sched'.switchPending = sched.switchPending
      /\ sched'.entered = sched.entered
  BY <1>1, <1>2, <1>3 DEF SuspendAll, Sched, SchedulerStates
<1>8. Placed(sched') /\ Ready(sched', t) /\ sched'.event[t] = Nowhere
  BY <1>1, <1>2, <1>7 DEF Placed, Ready
<1>9. OthersWake(t) /\ LetRun(t)
  BY <1>4, <1>7, OthersStay
<1>10. CallFits(t, task'[t])
  <2>1. task[t].then = "sleep" \/ c.op # "receive" \/ task[t].then # "fail"
    BY <1>2 DEF CallFits
  <2> QED
    BY <1>1, <1>2, <1>4, <1>5 DEF CallFits, Announces
<1>11. StampFits(t, task'[t], sched')
  BY <1>1, <1>2, <1>4, <1>7 DEF StampFits, Naps
<1>12. PlaceFits(t, task'[t], sched')
  BY <1>8 DEF PlaceFits, Waits
<1>13. TasksFit' /\ Held' /\ Running'
  <2>1. task'[t].pc \in HeldAt
    BY <1>4 DEF HeldAt
  <2> QED
    BY <1>1, <1>7, <1>8, <1>9, <1>10, <1>11, <1>12, <2>1, TaskMoves
<1>14. \A p \in Queues : /\ queue'[p].waiting = queue[p].waiting
                         /\ queue'[p].txLock = IF c.op # "wait" /\ p = c.queue THEN 0 ELSE -1
  <2>1. \A p \in Queues : queue[p] \in Ring(p) /\ queue = [x \in Queues |-> queue[x]]
    BY QueueTypes DEF KernelInv
  <2>2. CASE c.op = "wait"
    BY <1>1, <1>3, <2>2
  <2>3. CASE c.op # "wait"
    <3> DEFINE q == c.queue
               w == [queue[q] EXCEPT !.txLock = 0]
    <3>1. \A p \in Queues : queue'[p] = IF p = q THEN w ELSE queue[p]
      BY <1>3, <2>1, <2>3
    <3>2. w.waiting = queue[q].waiting /\ w.txLock = 0
      BY <1>5, <2>1, <2>3 DEF Ring
    <3> HIDE DEF w
    <3> QED
      BY <1>1, <2>3, <3>1, <3>2
  <2> QED
    BY <2>2, <2>3
<1>15. Locks'
  <2>1. \A p \in Queues : queue'[p].waiting \in Nat
    BY QueueTypes, <1>14 DEF KernelInv
  <2>2. \A p \in Queues : LockedBy(p)' <=> c.op # "wait" /\ c.queue = p
    BY <1>4, <1>7 DEF LockedBy
  <2> QED
    BY <1>14, <2>1, <2>2 DEF Locks
<1>16. Works'
  <2>1. HasRoom("display")' <=> HasRoom("display")
    BY <1>14 DEF HasRoom, Queues
  <2>2. HearsFor(t)'
    BY <1>4, <1>8 DEF HearsFor, Waits
  <2>3. FullFor(t)'
    <3>1. FullFor(t)
      BY DEF KernelInv, Works
    <3> QED
      BY <1>1, <1>4, <2>1, <3>1 DEF FullFor
  <2>4. sched'.event[t] # ToSend("display")
    BY <1>8, Lists DEF Queues
  <2>5. ~TakesRoom(t)
    BY <1>1 DEF TakesRoom
  <2>6. \A q \in Queues : ~(queue[q].txLock > 0)
    BY <1>1
  <2> QED
    BY <1>1, <1>9, <1>14, <2>2, <2>3, <2>4, <2>5, <2>6, WorkKept
<1> QED
  BY <1>13, <1>15, <1>16 DEF KernelInv

\* A check changes what the current task knows.
LEMMA ChecksKeep ==
    ASSUME KernelInv, QueueInv', NEW t \in Tasks, CheckExpired(t) \/ CheckWaits(t)
    PROVE  KernelInv'
<1> DEFINE c == task[t].call
           left == task'[t].left
<1>1. /\ sched.current = t /\ ~sched.switchPending /\ task[t].pc = "check"
      /\ sched.suspended /\ Ready(sched, t)
  BY AtPc DEF CheckExpired, CheckWaits, HeldAt
<1>2. /\ CallFits(t, task[t]) /\ StampFits(t, task[t], sched) /\ PlaceFits(t, task[t], sched)
      /\ sched \in Sched /\ Placed(sched) /\ c \in OwnCalls(t)
  BY TaskTypes
<1>3. queue' = queue
  BY DEF CheckExpired, CheckWaits
<1>t. /\ MaxTick \in Nat /\ SendTicks \in 1..(MaxTick - 1) /\ Forever = MaxTick
  BY TickAssumption DEF Forever
<1>5. c.op = "receive" \/ Announces(c)
  BY <1>1, <1>2, OwnFacts DEF CallFits, Announces
<1>e. Announces(c) => sched.entered[t] # None /\ task[t].left \in 1..SendTicks
  BY <1>1, <1>2 DEF StampFits, CallFits
<1>f. FullFor(t) /\ (Announces(c) => ~HasRoom("display"))
  BY <1>1 DEF KernelInv, Works, FullFor
<1>7. /\ sched' \in Sched /\ sched'.current = t /\ sched'.generic = sched.generic
      /\ sched'.event = sched.event /\ sched'.suspended = sched.suspended
      /\ sched'.pended = sched.pended /\ sched'.yieldPending = sched.yieldPending
      /\ sched'.switchPending = sched.switchPending
      /\ sched'.entered[t] # None <=> sched.entered[t] # None \/ (CheckWaits(t) /\ task[t].left # Forever)
      /\ \A u \in Tasks \ {t} : sched'.entered[u] = sched.entered[u]
  <2>1. CASE CheckExpired(t) /\ ~CheckWaits(t)
    BY <1>1, <1>2, <2>1 DEF CheckExpired
  <2>2. CASE CheckWaits(t)
    <3>1. sched' = IF task[t].left = Forever THEN sched ELSE SetTimeOutState(sched, t)
      BY <2>2 DEF CheckWaits
    <3> DEFINE r == SetTimeOutState(sched, t)
    <3>2. /\ r \in Sched /\ r.current = sched.current /\ r.generic = sched.generic
          /\ r.event = sched.event /\ r.pended = sched.pended /\ r.suspended = sched.suspended
          /\ r.yieldPending = sched.yieldPending /\ r.switchPending = sched.switchPending
          /\ r.entered[t] # None
          /\ \A u \in Tasks \ {t} : r.entered[u] = sched.entered[u]
      BY <1>2, SetTimeOutLemma
    <3> HIDE DEF r
    <3>3. CASE task[t].left = Forever
      BY <1>1, <1>2, <2>2, <3>1, <3>3
    <3>4. CASE task[t].left # Forever
      BY <1>1, <2>2, <3>1, <3>2, <3>4 DEF r
    <3> QED
      BY <3>3, <3>4
  <2> QED
    BY <2>1, <2>2
<1>4. /\ task'[t].call = c /\ task'[t].pc \in {"resume", "place"}
      /\ task'[t].then \in {"again", "sleep", "fail"}
      /\ task'[t].pc = "place" => task'[t].then = "sleep" /\ Blocked(c)
      /\ c.op = "receive" => task'[t].then # "fail" /\ left = task[t].left
      /\ Announces(c) => left \in 1..SendTicks
      /\ task'[t].then = "fail" => Announces(c)
      /\ task'[t].then = "sleep" => task'[t].pc = "place"
      /\ \A u \in Tasks \ {t} : task'[u] = task[u]
  <2>0. /\ task = [u \in Tasks |-> task[u]]
        /\ task[t] = [call |-> c, pc |-> task[t].pc, left |-> task[t].left, then |-> task[t].then]
    BY DEF KernelInv, QueueInv, CallsMade
  <2>1. CASE CheckExpired(t)
    <3>1. /\ task' = [task EXCEPT ![t].pc = "resume", ![t].then = "fail"]
          /\ task[t].left # MaxTick
      BY <2>1 DEF CheckExpired, TimeIsUp
    <3>2. /\ task'[t].call = c /\ task'[t].pc = "resume" /\ task'[t].then = "fail"
          /\ left = task[t].left /\ \A u \in Tasks \ {t} : task'[u] = task[u]
      BY <2>0, <3>1
    <3>3. Announces(c)
      BY <1>2, <1>5, <1>t, <3>1 DEF CallFits
    <3> QED
      BY <1>e, <3>2, <3>3 DEF Announces
  <2>2. CASE CheckWaits(t)
    <3> DEFINE l == IF task[t].left = Forever THEN task[t].left
                    ELSE task[t].left - SinceEntering(sched, t)
               p == IF Blocked(c) THEN "place" ELSE "resume"
               n == IF Blocked(c) THEN "sleep" ELSE "again"
    <3>1. task' = [task EXCEPT ![t].left = l, ![t].pc = p, ![t].then = n]
      BY <2>2, Zenon DEF CheckWaits
    <3> HIDE DEF l, p, n
    <3>2. /\ task'[t].call = c /\ task'[t].pc = p /\ task'[t].then = n
          /\ left = l /\ \A u \in Tasks \ {t} : task'[u] = task[u]
      BY <2>0, <3>1
    <3>3. c.op = "receive" => l = task[t].left
      BY <1>2 DEF CallFits, l
    <3>4. Announces(c) => l \in 1..SendTicks
      <4> SUFFICES ASSUME Announces(c) PROVE l \in 1..SendTicks
        OBVIOUS
      <4>1. ~(SinceEntering(sched, t) >= task[t].left)
        BY <1>e, <1>t, <2>2 DEF CheckWaits, TimeIsUp
      <4>2. SinceEntering(sched, t) \in 0..MaxTick
        BY <1>2, <1>e, ElapsedLemma
      <4>3. l = task[t].left - SinceEntering(sched, t)
        BY <1>e, <1>t DEF l
      <4> QED
        BY <1>e, <1>t, <4>1, <4>2, <4>3
    <3> QED
      BY <3>2, <3>3, <3>4 DEF p, n
  <2> QED
    BY <2>1, <2>2
<1> HIDE DEF left
<1>8. Placed(sched') /\ Ready(sched', t) /\ sched'.event[t] = Nowhere
  BY <1>1, <1>2, <1>7 DEF Placed, Ready
<1>9. OthersWake(t) /\ LetRun(t)
  BY <1>4, <1>7, OthersStay
<1>10. CallFits(t, task'[t])
  <2>1. /\ c.op \notin {"busy", "wait"} /\ ~(c.op = "send" /\ c.queue = "tick")
    BY <1>5 DEF Announces
  <2>2. left \in 0..MaxTick
    BY <1>2, <1>4, <1>5, <1>t DEF CallFits
  <2> QED
    BY <1>2, <1>4, <2>1, <2>2 DEF CallFits, left
<1>11. StampFits(t, task'[t], sched')
  <2>1. sched'.entered[t] # None => Announces(c)
    BY <1>2, <1>5, <1>7 DEF StampFits, CallFits
  <2>2. Announces(c) => sched'.entered[t] # None
    BY <1>e, <1>7
  <2> QED
    BY <1>4, <1>8, <2>1, <2>2 DEF StampFits, Naps, Ready
<1>12. PlaceFits(t, task'[t], sched')
  BY <1>8 DEF PlaceFits, Waits
<1>13. TasksFit' /\ Held' /\ Running'
  <2>1. sched'.suspended <=> task'[t].pc \in HeldAt
    BY <1>1, <1>4, <1>7 DEF HeldAt
  <2> QED
    BY <1>1, <1>7, <1>8, <1>9, <1>10, <1>11, <1>12, <2>1, TaskMoves
<1>14. Locks'
  BY <1>1, <1>3, <1>4, <1>7, LocksKept
<1>15. Works'
  <2>1. HasRoom("display")' <=> HasRoom("display")
    BY <1>3 DEF HasRoom
  <2>2. HearsFor(t)'
    BY <1>3, <1>4, <1>8 DEF HearsFor, Waits, Blocked, IsEmpty
  <2>3. FullFor(t)'
    BY <1>4, <1>f, <2>1 DEF FullFor
  <2>4. sched'.event[t] # ToSend("display")
    BY <1>8, Lists DEF Queues
  <2>5. ~TakesRoom(t)
    BY <1>1 DEF TakesRoom
  <2> QED
    BY <1>1, <1>3, <1>9, <2>2, <2>3, <2>4, <2>5, WorkKept
<1> QED
  BY <1>13, <1>14, <1>15 DEF KernelInv

\* The current task is put to sleep on its event.
LEMMA PlaceKeeps ==
    ASSUME KernelInv, QueueInv', NEW t \in Tasks, Place(t)
    PROVE  KernelInv'
<1> DEFINE c == task[t].call
           list == <<c.op, c.queue>>
<1>1. /\ sched.current = t /\ ~sched.switchPending /\ task[t].pc = "place"
      /\ sched.suspended /\ Ready(sched, t)
  BY AtPc DEF Place, HeldAt
<1>2. /\ CallFits(t, task[t]) /\ StampFits(t, task[t], sched) /\ PlaceFits(t, task[t], sched)
      /\ sched \in Sched /\ Placed(sched) /\ c \in OwnCalls(t)
  BY TaskTypes
<1>3. /\ queue' = queue /\ c.op # "wait"
      /\ sched' = PlaceOnEventList(sched, list, task[t].left)
      /\ task' = [task EXCEPT ![t].pc = "resume"]
  BY DEF Place, Goto
<1>4. /\ task'[t].call = c /\ task'[t].pc = "resume" /\ task'[t].then = "sleep"
      /\ task'[t].left = task[t].left
      /\ \A u \in Tasks \ {t} : task'[u] = task[u]
  BY <1>1, <1>2, <1>3 DEF KernelInv, QueueInv, CallsMade, CallFits
<1>5. (c.op = "receive" \/ Announces(c)) /\ c.queue \in Queues
  BY <1>1, <1>2, <1>3, OwnFacts DEF CallFits, Announces
<1>6. list \in {"send", "receive"} \X Queues
  BY <1>5 DEF Announces
<1>7. /\ sched' \in Sched /\ sched'.current = t
      /\ sched'.entered = sched.entered /\ sched'.suspended = sched.suspended
      /\ sched'.pended = sched.pended /\ sched'.yieldPending = sched.yieldPending
      /\ sched'.switchPending = sched.switchPending
      /\ sched'.event[t] = list /\ ~Ready(sched', t)
      /\ task[t].left = MaxTick => ~Naps(sched', t)
      /\ \A u \in Tasks \ {t} : /\ sched'.generic[u] = sched.generic[u]
                                /\ sched'.event[u] = sched.event[u]
  <2>1. task[t].left \in 1..(MaxTick - 1) \cup {MaxTick}
    BY <1>2, <1>5, TickAssumption DEF CallFits, Forever
  <2> DEFINE n == task[t].left
             r == PlaceOnEventList(sched, list, n)
  <2>4. n \in 1..(MaxTick - 1) \cup {MaxTick}
    BY <2>1
  <2> HIDE DEF n, list
  <2>2. /\ r \in Sched
        /\ r.current = sched.current /\ r.entered = sched.entered /\ r.pended = sched.pended
        /\ r.suspended = sched.suspended
        /\ r.yieldPending = sched.yieldPending /\ r.switchPending = sched.switchPending
        /\ \A u \in Tasks \ {sched.current} : /\ r.generic[u] = sched.generic[u]
                                             /\ r.event[u] = sched.event[u]
        /\ r.event[sched.current] = list /\ ~Ready(r, sched.current)
        /\ n = MaxTick => ~Naps(r, sched.current)
    BY <1>2, <1>6, <2>4, PlaceOnLemma
  <2> HIDE DEF r
  <2>3. sched' = r
    BY <1>3 DEF r, n, list
  <2> QED
    BY <1>1, <2>2, <2>3 DEF n
<1>l. list \notin {Nowhere, PendingReady}
  BY <1>6, Lists
<1>8. Placed(sched')
  BY <1>2, <1>7, <1>l DEF Placed, Ready
<1>9. OthersWake(t) /\ LetRun(t)
  BY <1>4, <1>7, OthersStay
<1>10. CallFits(t, task'[t])
  BY <1>1, <1>2, <1>3, <1>4, <1>5 DEF CallFits, Announces
<1>11. StampFits(t, task'[t], sched')
  <2>1. Announces(c) => sched.entered[t] # None
    BY <1>1, <1>2 DEF StampFits
  <2>2. c.op = "receive" => ~Naps(sched', t)
    BY <1>2, <1>7 DEF CallFits, Forever
  <2> QED
    BY <1>2, <1>4, <1>5, <1>7, <2>1, <2>2 DEF StampFits
<1>12. PlaceFits(t, task'[t], sched')
  BY <1>4, <1>5, <1>7, <1>l DEF PlaceFits, Waits
<1>13. TasksFit' /\ Held' /\ Running'
  <2>1. (sched'.suspended <=> task'[t].pc \in HeldAt) /\ GivesWay(t)'
    BY <1>1, <1>4, <1>7 DEF HeldAt, GivesWay
  <2>2. sched'.suspended
    BY <1>1, <1>7
  <2> QED
    BY <1>1, <1>7, <1>8, <1>9, <1>10, <1>11, <1>12, <2>1, <2>2, TaskMoves
<1>14. Locks'
  BY <1>1, <1>3, <1>4, <1>7, LocksKept
<1>15. Works'
  <2>0. HearsFor(t) /\ FullFor(t)
    BY DEF KernelInv, Works
  <2>2. HearsFor(t)'
    BY <1>1, <1>3, <1>4, <2>0 DEF HearsFor
  <2>3. FullFor(t)'
    BY <1>4 DEF FullFor
  <2>4. sched'.event[t] = ToSend("display") => ~HasRoom("display")
    <3> SUFFICES ASSUME sched'.event[t] = ToSend("display") PROVE ~HasRoom("display")
      OBVIOUS
    <3>1. Announces(c)
      BY <1>5, <1>7 DEF ToSend, Announces
    <3> QED
      BY <1>1, <2>0, <3>1 DEF FullFor
  <2>5. ~TakesRoom(t)
    BY <1>1 DEF TakesRoom
  <2> QED
    BY <1>1, <1>3, <1>9, <2>2, <2>3, <2>4, <2>5, WorkKept
<1> QED
  BY <1>13, <1>14, <1>15 DEF KernelInv

\* The timer service goes to sleep.
LEMMA PlaceTimerKeeps ==
    ASSUME KernelInv, QueueInv', NEW t \in Tasks, PlaceTimer(t)
    PROVE  KernelInv'
<1> DEFINE c == task[t].call
<1>1. /\ sched.current = t /\ ~sched.switchPending /\ task[t].pc = "place"
      /\ sched.suspended /\ Ready(sched, t)
  BY AtPc DEF PlaceTimer, HeldAt
<1>2. /\ CallFits(t, task[t]) /\ StampFits(t, task[t], sched) /\ PlaceFits(t, task[t], sched)
      /\ sched \in Sched /\ Placed(sched) /\ c \in OwnCalls(t)
  BY TaskTypes
<1>3. /\ queue' = queue /\ c.op = "wait"
      /\ sched' = Delay(sched, task[t].left)
      /\ task' = [task EXCEPT ![t].pc = "resume", ![t].then = "sleep"]
  BY DEF PlaceTimer
<1>4. /\ task'[t].call = c /\ task'[t].pc = "resume" /\ task'[t].then = "sleep"
      /\ task'[t].left = task[t].left
      /\ \A u \in Tasks \ {t} : task'[u] = task[u]
  <2>0. /\ task = [u \in Tasks |-> task[u]]
        /\ task[t] = [call |-> c, pc |-> task[t].pc, left |-> task[t].left, then |-> task[t].then]
    BY DEF KernelInv, QueueInv, CallsMade
  <2> QED
    BY <1>3, <2>0
<1>7. /\ sched' \in Sched /\ sched'.current = t
      /\ sched'.entered = sched.entered /\ sched'.suspended = sched.suspended
      /\ sched'.pended = sched.pended /\ sched'.yieldPending = sched.yieldPending
      /\ sched'.switchPending = sched.switchPending
      /\ sched'.event = sched.event /\ ~Ready(sched', t)
      /\ \A u \in Tasks \ {t} : sched'.generic[u] = sched.generic[u]
  <2>1. task[t].left \in 1..(MaxTick - 1)
    BY <1>2, <1>3, TickAssumption DEF CallFits
  <2> DEFINE n == task[t].left
             r == Delay(sched, n)
  <2>2. /\ r \in Sched
        /\ r.current = sched.current /\ r.entered = sched.entered /\ r.pended = sched.pended
        /\ r.suspended = sched.suspended /\ r.event = sched.event
        /\ r.yieldPending = sched.yieldPending /\ r.switchPending = sched.switchPending
        /\ \A u \in Tasks \ {sched.current} : r.generic[u] = sched.generic[u]
        /\ r.generic[sched.current] \in {"delayed", "overflow"}
    <3> HIDE DEF n
    <3> QED
      BY <1>2, <2>1, DelayLemma DEF n
  <2> HIDE DEF r
  <2>3. sched' = r
    BY <1>3 DEF r
  <2> QED
    BY <1>1, <2>2, <2>3 DEF Ready
<1>8. Placed(sched') /\ sched'.event[t] = Nowhere
  BY <1>1, <1>2, <1>7 DEF Placed, Ready
<1>9. OthersWake(t) /\ LetRun(t)
  BY <1>4, <1>7, OthersStay
<1>10. CallFits(t, task'[t])
  BY <1>2, <1>3, <1>4 DEF CallFits, Announces
<1>11. StampFits(t, task'[t], sched')
  BY <1>2, <1>3, <1>4, <1>7 DEF StampFits, Announces
<1>12. PlaceFits(t, task'[t], sched')
  BY <1>3, <1>4, <1>8 DEF PlaceFits, Waits
<1>13. TasksFit' /\ Held' /\ Running'
  <2>1. (sched'.suspended <=> task'[t].pc \in HeldAt) /\ GivesWay(t)'
    BY <1>1, <1>4, <1>7 DEF HeldAt, GivesWay
  <2>2. sched'.suspended
    BY <1>1, <1>7
  <2> QED
    BY <1>1, <1>7, <1>8, <1>9, <1>10, <1>11, <1>12, <2>1, <2>2, TaskMoves
<1>14. Locks'
  BY <1>1, <1>3, <1>4, <1>7, LocksKept
<1>15. Works'
  <2>2. HearsFor(t)' /\ FullFor(t)'
    BY <1>3, <1>4 DEF HearsFor, FullFor, Announces
  <2>4. sched'.event[t] # ToSend("display")
    BY <1>8, Lists DEF Queues
  <2>5. ~TakesRoom(t)
    BY <1>1 DEF TakesRoom
  <2> QED
    BY <1>1, <1>3, <1>9, <2>2, <2>4, <2>5, WorkKept
<1> QED
  BY <1>13, <1>14, <1>15 DEF KernelInv

\* The task that went to sleep gives way.
LEMMA YieldKeeps ==
    ASSUME KernelInv, QueueInv', NEW t \in Tasks, YieldWithinApi(t)
    PROVE  KernelInv'
<1> DEFINE c == task[t].call
<1>1. /\ sched.current = t /\ ~sched.switchPending /\ task[t].pc = "yield"
      /\ ~sched.suspended /\ sched.pended = 0
      /\ \A p \in Queues : queue[p].txLock = -1
  BY AtPc DEF YieldWithinApi, HeldAt
<1>2. /\ CallFits(t, task[t]) /\ StampFits(t, task[t], sched) /\ PlaceFits(t, task[t], sched)
      /\ sched \in Sched /\ Placed(sched)
  BY TaskTypes
<1>3. /\ queue' = queue /\ sched' = Yield(sched)
      /\ task' = [task EXCEPT ![t].pc = "try"]
  BY DEF YieldWithinApi, Continue, Goto
<1>4. /\ task'[t].call = c /\ task'[t].pc = "try" /\ task'[t].then = task[t].then
      /\ task'[t].left = task[t].left
      /\ \A u \in Tasks \ {t} : task'[u] = task[u]
  BY <1>3 DEF KernelInv, QueueInv, CallsMade
<1>7. /\ sched' \in Sched /\ sched'.current = t
      /\ sched'.entered = sched.entered /\ sched'.suspended = sched.suspended
      /\ sched'.pended = sched.pended /\ sched'.yieldPending = sched.yieldPending
      /\ sched'.switchPending /\ sched'.generic = sched.generic
      /\ sched'.event = sched.event
  BY <1>1, <1>2, <1>3 DEF Yield, Sched, SchedulerStates
<1>8. Placed(sched')
  BY <1>2, <1>7 DEF Placed, Ready
<1>9. OthersWake(t) /\ LetRun(t)
  BY <1>4, <1>7, OthersStay
<1>10. CallFits(t, task'[t])
  BY <1>1, <1>2, <1>4 DEF CallFits, Announces
<1>11. StampFits(t, task'[t], sched')
  BY <1>2, <1>4, <1>7 DEF StampFits, Naps
<1>12. PlaceFits(t, task'[t], sched')
  BY <1>2, <1>4, <1>7 DEF PlaceFits, Waits, Ready
<1>13. TasksFit' /\ Held' /\ Running'
  <2>1. (sched'.suspended <=> task'[t].pc \in HeldAt) /\ GivesWay(t)'
    BY <1>1, <1>4, <1>7 DEF HeldAt, GivesWay
  <2> QED
    BY <1>1, <1>7, <1>8, <1>9, <1>10, <1>11, <1>12, <2>1, TaskMoves
<1>14. Locks'
  BY <1>1, <1>3, <1>7, LocksOpen
<1>15. Works'
  <2>0. HearsFor(t)
    BY DEF KernelInv, Works
  <2>2. HearsFor(t)' /\ FullFor(t)'
    BY <1>1, <1>3, <1>4, <1>7, <2>0 DEF HearsFor, FullFor, Waits
  <2>4. TakesRoom(t) => TakesRoom(t)'
    BY <1>4, <1>7 DEF TakesRoom
  <2> QED
    BY <1>1, <1>3, <1>7, <1>9, <2>2, <2>4, WorkKept
<1> QED
  BY <1>13, <1>14, <1>15 DEF KernelInv

---------------------------------------------------------------------------
\* The queue is unlocked and the scheduler resumed.
LEMMA ResumeKeeps ==
    ASSUME KernelInv, QueueInv', NEW t \in Tasks, Resume(t)
    PROVE  KernelInv'
<1> DEFINE c == task[t].call
           w == WokenByUnlock(sched, c)
           r == ResumeAll(w)
<1>1. /\ sched.current = t /\ ~sched.switchPending /\ task[t].pc = "resume"
      /\ sched.suspended
      /\ task[t].then # "sleep" => Ready(sched, t)
  BY AtPc DEF Resume, HeldAt
<1>2. /\ CallFits(t, task[t]) /\ StampFits(t, task[t], sched) /\ PlaceFits(t, task[t], sched)
      /\ sched \in Sched /\ Placed(sched) /\ c \in OwnCalls(t)
  BY TaskTypes
<1>3. c.op # "wait" => (c.op = "receive" \/ Announces(c)) /\ c.queue \in Queues
  BY <1>1, <1>2, OwnFacts DEF CallFits, Announces
<1>4. \A q \in Queues : queue[q].txLock # -1 => c.op # "wait" /\ q = c.queue
  BY <1>1 DEF KernelInv, Locks, LockedBy
<1>5. c.op # "wait" => queue[c.queue].txLock \in Nat
  <2>1. ASSUME c.op # "wait"
        PROVE  queue[c.queue].txLock \in Nat
    <3> DEFINE q == c.queue
    <3>1. q \in Queues /\ LockedBy(q)
      BY <1>1, <1>3, <2>1 DEF LockedBy
    <3> HIDE DEF q
    <3>2. queue[q].txLock \in -1..queue[q].waiting /\ queue[q].txLock # -1
      BY <3>1 DEF KernelInv, Locks
    <3>3. queue[q].waiting \in Nat
      BY <3>1, QueueTypes DEF KernelInv
    <3>4. queue[q].txLock \in Nat
      BY <3>2, <3>3
    <3> QED
      BY <3>4 DEF q
  <2> QED
    BY <2>1
<1>6. /\ Rouses(sched, w) /\ Still(sched, w) /\ w.switchPending = sched.switchPending
      /\ \A u \in Tasks : /\ c.op # "wait" /\ queue[c.queue].txLock > 0
                          /\ Waiters(sched, ToReceive(c.queue)) \subseteq {u}
                          => Waiters(w, ToReceive(c.queue)) = {}
  <2> HIDE DEF c
  <2> QED
    BY <1>2, <1>3, <1>5, UnlockLemma
<1>7. /\ Rouses(w, r) /\ r.pended = 0 /\ ~r.suspended
      /\ r.switchPending = (w.switchPending \/ r.yieldPending)
      /\ r.yieldPending = AlreadyYielded(w)
  <2> DEFINE l == [u \in Tasks |-> 0]
             k == [u \in Tasks |-> l[u] + w.pended]
  <2>1. w \in Sched /\ Placed(w)
    BY <1>6 DEF Rouses, Wakes
  <2>2. \A u \in Tasks : Naps(w, u) \/ w.entered[u] # None => k[u] = l[u] + w.pended
    OBVIOUS
  <2> HIDE DEF w, l, k
  <2> QED
    BY <2>1, <2>2, ResumeAllLemma
<1>8. /\ queue' = IF c.op = "wait" THEN queue ELSE [queue EXCEPT ![c.queue].txLock = -1]
      /\ \/ task[t].then = "fail" /\ Return(t, r)
         \/ task[t].then = "sleep" /\ ~AlreadyYielded(w) /\ Continue(t, "yield", r)
         \/ /\ task[t].then = "sleep" => AlreadyYielded(w)
            /\ task[t].then # "fail"
            /\ Continue(t, "try", r)
  BY Zenon DEF Resume
<1> HIDE DEF w, r
<1>9. Rouses(sched, r) /\ (r.switchPending <=> r.yieldPending)
  BY <1>1, <1>6, <1>7, RousesTwice
<1>10. /\ r \in Sched /\ Placed(r) /\ r.current = t /\ r.entered = sched.entered
       /\ \A u \in Tasks : /\ Waits(r, u) => r.event[u] = sched.event[u]
                           /\ Ready(sched, u) => Ready(r, u)
                           /\ Naps(r, u) => Naps(sched, u)
                           /\ r.event[u] = Nowhere => Ready(r, u) \/ sched.event[u] = Nowhere
                           /\ Ready(r, u) /\ ~Ready(sched, u) /\ Outranks(u, t) => r.switchPending
  BY <1>1, <1>9 DEF Rouses, Wakes, Noted
<1>11. \A p \in Queues : queue'[p].waiting = queue[p].waiting /\ queue'[p].txLock = -1
  <2>1. \A p \in Queues : queue[p] \in Ring(p) /\ queue = [x \in Queues |-> queue[x]]
    BY QueueTypes DEF KernelInv
  <2>2. CASE c.op = "wait"
    BY <1>4, <1>8, <2>2
  <2>3. CASE c.op # "wait"
    <3> DEFINE q == c.queue
               v == [queue[q] EXCEPT !.txLock = -1]
    <3>1. \A p \in Queues : queue'[p] = IF p = q THEN v ELSE queue[p]
      BY <1>8, <2>1, <2>3
    <3>2. v.waiting = queue[q].waiting /\ v.txLock = -1
      BY <1>3, <2>1, <2>3 DEF Ring
    <3> HIDE DEF v
    <3> QED
      BY <1>4, <2>3, <3>1, <3>2
  <2> QED
    BY <2>2, <2>3
<1>12. ASSUME NEW u \in Tasks, NEW q \in Queues, Waits(r, u), sched.event[u] = ToReceive(q),
              queue[q].txLock > 0
       PROVE  FALSE
  <2>1. c.op # "wait" /\ q = c.queue
    BY <1>4, <1>12
  <2>2. Waiters(sched, ToReceive(q)) \subseteq {u}
    <3> SUFFICES ASSUME NEW v \in Tasks, sched.event[v] = ToReceive(q) PROVE v = u
      BY DEF Waiters
    <3>1. /\ task[u].call.op = "receive" /\ q = Reads(u) /\ task[u].call \in OwnCalls(u)
          /\ task[v].call.op = "receive" /\ q = Reads(v) /\ task[v].call \in OwnCalls(v)
      BY <1>12, WaitersFit, TaskTypes DEF KernelInv
    <3>2. u \in {"sensor", "control", "display"} /\ v \in {"sensor", "control", "display"}
      BY <3>1, OwnFacts
    <3> QED
      BY <3>1, <3>2, OneReader
  <2>3. Waiters(w, ToReceive(q)) = {}
    BY <1>6, <1>12, <2>1, <2>2
  <2>4. Waits(w, u) /\ r.event[u] = w.event[u] /\ r.event[u] = sched.event[u]
    BY <1>7, <1>10, <1>12 DEF Rouses, Wakes, Waits
  <2> QED
    BY <1>12, <2>3, <2>4 DEF Waiters
<1>d. "display" \in Queues
  BY DEF Queues
<1>13. CASE task[t].then = "fail"
  <2>1. Return(t, r) /\ Ready(sched, t)
    BY <1>1, <1>8, <1>13
  <2>2. /\ TasksFit' /\ Held' /\ Running' /\ OthersWake(t)
        /\ HearsFor(t)' /\ FullFor(t)'
        /\ ~Waits(sched', t) /\ sched'.event = r.event /\ ~sched'.suspended
    BY <1>1, <1>7, <1>9, <1>10, <2>1, ReturnLemma
  <2>3. Locks'
    BY <1>11, <2>2, LocksOpen
  <2>4. Works'
    <3>1. sched'.event[t] # ToSend("display")
      BY <1>d, <2>2, Lists DEF Waits
    <3>2. ~TakesRoom(t)
      BY <1>1 DEF TakesRoom
    <3>3. \A u \in Tasks \ {t} : \A q \in Queues :
              Waits(sched', u) /\ sched.event[u] = ToReceive(q) /\ queue[q].txLock > 0
                 => queue'[q].txLock > 0
      BY <1>12, <2>2 DEF Waits
    <3> QED
      BY <1>1, <1>11, <2>2, <3>1, <3>2, <3>3, WorkKept
  <2> QED
    BY <2>2, <2>3, <2>4 DEF KernelInv
<1>14. CASE task[t].then # "fail"
  <2>1. PICK pc \in {"try", "yield"} :
           /\ Continue(t, pc, r)
           /\ pc = "yield" \/ task[t].then # "sleep" \/ r.switchPending
    <3>1. \/ task[t].then = "sleep" /\ ~AlreadyYielded(w) /\ Continue(t, "yield", r)
          \/ /\ task[t].then = "sleep" => AlreadyYielded(w)
             /\ Continue(t, "try", r)
      BY <1>8, <1>14
    <3> QED
      BY <1>7, <1>9, <3>1
  <2>2. sched' = r /\ task' = [task EXCEPT ![t].pc = pc]
    BY <2>1 DEF Continue, Goto
  <2>3. /\ task'[t].call = c /\ task'[t].pc = pc /\ task'[t].then = task[t].then
        /\ task'[t].left = task[t].left
        /\ \A u \in Tasks \ {t} : task'[u] = task[u]
    BY <2>2 DEF KernelInv, QueueInv, CallsMade
  <2>4. OthersWake(t)
    BY <1>10, <2>2, <2>3 DEF OthersWake
  <2>5. LetRun(t)
    BY <1>7, <1>9, <1>10, <2>2 DEF LetRun, Rouses, Noted
  <2>6. CallFits(t, task'[t])
    BY <1>1, <1>2, <1>3, <2>3 DEF CallFits, Announces
  <2>7. StampFits(t, task'[t], sched')
    BY <1>1, <1>2, <1>10, <2>2, <2>3 DEF StampFits
  <2>8. PlaceFits(t, task'[t], sched')
    <3>1. Waits(r, t) => Waits(sched, t)
      BY <1>10 DEF Waits
    <3> QED
      BY <1>2, <1>10, <2>2, <2>3, <3>1 DEF PlaceFits
  <2>9. Ready(sched', t) \/ GivesWay(t)'
    BY <1>1, <1>10, <2>1, <2>2, <2>3 DEF GivesWay
  <2>10. TasksFit' /\ Held' /\ Running'
    <3>1. sched'.suspended <=> task'[t].pc \in HeldAt
      BY <1>7, <2>2, <2>3 DEF HeldAt
    <3>2. sched'.pended = 0
      BY <1>7, <2>2
    <3> QED
      BY <1>1, <1>10, <2>2, <2>4, <2>5, <2>6, <2>7, <2>8, <2>9, <3>1, <3>2, TaskMoves
  <2>11. Locks'
    BY <1>7, <1>11, <2>2, LocksOpen
  <2>12. Works'
    <3>1. HearsFor(t)'
      <4> SUFFICES ASSUME c.op = "receive", Waits(r, t)
                   PROVE  queue'[c.queue].waiting = 0
        BY <2>2, <2>3 DEF HearsFor
      <4>1. Waits(sched, t)
        BY <1>10 DEF Waits
      <4>2. queue[c.queue].waiting = 0 \/ queue[c.queue].txLock > 0
        BY <4>1 DEF KernelInv, Works, HearsFor
      <4>3. sched.event[t] = ToReceive(c.queue)
        BY <1>2, <4>1 DEF PlaceFits, ToReceive
      <4>4. ~(queue[c.queue].txLock > 0)
        BY <1>3, <1>12, <4>3
      <4> QED
        BY <1>3, <1>11, <4>2, <4>4
    <3>2. FullFor(t)'
      BY <2>3 DEF FullFor
    <3>3. ~TakesRoom(t)
      BY <1>1 DEF TakesRoom
    <3>4. sched'.event[t] = ToSend("display") => sched.event[t] = ToSend("display")
      BY <1>10, <1>d, <2>2, Lists DEF Waits
    <3>5. \A u \in Tasks \ {t} : \A q \in Queues :
              Waits(sched', u) /\ sched.event[u] = ToReceive(q) /\ queue[q].txLock > 0
                 => queue'[q].txLock > 0
      BY <1>12, <2>2
    <3> QED
      BY <1>1, <1>11, <2>4, <3>1, <3>2, <3>3, <3>4, <3>5, WorkKept
  <2> QED
    BY <2>10, <2>11, <2>12 DEF KernelInv
<1> QED
  BY <1>13, <1>14

---------------------------------------------------------------------------
\* An interrupt leaves the tasks where they are in their calls.
LEMMA InterruptMoves ==
    ASSUME KernelInv, task' = task, Wakes(sched, sched'),
           sched'.suspended = sched.suspended, ~sched'.suspended => sched'.pended = 0,
           sched.switchPending => sched'.switchPending,
           Calm(sched) => sched'.switchPending \/ Calm(sched'),
           \A u \in Tasks : /\ Ready(sched', u) /\ ~Ready(sched, u) /\ Announces(task[u].call)
                            /\ Outranks(u, sched.current)
                            => sched'.switchPending /\ ~sched'.suspended
    PROVE  TasksFit' /\ Held' /\ Running'
<1>1. /\ sched' \in Sched /\ Placed(sched') /\ sched'.current = sched.current
      /\ sched'.entered = sched.entered
      /\ \A u \in Tasks : /\ Waits(sched', u) => Waits(sched, u) /\ sched'.event[u] = sched.event[u]
                          /\ Ready(sched, u) => Ready(sched', u)
                          /\ Naps(sched', u) => Naps(sched, u)
                          /\ sched'.event[u] = Nowhere => Ready(sched', u) \/ sched.event[u] = Nowhere
  BY DEF Wakes, Waits
<1>2. sched.current \in Tasks
  BY DEF KernelInv, TasksFit, Sched, SchedulerStates
<1>3. TasksFit'
  <2>1. ASSUME NEW u \in Tasks
        PROVE  StampFits(u, task[u], sched') /\ PlaceFits(u, task[u], sched')
    <3>1. StampFits(u, task[u], sched) /\ PlaceFits(u, task[u], sched)
      BY TaskTypes
    <3> QED
      BY <1>1, <3>1 DEF StampFits, PlaceFits
  <2> QED
    BY <1>1, <2>1, TaskTypes DEF TasksFit
<1>4. Held'
  BY <1>1 DEF KernelInv, Held
<1>5. \/ Ready(sched', sched.current)
      \/ sched'.switchPending \/ task[sched.current].pc = "yield"
      \/ task[sched.current].pc = "resume" /\ task[sched.current].then = "sleep"
  <2>1. CASE Ready(sched, sched.current)
    BY <1>1, <1>2, <2>1
  <2>2. CASE GivesWay(sched.current)
    BY <2>2 DEF GivesWay
  <2> QED
    BY <2>1, <2>2 DEF KernelInv, Running
<1>6. sched'.switchPending \/ Calm(sched')
  <2>1. sched.switchPending \/ Calm(sched)
    BY DEF KernelInv, Running
  <2> QED
    BY <2>1
<1>7. DisplayLast'
  <2> SUFFICES ASSUME sched.current = "display", sched'.suspended \/ ~sched'.switchPending,
                      NEW u \in Tasks, Announces(task[u].call), Ready(sched', u)
               PROVE  FALSE
    BY <1>1 DEF DisplayLast
  <2>1. u \in {"sensor", "control"}
    BY TaskTypes, OwnFacts DEF Announces
  <2>2. Outranks(u, sched.current)
    BY <2>1 DEF Outranks, Priority, Tasks
  <2>3. ~Ready(sched, u)
    BY DEF KernelInv, Running, DisplayLast
  <2> QED
    BY <2>2, <2>3
<1>8. Running'
  <2>1. (Ready(sched, sched.current) \/ GivesWay(sched.current))'
    BY <1>1, <1>5 DEF GivesWay
  <2> QED
    BY <1>6, <1>7, <2>1 DEF Running
<1> QED
  BY <1>3, <1>4, <1>8

\* And the work, when it brings none.
LEMMA InterruptWork ==
    ASSUME KernelInv, UNCHANGED <<queue, task>>,
           \A u \in Tasks : Waits(sched', u) => sched'.event[u] = sched.event[u]
    PROVE  Works'
<1>1. ASSUME NEW u \in Tasks
      PROVE  HearsFor(u)' /\ FullFor(u)' /\ (TakesRoom(u) => TakesRoom(u)')
  <2>1. HearsFor(u) /\ FullFor(u)
    BY DEF KernelInv, Works
  <2>2. Waits(sched', u) => Waits(sched, u)
    BY DEF Waits
  <2>3. HearsFor(u)' /\ FullFor(u)'
    BY <2>1, <2>2 DEF HearsFor, FullFor, HasRoom
  <2>4. TakesRoom(u) => TakesRoom(u)'
    BY Lists DEF TakesRoom, Waits, Queues
  <2> QED
    BY <2>3, <2>4
<1>2. RoomKept'
  <2>1. Waiters(sched, ToSend("display"))' # {} => Waiters(sched, ToSend("display")) # {}
    BY Lists DEF Waiters, Waits, Queues
  <2>2. RoomKept
    BY DEF KernelInv, Works
  <2>3. HasRoom("display")' <=> HasRoom("display")
    BY DEF HasRoom
  <2> QED
    BY <1>1, <2>1, <2>2, <2>3 DEF RoomKept
<1> QED
  BY <1>1, <1>2 DEF Works

\* The panel's message wakes the control task, or is remembered by the lock.
LEMMA SendFromISRKeeps ==
    ASSUME KernelInv, QueueInv', NEW m \in Inputs, SendFromISR(m)
    PROVE  KernelInv'
<1> DEFINE q == "control"
           put == CopyDataToQueue(queue[q], q, m)
           r == Signal(sched, ToReceive(q))
<1>1. q \in Queues /\ "display" \in Queues
  BY DEF Queues
<1>2. /\ task' = task /\ HasRoom(q)
      /\ Unlocked(q) => queue' = [queue EXCEPT ![q] = put] /\ sched' = r
      /\ ~Unlocked(q) => queue' = [queue EXCEPT ![q] = [put EXCEPT !.txLock = @ + 1]] /\ sched' = sched
  BY Zenon DEF SendFromISR
<1>3. sched \in Sched /\ Placed(sched) /\ Rouses(sched, sched) /\ Still(sched, sched)
  BY RousesSelf DEF KernelInv, TasksFit
<1>4. /\ Rouses(sched, r) /\ Still(sched, r) /\ r.switchPending = sched.switchPending
      /\ \A u \in Tasks : Ready(r, u) /\ ~Ready(sched, u) => u \in Waiters(sched, ToReceive(q))
      /\ Waiters(sched, ToReceive(q)) = {} => r = sched
      /\ Waiters(sched, ToReceive(q)) # {} =>
            \E v \in Waiters(sched, ToReceive(q)) : ~Waits(r, v)
  <2>1. ToReceive(q) \in {"send", "receive"} \X Queues
    BY <1>1, Lists
  <2> QED
    BY <1>3, <2>1, SignalLemma
<1>5. /\ queue[q] \in Ring(q) /\ queue = [p \in Queues |-> queue[p]]
      /\ queue[q].waiting \in Nat /\ queue[q].txLock \in Int
  BY <1>1, QueueTypes DEF KernelInv
<1>6. /\ put.waiting = queue[q].waiting + 1 /\ put.txLock = queue[q].txLock
      /\ [put EXCEPT !.txLock = @ + 1].waiting = queue[q].waiting + 1
      /\ [put EXCEPT !.txLock = @ + 1].txLock = queue[q].txLock + 1
  <2>1. put.waiting = queue[q].waiting + 1 /\ put.txLock = queue[q].txLock
    <3> HIDE DEF q
    <3> QED
      BY <1>1, <1>5, MovedTypes
  <2>2. m \in Messages /\ Balanced(queue[q], q) /\ queue[q].waiting < Length[q]
    BY <1>1, <1>2 DEF Messages, HasRoom, KernelInv, QueueInv, Rings
  <2>3. put \in Ring(q)
    <3> HIDE DEF q
    <3> QED
      BY <1>1, <1>5, <2>2, PutLine
  <2> HIDE DEF put
  <2> QED
    BY <2>1, <2>3 DEF Ring
<1> HIDE DEF put, r
<1>7. /\ queue'[q].waiting = queue[q].waiting + 1
      /\ queue'[q].txLock = IF Unlocked(q) THEN queue[q].txLock ELSE queue[q].txLock + 1
      /\ \A p \in Queues \ {q} : queue'[p] = queue[p]
  <2>1. CASE Unlocked(q)
    BY <1>1, <1>2, <1>5, <1>6, <2>1
  <2>2. CASE ~Unlocked(q)
    <3> DEFINE v == [put EXCEPT !.txLock = @ + 1]
    <3>1. v.waiting = queue[q].waiting + 1 /\ v.txLock = queue[q].txLock + 1
      BY <1>6
    <3>2. queue' = [queue EXCEPT ![q] = v]
      BY <1>2, <2>2
    <3> HIDE DEF v
    <3> QED
      BY <1>1, <1>5, <1>6, <2>2, <3>1, <3>2
  <2> QED
    BY <2>1, <2>2
<1>8. /\ Rouses(sched, sched') /\ Still(sched, sched')
      /\ sched'.switchPending = sched.switchPending
      /\ \A u \in Tasks : Ready(sched', u) /\ ~Ready(sched, u) => u \in Waiters(sched, ToReceive(q))
  BY <1>2, <1>3, <1>4
<1>9. TasksFit' /\ Held' /\ Running'
  <2>1. Wakes(sched, sched') /\ (Calm(sched) => Calm(sched'))
    BY <1>8, StaysCalm DEF Rouses
  <2>2. sched'.suspended = sched.suspended /\ sched'.pended = sched.pended
    BY <1>8 DEF Still
  <2>3. \A u \in Tasks : Ready(sched', u) /\ ~Ready(sched, u) => ~Announces(task[u].call)
    BY <1>1, <1>8, WaitersFit DEF Waiters, Announces, KernelInv
  <2>4. ~sched.suspended => sched.pended = 0
    BY DEF KernelInv, Held
  <2> QED
    BY <1>2, <1>8, <2>1, <2>2, <2>3, <2>4, InterruptMoves
<1>10. Locks'
  <2>1. \A p \in Queues : LockedBy(p)' <=> LockedBy(p)
    BY <1>2, <1>8 DEF LockedBy, Still, Rouses, Wakes
  <2>2. \A p \in Queues : /\ queue[p].txLock \in -1..queue[p].waiting
                          /\ queue[p].txLock # -1 <=> LockedBy(p)
    BY DEF KernelInv, Locks
  <2>3. /\ queue'[q].txLock \in -1..queue'[q].waiting
        /\ queue'[q].txLock # -1 <=> queue[q].txLock # -1
    BY <1>1, <1>5, <1>7, <2>2 DEF Unlocked
  <2> QED
    BY <1>1, <1>7, <2>1, <2>2, <2>3 DEF Locks
<1>11. ASSUME NEW u \in Tasks
       PROVE  HearsFor(u)' /\ FullFor(u)' /\ (TakesRoom(u) => TakesRoom(u)')
  <2>1. HearsFor(u) /\ FullFor(u) /\ task[u].call \in OwnCalls(u)
    BY TaskTypes DEF KernelInv, Works
  <2>2. Waits(sched', u) => Waits(sched, u) /\ sched'.event[u] = sched.event[u]
    BY <1>8 DEF Rouses, Wakes, Waits
  <2>3. FullFor(u)'
    BY <1>1, <1>2, <1>7, <2>1 DEF FullFor, HasRoom
  <2>4. TakesRoom(u) => TakesRoom(u)'
    BY <1>1, <1>2, <2>2, Lists DEF TakesRoom, Waits
  <2>5. HearsFor(u)'
    <3> DEFINE p == task[u].call.queue
    <3> SUFFICES ASSUME task[u].call.op = "receive", Waits(sched', u) \/ task[u].pc = "place"
                 PROVE  queue'[p].waiting = 0 \/ queue'[p].txLock > 0
      BY <1>2 DEF HearsFor
    <3>1. p \in Queues /\ (queue[p].waiting = 0 \/ queue[p].txLock > 0)
      BY <2>1, <2>2, OwnFacts DEF HearsFor
    <3> HIDE DEF p
    <3>2. CASE p # q
      BY <1>7, <3>1, <3>2
    <3>3. CASE p = q /\ ~Unlocked(q)
      <4>1. queue[q].txLock \in -1..queue[q].waiting
        BY <1>1 DEF KernelInv, Locks
      <4> QED
        BY <1>5, <1>7, <3>3, <4>1 DEF Unlocked
    <3>4. CASE p = q /\ Unlocked(q)
      <4>1. task[u].pc # "place"
        <5> SUFFICES ASSUME task[u].pc = "place" PROVE FALSE
          OBVIOUS
        <5>1. u = sched.current /\ sched.suspended
          BY DEF KernelInv, Held, HeldAt
        <5>2. LockedBy(q)
          BY <3>4, <5>1 DEF LockedBy, p
        <5> QED
          BY <1>1, <3>4, <5>2 DEF KernelInv, Locks, Unlocked
      <4>2. Waits(r, u) /\ sched' = r
        BY <1>2, <3>4, <4>1
      <4>3. \/ Waiters(sched, ToReceive(q)) = {} /\ r.event = sched.event
            \/ \E v \in Waiters(sched, ToReceive(q)) : ~Waits(r, v)
        BY <1>4
      <4>4. p # q
        BY <1>1, <2>2, <4>2, <4>3, HeardOnPut DEF p
      <4> QED
        BY <3>4, <4>4
    <3> QED
      BY <3>2, <3>3, <3>4
  <2> QED
    BY <2>3, <2>4, <2>5
<1>12. RoomKept'
  <2>1. Waiters(sched, ToSend("display"))' # {} => Waiters(sched, ToSend("display")) # {}
    BY <1>1, <1>8, Lists DEF Waiters, Waits, Rouses, Wakes
  <2>2. RoomKept
    BY DEF KernelInv, Works
  <2>3. queue'["display"] = queue["display"]
    BY <1>1, <1>7
  <2>4. HasRoom("display")' <=> HasRoom("display")
    BY <2>3 DEF HasRoom
  <2> QED
    BY <1>11, <2>1, <2>2, <2>3, <2>4 DEF RoomKept
<1> QED
  BY <1>9, <1>10, <1>11, <1>12 DEF KernelInv, Works

\* A tick.
LEMMA SysTickKeeps ==
    ASSUME KernelInv, QueueInv', SysTick
    PROVE  KernelInv'
<1> DEFINE w == IncrementTick(sched)
           b == TickSwitches(sched)
<1>1. /\ ~sched.switchPending /\ task' = task /\ queue' = queue
      /\ sched.suspended => sched.pended < MaxPended
      /\ sched' = [w EXCEPT !.switchPending = b]
  BY DEF SysTick
<1>2. sched \in Sched /\ Placed(sched) /\ sched.current \in Tasks
  BY DEF KernelInv, TasksFit, Sched, SchedulerStates
<1>3. /\ w \in Sched /\ b \in BOOLEAN /\ Wakes(sched, w) /\ Noted(sched, w, b)
      /\ w.suspended = sched.suspended /\ w.yieldPending = sched.yieldPending
      /\ ~sched.suspended => w.pended = sched.pended
      /\ sched.suspended => w.generic = sched.generic
  <2>1. CASE sched.suspended
    <3>1. w = [sched EXCEPT !.pended = @ + 1] /\ b = (sched.yieldPending \/ FALSE)
      BY <2>1 DEF IncrementTick, TickSwitches
    <3>2. sched.pended + 1 \in 0..MaxPended /\ sched.yieldPending \in BOOLEAN
      BY <1>1, <1>2, <2>1, TickAssumption DEF Sched, SchedulerStates
    <3> HIDE DEF b, w
    <3>3. /\ w \in Sched /\ w.current = sched.current /\ w.entered = sched.entered
          /\ w.generic = sched.generic /\ w.event = sched.event
          /\ w.suspended = sched.suspended /\ w.yieldPending = sched.yieldPending
      BY <1>2, <3>1, <3>2 DEF Sched, SchedulerStates
    <3>4. Wakes(sched, w) /\ Noted(sched, w, b)
      BY <1>2, <3>1, <3>2, <3>3 DEF Wakes, Noted, Placed, Ready, Waits, Naps
    <3> QED
      BY <2>1, <3>1, <3>2, <3>3, <3>4
  <2>2. CASE ~sched.suspended
    BY <1>2, <2>2, IncrementLemma DEF Wakes
  <2> QED
    BY <2>1, <2>2
<1> HIDE DEF w, b
<1>4. /\ sched' \in Sched /\ sched'.current = w.current /\ sched'.entered = w.entered
      /\ sched'.generic = w.generic /\ sched'.event = w.event
      /\ sched'.suspended = w.suspended /\ sched'.yieldPending = w.yieldPending
      /\ sched'.pended = w.pended /\ sched'.switchPending = b
  BY <1>1, <1>3 DEF Sched, SchedulerStates
<1>5. Wakes(sched, sched')
  BY <1>3, <1>4 DEF Wakes, Placed, Ready, Waits, Naps
<1>6. /\ sched.yieldPending => sched'.switchPending
      /\ \A u \in Tasks : Ready(sched', u) /\ ~Ready(sched, u) /\ Outranks(u, sched.current) =>
                             sched'.switchPending /\ ~sched'.suspended
  BY <1>3, <1>4 DEF Noted, Ready
<1>7. Calm(sched) => sched'.switchPending \/ Calm(sched')
  BY <1>5, <1>6 DEF Calm, Wakes
<1>8. TasksFit' /\ Held' /\ Running'
  <2>1. ~sched.suspended => sched.pended = 0
    BY DEF KernelInv, Held
  <2> QED
    BY <1>1, <1>3, <1>4, <1>5, <1>6, <1>7, <2>1, InterruptMoves
<1>9. Locks'
  BY <1>1, <1>3, <1>4, <1>5, LocksKept DEF Wakes
<1>10. Works'
  BY <1>1, <1>5, InterruptWork DEF Wakes
<1> QED
  BY <1>8, <1>9, <1>10 DEF KernelInv

\* A switch.
LEMMA PendSVKeeps ==
    ASSUME KernelInv, QueueInv', NEW t \in Tasks, PendSV(t)
    PROVE  KernelInv'
<1>1. /\ sched.switchPending /\ task' = task /\ queue' = queue
      /\ IF sched.suspended THEN t = sched.current ELSE t \in Eligible(sched)
      /\ sched' = SwitchContext(sched, t)
  BY DEF PendSV
<1>2. sched \in Sched /\ Placed(sched) /\ sched.current \in Tasks
  BY DEF KernelInv, TasksFit, Sched, SchedulerStates
<1>3. /\ sched' \in Sched /\ sched'.current = t /\ sched'.entered = sched.entered
      /\ sched'.generic = sched.generic /\ sched'.event = sched.event
      /\ sched'.suspended = sched.suspended /\ sched'.yieldPending = sched.suspended
      /\ sched'.pended = sched.pended /\ sched'.switchPending = FALSE
  <2>0. sched.suspended \in BOOLEAN
    BY <1>2 DEF Sched, SchedulerStates
  <2>1. CASE sched.suspended
    BY <1>1, <1>2, <2>0, <2>1 DEF Sched, SchedulerStates, SwitchContext
  <2>2. CASE ~sched.suspended
    BY <1>1, <1>2, <2>0, <2>2 DEF Sched, SchedulerStates, SwitchContext
  <2> QED
    BY <2>1, <2>2
<1>4. TasksFit'
  <2>1. Placed(sched')
    BY <1>2, <1>3 DEF Placed, Ready
  <2>2. ASSUME NEW u \in Tasks
        PROVE  StampFits(u, task[u], sched') /\ PlaceFits(u, task[u], sched')
    <3>1. StampFits(u, task[u], sched) /\ PlaceFits(u, task[u], sched)
      BY TaskTypes
    <3> QED
      BY <1>3, <3>1 DEF StampFits, PlaceFits, Waits, Ready, Naps
  <2> QED
    BY <1>1, <1>3, <2>1, <2>2, TaskTypes DEF TasksFit
<1>5. Held'
  BY <1>1, <1>2, <1>3 DEF KernelInv, Held
<1>6. Locks'
  <2>1. \A q \in Queues : LockedBy(q)' <=> LockedBy(q)
    BY <1>1, <1>3 DEF LockedBy
  <2> QED
    BY <1>1, <2>1 DEF KernelInv, Locks
<1>7. ASSUME sched.suspended
      PROVE  Running'
  <2>1. Ready(sched, t) \/ (task[t].pc = "resume" /\ task[t].then = "sleep")
    <3>1. PlaceFits(t, task[t], sched) /\ task[t].pc \in HeldAt
      BY <1>1, <1>7, TaskTypes DEF KernelInv, Held
    <3> QED
      BY <3>1 DEF PlaceFits, HeldAt
  <2>2. Ready(sched', t) \/ GivesWay(t)'
    BY <1>1, <1>3, <2>1 DEF Ready, GivesWay
  <2>3. Calm(sched')
    BY <1>3, <1>7 DEF Calm
  <2>4. DisplayLast'
    BY <1>1, <1>3, <1>7 DEF KernelInv, Running, DisplayLast, Ready
  <2> QED
    BY <1>3, <2>2, <2>3, <2>4 DEF Running
<1>8. ASSUME ~sched.suspended
      PROVE  Running'
  <2>1. Ready(sched, t) /\ \A u \in Tasks : Ready(sched, u) => ~Outranks(u, t)
    BY <1>1, <1>8 DEF Eligible, Highest, InList, Ready
  <2>2. Ready(sched', t) /\ Calm(sched')
    BY <1>3, <2>1 DEF Ready, Calm
  <2>3. DisplayLast'
    <3> SUFFICES ASSUME t = "display", NEW u \in Tasks, Announces(task[u].call), Ready(sched, u)
                 PROVE  FALSE
      BY <1>1, <1>3 DEF DisplayLast, Ready
    <3>1. u \in {"sensor", "control"}
      BY TaskTypes, OwnFacts DEF Announces
    <3>2. Outranks(u, t)
      BY <3>1 DEF Outranks, Priority, Tasks
    <3> QED
      BY <2>1, <3>2
  <2> QED
    BY <1>3, <2>2, <2>3 DEF Running
<1>9. Works'
  BY <1>1, <1>3, InterruptWork
<1> QED
  BY <1>4, <1>5, <1>6, <1>7, <1>8, <1>9 DEF KernelInv

---------------------------------------------------------------------------
\* The scheduler starts with everyone ready and the sensor task running.
LEMMA KernelStarts == Init => KernelInv
<1> SUFFICES ASSUME Init PROVE KernelInv
  OBVIOUS
<1>0. /\ QueueInv
      /\ sched = Started("sensor") /\ \A t \in Tasks : task[t] = Begun(FirstCall(t))
      /\ \A q \in Queues : queue[q].waiting = 0 /\ queue[q].txLock = -1
  BY QueuesStart DEF Init
<1>1. /\ sched \in Sched /\ sched.current = "sensor" /\ ~sched.suspended /\ ~sched.switchPending
      /\ sched.pended = 0 /\ ~sched.yieldPending
      /\ \A t \in Tasks : /\ Ready(sched, t) /\ sched.event[t] = Nowhere
                          /\ ~Naps(sched, t) /\ ~Waits(sched, t) /\ sched.entered[t] = None
  BY <1>0, TickAssumption DEF Started, Sched, SchedulerStates, Ready, Naps, Waits, Tasks, None
<1>2. ASSUME NEW t \in Tasks
      PROVE  /\ CallFits(t, task[t]) /\ task[t].pc \in {"try", "suspend"}
             /\ Announces(task[t].call) => task[t].pc = "try"
  <2>1. FirstCall(t) \in OwnCalls(t)
    BY NextOwn
  <2>2. CallFits(t, task[t]) /\ task[t].call = FirstCall(t)
        /\ task[t].pc = IF FirstCall(t).op = "wait" THEN "suspend" ELSE "try"
    BY <1>0, <2>1, BegunFits
  <2> QED
    BY <2>2 DEF Announces
<1>3. TasksFit
  <2>1. Placed(sched)
    BY <1>1, Lists DEF Placed
  <2>2. ASSUME NEW t \in Tasks
        PROVE  StampFits(t, task[t], sched) /\ PlaceFits(t, task[t], sched)
    BY <1>1, <1>2 DEF StampFits, PlaceFits
  <2> QED
    BY <1>1, <1>2, <2>1, <2>2 DEF TasksFit
<1>4. Held
  <2>1. \A t \in Tasks : task[t].pc \notin HeldAt
    BY <1>2 DEF HeldAt
  <2> QED
    BY <1>1, <2>1 DEF Held, Tasks
<1>5. Locks
  BY <1>0, <1>1 DEF Locks, LockedBy
<1>6. Running
  <2>1. sched.current \in Tasks /\ \A t \in Tasks : ~Outranks(t, sched.current)
    BY <1>1 DEF Outranks, Priority, Tasks
  <2> QED
    BY <1>1, <2>1 DEF Running, Calm, DisplayLast
<1>7. Works
  <2>1. \A t \in Tasks : HearsFor(t) /\ FullFor(t)
    BY <1>1, <1>2 DEF HearsFor, FullFor
  <2>2. Waiters(sched, ToSend("display")) = {}
    BY <1>1, Lists DEF Waiters, Queues
  <2> QED
    BY <2>1, <2>2 DEF Works, RoomKept
<1> QED
  BY <1>0, <1>3, <1>4, <1>5, <1>6, <1>7 DEF KernelInv

\* A step of nothing changes nothing.
LEMMA StutterKeeps == KernelInv /\ UNCHANGED vars => KernelInv'
  BY DEF KernelInv, QueueInv, Rings, CallsMade, TasksFit, Held, Locks, LockedBy, Running, Calm,
         GivesWay, DisplayLast, Works, HearsFor, FullFor, RoomKept, TakesRoom, HasRoom, vars

\* Every step keeps the invariant.
LEMMA KernelStep == KernelInv /\ [Next]_vars => KernelInv'
<1> SUFFICES ASSUME KernelInv, [Next]_vars PROVE KernelInv'
  OBVIOUS
<1>1. QueueInv'
  BY QueuesStep DEF KernelInv
<1>2. CASE UNCHANGED vars
  BY <1>2, StutterKeeps
<1>3. ASSUME NEW t \in Tasks, TaskStep(t)
      PROVE  KernelInv'
  BY <1>1, <1>3, PutMessageKeeps, GetMessageKeeps, LeavingKeeps, BeginToWaitKeeps, SuspendKeeps,
     ChecksKeep, PlaceKeeps, PlaceTimerKeeps, ResumeKeeps, YieldKeeps DEF TaskStep
<1>4. ASSUME NEW t \in Tasks, PendSV(t)
      PROVE  KernelInv'
  BY <1>1, <1>4, PendSVKeeps
<1>5. CASE Interrupt
  BY <1>1, <1>5, SysTickKeeps, SendFromISRKeeps DEF Interrupt
<1> QED
  BY <1>2, <1>3, <1>4, <1>5 DEF Next

\* The invariant: whatever the tasks, the ticks and the panel do in whatever
\* order, the scheduler and the queues stay in order together.
THEOREM KernelInvariant == Spec => []KernelInv
  BY KernelStarts, KernelStep, PTL DEF Spec

---------------------------------------------------------------------------
\* Whoever runs is ready and nobody ready is more urgent, but while switches
\* are held off, asked for, or noted for the next tick: whatever the panel's
\* interrupts (main.c:213), the ticks and the queues wake.
THEOREM RightTaskAlwaysRuns == Spec => []RightTaskRuns
<1>1. KernelInv => RightTaskRuns
  <2> SUFFICES ASSUME KernelInv, ~sched.suspended, ~sched.switchPending, ~sched.yieldPending,
                      task[sched.current].pc # "yield"
               PROVE  sched.current \in Eligible(sched)
    BY DEF RightTaskRuns
  <2>1. sched.current \in Tasks
    BY DEF KernelInv, TasksFit, Sched, SchedulerStates
  <2>2. task[sched.current].pc # "resume"
    BY DEF KernelInv, Held, HeldAt
  <2>3. Ready(sched, sched.current)
    BY <2>2 DEF KernelInv, Running, GivesWay
  <2>4. Calm(sched)
    BY DEF KernelInv, Running
  <2> QED
    BY <2>1, <2>3, <2>4 DEF Calm, Eligible, Highest, InList, Ready
<1> QED
  BY <1>1, KernelInvariant, PTL

\* No task sleeps on a queue that has a message for it, unless the lock of
\* the queue remembers it; and none on one with room, unless another sender is
\* awake to take it: for queues of every length, whatever comes between the
\* look at a queue and the sleep (queue.c:739, queue.c:1329).
THEOREM NobodyEverSleepsOnWork == Spec => []NobodySleepsOnWork
<1>1. KernelInv => NobodySleepsOnWork
  <2> SUFFICES ASSUME KernelInv, NEW q \in Queues
               PROVE  /\ Waiters(sched, ToReceive(q)) # {} => IsEmpty(q) \/ queue[q].txLock > 0
                      /\ Waiters(sched, ToSend(q)) # {} /\ HasRoom(q) =>
                            \E t \in Tasks : /\ task[t].call.op = "send" /\ task[t].call.queue = q
                                            /\ sched.event[t] # ToSend(q)
    BY DEF NobodySleepsOnWork
  <2>1. ASSUME NEW t \in Tasks, sched.event[t] = ToReceive(q)
        PROVE  IsEmpty(q) \/ queue[q].txLock > 0
    <3>1. task[t].call.op = "receive" /\ task[t].call.queue = q
      BY <2>1, WaitersFit DEF KernelInv
    <3>2. Waits(sched, t)
      BY <2>1, Lists DEF Waits
    <3> QED
      BY <3>1, <3>2 DEF KernelInv, Works, HearsFor, IsEmpty
  <2>2. ASSUME NEW t \in Tasks, sched.event[t] = ToSend(q), HasRoom(q)
        PROVE  \E u \in Tasks : /\ task[u].call.op = "send" /\ task[u].call.queue = q
                                /\ sched.event[u] # ToSend(q)
    <3>1. q = "display"
      BY <2>2, WaitersFit DEF KernelInv
    <3>2. Waiters(sched, ToSend("display")) # {}
      BY <2>2, <3>1 DEF Waiters
    <3>3. PICK u \in Tasks : TakesRoom(u)
      BY <2>2, <3>1, <3>2 DEF KernelInv, Works, RoomKept
    <3> QED
      BY <3>1, <3>3 DEF TakesRoom, Announces
  <2> QED
    BY <2>1, <2>2 DEF Waiters
<1> QED
  BY <1>1, KernelInvariant, PTL

---------------------------------------------------------------------------
GotType == got \in (Messages \cup {Unread}) \X Tasks

\* Every variable of the kernel keeps its type; in particular the lock of a
\* queue never counts more messages than wait in it (queue.c:1152).
THEOREM KernelTypes == Spec => []TypeOK
<1>1. Init => GotType
  BY DEF Init, GotType, Nothing, Tasks
<1>2. KernelInv /\ GotType /\ [Next]_vars => GotType'
  <2> SUFFICES ASSUME KernelInv, GotType, [Next]_vars PROVE GotType'
    OBVIOUS
  <2>1. CASE got' = got
    BY <2>1 DEF GotType
  <2>2. CASE got' = Nothing
    BY <2>2 DEF GotType, Nothing, Tasks
  <2>3. ASSUME NEW t \in Tasks, GetMessage(t)
        PROVE  GotType'
    <3> DEFINE q == task[t].call.queue
    <3>1. got' = <<Front(q), t>> /\ task[t].call.op = "receive"
      BY <2>3 DEF GetMessage
    <3>2. q \in Queues
      BY <3>1, OwnFacts DEF KernelInv, TasksFit, CallFits
    <3> HIDE DEF q
    <3>3. queue[q] \in Ring(q) /\ Length[q] \in Nat \ {0}
      BY <3>2, LengthType DEF KernelInv, QueueInv, Rings
    <3>4. NextRead(q) \in 0..(Length[q] - 1)
      BY <3>3, SMT DEF NextRead, Ring
    <3>5. queue[q].store \in [0..(Length[q] - 1) -> Slots]
      BY <3>3 DEF Ring
    <3>6. queue[q].store[NextRead(q)] \in Slots
      BY <3>4, <3>5
    <3> QED
      BY <3>1, <3>6 DEF GotType, Front, Slots
  <2> QED
    BY <2>1, <2>2, <2>3
    DEF Next, TaskStep, PendSV, Interrupt, SysTick, SendFromISR, vars
<1>3. KernelInv /\ GotType => TypeOK
  <2> SUFFICES ASSUME KernelInv, GotType PROVE TypeOK
    OBVIOUS
  <2>1. ASSUME NEW q \in Queues
        PROVE  queue[q] \in QueueStates(q)
    <3>1. queue[q] \in Ring(q) /\ Length[q] \in Nat \ {0}
      BY LengthType DEF KernelInv, QueueInv, Rings
    <3>2. queue[q].txLock \in -1..queue[q].waiting
      BY DEF KernelInv, Locks
    <3>3. queue[q].txLock \in -1..Length[q]
      BY <3>1, <3>2 DEF Ring
    <3> QED
      BY <3>1, <3>3 DEF Ring, QueueStates, Slots
  <2>2. sched \in SchedulerStates({"send", "receive"} \X Queues, MaxPended)
    BY DEF KernelInv, TasksFit, Sched
  <2>3. \A t \in Tasks : CallFits(t, task[t])
    BY DEF KernelInv, TasksFit
  <2> QED
    BY <2>1, <2>2, <2>3 DEF TypeOK, CallFits, GotType
<1> QED
  BY <1>1, <1>2, <1>3, KernelInvariant, PTL DEF Spec

(***************************************************************************)
(* Time.                                                                   *)
(***************************************************************************)

\* The time a task has waited, but for the ticks held back, and its alarm:
\* Time for one task.
Lag == [t \in Tasks |-> waited[t] - sched.pended]

TimeFits(t) ==
    /\ sched.generic[t] = "delayed" =>
          /\ sched.nextUnblock <= sched.wake[t] /\ sched.tick < sched.wake[t]
          /\ Lag[t] + (sched.wake[t] - sched.tick) <= Limit(t)
    /\ sched.generic[t] = "overflow" =>
          /\ sched.wake[t] <= sched.tick
          /\ Lag[t] + (sched.wake[t] + MaxTick + 1 - sched.tick) <= Limit(t)
    /\ sched.entered[t] # None =>
          /\ Lag[t] = Spent(t) + Elapsed(sched, t)
          /\ t \in sched.wrapped <=> sched.tick < sched.entered[t]

\* What the steps of its call know of it.
WaitFits(t) ==
    /\ waited[t] \in Nat
    /\ Timed(t) => waited[t] <= Limit(t) + MaxLate
    /\ Announces(task[t].call) =>
          /\ task[t].pc = "place" => sched.entered[t] = sched.tick
          /\ sched.entered[t] = None => task[t].left = SendTicks /\ waited[t] = 0
          /\ task[t].pc = "resume" /\ task[t].then = "fail" => waited[t] >= Limit(t)

TimeInv ==
    /\ waited = [t \in Tasks |-> waited[t]]
    /\ \A t \in Tasks : TimeFits(t) /\ WaitFits(t)

\* TimeFits is Time, task by task.
LEMMA TimeOfAll == (\A t \in Tasks : TimeFits(t)) <=> Time(sched, Lag)
  BY DEF Time, TimeFits

\* The tick counter is long enough for every wait.
LongTurn == SendTicks + MaxLate <= MaxTick

\* The types behind the sums.
LEMMA TimeTypes ==
    ASSUME KernelInv, NEW t \in Tasks
    PROVE  /\ sched.tick \in 0..MaxTick /\ MaxTick \in Nat /\ sched.pended \in Nat
           /\ sched.wake[t] \in 0..MaxTick /\ sched.nextUnblock \in 0..MaxTick
           /\ sched.entered[t] # None => sched.entered[t] \in 0..MaxTick
           /\ task[t].left \in 0..MaxTick /\ MaxLate \in Nat /\ SendTicks \in Nat /\ Period \in Nat
           /\ Timed(t) => Announces(task[t].call) \/ task[t].call.op = "wait"
           /\ Announces(task[t].call) => Limit(t) = SendTicks /\ task[t].left \in 1..SendTicks
           /\ task[t].call.op = "wait" => Limit(t) = Period /\ task[t].left = Period
           /\ Naps(sched, t) => Timed(t)
<1>1. sched \in Sched /\ CallFits(t, task[t]) /\ StampFits(t, task[t], sched)
      /\ task[t].call \in OwnCalls(t)
  BY TaskTypes
<1>2. /\ sched.tick \in 0..MaxTick /\ sched.pended \in Nat
      /\ sched.wake[t] \in 0..MaxTick /\ sched.nextUnblock \in 0..MaxTick
      /\ sched.entered[t] # None => sched.entered[t] \in 0..MaxTick
  BY <1>1, TickAssumption DEF Sched, SchedulerStates
<1>3. Announces(task[t].call) => Limit(t) = SendTicks /\ task[t].left \in 1..SendTicks
  BY <1>1, OwnFacts DEF CallFits, Announces, Limit
<1>4. task[t].call.op = "wait" => Limit(t) = Period /\ task[t].left = Period
  BY <1>1, OwnFacts DEF CallFits, Limit
<1>5. Timed(t) => Announces(task[t].call) \/ task[t].call.op = "wait"
  BY <1>1 DEF StampFits, Timed
<1>6. Naps(sched, t) => Timed(t)
  BY <1>1 DEF StampFits, Timed
<1> QED
  BY <1>1, <1>2, <1>3, <1>4, <1>5, <1>6, TickAssumption DEF CallFits

---------------------------------------------------------------------------
\* A step that does not touch the clock of a task.
ClockLeft(t) ==
    /\ sched'.tick = sched.tick /\ sched'.pended = sched.pended
    /\ sched'.nextUnblock <= sched.nextUnblock
    /\ Naps(sched', t) => sched'.generic[t] = sched.generic[t] /\ sched'.wake[t] = sched.wake[t]
    /\ sched'.entered[t] = sched.entered[t]
    /\ t \in sched'.wrapped <=> t \in sched.wrapped
    /\ task'[t].call = task[t].call /\ task'[t].left = task[t].left
    /\ waited'[t] = waited[t]

\* It keeps the time of that task.
LEMMA ClockKept ==
    ASSUME KernelInv, KernelInv', TimeInv, NEW t \in Tasks, ClockLeft(t),
           Announces(task[t].call) =>
              /\ task'[t].pc = "place" => task[t].pc = "place" \/ sched.entered[t] = sched.tick
              /\ task'[t].pc = "resume" /\ task'[t].then = "fail" =>
                    (task[t].pc = "resume" /\ task[t].then = "fail") \/ waited[t] >= Limit(t)
    PROVE  TimeFits(t)' /\ WaitFits(t)'
<1>1. TimeFits(t) /\ WaitFits(t)
  BY DEF TimeInv
<1>2. Lag'[t] = Lag[t] /\ Limit(t)' = Limit(t) /\ Spent(t)' = Spent(t)
  BY DEF Lag, Limit, Spent, ClockLeft
<1>3. Elapsed(sched, t)' = Elapsed(sched, t)
  BY DEF Elapsed, ClockLeft
<1>4. sched'.generic[t] = "delayed" =>
          /\ sched'.nextUnblock <= sched'.wake[t] /\ sched'.tick < sched'.wake[t]
          /\ Lag'[t] + (sched'.wake[t] - sched'.tick) <= Limit(t)'
  <2> SUFFICES ASSUME sched'.generic[t] = "delayed"
               PROVE  /\ sched'.nextUnblock <= sched'.wake[t] /\ sched'.tick < sched'.wake[t]
                      /\ Lag'[t] + (sched'.wake[t] - sched'.tick) <= Limit(t)'
    OBVIOUS
  <2>1. sched.generic[t] = "delayed" /\ sched'.wake[t] = sched.wake[t]
    BY DEF ClockLeft, Naps
  <2>2. /\ sched'.nextUnblock \in 0..MaxTick /\ sched.nextUnblock \in 0..MaxTick
        /\ sched.wake[t] \in 0..MaxTick /\ MaxTick \in Nat
    <3>1. sched' \in Sched
      BY DEF KernelInv, TasksFit
    <3> QED
      BY <3>1, TimeTypes DEF Sched, SchedulerStates
  <2>3. sched'.nextUnblock <= sched.nextUnblock /\ sched.nextUnblock <= sched.wake[t]
    BY <1>1, <2>1 DEF TimeFits, ClockLeft
  <2>4. sched'.nextUnblock <= sched'.wake[t]
    BY <2>1, <2>2, <2>3
  <2> QED
    BY <1>1, <1>2, <2>1, <2>4 DEF TimeFits, ClockLeft
<1>5. sched'.generic[t] = "overflow" =>
          /\ sched'.wake[t] <= sched'.tick
          /\ Lag'[t] + (sched'.wake[t] + MaxTick + 1 - sched'.tick) <= Limit(t)'
  BY <1>1, <1>2 DEF TimeFits, ClockLeft, Naps
<1>6. TimeFits(t)'
  BY <1>1, <1>2, <1>3, <1>4, <1>5 DEF TimeFits, ClockLeft
<1>7. Timed(t)' => Timed(t)
  BY DEF Timed, ClockLeft
<1>8. WaitFits(t)'
  BY <1>1, <1>2, <1>7 DEF WaitFits, ClockLeft
<1> QED
  BY <1>6, <1>8

\* When a call returns there is nothing to wait for.
LEMMA ReturnOwn ==
    ASSUME KernelInv, TimeInv, NEW t \in Tasks, NEW r \in Sched, Ready(r, t), Return(t, r)
    PROVE  /\ TimeFits(t)' /\ WaitFits(t)' /\ waited' = [u \in Tasks |-> waited'[u]]
           /\ sched'.generic = r.generic /\ sched'.wake = r.wake /\ sched'.tick = r.tick
           /\ sched'.pended = r.pended /\ sched'.nextUnblock = r.nextUnblock
           /\ \A u \in Tasks \ {t} : /\ task'[u] = task[u] /\ waited'[u] = waited[u]
                                     /\ sched'.entered[u] = r.entered[u]
                                     /\ u \in sched'.wrapped <=> u \in r.wrapped
<1>1. PICK c \in NextCalls(t, task[t].call) : task' = [task EXCEPT ![t] = Begun(c)]
  BY DEF Return
<1>2. c \in OwnCalls(t)
  BY <1>1, NextOwn
<1>3. task'[t] = Begun(c) /\ \A u \in Tasks \ {t} : task'[u] = task[u]
  BY <1>1 DEF KernelInv, QueueInv, CallsMade
<1>4. /\ task'[t].call = c /\ task'[t].pc \in {"try", "suspend"}
      /\ Announces(c) => task'[t].left = SendTicks
  BY <1>2, <1>3, BegunFits
<1>5. waited'[t] = 0 /\ \A u \in Tasks \ {t} : waited'[u] = waited[u]
  BY DEF Return, TimeInv
<1>6. waited' = [u \in Tasks |-> waited'[u]]
  BY DEF Return, TimeInv
<1>7. /\ sched'.generic = r.generic /\ sched'.wake = r.wake /\ sched'.tick = r.tick
      /\ sched'.pended = r.pended /\ sched'.nextUnblock = r.nextUnblock
      /\ sched'.entered[t] = None
      /\ \A u \in Tasks \ {t} : /\ sched'.entered[u] = r.entered[u]
                                /\ u \in sched'.wrapped <=> u \in r.wrapped
  BY DropTimeOutLemma DEF Return
<1>8. TimeFits(t)'
  BY <1>7 DEF TimeFits, Ready
<1>9. WaitFits(t)'
  <2>1. Timed(t)' => c.op = "wait" /\ c.ticks = Period
    BY <1>2, <1>4, <1>7, OwnFacts DEF Timed
  <2>2. Period \in Nat /\ MaxLate \in Nat
    BY TickAssumption
  <2> QED
    BY <1>4, <1>5, <2>1, <2>2 DEF WaitFits, Limit
<1> QED
  BY <1>3, <1>5, <1>6, <1>7, <1>8, <1>9

\* It leaves the clocks of the others alone.
LEMMA ReturnClock ==
    ASSUME KernelInv, KernelInv', TimeInv, NEW t \in Tasks, NEW r, Ready(sched, t),
           Rouses(sched, r), Still(sched, r), Return(t, r)
    PROVE  TimeInv'
<1>1. r \in Sched /\ Ready(r, t) /\ r.entered = sched.entered
  BY DEF Rouses, Wakes
<1>2. /\ TimeFits(t)' /\ WaitFits(t)' /\ waited' = [u \in Tasks |-> waited'[u]]
      /\ sched'.generic = r.generic /\ sched'.wake = r.wake /\ sched'.tick = r.tick
      /\ sched'.pended = r.pended /\ sched'.nextUnblock = r.nextUnblock
      /\ \A u \in Tasks \ {t} : /\ task'[u] = task[u] /\ waited'[u] = waited[u]
                                /\ sched'.entered[u] = r.entered[u]
                                /\ u \in sched'.wrapped <=> u \in r.wrapped
  BY <1>1, ReturnOwn
<1>3. ASSUME NEW u \in Tasks \ {t}
      PROVE  TimeFits(u)' /\ WaitFits(u)'
  <2>1. sched'.nextUnblock <= sched.nextUnblock
    BY <1>2, TimeTypes DEF Still
  <2>2. ClockLeft(u)
    BY <1>1, <1>2, <2>1 DEF ClockLeft, Still, Naps
  <2> QED
    BY <1>2, <2>2, ClockKept
<1> QED
  BY <1>2, <1>3 DEF TimeInv

\* The calls that return from their first critical section.
LEMMA ReturnsKeepTime ==
    ASSUME KernelInv, KernelInv', TimeInv, NEW t \in Tasks,
           PutMessage(t) \/ GetMessage(t) \/ LeaveAtOnce(t) \/ TimerExpires(t)
    PROVE  TimeInv'
<1>1. Ready(sched, t) /\ sched \in Sched /\ Placed(sched)
  <2>1. At(t, "try")
    BY DEF PutMessage, GetMessage, LeaveAtOnce, TimerExpires
  <2> QED
    BY <2>1, AtPc DEF KernelInv, TasksFit
<1>2. CASE LeaveAtOnce(t) \/ TimerExpires(t)
  <2>1. Return(t, sched) /\ Rouses(sched, sched) /\ Still(sched, sched)
    BY <1>1, <1>2, RousesSelf DEF LeaveAtOnce, TimerExpires
  <2> QED
    BY <1>1, <2>1, ReturnClock
<1>3. CASE PutMessage(t) \/ GetMessage(t)
  <2>1. PICK list \in {ToReceive(task[t].call.queue), ToSend(task[t].call.queue)} :
            /\ Return(t, SignalAndYield(sched, list))
            /\ task[t].call.op \in {"send", "receive"}
    BY <1>3 DEF PutMessage, GetMessage
  <2>2. task[t].call.queue \in Queues
    BY <2>1, OwnFacts, TaskTypes
  <2>3. list \in {"send", "receive"} \X Queues
    BY <2>1, <2>2, Lists
  <2> DEFINE r == SignalAndYield(sched, list)
  <2>4. Rouses(sched, r) /\ Still(sched, r)
    BY <1>1, <2>3, SignalAndYieldLemma
  <2>5. Return(t, r)
    BY <2>1
  <2> HIDE DEF r
  <2> QED
    BY <1>1, <2>4, <2>5, ReturnClock
<1> QED
  BY <1>2, <1>3

---------------------------------------------------------------------------
\* A task's step keeps the time when it keeps its own.
LEMMA StepKeepsTime ==
    ASSUME KernelInv, KernelInv', TimeInv, NEW t \in Tasks,
           \A u \in Tasks \ {t} : ClockLeft(u) /\ task'[u] = task[u],
           waited' = [u \in Tasks |-> waited'[u]], TimeFits(t)', WaitFits(t)'
    PROVE  TimeInv'
  BY ClockKept DEF TimeInv

\* The time of entry is that at which the call found no room.
LEMMA BeginToWaitKeepsTime ==
    ASSUME KernelInv, KernelInv', TimeInv, NEW t \in Tasks, BeginToWait(t)
    PROVE  TimeInv'
<1>1. /\ Ready(sched, t) /\ sched \in Sched /\ sched.pended = 0
      /\ CallFits(t, task[t]) /\ StampFits(t, task[t], sched) /\ task[t].call \in OwnCalls(t)
  BY AtPc, TaskTypes DEF BeginToWait, HeldAt
<1>2. /\ Blocked(task[t].call) /\ task[t].left # 0
      /\ sched' = IF sched.entered[t] = None /\ task[t].left # Forever
                  THEN SetTimeOutState(sched, t) ELSE sched
      /\ task' = [task EXCEPT ![t].pc = "suspend"] /\ waited' = waited
  BY DEF BeginToWait, Goto
<1>3. /\ task'[t].pc = "suspend" /\ task'[t].call = task[t].call /\ task'[t].left = task[t].left
      /\ \A u \in Tasks \ {t} : task'[u] = task[u]
  BY <1>2 DEF KernelInv, QueueInv, CallsMade
<1>4. CASE sched' = sched
  <2>1. \A u \in Tasks : ClockLeft(u)
    <3>1. sched.nextUnblock <= sched.nextUnblock
      BY TimeTypes
    <3> QED
      BY <1>2, <1>3, <1>4, <3>1 DEF ClockLeft
  <2>2. TimeFits(t)' /\ WaitFits(t)'
    BY <1>3, <2>1, ClockKept
  <2> QED
    BY <1>2, <1>3, <2>1, <2>2, StepKeepsTime DEF TimeInv
<1>5. CASE sched' = SetTimeOutState(sched, t) /\ sched.entered[t] = None /\ task[t].left # Forever
  <2> DEFINE r == SetTimeOutState(sched, t)
  <2>1. /\ r.generic = sched.generic /\ r.wake = sched.wake /\ r.tick = sched.tick
        /\ r.pended = sched.pended /\ r.nextUnblock = sched.nextUnblock
        /\ r.entered[t] = sched.tick /\ r.entered[t] # None /\ t \notin r.wrapped
        /\ \A u \in Tasks \ {t} : /\ r.entered[u] = sched.entered[u]
                                  /\ u \in r.wrapped <=> u \in sched.wrapped
    BY <1>1, SetTimeOutLemma
  <2>2. sched' = r
    BY <1>5
  <2> HIDE DEF r
  <2>3. \A u \in Tasks \ {t} : ClockLeft(u)
    <3>1. sched.nextUnblock <= sched.nextUnblock
      BY TimeTypes
    <3> QED
      BY <1>2, <1>3, <2>1, <2>2, <3>1 DEF ClockLeft
  <2>4. Announces(task[t].call)
    BY <1>1, <1>2, <1>5, OwnFacts DEF CallFits, Blocked, Announces
  <2>5. task[t].left = SendTicks /\ waited[t] = 0 /\ Limit(t) = SendTicks /\ SendTicks \in Nat
        /\ MaxLate \in Nat /\ sched.tick \in Nat
    BY <1>5, <2>4, TimeTypes DEF TimeInv, WaitFits
  <2>6. Elapsed(sched, t)' = 0
    BY <2>1, <2>2, <2>5 DEF Elapsed
  <2>7. Lag'[t] = 0 /\ Spent(t)' = 0 /\ Limit(t)' = SendTicks
    BY <1>1, <1>2, <1>3, <2>1, <2>2, <2>5 DEF Lag, Spent, Limit
  <2>8. TimeFits(t)'
    BY <1>1, <2>1, <2>2, <2>5, <2>6, <2>7 DEF TimeFits, Ready
  <2>9. WaitFits(t)'
    BY <1>2, <1>3, <2>1, <2>2, <2>5, <2>7 DEF WaitFits
  <2> QED
    BY <1>2, <1>3, <2>3, <2>8, <2>9, StepKeepsTime DEF TimeInv
<1> QED
  BY <1>2, <1>4, <1>5

\* Steps that leave every clock alone.
LEMMA SuspendAndYieldKeepTime ==
    ASSUME KernelInv, KernelInv', TimeInv, NEW t \in Tasks, Suspend(t) \/ YieldWithinApi(t)
    PROVE  TimeInv'
<1>1. sched \in Sched /\ task[t].call \in OwnCalls(t)
  BY TaskTypes
<1>2. /\ sched' = SuspendAll(sched) \/ sched' = Yield(sched)
      /\ \E pc \in {"place", "check", "try"} :
            /\ task' = [task EXCEPT ![t].pc = pc]
            /\ pc = "place" => task[t].call.op = "wait"
      /\ waited' = waited
  BY DEF Suspend, YieldWithinApi, Continue, Goto
<1>3. /\ task'[t].pc \in {"place", "check", "try"} /\ task'[t].call = task[t].call
      /\ task'[t].left = task[t].left
      /\ task'[t].pc = "place" => task[t].call.op = "wait"
      /\ \A u \in Tasks \ {t} : task'[u] = task[u]
  BY <1>2 DEF KernelInv, QueueInv, CallsMade
<1>4. /\ sched'.generic = sched.generic /\ sched'.wake = sched.wake /\ sched'.tick = sched.tick
      /\ sched'.pended = sched.pended /\ sched'.nextUnblock = sched.nextUnblock
      /\ sched'.entered = sched.entered /\ sched'.wrapped = sched.wrapped
  BY <1>1, <1>2 DEF SuspendAll, Yield, Sched, SchedulerStates
<1>5. \A u \in Tasks : ClockLeft(u)
  <2>1. sched.nextUnblock <= sched.nextUnblock
    BY TimeTypes
  <2> QED
    BY <1>2, <1>3, <1>4, <2>1 DEF ClockLeft
<1>6. TimeFits(t)' /\ WaitFits(t)'
  <2>1. task'[t].pc = "place" => ~Announces(task[t].call)
    BY <1>3 DEF Announces
  <2> QED
    BY <1>3, <1>5, <2>1, ClockKept
<1> QED
  BY <1>2, <1>3, <1>5, <1>6, StepKeepsTime DEF TimeInv

\* A task that is told its time is up has waited it out, in all the turns of
\* the loop together.
LEMMA CheckExpiredKeepsTime ==
    ASSUME KernelInv, KernelInv', TimeInv, NEW t \in Tasks, CheckExpired(t)
    PROVE  TimeInv'
<1>1. /\ task[t].pc = "check" /\ TimeIsUp(sched, t, task[t].left)
      /\ task' = [task EXCEPT ![t].pc = "resume", ![t].then = "fail"]
      /\ sched' = sched /\ waited' = waited
  BY DEF CheckExpired, At
<1>2. /\ task'[t].call = task[t].call /\ task'[t].left = task[t].left
      /\ task'[t].pc = "resume" /\ \A u \in Tasks \ {t} : task'[u] = task[u]
  BY <1>1 DEF KernelInv, QueueInv, CallsMade
<1>3. \A u \in Tasks : ClockLeft(u)
  <2>1. sched.nextUnblock <= sched.nextUnblock
    BY TimeTypes
  <2> QED
    BY <1>1, <1>2, <2>1 DEF ClockLeft
<1>4. Announces(task[t].call) => waited[t] >= Limit(t)
  <2> SUFFICES ASSUME Announces(task[t].call) PROVE waited[t] >= Limit(t)
    OBVIOUS
  <2>1. sched.entered[t] # None /\ sched \in Sched
    BY <1>1, TaskTypes DEF StampFits
  <2>2. SinceEntering(sched, t) = Elapsed(sched, t) /\ Elapsed(sched, t) \in 0..MaxTick
    BY <2>1, ElapsedLemma
  <2>3. /\ waited[t] - sched.pended = Spent(t) + Elapsed(sched, t)
        /\ t \in sched.wrapped <=> sched.tick < sched.entered[t]
    BY <2>1 DEF TimeInv, TimeFits, Lag
  <2>4. /\ sched.pended \in Nat /\ Limit(t) \in Nat /\ task[t].left \in Nat /\ waited[t] \in Nat
        /\ sched.tick \in Nat /\ sched.entered[t] \in Nat
    BY <2>1, TimeTypes DEF TimeInv, WaitFits
  <2>5. Elapsed(sched, t) >= task[t].left
    BY <1>1, <2>2, <2>3, <2>4 DEF TimeIsUp
  <2> DEFINE e == Elapsed(sched, t)
             n == Limit(t)
  <2>6. waited[t] - sched.pended = n - task[t].left + e /\ e >= task[t].left /\ e \in Int /\ n \in Nat
    BY <2>2, <2>3, <2>4, <2>5 DEF Spent
  <2> HIDE DEF e, n
  <2>7. waited[t] >= n
    BY <2>4, <2>6
  <2> QED
    BY <2>7 DEF n
<1>5. TimeFits(t)' /\ WaitFits(t)'
  BY <1>2, <1>3, <1>4, ClockKept
<1> QED
  BY <1>1, <1>2, <1>3, <1>5, StepKeepsTime DEF TimeInv

\* What is left of its ticks is counted from now.
LEMMA CheckWaitsKeepsTime ==
    ASSUME KernelInv, KernelInv', TimeInv, NEW t \in Tasks, CheckWaits(t)
    PROVE  TimeInv'
<1> DEFINE forever == task[t].left = Forever
<1>1. /\ task[t].pc = "check" /\ ~TimeIsUp(sched, t, task[t].left)
      /\ \E pc, n : task' = [task EXCEPT ![t].left = IF forever THEN @ ELSE @ - SinceEntering(sched, t),
                                         ![t].pc = pc, ![t].then = n]
      /\ task'[t].then # "fail"
      /\ sched' = (IF forever THEN sched ELSE SetTimeOutState(sched, t)) /\ waited' = waited
  <2>1. task[t] = [call |-> task[t].call, pc |-> task[t].pc, left |-> task[t].left,
                   then |-> task[t].then] /\ task = [u \in Tasks |-> task[u]]
    BY DEF KernelInv, QueueInv, CallsMade
  <2> DEFINE blocked == Blocked(task[t].call)
             x == IF forever THEN task[t].left ELSE task[t].left - SinceEntering(sched, t)
  <2>2. task' = [task EXCEPT ![t].left = x, ![t].pc = IF blocked THEN "place" ELSE "resume",
                             ![t].then = IF blocked THEN "sleep" ELSE "again"]
    BY Zenon DEF CheckWaits
  <2>3. task'[t].then = IF blocked THEN "sleep" ELSE "again"
    <3> HIDE DEF blocked, x
    <3> QED
      BY <2>1, <2>2
  <2>4. \E pc, n : task' = [task EXCEPT ![t].left = x, ![t].pc = pc, ![t].then = n]
    <3> HIDE DEF blocked, x
    <3> QED
      BY <2>2, Zenon
  <2>5. task'[t].then # "fail"
    BY <2>3
  <2>6. /\ task[t].pc = "check" /\ ~TimeIsUp(sched, t, task[t].left) /\ waited' = waited
        /\ sched' = (IF forever THEN sched ELSE SetTimeOutState(sched, t))
    BY Zenon DEF CheckWaits, At
  <2> QED
    BY <2>4, <2>5, <2>6, Zenon
<1>2. /\ task'[t].call = task[t].call
      /\ task'[t].left = IF forever THEN task[t].left ELSE task[t].left - SinceEntering(sched, t)
      /\ \A u \in Tasks \ {t} : task'[u] = task[u]
  <2>1. task[t] = [call |-> task[t].call, pc |-> task[t].pc, left |-> task[t].left,
                   then |-> task[t].then] /\ task = [u \in Tasks |-> task[u]]
    BY DEF KernelInv, QueueInv, CallsMade
  <2> DEFINE x == IF forever THEN task[t].left ELSE task[t].left - SinceEntering(sched, t)
  <2>2. PICK pc, n : task' = [task EXCEPT ![t].left = x, ![t].pc = pc, ![t].then = n]
    BY <1>1
  <2> HIDE DEF x
  <2>3. task'[t].call = task[t].call /\ task'[t].left = x /\ \A u \in Tasks \ {t} : task'[u] = task[u]
    BY <2>1, <2>2
  <2> QED
    BY <2>3 DEF x
<1>3. /\ sched \in Sched /\ task[t].call \in OwnCalls(t) /\ CallFits(t, task[t])
      /\ StampFits(t, task[t], sched) /\ PlaceFits(t, task[t], sched) /\ Ready(sched, t)
  BY <1>1, TaskTypes DEF PlaceFits
<1>4. CASE forever
  <2>1. \A u \in Tasks : ClockLeft(u)
    <3>1. sched.nextUnblock <= sched.nextUnblock
      BY TimeTypes
    <3> QED
      BY <1>1, <1>2, <1>4, <3>1 DEF ClockLeft
  <2>2. ~Announces(task[t].call)
    <3>1. SendTicks < Forever
      BY TickAssumption DEF Forever
    <3> QED
      BY <1>4, <3>1, TimeTypes
  <2>3. TimeFits(t)' /\ WaitFits(t)'
    BY <2>1, <2>2, ClockKept
  <2> QED
    BY <1>1, <1>2, <2>1, <2>3, StepKeepsTime DEF TimeInv
<1>5. CASE ~forever
  <2> DEFINE r == SetTimeOutState(sched, t)
  <2>1. /\ r.generic = sched.generic /\ r.wake = sched.wake /\ r.tick = sched.tick
        /\ r.pended = sched.pended /\ r.nextUnblock = sched.nextUnblock
        /\ r.entered[t] = sched.tick /\ r.entered[t] # None /\ t \notin r.wrapped
        /\ \A u \in Tasks \ {t} : /\ r.entered[u] = sched.entered[u]
                                  /\ u \in r.wrapped <=> u \in sched.wrapped
    BY <1>3, SetTimeOutLemma
  <2>2. sched' = r
    BY <1>1, <1>5
  <2> HIDE DEF r
  <2>3. \A u \in Tasks \ {t} : ClockLeft(u)
    <3>1. sched.nextUnblock <= sched.nextUnblock
      BY TimeTypes
    <3> QED
      BY <1>1, <1>2, <2>1, <2>2, <3>1 DEF ClockLeft
  <2>4. Announces(task[t].call)
    BY <1>1, <1>3, <1>5, OwnFacts DEF CallFits, Announces
  <2>5. sched.entered[t] # None
    BY <1>1, <1>3, <2>4 DEF StampFits
  <2>6. SinceEntering(sched, t) = Elapsed(sched, t) /\ Elapsed(sched, t) \in 0..MaxTick
    BY <1>3, <2>5, ElapsedLemma
  <2>7. waited[t] - sched.pended = Limit(t) - task[t].left + Elapsed(sched, t)
    BY <2>5 DEF TimeInv, TimeFits, Lag, Spent
  <2>8. /\ sched.pended \in Nat /\ Limit(t) = SendTicks /\ task[t].left \in Nat /\ waited[t] \in Nat
        /\ sched.tick \in Nat /\ SendTicks \in Nat
    BY <2>4, TimeTypes DEF TimeInv, WaitFits
  <2>9. Elapsed(sched, t)' = 0
    BY <2>1, <2>2, <2>8 DEF Elapsed
  <2>10. Lag'[t] = waited[t] - sched.pended /\ Limit(t)' = SendTicks
         /\ Spent(t)' = SendTicks - (task[t].left - Elapsed(sched, t))
    BY <1>1, <1>2, <1>5, <2>1, <2>2, <2>6, <2>8 DEF Lag, Spent, Limit
  <2>11. Lag'[t] = Spent(t)' + 0
    <3> DEFINE e == Elapsed(sched, t)
    <3>1. e \in Nat
      BY <2>6, TimeTypes
    <3> HIDE DEF e
    <3>2. /\ waited[t] - sched.pended = SendTicks - task[t].left + e
          /\ Lag'[t] = waited[t] - sched.pended
          /\ Spent(t)' = SendTicks - (task[t].left - e)
      BY <2>7, <2>8, <2>10 DEF e
    <3> QED
      BY <2>8, <3>1, <3>2
  <2>12. TimeFits(t)'
    BY <1>3, <2>1, <2>2, <2>8, <2>9, <2>11 DEF TimeFits, Ready
  <2>13. WaitFits(t)'
    <3>1. Timed(t) /\ waited[t] <= Limit(t) + MaxLate
      BY <2>5 DEF TimeInv, WaitFits, Timed
    <3> QED
      BY <1>1, <1>2, <2>1, <2>2, <2>8, <2>10, <3>1 DEF WaitFits
  <2> QED
    BY <1>1, <1>2, <2>3, <2>12, <2>13, StepKeepsTime DEF TimeInv
<1> QED
  BY <1>4, <1>5

---------------------------------------------------------------------------
\* The alarm of a task that sleeps n ticks from tick x, after l of its m.
LEMMA AlarmLemma ==
    ASSUME NEW x \in Nat, NEW n \in Nat, n > 0, NEW l \in Int, NEW m \in Int, l + n <= m, NEW w
    PROVE  /\ w = x + n => x < w /\ l + (w - x) <= m
           /\ w = x + n - (MaxTick + 1) => l + (w + MaxTick + 1 - x) <= m
<1>1. MaxTick \in Nat
  BY TickAssumption
<1> QED
  BY <1>1

\* A sender sleeps what is left of its ticks.
LEMMA PlaceKeepsTime ==
    ASSUME KernelInv, KernelInv', TimeInv, NEW t \in Tasks, Place(t)
    PROVE  TimeInv'
<1> DEFINE c == task[t].call
           n == task[t].left
           list == <<c.op, c.queue>>
           r == PlaceOnEventList(sched, list, n)
<1>1. /\ sched.current = t /\ task[t].pc = "place" /\ c.op # "wait" /\ sched' = r
      /\ task' = [task EXCEPT ![t].pc = "resume"] /\ waited' = waited
  BY DEF Place, Goto, At
<1>2. /\ task'[t].call = c /\ task'[t].left = n /\ task'[t].pc = "resume"
      /\ task'[t].then = task[t].then /\ \A u \in Tasks \ {t} : task'[u] = task[u]
  BY <1>1 DEF KernelInv, QueueInv, CallsMade
<1>3. /\ sched \in Sched /\ c \in OwnCalls(t) /\ CallFits(t, task[t]) /\ task[t].then = "sleep"
      /\ StampFits(t, task[t], sched) /\ PlaceFits(t, task[t], sched)
  BY <1>1, TaskTypes DEF CallFits
<1>4. /\ SendTicks \in 1..(MaxTick - 1) /\ MaxTick \in Nat /\ Forever = MaxTick
  BY TickAssumption DEF Forever
<1>5. \/ Announces(c) /\ n \in 1..SendTicks
      \/ c.op = "receive" /\ n = MaxTick /\ ~Announces(c)
  BY <1>1, <1>3, <1>4, OwnFacts DEF CallFits, Announces
<1>6. n \in 1..(MaxTick - 1) \cup {MaxTick} /\ list \in {"send", "receive"} \X Queues
  BY <1>3, <1>4, <1>5, OwnFacts DEF Announces
<1>7. /\ r.entered = sched.entered
      /\ r.wrapped = sched.wrapped /\ r.tick = sched.tick /\ r.pended = sched.pended
      /\ \A u \in Tasks \ {t} : r.generic[u] = sched.generic[u] /\ r.wake[u] = sched.wake[u]
      /\ r.nextUnblock <= sched.nextUnblock
      /\ n = MaxTick => ~Naps(r, t)
      /\ n # MaxTick =>
         \/ /\ r.generic[t] = "delayed" /\ r.wake[t] = sched.tick + n
            /\ r.nextUnblock <= r.wake[t]
         \/ /\ r.generic[t] = "overflow" /\ r.wake[t] = sched.tick + n - (MaxTick + 1)
            /\ r.wake[t] <= sched.tick
  <2> HIDE DEF n, list
  <2> QED
    BY <1>1, <1>3, <1>6, PlaceOnLemma
<1> HIDE DEF r
<1>8. \A u \in Tasks \ {t} : ClockLeft(u)
  BY <1>1, <1>2, <1>7 DEF ClockLeft
<1>9. Lag'[t] = Lag[t] /\ Limit(t)' = Limit(t) /\ Spent(t)' = Spent(t)
      /\ Elapsed(sched, t)' = Elapsed(sched, t)
  BY <1>1, <1>2, <1>7 DEF Lag, Limit, Spent, Elapsed
<1>10. sched.entered[t] # None =>
          /\ Lag'[t] = Spent(t)' + Elapsed(sched, t)'
          /\ t \in sched'.wrapped <=> sched'.tick < sched'.entered[t]
  BY <1>1, <1>7, <1>9 DEF TimeInv, TimeFits
<1>11. CASE n = MaxTick
  <2>1. TimeFits(t)'
    BY <1>1, <1>7, <1>10, <1>11 DEF TimeFits, Naps
  <2>2. WaitFits(t)'
    <3>1. ~Announces(c) /\ ~Timed(t)'
      BY <1>1, <1>2, <1>3, <1>4, <1>5, <1>7, <1>11 DEF Timed, StampFits
    <3> QED
      BY <1>1, <1>2, <3>1 DEF WaitFits, TimeInv
  <2> QED
    BY <1>1, <1>2, <1>8, <2>1, <2>2, StepKeepsTime DEF TimeInv
<1>12. CASE n # MaxTick
  <2>1. Announces(c) /\ n \in 1..SendTicks /\ n = task[t].left
    BY <1>5, <1>12
  <2>2. sched.entered[t] = sched.tick /\ Limit(t) = SendTicks /\ sched.tick \in 0..MaxTick
        /\ sched.entered[t] # None
    BY <1>1, <1>3, <2>1, TimeTypes DEF TimeInv, WaitFits, StampFits
  <2>3. Elapsed(sched, t) = 0
    BY <2>2 DEF Elapsed
  <2>4. Lag[t] = SendTicks - n
    BY <1>4, <2>1, <2>2, <2>3 DEF TimeInv, TimeFits, Spent
  <2> HIDE DEF n
  <2>5. /\ Lag'[t] + n <= Limit(t)' /\ Lag'[t] \in Int /\ Limit(t)' \in Int /\ n \in Int /\ n > 0
    BY <1>4, <1>9, <2>1, <2>2, <2>4
  <2>6. \/ /\ sched'.generic[t] = "delayed" /\ sched'.wake[t] = sched'.tick + n
           /\ sched'.nextUnblock <= sched'.wake[t]
        \/ /\ sched'.generic[t] = "overflow" /\ sched'.wake[t] = sched'.tick + n - (MaxTick + 1)
           /\ sched'.wake[t] <= sched'.tick
    BY <1>1, <1>7, <1>12
  <2>7. TimeFits(t)'
    <3>1. sched'.tick \in Nat /\ sched'.tick = sched.tick
      BY <1>1, <1>4, <1>7, <2>2
    <3>2. /\ sched'.wake[t] = sched'.tick + n =>
                /\ sched'.tick < sched'.wake[t]
                /\ Lag'[t] + (sched'.wake[t] - sched'.tick) <= Limit(t)'
          /\ sched'.wake[t] = sched'.tick + n - (MaxTick + 1) =>
                Lag'[t] + (sched'.wake[t] + MaxTick + 1 - sched'.tick) <= Limit(t)'
      <4> DEFINE x == sched'.tick
                 w == sched'.wake[t]
                 l == Lag'[t]
                 m == Limit(t)'
      <4>1. x \in Nat /\ n \in Nat /\ n > 0 /\ l \in Int /\ m \in Int /\ l + n <= m
        BY <2>1, <2>5, <3>1
      <4> HIDE DEF x, w, l, m
      <4>2. /\ w = x + n => x < w /\ l + (w - x) <= m
            /\ w = x + n - (MaxTick + 1) => l + (w + MaxTick + 1 - x) <= m
        BY <4>1, AlarmLemma
      <4> QED
        BY <4>2 DEF x, w, l, m
    <3>3. /\ sched'.generic[t] = "delayed" =>
                 sched'.wake[t] = sched'.tick + n /\ sched'.nextUnblock <= sched'.wake[t]
          /\ sched'.generic[t] = "overflow" =>
                 /\ sched'.wake[t] = sched'.tick + n - (MaxTick + 1)
                 /\ sched'.wake[t] <= sched'.tick
      BY <2>6
    <3>4. sched'.entered[t] # None =>
             /\ Lag'[t] = Spent(t)' + Elapsed(sched, t)'
             /\ t \in sched'.wrapped <=> sched'.tick < sched'.entered[t]
      BY <1>1, <1>7, <1>10
    <3> QED
      BY <3>2, <3>3, <3>4 DEF TimeFits
  <2>8. WaitFits(t)'
    <3>1. WaitFits(t) /\ Timed(t)
      BY <2>2 DEF TimeInv, Timed
    <3> QED
      BY <1>1, <1>2, <1>3, <1>7, <1>9, <3>1 DEF WaitFits, n
  <2> QED
    BY <1>1, <1>2, <1>8, <2>7, <2>8, StepKeepsTime DEF TimeInv
<1> QED
  BY <1>11, <1>12

\* The timer service sleeps a whole period, whatever it has waited before.
LEMMA PlaceTimerKeepsTime ==
    ASSUME KernelInv, KernelInv', TimeInv, NEW t \in Tasks, PlaceTimer(t)
    PROVE  TimeInv'
<1> DEFINE n == task[t].left
           r == Delay(sched, n)
<1>1. /\ sched.current = t /\ task[t].pc = "place" /\ task[t].call.op = "wait" /\ sched' = r
      /\ task' = [task EXCEPT ![t].pc = "resume", ![t].then = "sleep"]
      /\ waited' = [waited EXCEPT ![t] = 0]
  BY DEF PlaceTimer, At
<1>2. /\ task'[t].call = task[t].call /\ task'[t].left = n
      /\ \A u \in Tasks \ {t} : task'[u] = task[u]
  BY <1>1 DEF KernelInv, QueueInv, CallsMade
<1>3. /\ waited'[t] = 0 /\ \A u \in Tasks \ {t} : waited'[u] = waited[u]
      /\ waited' = [u \in Tasks |-> waited'[u]]
  BY <1>1 DEF TimeInv
<1>4. /\ sched \in Sched /\ n = Period /\ Limit(t) = Period /\ sched.entered[t] = None
      /\ Period \in 1..(MaxTick - 1) /\ MaxTick \in Nat /\ MaxLate \in Nat
  BY <1>1, TaskTypes, TimeTypes, TickAssumption DEF StampFits, Announces
<1>5. /\ r.entered = sched.entered
      /\ r.wrapped = sched.wrapped /\ r.tick = sched.tick /\ r.pended = sched.pended
      /\ \A u \in Tasks \ {t} : r.generic[u] = sched.generic[u] /\ r.wake[u] = sched.wake[u]
      /\ r.nextUnblock <= sched.nextUnblock
      /\ \/ /\ r.generic[t] = "delayed" /\ r.wake[t] = sched.tick + n
            /\ r.nextUnblock <= r.wake[t]
         \/ /\ r.generic[t] = "overflow" /\ r.wake[t] = sched.tick + n - (MaxTick + 1)
            /\ r.wake[t] <= sched.tick
  <2>1. n \in 1..(MaxTick - 1)
    BY <1>4
  <2> HIDE DEF n
  <2> QED
    BY <1>1, <1>4, <2>1, DelayLemma
<1> HIDE DEF r
<1>6. \A u \in Tasks \ {t} : ClockLeft(u)
  BY <1>1, <1>2, <1>3, <1>5 DEF ClockLeft
<1>7. TimeFits(t)'
  <2> DEFINE x == sched'.tick
             w == sched'.wake[t]
             l == Lag'[t]
             m == Limit(t)'
  <2>1. /\ x = sched.tick /\ x \in Nat /\ l = 0 - sched.pended /\ sched.pended \in Nat
        /\ m = n /\ n \in Nat /\ n > 0
    BY <1>1, <1>2, <1>3, <1>4, <1>5, TimeTypes DEF Lag, Limit
  <2>2. /\ sched'.generic[t] = "delayed" => w = x + n /\ sched'.nextUnblock <= w
        /\ sched'.generic[t] = "overflow" => w = x + n - (MaxTick + 1) /\ w <= x
    BY <1>1, <1>5
  <2>3. sched'.entered[t] = None
    BY <1>1, <1>4, <1>5
  <2> HIDE DEF x, w, l, m, n
  <2>4. l \in Int /\ m \in Int /\ l + n <= m
    BY <2>1
  <2>5. /\ w = x + n => x < w /\ l + (w - x) <= m
        /\ w = x + n - (MaxTick + 1) => l + (w + MaxTick + 1 - x) <= m
    BY <2>1, <2>4, AlarmLemma
  <2> QED
    BY <2>2, <2>3, <2>5 DEF TimeFits, x, w, l, m
<1>8. WaitFits(t)'
  <2>1. Limit(t)' = Period /\ ~Announces(task'[t].call)
    BY <1>1, <1>2, <1>4 DEF Limit, Announces
  <2> QED
    BY <1>3, <1>4, <2>1 DEF WaitFits
<1> QED
  BY <1>2, <1>3, <1>6, <1>7, <1>8, StepKeepsTime

---------------------------------------------------------------------------
\* An interrupt that signals, and a switch, touch no clock.
LEMMA SignalsKeepTime ==
    ASSUME KernelInv, KernelInv', TimeInv, (\E m \in Inputs : SendFromISR(m)) \/ (\E t \in Tasks : PendSV(t))
    PROVE  TimeInv'
<1>1. task' = task /\ waited' = waited
  BY DEF SendFromISR, PendSV
<1>2. ASSUME NEW u \in Tasks
      PROVE  ClockLeft(u)
  <2>1. CASE \E m \in Inputs : SendFromISR(m)
    <3> DEFINE r == Signal(sched, ToReceive("control"))
    <3>1. sched' = r \/ sched' = sched
      BY <2>1 DEF SendFromISR
    <3>2. sched \in Sched /\ Placed(sched) /\ ToReceive("control") \in {"send", "receive"} \X Queues
      BY Lists DEF KernelInv, TasksFit, Queues
    <3>3. Rouses(sched, r) /\ Still(sched, r)
      BY <3>2, SignalLemma
    <3>4. Rouses(sched, sched) /\ Still(sched, sched)
      BY <3>2, RousesSelf
    <3>5. Rouses(sched, sched') /\ Still(sched, sched')
      BY <3>1, <3>3, <3>4
    <3>6. sched.nextUnblock <= sched.nextUnblock
      BY TimeTypes
    <3> QED
      BY <1>1, <3>5, <3>6 DEF ClockLeft, Rouses, Wakes, Still
  <2>2. CASE \E t \in Tasks : PendSV(t)
    <3>1. PICK t \in Tasks : sched' = SwitchContext(sched, t)
      BY <2>2 DEF PendSV
    <3>2. /\ sched'.generic = sched.generic /\ sched'.wake = sched.wake
          /\ sched'.tick = sched.tick /\ sched'.pended = sched.pended
          /\ sched'.nextUnblock = sched.nextUnblock
          /\ sched'.entered = sched.entered /\ sched'.wrapped = sched.wrapped
      <4>1. sched \in Sched
        BY DEF KernelInv, TasksFit
      <4>2. CASE sched.suspended
        BY <3>1, <4>1, <4>2 DEF SwitchContext, Sched, SchedulerStates
      <4>3. CASE ~sched.suspended
        BY <3>1, <4>1, <4>3 DEF SwitchContext, Sched, SchedulerStates
      <4> QED
        BY <4>2, <4>3
    <3>3. sched.nextUnblock <= sched.nextUnblock
      BY TimeTypes
    <3> QED
      BY <1>1, <3>2, <3>3 DEF ClockLeft
  <2> QED
    BY <2>1, <2>2
<1>3. \A u \in Tasks : TimeFits(u)' /\ WaitFits(u)'
  BY <1>1, <1>2, ClockKept
<1> QED
  BY <1>1, <1>3 DEF TimeInv

---------------------------------------------------------------------------
\* A tick.  One held back lets the time of nobody go on.
LEMMA SysTickKeepsTime ==
    ASSUME LongTurn, KernelInv, KernelInv', TimeInv, SysTick
    PROVE  TimeInv'
<1> DEFINE w == IncrementTick(sched)
           b == TickSwitches(sched)
<1>1. /\ ~sched.switchPending /\ task' = task
      /\ sched.suspended => sched.pended < MaxPended
      /\ \A t \in Tasks : Timed(t) => waited[t] < task[t].call.ticks + MaxLate
      /\ sched' = [w EXCEPT !.switchPending = b]
      /\ waited' = [t \in Tasks |-> IF Timed(t) THEN waited[t] + 1 ELSE 0]
  BY DEF SysTick
<1>2. sched \in Sched /\ Placed(sched) /\ (~sched.suspended => sched.pended = 0)
  BY DEF KernelInv, TasksFit, Held
<1>3. ASSUME NEW t \in Tasks
      PROVE  /\ waited[t] \in Nat /\ waited'[t] \in Nat
             /\ waited'[t] = IF Timed(t) THEN waited[t] + 1 ELSE 0
             /\ Timed(t) => waited[t] < Limit(t) + MaxLate /\ waited'[t] <= Limit(t) + MaxLate
             /\ Limit(t)' = Limit(t) /\ Spent(t)' = Spent(t)
             /\ Naps(sched, t) \/ sched.entered[t] # None => Timed(t)
  <2>1. waited[t] \in Nat
    BY DEF TimeInv, WaitFits
  <2>2. Timed(t) => waited[t] < Limit(t) + MaxLate
    BY <1>1 DEF Limit
  <2>3. waited'[t] = IF Timed(t) THEN waited[t] + 1 ELSE 0
    BY <1>1
  <2>4. Timed(t) => waited[t] + 1 <= Limit(t) + MaxLate
    BY <2>1, <2>2, TimeTypes
  <2>5. Limit(t)' = Limit(t) /\ Spent(t)' = Spent(t)
    BY <1>1 DEF Limit, Spent
  <2> QED
    BY <2>1, <2>2, <2>3, <2>4, <2>5, TimeTypes DEF Timed
<1>4. /\ w.entered = sched.entered
      /\ sched.suspended => /\ w.generic = sched.generic /\ w.wake = sched.wake
                            /\ w.tick = sched.tick /\ w.nextUnblock = sched.nextUnblock
                            /\ w.wrapped = sched.wrapped /\ w.pended = sched.pended + 1
      /\ ~sched.suspended => w.pended = sched.pended
      /\ w \in Sched
      /\ b \in BOOLEAN
  <2>1. CASE sched.suspended
    <3>1. w = [sched EXCEPT !.pended = @ + 1] /\ b = (sched.yieldPending \/ FALSE)
      BY <2>1 DEF IncrementTick, TickSwitches
    <3>2. sched.pended + 1 \in 0..MaxPended /\ sched.yieldPending \in BOOLEAN
      BY <1>1, <1>2, <2>1, TickAssumption DEF Sched, SchedulerStates
    <3> HIDE DEF b, w
    <3> QED
      BY <1>2, <2>1, <3>1, <3>2 DEF Sched, SchedulerStates
  <2>2. CASE ~sched.suspended
    BY <1>2, <2>2, IncrementLemma DEF Wakes
  <2> QED
    BY <2>1, <2>2
<1>5. CASE ~sched.suspended
  <2> DEFINE k == [t \in Tasks |-> Lag[t] + 1]
  <2>1. Time(sched, Lag)
    BY TimeOfAll DEF TimeInv
  <2>2. Counted(sched, Lag)
    <3>1. ASSUME NEW t \in Tasks
          PROVE  /\ Lag[t] \in Int
                 /\ Naps(sched, t) => Limit(t) \in Int
                 /\ sched.entered[t] # None => Spent(t) \in Nat /\ Lag[t] + 1 <= MaxTick
      <4>1. Lag[t] = waited[t] /\ waited[t] \in Nat
        BY <1>2, <1>3, <1>5 DEF Lag
      <4>2. Naps(sched, t) => Limit(t) \in Int
        BY TimeTypes
      <4>3. ASSUME sched.entered[t] # None
            PROVE  Spent(t) \in Nat /\ Lag[t] + 1 <= MaxTick
        <5>1. Announces(task[t].call) /\ Timed(t)
          BY <4>3, TaskTypes DEF StampFits, Timed
        <5>2. /\ Limit(t) = SendTicks /\ task[t].left \in 1..SendTicks /\ SendTicks \in Nat
              /\ MaxLate \in Nat /\ MaxTick \in Nat
          BY <5>1, TimeTypes
        <5>3. waited[t] < SendTicks + MaxLate
          BY <1>3, <5>1, <5>2
        <5> QED
          BY <4>1, <5>2, <5>3 DEF Spent, LongTurn
      <4> QED
        BY <4>1, <4>2, <4>3
    <3> QED
      BY <3>1 DEF Counted
  <2>3. Time(w, k)
    <3>1. \A t \in Tasks : Naps(sched, t) \/ sched.entered[t] # None => k[t] = Lag[t] + 1
      OBVIOUS
    <3> HIDE DEF k
    <3> QED
      BY <1>2, <1>5, <2>1, <2>2, <3>1, TimeGoesOn
  <2>4. /\ sched'.generic = w.generic /\ sched'.wake = w.wake /\ sched'.tick = w.tick
        /\ sched'.nextUnblock = w.nextUnblock /\ sched'.wrapped = w.wrapped
        /\ sched'.pended = w.pended /\ sched'.entered = w.entered
    <3> HIDE DEF w, b
    <3> QED
      BY <1>1, <1>4 DEF Sched, SchedulerStates
  <2> HIDE DEF w
  <2>5. \A t \in Tasks : Timed(t) => Lag'[t] = k[t]
    <3>1. ASSUME NEW t \in Tasks, Timed(t) PROVE Lag'[t] = k[t]
      <4>1. waited'[t] = waited[t] + 1 /\ sched'.pended = 0 /\ sched.pended = 0 /\ waited[t] \in Nat
        BY <1>2, <1>3, <1>4, <1>5, <2>4, <3>1
      <4> QED
        BY <4>1 DEF Lag
    <3> QED
      BY <3>1
  <2>6. ASSUME NEW t \in Tasks
        PROVE  TimeFits(t)' /\ WaitFits(t)'
    <3>1. Naps(sched', t) => Timed(t)'
      BY TimeTypes DEF KernelInv, TasksFit, StampFits, Timed
    <3>2. Timed(t)' <=> Timed(t)
      BY <1>1, <1>4, <2>4 DEF Timed
    <3>3. TimeFits(t)'
      <4>1. Elapsed(sched, t)' = Elapsed(w, t)
        BY <2>4 DEF Elapsed
      <4>2. (sched.entered[t] # None)' => Timed(t)
        BY <3>2 DEF Timed
      <4>3. /\ Naps(sched', t) => Lag'[t] = k[t]
            /\ sched'.entered[t] # None => Lag'[t] = k[t]
        BY <2>5, <3>1, <3>2, <4>2
      <4> HIDE DEF k
      <4>4. w.generic[t] = "delayed" =>
                /\ w.nextUnblock <= w.wake[t] /\ w.tick < w.wake[t]
                /\ k[t] + (w.wake[t] - w.tick) <= Limit(t)
        BY <2>3 DEF Time
      <4>5. w.generic[t] = "overflow" =>
                /\ w.wake[t] <= w.tick
                /\ k[t] + (w.wake[t] + MaxTick + 1 - w.tick) <= Limit(t)
        BY <2>3 DEF Time
      <4>6. w.entered[t] # None =>
                /\ k[t] = Spent(t) + Elapsed(w, t)
                /\ t \in w.wrapped <=> w.tick < w.entered[t]
        BY <2>3 DEF Time
      <4> QED
        BY <1>3, <2>4, <4>1, <4>3, <4>4, <4>5, <4>6 DEF TimeFits, Naps
    <3>4. WaitFits(t)'
      <4>1. task[t].pc \notin {"place", "resume"}
        BY <1>5 DEF KernelInv, Held, HeldAt
      <4>2. WaitFits(t)
        BY DEF TimeInv
      <4>3. sched'.entered[t] = None /\ Announces(task[t].call) => ~Timed(t)
        BY <1>4, <2>4 DEF Timed, Announces
      <4> QED
        BY <1>1, <1>3, <1>4, <2>4, <3>2, <4>1, <4>2, <4>3 DEF WaitFits
    <3> QED
      BY <3>3, <3>4
  <2>7. waited' = [t \in Tasks |-> waited'[t]]
    BY <1>1
  <2> QED
    BY <2>6, <2>7 DEF TimeInv
<1>6. CASE sched.suspended
  <2>1. /\ sched'.generic = sched.generic /\ sched'.wake = sched.wake /\ sched'.tick = sched.tick
        /\ sched'.nextUnblock = sched.nextUnblock /\ sched'.wrapped = sched.wrapped
        /\ sched'.pended = sched.pended + 1 /\ sched'.entered = sched.entered
    <3> HIDE DEF w, b
    <3> QED
      BY <1>1, <1>4, <1>6 DEF Sched, SchedulerStates
  <2>2. ASSUME NEW t \in Tasks
        PROVE  TimeFits(t)' /\ WaitFits(t)'
    <3>1. TimeFits(t) /\ WaitFits(t)
      BY DEF TimeInv
    <3>2. Timed(t) => Lag'[t] = Lag[t]
      <4>1. sched.pended \in Nat
        BY TimeTypes
      <4> QED
        BY <1>3, <2>1, <4>1 DEF Lag
    <3>3. Timed(t)' <=> Timed(t)
      BY <1>1, <2>1 DEF Timed
    <3>4. Elapsed(sched, t)' = Elapsed(sched, t)
      BY <2>1 DEF Elapsed
    <3>5. TimeFits(t)'
      BY <1>3, <2>1, <3>1, <3>2, <3>4 DEF TimeFits, Naps
    <3>6. WaitFits(t)'
      <4>1. Announces(task[t].call) /\ task[t].pc = "resume" => Timed(t)
        BY TaskTypes DEF StampFits, Timed
      <4>2. sched.entered[t] = None /\ Announces(task[t].call) => ~Timed(t)
        BY DEF Timed, Announces
      <4>3. Announces(task[t].call) => Limit(t) \in Nat
        BY TimeTypes
      <4> QED
        BY <1>1, <1>3, <2>1, <3>1, <3>3, <4>1, <4>2, <4>3 DEF WaitFits
    <3> QED
      BY <3>5, <3>6
  <2>3. waited' = [t \in Tasks |-> waited'[t]]
    BY <1>1
  <2> QED
    BY <2>2, <2>3 DEF TimeInv
<1> QED
  BY <1>5, <1>6

\* The ticks held back are made up for when switches are let go.
LEMMA ResumeKeepsTime ==
    ASSUME LongTurn, KernelInv, KernelInv', TimeInv, NEW t \in Tasks, Resume(t)
    PROVE  TimeInv'
<1> DEFINE c == task[t].call
           w == WokenByUnlock(sched, c)
           r == ResumeAll(w)
<1>1. /\ sched.current = t /\ task[t].pc = "resume" /\ sched.suspended
      /\ task[t].then # "sleep" => Ready(sched, t)
  BY AtPc DEF Resume, HeldAt
<1>2. /\ sched \in Sched /\ Placed(sched) /\ c \in OwnCalls(t) /\ CallFits(t, task[t])
      /\ StampFits(t, task[t], sched)
  BY TaskTypes
<1>3. c.op # "wait" => c.queue \in Queues /\ queue[c.queue].txLock \in Nat
  <2>1. ASSUME c.op # "wait"
        PROVE  c.queue \in Queues /\ queue[c.queue].txLock \in Nat
    <3> DEFINE q == c.queue
    <3>1. q \in Queues /\ LockedBy(q)
      BY <1>1, <1>2, <2>1, OwnFacts DEF LockedBy, CallFits
    <3> HIDE DEF q
    <3>2. queue[q].txLock \in -1..queue[q].waiting /\ queue[q].txLock # -1
      BY <3>1 DEF KernelInv, Locks
    <3>3. queue[q].waiting \in Nat
      BY <3>1, QueueTypes DEF KernelInv
    <3>4. queue[q].txLock \in Nat
      BY <3>2, <3>3
    <3> QED
      BY <3>1, <3>4 DEF q
  <2> QED
    BY <2>1
<1>4. Rouses(sched, w) /\ Still(sched, w)
  <2> HIDE DEF c
  <2> QED
    BY <1>2, <1>3, UnlockLemma
<1>5. /\ \/ task[t].then = "fail" /\ Return(t, r)
         \/ \E pc \in {"yield", "try"} : task[t].then # "fail" /\ Continue(t, pc, r)
  BY Zenon DEF Resume
<1> HIDE DEF w
\* The clocks after the signals, and after the ticks.
<1>6. Time(w, Lag)
  <2>1. Time(sched, Lag)
    BY TimeOfAll DEF TimeInv
  <2>2. ASSUME NEW u \in Tasks
        PROVE  /\ w.tick = sched.tick /\ w.nextUnblock = sched.nextUnblock
               /\ w.wrapped = sched.wrapped /\ w.entered = sched.entered
               /\ Naps(w, u) => w.generic[u] = sched.generic[u] /\ w.wake[u] = sched.wake[u]
               /\ Elapsed(w, u) = Elapsed(sched, u)
    BY <1>4 DEF Still, Rouses, Wakes, Elapsed
  <2> QED
    BY <2>1, <2>2 DEF Time, Naps
<1>7. CountedOn(w, Lag, w.pended)
  <2>1. ASSUME NEW u \in Tasks
        PROVE  /\ Lag[u] \in Int
               /\ Naps(w, u) => Limit(u) \in Int
               /\ w.entered[u] # None => Spent(u) \in Nat /\ Lag[u] + w.pended <= MaxTick
    <3>1. /\ w.pended = sched.pended /\ w.entered = sched.entered
          /\ Naps(w, u) => Naps(sched, u)
      BY <1>4 DEF Still, Rouses, Wakes
    <3>2. Lag[u] = waited[u] - sched.pended /\ waited[u] \in Nat /\ sched.pended \in Nat
      BY TimeTypes DEF Lag, TimeInv, WaitFits
    <3>3. Naps(w, u) => Limit(u) \in Int
      BY <3>1, TimeTypes
    <3>4. ASSUME sched.entered[u] # None
          PROVE  Spent(u) \in Nat /\ Lag[u] + sched.pended <= MaxTick
      <4>1. Announces(task[u].call) /\ Timed(u)
        BY <3>4, TaskTypes DEF StampFits, Timed
      <4>2. /\ Limit(u) = SendTicks /\ task[u].left \in 1..SendTicks /\ SendTicks \in Nat
            /\ MaxLate \in Nat /\ MaxTick \in Nat
        BY <4>1, TimeTypes
      <4>3. waited[u] <= SendTicks + MaxLate
        BY <4>1, <4>2 DEF TimeInv, WaitFits
      <4> QED
        BY <3>2, <4>2, <4>3 DEF Spent, LongTurn
    <3> QED
      BY <3>1, <3>2, <3>3, <3>4
  <2> QED
    BY <2>1 DEF CountedOn
<1>8. /\ Rouses(w, r) /\ r.pended = 0 /\ Time(r, waited)
  <2>1. w \in Sched /\ Placed(w) /\ w.pended = sched.pended
    BY <1>4 DEF Rouses, Wakes, Still
  <2>2. \A u \in Tasks : Naps(w, u) \/ w.entered[u] # None => waited[u] = Lag[u] + w.pended
    <3>1. \A u \in Tasks : waited[u] \in Nat /\ sched.pended \in Nat
      BY TimeTypes DEF TimeInv, WaitFits
    <3> QED
      BY <2>1, <3>1 DEF Lag
  <2> QED
    BY <1>6, <1>7, <2>1, <2>2, ResumeAllLemma
<1> HIDE DEF r
<1>9. /\ r \in Sched /\ r.entered = sched.entered
      /\ task[t].then # "sleep" => Ready(r, t)
  BY <1>1, <1>4, <1>8 DEF Rouses, Wakes
\* What there is to show for each task but one whose call returns.
<1>10. ASSUME NEW u \in Tasks,
              task'[u].call = task[u].call, task'[u].left = task[u].left,
              task'[u].pc \notin {"place", "resume"} \/ u # t,
              u # t => task'[u] = task[u], waited'[u] = waited[u],
              sched'.generic = r.generic, sched'.wake = r.wake, sched'.tick = r.tick,
              sched'.pended = r.pended, sched'.nextUnblock = r.nextUnblock,
              sched'.entered[u] = r.entered[u], u \in sched'.wrapped <=> u \in r.wrapped
       PROVE  TimeFits(u)' /\ WaitFits(u)'
  <2>1. WaitFits(u)
    BY DEF TimeInv
  <2>2. Limit(u)' = Limit(u) /\ Spent(u)' = Spent(u) /\ Elapsed(sched, u)' = Elapsed(r, u)
    BY <1>10 DEF Limit, Spent, Elapsed
  <2>3. Lag'[u] = waited[u]
    BY <1>8, <1>10, <2>1 DEF Lag, WaitFits
  <2>4. TimeFits(u)'
    <3>1. r.generic[u] = "delayed" =>
                /\ r.nextUnblock <= r.wake[u] /\ r.tick < r.wake[u]
                /\ waited[u] + (r.wake[u] - r.tick) <= Limit(u)
      BY <1>8 DEF Time
    <3>2. r.generic[u] = "overflow" =>
                /\ r.wake[u] <= r.tick
                /\ waited[u] + (r.wake[u] + MaxTick + 1 - r.tick) <= Limit(u)
      BY <1>8 DEF Time
    <3>3. r.entered[u] # None =>
                /\ waited[u] = Spent(u) + Elapsed(r, u)
                /\ u \in r.wrapped <=> r.tick < r.entered[u]
      BY <1>8 DEF Time
    <3> QED
      BY <1>10, <2>2, <2>3, <3>1, <3>2, <3>3 DEF TimeFits
  <2>5. Timed(u)' <=> Timed(u)
    BY <1>9, <1>10 DEF Timed
  <2>6. task'[u].pc \notin {"place", "resume"}
    <3>1. u # t => task[u].pc \notin {"place", "resume"}
      BY <1>1 DEF KernelInv, Held, HeldAt
    <3> QED
      BY <1>10, <3>1
  <2>7. WaitFits(u)'
    BY <1>9, <1>10, <2>1, <2>2, <2>5, <2>6 DEF WaitFits
  <2> QED
    BY <2>4, <2>7
<1>11. CASE task[t].then = "fail"
  <2>1. Return(t, r) /\ Ready(r, t)
    BY <1>5, <1>9, <1>11
  <2>2. /\ TimeFits(t)' /\ WaitFits(t)' /\ waited' = [u \in Tasks |-> waited'[u]]
        /\ sched'.generic = r.generic /\ sched'.wake = r.wake /\ sched'.tick = r.tick
        /\ sched'.pended = r.pended /\ sched'.nextUnblock = r.nextUnblock
        /\ \A u \in Tasks \ {t} : /\ task'[u] = task[u] /\ waited'[u] = waited[u]
                                  /\ sched'.entered[u] = r.entered[u]
                                  /\ u \in sched'.wrapped <=> u \in r.wrapped
    BY <1>9, <2>1, ReturnOwn
  <2>3. \A u \in Tasks \ {t} : TimeFits(u)' /\ WaitFits(u)'
    BY <1>10, <2>2
  <2> QED
    BY <2>2, <2>3 DEF TimeInv
<1>12. CASE task[t].then # "fail"
  <2>1. PICK pc \in {"yield", "try"} : Continue(t, pc, r)
    BY <1>5, <1>12
  <2>2. sched' = r /\ task' = [task EXCEPT ![t].pc = pc] /\ waited' = waited
    BY <2>1 DEF Continue, Goto
  <2>3. /\ task'[t].call = c /\ task'[t].pc = pc /\ task'[t].left = task[t].left
        /\ \A u \in Tasks \ {t} : task'[u] = task[u]
    BY <2>2 DEF KernelInv, QueueInv, CallsMade
  <2>4. \A u \in Tasks : TimeFits(u)' /\ WaitFits(u)'
    BY <1>10, <2>2, <2>3
  <2> QED
    BY <2>2, <2>4 DEF TimeInv
<1> QED
  BY <1>11, <1>12

---------------------------------------------------------------------------
\* At first nobody has waited.
LEMMA TimeStarts == Init => TimeInv
<1> SUFFICES ASSUME Init PROVE TimeInv
  OBVIOUS
<1>1. /\ waited = [t \in Tasks |-> 0] /\ sched = Started("sensor")
      /\ \A t \in Tasks : task[t] = Begun(FirstCall(t))
  BY DEF Init
<1>2. \A t \in Tasks : sched.generic[t] = "ready" /\ sched.entered[t] = None
  BY <1>1 DEF Started
<1>3. ASSUME NEW t \in Tasks
      PROVE  TimeFits(t) /\ WaitFits(t)
  <2>1. FirstCall(t) \in OwnCalls(t)
    BY NextOwn
  <2>2. /\ task[t].call = FirstCall(t) /\ task[t].pc \in {"try", "suspend"}
        /\ Announces(task[t].call) => task[t].left = SendTicks
    BY <1>1, <2>1, BegunFits
  <2>3. Timed(t) => task[t].call.ticks = Period
    BY <1>2, <2>1, <2>2, OwnFacts DEF Timed
  <2>4. Period \in Nat /\ MaxLate \in Nat
    BY TickAssumption
  <2> QED
    BY <1>1, <1>2, <2>2, <2>3, <2>4 DEF TimeFits, WaitFits, Limit
<1> QED
  BY <1>1, <1>3 DEF TimeInv

\* Every step keeps the time.
LEMMA TimeStep ==
    ASSUME LongTurn
    PROVE  KernelInv /\ TimeInv /\ [Next]_vars => TimeInv'
<1> SUFFICES ASSUME KernelInv, TimeInv, [Next]_vars PROVE TimeInv'
  OBVIOUS
<1>1. KernelInv'
  BY KernelStep
<1>2. CASE UNCHANGED vars
  BY <1>2 DEF TimeInv, TimeFits, WaitFits, Lag, Limit, Spent, Elapsed, Timed, vars
<1>3. ASSUME NEW t \in Tasks, TaskStep(t)
      PROVE  TimeInv'
  BY <1>1, <1>3, ReturnsKeepTime, BeginToWaitKeepsTime, SuspendAndYieldKeepTime,
     CheckExpiredKeepsTime, CheckWaitsKeepsTime, PlaceKeepsTime, PlaceTimerKeepsTime,
     ResumeKeepsTime DEF TaskStep
<1>4. CASE (\E t \in Tasks : PendSV(t)) \/ Interrupt
  BY <1>1, <1>4, SignalsKeepTime, SysTickKeepsTime DEF Interrupt
<1> QED
  BY <1>2, <1>3, <1>4 DEF Next

\* Nobody oversleeps, across a wrap of the tick count and whatever sleeps
\* besides it, for every number of ticks and every length of the tick counter
\* that a wait cannot turn round (tasks.c:1849, tasks.c:2880).
THEOREM AllWakeInTime ==
    ASSUME LongTurn
    PROVE  Spec => []WakesInTime
<1>1. KernelInv /\ TimeInv => WakesInTime
  <2> SUFFICES ASSUME KernelInv, TimeInv, NEW t \in Tasks,
                      sched.generic[t] \in {"delayed", "overflow"}
               PROVE  waited[t] - sched.pended < task[t].call.ticks
    BY DEF WakesInTime
  <2> DEFINE x == sched.tick
             w == sched.wake[t]
             l == Lag[t]
             m == Limit(t)
  <2>1. x \in 0..MaxTick /\ w \in 0..MaxTick /\ MaxTick \in Nat /\ l \in Int /\ m \in Int
    BY TimeTypes DEF Naps, TimeInv, WaitFits, Lag
  <2>2. \/ x < w /\ l + (w - x) <= m
        \/ l + (w + MaxTick + 1 - x) <= m
    BY DEF TimeInv, TimeFits
  <2> HIDE DEF x, w, l, m
  <2>3. l < m
    BY <2>1, <2>2
  <2> QED
    BY <2>3 DEF l, m, Lag, Limit
<1> QED
  BY <1>1, TimeStarts, TimeStep, KernelInvariant, PTL DEF Spec

\* An announcement is given up only when its sender has waited its ticks out,
\* in all the turns of the loop together, and there still is no room
\* (queue.c:767).
THEOREM AllGiveUpOnTime ==
    ASSUME LongTurn
    PROVE  Spec => GivesUpOnTime
<1> DEFINE OnTime == \A t \in Tasks :
                        Drops(t) => /\ waited[t] >= task[t].call.ticks
                                    /\ ~HasRoom(task[t].call.queue)
<1>1. KernelInv /\ TimeInv => OnTime
  <2> SUFFICES ASSUME KernelInv, TimeInv, NEW t \in Tasks, Drops(t)
               PROVE  waited[t] >= task[t].call.ticks /\ ~HasRoom(task[t].call.queue)
    OBVIOUS
  <2>1. task[t].pc = "resume" /\ task[t].then = "fail"
    BY DEF Drops, At
  <2>2. Announces(task[t].call)
    BY <2>1, TaskTypes, OwnFacts DEF CallFits, Announces
  <2> QED
    BY <2>1, <2>2 DEF TimeInv, WaitFits, KernelInv, Works, FullFor, Announces, Limit
<1>2. KernelInv /\ TimeInv /\ [Next]_vars => [OnTime]_vars
  BY <1>1
<1> QED
  BY <1>2, TimeStarts, TimeStep, KernelInvariant, PTL DEF Spec, GivesUpOnTime
=============================================================================
