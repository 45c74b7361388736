--------------------------- MODULE TSQueue_proofs ---------------------------
(***************************************************************************)
(* Proofs about module TSQueue, for any sets of threads, any capacity and  *)
(* any bound on the number of items: first what holds for any consumers,   *)
(* then that a queue with one consumer is never popped when it is empty    *)
(* and that its empty() can be trusted, at last that it is a channel.      *)
(***************************************************************************)
EXTENDS TSQueue, TLAPS

\* The sequence q holds consecutive numbers, the last of which is hi.
Consecutive(q, hi) ==
  /\ Len(q) <= hi
  /\ \A i \in 1..Len(q) : q[i] = hi - Len(q) + i

\* The queue holds consecutive items, the last of which is the last pushed.
QueueConsecutive == Consecutive(queue, accepted)

QueueInv == TypeOK /\ QueueConsecutive

-----------------------------------------------------------------------------
(* What notify_one() may do to the threads.                                *)
LEMMA NotifyOneProperty ==
  ASSUME NEW pcs, NEW next, next \in NotifyOne(pcs),
         DOMAIN pcs = Threads, pcs = [t \in Threads |-> pcs[t]]
  PROVE  \/ next = pcs /\ \A c \in Consumers : pcs[c] # "waiting"
         \/ \E c \in Consumers : /\ pcs[c] = "waiting"
                                 /\ next = [pcs EXCEPT ![c] = "woken"]
BY DEF NotifyOne

(* Appending to a sequence commutes with dropping its first element.       *)
LEMMA TailOfAppend ==
  ASSUME NEW S, NEW s \in Seq(S), NEW x \in S, s # <<>>
  PROVE  Tail(Append(s, x)) = Append(Tail(s), x)
OBVIOUS

LEMMA ConsecutiveAppend ==
  ASSUME NEW q \in Seq(Items), NEW hi \in Nat, hi < MaxItems,
         Consecutive(q, hi)
  PROVE  /\ Append(q, hi + 1) \in Seq(Items)
         /\ Consecutive(Append(q, hi + 1), hi + 1)
<1> DEFINE r == Append(q, hi + 1)
<1>1. hi + 1 \in Items
  BY TSQueueAssumption DEF Items
<1>2. r \in Seq(Items) /\ Len(r) = Len(q) + 1
  BY <1>1
<1>3. ASSUME NEW i \in 1..Len(r) PROVE r[i] = hi + 1 - Len(r) + i
  <2>1. CASE i <= Len(q)
    BY <1>2, <2>1 DEF Consecutive
  <2>2. CASE i = Len(q) + 1
    BY <1>2, <2>2
  <2> QED
    BY <1>2, <2>1, <2>2
<1> QED
  BY <1>2, <1>3 DEF Consecutive

LEMMA ConsecutiveTail ==
  ASSUME NEW q \in Seq(Items), NEW hi \in Nat, q # <<>>, Consecutive(q, hi)
  PROVE  /\ Tail(q) \in Seq(Items)
         /\ Consecutive(Tail(q), hi)
<1> DEFINE r == Tail(q)
<1>1. r \in Seq(Items) /\ Len(r) = Len(q) - 1
  OBVIOUS
<1>2. ASSUME NEW i \in 1..Len(r) PROVE r[i] = hi - Len(r) + i
  <2>1. r[i] = q[i + 1] /\ i + 1 \in 1..Len(q)
    BY <1>1
  <2> QED
    BY <1>1, <2>1 DEF Consecutive
<1> QED
  BY <1>1, <1>2 DEF Consecutive

LEMMA EnqueueConsecutive ==
  ASSUME QueueInv, NEW p \in Producers, PushRoom(p) \/ PushBurn(p)
  PROVE  /\ queue' \in Seq(Items)
         /\ accepted' \in 0..MaxItems
         /\ QueueConsecutive'
<1> USE TSQueueAssumption DEF QueueInv, TypeOK, QueueConsecutive
<1>1. CASE PushRoom(p)
  BY <1>1, ConsecutiveAppend DEF PushRoom, Enqueue
<1>2. CASE PushBurn(p)
  <2> DEFINE rest == Tail(queue)
  <2>1. queue # <<>>
    BY <1>2 DEF PushBurn
  <2>2. rest \in Seq(Items) /\ Consecutive(rest, accepted)
    BY <2>1, ConsecutiveTail
  <2>3. /\ queue' = Append(rest, accepted + 1)
        /\ accepted' = accepted + 1
        /\ accepted < MaxItems
        /\ accepted \in Nat
    BY <1>2 DEF PushBurn, Enqueue
  <2> HIDE DEF rest
  <2>4. /\ Append(rest, accepted + 1) \in Seq(Items)
        /\ Consecutive(Append(rest, accepted + 1), accepted + 1)
    BY <2>2, <2>3, ConsecutiveAppend
  <2> QED
    BY <2>3, <2>4
<1> QED
  BY <1>1, <1>2

LEMMA TypeStep ==
  ASSUME QueueInv, [Next]_vars
  PROVE  QueueInv'
<1> USE TSQueueAssumption DEF QueueInv
<1>0. /\ blocking' \in BOOLEAN /\ users' \subseteq Consumers
      /\ capacity' \in Capacities
  BY DEF Next, Goes, choice, vars, TypeOK
<1> USE <1>0
<1> DEFINE States == ProducerStates \cup ConsumerStates
<1> DEFINE Placed(at) == /\ at \in [Threads -> States]
                         /\ \A p \in Producers : at[p] \in ProducerStates
                         /\ \A c \in Consumers : at[c] \in ConsumerStates
<1>woken. ASSUME NEW moved, Placed(moved),
                 \/ pc' = moved
                 \/ \E c \in Consumers : pc' = [moved EXCEPT ![c] = "woken"]
          PROVE  Placed(pc)'
  <2>1. CASE pc' = moved
    BY <1>woken, <2>1
  <2>2. ASSUME NEW c \in Consumers, pc' = [moved EXCEPT ![c] = "woken"]
        PROVE  Placed(pc)'
    BY <1>woken, <2>2, TSQueueAssumption DEF ConsumerStates, Threads
  <2> QED
    BY <1>woken, <2>1, <2>2
<1>1. ASSUME NEW p \in Producers, ProducerStep(p) PROVE QueueInv'
  <2>1. CASE PushRoom(p) \/ PushBurn(p)
    <3>1. queue' \in Seq(Items) /\ accepted' \in 0..MaxItems /\ QueueConsecutive'
      BY <2>1, EnqueueConsecutive
    <3>2. /\ pc' = Goto(p, "notify")
          /\ UNCHANGED <<mutex, ref, loaded, got, reads, broken>>
      BY <2>1 DEF PushRoom, PushBurn, Enqueue
    <3> QED
      BY <3>1, <3>2 DEF TypeOK, Goto, Threads, ProducerStates, ConsumerStates
  <2>2. CASE PushFull(p)
    BY <2>2 DEF PushFull, TypeOK, QueueConsecutive, Goto, Threads,
                ProducerStates, ConsumerStates
  <2>3. CASE PushNotify(p)
    <3>1. Placed(Goto(p, "idle"))
      BY TSQueueAssumption
        DEF TypeOK, Goto, Threads, ProducerStates, ConsumerStates
    <3>2. \/ pc' = Goto(p, "idle")
          \/ \E c \in Consumers : pc' = [Goto(p, "idle") EXCEPT ![c] = "woken"]
      BY <2>3, <3>1, NotifyOneProperty DEF PushNotify
    <3>3. Placed(pc)'
      BY <1>woken, <3>1, <3>2
    <3>4. UNCHANGED <<queue, accepted, mutex, ref, loaded, got, reads, broken>>
      BY <2>3 DEF PushNotify
    <3> QED
      BY <3>3, <3>4 DEF TypeOK, QueueConsecutive
  <2>4. CASE PushBurnNothing(p)
    BY <2>4 DEF PushBurnNothing, Break, TypeOK, QueueConsecutive
  <2> QED
    BY <1>1, <2>1, <2>2, <2>3, <2>4 DEF ProducerStep
<1>2. ASSUME NEW c \in Consumers, ConsumerStep(c) PROVE QueueInv'
  <2>1. CASE FrontReturns(c)
    <3>1. Head(queue) \in 0..MaxItems
      BY <2>1 DEF FrontReturns, TypeOK, Items
    <3> QED
      BY <2>1, <3>1
      DEF FrontReturns, TypeOK, QueueConsecutive, Goto, Threads,
          ProducerStates, ConsumerStates
  <2>2. CASE FrontWaits(c) \/ SpuriousWake(c)
    BY <2>2 DEF FrontWaits, SpuriousWake, TypeOK, QueueConsecutive, Goto,
                Threads, ProducerStates, ConsumerStates
  <2>3. CASE Read(c)
    <3>1. CASE Break("dangling")
      BY <3>1 DEF Break, TypeOK, QueueConsecutive
    <3>2. CASE ~Break("dangling")
      <4>1. /\ got' = ref[c] /\ reads' = reads + 1 /\ pc' = Goto(c, "read")
            /\ UNCHANGED <<queue, accepted, mutex, ref, loaded, broken>>
        BY <2>3, <3>2 DEF Read
      <4>2. got' \in 0..MaxItems
        BY <4>1 DEF TypeOK
      <4> QED
        BY <4>1, <4>2 DEF TypeOK, QueueConsecutive, Goto, Threads,
                          ProducerStates, ConsumerStates
    <3> QED
      BY <3>1, <3>2
  <2>4. CASE Pop(c)
    <3>1. CASE queue = <<>>
      BY <2>4, <3>1 DEF Pop, Break, TypeOK, QueueConsecutive
    <3>2. CASE queue # <<>>
      <4>1. Placed(Goto(c, "idle"))
        BY TSQueueAssumption
        DEF TypeOK, Goto, Threads, ProducerStates, ConsumerStates
      <4>2. \/ pc' = Goto(c, "idle")
            \/ \E d \in Consumers : pc' = [Goto(c, "idle") EXCEPT ![d] = "woken"]
        BY <2>4, <3>2, <4>1, NotifyOneProperty DEF Pop
      <4>3. /\ queue' = Tail(queue)
            /\ UNCHANGED <<accepted, mutex, ref, loaded, got, reads, broken>>
        BY <2>4, <3>2 DEF Pop
      <4>4. queue' \in Seq(Items) /\ QueueConsecutive'
        BY <3>2, <4>3, ConsecutiveTail DEF TypeOK, QueueConsecutive
      <4>5. Placed(pc)'
        BY <1>woken, <4>1, <4>2
      <4> QED
        BY <4>3, <4>4, <4>5 DEF TypeOK
    <3> QED
      BY <3>1, <3>2
  <2>5. CASE LoadFirst(c)
    <3>1. PICK side \in {"begin", "end"} :
            loaded' = [loaded EXCEPT ![c] =
                         [first |-> side, at |-> Position(side)]]
      BY <2>5 DEF LoadFirst
    <3>2. Position(side) \in 0..MaxItems
      BY DEF Position, TypeOK, QueueConsecutive, Consecutive
    <3> QED
      BY <2>5, <3>1, <3>2
      DEF LoadFirst, TypeOK, QueueConsecutive, Goto, Threads,
          ProducerStates, ConsumerStates
  <2>6. CASE LoadSecond(c)
    <3>1. /\ loaded' = [loaded EXCEPT ![c] = Unloaded]
          /\ pc' = Goto(c, "idle") \/ pc' = Goto(c, "polled")
          /\ UNCHANGED <<queue, accepted, mutex, ref, got, reads, broken>>
      BY <2>6 DEF LoadSecond
    <3>2. /\ Placed(pc)'
          /\ loaded' \in [Consumers -> [first : {"begin", "end"}, at : 0..MaxItems]]
      BY <3>1 DEF TypeOK, Goto, Threads, ProducerStates, ConsumerStates, Unloaded
    <3> QED
      BY <3>1, <3>2 DEF TypeOK, QueueConsecutive
  <2> QED
    BY <1>2, <2>1, <2>2, <2>3, <2>4, <2>5, <2>6 DEF ConsumerStep, Consume
<1>3. CASE UNCHANGED vars
  BY <1>3 DEF vars, choice, TypeOK, QueueConsecutive
<1>4. users \subseteq Consumers
  BY DEF TypeOK
<1> QED
  BY <1>1, <1>2, <1>3, <1>4 DEF Next, Goes

(* Every variable of the queue keeps its type, and the queue always holds  *)
(* consecutive items that end with the last one pushed (TSQueue.hpp:22-91).*)
THEOREM QueueTypeCorrect == Spec => [](TypeOK /\ QueueConsecutive)
<1>1. Init => QueueInv
  BY TSQueueAssumption
  DEF Init, QueueInv, TypeOK, QueueConsecutive, Consecutive, Items, Threads,
      ProducerStates, ConsumerStates, Unloaded
<1> QED
  BY <1>1, TypeStep, PTL DEF Spec, QueueInv

-----------------------------------------------------------------------------
(* After a notification nobody waits, or somebody has been woken.          *)
LEMMA NotifyOneWakes ==
  ASSUME NEW S, NEW pcs \in [Threads -> S], NEW next \in NotifyOne(pcs)
  PROVE  \/ \A c \in Consumers : next[c] # "waiting"
         \/ \E c \in Consumers : next[c] = "woken"
<1>1. CASE next = pcs /\ \A c \in Consumers : pcs[c] # "waiting"
  BY <1>1
<1>2. ASSUME NEW c \in Consumers, next = [pcs EXCEPT ![c] = "woken"]
      PROVE  next[c] = "woken"
  BY <1>2 DEF Threads
<1> QED
  BY <1>1, <1>2, NotifyOneProperty

LEMMA WakeupStep ==
  ASSUME TypeOK, NoLostWakeup, [Next]_vars
  PROVE  NoLostWakeup'
<1> USE TSQueueAssumption DEF NoLostWakeup
<1>1. ASSUME NEW p \in Producers, ProducerStep(p) PROVE NoLostWakeup'
  <2>1. CASE PushRoom(p) \/ PushBurn(p)
    BY <2>1 DEF PushRoom, PushBurn, Enqueue, Goto, TypeOK, Threads
  <2>2. CASE PushFull(p)
    BY <2>2 DEF PushFull, Goto, TypeOK, Threads
  <2>3. CASE PushNotify(p)
    <3>1. Goto(p, "idle") \in [Threads -> ProducerStates \cup ConsumerStates]
      BY DEF TypeOK, Goto, ProducerStates
    <3>2. \/ \A c \in Consumers : pc'[c] # "waiting"
          \/ \E c \in Consumers : pc'[c] = "woken"
      BY <2>3, <3>1, NotifyOneWakes DEF PushNotify
    <3> QED
      BY <3>2
  <2>4. CASE PushBurnNothing(p)
    BY <2>4 DEF PushBurnNothing, Break
  <2> QED
    BY <1>1, <2>1, <2>2, <2>3, <2>4 DEF ProducerStep
<1>2. ASSUME NEW c \in Consumers, ConsumerStep(c) PROVE NoLostWakeup'
  <2>1. CASE FrontReturns(c)
    BY <2>1 DEF FrontReturns, Goto, TypeOK, Threads
  <2>2. CASE FrontWaits(c)
    BY <2>2 DEF FrontWaits
  <2>3. CASE SpuriousWake(c)
    BY <2>3 DEF SpuriousWake, Goto, TypeOK, Threads
  <2>4. CASE Read(c)
    BY <2>4 DEF Read, Break, Goto, TypeOK, Threads
  <2>5. CASE Pop(c)
    <3>1. CASE queue = <<>>
      BY <2>5, <3>1 DEF Pop, Break
    <3>2. CASE queue # <<>>
      <4>1. Goto(c, "idle") \in [Threads -> ProducerStates \cup ConsumerStates]
        BY DEF TypeOK, Goto, ProducerStates
      <4>2. \/ \A d \in Consumers : pc'[d] # "waiting"
            \/ \E d \in Consumers : pc'[d] = "woken"
        BY <2>5, <3>2, <4>1, NotifyOneWakes DEF Pop
      <4> QED
        BY <4>2
    <3> QED
      BY <3>1, <3>2
  <2>6. CASE LoadFirst(c)
    BY <2>6 DEF LoadFirst, Goto, TypeOK, Threads
  <2>7. CASE LoadSecond(c)
    <3>1. /\ pc[c] = "sizing"
          /\ pc' = Goto(c, "idle") \/ pc' = Goto(c, "polled")
          /\ queue' = queue
      BY <2>7 DEF LoadSecond
    <3> QED
      BY <3>1 DEF Goto, TypeOK, Threads
  <2> QED
    BY <1>2, <2>1, <2>2, <2>3, <2>4, <2>5, <2>6, <2>7
    DEF ConsumerStep, Consume
<1>3. CASE UNCHANGED vars
  BY <1>3 DEF vars
<1>4. users \subseteq Consumers
  BY DEF TypeOK
<1> QED
  BY <1>1, <1>2, <1>3, <1>4 DEF Next

(* No wakeup is lost, for any number of producers and consumers that share *)
(* the condition variable, blocking or not (TSQueue.hpp:44, 56 and 68).    *)
THEOREM WakeupsKept == Spec => []NoLostWakeup
<1>1. Init => NoLostWakeup
  BY DEF Init, NoLostWakeup
<1> QED
  BY <1>1, WakeupStep, QueueTypeCorrect, PTL DEF Spec

-----------------------------------------------------------------------------
(* What moves the front of the queue.                                      *)

Front == accepted - Len(queue)

(* What the numbers say about the front of the queue.                      *)
LEMMA FrontNumber ==
  ASSUME QueueInv
  PROVE  /\ accepted \in Nat /\ Front \in Nat /\ Len(queue) \in Nat
         /\ queue = <<>> <=> Front = accepted
         /\ queue # <<>> => Head(queue) = Front + 1
         /\ \A i \in DOMAIN queue : queue[i] >= Front + 1
<1> USE TSQueueAssumption DEF QueueInv, QueueConsecutive, Consecutive
<1>1. /\ accepted \in Nat /\ Len(queue) \in Nat /\ Len(queue) <= accepted
      /\ DOMAIN queue = 1..Len(queue)
      /\ queue = <<>> <=> Len(queue) = 0
  BY DEF TypeOK
<1>2. \A i \in 1..Len(queue) : queue[i] = Front + i
  BY DEF Front
<1>3. queue # <<>> => Head(queue) = queue[1]
  BY DEF TypeOK
<1> QED
  BY <1>1, <1>2, <1>3 DEF Front

(* A push leaves the queue nonempty and moves the front only by dropping   *)
(* an item, which a queue that blocks never does.                          *)
LEMMA PushEffect ==
  ASSUME QueueInv, NEW p \in Producers, PushRoom(p) \/ PushBurn(p)
  PROVE  /\ queue' # <<>>
         /\ Front' = Front \/ (Front' = Front + 1 /\ ~blocking)
         /\ \A c \in Consumers : pc'[c] = pc[c]
         /\ UNCHANGED <<ref, loaded, got, reads, broken>>
<1>1. /\ pc' = Goto(p, "notify")
      /\ accepted' = accepted + 1
      /\ UNCHANGED <<ref, loaded, got, reads, broken>>
  BY DEF PushRoom, PushBurn, Enqueue
<1>2. \A c \in Consumers : pc'[c] = pc[c]
  BY <1>1, TSQueueAssumption DEF QueueInv, TypeOK, Goto, Threads
<1>3. CASE PushRoom(p)
  <2>1. Len(queue') = Len(queue) + 1 /\ queue' # <<>>
    BY <1>3 DEF PushRoom, Enqueue, QueueInv, TypeOK
  <2> QED
    BY <1>1, <1>2, <2>1, FrontNumber DEF Front
<1>4. CASE PushBurn(p)
  <2>1. queue # <<>> /\ ~blocking
    BY <1>4, TSQueueAssumption DEF PushBurn
  <2>2. Tail(queue) \in Seq(Items) /\ Len(Tail(queue)) = Len(queue) - 1
    BY <2>1 DEF QueueInv, TypeOK
  <2>3. Len(queue') = Len(queue) /\ queue' # <<>>
    BY <1>4, <2>2, FrontNumber DEF PushBurn, Enqueue
  <2> QED
    BY <1>1, <1>2, <2>1, <2>3, FrontNumber DEF Front
<1> QED
  BY <1>3, <1>4

(* A reference was made for the item at the front, or for one that has left *)
(* the queue; what has been read is at the front or has left it, too.      *)
Ordered ==
  /\ got <= Front + 1 /\ got <= accepted
  /\ \A c \in Consumers : ref[c] <= Front + 1

OrderedInv == QueueInv /\ Ordered

(* A reference that does not dangle is to the front of the queue.          *)
LEMMA ReadsFront ==
  ASSUME OrderedInv, NEW c \in Consumers, Read(c), ~Break("dangling")
  PROVE  /\ queue # <<>> /\ got' = Front + 1 /\ ref[c] = Front + 1
         /\ got' <= accepted /\ reads' = reads + 1
         /\ pc[c] = "holding" /\ pc'[c] = "read"
         /\ UNCHANGED <<queue, accepted, ref, broken>>
<1> USE DEF OrderedInv
<1>1. /\ pc[c] = "holding" /\ pc'[c] = "read"
      /\ got' = ref[c] /\ reads' = reads + 1
      /\ UNCHANGED <<queue, accepted, ref, broken>>
  BY TSQueueAssumption DEF Read, Goto, QueueInv, TypeOK, Threads
<1>2. PICK i \in DOMAIN queue : queue[i] = ref[c]
  BY DEF Read
<1>3. queue[i] >= Front + 1 /\ ref[c] <= Front + 1 /\ ref[c] \in Nat
  BY FrontNumber DEF Ordered, QueueInv, TypeOK
<1>4. ref[c] = Front + 1 /\ queue # <<>>
  BY <1>2, <1>3, FrontNumber DEF QueueInv, TypeOK
<1>5. Front + 1 <= accepted
  BY <1>4, FrontNumber DEF Front, QueueInv, TypeOK
<1> QED
  BY <1>1, <1>4, <1>5

LEMMA PopFront ==
  ASSUME QueueInv, NEW c \in Consumers, Pop(c), queue # <<>>
  PROVE  /\ queue' = Tail(queue)
         /\ Front' = Front + 1
         /\ UNCHANGED <<accepted, ref, loaded, got, reads, broken>>
<1>1. Len(Tail(queue)) = Len(queue) - 1
  BY DEF QueueInv, TypeOK
<1> QED
  BY <1>1, FrontNumber DEF Pop, Front

LEMMA OrderedStep ==
  ASSUME OrderedInv, [Next]_vars
  PROVE  OrderedInv'
<1> USE DEF OrderedInv
<1>0. QueueInv'
  BY TypeStep
<1>1. /\ Front \in Nat /\ got \in Nat /\ accepted \in Nat
      /\ \A c \in Consumers : ref[c] \in Nat
      /\ users \subseteq Consumers
  BY FrontNumber DEF QueueInv, TypeOK
<1>2. ASSUME UNCHANGED <<queue, accepted, ref, got>> PROVE Ordered'
  BY <1>2 DEF Ordered, Front
<1>3. ASSUME NEW p \in Producers, PushRoom(p) \/ PushBurn(p) PROVE Ordered'
  <2>1. /\ Front' = Front \/ Front' = Front + 1
        /\ ref' = ref /\ got' = got
    BY <1>3, PushEffect
  <2>2. accepted' = accepted + 1
    BY <1>3 DEF PushRoom, PushBurn, Enqueue
  <2>3. got' <= Front' + 1 /\ got' <= accepted'
    BY <1>1, <2>1, <2>2 DEF Ordered
  <2>4. ASSUME NEW c \in Consumers PROVE ref'[c] <= Front' + 1
    BY <1>1, <2>1 DEF Ordered
  <2> QED
    BY <2>3, <2>4 DEF Ordered
<1>4. ASSUME NEW c \in Consumers, FrontReturns(c) PROVE Ordered'
  <2>1. Front' = Front /\ UNCHANGED <<accepted, got>>
    BY <1>4 DEF FrontReturns, Front
  <2>2. ref' = [ref EXCEPT ![c] = Front + 1]
    BY <1>4, FrontNumber DEF FrontReturns
  <2> QED
    BY <1>1, <2>1, <2>2 DEF Ordered, QueueInv, TypeOK
<1>5. ASSUME NEW c \in Consumers, Read(c) PROVE Ordered'
  <2>1. CASE Break("dangling")
    BY <1>2, <2>1 DEF Break
  <2>2. CASE ~Break("dangling")
    <3>1. /\ got' = Front + 1 /\ got' <= accepted
          /\ UNCHANGED <<queue, accepted, ref>>
      BY <1>5, <2>2, ReadsFront
    <3> QED
      BY <1>1, <3>1 DEF Ordered, Front
  <2> QED
    BY <2>1, <2>2
<1>6. ASSUME NEW c \in Consumers, Pop(c) PROVE Ordered'
  <2>1. CASE queue = <<>>
    BY <1>2, <1>6, <2>1 DEF Pop, Break
  <2>2. CASE queue # <<>>
    BY <1>1, <1>6, <2>2, PopFront DEF Ordered
  <2> QED
    BY <2>1, <2>2
<1> QED
  BY <1>0, <1>1, <1>2, <1>3, <1>4, <1>5, <1>6
  DEF Next, vars, ProducerStep, PushBurnNothing, Break, PushFull, PushNotify,
      ConsumerStep, Consume, FrontWaits, SpuriousWake, LoadFirst, LoadSecond

LEMMA OrderedInvariant == Spec => []OrderedInv
<1>1. Init => Ordered
  BY TSQueueAssumption DEF Init, Ordered, Front
<1>2. Init => QueueInv
  BY TSQueueAssumption
  DEF Init, QueueInv, TypeOK, QueueConsecutive, Consecutive, Items, Threads,
      ProducerStates, ConsumerStates, Unloaded
<1> QED
  BY <1>1, <1>2, OrderedStep, PTL DEF Spec, OrderedInv

-----------------------------------------------------------------------------
(* One consumer.                                                           *)

\* Only the consumer makes the queue empty, so it finds what it was promised.
Promised(c) ==
  /\ pc[c] \in {"polled", "holding", "read"} => queue # <<>>
  /\ pc[c] = "sizing" /\ queue = <<>> => loaded[c].at = accepted

\* What has been read is what has left the queue or is about to be popped.
Progress(c) ==
  /\ got <= Front \/ (got = Front + 1 /\ pc[c] = "read")
  /\ pc[c] = "holding" => got < ref[c] /\ ref[c] <= Front + 1
  /\ pc[c] = "read" => got = ref[c]
  /\ blocking /\ pc[c] \in {"holding", "read"} => ref[c] = Front + 1

\* What holds while one consumer uses the queue.
SoleInv ==
  /\ capacity > 0 => NoUnderflow
  /\ \A c \in users : Promised(c) /\ Progress(c)

\* The other consumers never call, so nobody has to wake them.
OthersIdle == \A c \in Consumers \ users : pc[c] = "idle"

ConsumerInv == OrderedInv /\ OthersIdle /\ (Alone => SoleInv)

(* The only consumer pops without waking anybody.                          *)
LEMMA PopEffect ==
  ASSUME Alone, QueueInv, OthersIdle, NEW c \in users, Pop(c), queue # <<>>
  PROVE  /\ queue' = Tail(queue)
         /\ Front' = Front + 1
         /\ pc'[c] = "idle"
         /\ UNCHANGED <<accepted, ref, loaded, got, broken>>
<1>1. Goto(c, "idle") \in [Threads -> ProducerStates \cup ConsumerStates]
      /\ Goto(c, "idle")[c] = "idle"
  BY DEF QueueInv, TypeOK, Goto, ProducerStates, Threads
<1>2. pc' = Goto(c, "idle")
  <2>1. \A d \in Consumers : Goto(c, "idle")[d] # "waiting" \/ d \in users
    BY DEF OthersIdle, Goto, QueueInv, TypeOK, Threads
  <2> QED
    BY <1>1, <2>1, NotifyOneProperty DEF Pop, Alone
<1>3. c \in Consumers
  BY DEF QueueInv, TypeOK
<1> QED
  BY <1>1, <1>2, <1>3, PopFront

LEMMA ConsumerInit == Init => OthersIdle /\ (Alone => SoleInv)
BY DEF Init, SoleInv, OthersIdle, NoUnderflow, Promised, Progress, Front,
       Threads

LEMMA ConsumerOwnStep ==
  ASSUME Alone, ConsumerInv, QueueInv', NEW c \in users, ConsumerStep(c),
         blocking' = blocking, capacity' = capacity
  PROVE  (capacity > 0 => NoUnderflow)' /\ Promised(c)' /\ Progress(c)'
<1> USE TSQueueAssumption, FrontNumber DEF ConsumerInv, OrderedInv, SoleInv
<1>0. Promised(c) /\ Progress(c) /\ pc[c] \in ConsumerStates /\ c \in DOMAIN pc
  BY DEF QueueInv, TypeOK, Threads
<1>1. CASE FrontReturns(c)
  <2>1. /\ queue # <<>> /\ Head(queue) = Front + 1
        /\ pc[c] # "read" /\ pc'[c] = "holding" /\ ref'[c] = Head(queue)
        /\ UNCHANGED <<queue, accepted, got, broken>>
    BY <1>0, <1>1 DEF FrontReturns, Goto, QueueInv, TypeOK
  <2> QED
    BY <1>0, <2>1
    DEF NoUnderflow, Promised, Progress, Front, QueueInv, TypeOK
<1>2. CASE FrontWaits(c) \/ SpuriousWake(c)
  <2>1. /\ pc[c] # "read" /\ pc'[c] \in {"waiting", "woken"}
        /\ UNCHANGED <<queue, accepted, got, broken>>
    BY <1>0, <1>2 DEF FrontWaits, SpuriousWake, Goto
  <2> QED
    BY <1>0, <2>1 DEF NoUnderflow, Promised, Progress, Front
<1>3. CASE Read(c)
  <2>1. CASE Break("dangling")
    BY <1>0, <2>1 DEF Break, NoUnderflow, Promised, Progress, Front
  <2>2. CASE ~Break("dangling")
    <3>1. /\ queue # <<>> /\ got' = Front + 1 /\ ref[c] = Front + 1
          /\ pc'[c] = "read"
          /\ UNCHANGED <<queue, accepted, ref, broken>>
      BY <1>3, <2>2, ReadsFront DEF QueueInv, TypeOK
    <3> QED
      BY <1>0, <3>1 DEF NoUnderflow, Promised, Progress, Front
  <2> QED
    BY <2>1, <2>2
<1>4. CASE Pop(c)
  <2>1. queue # <<>>
    BY <1>0, <1>4 DEF Pop, Promised
  <2>2. /\ Front' = Front + 1 /\ pc'[c] = "idle"
        /\ UNCHANGED <<accepted, ref, loaded, got, broken>>
    BY <1>4, <2>1, PopEffect
  <2> QED
    BY <1>0, <2>2 DEF NoUnderflow, Promised, Progress, QueueInv, TypeOK
<1>5. CASE LoadFirst(c)
  <2>1. PICK side \in {"begin", "end"} :
          loaded' = [loaded EXCEPT ![c] =
                       [first |-> side, at |-> Position(side)]]
    BY <1>5 DEF LoadFirst
  <2>2. /\ pc[c] = "idle" /\ pc'[c] = "sizing"
        /\ UNCHANGED <<queue, accepted, got, broken>>
    BY <1>0, <1>5 DEF LoadFirst, Goto
  <2>3. queue = <<>> => loaded'[c].at = accepted
    BY <2>1 DEF Position, QueueInv, TypeOK
  <2> QED
    BY <1>0, <2>2, <2>3 DEF NoUnderflow, Promised, Progress, Front
<1>6. CASE LoadSecond(c)
  <2> DEFINE begin == IF loaded[c].first = "begin"
                        THEN loaded[c].at ELSE Position("begin")
             end   == IF loaded[c].first = "end"
                        THEN loaded[c].at ELSE Position("end")
             size  == (SizeLimit + end - begin) % SizeLimit
  <2>1. /\ pc[c] = "sizing"
        /\ pc'[c] = IF size = 0 THEN "idle" ELSE "polled"
        /\ UNCHANGED <<queue, accepted, ref, got, broken>>
    BY <1>0, <1>6 DEF LoadSecond, Goto
  <2>2. queue = <<>> => size = 0
    <3>1. queue = <<>> => begin = accepted /\ end = accepted
      BY <1>0, <2>1 DEF Promised, Position
    <3>2. (SizeLimit + accepted - accepted) % SizeLimit = 0
      OBVIOUS
    <3> QED
      BY <3>1, <3>2
  <2> HIDE DEF size
  <2> QED
    BY <1>0, <2>1, <2>2 DEF NoUnderflow, Promised, Progress, Front
<1> QED
  BY <1>1, <1>2, <1>3, <1>4, <1>5, <1>6 DEF ConsumerStep, Consume

(* A consumer that does not use the queue stays where it is.               *)
LEMMA OthersIdleStep ==
  ASSUME QueueInv, OthersIdle, [Next]_vars
  PROVE  OthersIdle'
<1> USE TSQueueAssumption DEF QueueInv
<1>1. users' = users /\ users \subseteq Consumers
  BY DEF Next, Goes, choice, vars, TypeOK
<1> SUFFICES ASSUME NEW d \in Consumers \ users PROVE pc'[d] = "idle"
  BY <1>1 DEF OthersIdle
<1>2. pc[d] = "idle" /\ d \in Threads
  BY DEF OthersIdle, Threads
<1>3. ASSUME NEW t \in Threads, t # d, NEW label,
             pc' = Goto(t, label) \/ pc' \in NotifyOne(Goto(t, label))
      PROVE  pc'[d] = "idle"
  <2> DEFINE next == Goto(t, label)
  <2>1. DOMAIN next = Threads /\ next = [u \in Threads |-> next[u]]
        /\ next[d] = "idle"
    BY <1>2, <1>3 DEF Goto, TypeOK
  <2> HIDE DEF next
  <2>2. \/ pc' = next
        \/ \E c \in Consumers : next[c] = "waiting"
                               /\ pc' = [next EXCEPT ![c] = "woken"]
    <3>1. pc' = next \/ pc' \in NotifyOne(next)
      BY <1>3 DEF next
    <3> QED
      BY <2>1, <3>1, NotifyOneProperty
  <2>3. ASSUME NEW c \in Consumers, next[c] = "waiting",
               pc' = [next EXCEPT ![c] = "woken"]
        PROVE  pc'[d] = "idle"
    <3>1. c # d
      BY <2>1, <2>3
    <3> QED
      BY <1>2, <2>1, <2>3, <3>1
  <2> QED
    BY <2>1, <2>2, <2>3
<1>4. ASSUME NEW p \in Producers, ProducerStep(p) PROVE pc'[d] = "idle"
  BY <1>2, <1>3, <1>4
  DEF ProducerStep, PushRoom, PushBurn, PushBurnNothing, Break, PushFull,
      PushNotify, Enqueue, Threads
<1>5. ASSUME NEW c \in users, ConsumerStep(c) PROVE pc'[d] = "idle"
  <2>1. c \in Threads /\ c # d
    BY <1>1 DEF Threads
  <2>2. CASE UNCHANGED pc
    BY <1>2, <2>2
  <2>3. CASE ~UNCHANGED pc
    <3>1. \E label : pc' = Goto(c, label) \/ pc' \in NotifyOne(Goto(c, label))
      BY <1>5, <2>3
      DEF ConsumerStep, Consume, FrontReturns, FrontWaits, SpuriousWake, Read,
          Pop, LoadFirst, LoadSecond, Break
    <3> QED
      BY <1>3, <2>1, <3>1
  <2> QED
    BY <2>2, <2>3
<1> QED
  BY <1>2, <1>4, <1>5 DEF Next, vars

LEMMA ConsumerInvStep ==
  ASSUME ConsumerInv, [Next]_vars
  PROVE  ConsumerInv'
<1> USE DEF ConsumerInv, OrderedInv
<1>0. /\ OrderedInv' /\ OthersIdle'
      /\ users' = users /\ blocking' = blocking /\ users \subseteq Consumers
      /\ capacity' = capacity
  BY OrderedStep, OthersIdleStep DEF Next, Goes, choice, vars, QueueInv, TypeOK
<1> SUFFICES ASSUME Alone PROVE SoleInv'
  BY <1>0 DEF Alone
<1> USE <1>0 DEF SoleInv
<1>2. ASSUME NEW p \in Producers, PushRoom(p) \/ PushBurn(p)
      PROVE  SoleInv'
  <2>1. /\ queue' # <<>>
        /\ Front' = Front \/ (Front' = Front + 1 /\ ~blocking)
        /\ \A c \in Consumers : pc'[c] = pc[c]
        /\ accepted' = accepted + 1
        /\ UNCHANGED <<ref, loaded, got, broken>>
    BY <1>2, PushEffect DEF PushRoom, PushBurn, Enqueue
  <2>2. /\ Front \in Nat /\ got \in Nat /\ accepted \in Nat
        /\ \A c \in Consumers : ref[c] \in Nat
    BY FrontNumber DEF QueueInv, TypeOK
  <2>3. ASSUME NEW c \in users PROVE Promised(c)' /\ Progress(c)'
    <3>1. Promised(c)'
      BY <2>1 DEF Promised
    <3>2. Progress(c)'
      BY <2>1, <2>2 DEF Progress
    <3> QED
      BY <3>1, <3>2
  <2> QED
    BY <2>1, <2>2, <2>3 DEF NoUnderflow
<1>3. ASSUME NEW p \in Producers, PushFull(p) \/ PushNotify(p)
      PROVE  SoleInv'
  <2>1. UNCHANGED <<queue, accepted, ref, loaded, got, broken>>
    BY <1>3 DEF PushFull, PushNotify
  <2>2. \A c \in Consumers :
          pc'[c] = pc[c] \/ (pc'[c] = "woken" /\ pc[c] = "waiting")
    <3>1. CASE PushFull(p)
      BY <3>1, TSQueueAssumption DEF PushFull, Goto, QueueInv, TypeOK, Threads
    <3>2. CASE PushNotify(p)
      <4>1. /\ Goto(p, "idle") \in [Threads -> ProducerStates \cup ConsumerStates]
            /\ \A c \in Consumers : Goto(p, "idle")[c] = pc[c]
        BY TSQueueAssumption
        DEF QueueInv, TypeOK, Goto, ProducerStates, Threads
      <4>2. \/ pc' = Goto(p, "idle")
            \/ \E d \in Consumers :
                 /\ Goto(p, "idle")[d] = "waiting"
                 /\ pc' = [Goto(p, "idle") EXCEPT ![d] = "woken"]
        BY <3>2, <4>1, NotifyOneProperty DEF PushNotify
      <4> QED
        BY <4>1, <4>2 DEF Threads
    <3> QED
      BY <1>3, <3>1, <3>2
  <2>3. Front' = Front
    BY <2>1 DEF Front
  <2>4. ASSUME NEW c \in users PROVE Promised(c)' /\ Progress(c)'
    BY <2>1, <2>2, <2>3 DEF Promised, Progress
  <2> QED
    BY <2>1, <2>3, <2>4 DEF NoUnderflow
<1>4. ASSUME NEW c \in users, ConsumerStep(c) PROVE SoleInv'
  BY <1>4, ConsumerOwnStep DEF Alone
<1>5. CASE UNCHANGED vars
  BY <1>5 DEF vars, NoUnderflow, Promised, Progress, Front
<1>6. ASSUME NEW p \in Producers, PushBurnNothing(p) PROVE SoleInv'
  <2>1. Len(queue) = 0 /\ capacity \in Nat /\ ~(capacity > 0)
    BY <1>6, TSQueueAssumption DEF PushBurnNothing, QueueInv, TypeOK
  <2> QED
    BY <1>6, <2>1 DEF PushBurnNothing, Break, Promised, Progress, Front
<1> QED
  BY <1>2, <1>3, <1>4, <1>5, <1>6 DEF Next, ProducerStep

LEMMA ConsumerInvariant == Spec => []ConsumerInv
<1>1. Spec => [](OthersIdle /\ (Alone => SoleInv))
  <2>1. /\ OrderedInv /\ (OthersIdle /\ (Alone => SoleInv)) /\ [Next]_vars
        => (OthersIdle /\ (Alone => SoleInv))'
    BY ConsumerInvStep DEF ConsumerInv
  <2> QED
    BY <2>1, ConsumerInit, OrderedInvariant, PTL DEF Spec
<1> QED
  BY <1>1, OrderedInvariant, PTL DEF ConsumerInv

-----------------------------------------------------------------------------
(* A queue for at least one item is never popped empty while one consumer  *)
(* uses it, and what empty() tells that consumer stays true until it calls *)
(* front(), blocking or not (TSQueue.hpp:60-80).                           *)
THEOREM OneConsumerSafe ==
  Spec => []((Alone /\ capacity > 0 => NoUnderflow) /\ PollHonest)
<1>1. ConsumerInv => (Alone /\ capacity > 0 => NoUnderflow) /\ PollHonest
  BY DEF ConsumerInv, SoleInv, PollHonest, Promised
<1> QED
  BY <1>1, ConsumerInvariant, PTL

(* In a queue that blocks, what one consumer has been shown by front() is  *)
(* what its pop() will remove, so no reference dangles (TSQueue.hpp:47-69).*)
THEOREM OneConsumerHoldsHead ==
  Spec => [](HeldIsHead /\ (Alone /\ blocking => NoDanglingReference))
<1> DEFINE Good == Alone /\ blocking => NoDanglingReference
<1>1. ConsumerInv => HeldIsHead
  BY FrontNumber
  DEF ConsumerInv, OrderedInv, SoleInv, HeldIsHead, Promised, Progress
<1>2. Init => Good
  BY DEF Init, NoDanglingReference
<1>3. ConsumerInv /\ Good /\ [Next]_vars => Good'
  <2> SUFFICES ASSUME ConsumerInv, Good, [Next]_vars, Alone', blocking'
               PROVE  NoDanglingReference'
    OBVIOUS
  <2>1. Alone /\ blocking /\ NoDanglingReference
    BY DEF Next, Goes, choice, vars, Alone
  <2>2. ASSUME NEW c \in users, Read(c) PROVE NoDanglingReference'
    <3>1. queue # <<>> /\ queue[1] = ref[c]
      BY <1>1, <2>1, <2>2
      DEF Read, HeldIsHead, ConsumerInv, OrderedInv, QueueInv, TypeOK
    <3>2. 1 \in DOMAIN queue
      BY <3>1 DEF ConsumerInv, OrderedInv, QueueInv, TypeOK
    <3> QED
      BY <2>1, <2>2, <3>1, <3>2 DEF Read, NoDanglingReference
  <2> QED
    BY <2>1, <2>2
    DEF NoDanglingReference, Next, vars, ProducerStep, PushRoom, PushBurn,
        PushBurnNothing, PushFull, PushNotify, Enqueue, ConsumerStep, Consume, FrontReturns,
        FrontWaits, SpuriousWake, Pop, LoadFirst, LoadSecond, Break
<1>4. HeldIsHead /\ Good
        => HeldIsHead /\ (Alone /\ blocking => NoDanglingReference)
  OBVIOUS
<1> QED
  BY <1>1, <1>2, <1>3, <1>4, ConsumerInvariant, PTL DEF Spec

-----------------------------------------------------------------------------
(* A push sends, after dropping an unread front if it has to; the use of   *)
(* the reference delivers, or finds that a queue which does not block has  *)
(* dropped the item; a pop that removes an item nobody has read drops it;  *)
(* every other step leaves the channel alone.                              *)
LEMMA ChannelStep ==
  ASSUME ConsumerInv, ConsumerInv', [Next]_vars, Alone, capacity > 0
  PROVE  [Chan!ChanNext]_(Chan!chanVars)
<1> USE DEF ConsumerInv, OrderedInv, Ordered
<1>0. users \subseteq Consumers /\ blocking' = blocking
  BY DEF Next, Goes, choice, vars, QueueInv, TypeOK
<1> USE <1>0
<1>1. /\ queue \in Seq(Items) /\ queue' \in Seq(Items)
      /\ got \in Nat /\ accepted \in Nat /\ Front \in Nat
      /\ queue # <<>> => Head(queue) = Front + 1
  BY FrontNumber DEF QueueInv, TypeOK
<1>2. queue' # <<>> => Head(queue') = Front' + 1
  BY FrontNumber, QueueInv'
  DEF QueueInv, TypeOK, QueueConsecutive, Consecutive, Front
<1>goes. SUFFICES ASSUME broken = "none" PROVE [Chan!ChanNext]_(Chan!chanVars)
  BY DEF Next, Goes, vars, choice, Chan!chanVars, Unread
<1>3. ASSUME UNCHANGED <<queue, got, reads, broken>>
      PROVE  UNCHANGED Chan!chanVars
  BY <1>3 DEF Chan!chanVars, Unread
<1>4. ASSUME NEW p \in Producers, PushRoom(p) \/ PushBurn(p)
      PROVE  Chan!ChanNext
  <2> DEFINE item == accepted + 1
  <2> USE <1>goes
  <2>1. item \in Items /\ UNCHANGED <<got, reads, broken>>
    BY <1>1, <1>4, TSQueueAssumption DEF PushRoom, PushBurn, Enqueue, Items
  <2>2. CASE PushRoom(p)
    <3>1. queue' = Append(queue, item) /\ Front' = Front
      BY <1>1, <2>2 DEF PushRoom, Enqueue, Front
    <3>2. CASE queue # <<>>
      <4>1. Head(queue') = Head(queue) /\ queue' # <<>>
        BY <1>1, <2>1, <3>1, <3>2
      <4>2. Tail(queue') = Append(Tail(queue), item)
        BY <1>1, <2>1, <3>1, <3>2, TailOfAppend
      <4>3. Unread' = Append(Unread, item)
        BY <2>1, <3>1, <3>2, <4>1, <4>2 DEF Unread
      <4> QED
        BY <2>1, <4>3 DEF Chan!ChanNext, Chan!Send
    <3>3. CASE queue = <<>>
      <4>1. Front = accepted
        BY <3>3, FrontNumber
      <4>2. queue' # <<>> /\ Head(queue') > Front
        BY <1>1, <1>2, <2>1, <3>1
      <4>3. got <= Front
        BY <4>1
      <4> QED
        BY <2>1, <3>1, <3>3, <4>2, <4>3, <1>1
        DEF Chan!ChanNext, Chan!Send, Unread
    <3> QED
      BY <3>2, <3>3
  <2>3. CASE PushBurn(p)
    <3>1. /\ queue # <<>> /\ ~blocking
          /\ queue' = Append(Tail(queue), item)
      BY <1>1, <2>3, TSQueueAssumption DEF PushBurn, Enqueue
    <3>2. Front' = Front + 1 /\ queue' # <<>>
      <4>1. Len(queue') = Len(queue) /\ accepted' = accepted + 1
        BY <1>1, <2>1, <2>3, <3>1 DEF PushBurn, Enqueue
      <4> QED
        BY <1>1, <3>1, <4>1 DEF Front
    <3>3. Unread' = queue'
      BY <1>1, <1>2, <2>1, <3>2 DEF Unread
    <3>4. CASE got = Front + 1
      <4>1. Unread = Tail(queue)
        BY <1>1, <3>1, <3>4 DEF Unread
      <4> QED
        BY <2>1, <3>1, <3>3, <4>1 DEF Chan!ChanNext, Chan!Send
    <3>5. CASE got # Front + 1
      <4>1. Unread = queue
        BY <1>1, <3>5 DEF Unread
      <4> QED
        BY <2>1, <3>1, <3>3, <4>1 DEF Chan!ChanNext, Chan!SendDropping
    <3> QED
      BY <3>4, <3>5
  <2> QED
    BY <1>4, <2>2, <2>3
<1>5. ASSUME NEW c \in users, Read(c)
      PROVE  [Chan!ChanNext]_(Chan!chanVars)
  <2>1. CASE Break("dangling")
    <3>1. CASE \E i \in DOMAIN queue : queue[i] = ref[c]
      BY <1>5, <1>goes, <2>1, <3>1 DEF Read, Break
    <3>2. CASE \A i \in DOMAIN queue : queue[i] # ref[c]
      <4>1. ~blocking
        <5>1. SUFFICES ASSUME blocking PROVE FALSE
          OBVIOUS
        <5>2. queue # <<>> /\ ref[c] = Front + 1
          BY <1>5, <5>1 DEF SoleInv, Promised, Progress, Read
        <5>3. 1 \in DOMAIN queue /\ queue[1] = ref[c]
          BY <1>1, <5>2
        <5> QED
          BY <3>2, <5>3
      <4> QED
        BY <1>goes, <2>1, <4>1 DEF Break, Chan!ChanNext, Chan!Dangle, Unread
    <3> QED
      BY <3>1, <3>2
  <2>2. CASE ~Break("dangling")
    <3>1. /\ queue # <<>> /\ got' = Front + 1 /\ queue' = queue
          /\ pc[c] = "holding" /\ reads' = reads + 1 /\ UNCHANGED broken
      BY <1>5, <2>2, ReadsFront
    <3>2. got <= Front
      BY <1>1, <3>1 DEF SoleInv, Progress
    <3>3. Unread = queue /\ Unread' = Tail(queue)
      BY <1>1, <3>1, <3>2 DEF Unread
    <3> QED
      BY <1>1, <1>goes, <3>1, <3>3 DEF Chan!ChanNext, Chan!Deliver
  <2> QED
    BY <2>1, <2>2
<1>6. ASSUME NEW c \in users, Pop(c)
      PROVE  [Chan!ChanNext]_(Chan!chanVars)
  <2>1. queue # <<>>
    BY <1>6 DEF SoleInv, Promised, Pop
  <2>2. CASE queue # <<>>
    <3>1. /\ queue' = Tail(queue) /\ Front' = Front + 1
          /\ UNCHANGED <<got, reads, broken>>
      BY <1>6, <2>2, PopFront
    <3>2. Unread' = Tail(queue)
      BY <1>1, <1>2, <3>1 DEF Unread
    <3>3. CASE got = Front + 1
      <4>1. Unread = Tail(queue)
        BY <1>1, <2>2, <3>3 DEF Unread
      <4> QED
        BY <3>1, <3>2, <4>1 DEF Chan!chanVars
    <3>4. CASE got # Front + 1
      <4>1. Unread = queue
        BY <1>1, <2>2, <3>4 DEF Unread
      <4>2. ~blocking
        BY <1>1, <1>6, <3>4 DEF SoleInv, Progress, Pop
      <4> QED
        BY <1>goes, <2>2, <3>1, <3>2, <4>1, <4>2 DEF Chan!ChanNext, Chan!Drop
    <3> QED
      BY <3>3, <3>4
  <2> QED
    BY <2>1, <2>2
<1>7. CASE UNCHANGED <<queue, got, reads, broken>>
  BY <1>3, <1>7
<1>8. ASSUME NEW p \in Producers, PushBurnNothing(p) PROVE FALSE
  BY <1>8, TSQueueAssumption DEF PushBurnNothing, QueueInv, TypeOK
<1> QED
  BY <1>4, <1>5, <1>6, <1>7, <1>8
  DEF Next, vars, ProducerStep, PushFull, PushNotify, ConsumerStep, Consume,
      FrontReturns, FrontWaits, SpuriousWake, LoadFirst, LoadSecond

(* For any number of producers a queue for at least one item is a channel  *)
(* to its one consumer: every item is delivered at most once, in the order *)
(* of the pushes, and no pop() underflows; if the queue blocks, all are    *)
(* delivered and no reference dangles (TSQueue.hpp:15-69).                 *)
THEOREM TSQueueImplementsChannel == Spec => ImplementsChannel
<1>1. Init => Chan!ChanInit
  BY TSQueueAssumption DEF Init, Chan!ChanInit, Unread, Items
<1>2. ConsumerInv /\ ConsumerInv' /\ [Next]_vars
        => [Alone /\ capacity > 0 => Chan!ChanNext]_(Chan!chanVars)
  BY ChannelStep
<1> QED
  BY <1>1, <1>2, ConsumerInvariant, PTL DEF Spec, ImplementsChannel
=============================================================================
