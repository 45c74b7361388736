------------------------------ MODULE TSQueue ------------------------------
(***************************************************************************)
(* The class TSQueue of include/TSQueue.hpp: a std::queue with one mutex   *)
(* and one condition variable.  Producers call push(); a consumer repeats  *)
(* front(), the use of the reference front() returned, and pop(), and may  *)
(* call empty() or size() first.                                           *)
(*                                                                         *)
(* A critical section is one step, enabled while the mutex is free; the    *)
(* mutex is held between steps only by a thread that is stuck inside.      *)
(* empty() and size() take no lock, and are two loads.  Items are numbered *)
(* in the order in which they are pushed.                                  *)
(***************************************************************************)
EXTENDS Naturals, Sequences

CONSTANTS
  Producers, Consumers,  \* the threads
  NoThread,              \* nobody: the mutex is free
  Capacities,            \* the values m_size may have
  SizeLimit,             \* size_t counts modulo this number
  MaxItems               \* the number of items pushed, a bound

ASSUME TSQueueAssumption ==
  /\ Producers \cap Consumers = {}
  /\ NoThread \notin Producers \cup Consumers
  /\ Capacities \subseteq Nat
  /\ SizeLimit \in Nat \ {0}
  /\ MaxItems \in Nat /\ MaxItems < SizeLimit

VARIABLES
  queue,      \* the items in the std::queue
  accepted,   \* how many items have been pushed
  mutex,      \* the thread that holds the mutex between two steps
  pc,         \* where each thread is
  ref,        \* the item each consumer's reference was made for
  loaded,     \* the end of the queue a consumer's size() has read, and where
  got,        \* the last item a consumer read
  reads,      \* how often an item has been read, which no step looks at
  broken,     \* "none", or the undefined behaviour that happened
  blocking,   \* m_blocking, chosen by the constructor
  capacity,   \* m_size, chosen by the constructor
  users       \* the consumers that use the queue

choice == <<blocking, capacity, users>>

vars == <<queue, accepted, mutex, pc, ref, loaded, got, reads, broken, choice>>

Items == 1..MaxItems
Threads == Producers \cup Consumers

ProducerStates == {"idle", "relock", "notify"}
ConsumerStates ==
  {"idle", "sizing", "polled", "waiting", "woken", "holding", "read"}

TypeOK ==
  /\ queue \in Seq(Items)
  /\ accepted \in 0..MaxItems
  /\ mutex \in Producers \cup {NoThread}
  /\ pc \in [Threads -> ProducerStates \cup ConsumerStates]
  /\ \A p \in Producers : pc[p] \in ProducerStates
  /\ \A c \in Consumers : pc[c] \in ConsumerStates
  /\ ref \in [Consumers -> 0..MaxItems]
  /\ loaded \in [Consumers -> [first : {"begin", "end"}, at : 0..MaxItems]]
  /\ got \in 0..MaxItems
  /\ reads \in Nat
  /\ broken \in {"none", "underflow", "dangling"}
  /\ blocking \in BOOLEAN
  /\ capacity \in Capacities
  /\ users \subseteq Consumers

Unloaded == [first |-> "begin", at |-> 0]

Init ==
  /\ queue = <<>>
  /\ accepted = 0
  /\ mutex = NoThread
  /\ pc = [t \in Threads |-> "idle"]
  /\ ref = [c \in Consumers |-> 0]
  /\ loaded = [c \in Consumers |-> Unloaded]
  /\ got = 0
  /\ reads = 0
  /\ broken = "none"
  /\ blocking \in BOOLEAN
  /\ capacity \in Capacities
  /\ users \in SUBSET Consumers \ {{}}

Goto(t, label) == [pc EXCEPT ![t] = label]

\* notify_one(): one of the threads that wait is woken, if there is any.
NotifyOne(pcs) ==
  LET waiting == {c \in Consumers : pcs[c] = "waiting"}
  IN  IF waiting = {} THEN {pcs}
      ELSE {[pcs EXCEPT ![c] = "woken"] : c \in waiting}

Break(how) ==
  /\ broken' = how
  /\ UNCHANGED <<queue, accepted, mutex, pc, ref, loaded, got, reads>>

-----------------------------------------------------------------------------
(* push().                                                                 *)

Enqueue(p, old) ==
  /\ accepted < MaxItems
  /\ queue' = Append(old, accepted + 1)
  /\ accepted' = accepted + 1
  /\ pc' = Goto(p, "notify")
  /\ UNCHANGED <<mutex, ref, loaded, got, reads, broken>>

PushRoom(p) ==
  /\ pc[p] = "idle" /\ mutex = NoThread
  /\ Len(queue) < capacity
  /\ Enqueue(p, queue)

\* A mutated form of PushBurn: a queue that blocks burns too.
BurnAlways(p) ==
  /\ pc[p] = "idle" /\ mutex = NoThread
  /\ Len(queue) >= capacity /\ queue # <<>>
  /\ Enqueue(p, Tail(queue))

\* A full queue that does not block drops its front.
PushBurn(p) ==
  /\ pc[p] = "idle" /\ mutex = NoThread
  /\ Len(queue) >= capacity /\ queue # <<>>
  /\ ~blocking
  /\ Enqueue(p, Tail(queue))

\* A queue made for no items is full and has no front to drop.
PushBurnNothing(p) ==
  /\ pc[p] = "idle" /\ mutex = NoThread
  /\ Len(queue) >= capacity /\ queue = <<>>
  /\ ~blocking
  /\ Break("underflow")

\* A full queue that blocks locks the mutex again while it holds it, which
\* with a std::mutex never succeeds.
PushFull(p) ==
  /\ pc[p] = "idle" /\ mutex = NoThread
  /\ Len(queue) >= capacity
  /\ blocking
  /\ mutex' = p
  /\ pc' = Goto(p, "relock")
  /\ UNCHANGED <<queue, accepted, ref, loaded, got, reads, broken>>

\* A mutated form of PushNotify: nobody is notified.
PushSilently(p) ==
  /\ pc[p] = "notify"
  /\ pc' = Goto(p, "idle")
  /\ UNCHANGED <<queue, accepted, mutex, ref, loaded, got, reads, broken>>

\* The item is announced after the mutex has been released.
PushNotify(p) ==
  /\ pc[p] = "notify"
  /\ pc' \in NotifyOne(Goto(p, "idle"))
  /\ UNCHANGED <<queue, accepted, mutex, ref, loaded, got, reads, broken>>

-----------------------------------------------------------------------------
(* front(), the use of its result, and pop().                              *)

FrontReturns(c) ==
  /\ pc[c] \in {"idle", "polled", "woken"} /\ mutex = NoThread
  /\ queue # <<>>
  /\ ref' = [ref EXCEPT ![c] = Head(queue)]
  /\ pc' = Goto(c, "holding")
  /\ UNCHANGED <<queue, accepted, mutex, loaded, got, reads, broken>>

\* A mutated form of FrontWaits: the mutex is held while the thread waits.
FrontWaitsInside(c) ==
  /\ pc[c] \in {"idle", "polled", "woken"} /\ mutex = NoThread
  /\ queue = <<>>
  /\ pc' = Goto(c, "waiting")
  /\ mutex' = c
  /\ UNCHANGED <<queue, accepted, ref, loaded, got, reads, broken>>

FrontWaits(c) ==
  /\ pc[c] \in {"idle", "polled", "woken"} /\ mutex = NoThread
  /\ queue = <<>>
  /\ pc' = Goto(c, "waiting")
  /\ UNCHANGED <<queue, accepted, mutex, ref, loaded, got, reads, broken>>

SpuriousWake(c) ==
  /\ pc[c] = "waiting"
  /\ pc' = Goto(c, "woken")
  /\ UNCHANGED <<queue, accepted, mutex, ref, loaded, got, reads, broken>>

\* The caller of front() reads the item through the reference, without the
\* mutex; the item may have been removed, and the reference with it.
Read(c) ==
  /\ pc[c] = "holding"
  /\ \/ /\ \E i \in DOMAIN queue : queue[i] = ref[c]
        /\ got' = ref[c]
        /\ reads' = reads + 1
        /\ pc' = Goto(c, "read")
        /\ UNCHANGED <<queue, accepted, mutex, ref, loaded, broken>>
     \/ /\ \A i \in DOMAIN queue : queue[i] # ref[c]
        /\ Break("dangling")

\* A mutated form of Pop: the item stays in the queue and is delivered again.
PopNothing(c) ==
  /\ pc[c] = "read" /\ mutex = NoThread
  /\ pc' \in NotifyOne(Goto(c, "idle"))
  /\ UNCHANGED <<queue, accepted, mutex, ref, loaded, got, reads, broken>>

\* pop() removes whatever is at the front now, and does not look first.
Pop(c) ==
  /\ pc[c] = "read" /\ mutex = NoThread
  /\ \/ /\ queue # <<>>
        /\ queue' = Tail(queue)
        /\ pc' \in NotifyOne(Goto(c, "idle"))
        /\ UNCHANGED <<accepted, mutex, ref, loaded, got, reads, broken>>
     \/ /\ queue = <<>>
        /\ Break("underflow")

-----------------------------------------------------------------------------
(* empty() and size() compare the two ends of the queue, one after the     *)
(* other, in the order the compiler likes.                                 *)

Position(side) == IF side = "end" THEN accepted ELSE accepted - Len(queue)

LoadFirst(c) ==
  /\ pc[c] = "idle"
  /\ \E side \in {"begin", "end"} :
       loaded' = [loaded EXCEPT ![c] = [first |-> side, at |-> Position(side)]]
  /\ pc' = Goto(c, "sizing")
  /\ UNCHANGED <<queue, accepted, mutex, ref, got, reads, broken>>

\* A mutated form of LoadSecond: only the end is looked at.
LoadEnd(c) ==
  /\ pc[c] = "sizing"
  /\ loaded' = [loaded EXCEPT ![c] = Unloaded]
  /\ pc' = Goto(c, IF Position("end") = 0 THEN "idle" ELSE "polled")
  /\ UNCHANGED <<queue, accepted, mutex, ref, got, reads, broken>>

LoadSecond(c) ==
  /\ pc[c] = "sizing"
  /\ LET begin == IF loaded[c].first = "begin"
                    THEN loaded[c].at ELSE Position("begin")
         end   == IF loaded[c].first = "end"
                    THEN loaded[c].at ELSE Position("end")
         size  == (SizeLimit + end - begin) % SizeLimit
     IN  pc' = Goto(c, IF size = 0 THEN "idle" ELSE "polled")
  /\ loaded' = [loaded EXCEPT ![c] = Unloaded]
  /\ UNCHANGED <<queue, accepted, mutex, ref, got, reads, broken>>

-----------------------------------------------------------------------------
ProducerStep(p) ==
  \/ PushRoom(p) \/ PushBurn(p) \/ PushBurnNothing(p)
  \/ PushFull(p) \/ PushNotify(p)

Consume(c) == FrontReturns(c) \/ FrontWaits(c) \/ Read(c) \/ Pop(c)

ConsumerStep(c) ==
  Consume(c) \/ SpuriousWake(c) \/ LoadFirst(c) \/ LoadSecond(c)

\* Nothing is defined after undefined behaviour.
Goes == broken = "none" /\ UNCHANGED choice

Next ==
  /\ Goes
  /\ \/ \E p \in Producers : ProducerStep(p)
     \/ \E c \in users : ConsumerStep(c)

Spec == Init /\ [][Next]_vars

\* Every thread is scheduled: a producer that has pushed goes on to notify, and
\* a consumer consumes, unless it keeps asking for the size and is told 0.
\* Nobody needs to push, to ask for the size, or to be woken for nothing.
Fairness ==
  /\ \A p \in Producers : WF_vars(Goes /\ PushNotify(p))
  /\ \A c \in Consumers : /\ WF_vars(Goes /\ c \in users /\ Consume(c))
                          /\ WF_vars(Goes /\ c \in users /\ LoadSecond(c))

FairSpec == Spec /\ Fairness

-----------------------------------------------------------------------------
(* Properties.                                                             *)

\* No pop() finds the queue empty: one consumer pops only what front() has shown
\* it, and two that are shown the same front() may pop twice (TSQueue.hpp:60-69).
NoUnderflow == broken # "underflow"

\* The reference front() returned is still good when it is used
\* (TSQueue.hpp:47-58).
NoDanglingReference == broken # "dangling"

\* One consumer uses the queue: what a class of this shape is made for, as
\* front() and pop() are two calls.
Alone == \A c, d \in users : c = d

\* In a queue that blocks, the item its one consumer has looked at is the one
\* its pop() will remove (TSQueue.hpp:47-69).
HeldIsHead ==
  Alone /\ blocking =>
    \A c \in users :
      pc[c] \in {"holding", "read"} => queue # <<>> /\ Head(queue) = ref[c]

\* A consumer alone that empty() told the queue is not empty will not wait in
\* front(), although empty() takes no lock (TSQueue.hpp:77-80).
PollHonest ==
  Alone => \A c \in users : pc[c] = "polled" => queue # <<>>

\* No consumer sleeps beside an item that nobody is going to take or announce:
\* the one condition variable, notified outside the mutex by push(), loses no
\* wakeup, however many consumers share it.
NoLostWakeup ==
  (queue # <<>> /\ \E c \in Consumers : pc[c] = "waiting") =>
    \/ \E p \in Producers : pc[p] = "notify"
    \/ \E c \in Consumers : pc[c] \in {"woken", "holding", "read"}

\* A producer that waits for room is given it (TSQueue.hpp:29-34).
RoomAwaited ==
  \A p \in Producers : (pc[p] = "relock") ~> (pc[p] # "relock")

\* Every item that has been pushed leaves the queue, unless a push() into a
\* full queue that blocks has kept the mutex (TSQueue.hpp:22-69).
Drained ==
  \A i \in Items :
    (accepted >= i) ~> \/ accepted - Len(queue) >= i
                       \/ broken # "none" \/ mutex # NoThread

\* The items nobody has read: the front may have been read and not popped.
Unread == IF queue # <<>> /\ Head(queue) <= got THEN Tail(queue) ELSE queue

\* Its one consumer sees a channel (module Channel), if the queue has been made
\* for at least one item: no item is delivered twice or after a later one, and
\* nothing undefined happens to a queue that blocks, which loses nothing.  A
\* queue that does not block may drop its oldest item, even while the consumer
\* holds a reference to it (TSQueue.hpp:22-69).
Chan == INSTANCE Channel
          WITH lossy <- ~blocking, buffer <- Unread, delivered <- reads

ImplementsChannel ==
  Chan!ChanInit
  /\ [][Alone /\ capacity > 0 => Chan!ChanNext]_(Chan!chanVars)
=============================================================================
