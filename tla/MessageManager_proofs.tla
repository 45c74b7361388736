----------------------- MODULE MessageManager_proofs -----------------------
(***************************************************************************)
(* Proofs about module MessageManager, for any number of senders,          *)
(* receivers, slots and messages.                                          *)
(***************************************************************************)
EXTENDS MessageManager, FiniteSetTheorems, TLAPS

\* Each thread is in the method that it calls, with arguments it may pass.
CallsInv ==
  /\ \A t \in Senders : /\ pc[t] \in {"idle"} \cup Sending
                        /\ pc[t] # "idle" => msg[t] \in Messages
  /\ \A t \in Receivers : /\ pc[t] \in {"idle"} \cup Getting
                          /\ pc[t] # "idle" => slot[t] \in Reads[t]

TypeInv == TypeOK /\ CallsInv

LEMMA InitTypes == Init => TypeInv
BY MessageManagerAssumption
DEF Init, TypeInv, TypeOK, CallsInv, Messages, Threads, Sending, Getting

LEMMA TypesKept == TypeInv /\ [Next]_vars => TypeInv'
<1> SUFFICES ASSUME TypeInv, [Next]_vars PROVE TypeInv'
  OBVIOUS
<1>0. careful' = careful
  BY DEF Next, vars
<1> USE <1>0, MessageManagerAssumption
    DEF TypeInv, TypeOK, CallsInv, Messages, Threads, Sending, Getting, Goto, At
<1>1. CASE UNCHANGED vars
  BY <1>1 DEF vars
<1>2. ASSUME NEW n \in Settings, SetMaxSlots(n) PROVE TypeInv'
  BY <1>2 DEF SetMaxSlots, MaxAfter
<1>3. ASSUME NEW t \in Senders, NEW s \in Slots, CallSend(t, s) PROVE TypeInv'
  BY <1>3 DEF CallSend
<1>4. ASSUME NEW t \in Senders, TestSize(t) \/ Find(t) \/ Insert(t) \/ Lock(t)
      PROVE  TypeInv'
  <2>1. CASE TestSize(t)
    BY <2>1 DEF TestSize
  <2>2. CASE Find(t)
    BY <2>2 DEF Find
  <2>3. CASE Insert(t)
    BY <2>3 DEF Insert
  <2>4. CASE Lock(t)
    BY <2>4 DEF Lock
  <2> QED
    BY <1>4, <2>1, <2>2, <2>3, <2>4
<1>5. ASSUME NEW t \in Senders, Push(t) PROVE TypeInv'
  <2>1. msg[t] \in Messages /\ slot[t] \in Slots
    BY <1>5 DEF Push
  <2>2. queue' \in [Slots -> Seq(Messages)]
    BY <1>5, <2>1 DEF Push
  <2> QED
    BY <1>5, <2>2 DEF Push
<1>6. ASSUME NEW t \in Receivers, NEW s \in Reads[t], CallGet(t, s) PROVE TypeInv'
  BY <1>6 DEF CallGet
<1>7. ASSUME NEW t \in Receivers, CheckSlot(t) \/ TestEmpty(t) \/ Relock(t)
      PROVE  TypeInv'
  <2>1. CASE CheckSlot(t)
    BY <2>1 DEF CheckSlot
  <2>2. CASE TestEmpty(t)
    <3>1. pc' = [pc EXCEPT ![t] = "idle"] \/ pc' = [pc EXCEPT ![t] = "relock"]
      BY <2>2 DEF TestEmpty
    <3> QED
      BY <2>2, <3>1 DEF TestEmpty
  <2>3. CASE Relock(t)
    BY <2>3 DEF Relock
  <2> QED
    BY <1>7, <2>1, <2>2, <2>3
<1>8. ASSUME NEW t \in Receivers, Pop(t) PROVE TypeInv'
  <2>1. CASE queue[slot[t]] = <<>>
    BY <1>8, <2>1 DEF Pop
  <2>2. CASE queue[slot[t]] # <<>>
    <3>1. slot[t] \in Slots /\ queue[slot[t]] \in Seq(Messages)
      OBVIOUS
    <3>2. /\ Head(queue[slot[t]]) \in Messages
          /\ Tail(queue[slot[t]]) \in Seq(Messages)
      BY <2>2, <3>1
    <3>3. /\ queue' = [queue EXCEPT ![slot[t]] = Tail(queue[slot[t]])]
          /\ got' = [got EXCEPT ![slot[t]] = Head(queue[slot[t]])]
      BY <1>8, <2>2 DEF Pop
    <3>4. queue' \in [Slots -> Seq(Messages)]
      BY <3>1, <3>2, <3>3
    <3>5. got' \in [Slots -> 0..MaxMessages]
      BY <3>1, <3>2, <3>3
    <3>6. queue' \in [Slots -> Seq(Messages)] /\ got' \in [Slots -> 0..MaxMessages]
      BY <3>4, <3>5
    <3> QED
      BY <1>8, <2>2, <3>6 DEF Pop
  <2> QED
    BY <2>1, <2>2
<1>9. ASSUME NEW t \in Threads, Race(t) PROVE TypeInv'
  BY <1>9 DEF Race
<1> QED
  BY <1>1, <1>2, <1>3, <1>4, <1>5, <1>6, <1>7, <1>8, <1>9
  DEF Next, SendStep, GetStep

(* Every variable keeps its type, so what is in a queue was sent            *)
(* (MessageManager.hpp:85-166).                                             *)
THEOREM ManagerTypeCorrect == Spec => []TypeOK
<1>1. TypeInv => TypeOK
  BY DEF TypeInv
<1> QED
  BY <1>1, InitTypes, TypesKept, PTL DEF Spec

-----------------------------------------------------------------------------
\* A mutex is held by the thread that is in its critical section.
LockInv ==
  /\ \A t \in Threads : pc[t] \in {"push", "pop"} => lock[slot[t]] = t
  /\ \A s \in Slots : lock[s] # Nobody =>
       pc[lock[s]] \in {"push", "pop"} /\ slot[lock[s]] = s

\* No other receiver may ask for the slot of this one.
Sole(t) == \A u \in Receivers \ {t} : slot[t] \notin Reads[u]

\* The only reader of a slot that is on the way to the mutex finds a message,
\* or a sender that is about to push one holds it.
ReaderInv ==
  \A t \in Receivers : Sole(t) =>
    /\ pc[t] = "relock" => queue[slot[t]] # <<>> \/ lock[slot[t]] \in Senders
    /\ pc[t] = "pop" => queue[slot[t]] # <<>>

LEMMA LocksKept ==
  ASSUME TypeInv, LockInv, [Next]_vars
  PROVE  LockInv'
<1> USE MessageManagerAssumption
    DEF TypeInv, TypeOK, CallsInv, Threads, Goto, At, LockInv
<1>1. CASE UNCHANGED vars
  BY <1>1 DEF vars
<1>2. ASSUME NEW n \in Settings, SetMaxSlots(n) PROVE LockInv'
  BY <1>2 DEF SetMaxSlots
<1>3. ASSUME NEW t \in Senders, NEW s \in Slots, CallSend(t, s) PROVE LockInv'
  BY <1>3 DEF CallSend
<1>4. ASSUME NEW t \in Senders, TestSize(t) \/ Find(t) \/ Insert(t) PROVE LockInv'
  <2>1. CASE TestSize(t)
    BY <2>1 DEF TestSize
  <2>2. CASE Find(t)
    BY <2>2 DEF Find
  <2>3. CASE Insert(t)
    BY <2>3 DEF Insert
  <2> QED
    BY <1>4, <2>1, <2>2, <2>3
<1>5. ASSUME NEW t \in Senders, Lock(t) PROVE LockInv'
  BY <1>5 DEF Lock
<1>6. ASSUME NEW t \in Senders, Push(t) PROVE LockInv'
  BY <1>6 DEF Push
<1>7. ASSUME NEW t \in Receivers, NEW s \in Reads[t], CallGet(t, s) PROVE LockInv'
  BY <1>7 DEF CallGet
<1>8. ASSUME NEW t \in Receivers, CheckSlot(t) \/ TestEmpty(t) PROVE LockInv'
  <2>1. CASE CheckSlot(t)
    BY <2>1 DEF CheckSlot
  <2>2. CASE TestEmpty(t)
    <3>1. pc[t] = "empty" /\ UNCHANGED <<lock, slot>>
      BY <2>2 DEF TestEmpty
    <3>2. pc'[t] \notin {"push", "pop"} /\ \A u \in Threads \ {t} : pc'[u] = pc[u]
      BY <2>2 DEF TestEmpty
    <3>3. \A s \in Slots : lock[s] # Nobody => lock[s] \in Threads \ {t}
      BY <3>1
    <3> QED
      BY <3>1, <3>2, <3>3
  <2> QED
    BY <1>8, <2>1, <2>2
<1>9. ASSUME NEW t \in Receivers, Relock(t) PROVE LockInv'
  BY <1>9 DEF Relock
<1>10. ASSUME NEW t \in Receivers, Pop(t) PROVE LockInv'
  <2>1. CASE queue[slot[t]] = <<>>
    BY <1>10, <2>1 DEF Pop
  <2>2. CASE queue[slot[t]] # <<>>
    <3>1. /\ pc[t] = "pop" /\ slot' = slot /\ pc' = [pc EXCEPT ![t] = "idle"]
          /\ lock' = [lock EXCEPT ![slot[t]] = Nobody]
      BY <1>10, <2>2 DEF Pop
    <3> QED
      BY <3>1
  <2> QED
    BY <2>1, <2>2
<1>11. ASSUME NEW t \in Threads, Race(t) PROVE LockInv'
  BY <1>11 DEF Race
<1> QED
  BY <1>1, <1>2, <1>3, <1>4, <1>5, <1>6, <1>7, <1>8, <1>9, <1>10, <1>11
  DEF Next, SendStep, GetStep

LEMMA ReadersKept ==
  ASSUME TypeInv, LockInv, ReaderInv, [Next]_vars
  PROVE  ReaderInv'
<1> USE MessageManagerAssumption
    DEF TypeInv, TypeOK, CallsInv, Threads, Goto, At, LockInv, ReaderInv, Sole
<1>1. CASE UNCHANGED vars
  BY <1>1 DEF vars
<1>2. ASSUME NEW n \in Settings, SetMaxSlots(n) PROVE ReaderInv'
  BY <1>2 DEF SetMaxSlots
<1>3. ASSUME NEW t \in Senders, NEW s \in Slots, CallSend(t, s) PROVE ReaderInv'
  BY <1>3 DEF CallSend
<1>4. ASSUME NEW t \in Senders, TestSize(t) \/ Find(t) \/ Insert(t) PROVE ReaderInv'
  <2>1. CASE TestSize(t)
    BY <2>1 DEF TestSize
  <2>2. CASE Find(t)
    BY <2>2 DEF Find
  <2>3. CASE Insert(t)
    BY <2>3 DEF Insert
  <2> QED
    BY <1>4, <2>1, <2>2, <2>3
<1>5. ASSUME NEW t \in Senders, Lock(t) PROVE ReaderInv'
  BY <1>5 DEF Lock
<1>6. ASSUME NEW t \in Senders, Push(t) PROVE ReaderInv'
  <2>1. /\ queue'[slot[t]] = Append(queue[slot[t]], msg[t])
        /\ queue[slot[t]] \in Seq(Messages) /\ lock[slot[t]] = t
        /\ \A s \in Slots \ {slot[t]} : queue'[s] = queue[s] /\ lock'[s] = lock[s]
    BY <1>6 DEF Push
  <2>2. queue'[slot[t]] # <<>>
    <3>1. msg[t] \in Messages
      BY <1>6 DEF Push, Sending
    <3>2. Len(Append(queue[slot[t]], msg[t])) = Len(queue[slot[t]]) + 1
      BY <2>1, <3>1
    <3>3. Len(queue'[slot[t]]) # 0
      BY <2>1, <3>2
    <3> QED
      BY <3>3
  <2>3. UNCHANGED slot /\ \A u \in Receivers : pc'[u] = pc[u] /\ slot[u] \in Slots
    BY <1>6 DEF Push
  <2> QED
    BY <2>1, <2>2, <2>3
<1>7. ASSUME NEW t \in Receivers, NEW s \in Reads[t], CallGet(t, s) PROVE ReaderInv'
  BY <1>7 DEF CallGet
<1>8. ASSUME NEW t \in Receivers, CheckSlot(t) PROVE ReaderInv'
  BY <1>8 DEF CheckSlot
<1>9. ASSUME NEW t \in Receivers, TestEmpty(t) PROVE ReaderInv'
  <2>1. Sole(t) /\ lock[slot[t]] # Nobody => lock[slot[t]] \in Senders
    <3> SUFFICES ASSUME Sole(t), lock[slot[t]] # Nobody, lock[slot[t]] \in Receivers
                 PROVE  FALSE
      OBVIOUS
    <3> DEFINE u == lock[slot[t]]
    <3>1. pc[t] = "empty" /\ pc[u] \in {"push", "pop"} /\ slot[u] = slot[t]
      BY <1>9 DEF TestEmpty
    <3>2. u # t /\ slot[u] \in Reads[u]
      BY <3>1
    <3> QED
      BY <3>1, <3>2
  <2>2. /\ UNCHANGED <<queue, lock, slot>>
        /\ \A u \in Receivers \ {t} : pc'[u] = pc[u]
        /\ pc'[t] \in {"idle", "relock"}
        /\ pc'[t] = "relock" => queue[slot[t]] # <<>> \/ lock[slot[t]] # Nobody
    BY <1>9 DEF TestEmpty
  <2> QED
    BY <2>1, <2>2
<1>10. ASSUME NEW t \in Receivers, Relock(t) PROVE ReaderInv'
  <2>1. ASSUME NEW u \in Receivers \ {t}, Sole(u), pc[u] # "idle"
        PROVE  slot[u] # slot[t]
    BY <1>10, <2>1 DEF Relock
  <2>2. /\ UNCHANGED <<queue, slot>> /\ pc[t] = "relock"
        /\ \A u \in Receivers \ {t} : pc'[u] = pc[u]
        /\ pc'[t] = "pop" /\ lock[slot[t]] = Nobody
        /\ \A s \in Slots \ {slot[t]} : lock'[s] = lock[s]
    BY <1>10 DEF Relock
  <2> QED
    BY <2>1, <2>2
<1>11. ASSUME NEW t \in Receivers, Pop(t) PROVE ReaderInv'
  <2>1. ASSUME NEW u \in Receivers \ {t}, Sole(u), pc[u] # "idle"
        PROVE  slot[u] # slot[t]
    BY <1>11, <2>1 DEF Pop
  <2>2. CASE queue[slot[t]] # <<>>
    <3>1. /\ UNCHANGED slot /\ pc'[t] = "idle"
          /\ \A u \in Receivers \ {t} : pc'[u] = pc[u]
          /\ \A s \in Slots \ {slot[t]} : lock'[s] = lock[s] /\ queue'[s] = queue[s]
      BY <1>11, <2>2 DEF Pop
    <3>2. ASSUME NEW u \in Receivers, Sole(u), pc'[u] # "idle"
          PROVE  /\ u # t /\ pc'[u] = pc[u] /\ slot'[u] = slot[u]
                 /\ lock'[slot[u]] = lock[slot[u]] /\ queue'[slot[u]] = queue[slot[u]]
      BY <2>1, <3>1, <3>2
    <3>3. \A u \in Receivers : Sole(u)' <=> Sole(u)
      BY <3>1
    <3> SUFFICES ASSUME NEW u \in Receivers, Sole(u), pc'[u] # "idle"
                 PROVE  /\ pc'[u] = "relock" =>
                             queue'[slot'[u]] # <<>> \/ lock'[slot'[u]] \in Senders
                        /\ pc'[u] = "pop" => queue'[slot'[u]] # <<>>
      BY <3>3
    <3>4. /\ pc[u] = "relock" => queue[slot[u]] # <<>> \/ lock[slot[u]] \in Senders
          /\ pc[u] = "pop" => queue[slot[u]] # <<>>
      OBVIOUS
    <3>5. /\ pc'[u] = pc[u] /\ slot'[u] = slot[u]
          /\ lock'[slot[u]] = lock[slot[u]] /\ queue'[slot[u]] = queue[slot[u]]
      BY <3>2
    <3> QED
      BY <3>4, <3>5
  <2>3. CASE queue[slot[t]] = <<>>
    BY <1>11, <2>3 DEF Pop
  <2> QED
    BY <2>2, <2>3
<1>12. ASSUME NEW t \in Threads, Race(t) PROVE ReaderInv'
  BY <1>12 DEF Race
<1> QED
  BY <1>1, <1>2, <1>3, <1>4, <1>5, <1>6, <1>7, <1>8, <1>9, <1>10, <1>11, <1>12
  DEF Next, SendStep, GetStep

(* The only receiver of a slot that has seen that the queue is not empty    *)
(* finds a message when it has the mutex (MessageManager.hpp:154-160).      *)
THEOREM SoleReaderFindsMessage == Spec => []SoleReaderSafe
<1>1. Init => LockInv /\ ReaderInv
  BY MessageManagerAssumption DEF Init, LockInv, ReaderInv, Threads
<1>2. ReaderInv => SoleReaderSafe
  BY DEF ReaderInv, SoleReaderSafe, Sole
<1>3. TypeInv /\ LockInv /\ ReaderInv /\ [Next]_vars => LockInv' /\ ReaderInv'
  BY LocksKept, ReadersKept
<1> QED
  BY <1>1, <1>2, <1>3, InitTypes, TypesKept, PTL DEF Spec

-----------------------------------------------------------------------------
\* The senders that may still make a slot.
Making == {t \in Senders : pc[t] \in {"find", "insert"}}

\* Each of them has a place among those that the map may have too many.
RoomInv ==
  \E m \in Settings \cup {InitialMax} :
    Cardinality(slots) + Cardinality(Making) <= m + Cardinality(Senders)

LEMMA Finite ==
  ASSUME TypeInv
  PROVE  /\ IsFiniteSet(slots) /\ Cardinality(slots) \in Nat
         /\ IsFiniteSet(Making) /\ Cardinality(Making) \in Nat
         /\ Cardinality(Senders) \in Nat /\ Cardinality(Making) <= Cardinality(Senders)
<1>1. slots \subseteq Slots /\ Making \subseteq Senders
  BY DEF TypeInv, TypeOK, Making
<1> QED
  BY <1>1, MessageManagerAssumption, FS_Subset, FS_CardinalityType

LEMMA RoomKept ==
  ASSUME TypeInv, RoomInv, [Next]_vars, TypeInv'
  PROVE  RoomInv'
<1> USE MessageManagerAssumption
<1>0. /\ IsFiniteSet(slots) /\ Cardinality(slots) \in Nat
      /\ IsFiniteSet(Making) /\ Cardinality(Making) \in Nat
      /\ IsFiniteSet(Making') /\ Cardinality(Making') \in Nat
      /\ Cardinality(Senders) \in Nat /\ Cardinality(Making') <= Cardinality(Senders)
  BY Finite, Making' \subseteq Senders, FS_Subset, FS_CardinalityType DEF Making
<1>1. PICK m \in Settings \cup {InitialMax} :
        Cardinality(slots) + Cardinality(Making) <= m + Cardinality(Senders)
  BY DEF RoomInv
<1>2. CASE slots' = slots /\ Making' \subseteq Making
  <2>1. Cardinality(Making') <= Cardinality(Making)
    BY <1>0, <1>2, FS_Subset
  <2> QED
    BY <1>0, <1>1, <1>2, <2>1 DEF RoomInv
<1>3. ASSUME NEW t \in Senders, TestSize(t) PROVE RoomInv'
  <2>1. slots' = slots /\ maxSlots' = maxSlots /\ maxSlots \in Settings \cup {InitialMax}
    BY <1>3 DEF TestSize, TypeInv, TypeOK
  <2>2. CASE Cardinality(slots) <= maxSlots
    BY <1>0, <2>1, <2>2 DEF RoomInv
  <2>3. CASE ~(Cardinality(slots) <= maxSlots)
    <3>1. Making' \subseteq Making
      BY <1>3, <2>3 DEF TestSize, Goto, Making, TypeInv, TypeOK, Threads
    <3> QED
      BY <1>2, <2>1, <3>1
  <2> QED
    BY <2>2, <2>3
<1>4. ASSUME NEW t \in Senders, Insert(t) PROVE RoomInv'
  <2>1. slots' = slots \cup {slot[t]} /\ t \in Making /\ Making' = Making \ {t}
    BY <1>4 DEF Insert, At, Goto, Making, TypeInv, TypeOK, Threads
  <2>2. Cardinality(Making') = Cardinality(Making) - 1
    <3>1. Cardinality(Making \ {t}) = Cardinality(Making) - 1
      BY <1>0, <2>1, FS_RemoveElement
    <3> QED
      BY <2>1, <3>1
  <2>3. Cardinality(slots') <= Cardinality(slots) + 1 /\ Cardinality(slots') \in Nat
    <3>1. /\ Cardinality(slots \cup {slot[t]}) \in {Cardinality(slots), Cardinality(slots) + 1}
      BY <1>0, FS_AddElement
    <3> QED
      BY <1>0, <2>1, <3>1
  <2> QED
    BY <1>0, <1>1, <2>2, <2>3 DEF RoomInv
<1>5. CASE UNCHANGED vars
  BY <1>2, <1>5 DEF vars, Making
<1>6. ASSUME NEW n \in Settings, SetMaxSlots(n) PROVE RoomInv'
  BY <1>2, <1>6 DEF SetMaxSlots, Making
<1> USE DEF Making, Goto, At, TypeInv, TypeOK, Threads
<1>7. ASSUME NEW t \in Senders, NEW s \in Slots, CallSend(t, s) PROVE RoomInv'
  BY <1>2, <1>7 DEF CallSend
<1>8. ASSUME NEW t \in Senders, Find(t) PROVE RoomInv'
  BY <1>2, <1>8 DEF Find
<1>9. ASSUME NEW t \in Senders, Lock(t) \/ Push(t) PROVE RoomInv'
  BY <1>2, <1>9 DEF Lock, Push
<1>10. ASSUME NEW t \in Receivers, NEW s \in Reads[t], CallGet(t, s) PROVE RoomInv'
  BY <1>2, <1>10 DEF CallGet
<1>11. ASSUME NEW t \in Receivers, GetStep(t) PROVE RoomInv'
  <2>1. slots' = slots /\ \A u \in Senders : pc'[u] = pc[u]
    <3>1. CASE CheckSlot(t)
      BY <3>1 DEF CheckSlot
    <3>2. CASE TestEmpty(t)
      BY <3>2 DEF TestEmpty
    <3>3. CASE Relock(t)
      BY <3>3 DEF Relock
    <3>4. CASE Pop(t)
      BY <3>4 DEF Pop
    <3> QED
      BY <1>11, <3>1, <3>2, <3>3, <3>4 DEF GetStep
  <2> QED
    BY <1>2, <2>1
<1>12. ASSUME NEW t \in Threads, Race(t) PROVE RoomInv'
  BY <1>2, <1>12 DEF Race
<1> QED
  BY <1>3, <1>4, <1>5, <1>6, <1>7, <1>8, <1>9, <1>10, <1>11, <1>12
  DEF Next, SendStep

(* The map has at most as many slots too many as there are senders          *)
(* (MessageManager.hpp:123-127).                                            *)
THEOREM SlotsStayBounded == Spec => []SlotsBounded
<1>1. Init => RoomInv
  <2> SUFFICES ASSUME Init PROVE RoomInv
    OBVIOUS
  <2>1. /\ Making = {}
        /\ slots = {} \/ (slots = Slots /\ Cardinality(Slots) <= InitialMax + 1)
    BY DEF Init, Making, Threads
  <2>2. Cardinality({}) = 0 /\ Cardinality(Slots) \in Nat
    BY MessageManagerAssumption, FS_EmptySet, FS_CardinalityType
  <2>3. Cardinality(Senders) \in Nat /\ Cardinality(Senders) # 0
    BY MessageManagerAssumption, FS_EmptySet, FS_CardinalityType
  <2>4. Cardinality(slots) \in Nat /\ Cardinality(slots) <= InitialMax + 1
    BY <2>1, <2>2, MessageManagerAssumption
  <2>5. Cardinality(slots) + Cardinality(Making) <= InitialMax + Cardinality(Senders)
    BY <2>1, <2>2, <2>3, <2>4, MessageManagerAssumption
  <2> QED
    BY <2>5 DEF RoomInv
<1>2. TypeInv /\ RoomInv => SlotsBounded
  <2> SUFFICES ASSUME TypeInv, RoomInv PROVE SlotsBounded
    OBVIOUS
  <2> QED
    BY Finite, MessageManagerAssumption DEF RoomInv, SlotsBounded
<1> QED
  BY <1>1, <1>2, InitTypes, TypesKept, RoomKept, PTL DEF Spec

-----------------------------------------------------------------------------
\* One sender at a time inserts, and what it inserts is missing.
InsertInv ==
  /\ \A t, u \in Threads : pc[t] = "insert" /\ pc[u] = "insert" => t = u
  /\ \A t \in Threads : pc[t] = "insert" => slot[t] \notin slots

LEMMA InsertKept ==
  ASSUME TypeInv, InsertInv, [Next]_vars
  PROVE  InsertInv'
<1> USE DEF InsertInv, Goto
<1>0. pc \in [Threads -> {"idle"} \cup Sending \cup Getting]
      /\ Senders \subseteq Threads /\ Receivers \subseteq Threads
  BY DEF TypeInv, TypeOK, Threads
<1>1. CASE UNCHANGED <<pc, slots, slot>>
  BY <1>1
<1>2. ASSUME NEW t \in Threads, UNCHANGED slots, pc'[t] # "insert",
             \A u \in Threads \ {t} : pc'[u] = pc[u] /\ slot'[u] = slot[u]
      PROVE  InsertInv'
  BY <1>2
<1>3. ASSUME NEW t \in Senders, Find(t) PROVE InsertInv'
  <2>1. \A u \in Threads \ {t} : pc[u] # "insert"
    BY <1>3 DEF Find, At, Inserting
  <2>2. /\ UNCHANGED <<slots, slot>>
        /\ pc' = [pc EXCEPT ![t] = IF slot[t] \in slots THEN "lock" ELSE "insert"]
    BY <1>3 DEF Find
  <2>3. /\ \A u \in Threads \ {t} : pc'[u] # "insert"
        /\ pc'[t] = "insert" => slot[t] \notin slots
    BY <1>0, <2>1, <2>2
  <2> QED
    BY <2>2, <2>3
<1>4. ASSUME NEW t \in Senders, Insert(t) PROVE InsertInv'
  <2>1. \A u \in Threads \ {t} : pc[u] # "insert"
    BY <1>4 DEF Insert, At, Inserting
  <2>2. pc' = [pc EXCEPT ![t] = "lock"]
    BY <1>4 DEF Insert
  <2>3. \A u \in Threads : pc'[u] # "insert"
    BY <1>0, <2>1, <2>2
  <2> QED
    BY <2>3
<1>5. ASSUME NEW t \in Senders, NEW s \in Slots, CallSend(t, s) PROVE InsertInv'
  BY <1>0, <1>2, <1>5 DEF CallSend, TypeInv, TypeOK
<1>6. ASSUME NEW t \in Receivers, NEW s \in Reads[t], CallGet(t, s) PROVE InsertInv'
  BY <1>0, <1>2, <1>6 DEF CallGet, TypeInv, TypeOK
<1>7. ASSUME NEW t \in Senders, TestSize(t) \/ Lock(t) \/ Push(t) PROVE InsertInv'
  <2>1. /\ UNCHANGED <<slots, slot>>
        /\ pc' \in {[pc EXCEPT ![t] = label] : label \in {"find", "idle", "push"}}
    BY <1>7 DEF TestSize, Lock, Push
  <2> QED
    BY <1>0, <1>2, <2>1
<1>8. ASSUME NEW t \in Receivers, GetStep(t) PROVE InsertInv'
  <2>1. /\ UNCHANGED <<slots, slot>>
        /\ \/ UNCHANGED pc
           \/ pc' \in {[pc EXCEPT ![t] = label] :
                         label \in {"empty", "idle", "relock", "pop"}}
    BY <1>8 DEF GetStep, CheckSlot, TestEmpty, Relock, Pop
  <2>2. CASE UNCHANGED pc
    BY <1>1, <2>1, <2>2
  <2>3. CASE ~UNCHANGED pc
    BY <1>0, <1>2, <2>1, <2>3
  <2> QED
    BY <2>2, <2>3
<1>9. CASE \/ UNCHANGED vars \/ \E t \in Threads : Race(t)
           \/ \E n \in Settings : SetMaxSlots(n)
  BY <1>1, <1>9 DEF vars, Race, SetMaxSlots
<1> QED
  BY <1>3, <1>4, <1>5, <1>6, <1>7, <1>8, <1>9 DEF Next, SendStep

-----------------------------------------------------------------------------
\* In careful use the map never changes, and nothing is undefined.
CarefulSafe == careful => slots = Slots /\ fault = "none"

\* In careful use nobody asks for a slot that another may read.
ApartInv == careful => \A t \in Receivers : pc[t] # "idle" => Sole(t)

LEMMA ApartKept ==
  ASSUME TypeInv, ApartInv, [Next]_vars
  PROVE  ApartInv'
<1> USE DEF ApartInv, Sole, Goto, At
<1>0. /\ pc \in [Threads -> {"idle"} \cup Sending \cup Getting]
      /\ slot \in [Threads -> Slots] /\ careful' = careful
      /\ Senders \subseteq Threads /\ Receivers \subseteq Threads
      /\ Senders \cap Receivers = {}
  BY MessageManagerAssumption DEF TypeInv, TypeOK, Threads, Next, vars
<1>1. ASSUME UNCHANGED slot,
             \A t \in Receivers : pc'[t] # "idle" => pc[t] # "idle"
      PROVE  ApartInv'
  BY <1>0, <1>1
<1>2. ASSUME NEW t \in Senders, (\E s \in Slots : CallSend(t, s)) \/ SendStep(t)
      PROVE  ApartInv'
  <2>1. \A u \in Receivers : pc'[u] = pc[u] /\ slot'[u] = slot[u]
    BY <1>0, <1>2
    DEF CallSend, SendStep, TestSize, Find, Insert, Lock, Push
  <2> QED
    BY <1>0, <2>1
<1>3. ASSUME NEW t \in Receivers, NEW s \in Reads[t], CallGet(t, s)
      PROVE  ApartInv'
  BY <1>0, <1>3 DEF CallGet
<1>4. ASSUME NEW t \in Receivers, GetStep(t) PROVE ApartInv'
  <2>1. pc[t] # "idle" /\ UNCHANGED slot
        /\ \A u \in Receivers \ {t} : pc'[u] = pc[u]
    <3>1. CASE TestEmpty(t)
      BY <1>0, <3>1 DEF TestEmpty
    <3>2. CASE CheckSlot(t) \/ Relock(t) \/ Pop(t)
      BY <1>0, <3>2 DEF CheckSlot, Relock, Pop
    <3> QED
      BY <1>4, <3>1, <3>2 DEF GetStep
  <2> QED
    BY <1>1, <2>1
<1>5. CASE \/ UNCHANGED vars \/ \E t \in Threads : Race(t)
           \/ \E n \in Settings : SetMaxSlots(n)
  BY <1>1, <1>5 DEF vars, Race, SetMaxSlots
<1> QED
  BY <1>2, <1>3, <1>4, <1>5 DEF Next

\* The invariants of careful use.
SafeInv == LockInv /\ ReaderInv /\ InsertInv /\ ApartInv /\ CarefulSafe

(* Nobody inserts, the mutex keeps two threads out of one queue, and who    *)
(* pops is a slot's only reader.                                            *)
LEMMA CarefulKept ==
  ASSUME TypeInv, SafeInv, [Next]_vars
  PROVE  CarefulSafe'
<1>0. careful' = careful
  BY DEF Next, vars
<1> SUFFICES ASSUME careful, slots = Slots, fault = "none"
             PROVE  UNCHANGED <<slots, fault>>
  BY <1>0 DEF SafeInv, CarefulSafe
<1>1. \A t \in Threads : pc[t] # "insert"
  BY DEF SafeInv, InsertInv, TypeInv, TypeOK
<1>2. ASSUME NEW t \in Threads PROVE ~Race(t)
  <2>1. ~Inserting(t)
    BY <1>1 DEF Inserting
  <2>2. ASSUME NEW u \in Threads \ {t},
               pc[t] \in {"push", "pop"}, pc[u] \in {"push", "pop"}
        PROVE  slot[u] # slot[t]
    BY <2>2 DEF SafeInv, LockInv
  <2> QED
    BY <2>1, <2>2 DEF Race, Clashing
<1>3. ASSUME NEW t \in Senders,
             (\E s \in Slots : CallSend(t, s)) \/ SendStep(t)
      PROVE  UNCHANGED <<slots, fault>>
  BY <1>1, <1>3
  DEF CallSend, SendStep, TestSize, Find, Insert, Lock, Push, At, Threads
<1>4. ASSUME NEW t \in Receivers,
             (\E s \in Reads[t] : CallGet(t, s)) \/ GetStep(t)
      PROVE  UNCHANGED <<slots, fault>>
  <2>1. CASE Pop(t)
    <3>1. pc[t] = "pop"
      BY <2>1 DEF Pop, At
    <3>2. Sole(t)
      BY <3>1 DEF SafeInv, ApartInv
    <3>3. queue[slot[t]] # <<>>
      BY <3>1, <3>2 DEF SafeInv, ReaderInv
    <3> QED
      BY <2>1, <3>3 DEF Pop
  <2>2. CASE ~Pop(t)
    BY <1>4, <2>2 DEF CallGet, GetStep, CheckSlot, TestEmpty, Relock
  <2> QED
    BY <2>1, <2>2
<1>5. ASSUME NEW n \in Settings, SetMaxSlots(n) PROVE UNCHANGED <<slots, fault>>
  BY <1>5 DEF SetMaxSlots
<1>6. CASE UNCHANGED vars
  BY <1>6 DEF vars
<1> QED
  BY <1>2, <1>3, <1>4, <1>5, <1>6 DEF Next

LEMMA SafeInvariant == Spec => [](TypeInv /\ SafeInv)
<1>1. Init => SafeInv
  BY MessageManagerAssumption
  DEF Init, SafeInv, LockInv, ReaderInv, InsertInv, ApartInv, CarefulSafe, Threads
<1>2. TypeInv /\ SafeInv /\ [Next]_vars => SafeInv'
  BY LocksKept, ReadersKept, InsertKept, ApartKept, CarefulKept DEF SafeInv
<1> QED
  BY <1>1, <1>2, InitTypes, TypesKept, PTL DEF Spec

-----------------------------------------------------------------------------
\* The senders inside a call, and the messages they have been given.
Busy == {t \in Senders : pc[t] # "idle"}
Offers == {<<msg[t], slot[t]>> : t \in Busy}

\* No two of them have the same message.
FreshInv ==
  /\ \A t \in Busy : msg[t] <= sent
  /\ \A t, u \in Busy : msg[t] = msg[u] => t = u

(* A step that leaves the calls of the senders alone.                       *)
LEMMA SameOffers ==
  ASSUME UNCHANGED <<msg, sent>>,
         \A t \in Senders : /\ slot'[t] = slot[t]
                            /\ pc'[t] = "idle" <=> pc[t] = "idle"
  PROVE  Offers' = Offers /\ (FreshInv => FreshInv')
BY DEF Offers, Busy, FreshInv

(* A step that ends the call of one sender.                                 *)
LEMMA OneOfferLess ==
  ASSUME TypeInv, FreshInv, UNCHANGED <<msg, sent, slot>>,
         NEW t \in Busy, pc' = [pc EXCEPT ![t] = "idle"]
  PROVE  /\ Offers' = Offers \ {<<msg[t], slot[t]>>}
         /\ <<msg[t], slot[t]>> \in Offers /\ FreshInv'
<1>1. Busy' = Busy \ {t}
  BY DEF Busy, TypeInv, TypeOK, Threads
<1>2. Offers' = {<<msg[u], slot[u]>> : u \in Busy \ {t}}
  BY <1>1 DEF Offers
<1>3. \A u \in Busy \ {t} : <<msg[u], slot[u]>> # <<msg[t], slot[t]>>
  BY DEF FreshInv
<1> QED
  BY <1>1, <1>2, <1>3 DEF Offers, FreshInv

LEMMA InitBoxes == Init => Box!BoxInit /\ FreshInv
<1> SUFFICES ASSUME Init PROVE Box!BoxInit /\ FreshInv
  OBVIOUS
<1>1. Busy = {}
  BY DEF Init, Busy, Threads
<1> QED
  BY <1>1 DEF Init, Box!BoxInit, Messages, FreshInv, Offers, Busy

LEMMA StepBoxes ==
  ASSUME TypeInv, FreshInv, [Next]_vars
  PROVE  FreshInv' /\ (fault' = fault => [Box!BoxNext]_(Box!boxVars))
<1> DEFINE Maps == fault' = fault => [Box!BoxNext]_(Box!boxVars)
<1> USE MessageManagerAssumption
<1>0. /\ Offers = {<<msg[t], slot[t]>> : t \in {u \in Senders : pc[u] # "idle"}}
      /\ Offers' = {<<msg'[t], slot'[t]>> : t \in {u \in Senders : pc'[u] # "idle"}}
  BY DEF Offers, Busy
<1>1. ASSUME UNCHANGED <<queue, got, msg, sent>>,
             \A t \in Senders : /\ slot'[t] = slot[t]
                                /\ pc'[t] = "idle" <=> pc[t] = "idle"
      PROVE  Maps /\ FreshInv'
  BY <1>0, <1>1, SameOffers DEF Box!boxVars
<1>2. ASSUME NEW t \in Senders, NEW s \in Slots, CallSend(t, s)
      PROVE  Maps /\ FreshInv'
  <2>1. /\ pc[t] = "idle" /\ sent < MaxMessages /\ sent' = sent + 1
        /\ msg' = [msg EXCEPT ![t] = sent + 1] /\ slot' = [slot EXCEPT ![t] = s]
        /\ pc' = [pc EXCEPT ![t] = "size"] /\ UNCHANGED <<queue, got>>
    BY <1>2 DEF CallSend, Goto
  <2>2. /\ Busy' = Busy \cup {t} /\ t \notin Busy
        /\ sent \in Nat /\ sent + 1 \in Messages
        /\ \A u \in Busy : /\ msg'[u] = msg[u] /\ slot'[u] = slot[u]
                            /\ msg[u] \in Nat /\ msg[u] # sent + 1
        /\ msg'[t] = sent + 1 /\ slot'[t] = s
    BY <2>1 DEF Busy, FreshInv, TypeInv, TypeOK, Messages, Threads
  <2>3. Offers' = Offers \cup {<<sent + 1, s>>}
    BY <2>2 DEF Offers
  <2>4. FreshInv'
    BY <2>1, <2>2 DEF FreshInv
  <2>5. Box!Offer(s)
    BY <1>0, <2>1, <2>2, <2>3 DEF Box!Offer
  <2> QED
    BY <2>4, <2>5 DEF Box!BoxNext
<1>3. ASSUME NEW t \in Senders, TestSize(t)
      PROVE  Maps /\ FreshInv'
  <2>1. /\ pc[t] = "size" /\ UNCHANGED <<queue, got, msg, sent, slot>>
        /\ \/ pc' = [pc EXCEPT ![t] = "find"]
           \/ pc' = [pc EXCEPT ![t] = "idle"]
    BY <1>3 DEF TestSize, At, Goto
  <2>2. CASE pc' = [pc EXCEPT ![t] = "find"]
    BY <1>1, <2>1, <2>2 DEF TypeInv, TypeOK, Threads
  <2>3. CASE pc' = [pc EXCEPT ![t] = "idle"]
    <3>1. t \in Busy /\ slot[t] \in Slots /\ msg[t] \in Messages
      BY <2>1 DEF Busy, TypeInv, TypeOK, CallsInv, Threads
    <3> PICK b \in Slots, m \in Messages : b = slot[t] /\ m = msg[t]
      BY <3>1
    <3>2. Box!Refuse(b, m) /\ FreshInv'
      BY <1>0, <2>1, <2>3, <3>1, OneOfferLess DEF Box!Refuse
    <3> QED
      BY <3>2 DEF Box!BoxNext
  <2> QED
    BY <2>1, <2>2, <2>3
<1>4. ASSUME NEW t \in Senders, Find(t) \/ Insert(t) \/ Lock(t)
      PROVE  Maps /\ FreshInv'
  <2>1. /\ pc[t] # "idle" /\ UNCHANGED <<queue, got, msg, sent, slot>>
        /\ pc' \in {[pc EXCEPT ![t] = label] : label \in {"lock", "insert", "push"}}
    BY <1>4 DEF Find, Insert, Lock, At, Goto
  <2> QED
    BY <1>1, <2>1 DEF TypeInv, TypeOK, Threads
<1>5. ASSUME NEW t \in Senders, Push(t) PROVE Maps /\ FreshInv'
  <2>1. /\ pc[t] = "push" /\ UNCHANGED <<got, msg, sent, slot>>
        /\ pc' = [pc EXCEPT ![t] = "idle"]
        /\ queue' = [queue EXCEPT ![slot[t]] = Append(@, msg[t])]
    BY <1>5 DEF Push, At, Goto
  <2>2. t \in Busy /\ slot[t] \in Slots /\ msg[t] \in Messages
    BY <2>1 DEF Busy, TypeInv, TypeOK, CallsInv, Threads
  <2> PICK b \in Slots, m \in Messages : b = slot[t] /\ m = msg[t]
    BY <2>2
  <2>3. Box!Put(b, m) /\ FreshInv'
    BY <1>0, <2>1, <2>2, OneOfferLess DEF Box!Put
  <2> QED
    BY <2>3 DEF Box!BoxNext
<1>6. ASSUME NEW t \in Receivers,
             (\E s \in Reads[t] : CallGet(t, s)) \/ GetStep(t)
      PROVE  Maps /\ FreshInv'
  <2>1. /\ UNCHANGED <<msg, sent>>
        /\ \A u \in Senders : pc'[u] = pc[u] /\ slot'[u] = slot[u]
    <3>1. CASE Pop(t)
      BY <3>1 DEF Pop, At, Goto, TypeInv, TypeOK, Threads
    <3>2. CASE TestEmpty(t)
      BY <3>2 DEF TestEmpty, At, Goto, TypeInv, TypeOK, Threads
    <3>3. CASE CheckSlot(t) \/ Relock(t) \/ \E s \in Reads[t] : CallGet(t, s)
      BY <3>3 DEF CallGet, CheckSlot, Relock, At, Goto, TypeInv, TypeOK, Threads
    <3> QED
      BY <1>6, <3>1, <3>2, <3>3 DEF GetStep
  <2>2. Offers' = Offers /\ FreshInv'
    BY <2>1, SameOffers
  <2>3. CASE Pop(t) /\ queue[slot[t]] # <<>>
    <3>1. slot[t] \in Slots
      BY DEF TypeInv, TypeOK, Threads
    <3>2. Box!Take(slot[t])
      BY <1>0, <2>1, <2>2, <2>3 DEF Pop, Box!Take
    <3> QED
      BY <2>2, <3>1, <3>2 DEF Box!BoxNext
  <2>4. CASE ~(Pop(t) /\ queue[slot[t]] # <<>>)
    <3>1. UNCHANGED <<queue, got>>
      BY <1>6, <2>4 DEF CallGet, GetStep, CheckSlot, TestEmpty, Relock, Pop
    <3> QED
      BY <1>1, <2>1, <3>1
  <2> QED
    BY <2>3, <2>4
<1>7. ASSUME NEW n \in Settings, SetMaxSlots(n)
      PROVE  Maps /\ FreshInv'
  BY <1>1, <1>7 DEF SetMaxSlots
<1>8. ASSUME NEW t \in Threads, Race(t) PROVE Maps /\ FreshInv'
  BY <1>1, <1>8 DEF Race
<1>9. CASE UNCHANGED vars
  BY <1>1, <1>9 DEF vars
<1> QED
  BY <1>2, <1>3, <1>4, <1>5, <1>6, <1>7, <1>8, <1>9 DEF Next, SendStep

(* A manager whose slots are made before the threads start, and none of     *)
(* which has two readers, is a set of boxes for any number of senders and   *)
(* receivers: every message goes into the box it was sent to, once, and is  *)
(* taken from it once and in order; the map is never used while it changes, *)
(* no queue by two threads, and no empty one is popped                      *)
(* (MessageManager.hpp:119-166).                                            *)
THEOREM ManagerImplementsMailboxes == Spec => ImplementsMailboxes
<1>1. Init => FreshInv /\ Box!BoxInit
  BY InitBoxes
<1>2. ASSUME TypeInv, SafeInv, FreshInv, [Next]_vars, SafeInv'
      PROVE  [careful => Box!BoxNext]_(Box!boxVars)
  <2> SUFFICES ASSUME careful PROVE [Box!BoxNext]_(Box!boxVars)
    OBVIOUS
  <2>1. fault' = fault
    <3>1. careful' = careful
      BY <1>2 DEF Next, vars
    <3> QED
      BY <1>2, <3>1 DEF SafeInv, CarefulSafe
  <2> QED
    BY <1>2, <2>1, StepBoxes
<1>3. TypeInv /\ FreshInv /\ [Next]_vars => FreshInv'
  BY StepBoxes
<1> QED
  BY <1>1, <1>2, <1>3, SafeInvariant, PTL DEF Spec, ImplementsMailboxes
=============================================================================
