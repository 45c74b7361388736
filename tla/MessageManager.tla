--------------------------- MODULE MessageManager ---------------------------
(***************************************************************************)
(* The class MessageManager of include/MessageManager.hpp: one map from    *)
(* slot numbers to mailboxes, each a std::queue with a mutex of its own,   *)
(* shared by all threads.  The map itself has no lock.  A step is one      *)
(* operation on the map, or one critical section of a mailbox; inserting   *)
(* into the map takes two steps, so that another thread may run between.   *)
(***************************************************************************)
EXTENDS Naturals, Sequences, FiniteSets

CONSTANTS
  Senders,      \* the threads that call sendMessage
  Receivers,    \* the threads that call getMessage
  Nobody,       \* the holder of a mutex that is free
  Slots,        \* the slot numbers in use
  Reads,        \* the slots each receiver asks for
  InitialMax,   \* _maxSlots of a new manager: 50
  Ceiling,      \* the largest number that setMaxSlots documents: 1500
  Settings,     \* the numbers passed to setMaxSlots
  MaxMessages   \* the number of messages sent, a bound

Threads == Senders \cup Receivers

ASSUME MessageManagerAssumption ==
  /\ Senders # {} /\ Senders \cap Receivers = {} /\ Nobody \notin Threads
  /\ IsFiniteSet(Senders) /\ IsFiniteSet(Slots)
  /\ Reads \in [Receivers -> SUBSET Slots]
  /\ Settings \subseteq Nat
  /\ {InitialMax, Ceiling, MaxMessages} \subseteq Nat

VARIABLES
  careful,    \* how the program uses a manager whose map has no lock: TRUE if
              \* all slots are made before the threads start, and no slot is
              \* read by two; stays as it is in the beginning
  slots,      \* the keys of _mailbox
  queue,      \* the queue of each mailbox
  lock,       \* who holds the mutex of each mailbox
  maxSlots,   \* _maxSlots
  pc,         \* where each thread is
  slot,       \* the argument slot of its call
  msg,        \* the argument msg of a sender's call
  sent,       \* how many messages have been made
  got,        \* the last message taken from each slot
  fault       \* "none", or the undefined behaviour that happened

vars == <<careful, slots, queue, lock, maxSlots, pc, slot, msg, sent, got,
          fault>>

Messages == 1..MaxMessages

\* Between two calls; in sendMessage; in getMessage.
Sending == {"size", "find", "insert", "lock", "push"}
Getting == {"check", "empty", "relock", "pop"}

TypeOK ==
  /\ careful \in BOOLEAN
  /\ slots \subseteq Slots
  /\ queue \in [Slots -> Seq(Messages)]
  /\ lock \in [Slots -> Threads \cup {Nobody}]
  /\ maxSlots \in Settings \cup {InitialMax}
  /\ pc \in [Threads -> {"idle"} \cup Sending \cup Getting]
  /\ slot \in [Threads -> Slots]
  /\ msg \in [Senders -> 0..MaxMessages]
  /\ sent \in 0..MaxMessages
  /\ got \in [Slots -> 0..MaxMessages]
  /\ fault \in {"none", "race", "underflow"}

\* A mutated form of Init: a new manager starts with the largest number.
InitAtCeiling ==
  /\ careful \in BOOLEAN
  /\ careful => Cardinality(Slots) <= InitialMax + 1
  /\ slots = IF careful THEN Slots ELSE {}
  /\ queue = [s \in Slots |-> <<>>]
  /\ lock = [s \in Slots |-> Nobody]
  /\ maxSlots = Ceiling
  /\ pc = [t \in Threads |-> "idle"]
  /\ slot \in {[t \in Threads |-> s] : s \in Slots}
  /\ msg = [t \in Senders |-> 0]
  /\ sent = 0
  /\ got = [s \in Slots |-> 0]
  /\ fault = "none"

Init ==
  /\ careful \in BOOLEAN
  /\ careful => Cardinality(Slots) <= InitialMax + 1
  /\ slots = IF careful THEN Slots ELSE {}
  /\ queue = [s \in Slots |-> <<>>]
  /\ lock = [s \in Slots |-> Nobody]
  /\ maxSlots = InitialMax
  /\ pc = [t \in Threads |-> "idle"]
  /\ slot \in {[t \in Threads |-> s] : s \in Slots}
  /\ msg = [t \in Senders |-> 0]
  /\ sent = 0
  /\ got = [s \in Slots |-> 0]
  /\ fault = "none"

Goto(t, label) == pc' = [pc EXCEPT ![t] = label]

\* The thread is about to use the map.
UsesMap(t) == pc[t] \in {"size", "find", "lock", "push"} \cup Getting

\* Another thread is inserting into it.
Inserting(t) == \E u \in Threads \ {t} : pc[u] = "insert"

At(t, label) == pc[t] = label /\ ~Inserting(t)

\* Two threads are about to change the queue of one mailbox.
Clashing(t) ==
  \E u \in Threads \ {t} :
    {pc[t], pc[u]} \subseteq {"push", "pop"} /\ slot[u] = slot[t]

\* Using the map while another thread inserts is undefined, and so is using a
\* queue while another thread changes it, which the mailbox's mutex prevents.
\* (The unlocked reads of _maxSlots and of empty() are data races as well; they
\* are given every answer that the build can produce, and are no faults.)
Race(t) ==
  /\ (UsesMap(t) /\ Inserting(t)) \/ Clashing(t)
  /\ fault' = "race"
  /\ UNCHANGED <<slots, queue, lock, maxSlots, pc, slot, msg, sent, got>>

-----------------------------------------------------------------------------
MaxAfter(n) == IF n > 0 /\ n < Ceiling THEN n ELSE maxSlots

\* One store of a number: a read beside it has the old value or the new one.
SetMaxSlots(n) ==
  /\ maxSlots' = MaxAfter(n)
  /\ UNCHANGED <<slots, queue, lock, pc, slot, msg, sent, got, fault>>

-----------------------------------------------------------------------------
(* sendMessage(slot, msg).                                                 *)

CallSend(t, s) ==
  /\ pc[t] = "idle" /\ sent < MaxMessages
  /\ sent' = sent + 1
  /\ msg' = [msg EXCEPT ![t] = sent + 1]
  /\ slot' = [slot EXCEPT ![t] = s]
  /\ Goto(t, "size")
  /\ UNCHANGED <<slots, queue, lock, maxSlots, got, fault>>

\* Whether there is room is asked for every slot, also for one that exists.
TestSize(t) ==
  /\ At(t, "size")
  /\ Goto(t, IF Cardinality(slots) <= maxSlots THEN "find" ELSE "idle")
  /\ UNCHANGED <<slots, queue, lock, maxSlots, slot, msg, sent, got, fault>>

\* _mailbox[slot] finds the slot, or begins to insert it.
Find(t) ==
  /\ At(t, "find")
  /\ Goto(t, IF slot[t] \in slots THEN "lock" ELSE "insert")
  /\ UNCHANGED <<slots, queue, lock, maxSlots, slot, msg, sent, got, fault>>

Insert(t) ==
  /\ At(t, "insert")
  /\ slots' = slots \cup {slot[t]}
  /\ Goto(t, "lock")
  /\ UNCHANGED <<queue, lock, maxSlots, slot, msg, sent, got, fault>>

\* A mutated form of Lock: the mutex is not waited for.
LockUnasked(t) ==
  /\ At(t, "lock")
  /\ lock' = [lock EXCEPT ![slot[t]] = t]
  /\ Goto(t, "push")
  /\ UNCHANGED <<slots, queue, maxSlots, slot, msg, sent, got, fault>>

Lock(t) ==
  /\ At(t, "lock")
  /\ lock[slot[t]] = Nobody
  /\ lock' = [lock EXCEPT ![slot[t]] = t]
  /\ Goto(t, "push")
  /\ UNCHANGED <<slots, queue, maxSlots, slot, msg, sent, got, fault>>

Push(t) ==
  /\ At(t, "push")
  /\ queue' = [queue EXCEPT ![slot[t]] = Append(@, msg[t])]
  /\ lock' = [lock EXCEPT ![slot[t]] = Nobody]
  /\ Goto(t, "idle")
  /\ UNCHANGED <<slots, maxSlots, slot, msg, sent, got, fault>>

-----------------------------------------------------------------------------
(* getMessage(slot, msg).                                                  *)

CallGet(t, s) ==
  /\ pc[t] = "idle"
  /\ careful => \A u \in Receivers \ {t} : s \notin Reads[u]
  /\ slot' = [slot EXCEPT ![t] = s]
  /\ Goto(t, "check")
  /\ UNCHANGED <<slots, queue, lock, maxSlots, msg, sent, got, fault>>

CheckSlot(t) ==
  /\ At(t, "check")
  /\ Goto(t, IF slot[t] \in slots THEN "empty" ELSE "idle")
  /\ UNCHANGED <<slots, queue, lock, maxSlots, slot, msg, sent, got, fault>>

\* A mutated form of TestEmpty: the queue is not looked at.
TestUnasked(t) ==
  /\ At(t, "empty")
  /\ Goto(t, "relock")
  /\ UNCHANGED <<slots, queue, lock, maxSlots, slot, msg, sent, got, fault>>

\* empty() is called without the mutex, and is a data race with a push() or a
\* pop(): while somebody is changing the queue it may say anything.
TestEmpty(t) ==
  /\ At(t, "empty")
  /\ \/ queue[slot[t]] = <<>> /\ Goto(t, "idle")
     \/ queue[slot[t]] # <<>> /\ Goto(t, "relock")
     \/ lock[slot[t]] # Nobody /\ pc' \in {[pc EXCEPT ![t] = "idle"],
                                           [pc EXCEPT ![t] = "relock"]}
  /\ UNCHANGED <<slots, queue, lock, maxSlots, slot, msg, sent, got, fault>>

Relock(t) ==
  /\ At(t, "relock")
  /\ lock[slot[t]] = Nobody
  /\ lock' = [lock EXCEPT ![slot[t]] = t]
  /\ Goto(t, "pop")
  /\ UNCHANGED <<slots, queue, maxSlots, slot, msg, sent, got, fault>>

\* front() and pop(), whether or not the queue still has a message.
Pop(t) ==
  /\ At(t, "pop")
  /\ \/ /\ queue[slot[t]] # <<>>
        /\ got' = [got EXCEPT ![slot[t]] = Head(queue[slot[t]])]
        /\ queue' = [queue EXCEPT ![slot[t]] = Tail(@)]
        /\ lock' = [lock EXCEPT ![slot[t]] = Nobody]
        /\ Goto(t, "idle")
        /\ UNCHANGED <<slots, maxSlots, slot, msg, sent, fault>>
     \/ /\ queue[slot[t]] = <<>>
        /\ fault' = "underflow"
        /\ UNCHANGED <<slots, queue, lock, maxSlots, pc, slot, msg, sent, got>>

-----------------------------------------------------------------------------
SendStep(t) == TestSize(t) \/ Find(t) \/ Insert(t) \/ Lock(t) \/ Push(t)

GetStep(t) == CheckSlot(t) \/ TestEmpty(t) \/ Relock(t) \/ Pop(t)

Next ==
  /\ fault = "none" /\ UNCHANGED careful
  /\ \/ \E n \in Settings : SetMaxSlots(n)
     \/ \E t \in Senders : (\E s \in Slots : CallSend(t, s)) \/ SendStep(t)
     \/ \E t \in Receivers : (\E s \in Reads[t] : CallGet(t, s)) \/ GetStep(t)
     \/ \E t \in Threads : Race(t)

Spec == Init /\ [][Next]_vars

-----------------------------------------------------------------------------
(* Properties.                                                             *)

\* A message is there for the only receiver of a slot that has seen that the
\* queue is not empty, though it looked without the mutex, while others were
\* pushing (MessageManager.hpp:154-160).
SoleReaderSafe ==
  \A t \in Receivers :
    (pc[t] = "pop" /\ \A u \in Receivers \ {t} : slot[t] \notin Reads[u]) =>
      queue[slot[t]] # <<>>

\* How far the map can grow: the test lets every sender pass that comes before
\* the slot is made that is one too many (MessageManager.hpp:123-127).
SlotsBounded ==
  \E m \in Settings \cup {InitialMax} :
    Cardinality(slots) <= m + Cardinality(Senders)

\* In careful use the slots are boxes (module Mailboxes): a message goes into the
\* slot it was sent to, once, is taken from it once and in order, and no step of many
\* senders and receivers is undefined (MessageManager.hpp:119-166).
Box == INSTANCE Mailboxes
         WITH Boxes <- Slots, box <- queue, taken <- got, made <- sent,
              offers <- {<<msg[t], slot[t]>> : t \in {u \in Senders : pc[u] # "idle"}}

ImplementsMailboxes ==
  Box!BoxInit /\ [][careful => Box!BoxNext]_(Box!boxVars)
=============================================================================
