--------------------------- MODULE Runable_proofs ---------------------------
(***************************************************************************)
(* Proofs about module Runable, for any set of workers.                    *)
(***************************************************************************)
EXTENDS Runable, TLAPS

\* The only live thread is the one _thread owns.
Owned ==
  \A w \in Workers : Live(w) => thread = w /\ handle[w] = "joinable"

\* While start() is about to create a thread, and once the destruction has
\* reached ~Runable, no thread is left.
Quiet ==
  (owner = "spawn" \/ obj # "derived") => \A w \in Workers : ~Live(w)

\* The deleted thread is seen by nobody: start() replaces the pointer next.
PointerInv == owner \notin {"spawn", "done"} => ~Dangling

\* Which methods execute on which remainder of the object.
ObjInv ==
  /\ obj = "base" <=> owner \in {"base_stop", "base_join"}
  /\ obj = "gone" <=> owner = "done"

\* What holds of proper use.
LifetimeInv ==
  TypeOK /\ NoFault /\ Owned /\ Quiet /\ PointerInv /\ ObjInv

-----------------------------------------------------------------------------
(* Every variable of Runable keeps its type (Runable.hpp:99-268).          *)
THEOREM TypeCorrect == Spec => []TypeOK
<1> USE DEF TypeOK, HandleStates, WorkerStates, OwnerStates, Faults
<1>1. Init => TypeOK
  BY DEF Init
<1>2. TypeOK /\ [Next]_vars => TypeOK'
  <2> SUFFICES ASSUME TypeOK, [Next]_vars PROVE TypeOK'
    OBVIOUS
  <2>0. UNCHANGED proper
    BY DEF Next, Goes, vars
  <2> USE <2>0
  <2>1. CASE OwnerCall
    BY <2>1 DEF OwnerCall, CallStart, CallStop, CallJoin, CallDetach,
                CallDestroy, Fail
  <2>2. CASE OwnerStep
    BY <2>2 DEF OwnerStep, Join, RestartJoin, Spawn, SpawnFails, DerivedJoin,
                BaseStop, BaseJoin, JoinDangling, AfterJoin, AfterDelete, Fail
  <2>3. ASSUME NEW w \in Workers, WorkerStep(w) PROVE TypeOK'
    BY <2>3 DEF WorkerStep, SetRun, CallRun, ReturnFromRun, RunWithoutMembers,
                ClearRun, UseAfterFree, Advance, Fail
  <2>4. CASE UNCHANGED vars
    BY <2>4 DEF vars
  <2> QED
    BY <2>1, <2>2, <2>3, <2>4 DEF Next
<1> QED
  BY <1>1, <1>2, PTL DEF Spec

-----------------------------------------------------------------------------
(* isRunning() never speaks of a thread that has gone, whatever the calls  *)
(* and whether or not threads are detached (Runable.hpp:247-256).          *)
THEOREM RunFlagCorrect == Spec => []RunFlagHonest
<1>1. Init => RunFlagHonest
  BY DEF Init, RunFlagHonest
<1>2. TypeOK /\ RunFlagHonest /\ [Next]_vars => RunFlagHonest'
  <2> SUFFICES ASSUME TypeOK, RunFlagHonest, [Next]_vars
               PROVE  RunFlagHonest'
    OBVIOUS
  <2> USE DEF RunFlagHonest
  <2>1. CASE OwnerCall
    BY <2>1 DEF OwnerCall, CallStart, CallStop, CallJoin, CallDetach,
                CallDestroy, Fail
  <2>2. CASE OwnerStep
    BY <2>2 DEF OwnerStep, Join, RestartJoin, Spawn, SpawnFails, DerivedJoin,
                BaseStop, BaseJoin, JoinDangling, Fail, TypeOK
  <2>3. ASSUME NEW w \in Workers, WorkerStep(w) PROVE RunFlagHonest'
    BY <2>3 DEF WorkerStep, SetRun, CallRun, ReturnFromRun, RunWithoutMembers,
                ClearRun, UseAfterFree, Advance, Fail, TypeOK
  <2>4. CASE UNCHANGED vars
    BY <2>4 DEF vars
  <2> QED
    BY <2>1, <2>2, <2>3, <2>4 DEF Next
<1> QED
  BY <1>1, <1>2, TypeCorrect, PTL DEF Spec

-----------------------------------------------------------------------------
(* Under proper use a successful join leaves no thread: the one _thread    *)
(* owns has ended, and there is no other.                                  *)
LEMMA JoinedIsQuiet ==
  ASSUME Owned, Joined
  PROVE  \A w \in Workers : ~Live(w)
BY RunableAssumption DEF Owned, Joined, Live

LEMMA LifetimeInit == Init => LifetimeInv
BY RunableAssumption
   DEF Init, LifetimeInv, TypeOK, NoFault, Owned, Quiet, PointerInv, ObjInv,
       Live, Dangling, HandleStates, WorkerStates, OwnerStates, Faults

LEMMA LifetimeStep ==
  ASSUME proper, TypeOK', LifetimeInv, [Next]_vars
  PROVE  LifetimeInv'
<1> USE DEF LifetimeInv
<1>1. CASE CallStart
  <2>1. Owned' /\ ObjInv' /\ NoFault'
    BY <1>1 DEF CallStart, Call, Owned, ObjInv, NoFault, Live
  <2>2. Quiet'
    BY <1>1, RunableAssumption DEF CallStart, Call, Owned, Quiet, Live
  <2>3. PointerInv'
    BY <1>1 DEF CallStart, Call, PointerInv, Dangling
  <2> QED
    BY <2>1, <2>2, <2>3
<1>2. CASE CallStop
  BY <1>2 DEF CallStop, Owned, ObjInv, NoFault, Live, Quiet, PointerInv, Dangling
<1>3. CASE CallJoin
  BY <1>3 DEF CallJoin, Call, Owned, ObjInv, NoFault, Live, Quiet, PointerInv,
              Dangling
<1>4. CASE CallDetach
  BY <1>4 DEF CallDetach, Call
<1>5. CASE CallDestroy
  BY <1>5 DEF CallDestroy, Call, Owned, ObjInv, NoFault, Live, Quiet,
              PointerInv, Dangling
<1>6. CASE Join
  <2>1. \A w \in Workers : ~Live(w)
    BY <1>6, JoinedIsQuiet DEF Join
  <2>2. \A w \in Workers : ~Live(w)'
    BY <1>6, <2>1 DEF Join, Live
  <2>3. ~Dangling'
    BY <1>6 DEF Join, AfterJoin, PointerInv, Dangling, TypeOK
  <2> QED
    BY <1>6, <2>2, <2>3 DEF Join, Owned, ObjInv, NoFault, Quiet, PointerInv
<1>7. CASE RestartJoin
  <2>1. \A w \in Workers : ~Live(w)'
    BY <1>7, JoinedIsQuiet DEF RestartJoin, Live
  <2> QED
    BY <1>7, <2>1 DEF RestartJoin, Owned, ObjInv, NoFault, Quiet, PointerInv
<1>8. CASE Spawn
  <2>1. PICK w \in Workers :
          /\ wpc[w] = "unborn"
          /\ wpc' = [wpc EXCEPT ![w] = "spawned"]
          /\ handle' = [handle EXCEPT ![w] = "joinable"]
          /\ thread' = w
    BY <1>8 DEF Spawn
  <2>2. \A v \in Workers : Live(v)' => v = w
    BY <1>8, <2>1 DEF Spawn, Quiet, Live, TypeOK
  <2>3. Owned' /\ ~Dangling'
    BY <2>1, <2>2 DEF Owned, Dangling, TypeOK
  <2>4. obj = "derived"
    BY <1>8 DEF Spawn, ObjInv, TypeOK
  <2> QED
    BY <1>8, <2>3, <2>4 DEF Spawn, ObjInv, NoFault, Quiet, PointerInv
<1>9. CASE SpawnFails
  BY <1>9 DEF SpawnFails
<1>10. CASE DerivedJoin
  <2>1. \A w \in Workers : ~Live(w)'
    BY <1>10, JoinedIsQuiet DEF DerivedJoin, Live
  <2>2. ~Dangling'
    BY <1>10 DEF DerivedJoin, AfterJoin, PointerInv, Dangling, TypeOK
  <2> QED
    BY <1>10, <2>1, <2>2
    DEF DerivedJoin, Owned, ObjInv, NoFault, Quiet, PointerInv
<1>11. CASE BaseStop
  BY <1>11 DEF BaseStop, Owned, ObjInv, NoFault, Live, Quiet, PointerInv,
               Dangling
<1>12. CASE BaseJoin
  <2>1. \A w \in Workers : ~Live(w)'
    BY <1>12, JoinedIsQuiet DEF BaseJoin, Live
  <2> QED
    BY <1>12, <2>1 DEF BaseJoin, Owned, ObjInv, NoFault, Quiet, PointerInv
<1>13. CASE JoinDangling
  BY <1>13 DEF JoinDangling, Waiting, PointerInv
<1>14. ASSUME NEW w \in Workers, WorkerStep(w) PROVE LifetimeInv'
  <2>1. Live(w) /\ obj = "derived"
    BY <1>14 DEF WorkerStep, SetRun, CallRun, ReturnFromRun, RunWithoutMembers,
                 ClearRun, UseAfterFree, Advance, Quiet, Live
  <2>2. /\ UNCHANGED <<obj, thread, handle, owner, fault>>
        /\ \A v \in Workers : Live(v)' => Live(v)
    BY <1>14, <2>1
    DEF WorkerStep, SetRun, CallRun, ReturnFromRun, RunWithoutMembers,
        ClearRun, UseAfterFree, Advance, Live, TypeOK
  <2> QED
    BY <2>2 DEF Owned, ObjInv, NoFault, Quiet, PointerInv, Dangling
<1>15. CASE UNCHANGED vars
  BY <1>15 DEF vars, Owned, ObjInv, NoFault, Live, Quiet, PointerInv, Dangling
<1> QED
  BY <1>1, <1>2, <1>3, <1>4, <1>5, <1>6, <1>7, <1>8, <1>9, <1>10, <1>11, <1>12,
     <1>13, <1>14, <1>15 DEF Next, OwnerCall, OwnerStep

LEMMA LifetimeInvariant == Spec => [](proper => LifetimeInv)
<1>1. (proper => LifetimeInv) /\ TypeOK' /\ [Next]_vars
        => (proper => LifetimeInv)'
  BY LifetimeStep DEF Next, Goes, vars
<1> QED
  BY <1>1, LifetimeInit, TypeCorrect, PTL DEF Spec

(* A Runable that is properly used never has two threads of execution,     *)
(* however often it is restarted (Runable.hpp:92 and 177-179).             *)
THEOREM OneThread == Spec => []OneWorker
<1>1. (proper => LifetimeInv) => OneWorker
  BY DEF LifetimeInv, Owned, OneWorker
<1> QED
  BY <1>1, LifetimeInvariant, PTL

(* No interleaving of the owner of a properly used Runable with its        *)
(* threads goes wrong (Runable.hpp:109-125 and 182-206).                   *)
THEOREM LifetimeSafe == Spec => []ProperSafe
<1>1. (proper => LifetimeInv) => ProperSafe
  BY DEF LifetimeInv, ProperSafe
<1> QED
  BY <1>1, LifetimeInvariant, PTL

-----------------------------------------------------------------------------
(* Spawn enters the slot, ClearRun leaves it, and the end of the derived   *)
(* destructor tears it down; every other step leaves the slot alone.       *)
LEMMA SlotStep ==
  ASSUME proper, LifetimeInv, [Next]_vars
  PROVE  [Slot!SlotNext]_(Slot!slotVars)
<1> DEFINE threads == {w \in Workers : Live(w)}
           standing == obj = "derived"
<1> USE DEF LifetimeInv
<1>1. ASSUME UNCHANGED <<wpc, obj>>
      PROVE  UNCHANGED Slot!slotVars
  BY <1>1 DEF Slot!slotVars, Live
<1>2. CASE OwnerCall
  BY <1>1, <1>2 DEF OwnerCall, CallStart, CallStop, CallJoin, CallDetach,
                    CallDestroy, Fail
<1>3. CASE Spawn
  <2>1. PICK w \in Workers :
          /\ wpc[w] = "unborn"
          /\ wpc' = [wpc EXCEPT ![w] = "spawned"]
    BY <1>3 DEF Spawn
  <2>2. threads = {} /\ standing
    BY <1>3 DEF Spawn, Quiet, ObjInv, TypeOK
  <2>3. threads' = {w}
    BY <2>1, <2>2 DEF Live, TypeOK
  <2>4. standing' = standing
    BY <1>3 DEF Spawn
  <2>5. Slot!Enter(w)
    BY <2>2, <2>3, <2>4 DEF Slot!Enter
  <2> QED
    BY <2>5 DEF Slot!SlotNext
<1>4. CASE DerivedJoin
  <2>1. threads = {}
    BY <1>4, JoinedIsQuiet DEF DerivedJoin
  <2>2. threads' = threads
    BY <1>4 DEF DerivedJoin, Live
  <2>3. standing /\ ~standing'
    BY <1>4 DEF DerivedJoin, ObjInv, TypeOK
  <2>4. Slot!TearDown
    BY <2>1, <2>2, <2>3 DEF Slot!TearDown
  <2> QED
    BY <2>4 DEF Slot!SlotNext
<1>5. CASE BaseJoin
  <2>1. threads' = threads
    BY <1>5 DEF BaseJoin, Live
  <2>2. ~standing /\ ~standing'
    BY <1>5 DEF BaseJoin, ObjInv, TypeOK
  <2> QED
    BY <2>1, <2>2 DEF Slot!slotVars
<1>6. CASE Join \/ RestartJoin \/ SpawnFails \/ BaseStop \/ JoinDangling
  BY <1>1, <1>6 DEF Join, RestartJoin, SpawnFails, BaseStop, JoinDangling, Waiting, Fail
<1>7. ASSUME NEW w \in Workers, WorkerStep(w)
      PROVE  [Slot!SlotNext]_(Slot!slotVars)
  <2>1. Live(w) /\ standing /\ threads = {w}
    BY <1>7 DEF WorkerStep, SetRun, CallRun, ReturnFromRun, RunWithoutMembers,
                ClearRun, UseAfterFree, Advance, Quiet, Live, Owned
  <2>2. standing' = standing
    BY <1>7 DEF WorkerStep, SetRun, CallRun, ReturnFromRun, RunWithoutMembers,
                ClearRun, UseAfterFree, Fail
  <2>3. CASE ClearRun(w)
    <3>1. threads' = {}
      BY <2>1, <2>3 DEF ClearRun, Advance, Live, TypeOK
    <3>2. Slot!Leave
      BY <2>1, <2>2, <3>1 DEF Slot!Leave
    <3> QED
      BY <3>2 DEF Slot!SlotNext
  <2>4. CASE ~ClearRun(w)
    <3>1. threads' = threads
      BY <1>7, <2>1, <2>4
      DEF WorkerStep, SetRun, CallRun, ReturnFromRun, RunWithoutMembers,
          UseAfterFree, Advance, Live, TypeOK, Fail
    <3> QED
      BY <2>2, <3>1 DEF Slot!slotVars
  <2> QED
    BY <2>3, <2>4
<1>8. CASE UNCHANGED vars
  BY <1>1, <1>8 DEF vars
<1> QED
  BY <1>2, <1>3, <1>4, <1>5, <1>6, <1>7, <1>8 DEF Next, OwnerStep

(* A properly used Runable implements the slot of module WorkerSlot: a     *)
(* thread is created only in an empty slot of a whole object, and the      *)
(* object is taken apart only when the slot is empty.                      *)
THEOREM RunableImplementsSlot == Spec => ImplementsSlot
<1>1. Init => Slot!SlotInit
  BY DEF Init, Slot!SlotInit, Live
<1>2. (proper => LifetimeInv) /\ [Next]_vars
        => [proper => Slot!SlotNext]_(Slot!slotVars)
  BY SlotStep
<1> QED
  BY <1>1, <1>2, LifetimeInvariant, PTL DEF Spec, ImplementsSlot
=============================================================================
