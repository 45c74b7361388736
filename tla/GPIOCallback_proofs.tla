------------------------ MODULE GPIOCallback_proofs ------------------------
(***************************************************************************)
(* Proofs about module GPIOCallback, for any set of threads: no edge that  *)
(* has come is missed, a proper use goes right through both destructors,   *)
(* and what a proper client sees is a Runable.                             *)
(***************************************************************************)
EXTENDS GPIOCallback, Runable_proofs

\* The variables of Runable; owner is in GPIOTypeOK.
RunTypes ==
  /\ obj \in {"derived", "base", "gone"}
  /\ run \in BOOLEAN
  /\ thread \in Workers \cup {NoThread}
  /\ handle \in [Workers -> HandleStates]
  /\ wpc \in [Workers -> WorkerStates]

\* Until the constructor calls start() there is nothing but the object.
Unstarted ==
  loop = "none" =>
    /\ owner = "idle" /\ obj = "derived" /\ thread = NoThread
    /\ \A w \in Workers : wpc[w] = "unborn"

GPIOTypeInv == GPIOTypeOK /\ RunTypes /\ Unstarted

-----------------------------------------------------------------------------
(* Every variable keeps its type.                                          *)
LEMMA GPIOTypesInit == GPIOInit => GPIOTypeInv
BY DEF GPIOInit, Init, GPIOTypeInv, GPIOTypeOK, RunTypes, Unstarted, OwnerStates,
  HandleStates, WorkerStates

LEMMA GPIOTypesKept ==
  ASSUME GPIOTypeInv, [GPIONext]_allVars
  PROVE  GPIOTypeInv'
<1> USE GPIOCallbackAssumption
    DEF GPIOTypeInv, GPIOTypeOK, RunTypes, Unstarted, OwnerStates, HandleStates,
        WorkerStates, kernelVars, gpioVars
<1>1. CASE Construct
  BY <1>1 DEF Construct
<1>2. CASE InheritedCall /\ UNCHANGED gpioVars
  BY <1>2 DEF InheritedCall, CallStart, CallStop, CallJoin
<1>3. CASE InheritedStep /\ UNCHANGED gpioVars
  <2>1. loop # "none"
    BY <1>3 DEF InheritedStep, Join, RestartJoin, Spawn, SpawnFails, BaseStop,
      BaseJoin, JoinDangling, Waiting
  <2>2. CASE Join
    BY <1>3, <2>1, <2>2 DEF Join, AfterJoin
  <2>3. CASE RestartJoin \/ BaseJoin
    BY <1>3, <2>1, <2>3 DEF RestartJoin, BaseJoin, AfterDelete
  <2>4. CASE Spawn
    BY <1>3, <2>1, <2>4 DEF Spawn
  <2>5. CASE SpawnFails \/ BaseStop \/ JoinDangling
    BY <1>3, <2>1, <2>5 DEF SpawnFails, BaseStop, JoinDangling, Waiting, Fail
  <2> QED
    BY <1>3, <2>2, <2>3, <2>4, <2>5 DEF InheritedStep
<1>4. CASE OwnTest \/ OwnStop \/ OwnJoin \/ OwnClose
  BY <1>4 DEF OwnTest, OwnStop, OwnJoin, OwnClose, AfterDelete
<1>5. ASSUME NEW w \in Workers, RunThreadStep(w), UNCHANGED gpioVars
      PROVE  GPIOTypeInv'
  <2>1. wpc[w] # "unborn" /\ run' \in BOOLEAN
    BY <1>5 DEF RunThreadStep, SetRun, ClearRun, Advance
  <2>2. wpc' \in [Workers -> WorkerStates]
    BY <1>5 DEF RunThreadStep, SetRun, ClearRun, Advance
  <2>3. UNCHANGED <<obj, thread, handle, owner>>
    BY <1>5 DEF RunThreadStep, SetRun, ClearRun
  <2> QED
    BY <1>5, <2>1, <2>2, <2>3
<1>6. ASSUME NEW w \in Workers, LoopStep(w) PROVE GPIOTypeInv'
  <2>1. CASE EnterRun(w) \/ LeaveRun(w)
    BY <2>1 DEF EnterRun, CallRun, LeaveRun, ReturnFromRun, Advance, Fail
  <2>2. CASE TestRun(w) \/ PollReady(w) \/ Callback(w)
    <3>1. wpc[w] = "running" /\ UNCHANGED <<vars, kernelVars>>
      BY <2>2 DEF TestRun, PollReady, Callback, InRun
    <3>2. loop' \in {"poll", "read", "test"}
      BY <2>2 DEF TestRun, PollReady, Callback
    <3> QED
      BY <3>1, <3>2 DEF vars
  <2>3. CASE Read(w) \/ RunDestroyed(w)
    BY <2>3 DEF Read, InRun, RunDestroyed, RunWithoutMembers, Fail, vars
  <2> QED
    BY <1>6, <2>1, <2>2, <2>3 DEF LoopStep
<1>7. ASSUME NEW w \in Workers, PollEmpty(w) PROVE GPIOTypeInv'
  BY <1>7 DEF PollEmpty, vars
<1>8. CASE LineChanges \/ Removed
  <2>1. UNCHANGED <<vars, open, seen, loop>>
    BY <1>8 DEF LineChanges, Removed
  <2>2. line' \in Levels /\ pending' \in BOOLEAN /\ exported' \in BOOLEAN
    BY <1>8 DEF LineChanges, Removed
  <2> QED
    BY <2>1, <2>2 DEF vars
<1>9. CASE UNCHANGED allVars
  BY <1>9 DEF allVars, vars
<1> QED
  BY <1>1, <1>2, <1>3, <1>4, <1>5, <1>6, <1>7, <1>8, <1>9
  DEF GPIONext, GPIOOwner, GPIOWorker

LEMMA GPIOTypes == GPIOSpec => []GPIOTypeInv
BY GPIOTypesInit, GPIOTypesKept, PTL DEF GPIOSpec

(* Every variable of GPIOCallback keeps its type, whatever the client does  *)
(* (SysFSGPIO.cpp:169-240 and 466-530).                                     *)
THEOREM CallbackTypeCorrect == GPIOSpec => []GPIOTypeOK
BY GPIOTypes, PTL DEF GPIOTypeInv

-----------------------------------------------------------------------------
(* No last edge is missed, whenever it came: before the constructor's      *)
(* read(), between two polls, or while the callback is executed            *)
(* (SysFSGPIO.cpp:195-204 and 490-503).                                    *)
THEOREM NoEdgeMissed == GPIOSpec => []CaughtUp
<1>1. GPIOInit => CaughtUp
  BY DEF GPIOInit, CaughtUp
<1>2. ASSUME GPIOTypeInv, CaughtUp, [GPIONext]_allVars PROVE CaughtUp'
  <2> USE DEF CaughtUp, kernelVars, gpioVars
  <2>1. CASE Construct
    BY <1>2, <2>1 DEF Construct
  <2>2. CASE UNCHANGED gpioVars
    BY <1>2, <2>2
  <2>3. CASE OwnTest \/ OwnStop \/ OwnJoin \/ OwnClose
    BY <1>2, <2>3 DEF OwnTest, OwnStop, OwnJoin, OwnClose
  <2>4. ASSUME NEW w \in Workers, LoopStep(w) PROVE CaughtUp'
    BY <1>2, <2>4 DEF GPIOTypeInv, Unstarted, LoopStep, EnterRun, CallRun, LeaveRun,
      TestRun, InRun, PollReady, Read, Callback, RunDestroyed, Advance, Fail
  <2>5. ASSUME NEW w \in Workers, PollEmpty(w) PROVE CaughtUp'
    BY <1>2, <2>5 DEF PollEmpty
  <2>6. CASE LineChanges
    BY <1>2, <2>6 DEF LineChanges, GPIOTypeInv, GPIOTypeOK
  <2>7. CASE Removed
    BY <1>2, <2>7 DEF Removed
  <2>8. CASE UNCHANGED allVars
    BY <1>2, <2>8 DEF allVars
  <2> QED
    BY <1>2, <2>1, <2>2, <2>3, <2>4, <2>5, <2>6, <2>7, <2>8
    DEF GPIONext, GPIOOwner, GPIOWorker
<1> QED
  BY <1>1, <1>2, GPIOTypes, PTL DEF GPIOSpec

-----------------------------------------------------------------------------
\* isRunning() can be trusted here too.
LEMMA GPIORunFlag == GPIOSpec => []RunFlagHonest
<1>1. GPIOInit => RunFlagHonest
  BY DEF GPIOInit, Init, RunFlagHonest
<1>2. ASSUME GPIOTypeInv, RunFlagHonest, [GPIONext]_allVars PROVE RunFlagHonest'
  <2> USE <1>2 DEF RunFlagHonest, GPIOTypeInv, RunTypes
  <2>1. CASE UNCHANGED <<run, wpc>>
    BY <2>1
  <2>2. CASE InheritedCall
    BY <2>2 DEF InheritedCall, CallStart, CallStop, CallJoin
  <2>3. CASE InheritedStep
    BY <2>3 DEF InheritedStep, Join, RestartJoin, Spawn, SpawnFails, BaseStop,
      BaseJoin, JoinDangling, Waiting, Fail
  <2>4. CASE OwnTest \/ OwnStop \/ OwnJoin \/ OwnClose
    BY <2>4 DEF OwnTest, OwnStop, OwnJoin, OwnClose
  <2>5. ASSUME NEW w \in Workers, RunThreadStep(w) \/ LoopStep(w)
        PROVE  RunFlagHonest'
    BY <2>5 DEF RunThreadStep, SetRun, ClearRun, LoopStep, EnterRun, CallRun,
      LeaveRun, ReturnFromRun, TestRun, InRun, PollReady, Read, Callback,
      RunDestroyed, RunWithoutMembers, Advance, Fail, vars
  <2>6. CASE Construct \/ LineChanges \/ Removed \/ \E w \in Workers : PollEmpty(w)
    BY <2>1, <2>6 DEF Construct, LineChanges, Removed, PollEmpty, vars
  <2>7. CASE UNCHANGED allVars
    BY <2>1, <2>7 DEF allVars, vars
  <2> QED
    BY <2>2, <2>3, <2>4, <2>5, <2>6, <2>7 DEF GPIONext, GPIOOwner, GPIOWorker
<1> QED
  BY <1>1, <1>2, GPIOTypes, PTL DEF GPIOSpec

\* Whatever the use: _thread owns the only live thread, and none is left when
\* start() is about to make one.
SoleInv == Owned /\ (owner = "spawn" => \A w \in Workers : ~Live(w))

LEMMA SoleInit == GPIOInit => SoleInv
BY DEF GPIOInit, Init, SoleInv, Owned, Live

LEMMA SoleKept ==
  ASSUME GPIOTypeInv, SoleInv, [GPIONext]_allVars
  PROVE  SoleInv'
<1> USE DEF SoleInv, GPIOTypeInv, GPIOTypeOK, RunTypes
<1>1. ASSUME UNCHANGED <<thread, handle, wpc>>, owner' = "spawn" => owner = "spawn"
      PROVE  SoleInv'
  BY <1>1 DEF Owned, Live
<1>2. ASSUME \A w \in Workers : ~Live(w), UNCHANGED wpc PROVE SoleInv'
  BY <1>2 DEF Owned, Live
<1>3. CASE Construct
  <2>1. \A w \in Workers : ~Live(w)
    BY <1>3 DEF Construct, Unstarted, Live
  <2> QED
    BY <1>2, <1>3, <2>1 DEF Construct
<1>4. CASE InheritedCall
  <2>1. CASE CallStart /\ thread = NoThread
    <3>1. \A w \in Workers : ~Live(w)
      BY <2>1, RunableAssumption DEF Owned
    <3> QED
      BY <1>2, <2>1, <3>1 DEF CallStart
  <2>2. CASE CallStart /\ thread # NoThread
    BY <1>1, <2>2 DEF CallStart
  <2>3. CASE CallStop \/ CallJoin
    BY <1>1, <2>3 DEF CallStop, CallJoin
  <2> QED
    BY <1>4, <2>1, <2>2, <2>3 DEF InheritedCall
<1>5. CASE Join \/ RestartJoin \/ BaseJoin \/ OwnJoin
  <2>1. \A w \in Workers : ~Live(w)
    BY <1>5, JoinedIsQuiet DEF Join, RestartJoin, BaseJoin, OwnJoin
  <2> QED
    BY <1>2, <1>5, <2>1 DEF Join, RestartJoin, BaseJoin, OwnJoin
<1>6. CASE Spawn
  <2>1. PICK w \in Workers :
          /\ wpc' = [wpc EXCEPT ![w] = "spawned"]
          /\ handle' = [handle EXCEPT ![w] = "joinable"]
          /\ thread' = w
    BY <1>6 DEF Spawn
  <2>2. \A v \in Workers : Live(v)' => v = w
    BY <1>6, <2>1 DEF Spawn, Live
  <2> QED
    BY <1>6, <2>1, <2>2 DEF Spawn, Owned
<1>7. CASE SpawnFails \/ BaseStop \/ JoinDangling
  BY <1>1, <1>7 DEF SpawnFails, BaseStop, JoinDangling, Waiting, Fail
<1>8. CASE OwnTest \/ OwnStop \/ OwnClose
  BY <1>1, <1>8 DEF OwnTest, OwnStop, OwnClose
<1>9. ASSUME NEW w \in Workers, RunThreadStep(w) \/ LoopStep(w) PROVE SoleInv'
  <2>1. Live(w)
    BY <1>9 DEF RunThreadStep, SetRun, ClearRun, LoopStep, EnterRun, CallRun,
      LeaveRun, ReturnFromRun, TestRun, InRun, PollReady, Read, Callback,
      RunDestroyed, RunWithoutMembers, Advance, Live
  <2>2. UNCHANGED <<thread, handle, owner>> /\ \A v \in Workers : Live(v)' => Live(v)
    BY <1>9, <2>1 DEF RunThreadStep, SetRun, ClearRun, LoopStep, EnterRun, CallRun,
      LeaveRun, ReturnFromRun, TestRun, InRun, PollReady, Read, Callback,
      RunDestroyed, RunWithoutMembers, Advance, Fail, Live, vars
  <2> QED
    BY <2>2 DEF Owned
<1>10. CASE LineChanges \/ Removed \/ \E w \in Workers : PollEmpty(w)
  BY <1>1, <1>10 DEF LineChanges, Removed, PollEmpty, vars
<1>11. CASE UNCHANGED allVars
  BY <1>1, <1>11 DEF allVars, vars
<1> QED
  BY <1>3, <1>4, <1>5, <1>6, <1>7, <1>8, <1>9, <1>10, <1>11
  DEF GPIONext, GPIOOwner, GPIOWorker, InheritedStep

(* However the client starts, stops, joins and destroys the object, no two  *)
(* of its threads are alive together, and so no callback overlaps another   *)
(* (Runable.hpp:177-200, SysFSGPIO.cpp:195-240 and 487-525).                *)
THEOREM CallbacksNeverOverlap == GPIOSpec => []OneLoop
<1>1. SoleInv => OneLoop
  BY DEF SoleInv, Owned, OneLoop
<1> QED
  BY <1>1, SoleInit, SoleKept, GPIOTypes, PTL DEF GPIOSpec

-----------------------------------------------------------------------------
\* What holds of proper use: ~SysFSGPIO finds its thread joined and the flag
\* down, so it deletes nothing that ~Runable would use.
ProperInv ==
  /\ NoFault /\ Owned
  /\ (owner \in {"spawn", "own_close"} \/ obj # "derived")
       => \A w \in Workers : ~Live(w)
  /\ PointerInv
  /\ obj = "base" <=> owner \in {"base_stop", "base_join"}
  /\ obj = "gone" <=> owner = "done"
  /\ owner \notin {"own_stop", "own_join", "derived_join"}
  /\ owner = "own_close" => "destroy" \in Calls
  /\ exported
  /\ obj = "derived" => open

LEMMA ProperInit == GPIOInit => ProperInv
BY RunableAssumption
   DEF GPIOInit, Init, ProperInv, NoFault, Owned, PointerInv, Live, Dangling

\* ~SysFSGPIO of a proper client finds no thread, and the flag down.
LEMMA NothingLeft ==
  ASSUME proper, RunFlagHonest, ProperInv, OwnTest
  PROVE  (\A w \in Workers : ~Live(w)) /\ ~run
<1>1. \A w \in Workers : ~Live(w)
  BY RunableAssumption DEF OwnTest, ProperInv, Owned
<1>2. \A w \in Workers : wpc[w] \notin {"entered", "running", "returned"}
  BY <1>1 DEF Live
<1> QED
  BY <1>1, <1>2, Zenon DEF RunFlagHonest

LEMMA ProperKept ==
  ASSUME proper, GPIOTypeInv, RunFlagHonest, ProperInv, [GPIONext]_allVars
  PROVE  ProperInv'
<1> USE DEF ProperInv, GPIOTypeInv, GPIOTypeOK, RunTypes
<1>1. ASSUME UNCHANGED vars, UNCHANGED <<exported, open>> PROVE ProperInv'
  BY <1>1 DEF vars, NoFault, Owned, PointerInv, Live, Dangling
<1>2. CASE Construct
  <2>1. \A w \in Workers : ~Live(w) /\ ~Live(w)'
    BY <1>2 DEF Construct, Unstarted, Live
  <2> QED
    BY <1>2, <2>1, RunableAssumption
    DEF Construct, kernelVars, Unstarted, NoFault, Owned, PointerInv, Dangling
<1>3. CASE InheritedCall /\ UNCHANGED gpioVars
  <2>1. UNCHANGED <<obj, thread, handle, wpc, fault, exported, open>>
    BY <1>3 DEF InheritedCall, CallStart, CallStop, CallJoin, gpioVars, kernelVars
  <2>2. /\ ~Dangling' <=> ~Dangling
        /\ \A w \in Workers : Live(w)' <=> Live(w)
    BY <2>1 DEF Dangling, Live
  <2>3. CASE CallStop
    BY <2>1, <2>2, <2>3 DEF CallStop, NoFault, Owned, PointerInv
  <2>4. CASE CallJoin
    BY <2>1, <2>2, <2>4 DEF CallJoin, Call, NoFault, Owned, PointerInv
  <2>5. CASE CallStart
    BY <2>1, <2>2, <2>5, RunableAssumption
    DEF CallStart, Call, NoFault, Owned, PointerInv
  <2> QED
    BY <1>3, <2>3, <2>4, <2>5 DEF InheritedCall
<1>4. CASE InheritedStep /\ UNCHANGED gpioVars
  <2> USE <1>4 DEF gpioVars, kernelVars
  <2>1. CASE Join
    <3>1. \A w \in Workers : ~Live(w) /\ ~Live(w)'
      BY <2>1, JoinedIsQuiet DEF Join, Live
    <3>2. ~Dangling'
      BY <2>1 DEF Join, AfterJoin, PointerInv, Dangling
    <3> QED
      BY <2>1, <3>1, <3>2 DEF Join, Owned, NoFault, PointerInv
  <2>2. CASE RestartJoin
    <3>1. \A w \in Workers : ~Live(w) /\ ~Live(w)'
      BY <2>2, JoinedIsQuiet DEF RestartJoin, Live
    <3> QED
      BY <2>2, <3>1 DEF RestartJoin, Owned, NoFault, PointerInv
  <2>3. CASE Spawn
    <3>1. PICK w \in Workers :
            /\ wpc[w] = "unborn"
            /\ wpc' = [wpc EXCEPT ![w] = "spawned"]
            /\ handle' = [handle EXCEPT ![w] = "joinable"]
            /\ thread' = w
      BY <2>3 DEF Spawn
    <3>2. \A v \in Workers : Live(v)' => v = w
      BY <2>3, <3>1 DEF Spawn, Live
    <3>3. Owned' /\ ~Dangling'
      BY <3>1, <3>2 DEF Owned, Dangling
    <3>4. obj = "derived"
      BY <2>3 DEF Spawn
    <3> QED
      BY <2>3, <3>3, <3>4 DEF Spawn, NoFault, PointerInv
  <2>4. CASE SpawnFails
    BY <2>4 DEF SpawnFails
  <2>5. CASE BaseStop
    <3>1. \A w \in Workers : ~Live(w) /\ ~Live(w)'
      BY <2>5 DEF BaseStop, Live
    <3> QED
      BY <2>5, <3>1 DEF BaseStop, Owned, NoFault, PointerInv, Dangling
  <2>6. CASE BaseJoin
    <3>1. \A w \in Workers : ~Live(w) /\ ~Live(w)'
      BY <2>6, JoinedIsQuiet DEF BaseJoin, Live
    <3> QED
      BY <2>6, <3>1 DEF BaseJoin, Owned, NoFault, PointerInv
  <2>7. CASE JoinDangling
    BY <2>7 DEF JoinDangling, Waiting, PointerInv
  <2> QED
    BY <2>1, <2>2, <2>3, <2>4, <2>5, <2>6, <2>7 DEF InheritedStep
<1>5. CASE OwnTest
  <2>1. (\A w \in Workers : ~Live(w)) /\ ~run
    BY <1>5, NothingLeft
  <2>2. \A w \in Workers : ~Live(w)'
    BY <1>5, <2>1 DEF OwnTest, Live
  <2> QED
    BY <1>5, <2>1, <2>2
    DEF OwnTest, Call, gpioVars, kernelVars, NoFault, Owned, PointerInv, Dangling
<1>6. CASE OwnStop \/ OwnJoin
  BY <1>6 DEF OwnStop, OwnJoin
<1>7. CASE OwnClose
  <2>1. \A w \in Workers : ~Live(w) /\ ~Live(w)'
    BY <1>7 DEF OwnClose, Live
  <2> QED
    BY <1>7, <2>1 DEF OwnClose, NoFault, Owned, PointerInv, Dangling
<1>8. ASSUME NEW w \in Workers, (RunThreadStep(w) /\ UNCHANGED gpioVars) \/ LoopStep(w)
      PROVE  ProperInv'
  <2>1. Live(w) /\ obj = "derived"
    BY <1>8 DEF RunThreadStep, SetRun, ClearRun, LoopStep, EnterRun, CallRun,
      LeaveRun, ReturnFromRun, TestRun, InRun, PollReady, Read, Callback,
      RunDestroyed, RunWithoutMembers, Advance, Live
  <2>2. /\ UNCHANGED <<obj, thread, handle, owner, fault, exported, open>>
        /\ \A v \in Workers : Live(v)' => Live(v)
    BY <1>8, <2>1 DEF RunThreadStep, SetRun, ClearRun, LoopStep, EnterRun, CallRun,
      LeaveRun, ReturnFromRun, TestRun, InRun, PollReady, Read, Callback,
      RunDestroyed, RunWithoutMembers, Advance, Live, vars, gpioVars, kernelVars
  <2> QED
    BY <2>2 DEF NoFault, Owned, PointerInv, Dangling
<1>9. CASE LineChanges \/ \E w \in Workers : PollEmpty(w)
  BY <1>1, <1>9 DEF LineChanges, PollEmpty, kernelVars
<1>10. CASE Removed
  BY <1>10 DEF Removed
<1>11. CASE UNCHANGED allVars
  BY <1>1, <1>11 DEF allVars, gpioVars, kernelVars
<1> QED
  BY <1>2, <1>3, <1>4, <1>5, <1>6, <1>7, <1>8, <1>9, <1>10, <1>11
  DEF GPIONext, GPIOOwner, GPIOWorker

LEMMA ProperAlways == GPIOSpec => [](proper => ProperInv)
<1>1. ASSUME GPIOTypeInv, RunFlagHonest, proper => ProperInv, [GPIONext]_allVars
      PROVE  (proper => ProperInv)'
  BY <1>1, ProperKept DEF GPIONext, Goes, allVars, vars
<1> QED
  BY <1>1, ProperInit, GPIOTypes, GPIORunFlag, PTL DEF GPIOSpec

(* A SysFSGPIO that is joined before it is destroyed, and whose GPIO nobody *)
(* else removes, goes right: its two destructors do not delete the thread   *)
(* twice, and run() neither throws nor outlives what it uses                *)
(* (SysFSGPIO.cpp:220-238 and 487-525).                                     *)
THEOREM GPIOProperSafe == GPIOSpec => []ProperSafe
BY ProperAlways, PTL DEF ProperInv, ProperSafe

-----------------------------------------------------------------------------
\* What a step of a proper client and of its thread is to the Runable.
LEMMA InheritedStepMaps ==
  ASSUME proper, GPIOTypeInv, RunFlagHonest, ProperInv, GPIONext
  PROVE  Inherited!Next \/ UNCHANGED Inherited!vars
<1> DEFINE mapped == IF owner = "own_close" THEN "idle" ELSE owner
<1>0. Inherited!Goes /\ fault = "none"
  BY DEF GPIONext, Goes, Inherited!Goes
<1>1. ASSUME UNCHANGED <<obj, run, thread, handle, wpc, fault>>, mapped' = mapped
      PROVE  UNCHANGED Inherited!vars
  BY <1>1 DEF Inherited!vars
<1>2. ASSUME UNCHANGED vars PROVE UNCHANGED Inherited!vars
  BY <1>1, <1>2 DEF vars
<1>3. CASE Construct
  <2>1. Inherited!CallStart
    BY <1>3, GPIOCallbackAssumption
    DEF Construct, GPIOTypeInv, Unstarted, Inherited!CallStart, Inherited!Call
  <2> QED
    BY <1>0, <2>1 DEF Inherited!Next, Inherited!OwnerCall
<1>4. CASE InheritedCall
  <2>1. Inherited!CallStart \/ Inherited!CallStop \/ Inherited!CallJoin
    BY <1>4 DEF InheritedCall, CallStart, CallStop, CallJoin, Call,
      Inherited!CallStart, Inherited!CallStop, Inherited!CallJoin, Inherited!Call
  <2> QED
    BY <1>0, <2>1 DEF Inherited!Next, Inherited!OwnerCall
<1>5. CASE InheritedStep
  <2>1. Inherited!OwnerStep
    BY <1>5 DEF InheritedStep, Join, RestartJoin, Spawn, SpawnFails, BaseStop,
      BaseJoin, JoinDangling, Waiting, Joined, AfterJoin, AfterDelete, Dangling, Fail,
      Inherited!OwnerStep, Inherited!Join, Inherited!RestartJoin, Inherited!Spawn,
      Inherited!SpawnFails, Inherited!BaseStop, Inherited!BaseJoin,
      Inherited!JoinDangling, Inherited!Waiting, Inherited!Joined, Inherited!AfterJoin,
      Inherited!AfterDelete, Inherited!Dangling, Inherited!Fail
  <2> QED
    BY <1>0, <2>1 DEF Inherited!Next
<1>6. CASE OwnTest
  <2>1. owner = "idle" /\ owner' = "own_close"
    BY <1>6, NothingLeft DEF OwnTest, Call
  <2>2. UNCHANGED <<obj, run, thread, handle, wpc, fault>>
    BY <1>6 DEF OwnTest
  <2> QED
    BY <1>1, <2>1, <2>2
<1>7. CASE OwnStop \/ OwnJoin
  BY <1>7 DEF OwnStop, OwnJoin, ProperInv
<1>8. CASE OwnClose
  <2>1. "destroy" \in Calls /\ obj = "derived" /\ owner = "own_close"
    BY <1>8 DEF OwnClose, ProperInv, GPIOTypeInv, RunTypes
  <2>2. Inherited!CallDestroy
    BY <1>8, <2>1 DEF OwnClose, Inherited!CallDestroy, Inherited!Call
  <2> QED
    BY <1>0, <2>2 DEF Inherited!Next, Inherited!OwnerCall
<1>9. ASSUME NEW w \in Workers, RunThreadStep(w)
      PROVE  Inherited!Next
  <2>1. Inherited!WorkerStep(w)
    BY <1>9 DEF RunThreadStep, SetRun, ClearRun, Advance, Inherited!WorkerStep,
      Inherited!SetRun, Inherited!ClearRun, Inherited!Advance
  <2> QED
    BY <1>0, <2>1 DEF Inherited!Next
<1>10. ASSUME NEW w \in Workers, LoopStep(w)
       PROVE  Inherited!Next \/ UNCHANGED Inherited!vars
  <2>1. CASE EnterRun(w) \/ LeaveRun(w) \/ RunDestroyed(w)
    <3>1. Inherited!WorkerStep(w)
      BY <2>1 DEF EnterRun, CallRun, LeaveRun, ReturnFromRun, RunDestroyed,
        RunWithoutMembers, Advance, Fail, Inherited!WorkerStep, Inherited!CallRun,
        Inherited!ReturnFromRun, Inherited!RunWithoutMembers, Inherited!Advance,
        Inherited!Fail
    <3> QED
      BY <1>0, <3>1 DEF Inherited!Next
  <2>2. CASE TestRun(w) \/ PollReady(w) \/ Callback(w)
    BY <1>2, <2>2 DEF TestRun, PollReady, Callback
  <2>3. CASE Read(w)
    BY <1>2, <2>3 DEF Read, InRun, ProperInv
  <2> QED
    BY <1>10, <2>1, <2>2, <2>3 DEF LoopStep
<1>11. CASE LineChanges \/ Removed \/ \E w \in Workers : PollEmpty(w)
  BY <1>2, <1>11 DEF LineChanges, Removed, PollEmpty
<1> QED
  BY <1>3, <1>4, <1>5, <1>6, <1>7, <1>8, <1>9, <1>10, <1>11
  DEF GPIONext, GPIOOwner, GPIOWorker

(* A proper client of a SysFSGPIO has a Runable: the constructor calls     *)
(* start() on it, run() is its run(), and ~Runable finds nothing left to   *)
(* do (SysFSGPIO.cpp:195-240 and 466-530).                                 *)
THEOREM GPIOImplementsRunable == GPIOSpec => ImplementsRunable
<1>1. GPIOInit => Inherited!Init
  BY DEF GPIOInit, Init, Inherited!Init
<1>2. ASSUME GPIOTypeInv, RunFlagHonest, proper => ProperInv, [GPIONext]_allVars
      PROVE  [proper => Inherited!Next]_(Inherited!vars)
  <2>1. CASE GPIONext
    BY <1>2, <2>1, InheritedStepMaps
  <2>2. CASE UNCHANGED allVars
    BY <2>2 DEF allVars, vars, Inherited!vars
  <2> QED
    BY <1>2, <2>1, <2>2
<1> QED
  BY <1>1, <1>2, GPIOTypes, GPIORunFlag, ProperAlways, PTL
  DEF GPIOSpec, ImplementsRunable

-----------------------------------------------------------------------------
(* Spawn enters the slot, ClearRun leaves it, and the end of ~SysFSGPIO     *)
(* tears it down; every other step leaves the slot alone.                   *)
LEMMA GPIOSlotStep ==
  ASSUME proper, GPIOTypeInv, ProperInv, [GPIONext]_allVars
  PROVE  [Slot!SlotNext]_(Slot!slotVars)
<1> DEFINE threads == {w \in Workers : Live(w)}
           standing == obj = "derived"
<1> USE DEF ProperInv, GPIOTypeInv, RunTypes
<1>1. ASSUME UNCHANGED <<wpc, obj>> PROVE UNCHANGED Slot!slotVars
  BY <1>1 DEF Slot!slotVars, Live
<1>2. CASE Construct \/ InheritedCall \/ OwnTest \/ OwnStop \/ OwnJoin
  BY <1>1, <1>2 DEF Construct, InheritedCall, CallStart, CallStop, CallJoin, OwnTest,
    OwnStop, OwnJoin
<1>3. CASE Spawn
  <2>1. PICK w \in Workers :
          wpc[w] = "unborn" /\ wpc' = [wpc EXCEPT ![w] = "spawned"]
    BY <1>3 DEF Spawn
  <2>2. threads = {} /\ standing /\ standing'
    BY <1>3 DEF Spawn
  <2>3. threads' = {w}
    BY <2>1, <2>2 DEF Live
  <2> QED
    BY <2>2, <2>3 DEF Slot!Enter, Slot!SlotNext
<1>4. CASE OwnClose
  <2>1. threads = {} /\ threads' = {}
    BY <1>4 DEF OwnClose, Live
  <2>2. standing /\ ~standing'
    BY <1>4 DEF OwnClose
  <2>3. Slot!TearDown
    BY <2>1, <2>2 DEF Slot!TearDown
  <2> QED
    BY <2>3 DEF Slot!SlotNext
<1>5. CASE BaseJoin
  <2>1. threads' = threads
    BY <1>5 DEF BaseJoin, Live
  <2>2. ~standing /\ ~standing'
    BY <1>5 DEF BaseJoin
  <2> QED
    BY <2>1, <2>2 DEF Slot!slotVars
<1>6. CASE Join \/ RestartJoin \/ SpawnFails \/ BaseStop \/ JoinDangling
  BY <1>1, <1>6 DEF Join, RestartJoin, SpawnFails, BaseStop, JoinDangling, Waiting, Fail
<1>7. ASSUME NEW w \in Workers, ClearRun(w) PROVE Slot!SlotNext
  <2>1. threads = {w} /\ threads' = {}
    BY <1>7 DEF ClearRun, Advance, Owned, Live
  <2>2. standing' = standing
    BY <1>7 DEF ClearRun
  <2>3. Slot!Leave
    BY <2>1, <2>2 DEF Slot!Leave
  <2> QED
    BY <2>3 DEF Slot!SlotNext
<1>8. ASSUME NEW w \in Workers, SetRun(w) \/ LoopStep(w)
      PROVE  UNCHANGED Slot!slotVars
  <2>1. UNCHANGED obj /\ \A v \in Workers : Live(v)' <=> Live(v)
    BY <1>8 DEF SetRun, LoopStep, EnterRun, CallRun, LeaveRun, ReturnFromRun, TestRun,
      InRun, PollReady, Read, Callback, RunDestroyed, RunWithoutMembers, Advance,
      Fail, Live, vars
  <2> QED
    BY <2>1 DEF Slot!slotVars
<1>9. CASE LineChanges \/ Removed \/ \E w \in Workers : PollEmpty(w)
  BY <1>1, <1>9 DEF LineChanges, Removed, PollEmpty, vars
<1>10. CASE UNCHANGED allVars
  BY <1>1, <1>10 DEF allVars, vars
<1> QED
  BY <1>2, <1>3, <1>4, <1>5, <1>6, <1>7, <1>8, <1>9, <1>10
  DEF GPIONext, GPIOOwner, GPIOWorker, InheritedStep, RunThreadStep

(* A proper client of a SysFSGPIO has the slot for one thread that Runable  *)
(* promises, also through the class's own destructor: the descriptor is     *)
(* closed and the members go only when no thread is left that uses them     *)
(* (SysFSGPIO.cpp:195-240 and 472-474).                                     *)
THEOREM GPIOImplementsSlot == GPIOSpec => ImplementsSlot
<1>1. GPIOInit => Slot!SlotInit
  BY DEF GPIOInit, Init, Slot!SlotInit, Live
<1>2. ASSUME GPIOTypeInv, proper => ProperInv, [GPIONext]_allVars
      PROVE  [proper => Slot!SlotNext]_(Slot!slotVars)
  BY <1>2, GPIOSlotStep
<1> QED
  BY <1>1, <1>2, GPIOTypes, ProperAlways, PTL DEF GPIOSpec, ImplementsSlot
=============================================================================
