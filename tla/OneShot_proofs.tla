--------------------------- MODULE OneShot_proofs ---------------------------
(***************************************************************************)
(* Proofs about module OneShot, for any sets of shots and threads.         *)
(***************************************************************************)
EXTENDS OneShot, TLAPS

(* Every variable keeps its type, however the class is used (Runable.hpp:  *)
(* 308-385).                                                               *)
THEOREM OneShotTypeCorrect == Spec => []TypeOK
<1>1. Init => TypeOK
  BY OneShotAssumption DEF Init, TypeOK
<1>2. TypeOK /\ [Next]_vars => TypeOK'
  <2> SUFFICES ASSUME TypeOK, [Next]_vars PROVE TypeOK'
    OBVIOUS
  <2>0. UNCHANGED plenty
    BY DEF Next, Goes, vars
  <2> USE <2>0 DEF TypeOK
  <2>1. ASSUME NEW c \in Threads \cup {Main}, NEW s \in Shots, Start(c, s)
        PROVE  TypeOK'
    BY <2>1 DEF Start, Create, Made
  <2>2. ASSUME NEW c \in Threads \cup {Main}, StartAgain(c)
        PROVE  TypeOK'
    BY <2>2 DEF StartAgain, Create, Made, AfterDelete, Crash
  <2>3. ASSUME NEW t \in Threads, StartStep(t) PROVE TypeOK'
    <3>1. CASE Store(t)
      BY <3>1 DEF Store, Crash
    <3>2. CASE Detach(t)
      BY <3>2 DEF Detach, Crash
    <3> QED
      BY <2>3, <3>1, <3>2 DEF StartStep
  <2>4. ASSUME NEW t \in Threads, WorkerStep(t) PROVE TypeOK'
    BY <2>4 DEF WorkerStep, FinishRun, DeleteThread, FreeMemory, UseAfterFree,
                AfterDelete, Crash
  <2>5. CASE UNCHANGED vars
    BY <2>5 DEF vars
  <2> QED
    BY <2>1, <2>2, <2>3, <2>4, <2>5 DEF Next, UserStep
<1> QED
  BY <1>1, <1>2, PTL DEF Spec

-----------------------------------------------------------------------------
\* What is known of a thread, by the progress of the start() that makes it.
ThreadInv(t) ==
  /\ wpc[t] = "unborn" <=> spc[t] = "idle"
  /\ wpc[t] = "unborn" => self[t] = NoShot
  /\ wpc[t] # "unborn" => self[t] \in Shots
  /\ Starting(t) => wpc[t] \in {"running", "deleting"} /\ handle[t] = "joinable"
  /\ spc[t] = "store" => member[self[t]] = NoThread
  /\ spc[t] \in {"detach", "returned"} => member[self[t]] = t
  /\ spc[t] = "returned" =>
       handle[t] = IF wpc[t] \in {"running", "deleting"}
                     THEN "detached" ELSE "deleted"
  /\ wpc[t] \in {"running", "deleting", "freeing"} => mem[self[t]] = "live"

\* No two threads have the same object.
OwnObject ==
  \A t, u \in Threads :
    wpc[t] # "unborn" /\ wpc[u] # "unborn" /\ self[t] = self[u] => t = u

\* An object that does not exist yet has no thread, stored or not.
Fresh ==
  \A s \in Shots : mem[s] = "unborn" =>
    member[s] = NoThread /\ \A t \in Threads : self[t] # s

\* What holds until an order of calls goes wrong.
ShotInv ==
  /\ TypeOK
  /\ crash = "none"
  /\ OwnObject
  /\ Fresh
  /\ \A t \in Threads : ThreadInv(t)

LEMMA ShotInit == Init => ShotInv
BY OneShotAssumption
   DEF Init, ShotInv, TypeOK, OwnObject, Fresh, ThreadInv, Starting

-----------------------------------------------------------------------------
(* start() on a new object, with or without a thread.                      *)
LEMMA StartKeepsInv ==
  ASSUME ShotInv, UNCHANGED <<plenty, slips>>,
         NEW c \in Threads \cup {Main}, NEW s \in Shots, Start(c, s)
  PROVE  ShotInv'
<1> USE DEF ShotInv
<1>1. CASE Create(c, s)
  <2>1. PICK t \in Threads :
          /\ wpc[t] = "unborn"
          /\ wpc' = [wpc EXCEPT ![t] = "running"]
          /\ self' = [self EXCEPT ![t] = s]
          /\ spc' = [spc EXCEPT ![t] = "store"]
          /\ caller' = [caller EXCEPT ![t] = c]
    BY <1>1 DEF Create
  <2>2. /\ mem[s] = "unborn"
        /\ mem' = [mem EXCEPT ![s] = "live"]
        /\ member' = member
        /\ crash' = crash
    BY DEF Start
  <2>3. handle' = [handle EXCEPT ![t] = "joinable"]
    <3>1. \A u \in Threads : Made(u) <=> u = t
      BY <2>1 DEF Made, TypeOK
    <3>2. handle' = [u \in Threads |->
                       IF Made(u) THEN "joinable" ELSE handle[u]]
      BY <1>1, <2>1 DEF Start, TypeOK
    <3> QED
      BY <3>1, <3>2 DEF TypeOK
  <2>4. TypeOK' /\ crash' = "none"
    BY <2>1, <2>2, <2>3 DEF TypeOK
  <2>5. \A u \in Threads : self[u] # s
    BY <2>2 DEF Fresh
  <2>6. OwnObject'
    BY <2>1, <2>5 DEF OwnObject, TypeOK
  <2>7. Fresh'
    BY <2>1, <2>2 DEF Fresh, TypeOK
  <2>8. ASSUME NEW u \in Threads PROVE ThreadInv(u)'
    <3>1. CASE u = t
      BY <2>1, <2>2, <2>3, <3>1 DEF ThreadInv, Starting, Fresh, TypeOK
    <3>2. CASE u # t
      BY <2>1, <2>2, <2>3, <2>5, <3>2 DEF ThreadInv, Starting, TypeOK
    <3> QED
      BY <3>1, <3>2
  <2> QED
    BY <2>4, <2>6, <2>7, <2>8
<1>2. CASE UNCHANGED <<handle, self, wpc, spc, caller>>
  <2>1. /\ mem[s] = "unborn"
        /\ mem' = [mem EXCEPT ![s] = "live"]
        /\ UNCHANGED <<member, crash>>
    BY DEF Start
  <2>2. TypeOK' /\ crash' = "none" /\ OwnObject'
    BY <1>2, <2>1 DEF TypeOK, OwnObject
  <2>3. Fresh'
    BY <1>2, <2>1 DEF Fresh, TypeOK
  <2>4. ASSUME NEW u \in Threads PROVE ThreadInv(u)'
    BY <1>2, <2>1 DEF ThreadInv, Starting, TypeOK
  <2> QED
    BY <2>2, <2>3, <2>4
<1> QED
  BY <1>1, <1>2 DEF Start

-----------------------------------------------------------------------------
(* A thread and its starter touch only the thread and its object, so what  *)
(* is known of the other threads is kept.                                  *)
LEMMA OthersKeepInv ==
  ASSUME ShotInv, NEW t \in Threads, wpc[t] # "unborn",
         NEW u \in Threads, u # t,
         wpc'[u] = wpc[u], spc'[u] = spc[u], self' = self,
         handle'[u] = handle[u],
         \A s \in Shots : s # self[t] => mem'[s] = mem[s]
                                      /\ member'[s] = member[s]
  PROVE  ThreadInv(u)'
<1>1. wpc[u] # "unborn" => self[u] \in Shots /\ self[u] # self[t]
  BY DEF ShotInv, OwnObject, ThreadInv
<1>2. wpc[u] = "unborn" => spc[u] = "idle"
  BY DEF ShotInv, ThreadInv
<1> QED
  BY <1>1, <1>2 DEF ShotInv, ThreadInv, Starting

LEMMA StartStepKeepsInv ==
  ASSUME ShotInv, UNCHANGED <<plenty, slips>>, NEW t \in Threads, StartStep(t)
  PROVE  ShotInv'
<1> USE DEF ShotInv
<1>1. /\ wpc[t] \in {"running", "deleting"} /\ self[t] \in Shots /\ ~Gone(t)
      /\ handle[t] = "joinable"
      /\ spc[t] = "detach" => member[self[t]] = t
  BY DEF StartStep, Store, Detach, ThreadInv, Starting, Gone
<1>2. CASE Store(t)
  <2>1. /\ spc[t] = "store"
        /\ member' = [member EXCEPT ![self[t]] = t]
        /\ spc' = [spc EXCEPT ![t] = "detach"]
        /\ UNCHANGED <<mem, handle, self, wpc, caller, crash>>
    BY <1>1, <1>2 DEF Store
  <2>2. TypeOK' /\ crash' = "none" /\ OwnObject'
    BY <2>1 DEF TypeOK, OwnObject
  <2>3. Fresh'
    BY <1>1, <2>1 DEF Fresh, TypeOK
  <2>4. ThreadInv(t)'
    BY <1>1, <2>1 DEF ThreadInv, Starting, TypeOK
  <2>5. ASSUME NEW u \in Threads, u # t PROVE ThreadInv(u)'
    BY <1>1, <2>1, <2>5, OthersKeepInv DEF TypeOK
  <2> QED
    BY <2>2, <2>3, <2>4, <2>5
<1>3. CASE Detach(t)
  <2>1. member[self[t]] = t /\ Pointee(self[t]) = "joinable"
    BY <1>1, <1>3, OneShotAssumption DEF Detach, Pointee
  <2>2. /\ spc[t] = "detach"
        /\ handle' = [handle EXCEPT ![t] = "detached"]
        /\ spc' = [spc EXCEPT ![t] = "returned"]
        /\ UNCHANGED <<mem, member, self, wpc, caller, crash>>
    BY <1>1, <1>3, <2>1 DEF Detach
  <2>3. TypeOK' /\ crash' = "none" /\ OwnObject' /\ Fresh'
    BY <2>2 DEF TypeOK, OwnObject, Fresh
  <2>4. ThreadInv(t)'
    BY <1>1, <2>1, <2>2 DEF ThreadInv, Starting, TypeOK
  <2>5. ASSUME NEW u \in Threads, u # t PROVE ThreadInv(u)'
    BY <1>1, <2>2, <2>5, OthersKeepInv DEF TypeOK
  <2> QED
    BY <2>3, <2>4, <2>5
<1> QED
  BY <1>2, <1>3 DEF StartStep

LEMMA WorkerStepKeepsInv ==
  ASSUME ShotInv, slips = {}, slips' = {}, UNCHANGED plenty,
         NEW t \in Threads, WorkerStep(t)
  PROVE  ShotInv'
<1> USE DEF ShotInv
<1>1. /\ wpc[t] \in {"running", "deleting", "freeing"}
      /\ self[t] \in Shots /\ ~Gone(t)
      /\ ~FinishRun(t) => spc[t] = "returned" /\ member[self[t]] = t
  <2>1. wpc[t] \in {"running", "deleting", "freeing"}
    BY OneShotAssumption
    DEF WorkerStep, FinishRun, Free, DeleteThread, FreeMemory, UseAfterFree
  <2>2. self[t] \in Shots /\ ~Gone(t)
    BY <2>1 DEF ThreadInv, Gone
  <2>3. ~FinishRun(t) => spc[t] = "returned"
    BY <2>1, <2>2 DEF WorkerStep, DeleteThread, FreeMemory, UseAfterFree,
      ThreadInv, Starting, TypeOK
  <2>4. spc[t] = "returned" => member[self[t]] = t
    BY DEF ThreadInv
  <2> QED
    BY <2>1, <2>2, <2>3, <2>4
<1>2. CASE FinishRun(t)
  <2>1. /\ wpc[t] = "running"
        /\ wpc' = [wpc EXCEPT ![t] = "deleting"]
        /\ UNCHANGED <<mem, member, handle, self, spc, caller, crash>>
    BY <1>2, OneShotAssumption DEF FinishRun, Free
  <2>2. TypeOK' /\ crash' = "none" /\ Fresh'
    BY <2>1 DEF TypeOK, Fresh
  <2>3. OwnObject'
    BY <2>1 DEF OwnObject, TypeOK
  <2>4. ThreadInv(t)'
    BY <1>1, <2>1 DEF ThreadInv, Starting, TypeOK
  <2>5. ASSUME NEW u \in Threads, u # t PROVE ThreadInv(u)'
    BY <1>1, <2>1, <2>5, OthersKeepInv DEF TypeOK
  <2> QED
    BY <2>2, <2>3, <2>4, <2>5
<1>3. CASE DeleteThread(t)
  <2>0. spc[t] = "returned" /\ member[self[t]] = t
    BY <1>1, <1>3, OneShotAssumption DEF DeleteThread, FinishRun, Free
  <2>1. Pointee(self[t]) = "detached"
    BY <1>3, <2>0, OneShotAssumption DEF DeleteThread, Pointee, ThreadInv
  <2>2. AfterDelete(self[t]) = [handle EXCEPT ![t] = "deleted"]
    BY <2>0 DEF AfterDelete, TypeOK
  <2>3. /\ wpc[t] = "deleting"
        /\ handle' = [handle EXCEPT ![t] = "deleted"]
        /\ wpc' = [wpc EXCEPT ![t] = "freeing"]
        /\ UNCHANGED <<mem, member, self, spc, caller, crash>>
    BY <1>3, <2>1, <2>2 DEF DeleteThread
  <2>4. TypeOK' /\ crash' = "none" /\ Fresh'
    BY <2>3 DEF TypeOK, Fresh
  <2>5. OwnObject'
    BY <2>3 DEF OwnObject, TypeOK
  <2>6. ThreadInv(t)'
    BY <1>1, <2>0, <2>3 DEF ThreadInv, Starting, TypeOK
  <2>7. ASSUME NEW u \in Threads, u # t PROVE ThreadInv(u)'
    BY <1>1, <2>3, <2>7, OthersKeepInv DEF TypeOK
  <2> QED
    BY <2>4, <2>5, <2>6, <2>7
<1>4. CASE FreeMemory(t)
  <2>1. /\ wpc[t] = "freeing"
        /\ mem' = [mem EXCEPT ![self[t]] = "freed"]
        /\ wpc' = [wpc EXCEPT ![t] = "ended"]
        /\ UNCHANGED <<member, handle, self, spc, caller, crash>>
    BY <1>4 DEF FreeMemory
  <2>2. TypeOK' /\ crash' = "none" /\ Fresh'
    BY <1>1, <2>1 DEF TypeOK, Fresh
  <2>3. OwnObject'
    BY <2>1 DEF OwnObject, TypeOK
  <2>4. ThreadInv(t)'
    BY <1>1, <2>1 DEF ThreadInv, Starting, TypeOK
  <2>5. ASSUME NEW u \in Threads, u # t PROVE ThreadInv(u)'
    BY <1>1, <2>1, <2>5, OthersKeepInv DEF TypeOK
  <2> QED
    BY <2>2, <2>3, <2>4, <2>5
<1> QED
  BY <1>1, <1>2, <1>3, <1>4 DEF WorkerStep, UseAfterFree

-----------------------------------------------------------------------------
LEMMA ShotInvariant == Spec => [](slips = {} => ShotInv)
<1>1. ASSUME slips = {} => ShotInv, [Next]_vars PROVE (slips = {} => ShotInv)'
  <2> SUFFICES ASSUME slips' = {} PROVE ShotInv'
    OBVIOUS
  <2>0. ShotInv /\ slips = {} /\ UNCHANGED <<plenty, slips>>
    BY <1>1 DEF Next, Goes, UserStep, Start, StartAgain, StartStep, Store, Detach,
      WorkerStep, FinishRun, DeleteThread, FreeMemory, UseAfterFree, vars
  <2> USE <2>0
  <2>1. ASSUME NEW c \in Threads \cup {Main}, NEW s \in Shots, Start(c, s)
        PROVE  ShotInv'
    BY <2>1, StartKeepsInv
  <2>2. ASSUME NEW c \in Threads \cup {Main}, StartAgain(c) PROVE FALSE
    BY <2>2 DEF StartAgain
  <2>3. ASSUME NEW t \in Threads, StartStep(t) PROVE ShotInv'
    BY <2>3, StartStepKeepsInv
  <2>4. ASSUME NEW t \in Threads, WorkerStep(t) PROVE ShotInv'
    BY <2>4, WorkerStepKeepsInv
  <2>5. CASE UNCHANGED vars
    BY <2>5 DEF vars, ShotInv, TypeOK, OwnObject, Fresh, ThreadInv,
                Starting
  <2> QED
    BY <1>1, <2>1, <2>2, <2>3, <2>4, <2>5 DEF Next, UserStep
<1> QED
  BY <1>1, ShotInit, PTL DEF Spec

(* The program is ended by a shot only after one of two orders of calls: a   *)
(* shot was destroyed before its start() had stored and detached the thread, *)
(* or was started again, however many shots start one another (Runable.hpp:  *)
(* 324-380).                                                                 *)
THEOREM OneShotCrashes == Spec => []NoCrash
<1>1. (slips = {} => ShotInv) => NoCrash
  BY DEF ShotInv, NoCrash
<1> QED
  BY <1>1, ShotInvariant, PTL

(* Until then the std::thread is reclaimed with its shot (Runable.hpp:       *)
(* 373-380).                                                                 *)
THEOREM OneShotFreesThread == Spec => []NoLeak
<1>1. (slips = {} => ShotInv) => NoLeak
  BY DEF ShotInv, NoLeak, ThreadInv, Starting, TypeOK
<1> QED
  BY <1>1, ShotInvariant, PTL

-----------------------------------------------------------------------------
\* What holds in every use: which shot a thread has.
BornInv ==
  \A t \in Threads :
    /\ wpc[t] = "unborn" => self[t] = NoShot
    /\ wpc[t] # "unborn" => self[t] \in Shots

LEMMA BornInvariant == Spec => [](TypeOK /\ BornInv)
<1>1. Init => BornInv
  BY DEF Init, BornInv
<1>2. ASSUME TypeOK, BornInv, [Next]_vars PROVE BornInv'
  <2> USE <1>2 DEF TypeOK, BornInv
  <2>1. ASSUME NEW c \in Threads \cup {Main}, NEW s \in Shots, Start(c, s)
        PROVE  BornInv'
    BY <2>1 DEF Start, Create
  <2>2. ASSUME NEW c \in Threads \cup {Main}, StartAgain(c) PROVE BornInv'
    <3>1. self[c] \in Shots
      BY <2>2, OneShotAssumption DEF StartAgain, Free
    <3> QED
      BY <2>2, <3>1 DEF StartAgain, Create, Crash
  <2>3. ASSUME NEW t \in Threads, StartStep(t) \/ WorkerStep(t) PROVE BornInv'
    <3>1. UNCHANGED self /\ \A u \in Threads : u # t => wpc'[u] = wpc[u]
      BY <2>3
      DEF StartStep, Store, Detach, WorkerStep, FinishRun, DeleteThread,
          FreeMemory, UseAfterFree, Crash
    <3>2. wpc'[t] = "unborn" <=> wpc[t] = "unborn"
      BY <2>3, OneShotAssumption
      DEF StartStep, Store, Detach, WorkerStep, FinishRun, Free, DeleteThread,
          FreeMemory, UseAfterFree, Crash
    <3> QED
      BY <3>1, <3>2
  <2>4. CASE UNCHANGED vars
    BY <2>4 DEF vars
  <2> QED
    BY <2>1, <2>2, <2>3, <2>4 DEF Next, UserStep
<1> QED
  BY <1>1, <1>2, OneShotTypeCorrect, PTL DEF Spec

(* If a thread can always be made, every shot has a thread that will delete  *)
(* it from the moment start() is entered, whatever run() does (Runable.hpp:  *)
(* 341 and 360).                                                             *)
THEOREM StartedOwnsItself == Spec => []SelfOwned
<1>1. Init => SelfOwned
  BY DEF Init, SelfOwned
<1>2. ASSUME TypeOK, BornInv, SelfOwned, [Next]_vars PROVE SelfOwned'
  <2> SUFFICES ASSUME plenty', NEW s \in Shots, mem'[s] = "live"
               PROVE  \E t \in Threads : self'[t] = s /\ wpc'[t] # "ended"
    BY DEF SelfOwned
  <2>0. plenty
    BY <1>2 DEF Next, Goes, vars
  <2> USE <1>2, <2>0 DEF TypeOK
  <2>1. ASSUME NEW c \in Threads \cup {Main}, NEW r \in Shots, Start(c, r)
        PROVE  \E t \in Threads : self'[t] = s /\ wpc'[t] # "ended"
    <3>1. PICK t \in Threads :
            /\ wpc[t] = "unborn"
            /\ wpc' = [wpc EXCEPT ![t] = "running"]
            /\ self' = [self EXCEPT ![t] = r]
      BY <2>1 DEF Start, Create
    <3>2. mem' = [mem EXCEPT ![r] = "live"]
      BY <2>1 DEF Start
    <3>3. CASE s = r
      BY <3>1, <3>3
    <3>4. CASE s # r
      <4>1. PICK u \in Threads : self[u] = s /\ wpc[u] # "ended"
        BY <3>2, <3>4 DEF SelfOwned
      <4>2. u # t
        BY <3>1, <4>1, OneShotAssumption DEF BornInv
      <4> QED
        BY <3>1, <4>1, <4>2
    <3> QED
      BY <3>3, <3>4
  <2>2. ASSUME NEW c \in Threads \cup {Main}, StartAgain(c)
        PROVE  \E t \in Threads : self'[t] = s /\ wpc'[t] # "ended"
    <3>1. mem' = mem
      BY <2>2 DEF StartAgain, Crash
    <3>2. PICK u \in Threads : self[u] = s /\ wpc[u] # "ended"
      BY <3>1 DEF SelfOwned
    <3>3. wpc[u] # "unborn"
      BY <3>2, OneShotAssumption DEF BornInv
    <3> QED
      BY <2>2, <3>2, <3>3 DEF StartAgain, Create, Crash
  <2>3. ASSUME NEW u \in Threads, FreeMemory(u)
        PROVE  \E t \in Threads : self'[t] = s /\ wpc'[t] # "ended"
    <3>1. self[u] \in Shots /\ s # self[u] /\ mem[s] = "live"
      BY <2>3 DEF FreeMemory, BornInv
    <3>2. PICK t \in Threads : self[t] = s /\ wpc[t] # "ended"
      BY <3>1 DEF SelfOwned
    <3> QED
      BY <2>3, <3>1, <3>2 DEF FreeMemory
  <2>4. ASSUME UNCHANGED <<mem, self>>,
               \A t \in Threads : wpc'[t] = "ended" => wpc[t] = "ended"
        PROVE  \E t \in Threads : self'[t] = s /\ wpc'[t] # "ended"
    BY <2>4 DEF SelfOwned
  <2>5. ASSUME NEW u \in Threads,
               \/ StartStep(u) \/ FinishRun(u) \/ DeleteThread(u)
               \/ UseAfterFree(u)
        PROVE  \E t \in Threads : self'[t] = s /\ wpc'[t] # "ended"
    BY <2>4, <2>5
    DEF StartStep, Store, Detach, FinishRun, DeleteThread, UseAfterFree, Crash
  <2>6. CASE UNCHANGED vars
    BY <2>4, <2>6 DEF vars
  <2> QED
    BY <2>1, <2>2, <2>3, <2>5, <2>6 DEF Next, UserStep, WorkerStep
<1> QED
  BY <1>1, <1>2, BornInvariant, PTL DEF Spec

-----------------------------------------------------------------------------
\* What holds of shots that are not started again, also of those that are
\* destroyed before their start() is done.
OnceInv ==
  /\ OwnObject
  /\ \A s \in Shots : mem[s] = "unborn" => \A t \in Threads : self[t] # s
  /\ \A t \in Threads :
       wpc[t] \in {"running", "deleting", "freeing"} => mem[self[t]] = "live"

LEMMA OnceInvariant == Spec => [](slips \subseteq {"early"} => OnceInv)
<1>1. Init => OnceInv
  BY OneShotAssumption DEF Init, OnceInv, OwnObject
<1>2. ASSUME TypeOK, BornInv, slips \subseteq {"early"} => OnceInv, [Next]_vars
      PROVE  (slips \subseteq {"early"} => OnceInv)'
  <2> SUFFICES ASSUME slips' \subseteq {"early"} PROVE OnceInv'
    OBVIOUS
  <2>0. OnceInv
    BY <1>2 DEF Next, UserStep, Start, StartAgain, StartStep, Store, Detach,
      WorkerStep, FinishRun, DeleteThread, FreeMemory, UseAfterFree, vars
  <2> USE <1>2, <2>0 DEF TypeOK, BornInv, OnceInv, OwnObject
  <2>1. ASSUME NEW c \in Threads \cup {Main}, NEW s \in Shots, Start(c, s)
        PROVE  OnceInv'
    <3>1. mem[s] = "unborn" /\ mem' = [mem EXCEPT ![s] = "live"]
      BY <2>1 DEF Start
    <3>2. CASE Create(c, s)
      <4>1. PICK t \in Threads :
              /\ wpc[t] = "unborn"
              /\ wpc' = [wpc EXCEPT ![t] = "running"]
              /\ self' = [self EXCEPT ![t] = s]
        BY <3>2 DEF Create
      <4> QED
        BY <3>1, <4>1
    <3>3. CASE UNCHANGED <<self, wpc>>
      BY <3>1, <3>3
    <3> QED
      BY <2>1, <3>2, <3>3 DEF Start
  <2>2. ASSUME NEW c \in Threads \cup {Main}, StartAgain(c) PROVE FALSE
    BY <2>2 DEF StartAgain
  <2>3. ASSUME NEW t \in Threads, FreeMemory(t) PROVE OnceInv'
    <3>1. /\ wpc[t] = "freeing" /\ self[t] \in Shots
          /\ mem' = [mem EXCEPT ![self[t]] = "freed"]
          /\ wpc' = [wpc EXCEPT ![t] = "ended"]
          /\ self' = self
      BY <2>3 DEF FreeMemory
    <3>2. \A u \in Threads : wpc[u] # "unborn" /\ u # t => self[u] # self[t]
      BY <3>1
    <3> QED
      BY <3>1, <3>2
  <2>4. ASSUME UNCHANGED <<mem, self>>, wpc' \in [Threads -> STRING],
               \A t \in Threads :
                 /\ wpc'[t] = "unborn" <=> wpc[t] = "unborn"
                 /\ wpc'[t] \in {"running", "deleting", "freeing"}
                      => wpc[t] \in {"running", "deleting", "freeing"}
        PROVE  OnceInv'
    BY <2>4
  <2>5. ASSUME NEW t \in Threads,
               \/ StartStep(t) \/ FinishRun(t) \/ DeleteThread(t)
               \/ UseAfterFree(t)
        PROVE  OnceInv'
    BY <2>4, <2>5, OneShotAssumption
    DEF StartStep, Store, Detach, FinishRun, Free, DeleteThread, UseAfterFree, Crash
  <2>6. CASE UNCHANGED vars
    BY <2>4, <2>6 DEF vars
  <2> QED
    BY <2>1, <2>2, <2>3, <2>5, <2>6 DEF Next, UserStep, WorkerStep
<1> QED
  BY <1>1, <1>2, BornInvariant, PTL DEF Spec

-----------------------------------------------------------------------------
(* A start() that gets a thread fires its shot, and the thread's last step  *)
(* makes the shot vanish; every other step leaves both sets alone.          *)
LEMMA FireStep ==
  ASSUME TypeOK, BornInv, OnceInv, [Next]_vars
  PROVE  [Shot!FireNext]_(Shot!shotVars)
<1> DEFINE flying == {s \in Shots : \E t \in Threads : self[t] = s /\ wpc[t] # "ended"}
           gone == {s \in Shots : mem[s] = "freed"}
<1> USE DEF BornInv, OnceInv
<1>1. ASSUME UNCHANGED <<mem, self>>,
             \A t \in Threads : wpc'[t] = "ended" <=> wpc[t] = "ended"
      PROVE  UNCHANGED Shot!shotVars
  BY <1>1 DEF Shot!shotVars
<1>2. ASSUME NEW c \in Threads \cup {Main}, NEW s \in Shots, Start(c, s)
      PROVE  [Shot!FireNext]_(Shot!shotVars)
  <2>1. /\ mem[s] = "unborn" /\ mem' = [mem EXCEPT ![s] = "live"]
        /\ s \notin gone /\ gone' = gone
    BY <1>2 DEF Start, TypeOK
  <2>2. s \notin flying
    BY <2>1
  <2>3. CASE Create(c, s)
    <3>1. PICK t \in Threads :
            /\ wpc[t] = "unborn"
            /\ wpc' = [wpc EXCEPT ![t] = "running"]
            /\ self' = [self EXCEPT ![t] = s]
      BY <2>3 DEF Create
    <3>2. self[t] \notin Shots
      BY <3>1, OneShotAssumption
    <3>3. \A r \in Shots : r \in flying' <=> r \in flying \/ r = s
      BY <3>1, <3>2 DEF TypeOK
    <3>4. flying' = flying \cup {s}
      BY <3>3
    <3>5. Shot!Fire(s)
      BY <2>1, <2>2, <3>4 DEF Shot!Fire
    <3> QED
      BY <3>5 DEF Shot!FireNext
  <2>4. CASE UNCHANGED <<self, wpc>>
    BY <2>1, <2>4 DEF Shot!shotVars
  <2> QED
    BY <1>2, <2>3, <2>4 DEF Start
<1>3. ASSUME NEW c \in Threads \cup {Main}, StartAgain(c)
      PROVE  UNCHANGED Shot!shotVars
  <2>1. /\ c \in Threads /\ wpc[c] = "running" /\ self[c] \in Shots
        /\ mem' = mem
    BY <1>3, OneShotAssumption DEF StartAgain, Free, Crash
  <2>2. CASE Create(c, self[c])
    <3>1. PICK t \in Threads :
            /\ wpc[t] = "unborn"
            /\ wpc' = [wpc EXCEPT ![t] = "running"]
            /\ self' = [self EXCEPT ![t] = self[c]]
      BY <2>2 DEF Create
    <3>2. self[t] \notin Shots /\ t # c
      BY <2>1, <3>1, OneShotAssumption
    <3>3. \A r \in Shots : r \in flying' <=> r \in flying
      BY <2>1, <3>1, <3>2 DEF TypeOK
    <3> QED
      BY <2>1, <3>3 DEF Shot!shotVars
  <2>3. CASE UNCHANGED <<self, wpc>>
    BY <2>1, <2>3 DEF Shot!shotVars
  <2> QED
    BY <1>3, <2>2, <2>3 DEF StartAgain, Crash
<1>4. ASSUME NEW t \in Threads, FreeMemory(t) PROVE Shot!FireNext
  <2>1. PICK s \in Shots :
          /\ wpc[t] = "freeing" /\ self[t] = s
          /\ mem' = [mem EXCEPT ![s] = "freed"]
          /\ wpc' = [wpc EXCEPT ![t] = "ended"]
          /\ self' = self
    BY <1>4 DEF FreeMemory
  <2>2. gone' = gone \cup {s}
    BY <2>1 DEF TypeOK
  <2>3. ASSUME NEW u \in Threads, self[u] = s PROVE u = t
    <3>1. wpc[u] # "unborn"
      BY <2>1, <2>3, OneShotAssumption
    <3> QED
      BY <2>1, <2>3, <3>1 DEF OwnObject
  <2>4. \A r \in Shots : r \in flying' <=> r \in flying /\ r # s
    BY <2>1, <2>3 DEF TypeOK
  <2>5. s \in flying /\ flying' = flying \ {s}
    BY <2>1, <2>4
  <2>6. Shot!Vanish(s)
    BY <2>2, <2>5 DEF Shot!Vanish
  <2> QED
    BY <2>1, <2>6 DEF Shot!FireNext
<1>5. ASSUME NEW t \in Threads,
             StartStep(t) \/ FinishRun(t) \/ DeleteThread(t) \/ UseAfterFree(t)
      PROVE  UNCHANGED Shot!shotVars
  <2>1. /\ UNCHANGED <<mem, self>>
        /\ \/ UNCHANGED wpc
           \/ wpc[t] # "ended" /\ wpc' = [wpc EXCEPT ![t] = "deleting"]
           \/ wpc[t] # "ended" /\ wpc' = [wpc EXCEPT ![t] = "freeing"]
    BY <1>5, OneShotAssumption
    DEF StartStep, Store, Detach, FinishRun, Free, DeleteThread, UseAfterFree, Crash
  <2> QED
    BY <1>1, <2>1 DEF TypeOK
<1>6. CASE UNCHANGED vars
  BY <1>1, <1>6 DEF vars
<1> QED
  BY <1>2, <1>3, <1>4, <1>5, <1>6 DEF Next, UserStep, WorkerStep

(* A shot that is not started again is executed by one thread, once, and is  *)
(* gone when that thread ends, however many shots start one another and also *)
(* when it is faster than its start() (Runable.hpp:272-298 and 324-380).     *)
THEOREM OneShotImplementsFireOnce == Spec => ImplementsFireOnce
<1>1. Init => Shot!FireInit
  BY OneShotAssumption DEF Init, Shot!FireInit
<1>2. ASSUME TypeOK, BornInv, slips \subseteq {"early"} => OnceInv, [Next]_vars
      PROVE  [slips \subseteq {"early"} => Shot!FireNext]_(Shot!shotVars)
  BY <1>2, FireStep
<1> QED
  BY <1>1, <1>2, BornInvariant, OnceInvariant, PTL DEF Spec, ImplementsFireOnce
=============================================================================
