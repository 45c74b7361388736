------------------------------ MODULE Runable ------------------------------
(***************************************************************************)
(* The class Runable of include/Runable.hpp: an object that owns at most   *)
(* one std::thread, which executes the virtual method run().               *)
(*                                                                         *)
(* Two kinds of actors take steps.  The OWNER is the thread that calls the *)
(* public methods start, stop, join, detach and the destructor; the class  *)
(* has no lock, so the calls come from one thread, except stop(), which is *)
(* one atomic store and may come from anywhere.  A WORKER is one thread    *)
(* made by start(); it executes runThread().  Every access to the atomic   *)
(* flag _run and every wait for the other actor is a step of its own; what *)
(* only the owner can see is merged with the step before it.               *)
(***************************************************************************)
CONSTANTS
  Workers,        \* the threads start() may create; their number is a bound
  NoThread,       \* the null pointer, the initial value of _thread
  Calls,          \* the methods the owner may call
  RunEnds         \* TRUE: run() may return by itself, as ThreadTest::run does
                  \* FALSE: run() is a while (_run) loop, as SysFSGPIO::run is

Methods == {"start", "stop", "join", "detach", "destroy"}

ASSUME RunableAssumption ==
  /\ NoThread \notin Workers
  /\ Calls \subseteq Methods
  /\ RunEnds \in BOOLEAN

VARIABLES
  proper,   \* the derived destructor calls stop() and join(), nobody detaches,
            \* and threads can be made; stays as it is in the beginning
  obj,      \* the object: "derived" until the derived destructor is done,
            \* "base" while ~Runable executes, "gone" once its memory is freed
  run,      \* the flag _run
  thread,   \* the pointer _thread: NoThread, or whose std::thread it points to
  handle,   \* the std::thread object made for each worker
  wpc,      \* where each worker is in runThread()
  owner,    \* where the owner is in the method it is executing
  fault     \* "none", or the first way in which the program went wrong

vars == <<proper, obj, run, thread, handle, wpc, owner, fault>>

-----------------------------------------------------------------------------
(* The values of the variables.                                            *)

\* A "joined" or "detached" std::thread is no longer joinable.
HandleStates == {"none", "joinable", "joined", "detached", "deleted"}

WorkerStates ==
  {"unborn", "spawned", "entered", "running", "returned", "exited"}

OwnerStates ==
  {"idle", "join", "restart_join", "spawn",
   "derived_join", "base_stop", "base_join", "done"}

Faults == {"none", "undefined", "pure_virtual", "exception"}

TypeOK ==
  /\ proper \in BOOLEAN
  /\ obj \in {"derived", "base", "gone"}
  /\ run \in BOOLEAN
  /\ thread \in Workers \cup {NoThread}
  /\ handle \in [Workers -> HandleStates]
  /\ wpc \in [Workers -> WorkerStates]
  /\ owner \in OwnerStates
  /\ fault \in Faults

Live(w) == wpc[w] \in {"spawned", "entered", "running", "returned"}

\* _thread points to a std::thread that has been deleted.
Dangling == thread # NoThread /\ handle[thread] = "deleted"

\* A mutated form of Init: the constructor leaves _thread as it is.
InitThreadUnset ==
  /\ proper \in BOOLEAN
  /\ obj = "derived" /\ owner = "idle" /\ fault = "none"
  /\ run = FALSE
  /\ thread = "unset"
  /\ handle = [w \in Workers |-> "none"]
  /\ wpc = [w \in Workers |-> "unborn"]

Init ==
  /\ proper \in BOOLEAN
  /\ obj = "derived"
  /\ run = FALSE
  /\ thread = NoThread
  /\ handle = [w \in Workers |-> "none"]
  /\ wpc = [w \in Workers |-> "unborn"]
  /\ owner = "idle"
  /\ fault = "none"

Fail(kind) ==
  /\ fault' = kind
  /\ UNCHANGED <<obj, run, thread, handle, wpc, owner>>

-----------------------------------------------------------------------------
(* The owner's steps.                                                      *)

\* The owner enters a method of a live object.
Call(m) == m \in Calls /\ owner = "idle" /\ obj = "derived"

\* A mutated form of CallStart: the old thread is not looked at.
CallStartAnyway ==
  /\ Call("start")
  /\ \E w \in Workers : wpc[w] = "unborn"
  /\ owner' = "spawn"
  /\ UNCHANGED <<obj, run, thread, handle, wpc, fault>>

\* start(): without a thread it goes straight to creating one; otherwise it
\* first stops the thread it has.  The number of threads is the model's bound.
CallStart ==
  /\ Call("start")
  /\ \E w \in Workers : wpc[w] = "unborn"
  /\ \/ /\ thread = NoThread
        /\ owner' = "spawn"
        /\ UNCHANGED run
     \/ /\ thread # NoThread
        /\ run' = FALSE
        /\ owner' = "restart_join"
  /\ UNCHANGED <<obj, thread, handle, wpc, fault>>

\* stop(): one atomic store.
CallStop ==
  /\ "stop" \in Calls
  /\ obj = "derived"
  /\ run' = FALSE
  /\ UNCHANGED <<obj, thread, handle, wpc, owner, fault>>

CallJoin ==
  /\ Call("join")
  /\ owner' = "join"
  /\ UNCHANGED <<obj, run, thread, handle, wpc, fault>>

\* The body of join(): nothing without a thread or for one that is not
\* joinable, otherwise a wait for the end of the worker.
Joined ==
  thread # NoThread =>
    \/ handle[thread] \in {"joined", "detached"}
    \/ handle[thread] = "joinable" /\ wpc[thread] = "exited"

\* The handles after join() and after delete _thread.
AfterJoin ==
  [w \in Workers |-> IF w = thread /\ handle[w] = "joinable"
                       THEN "joined" ELSE handle[w]]

AfterDelete == [w \in Workers |-> IF w = thread THEN "deleted" ELSE handle[w]]

Join ==
  /\ owner = "join"
  /\ Joined
  /\ handle' = AfterJoin
  /\ owner' = "idle"
  /\ UNCHANGED <<obj, run, thread, wpc, fault>>

\* A mutated form of RestartJoin: the old thread is deleted, not joined.
RestartDelete ==
  /\ owner = "restart_join"
  /\ handle' = AfterDelete
  /\ owner' = "spawn"
  /\ UNCHANGED <<obj, run, thread, wpc, fault>>

\* start() joins and deletes the thread it stopped.
RestartJoin ==
  /\ owner = "restart_join"
  /\ Joined
  /\ handle' = AfterDelete
  /\ owner' = "spawn"
  /\ UNCHANGED <<obj, run, thread, wpc, fault>>

\* new thread(&Runable::runThread, this), stored in _thread.
Spawn ==
  /\ owner = "spawn"
  /\ \E w \in Workers :
       /\ wpc[w] = "unborn"
       /\ wpc' = [wpc EXCEPT ![w] = "spawned"]
       /\ handle' = [handle EXCEPT ![w] = "joinable"]
       /\ thread' = w
  /\ owner' = "idle"
  /\ UNCHANGED <<obj, run, fault>>

\* The construction throws; start() prints the error and returns.
SpawnFails ==
  /\ ~proper
  /\ owner = "spawn"
  /\ owner' = "idle"
  /\ UNCHANGED <<obj, run, thread, handle, wpc, fault>>

\* detach(): the test is for a null pointer, not for joinable(), and
\* std::thread::detach throws when the thread is not joinable.
CallDetach ==
  /\ Call("detach") /\ ~proper
  /\ thread # NoThread
  /\ \/ /\ handle[thread] = "joinable"
        /\ handle' = [handle EXCEPT ![thread] = "detached"]
        /\ UNCHANGED <<obj, run, thread, wpc, owner, fault>>
     \/ /\ handle[thread] \in {"joined", "detached"}
        /\ Fail("exception")
     \/ /\ Dangling
        /\ Fail("undefined")

\* A destructor.  The derived class may stop and join its thread first; if it
\* does not, the derived part is gone before anybody told the worker to stop.
CallDestroy ==
  /\ Call("destroy")
  /\ \/ /\ run' = FALSE
        /\ owner' = "derived_join"
        /\ UNCHANGED obj
     \/ /\ ~proper
        /\ obj' = "base"
        /\ owner' = "base_stop"
        /\ UNCHANGED run
  /\ UNCHANGED <<thread, handle, wpc, fault>>

\* A mutated form of DerivedJoin: the derived destructor only stops.
DerivedForgetsJoin ==
  /\ owner = "derived_join"
  /\ obj' = "base"
  /\ owner' = "base_stop"
  /\ UNCHANGED <<run, thread, handle, wpc, fault>>

DerivedJoin ==
  /\ owner = "derived_join"
  /\ Joined
  /\ handle' = AfterJoin
  /\ obj' = "base"
  /\ owner' = "base_stop"
  /\ UNCHANGED <<run, thread, wpc, fault>>

\* ~Runable: stop(), join(), delete _thread, then the memory is released.
BaseStop ==
  /\ owner = "base_stop"
  /\ run' = FALSE
  /\ owner' = "base_join"
  /\ UNCHANGED <<obj, thread, handle, wpc, fault>>

BaseJoin ==
  /\ owner = "base_join"
  /\ Joined
  /\ handle' = AfterDelete
  /\ obj' = "gone"
  /\ owner' = "done"
  /\ UNCHANGED <<run, thread, wpc, fault>>

\* The places where the owner waits in join().
Waiting == {"join", "restart_join", "derived_join", "base_join"}

\* join() reads *_thread: undefined once that object has been deleted.
JoinDangling ==
  /\ owner \in Waiting
  /\ Dangling
  /\ Fail("undefined")

OwnerStep ==
  \/ Join \/ RestartJoin \/ Spawn \/ SpawnFails
  \/ DerivedJoin \/ BaseStop \/ BaseJoin \/ JoinDangling

OwnerCall ==
  CallStart \/ CallStop \/ CallJoin \/ CallDetach \/ CallDestroy

-----------------------------------------------------------------------------
(* The worker's steps: runThread().                                        *)

Advance(w, from, to) ==
  /\ wpc[w] = from
  /\ wpc' = [wpc EXCEPT ![w] = to]

\* _run = true
SetRun(w) ==
  /\ obj # "gone"
  /\ Advance(w, "spawned", "entered")
  /\ run' = TRUE
  /\ UNCHANGED <<obj, thread, handle, owner, fault>>

\* A mutated form of CallRun: run() begins with a _run = true of its own.
CallRunSetsRun(w) ==
  /\ obj = "derived"
  /\ Advance(w, "entered", "running")
  /\ run' = TRUE
  /\ UNCHANGED <<obj, thread, handle, owner, fault>>

\* run() is looked up in the object's virtual table, which is the derived
\* class's only until the derived destructor is done.
CallRun(w) ==
  \/ /\ obj = "derived"
     /\ Advance(w, "entered", "running")
     /\ UNCHANGED <<obj, run, thread, handle, owner, fault>>
  \/ /\ obj = "base"
     /\ wpc[w] = "entered"
     /\ Fail("pure_virtual")

\* run() returns: because it reads _run = false, or by itself.
ReturnFromRun(w) ==
  /\ obj = "derived"
  /\ RunEnds \/ ~run
  /\ Advance(w, "running", "returned")
  /\ UNCHANGED <<obj, run, thread, handle, owner, fault>>

\* The body of run() uses the derived class's members.
RunWithoutMembers(w) ==
  /\ obj = "base"
  /\ wpc[w] = "running"
  /\ Fail("undefined")

\* A mutated form of ClearRun: the thread ends and leaves the flag set.
EndUncleared(w) ==
  /\ obj # "gone"
  /\ Advance(w, "returned", "exited")
  /\ UNCHANGED <<obj, run, thread, handle, owner, fault>>

\* _run = false, and the thread ends.
ClearRun(w) ==
  /\ obj # "gone"
  /\ Advance(w, "returned", "exited")
  /\ run' = FALSE
  /\ UNCHANGED <<obj, thread, handle, owner, fault>>

\* Every step of runThread() uses the object.
UseAfterFree(w) ==
  /\ obj = "gone"
  /\ Live(w)
  /\ Fail("undefined")

WorkerStep(w) ==
  \/ SetRun(w) \/ CallRun(w) \/ ReturnFromRun(w)
  \/ RunWithoutMembers(w) \/ ClearRun(w) \/ UseAfterFree(w)

-----------------------------------------------------------------------------
(* After a fault the program has no defined next step.                     *)

Goes == fault = "none" /\ UNCHANGED proper

Next ==
  /\ Goes
  /\ \/ OwnerCall
     \/ OwnerStep
     \/ \E w \in Workers : WorkerStep(w)

Spec == Init /\ [][Next]_vars

\* A worker goes on by itself, except that run() may go on while _run is true.
Due(w) == wpc[w] = "running" /\ obj = "derived" => ~run

\* The operating system runs every thread: a worker that can take a step takes
\* one, and so does an owner inside a method.  No method need ever be called, and
\* no run() need ever return by itself.
Fairness ==
  /\ WF_vars(Goes /\ OwnerStep)
  /\ \A w \in Workers : WF_vars(Goes /\ Due(w) /\ WorkerStep(w))

FairSpec == Spec /\ Fairness

-----------------------------------------------------------------------------
(* Properties.                                                             *)

\* At most one thread of execution belongs to the object, however often it is
\* restarted: start() stops, joins and deletes the old thread before it makes
\* a new one, if nobody detaches (Runable.hpp, lines 92 and 177-179).
OneWorker ==
  proper => \A v, w \in Workers : Live(v) /\ Live(w) => v = w

\* Nothing goes wrong: no use of a freed object, of destroyed members or of a
\* deleted std::thread, no call of the pure virtual run(), no exception out of
\* a method or of a thread.
NoFault == fault = "none"

\* No interleaving of the calls with runThread() makes a proper use of the
\* class go wrong (Runable.hpp:109-125 and 182-199).
ProperSafe == proper => NoFault

\* isRunning() never speaks of a thread that has gone: while _run is true some
\* thread is between the two stores of runThread().
RunFlagHonest ==
  run => \E w \in Workers : wpc[w] \in {"entered", "running", "returned"}

\* A restart and a destruction get past the thread they have told to stop
\* (Runable.hpp:109-111 and 177-179).
StopsBeforeJoin ==
  (owner \in {"restart_join", "derived_join", "base_join"})
    ~> (owner \in {"spawn", "base_stop", "done"} \/ fault # "none")

\* A stop that comes after the worker's own _run = true is obeyed: whoever
\* waits for the end of a thread that has been told so gets past it, whatever
\* the thread was doing.  What comes before that store may be lost, which
\* StopsBeforeJoin is about (Runable.hpp:163-172, 133-142 and 247-254).
StopObeyed ==
  (owner \in Waiting /\ ~run /\ \A w \in Workers : wpc[w] # "spawned")
    ~> (owner \notin Waiting \/ fault # "none")

\* Properly used, the object is a slot for one thread (module WorkerSlot).
Slot == INSTANCE WorkerSlot
          WITH live <- {w \in Workers : Live(w)},
               standing <- (obj = "derived")

ImplementsSlot ==
  Slot!SlotInit /\ [][proper => Slot!SlotNext]_(Slot!slotVars)
=============================================================================
