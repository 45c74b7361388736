------------------------------ MODULE OneShot ------------------------------
(***************************************************************************)
(* The class OneShot of include/Runable.hpp: an object on the heap whose   *)
(* start() makes a detached thread that executes run() and then deletes    *)
(* the object.  start() is executed by main() or by the run() of another   *)
(* shot, as in TestRPE.cpp; it goes on using the object after the thread   *)
(* that deletes it exists.                                                 *)
(***************************************************************************)
CONSTANTS
  Shots,             \* the objects that may be allocated, a bound
  Threads,           \* the threads start() may create, a bound
  Main,              \* the thread that executes main()
  NoThread,          \* the null pointer, the initial value of _thread
  NoShot             \* the object of a thread that was never created

ASSUME OneShotAssumption ==
  /\ Main \notin Threads
  /\ NoThread \notin Threads
  /\ NoShot \notin Shots

VARIABLES
  plenty,   \* constructing a std::thread never throws; stays as it is
  mem,      \* the memory of each object
  member,   \* its pointer _thread
  handle,   \* the std::thread object made for each thread
  self,     \* the object each thread was created for
  wpc,      \* where each thread is in runThread()
  spc,      \* where the start() that made each thread is
  caller,   \* who executes that start()
  crash,    \* "none", or how the program ended
  slips     \* history: the orders of calls that have gone wrong so far,
            \* "early": a shot was destroyed before the start() that made its
            \* thread had stored and detached it; "again": a shot that had a
            \* thread was started again

vars == <<plenty, mem, member, handle, self, wpc, spc, caller, crash,
          slips>>

TypeOK ==
  /\ plenty \in BOOLEAN
  /\ mem \in [Shots -> {"unborn", "live", "freed"}]
  /\ member \in [Shots -> Threads \cup {NoThread}]
  /\ handle \in [Threads -> {"none", "joinable", "detached", "deleted"}]
  /\ self \in [Threads -> Shots \cup {NoShot}]
  /\ wpc \in [Threads -> {"unborn", "running", "deleting", "freeing", "ended"}]
  /\ spc \in [Threads -> {"idle", "store", "detach", "returned"}]
  /\ caller \in [Threads -> Threads \cup {Main}]
  /\ crash \in {"none", "terminate", "undefined"}
  /\ slips \subseteq {"early", "again"}

\* A mutated form of Init: the constructor leaves _thread as it is.
InitThreadUnset ==
  /\ plenty \in BOOLEAN
  /\ mem = [s \in Shots |-> "unborn"]
  /\ member = [s \in Shots |-> "unset"]
  /\ handle = [t \in Threads |-> "none"]
  /\ self = [t \in Threads |-> NoShot]
  /\ wpc = [t \in Threads |-> "unborn"]
  /\ spc = [t \in Threads |-> "idle"]
  /\ caller = [t \in Threads |-> Main]
  /\ crash = "none" /\ slips = {}

Init ==
  /\ plenty \in BOOLEAN
  /\ mem = [s \in Shots |-> "unborn"]
  /\ member = [s \in Shots |-> NoThread]
  /\ handle = [t \in Threads |-> "none"]
  /\ self = [t \in Threads |-> NoShot]
  /\ wpc = [t \in Threads |-> "unborn"]
  /\ spc = [t \in Threads |-> "idle"]
  /\ caller = [t \in Threads |-> Main]
  /\ crash = "none" /\ slips = {}

Crash(how) ==
  /\ crash' = how
  /\ UNCHANGED <<mem, member, handle, self, wpc, spc, caller>>

Starting(t) == spc[t] \in {"store", "detach"}

\* A thread executes user code: it is in main() or run(), outside start().
Free(c) ==
  /\ c # Main => wpc[c] = "running"
  /\ \A t \in Threads : Starting(t) => caller[t] # c

\* The memory of a thread's object has been released.
Gone(t) == mem[self[t]] = "freed"

\* The std::thread that _thread points to.
Pointee(s) == IF member[s] = NoThread THEN "none" ELSE handle[member[s]]

\* The handles after delete _thread.
AfterDelete(s) ==
  [t \in Threads |-> IF t = member[s] THEN "deleted" ELSE handle[t]]

-----------------------------------------------------------------------------
(* The steps of start().                                                   *)

\* new thread(&OneShot::runThread, this): the thread exists before the pointer
\* to it is stored.
Create(c, s) ==
  \E t \in Threads :
    /\ wpc[t] = "unborn"
    /\ wpc' = [wpc EXCEPT ![t] = "running"]
    /\ self' = [self EXCEPT ![t] = s]
    /\ spc' = [spc EXCEPT ![t] = "store"]
    /\ caller' = [caller EXCEPT ![t] = c]

Made(t) == wpc[t] = "unborn" /\ wpc'[t] = "running"

\* (new OneShotTest())->start(): only the caller sees the object so far.  When
\* the thread cannot be made, start() prints the error and returns.
Start(c, s) ==
  /\ Free(c)
  /\ mem[s] = "unborn"
  /\ mem' = [mem EXCEPT ![s] = "live"]
  /\ \/ /\ Create(c, s)
        /\ handle' = [t \in Threads |->
                        IF Made(t) THEN "joinable" ELSE handle[t]]
     \/ /\ ~plenty
        /\ UNCHANGED <<handle, self, wpc, spc, caller>>
  /\ UNCHANGED <<member, crash, slips>>

\* run() calls start() on its own object: the std::thread of the first start
\* is deleted, if its address has been stored, and a second thread is made.
StartAgain(c) ==
  /\ c # Main
  /\ Free(c)
  /\ ~Gone(c)
  /\ slips' = slips \cup {"again"}
  /\ \/ /\ Pointee(self[c]) \in {"none", "detached"}
        /\ \/ /\ Create(c, self[c])
              /\ handle' = [t \in Threads |->
                   IF Made(t) THEN "joinable" ELSE AfterDelete(self[c])[t]]
           \/ /\ ~plenty
              /\ handle' = AfterDelete(self[c])
              /\ UNCHANGED <<self, wpc, spc, caller>>
        /\ UNCHANGED <<mem, member, crash>>
     \/ Pointee(self[c]) = "joinable" /\ Crash("terminate")
     \/ Pointee(self[c]) = "deleted" /\ Crash("undefined")

\* _thread = the address of the new std::thread.
Store(t) ==
  /\ spc[t] = "store"
  /\ UNCHANGED slips
  /\ \/ /\ ~Gone(t)
        /\ member' = [member EXCEPT ![self[t]] = t]
        /\ spc' = [spc EXCEPT ![t] = "detach"]
        /\ UNCHANGED <<mem, handle, self, wpc, caller, crash>>
     \/ Gone(t) /\ Crash("undefined")

\* A mutated form of Detach: the thread is not detached.
ForgetDetach(t) ==
  /\ spc[t] = "detach"
  /\ spc' = [spc EXCEPT ![t] = "returned"]
  /\ UNCHANGED <<mem, member, handle, self, wpc, caller, crash, slips>>

\* _thread->detach(): whatever _thread points to by now.  Detaching twice
\* throws, which start() catches.
Detach(t) ==
  /\ spc[t] = "detach"
  /\ UNCHANGED slips
  /\ \/ /\ ~Gone(t)
        /\ Pointee(self[t]) # "deleted"
        /\ handle' = [handle EXCEPT ![member[self[t]]] = "detached"]
        /\ spc' = [spc EXCEPT ![t] = "returned"]
        /\ UNCHANGED <<mem, member, self, wpc, caller, crash>>
     \/ /\ Gone(t) \/ Pointee(self[t]) = "deleted"
        /\ Crash("undefined")

-----------------------------------------------------------------------------
(* The steps of runThread().                                               *)

\* run() returns, when it likes: nothing makes it wait for the start() that is
\* still storing and detaching its thread.
FinishRun(t) ==
  /\ Free(t)
  /\ ~Gone(t)
  /\ wpc' = [wpc EXCEPT ![t] = "deleting"]
  /\ UNCHANGED <<mem, member, handle, self, spc, caller, crash, slips>>

\* A mutated form of DeleteThread: the destructor does nothing.
KeepThread(t) ==
  /\ wpc[t] = "deleting"
  /\ wpc' = [wpc EXCEPT ![t] = "freeing"]
  /\ UNCHANGED <<mem, member, handle, self, spc, caller, crash, slips>>

\* ~OneShot deletes the std::thread if _thread points to one; deleting one
\* that is still joinable ends the program.
DeleteThread(t) ==
  /\ wpc[t] = "deleting"
  /\ ~Gone(t)
  /\ slips' = IF Starting(t) THEN slips \cup {"early"} ELSE slips
  /\ \/ /\ Pointee(self[t]) \in {"none", "detached"}
        /\ handle' = AfterDelete(self[t])
        /\ wpc' = [wpc EXCEPT ![t] = "freeing"]
        /\ UNCHANGED <<mem, member, self, spc, caller, crash>>
     \/ Pointee(self[t]) = "joinable" /\ Crash("terminate")
     \/ Pointee(self[t]) = "deleted" /\ Crash("undefined")

\* A mutated form of FreeMemory: the object does not delete itself.
KeepMemory(t) ==
  /\ wpc[t] = "freeing"
  /\ wpc' = [wpc EXCEPT ![t] = "ended"]
  /\ UNCHANGED <<mem, member, handle, self, spc, caller, crash, slips>>

\* The memory is released and the thread ends.
FreeMemory(t) ==
  /\ wpc[t] = "freeing"
  /\ ~Gone(t)
  /\ mem' = [mem EXCEPT ![self[t]] = "freed"]
  /\ wpc' = [wpc EXCEPT ![t] = "ended"]
  /\ UNCHANGED <<member, handle, self, spc, caller, crash, slips>>

\* A thread whose object has been freed, by another one, is about to use it.
UseAfterFree(t) ==
  /\ wpc[t] \in {"running", "deleting", "freeing"}
  /\ Gone(t)
  /\ Crash("undefined") /\ UNCHANGED slips

-----------------------------------------------------------------------------
UserStep == \E c \in Threads \cup {Main} :
              (\E s \in Shots : Start(c, s)) \/ StartAgain(c)

StartStep(t) == Store(t) \/ Detach(t)

WorkerStep(t) ==
  FinishRun(t) \/ DeleteThread(t) \/ FreeMemory(t) \/ UseAfterFree(t)

\* The program has not ended, and is used as before.
Goes == crash = "none" /\ UNCHANGED plenty

Next ==
  /\ Goes
  /\ UserStep \/ \E t \in Threads : StartStep(t) \/ WorkerStep(t)

Spec == Init /\ [][Next]_vars

\* Every thread is scheduled, and every run() returns.
Fairness ==
  \A t \in Threads :
    /\ WF_vars(Goes /\ StartStep(t))
    /\ WF_vars(Goes /\ WorkerStep(t))

FairSpec == Spec /\ Fairness

-----------------------------------------------------------------------------
(* Properties.                                                             *)

\* A shot ends the program - by using freed memory, deleting twice, or deleting
\* a joinable std::thread - only after one of two orders of calls: it destroyed
\* itself before its start() had finished, or it was started again.  Nothing in
\* the code prevents either (Runable.hpp:324-380).
NoCrash == slips = {} => crash = "none"

\* The object takes its std::thread with it: without those two orders nothing
\* is left of a shot whose memory has been released (Runable.hpp:373-380).
NoLeak ==
  slips = {} => \A t \in Threads : wpc[t] = "ended" => handle[t] = "deleted"

\* From the moment start() is called the object belongs to itself: if threads can
\* be made, one exists that will delete it (Runable.hpp:272-276 and 318-319).
SelfOwned ==
  plenty =>
    \A s \in Shots : mem[s] = "live" =>
      \E t \in Threads : self[t] = s /\ wpc[t] # "ended"

\* A shot that got a thread is deleted (Runable.hpp:284-298), whether or not
\* run() outlasts start(), unless the program ends.
Reclaimed ==
  \A s \in Shots :
    (\E t \in Threads : self[t] = s) ~> (mem[s] = "freed" \/ crash # "none")

\* Even when it is faster than its start(), a shot that does not start itself
\* again is executed by one thread, once, and gone when that thread ends (module
\* FireOnce; Runable.hpp:272-298).
Shot == INSTANCE FireOnce
          WITH flying <- {s \in Shots : \E t \in Threads :
                            self[t] = s /\ wpc[t] # "ended"},
               gone <- {s \in Shots : mem[s] = "freed"}

ImplementsFireOnce ==
  Shot!FireInit /\ [][slips \subseteq {"early"} => Shot!FireNext]_(Shot!shotVars)
=============================================================================
