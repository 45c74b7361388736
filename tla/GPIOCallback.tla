---------------------------- MODULE GPIOCallback ----------------------------
(***************************************************************************)
(* One SysFSGPIO with an edge and a callback (src/SysFSGPIO.cpp): a        *)
(* Runable whose run() waits in poll() for an edge, reads the level and    *)
(* hands it to the callback.  The module adds to Runable the kernel's side *)
(* of the value file, the last steps of the constructor, the loop, and the *)
(* class's own destructor.  Exporting the GPIO is module SysFSGPIO.        *)
(***************************************************************************)
EXTENDS Runable

CONSTANTS
  Edges,       \* the levels whose arrival is an edge: {"high"} for RISING
  Removable    \* TRUE: another object or program may unexport the GPIO

Levels == {"low", "high"}

\* Nobody detaches, and run() is an endless loop.  For this class the use is
\* proper if the client joins before it destroys, nobody else removes the GPIO,
\* and threads can be made, the constructor's at least.
ASSUME GPIOCallbackAssumption ==
  /\ Workers # {}
  /\ Edges \subseteq Levels
  /\ Removable \in BOOLEAN
  /\ "detach" \notin Calls
  /\ ~RunEnds

VARIABLES
  line,      \* the level of the GPIO
  pending,   \* an edge has come that no read() of the value file has seen
  exported,  \* the GPIO is still exported
  open,      \* the file descriptor _fd is open
  seen,      \* the level that was read last
  loop       \* where the thread is in run(); there is one thread at a time
             \* ("none" until the constructor calls start)

kernelVars == <<line, pending, exported, open, seen>>
gpioVars == <<kernelVars, loop>>

allVars == <<vars, gpioVars>>

GPIOTypeOK ==
  /\ owner \in OwnerStates \cup {"own_stop", "own_join", "own_close"}
  /\ line \in Levels /\ seen \in Levels
  /\ pending \in BOOLEAN /\ exported \in BOOLEAN /\ open \in BOOLEAN
  /\ loop \in {"none", "test", "poll", "read", "callback"}

\* The constructor has asked for the edges and opened the value file.  A file
\* that has not been read yet counts as pending, which is why its first value
\* has to be burnt; seen means nothing before the first read.
GPIOInit ==
  /\ Init
  /\ line \in Levels /\ seen \in Levels
  /\ pending = TRUE
  /\ exported = TRUE /\ open = TRUE
  /\ loop = "none"

\* It burns the initial value, with the edges so far, and calls start().  If
\* the read fails it says so and goes on.
Construct ==
  /\ loop = "none"
  /\ \/ seen' = line /\ pending' = FALSE
     \/ UNCHANGED <<seen, pending>>
  /\ loop' = "test"
  /\ owner' = "spawn"
  /\ UNCHANGED <<obj, run, thread, handle, wpc, fault, line, exported, open>>

-----------------------------------------------------------------------------
(* The kernel.                                                             *)

\* The level changes; an edge of the kind that was asked for is remembered.
LineChanges ==
  /\ exported
  /\ line' \in Levels \ {line}
  /\ pending' = (pending \/ line' \in Edges)
  /\ UNCHANGED <<vars, exported, open, seen, loop>>

Removed ==
  /\ Removable /\ ~proper /\ exported
  /\ exported' = FALSE
  /\ UNCHANGED <<vars, line, pending, open, seen, loop>>

-----------------------------------------------------------------------------
(* The loop of run().                                                      *)

\* The steps of runThread() around run().
EnterRun(w) ==
  /\ CallRun(w)
  /\ loop' = "test"
  /\ UNCHANGED kernelVars

\* A mutated form of LeaveRun: run() may return though the flag is set.
LeaveRunEarly(w) ==
  /\ loop = "test"
  /\ obj = "derived"
  /\ Advance(w, "running", "returned")
  /\ UNCHANGED <<obj, run, thread, handle, owner, fault, gpioVars>>

LeaveRun(w) ==
  /\ loop = "test"
  /\ ReturnFromRun(w)
  /\ UNCHANGED gpioVars

InRun(w, at) ==
  /\ wpc[w] = "running" /\ loop = at
  /\ obj = "derived"

\* A mutated form of TestRun: while (true) poll(...).
TestNothing(w) ==
  /\ InRun(w, "test")
  /\ loop' = "poll"
  /\ UNCHANGED <<vars, kernelVars>>

\* while (_run) poll(...).
TestRun(w) ==
  /\ InRun(w, "test") /\ run
  /\ loop' = "poll"
  /\ UNCHANGED <<vars, kernelVars>>

\* A mutated form of PollReady: another event than POLLPRI is looked for.
PollOther(w) ==
  /\ wpc[w] = "running" /\ loop = "poll"
  /\ pending \/ ~exported
  /\ loop' = "test"
  /\ UNCHANGED <<vars, kernelVars>>

\* poll() has no timeout: it ends with an edge, or when the GPIO is removed,
\* which it reports in the same way.
PollReady(w) ==
  /\ wpc[w] = "running" /\ loop = "poll"
  /\ pending \/ ~exported
  /\ loop' = "read"
  /\ UNCHANGED <<vars, kernelVars>>

\* poll() is interrupted, which happens only while there is nothing to report,
\* or the descriptor was closed before it was called.
PollEmpty(w) ==
  /\ wpc[w] = "running" /\ loop = "poll"
  /\ open => (~pending /\ exported)
  /\ loop' = "test"
  /\ UNCHANGED <<vars, kernelVars>>

\* lseek and read; without a value run() throws, and no one catches.
Read(w) ==
  /\ InRun(w, "read")
  /\ IF open /\ exported
       THEN /\ seen' = line
            /\ pending' = FALSE
            /\ loop' = "callback"
            /\ UNCHANGED <<vars, line, exported, open>>
       ELSE /\ Fail("exception")
            /\ UNCHANGED gpioVars

\* A mutated form of Callback: what came in the meantime is burnt, as the
\* constructor does.
CallbackBurns(w) ==
  /\ InRun(w, "callback")
  /\ pending' = FALSE
  /\ loop' = "test"
  /\ UNCHANGED <<vars, line, exported, open, seen>>

\* _callback(val, _data) is executed and returns.
Callback(w) ==
  /\ InRun(w, "callback")
  /\ loop' = "test"
  /\ UNCHANGED <<vars, kernelVars>>

\* The derived members are gone; a thread that is blocked does not notice.
RunDestroyed(w) ==
  /\ loop # "poll"
  /\ RunWithoutMembers(w)
  /\ UNCHANGED gpioVars

LoopStep(w) ==
  \/ EnterRun(w) \/ LeaveRun(w) \/ TestRun(w) \/ PollReady(w)
  \/ Read(w) \/ Callback(w) \/ RunDestroyed(w)

-----------------------------------------------------------------------------
(* ~SysFSGPIO, before ~Runable.                                            *)

\* A mutated form of OwnTest: the test is the wrong way round.
OwnTestInverted ==
  /\ Call("destroy") /\ loop # "none"
  /\ proper => (thread # NoThread => handle[thread] = "joined")
  /\ owner' = IF run THEN "own_close" ELSE "own_stop"
  /\ UNCHANGED <<obj, run, thread, handle, wpc, fault, gpioVars>>

\* if (isRunning()).
OwnTest ==
  /\ Call("destroy") /\ loop # "none"
  /\ proper => (thread # NoThread => handle[thread] = "joined")
  /\ owner' = IF run THEN "own_stop" ELSE "own_close"
  /\ UNCHANGED <<obj, run, thread, handle, wpc, fault, gpioVars>>

OwnStop ==
  /\ owner = "own_stop"
  /\ run' = FALSE
  /\ owner' = "own_join"
  /\ UNCHANGED <<obj, thread, handle, wpc, fault, gpioVars>>

\* join(), then delete _thread; the pointer keeps its value.
OwnJoin ==
  /\ owner = "own_join"
  /\ Joined
  /\ handle' = AfterDelete
  /\ owner' = "own_close"
  /\ UNCHANGED <<obj, run, thread, wpc, fault, gpioVars>>

\* close(_fd), and the derived part is gone.
OwnClose ==
  /\ owner = "own_close"
  /\ open' = FALSE
  /\ obj' = "base"
  /\ owner' = "base_stop"
  /\ UNCHANGED <<run, thread, handle, wpc, fault>>
  /\ UNCHANGED <<line, pending, exported, seen, loop>>

-----------------------------------------------------------------------------
\* What the object inherits: the methods, ~Runable, which always joins since
\* nobody detaches, and runThread().
InheritedCall == loop # "none" /\ (CallStart \/ CallStop \/ CallJoin)

InheritedStep ==
  Join \/ RestartJoin \/ Spawn \/ SpawnFails \/ BaseStop \/ BaseJoin \/ JoinDangling

RunThreadStep(w) == SetRun(w) \/ ClearRun(w)

GPIOOwner ==
  \/ (InheritedStep /\ UNCHANGED gpioVars)
  \/ OwnStop \/ OwnJoin \/ OwnClose

GPIOWorker(w) == (RunThreadStep(w) /\ UNCHANGED gpioVars) \/ LoopStep(w)

GPIONext ==
  /\ Goes
  /\ \/ Construct
     \/ (InheritedCall /\ UNCHANGED gpioVars)
     \/ OwnTest
     \/ GPIOOwner
     \/ \E w \in Workers : GPIOWorker(w) \/ PollEmpty(w)
     \/ LineChanges
     \/ Removed

GPIOSpec == GPIOInit /\ [][GPIONext]_allVars

\* The operating system runs the threads; nothing says that poll() is ever
\* interrupted, or that another edge comes.
GPIOFairness ==
  /\ WF_allVars(Goes /\ GPIOOwner)
  /\ \A w \in Workers :
       WF_allVars(Goes /\ GPIOWorker(w))

GPIOFairSpec == GPIOSpec /\ GPIOFairness

-----------------------------------------------------------------------------
(* Properties.  ProperSafe and NoFault are Runable's: a proper use meets    *)
(* neither the destructor's second delete nor its skipped join             *)
(* (SysFSGPIO.cpp:220-238 and 472-474).                                    *)

\* However the client uses the object, there are never two threads in its
\* runThread(), so that no callback overlaps another: start() makes a thread only
\* when it has seen the end of the one before, and the two destructors make none
\* (Runable.hpp:177-200, SysFSGPIO.cpp:195-240 and 487-525).
OneLoop == \A v, w \in Workers : Live(v) /\ Live(w) => v = w

\* No last edge is missed: a level that an edge announced has been read or the
\* edge is still pending, whenever it came: before the constructor's read, which
\* may fail, between two polls or during the callback (SysFSGPIO.cpp:195-204,
\* 490-523).
CaughtUp == (~pending /\ line \in Edges) => seen = line

\* An edge is answered while the thread is not stopped, also one that comes
\* between two polls (SysFSGPIO.cpp:487-525).
EdgeAnswered == pending ~> (~pending \/ ~run \/ fault # "none")

\* A thread that is told to stop does so, if the line goes on changing: nothing
\* else wakes its poll() (SysFSGPIO.cpp:487-490).
StopAnswered ==
  ([]<>(line = "low") /\ []<>(line = "high")) =>
    \A w \in Workers :
      (wpc[w] = "running" /\ ~run) ~> (wpc[w] = "exited" \/ fault # "none")

\* A proper client has a Runable, whose destructor finds nothing left to do
\* (SysFSGPIO.cpp:472-474).
Inherited == INSTANCE Runable
  WITH Calls <- Calls \cup {"start"},
       proper <- FALSE,
       owner <- IF owner = "own_close" THEN "idle" ELSE owner

ImplementsRunable ==
  Inherited!Init /\ [][proper => Inherited!Next]_(Inherited!vars)
=============================================================================
