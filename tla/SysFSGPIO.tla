----------------------------- MODULE SysFSGPIO -----------------------------
(***************************************************************************)
(* The life of SysFSGPIO objects (src/SysFSGPIO.cpp): the constructors,    *)
(* exportGPIO, setValue, the destructor and unexportGPIO, of several       *)
(* objects for the same GPIO, made and destroyed by different threads or   *)
(* processes.  What they share is the directory of the GPIO in sysfs,      *)
(* which the kernel makes and removes on request.  Every file the code     *)
(* opens is one step.  The thread of a callback object is module           *)
(* GPIOCallback.                                                           *)
(***************************************************************************)
CONSTANTS
  Objects,     \* the objects that may be constructed, all for one GPIO
  Outputs,     \* those constructed with Direction::OUT
  Listeners    \* those constructed with an edge and a callback

ASSUME SysFSGPIOAssumption ==
  /\ Outputs \subseteq Objects
  /\ Listeners \subseteq Objects \ Outputs

\* The surroundings, which stay as they are in the beginning.
VARIABLES
  found,       \* the GPIO was exported before the program started
  failing      \* opening a file of sysfs may fail though it exists, and the
               \* kernel may refuse to export or unexport the GPIO

VARIABLES
  exported,    \* the directory of the GPIO exists
  direction,   \* the contents of its files direction and value
  value,
  pc,          \* where each object is in its constructor and its life
  teardown,    \* its member _doTeardown
  terminated   \* an exception has left a destructor

vars == <<found, failing, exported, direction, value, pc, teardown, terminated>>

\* The files a constructor writes or opens once the GPIO is exported.
Files == {"direction", "active_low", "value", "edge", "open"}

States ==
  Files \cup {"unborn", "blank", "exists", "export", "verify",
              "ready", "failed", "destroyed", "kept"}

TypeOK ==
  /\ found \in BOOLEAN /\ failing \in BOOLEAN
  /\ exported \in BOOLEAN
  /\ direction \in {"in", "out"}
  /\ value \in {"low", "high"}
  /\ pc \in [Objects -> States]
  /\ teardown \in [Objects -> BOOLEAN]
  /\ terminated \in BOOLEAN

Init ==
  /\ found \in BOOLEAN /\ failing \in BOOLEAN
  /\ exported = found
  /\ direction \in {"in", "out"}
  /\ value \in {"low", "high"}
  /\ pc = [o \in Objects |-> "unborn"]
  /\ teardown = [o \in Objects |-> TRUE]
  /\ terminated = FALSE

Goto(o, label) == pc' = [pc EXCEPT ![o] = label]

\* A constructor throws: the destructor will not be executed.
Throw(o) ==
  /\ Goto(o, "failed")
  /\ UNCHANGED <<exported, direction, value, teardown, terminated>>

-----------------------------------------------------------------------------
(* The constructors and exportGPIO.                                        *)

\* The default constructor exports nothing.
ConstructDefault(o) ==
  /\ pc[o] = "unborn"
  /\ Goto(o, "blank")
  /\ UNCHANGED <<exported, direction, value, teardown, terminated>>

\* The other constructors call exportGPIO; they may be refused at once, for
\* want of GPIOs in sysfs or of an edge.
Construct(o) ==
  /\ pc[o] = "unborn"
  /\ \/ /\ Goto(o, "exists")
        /\ UNCHANGED <<exported, direction, value, teardown, terminated>>
     \/ failing /\ Throw(o)

\* A mutated form of CheckExists: _doTeardown is not cleared.
CheckOnly(o) ==
  /\ pc[o] = "exists"
  /\ Goto(o, IF exported THEN "direction" ELSE "export")
  /\ UNCHANGED <<exported, direction, value, teardown, terminated>>

\* A GPIO that somebody has exported is not to be torn down by this object.
CheckExists(o) ==
  /\ pc[o] = "exists"
  /\ \/ /\ exported
        /\ teardown' = [teardown EXCEPT ![o] = FALSE]
        /\ Goto(o, "direction")
     \/ /\ ~exported
        /\ Goto(o, "export")
        /\ UNCHANGED teardown
  /\ UNCHANGED <<exported, direction, value, terminated>>

\* The kernel makes the directory, with the GPIO as an input; it refuses a
\* GPIO that exists by now, which the code does not notice.
Export(o) ==
  /\ pc[o] = "export"
  /\ \/ /\ exported' = TRUE \/ (failing /\ exported' = exported)
        /\ direction' = IF exported THEN direction ELSE "in"
        /\ Goto(o, "verify")
        /\ UNCHANGED <<value, teardown, terminated>>
     \/ failing /\ Throw(o)

Verify(o) ==
  /\ pc[o] = "verify"
  /\ \/ /\ exported
        /\ Goto(o, "direction")
        /\ UNCHANGED <<exported, direction, value, teardown, terminated>>
     \/ ~exported /\ Throw(o)

\* The file that is opened after file.
NextFile(o, file) ==
  CASE file = "direction"  -> "active_low"
    [] file = "active_low" -> "value"
    [] file = "value"      -> IF o \in Listeners THEN "edge" ELSE "ready"
    [] file = "edge"       -> "open"
    [] file = "open"       -> "ready"

\* Opening a file of the GPIO and writing it.  Making the GPIO an output
\* clears it, and so does writing 0 to the value of an output.
Configure(o, file) ==
  /\ pc[o] = file
  /\ \/ /\ exported
        /\ direction' = IF file # "direction" THEN direction
                        ELSE IF o \in Outputs THEN "out" ELSE "in"
        /\ value' = IF file \in {"direction", "value"} /\ direction' = "out"
                      THEN "low" ELSE value
        /\ Goto(o, NextFile(o, file))
        /\ UNCHANGED <<exported, teardown, terminated>>
     \/ (~exported \/ failing) /\ Throw(o)

-----------------------------------------------------------------------------
\* A mutated form of SetValue: setValue(INVALID) is written, too.
SetInvalid(o) ==
  /\ pc[o] = "ready" /\ o \notin Listeners
  /\ exported /\ direction = "out"
  /\ value' \in {"low", "high", "invalid"}
  /\ UNCHANGED <<exported, direction, pc, teardown, terminated>>

\* setValue(LOW or HIGH) of an object without a callback; nothing happens to
\* an input.
SetValue(o) ==
  /\ pc[o] = "ready" /\ o \notin Listeners
  /\ exported /\ direction = "out"
  /\ value' \in {"low", "high"}
  /\ UNCHANGED <<exported, direction, pc, teardown, terminated>>

\* The level of an input is set from outside.
InputChanges ==
  /\ direction = "in"
  /\ value' \in {"low", "high"}
  /\ UNCHANGED <<exported, direction, pc, teardown, terminated>>

\* A mutated form of Destroy: unexportGPIO is not called.
DestroyOnly(o) ==
  /\ pc[o] \in {"ready", "blank"}
  /\ Goto(o, "destroyed")
  /\ UNCHANGED <<exported, direction, value, teardown, terminated>>

\* The destructor: unexportGPIO removes the directory, if the object believes
\* to have made it; unexporting a GPIO that is not exported does nothing, and
\* nobody looks whether the write succeeded.  If the file cannot be opened, the
\* exception leaves a destructor, which ends the program.
Destroy(o) ==
  /\ pc[o] \in {"ready", "blank"}
  /\ \/ /\ exported' = (exported /\ ~(teardown[o] /\ pc[o] = "ready"))
        /\ Goto(o, "destroyed")
        /\ UNCHANGED <<direction, value, teardown, terminated>>
     \/ /\ failing /\ teardown[o] /\ pc[o] = "ready"
        /\ Goto(o, "kept")
        /\ UNCHANGED <<exported, direction, value, teardown, terminated>>
     \/ /\ failing /\ teardown[o]
        /\ terminated' = TRUE
        /\ UNCHANGED <<exported, direction, value, pc, teardown>>

-----------------------------------------------------------------------------
ObjectStep(o) ==
  \/ ConstructDefault(o) \/ Construct(o) \/ CheckExists(o) \/ Export(o)
  \/ Verify(o) \/ (\E file \in Files : Configure(o, file))
  \/ SetValue(o) \/ Destroy(o)

Next ==
  /\ ~terminated
  /\ UNCHANGED <<found, failing>>
  /\ InputChanges \/ \E o \in Objects : ObjectStep(o)

Spec == Init /\ [][Next]_vars

-----------------------------------------------------------------------------
(* Properties.                                                             *)

\* No object is being constructed or alive.
Nobody ==
  \A o \in Objects : pc[o] \in {"unborn", "failed", "destroyed", "kept"}

\* The objects leave the GPIO as they found it, exported or not, when no file
\* fails, however their constructors race for it (SysFSGPIO.cpp:210-217 and
\* 341-345).
LeaveAsFound == (Nobody /\ ~failing) => exported = found

\* What is left behind was left by an object that answered for the GPIO and whose
\* constructor threw or whose unexport was refused, whatever else fails
\* (SysFSGPIO.cpp:134-208 and 349-362).
LeftByFailure ==
  (Nobody /\ exported # found) =>
    \E o \in Objects : pc[o] \in {"failed", "kept"} /\ teardown[o]

\* A GPIO that was exported before the program is never unexported by it,
\* whatever fails (SysFSGPIO.cpp:264-266).
FoundStays == found => exported

\* The GPIO disappears under an object that has seen it exported only when one
\* that believed to have made it was destroyed, however many share it, whichever
\* constructors threw and whatever failed: a program that destroys that one last
\* always has its GPIO (SysFSGPIO.cpp:250-286 and 349-362).
TakenByMaker ==
  \A o \in Objects : (pc[o] \in Files \cup {"ready"} /\ ~exported) =>
    \E e \in Objects : pc[e] = "destroyed" /\ teardown[e]
=============================================================================
