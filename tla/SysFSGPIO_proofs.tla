-------------------------- MODULE SysFSGPIO_proofs --------------------------
(***************************************************************************)
(* Proofs about module SysFSGPIO, for any set of objects.                  *)
(***************************************************************************)
EXTENDS SysFSGPIO, TLAPS

(* Every variable keeps its type (SysFSGPIO.cpp:78-115 and 250-338).       *)
THEOREM GPIOTypeCorrect == Spec => []TypeOK
<1> USE SysFSGPIOAssumption DEF TypeOK, States, Files
<1>1. Init => TypeOK
  BY DEF Init
<1>2. TypeOK /\ [Next]_vars => TypeOK'
  <2> SUFFICES ASSUME TypeOK, [Next]_vars PROVE TypeOK'
    OBVIOUS
  <2>0. UNCHANGED <<found, failing>>
    BY DEF Next, vars
  <2> USE <2>0
  <2>1. CASE InputChanges
    BY <2>1 DEF InputChanges
  <2>2. ASSUME NEW o \in Objects,
               \/ ConstructDefault(o) \/ Construct(o) \/ CheckExists(o)
               \/ Verify(o) \/ SetValue(o) \/ Destroy(o)
        PROVE  TypeOK'
    BY <2>2 DEF ConstructDefault, Construct, CheckExists, Verify, SetValue,
                Destroy, Goto, Throw
  <2>3. ASSUME NEW o \in Objects, Export(o) PROVE TypeOK'
    BY <2>3 DEF Export, Goto, Throw
  <2>4. ASSUME NEW o \in Objects, NEW file \in Files, Configure(o, file)
        PROVE  TypeOK'
    <3>1. NextFile(o, file) \in States
      BY <2>4 DEF NextFile
    <3> QED
      BY <2>4, <3>1 DEF Configure, Goto, Throw
  <2>5. CASE UNCHANGED vars
    BY <2>5 DEF vars
  <2> QED
    BY <2>1, <2>2, <2>3, <2>4, <2>5 DEF Next, ObjectStep
<1> QED
  BY <1>1, <1>2, PTL DEF Spec

-----------------------------------------------------------------------------
\* The object is past exportGPIO's check and answers for the GPIO.
Answers(o) == teardown[o] /\ pc[o] \in Files \cup {"verify", "ready"}

\* A GPIO that was found is still there, and no object answers for it.
FoundInv ==
  found =>
    /\ exported
    /\ \A o \in Objects : ~Answers(o) /\ pc[o] # "export"

(* A GPIO that the program found exported stays exported, whatever fails   *)
(* and however constructors and destructors interleave (SysFSGPIO.cpp:     *)
(* 262-267 and 349-362).                                                   *)
THEOREM FoundGPIOStays == Spec => []FoundStays
<1> USE DEF FoundInv, Answers, Files
<1>1. Init => FoundInv
  BY DEF Init
<1>2. TypeOK /\ FoundInv /\ [Next]_vars => FoundInv'
  <2> SUFFICES ASSUME TypeOK, FoundInv, [Next]_vars, found' PROVE FoundInv'
    BY DEF FoundInv
  <2>0. UNCHANGED <<found, failing>>
    BY DEF Next, vars
  <2> USE <2>0 DEF TypeOK
  <2>1. CASE InputChanges
    BY <2>1 DEF InputChanges
  <2>2. ASSUME NEW o \in Objects,
               \/ ConstructDefault(o) \/ Construct(o) \/ CheckExists(o)
               \/ Verify(o) \/ SetValue(o) \/ Destroy(o)
        PROVE  FoundInv'
    BY <2>2 DEF ConstructDefault, Construct, CheckExists, Verify, SetValue,
                Destroy, Goto, Throw
  <2>3. ASSUME NEW o \in Objects, Export(o) PROVE FALSE
    BY <2>3 DEF Export
  <2>4. ASSUME NEW o \in Objects, NEW file \in Files, Configure(o, file)
        PROVE  FoundInv'
    <3>1. NextFile(o, file) # "export" /\ ~teardown[o]
      BY <2>4 DEF NextFile, Configure
    <3> QED
      BY <2>4, <3>1 DEF Configure, Goto, Throw
  <2>5. CASE UNCHANGED vars
    BY <2>5 DEF vars
  <2> QED
    BY <2>1, <2>2, <2>3, <2>4, <2>5 DEF Next, ObjectStep
<1>3. FoundInv => FoundStays
  BY DEF FoundStays
<1> QED
  BY <1>1, <1>2, <1>3, GPIOTypeCorrect, PTL DEF Spec

-----------------------------------------------------------------------------
\* The object exported the GPIO, or found it gone, and will remove it when it
\* is destroyed, or cannot because its constructor threw.
Responsible(o) ==
  /\ teardown[o]
  /\ \/ pc[o] \in Files \cup {"verify", "ready"}
     \/ failing /\ pc[o] \in {"failed", "kept"}

\* If the program made the GPIO, an object is responsible for it.
MadeInv ==
  /\ \A o \in Objects :
       pc[o] \in {"unborn", "exists", "export", "verify"} => teardown[o]
  /\ (exported /\ ~found) => \E o \in Objects : Responsible(o)

(* An object that is responsible for the GPIO stays so until it is gone.   *)
LEMMA ResponsibleKept ==
  ASSUME TypeOK, exported, NEW o \in Objects, Responsible(o), [Next]_vars
  PROVE  Responsible(o)' \/ ~exported'
<1>0. UNCHANGED <<found, failing>>
  BY DEF Next, vars
<1> USE <1>0 DEF Responsible, TypeOK, Files
<1>1. CASE InputChanges \/ UNCHANGED vars
  BY <1>1 DEF InputChanges, vars
<1>2. ASSUME NEW p \in Objects,
             \/ ConstructDefault(p) \/ Construct(p) \/ CheckExists(p)
             \/ Export(p) \/ Verify(p) \/ SetValue(p) \/ Destroy(p)
      PROVE  Responsible(o)' \/ ~exported'
  BY <1>2 DEF ConstructDefault, Construct, CheckExists, Export, Verify,
              SetValue, Destroy, Goto, Throw
<1>3. ASSUME NEW p \in Objects, NEW file \in Files, Configure(p, file)
      PROVE  Responsible(o)'
  <2>1. NextFile(p, file) \in Files \cup {"ready"}
    BY <1>3 DEF NextFile
  <2> QED
    BY <1>3, <2>1 DEF Configure, Goto, Throw
<1> QED
  BY <1>1, <1>2, <1>3 DEF Next, ObjectStep

LEMMA MadeInvariant == Spec => []MadeInv
<1>1. Init => MadeInv
  BY DEF Init, MadeInv
<1>2. TypeOK /\ MadeInv /\ [Next]_vars => MadeInv'
  <2> SUFFICES ASSUME TypeOK, MadeInv, [Next]_vars PROVE MadeInv'
    OBVIOUS
  <2>0. UNCHANGED <<found, failing>>
    BY DEF Next, vars
  <2>1. ASSUME NEW o \in Objects,
               pc'[o] \in {"unborn", "exists", "export", "verify"}
        PROVE  teardown'[o]
    <3> USE DEF MadeInv, TypeOK, Files
    <3>1. CASE InputChanges \/ UNCHANGED vars
      BY <2>1, <3>1 DEF InputChanges, vars
    <3>2. ASSUME NEW p \in Objects,
                 \/ ConstructDefault(p) \/ Construct(p) \/ CheckExists(p)
                 \/ Export(p) \/ Verify(p) \/ SetValue(p) \/ Destroy(p)
          PROVE  teardown'[o]
      BY <2>1, <3>2 DEF ConstructDefault, Construct, CheckExists, Export,
                        Verify, SetValue, Destroy, Goto, Throw
    <3>3. ASSUME NEW p \in Objects, NEW file \in Files, Configure(p, file)
          PROVE  teardown'[o]
      <4>1. NextFile(p, file) \in Files \cup {"ready"}
        BY <3>3 DEF NextFile
      <4> QED
        BY <2>1, <3>3, <4>1 DEF Configure, Goto, Throw
    <3> QED
      BY <3>1, <3>2, <3>3 DEF Next, ObjectStep
  <2>2. ASSUME exported', ~found PROVE \E o \in Objects : Responsible(o)'
    <3>1. CASE exported
      <4>1. PICK o \in Objects : Responsible(o)
        BY <2>2, <3>1 DEF MadeInv
      <4> QED
        BY <2>2, <3>1, <4>1, ResponsibleKept
    <3>2. CASE ~exported
      <4>1. PICK o \in Objects : Export(o) /\ pc'[o] = "verify"
        BY <2>2, <3>2 DEF Next, vars, InputChanges, ObjectStep, Export, Throw,
           ConstructDefault, Construct, CheckExists, Verify, Configure,
           SetValue, Destroy, Goto, TypeOK
      <4>2. teardown'[o]
        BY <2>1, <4>1
      <4> QED
        BY <4>1, <4>2 DEF Responsible
    <3> QED
      BY <3>1, <3>2
  <2> QED
    BY <2>0, <2>1, <2>2 DEF MadeInv
<1> QED
  BY <1>1, <1>2, GPIOTypeCorrect, PTL DEF Spec

(* When opening files does not fail, the objects leave the GPIO as they    *)
(* found it, however many there are and however their constructors race    *)
(* for it (SysFSGPIO.cpp:220-238 and 250-362).                             *)
THEOREM GPIOLeftAsFound == Spec => []LeaveAsFound
<1>1. TypeOK /\ MadeInv /\ FoundStays => LeaveAsFound
  BY SysFSGPIOAssumption DEF TypeOK, MadeInv, FoundStays, LeaveAsFound, Nobody,
                             Responsible, Files
<1> QED
  BY <1>1, GPIOTypeCorrect, MadeInvariant, FoundGPIOStays, PTL

(* Whatever fails, a GPIO is left exported only if the constructor of an   *)
(* object that would have removed it threw, or the kernel refused the      *)
(* unexport (SysFSGPIO.cpp:134-208 and 349-362).                           *)
THEOREM GPIOLeftByFailure == Spec => []LeftByFailure
<1>1. TypeOK /\ MadeInv /\ FoundStays => LeftByFailure
  BY SysFSGPIOAssumption DEF TypeOK, MadeInv, FoundStays, LeftByFailure, Nobody,
                             Responsible, Files
<1> QED
  BY <1>1, GPIOTypeCorrect, MadeInvariant, FoundGPIOStays, PTL

-----------------------------------------------------------------------------
(* The GPIO disappears under an object that has seen it exported only by    *)
(* the destruction of one that believed to have made it, whatever fails     *)
(* (SysFSGPIO.cpp:250-286 and 349-362).                                     *)
THEOREM GPIOTakenByMaker == Spec => []TakenByMaker
<1> USE DEF TakenByMaker, Files
<1>1. Init => TakenByMaker
  BY DEF Init
<1>2. ASSUME TypeOK, TakenByMaker, [Next]_vars PROVE TakenByMaker'
  <2> DEFINE Taken == \E e \in Objects : pc[e] = "destroyed" /\ teardown[e]
             Seen(o) == pc[o] \in Files \cup {"ready"}
  <2> USE <1>2 DEF TypeOK
  \* Nobody leaves the state "destroyed".
  <2>1. ASSUME NEW o \in Objects, ObjectStep(o), pc[o] = "destroyed" PROVE FALSE
    BY <2>1 DEF ObjectStep, ConstructDefault, Construct, CheckExists, Export, Verify,
      Configure, SetValue, Destroy
  <2>2. ASSUME NEW o \in Objects, ObjectStep(o)
        PROVE  \A e \in Objects \ {o} : pc'[e] = pc[e] /\ teardown'[e] = teardown[e]
    BY <2>2 DEF ObjectStep, ConstructDefault, Construct, CheckExists, Export, Verify,
      Configure, SetValue, Destroy, Goto, Throw
  <2>3. ASSUME NEW o \in Objects, ObjectStep(o), Taken PROVE Taken'
    BY <2>1, <2>2, <2>3
  <2>4. CASE InputChanges \/ UNCHANGED vars
    BY <2>4 DEF InputChanges, vars
  <2>5. ASSUME NEW o \in Objects, Destroy(o) PROVE TakenByMaker'
    <3>1. ObjectStep(o)
      BY <2>5 DEF ObjectStep
    <3>2. CASE exported /\ ~exported'
      BY <2>5, <3>2 DEF Destroy, Goto
    <3>3. CASE ~exported
      <4>1. \A p \in Objects : Seen(p)' => Seen(p)
        BY <2>5 DEF Destroy, Goto
      <4> QED
        BY <2>3, <3>1, <3>3, <4>1
    <3> QED
      BY <3>2, <3>3
  <2>6. ASSUME NEW o \in Objects, ObjectStep(o), ~Destroy(o) PROVE TakenByMaker'
    <3>1. exported => exported'
      BY <2>6 DEF ObjectStep, ConstructDefault, Construct, CheckExists, Export, Verify,
        Configure, SetValue, Throw
    <3>2. ASSUME ~exported, NEW p \in Objects, Seen(p)', ~exported' PROVE Seen(p)
      BY <2>2, <2>6, <3>2 DEF ObjectStep, ConstructDefault, Construct, CheckExists,
        Export, Verify, Configure, SetValue, Goto, Throw
    <3> QED
      BY <2>3, <2>6, <3>1, <3>2
  <2> QED
    BY <2>4, <2>5, <2>6 DEF Next
<1> QED
  BY <1>1, <1>2, GPIOTypeCorrect, PTL DEF Spec
=============================================================================
