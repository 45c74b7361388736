----------------------------- MODULE WorkerSlot -----------------------------
(***************************************************************************)
(* What a Runable promises to the code that uses it, with none of how it   *)
(* does so: the object is a slot for one thread of execution.  A thread    *)
(* enters the slot only while the slot is empty and the object exists, it  *)
(* leaves the slot by ending, and the object is torn down only while the   *)
(* slot is empty.  Module Runable implements this specification.           *)
(***************************************************************************)
CONSTANT Workers    \* the threads that may enter the slot

VARIABLES
  live,             \* the threads that have been created and have not ended
  standing          \* TRUE until the object's destruction reaches the base

slotVars == <<live, standing>>

SlotInit ==
  /\ live = {}
  /\ standing = TRUE

Enter(w) ==
  /\ standing
  /\ live = {}
  /\ live' = {w}
  /\ UNCHANGED standing

Leave ==
  /\ live # {}
  /\ live' = {}
  /\ UNCHANGED standing

TearDown ==
  /\ standing
  /\ live = {}
  /\ standing' = FALSE
  /\ UNCHANGED live

SlotNext == (\E w \in Workers : Enter(w)) \/ Leave \/ TearDown

SlotSpec == SlotInit /\ [][SlotNext]_slotVars
=============================================================================
