------------------------------ MODULE FireOnce ------------------------------
(***************************************************************************)
(* What a OneShot promises to the code that fires it and forgets it: a     *)
(* shot is executed once, exists as long as it is executed, and is gone    *)
(* after that.  Module OneShot implements this specification.              *)
(***************************************************************************)
CONSTANT Shots

VARIABLES
  flying,    \* the shots that are being executed
  gone       \* the shots that were executed and of which nothing is left

shotVars == <<flying, gone>>

FireInit == flying = {} /\ gone = {}

Fire(s) ==
  /\ s \notin flying \cup gone
  /\ flying' = flying \cup {s}
  /\ UNCHANGED gone

Vanish(s) ==
  /\ s \in flying
  /\ flying' = flying \ {s}
  /\ gone' = gone \cup {s}

FireNext == \E s \in Shots : Fire(s) \/ Vanish(s)

FireSpec == FireInit /\ [][FireNext]_shotVars
=============================================================================
