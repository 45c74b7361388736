------------------------------ MODULE Channel ------------------------------
(***************************************************************************)
(* What a TSQueue promises to the thread that consumes from it: a channel  *)
(* that delivers items one at a time, each at most once and in the order   *)
(* they were sent.  A lossless channel delivers all of them and never      *)
(* breaks; a lossy one may drop the oldest item it holds, and breaks if    *)
(* the consumer is just using that item.                                   *)
(***************************************************************************)
EXTENDS Naturals, Sequences

CONSTANT Items   \* what can be sent

VARIABLES
  buffer,     \* the items sent and neither delivered nor dropped
  got,        \* the last item delivered
  delivered,  \* the number of deliveries: a second one of the same item counts
  broken,     \* "none", or how the channel broke
  lossy       \* whether items may be dropped, which does not change

chanVars == <<buffer, got, delivered, broken, lossy>>

ChanInit ==
  /\ buffer = <<>>
  /\ got \notin Items
  /\ delivered = 0
  /\ broken = "none"
  /\ lossy \in BOOLEAN

Send(i) ==
  /\ buffer' = Append(buffer, i)
  /\ UNCHANGED <<got, delivered, broken>>

\* A send that finds the channel full drops the oldest item to make room.
SendDropping(i) ==
  /\ lossy
  /\ buffer # <<>>
  /\ buffer' = Append(Tail(buffer), i)
  /\ UNCHANGED <<got, delivered, broken>>

Deliver ==
  /\ buffer # <<>>
  /\ got' = Head(buffer)
  /\ buffer' = Tail(buffer)
  /\ delivered' = delivered + 1
  /\ UNCHANGED broken

Drop ==
  /\ lossy
  /\ buffer # <<>>
  /\ buffer' = Tail(buffer)
  /\ UNCHANGED <<got, delivered, broken>>

\* The item the consumer was about to use has been dropped.
Dangle ==
  /\ lossy
  /\ broken' = "dangling"
  /\ UNCHANGED <<buffer, got, delivered>>

ChanNext ==
  /\ (\E i \in Items : Send(i) \/ SendDropping(i)) \/ Deliver \/ Drop \/ Dangle
  /\ broken = "none"
  /\ UNCHANGED lossy

ChanSpec == ChanInit /\ [][ChanNext]_chanVars
=============================================================================
