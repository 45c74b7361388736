----------------------------- MODULE Mailboxes -----------------------------
(***************************************************************************)
(* What a MessageManager promises: a set of boxes.  A message is offered   *)
(* to a box, is then put into it once or refused, and is taken from it     *)
(* once, after those that were put before it; and using the boxes from     *)
(* several threads never goes wrong.  Module MessageManager implements     *)
(* this specification where its slots are made first and read by one.      *)
(***************************************************************************)
EXTENDS Naturals, Sequences

CONSTANTS Boxes, Messages

VARIABLES
  box,       \* the messages in each box
  taken,     \* the last message taken from each box
  made,      \* the number of messages that have been offered
  offers,    \* those that are neither put nor refused, each with its box
  fault      \* "none", and no step may change that

boxVars == <<box, taken, made, offers, fault>>

BoxInit ==
  /\ box = [b \in Boxes |-> <<>>]
  /\ \A b \in Boxes : taken[b] \notin Messages
  /\ made = 0
  /\ offers = {}
  /\ fault = "none"

Offer(b) ==
  /\ made + 1 \in Messages
  /\ made' = made + 1
  /\ offers' = offers \cup {<<made + 1, b>>}
  /\ UNCHANGED <<box, taken>>

Put(b, m) ==
  /\ <<m, b>> \in offers
  /\ offers' = offers \ {<<m, b>>}
  /\ box' = [box EXCEPT ![b] = Append(@, m)]
  /\ UNCHANGED <<taken, made>>

Refuse(b, m) ==
  /\ <<m, b>> \in offers
  /\ offers' = offers \ {<<m, b>>}
  /\ UNCHANGED <<box, taken, made>>

Take(b) ==
  /\ box[b] # <<>>
  /\ taken' = [taken EXCEPT ![b] = Head(box[b])]
  /\ box' = [box EXCEPT ![b] = Tail(@)]
  /\ UNCHANGED <<made, offers>>

BoxNext ==
  /\ \E b \in Boxes :
       Offer(b) \/ Take(b) \/ \E m \in Messages : Put(b, m) \/ Refuse(b, m)
  /\ UNCHANGED fault

BoxSpec == BoxInit /\ [][BoxNext]_boxVars
=============================================================================
