---------------------------- MODULE POpen_proofs ----------------------------
(***************************************************************************)
(* Proofs about module POpen, for any number of children and descriptors.  *)
(***************************************************************************)
EXTENDS POpen, TLAPS

\* The local variables of run_command are set as far as it has come.
LocalsSet ==
  /\ pc \in {"pipe_out", "fdopen_read", "fdopen_write", "fork"} =>
       end["in_read"] \in Fds /\ end["in_write"] \in Fds
  /\ pc \in {"fdopen_read", "fdopen_write", "fork"} =>
       end["out_read"] \in Fds /\ end["out_write"] \in Fds
  /\ pc \in {"fdopen_write", "fork"} => readFp \in Fds
  /\ pc = "fork" => writeFp \in Fds

TypeInv == TypeOK /\ LocalsSet

LEMMA InitTypes == Init => TypeInv
<1> SUFFICES ASSUME Init PROVE TypeInv
  OBVIOUS
<1>1. {readFd, writeFd, readFp, writeFp} \subseteq Fds \cup {None}
  BY POpenAssumption DEF Init
<1>2. Held \in Seq(Fds) /\ <<>> \in Seq(Fds)
  BY <1>1 DEF Init, Held, IfSet
<1>3. /\ proc \in [Children -> {"unborn", "reaped"}] /\ pid \in Children \cup {None}
      /\ todo \in Seq(Fds)
  BY <1>2 DEF Init
<1> QED
  BY <1>1, <1>3, POpenAssumption DEF Init, TypeInv, TypeOK, LocalsSet, NoEnds, Labels, Running

LEMMA TypesKept == TypeInv /\ [Next]_vars => TypeInv'
<1> SUFFICES ASSUME TypeInv, [Next]_vars PROVE TypeInv'
  OBVIOUS
<1> USE POpenAssumption DEF TypeInv, TypeOK, LocalsSet, Labels, Running, members
<1>1. CASE UNCHANGED vars
  BY <1>1 DEF vars
<1> SUFFICES ASSUME Next PROVE TypeInv'
  BY <1>1
<1>0. setting' = setting
  BY DEF Next, Goes
<1> USE <1>0
<1>2. CASE RunCommand \/ Close
  BY <1>2 DEF RunCommand, Close, Begin, Idle
<1>3. CASE Kill
  BY <1>3 DEF Kill, Signal, Idle
<1>4. CASE IsRunning
  BY <1>4 DEF IsRunning, Reap, Idle
<1>5. CASE CloseNext
  <2>1. Tail(todo) \in Seq(Fds)
    BY <1>5 DEF CloseNext
  <2> QED
    BY <1>5, <2>1 DEF CloseNext
<1>6. CASE Reset
  <2>1. CASE pc = "reset_kill" /\ Signal("reset_wait", TRUE)
    BY <1>6, <2>1 DEF Reset, Signal, Wait, InitValues, Goto
  <2>2. CASE Wait("reset_wait", "reset_init", "pipe_in")
    <3>1. Held \in Seq(Fds)
      BY DEF Held, IfSet
    <3> QED
      BY <2>2, <3>1 DEF Wait, Reap
  <2>3. CASE InitValues("reset_init", "pipe_in")
    BY <2>3 DEF InitValues, Goto
  <2> QED
    BY <1>6, <2>1, <2>2, <2>3 DEF Reset
<1>7. CASE Wait("close_wait", "close_init", "idle")
  <2>1. Held \in Seq(Fds)
    BY DEF Held, IfSet
  <2> QED
    BY <1>7, <2>1 DEF Wait, Reap
<1>8. CASE InitValues("close_init", "idle")
  BY <1>8 DEF InitValues, Goto
<1> USE DEF Ends, InEnds, OutEnds
<1>9. CASE PipeIn
  <2>1. CASE Pipe("in_read", "in_write", "pipe_out")
    BY <1>9, <2>1 DEF PipeIn, Pipe, Free, Lowest
  <2>2. CASE GiveUp(<<>>) /\ UNCHANGED <<readFp, writeFp>>
    BY <1>9, <2>2 DEF PipeIn, GiveUp, NoEnds
  <2> QED
    BY <1>9, <2>1, <2>2 DEF PipeIn
<1>10. CASE PipeOut
  <2>1. CASE Pipe("out_read", "out_write", "fdopen_read")
    <3>1. PICK m \in Fds, n \in Fds :
            /\ end' = [end EXCEPT !["out_read"] = m, !["out_write"] = n]
            /\ table' = [table EXCEPT ![m] = "out_read", ![n] = "out_write"]
      BY <2>1 DEF Pipe, Free
    <3>2. /\ end'["in_read"] \in Fds /\ end'["in_write"] \in Fds
          /\ end'["out_read"] \in Fds /\ end'["out_write"] \in Fds
          /\ end' \in [Ends -> Fds \cup {None}]
      BY <1>10, <3>1 DEF PipeOut
    <3>3. table' \in [Fds -> Ends \cup {"free", "other"}]
      BY <3>1
    <3> QED
      BY <2>1, <3>2, <3>3 DEF Pipe
  <2>2. CASE /\ GiveUp(ClosePipe("in_read", "in_write"))
             /\ UNCHANGED <<readFp, writeFp>>
    <3>1. ClosePipe("in_read", "in_write") \in Seq(Fds)
      BY <1>10 DEF PipeOut, ClosePipe
    <3> QED
      BY <1>10, <2>2, <3>1 DEF PipeOut, GiveUp, NoEnds
  <2> QED
    BY <1>10, <2>1, <2>2 DEF PipeOut
<1>17. pc \in {"fdopen_read", "fdopen_write", "fork"} => ClosePipes \in Seq(Fds)
  <2> SUFFICES ASSUME pc \in {"fdopen_read", "fdopen_write", "fork"}
               PROVE  ClosePipes \in Seq(Fds)
    OBVIOUS
  <2>1. /\ ClosePipe("out_read", "out_write") \in Seq(Fds)
        /\ ClosePipe("in_read", "in_write") \in Seq(Fds)
    BY DEF ClosePipe
  <2> QED
    BY <2>1 DEF ClosePipes
<1>11. CASE FdopenRead
  <2>1. CASE pc' = "fdopen_write" /\ readFp' = end["out_read"]
    BY <1>11, <2>1 DEF FdopenRead, GiveUp
  <2>2. CASE readFp' = None /\ GiveUp(ClosePipes)
    BY <1>11, <1>17, <2>2 DEF FdopenRead, GiveUp, NoEnds
  <2> QED
    BY <1>11, <2>1, <2>2 DEF FdopenRead
<1>12. CASE FdopenWrite
  <2>1. CASE pc' = "fork"
    BY <1>12, <2>1 DEF FdopenWrite, GiveUp
  <2>2. CASE writeFp' = None /\ GiveUp(<<readFp>> \o ClosePipes)
    <3>1. <<readFp>> \o ClosePipes \in Seq(Fds)
      BY <1>12, <1>17 DEF FdopenWrite
    <3> QED
      BY <1>12, <2>2, <3>1 DEF FdopenWrite, GiveUp, NoEnds
  <2> QED
    BY <1>12, <2>1, <2>2 DEF FdopenWrite
<1>13. CASE Fork
  <2>1. ASSUME NEW c \in Children,
               pid' = c, proc' = [proc EXCEPT ![c] = "running"],
               todo' = <<end["out_write"], end["in_read"]>>,
               pc' = "idle", end' = NoEnds,
               UNCHANGED <<readFd, writeFd, readFp, writeFp, table, hit>>
        PROVE  TypeInv'
    <3>1. todo' \in Seq(Fds)
      BY <1>13, <2>1 DEF Fork
    <3> QED
      BY <2>1, <3>1 DEF NoEnds
  <2>2. CASE GiveUp(<<writeFp, readFp>> \o ClosePipes) /\ UNCHANGED <<readFp, writeFp>>
    <3>1. <<writeFp, readFp>> \o ClosePipes \in Seq(Fds)
      BY <1>13, <1>17 DEF Fork
    <3> QED
      BY <1>13, <2>2, <3>1 DEF Fork, GiveUp, NoEnds
  <2> QED
    BY <1>13, <2>1, <2>2 DEF Fork
<1>14. CASE OthersOpen
  BY <1>14 DEF OthersOpen, Lowest, Free
<1>15. CASE OthersClose
  BY <1>15 DEF OthersClose
<1>16. ASSUME NEW c \in Children, ChildEnds(c) PROVE TypeInv'
  BY <1>16 DEF ChildEnds
<1> QED
  BY <1>2, <1>3, <1>4, <1>5, <1>6, <1>7, <1>8, <1>9, <1>10, <1>11, <1>12,
     <1>13, <1>14, <1>15, <1>16 DEF Next, ObjectStep

(* Every variable keeps its type, and a descriptor that is closed is one    *)
(* (POpen.cpp:81-168 and 275-309).                                          *)
THEOREM POpenTypeCorrect == Spec => []TypeOK
<1>1. TypeInv => TypeOK
  BY DEF TypeInv
<1> QED
  BY <1>1, InitTypes, TypesKept, PTL DEF Spec

-----------------------------------------------------------------------------
\* The child that is not reaped, if there is one, is the one of the object; it
\* is reaped before pipes are made for the next, or the members forget it.
ChildInv ==
  /\ OneChild
  /\ pc \in {"pipe_in", "pipe_out", "fdopen_read", "fdopen_write", "fork"} =>
       pid = None
  /\ pc \in {"reset_init", "close_init"} => pid = None \/ proc[pid] = "reaped"

LEMMA InitChild == Init => ChildInv
BY POpenAssumption DEF Init, ChildInv, OneChild

LEMMA ChildKept == TypeInv /\ ChildInv /\ [Next]_vars => ChildInv'
<1> SUFFICES ASSUME TypeInv, ChildInv, [Next]_vars PROVE ChildInv'
  OBVIOUS
<1>0. TypeOK
  BY DEF TypeInv
<1> USE <1>0, POpenAssumption DEF TypeOK, ChildInv, OneChild, members
<1>1. CASE UNCHANGED vars
  BY <1>1 DEF vars
<1>2. CASE RunCommand \/ Close
  BY <1>2 DEF RunCommand, Close, Begin, Idle
<1>3. CASE Kill
  BY <1>3 DEF Kill, Signal, Idle
<1>4. CASE IsRunning
  BY <1>4 DEF IsRunning, Reap, Idle
<1>5. CASE CloseNext
  BY <1>5 DEF CloseNext
<1>6. CASE pc = "reset_kill" /\ Signal("reset_wait", TRUE) /\ UNCHANGED members
  BY <1>6 DEF Signal
<1>7. CASE Wait("reset_wait", "reset_init", "pipe_in")
  BY <1>7 DEF Wait, Reap
<1>8. CASE Wait("close_wait", "close_init", "idle")
  BY <1>8 DEF Wait, Reap
<1>9. CASE InitValues("reset_init", "pipe_in") \/ InitValues("close_init", "idle")
  BY <1>9 DEF InitValues, Goto
<1>10. CASE PipeIn
  BY <1>10 DEF PipeIn, Pipe, GiveUp
<1>11. CASE PipeOut
  BY <1>11 DEF PipeOut, Pipe, GiveUp
<1>12. CASE FdopenRead \/ FdopenWrite
  BY <1>12 DEF FdopenRead, FdopenWrite, GiveUp
<1>13. CASE Fork
  BY <1>13 DEF Fork, GiveUp
<1>14. CASE OthersOpen \/ OthersClose
  BY <1>14 DEF OthersOpen, OthersClose
<1>15. ASSUME NEW c \in Children, ChildEnds(c) PROVE ChildInv'
  BY <1>15 DEF ChildEnds
<1> QED
  BY <1>1, <1>2, <1>3, <1>4, <1>5, <1>6, <1>7, <1>8, <1>9, <1>10, <1>11,
     <1>12, <1>13, <1>14, <1>15 DEF Next, ObjectStep, Reset

(* The object never forgets a child that has not been reaped, and never has *)
(* two (POpen.cpp:180-211).                                                 *)
THEOREM ChildNotForgotten == Spec => []OneChild
<1>1. Init => ChildInv
  BY InitChild
<1>2. ChildInv => OneChild
  BY DEF ChildInv
<1> QED
  BY <1>1, <1>2, InitTypes, TypesKept, ChildKept, PTL DEF Spec

-----------------------------------------------------------------------------
ToClose(n) == \E i \in 1..Len(todo) : todo[i] = n

\* The table and the arrays of run_command agree about these ends, and no
\* other is open.
EndsAre(E) ==
  /\ \A e \in E : end[e] \in Fds /\ table[end[e]] = e
  /\ \A n \in OpenEnds : \E e \in E : n = end[e]

\* The object holds the two ends of its child and knows their kinds.
Holds ==
  /\ readFp = readFd /\ readFd \in Fds /\ table[readFd] = "out_read"
  /\ writeFp = writeFd /\ writeFd \in Fds /\ table[writeFd] = "in_write"

Quiet == pc \in {"idle", "reset_kill", "reset_wait", "close_wait"}

\* POpen(command) has not yet come to its own values.
Unset == pc \in {"reset_kill", "reset_wait"} /\ OpenEnds = {}

HoldsAll ==
  /\ Holds
  /\ ~ToClose(readFd) /\ ~ToClose(writeFd)
  /\ \A n \in OpenEnds : n \in {readFd, writeFd} \/ ToClose(n)

\* Where each open end of a pipe is known, at each place of the object.
EndsInv ==
  /\ pc \notin {"idle", "reset_init", "close_init"} => todo = <<>>
  /\ pc = "pipe_in" => OpenEnds = {}
  /\ pc = "pipe_out" => EndsAre(InEnds)
  /\ pc \in {"fdopen_read", "fdopen_write", "fork"} => EndsAre(Ends)
  /\ pc \in {"fdopen_write", "fork"} => readFp = end["out_read"]
  /\ pc = "fork" => /\ readFd = end["out_read"]
                    /\ writeFd = end["in_write"] /\ writeFp = end["in_write"]
  /\ pc \in {"reset_init", "close_init"} => \A n \in OpenEnds : ToClose(n)
  /\ Quiet /\ pid = None => \A n \in OpenEnds : ToClose(n)
  /\ Quiet /\ pid # None => Unset \/ HoldsAll

\* What is to be closed after one descriptor has been closed.
LEMMA ToCloseNext ==
  ASSUME todo \in Seq(Fds), CloseNext, NEW n
  PROVE  ToClose(n) <=> n = Head(todo) \/ ToClose(n)'
<1>1. /\ todo # <<>> /\ todo' = Tail(todo) /\ Len(todo') = Len(todo) - 1
      /\ Len(todo) \in Nat \ {0}
  BY DEF CloseNext
<1>2. Head(todo) = todo[1] /\ \A i \in 1..Len(todo') : todo'[i] = todo[i + 1]
  BY <1>1
<1>3. ToClose(n)' => ToClose(n)
  <2> SUFFICES ASSUME NEW i \in 1..Len(todo'), todo'[i] = n PROVE ToClose(n)
    BY DEF ToClose
  <2> i + 1 \in 1..Len(todo) /\ todo[i + 1] = n
    BY <1>1, <1>2
  <2> QED
    BY DEF ToClose
<1>4. n = Head(todo) => ToClose(n)
  BY <1>1, <1>2 DEF ToClose
<1>5. ToClose(n) => n = Head(todo) \/ ToClose(n)'
  <2> SUFFICES ASSUME NEW i \in 1..Len(todo), todo[i] = n, i # 1 PROVE ToClose(n)'
    BY <1>2 DEF ToClose
  <2> i - 1 \in 1..Len(todo') /\ todo'[i - 1] = n
    BY <1>1, <1>2
  <2> QED
    BY DEF ToClose
<1> QED
  BY <1>3, <1>4, <1>5

\* Closing one of the descriptors that are to be closed keeps what is known.
LEMMA CloseKeepsEnds ==
  ASSUME TypeInv, EndsInv, CloseNext
  PROVE  EndsInv'
<1>1. /\ todo # <<>> /\ pc \in {"idle", "reset_init", "close_init"}
      /\ todo \in Seq(Fds) /\ Head(todo) \in Fds
      /\ UNCHANGED <<pid, readFd, writeFd, readFp, writeFp, end, pc>>
      /\ table' = [table EXCEPT ![Head(todo)] = "free"]
      /\ table \in [Fds -> Ends \cup {"free", "other"}]
  BY DEF CloseNext, EndsInv, TypeInv, TypeOK, members
<1>2. \A n : ToClose(n) <=> n = Head(todo) \/ ToClose(n)'
  BY <1>1, ToCloseNext
<1>3. OpenEnds' = OpenEnds \ {Head(todo)}
  BY <1>1 DEF OpenEnds, Ends, InEnds, OutEnds
<1>4. \A n \in OpenEnds' : n \in OpenEnds /\ n # Head(todo)
  BY <1>3
<1>5. CASE pc # "idle" \/ pid = None
  <2>1. \A n \in OpenEnds : ToClose(n)
    BY <1>1, <1>5 DEF EndsInv, Quiet, Unset, HoldsAll
  <2>2. \A n \in OpenEnds' : ToClose(n)'
    BY <2>1, <1>2, <1>4
  <2> QED
    BY <1>1, <1>5, <2>2 DEF EndsInv, Quiet, Unset, HoldsAll
<1>6. CASE pc = "idle" /\ pid # None
  <2>1. /\ Holds /\ ~ToClose(readFd) /\ ~ToClose(writeFd)
        /\ \A n \in OpenEnds : n \in {readFd, writeFd} \/ ToClose(n)
    BY <1>6 DEF EndsInv, Quiet, Unset, HoldsAll
  <2>2. readFd # Head(todo) /\ writeFd # Head(todo)
    BY <2>1, <1>2
  <2>3. /\ Holds' /\ ~ToClose(readFd)' /\ ~ToClose(writeFd)'
        /\ \A n \in OpenEnds' : n \in {readFd', writeFd'} \/ ToClose(n)'
    <3>1. Holds'
      BY <1>1, <2>1, <2>2 DEF Holds
    <3>2. ~ToClose(readFd)' /\ ~ToClose(writeFd)'
      BY <1>1, <1>2, <2>1 DEF ToClose
    <3>3. \A n \in OpenEnds' : n \in {readFd', writeFd'} \/ ToClose(n)'
      BY <1>1, <1>2, <1>4, <2>1
    <3> QED
      BY <3>1, <3>2, <3>3
  <2> QED
    BY <1>1, <1>6, <2>3 DEF EndsInv, Quiet, Unset, HoldsAll
<1> QED
  BY <1>1, <1>5, <1>6

\* The lists of descriptors that run_command closes when it gives up name every
\* end there is.
Lists(s, n) == \E i \in 1..Len(s) : s[i] = n

LEMMA ClosePipesLists ==
  ASSUME TypeInv, EndsAre(Ends),
         pc \in {"fdopen_read", "fdopen_write", "fork"}
  PROVE  ClosePipes \in Seq(Fds) /\ \A n \in OpenEnds : Lists(ClosePipes, n)
<1>1. /\ ClosePipes \in Seq(Fds) /\ Len(ClosePipes) = 4
      /\ ClosePipes[1] = end["out_read"] /\ ClosePipes[2] = end["out_write"]
      /\ ClosePipes[3] = end["in_read"] /\ ClosePipes[4] = end["in_write"]
  BY DEF ClosePipes, ClosePipe, TypeInv, TypeOK, LocalsSet
<1>2. \A i \in 1..4 : Lists(ClosePipes, ClosePipes[i])
  BY <1>1 DEF Lists
<1>3. \A n \in OpenEnds :
        n \in {end["in_read"], end["in_write"], end["out_read"], end["out_write"]}
  BY DEF EndsAre, Ends, InEnds, OutEnds
<1> QED
  BY <1>1, <1>2, <1>3

LEMMA ListsMore ==
  ASSUME NEW s \in Seq(Fds), NEW t \in Seq(Fds)
  PROVE  /\ s \o t \in Seq(Fds)
         /\ \A n : Lists(s, n) \/ Lists(t, n) => Lists(s \o t, n)
<1>1. Len(s \o t) = Len(s) + Len(t) /\ s \o t \in Seq(Fds)
  OBVIOUS
<1>2. ASSUME NEW n, Lists(t, n) PROVE Lists(s \o t, n)
  <2>1. PICK i \in 1..Len(t) : t[i] = n
    BY <1>2 DEF Lists
  <2>2. Len(s) + i \in 1..Len(s \o t) /\ (s \o t)[Len(s) + i] = n
    BY <1>1, <2>1
  <2> QED
    BY <2>2 DEF Lists
<1>3. ASSUME NEW n, Lists(s, n) PROVE Lists(s \o t, n)
  <2>1. PICK i \in 1..Len(s) : s[i] = n
    BY <1>3 DEF Lists
  <2>2. i \in 1..Len(s \o t) /\ (s \o t)[i] = n
    BY <1>1, <2>1
  <2> QED
    BY <2>2 DEF Lists
<1> QED
  BY <1>1, <1>2, <1>3

LEMMA GiveUpKnows ==
  ASSUME TypeInv, ChildInv, EndsInv,
         pc \in {"pipe_in", "pipe_out", "fdopen_read", "fdopen_write", "fork"},
         NEW closing, GiveUp(closing),
         \A n \in OpenEnds : Lists(closing, n)
  PROVE  EndsInv'
<1>1. /\ pid' = None /\ pc' = "idle" /\ OpenEnds' = OpenEnds /\ todo' = closing
  BY DEF GiveUp, ChildInv, OpenEnds
<1>2. \A n \in OpenEnds' : ToClose(n)'
  BY <1>1 DEF ToClose, Lists
<1> QED
  BY <1>1, <1>2 DEF EndsInv, Quiet, Unset, HoldsAll

LEMMA OthersKeepEnds ==
  ASSUME TypeInv, EndsInv,
         UNCHANGED <<members, end, pc, todo>>,
         \A n \in Fds : table[n] \in Ends \/ table'[n] \in Ends => table'[n] = table[n]
  PROVE  EndsInv'
<1>1. OpenEnds' = OpenEnds
  BY DEF OpenEnds
<1>2. \A n : ToClose(n)' <=> ToClose(n)
  BY DEF ToClose
<1>3. ASSUME NEW E \in SUBSET Ends, EndsAre(E) PROVE EndsAre(E)'
  BY <1>1, <1>3 DEF EndsAre
<1>4. (EndsAre(Ends) => EndsAre(Ends)') /\ (EndsAre(InEnds) => EndsAre(InEnds)')
  BY <1>3 DEF Ends
<1>5. Holds => Holds'
  BY DEF Holds, members, Ends, InEnds, OutEnds
<1> QED
  BY <1>1, <1>2, <1>4, <1>5 DEF EndsInv, Quiet, Unset, HoldsAll, members

LEMMA EndsKept ==
  ASSUME TypeInv, ChildInv, EndsInv, [Next]_vars
  PROVE  EndsInv'
<1>0. /\ TypeOK /\ table \in [Fds -> Ends \cup {"free", "other"}]
      /\ todo \in Seq(Fds) /\ pc \in Labels
  BY DEF TypeInv, TypeOK
<1>1. CASE UNCHANGED vars
  BY <1>1, OthersKeepEnds DEF vars
<1>2. CASE \/ RunCommand \/ Close \/ IsRunning \/ Kill
           \/ /\ pc = "reset_kill" /\ Signal("reset_wait", TRUE)
              /\ UNCHANGED <<members, end, table, todo>>
  <2>1. /\ UNCHANGED <<members, end, table, todo>>
        /\ Quiet /\ pc' \in {"idle", "reset_kill", "reset_wait", "close_wait", "dead"}
        /\ pc' # "idle" => todo = <<>>
    BY <1>2 DEF RunCommand, Close, IsRunning, Kill, Begin, Signal, Idle, Quiet,
                EndsInv
  <2>2. OpenEnds' = OpenEnds /\ (Holds => Holds') /\ (\A n : ToClose(n)' <=> ToClose(n))
    BY <2>1 DEF OpenEnds, Holds, ToClose, members
  <2>3. HoldsAll => HoldsAll'
    BY <2>1, <2>2 DEF HoldsAll, members
  <2>4. pid # None /\ Unset => Unset' \/ pc' = "dead"
    BY <1>2, <2>2 DEF Unset, RunCommand, Close, IsRunning, Kill, Begin, Signal, Idle
  <2> QED
    BY <2>1, <2>2, <2>3, <2>4 DEF EndsInv, Quiet, members
<1>3. CASE CloseNext
  BY <1>3, CloseKeepsEnds
<1>4. ASSUME NEW from, NEW init, NEW without, Wait(from, init, without),
             \/ from = "reset_wait" /\ init = "reset_init" /\ without = "pipe_in"
             \/ from = "close_wait" /\ init = "close_init" /\ without = "idle"
      PROVE  EndsInv'
  <2>1. /\ pc \in {"reset_wait", "close_wait"} /\ todo = <<>>
        /\ UNCHANGED <<members, end, table>> /\ OpenEnds' = OpenEnds
        /\ \A n : ~ToClose(n)
    BY <1>4 DEF Wait, EndsInv, OpenEnds, ToClose
  <2>2. CASE pid = None
    <3>1. OpenEnds = {} /\ pid' = None /\ todo' = todo /\ pc' = without
      BY <1>4, <2>1, <2>2 DEF EndsInv, Quiet, Unset, HoldsAll, Wait, members
    <3> QED
      BY <1>4, <2>1, <3>1 DEF EndsInv, Quiet, Unset, HoldsAll
  <2>3. CASE pid # None /\ OpenEnds = {}
    <3>1. todo' = Held /\ pc' \in {"reset_init", "close_init"} /\ OpenEnds' = {}
      BY <1>4, <2>1, <2>3 DEF Wait
    <3> QED
      BY <3>1 DEF EndsInv, Quiet
  <2>4. CASE pid # None /\ OpenEnds # {}
    <3>1. Holds /\ \A n \in OpenEnds : n \in {readFd, writeFd}
      BY <2>1, <2>4 DEF EndsInv, Quiet, Unset, HoldsAll
    <3>2. Lists(Held, readFd) /\ Lists(Held, writeFd)
      <4>1. /\ IfSet(readFd) = <<readFd>> /\ IfSet(writeFd) = <<writeFd>>
            /\ IfSet(readFp) \in Seq(Fds) /\ IfSet(writeFp) \in Seq(Fds)
            /\ <<readFd>> \in Seq(Fds) /\ <<writeFd>> \in Seq(Fds)
        BY <3>1, POpenAssumption DEF IfSet, Holds
      <4>2. Lists(<<readFd>>, readFd) /\ Lists(<<writeFd>>, writeFd)
        <5>1. /\ 1 \in 1..Len(<<readFd>>) /\ <<readFd>>[1] = readFd
              /\ 1 \in 1..Len(<<writeFd>>) /\ <<writeFd>>[1] = writeFd
          OBVIOUS
        <5> QED
          BY <5>1 DEF Lists
      <4>3. /\ <<readFd>> \o <<writeFd>> \in Seq(Fds)
            /\ Lists(<<readFd>> \o <<writeFd>>, readFd)
            /\ Lists(<<readFd>> \o <<writeFd>>, writeFd)
        BY <4>1, <4>2, ListsMore
      <4> DEFINE two == <<readFd>> \o <<writeFd>>
      <4> HIDE DEF two
      <4>4. two \in Seq(Fds) /\ Lists(two, readFd) /\ Lists(two, writeFd)
        BY <4>3 DEF two
      <4>5. /\ two \o IfSet(readFp) \in Seq(Fds)
            /\ Lists(two \o IfSet(readFp), readFd)
            /\ Lists(two \o IfSet(readFp), writeFd)
        BY <4>1, <4>4, ListsMore
      <4>6. Held = (two \o IfSet(readFp)) \o IfSet(writeFp)
        BY <4>1 DEF Held, two
      <4> QED
        BY <4>1, <4>5, <4>6, ListsMore
    <3>3. todo' = Held /\ pc' \in {"reset_init", "close_init"}
      BY <1>4, <2>4 DEF Wait
    <3>4. ToClose(readFd)' /\ ToClose(writeFd)'
      BY <2>1, <3>2, <3>3 DEF ToClose, Lists, members
    <3>5. \A n \in OpenEnds' : ToClose(n)'
      BY <2>1, <3>1, <3>4 DEF members
    <3> QED
      BY <3>3, <3>5 DEF EndsInv, Quiet, Unset, HoldsAll
  <2> QED
    BY <2>2, <2>3, <2>4
<1>5. ASSUME NEW from, NEW to, InitValues(from, to),
             \/ from = "reset_init" /\ to = "pipe_in"
             \/ from = "close_init" /\ to = "idle"
      PROVE  EndsInv'
  <2>1. /\ pc \in {"reset_init", "close_init"} /\ todo = <<>> /\ todo' = todo
        /\ OpenEnds' = OpenEnds /\ pid' = None /\ pc' \in {"pipe_in", "idle"}
    BY <1>5 DEF InitValues, Goto, OpenEnds
  <2>2. OpenEnds = {}
    BY <2>1 DEF EndsInv, ToClose
  <2> QED
    BY <2>1, <2>2 DEF EndsInv, Quiet, Unset, HoldsAll
<1>6. ASSUME NEW r \in Ends, NEW w \in Ends, NEW to, Pipe(r, w, to), r # w,
             NEW E \in SUBSET Ends, EndsAre(E), r \notin E, w \notin E
      PROVE  EndsAre(E \cup {r, w})'
  <2>1. PICK m \in Free, n \in Free :
          /\ m # n
          /\ end' = [end EXCEPT ![r] = m, ![w] = n]
          /\ table' = [table EXCEPT ![m] = r, ![n] = w]
    BY <1>6 DEF Pipe
  <2>2. /\ m \in Fds /\ n \in Fds /\ m \notin OpenEnds /\ n \notin OpenEnds
        /\ end \in [Ends -> Fds \cup {None}]
    BY <1>0 DEF Free, OpenEnds, Ends, InEnds, OutEnds, TypeOK
  <2>3. OpenEnds' = OpenEnds \cup {m, n}
    BY <1>0, <2>1, <2>2 DEF OpenEnds
  <2>4. end'[r] = m /\ end'[w] = n /\ table'[m] = r /\ table'[n] = w
    BY <1>0, <1>6, <2>1, <2>2
  <2>5. ASSUME NEW e \in E
        PROVE  end'[e] = end[e] /\ end[e] \in Fds /\ table'[end[e]] = e
    <3>1. end[e] \in OpenEnds /\ table[end[e]] = e
      BY <1>6 DEF EndsAre, OpenEnds
    <3> QED
      BY <1>0, <1>6, <2>1, <2>2, <3>1 DEF OpenEnds
  <2>6. \A k \in OpenEnds' : \E e \in E \cup {r, w} : k = end'[e]
    BY <1>6, <2>3, <2>4, <2>5 DEF EndsAre
  <2> QED
    BY <2>2, <2>4, <2>5, <2>6 DEF EndsAre
<1>7. CASE PipeIn
  <2>1. CASE Pipe("in_read", "in_write", "pipe_out")
    <3>1. EndsAre({})
      BY <1>7 DEF PipeIn, EndsInv, EndsAre
    <3>2. EndsAre({} \cup {"in_read", "in_write"})'
      BY <1>6, <2>1, <3>1 DEF Ends, InEnds
    <3>3. EndsAre(InEnds)'
      BY <3>2 DEF InEnds
    <3> QED
      BY <1>7, <2>1, <3>3 DEF PipeIn, Pipe, EndsInv, Quiet
  <2>2. CASE GiveUp(<<>>)
    <3>1. pc = "pipe_in" /\ OpenEnds = {}
      BY <1>7 DEF PipeIn, EndsInv
    <3>2. \A n \in OpenEnds : Lists(<<>>, n)
      BY <3>1
    <3> QED
      BY <2>2, <3>1, <3>2, GiveUpKnows
  <2> QED
    BY <1>7, <2>1, <2>2 DEF PipeIn
<1>8. CASE PipeOut
  <2>0. pc = "pipe_out" /\ EndsAre(InEnds) /\ todo = <<>>
    BY <1>8 DEF PipeOut, EndsInv
  <2>1. CASE Pipe("out_read", "out_write", "fdopen_read")
    <3>1. EndsAre(InEnds \cup {"out_read", "out_write"})'
      BY <1>6, <2>0, <2>1 DEF Ends, InEnds, OutEnds
    <3>2. EndsAre(Ends)'
      BY <3>1 DEF Ends, OutEnds
    <3> QED
      BY <2>0, <2>1, <3>2 DEF Pipe, EndsInv, Quiet
  <2>2. CASE GiveUp(ClosePipe("in_read", "in_write"))
    <3> DEFINE closing == ClosePipe("in_read", "in_write")
    <3>1. /\ Len(closing) = 2
          /\ closing[1] = end["in_read"] /\ closing[2] = end["in_write"]
      BY <2>0 DEF ClosePipe
    <3>2. \A n \in OpenEnds : n \in {end["in_read"], end["in_write"]}
      BY <2>0 DEF EndsAre, InEnds
    <3>3. \A n \in OpenEnds : Lists(closing, n)
      BY <3>1, <3>2 DEF Lists
    <3> HIDE DEF closing
    <3>4. GiveUp(closing)
      BY <2>2 DEF closing
    <3> QED
      BY <2>0, <3>3, <3>4, GiveUpKnows
  <2> QED
    BY <1>8, <2>1, <2>2 DEF PipeOut
<1>9. pc \in {"fdopen_read", "fdopen_write", "fork"} =>
        \A n \in OpenEnds :
          n \in {end["in_read"], end["in_write"], end["out_read"], end["out_write"]}
  BY DEF EndsInv, EndsAre, Ends, InEnds, OutEnds
<1>10. CASE FdopenRead
  <2>0. pc = "fdopen_read" /\ EndsAre(Ends) /\ todo = <<>>
    BY <1>10 DEF FdopenRead, EndsInv
  <2>1. CASE readFp' = end["out_read"] /\ pc' = "fdopen_write"
             /\ UNCHANGED <<end, table, todo>>
    <3>1. EndsAre(Ends)'
      BY <2>0, <2>1 DEF EndsAre, OpenEnds
    <3> QED
      BY <2>0, <2>1, <3>1 DEF EndsInv, Quiet, Unset, HoldsAll
  <2>2. CASE GiveUp(ClosePipes)
    <3>1. \A n \in OpenEnds : Lists(ClosePipes, n)
      BY <2>0, ClosePipesLists
    <3> QED
      BY <2>0, <2>2, <3>1, GiveUpKnows
  <2> QED
    BY <1>10, <2>1, <2>2 DEF FdopenRead
<1>11. CASE FdopenWrite
  <2>0. pc = "fdopen_write" /\ EndsAre(Ends) /\ todo = <<>> /\ readFp = end["out_read"]
    BY <1>11 DEF FdopenWrite, EndsInv
  <2>1. CASE /\ writeFp' = end["in_write"] /\ pc' = "fork" /\ readFp' = readFp
             /\ readFd' = end["out_read"] /\ writeFd' = end["in_write"]
             /\ UNCHANGED <<end, table, todo>>
    <3>1. EndsAre(Ends)'
      BY <2>0, <2>1 DEF EndsAre, OpenEnds
    <3> QED
      BY <2>0, <2>1, <3>1 DEF EndsInv, Quiet, Unset, HoldsAll
  <2>2. CASE GiveUp(<<readFp>> \o ClosePipes)
    <3>1. <<readFp>> \in Seq(Fds)
      BY <2>0 DEF TypeInv, LocalsSet
    <3>2. ClosePipes \in Seq(Fds) /\ \A n \in OpenEnds : Lists(ClosePipes, n)
      BY <2>0, ClosePipesLists
    <3>3. \A n \in OpenEnds : Lists(<<readFp>> \o ClosePipes, n)
      BY <3>1, <3>2, ListsMore
    <3> QED
      BY <2>0, <2>2, <3>3, GiveUpKnows
  <2> QED
    BY <1>11, <2>1, <2>2 DEF FdopenWrite
<1>12. CASE Fork
  <2>0. /\ pc = "fork" /\ EndsAre(Ends) /\ todo = <<>>
        /\ readFp = end["out_read"] /\ readFd = end["out_read"]
        /\ writeFp = end["in_write"] /\ writeFd = end["in_write"]
    BY <1>12 DEF Fork, EndsInv
  <2>1. CASE /\ pid' \in Children /\ pc' = "idle"
             /\ todo' = <<end["out_write"], end["in_read"]>>
             /\ UNCHANGED <<readFd, writeFd, readFp, writeFp, table>>
    <3>1. OpenEnds' = OpenEnds /\ Holds'
      BY <2>0, <2>1 DEF OpenEnds, Holds, EndsAre, Ends, InEnds, OutEnds
    <3>2. \A n : ToClose(n)' <=> n \in {end["out_write"], end["in_read"]}
      <4>1. Len(todo') = 2 /\ todo'[1] = end["out_write"] /\ todo'[2] = end["in_read"]
        BY <2>1
      <4> QED
        BY <4>1 DEF ToClose
    <3>3. {readFd, writeFd} \cap {end["out_write"], end["in_read"]} = {}
      BY <2>0 DEF EndsAre, Ends, InEnds, OutEnds
    <3>4. ~ToClose(readFd)' /\ ~ToClose(writeFd)'
      BY <2>1, <3>2, <3>3 DEF ToClose
    <3>5. \A n \in OpenEnds' : n \in {readFd', writeFd'} \/ ToClose(n)'
      BY <1>9, <2>0, <2>1, <3>1, <3>2
    <3>6. pid' # None
      BY <2>1, POpenAssumption
    <3> QED
      BY <2>1, <3>1, <3>4, <3>5, <3>6 DEF EndsInv, Quiet, Unset, HoldsAll
  <2>2. CASE GiveUp(<<writeFp, readFp>> \o ClosePipes)
    <3>1. <<writeFp, readFp>> \in Seq(Fds)
      BY <2>0 DEF TypeInv, LocalsSet
    <3>2. ClosePipes \in Seq(Fds) /\ \A n \in OpenEnds : Lists(ClosePipes, n)
      BY <2>0, ClosePipesLists
    <3>3. \A n \in OpenEnds : Lists(<<writeFp, readFp>> \o ClosePipes, n)
      BY <3>1, <3>2, ListsMore
    <3> QED
      BY <2>0, <2>2, <3>3, GiveUpKnows
  <2> QED
    BY <1>12, <2>1, <2>2 DEF Fork
<1>13. CASE OthersOpen \/ OthersClose \/ \E c \in Children : ChildEnds(c)
  <2>1. /\ UNCHANGED <<members, end, pc, todo>>
        /\ \A n \in Fds :
             table[n] \in Ends \/ table'[n] \in Ends => table'[n] = table[n]
    BY <1>0, <1>13 DEF OthersOpen, OthersClose, ChildEnds, Lowest, Free, Ends,
                       InEnds, OutEnds
  <2> QED
    BY <2>1, OthersKeepEnds
<1>14. CASE Wait("close_wait", "close_init", "idle")
  BY <1>4, <1>14
<1>15. CASE InitValues("close_init", "idle")
  BY <1>5, <1>15
<1>16. CASE Reset
  <2>1. CASE Wait("reset_wait", "reset_init", "pipe_in")
    BY <1>4, <2>1
  <2>2. CASE InitValues("reset_init", "pipe_in")
    BY <1>5, <2>2
  <2> QED
    BY <1>2, <1>16, <2>1, <2>2 DEF Reset
<1>17. CASE ObjectStep
  BY <1>3, <1>7, <1>8, <1>10, <1>11, <1>12, <1>14, <1>15, <1>16, <1>17
  DEF ObjectStep
<1> QED
  BY <1>1, <1>2, <1>13, <1>17 DEF Next

(* Between two calls the object holds its two ends of the pipes of its      *)
(* child, as descriptors and as streams, and no other end is open, whatever *)
(* failed and whatever others opened (POpen.cpp:91-164 and 275-295).        *)
THEOREM NoEndLeaks == Spec => []DescriptorsKept
<1>1. Init => EndsInv
  <2> SUFFICES ASSUME Init PROVE EndsInv
    OBVIOUS
  <2>1. OpenEnds = {}
    BY DEF Init, OpenEnds, Ends, InEnds, OutEnds
  <2> QED
    BY <2>1 DEF Init, EndsInv, Quiet, Unset
<1>2. Init => ChildInv
  BY InitChild
<1>3. EndsInv => DescriptorsKept
  <2> SUFFICES ASSUME EndsInv, Idle PROVE DescriptorsKept
    BY DEF DescriptorsKept
  <2>1. Quiet /\ \A n : ~ToClose(n)
    BY DEF Idle, Quiet, ToClose
  <2>2. CASE pid = None
    BY <2>1, <2>2 DEF EndsInv, DescriptorsKept
  <2>3. CASE pid # None
    <3>1. Holds /\ \A n \in OpenEnds : n \in {readFd, writeFd}
      BY <2>1, <2>3 DEF EndsInv, Unset, HoldsAll, Idle
    <3>2. OpenEnds = {readFd, writeFd}
      BY <3>1 DEF Holds, OpenEnds, Ends, InEnds, OutEnds
    <3> QED
      BY <2>3, <3>1, <3>2 DEF DescriptorsKept, Holds
  <2> QED
    BY <2>2, <2>3
<1>4. TypeInv /\ ChildInv /\ EndsInv /\ [Next]_vars => EndsInv'
  BY EndsKept
<1> QED
  BY <1>1, <1>2, <1>3, <1>4, InitTypes, TypesKept, ChildKept, PTL DEF Spec

-----------------------------------------------------------------------------
(* reset() waits only for a child that its kill -9 has ended, or that was   *)
(* reaped before: run_command is not held up by a command that never ends   *)
(* (POpen.cpp:205-211 and 222-246).                                         *)
THEOREM RunAwaitsNoLiving == Spec => []AwaitsNoLiving
<1>1. Init => AwaitsNoLiving
  BY DEF Init, AwaitsNoLiving
<1>2. ASSUME TypeInv, AwaitsNoLiving, [Next]_vars PROVE AwaitsNoLiving'
  <2> SUFFICES ASSUME setting' # "scarce", pc' = "reset_wait", pid' # None
               PROVE  proc'[pid'] # "running"
    BY DEF AwaitsNoLiving
  <2>0. setting' = setting /\ TypeOK
    BY <1>2 DEF Next, Goes, vars, TypeInv
  <2>1. CASE pc = "reset_kill" /\ Signal("reset_wait", TRUE) /\ UNCHANGED members
    <3>1. pid # None /\ proc[pid] \in {"unborn", "running", "zombie", "reaped"}
      BY <2>0, <2>1 DEF members, TypeOK
    <3>2. CASE proc[pid] = "reaped"
      BY <2>0, <2>1, <3>1, <3>2 DEF Signal, members
    <3>3. CASE proc[pid] # "reaped"
      BY <2>0, <2>1, <3>1, <3>3 DEF Signal, members, TypeOK
    <3> QED
      BY <3>2, <3>3
  <2>2. CASE pc = "reset_wait" /\ UNCHANGED <<members, proc>>
    BY <1>2, <2>0, <2>2 DEF AwaitsNoLiving, members
  <2>3. ASSUME NEW c \in Children, ChildEnds(c) PROVE proc'[pid'] # "running"
    BY <1>2, <2>0, <2>3 DEF ChildEnds, AwaitsNoLiving, members, TypeOK
  <2>4. CASE CloseNext \/ OthersOpen \/ OthersClose \/ UNCHANGED vars
    BY <2>2, <2>4 DEF CloseNext, OthersOpen, OthersClose, vars
  <2>5. CASE RunCommand \/ Close \/ Kill \/ IsRunning
    BY <2>5 DEF RunCommand, Close, Kill, IsRunning, Begin, Signal, Idle
  <2>6. CASE ObjectStep /\ ~CloseNext
    <3>1. CASE Reset
      BY <2>1, <3>1 DEF Reset, Wait, InitValues, Goto
    <3>2. CASE Wait("close_wait", "close_init", "idle") \/ InitValues("close_init", "idle")
      BY <3>2 DEF Wait, InitValues, Goto
    <3>3. CASE PipeIn \/ PipeOut \/ FdopenRead \/ FdopenWrite \/ Fork
      BY <3>3 DEF PipeIn, PipeOut, FdopenRead, FdopenWrite, Fork, Pipe, GiveUp
    <3> QED
      BY <2>6, <3>1, <3>2, <3>3 DEF ObjectStep
  <2> QED
    BY <1>2, <2>3, <2>4, <2>5, <2>6 DEF Next
<1> QED
  BY <1>1, <1>2, InitTypes, TypesKept, PTL DEF Spec
=============================================================================
