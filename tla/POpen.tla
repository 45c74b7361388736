------------------------------- MODULE POpen -------------------------------
(***************************************************************************)
(* The class POpen of src/POpen.cpp: an object that runs one shell command *)
(* at a time in a child process and talks to it through two pipes.  One    *)
(* thread calls the methods.  Around it are the child processes, other     *)
(* threads of the program, which open and close files of their own, and    *)
(* other processes, which may be given the number of a process that is     *)
(* gone.  Each system call is a step; a stream is known by the descriptor  *)
(* it was made for.                                                        *)
(***************************************************************************)
EXTENDS Naturals, Sequences, FiniteSets

CONSTANTS
  Children,    \* the processes that fork() may make, a bound
  MaxFd,       \* the largest descriptor the program may have
  OldFds,      \* the descriptors that memory which was not set may name, a bound
  None         \* -1 as a process or a descriptor, and the null pointer

Fds == 0..MaxFd

ASSUME POpenAssumption ==
  /\ MaxFd \in Nat
  /\ OldFds \subseteq Fds
  /\ None \notin Children /\ None \notin Fds

\* The four ends of inpipe and outpipe, in the order in which pipe() makes them.
InEnds == {"in_read", "in_write"}
OutEnds == {"out_read", "out_write"}
Ends == InEnds \cup OutEnds

\* inpipe and outpipe while run_command does not use them.
NoEnds == [e \in Ends |-> None]

VARIABLES
  setting,  \* where the program runs, which never changes: "immune" where
            \* kill -9 -1 does not reach the program, as the first process of
            \* a container; "scarce" where system() may fail; or "plain"
  pid,      \* the members _pid, _readFd, _writeFd, _readFp and _writeFp
  readFd, writeFd,
  readFp, writeFp,
  end,      \* the local arrays inpipe and outpipe: the descriptor of each end
  table,    \* what each descriptor of the program is
  proc,     \* what has become of each child
  pc,       \* where the object is in the method it executes
  todo,     \* the descriptors that it closes next, in this order
  hit       \* whom a signal has hit: "none" but the child, "another" process,
            \* or "all" of them

members == <<pid, readFd, writeFd, readFp, writeFp>>
vars == <<setting, members, end, table, proc, pc, todo, hit>>

Running == {"reset_kill", "reset_wait", "reset_init", "pipe_in", "pipe_out",
            "fdopen_read", "fdopen_write", "fork"}
Labels == Running \cup {"idle", "close_wait", "close_init", "dead"}

TypeOK ==
  /\ setting \in {"plain", "immune", "scarce"}
  /\ pid \in Children \cup {None}
  /\ {readFd, writeFd, readFp, writeFp} \subseteq Fds \cup {None}
  /\ end \in [Ends -> Fds \cup {None}]
  /\ table \in [Fds -> Ends \cup {"free", "other"}]
  /\ proc \in [Children -> {"unborn", "running", "zombie", "reaped"}]
  /\ pc \in Labels
  /\ todo \in Seq(Fds)
  /\ hit \in {"none", "another", "all"}

\* A mutated form of IfSet: a descriptor is closed whether there is one or not.
IfUnset(n) == <<n>>

IfSet(n) == IF n = None THEN <<>> ELSE <<n>>

\* init_process_values closes each descriptor, and each stream with it again.
Held == IfSet(readFd) \o IfSet(writeFd) \o IfSet(readFp) \o IfSet(writeFp)

\* Neither constructor sets the members before it uses them, so they are what
\* the memory holds: descriptors and streams that may be anybody's by now, of
\* an earlier object or not, and -1 or a number that is no child's.  An old child
\* stands for any such number: to kill and waitpid() a stranger's process is what
\* a process is that took the number of a child that is gone.  POpen() is about
\* to close the descriptors, and POpen(command) to execute run_command.  Pointers
\* to what is not a stream may end the program, and so may 0 and the numbers
\* below -1, which name groups of processes.
Init ==
  /\ setting \in {"plain", "immune", "scarce"}
  /\ proc \in {[c \in Children |-> IF c = old THEN "reaped" ELSE "unborn"] :
                 old \in Children \cup {None}}
  /\ pid \in {c \in Children : proc[c] = "reaped"} \cup {None}
  /\ readFd \in OldFds \cup {None} /\ readFp \in OldFds \cup {None}
  /\ writeFd \in OldFds \cup {None} /\ writeFp \in OldFds \cup {None}
  /\ end = NoEnds
  /\ table \in [Fds -> {"free", "other"}]
  /\ \/ pc = "close_init" /\ todo = Held
     \/ pc \in {"reset_kill", "dead"} /\ todo = <<>>
  /\ hit = "none"

Goto(from, to) == pc = from /\ pc' = to

-----------------------------------------------------------------------------
(* The surroundings.                                                       *)

Free == {n \in Fds : table[n] = "free"}

\* The system gives out the lowest descriptors.
Lowest(n) == n \in Free /\ \A m \in Free : n <= m

OthersOpen ==
  /\ \E n \in Fds : Lowest(n) /\ table' = [table EXCEPT ![n] = "other"]
  /\ UNCHANGED <<members, end, proc, pc, todo, hit>>

OthersClose ==
  /\ \E n \in Fds :
       table[n] = "other" /\ table' = [table EXCEPT ![n] = "free"]
  /\ UNCHANGED <<members, end, proc, pc, todo, hit>>

ChildEnds(c) ==
  /\ proc[c] = "running"
  /\ proc' = [proc EXCEPT ![c] = "zombie"]
  /\ UNCHANGED <<members, end, table, pc, todo, hit>>

-----------------------------------------------------------------------------
(* Signals, waiting, and closing.                                          *)

\* A mutated form of Signal: kill() asks the child to end, as terminate() does.
SignalPolite(to, deadly) ==
  /\ IF pid = None THEN hit' = "all" ELSE UNCHANGED hit
  /\ pc' = IF pid = None /\ setting # "immune" THEN "dead" ELSE to
  /\ IF pid = None \/ proc[pid] # "running" THEN UNCHANGED proc
     ELSE proc' \in {proc, [proc EXCEPT ![pid] = "zombie"]}

\* system("kill -9 ..."), or with another signal, which a child may ignore.
\* The number -1 means every process there is, and that of a child that was
\* reaped may by now be another process's.  system() needs a process, too.
Signal(to, deadly) ==
  \/ /\ setting = "scarce"
     /\ pc' = to
     /\ UNCHANGED <<proc, hit>>
  \/ /\ pid = None
     /\ hit' = "all"
     /\ pc' = IF setting = "immune" THEN to ELSE "dead"
     /\ UNCHANGED proc
  \/ /\ pid # None /\ proc[pid] = "reaped"
     /\ hit' \in {hit, "another"}
     /\ pc' = to
     /\ UNCHANGED proc
  \/ /\ pid # None /\ proc[pid] # "reaped"
     /\ \/ proc' = [proc EXCEPT ![pid] = "zombie"]
        \/ ~deadly /\ UNCHANGED proc
     /\ pc' = to
     /\ UNCHANGED hit

\* waitpid(_pid) returns: the child has ended, or there is no such child.
Reap ==
  /\ proc[pid] \in {"zombie", "reaped"}
  /\ proc' = [proc EXCEPT ![pid] = "reaped"]

\* A mutated form of Wait: the child is not waited for.
WaitNot(from, init, without) ==
  /\ pc = from
  /\ todo' = Held
  /\ pc' = IF pid = None THEN without ELSE init
  /\ UNCHANGED <<members, end, table, proc, hit>>

\* waitpid(), in reset() and close(), and the way on without a child.
Wait(from, init, without) ==
  /\ pc = from
  /\ \/ /\ pid = None
        /\ pc' = without
        /\ UNCHANGED <<proc, todo>>
     \/ /\ pid # None
        /\ Reap
        /\ todo' = Held
        /\ pc' = init
  /\ UNCHANGED <<members, end, table, hit>>

\* close(n), whoever has the descriptor n by now.
CloseNext ==
  /\ todo # <<>>
  /\ table' = [table EXCEPT ![Head(todo)] = "free"]
  /\ todo' = Tail(todo)
  /\ UNCHANGED <<members, end, proc, pc, hit>>

\* The end of init_process_values.
InitValues(from, to) ==
  /\ todo = <<>> /\ Goto(from, to)
  /\ pid' = None
  /\ readFd' = None /\ writeFd' = None /\ readFp' = None /\ writeFp' = None
  /\ UNCHANGED <<end, table, proc, todo, hit>>

-----------------------------------------------------------------------------
(* run_command, which calls reset() first.                                 *)

Reset ==
  \/ /\ pc = "reset_kill" /\ Signal("reset_wait", TRUE)
     /\ UNCHANGED <<members, end, table, todo>>
  \/ Wait("reset_wait", "reset_init", "pipe_in")
  \/ InitValues("reset_init", "pipe_in")

\* The call gives up, and closes these descriptors, some of them twice, before
\* it returns; the streams it has made remain members.
GiveUp(closing) ==
  /\ pc' = "idle"
  /\ todo' = closing
  /\ end' = NoEnds
  /\ UNCHANGED <<pid, readFd, writeFd, table, proc, hit>>

ClosePipe(r, w) == <<end[r], end[w]>>
ClosePipes == ClosePipe("out_read", "out_write") \o ClosePipe("in_read", "in_write")

\* pipe() gives out the two lowest descriptors, or fails.
Pipe(r, w, to) ==
  \E m, n \in Free :
    /\ Lowest(m) /\ m # n /\ \A k \in Free : k = m \/ n <= k
    /\ end' = [end EXCEPT ![r] = m, ![w] = n]
    /\ table' = [table EXCEPT ![m] = r, ![n] = w]
    /\ pc' = to
    /\ UNCHANGED <<members, proc, todo, hit>>

PipeIn ==
  /\ pc = "pipe_in"
  /\ \/ Pipe("in_read", "in_write", "pipe_out")
     \/ GiveUp(<<>>) /\ UNCHANGED <<readFp, writeFp>>

PipeOut ==
  /\ pc = "pipe_out"
  /\ \/ Pipe("out_read", "out_write", "fdopen_read")
     \/ GiveUp(ClosePipe("in_read", "in_write")) /\ UNCHANGED <<readFp, writeFp>>

FdopenRead ==
  /\ pc = "fdopen_read"
  /\ UNCHANGED writeFp
  /\ \/ /\ readFp' = end["out_read"]
        /\ pc' = "fdopen_write"
        /\ UNCHANGED <<pid, readFd, writeFd, end, table, proc, todo, hit>>
     \/ readFp' = None /\ GiveUp(ClosePipes)

FdopenWrite ==
  /\ pc = "fdopen_write"
  /\ UNCHANGED readFp
  /\ \/ /\ writeFp' = end["in_write"]
        /\ readFd' = end["out_read"] /\ writeFd' = end["in_write"]
        /\ pc' = "fork"
        /\ UNCHANGED <<pid, end, table, proc, todo, hit>>
     \/ writeFp' = None /\ GiveUp(<<readFp>> \o ClosePipes)

\* A mutated form of Fork: the parent keeps the child's end of inpipe.
ForkKeep ==
  /\ pc = "fork"
  /\ \E c \in Children :
       /\ proc[c] = "unborn"
       /\ pid' = c
       /\ proc' = [proc EXCEPT ![c] = "running"]
  /\ todo' = <<end["out_write"]>>
  /\ pc' = "idle" /\ end' = NoEnds
  /\ UNCHANGED <<readFd, writeFd, readFp, writeFp, table, hit>>

\* fork(): the parent closes the ends that the child owns, or everything.
Fork ==
  /\ pc = "fork"
  /\ \/ /\ \E c \in Children :
             /\ proc[c] = "unborn"
             /\ pid' = c
             /\ proc' = [proc EXCEPT ![c] = "running"]
        /\ todo' = <<end["out_write"], end["in_read"]>>
        /\ pc' = "idle" /\ end' = NoEnds
        /\ UNCHANGED <<readFd, writeFd, readFp, writeFp, table, hit>>
     \/ GiveUp(<<writeFp, readFp>> \o ClosePipes) /\ UNCHANGED <<readFp, writeFp>>

-----------------------------------------------------------------------------
(* The methods.                                                            *)

Idle == pc = "idle" /\ todo = <<>>

Begin(label) ==
  /\ Idle
  /\ pc' = label
  /\ UNCHANGED <<members, end, table, proc, todo, hit>>

RunCommand == Begin("reset_kill")

Close == Begin("close_wait")

\* kill() and terminate().
Kill ==
  /\ Idle
  /\ \E deadly \in BOOLEAN : Signal("idle", deadly)
  /\ UNCHANGED <<members, end, table, todo>>

\* isRunning() reaps a child that has ended, and keeps its number.  Without a
\* child it asks for any; this object has none.
IsRunning ==
  /\ Idle /\ pid # None
  /\ Reap
  /\ UNCHANGED <<members, end, table, pc, todo, hit>>

ObjectStep ==
  IF todo # <<>> THEN CloseNext
  ELSE \/ Reset \/ PipeIn \/ PipeOut \/ FdopenRead \/ FdopenWrite \/ Fork
       \/ Wait("close_wait", "close_init", "idle")
       \/ InitValues("close_init", "idle")

Goes == pc # "dead" /\ UNCHANGED setting

Next ==
  /\ Goes
  /\ \/ RunCommand \/ Close \/ Kill \/ IsRunning
     \/ ObjectStep
     \/ OthersOpen \/ OthersClose
     \/ \E c \in Children : ChildEnds(c)

Spec == Init /\ [][Next]_vars

\* The calling thread is scheduled.  No child ever ends by itself for certain.
FairSpec == Spec /\ WF_vars(Goes /\ ObjectStep)

-----------------------------------------------------------------------------
(* Properties.                                                             *)

\* What each open end of a pipe is: the number it has in the table.
OpenEnds == {n \in Fds : table[n] \in Ends}

\* Between two calls the object holds its two ends of the pipes of its child,
\* as descriptors and as streams, and nothing else: whichever step of
\* run_command failed, and whatever others opened meanwhile, no end is leaked
\* or lost (POpen.cpp:91-164 and 275-295).
DescriptorsKept ==
  Idle =>
    IF pid = None THEN OpenEnds = {}
    ELSE /\ OpenEnds = {readFd, writeFd}
         /\ readFp = readFd /\ table[readFd] = "out_read"
         /\ writeFp = writeFd /\ table[writeFd] = "in_write"

\* No child is forgotten before it has been reaped, and there is never more
\* than one (POpen.cpp:180-211).
OneChild ==
  \A c \in Children : proc[c] \in {"running", "zombie"} => pid = c

\* run_command never waits for a child that is alive: between the kill -9 and
\* waitpid() the child has ended, whoever called isRunning() meanwhile or before,
\* and whatever the constructor found in the memory (POpen.cpp:205-211 and 222-246).
AwaitsNoLiving ==
  (setting # "scarce" /\ pc = "reset_wait" /\ pid # None) => proc[pid] # "running"

\* run_command returns, also when the last child would never have ended, since
\* it kills that child before it waits, if system() can (POpen.cpp:207-211).
RunReturns ==
  (setting # "scarce" /\ pc \in Running) ~> (pc \in {"idle", "dead"})

\* Without a child reset() has no effect on anybody (POpen.cpp:200-203).
QuietWithoutChild == hit # "all"
=============================================================================
