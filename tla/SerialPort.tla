----------------------------- MODULE SerialPort -----------------------------
(***************************************************************************)
(* The functions of include/serial.hpp on Linux, applied to one port that  *)
(* could be opened.  Around them are other threads that use the same port, *)
(* signals, the device at the other end of the line, and the kernel, which *)
(* keeps the flags of the port and a queue in each direction.              *)
(*                                                                         *)
(* Each system call is a step.  What configure(), read() and write() use   *)
(* of the port is disjoint, so a behaviour looks at one of them (duty).    *)
(***************************************************************************)
EXTENDS Integers, Sequences

CONSTANTS
  Callers,      \* the threads that use the port
  InputSize,    \* what the kernel's queue of bytes to be read holds
  OutputSize,   \* what its queue of bytes to go out holds
  Length,       \* the length that is passed to read()
  Total,        \* how many bytes each thread has to write
  MaxFailures   \* how often ::read() may fail in one read(), a bound

ASSUME SerialAssumption ==
  /\ InputSize \in Nat \ {0} /\ OutputSize \in Nat \ {0}
  /\ Length \in Nat \ {0} /\ Total \in Nat \ {0}
  /\ MaxFailures \in Nat

Flags == {"CSIZE_low", "CSIZE_high", "CSTOPB", "PARENB", "PARODD", "CRTSCTS",
          "IXON", "IXOFF", "IGNPAR", "PARMRK", "INPCK"}

Settings == [baud_rate : {9600, 9601}, char_size : {4, 7, 8},
             flow_control : {"NONE", "SOFTWARE", "HARDWARE"},
             parity : {"NONE", "ODD", "EVEN"},
             stop_bits : {"ONE", "ONE_POINT_FIVE", "TWO"}]

Default == [baud_rate |-> 9600, char_size |-> 8, flow_control |-> "NONE",
            parity |-> "NONE", stop_bits |-> "ONE"]

VARIABLES
  duty,      \* what the threads call: "configure", "read" or "write"
  timeout,   \* the timeout they pass: -1 is "forever", 0 is "zero"
  quiet,     \* TRUE: calls do not overlap, no signal comes, nobody clears a
             \* queue, and the device stays; these three never change
  gone,      \* the device has been unplugged
  termios,   \* the flags of the port
  tty,       \* configure(): each thread's copy of them
  asked,     \* configure(): the settings that were passed
  pc,        \* where each thread is
  count,     \* read_count, or written_count
  waiting,   \* how many bytes wait to be read
  taken,     \* read(): how many bytes the call has taken
  queue,     \* the bytes that wait to go out, each with the thread that wrote it
  wrote,     \* write(): bytes_written
  base,      \* write(): how many bytes precede those that are passed
  sent,      \* the bytes of each thread that have gone out on the line
  lost,      \* the bytes of each thread that were discarded from the queue, by
             \* clear_output() or because the device was unplugged
  broken     \* "none", or the buffer that was left: "past" its end by read(),
             \* "before" its start by write()

choice == <<duty, timeout, quiet>>
settingVars == <<termios, tty, asked>>
readVars == <<waiting, taken>>
writeVars == <<queue, wrote, base, sent, lost>>
vars == <<choice, gone, settingVars, pc, count, readVars, writeVars, broken>>

TypeOK ==
  /\ duty \in {"configure", "read", "write"}
  /\ timeout \in {"forever", "zero", "finite"}
  /\ quiet \in BOOLEAN /\ gone \in BOOLEAN
  /\ termios \subseteq Flags
  /\ tty \in [Callers -> SUBSET Flags]
  /\ asked \in [Callers -> Settings]
  /\ pc \in [Callers -> {"idle", "apply", "select", "read", "write"}]
  /\ count \in [Callers -> Int]
  /\ waiting \in 0..InputSize
  /\ taken \in [Callers -> Nat]
  /\ queue \in Seq(Callers \X (1..Total)) /\ Len(queue) <= OutputSize
  /\ wrote \in [Callers -> -1..OutputSize]
  /\ base \in [Callers -> 0..Total]
  /\ sent \in [Callers -> SUBSET (1..Total)]
  /\ lost \in [Callers -> SUBSET (1..Total)]
  /\ broken \in {"none", "past", "before"}

Init ==
  /\ duty \in {"configure", "read", "write"}
  /\ timeout \in {"forever", "zero", "finite"}
  /\ quiet \in BOOLEAN
  /\ termios \in {{}, Flags, {"PARENB", "PARODD", "CRTSCTS"}}
  /\ tty = [c \in Callers |-> {}]
  /\ asked = [c \in Callers |-> Default]
  /\ pc = [c \in Callers |-> "idle"]
  /\ waiting = 0 /\ queue = <<>>
  /\ count = [c \in Callers |-> 0] /\ taken = count /\ wrote = count /\ base = count
  /\ sent = [c \in Callers |-> {}] /\ lost = sent
  /\ gone = FALSE /\ broken = "none"
  /\ IF duty = "configure" THEN timeout = "zero" ELSE termios = {}

Goto(c, label) == pc' = [pc EXCEPT ![c] = label]

\* A thread calls a function of its duty, alone if the port is quiet.
Call(c, what) ==
  /\ duty = what /\ pc[c] = "idle"
  /\ quiet => \A d \in Callers : pc[d] = "idle"

-----------------------------------------------------------------------------
(* configure().                                                            *)

\* What cfmakeraw() leaves, and the size of a character in its two bits.
Raw(flags) == (flags \ {"PARMRK", "IXON", "PARENB"})
                \cup {"IGNPAR", "CSIZE_low", "CSIZE_high"}

SizeBits(size) == (IF size \in {6, 8} THEN {"CSIZE_low"} ELSE {})
                    \cup (IF size \in {7, 8} THEN {"CSIZE_high"} ELSE {})

\* A mutated form of FlowControl: XON and XOFF leave RTS and CTS on.
FlowControlBoth == [
  NONE     |-> [off |-> {"IXOFF", "IXON", "CRTSCTS"}, on |-> {}],
  SOFTWARE |-> [off |-> {}, on |-> {"IXOFF", "IXON"}],
  HARDWARE |-> [off |-> {"IXOFF", "IXON"}, on |-> {"CRTSCTS"}]]

\* The flags that each setting takes away and adds.
FlowControl == [
  NONE     |-> [off |-> {"IXOFF", "IXON", "CRTSCTS"}, on |-> {}],
  SOFTWARE |-> [off |-> {"CRTSCTS"}, on |-> {"IXOFF", "IXON"}],
  HARDWARE |-> [off |-> {"IXOFF", "IXON"}, on |-> {"CRTSCTS"}]]

Parity == [
  NONE |-> [off |-> {"PARENB", "PARODD"}, on |-> {"IGNPAR"}],
  EVEN |-> [off |-> {"IGNPAR", "PARMRK", "PARODD"}, on |-> {"INPCK", "PARENB"}],
  ODD  |-> [off |-> {"IGNPAR", "PARMRK"}, on |-> {"INPCK", "PARENB", "PARODD"}]]

StopBits == [ONE |-> [off |-> {"CSTOPB"}, on |-> {}],
             TWO |-> [off |-> {}, on |-> {"CSTOPB"}]]

Switch(flags, change) == (flags \ change.off) \cup change.on

Configured(flags, s) ==
  LET sized == Raw(flags) \cup SizeBits(s.char_size)
      flow  == Switch(sized, FlowControl[s.flow_control])
  IN  Switch(Switch(flow, Parity[s.parity]), StopBits[s.stop_bits])

Valid(s) ==
  /\ s.baud_rate = 9600
  /\ s.char_size \in 5..8
  /\ s.stop_bits # "ONE_POINT_FIVE"

\* The flags are read and a copy of them is changed.
Configure(c) ==
  /\ Call(c, "configure")
  /\ \E s \in Settings :
       /\ Valid(s)
       /\ asked' = [asked EXCEPT ![c] = s]
       /\ tty' = [tty EXCEPT ![c] = Configured(termios, s)]
  /\ Goto(c, "apply")
  /\ UNCHANGED <<gone, termios, count, readVars, writeVars, broken>>

\* Settings that are refused have changed the copy at most.
ConfigureRefuses(c) ==
  /\ Call(c, "configure")
  /\ \E s \in Settings : ~Valid(s)
  /\ UNCHANGED vars

\* The copy replaces the flags, whoever has changed them in between.  Nobody
\* looks at the result of tcsetattr(), which fails if the device is gone.
Apply(c) ==
  /\ pc[c] = "apply"
  /\ termios' = IF gone THEN termios ELSE tty[c]
  /\ tty' = [tty EXCEPT ![c] = {}]
  /\ asked' = [asked EXCEPT ![c] = Default]
  /\ Goto(c, "idle")
  /\ UNCHANGED <<gone, count, readVars, writeVars, broken>>

-----------------------------------------------------------------------------
(* select(), in read() and in write().                                     *)

\* How many bytes ::write() may still put in the queue.
Room == OutputSize - Len(queue)

\* A mutated form of Ready: nobody asks select().
ReadyAlways == TRUE

Ready == gone \/ IF duty = "read" THEN waiting > 0 ELSE Room > 0

\* select() returns when the port is ready, or when a signal interrupts it,
\* which the code does not tell from that.
Selected(c) == pc[c] = "select" /\ (Ready \/ ~quiet)

\* A mutated form of TimedOut: a select() that returns 0 is repeated.
TimedOutAgain(c) == FALSE

\* The time is up.  Of a timeout only the whole seconds count, as its
\* milliseconds are divided by 1000 once too often; all the select() of a call
\* share them.
TimedOut(c) == pc[c] = "select" /\ timeout # "forever" /\ ~Ready

-----------------------------------------------------------------------------
(* read(): every ::read() writes to the start of the buffer.               *)

CallRead(c) ==
  /\ Call(c, "read")
  /\ count' = [count EXCEPT ![c] = 0]
  /\ taken' = [taken EXCEPT ![c] = 0]
  /\ Goto(c, "select")
  /\ UNCHANGED <<gone, settingVars, waiting, writeVars, broken>>

SelectRead(c) ==
  /\ duty = "read"
  /\ (Selected(c) /\ Goto(c, "read")) \/ (TimedOut(c) /\ Goto(c, "idle"))
  /\ UNCHANGED <<gone, settingVars, count, readVars, writeVars, broken>>

\* The result of ::read() is added, also if it is -1 as nothing waits; it is 0
\* if the device is gone.
ReadBytes(c) ==
  /\ pc[c] = "read"
  /\ \E bytes \in -1..Length :
       /\ bytes <= waiting /\ bytes <= Length - count[c]
       /\ bytes = 0 <=> gone
       /\ bytes = -1 => waiting = 0 /\ taken[c] - count[c] < MaxFailures
       /\ count' = [count EXCEPT ![c] = @ + bytes]
       /\ Goto(c, IF count[c] + bytes < Length THEN "select" ELSE "idle")
       /\ IF bytes = -1 THEN UNCHANGED readVars
          ELSE /\ waiting' = waiting - bytes
               /\ taken' = [taken EXCEPT ![c] = @ + bytes]
  /\ UNCHANGED <<gone, settingVars, writeVars, broken>>

\* A count below 0 asks for more than the buffer holds.
ReadPast(c) ==
  /\ pc[c] = "read" /\ waiting > Length /\ count[c] < 0
  /\ broken' = "past"
  /\ UNCHANGED <<gone, settingVars, pc, count, readVars, writeVars>>

-----------------------------------------------------------------------------
(* write() of the bytes that the thread has still to write.                *)

\* A mutated form of Rest: the length is not reduced by what has been written.
RestAll(c) == Total

Rest(c) == Total - base[c]

\* A mutated form of Put: &buf[written_count + 1].
PutNext(c, first, bytes) ==
  queue' = queue \o [i \in 1..bytes |->
                      <<c, IF first + i <= Total THEN first + i ELSE Total>>]

\* The bytes that ::write() accepts.
Put(c, first, bytes) ==
  queue' = queue \o [i \in 1..bytes |-> <<c, first + i - 1>>]

\* A timeout of 0: one ::write(), whose result is not told.
WriteOnce(c) ==
  /\ Call(c, "write") /\ timeout = "zero" /\ ~gone
  /\ \E bytes \in 1..Room : bytes <= Rest(c) /\ Put(c, base[c] + 1, bytes)
  /\ UNCHANGED <<gone, settingVars, pc, count, readVars, wrote, base, sent, lost, broken>>

CallWrite(c) ==
  /\ Call(c, "write") /\ timeout # "zero"
  /\ Rest(c) > 0
  /\ Goto(c, "write")
  /\ UNCHANGED <<gone, settingVars, count, readVars, writeVars, broken>>

WriteBytes(c) ==
  /\ pc[c] = "write" /\ base[c] + count[c] >= 0
  /\ \/ /\ ~gone
        /\ \E bytes \in 1..Room :
             /\ bytes <= Rest(c) - count[c]
             /\ Put(c, base[c] + count[c] + 1, bytes)
             /\ wrote' = [wrote EXCEPT ![c] = bytes]
     \/ /\ gone \/ Room = 0
        /\ wrote' = [wrote EXCEPT ![c] = -1]
        /\ UNCHANGED queue
  /\ Goto(c, "select")
  /\ UNCHANGED <<gone, settingVars, count, readVars, base, sent, lost, broken>>

\* &buf[written_count] with a count below 0: a later call of a thread has the
\* bytes of the earlier ones before its buffer, the first one has nothing.
WriteBefore(c) ==
  /\ pc[c] = "write" /\ base[c] + count[c] < 0
  /\ broken' = "before"
  /\ UNCHANGED <<gone, settingVars, pc, count, readVars, writeVars>>

\* The thread goes on after the bytes that it was told are written.
Return(c, written) ==
  /\ base' = [base EXCEPT ![c] = @ + written]
  /\ count' = [count EXCEPT ![c] = 0]
  /\ Goto(c, "idle")

\* What ::write() returned is added, also -1, but not if the time is up.
SelectWrite(c) ==
  /\ duty = "write"
  /\ LET total == count[c] + wrote[c]
     IN  \/ /\ Selected(c) /\ total < Rest(c)
            /\ count' = [count EXCEPT ![c] = total]
            /\ Goto(c, "write") /\ UNCHANGED base
         \/ Selected(c) /\ total >= Rest(c) /\ Return(c, total)
         \/ TimedOut(c) /\ Return(c, IF count[c] > 0 THEN count[c] ELSE 0)
  /\ wrote' = [wrote EXCEPT ![c] = 0]
  /\ UNCHANGED <<gone, settingVars, readVars, queue, sent, lost, broken>>

-----------------------------------------------------------------------------
\* The device, clear_input() and clear_output().

\* The bytes of a thread that wait to go out.
Queued(c) == {queue[i][2] : i \in {i \in 1..Len(queue) : queue[i][1] = c}}

\* The first byte of the queue goes out.
GoesOut ==
  /\ ~gone /\ queue # <<>>
  /\ LET c == Head(queue)[1]
     IN  sent' = [sent EXCEPT ![c] = @ \cup {Head(queue)[2]}]
  /\ queue' = Tail(queue)
  /\ UNCHANGED lost

\* The queue is emptied, and nothing of it goes out.
Discard ==
  /\ lost' = [c \in Callers |-> lost[c] \cup Queued(c)]
  /\ queue' = <<>>
  /\ UNCHANGED sent

Surroundings ==
  /\ \/ /\ duty = "read" /\ ~gone /\ waiting < InputSize
        /\ waiting' = waiting + 1 /\ UNCHANGED <<gone, queue, sent, lost>>
     \/ GoesOut /\ UNCHANGED <<gone, waiting>>
     \/ ~quiet /\ waiting' = 0 /\ UNCHANGED <<gone, queue, sent, lost>>
     \/ ~quiet /\ Discard /\ UNCHANGED <<gone, waiting>>
     \/ ~quiet /\ gone' = TRUE /\ waiting' = 0 /\ Discard
  /\ UNCHANGED <<settingVars, pc, count, taken, wrote, base, broken>>

CallStep(c) ==
  \/ Configure(c) \/ ConfigureRefuses(c)
  \/ CallRead(c) \/ WriteOnce(c) \/ CallWrite(c)

Within(c) ==
  \/ Apply(c)
  \/ SelectRead(c) \/ ReadBytes(c) \/ ReadPast(c)
  \/ SelectWrite(c) \/ WriteBytes(c) \/ WriteBefore(c)

\* Nothing is defined once a buffer has been left.
Goes == broken = "none" /\ UNCHANGED choice

Next ==
  /\ Goes
  /\ (\E c \in Callers : CallStep(c) \/ Within(c)) \/ Surroundings

Spec == Init /\ [][Next]_vars

\* A thread inside a call goes on, and time passes.
FairSpec == Spec /\ \A c \in Callers : WF_vars(Goes /\ Within(c))

-----------------------------------------------------------------------------
(* Properties.                                                             *)

\* What the flags mean.  Each of them follows from the settings, whatever it was
\* before, but for two things: the size of a character is 8, as cfmakeraw() sets
\* both its bits and nobody takes one away, and without a parity INPCK stays as
\* it was found.
Speaks(flags, s) ==
  /\ {"CSIZE_low", "CSIZE_high"} \subseteq flags
  /\ ("CRTSCTS" \in flags <=> s.flow_control = "HARDWARE")
  /\ ("IXON" \in flags <=> s.flow_control = "SOFTWARE")
  /\ ("IXOFF" \in flags <=> s.flow_control = "SOFTWARE")
  /\ ("PARENB" \in flags <=> s.parity # "NONE")
  /\ ("PARODD" \in flags <=> s.parity = "ODD")
  /\ ("IGNPAR" \in flags <=> s.parity = "NONE")
  /\ "PARMRK" \notin flags
  /\ (s.parity # "NONE" => "INPCK" \in flags)
  /\ ("CSTOPB" \in flags <=> s.stop_bits = "TWO")

\* However the port was set before, and whoever else sets it between
\* tcgetattr() and tcsetattr(), a configure() that changes a flag leaves the
\* flow control, the parity and the stop bits that it was asked for, and
\* characters of 8 bits whatever size that was; only INPCK may be left from an
\* earlier call, under a parity of NONE (serial.hpp:312-438).
ModeAsAsked ==
  [][termios' # termios =>
       \E c \in Callers : pc[c] = "apply" /\ Speaks(termios', asked[c])]_vars

\* On a quiet port the result of read() is the number of bytes that it has
\* taken, over all the chunks in which they came and also when the time is up,
\* and the buffer is not left (serial.hpp:541-570).
ReadExact ==
  quiet /\ duty = "read" =>
    /\ broken = "none"
    /\ \A c \in Callers : count[c] = taken[c] /\ count[c] <= Length

\* Whatever is refused, interrupted or timed out, and however often a thread
\* calls again for the rest: every byte that write() says it has written has
\* gone out, waits in the queue, or was discarded from it by clear_output() or
\* with the device; and on the line no byte comes before one that precedes it,
\* unless that one was discarded (serial.hpp:483-488, 621-651).
NothingSkipped ==
  duty = "write" =>
    \A c \in Callers :
      /\ 1..(base[c] + count[c]) \subseteq sent[c] \cup lost[c] \cup Queued(c)
      /\ \A b \in sent[c] : 1..b \subseteq sent[c] \cup lost[c]

\* A bound on the system calls that a thread's call has still to make.  A
\* ::write() that finds no room moves nothing and takes one byte off the count,
\* which can happen only before the first select().
Left(c) ==
  LET rest == IF duty = "read" THEN Length - count[c]
              ELSE Rest(c) - count[c] - wrote[c]
  IN  CASE pc[c] = "idle"   -> 0
        [] pc[c] = "apply"  -> 1
        [] pc[c] = "select" -> 2 * rest + 1
        [] pc[c] = "read"   -> 2 * rest
        [] pc[c] = "write"  -> 2 * rest + (IF Room = 0 THEN 4 ELSE 0)

\* On a quiet port no call spins: whatever the timeout, every system call of a
\* function brings it nearer to its end, and what the device does never takes
\* it back (serial.hpp:541-651).
NeverSpins ==
  [][quiet => \A c \in Callers :
       pc[c] # "idle" => /\ Left(c)' >= 0 /\ Left(c)' <= Left(c)
                         /\ pc'[c] # pc[c] => Left(c)' < Left(c)]_vars

\* On a quiet port a call with a timeout returns (serial.hpp:541-651).
Returns ==
  \A c \in Callers :
    (quiet /\ timeout # "forever" /\ pc[c] # "idle")
      ~> (pc[c] = "idle" \/ broken # "none")
=============================================================================
