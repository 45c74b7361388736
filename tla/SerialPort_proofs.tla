------------------------- MODULE SerialPort_proofs -------------------------
(***************************************************************************)
(* Proofs about module SerialPort, for any number of threads and bytes.    *)
(***************************************************************************)
EXTENDS SerialPort, SequenceTheorems, TLAPS

\* Each thread is inside a function of the duty.
DutyInv ==
  \A c \in Callers :
    /\ pc[c] = "apply" => duty = "configure"
    /\ pc[c] = "read" => duty = "read"
    /\ pc[c] = "write" => duty = "write"
    /\ pc[c] = "select" => duty \in {"read", "write"}

\* write() counts no byte that it was not given.
RestInv ==
  duty = "write" =>
    \A c \in Callers : /\ base[c] + count[c] <= Total
                       /\ base[c] + count[c] + wrote[c] <= Total
                       /\ pc[c] \in {"idle", "write"} => wrote[c] = 0
                       /\ pc[c] = "idle" => count[c] = 0

TypeInv == TypeOK /\ DutyInv /\ RestInv

LEMMA ConfiguredFlags ==
  ASSUME NEW flags \in SUBSET Flags, NEW s \in Settings, Valid(s)
  PROVE  Configured(flags, s) \in SUBSET Flags /\ Speaks(Configured(flags, s), s)
<1>1. /\ s.flow_control \in {"NONE", "SOFTWARE", "HARDWARE"}
      /\ s.parity \in {"NONE", "ODD", "EVEN"}
      /\ s.stop_bits \in {"ONE", "TWO"}
  BY DEF Settings, Valid
<1> DEFINE sized == Raw(flags) \cup SizeBits(s.char_size)
           flow == Switch(sized, FlowControl[s.flow_control])
           parity == Switch(flow, Parity[s.parity])
<1> DEFINE size == {"CSIZE_low", "CSIZE_high"}
<1>2. sized \in SUBSET Flags /\ size \subseteq sized /\ "PARMRK" \notin sized
  BY DEF Raw, SizeBits, Flags
<1> HIDE DEF sized
<1>3. /\ flow \in SUBSET Flags /\ size \subseteq flow /\ "PARMRK" \notin flow
      /\ "CRTSCTS" \in flow <=> s.flow_control = "HARDWARE"
      /\ "IXON" \in flow <=> s.flow_control = "SOFTWARE"
      /\ "IXOFF" \in flow <=> s.flow_control = "SOFTWARE"
      /\ "IGNPAR" \in flow
  <2> DEFINE change == FlowControl[s.flow_control]
  <2>1. /\ change.off \subseteq Flags \ (size \cup {"IGNPAR"})
        /\ change.on \subseteq Flags \ {"PARMRK"}
        /\ "CRTSCTS" \in change.on <=> s.flow_control = "HARDWARE"
        /\ "CRTSCTS" \notin change.on => "CRTSCTS" \in change.off
        /\ \A f \in {"IXON", "IXOFF"} :
             /\ f \in change.on <=> s.flow_control = "SOFTWARE"
             /\ f \notin change.on => f \in change.off
    BY <1>1 DEF FlowControl, Flags
  <2>2. "IGNPAR" \in sized
    BY DEF sized, Raw
  <2> HIDE DEF change
  <2>3. flow = (sized \ change.off) \cup change.on
    BY DEF Switch, change
  <2> QED
    BY <1>2, <2>1, <2>2, <2>3
<1> HIDE DEF flow
<1>4. /\ parity \in SUBSET Flags /\ size \subseteq parity /\ "PARMRK" \notin parity
      /\ \A f \in {"CRTSCTS", "IXON", "IXOFF"} : f \in parity <=> f \in flow
      /\ "PARENB" \in parity <=> s.parity # "NONE"
      /\ "PARODD" \in parity <=> s.parity = "ODD"
      /\ "IGNPAR" \in parity <=> s.parity = "NONE"
      /\ s.parity # "NONE" => "INPCK" \in parity
  <2> DEFINE change == Parity[s.parity]
  <2>1. /\ change.off \subseteq Flags \ size /\ change.on \subseteq Flags \ {"PARMRK"}
        /\ \A f \in {"CRTSCTS", "IXON", "IXOFF"} : f \notin change.off \cup change.on
        /\ "PARENB" \in change.on <=> s.parity # "NONE"
        /\ "PARENB" \notin change.on => "PARENB" \in change.off
        /\ "PARODD" \in change.on <=> s.parity = "ODD"
        /\ "PARODD" \notin change.on => "PARODD" \in change.off
    BY <1>1 DEF Parity, Flags
  <2>2. /\ "IGNPAR" \in change.on <=> s.parity = "NONE"
        /\ "IGNPAR" \notin change.on => "IGNPAR" \in change.off
        /\ s.parity # "NONE" => "INPCK" \in change.on
    BY <1>1 DEF Parity
  <2> HIDE DEF change
  <2>3. parity = (flow \ change.off) \cup change.on
    BY DEF Switch, change
  <2> QED
    BY <1>3, <2>1, <2>2, <2>3
<1> HIDE DEF parity
<1>5. Configured(flags, s) = Switch(parity, StopBits[s.stop_bits])
  BY DEF Configured, sized, flow, parity
<1> QED
  <2> DEFINE change == StopBits[s.stop_bits]
  <2>1. /\ change.off \subseteq {"CSTOPB"} /\ change.on \subseteq {"CSTOPB"}
        /\ "CSTOPB" \in Flags
        /\ "CSTOPB" \in change.on <=> s.stop_bits = "TWO"
        /\ "CSTOPB" \notin change.on => "CSTOPB" \in change.off
    BY <1>1 DEF StopBits, Flags
  <2> HIDE DEF change
  <2>2. Configured(flags, s) = (parity \ change.off) \cup change.on
    BY <1>5 DEF Switch, change
  <2>3. \A f : f # "CSTOPB" => (f \in Configured(flags, s) <=> f \in parity)
    BY <2>1, <2>2
  <2>4. "CSTOPB" \in Configured(flags, s) <=> s.stop_bits = "TWO"
    BY <2>1, <2>2
  <2>5. Configured(flags, s) \in SUBSET Flags
    BY <1>4, <2>1, <2>2
  <2> QED
    BY <1>3, <1>4, <2>3, <2>4, <2>5 DEF Speaks

-----------------------------------------------------------------------------
\* The queue of the bytes that go out.
QueueOK == queue \in Seq(Callers \X (1..Total)) /\ Len(queue) <= OutputSize

LEMMA RoomBounds ==
  ASSUME QueueOK
  PROVE  Room \in 0..OutputSize
BY SerialAssumption DEF QueueOK, Room

LEMMA PutAppends ==
  ASSUME QueueOK, NEW c \in Callers, NEW first \in Nat \ {0}, NEW bytes \in 1..Room,
         first + bytes - 1 <= Total, Put(c, first, bytes)
  PROVE  /\ QueueOK'
         /\ Len(queue') = Len(queue) + bytes
         /\ \A i \in 1..Len(queue) : queue'[i] = queue[i]
         /\ \A i \in 1..bytes : queue'[Len(queue) + i] = <<c, first + i - 1>>
<1> DEFINE chunk == [i \in 1..bytes |-> <<c, first + i - 1>>]
<1>1. bytes \in Nat /\ bytes <= OutputSize - Len(queue)
  BY SerialAssumption DEF Room, QueueOK
<1>2. chunk \in Seq(Callers \X (1..Total)) /\ Len(chunk) = bytes
  <2>1. \A i \in 1..bytes : <<c, first + i - 1>> \in Callers \X (1..Total)
    BY <1>1, SerialAssumption
  <2>2. chunk \in [1..bytes -> Callers \X (1..Total)]
    BY <2>1
  <2>3. DOMAIN chunk = 1..bytes
    OBVIOUS
  <2> HIDE DEF chunk
  <2>4. chunk \in Seq(Callers \X (1..Total))
    <3> DEFINE S == Callers \X (1..Total)
    <3>1. bytes \in Nat /\ chunk \in [1..bytes -> S]
      BY <1>1, <2>2
    <3> HIDE DEF S
    <3>2. chunk \in UNION {[1..n -> S] : n \in Nat}
      BY <3>1
    <3>3. chunk \in Seq(S)
      BY <3>2, SeqDef
    <3> QED
      BY <3>3 DEF S
  <2>5. 1..Len(chunk) = 1..bytes /\ Len(chunk) \in Nat
    <3> DEFINE S == Callers \X (1..Total)
    <3>1. chunk \in Seq(S)
      BY <2>4
    <3> HIDE DEF S
    <3> QED
      BY <2>3, <3>1, LenProperties
  <2>6. Len(chunk) = bytes
    <3> DEFINE length == Len(chunk)
    <3>1. 1..length = 1..bytes /\ length \in Nat /\ bytes \in Nat
      BY <1>1, <2>5
    <3> HIDE DEF length
    <3>2. \A k \in Nat \ {0} : k <= length <=> k <= bytes
      <4>1. \A k \in Nat \ {0} : (k \in 1..length <=> k <= length) /\ (k \in 1..bytes <=> k <= bytes)
        BY <3>1
      <4> QED
        BY <3>1, <4>1
    <3>3. length = bytes
      BY <3>1, <3>2
    <3> QED
      BY <3>3 DEF length
  <2> QED
    BY <2>4, <2>6, Zenon
<1>3. queue' = queue \o chunk
  BY DEF Put
<1>4. \A i \in 1..bytes : chunk[i] = <<c, first + i - 1>>
  OBVIOUS
<1> HIDE DEF chunk
<1>5. /\ queue' \in Seq(Callers \X (1..Total))
      /\ Len(queue') = Len(queue) + bytes
      /\ \A i \in 1..(Len(queue) + bytes) :
           queue'[i] = IF i <= Len(queue) THEN queue[i] ELSE chunk[i - Len(queue)]
  BY <1>2, <1>3, ConcatProperties DEF QueueOK
<1>6. Len(queue) \in Nat /\ Len(queue') <= OutputSize
  BY <1>1, <1>5, SerialAssumption DEF QueueOK
<1>7. \A i \in 1..Len(queue) : queue'[i] = queue[i]
  BY <1>1, <1>5, <1>6
<1>8. ASSUME NEW i \in 1..bytes PROVE queue'[Len(queue) + i] = <<c, first + i - 1>>
  <2>1. /\ Len(queue) + i \in 1..(Len(queue) + bytes) /\ ~(Len(queue) + i <= Len(queue))
        /\ Len(queue) + i - Len(queue) = i
    BY <1>1, <1>6
  <2>2. queue'[Len(queue) + i] = chunk[Len(queue) + i - Len(queue)]
    <3> DEFINE k == Len(queue) + i
    <3>1. k \in 1..(Len(queue) + bytes) /\ ~(k <= Len(queue))
      BY <2>1
    <3> HIDE DEF k
    <3>2. queue'[k] = chunk[k - Len(queue)]
      BY <1>5, <3>1
    <3> QED
      BY <3>2 DEF k
  <2>3. queue'[Len(queue) + i] = chunk[i]
    BY <2>1, <2>2, Zenon
  <2> QED
    BY <1>4, <2>3, Zenon
<1> QED
  BY <1>5, <1>6, <1>7, <1>8 DEF QueueOK

LEMMA FirstGoes ==
  ASSUME QueueOK, GoesOut
  PROVE  /\ QueueOK' /\ Len(queue) > 0
         /\ Len(queue') = Len(queue) - 1
         /\ \A i \in 1..(Len(queue) - 1) : queue'[i] = queue[i + 1]
         /\ queue[1] \in Callers \X (1..Total)
         /\ sent' = [sent EXCEPT ![queue[1][1]] = @ \cup {queue[1][2]}]
<1>1. queue \in Seq(Callers \X (1..Total)) /\ queue # <<>> /\ queue' = Tail(queue)
  BY DEF QueueOK, GoesOut
<1>2. /\ Head(queue) = queue[1] /\ Head(queue) \in Callers \X (1..Total)
      /\ queue' \in Seq(Callers \X (1..Total))
      /\ Len(queue') = Len(queue) - 1
      /\ \A i \in 1..(Len(queue) - 1) : queue'[i] = queue[i + 1]
  <2>1. Head(queue) = queue[1]
    BY <1>1
  <2> QED
    BY <1>1, <2>1, HeadTailProperties
<1>3. Len(queue) \in Nat \ {0}
  <2> DEFINE S == Callers \X (1..Total)
  <2>1. queue \in Seq(S) /\ queue # <<>>
    BY <1>1
  <2> HIDE DEF S
  <2> QED
    BY <2>1, EmptySeq
<1>4. sent' = [sent EXCEPT ![Head(queue)[1]] = @ \cup {Head(queue)[2]}]
  BY DEF GoesOut
<1>5. sent' = [sent EXCEPT ![queue[1][1]] = @ \cup {queue[1][2]}]
  BY <1>2, <1>4, Zenon
<1>6. QueueOK' /\ Len(queue) > 0
  BY <1>2, <1>3, SerialAssumption DEF QueueOK
<1> QED
  BY <1>2, <1>5, <1>6

LEMMA QueuedBytes ==
  ASSUME QueueOK, NEW c \in Callers
  PROVE  /\ Queued(c) \subseteq 1..Total
         /\ \A n : n \in Queued(c) <=> \E j \in 1..Len(queue) : queue[j] = <<c, n>>
<1>1. \A j \in 1..Len(queue) : queue[j] \in Callers \X (1..Total)
  BY SerialAssumption DEF QueueOK
<1>2. \A j \in 1..Len(queue) :
        queue[j] = <<queue[j][1], queue[j][2]>> /\ queue[j][2] \in 1..Total
  BY <1>1
<1> QED
  BY <1>2 DEF Queued

-----------------------------------------------------------------------------
LEMMA InitTypes == Init => TypeInv
<1> SUFFICES ASSUME Init PROVE TypeInv
  OBVIOUS
<1>1. /\ count = [c \in Callers |-> 0] /\ taken = [c \in Callers |-> 0]
      /\ wrote = [c \in Callers |-> 0] /\ base = [c \in Callers |-> 0]
  BY DEF Init
<1>2. Default \in Settings
  BY DEF Default, Settings
<1>3. termios \in SUBSET Flags /\ {} \in SUBSET Flags
  BY DEF Init, Flags
<1>4. /\ {InputSize, OutputSize, Total} \subseteq Nat
      /\ queue \in Seq(Callers \X (1..Total)) /\ Len(queue) = 0
  BY SerialAssumption DEF Init
<1>5. quiet \in BOOLEAN /\ gone \in BOOLEAN
  BY DEF Init
<1>6. /\ tty \in [Callers -> SUBSET Flags] /\ asked \in [Callers -> Settings]
      /\ sent \in [Callers -> SUBSET (1..Total)]
      /\ lost \in [Callers -> SUBSET (1..Total)]
  BY <1>2, <1>3 DEF Init
<1>7. /\ duty \in {"configure", "read", "write"} /\ broken = "none"
      /\ timeout \in {"forever", "zero", "finite"}
      /\ pc = [c \in Callers |-> "idle"] /\ waiting = 0
  BY DEF Init
<1> QED
  BY <1>1, <1>3, <1>4, <1>5, <1>6, <1>7 DEF TypeInv, TypeOK, DutyInv, RestInv

LEMMA TypesKept ==
  ASSUME TypeInv, [Next]_vars
  PROVE  TypeInv'
<1> USE SerialAssumption
    DEF TypeInv, TypeOK, DutyInv, RestInv, Goto, settingVars, readVars, writeVars
<1>1. CASE UNCHANGED vars
  BY <1>1 DEF vars, choice
<1> SUFFICES ASSUME Next PROVE TypeInv'
  BY <1>1
<1>0. UNCHANGED <<duty, timeout, quiet>>
  BY DEF Next, Goes, choice
<1> USE <1>0
<1>2. ASSUME NEW c \in Callers, Configure(c) PROVE TypeInv'
  <2>1. PICK s \in Settings : /\ Valid(s)
                              /\ asked' = [asked EXCEPT ![c] = s]
                              /\ tty' = [tty EXCEPT ![c] = Configured(termios, s)]
    BY <1>2 DEF Configure
  <2>2. Configured(termios, s) \in SUBSET Flags
    BY <2>1, ConfiguredFlags
  <2> QED
    BY <1>2, <2>1, <2>2 DEF Configure, Call
<1>3. ASSUME NEW c \in Callers, ConfigureRefuses(c) PROVE TypeInv'
  BY <1>3 DEF ConfigureRefuses, vars
<1>4. ASSUME NEW c \in Callers, Apply(c) PROVE TypeInv'
  <2>1. Default \in Settings
    BY DEF Default, Settings
  <2> QED
    BY <1>4, <2>1 DEF Apply
<1>5. ASSUME NEW c \in Callers, CallRead(c) PROVE TypeInv'
  BY <1>5 DEF CallRead, Call
<1>6. ASSUME NEW c \in Callers, SelectRead(c) PROVE TypeInv'
  BY <1>6 DEF SelectRead, Selected, TimedOut
<1>7. ASSUME NEW c \in Callers, ReadBytes(c) PROVE TypeInv'
  <2>1. PICK bytes \in -1..Length :
          /\ bytes <= waiting
          /\ count' = [count EXCEPT ![c] = @ + bytes]
          /\ Goto(c, IF count[c] + bytes < Length THEN "select" ELSE "idle")
          /\ IF bytes = -1 THEN UNCHANGED readVars
             ELSE /\ waiting' = waiting - bytes
                  /\ taken' = [taken EXCEPT ![c] = @ + bytes]
    BY <1>7 DEF ReadBytes
  <2>2. pc[c] = "read" /\ duty = "read"
    BY <1>7 DEF ReadBytes
  <2>3. waiting' \in 0..InputSize /\ taken' \in [Callers -> Nat]
    <3>1. bytes = -1 \/ bytes \in Nat
      OBVIOUS
    <3>2. CASE bytes = -1
      BY <2>1, <3>2
    <3>3. CASE bytes \in Nat
      <4>1. waiting' = waiting - bytes /\ taken' = [taken EXCEPT ![c] = @ + bytes]
        BY <2>1, <3>3
      <4>2. waiting \in 0..InputSize /\ taken \in [Callers -> Nat] /\ bytes <= waiting
        BY <2>1
      <4> HIDE DEF TypeInv, TypeOK, DutyInv, RestInv
      <4> QED
        BY <3>3, <4>1, <4>2
    <3> QED
      BY <3>1, <3>2, <3>3
  <2>4. count' \in [Callers -> Int]
    BY <2>1
  <2> QED
    BY <1>7, <2>1, <2>2, <2>3, <2>4 DEF ReadBytes
<1>8. ASSUME NEW c \in Callers, ReadPast(c) PROVE TypeInv'
  BY <1>8 DEF ReadPast
<1>9. ASSUME NEW c \in Callers, WriteOnce(c) PROVE TypeInv'
  <2>1. PICK bytes \in 1..Room : bytes <= Rest(c) /\ Put(c, base[c] + 1, bytes)
    BY <1>9 DEF WriteOnce
  <2>2. QueueOK /\ base[c] + 1 \in Nat \ {0} /\ base[c] + 1 + bytes - 1 <= Total
    BY <2>1, RoomBounds DEF Rest, QueueOK
  <2>3. QueueOK'
    BY <2>1, <2>2, PutAppends
  <2> QED
    BY <1>9, <2>3 DEF WriteOnce, QueueOK
<1>10. ASSUME NEW c \in Callers, CallWrite(c) PROVE TypeInv'
  BY <1>10 DEF CallWrite, Call
<1>11. ASSUME NEW c \in Callers, WriteBytes(c) PROVE TypeInv'
  <2>0. /\ pc' = [pc EXCEPT ![c] = "select"] /\ pc[c] = "write"
        /\ UNCHANGED <<gone, settingVars, count, readVars, base, sent, lost, broken>>
        /\ base[c] + count[c] >= 0
    BY <1>11 DEF WriteBytes
  <2>1. CASE /\ wrote' = [wrote EXCEPT ![c] = -1]
             /\ UNCHANGED queue
    BY <2>0, <2>1
  <2>2. ASSUME NEW bytes \in 1..Room, bytes <= Rest(c) - count[c],
               Put(c, base[c] + count[c] + 1, bytes),
               wrote' = [wrote EXCEPT ![c] = bytes]
        PROVE  TypeInv'
    <3>1. /\ QueueOK /\ base[c] + count[c] + 1 \in Nat \ {0}
          /\ base[c] + count[c] + 1 + bytes - 1 <= Total
          /\ bytes \in 0..OutputSize
      BY <2>0, <2>2, RoomBounds DEF Rest, QueueOK
    <3>2. QueueOK'
      BY <2>2, <3>1, PutAppends
    <3>3. wrote' \in [Callers -> -1..OutputSize]
      BY <2>2, <3>1
    <3>4. base[c] + count[c] + bytes <= Total /\ duty = "write"
      BY <2>0, <3>1
    <3> QED
      BY <2>0, <2>2, <3>2, <3>3, <3>4 DEF QueueOK
  <2> QED
    BY <1>11, <2>1, <2>2 DEF WriteBytes
<1>12. ASSUME NEW c \in Callers, WriteBefore(c) PROVE TypeInv'
  BY <1>12 DEF WriteBefore
<1>13. ASSUME NEW c \in Callers, SelectWrite(c) PROVE TypeInv'
  <2>0. /\ duty = "write" /\ wrote' = [wrote EXCEPT ![c] = 0]
        /\ UNCHANGED <<gone, settingVars, readVars, queue, sent, lost, broken>>
        /\ pc[c] = "select"
    BY <1>13 DEF SelectWrite, Selected, TimedOut
  <2>1. CASE /\ count' = [count EXCEPT ![c] = count[c] + wrote[c]]
             /\ Goto(c, "write") /\ UNCHANGED base
    BY <2>0, <2>1
  <2>2. ASSUME NEW written \in Int, Return(c, written),
               0 <= written, written <= Total - base[c]
        PROVE  TypeInv'
    <3>1. /\ base' = [base EXCEPT ![c] = @ + written]
          /\ count' = [count EXCEPT ![c] = 0]
          /\ pc' = [pc EXCEPT ![c] = "idle"]
      BY <2>2 DEF Return
    <3>2. base' \in [Callers -> 0..Total]
      <4>1. base \in [Callers -> 0..Total] /\ base[c] + written \in 0..Total
        BY <2>2
      <4> HIDE DEF TypeInv, TypeOK, DutyInv, RestInv
      <4> QED
        BY <3>1, <4>1
    <3>3. TypeOK'
      BY <2>0, <3>1, <3>2
    <3>4. DutyInv'
      BY <2>0, <3>1
    <3>5. RestInv'
      <4>1. /\ base'[c] <= Total /\ base'[c] \in Int
            /\ count'[c] = 0 /\ wrote'[c] = 0
        BY <2>0, <3>1, <3>2
      <4>2. \A d \in Callers \ {c} : /\ base'[d] = base[d] /\ count'[d] = count[d]
                                   /\ wrote'[d] = wrote[d] /\ pc'[d] = pc[d]
        BY <2>0, <3>1
      <4>3. base'[c] + count'[c] <= Total /\ base'[c] + count'[c] + wrote'[c] <= Total
        BY <4>1
      <4> QED
        BY <4>1, <4>2, <4>3
    <3> QED
      BY <3>3, <3>4, <3>5
  <2>3. count[c] \in Int /\ wrote[c] \in Int /\ base[c] \in Int /\ Total \in Nat
    OBVIOUS
  <2>4. CASE Return(c, count[c] + wrote[c]) /\ count[c] + wrote[c] >= Rest(c)
    <3>1. /\ count[c] + wrote[c] \in Int /\ 0 <= count[c] + wrote[c]
          /\ count[c] + wrote[c] <= Total - base[c]
      BY <2>0, <2>3, <2>4 DEF Rest
    <3> QED
      BY <2>2, <2>4, <3>1
  <2>5. CASE Return(c, IF count[c] > 0 THEN count[c] ELSE 0)
    <3> DEFINE told == IF count[c] > 0 THEN count[c] ELSE 0
    <3>1. told \in Int /\ 0 <= told /\ told <= Total - base[c]
      BY <2>0, <2>3
    <3> HIDE DEF told
    <3>2. Return(c, told)
      BY <2>5 DEF told
    <3> QED
      BY <2>2, <3>1, <3>2
  <2> QED
    BY <1>13, <2>1, <2>4, <2>5 DEF SelectWrite
<1>14. CASE Surroundings
  <2>1. UNCHANGED <<settingVars, pc, count, taken, wrote, base, broken>>
    BY <1>14 DEF Surroundings
  <2>2. gone' = gone \/ gone' = TRUE
    BY <1>14 DEF Surroundings
  <2>3. waiting' \in 0..InputSize
    BY <1>14 DEF Surroundings
  <2>4. /\ QueueOK'
        /\ sent' \in [Callers -> SUBSET (1..Total)]
        /\ lost' \in [Callers -> SUBSET (1..Total)]
    <3>0. QueueOK
      BY DEF QueueOK
    <3>1. CASE GoesOut
      <4>1. /\ QueueOK' /\ queue[1] \in Callers \X (1..Total)
            /\ sent' = [sent EXCEPT ![queue[1][1]] = @ \cup {queue[1][2]}]
        BY <3>0, <3>1, FirstGoes
      <4> QED
        BY <3>1, <4>1 DEF GoesOut
    <3>2. CASE Discard
      <4>1. \A c \in Callers : Queued(c) \subseteq 1..Total
        BY <3>0, QueuedBytes
      <4>2. lost' = [c \in Callers |-> lost[c] \cup Queued(c)] /\ sent' = sent
        BY <3>2 DEF Discard
      <4>3. queue' \in Seq(Callers \X (1..Total)) /\ Len(queue') = 0
        BY <3>2 DEF Discard
      <4> QED
        BY <4>1, <4>2, <4>3 DEF QueueOK
    <3>3. CASE UNCHANGED <<queue, sent, lost>>
      BY <3>0, <3>3 DEF QueueOK
    <3> QED
      BY <1>14, <3>1, <3>2, <3>3 DEF Surroundings
  <2> QED
    BY <2>1, <2>2, <2>3, <2>4 DEF QueueOK
<1> QED
  BY <1>2, <1>3, <1>4, <1>5, <1>6, <1>7, <1>8, <1>9, <1>10, <1>11, <1>12, <1>13,
     <1>14 DEF Next, CallStep, Within

(* Every variable keeps its type: no call is told of more bytes than there   *)
(* are (serial.hpp:541-651).                                                 *)
THEOREM SerialTypeCorrect == Spec => []TypeOK
<1>1. TypeInv => TypeOK
  BY DEF TypeInv
<1> QED
  BY <1>1, InitTypes, TypesKept, PTL DEF Spec

-----------------------------------------------------------------------------
\* The copy of the flags says what was asked for.
CopyInv == \A c \in Callers : pc[c] = "apply" => Speaks(tty[c], asked[c])

LEMMA CopyKept ==
  ASSUME TypeInv, CopyInv, [Next]_vars
  PROVE  CopyInv'
<1> USE DEF CopyInv, TypeInv, TypeOK, Goto, settingVars, readVars, writeVars
<1>1. CASE UNCHANGED vars
  BY <1>1 DEF vars
<1>2. ASSUME NEW c \in Callers, Configure(c) PROVE CopyInv'
  <2>1. PICK s \in Settings : /\ Valid(s)
                              /\ asked' = [asked EXCEPT ![c] = s]
                              /\ tty' = [tty EXCEPT ![c] = Configured(termios, s)]
    BY <1>2 DEF Configure
  <2>2. Speaks(Configured(termios, s), s)
    BY <2>1, ConfiguredFlags
  <2>3. Speaks(tty'[c], asked'[c])
    BY <2>1, <2>2
  <2>4. \A d \in Callers \ {c} : pc'[d] = pc[d] /\ tty'[d] = tty[d] /\ asked'[d] = asked[d]
    BY <1>2, <2>1 DEF Configure
  <2>5. ASSUME NEW d \in Callers, pc'[d] = "apply" PROVE Speaks(tty'[d], asked'[d])
    BY <2>3, <2>4, <2>5
  <2> QED
    BY <2>5 DEF Speaks
<1>3. ASSUME NEW c \in Callers, Apply(c) PROVE CopyInv'
  <2>1. /\ pc'[c] = "idle"
        /\ \A d \in Callers \ {c} : pc'[d] = pc[d] /\ tty'[d] = tty[d] /\ asked'[d] = asked[d]
    BY <1>3 DEF Apply
  <2>2. ASSUME NEW d \in Callers, pc'[d] = "apply" PROVE Speaks(tty'[d], asked'[d])
    BY <2>1, <2>2
  <2> QED
    BY <2>2 DEF Speaks
<1>4. ASSUME NEW c \in Callers, UNCHANGED <<tty, asked>>,
             pc'[c] # "apply", \A d \in Callers \ {c} : pc'[d] = pc[d]
      PROVE  CopyInv'
  BY <1>4 DEF Speaks
<1>5. ASSUME NEW c \in Callers,
             CallRead(c) \/ CallWrite(c) \/ SelectRead(c) \/ SelectWrite(c)
               \/ ReadBytes(c) \/ WriteBytes(c)
      PROVE  CopyInv'
  <2>1. CASE CallRead(c)
    BY <1>4, <2>1 DEF CallRead
  <2>2. CASE CallWrite(c)
    BY <1>4, <2>2 DEF CallWrite
  <2>3. CASE SelectRead(c)
    BY <1>4, <2>3 DEF SelectRead
  <2>4. CASE SelectWrite(c)
    BY <1>4, <2>4 DEF SelectWrite, Return
  <2>5. CASE ReadBytes(c)
    BY <1>4, <2>5 DEF ReadBytes
  <2>6. CASE WriteBytes(c)
    BY <1>4, <2>6 DEF WriteBytes
  <2> QED
    BY <1>5, <2>1, <2>2, <2>3, <2>4, <2>5, <2>6
<1>6. ASSUME NEW c \in Callers,
             WriteOnce(c) \/ ReadPast(c) \/ WriteBefore(c) \/ ConfigureRefuses(c)
      PROVE  CopyInv'
  BY <1>6 DEF WriteOnce, ReadPast, WriteBefore, ConfigureRefuses, vars
<1>7. CASE Surroundings
  BY <1>7 DEF Surroundings
<1> QED
  BY <1>1, <1>2, <1>3, <1>5, <1>6, <1>7 DEF Next, CallStep, Within

(* However the port was set before, and whoever else sets it meanwhile,      *)
(* configure() leaves what it was asked for (serial.hpp:312-438).            *)
THEOREM ConfigureObeyed == Spec => ModeAsAsked
<1> DEFINE Step == termios' # termios =>
                     \E c \in Callers : pc[c] = "apply" /\ Speaks(termios', asked[c])
<1>1. Init => CopyInv
  BY DEF Init, CopyInv
<1>2. TypeInv /\ CopyInv /\ [Next]_vars => [Step]_vars
  <2> SUFFICES ASSUME TypeInv, CopyInv, Next, termios' # termios PROVE Step
    OBVIOUS
  <2>1. PICK c \in Callers : CallStep(c) \/ Within(c) \/ Surroundings
    BY DEF Next, Surroundings, settingVars
  <2>2. Apply(c)
    BY <2>1 DEF CallStep, Within, Configure, ConfigureRefuses, vars, CallRead,
      CallWrite, WriteOnce, SelectRead, SelectWrite, ReadBytes, WriteBytes,
      ReadPast, WriteBefore, Surroundings, settingVars
  <2>3. termios' = tty[c] /\ pc[c] = "apply" /\ Speaks(tty[c], asked[c])
    BY <2>2 DEF Apply, CopyInv
  <2> QED
    BY <2>3
<1> QED
  BY <1>1, <1>2, InitTypes, TypesKept, CopyKept, PTL DEF Spec, ModeAsAsked

-----------------------------------------------------------------------------
\* A byte has gone out, is lost, or waits before place i of the queue.
Ahead(i, c, n) ==
  \/ n \in sent[c] \cup lost[c]
  \/ \E j \in 1..(i - 1) : queue[j] = <<c, n>>

\* The same after a step.
AheadNext(i, c, n) ==
  \/ n \in sent'[c] \cup lost'[c]
  \/ \E j \in 1..(i - 1) : queue'[j] = <<c, n>>

\* What a thread was told is written, or its last ::write() has accepted.
Accepted(c, n) ==
  \/ n <= base[c]
  \/ n <= base[c] + count[c]
  \/ n <= base[c] + count[c] + wrote[c]

SentInv ==
  duty = "write" =>
    /\ \A c \in Callers : \A n \in 1..Total :
         Accepted(c, n) => Ahead(Len(queue) + 1, c, n)
    /\ \A i \in 1..Len(queue) : \A n \in 1..Total :
         n < queue[i][2] => Ahead(i, queue[i][1], n)
    /\ \A c \in Callers : \A b \in sent[c] : 1..b \subseteq sent[c] \cup lost[c]

\* A ::write() of bytes that follow those that are ahead.
LEMMA PutKeeps ==
  ASSUME TypeInv, SentInv, duty = "write", duty' = "write", UNCHANGED <<sent, lost>>,
         NEW c \in Callers, NEW first \in Nat \ {0}, NEW bytes \in 1..Room,
         first + bytes - 1 <= Total, Put(c, first, bytes),
         \A n \in 1..Total : n < first => Ahead(Len(queue) + 1, c, n),
         \A d \in Callers : \A n \in 1..Total :
           Accepted(d, n)' => Accepted(d, n) \/ (d = c /\ n <= first + bytes - 1)
  PROVE  SentInv'
<1> USE SerialAssumption
<1>0. QueueOK /\ bytes \in Nat /\ bytes > 0 /\ Len(queue) \in Nat
  BY RoomBounds DEF TypeInv, TypeOK, QueueOK
<1>1. /\ Len(queue') = Len(queue) + bytes
      /\ \A i \in 1..Len(queue) : queue'[i] = queue[i]
      /\ \A i \in 1..bytes : queue'[Len(queue) + i] = <<c, first + i - 1>>
  BY <1>0, PutAppends
<1>2. \A i \in 1..(Len(queue) + 1) : \A d, n : Ahead(i, d, n) => AheadNext(i, d, n)
  BY <1>0, <1>1 DEF Ahead, AheadNext
<1>3. \A i \in 1..(Len(queue) + bytes + 1) : \A d, n :
        Ahead(Len(queue) + 1, d, n) /\ i > Len(queue) => AheadNext(i, d, n)
  BY <1>0, <1>1 DEF Ahead, AheadNext
<1>4. ASSUME NEW i \in 1..(bytes + 1), NEW n \in 1..Total, n < first + i - 1
      PROVE  AheadNext(Len(queue) + i, c, n)
  <2>1. CASE n < first
    <3>1. Len(queue) + i \in 1..(Len(queue) + bytes + 1) /\ Len(queue) + i > Len(queue)
      BY <1>0
    <3> QED
      BY <1>3, <2>1, <3>1
  <2>2. CASE n >= first
    <3> DEFINE k == n - first + 1
    <3>1. k \in 1..bytes /\ first + k - 1 = n /\ k < i
      BY <1>0, <1>4, <2>2
    <3>2. queue'[Len(queue) + k] = <<c, n>>
      BY <1>1, <3>1
    <3>3. Len(queue) + k \in 1..(Len(queue) + i - 1)
      BY <1>0, <3>1
    <3> QED
      BY <3>2, <3>3 DEF Ahead, AheadNext
  <2> QED
    BY <1>0, <2>1, <2>2
<1>5. ASSUME NEW d \in Callers, NEW n \in 1..Total, Accepted(d, n)'
      PROVE  AheadNext(Len(queue') + 1, d, n)
  <2>1. CASE Accepted(d, n)
    <3>1. Ahead(Len(queue) + 1, d, n)
      BY <2>1 DEF SentInv
    <3>2. /\ Len(queue') + 1 \in 1..(Len(queue) + bytes + 1)
          /\ Len(queue') + 1 > Len(queue)
      BY <1>0, <1>1
    <3> QED
      BY <1>3, <3>1, <3>2
  <2>2. CASE d = c /\ n <= first + bytes - 1
    <3>1. bytes + 1 \in 1..(bytes + 1) /\ n < first + (bytes + 1) - 1
      BY <1>0, <2>2
    <3>2. AheadNext(Len(queue) + (bytes + 1), c, n)
      BY <1>4, <3>1
    <3>3. Len(queue') + 1 = Len(queue) + (bytes + 1)
      BY <1>0, <1>1
    <3> QED
      BY <2>2, <3>2, <3>3 DEF Ahead, AheadNext
  <2> QED
    BY <1>5, <2>1, <2>2
<1>6. ASSUME NEW i \in 1..Len(queue'), NEW n \in 1..Total, n < queue'[i][2]
      PROVE  AheadNext(i, queue'[i][1], n)
  <2>1. CASE i <= Len(queue)
    <3>1. queue'[i] = queue[i] /\ i \in 1..Len(queue)
      BY <1>0, <1>1, <2>1
    <3>2. Ahead(i, queue[i][1], n)
      BY <1>6, <3>1 DEF SentInv
    <3> QED
      BY <1>0, <1>2, <3>1, <3>2
  <2>2. CASE i > Len(queue)
    <3> DEFINE k == i - Len(queue)
    <3>1. k \in 1..bytes /\ k \in 1..(bytes + 1) /\ Len(queue) + k = i
      BY <1>0, <1>1, <2>2
    <3>2. queue'[i] = <<c, first + k - 1>>
      BY <1>1, <3>1
    <3>3. queue'[i][1] = c /\ n < first + k - 1
      BY <1>6, <3>2
    <3>4. AheadNext(Len(queue) + k, c, n)
      BY <1>4, <3>1, <3>3
    <3> QED
      BY <3>1, <3>3, <3>4
  <2> QED
    BY <1>0, <2>1, <2>2
<1>7. \A d \in Callers : \A b \in sent'[d] : 1..b \subseteq sent'[d] \cup lost'[d]
  BY DEF SentInv
<1> QED
  BY <1>5, <1>6, <1>7 DEF SentInv, Ahead, AheadNext

\* The first byte goes out, or the queue is emptied.
LEMMA OutKeeps ==
  ASSUME TypeInv, SentInv, duty = "write", duty' = "write", GoesOut \/ Discard,
         UNCHANGED <<base, count, wrote>>
  PROVE  SentInv'
<1> USE SerialAssumption
<1>0. QueueOK /\ Len(queue) \in Nat
  BY DEF TypeInv, TypeOK, QueueOK
<1>1. \A c \in Callers : \A n : Accepted(c, n)' <=> Accepted(c, n)
  BY DEF Accepted
<1>2. CASE GoesOut
  <2> DEFINE first == queue[1]
  <2>1. /\ Len(queue) > 0 /\ Len(queue') = Len(queue) - 1
        /\ \A i \in 1..(Len(queue) - 1) : queue'[i] = queue[i + 1]
        /\ first \in Callers \X (1..Total)
        /\ sent' = [sent EXCEPT ![first[1]] = @ \cup {first[2]}]
        /\ lost' = lost
    BY <1>0, <1>2, FirstGoes DEF GoesOut
  <2>2. /\ \A c \in Callers : sent[c] \subseteq sent'[c]
        /\ first[2] \in sent'[first[1]]
        /\ \A c \in Callers : \A b \in sent'[c] : b \in sent[c] \/ first = <<c, b>>
    <3>1. first[1] \in Callers /\ first = <<first[1], first[2]>>
      BY <2>1
    <3>2. sent \in [Callers -> SUBSET (1..Total)]
      BY DEF TypeInv, TypeOK
    <3> HIDE DEF first
    <3>3. /\ sent'[first[1]] = sent[first[1]] \cup {first[2]}
          /\ \A c \in Callers \ {first[1]} : sent'[c] = sent[c]
      BY <2>1, <3>1, <3>2
    <3> QED
      BY <3>1, <3>3
  <2> HIDE DEF first
  <2>3. ASSUME NEW i \in 1..Len(queue), NEW c \in Callers, NEW n \in 1..Total,
               Ahead(i + 1, c, n)
        PROVE  AheadNext(i, c, n)
    <3>1. CASE n \in sent[c] \cup lost[c]
      BY <2>1, <2>2, <3>1 DEF Ahead, AheadNext
    <3>2. ASSUME NEW j \in 1..i, queue[j] = <<c, n>>
          PROVE  AheadNext(i, c, n)
      <4>1. CASE j = 1
        BY <2>2, <3>2, <4>1 DEF Ahead, AheadNext, first
      <4>2. CASE j # 1
        <5>1. /\ j - 1 \in 1..(i - 1) /\ j - 1 \in 1..(Len(queue) - 1)
              /\ (j - 1) + 1 = j
          BY <1>0, <4>2
        <5>2. queue'[j - 1] = <<c, n>>
          BY <2>1, <3>2, <5>1
        <5> QED
          BY <5>1, <5>2 DEF Ahead, AheadNext
      <4> QED
        BY <4>1, <4>2
    <3>3. (i + 1) - 1 = i
      OBVIOUS
    <3> QED
      BY <2>3, <3>1, <3>2, <3>3 DEF Ahead, AheadNext
  <2>4. ASSUME NEW c \in Callers, NEW n \in 1..Total, Accepted(c, n)'
        PROVE  AheadNext(Len(queue') + 1, c, n)
    <3>1. Ahead(Len(queue) + 1, c, n)
      BY <1>1, <2>4 DEF SentInv
    <3>2. AheadNext(Len(queue), c, n) /\ Len(queue') + 1 = Len(queue)
      BY <1>0, <2>1, <2>3, <3>1
    <3> QED
      BY <3>2 DEF Ahead, AheadNext
  <2>5. ASSUME NEW i \in 1..Len(queue'), NEW n \in 1..Total, n < queue'[i][2]
        PROVE  AheadNext(i, queue'[i][1], n)
    <3>1. /\ i \in 1..Len(queue) /\ i + 1 \in 1..Len(queue)
          /\ queue'[i] = queue[i + 1]
      BY <1>0, <2>1
    <3>2. queue[i + 1][1] \in Callers
      BY <1>0, <3>1 DEF QueueOK
    <3>3. Ahead(i + 1, queue[i + 1][1], n)
      BY <2>5, <3>1 DEF SentInv
    <3> QED
      BY <2>3, <3>1, <3>2, <3>3
  <2>6. ASSUME NEW c \in Callers, NEW b \in sent'[c]
        PROVE  1..b \subseteq sent'[c] \cup lost'[c]
    <3>1. CASE b \in sent[c]
      BY <2>1, <2>2, <3>1 DEF SentInv
    <3>2. CASE first = <<c, b>>
      <4>1. b \in 1..Total /\ 1 \in 1..Len(queue) /\ queue[1][1] = c /\ queue[1][2] = b
        BY <1>0, <2>1, <3>2 DEF first
      <4>2. \A n \in 1..(b - 1) : n \in 1..Total /\ n < queue[1][2]
        BY <4>1
      <4>3. \A n \in 1..(b - 1) : Ahead(1, c, n)
        BY <4>1, <4>2 DEF SentInv
      <4>4. \A n \in 1..(b - 1) : n \in sent[c] \cup lost[c]
        BY <4>3 DEF Ahead, AheadNext
      <4>5. \A n \in 1..b : n = b \/ n \in 1..(b - 1)
        BY <4>1
      <4> QED
        BY <2>1, <2>2, <4>4, <4>5
    <3> QED
      BY <2>2, <3>1, <3>2
  <2> QED
    BY <2>4, <2>5, <2>6 DEF SentInv, Ahead, AheadNext
<1>3. CASE Discard
  <2>1. /\ sent' = sent /\ queue' = <<>>
        /\ \A c \in Callers : lost'[c] = lost[c] \cup Queued(c)
    BY <1>3 DEF Discard
  <2>2. ASSUME NEW c \in Callers, NEW n \in 1..Total, Accepted(c, n)'
        PROVE  AheadNext(Len(queue') + 1, c, n)
    <3>1. Ahead(Len(queue) + 1, c, n)
      BY <1>1, <2>2 DEF SentInv
    <3>2. n \in sent[c] \cup lost[c] \cup Queued(c)
      <4>1. (Len(queue) + 1) - 1 = Len(queue)
        BY <1>0
      <4> QED
        BY <1>0, <3>1, <4>1, QueuedBytes DEF Ahead, AheadNext
    <3> QED
      BY <2>1, <3>2 DEF Ahead, AheadNext
  <2>3. 1..Len(queue') = {}
    BY <2>1
  <2>4. \A c \in Callers : \A b \in sent'[c] : 1..b \subseteq sent'[c] \cup lost'[c]
    BY <2>1 DEF SentInv
  <2> QED
    BY <2>2, <2>3, <2>4 DEF SentInv, Ahead, AheadNext
<1> QED
  BY <1>2, <1>3

LEMMA SentKept ==
  ASSUME TypeInv, SentInv, [Next]_vars
  PROVE  SentInv'
<1> SUFFICES ASSUME duty = "write", duty' = "write" PROVE SentInv'
  BY DEF SentInv, Next, Goes, choice, vars
<1> USE SerialAssumption
<1>1. ASSUME UNCHANGED <<queue, sent, lost>>,
             \A d \in Callers : \A n \in 1..Total : Accepted(d, n)' => Accepted(d, n)
      PROVE  SentInv'
  <2>1. \A i, c, n : Ahead(i, c, n) => AheadNext(i, c, n)
    BY <1>1 DEF Ahead, AheadNext
  <2>2. \A c \in Callers : \A n \in 1..Total :
          Accepted(c, n)' => AheadNext(Len(queue') + 1, c, n)
    BY <1>1, <2>1 DEF SentInv
  <2>3. \A i \in 1..Len(queue') : \A n \in 1..Total :
          n < queue'[i][2] => AheadNext(i, queue'[i][1], n)
    BY <1>1, <2>1 DEF SentInv
  <2>4. \A c \in Callers : \A b \in sent'[c] : 1..b \subseteq sent'[c] \cup lost'[c]
    BY <1>1 DEF SentInv
  <2> QED
    BY <2>2, <2>3, <2>4 DEF SentInv, Ahead, AheadNext
<1>2. ASSUME UNCHANGED <<queue, sent, lost, base, count, wrote>> PROVE SentInv'
  BY <1>1, <1>2 DEF Accepted
<1>3. ASSUME NEW c \in Callers, WriteOnce(c) PROVE SentInv'
  <2>1. PICK bytes \in 1..Room : bytes <= Rest(c) /\ Put(c, base[c] + 1, bytes)
    BY <1>3 DEF WriteOnce
  <2>2. /\ UNCHANGED <<sent, lost, base, count, wrote>>
        /\ pc[c] = "idle"
    BY <1>3 DEF WriteOnce, Call
  <2>3. /\ base[c] + 1 \in Nat \ {0} /\ (base[c] + 1) + bytes - 1 <= Total
        /\ \A n \in 1..Total : n < base[c] + 1 => n <= base[c]
    BY <2>1, RoomBounds DEF TypeInv, TypeOK, QueueOK, Rest
  <2>4. \A n \in 1..Total : n < base[c] + 1 => Ahead(Len(queue) + 1, c, n)
    BY <2>3 DEF SentInv, Accepted
  <2>5. \A d \in Callers : \A n \in 1..Total : Accepted(d, n)' => Accepted(d, n)
    BY <2>2 DEF Accepted
  <2> QED
    BY <2>1, <2>2, <2>3, <2>4, <2>5, PutKeeps
<1>4. ASSUME NEW c \in Callers, WriteBytes(c) PROVE SentInv'
  <2>0. /\ base[c] + count[c] >= 0 /\ pc[c] = "write"
        /\ UNCHANGED <<base, count, sent, lost>>
    BY <1>4 DEF WriteBytes
  <2>1. /\ \A d \in Callers : /\ base[d] \in Nat /\ count[d] \in Int
                              /\ wrote[d] \in Int
        /\ wrote \in [Callers -> -1..OutputSize]
        /\ wrote[c] = 0
    BY <2>0 DEF TypeInv, TypeOK, RestInv
  <2>2. CASE wrote' = [wrote EXCEPT ![c] = -1] /\ UNCHANGED queue
    <3>1. wrote'[c] = -1 /\ \A d \in Callers \ {c} : wrote'[d] = wrote[d]
      BY <2>1, <2>2
    <3>2. \A d \in Callers : \A n \in 1..Total : Accepted(d, n)' => Accepted(d, n)
      BY <2>0, <2>1, <3>1 DEF Accepted
    <3> QED
      BY <1>1, <2>0, <2>2, <3>2
  <2>3. ASSUME NEW bytes \in 1..Room, bytes <= Rest(c) - count[c],
               Put(c, base[c] + count[c] + 1, bytes),
               wrote' = [wrote EXCEPT ![c] = bytes]
        PROVE  SentInv'
    <3> DEFINE first == base[c] + count[c] + 1
    <3>1. /\ first \in Nat \ {0} /\ first + bytes - 1 = base[c] + count[c] + bytes
          /\ base[c] + count[c] + bytes <= Total /\ bytes \in Nat
          /\ \A n \in 1..Total : n < first => n <= base[c] + count[c]
      BY <2>0, <2>1, <2>3, RoomBounds DEF TypeInv, TypeOK, QueueOK, Rest
    <3>2. \A n \in 1..Total : n < first => Ahead(Len(queue) + 1, c, n)
      BY <3>1 DEF SentInv, Accepted
    <3>3. wrote'[c] = bytes /\ \A d \in Callers \ {c} : wrote'[d] = wrote[d]
      BY <2>1, <2>3
    <3>4. \A d \in Callers : \A n \in 1..Total :
            Accepted(d, n)' => Accepted(d, n) \/ (d = c /\ n <= first + bytes - 1)
      BY <2>0, <2>1, <3>1, <3>3 DEF Accepted
    <3>5. first + bytes - 1 <= Total
      BY <3>1
    <3> QED
      BY <2>0, <2>3, <3>1, <3>2, <3>4, <3>5, PutKeeps
  <2> QED
    BY <1>4, <2>2, <2>3 DEF WriteBytes
<1>5. ASSUME NEW c \in Callers, SelectWrite(c) PROVE SentInv'
  <2>0. /\ UNCHANGED <<queue, sent, lost>> /\ wrote' = [wrote EXCEPT ![c] = 0]
    BY <1>5 DEF SelectWrite
  <2>1. /\ count \in [Callers -> Int] /\ base \in [Callers -> 0..Total]
        /\ wrote \in [Callers -> -1..OutputSize]
        /\ \A d \in Callers : base[d] \in Nat /\ count[d] \in Int /\ wrote[d] \in Int
    BY DEF TypeInv, TypeOK
  <2>2. /\ wrote'[c] = 0
        /\ \A d \in Callers \ {c} :
             /\ base'[d] = base[d] /\ count'[d] = count[d] /\ wrote'[d] = wrote[d]
    BY <1>5, <2>0, <2>1 DEF SelectWrite, Return
  <2>3. \/ base'[c] = base[c] /\ count'[c] = count[c] + wrote[c]
        \/ base'[c] = base[c] + (count[c] + wrote[c]) /\ count'[c] = 0
        \/ base'[c] = base[c] + count[c] /\ count'[c] = 0
        \/ base'[c] = base[c] /\ count'[c] = 0
    BY <1>5, <2>1 DEF SelectWrite, Return
  <2>4. \A n \in 1..Total : Accepted(c, n)' => Accepted(c, n)
    BY <2>1, <2>2, <2>3 DEF Accepted
  <2>5. \A d \in Callers \ {c} : \A n \in 1..Total : Accepted(d, n)' => Accepted(d, n)
    BY <2>2 DEF Accepted
  <2> QED
    BY <1>1, <2>0, <2>4, <2>5
<1>6. ASSUME NEW c \in Callers,
             (CallStep(c) /\ ~WriteOnce(c)) \/ Apply(c)
               \/ SelectRead(c) \/ ReadPast(c) \/ WriteBefore(c)
      PROVE  SentInv'
  <2>1. UNCHANGED <<queue, sent, lost, base, count, wrote>>
    BY <1>6 DEF CallStep, Configure, ConfigureRefuses, vars, CallRead, CallWrite,
      Call, Apply, SelectRead, ReadPast, WriteBefore, writeVars
  <2> QED
    BY <1>2, <2>1
<1>7. ASSUME NEW c \in Callers, ReadBytes(c) PROVE FALSE
  BY <1>7 DEF ReadBytes, TypeInv, DutyInv
<1>8. CASE Surroundings
  <2>1. UNCHANGED <<base, count, wrote>>
    BY <1>8 DEF Surroundings
  <2>2. GoesOut \/ Discard \/ UNCHANGED <<queue, sent, lost>>
    BY <1>8 DEF Surroundings
  <2> QED
    BY <1>2, <2>1, <2>2, OutKeeps
<1>9. CASE UNCHANGED vars
  BY <1>2, <1>9 DEF vars, writeVars
<1> QED
  BY <1>3, <1>4, <1>5, <1>6, <1>7, <1>8, <1>9 DEF Next, CallStep, Within

(* Every byte that write() says it has written has gone out, waits in the    *)
(* queue or was discarded, and the line has a gap only where bytes were      *)
(* discarded (serial.hpp:483-488, 621-651).                                  *)
THEOREM WriteSkipsNothing == Spec => []NothingSkipped
<1>1. Init => SentInv
  <2> SUFFICES ASSUME Init PROVE SentInv
    OBVIOUS
  <2>1. /\ \A c \in Callers : /\ base[c] = 0 /\ count[c] = 0 /\ wrote[c] = 0
                              /\ sent[c] = {}
        /\ queue = <<>>
    BY DEF Init
  <2>2. 1..Len(queue) = {} /\ \A c \in Callers : \A n \in 1..Total : ~Accepted(c, n)
    BY <2>1, SerialAssumption DEF Accepted
  <2> QED
    BY <2>1, <2>2 DEF SentInv
<1>2. TypeInv /\ SentInv => NothingSkipped
  <2> SUFFICES ASSUME TypeInv, SentInv, duty = "write", NEW c \in Callers
               PROVE  1..(base[c] + count[c]) \subseteq sent[c] \cup lost[c] \cup Queued(c)
    BY DEF SentInv, NothingSkipped
  <2>1. /\ QueueOK /\ Len(queue) \in Nat /\ (Len(queue) + 1) - 1 = Len(queue)
        /\ base[c] + count[c] <= Total /\ base[c] + count[c] \in Int
    BY SerialAssumption DEF TypeInv, TypeOK, RestInv, QueueOK
  <2>2. ASSUME NEW n \in 1..(base[c] + count[c])
        PROVE  n \in sent[c] \cup lost[c] \cup Queued(c)
    <3>1. n \in 1..Total /\ Accepted(c, n)
      BY <2>1, SerialAssumption DEF Accepted
    <3>2. Ahead(Len(queue) + 1, c, n)
      BY <3>1 DEF SentInv
    <3> QED
      BY <2>1, <3>2, QueuedBytes DEF Ahead
  <2> QED
    BY <2>2
<1> QED
  BY <1>1, <1>2, InitTypes, TypesKept, SentKept, PTL DEF Spec

-----------------------------------------------------------------------------
\* On a quiet port one call is under way at a time.
AloneInv ==
  quiet => /\ ~gone
           /\ \A c, d \in Callers : c = d \/ pc[c] = "idle" \/ pc[d] = "idle"

LEMMA AloneKept ==
  ASSUME TypeInv, AloneInv, [Next]_vars
  PROVE  AloneInv'
<1> SUFFICES ASSUME quiet, UNCHANGED quiet PROVE AloneInv'
  BY DEF AloneInv, Next, Goes, choice, vars
<1> USE DEF AloneInv, TypeInv, TypeOK
<1>1. CASE UNCHANGED vars
  BY <1>1 DEF vars
<1>2. CASE Surroundings
  BY <1>2 DEF Surroundings
<1>3. ASSUME NEW c \in Callers, CallStep(c) \/ Within(c) PROVE AloneInv'
  <2>1. UNCHANGED gone
    BY <1>3
    DEF CallStep, Within, Configure, ConfigureRefuses, vars, CallRead, CallWrite,
        WriteOnce, Apply, SelectRead, SelectWrite, ReadBytes, WriteBytes,
        ReadPast, WriteBefore
  <2>2. \A d \in Callers \ {c} : pc'[d] = pc[d]
    BY <1>3
    DEF CallStep, Within, Configure, ConfigureRefuses, vars, CallRead, CallWrite,
        WriteOnce, Apply, SelectRead, SelectWrite, ReadBytes, WriteBytes,
        ReadPast, WriteBefore, Goto, Return
  <2>3. CASE pc'[c] = "idle" \/ pc'[c] = pc[c]
    BY <2>1, <2>2, <2>3
  <2>4. CASE CallStep(c) /\ pc'[c] # pc[c]
    <3>1. \A d \in Callers : pc[d] = "idle"
      BY <2>4 DEF CallStep, Configure, ConfigureRefuses, vars, CallRead,
        CallWrite, WriteOnce, Call
    <3> QED
      BY <2>1, <2>2, <3>1
  <2>5. CASE Within(c)
    <3>1. pc[c] # "idle"
      BY <2>5 DEF Within, Apply, SelectRead, SelectWrite, ReadBytes, WriteBytes,
        ReadPast, WriteBefore, Selected, TimedOut
    <3> QED
      BY <2>1, <2>2, <3>1
  <2> QED
    BY <1>3, <2>3, <2>4, <2>5
<1> QED
  BY <1>1, <1>2, <1>3 DEF Next

\* Then ::read() is called when there is something to read.
QuietInv ==
  quiet /\ duty = "read" =>
    /\ broken = "none"
    /\ \A c \in Callers : /\ count[c] = taken[c] /\ count[c] <= Length
                          /\ pc[c] = "read" => waiting > 0 /\ count[c] < Length
                          /\ pc[c] = "select" => count[c] < Length

LEMMA QuietKept ==
  ASSUME TypeInv, AloneInv, QuietInv, [Next]_vars
  PROVE  QuietInv'
<1> SUFFICES ASSUME quiet, duty = "read", UNCHANGED <<quiet, duty>> PROVE QuietInv'
  BY DEF QuietInv, Next, Goes, choice, vars
<1> USE SerialAssumption DEF AloneInv, QuietInv, TypeInv, TypeOK, DutyInv, Goto
<1>1. CASE UNCHANGED vars
  BY <1>1 DEF vars, readVars
<1>2. ASSUME NEW c \in Callers, CallRead(c) PROVE QuietInv'
  BY <1>2 DEF CallRead, Call
<1>3. ASSUME NEW c \in Callers, SelectRead(c) PROVE QuietInv'
  BY <1>3 DEF SelectRead, Selected, Ready, TimedOut, readVars
<1>4. ASSUME NEW c \in Callers, ReadBytes(c) PROVE QuietInv'
  <2>0. ~gone /\ waiting > 0 /\ pc[c] = "read"
    BY <1>4 DEF ReadBytes
  <2>1. PICK bytes \in -1..Length :
          /\ bytes # 0 /\ bytes # -1
          /\ bytes <= waiting /\ bytes <= Length - count[c]
          /\ count' = [count EXCEPT ![c] = @ + bytes]
          /\ Goto(c, IF count[c] + bytes < Length THEN "select" ELSE "idle")
          /\ waiting' = waiting - bytes
          /\ taken' = [taken EXCEPT ![c] = @ + bytes]
    <3>1. PICK bytes \in -1..Length :
            /\ bytes <= waiting /\ bytes <= Length - count[c]
            /\ bytes = 0 <=> gone
            /\ bytes = -1 => waiting = 0
            /\ count' = [count EXCEPT ![c] = @ + bytes]
            /\ Goto(c, IF count[c] + bytes < Length THEN "select" ELSE "idle")
            /\ IF bytes = -1 THEN UNCHANGED readVars
               ELSE /\ waiting' = waiting - bytes
                    /\ taken' = [taken EXCEPT ![c] = @ + bytes]
      BY <1>4 DEF ReadBytes
    <3>2. bytes # 0 /\ bytes # -1
      BY <2>0, <3>1
    <3> QED
      BY <3>1, <3>2
  <2>2. \A d \in Callers \ {c} :
          /\ pc[d] = "idle" /\ pc'[d] = pc[d]
          /\ count'[d] = count[d] /\ taken'[d] = taken[d]
    BY <1>4, <2>1 DEF ReadBytes
  <2>3. /\ count'[c] = taken'[c] /\ count'[c] <= Length
        /\ pc'[c] \in {"select", "idle"} /\ (pc'[c] = "select" => count'[c] < Length)
    BY <2>1
  <2>4. UNCHANGED broken
    BY <1>4 DEF ReadBytes
  <2> QED
    BY <2>2, <2>3, <2>4
<1>5. ASSUME NEW c \in Callers, ReadPast(c) PROVE FALSE
  BY <1>5 DEF ReadPast
<1>6. ASSUME NEW c \in Callers,
             (CallStep(c) /\ ~CallRead(c)) \/ Apply(c) \/ WriteBytes(c)
               \/ WriteBefore(c) \/ SelectWrite(c)
      PROVE  UNCHANGED vars
  BY <1>6 DEF CallStep, Configure, ConfigureRefuses, CallWrite, WriteOnce, Call,
    Apply, WriteBytes, WriteBefore, SelectWrite
<1>7. CASE Surroundings
  <2>1. UNCHANGED <<pc, count, taken, broken>> /\ waiting' >= waiting
    BY <1>7 DEF Surroundings
  <2>2. waiting > 0 => waiting' > 0
    BY <1>7 DEF Surroundings
  <2> QED
    BY <2>1, <2>2
<1> QED
  BY <1>1, <1>2, <1>3, <1>4, <1>5, <1>6, <1>7 DEF Next, CallStep, Within

LEMMA QuietInit == Init => AloneInv /\ QuietInv
<1> SUFFICES ASSUME Init PROVE AloneInv /\ QuietInv
  OBVIOUS
<1>1. \A c \in Callers : count[c] = 0 /\ taken[c] = 0 /\ pc[c] = "idle"
  BY DEF Init
<1>2. ~gone /\ broken = "none"
  BY DEF Init
<1> QED
  BY <1>1, <1>2, SerialAssumption DEF AloneInv, QuietInv

(* On a quiet port the result of read() is the number of bytes that it has   *)
(* taken, and the buffer is not left (serial.hpp:541-570).                   *)
THEOREM ReadCountsExactly == Spec => []ReadExact
<1>1. QuietInv => ReadExact
  BY DEF QuietInv, ReadExact
<1> QED
  BY <1>1, QuietInit, InitTypes, TypesKept, AloneKept, QuietKept, PTL DEF Spec

-----------------------------------------------------------------------------
(* What one thread still has to do depends on nothing but its own counts,  *)
(* and on the room while it writes.                                        *)
LEMMA LeftOfOthers ==
  ASSUME NEW c \in Callers, duty' = duty, Room' = Room \/ pc[c] = "idle",
         pc'[c] = pc[c],
         pc[c] # "idle" => UNCHANGED <<count[c], wrote[c], base[c]>>
  PROVE  Left(c)' = Left(c)
<1>1. CASE pc[c] = "idle"
  BY <1>1 DEF Left
<1>2. CASE pc[c] # "idle"
  BY <1>2 DEF Left, Rest
<1> QED
  BY <1>1, <1>2

LEMMA LeftNatural ==
  ASSUME TypeInv, QuietInv, quiet, NEW c \in Callers
  PROVE  Left(c) \in Nat
<1> DEFINE rest == IF duty = "read" THEN Length - count[c]
                   ELSE Rest(c) - count[c] - wrote[c]
<1>1. pc[c] \in {"select", "read", "write"} => rest \in Nat
  BY SerialAssumption DEF Rest, TypeInv, TypeOK, DutyInv, RestInv, QuietInv
<1>2. pc[c] \in {"idle", "apply", "select", "read", "write"}
  BY DEF TypeInv, TypeOK
<1> HIDE DEF rest
<1> QED
  BY <1>1, <1>2 DEF Left, rest

LEMMA StepShrinks ==
  ASSUME TypeInv, AloneInv, QuietInv, NEW c \in Callers, Within(c),
         broken = "none", duty' = duty, quiet
  PROVE  /\ Left(c)' >= 0 /\ Left(c)' <= Left(c)
         /\ pc'[c] # pc[c] => Left(c)' < Left(c)
<1> USE SerialAssumption
    DEF TypeInv, TypeOK, DutyInv, RestInv, AloneInv, QuietInv, Goto
<1>1. CASE Apply(c)
  BY <1>1 DEF Apply, Left
<1>2. CASE SelectRead(c)
  <2>1. /\ duty = "read" /\ pc[c] = "select" /\ pc'[c] \in {"read", "idle"}
        /\ count' = count
    BY <1>2 DEF SelectRead, Selected, TimedOut
  <2>2. Left(c) = 2 * (Length - count[c]) + 1 /\ Length - count[c] > 0
    BY <2>1 DEF Left
  <2>3. Left(c)' \in {2 * (Length - count[c]), 0}
    BY <2>1 DEF Left
  <2> QED
    BY <2>2, <2>3
<1>3. CASE ReadBytes(c)
  <2>1. duty = "read" /\ pc[c] = "read" /\ waiting > 0
    BY <1>3 DEF ReadBytes
  <2>2. PICK bytes \in -1..Length :
          /\ bytes > 0 /\ bytes <= Length - count[c]
          /\ count' = [count EXCEPT ![c] = @ + bytes]
          /\ Goto(c, IF count[c] + bytes < Length THEN "select" ELSE "idle")
    <3>1. PICK bytes \in -1..Length :
            /\ bytes = 0 <=> gone
            /\ bytes = -1 => waiting = 0
            /\ bytes <= Length - count[c]
            /\ count' = [count EXCEPT ![c] = @ + bytes]
            /\ Goto(c, IF count[c] + bytes < Length THEN "select" ELSE "idle")
      BY <1>3 DEF ReadBytes
    <3>2. bytes > 0
      BY <2>1, <3>1
    <3> QED
      BY <3>1, <3>2
  <2>3. count'[c] = count[c] + bytes /\ pc'[c] \in {"select", "idle"}
    BY <2>2
  <2>4. Left(c) = 2 * (Length - count[c])
    BY <2>1 DEF Left
  <2>5. Left(c)' \in {2 * (Length - (count[c] + bytes)) + 1, 0}
    BY <2>1, <2>3 DEF Left
  <2> QED
    BY <2>2, <2>4, <2>5
<1>4. CASE SelectWrite(c)
  <2>1. duty = "write" /\ pc[c] = "select" /\ wrote'[c] = 0 /\ Room' = Room
    BY <1>4 DEF SelectWrite, Selected, TimedOut, Room
  <2> DEFINE rest == Total - base[c] - count[c] - wrote[c]
  <2>2. rest \in Nat /\ Left(c) = 2 * rest + 1
    BY <2>1 DEF Left, Rest
  <2>3. CASE pc'[c] = "idle"
    <3>1. Left(c)' = 0
      BY <2>3 DEF Left
    <3> QED
      BY <2>2, <3>1
  <2>4. CASE pc'[c] # "idle"
    <3>1. /\ Selected(c) /\ count'[c] = count[c] + wrote[c]
          /\ pc'[c] = "write" /\ base' = base
      BY <1>4, <2>4 DEF SelectWrite, Return
    <3>2. Room > 0
      BY <2>1, <3>1 DEF Selected, Ready
    <3>3. Left(c)' = 2 * rest
      BY <2>1, <3>1, <3>2 DEF Left, Rest
    <3> QED
      BY <2>2, <3>3
  <2> QED
    BY <2>3, <2>4
<1>5. CASE WriteBytes(c)
  <2> DEFINE rest == Total - base[c] - count[c]
  <2>1. /\ duty = "write" /\ pc[c] = "write" /\ pc'[c] = "select"
        /\ wrote[c] = 0 /\ UNCHANGED <<count, base>>
    BY <1>5 DEF WriteBytes
  <2>2. rest \in Nat /\ Left(c) = 2 * rest + (IF Room = 0 THEN 4 ELSE 0)
    BY <2>1 DEF Left, Rest
  <2>3. \/ wrote'[c] = -1 /\ Room = 0
        \/ wrote'[c] \in 1..Room /\ wrote'[c] <= rest
    BY <1>5 DEF WriteBytes, Rest
  <2>4. Left(c)' = 2 * (rest - wrote'[c]) + 1
    BY <2>1 DEF Left, Rest
  <2>5. Room \in Nat
    BY RoomBounds DEF QueueOK
  <2> HIDE DEF rest
  <2>6. CASE wrote'[c] = -1 /\ Room = 0
    BY <2>1, <2>2, <2>4, <2>6
  <2>7. CASE wrote'[c] \in 1..Room /\ wrote'[c] <= rest
    BY <2>1, <2>2, <2>4, <2>5, <2>7
  <2> QED
    BY <2>3, <2>6, <2>7
<1>6. CASE ReadPast(c) \/ WriteBefore(c)
  <2>1. UNCHANGED <<pc, count, wrote, base, Room>>
    BY <1>6 DEF ReadPast, WriteBefore, writeVars, Room
  <2> QED
    BY <2>1, LeftNatural, LeftOfOthers
<1> QED
  BY <1>1, <1>2, <1>3, <1>4, <1>5, <1>6 DEF Within

(* Every system call of a call on a quiet port is one of a bounded number: *)
(* no chunk is empty but the first (serial.hpp:541-651).                   *)
THEOREM CallsNeverSpin == Spec => NeverSpins
<1> DEFINE Step == quiet => \A c \in Callers :
      pc[c] # "idle" => /\ Left(c)' >= 0 /\ Left(c)' <= Left(c)
                        /\ pc'[c] # pc[c] => Left(c)' < Left(c)
<1>1. TypeInv /\ AloneInv /\ QuietInv /\ [Next]_vars => [Step]_vars
  <2> SUFFICES ASSUME TypeInv, AloneInv, QuietInv, Next, quiet,
                      NEW c \in Callers, pc[c] # "idle"
               PROVE  /\ Left(c)' >= 0 /\ Left(c)' <= Left(c)
                      /\ pc'[c] # pc[c] => Left(c)' < Left(c)
    OBVIOUS
  <2>0. broken = "none" /\ duty' = duty
    BY DEF Next, Goes, choice
  <2>1. CASE Within(c)
    BY <2>0, <2>1, StepShrinks
  <2>2. ASSUME NEW d \in Callers, CallStep(d) \/ (Within(d) /\ d # c)
        PROVE  UNCHANGED vars
    BY <2>2 DEF AloneInv, CallStep, Within, Configure, ConfigureRefuses, CallRead,
      CallWrite, WriteOnce, Call, Apply, SelectRead, SelectWrite, ReadBytes,
      WriteBytes, ReadPast, WriteBefore, Selected, TimedOut
  <2>3. Left(c) \in Nat
    BY LeftNatural
  <2>4. CASE UNCHANGED vars
    BY <2>3, <2>4, LeftOfOthers DEF vars, writeVars, choice, Room
  <2>5. CASE Surroundings
    <3>1. UNCHANGED <<pc, count, wrote, base>> /\ Room' >= Room
      <4>1. QueueOK /\ Len(queue) \in Nat /\ UNCHANGED <<pc, count, wrote, base>>
        BY <2>5 DEF Surroundings, TypeInv, TypeOK, QueueOK
      <4>2. CASE GoesOut
        BY <4>1, <4>2, FirstGoes, SerialAssumption DEF Room
      <4>3. CASE queue' = <<>>
        BY <4>1, <4>3, SerialAssumption DEF Room
      <4>4. CASE UNCHANGED queue
        BY <4>1, <4>4, SerialAssumption DEF Room
      <4> QED
        BY <2>5, <4>1, <4>2, <4>3, <4>4 DEF Surroundings, Discard
    <3>2. CASE pc[c] = "write"
      <4> DEFINE rest == Rest(c) - count[c] - wrote[c]
                 full(n) == IF n = 0 THEN 4 ELSE 0
      <4>1. rest \in Nat /\ Left(c) = 2 * rest + full(Room)
        BY <3>2, SerialAssumption
        DEF Left, Rest, TypeInv, TypeOK, DutyInv, RestInv
      <4>2. Left(c)' = 2 * rest + full(Room')
        BY <2>0, <3>1, <3>2 DEF Left, Rest, TypeInv, DutyInv
      <4>3. full(Room') <= full(Room) /\ full(Room') \in Nat /\ full(Room) \in Nat
        <5>1. Room \in Nat /\ Room' \in Int
          BY RoomBounds, TypesKept, SerialAssumption
          DEF TypeInv, TypeOK, QueueOK, Room
        <5> QED
          BY <3>1, <5>1
      <4> HIDE DEF rest, full
      <4> QED
        BY <3>1, <4>1, <4>2, <4>3
    <3>3. CASE pc[c] # "write"
      <4>1. Left(c)' = Left(c)
        BY <2>0, <3>1, <3>3 DEF Left, Rest
      <4> QED
        BY <2>3, <3>1, <4>1
    <3> QED
      BY <3>2, <3>3
  <2> QED
    BY <2>1, <2>2, <2>4, <2>5 DEF Next
<1> QED
  BY <1>1, QuietInit, InitTypes, TypesKept, AloneKept, QuietKept, PTL
  DEF Spec, NeverSpins
=============================================================================
