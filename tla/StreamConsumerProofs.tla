------------------------ MODULE StreamConsumerProofs ------------------------
(***************************************************************************)
(* StreamConsumer for any number of events, faults and retries and any     *)
(* batch size: the types, and that the index holds the effect of the       *)
(* events up to the stored offset, each exactly once.                      *)
(***************************************************************************)
EXTENDS StreamConsumer, SequenceTheorems, TLAPS

USE ConsumerAssumption

\* The invariant behind exactly-once: an open reader is at the offset that
\* is stored, so the next batch starts where the last committed one ended.
IInv == TypeOK /\ AppliedExactlyOnce /\ ReaderAtOffset

-----------------------------------------------------------------------------
(***************************************************************************)
(* The positions 1 to n, extended by those of a batch.                     *)
(***************************************************************************)
LEMMA BatchExtends ==
  ASSUME NEW n \in Nat, NEW m \in Nat
  PROVE  [i \in 1..n |-> i] \o [i \in 1..m |-> n + i] = [i \in 1..(n + m) |-> i]
<1> DEFINE a == [i \in 1..n |-> i]
           b == [i \in 1..m |-> n + i]
           c == [i \in 1..(n + m) |-> i]
<1>1. /\ a \in Seq(Nat) /\ Len(a) = n /\ \A i \in 1..n : a[i] = i
      /\ b \in Seq(Nat) /\ Len(b) = m /\ \A i \in 1..m : b[i] = n + i
      /\ c \in Seq(Nat) /\ Len(c) = n + m /\ \A i \in 1..(n + m) : c[i] = i
  OBVIOUS
<1> HIDE DEF a, b, c
<1>2. /\ a \o b \in Seq(Nat) /\ Len(a \o b) = n + m
      /\ \A i \in 1..(n + m) : (a \o b)[i] = IF i <= n THEN a[i] ELSE b[i - n]
  BY <1>1, ConcatProperties
<1>3. \A i \in 1..(n + m) : (a \o b)[i] = c[i]
  BY <1>1, <1>2
<1>4. a \o b = c
  BY <1>1, <1>2, <1>3, SeqEqual
<1> QED BY <1>4 DEF a, b, c

(***************************************************************************)
(* The end of a batch lies after the reader.                               *)
(***************************************************************************)
LEMMA BatchEndType ==
  ASSUME TypeOK, NEW s \in Streams, pos[s] # NoReader, NEW end \in BatchEnds(s)
  PROVE  end \in Nat /\ end - pos[s] \in Nat /\ pos[s] \in Nat
<1>1. pos[s] \in Nat
  BY DEF TypeOK
<1>2. end \in Int /\ end >= pos[s] + 1
  BY <1>1 DEF BatchEnds
<1> QED BY <1>1, <1>2

(***************************************************************************)
(* A commit applies the events from the stored offset to the end of the    *)
(* batch, and stores that end.                                             *)
(***************************************************************************)
LEMMA CommitStep ==
  ASSUME IInv, NEW s \in Streams, Consuming(s), pos[s] # NoReader,
         NEW end \in BatchEnds(s), Commit(s, end)
  PROVE  /\ offset' = [offset EXCEPT ![s] = end] /\ end \in Nat
         /\ offset' \in [Streams -> Nat]
         /\ applied' \in [Streams -> Seq(Nat)]
         /\ \A t \in Streams : applied'[t] = [i \in 1..offset'[t] |-> i]
<1> DEFINE n == pos[s]
           m == end - pos[s]
<1>1. n \in Nat /\ m \in Nat /\ end \in Nat /\ n + m = end
  BY BatchEndType DEF IInv
<1>2. /\ offset \in [Streams -> Nat] /\ applied \in [Streams -> Seq(Nat)]
      /\ offset[s] = n
      /\ \A t \in Streams : applied[t] = [i \in 1..offset[t] |-> i]
  BY DEF IInv, TypeOK, AppliedExactlyOnce, ReaderAtOffset
<1>3. offset' = [offset EXCEPT ![s] = end]
  BY DEF Commit, LastOffset
<1>4. applied' = [applied EXCEPT ![s] = @ \o [i \in 1..m |-> n + i]]
  BY DEF Commit
<1> HIDE DEF n, m
<1>5. applied[s] \o [i \in 1..m |-> n + i] = [i \in 1..end |-> i]
  <2>1. applied[s] = [i \in 1..n |-> i]
    BY <1>2
  <2> QED BY <1>1, <2>1, BatchExtends
<1>6. applied' = [applied EXCEPT ![s] = [i \in 1..end |-> i]]
  BY <1>4, <1>5
<1>7. [i \in 1..end |-> i] \in Seq(Nat)
  BY <1>1
<1>8. applied' \in [Streams -> Seq(Nat)]
  BY <1>2, <1>6, <1>7
<1>9. ASSUME NEW t \in Streams
      PROVE  applied'[t] = [i \in 1..offset'[t] |-> i]
  <2>1. CASE t = s
    BY <2>1, <1>2, <1>3, <1>6
  <2>2. CASE t # s
    BY <2>2, <1>2, <1>3, <1>6
  <2> QED BY <2>1, <2>2
<1> QED BY <1>1, <1>2, <1>3, <1>8, <1>9

(***************************************************************************)
(* The same value for every stream.                                        *)
(***************************************************************************)
LEMMA AllType ==
  ASSUME NEW S, NEW v \in S
  PROVE  All(v) \in [Streams -> S] /\ \A s \in Streams : All(v)[s] = v
  BY DEF All

(***************************************************************************)
(* The end of the process clears its memory.                               *)
(***************************************************************************)
LEMMA IdleType ==
  /\ All("idle") \in [Streams -> Phase]
  /\ All(0) \in [Streams -> Nat] /\ All(0) \in [Streams -> 0..Retries]
  /\ All(0) \in [Streams -> Nat \cup {Absent}]
  /\ All(NoReader) \in [Streams -> Nat \cup {NoReader}]
  /\ \A s \in Streams : All(NoReader)[s] = NoReader /\ All(0)[s] = 0
<1>1. "idle" \in Phase /\ 0 \in 0..Retries /\ 0 \in Nat
      /\ NoReader \in Nat \cup {NoReader} /\ 0 \in Nat \cup {Absent}
  BY DEF Phase
<1> QED BY <1>1, AllType

LEMMA StopStep ==
  ASSUME Stop
  PROVE  /\ up' \in BOOLEAN /\ stage' \in 0..3
         /\ phase' \in [Streams -> Phase]
         /\ target' \in [Streams -> Nat \cup {Absent}]
         /\ pos' \in [Streams -> Nat \cup {NoReader}]
         /\ attempts' \in [Streams -> 0..Retries]
         /\ ReaderAtOffset'
<1>1. /\ up' = FALSE /\ stage' = 0
      /\ phase' = All("idle") /\ target' = All(0)
      /\ pos' = All(NoReader) /\ attempts' = All(0)
  BY DEF Stop
<1>2. up' \in BOOLEAN
  BY <1>1
<1>3. ReaderAtOffset'
  BY <1>1, IdleType DEF ReaderAtOffset
<1>4. stage' \in 0..3
  BY <1>1
<1> HIDE DEF Absent, NoReader
<1> QED BY <1>1, <1>2, <1>3, <1>4, IdleType

(***************************************************************************)
(* An attempt that throws closes the reader, or ends the process.          *)
(***************************************************************************)
LEMMA ThrowStep ==
  ASSUME IInv, NEW s \in Streams, Throw(s),
         offset' \in [Streams -> Nat],
         \A t \in Streams \ {s} : offset'[t] = offset[t]
  PROVE  /\ up' \in BOOLEAN /\ stage' \in 0..3
         /\ phase' \in [Streams -> Phase]
         /\ target' \in [Streams -> Nat \cup {Absent}]
         /\ pos' \in [Streams -> Nat \cup {NoReader}]
         /\ attempts' \in [Streams -> 0..Retries]
         /\ ReaderAtOffset'
<1>1. CASE Stop
  BY <1>1, StopStep
<1>2. CASE /\ RetriesLeft(s)
           /\ pos' = [pos EXCEPT ![s] = NoReader]
           /\ attempts' = [attempts EXCEPT ![s] = @ + 1]
           /\ UNCHANGED <<up, stage, phase, target>>
  <2>1. attempts' \in [Streams -> 0..Retries]
    BY <1>2 DEF IInv, TypeOK, RetriesLeft
  <2>2. pos' \in [Streams -> Nat \cup {NoReader}]
    BY <1>2 DEF IInv, TypeOK
  <2>3. ReaderAtOffset'
    <3> SUFFICES ASSUME NEW t \in Streams, pos'[t] # NoReader
                 PROVE  pos'[t] = offset'[t]
      BY DEF ReaderAtOffset
    <3>1. t # s /\ pos'[t] = pos[t]
      BY <1>2 DEF IInv, TypeOK
    <3> QED BY <3>1 DEF IInv, ReaderAtOffset
  <2> QED BY <1>2, <2>1, <2>2, <2>3 DEF IInv, TypeOK
<1> QED BY <1>1, <1>2 DEF Throw

-----------------------------------------------------------------------------
(***************************************************************************)
(* The initial state satisfies the invariant.                              *)
(***************************************************************************)
LEMMA InitIInv == Init => IInv
<1> SUFFICES ASSUME Init
             PROVE  IInv
  OBVIOUS
<1>1. /\ source = All(<<>>) /\ offset = All(0) /\ applied = All(<<>>)
      /\ up = FALSE /\ stage = 0
      /\ phase = All("idle") /\ target = All(0)
      /\ pos = All(NoReader) /\ attempts = All(0)
      /\ faults = 0
  BY DEF Init
<1>2. TypeOK
  <2>1. source \in [Streams -> Seq([time : 0..MaxTime, needs : Nat])]
    BY <1>1, AllType, EmptySeq
  <2>2. applied \in [Streams -> Seq(Nat)]
    BY <1>1, AllType, EmptySeq
  <2>3. up \in BOOLEAN /\ stage \in 0..3 /\ faults \in 0..MaxFaults
    <3>1. up \in BOOLEAN
      BY <1>1
    <3>2. stage \in 0..3 /\ faults \in 0..MaxFaults
      BY <1>1
    <3> QED BY <3>1, <3>2
  <2>4. /\ offset \in [Streams -> Nat]
        /\ phase \in [Streams -> Phase]
        /\ target \in [Streams -> Nat \cup {Absent}]
        /\ pos \in [Streams -> Nat \cup {NoReader}]
        /\ attempts \in [Streams -> 0..Retries]
    BY <1>1, IdleType
  <2> QED BY <2>1, <2>2, <2>3, <2>4 DEF TypeOK
<1>3. AppliedExactlyOnce
  <2> SUFFICES ASSUME NEW s \in Streams
               PROVE  applied[s] = [i \in 1..offset[s] |-> i]
    BY DEF AppliedExactlyOnce
  <2>1. applied[s] = <<>> /\ offset[s] = 0
    BY <1>1, AllType, EmptySeq, IdleType
  <2> QED BY <2>1
<1>4. ReaderAtOffset
  BY <1>1, IdleType DEF ReaderAtOffset
<1> QED BY <1>2, <1>3, <1>4 DEF IInv

(***************************************************************************)
(* Every step keeps the invariant: one step of the proof per action.       *)
(***************************************************************************)
LEMMA NextIInv == IInv /\ [Next]_vars => IInv'
<1> SUFFICES ASSUME IInv, [Next]_vars
             PROVE  IInv'
  OBVIOUS
<1>1. ASSUME NEW s \in Streams, Publish(s)
      PROVE  IInv'
  <2>1. PICK t \in {Now, Now + 1} \cap 0..MaxTime,
             n \in {0, IF s = "token" THEN 0 ELSE Len(source[Needed[s]])} :
          source' = [source EXCEPT ![s] = Append(@, [time |-> t, needs |-> n])]
    BY <1>1 DEF Publish
  <2>2. Needed[s] \in Streams
    BY DEF Needed, Streams
  <2>3. n \in Nat /\ t \in 0..MaxTime
    BY <2>2 DEF IInv, TypeOK
  <2>4. source' \in [Streams -> Seq([time : 0..MaxTime, needs : Nat])]
    <3> DEFINE E == [time : 0..MaxTime, needs : Nat]
               e == [time |-> t, needs |-> n]
    <3>1. e \in E
      BY <2>3
    <3>2. source \in [Streams -> Seq(E)]
      BY DEF IInv, TypeOK
    <3> HIDE DEF E, e
    <3>3. Append(source[s], e) \in Seq(E)
      BY <3>1, <3>2
    <3>4. source' = [source EXCEPT ![s] = Append(source[s], e)]
      BY <2>1 DEF e
    <3>5. source' \in [Streams -> Seq(E)]
      BY <3>2, <3>3, <3>4
    <3> QED BY <3>5 DEF E
  <2>5. UNCHANGED <<offset, applied, up, stage, phase, target, pos, attempts, faults>>
    BY <1>1 DEF Publish, process
  <2> QED BY <2>4, <2>5 DEF IInv, TypeOK, AppliedExactlyOnce, ReaderAtOffset
<1>2. CASE Start
  <2>1. /\ pos' = All(NoReader) /\ attempts' = All(0)
        /\ UNCHANGED <<source, offset, applied, faults>>
        /\ up' = TRUE /\ stage' = 0
    BY <1>2 DEF Start
  <2>2. target' \in [Streams -> Nat \cup {Absent}]
    BY <1>2 DEF Start, IInv, TypeOK
  <2>3. phase' \in [Streams -> Phase]
    BY <1>2 DEF Start, Phase
  <2>4. ReaderAtOffset'
    BY <2>1, IdleType DEF ReaderAtOffset
  <2>5. up' \in BOOLEAN /\ stage' \in 0..3
    BY <2>1
  <2>6. pos' \in [Streams -> Nat \cup {NoReader}] /\ attempts' \in [Streams -> 0..Retries]
    BY <2>1, IdleType
  <2> QED BY <2>1, <2>2, <2>3, <2>4, <2>5, <2>6 DEF IInv, TypeOK, AppliedExactlyOnce
<1>3. CASE NextStage
  <2>1. phase' \in [Streams -> Phase]
    BY <1>3 DEF NextStage, Phase, IInv, TypeOK
  <2>2. pos' \in [Streams -> Nat \cup {NoReader}]
        /\ attempts' \in [Streams -> 0..Retries]
        /\ stage' \in 0..3
    BY <1>3 DEF NextStage, IInv, TypeOK
  <2>3. ReaderAtOffset'
    BY <1>3 DEF NextStage, IInv, ReaderAtOffset
  <2> QED BY <1>3, <2>1, <2>2, <2>3 DEF NextStage, IInv, TypeOK, AppliedExactlyOnce
<1>4. ASSUME NEW s \in Streams, Skip(s)
      PROVE  IInv'
  <2>1. /\ phase' = [phase EXCEPT ![s] = "loaded"]
        /\ UNCHANGED <<source, offset, applied, up, stage, target, pos, attempts, faults>>
    BY <1>4 DEF Skip
  <2>2. phase' \in [Streams -> Phase]
    BY <2>1 DEF IInv, TypeOK, Phase
  <2> QED BY <2>1, <2>2 DEF IInv, TypeOK, AppliedExactlyOnce, ReaderAtOffset
<1>5. ASSUME NEW s \in Streams, Open(s)
      PROVE  IInv'
  <2>1. /\ pos' = [pos EXCEPT ![s] = offset[s]]
        /\ UNCHANGED <<source, offset, applied, up, stage, phase, target, attempts, faults>>
    BY <1>5 DEF Open, StoredOffset
  <2>2. pos' \in [Streams -> Nat \cup {NoReader}]
    BY <2>1 DEF IInv, TypeOK
  <2>3. ReaderAtOffset'
    BY <2>1 DEF IInv, TypeOK, ReaderAtOffset
  <2> QED BY <2>1, <2>2, <2>3 DEF IInv, TypeOK, AppliedExactlyOnce
<1>6. ASSUME NEW s \in Streams, NEW end \in BatchEnds(s), Handle(s, end)
      PROVE  IInv'
  <2>1. /\ Consuming(s) /\ pos[s] # NoReader /\ Commit(s, end)
        /\ UNCHANGED <<source, up, stage, target, attempts, faults>>
    BY <1>6 DEF Handle
  <2>2. /\ offset' = [offset EXCEPT ![s] = end] /\ end \in Nat
        /\ offset' \in [Streams -> Nat]
        /\ applied' \in [Streams -> Seq(Nat)]
        /\ \A t \in Streams : applied'[t] = [i \in 1..offset'[t] |-> i]
    BY <2>1, CommitStep
  <2>3. \/ phase' = [phase EXCEPT ![s] = "loaded"] /\ pos' = [pos EXCEPT ![s] = NoReader]
        \/ phase' = phase /\ pos' = [pos EXCEPT ![s] = end]
    BY <1>6 DEF Handle
  <2>4. /\ phase' \in [Streams -> Phase]
        /\ pos' \in [Streams -> Nat \cup {NoReader}]
    BY <2>2, <2>3 DEF IInv, TypeOK, Phase
  <2>5. ReaderAtOffset'
    <3> SUFFICES ASSUME NEW t \in Streams, pos'[t] # NoReader
                 PROVE  pos'[t] = offset'[t]
      BY DEF ReaderAtOffset
    <3>1. CASE t = s
      BY <3>1, <2>2, <2>3 DEF IInv, TypeOK
    <3>2. CASE t # s
      <4>1. pos'[t] = pos[t] /\ phase'[t] = phase[t] /\ offset'[t] = offset[t]
        BY <3>2, <2>2, <2>3 DEF IInv, TypeOK
      <4> QED BY <4>1 DEF IInv, ReaderAtOffset
    <3> QED BY <3>1, <3>2
  <2> QED BY <2>1, <2>2, <2>4, <2>5 DEF IInv, TypeOK, AppliedExactlyOnce
<1>7. ASSUME NEW s \in Streams, NEW end \in BatchEnds(s), Reject(s, end)
      PROVE  IInv'
  <2>1. Throw(s) /\ UNCHANGED <<source, offset, applied, faults>>
    BY <1>7 DEF Reject
  <2>2. offset' \in [Streams -> Nat]
    BY <2>1 DEF IInv, TypeOK
  <2> QED BY <2>1, <2>2, ThrowStep DEF IInv, TypeOK, AppliedExactlyOnce
<1>8. ASSUME NEW s \in Streams, Fault(s)
      PROVE  IInv'
  <2>1. /\ Throw(s) /\ source' = source /\ faults' \in 0..MaxFaults
        /\ Consuming(s) /\ pos[s] # NoReader
        /\ \/ UNCHANGED <<offset, applied>>
           \/ \E end \in BatchEnds(s) : Commit(s, end)
    BY <1>8 DEF Fault, IInv, TypeOK
  <2> DEFINE Committed ==
        /\ offset' \in [Streams -> Nat]
        /\ applied' \in [Streams -> Seq(Nat)]
        /\ \A t \in Streams : applied'[t] = [i \in 1..offset'[t] |-> i]
        /\ \A t \in Streams \ {s} : offset'[t] = offset[t]
  <2>2. Committed
    <3>1. CASE UNCHANGED <<offset, applied>>
      BY <3>1 DEF IInv, TypeOK, AppliedExactlyOnce
    <3>2. ASSUME NEW end \in BatchEnds(s), Commit(s, end)
          PROVE  Committed
      <4>1. /\ offset' = [offset EXCEPT ![s] = end]
            /\ offset' \in [Streams -> Nat]
            /\ applied' \in [Streams -> Seq(Nat)]
            /\ \A t \in Streams : applied'[t] = [i \in 1..offset'[t] |-> i]
        BY <2>1, <3>2, CommitStep
      <4> QED BY <4>1 DEF IInv, TypeOK
    <3> QED BY <2>1, <3>1, <3>2
  <2> QED BY <2>1, <2>2, ThrowStep DEF IInv, TypeOK, AppliedExactlyOnce
<1>9. CASE Crash
  <2>1. Stop /\ UNCHANGED <<source, offset, applied>> /\ faults' \in 0..MaxFaults
    BY <1>9 DEF Crash, IInv, TypeOK
  <2> QED BY <2>1, StopStep DEF IInv, TypeOK, AppliedExactlyOnce
<1>10. CASE UNCHANGED vars
  BY <1>10 DEF vars, process, IInv, TypeOK, AppliedExactlyOnce, ReaderAtOffset
<1> QED BY <1>1, <1>2, <1>3, <1>4, <1>5, <1>6, <1>7, <1>8, <1>9, <1>10 DEF Next

(***************************************************************************)
(* Whatever fails and whenever the process ends or starts again, the index *)
(* holds the effect of exactly the events up to the stored offset, once    *)
(* each and in order: handleEvents stores the two in one transaction, and  *)
(* every attempt starts from what is stored.                               *)
(***************************************************************************)
THEOREM ExactlyOnce == Spec => []AppliedExactlyOnce
<1>1. IInv => AppliedExactlyOnce
  BY DEF IInv
<1> QED BY <1>1, InitIInv, NextIInv, PTL DEF Spec

(***************************************************************************)
(* The state of the consumer and its table of offsets stay well typed; an  *)
(* attempt is never repeated more than Retries times.                      *)
(***************************************************************************)
THEOREM ConsumerTypeCorrect == Spec => []TypeOK
<1>1. IInv => TypeOK
  BY DEF IInv
<1> QED BY <1>1, InitIInv, NextIInv, PTL DEF Spec

-----------------------------------------------------------------------------
(***************************************************************************)
(* The stages.                                                             *)
(***************************************************************************)
Caught == {"loaded", "absent", "continue"}

\* The invariant behind PreloadCoversNeeds: a stream that has left its
\* preload has what it held at the start, the streams of the stages before
\* the current one have left it, and those of later stages are not read.
StagesInOrder ==
  \A s \in Streams :
    /\ phase[s] \in Caught => target[s] <= offset[s]
    /\ Stage[s] < stage => phase[s] \in Caught
    /\ phase[s] \in {"preload", "continue"} => Stage[s] <= stage

(***************************************************************************)
(* The stages are numbers, and a stream needs one of an earlier stage.     *)
(***************************************************************************)
LEMMA StageType ==
  /\ \A s \in Streams : Stage[s] \in 0..2
  /\ \A s \in Streams \ {"token"} : Needed[s] \in Streams /\ Stage[Needed[s]] < Stage[s]
BY DEF Stage, Needed, Streams

(***************************************************************************)
(* Between starts an offset only grows, so the order stays when the phase  *)
(* of a stream does.                                                       *)
(***************************************************************************)
LEMMA OffsetsGrow ==
  ASSUME IInv, [Next]_vars
  PROVE  /\ \A s \in Streams : offset[s] \in Nat /\ offset'[s] \in Nat
         /\ \A s \in Streams : offset[s] <= offset'[s]
<1>1. offset \in [Streams -> Nat] /\ offset' \in [Streams -> Nat]
  BY NextIInv DEF IInv, TypeOK
<1>2. ASSUME NEW s \in Streams, NEW end \in BatchEnds(s), Consuming(s), pos[s] # NoReader,
             Commit(s, end)
      PROVE  \A t \in Streams : offset[t] <= offset'[t]
  <2>1. offset' = [offset EXCEPT ![s] = end] /\ end \in Nat
    BY <1>2, CommitStep
  <2>2. end - pos[s] \in Nat /\ pos[s] \in Nat /\ pos[s] = offset[s]
    BY <1>2, BatchEndType DEF IInv, ReaderAtOffset
  <2> QED BY <1>1, <2>1, <2>2
<1>3. CASE UNCHANGED offset
  BY <1>1, <1>3
<1>4. ASSUME NEW s \in Streams, NEW end \in BatchEnds(s), Handle(s, end)
      PROVE  \A t \in Streams : offset[t] <= offset'[t]
  BY <1>2, <1>4 DEF Handle
<1>5. ASSUME NEW s \in Streams, Fault(s)
      PROVE  \A t \in Streams : offset[t] <= offset'[t]
  BY <1>2, <1>3, <1>5 DEF Fault
<1>6. \A s \in Streams : offset[s] <= offset'[s]
  <2>1. CASE Start \/ NextStage \/ Crash \/ UNCHANGED vars
    BY <1>3, <2>1 DEF Start, NextStage, Crash, vars
  <2>2. ASSUME NEW s \in Streams, Publish(s) \/ Skip(s) \/ Open(s)
        PROVE  UNCHANGED offset
    BY <2>2 DEF Publish, Skip, Open
  <2>3. ASSUME NEW s \in Streams, NEW end \in BatchEnds(s), Reject(s, end)
        PROVE  UNCHANGED offset
    BY <2>3 DEF Reject
  <2> QED BY <1>3, <1>4, <1>5, <2>1, <2>2, <2>3 DEF Next
<1> QED BY <1>1, <1>6

(***************************************************************************)
(* The end of the process, or an attempt that throws, keeps the order.     *)
(***************************************************************************)
LEMMA ThrowKeepsOrder ==
  ASSUME IInv, StagesInOrder, [Next]_vars,
         Stop \/ UNCHANGED <<stage, phase, target>>
  PROVE  StagesInOrder'
<1>1. CASE Stop
  <2>1. stage' = 0 /\ \A s \in Streams : phase'[s] = "idle"
    BY <1>1 DEF Stop, All
  <2> QED BY <2>1, StageType DEF StagesInOrder, Caught
<1>2. CASE UNCHANGED <<stage, phase, target>>
  <2>1. \A s \in Streams : target[s] \in Int
    BY DEF IInv, TypeOK, Absent
  <2> QED BY <1>2, <2>1, OffsetsGrow DEF StagesInOrder
<1> QED BY <1>1, <1>2

(***************************************************************************)
(* Every step keeps the order of the stages.                               *)
(***************************************************************************)
LEMMA NextStages == IInv /\ StagesInOrder /\ [Next]_vars => StagesInOrder'
<1> SUFFICES ASSUME IInv, StagesInOrder, [Next]_vars
             PROVE  StagesInOrder'
  OBVIOUS
<1>1. /\ phase \in [Streams -> Phase] /\ stage \in 0..3
      /\ \A s \in Streams : target[s] \in Int
  BY DEF IInv, TypeOK, Absent
<1>2. CASE Start
  <2>1. stage' = 0 /\ UNCHANGED offset
    BY <1>2 DEF Start
  <2>2. \A s \in Streams : phase'[s] \in Caught => phase'[s] = "absent" /\ target'[s] = Absent
    BY <1>2 DEF Start, Caught
  <2>3. \A s \in Streams : phase'[s] \in {"preload", "continue"} => Stage[s] = 0
    BY <1>2 DEF Start
  <2> QED BY <2>1, <2>2, <2>3, OffsetsGrow, StageType DEF StagesInOrder, Absent
<1>3. CASE NextStage
  <2>1. /\ stage' = stage + 1 /\ target' = target /\ offset' = offset
        /\ \A s \in Streams : Stage[s] = stage => phase[s] \in {"loaded", "absent"}
        /\ \A s \in Streams :
             phase'[s] = IF phase[s] = "absent" THEN "absent"
                         ELSE IF Stage[s] = stage THEN "continue"
                         ELSE IF Stage[s] = stage + 1 THEN "preload" ELSE phase[s]
    BY <1>3 DEF NextStage, StageLoaded
  <2> SUFFICES ASSUME NEW s \in Streams
               PROVE  /\ phase'[s] \in Caught => target'[s] <= offset'[s]
                      /\ Stage[s] < stage' => phase'[s] \in Caught
                      /\ phase'[s] \in {"preload", "continue"} => Stage[s] <= stage'
    BY DEF StagesInOrder
  <2>2. /\ phase[s] \in Caught => target[s] <= offset[s]
        /\ Stage[s] < stage => phase[s] \in Caught
        /\ phase[s] \in {"preload", "continue"} => Stage[s] <= stage
        /\ Stage[s] \in 0..2
    BY StageType DEF StagesInOrder
  <2>3. CASE phase[s] = "absent"
    BY <2>1, <2>2, <2>3 DEF Caught
  <2>4. CASE phase[s] # "absent" /\ Stage[s] = stage
    BY <1>1, <2>1, <2>2, <2>4 DEF Caught
  <2>5. CASE phase[s] # "absent" /\ Stage[s] = stage + 1
    BY <1>1, <2>1, <2>2, <2>5 DEF Caught
  <2>6. CASE phase[s] # "absent" /\ Stage[s] # stage /\ Stage[s] # stage + 1
    BY <1>1, <2>1, <2>2, <2>6
  <2> QED BY <2>3, <2>4, <2>5, <2>6
<1>4. ASSUME NEW s \in Streams, phase[s] \in {"preload", "continue"},
             phase' = [phase EXCEPT ![s] = "loaded"],
             target[s] <= offset'[s], UNCHANGED <<stage, target>>
      PROVE  StagesInOrder'
  <2> SUFFICES ASSUME NEW t \in Streams
               PROVE  /\ phase'[t] \in Caught => target'[t] <= offset'[t]
                      /\ Stage[t] < stage' => phase'[t] \in Caught
                      /\ phase'[t] \in {"preload", "continue"} => Stage[t] <= stage'
    BY <1>4 DEF StagesInOrder
  <2>1. CASE t = s
    BY <1>1, <1>4, <2>1 DEF Caught
  <2>2. CASE t # s
    <3>1. phase'[t] = phase[t]
      BY <1>1, <1>4, <2>2
    <3> QED BY <1>1, <1>4, <3>1, OffsetsGrow DEF StagesInOrder
  <2> QED BY <2>1, <2>2
<1>5. ASSUME NEW s \in Streams, Skip(s)
      PROVE  StagesInOrder'
  <2>1. /\ phase[s] = "preload" /\ target[s] <= offset[s] /\ offset' = offset
        /\ phase' = [phase EXCEPT ![s] = "loaded"] /\ UNCHANGED <<stage, target>>
    BY <1>1, <1>5, OffsetsGrow DEF Skip, CaughtUp, StoredOffset
  <2> QED BY <1>4, <2>1
<1>6. ASSUME NEW s \in Streams, NEW end \in BatchEnds(s), Handle(s, end)
      PROVE  StagesInOrder'
  <2>1. UNCHANGED <<stage, target>> /\ Consuming(s) /\ pos[s] # NoReader /\ Commit(s, end)
    BY <1>6 DEF Handle
  <2>2. CASE phase[s] = "preload" /\ end = target[s]
    <3>1. phase' = [phase EXCEPT ![s] = "loaded"]
      BY <1>6, <2>2 DEF Handle
    <3>2. offset' = [offset EXCEPT ![s] = end]
      BY <2>1, CommitStep
    <3>3. target[s] <= offset'[s]
      BY <1>1, <2>2, <3>2, OffsetsGrow DEF IInv, TypeOK
    <3> QED BY <1>4, <2>1, <2>2, <3>1, <3>3
  <2>3. CASE ~(phase[s] = "preload" /\ end = target[s])
    <3>1. phase' = phase
      BY <1>6, <2>3 DEF Handle
    <3> QED BY <2>1, <3>1, ThrowKeepsOrder
  <2> QED BY <2>2, <2>3
<1>7. ASSUME NEW s \in Streams, Publish(s) \/ Open(s)
      PROVE  StagesInOrder'
  BY <1>7, ThrowKeepsOrder DEF Publish, Open, process
<1>8. ASSUME NEW s \in Streams, Fault(s)
      PROVE  StagesInOrder'
  BY <1>8, ThrowKeepsOrder DEF Fault, Throw
<1>9. ASSUME NEW s \in Streams, NEW end \in BatchEnds(s), Reject(s, end)
      PROVE  StagesInOrder'
  BY <1>9, ThrowKeepsOrder DEF Reject, Throw
<1>10. CASE Crash
  BY <1>10, ThrowKeepsOrder DEF Crash
<1>11. CASE UNCHANGED vars
  BY <1>11, ThrowKeepsOrder DEF vars, process
<1> QED BY <1>2, <1>3, <1>5, <1>6, <1>7, <1>8, <1>9, <1>10, <1>11 DEF Next

(***************************************************************************)
(* The stages do what they are for: whatever a handler misses was not      *)
(* there yet when the process started, so no retry is due to the order in  *)
(* which main() starts the streams.                                        *)
(***************************************************************************)
THEOREM PreloadCovers == Spec => []PreloadCoversNeeds
<1>1. Init => StagesInOrder
  <2> SUFFICES ASSUME Init
               PROVE  StagesInOrder
    OBVIOUS
  <2>1. stage = 0 /\ \A s \in Streams : phase[s] = "idle"
    BY DEF Init, All
  <2> QED BY <2>1, StageType DEF StagesInOrder, Caught
<1>2. ASSUME IInv, StagesInOrder
      PROVE  PreloadCoversNeeds
  <2> SUFFICES ASSUME NEW s \in Streams \ {"token"}, Consuming(s),
                      pos[s] # NoReader, pos[s] < Len(source[s])
               PROVE  LET needs == source[s][pos[s] + 1].needs
                      IN  needs > offset[Needed[s]] => needs > target[Needed[s]]
    BY DEF PreloadCoversNeeds
  <2> DEFINE needs == source[s][pos[s] + 1].needs
             n == Needed[s]
  <2>1. n \in Streams /\ Stage[n] < Stage[s] /\ Stage[n] \in 0..2 /\ Stage[s] \in 0..2
    BY StageType
  <2>2. Stage[s] <= stage /\ stage \in 0..3
    BY <1>2 DEF Consuming, StagesInOrder, IInv, TypeOK
  <2>3. target[n] <= offset[n] /\ target[n] \in Int /\ offset[n] \in Int
    <3>1. Stage[n] < stage
      BY <2>1, <2>2
    <3>2. target \in [Streams -> Nat \cup {Absent}] /\ offset \in [Streams -> Nat]
      BY <1>2 DEF IInv, TypeOK
    <3> HIDE DEF n
    <3>3. target[n] <= offset[n]
      BY <1>2, <2>1, <3>1 DEF StagesInOrder
    <3> QED BY <2>1, <3>2, <3>3 DEF Absent
  <2>4. needs \in Int
    <3> DEFINE E == [time : 0..MaxTime, needs : Nat]
    <3>1. source \in [Streams -> Seq(E)] /\ pos[s] \in Nat
      BY <1>2 DEF IInv, TypeOK
    <3>2. \A e \in E : e.needs \in Nat
      OBVIOUS
    <3> HIDE DEF E
    <3>3. source[s] \in Seq(E) /\ Len(source[s]) \in Nat
      BY <3>1
    <3>4. pos[s] + 1 \in 1..Len(source[s])
      BY <3>1, <3>3
    <3>5. source[s][pos[s] + 1] \in E
      BY <3>3, <3>4
    <3> QED BY <3>2, <3>5
  <2> HIDE DEF needs, n
  <2>5. needs > offset[n] => needs > target[n]
    BY <2>3, <2>4
  <2> QED BY <2>5 DEF needs, n
<1> QED BY <1>1, <1>2, InitIInv, NextIInv, NextStages, PTL DEF Spec

=============================================================================
