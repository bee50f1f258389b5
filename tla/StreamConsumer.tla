--------------------------- MODULE StreamConsumer ---------------------------
(***************************************************************************)
(* The consumer process (src/cmd/consumer.ts) for one chain: it reads the  *)
(* event streams of the chain and hands their events, batch by batch, to   *)
(* the handler of the stream, which changes the index and the offset of    *)
(* the stream in one database transaction.                                 *)
(*                                                                         *)
(* The streams start in stages: tokens, then mangrove, then strats and     *)
(* kandel.  A stage first catches up with what its streams held when the   *)
(* process started (the preload); then they are followed for good, and the *)
(* next stage starts.  An attempt that throws is retried from the offset   *)
(* in the database; when one stream is out of retries the process ends,    *)
(* and its container starts it again (restartPolicy: Always).              *)
(*                                                                         *)
(* An offset is a position in a stream.  What a handler does to the index  *)
(* is the subject of the other modules; here an event is applied or not,   *)
(* and a handler throws when the event needs one of an earlier stage that  *)
(* is not applied (assertTokenExists, getOfferListTokens).                 *)
(***************************************************************************)
EXTENDS Integers, Sequences, FiniteSets

CONSTANTS
  BatchSize,      \* BATCH_SIZE
  Retries,        \* how often an attempt that throws is repeated
  MaxLength,      \* stream -> bound on the events published on it
  MaxTime,        \* bound on timestamps
  MaxFaults       \* bound on crashes and on failures of the database

Streams == {"token", "mangrove", "strats", "kandel"}

ASSUME ConsumerAssumption ==
  /\ BatchSize \in Nat \ {0}
  /\ Retries \in Nat /\ MaxFaults \in Nat /\ MaxTime \in Nat
  /\ MaxLength \in [Streams -> Nat]

\* main(): the streams of each stage; the later streams of `then`.
Stage   == [s \in Streams |-> CASE s = "token"    -> 0
                                [] s = "mangrove" -> 1
                                [] OTHER          -> 2]
Preload == {"token", "mangrove"}          \* the streams given a toHeight

\* The stream whose entities the events of a stream need.
Needed  == [s \in Streams |-> IF s = "strats" THEN "mangrove" ELSE "token"]

NoReader == -1      \* the stream has no reader open
Absent   == -1      \* the stream is left out: nothing had been published

VARIABLES
  source,     \* source[s]: the events published on s so far
  offset,     \* table Streams: the position up to which s is handled
  applied,    \* applied[s]: the positions whose effect is in the index
  up,         \* the process runs
  stage,      \* the stage whose preload it is in; 3 when all are done
  phase,      \* phase[s]: what handleStreamLinks is doing with s
  target,     \* target[s]: the toHeight of s
  pos,        \* pos[s]: the position of the reader of s
  attempts,   \* attempts[s]: the failed attempts of the current retry()
  faults      \* number of faults so far

process == <<up, stage, phase, target, pos, attempts>>
vars    == <<source, offset, applied, process, faults>>

Phase == {"idle", "absent", "preload", "loaded", "continue"}

All(v) == [s \in Streams |-> v]

Init ==
  /\ source = All(<<>>) /\ offset = All(0) /\ applied = All(<<>>)
  /\ up = FALSE /\ stage = 0
  /\ phase = All("idle") /\ target = All(0)
  /\ pos = All(NoReader) /\ attempts = All(0)
  /\ faults = 0

\* The process ends, and with it all that it had in memory.
Stop ==
  /\ up' = FALSE /\ stage' = 0
  /\ phase' = All("idle") /\ target' = All(0)
  /\ pos' = All(NoReader) /\ attempts' = All(0)

-----------------------------------------------------------------------------
(***************************************************************************)
(* The outside: the indexed chain.  An event is stamped with the time of   *)
(* its block, and it may need anything already published on the stream of  *)
(* the earlier stage.                                                      *)
(***************************************************************************)
Times(s) == {source[s][i].time : i \in 1..Len(source[s])}
Now      == CHOOSE t \in UNION {Times(s) : s \in Streams} \cup {0} :
              \A u \in UNION {Times(s) : s \in Streams} : u <= t

Publish(s) ==
  /\ Len(source[s]) < MaxLength[s]
  /\ \E t \in {Now, Now + 1} \cap 0..MaxTime,
        n \in {0, IF s = "token" THEN 0 ELSE Len(source[Needed[s]])} :
       source' = [source EXCEPT ![s] = Append(@, [time |-> t, needs |-> n])]
  /\ UNCHANGED <<offset, applied, process, faults>>

-----------------------------------------------------------------------------
(***************************************************************************)
(* The process.                                                            *)
(***************************************************************************)

\* main(): every stream is asked for its end, and one of stage 0 or 1 that
\* has none is left out; the first stage starts.
Start ==
  /\ ~up
  /\ up' = TRUE
  /\ stage' = 0
  /\ target' = [s \in Streams |->
       IF s \notin Preload THEN 0
       ELSE IF source[s] = <<>> THEN Absent ELSE Len(source[s])]
  /\ phase' = [s \in Streams |->
       IF target'[s] = Absent THEN "absent"
       ELSE IF Stage[s] = 0 THEN "preload" ELSE "idle"]
  /\ pos' = All(NoReader)
  /\ attempts' = All(0)
  /\ UNCHANGED <<source, offset, applied, faults>>

\* Mutant: the next stage does not wait for the preload.
StageStarted == \A s \in Streams : Stage[s] = stage => phase[s] # "idle"

\* Mutant: a stage that was left without a stream is waited for.
StageLoadedAll == \A s \in Streams : Stage[s] = stage => phase[s] = "loaded"

\* Promise.all over the preloads of a stage; nothing to wait for without one.
StageLoaded ==
  \A s \in Streams : Stage[s] = stage => phase[s] \in {"loaded", "absent"}

\* handleStreamLinks after the preload of a stage: its streams are followed,
\* under a new retry(), and the next stage starts its preload.
NextStage ==
  /\ up
  /\ stage \in 0..2
  /\ StageLoaded
  /\ stage' = stage + 1
  /\ phase' = [s \in Streams |->
       IF phase[s] = "absent" THEN "absent"
       ELSE IF Stage[s] = stage THEN "continue"
       ELSE IF Stage[s] = stage + 1 THEN "preload"
       ELSE phase[s]]
  /\ pos' = [s \in Streams |-> IF Stage[s] = stage THEN NoReader ELSE pos[s]]
  /\ attempts' = [s \in Streams |-> IF Stage[s] = stage THEN 0 ELSE attempts[s]]
  /\ UNCHANGED <<source, offset, applied, up, target, faults>>

Consuming(s) == up /\ phase[s] \in {"preload", "continue"}

\* getCurrentStreamOffset.
StoredOffset(s) == offset[s]

\* Mutant: a stream without a toHeight has nothing left to do either.
CaughtUpWithoutTarget(s) == StoredOffset(s) >= target[s]

\* consumeStream: a preload that has its height already returns at once,
\* and otherwise a reader is opened at the offset in the database.
CaughtUp(s) == phase[s] = "preload" /\ StoredOffset(s) >= target[s]

Skip(s) ==
  /\ Consuming(s)
  /\ pos[s] = NoReader
  /\ CaughtUp(s)
  /\ phase' = [phase EXCEPT ![s] = "loaded"]
  /\ UNCHANGED <<source, offset, applied, up, stage, target, pos, attempts, faults>>

Open(s) ==
  /\ Consuming(s)
  /\ pos[s] = NoReader
  /\ ~CaughtUp(s)
  /\ pos' = [pos EXCEPT ![s] = StoredOffset(s)]
  /\ UNCHANGED <<source, offset, applied, up, stage, phase, target, attempts, faults>>

Lesser(a, b) == IF a < b THEN a ELSE b

\* The positions a batch may end at: some of what is published, and in a
\* preload nothing after the first event at its height (takeWhile).
BatchEnds(s) ==
  LET end == IF phase[s] = "preload" THEN Lesser(target[s], Len(source[s]))
             ELSE Len(source[s])
  IN  (pos[s] + 1)..Lesser(pos[s] + BatchSize, end)

\* waitForTimestamp: table Transaction has a later row.  The token stream
\* stores no transaction.
LaterTransaction(time) ==
  \E s \in Streams \ {"token"} : \E i \in 1..offset[s] : source[s][i].time > time

Waits(s, end) ==
  s = "kandel" /\ \E i \in (pos[s] + 1)..end : ~LaterTransaction(source[s][i].time)

Misses(s, end) ==
  \E i \in (pos[s] + 1)..end :
    s # "token" /\ source[s][i].needs > offset[Needed[s]]

\* Mutant: the offset that is stored is the one of the first event.
FirstOffset(s, end) == pos[s] + 1

\* events[events.length - 1].offset
LastOffset(s, end) == end

\* handleEvents commits: the events are applied and the offset is stored.
Commit(s, end) ==
  /\ applied' = [applied EXCEPT ![s] = @ \o [i \in 1..(end - pos[s]) |-> pos[s] + i]]
  /\ offset' = [offset EXCEPT ![s] = LastOffset(s, end)]

Accepted(s, end) == ~Waits(s, end) /\ ~Misses(s, end)

\* A batch is handled; a preload that reached its height is done.
Handle(s, end) ==
  /\ Consuming(s)
  /\ pos[s] # NoReader
  /\ Accepted(s, end)
  /\ Commit(s, end)
  /\ IF phase[s] = "preload" /\ end = target[s]
     THEN /\ phase' = [phase EXCEPT ![s] = "loaded"]
          /\ pos' = [pos EXCEPT ![s] = NoReader]
     ELSE /\ pos' = [pos EXCEPT ![s] = end]
          /\ UNCHANGED phase
  /\ UNCHANGED <<source, up, stage, target, attempts, faults>>

\* Mutant: one attempt too many.
RetriesLeftInclusive(s) == attempts[s] <= Retries

RetriesLeft(s) == attempts[s] < Retries

\* An attempt throws: retry() starts another one, or the promise of main()
\* is rejected, which ends the process.
Throw(s) ==
  \/ /\ RetriesLeft(s)
     /\ pos' = [pos EXCEPT ![s] = NoReader]
     /\ attempts' = [attempts EXCEPT ![s] = @ + 1]
     /\ UNCHANGED <<up, stage, phase, target>>
  \/ ~RetriesLeft(s) /\ Stop

\* The handler throws for an event it cannot handle yet, or the time limit
\* of the transaction ends a wait; the transaction is rolled back.
Reject(s, end) ==
  /\ Consuming(s)
  /\ pos[s] # NoReader
  /\ ~Accepted(s, end)
  /\ Throw(s)
  /\ UNCHANGED <<source, offset, applied, faults>>

\* The database or the stream fails, before the commit or after it.
Fault(s) ==
  /\ Consuming(s)
  /\ pos[s] # NoReader
  /\ faults < MaxFaults
  /\ faults' = faults + 1
  /\ \/ UNCHANGED <<offset, applied>>
     \/ \E end \in BatchEnds(s) : Accepted(s, end) /\ Commit(s, end)
  /\ Throw(s)
  /\ UNCHANGED source

Crash ==
  /\ up
  /\ faults < MaxFaults
  /\ faults' = faults + 1
  /\ Stop
  /\ UNCHANGED <<source, offset, applied>>

Next ==
  \/ Start
  \/ NextStage
  \/ \E s \in Streams :
       \/ Publish(s) \/ Skip(s) \/ Open(s) \/ Fault(s)
       \/ \E end \in BatchEnds(s) : Handle(s, end) \/ Reject(s, end)
  \/ Crash

-----------------------------------------------------------------------------
(***************************************************************************)
(* Fairness.  The container is started again after every end, a retry and  *)
(* the next step of a stream always come.  The process may end again and   *)
(* again for the kandel stream, though, before a step of the strats stream *)
(* beside it has come: but a retry takes a second or more, and the timeout *)
(* of a transaction minutes, so that step does come in some incarnation.   *)
(* A reader returns all it has, so nothing is assumed of smaller batches.  *)
(***************************************************************************)
Full(s) == {end \in BatchEnds(s) : \A e \in BatchEnds(s) : e <= end}

HandleFull(s) == \E end \in Full(s) : Handle(s, end)
RejectFull(s) == \E end \in Full(s) : Reject(s, end)

Fairness ==
  /\ WF_vars(Start)
  /\ WF_vars(NextStage)
  /\ \A s \in Streams : /\ WF_vars(Skip(s) \/ Open(s))
                         /\ WF_vars(HandleFull(s) \/ RejectFull(s))
  /\ SF_vars(Open("strats"))
  /\ SF_vars(HandleFull("strats"))
  /\ SF_vars(RejectFull("strats"))

Spec     == Init /\ [][Next]_vars
FairSpec == Spec /\ Fairness

-----------------------------------------------------------------------------
(***************************************************************************)
(* Properties.                                                             *)
(***************************************************************************)

TypeOK ==
  /\ source \in [Streams -> Seq([time : 0..MaxTime, needs : Nat])]
  /\ offset \in [Streams -> Nat]
  /\ applied \in [Streams -> Seq(Nat)]
  /\ up \in BOOLEAN /\ stage \in 0..3
  /\ phase \in [Streams -> Phase]
  /\ target \in [Streams -> Nat \cup {Absent}]
  /\ pos \in [Streams -> Nat \cup {NoReader}]
  /\ attempts \in [Streams -> 0..Retries]
  /\ faults \in 0..MaxFaults

\* Whatever fails and whenever the process ends, the index holds the effect
\* of the events up to the stored offset, each once and in their order.
AppliedExactlyOnce ==
  \A s \in Streams : applied[s] = [i \in 1..offset[s] |-> i]

\* The reader of a stream is at the offset that is stored (the invariant
\* behind AppliedExactlyOnce).
ReaderAtOffset ==
  \A s \in Streams : pos[s] # NoReader => pos[s] = offset[s]

\* What the stages are for: a handler never has to be retried for want of
\* an event that was there when the process started.
PreloadCoversNeeds ==
  \A s \in Streams \ {"token"} :
    /\ Consuming(s)
    /\ pos[s] # NoReader /\ pos[s] < Len(source[s])
    => LET needs == source[s][pos[s] + 1].needs
       IN  needs > offset[Needed[s]] => needs > target[Needed[s]]

\* Every event of the token, the mangrove and the strats stream is handled
\* in the end, even while the kandel stream runs out of retries again and
\* again; a stream that was empty when the process started has to wait for
\* its next start.
EventuallyIndexed ==
  \A s \in Streams \ {"kandel"} :
    <>[](up /\ phase[s] # "absent" => offset[s] = Len(source[s]))

\* The kandel stream waits for a later transaction of any stream, within the
\* transaction of a batch.  Once there is one for each of its events, all of
\* them are handled in the end, whatever restarts the wait has caused.
KandelEventuallyIndexed ==
  LET past == \A i \in 1..Len(source["kandel"]) :
                LaterTransaction(source["kandel"][i].time)
  IN  <>[](up /\ past => offset["kandel"] = Len(source["kandel"]))

=============================================================================
