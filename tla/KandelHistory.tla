--------------------------- MODULE KandelHistory ---------------------------
(***************************************************************************)
(* What the database says of the past.  Rows are not kept by time: they    *)
(* refer to a row of table Transaction, which has the time of the block in *)
(* which the transaction was first seen.  Three readers go by that time:   *)
(*                                                                         *)
(*   - getMatchingOfferFromOfferListingId, the offers as they were;        *)
(*   - getCurrentBaseAndQuoteBalanceForAddress, whose result is copied     *)
(*     into the events of a kandel, for which the kandel stream waits      *)
(*     until some stream has stored a later transaction;                   *)
(*   - KandelReturnUtils, which makes periods of these events.             *)
(*                                                                         *)
(* There are one kandel, one offer of it that all orders take, and orders  *)
(* that each send one unit.  A Credit is of both tokens.                   *)
(***************************************************************************)
EXTENDS Reorgs, FiniteSets

CONSTANTS
  Txs,        \* hashes of transactions
  Kind,       \* what a transaction holds: [Txs -> Kinds]
  Offers,     \* the offers a kandel has
  Gives,      \* what a populate or a retract sets of some of them
  MaxTime,    \* bound on the time of a block
  MaxLog      \* bound on the transactions that are mined and taken back

Kinds == {"order", "populate", "retract", "credit", "other"}

ASSUME HistoryAssumption ==
  /\ Kind \in [Txs -> Kinds]
  /\ DOMAIN Gives = Txs
  /\ \A tx \in Txs : /\ DOMAIN Gives[tx] \subseteq Offers
                     /\ \A o \in DOMAIN Gives[tx] : Gives[tx][o] \in Nat
  /\ MaxTime \in Nat /\ MaxLog \in Nat

Streams == {"mangrove", "kandel", "other"}

StreamOf(tx) == CASE Kind[tx] = "order" -> "mangrove"
                  [] Kind[tx] = "other" -> "other"
                  [] OTHER              -> "kandel"

NoTime == -1

VARIABLES
  log,       \* the blocks as the streams carry them, with those taken back
  pos,       \* pos[s]: the last event of stream s that is handled
  time,      \* table Transaction: the time stored for a hash
  versions,  \* table OfferVersion: the transaction of each version
  sends,     \* table TokenBalanceVersion, stream mangrove: [tx, send]
  credits,   \* table TokenBalanceVersion, stream kandel: the transactions
  events,    \* KandelPopulateEvent and KandelRetractEvent: [tx, send]
  early      \* events that another stream than mangrove let through (history)

vars == <<log, pos, time, versions, sends, credits, events, early>>

Init ==
  /\ log = <<>> /\ pos = [s \in Streams |-> 0]
  /\ time = [tx \in Txs |-> NoTime]
  /\ versions = <<>> /\ sends = <<>> /\ credits = <<>>
  /\ events = {} /\ early = {}

-----------------------------------------------------------------------------
(***************************************************************************)
(* The chain.                                                              *)
(***************************************************************************)

Chain == Surviving(log)
Tip   == IF Chain = <<>> THEN 0 ELSE Last(Chain).time

Mine(tx) ==
  /\ Len(log) < MaxLog
  /\ \A i \in DOMAIN Chain : Chain[i].tx # tx
  /\ \E t \in {Tip, Tip + 1} \cap 0..MaxTime :
       log' = Append(log, [undo |-> FALSE, tx |-> tx, time |-> t])
  /\ UNCHANGED <<pos, time, versions, sends, credits, events, early>>

TakeBack ==
  /\ Chain # <<>> /\ Len(log) < MaxLog
  /\ log' = Append(log, TakenBack(Last(Chain)))
  /\ UNCHANGED <<pos, time, versions, sends, credits, events, early>>

-----------------------------------------------------------------------------
(***************************************************************************)
(* The readers by time.                                                    *)
(***************************************************************************)

\* Mutant: the first version that is not earlier ends the search.
VersionBefore(t) ==
  LET later == {n \in DOMAIN versions : time[versions[n]] >= t}
  IN  IF later = {} THEN Len(versions)
      ELSE (CHOOSE n \in later : \A m \in later : n <= m) - 1

\* findVersionMatchingTime: up from the first version, until one is later.
VersionAt(t) ==
  LET later == {n \in DOMAIN versions : time[versions[n]] > t}
  IN  IF later = {} THEN Len(versions)
      ELSE (CHOOSE n \in later : \A m \in later : n <= m) - 1

OfThePast(t) == {n \in DOMAIN sends : time[sends[n].tx] <= t}

\* The version with the highest time, and of these the highest number.
LatestSend(t) ==
  LET past == OfThePast(t)
      Before(m, n) == \/ time[sends[m].tx] < time[sends[n].tx]
                      \/ time[sends[m].tx] = time[sends[n].tx] /\ m < n
  IN  IF past = {} THEN 0
      ELSE sends[CHOOSE n \in past : \A m \in past \ {n} : Before(m, n)].send

-----------------------------------------------------------------------------
(***************************************************************************)
(* The streams.                                                            *)
(***************************************************************************)

\* Mutant: a transaction of the same block ends the wait.
LaterThanOrAt(row, t) == row >= t

LaterThan(row, t) == row > t

hasTransactionWithHigherTimestamp(t) == \E tx \in Txs : LaterThan(time[tx], t)

MangroveIsLater(t) ==
  \E i \in 1..pos["mangrove"] :
    Kind[log[i].tx] = "order" /\ LaterThan(time[log[i].tx], t)

\* ensureTransaction, also for an event that is undone.
Stored(tx, t) == IF time[tx] = NoTime THEN t ELSE time[tx]

\* Mutant: what was sent before is not added to.
OrderAnew(e) ==
  IF e.undo
  THEN versions' = Front(versions) /\ UNCHANGED sends
  ELSE /\ versions' = Append(versions, e.tx)
       /\ sends' = Append(sends, [tx |-> e.tx, send |-> 1])

Order(e) ==
  IF e.undo
  THEN versions' = Front(versions) /\ UNCHANGED sends
  ELSE /\ versions' = Append(versions, e.tx)
       /\ sends' = Append(sends, [tx   |-> e.tx,
                                  send |-> 1 + IF sends = <<>> THEN 0 ELSE Last(sends).send])

Credit(e) == credits' = IF e.undo THEN Front(credits) ELSE Append(credits, e.tx)

\* A populate or a retract copies the balances up to the stored time of its
\* transaction.
PopulateOrRetract(e) ==
  /\ events' = IF e.undo THEN {x \in events : x.tx # e.tx}
               ELSE events \cup {[tx |-> e.tx, send |-> LatestSend(time'[e.tx])]}
  /\ early' = IF e.undo \/ MangroveIsLater(e.time) THEN early \ {e.tx}
              ELSE early \cup {e.tx}

StreamsOf(entries) == [i \in DOMAIN entries |-> StreamOf(entries[i].tx)]

Handle(s) ==
  /\ \E i \in Upcoming(StreamsOf(log), pos[s], s) :
       LET e == log[i] IN
       /\ s = "kandel" => hasTransactionWithHigherTimestamp(e.time)
       /\ pos' = [pos EXCEPT ![s] = i]
       /\ time' = [time EXCEPT ![e.tx] = Stored(e.tx, e.time)]
       /\ IF Kind[e.tx] = "order" THEN Order(e) ELSE UNCHANGED <<versions, sends>>
       /\ IF Kind[e.tx] = "credit" THEN Credit(e) ELSE UNCHANGED credits
       /\ IF Kind[e.tx] \in {"populate", "retract"}
          THEN PopulateOrRetract(e) ELSE UNCHANGED <<events, early>>
  /\ UNCHANGED log

Next ==
  \/ \E tx \in Txs : Mine(tx)
  \/ TakeBack
  \/ \E s \in Streams : Handle(s)

Spec == Init /\ [][Next]_vars

-----------------------------------------------------------------------------
(***************************************************************************)
(* KandelReturnUtils.                                                      *)
(***************************************************************************)
Now == MaxTime + 1

\* getData has the events ordered by the time of their KandelVersion, which
\* a populate and a retract do not have: any order will do.
Orderings == SetToSeqs(events)

\* The balance of now, if there is one: `find` takes that of one of the
\* streams.
CurrentSends ==
  IF sends = <<>> /\ credits = <<>> THEN {<<>>}
  ELSE {<<Last(sends).send>> : n \in DOMAIN sends} \cup {<<0>> : n \in DOMAIN credits}

\* Mutant: a period has the offers of the event at its end.
PeriodsOfEnd(order, last) ==
  [i \in 1..Len(order) - 1 |->
     [start |-> time[order[i].tx], end |-> time[order[i + 1].tx],
      gives |-> Gives[order[i + 1].tx], send |-> order[i + 1].send]]

\* A period has the offers of the event at its start, and the sends of the
\* one at its end; the last one ends now, if there is a balance.
Periods(order, last) ==
  LET ends == [i \in DOMAIN order |-> [time |-> time[order[i].tx], send |-> order[i].send]]
                \o [i \in DOMAIN last |-> [time |-> Now, send |-> last[i]]]
  IN  [i \in 1..(IF order = <<>> THEN 0 ELSE Len(ends) - 1) |->
         [start |-> time[order[i].tx], end |-> ends[i + 1].time,
          gives |-> Gives[order[i].tx], send |-> ends[i + 1].send]]

\* offeredPerOffer, carried over from period to period.
Offering(offered, gives) ==
  [o \in DOMAIN offered \cup DOMAIN gives |->
     IF o \in DOMAIN gives THEN gives[o] ELSE offered[o]]

OfferedPerOffer(periods) ==
  LET offered[i \in 0..Len(periods)] ==
        IF i = 0 THEN [o \in {} |-> 0] ELSE Offering(offered[i - 1], periods[i].gives)
  IN  offered

Total(f) == FoldFunction(LAMBDA a, b : a + b, 0, f)

OfferedTotal(periods, i) == Total(OfferedPerOffer(periods)[i])

\* calculateReturn: all that was sent, less what was sent before.
SentInPeriod(periods, i) ==
  periods[i].send - IF i = 1 THEN 0 ELSE periods[i - 1].send

-----------------------------------------------------------------------------
(***************************************************************************)
(* Properties.                                                             *)
(***************************************************************************)
StoredTime == 0..MaxTime \cup {NoTime}

\* Rows refer to transactions that are stored.
TypeOK ==
  /\ pos \in [Streams -> 0..Len(log)]
  /\ time \in [Txs -> StoredTime]
  /\ \A n \in DOMAIN versions : time[versions[n]] # NoTime
  /\ \A n \in DOMAIN sends : time[sends[n].tx] # NoTime /\ sends[n].send = n
  /\ \A n \in DOMAIN credits : time[credits[n]] # NoTime
  /\ \A x \in events : time[x.tx] # NoTime /\ x.send \in Nat
  /\ early \subseteq {x.tx : x \in events}

OrdersUpTo(entries, t) ==
  FoldLeft(LAMBDA orders, e : IF Kind[e.tx] = "order" /\ e.time <= t
                              THEN Append(orders, e) ELSE orders,
           <<>>, entries)

\* The surviving orders up to a time, of those that the mangrove stream has seen.
Orders(t) == OrdersUpTo(ChainAt(log, pos["mangrove"]), t)

\* Transactions that came back in a block of another time.
Restamped ==
  {tx \in Txs : \E i \in DOMAIN log : log[i].tx = tx /\ time[tx] \notin {NoTime, log[i].time}}

\* The offers at a time are the versions that the surviving events up to
\* that time have made, whatever was taken back in between, and however far
\* the other streams are (test "offersAtTime"); unless an order came back in
\* a block of another time, as the row of its transaction keeps the first.
OffersAtTime ==
  (\A tx \in Restamped : Kind[tx] # "order") =>
    \A t \in 0..MaxTime :
      SubSeq(versions, 1, VersionAt(t)) = [i \in DOMAIN Orders(t) |-> Orders(t)[i].tx]

OrderTakenBack == \E i \in 1..pos["mangrove"] : log[i].undo /\ Kind[log[i].tx] = "order"

\* The sends in an event of the kandel are those of the orders up to its
\* time, though another stream counts them, and stay so as that stream goes
\* on.  But the wait for a later transaction helps only when that is one of
\* the mangrove stream; the balances of an order that is taken back stay; and
\* an order of another time than the stored one is missed or counted early.
SnapshotsComplete ==
  Restamped = {} /\ ~OrderTakenBack =>
    \A x \in events : x.tx \notin early => x.send = Len(Orders(time[x.tx]))

\* What the first i events have set of each offer, the latest counting.
LatestGives(order, i) ==
  LET setBy(o) == {j \in 1..i : o \in DOMAIN Gives[order[j].tx]}
  IN  [o \in {p \in Offers : setBy(p) # {}} |-> Gives[order[Max(setBy(o))].tx][o]]

\* Whatever the order of the events, the return of a kandel is made of periods
\* of which the first has all orders up to its end, and each other one those
\* up to its end without those up to its start; the volume then offered is
\* that of the latest events; and the last period is right when the kandel
\* stream has no balance of its own.
PeriodsAreReplay ==
  Restamped = {} /\ ~OrderTakenBack /\ early = {} /\ credits = <<>> =>
    \A order \in Orderings, last \in CurrentSends :
      LET periods == Periods(order, last) IN
      \A i \in DOMAIN periods :
        /\ SentInPeriod(periods, i) =
             Len(Orders(periods[i].end)) - IF i = 1 THEN 0 ELSE Len(Orders(periods[i].start))
        /\ OfferedTotal(periods, i) = Total(LatestGives(order, i))

=============================================================================
