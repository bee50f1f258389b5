------------------------- MODULE MangroveOrderStatus -------------------------
(***************************************************************************)
(* What a taker is shown of a MangroveOrder: its status and its fills, as  *)
(* customFieldResolvers.ts and the view MangroveOrderFill make them of     *)
(* tables that two streams write.  The mangrove stream has the order, the  *)
(* versions of the offer it left resting and who took that offer; the      *)
(* strats stream has the MangroveOrder, whose versions differ in the       *)
(* expiry date.  Each stream is at a position of its own, and both undo    *)
(* their events when the chain is reorganised.                             *)
(*                                                                         *)
(* There is one MangroveOrder; OfferBook.tla has the tables in full and    *)
(* says when an undo is refused.  Amounts are of the token the taker       *)
(* wants.  A date on the chain is in seconds, a Date in milliseconds.      *)
(***************************************************************************)
EXTENDS Reorgs, FiniteSets

CONSTANTS
  Wants,     \* takerWants
  Fee,       \* totalFee
  Gots,      \* what the order may get at once
  Amounts,   \* what a taker of the resting offer may give
  Dates,     \* expiry dates that may be set
  NoOrder, NoTake,
  MaxTime,   \* bound on the time, in seconds
  MaxLog     \* bound on the events and what takes them back

ASSUME StatusAssumption ==
  /\ Wants \in Nat /\ Fee \in Nat /\ Gots \subseteq Nat /\ Amounts \subseteq Nat
  /\ Dates \subseteq Nat /\ MaxTime \in Nat \ {0} /\ MaxLog \in Nat

Takes == [amount : Amounts, failed : BOOLEAN, posthookFailed : BOOLEAN]

\* The absence of a row is none of the rows.
ASSUME AbsenceAssumption == NoOrder \notin [got : Gots] /\ NoTake \notin Takes

Streams == {"mangrove", "strats"}

StreamOf(e) == IF e.kind \in {"summary", "expiry"} THEN "strats" ELSE "mangrove"

Outcomes == {"success", "failed", "posthookFailed"}

VARIABLES
  log,            \* the events of both streams, with those taken back
  pos,            \* pos[s]: the last event of stream s that is handled
  now,            \* the time
  order,          \* table Order: what the order got, or NoOrder
  offerVersions,  \* table OfferVersion of the resting offer, with its
                  \* OfferRetractEvent and its TakenOffer
  restingOrder,   \* table MangroveOrder: whether it names a resting offer
  expiryDates     \* table MangroveOrderVersion; empty without a MangroveOrder

offerTables == <<order, offerVersions>>
stratTables == <<restingOrder, expiryDates>>
vars == <<log, pos, now, offerTables, stratTables>>

Init ==
  /\ log = <<>> /\ pos = [s \in Streams |-> 0] /\ now = 1
  /\ order = NoOrder /\ offerVersions = <<>>
  /\ restingOrder = FALSE /\ expiryDates = <<>>

-----------------------------------------------------------------------------
(***************************************************************************)
(* The chain.  An order is completed; what it did not get may be written   *)
(* as an offer; then it is summarised.  The offer may be taken while it is *)
(* in the book, retracted, and written again; its date may be set.         *)
(***************************************************************************)
Chain == Surviving(log)

Of(entries, kinds) ==
  FoldLeft(LAMBDA kept, e : IF e.kind \in kinds THEN Append(kept, e) ELSE kept, <<>>, entries)

OfferEvents(entries) == Of(entries, {"write", "take", "retract"})

\* What the MangroveOrder got, at once and of the takers of its offer, by
\* the events with one of the outcomes.
Got(entries, outcomes) ==
  FoldLeft(LAMBDA sum, e : IF e.kind \in {"order", "take"} /\ e.outcome \in outcomes
                           THEN sum + e.amount ELSE sum,
           0, entries)

\* The resolvers do not count a take whose posthook failed.
FilledOf(entries) == Got(entries, {"success"})

LeftOf(entries) == Wants - Fee - Got(entries, {"success", "posthookFailed"})

Happened(kind) == Of(Chain, {kind}) # <<>>

InBook == OfferEvents(Chain) # <<>> /\ Last(OfferEvents(Chain)).kind = "write"

Mine(kind, amount, outcome, date) ==
  /\ Len(log) < MaxLog
  /\ log' = Append(log, [undo |-> FALSE, kind |-> kind, amount |-> amount,
                         outcome |-> outcome, date |-> date])
  /\ UNCHANGED <<pos, now, offerTables, stratTables>>

MineOrder == ~Happened("order") /\ \E a \in Gots : Mine("order", a, "success", 0)

MineWrite ==
  /\ Happened("order") /\ ~InBook
  /\ Happened("summary") => Happened("write")
  /\ Mine("write", 0, "success", 0)

MineSummary ==
  /\ Happened("order") /\ ~Happened("summary")
  /\ \E d \in Dates : Mine("summary", 0, "success", d)

MineTake ==
  /\ InBook /\ Happened("summary")
  /\ \E a \in Amounts, outcome \in Outcomes :
       a <= LeftOf(Chain) /\ Mine("take", a, outcome, 0)

MineRetract == Happened("write") /\ Happened("summary") /\ Mine("retract", 0, "success", 0)

MineExpiry == Happened("write") /\ \E d \in Dates : Mine("expiry", 0, "success", d)

TakeBack ==
  /\ Chain # <<>> /\ Len(log) < MaxLog
  /\ log' = Append(log, TakenBack(Last(Chain)))
  /\ UNCHANGED <<pos, now, offerTables, stratTables>>

Tick == now < MaxTime /\ now' = now + 1 /\ UNCHANGED <<log, pos, offerTables, stratTables>>

-----------------------------------------------------------------------------
(***************************************************************************)
(* The mangrove stream.                                                    *)
(***************************************************************************)
Indexed == expiryDates # <<>>

Written == [deleted |-> FALSE, retract |-> FALSE, taken |-> NoTake]

Retracted == [deleted |-> TRUE, retract |-> TRUE, taken |-> NoTake]

\* Mutant: a taken offer stays in the book.
TakenKept(e) ==
  [deleted |-> FALSE, retract |-> FALSE,
   taken |-> [amount |-> e.amount, failed |-> e.outcome = "failed",
              posthookFailed |-> e.outcome = "posthookFailed"]]

Taken(e) ==
  [deleted |-> TRUE, retract |-> FALSE,
   taken |-> [amount |-> e.amount, failed |-> e.outcome = "failed",
              posthookFailed |-> e.outcome = "posthookFailed"]]

addVersionedOffer(e) ==
  offerVersions' = Append(offerVersions,
    CASE e.kind = "write" -> Written [] e.kind = "retract" -> Retracted
      [] e.kind = "take"  -> Taken(e))

\* Mutant: the MangroveOrder stays behind without its last version.
deleteLatestVersionKeepsOrder ==
  expiryDates' = Front(expiryDates) /\ UNCHANGED restingOrder

\* The latest version of the MangroveOrder, which goes when it has no other.
deleteLatestVersionOfMangroveOrder ==
  /\ expiryDates' = Front(expiryDates)
  /\ restingOrder' = (restingOrder /\ Len(expiryDates) > 1)

deleteLatestMangroveOrderVersionUsingOfferId ==
  IF Indexed /\ restingOrder
  THEN deleteLatestVersionOfMangroveOrder ELSE UNCHANGED stratTables

\* An order that has a MangroveOrder is not deleted, and a version not that
\* an OfferWriteEvent or an OfferRetractEvent names: the stream is stuck.
Mangrove(e) ==
  \/ /\ e.kind = "order" /\ ~e.undo
     /\ order' = [got |-> e.amount]
     /\ UNCHANGED <<offerVersions, stratTables>>
  \/ /\ e.kind = "order" /\ e.undo
     /\ ~Indexed
     /\ order' = NoOrder
     /\ UNCHANGED <<offerVersions, stratTables>>
  \/ /\ e.kind # "order" /\ ~e.undo
     /\ addVersionedOffer(e)
     /\ UNCHANGED <<order, stratTables>>
  \/ /\ e.kind = "take" /\ e.undo
     /\ offerVersions' = Front(offerVersions)
     /\ deleteLatestMangroveOrderVersionUsingOfferId
     /\ UNCHANGED order

-----------------------------------------------------------------------------
(***************************************************************************)
(* The strats stream.                                                      *)
(***************************************************************************)
Millis(seconds) == 1000 * seconds

\* new Date(e.expiryDate * 1000); new Date(event.date), that takes seconds
\* for milliseconds.
SummaryDate(e) == Millis(e.date)
ExpiryDate(e)  == e.date

WroteBefore(i) == Of(ChainAt(log, i), {"write"}) # <<>>

\* The resting offer is that of the event, written before it or not at all.
\* A MangroveOrder that is there keeps its columns and gets a version.
OrderSummary(i) ==
  /\ restingOrder' = IF Indexed THEN restingOrder ELSE WroteBefore(i)
  /\ expiryDates' = Append(expiryDates, SummaryDate(log[i]))

\* Handled alike when it is undone, and dropped when there is no
\* MangroveOrder of the offer.
SetExpiry(e) ==
  /\ expiryDates' = IF Indexed /\ restingOrder
                    THEN Append(expiryDates, ExpiryDate(e)) ELSE expiryDates
  /\ UNCHANGED restingOrder

Strats(i) ==
  /\ \/ /\ log[i].kind = "summary" /\ ~log[i].undo
        /\ OrderSummary(i)
     \/ /\ log[i].kind = "summary" /\ log[i].undo
        /\ Indexed
        /\ deleteLatestVersionOfMangroveOrder
     \/ /\ log[i].kind = "expiry"
        /\ SetExpiry(log[i])
  /\ UNCHANGED offerTables

Handle(s) ==
  /\ \E i \in Upcoming([j \in DOMAIN log |-> StreamOf(log[j])], pos[s], s) :
       /\ pos' = [pos EXCEPT ![s] = i]
       /\ IF s = "mangrove" THEN Mangrove(log[i]) ELSE Strats(i)
  /\ UNCHANGED <<log, now>>

Next ==
  \/ MineOrder \/ MineWrite \/ MineSummary \/ MineTake \/ MineRetract \/ MineExpiry
  \/ TakeBack
  \/ Tick
  \/ \E s \in Streams : Handle(s)

Spec == Init /\ [][Next]_vars

-----------------------------------------------------------------------------
(***************************************************************************)
(* The query mangroveOrderOpenOrders.                                      *)
(***************************************************************************)

\* The versions of the offer that the MangroveOrder names, if it is there.
RestingVersions == IF restingOrder THEN offerVersions ELSE <<>>

TakenOffers == {n \in DOMAIN RestingVersions : RestingVersions[n].taken # NoTake}

Amount(n) == RestingVersions[n].taken.amount

\* What the takers gave for the versions ns.
TakenFor(versions, ns) == FoldSet(LAMBDA n, sum : sum + versions[n].taken.amount, 0, ns)

\* The versions of which a taker got something, and a posthook did not fail.
GoodTakes(versions) ==
  {n \in DOMAIN versions : /\ versions[n].taken # NoTake
                           /\ ~versions[n].taken.failed /\ ~versions[n].taken.posthookFailed}

\* Mutant: only what the current version was taken for.
TakerGotLatest ==
  order.got + TakenFor(RestingVersions, GoodTakes(RestingVersions) \cap {Len(RestingVersions)})

\* getTakerGot
TakerGot == order.got + TakenFor(RestingVersions, GoodTakes(RestingVersions))

IsFilled == TakerGot + Fee >= Wants

\* getIsFailed
Failed(version) == version.taken # NoTake /\ version.taken.failed

\* The date 0 is no date.
Expired == Last(expiryDates) # 0 /\ Last(expiryDates) < Millis(now)

\* Mutant: what is closed goes before what is filled.
StatusClosedFirst ==
  IF RestingVersions = <<>> THEN (IF IsFilled THEN "Filled" ELSE "Partial Fill")
  ELSE LET current == Last(RestingVersions) IN
    CASE current.retract \/ Expired -> "Cancelled"
      [] OTHER -> IF IsFilled THEN "Filled" ELSE IF current.deleted THEN "Partial Fill" ELSE "Open"

\* getStatus
Status ==
  IF RestingVersions = <<>> THEN (IF IsFilled THEN "Filled" ELSE "Partial Fill")
  ELSE LET current == Last(RestingVersions) IN
    IF IsFilled THEN "Filled"
    ELSE IF Failed(current) THEN "Failed"
    ELSE IF ~current.retract /\ ~current.deleted /\ ~Expired THEN "Open"
    ELSE IF current.retract \/ Expired THEN "Cancelled"
    ELSE "Partial Fill"

\* The query finds a MangroveOrder by the offer list of its order, and so leaves
\* it out as long as the order is not in the index.
Answered == Indexed /\ order # NoOrder

Shown == IF Answered THEN Status ELSE "none"

(***************************************************************************)
(* The view MangroveOrderFill.                                             *)
(***************************************************************************)

MangroveOrderFill ==
  IF order = NoOrder THEN {}
  ELSE IF ~Indexed THEN {[type |-> "MarketOrder", version |-> 0, amount |-> order.got]}
  ELSE {[type |-> "Limit", version |-> 0, amount |-> order.got]}
         \cup {[type |-> "Limit", version |-> n, amount |-> Amount(n)] : n \in TakenOffers}

-----------------------------------------------------------------------------
(***************************************************************************)
(* Properties.                                                             *)
(***************************************************************************)
Statuses == {"Filled", "Failed", "Open", "Cancelled", "Partial Fill"}

\* The tables hold rows of their types.
TypeOK ==
  /\ pos \in [Streams -> 0..Len(log)] /\ now \in 1..MaxTime
  /\ order \in [got : Gots] \cup {NoOrder}
  /\ offerVersions \in
       Seq([deleted : BOOLEAN, retract : BOOLEAN, taken : Takes \cup {NoTake}])
  /\ restingOrder \in BOOLEAN /\ (restingOrder => Indexed)
  /\ expiryDates \in Seq(Dates \cup {Millis(d) : d \in Dates})
  /\ Answered => Status \in Statuses

SeenBy(s) == ChainAt(log, pos[s])

CaughtUp(s) == \A i \in pos[s] + 1..Len(log) : StreamOf(log[i]) # s

\* The date last set on the chain, as a Date.
DateSet == Millis(Last(Of(Chain, {"summary", "expiry"})).date)

\* The status that the events on the chain come to.
StatusOfChain ==
  LET last == Last(OfferEvents(Chain))
      over == DateSet # 0 /\ DateSet < Millis(now)
  IN  IF FilledOf(Chain) + Fee >= Wants THEN "Filled"
      ELSE IF OfferEvents(Chain) = <<>> THEN "Partial Fill"
      ELSE IF last.kind = "take" /\ last.outcome = "failed" THEN "Failed"
      ELSE IF last.kind = "retract" \/ over THEN "Cancelled"
      ELSE IF last.kind = "write" THEN "Open"
      ELSE "Partial Fill"

\* Once both streams have handled all events, the status shown is that of
\* the chain, whatever was undone on the way and in whatever order the two
\* streams went; as long as the version that is left has the date last set.
StatusIsThatOfChain ==
  /\ Answered /\ Happened("summary") /\ \A s \in Streams : CaughtUp(s)
  /\ Last(expiryDates) = DateSet
  => Status = StatusOfChain

\* The fills listed are the order and every take of its offer that
\* survives, failed ones too, and what is shown as filled is what the good
\* ones of them come to; an order without a MangroveOrder is one fill.
FillsAreReplay ==
  LET offerEvents == OfferEvents(SeenBy("mangrove"))
      takes       == {n \in DOMAIN offerEvents : offerEvents[n].kind = "take"}
  IN  order # NoOrder /\ (restingOrder \/ takes = {}) =>
        /\ MangroveOrderFill =
             {[type |-> IF Indexed THEN "Limit" ELSE "MarketOrder", version |-> 0,
               amount |-> order.got]}
             \cup {[type |-> "Limit", version |-> n, amount |-> offerEvents[n].amount] :
                     n \in takes}
        /\ TakerGot = FilledOf(SeenBy("mangrove"))

Handles(kinds) ==
  \E s \in Streams : pos'[s] # pos[s]
                      /\ (log[pos'[s]].kind \in kinds \/ log[pos'[s]].undo)

\* An order that is shown as filled stays so, and one that is shown as
\* closed does not open again, with time or with the late events of the
\* other stream, unless its offer is written, its date set, or an event
\* undone.
ClosedStaysClosed ==
  [][/\ Shown = "Filled" /\ ~Handles({}) => Shown' = "Filled"
     /\ Shown \in Statuses \ {"Open"} /\ ~Handles({"write", "summary", "expiry"}) =>
          Shown' # "Open"]_vars

\* The expiry date in the index is the one last set (test "All Handlers",
\* where the date of a SetExpiry is in seconds as that of an OrderSummary).
ExpiryIsTheDateSet ==
  /\ Indexed /\ restingOrder /\ CaughtUp("strats")
  /\ \A i \in DOMAIN log : ~log[i].undo
  => Last(expiryDates) = DateSet

=============================================================================
