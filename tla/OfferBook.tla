------------------------------ MODULE OfferBook ------------------------------
(***************************************************************************)
(* The two streams that keep the offer book of a Mangrove in the index:    *)
(*                                                                         *)
(*   - the mangrove stream with OfferWritten, OfferRetracted and           *)
(*     OrderCompleted (its other events are in MangroveEntities.tla);      *)
(*   - the strats stream with OrderSummary and SetExpiry, which keep the   *)
(*     MangroveOrder a taker placed through the order strategy: the order  *)
(*     it took and the offer it left resting on the opposite list.         *)
(*                                                                         *)
(* Each stream undoes its latest events when the chain is reorganised, and *)
(* neither waits for the other.  An event is handled in one database       *)
(* transaction, so an action is a whole event; a handler that throws       *)
(* changes nothing and is tried again, which is the action not being       *)
(* enabled.  The offer lists are taken to be in the index, prices and      *)
(* amounts of offers and the parentOrder column are left out, and what is  *)
(* on the chain is read off the events that survive.                       *)
(***************************************************************************)
EXTENDS Versioning, FiniteSets, SequencesExt

CONSTANTS
  Offers, Orders, MangroveOrders,   \* ids
  Accounts, Tokens,
  ListOf,          \* the offer list of an offer
  Inbound, Outbound,   \* the tokens of an offer list
  MakerOf,         \* the maker of an offer
  TakerOf,         \* the taker of an order
  ReserveOf,       \* the reserve of a kandel; the account itself otherwise
  OrderOf,         \* the order of a MangroveOrder
  RestingOf,       \* the offer a MangroveOrder left, or NoOffer
  NoOffer,
  Gave, Got,       \* what the taker gives and gets per taken offer
  Dates,           \* expiry dates
  Tx,              \* transactions
  MaxEvents, MaxStratEvents   \* bounds on the surviving events of a stream

NoOrder == "none"    \* the order of an event that is none

Lists     == {ListOf[f] : f \in Offers}
BalanceId == Accounts \X Tokens

ASSUME BookAssumption ==
  /\ ListOf \in [Offers -> Lists]
  /\ Inbound \in [Lists -> Tokens] /\ Outbound \in [Lists -> Tokens]
  /\ \A l \in Lists : Inbound[l] # Outbound[l]
  /\ MakerOf \in [Offers -> Accounts] /\ TakerOf \in [Orders -> Accounts]
  /\ ReserveOf \in [Accounts -> Accounts]
  /\ OrderOf \in [MangroveOrders -> Orders]
  /\ RestingOf \in [MangroveOrders -> Offers \cup {NoOffer}]
  /\ NoOffer \notin Offers /\ NoOrder \notin Orders
  /\ Gave \in Nat /\ Got \in Nat /\ Dates \subseteq Nat
  /\ MaxEvents \in Nat /\ MaxStratEvents \in Nat

\* The columns of the three version tables.
OfferVal   == [deleted : BOOLEAN, live : BOOLEAN, isRetracted : BOOLEAN]
BalanceVal == [received : Int, send : Int, balance : Int]
Rows(Vals) == [prev : Number \cup {Null}, tx : Tx, val : Vals]

ASSUME MarkersAssumption ==
  NoRow \notin Rows(OfferVal) \cup Rows(BalanceVal) \cup Rows(Dates)

VARIABLES
  offers,          \* tables Offer and OfferVersion
  events,          \* tables OfferWriteEvent and OfferRetractEvent
  orders,          \* table Order
  takenOffers,     \* table TakenOffer
  balances,        \* tables TokenBalance and TokenBalanceVersion
  balanceEvents,   \* table TokenBalanceEvent
  mangroveOrders,  \* tables MangroveOrder and MangroveOrderVersion
  expiryEvents,    \* table MangroveOrderSetExpiryEvent
  accounts,        \* table Account
  transactions,    \* table Transaction
  log,             \* the events of the mangrove stream handled and not
                   \* undone, with the offers each one found
  stratLog         \* those of the strats stream

orderTables == <<orders, takenOffers, balances, balanceEvents>>
stratTables == <<mangroveOrders, expiryEvents>>
vars == <<offers, events, orderTables, stratTables, accounts, transactions, log, stratLog>>

Init ==
  /\ offers = EmptyTables(Offers) /\ events = {}
  /\ orders = {} /\ takenOffers = {}
  /\ balances = EmptyTables(BalanceId) /\ balanceEvents = {}
  /\ mangroveOrders = EmptyTables(MangroveOrders) /\ expiryEvents = {}
  /\ accounts = {} /\ transactions = {} /\ log = <<>> /\ stratLog = <<>>

-----------------------------------------------------------------------------
(***************************************************************************)
(* Offers.                                                                 *)
(***************************************************************************)

\* The three update functions of addVersionedOffer: written, retracted and
\* taken; the last one changes a copy of the current version.
WrittenVal == [deleted |-> FALSE, live |-> TRUE, isRetracted |-> FALSE]

\* Mutant: the update leaves a column out.
RetractedValPartial == [deleted |-> TRUE, live |-> FALSE]

RetractedVal == [deleted |-> TRUE, live |-> FALSE, isRetracted |-> TRUE]

\* Mutant: a taken offer stays in the book.
TakenValKept(f) == Current(offers, f).val

TakenVal(f) == [Current(offers, f).val EXCEPT !.deleted = TRUE]

NewVersion(f) == [offer |-> f, n |-> offers.current[f] + 1]

\* The events name their offer version; both relations are required, so
\* such a version cannot be deleted.  One a taken offer names can: that row
\* goes with it (Cascade), but the order has taken it along already.
Latest(f) == [offer |-> f, n |-> offers.current[f]]

\* Mutant: the delete does not look at the rows of the events.
CanDeleteLatestOfferVersionUnrestricted(f) == CanDeleteLatest(offers, f)

canDeleteLatestOfferVersion(f) ==
  /\ CanDeleteLatest(offers, f)
  /\ Latest(f) \notin events

-----------------------------------------------------------------------------
(***************************************************************************)
(* MangroveOrders.                                                         *)
(***************************************************************************)
RestingOn(S) ==
  {m \in MangroveOrders : Exists(mangroveOrders, m) /\ RestingOf[m] \in S}

\* Deletes the latest version of the MangroveOrders in S, with the
\* SetExpiryEvents that name one of them (Cascade).
deleteLatestVersionOfMangroveOrders(S) ==
  /\ \A m \in S : CanDeleteLatest(mangroveOrders, m)
  /\ mangroveOrders' = OnEach(DeleteLatest, mangroveOrders, S)
  /\ expiryEvents' =
       {e \in expiryEvents :
          ~(e.order \in S /\ e.n = mangroveOrders.current[e.order])}

addMangroveOrderVersion(m, tx, date) ==
  /\ CanAddVersion(mangroveOrders, m)
  /\ mangroveOrders' = AddVersion(mangroveOrders, m, tx, date)

-----------------------------------------------------------------------------
(***************************************************************************)
(* The balances an order changes: for each taken offer the maker's inbound *)
(* and outbound token, and those of the reserve when the maker is a kandel *)
(* with a reserve of its own.                                              *)
(***************************************************************************)
BookedFor(f, account) ==
  << [id |-> <<account, Inbound[ListOf[f]]>>, offer |-> f, inbound |-> TRUE],
     [id |-> <<account, Outbound[ListOf[f]]>>, offer |-> f, inbound |-> FALSE] >>

Booked(f) ==
  LET maker == MakerOf[f] IN
  IF ReserveOf[maker] = maker THEN BookedFor(f, maker)
  ELSE BookedFor(f, maker) \o BookedFor(f, ReserveOf[maker])

Bookings(taken) == FlattenSeq([i \in 1..Len(taken) |-> Booked(taken[i])])

Balance(d, id) ==
  IF Exists(d, id) THEN Current(d, id).val
  ELSE [received |-> 0, send |-> 0, balance |-> 0]

\* addNewInboundBalanceWithEvent; addNewOutboundBalanceWithEvent, where the
\* old balance is taken from what the taker got.
NewBalance(d, b) ==
  IF b.inbound
  THEN [Balance(d, b.id) EXCEPT !.received = Gave + @, !.balance = Gave + @]
  ELSE [Balance(d, b.id) EXCEPT !.send = Got + @, !.balance = Got - @]

\* The version that the i-th of the bookings B creates.
BookedVersion(B, i) ==
  balances.current[B[i].id] + Cardinality({j \in 1..i : B[j].id = B[i].id})

addBalances(o, tx, B) ==
  /\ \A i \in 1..Len(B) : BookedVersion(B, i) \in Number
  /\ balances' =
       FoldLeft(LAMBDA d, b : AddVersion(d, b.id, tx, NewBalance(d, b)), balances, B)
  /\ balanceEvents' = balanceEvents \cup
       {[order |-> o, offer |-> B[i].offer, id |-> B[i].id,
         n |-> BookedVersion(B, i)] : i \in 1..Len(B)}

-----------------------------------------------------------------------------
(***************************************************************************)
(* The mangrove stream.  Anyone may write an offer, new or not; only the   *)
(* offers there are can be retracted, and only those in the book taken.    *)
(***************************************************************************)
Touches(e, f) == f \in ToSet(e.offers)

Created(f) == \E i \in 1..Len(log) : Touches(log[i], f)

\* The surviving event that touched f last.
LastOn(f) ==
  log[CHOOSE i \in 1..Len(log) :
        Touches(log[i], f) /\ \A j \in (i + 1)..Len(log) : ~Touches(log[j], f)]

InBook(f) == Created(f) /\ LastOn(f).kind = "written"

ensureTransaction(tx) == transactions' = transactions \cup {tx}

Handled(kind, o, fs, tx) ==
  /\ Len(log) < MaxEvents
  /\ log' = Append(log, [kind |-> kind, order |-> o, offers |-> fs, tx |-> tx,
                         before |-> offers])
  /\ ensureTransaction(tx)

OfferWritten(f, tx) ==
  /\ accounts' = accounts \cup {MakerOf[f]}
  /\ CanAddVersion(offers, f)
  /\ offers' = AddVersion(offers, f, tx, WrittenVal)
  /\ events' = events \cup {NewVersion(f)}
  /\ Handled("written", NoOrder, <<f>>, tx)
  /\ UNCHANGED <<orderTables, stratTables, stratLog>>

\* addVersionedOffer has no initial values here: the offer must be known.
OfferRetracted(f, tx) ==
  /\ Created(f)
  /\ Exists(offers, f)
  /\ CanAddVersion(offers, f)
  /\ offers' = AddVersion(offers, f, tx, RetractedVal)
  /\ events' = events \cup {NewVersion(f)}
  /\ Handled("retracted", NoOrder, <<f>>, tx)
  /\ UNCHANGED <<orderTables, stratTables, accounts, stratLog>>

\* Mutant: the taken offer names the version that was taken, not the one
\* that says so.
MapTakenCurrent(o, f) ==
  [order |-> o, offer |-> f, n |-> offers.current[f]]

mapTakenOffer(o, f) ==
  [order |-> o, offer |-> f, n |-> offers.current[f] + 1]

\* The versions are added one by one and have to be the ones that the taken
\* offers name, which an offer that is taken twice would not be.
createOrder(o, tx, taken) ==
  /\ o \notin orders
  /\ IsInjective(taken)
  /\ \A f \in ToSet(taken) : Exists(offers, f) /\ CanAddVersion(offers, f)
  /\ orders' = orders \cup {o}
  /\ takenOffers' = takenOffers \cup {mapTakenOffer(o, f) : f \in ToSet(taken)}
  /\ LET Take(d, f) == AddVersion(d, f, tx, TakenVal(f))
     IN  offers' = OnEach(Take, offers, ToSet(taken))

OrderCompleted(o, taken, tx) ==
  /\ \A f \in ToSet(taken) : InBook(f)
  /\ \A f, g \in ToSet(taken) : ListOf[f] = ListOf[g]
  /\ createOrder(o, tx, taken)
  /\ addBalances(o, tx, Bookings(taken))
  /\ accounts' = accounts \cup {TakerOf[o]} \cup {b.id[1] : b \in ToSet(Bookings(taken))}
  /\ Handled("completed", o, taken, tx)
  /\ UNCHANGED <<events, stratTables, stratLog>>

LatestEvent == log[Len(log)]

\* What the undo of the latest event needs in order not to throw.  The
\* relation of MangroveOrder to Order is required: Restrict.
UndoAccepted ==
  /\ \A f \in ToSet(LatestEvent.offers) : canDeleteLatestOfferVersion(f)
  /\ \A m \in MangroveOrders :
       Exists(mangroveOrders, m) => OrderOf[m] # LatestEvent.order

\* Mutant: only the first taken offer is put back.
UndoneFirst(e) == IF e.offers = <<>> THEN {} ELSE {Head(e.offers)}

\* The offers whose latest version the undo of an event deletes.
Undone(e) == ToSet(e.offers)

\* onDelete: Cascade, from Order to TakenOffer to TokenBalanceEvent.
OfOtherOrders(rows) == {r \in rows : r.order # LatestEvent.order}

\* The undo of the three events: an order is deleted with its taken offers
\* (and their TokenBalanceEvents, but no balance), then the latest version
\* of each offer, and, unless the event was a write, the latest version of
\* every MangroveOrder whose resting offer it is.
UndoMangroveEvent ==
  /\ log # <<>>
  /\ UndoAccepted
  /\ offers' = OnEach(DeleteLatest, offers, Undone(LatestEvent))
  /\ orders' = orders \ {LatestEvent.order}
  /\ takenOffers' = OfOtherOrders(takenOffers)
  /\ balanceEvents' = OfOtherOrders(balanceEvents)
  /\ deleteLatestVersionOfMangroveOrders(
       IF LatestEvent.kind = "written" THEN {} ELSE RestingOn(Undone(LatestEvent)))
  /\ log' = Front(log)
  /\ ensureTransaction(LatestEvent.tx)
  /\ UNCHANGED <<events, balances, accounts, stratLog>>

-----------------------------------------------------------------------------
(***************************************************************************)
(* The strats stream.  An order has one summary; the expiry of a resting   *)
(* offer is set when it is written, before the summary, and later at will. *)
(***************************************************************************)
StratHandled(kind, m, date, tx) ==
  /\ Len(stratLog) < MaxStratEvents
  /\ ensureTransaction(tx)
  /\ stratLog' = Append(stratLog, [kind |-> kind, id |-> m, date |-> date])

OrderSummary(m, date, tx) ==
  /\ \A i \in 1..Len(stratLog) : stratLog[i].kind = "summary" => stratLog[i].id # m
  /\ addMangroveOrderVersion(m, tx, date)
  /\ StratHandled("summary", m, date, tx)
  /\ UNCHANGED <<offers, events, orderTables, expiryEvents, accounts, log>>

\* addMangroveOrderVersionFromOfferId: without a MangroveOrder for the offer
\* the event is dropped.
setExpiry(f, date, tx) ==
  \/ /\ RestingOn({f}) = {}
     /\ UNCHANGED stratTables
  \/ \E m \in RestingOn({f}) :
       /\ addMangroveOrderVersion(m, tx, date)
       /\ expiryEvents' = expiryEvents \cup
            {[order |-> m, n |-> mangroveOrders.current[m] + 1]}

SetExpiry(f, date, tx) ==
  /\ setExpiry(f, date, tx)
  /\ StratHandled("expiry", f, date, tx)
  /\ UNCHANGED <<offers, events, orderTables, accounts, log>>

LatestStrat == stratLog[Len(stratLog)]

\* The handler of SetExpiry is not told that it is an undo.
UndoStratEvent(tx) ==
  /\ stratLog # <<>>
  /\ \/ /\ LatestStrat.kind = "summary"
        /\ deleteLatestVersionOfMangroveOrders({LatestStrat.id})
     \/ /\ LatestStrat.kind = "expiry"
        /\ setExpiry(LatestStrat.id, LatestStrat.date, tx)
  /\ stratLog' = Front(stratLog)
  /\ ensureTransaction(tx)
  /\ UNCHANGED <<offers, events, orderTables, accounts, log>>

Resting == {RestingOf[m] : m \in MangroveOrders} \ {NoOffer}

\* The offers an order may take, in the order it takes them.
Takes == SeqOf(Offers, Cardinality(Offers))

Next ==
  \/ \E tx \in Tx :
       \/ \E f \in Offers : OfferWritten(f, tx) \/ OfferRetracted(f, tx)
       \/ \E o \in Orders, taken \in Takes : OrderCompleted(o, taken, tx)
       \/ \E m \in MangroveOrders, date \in Dates : OrderSummary(m, date, tx)
       \/ \E f \in Resting, date \in Dates : SetExpiry(f, date, tx)
       \/ UndoStratEvent(tx)
  \/ UndoMangroveEvent

Spec == Init /\ [][Next]_vars

-----------------------------------------------------------------------------
(***************************************************************************)
(* Properties.                                                             *)
(***************************************************************************)

Event ==
  LET Of(kinds, os) ==
        [kind : kinds, order : os, offers : Seq(Offers), tx : Tx,
         before : Tables(Offers, Rows(OfferVal))]
  IN  Of({"written", "retracted"}, {NoOrder}) \cup Of({"completed"}, Orders)

StratEvent ==
  [kind : {"summary"}, id : MangroveOrders, date : Dates]
    \cup [kind : {"expiry"}, id : Resting, date : Dates]

\* The tables hold rows of their types.
TypeOK ==
  /\ offers \in Tables(Offers, Rows(OfferVal))
  /\ events \subseteq [offer : Offers, n : Number]
  /\ orders \subseteq Orders
  /\ takenOffers \subseteq [order : Orders, offer : Offers, n : Number]
  /\ balances \in Tables(BalanceId, Rows(BalanceVal))
  /\ balanceEvents \subseteq
       [order : Orders, offer : Offers, id : BalanceId, n : Number]
  /\ mangroveOrders \in Tables(MangroveOrders, Rows(Dates))
  /\ expiryEvents \subseteq [order : MangroveOrders, n : Number]
  /\ accounts \subseteq Accounts /\ transactions \subseteq Tx
  /\ log \in Seq(Event) /\ stratLog \in Seq(StratEvent)

\* Whatever the two streams do and undo, in whatever order, the versions of
\* every offer, MangroveOrder and balance are numbered from 0 to the current
\* one, each linked to the one before it (README.md, "Versioning of
\* entities").
VersionsChained ==
  /\ \A f \in Offers : Chained(offers, f)
  /\ \A m \in MangroveOrders : Chained(mangroveOrders, m)
  /\ \A id \in BalanceId : Chained(balances, id)

\* The book in the index is the book on the chain: an offer is shown as gone
\* exactly when the last surviving event on it took or retracted it, and its
\* latest version is of the transaction of that event.
BookIsReplay ==
  \A f \in Offers :
    /\ Exists(offers, f) <=> Created(f)
    /\ Created(f) =>
         /\ Current(offers, f).val.deleted <=> ~InBook(f)
         /\ Current(offers, f).val.isRetracted <=> LastOn(f).kind = "retracted"
         /\ Current(offers, f).tx = LastOn(f).tx

\* The taken offers are those of the surviving orders, and each names the
\* version that the order itself gave the offer, following one that was in
\* the book.
TakenOffersOfOrders ==
  /\ {<<t.order, t.offer>> : t \in takenOffers} =
       UNION {{<<log[i].order, f>> : f \in ToSet(log[i].offers)} :
                i \in {j \in 1..Len(log) : log[j].kind = "completed"}}
  /\ \A t \in takenOffers :
       /\ t.n > 0
       /\ offers.version[t.offer][t.n] # NoRow
       /\ offers.version[t.offer][t.n].val.deleted
       /\ offers.version[t.offer][t.n - 1] # NoRow
       /\ ~offers.version[t.offer][t.n - 1].val.deleted

\* No row is left behind that names a row that is gone, although nothing in
\* the database checks it: events and their versions, taken offers and their
\* order, balances and what changed them, expiries and MangroveOrders, all
\* versions and their transactions, and whatever belongs to an account.
ReferencesResolve ==
  /\ \A n \in Number :
       /\ \A f \in Offers : offers.version[f][n] # NoRow =>
            offers.version[f][n].tx \in transactions
       /\ \A m \in MangroveOrders : mangroveOrders.version[m][n] # NoRow =>
            mangroveOrders.version[m][n].tx \in transactions
  /\ \A f \in Offers : Exists(offers, f) => MakerOf[f] \in accounts
  /\ \A id \in BalanceId : Exists(balances, id) => id[1] \in accounts
  /\ \A o \in orders : TakerOf[o] \in accounts
  /\ \A e \in events : offers.version[e.offer][e.n] # NoRow
  /\ \A t \in takenOffers : t.order \in orders
  /\ \A b \in balanceEvents :
       /\ balances.version[b.id][b.n] # NoRow
       /\ \E t \in takenOffers : t.order = b.order /\ t.offer = b.offer
  /\ \A e \in expiryEvents : mangroveOrders.version[e.order][e.n] # NoRow

\* Undoing an order, however many offers it took, puts every offer back to
\* what it was when the order was handled, row for row.
UndoRestoresOffers == [][Len(log') < Len(log) => offers' = LatestEvent.before]_vars

\* The stream can always undo its latest event, once no MangroveOrder of the
\* strats stream is in the way (README.md: on undo of an event that created
\* a version, that version is deleted).
UndoNeverFails ==
  /\ log # <<>>
  /\ \A m \in MangroveOrders : ~Exists(mangroveOrders, m)
  => UndoAccepted

\* A MangroveOrder is in the index as long as its summary is not undone:
\* undoing an event of the mangrove stream only takes away versions which
\* that event created.
SummariesAreIndexed ==
  \A i \in 1..Len(stratLog) :
    stratLog[i].kind = "summary" => Exists(mangroveOrders, stratLog[i].id)

-----------------------------------------------------------------------------
(***************************************************************************)
(* The inductive invariant behind the properties of offers and orders: an  *)
(* undo brings back an earlier state, so it speaks of the state after      *)
(* every prefix of the log.                                                *)
(***************************************************************************)
After(i) == IF i = Len(log) THEN offers ELSE log[i + 1].before

\* The versions of the offers have been chained all along.
BooksChained == \A i \in 0..Len(log), f \in Offers : Chained(After(i), f)

\* The undo of event i makes of the offers it left what it found: one
\* version less of each offer it touched.
LogUndoable ==
  \A i \in 1..Len(log) :
    /\ \A f \in Undone(log[i]) :
         Exists(After(i), f) /\ After(i).current[f] = log[i].before.current[f] + 1
    /\ OnEach(DeleteLatest, After(i), Undone(log[i])) = log[i].before

\* A version stays what it is for as long as its event survives.
RowsStay ==
  \A i \in 0..Len(log) : \A j \in i..Len(log) : \A f \in Offers, n \in Number :
    After(i).version[f][n] # NoRow => After(j).version[f][n] = After(i).version[f][n]

\* What an event makes of an offer it touches.
Shown(kind) ==
  CASE kind = "written"   -> WrittenVal
    [] kind = "retracted" -> RetractedVal
    [] OTHER              -> [WrittenVal EXCEPT !.deleted = TRUE]

\* j is the last of the first i events that touched f.
LastTouch(f, j, i) ==
  Touches(log[j], f) /\ \A k \in (j + 1)..i : ~Touches(log[k], f)

OffersReplayed ==
  \A i \in 0..Len(log), f \in Offers :
    /\ Exists(After(i), f) <=> \E j \in 1..i : Touches(log[j], f)
    /\ \A j \in 1..i :
         LastTouch(f, j, i) =>
           /\ Current(After(i), f).val = Shown(log[j].kind)
           /\ Current(After(i), f).tx = log[j].tx

Completed == {i \in 1..Len(log) : log[i].kind = "completed"}

\* An order takes offers from the book, each of them once.
TakenFromBook ==
  \A i \in Completed : \A f \in Undone(log[i]) :
    Exists(log[i].before, f) /\ ~Current(log[i].before, f).val.deleted

OrdersReplayed ==
  /\ orders = {log[i].order : i \in Completed}
  /\ \A i, j \in Completed : log[i].order = log[j].order => i = j

TakenBy(i) ==
  {[order |-> log[i].order, offer |-> f, n |-> log[i].before.current[f] + 1] :
     f \in Undone(log[i])}

TakenReplayed == takenOffers = UNION {TakenBy(i) : i \in Completed}

IInv ==
  /\ TypeOK /\ VersionsChained /\ ReferencesResolve
  /\ BooksChained /\ LogUndoable /\ RowsStay /\ OffersReplayed
  /\ TakenFromBook /\ OrdersReplayed /\ TakenReplayed

=============================================================================
