# Formal models of mangrove-offchain-server

The program reads the event streams that Proxima makes from a chain (tokens,
Mangrove, strategies, kandel), keeps an index of them in Postgres through
Prisma, and serves the index over GraphQL. The chain can reorganise: a stream
may carry an *undo* of an event, latest first, and the index has to go back to
what it was. What is hard is all in that: four streams with their own offsets,
retries and restarts write tables that refer to each other, and every event
needs an inverse.

This directory models that part. TLC checks the models on small instances;
TLAPS proves the theorems at the end for every value of the constants.

```
tlc -config MCKandel.cfg MCKandel         # one run; PROJECT.json lists them all
tlapm MangroveEntitiesProofs.tla          # one module of proofs
```

## 1. The system

| Component | State | Operations | Interacts with |
|---|---|---|---|
| Consumer process (`src/cmd/consumer.ts`) | stage, readers, attempts (in memory); table `Streams` | start, stages with preload, batches, retry, exit | Proxima (pull), every handler, container restart |
| Handler base (`prismaStateTransitionHandler.ts`) | — | `handle`: one database transaction for the effect of a batch and its offset | consumer, handlers, database |
| Versioned tables (`src/state/dbOperations`) | `X` and `XVersion` for each kind of entity | add a version, delete the latest one | all handlers |
| Mangrove handler | Mangrove, OfferListing, MakerBalance, TakerApproval, Offer, Order, TakenOffer, events | eight kinds of event and their undo | tokens, accounts, kandels, MangroveOrder |
| Strats handler | MangroveOrder and versions | OrderSummary, SetExpiry and their undo | orders, offers |
| Kandel handler | Kandel, versions, KandelConfiguration, KandelEvent, KandelOfferIndex | eight kinds of event and their undo; waits for the clock of the index | token balances, accounts, transactions |
| Token balances | TokenBalance, versions, TokenBalanceEvent | credit, debit, send, receive; the balances at a time | mangrove and kandel handlers |
| Token handler | Token | upsert; delete on undo | offer lists |
| Transactions, accounts, chains | Transaction, Account, Chain | find or create; is there a later transaction | everything |
| Read side (`src/resolvers`, `offerListingUtils.ts`, `KandelReturnUtils.ts`) | — | queries: status and fills of an order, offers at a time, history and return of a kandel | the index, the clock of the server |
| Ids (`src/state/model.ts`) | — | strings made from chain, addresses and numbers | everything |
| Number conversion, GraphQL server, configuration, logging, deployment | — | — | — |

How they interact: streams share nothing but the database. A batch of a stream
is handled in one transaction that also stores the offset, so a crash or a
failed commit repeats the batch from the stored offset. The transactions of
different streams run side by side; handlers rely on the rows of other streams
(an offer list on its tokens, a kandel event on its transaction being past) and
throw when they are not there, or when another transaction was first; the retry
is what makes them wait. When a stream is out of retries the process exits and
Kubernetes starts it again (`deploy/index.ts:104`). The read side queries the
tables whenever it is asked, so it sees two streams at positions that need not
fit together.

The schema has `relationMode = "prisma"`: there are no foreign keys. A row may
be created that names nothing; on a delete the client applies *Restrict* when
the referencing column is required and no action is stated, *SetNull* when it
is optional, *Cascade* where the schema says so. The models have the condition
of each delete as an operator `CanX`, or `XUnreferenced`.

What is hard, with its line, is listed under `hazards` in `PROJECT.json`:
retry after an acknowledged or lost commit; a preload that ends too early; the
undo of an event after other streams have written; rows read by one transaction
and changed by another before they are used; copies of old versions; events that
touch several entities; one stream deleting rows of another; rows left behind
that block a later delete; waits inside a transaction; answers put together from
tables of two streams, or by a time that is stored once.

What makes each component correct:

* **Consumer**: each event takes effect once, in order; a handler is not
  started before what it needs has been indexed, of what existed; nothing is
  left out for ever.
* **Handler base**: transactions that run side by side have the effect of some
  order of their events; who is refused is refused for a reason that lies in the
  events, and so passes when another stream has caught up, but for the
  cases under known deviations.
* **Versioned tables**: versions are numbered 0 up to the current one and linked;
  undo gives the old tables back, and is refused in no case but the known ones;
  the index is the replay of the events that survive (README of the repository,
  "Versioning of entities").
* **Offers, orders, MangroveOrders**: the offers shown are those on the chain;
  what an order took names the version in which it was taken; no row dangles;
  undoing one stream leaves what another stream has said.
* **Kandel**: configuration, admin, indexes and reserve balance are the replay
  of surviving events; histories show those events and no other; kandels with
  a shared reserve do not disturb each other.
* **Read side**: status, fills, offers at a time and the periods of a return are
  those of the surviving events, at least once the streams have caught up.

## 2. The modules

| Module | What it models |
|---|---|
| `Versioning` | the version pattern: `AddVersion`, `DeleteLatest`, when each throws |
| `EntityHistory` | abstract: an entity is the stack of the values it had |
| `MangroveEntities` | Mangroves, offer lists, provisions, approvals, the token stream beside them; implements `EntityHistory` |
| `OfferBook` | offers, orders, taken offers, MangroveOrders, balances: the mangrove and the strats stream on the tables they share |
| `Kandel` | the kandel stream, whole transactions done and taken back; the history of parameters and deposits |
| `StreamConsumer` | the process: stages, preload, batches, failed and lost commits, retries, crashes, restarts |
| `AtomicHandlers` | abstract: the tables that several streams write, an event in one step |
| `StreamSessions` | the same handlers statement by statement, in the transactions of several streams under READ COMMITTED |
| `Reorgs` | the log of a chain that is reorganised, as the streams carry it |
| `MangroveOrderStatus` | the status and the fills of a MangroveOrder, made of the tables of two streams |
| `KandelHistory` | what is read of the past by the time of transactions: offers, balances copied into kandel events, periods of a return |
| `MC…` | instances for TLC |
| `Lemmas` | on `AddVersion` and `DeleteLatest`; on folds over sequences, sums over finite sets, prefixes, `Front`, `Last` and `FlattenSeq`; on the chains a log goes through |
| `MangroveEntitiesProofs`, `StreamConsumerProofs`, `OfferBookProofs`, `KandelProofs`, `StreamSessionsProofs`, `MangroveOrderStatusProofs`, `KandelHistoryProofs` | theorems on the module each is named after |

`MangroveEntities`, `OfferBook`, `Kandel` and `AtomicHandlers` extend
`Versioning`. The first three take an event as one step because a batch is one
database transaction. What that leaves out is in two other modules. A
transaction fails, is repeated or is lost in `StreamConsumer`, where an event is
only its position in the stream. It meets transactions of other streams in
`StreamSessions`, on the rows that more than one stream writes: what is
committed there must be an outcome of `AtomicHandlers` for the same events in
some order of the streams (`Serialisable`). Put together: handlers are applied
once and in order, side by side is as one by one, and the other modules say what
a sequence of handlers does. `MangroveOrderStatus` and `KandelHistory` are about
what is then read. They have the chain itself (`log`), which grows and is taken
back, and each stream at a position of its own on it (`pos`).

### State and code

* `d.current[id]` is the `currentVersionId` of a row, `Null` when there is no
  row; `d.version[id][n]` is the row with primary key `id-n`. `prev` and `tx` of
  a row are `prevVersionId` and `txId`; `val` is everything else that a property
  can tell apart.
* A handler that throws changes nothing, and is an action that is not enabled.
  Whether an undo is enabled when it should be is a property
  (`UndoFailsOnlyForApprovedLists`, `UndoNeverFails`). In `StreamSessions` a throw
  is a step, the rollback.
* In `MangroveEntities`, `OfferBook` and `Kandel`, `log` holds the events that
  were handled and not undone, with what they found in the tables (`before`). It
  is history for the properties and it tells which event the chain takes back:
  the latest of its stream. `OfferBook` has one such log for each of its two
  streams, and they are independent.
* One action is one handler with all it calls. Names are those of the code
  (`addVersionedKandel`, `deleteKandelConfigIfNotUsed` as `DeleteUnusedConfig`).
  The `map` of `PROJECT.json` gives the lines.
* In `StreamConsumer`: `offset` is `Streams`; `pos`, `target`, `attempts` and
  `phase` are the local state of `handleStreamLinks`; `applied` is the
  index. `Handle` is a batch that commits,
  `Reject` one that throws, `Fault` a failure before the commit, or after it and
  so reported as one.
* In `StreamSessions`: `db` is what is committed, `pending[s]` what the
  transaction of stream `s` has written, `todo[s]` the statements it has left.
  A statement that reads may add statements (`Follow`), with the row it has read
  in its hands: so a handler goes on with what it saw. A look-up that a handler
  makes twice in a row is one statement.
* In `MangroveOrderStatus` and `KandelHistory` the tables are sequences of the
  columns that are read; which undo is refused is taken from `OfferBook`, and the
  stream then stays where it is.

### What the models leave out

* Ids are model values: that two entities never share one is an assumption
  (`model.ts` keeps only six characters of a token address in some of them).
* `MangroveEntities`: one token event at a time; the queries of one interactive
  transaction run in the order in which they are issued, so a batch is no more.
  Of the rows that name a Mangrove or an offer list, and so refuse its delete,
  it has offer lists, provisions and approvals (`Naming`). Offers, orders and
  their events also name them. They belong to `OfferBook`, where the offer list
  is there: the contract takes no offer for a list that has no parameters, so
  they come after, and are gone before these are undone. The undo of a write is
  refused as it is (`write_undo`), and nothing before it is then undone.
  MangroveOrders and kandels, which name a Mangrove too, are rows of other
  streams: such an undo has to wait for these to be undone.
* `OfferBook`: offer lists are there; prices, volumes of offers and
  `parentOrder` are left out, balances are kept. Whether the maker is a kandel
  with a reserve, which depends on what the kandel stream has written by then,
  is a constant (`ReserveOf`). The `deleteRetractEventIfNoReferences` family has
  no effect: the columns it looks at are never set.
* `Kandel`: offers and tokens are there; the copies of balances in populate and
  retract rows (`KandelHistory` has them), and rows of the mangrove stream that
  name a kandel's account, are left out. Assumed of the contracts: a kandel is
  created once, an offer is given an index once. A uuid is a number not in use.
* `StreamConsumer`: one chain, one process, and a height is a position in the
  stream: that several events have the same height is not modelled.
* `StreamSessions`: of the tables, those that two streams write (transactions,
  accounts, orders, MangroveOrders); the others have one writer, but for `Chain`,
  which is left out. Columns
  other than the version links are left out. The database is PostgreSQL with
  its default isolation, and is modelled from its documented behaviour.
* `MangroveOrderStatus`: one MangroveOrder, amounts of one token, no paging and
  no prices. `KandelHistory`: one kandel with two offers of its own, orders
  that each send one unit, one direction; no rates and percentages.
* Not modelled at all: the resolvers that list rows as they are (offers of a
  kandel, home page, failed offers, populates and retracts), number conversion,
  server, configuration, logging, migrations, deployment. They have no state and
  no step that another could come between; ids and number conversion are string
  and decimal arithmetic.

## 3. The runs

| Run | States | Shows |
|---|---|---|
| `entities` | 256 thousand | versions chained, no undo refused but that of an offer list which an approval already names, tables restored row for row, index = replay of the survivors, and the tables implement `EntityHistory` |
| `consumer` | 586 thousand | each event applied once and in order through crashes, failed commits and commits reported as failed; no handler misses an event that existed at start (`PreloadCoversNeeds`); every event is handled in the end, a kandel event once there is a later transaction |
| `offer_book` | 430 thousand | offers = chain, taken offers name the version that the order made, no dangling row, undo of an order restores its offers |
| `kandel` | 256 thousand | configurations and shared reserve = replay, histories = survivors after whole transactions are taken back, each with the value it replaced, deposits shown add up, no dangling row, undo restores |
| `stream_sessions` | 16 thousand | side by side is as one by one (`Serialisable`); a transaction that no other has overtaken is atomic, and only one that was overtaken may leave a version without a predecessor; a handler that was not overtaken throws only for an event that is refused by itself; all events are handled in the end, but for the summary of a MangroveOrder that the undo of an order has deleted |
| `history` | 224 thousand | offers at a time, balances in kandel events, periods and offered volumes of a return are those of the surviving orders |
| `order_status` | 472 thousand | the status is that of the chain once both streams have caught up, fills = surviving takes, what is closed stays closed |

`TypeOK` is the one type invariant of each module. `CHECK_DEADLOCK FALSE` stands
where a bound ends the behaviour, or an undo is refused (a finding).

The remaining runs end in a violation; each shows a place where the code and
something the repository says disagree. The quotes are in `findings`.

| Run | What happens |
|---|---|
| `stale_txid` | a second version of a provision, approval or offer list keeps the `txId` of the first |
| `write_undo` | the undo of an OfferWritten is refused, as its own event row names the version to delete |
| `lost_summary` | undoing an order that took a resting offer deletes the MangroveOrder of that offer |
| `session_race` | a SetExpiry, beside the undo of an order that took the offer, creates the deleted MangroveOrder anew with a version that has no predecessor |
| `set_expiry` | the date of a SetExpiry is stored 1000 times too early, and the order is shown as cancelled |

### Known deviations

A passing property is stated of what the code does achieve. Where the code does
less than one would expect, and no run is spent on it, the property says so in
its premise or its comment:

* Undoing an order leaves the balance versions it added (`orderOperations.ts:22`):
  `SnapshotsComplete` and `PeriodsAreReplay` are about histories without such
  an undo. A take that failed is booked like one that did not, and `balance` of
  an outbound token becomes what was sent *minus* the old balance.
* Undoing a SetExpiry adds a version (`mangroveOrderEventHandler.ts:57`):
  `StatusIsThatOfChain` asks for the date that is left to be the one last set.
* Undos of writes and retracts are refused (`write_undo`), so
  `UndoRestoresOffers` is about orders, and `BookIsReplay` replays what was
  written and not undone.
* The undo of a Populate leaves the indexes of its offers, which block the undo
  of the NewKandel and the same populate on the new chain. SetParams with an
  admin or a router makes a version with the old ones, and one with several
  parameters is listed as one of them (`ParametersAreReplay`).
* A transaction keeps the time at which it was first seen, also when it comes
  back in another block (`transactionOperations.ts:20`): `OffersAtTime`.
* The wait of the kandel stream is ended by a transaction of any stream, also by
  one that is then undone; events let through that way have balances that are
  too low (`SnapshotsComplete` leaves them out, `early`).
* `KandelReturnUtils` orders events by a column that populates and retracts lack:
  `PeriodsAreReplay` holds for every order, in which a period that ends before it
  starts counts orders negatively. The last period may take the balance of the
  kandel stream, in which nothing was ever sent: the property is about kandels
  without such a balance.
* The list of fills has failed takes, and `filled` does not count takes whose
  posthook failed, although the taker got them: `FillsAreReplay` says both.
* A token or mangrove stream that is empty when the process starts is left out
  until the next start, and nothing but an exit brings that about
  (`consumer.ts:61`): `EventuallyIndexed` exempts it.
* The query for open orders leaves out a MangroveOrder whose order is not in the
  index yet, since it looks for the offer list of the order (`Answered`).
* An approval may be handled before its offer list is in the index, and names it
  then. The undo of the first parameters of the list is refused while the
  approval is there (`TakerApproval.offerListing` is required), and as the
  approval came first, it is not undone before: the mangrove stream is stopped.
  `UndoFailsOnlyForApprovedLists` says that this is the only case.
* When an order that took a resting offer and the summary of that offer are both
  undone, and the mangrove stream comes first, the MangroveOrder is gone
  (`lost_summary`) and the undo of the summary throws at every try: the strats
  stream is stopped. `AllHandledUnlessLost` says that nothing else stops a
  stream in the scripts of the run (`SummaryLost`).
* A MangroveOrder whose version count was raised by an undone SetExpiry is left
  over when its summary is undone. If the strats stream indexes a new summary
  with the same order id before the mangrove stream has undone the order, that
  undo stays refused. `AllHandledUnlessLost` is checked with another order in
  its place.

### Bounds

* `MaxLog`, `MaxEvents`, `MaxStratEvents` of the first three modules: surviving
  events at a time, not steps: undo makes room, so sequences of doing and undoing
  are not limited. Four events let one entity have four versions, or two entities
  interleave with two each. `MangroveEntities` has five, as the creation of the
  Mangrove comes before all others.
* `MaxVersion = 3` is the largest version number, which four events cannot
  exceed (of the fifth in `MangroveEntities`, it leaves out a fifth version of the
  Mangrove). In `StreamConsumer` two token events and `BatchSize`
  two make a full batch, a partial one, and a batch cut short by the end of a
  preload.
* `MaxFaults = 1`, `Retries = 1`: a fault at any step, then a retry that also
  runs out. The exit for want of retries is not counted as a fault and happens
  without bound.
* In the offer book one order places the resting offer of a MangroveOrder and
  another takes it, one maker is a kandel with a separate reserve. The kandels
  share a reserve, which is where one could disturb the other. One amount and
  one value of a parameter suffice, as a value is compared with its absence.
* `MaxConfig = 4`: one configuration for each of at most four versions.
* `StreamSessions`: two streams, scripts of two or three events that meet on the
  same rows (what they make sure of, in opposite orders; an order and its
  summary; an undone order and the summaries of others; the same with the summary
  of the taken offer undone too; expiries), batches of
  one or two, one fault. Two streams suffice for a lost update and for a cycle
  of two. The kandel stream, the third that writes some of these rows, only makes
  sure of them, but for the account of a kandel that it deletes again
  (`UndoNewKandel` in `Kandel`).
* `MaxLog` of `KandelHistory` (5) and `MangroveOrderStatus` (7) counts entries of
  the log, those that take back included. Five are a populate, an order, a
  retract and an event taken back, with one more event; seven an order, its
  offer, its summary, a take that is taken back, and two more events. `MaxTime` of
  `KandelHistory` is 2: before, at, and after. Its three orders are alike, so
  they are symmetric.

### Fairness

`FairSpec` of `StreamConsumer`:

* weak fairness of `Start` (the container is restarted), of going on to the
  next stage, of opening a reader, of handling a batch, for each stream: a
  process that runs goes on;
* strong fairness of the steps of the strats stream (open, handle a full batch,
  throw), which the kandel stream beside it disables again and again by ending
  the process. It is justified by the times involved: the wait of the kandel
  handler lasts until the transaction times out, five minutes later, a retry is
  delayed by a second, and a batch of the strats stream takes much less than
  that;
* nothing about batches that are not full (a reader returns all it has), about
  faults, and about new events. So a kandel event needs a *later transaction*, as
  in the code: `KandelEventuallyIndexed` asks for nothing before there is one,
  while `EventuallyIndexed` holds for the other streams whatever the kandel
  stream waits for.

`FairSpec` of `StreamSessions`: weak fairness of beginning a transaction and of
the next statement, for each stream. Two batches that lock the same rows in
opposite orders could meet in the same deadlock for ever; they do not, because
the transaction that the database spares goes on at once, while the other is
begun again after the delay of a retry, a second or more. This is the variable
`woken`: after a deadlock nobody begins before the spared stream has taken a
step. From then on anybody may begin, and meets its locks.

## 4. What is proved

The theorems hold for any entities, values, events, faults and bounds, under
the `ASSUME`s of the modules (types of the constants, bounds in `Nat`), which
TLC evaluates in the runs. Those a reader should know of are listed under
`theorems` in `PROJECT.json`. Of each component one inductive invariant `IInv`
is proved (`Init => IInv`, `IInv /\ [Next]_vars => IInv'`), one lemma for each
action, and the properties of the run follow from it. TLC has checked every
`IInv` on the instance of the run before it was proved, but for a part of that of
`StreamSessions` which quantifies over functions (see there).

`Lemmas` has what these proofs share, in three parts.

*Versions.* Lemmas on `AddVersion` and `DeleteLatest` for any ids and rows;
`DeleteInvertsAdd`: in a chained database, deleting right after adding gives the
same database. `AddEach` and `DeleteEach` carry such a lemma over to a set of
entities.

*Folds.* An index that is the replay of a log is a fold over the log. The
provers cannot instantiate an induction theorem with an operator, so the
induction is done by hand: a set of naturals that is not empty has a least member
(`LeastNatural`), hence what is true of 0 and kept by every step is true up to
`n` (`CountUp`), and the same by the number of members of a finite set (`BySize`).
From that, a fold has a trace, the function of its intermediate values
(`FoldTrace`), and so has a sum over a finite set (`SumExists`). Each component
has its own instance of the trace, as the operator folded cannot be a parameter:
`TotalTrace`, `ConfigTrace` and `SumTrace` in `KandelProofs`, `BalancesTrace` in
`OfferBookProofs`, `OfTrace` and `GotTrace` in `MangroveOrderStatusProofs`,
`OrdersTrace` in `KandelHistoryProofs`; `TraceAppend` says that one more element
is one more step. `PrefixOfAppend` and `PrefixOfPrefix` are what makes replay fit
an undo: the log without its last event is a prefix that the invariant already
speaks of. `FlattenPrefixes` takes a script of statements apart where one handler
ends and the next begins.

*Chains.* What survives of a log is such a fold too (`SurvivingTrace`): an entry
makes the chain longer by itself, or shorter by the last one.

### MangroveEntities

`TypeCorrect`, `Chains`, `UndoSucceedsOrIsRefused`, `UndoIsInverse`,
`IndexReplayed` and `Refinement`, from

    IInv == TypeOK /\ VersionsChained /\ LogRestorable /\ LogInTables
            /\ CreatedFirst /\ ListingsHaveTokens /\ LogReplayed

`VersionsChained` alone is not enough for undo: one has to know that the tables
*before* each event of the log come out of deleting the version that event made,
all the way down. `LogRestorable` says that of every position of the log, with
the tables of the next position; an undo then only drops the last. That the undo
of an offer list finds its tokens is `ListingsHaveTokens`, kept by the token
stream because a token with offer lists is not deleted. That no row names what
it deletes, with the one exception, is `LogInTables` (an entity has a row when
the log has an event of it, and no row otherwise) with `CreatedFirst` (the
creation of a Mangrove is in the log before any event that names it): when the
creation is the latest event, nothing that names the Mangrove has a row, and
what names an offer list is an approval whose event came before. `LogReplayed` says what
each event did to the fields that are shown, against the tables it found;
`IndexReplayed` goes from there to the latest event that set a field, or the
sum of the changes of a balance. `Refinement` maps a kind of entity to the stack
of the `val` of its versions: an event is a `Push`, an undo a `Pop`, a token
event a stutter.

### StreamConsumer

`ConsumerTypeCorrect`, and `ExactlyOnce`, that the index holds the events up
to the stored offset, each once and in order. The step that needs an invariant
is a batch: it appends what follows the *reader*, so one must know that a
reader which is open stands at the stored offset (`ReaderAtOffset`). That
includes the retry after a commit that was reported as failed, since it opens a
new reader.

`PreloadCovers`, that no handler misses an event that was there when the process
started. It needs `StagesInOrder`: a stream that has left its preload has
stored an offset that is not before its target, the streams of earlier stages
have left it, and those of later stages are not being read. Between two starts
a target stays and an offset never goes back (`OffsetsGrow`), so what holds when
a stage ends holds for as long as the process lives.

### OfferBook

`TypeCorrect`, `ChainsOfVersions`, `BookReplayed`, `TakenOffersReplayed`,
`NoDanglingReferences` and `UndoRestoresBook`, from

    IInv == TypeOK /\ VersionsChained /\ ReferencesResolve
            /\ BooksChained /\ LogUndoable /\ RowsStay /\ OffersReplayed
            /\ TakenFromBook /\ OrdersReplayed /\ TakenReplayed

An order adds a version to each offer it takes and several to one balance, and
its undo deletes only the former: the balances are chained, but not those of the
log, so `BooksChained` and `LogUndoable` are about the offers after each prefix
of the log. `RowsStay`: while an event survives, the version it made keeps its
row, whatever comes later; so what a taken offer names is there.
`TakenFromBook`, `OrdersReplayed` and `TakenReplayed` say that an order is in
the log once and that its taken offers are those it found in the book, so that
an undo removes its own and no others. `OffersReplayed` is `BookIsReplay` for
each prefix, which is what an undo leads back to. The actions of the strats
stream leave all of this as it is (`LogKept`); their part is types, chains and
references, with the conditions of their deletes.

### Kandel

`TypeCorrect`, `ConfigOfOneVersion`, `ConfigReplayed`, `ReserveBalanceReplayed`,
`HistoryOfSurvivors`, `NoDanglingReferences` and `UndoRestoresTables`, from

    IInv == TypeOK /\ VersionsChained /\ ConfigsOwned /\ LogUndoable
            /\ ReferencesResolve /\ ConfigsReplayed /\ BalancesReplayed
            /\ VersionsCounted /\ TransactionsInOrder /\ RowsOfSurvivors

* `ConfigsOwned`: a configuration is referenced by one version. A parameter
  event makes a new one and its undo deletes the one of the version deleted
  if no other names it; both are right only if nobody shares.
* `LogUndoable`: the tables before each event come out of the undo of it, as in
  `MangroveEntities`, with configurations, balances and deposits.
* `ConfigsReplayed`, `BalancesReplayed`: the tables after each prefix are its
  replay. For a reserve it is one sum over the events of all kandels with it.
* `VersionsCounted`: a kandel has as many versions as the prefix has creations
  and parameter events of it. It tells which version is whose event.
* `TransactionsInOrder`, `RowsOfSurvivors`: the undo takes the rows of all
  events of a transaction at its first step, although their effects go one by
  one. Between these steps only events of that transaction may lack a row.

A second invariant stands on top, `Shown == DepositsListed /\
VersionsKept /\ CreatedFirst`, for `DepositsShown` and `ParametersShown`. What
is *shown* is not what the log says: a deposit names the balance version it made,
and a parameter is compared with the version before it, both still in the tables.
So `DepositsListed` says of every prefix that the rows shown add up to the
balance; `VersionsKept` that the version a prefix ended in still has the
configuration, the admin and the router of then; and `CreatedFirst` that
the version before a parameter event exists.

### StreamSessions

`SessionTypes`, `AtomicWithoutRaces` and `UnlinkedOnlyByRaces`, for any scripts,
from

    IInv == Inv /\ UntilOvertaken

`Inv` has the types, and what is left of each transaction: nothing, or the rest
of the statement list of one event in one of a few forms (`Underway`), followed by
the statement lists of whole events. A null where a number is expected could only
come from a MangroveOrder that its own transaction is about to delete
(`NoNulls`). `UntilOvertaken` says that until another transaction commits, what a
transaction has done is an initial part of what its events do when nobody
interferes, begun on rows whose versions are chained. Each kind of event has a
lemma that its statements, one after the other, have the effect of its one step in
`AtomicHandlers` (`Ran`, `EventRun`, `EventsRun`). So a transaction that is not
overtaken commits what `AtomicHandlers` says, and chained rows remain chained.

`UntilOvertaken` quantifies over all functions that trace such a run, which TLC
cannot enumerate; it checked `Inv` and the two properties.

### MangroveOrderStatus

`StatusTypes`, `FillsReplayed`, `StatusReplayed` and `ClosedForGood`, from

    IInv == Types /\ Grounded(log)
            /\ Replayed(SeenBy("mangrove"), order, offerVersions)
            /\ Named(restingOrder, expiryDates, SeenBy("strats"))

The two streams are at positions of their own, so each table is said to be the
replay of what its stream has *seen*: the events up to its position that survive
there. `Grounded` says of each entry of the log that it may follow the chain that
is left before it. Going from one entry of a stream to the next skips those of the
other: these change the chain, but not the part of it that the stream looks at
(`OtherSkipped`). That is not obvious, since an event taken back is the last of
the *chain*, whatever its stream. `Replayed` has the order, the versions of the
offer one for one, and what was got as a sum (`TakersAppend`). `Named` is what an
answer made of both streams needs: a MangroveOrder without an offer has one
version, and was summarised before any offer was written; from then on none is
(`NeverWritten`). With both streams at the end, what they have seen is the chain,
which gives the status. `ClosedForGood` is proved from the same invariant by cases
on the event that is handled.

### KandelHistory

`HistoryTypes`, `OffersOfThePast`, `SendsOfThePast` and `ReturnsReplayed`, for
any number of transactions, offers and times, from

    IInv == Types /\ Grounded(log) /\ RowsStored /\ Recorded
            /\ VersionsReplayed /\ SendsCounted /\ AllLeft
            /\ EventsListed /\ Snapshots

The readers go by time, the tables by the order of handling. What ties the two
is that a chain is ordered by time and has a transaction once (`ChainOrdered`,
from `Grounded`), so that the orders up to a time are *the first* of all orders
that the mangrove stream has seen (`SplitAll`). `VersionsReplayed`: the versions
of the offer are those orders, one for one, so `VersionAt` finds the last of the
past (`VersionAtPast`), and this is `OffersAtTime`.

`LatestSend` goes by time *and* number; without an undo the balances are the
versions (`SendsCounted`), and it counts the orders of the past
(`LatestSendPast`). That a balance copied into an event stays right is
`PastClosed`, for each event in `Snapshots`: some order that is seen is later
than the event. Another order comes behind that one, hence is not of the past of
the event (`PastStays`). To have it when the event is handled one needs that the
order which ended the wait is among those seen and left (`AllLeft`), and that it
is stored (`Recorded`). `EventsListed` says that an event in the tables is on the
chain, so that a transaction is not stored a second time beside its event.

The periods are lists made of other lists; `PeriodsAre` says what is in each,
`AllSent` that the balance of now has all orders. The volume that is carried over
is a recursive function; `LatestGivesStep` gives its values, the latest volume
for each offer, and so `OfferedAreLatest`.

Two definitions could not be proved about as they stood, and were wrong. In
`StatusOfChain` of `MangroveOrderStatus`, arms of a `CASE` overlapped, which
leaves the choice open; and `LatestSend` took the *earliest* version of the past,
where the code sorts by time and number in descending order, a difference
that did not show on an instance with few orders.

### Model-checked only

* Liveness (`EventuallyIndexed`, `KandelEventuallyIndexed`, `AllHandledUnlessLost`) and
  whatever speaks of `ENABLED`: out of the prover's reach.
* `Serialisable` and `ThrowsOnlyWhenRefused` of `StreamSessions`. The first is
  about overtaken transactions, and depends on which rows the events of two
  scripts share: `session_race` shows scripts for which it fails. The second is
  `AtomicWithoutRaces` for a transaction that ends in a throw; its proof would
  need the converse of what is proved of the statements, that those of an event
  which is not refused can all be done.
* The runs that end in a violation.

## 5. Plan

What is left, in the order in which it seems worth doing:

1. reserves: orders of the mangrove stream that arrive before or after the
   kandel they concern, with the balance of the reserve written by both streams
   (`OfferBook` composed with `Kandel`; `ReserveOf` becomes what the index says
   at that time), and the undo of a kandel whose account has balances;
2. abstract specification for the offer book (a set of open offers
   under write, retract, take and their undo) that `OfferBook` implements as far
   as its undos are not refused;
3. for which pairs of scripts `Serialisable` holds, as a condition on the rows
   that their events share, and its proof.
