------------------------------- MODULE Kandel -------------------------------
(***************************************************************************)
(* The kandel stream handler: the kandels with their versions and          *)
(* configurations, the events a kandel shows in its history, the indexes   *)
(* of its offers, and the balance of the reserve it draws on, which        *)
(* kandels of one owner may share.                                         *)
(*                                                                         *)
(* The events of a transaction follow each other in the stream, and a      *)
(* reorganisation of the chain takes back whole transactions, latest event *)
(* first.  An event is handled in one database transaction, so an action   *)
(* is a whole event; a handler that throws changes nothing and is tried    *)
(* again, which is the action not being enabled.                           *)
(*                                                                         *)
(* Offers and tokens are taken to be in the index (an offer, once written, *)
(* never leaves it: see OfferBook.tla), the balances that a populate or a  *)
(* retract event copies from the mangrove stream are left out, and so are  *)
(* the rows of that stream which may refer to the account of a kandel.     *)
(***************************************************************************)
EXTENDS Versioning, FiniteSets, SequencesExt

CONSTANTS
  Kandels, Tokens, Offers,
  Vaults,          \* accounts that are reserves and no kandels
  ReserveOf,       \* the reserve of a kandel, possibly itself
  KandelOf,        \* the kandel whose offer it is
  CreateFields,    \* sets of parameters a NewKandel may carry
  ParamsFields,    \* sets of parameters a SetParams may carry
  ParamValue, Amount,
  Undefined,       \* a parameter an event does not carry
  MaxConfig,       \* bound on the configurations kept at a time
  MaxLog           \* bound on the surviving events

Accounts  == Kandels \cup Vaults
BalanceId == Accounts \X Tokens
TxIds     == 1..MaxLog
NoTx      == 0

\* The parameters of a configuration (a pair of values counts as one), and
\* those that a NewKandel event sets.
ConfigField == {"compoundRates", "gasPrice", "gasReq", "geometric", "length"}
InitialField == {"compoundRates", "gasPrice", "gasReq"}
Field        == ConfigField \cup {"router", "admin"}

ASSUME KandelAssumption ==
  /\ ReserveOf \in [Kandels -> Accounts] /\ KandelOf \in [Offers -> Kandels]
  /\ CreateFields \subseteq SUBSET Field /\ ParamsFields \subseteq SUBSET Field
  /\ \A F \in CreateFields : "admin" \in F
  /\ ParamValue \subseteq Nat \ {0} /\ Amount \subseteq Nat
  /\ Undefined \notin Int
  /\ MaxConfig \in Nat /\ MaxLog \in Nat

ConfigId   == 1..MaxConfig
ConfigVal  == [ConfigField -> Nat]
KandelVal  == [config : ConfigId, admin : Int, router : Int]
BalanceVal == [deposit : Int, withdrawal : Int, balance : Int]
Rows(Vals) == [prev : Number \cup {Null}, tx : TxIds, val : Vals]

BalanceEvent ==
  [id : BalanceId, n : Number, kind : {"Credit", "Debit"}, source : Kandels,
   amount : Amount]

ASSUME MarkersAssumption ==
  /\ NoRow \notin Rows(KandelVal) /\ NoRow \notin Rows(BalanceVal)
  /\ NoRow \notin ConfigVal

VARIABLES
  kandels,        \* tables Kandel and KandelVersion
  configs,        \* table KandelConfiguration
  kandelEvents,   \* table KandelEvent with the tables of its details
  offerIndexes,   \* table KandelOfferIndex: the transaction of an offer's row
  balances,       \* tables TokenBalance and TokenBalanceVersion
  balanceEvents,  \* TokenBalanceEvent with its deposit or withdrawal
  accounts,       \* table Account
  transactions,   \* table Transaction
  log,            \* the events handled and not undone, with what they found
  undoing         \* the transaction of which some events are undone, or NoTx

tables == <<kandels, configs, kandelEvents, offerIndexes, balances, balanceEvents,
            accounts>>
vars   == <<tables, transactions, log, undoing>>

Init ==
  /\ kandels = EmptyTables(Kandels)
  /\ configs = [c \in ConfigId |-> NoRow]
  /\ kandelEvents = {}
  /\ offerIndexes = [o \in Offers |-> NoTx]
  /\ balances = EmptyTables(BalanceId) /\ balanceEvents = {}
  /\ accounts = {} /\ transactions = {}
  /\ log = <<>> /\ undoing = NoTx

-----------------------------------------------------------------------------
(***************************************************************************)
(* Kandels and their configurations.  Each version is given a new          *)
(* configuration (its id, a uuid, is the least that is free).              *)
(***************************************************************************)
NewConfig == CHOOSE c \in ConfigId :
  configs[c] = NoRow /\ \A b \in 1..(c - 1) : configs[b] # NoRow

createNewKandelConfiguration(config) ==
  /\ \E c \in ConfigId : configs[c] = NoRow
  /\ configs' = [configs EXCEPT ![NewConfig] = config]

\* mapSetParamsToKandelConfiguration.
InitialConfig(params) ==
  [f \in ConfigField |->
     IF f \in InitialField /\ params[f] # Undefined THEN params[f] ELSE 0]

\* Mutant: what an update leaves out is reset.
OverridesReset(config, params) ==
  [f \in ConfigField |-> IF params[f] = Undefined THEN 0 ELSE params[f]]

\* Mutant: what an update leaves out is stored as such.
OverridesUndefined(config, params) == [f \in ConfigField |-> params[f]]

\* getKandelConfigWithOverrides.
Overrides(config, params) ==
  [f \in ConfigField |-> IF params[f] = Undefined THEN config[f] ELSE params[f]]

addVersionedKandel(k, tx, val) ==
  /\ CanAddVersion(kandels, k)
  /\ kandels' = AddVersion(kandels, k, tx, val)

\* Mutant: the configuration of a deleted version stays.
DeleteUnusedConfigNever(id) == UNCHANGED configs

\* deleteKandelConfigIfNotUsed, after the deletion of a version.
DeleteUnusedConfig(id) ==
  LET used == \E k \in Kandels, n \in Number :
        /\ kandels'.version[k][n] # NoRow
        /\ kandels'.version[k][n].val.config = id
  IN  configs' = IF used THEN configs ELSE [configs EXCEPT ![id] = NoRow]

\* Mutant: the event that names the version is left behind.
EventsWithoutLatestAll(k) == kandelEvents

\* The events that remain when the latest version of k goes: the one that
\* names it goes with it (Cascade).
EventsWithoutLatest(k) ==
  {e \in kandelEvents : ~(e.kandel = k /\ e.version = kandels.current[k])}

deleteLatestKandelVersion(k) ==
  /\ CanDeleteLatest(kandels, k)
  /\ kandels' = DeleteLatest(kandels, k)
  /\ kandelEvents' = EventsWithoutLatest(k)
  /\ DeleteUnusedConfig(Current(kandels, k).val.config)

-----------------------------------------------------------------------------
(***************************************************************************)
(* The events of the stream.                                               *)
(***************************************************************************)
LastEvent == log[Len(log)]

\* The transactions the next event of the stream can be of.
NextTx == IF log = <<>> THEN {1} ELSE {LastEvent.tx, LastEvent.tx + 1} \cap TxIds

Nothing == [f \in Field |-> Undefined]

\* The tables that the undo of an event has to put back.
Snapshot ==
  [kandels |-> kandels, configs |-> configs, balances |-> balances,
   balanceEvents |-> balanceEvents]

Handled(kind, k, tx, params, token, amount, S) ==
  /\ Len(log) < MaxLog
  /\ undoing = NoTx
  /\ log' = Append(log,
       [kind |-> kind, kandel |-> k, tx |-> tx, params |-> params, token |-> token,
        amount |-> amount, offers |-> S,
        before |-> Snapshot])
  /\ transactions' = transactions \cup {tx}
  /\ UNCHANGED undoing

\* createKandelEvent and the row with its details; the id, a uuid, is the
\* position of the event in the log.
KandelEvent(k, tx, n, kind, value, S) ==
  [id |-> Len(log) + 1, kandel |-> k, tx |-> tx, version |-> n, kind |-> kind,
   value |-> value, offers |-> S]

createKandelEvent(k, tx, n, kind, value, S) ==
  kandelEvents' = kandelEvents \cup {KandelEvent(k, tx, n, kind, value, S)}

Created(k) == \E i \in 1..Len(log) : log[i].kind = "new" /\ log[i].kandel = k

NoToken == "none"

\* ensureAccount of the reserve and, in addVersionedKandel, of the kandel.
EnsuredAccounts(k) == {ReserveOf[k], k}

NewKandel(k, tx, params) ==
  /\ ~Created(k)
  /\ ~Exists(kandels, k)
  /\ accounts' = accounts \cup EnsuredAccounts(k)
  /\ createNewKandelConfiguration(InitialConfig(params))
  /\ addVersionedKandel(k, tx,
       [config |-> NewConfig, admin |-> params["admin"],
        router |-> IF params["router"] = Undefined THEN Null ELSE params["router"]])
  /\ createKandelEvent(k, tx, 0, "new", 0, {})
  /\ Handled("new", k, tx, params, NoToken, 0, {})
  /\ UNCHANGED <<offerIndexes, balances, balanceEvents>>

\* createKandelParamsEvent: the first that is carried is what the event is
\* shown as.
ParamsKinds ==
  <<"gasReq", "gasPrice", "length", "compoundRates", "geometric", "router", "admin">>

ParamsKind(params) ==
  ParamsKinds[SelectInSeq(ParamsKinds, LAMBDA f : params[f] # Undefined)]

\* The configuration changes, and nothing else of the version does.
SetParams(k, tx, params) ==
  /\ Exists(kandels, k)
  /\ params # Nothing
  /\ LET old == Current(kandels, k).val IN
       /\ configs[old.config] # NoRow
       /\ createNewKandelConfiguration(Overrides(configs[old.config], params))
       /\ addVersionedKandel(k, tx, [old EXCEPT !.config = NewConfig])
  /\ createKandelEvent(k, tx, kandels.current[k] + 1, ParamsKind(params),
                       params[ParamsKind(params)], {})
  /\ Handled("params", k, tx, params, NoToken, 0, {})
  /\ UNCHANGED <<offerIndexes, balances, balanceEvents, accounts>>

\* getReserveAddress and the TokenBalanceId that handleDepositWithdrawal
\* builds from it.
ReserveBalance(k, t) == <<ReserveOf[k], t>>

NoBalance == [deposit |-> 0, withdrawal |-> 0, balance |-> 0]

\* Mutant: a debit adds to the balance.
NewBalanceAdds(old, kind, amount) ==
  IF kind = "Credit"
  THEN [old EXCEPT !.deposit = @ + amount, !.balance = @ + amount]
  ELSE [old EXCEPT !.withdrawal = @ + amount, !.balance = @ + amount]

NewBalance(old, kind, amount) ==
  IF kind = "Credit"
  THEN [old EXCEPT !.deposit = @ + amount, !.balance = @ + amount]
  ELSE [old EXCEPT !.withdrawal = @ + amount, !.balance = @ - amount]

\* handleDepositWithdrawal, for a Credit and for a Debit.
DepositWithdrawal(kind, k, tx, t, amount) ==
  LET id  == ReserveBalance(k, t)
      old == IF Exists(balances, id) THEN Current(balances, id).val ELSE NoBalance
  IN  /\ Exists(kandels, k)
      /\ ReserveOf[k] \in accounts
      /\ CanAddVersion(balances, id)
      /\ balances' = AddVersion(balances, id, tx, NewBalance(old, kind, amount))
      /\ balanceEvents' = balanceEvents \cup
           {[id |-> id, n |-> balances.current[id] + 1, kind |-> kind,
             source |-> k, amount |-> amount]}
      /\ Handled(kind, k, tx, Nothing, t, amount, {})
      /\ UNCHANGED <<kandels, configs, kandelEvents, offerIndexes, accounts>>

\* The details of a retract copy the balances of the kandel's account.
Retract(k, tx, S) ==
  /\ Exists(kandels, k)
  /\ k \in accounts
  /\ createKandelEvent(k, tx, Null, "retract", 0, S)
  /\ Handled("retract", k, tx, Nothing, NoToken, 0, S)
  /\ UNCHANGED <<kandels, configs, offerIndexes, balances, balanceEvents, accounts>>

\* The contract gives an offer an index once.
Indexed(o) ==
  \E i \in 1..Len(log) :
    o \in log[i].offers /\ log[i].kind \in {"populate", "mapping"}

\* createOfferIndex, for the offers of S: offerId is unique.
createOfferIndex(S, tx) ==
  /\ \A o \in S : offerIndexes[o] = NoTx
  /\ offerIndexes' = [o \in Offers |-> IF o \in S THEN tx ELSE offerIndexes[o]]

\* Every offer that is new comes with its index.
Populate(k, tx, S) ==
  /\ Exists(kandels, k)
  /\ k \in accounts
  /\ createKandelEvent(k, tx, Null, "populate", 0, S)
  /\ createOfferIndex({o \in S : ~Indexed(o)}, tx)
  /\ Handled("populate", k, tx, Nothing, NoToken, 0, S)
  /\ UNCHANGED <<kandels, configs, balances, balanceEvents, accounts>>

SetIndexMapping(k, tx, o) ==
  /\ ~Indexed(o)
  /\ Exists(kandels, k)
  /\ createOfferIndex({o}, tx)
  /\ Handled("mapping", k, tx, Nothing, NoToken, 0, {o})
  /\ UNCHANGED <<kandels, configs, kandelEvents, balances, balanceEvents, accounts>>

-----------------------------------------------------------------------------
(***************************************************************************)
(* The undo of each.                                                       *)
(***************************************************************************)

\* After the undo of the last event: which transaction is half undone.
Undone ==
  /\ log' = Front(log)
  /\ undoing' = IF Len(log) > 1 /\ log[Len(log) - 1].tx = LastEvent.tx THEN LastEvent.tx ELSE NoTx
  /\ transactions' = transactions \cup {LastEvent.tx}

\* Mutant: the kandel is deleted whatever still names it.
KandelUnreferencedAlways(k) == TRUE

\* No row refers to a kandel but its latest version and the event of that:
\* onDelete is Restrict for the kandel's events, offer indexes, deposits and
\* withdrawals.
KandelUnreferenced(k) ==
  /\ EventsWithoutLatest(k) \cap {e \in kandelEvents : e.kandel = k} = {}
  /\ \A o \in Offers : KandelOf[o] = k => offerIndexes[o] = NoTx
  /\ \A b \in balanceEvents : b.source # k

\* deleteAccount, after the kandel is gone: no other kandel has it as its
\* reserve, and no balance is kept of it.
CanDeleteAccount(k) ==
  /\ k \in accounts
  /\ \A l \in Kandels \ {k} : Exists(kandels, l) => ReserveOf[l] # k
  /\ \A t \in Tokens : ~Exists(balances, <<k, t>>)

UndoNewKandel(k) ==
  /\ KandelUnreferenced(k)
  /\ CanDeleteAccount(k)
  /\ deleteLatestKandelVersion(k)
  /\ accounts' = accounts \ {k}
  /\ UNCHANGED <<offerIndexes, balances, balanceEvents>>

UndoSetParams(k) ==
  /\ deleteLatestKandelVersion(k)
  /\ UNCHANGED <<offerIndexes, balances, balanceEvents, accounts>>

\* Mutant: the event of the first version goes.
BalanceEventsWithoutOldest(id) ==
  {b \in balanceEvents : b.id # id \/ b.n # 0}

\* The balance event of the version goes with it (Cascade), and with that
\* the deposit or withdrawal.
BalanceEventsWithoutLatest(id) ==
  {b \in balanceEvents : b.id # id \/ b.n # balances.current[id]}

UndoDepositWithdrawal(k, t) ==
  LET id == ReserveBalance(k, t) IN
  /\ Exists(kandels, k)
  /\ ReserveOf[k] \in accounts
  /\ CanDeleteLatest(balances, id)
  /\ balances' = DeleteLatest(balances, id)
  /\ balanceEvents' = BalanceEventsWithoutLatest(id)
  /\ UNCHANGED <<kandels, configs, kandelEvents, offerIndexes, accounts>>

\* deleteAllKandelEventsForTransaction deletes the events of all kandels.
\* The index of an offer is left to the deletion of the offer.
UndoRetractOrPopulate(k, tx) ==
  /\ Exists(kandels, k)
  /\ kandelEvents' = {e \in kandelEvents : e.tx # tx}
  /\ UNCHANGED <<kandels, configs, offerIndexes, balances, balanceEvents, accounts>>

\* deleteOfferIndex.
UndoSetIndexMapping(k, o) ==
  /\ Exists(kandels, k)
  /\ offerIndexes[o] # NoTx
  /\ offerIndexes' = [offerIndexes EXCEPT ![o] = NoTx]
  /\ UNCHANGED <<kandels, configs, kandelEvents, balances, balanceEvents, accounts>>

Undo ==
  /\ log # <<>>
  /\ \/ LastEvent.kind = "new" /\ UndoNewKandel(LastEvent.kandel)
     \/ LastEvent.kind = "params" /\ UndoSetParams(LastEvent.kandel)
     \/ LastEvent.kind \in {"Credit", "Debit"} /\ UndoDepositWithdrawal(LastEvent.kandel, LastEvent.token)
     \/ /\ LastEvent.kind \in {"retract", "populate"}
        /\ UndoRetractOrPopulate(LastEvent.kandel, LastEvent.tx)
     \/ /\ LastEvent.kind = "mapping"
        /\ \E o \in LastEvent.offers : UndoSetIndexMapping(LastEvent.kandel, o)
  /\ Undone

\* The parameters an event carries.
Params(Fields) ==
  {[f \in Field |-> IF f \in F THEN v ELSE Undefined] : F \in Fields, v \in ParamValue}

OffersOf(k) == {o \in Offers : KandelOf[o] = k}

Next ==
  \/ \E k \in Kandels, tx \in NextTx :
       \/ \E p \in Params(CreateFields) : NewKandel(k, tx, p)
       \/ \E p \in Params(ParamsFields) : SetParams(k, tx, p)
       \/ \E t \in Tokens, amount \in Amount :
            \/ DepositWithdrawal("Credit", k, tx, t, amount)
            \/ DepositWithdrawal("Debit", k, tx, t, amount)
       \/ \E S \in SUBSET OffersOf(k) : Retract(k, tx, S) \/ Populate(k, tx, S)
       \/ \E o \in OffersOf(k) : SetIndexMapping(k, tx, o)
  \/ Undo

Spec == Init /\ [][Next]_vars

-----------------------------------------------------------------------------
(***************************************************************************)
(* The history of a kandel, as KandelHistoryResolver shows it.             *)
(***************************************************************************)
Column(val, f) ==
  CASE f = "admin" -> val.admin [] f = "router" -> val.router
    [] OTHER -> configs[val.config][f]

\* Mutant: the old value is read from the version that has the new one.
OldValueOfVersion(e) == Column(kandels.version[e.kandel][e.version].val, e.kind)

\* The value in prevVersion.
OldValue(e) ==
  LET rows == kandels.version[e.kandel]
  IN  Column(rows[rows[e.version].prev].val, e.kind)

kandelParameters(k) ==
  {[version |-> e.version, type |-> e.kind, value |-> e.value, prevVersion |-> OldValue(e)] :
     e \in {f \in kandelEvents : f.kandel = k /\ f.kind \in Field}}

kandelDepositWithdraw(k, t) ==
  {b \in balanceEvents : b.source = k /\ b.id[2] = t}

-----------------------------------------------------------------------------
(***************************************************************************)
(* Properties.                                                             *)
(***************************************************************************)

Snapshots ==
  [kandels : Tables(Kandels, Rows(KandelVal)),
   configs : [ConfigId -> ConfigVal \cup {NoRow}],
   balances : Tables(BalanceId, Rows(BalanceVal)),
   balanceEvents : SUBSET BalanceEvent]

VersionKinds == {"new", "params"}
ShownKinds   == VersionKinds \cup {"retract", "populate"}

Event ==
  [kind : ShownKinds \cup {"Credit", "Debit", "mapping"}, kandel : Kandels,
   tx : TxIds, params : [Field -> ParamValue \cup {Undefined}],
   token : Tokens \cup {NoToken}, amount : Amount \cup {0}, offers : SUBSET Offers,
   before : Snapshots]

\* The tables hold rows of their types.
TypeOK ==
  /\ kandels \in Tables(Kandels, Rows(KandelVal))
  /\ configs \in [ConfigId -> ConfigVal \cup {NoRow}]
  /\ \A e \in kandelEvents :
       e.kandel \in Kandels /\ e.tx \in TxIds /\ e.version \in Number \cup {Null}
  /\ offerIndexes \in [Offers -> TxIds \cup {NoTx}]
  /\ balances \in Tables(BalanceId, Rows(BalanceVal))
  /\ balanceEvents \subseteq BalanceEvent
  /\ accounts \subseteq Accounts /\ transactions \subseteq TxIds
  /\ undoing \in transactions \cup {NoTx}
  /\ log \in Seq(Event)

\* The first i events that made a version of k.
VersionEvents(k, i) ==
  {j \in 1..i : log[j].kandel = k /\ log[j].kind \in VersionKinds}

\* What an event says of the configuration of k.
Configured(c, e, k) ==
  CASE e.kandel = k /\ e.kind = "new" -> InitialConfig(e.params)
    [] e.kandel = k /\ e.kind = "params" ->
         [f \in ConfigField |-> IF e.params[f] = Undefined THEN c[f] ELSE e.params[f]]
    [] OTHER -> c

NoConfig == [f \in ConfigField |-> 0]

\* What the events of l say of it.
ReplayedConfig(l, k) == FoldLeft(LAMBDA c, e : Configured(c, e, k), NoConfig, l)

\* The configuration that the index shows of a kandel is the outcome of its
\* surviving events, whatever was undone on the way and whatever the other
\* kandels did: no version shares or has lost its configuration.
ConfigIsReplay ==
  \A k \in Kandels :
    /\ kandels.current[k] + 1 = Cardinality(VersionEvents(k, Len(log)))
    /\ Exists(kandels, k) =>
         configs[Current(kandels, k).val.config] = ReplayedConfig(log, k)

\* A configuration is kept exactly as long as the one version it is for.
ConfigsOfVersions ==
  \A c \in ConfigId :
    Cardinality({v \in Kandels \X Number :
                   /\ kandels.version[v[1]][v[2]] # NoRow
                   /\ kandels.version[v[1]][v[2]].val.config = c})
      = (IF configs[c] = NoRow THEN 0 ELSE 1)

\* What an event adds to the sum that events of one kind put on a balance.
Booked(sum, e, id, kind) ==
  IF e.kind = kind /\ <<ReserveOf[e.kandel], e.token>> = id
  THEN sum + e.amount ELSE sum

\* The sum of what the events of one kind in l put on a balance.
Total(l, id, kind) == FoldLeft(LAMBDA sum, e : Booked(sum, e, id, kind), 0, l)

\* The balance of a reserve is what all the kandels that share it have
\* deposited less what they have withdrawn, in the events that survive.
ReserveBalanceIsReplay ==
  \A id \in BalanceId :
    Exists(balances, id) =>
      Current(balances, id).val =
        [deposit |-> Total(log, id, "Credit"), withdrawal |-> Total(log, id, "Debit"),
         balance |-> Total(log, id, "Credit") - Total(log, id, "Debit")]

\* The row an event of the log has in the history of its kandel.
RowOf(i) ==
  LET e == log[i]
  IN  [id |-> i, kandel |-> e.kandel, tx |-> e.tx, offers |-> e.offers,
       version |-> IF e.kind \in VersionKinds
                   THEN Cardinality(VersionEvents(e.kandel, i - 1)) ELSE Null,
       kind |-> IF e.kind = "params" THEN ParamsKind(e.params) ELSE e.kind,
       value |-> IF e.kind = "params" THEN e.params[ParamsKind(e.params)] ELSE 0]

\* The history of the kandels shows the surviving events and no other, once
\* the transactions that are taken back are taken back completely; although
\* the undo of a retract or populate also takes the rows of other events and
\* other kandels in its transaction.
EventsOfSurvivors ==
  undoing = NoTx =>
    kandelEvents =
      {RowOf(i) : i \in {j \in 1..Len(log) : log[j].kind \in ShownKinds}}

\* What a row names is there, although nothing in the database checks it:
\* the accounts of a kandel, the kandel of an event, of an index and of a
\* deposit, the version of an event and of a deposit, the transactions.
ReferencesResolve ==
  /\ \A k \in Kandels : Exists(kandels, k) => {k, ReserveOf[k]} \subseteq accounts
  /\ \A e \in kandelEvents :
       /\ Exists(kandels, e.kandel) /\ e.tx \in transactions
       /\ e.version # Null => kandels.version[e.kandel][e.version] # NoRow
  /\ \A o \in Offers :
       offerIndexes[o] # NoTx =>
         Exists(kandels, KandelOf[o]) /\ offerIndexes[o] \in transactions
  /\ \A b \in balanceEvents :
       Exists(kandels, b.source) /\ balances.version[b.id][b.n] # NoRow

\* Undoing an event puts kandels, configurations and balances back to what
\* they were before it, row for row.
UndoRestores ==
  [][Len(log') < Len(log) =>
       Snapshot' = LastEvent.before]_vars

\* What the creation of a kandel sets its admin or router to.
InitialValue(params, f) == IF params[f] = Undefined THEN Null ELSE params[f]

IsCreation(i, k) == log[i].kind = "new" /\ log[i].kandel = k

\* The value of a parameter after the first i events.  The admin and router
\* shown are those of the creation, which no event changes.
ReplayedParameter(i, k, f) ==
  IF f \in ConfigField
  THEN ReplayedConfig(SubSeq(log, 1, i), k)[f]
  ELSE InitialValue(log[CHOOSE j \in 1..Len(log) : IsCreation(j, k)].params, f)

\* The parameter event i of the log is shown as; one that sets several
\* parameters is shown as one.
ShownParameter(i) ==
  LET e == log[i]
      f == ParamsKind(e.params)
  IN  [version |-> Cardinality(VersionEvents(e.kandel, i - 1)), type |-> f,
       value |-> e.params[f], prevVersion |-> ReplayedParameter(i - 1, e.kandel, f)]

\* The parameters shown of a kandel are those its surviving events have set,
\* each with the value it had before, whatever was undone on the way and
\* whatever the configurations were reused for.
ParametersAreReplay ==
  undoing = NoTx =>
    \A k \in Kandels :
      kandelParameters(k) =
        {ShownParameter(i) :
           i \in {j \in 1..Len(log) : log[j].kandel = k /\ log[j].kind = "params"}}

Signed(b) == IF b.kind = "Credit" THEN b.amount ELSE -b.amount

\* What the deposits and withdrawals of B come to.
SumOf(B) == FoldSet(LAMBDA b, sum : sum + Signed(b), 0, B)

\* The deposits and withdrawals that are shown of the kandels which share a
\* reserve come to the balance of that reserve, whichever of the kandels
\* undoes an event of its own.
DepositsAddUp ==
  \A id \in BalanceId : Exists(balances, id) =>
    Current(balances, id).val.balance =
      SumOf(UNION {kandelDepositWithdraw(k, id[2]) :
                     k \in {l \in Kandels : ReserveOf[l] = id[1]}})

-----------------------------------------------------------------------------
(***************************************************************************)
(* The inductive invariant behind the properties of configurations,        *)
(* balances and events.                                                    *)
(***************************************************************************)
VersionsChained ==
  /\ \A k \in Kandels : Chained(kandels, k)
  /\ \A id \in BalanceId : Chained(balances, id)

\* Versions do not share a configuration, and the ones kept are theirs.
ConfigsOwned ==
  /\ \A k, l \in Kandels : \A m, n \in Number :
       /\ kandels.version[k][m] # NoRow /\ kandels.version[l][n] # NoRow
       /\ kandels.version[k][m].val.config = kandels.version[l][n].val.config
       => k = l /\ m = n
  /\ \A c \in ConfigId :
       configs[c] # NoRow <=>
         \E k \in Kandels, n \in Number :
           kandels.version[k][n] # NoRow /\ kandels.version[k][n].val.config = c

\* The tables after the first i events.
After(i) == IF i = Len(log) THEN Snapshot ELSE log[i + 1].before

\* What the undo of event e makes of the tables d is what e found.
Undoable(e, d) ==
  IF e.kind \in VersionKinds
  THEN /\ Exists(d.kandels, e.kandel)
       /\ e.kind = "params" <=> Exists(e.before.kandels, e.kandel)
       /\ e.before =
            [kandels |-> DeleteLatest(d.kandels, e.kandel),
             configs |-> [d.configs EXCEPT ![Current(d.kandels, e.kandel).val.config] = NoRow],
             balances |-> d.balances, balanceEvents |-> d.balanceEvents]
  ELSE IF e.kind \in {"Credit", "Debit"}
  THEN LET id == ReserveBalance(e.kandel, e.token) IN
       /\ e.token \in Tokens /\ Exists(d.balances, id)
       /\ e.before =
            [kandels |-> d.kandels, configs |-> d.configs,
             balances |-> DeleteLatest(d.balances, id),
             balanceEvents |->
               {b \in d.balanceEvents : b.id # id \/ b.n # d.balances.current[id]}]
  ELSE e.before = d

LogUndoable == \A i \in 1..Len(log) : Undoable(log[i], After(i))

\* The tables after every prefix of the log are its replay, so that an undo
\* finds the replay of the shorter log.
ConfigsReplayed ==
  \A i \in 0..Len(log), k \in Kandels :
    LET d == After(i) IN
    Exists(d.kandels, k) =>
      d.configs[Current(d.kandels, k).val.config] = ReplayedConfig(SubSeq(log, 1, i), k)

BalanceOf(d, id) ==
  IF Exists(d.balances, id) THEN Current(d.balances, id).val ELSE NoBalance

BalancesReplayed ==
  \A i \in 0..Len(log), id \in BalanceId :
    LET l == SubSeq(log, 1, i) IN
    BalanceOf(After(i), id) =
      [deposit |-> Total(l, id, "Credit"), withdrawal |-> Total(l, id, "Debit"),
       balance |-> Total(l, id, "Credit") - Total(l, id, "Debit")]

VersionsCounted ==
  \A k \in Kandels : kandels.current[k] + 1 = Cardinality(VersionEvents(k, Len(log)))

\* The transactions of the log are in order; the one of which some events
\* are undone is the last.
TransactionsInOrder ==
  /\ \A i, j \in 1..Len(log) : i <= j => log[i].tx <= log[j].tx
  /\ undoing # NoTx => log # <<>> /\ LastEvent.tx = undoing

\* Only events of the transaction that is being undone may have lost their
\* row, and every row is that of a surviving event.
RowsOfSurvivors ==
  /\ \A i \in 1..Len(log) :
       log[i].kind \in ShownKinds /\ log[i].tx # undoing => RowOf(i) \in kandelEvents
  /\ \A e \in kandelEvents :
       \E i \in 1..Len(log) : log[i].kind \in ShownKinds /\ e = RowOf(i)

IInv ==
  /\ TypeOK /\ VersionsChained /\ ConfigsOwned /\ LogUndoable /\ ReferencesResolve
  /\ ConfigsReplayed /\ BalancesReplayed /\ VersionsCounted
  /\ TransactionsInOrder /\ RowsOfSurvivors

(***************************************************************************)
(* What has to be known besides of the sums and the values that are shown. *)
(***************************************************************************)

\* The deposits and withdrawals of B that are shown for balance id.
DepositsOf(B, id) == {b \in B : ReserveOf[b.source] = id[1] /\ b.id[2] = id[2]}

\* In the tables d, the balances are the sums of what is shown.
SumsListed(d) ==
  /\ IsFiniteSet(d.balanceEvents)
  /\ \A id \in BalanceId :
       BalanceOf(d, id).balance = SumOf(DepositsOf(d.balanceEvents, id))

\* They are also where an undo leads back to.
DepositsListed == \A i \in 0..Len(log) : SumsListed(After(i))

\* The version of k that was its latest after the first i events.
VersionAfter(k, i) == kandels.version[k][Cardinality(VersionEvents(k, i)) - 1]

\* Old versions keep what they had when they were the latest: their
\* configuration, and the admin and router of the creation.
VersionsKept ==
  \A k \in Kandels : \A i \in 0..Len(log) : VersionEvents(k, i) # {} =>
    LET row == VersionAfter(k, i) IN
    /\ row # NoRow
    /\ configs[row.val.config] = ReplayedConfig(SubSeq(log, 1, i), k)
    /\ \A j \in 1..Len(log) : IsCreation(j, k) =>
         /\ row.val.admin = InitialValue(log[j].params, "admin")
         /\ row.val.router = InitialValue(log[j].params, "router")

\* A kandel is created before its parameters are set, and a parameter event
\* carries a parameter.
CreatedFirst ==
  \A i \in 1..Len(log) : log[i].kind \in VersionKinds =>
    /\ \E j \in 1..i : IsCreation(j, log[i].kandel)
    /\ log[i].kind = "params" => \E f \in Field : log[i].params[f] # Undefined

=============================================================================
