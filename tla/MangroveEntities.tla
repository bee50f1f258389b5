-------------------------- MODULE MangroveEntities --------------------------
(***************************************************************************)
(* The part of the mangrove stream handler that keeps the parameters of a  *)
(* Mangrove, of its offer lists, the provision of makers and the approvals *)
(* of takers: the events MangroveCreated, MangroveParamsUpdated,           *)
(* OfferListParamsUpdated, MakerBalanceUpdated and TakerApprovalUpdated,   *)
(* and the undo of each.  (OfferBook.tla has the other three events.)      *)
(*                                                                         *)
(* The chain may be reorganised: the stream then undoes its most recent    *)
(* events, latest first, before it goes on.  Beside it the token stream of *)
(* the same chain stores tokens and deletes the ones it undoes.            *)
(*                                                                         *)
(* An event is handled in one database transaction, so an action is a      *)
(* whole event; a handler that throws changes nothing and is tried again,  *)
(* which is the action not being enabled.                                  *)
(***************************************************************************)
EXTENDS Versioning, SequencesExt

CONSTANTS
  Mangroves, OfferListings, MakerBalances, TakerApprovals,  \* entity ids
  MangroveField, OfferListField,       \* the parameters of the contracts
  ParamValue,                          \* the values they are set to
  Change, Amount,                      \* changes of provision, approvals
  TokensOf,                            \* the two tokens of an offer list
  MangroveOf,                          \* the Mangrove of the other entities
  ListOf,                              \* the offer list of an approval
  Tx,                                  \* transactions
  Undefined,                           \* a column an event does not carry
  MaxLog                               \* bound on the surviving events

Entity == Mangroves \cup OfferListings \cup MakerBalances \cup TakerApprovals
Token  == UNION {TokensOf[l] : l \in OfferListings}

\* The columns of a version that events change, over all four tables.
Field == MangroveField \cup OfferListField \cup {"balance", "value"}

ASSUME EntitiesAssumption ==
  /\ Mangroves \cap (OfferListings \cup MakerBalances \cup TakerApprovals) = {}
  /\ OfferListings \cap (MakerBalances \cup TakerApprovals) = {}
  /\ MakerBalances \cap TakerApprovals = {}

ASSUME ValuesAssumption ==
  /\ ParamValue \subseteq Int
  /\ Change \subseteq Int
  /\ Amount \subseteq Int

ASSUME RelationsAssumption ==
  /\ MangroveOf \in [OfferListings \cup MakerBalances \cup TakerApprovals -> Mangroves]
  /\ ListOf \in [TakerApprovals -> OfferListings]

\* A version row; a column that is null, or of another table, is Null.
Val  == [Field -> Int]
Rows == [prev : Number \cup {Null}, tx : Tx, val : Val]

ASSUME MarkersAssumption == NoRow \notin Rows /\ Undefined \notin Int

VARIABLES
  db,             \* the versioned tables of the four kinds of entity
  tokens,         \* the rows of table Token
  transactions,   \* the rows of table Transaction
  log             \* the events handled and not undone: the entity, the
                  \* transaction and the columns each one carried, and the
                  \* tables it found (the history that undo has to restore)

vars == <<db, tokens, transactions, log>>

Init ==
  /\ db = EmptyTables(Entity)
  /\ tokens = {}
  /\ transactions = {}
  /\ log = <<>>

-----------------------------------------------------------------------------
(***************************************************************************)
(* The database operations.                                                *)
(***************************************************************************)

\* What an event carries: a value, or Undefined, for every column.
Arg      == [Field -> Int \cup {Undefined}]
Nothing  == [f \in Field |-> Undefined]
Only(f, v) == [Nothing EXCEPT ![f] = v]

\* Mutant: an update is taken for the complete set of parameters.
MergeReplaces(old, arg) ==
  [f \in Field |-> IF arg[f] = Undefined THEN Null ELSE arg[f]]

\* Mutant: the columns an event leaves out are overwritten too.
MergeUndefined(old, arg) == arg

\* _.merge: the columns the event carries replace the old ones.
Merge(old, arg) ==
  [f \in Field |-> IF arg[f] = Undefined THEN old[f] ELSE arg[f]]

\* The columns and the transaction of a new version before it is updated.
\* Mangrove aside, a later version is a copy of the one before that keeps
\* its txId.
NullVal          == [f \in Field |-> Null]
OldVal(id, init) == IF Exists(db, id) THEN Current(db, id).val ELSE init
TxOf(id, tx)     == IF Exists(db, id) THEN Current(db, id).tx ELSE tx

\* Throws for a known Mangrove without an update (a second creation), and
\* for an unknown one without an address (an update before the creation).
addVersionedMangrove(m, tx, hasAddress, params) ==
  /\ hasAddress <=> ~Exists(db, m)
  /\ CanAddVersion(db, m)
  /\ db' = AddVersion(db, m, tx, Merge(OldVal(m, NullVal), params))

addVersionedOfferList(l, tx, params) ==
  /\ CanAddVersion(db, l)
  /\ db' = AddVersion(db, l, TxOf(l, tx), Merge(OldVal(l, NullVal), params))

ZeroBalance == [NullVal EXCEPT !["balance"] = 0]

addVersionedMakerBalance(b, tx, change) ==
  /\ CanAddVersion(db, b)
  /\ db' = AddVersion(db, b, TxOf(b, tx),
                      [OldVal(b, ZeroBalance) EXCEPT !["balance"] = @ + change])

addVersionedTakerApproval(a, tx, amount) ==
  /\ CanAddVersion(db, a)
  /\ db' = AddVersion(db, a, TxOf(a, tx),
                      [OldVal(a, NullVal) EXCEPT !["value"] = amount])

\* The entities with a required column that names entity id.
Naming(id) ==
  {x \in DOMAIN MangroveOf : MangroveOf[x] = id}
    \cup {a \in TakerApprovals : ListOf[a] = id}

\* The first version is deleted together with the row of its entity: a row
\* that names this one refuses that (Restrict).
CanDelete(id) ==
  /\ CanDeleteLatest(db, id)
  /\ Current(db, id).prev = Null => \A x \in Naming(id) : ~Exists(db, x)

deleteLatestVersion(id) ==
  /\ CanDelete(id)
  /\ db' = DeleteLatest(db, id)

ensureTransaction(tx) == transactions' = transactions \cup {tx}

assertTokensExist(l) == TokensOf[l] \subseteq tokens

-----------------------------------------------------------------------------
(***************************************************************************)
(* The events of the mangrove stream.  A Mangrove is created once, before  *)
(* its contract sends any other event, and never pays out more provision   *)
(* than a maker has.  An approval may come before the parameters of its    *)
(* offer list, and the handler does not ask for them.                      *)
(***************************************************************************)
Created(m) == \E i \in 1..Len(log) : log[i].id = m

Handled(id, tx, arg) ==
  /\ Len(log) < MaxLog
  /\ log' = Append(log, [id |-> id, tx |-> tx, arg |-> arg, before |-> db])
  /\ ensureTransaction(tx)
  /\ UNCHANGED tokens

MangroveCreated(m, tx) ==
  /\ ~Created(m)
  /\ addVersionedMangrove(m, tx, TRUE, Nothing)
  /\ Handled(m, tx, Nothing)

MangroveParamsUpdated(m, tx, params) ==
  /\ Created(m)
  /\ addVersionedMangrove(m, tx, FALSE, params)
  /\ Handled(m, tx, params)

OfferListParamsUpdated(l, tx, params) ==
  /\ Created(MangroveOf[l])
  /\ assertTokensExist(l)
  /\ addVersionedOfferList(l, tx, params)
  /\ Handled(l, tx, params)

MakerBalanceUpdated(b, tx, change) ==
  /\ Created(MangroveOf[b])
  /\ OldVal(b, ZeroBalance)["balance"] + change >= 0
  /\ addVersionedMakerBalance(b, tx, change)
  /\ Handled(b, tx, Only("balance", change))

TakerApprovalUpdated(a, tx, amount) ==
  /\ Created(MangroveOf[a])
  /\ addVersionedTakerApproval(a, tx, amount)
  /\ Handled(a, tx, Only("value", amount))

Latest == log[Len(log)]

\* What the undo of the latest event needs in order not to throw.
UndoAccepted ==
  /\ CanDelete(Latest.id)
  /\ Latest.id \in OfferListings => assertTokensExist(Latest.id)

\* The undo of any of the five: the event names its entity again.
Undo ==
  /\ log # <<>>
  /\ Latest.id \in OfferListings => assertTokensExist(Latest.id)
  /\ deleteLatestVersion(Latest.id)
  /\ log' = SubSeq(log, 1, Len(log) - 1)
  /\ UNCHANGED <<tokens, transactions>>

-----------------------------------------------------------------------------
(***************************************************************************)
(* The token stream: an upsert for a new token, a delete for an undone     *)
(* one.  The two relations of OfferListing to Token are required, so the   *)
(* delete of a token that an offer list names is refused (Restrict).       *)
(***************************************************************************)
StoreToken(t) ==
  /\ tokens' = tokens \cup {t}
  /\ UNCHANGED <<db, transactions, log>>

Referenced(t) == \E l \in OfferListings : Exists(db, l) /\ t \in TokensOf[l]

\* Mutant: the delete does not look at the offer lists.
UndoTokenUnrestricted(t) ==
  /\ t \in tokens
  /\ tokens' = tokens \ {t}
  /\ UNCHANGED <<db, transactions, log>>

UndoToken(t) ==
  /\ t \in tokens
  /\ ~Referenced(t)
  /\ tokens' = tokens \ {t}
  /\ UNCHANGED <<db, transactions, log>>

\* The parameters an event may carry: not every one of F, but at least one.
Params(F) ==
  {[f \in Field |-> IF f \in F THEN p[f] ELSE Undefined] :
     p \in [F -> ParamValue \cup {Undefined}]} \ {Nothing}

Next ==
  \/ \E m \in Mangroves, tx \in Tx : MangroveCreated(m, tx)
  \/ \E m \in Mangroves, tx \in Tx, p \in Params(MangroveField) :
       MangroveParamsUpdated(m, tx, p)
  \/ \E l \in OfferListings, tx \in Tx, p \in Params(OfferListField) :
       OfferListParamsUpdated(l, tx, p)
  \/ \E b \in MakerBalances, tx \in Tx, c \in Change :
       MakerBalanceUpdated(b, tx, c)
  \/ \E a \in TakerApprovals, tx \in Tx, v \in Amount :
       TakerApprovalUpdated(a, tx, v)
  \/ Undo
  \/ \E t \in Token : StoreToken(t) \/ UndoToken(t)

Spec == Init /\ [][Next]_vars

-----------------------------------------------------------------------------
(***************************************************************************)
(* Properties.                                                             *)
(***************************************************************************)

Event ==
  [id : Entity, tx : Tx, arg : Arg, before : Tables(Entity, Rows)]

\* The tables hold rows of their types.
TypeOK ==
  /\ db \in Tables(Entity, Rows)
  /\ tokens \subseteq Token
  /\ transactions \subseteq Tx
  /\ log \in Seq(Event)

\* After any mixture of events and undos the version rows of every entity
\* are numbered 0 to its current version with no gap and no leftover, each
\* linked to the one before it (README.md, "Versioning of entities").
VersionsChained == \A id \in Entity : Chained(db, id)

FirstOfItsEntity(i) == \A j \in 1..(i - 1) : log[j].id # log[i].id

\* The latest event made an offer list for which there is an approval.
MadeApprovedList ==
  /\ Latest.id \in OfferListings
  /\ FirstOfItsEntity(Len(log))
  /\ \E i \in 1..Len(log) : log[i].id \in TakerApprovals /\ ListOf[log[i].id] = Latest.id

\* The undo of the latest event throws in one case only: the event was the
\* first of an offer list, and an approval for that list had come before.
\* The row of the approval then refuses the delete of that of the list, and
\* the stream is stopped.  In any other case deleteLatest* finds its rows,
\* nothing names a row it deletes, and the token stream, which runs on its
\* own, has not taken away a token that the undo asserts to exist.
UndoFailsOnlyForApprovedLists ==
  log # <<>> => (UndoAccepted <=> ~MadeApprovedList)

\* The events of the log that set column f of entity id.
Setters(id, f) ==
  {i \in 1..Len(log) : log[i].id = id /\ log[i].arg[f] # Undefined}

Deposited(sum, e, b) == IF e.id = b THEN sum + e.arg["balance"] ELSE sum

Balance(events, b) == FoldLeft(LAMBDA sum, e : Deposited(sum, e, b), 0, events)

\* What the index shows is what the surviving events say and nothing else,
\* whatever was undone on the way: a provision is the sum of its changes,
\* and any other column has the last value an event gave it.
IndexIsReplay ==
  \A id \in Entity : Exists(db, id) =>
    \A f \in Field :
      Current(db, id).val[f] =
        IF id \in MakerBalances /\ f = "balance" THEN Balance(log, id)
        ELSE IF Setters(id, f) = {} THEN Null
        ELSE log[Max(Setters(id, f))].arg[f]

\* Undoing an event puts the tables back to what they were before it, row
\* for row: "the data might have to be restored if the event is undone".
UndoRestores == [][Len(log') < Len(log) => db' = Latest.before]_vars

\* The inductive invariant behind these properties: each event of the log
\* can be taken back to the tables it found, whatever followed it.
After(i) == IF i = Len(log) THEN db ELSE log[i + 1].before

LogRestorable ==
  \A i \in 1..Len(log) :
    /\ Exists(After(i), log[i].id)
    /\ DeleteLatest(After(i), log[i].id) = log[i].before

\* The entities of the tables are those of the events, after each of them,
\* and nothing comes before its Mangrove.
LogInTables ==
  \A i \in 0..Len(log), id \in Entity :
    Exists(After(i), id) <=> \E j \in 1..i : log[j].id = id

CreatedFirst ==
  \A i \in 1..Len(log) : log[i].id \in DOMAIN MangroveOf =>
    \E j \in 1..(i - 1) : log[j].id = MangroveOf[log[i].id]

\* An offer list in the index has its two tokens.
ListingsHaveTokens ==
  \A l \in OfferListings : Exists(db, l) => TokensOf[l] \subseteq tokens

\* The columns of an entity in tables d; those it starts from if it has no
\* row.
Shown(d, id) ==
  IF Exists(d, id) THEN Current(d, id).val
  ELSE IF id \in MakerBalances THEN ZeroBalance ELSE NullVal

Updated(old, id, arg, f) ==
  IF arg[f] = Undefined THEN old
  ELSE IF id \in MakerBalances /\ f = "balance" THEN old + arg[f] ELSE arg[f]

\* From empty tables on, an event updates the columns it carries, of its
\* own entity, and no other.
EventReplayed(i) ==
  /\ log[i].id \in MakerBalances => log[i].arg["balance"] \in Int
  /\ \A id \in Entity, f \in Field :
       Shown(After(i), id)[f] =
         IF log[i].id = id THEN Updated(Shown(log[i].before, id)[f], id, log[i].arg, f)
         ELSE Shown(log[i].before, id)[f]

LogReplayed ==
  /\ After(0) = EmptyTables(Entity)
  /\ \A i \in 1..Len(log) : EventReplayed(i)

IInv ==
  /\ TypeOK /\ VersionsChained
  /\ LogRestorable /\ LogInTables /\ CreatedFirst /\ ListingsHaveTokens
  /\ LogReplayed

\* The version an event created names the transaction of that event.
VersionNamesItsTransaction ==
  \A i \in 1..Len(log) :
    LET e == log[i]
    IN  db.version[e.id][e.before.current[e.id] + 1].tx = e.tx

\* The values of every entity, oldest first, and the entities of the log.
Stacks(d) ==
  [id \in Entity |-> [k \in 1..(d.current[id] + 1) |-> d.version[id][k - 1].val]]
Touched(l) == [k \in 1..Len(l) |-> l[k].id]

\* The tables implement the stacks of values that README.md promises.
History == INSTANCE EntityHistory WITH
  Value <- Val, hist <- Stacks(db), touched <- Touched(log)

ImplementsHistory == History!Spec

=============================================================================
