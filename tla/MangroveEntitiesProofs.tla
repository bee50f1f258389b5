----------------------- MODULE MangroveEntitiesProofs -----------------------
(***************************************************************************)
(* The properties of MangroveEntities for every set of entities, every     *)
(* parameter and every bound: the types, the chain of versions, that undo  *)
(* is refused in one case only and restores the tables, and that the       *)
(* tables implement the stacks of EntityHistory.                           *)
(***************************************************************************)
EXTENDS MangroveEntities, Lemmas

USE MaxVersionAssumption

-----------------------------------------------------------------------------
(***************************************************************************)
(* The current version of an entity that exists is found.                  *)
(***************************************************************************)
LEMMA CurrentRow ==
  ASSUME db \in Tables(Entity, Rows), VersionsChained,
         NEW id \in Entity, Exists(db, id)
  PROVE  Current(db, id) \in Rows
<1>1. db.current[id] \in Number
  BY DEF Tables, Exists
<1>2. Current(db, id) # NoRow
  BY <1>1 DEF VersionsChained, Chained, Current, Number
<1> QED BY <1>1, <1>2 DEF Tables, Current

(***************************************************************************)
(* The columns and the transaction a new version starts from are typed.    *)
(***************************************************************************)
LEMMA OldValType ==
  ASSUME db \in Tables(Entity, Rows), VersionsChained,
         NEW id \in Entity, NEW init \in Val
  PROVE  OldVal(id, init) \in Val
  BY CurrentRow DEF OldVal, Rows

(***************************************************************************)
(* ... whether the entity is known or not.                                 *)
(***************************************************************************)
LEMMA TxOfType ==
  ASSUME db \in Tables(Entity, Rows), VersionsChained,
         NEW id \in Entity, NEW tx \in Tx
  PROVE  TxOf(id, tx) \in Tx
  BY CurrentRow DEF TxOf, Rows

(***************************************************************************)
(* Merging what an event carries into a row of columns gives such a row.   *)
(***************************************************************************)
LEMMA MergeType ==
  ASSUME NEW old \in Val, NEW arg \in Arg
  PROVE  Merge(old, arg) \in Val
  BY MarkersAssumption DEF Merge, Val, Arg

(***************************************************************************)
(* The columns a first version starts from.                                *)
(***************************************************************************)
LEMMA NullValType == NullVal \in Val /\ ZeroBalance \in Val
<1>1. NullVal \in Val
  BY DEF NullVal, Val, Null
<1>2. "balance" \in Field
  BY DEF Field
<1>3. ZeroBalance \in Val
  BY <1>1, <1>2 DEF ZeroBalance, Val
<1> QED BY <1>1, <1>3

(***************************************************************************)
(* What the events carry: nothing, one column, or some parameters.         *)
(***************************************************************************)
LEMMA ArgType ==
  /\ Nothing \in Arg
  /\ \A f \in Field, v \in Int : Only(f, v) \in Arg
  /\ \A F \in SUBSET Field : Params(F) \subseteq Arg
<1>1. Nothing \in Arg
  BY DEF Nothing, Arg
<1>2. \A f \in Field, v \in Int : Only(f, v) \in Arg
  BY <1>1 DEF Only, Arg
<1>3. ASSUME NEW F \in SUBSET Field, NEW p \in Params(F)
      PROVE  p \in Arg
  <2>1. PICK q \in [F -> ParamValue \cup {Undefined}] :
          p = [f \in Field |-> IF f \in F THEN q[f] ELSE Undefined]
    BY <1>3 DEF Params
  <2> QED BY <2>1, ValuesAssumption DEF Arg
<1> QED BY <1>1, <1>2, <1>3

-----------------------------------------------------------------------------
(***************************************************************************)
(* What every handler of an event has in common: it adds one version and   *)
(* appends the event to the log.                                           *)
(***************************************************************************)
AddsVersion(id, tx, t, val, arg) ==
  /\ CanAddVersion(db, id)
  /\ db' = AddVersion(db, id, t, val)
  /\ Handled(id, tx, arg)
  /\ id \in OfferListings => assertTokensExist(id)
  /\ id \in DOMAIN MangroveOf => Created(MangroveOf[id])
  /\ id \in MakerBalances => arg["balance"] \in Int
  /\ \A f \in Field : val[f] = Updated(Shown(db, id)[f], id, arg, f)

(***************************************************************************)
(* Merging into the columns an entity has, or into those that are null,    *)
(* updates them.                                                           *)
(***************************************************************************)
LEMMA MergeUpdates ==
  ASSUME NEW id \in Entity, id \notin MakerBalances, NEW arg
  PROVE  \A f \in Field :
           Merge(OldVal(id, NullVal), arg)[f] = Updated(Shown(db, id)[f], id, arg, f)
<1>1. OldVal(id, NullVal) = Shown(db, id)
  BY DEF OldVal, Shown
<1> QED BY <1>1 DEF Merge, Updated

(***************************************************************************)
(* Every step of Next is an event that adds a version, an undo, or a step  *)
(* of the token stream.                                                    *)
(***************************************************************************)
LEMMA EventsAddVersion ==
  ASSUME IInv, Next
  PROVE  \/ \E id \in Entity, tx \in Tx, t \in Tx, val \in Val, arg \in Arg :
              AddsVersion(id, tx, t, val, arg)
         \/ Undo
         \/ \E t \in Token : StoreToken(t) \/ UndoToken(t)
<1> USE DEF IInv, TypeOK
<1> DEFINE VersionAdded == \E id \in Entity, tx \in Tx, t \in Tx, val \in Val, arg \in Arg :
                             AddsVersion(id, tx, t, val, arg)
<1>1. /\ "balance" \in Field /\ "value" \in Field
      /\ MangroveField \in SUBSET Field /\ OfferListField \in SUBSET Field
  BY DEF Field
<1>2. ASSUME NEW m \in Mangroves, NEW tx \in Tx, MangroveCreated(m, tx)
      PROVE  VersionAdded
  <2> DEFINE val == Merge(OldVal(m, NullVal), Nothing)
  <2>1. /\ m \in Entity /\ m \notin OfferListings /\ m \notin MakerBalances
        /\ m \notin DOMAIN MangroveOf
    BY EntitiesAssumption, RelationsAssumption DEF Entity
  <2>2. val \in Val /\ Nothing \in Arg
    BY <2>1, OldValType, NullValType, MergeType, ArgType
  <2>3. \A f \in Field : val[f] = Updated(Shown(db, m)[f], m, Nothing, f)
    BY <2>1, MergeUpdates
  <2>4. AddsVersion(m, tx, tx, val, Nothing)
    <3> HIDE DEF val
    <3>1. db' = AddVersion(db, m, tx, val)
      BY <1>2 DEF MangroveCreated, addVersionedMangrove, val
    <3> QED BY <1>2, <2>1, <2>3, <3>1 DEF MangroveCreated, addVersionedMangrove, AddsVersion
  <2> HIDE DEF val
  <2> QED BY <2>1, <2>2, <2>4
<1>3. ASSUME NEW m \in Mangroves, NEW tx \in Tx, NEW p \in Params(MangroveField),
             MangroveParamsUpdated(m, tx, p)
      PROVE  VersionAdded
  <2> DEFINE val == Merge(OldVal(m, NullVal), p)
  <2>1. /\ m \in Entity /\ m \notin OfferListings /\ m \notin MakerBalances
        /\ m \notin DOMAIN MangroveOf
    BY EntitiesAssumption, RelationsAssumption DEF Entity
  <2>2. p \in Arg
    BY <1>1, ArgType
  <2>3. val \in Val
    BY <2>1, <2>2, OldValType, NullValType, MergeType
  <2>4. \A f \in Field : val[f] = Updated(Shown(db, m)[f], m, p, f)
    BY <2>1, MergeUpdates
  <2>5. AddsVersion(m, tx, tx, val, p)
    <3> HIDE DEF val
    <3>1. db' = AddVersion(db, m, tx, val)
      BY <1>3 DEF MangroveParamsUpdated, addVersionedMangrove, val
    <3> QED BY <1>3, <2>1, <2>4, <3>1
         DEF MangroveParamsUpdated, addVersionedMangrove, AddsVersion
  <2> HIDE DEF val
  <2> QED BY <2>1, <2>2, <2>3, <2>5
<1>4. ASSUME NEW l \in OfferListings, NEW tx \in Tx, NEW p \in Params(OfferListField),
             OfferListParamsUpdated(l, tx, p)
      PROVE  VersionAdded
  <2> DEFINE val == Merge(OldVal(l, NullVal), p)
  <2>1. l \in Entity /\ l \notin MakerBalances
    BY EntitiesAssumption DEF Entity
  <2>2. p \in Arg
    BY <1>1, ArgType
  <2>3. val \in Val /\ TxOf(l, tx) \in Tx
    BY <2>1, <2>2, OldValType, NullValType, MergeType, TxOfType
  <2>4. \A f \in Field : val[f] = Updated(Shown(db, l)[f], l, p, f)
    BY <2>1, MergeUpdates
  <2>5. AddsVersion(l, tx, TxOf(l, tx), val, p)
    <3> HIDE DEF val
    <3>1. db' = AddVersion(db, l, TxOf(l, tx), val)
      BY <1>4 DEF OfferListParamsUpdated, addVersionedOfferList, val
    <3> QED BY <1>4, <2>1, <2>4, <3>1
         DEF OfferListParamsUpdated, addVersionedOfferList, AddsVersion
  <2> HIDE DEF val
  <2> QED BY <2>1, <2>2, <2>3, <2>5
<1>5. ASSUME NEW b \in MakerBalances, NEW tx \in Tx, NEW c \in Change,
             MakerBalanceUpdated(b, tx, c)
      PROVE  VersionAdded
  <2> DEFINE old == OldVal(b, ZeroBalance)
             val == [old EXCEPT !["balance"] = @ + c]
             arg == Only("balance", c)
  <2>1. b \in Entity /\ b \notin OfferListings
    BY EntitiesAssumption DEF Entity
  <2>2. c \in Int /\ arg \in Arg
    BY <1>1, ArgType, ValuesAssumption
  <2>3. old \in Val
    BY <2>1, OldValType, NullValType
  <2>4. val \in Val
    <3> HIDE DEF old
    <3> QED BY <1>1, <2>2, <2>3 DEF Val
  <2>5. TxOf(b, tx) \in Tx
    BY <2>1, TxOfType
  <2>6. arg["balance"] = c /\ \A f \in Field : f # "balance" => arg[f] = Undefined
    BY <1>1 DEF Only, Nothing
  <2>7. \A f \in Field : val[f] = Updated(Shown(db, b)[f], b, arg, f)
    <3>1. old = Shown(db, b)
      BY DEF OldVal, Shown
    <3> HIDE DEF old, arg
    <3> QED BY <1>1, <2>2, <2>3, <2>6, <3>1, MarkersAssumption DEF Updated, Val
  <2>8. AddsVersion(b, tx, TxOf(b, tx), val, arg)
    <3> HIDE DEF val
    <3>1. db' = AddVersion(db, b, TxOf(b, tx), val)
      BY <1>5 DEF MakerBalanceUpdated, addVersionedMakerBalance, val
    <3> QED BY <1>5, <2>1, <2>2, <2>6, <2>7, <3>1
         DEF MakerBalanceUpdated, addVersionedMakerBalance, AddsVersion
  <2> HIDE DEF val, arg
  <2> QED BY <2>1, <2>2, <2>4, <2>5, <2>8
<1>6. ASSUME NEW a \in TakerApprovals, NEW tx \in Tx, NEW v \in Amount,
             TakerApprovalUpdated(a, tx, v)
      PROVE  VersionAdded
  <2> DEFINE old == OldVal(a, NullVal)
             val == [old EXCEPT !["value"] = v]
             arg == Only("value", v)
  <2>1. a \in Entity /\ a \notin OfferListings /\ a \notin MakerBalances
    BY EntitiesAssumption DEF Entity
  <2>2. v \in Int /\ arg \in Arg
    BY <1>1, ArgType, ValuesAssumption
  <2>3. old \in Val
    BY <2>1, OldValType, NullValType
  <2>4. val \in Val
    <3> HIDE DEF old
    <3> QED BY <1>1, <2>2, <2>3 DEF Val
  <2>5. TxOf(a, tx) \in Tx
    BY <2>1, TxOfType
  <2>6. arg["value"] = v /\ \A f \in Field : f # "value" => arg[f] = Undefined
    BY <1>1 DEF Only, Nothing
  <2>7. \A f \in Field : val[f] = Updated(Shown(db, a)[f], a, arg, f)
    <3>1. old = Shown(db, a)
      BY <2>1 DEF OldVal, Shown
    <3> HIDE DEF old, arg
    <3> QED BY <1>1, <2>1, <2>2, <2>3, <2>6, <3>1, MarkersAssumption DEF Updated, Val
  <2>8. AddsVersion(a, tx, TxOf(a, tx), val, arg)
    <3> HIDE DEF val
    <3>1. db' = AddVersion(db, a, TxOf(a, tx), val)
      BY <1>6 DEF TakerApprovalUpdated, addVersionedTakerApproval, val
    <3> QED BY <1>6, <2>1, <2>7, <3>1
         DEF TakerApprovalUpdated, addVersionedTakerApproval, AddsVersion
  <2> HIDE DEF val, arg
  <2> QED BY <2>1, <2>2, <2>4, <2>5, <2>8
<1> HIDE DEF VersionAdded
<1> QED BY <1>2, <1>3, <1>4, <1>5, <1>6 DEF Next, VersionAdded

-----------------------------------------------------------------------------
(***************************************************************************)
(* A sequence without its last element, the log after an undo.             *)
(***************************************************************************)
LEMMA FrontProperties ==
  ASSUME NEW S, NEW s \in Seq(S), s # <<>>
  PROVE  /\ Len(s) \in Nat \ {0}
         /\ SubSeq(s, 1, Len(s) - 1) \in Seq(S)
         /\ Len(SubSeq(s, 1, Len(s) - 1)) = Len(s) - 1
         /\ \A i \in 1..(Len(s) - 1) : SubSeq(s, 1, Len(s) - 1)[i] = s[i]
         /\ s[Len(s)] \in S
<1>1. Len(s) \in Nat \ {0}
  OBVIOUS
<1>2. /\ Len(SubSeq(s, 1, Len(s) - 1)) = Len(s) - 1
      /\ \A i \in 1..(Len(s) - 1) : SubSeq(s, 1, Len(s) - 1)[i] = s[i]
  <2>1. Len(s) - 1 \in Int /\ \A i \in 1..(Len(s) - 1) : s[i] \in S
    BY <1>1
  <2>2. Len(s) - 1 >= 0 /\ (1 <= Len(s) - 1 => Len(s) - 1 - 1 + 1 = Len(s) - 1)
    BY <1>1
  <2> DEFINE n == Len(s) - 1
  <2> HIDE DEF n
  <2>3. /\ Len(SubSeq(s, 1, n)) = IF 1 <= n THEN n - 1 + 1 ELSE 0
        /\ \A i \in 1..(n - 1 + 1) : SubSeq(s, 1, n)[i] = s[1 + i - 1]
    BY <2>1, SubSeqProperties DEF n
  <2>4. n \in Nat
    BY <1>1 DEF n
  <2>5. Len(SubSeq(s, 1, n)) = n /\ \A i \in 1..n : SubSeq(s, 1, n)[i] = s[i]
    BY <2>3, <2>4
  <2> QED BY <2>5 DEF n
<1>4. s[Len(s)] \in S
  BY <1>1
<1>3. SubSeq(s, 1, Len(s) - 1) \in Seq(S)
  BY <1>1
<1> QED BY <1>1, <1>2, <1>3, <1>4

(***************************************************************************)
(* The inductive invariant is kept by an event that adds a version.        *)
(***************************************************************************)
LEMMA AddStep ==
  ASSUME IInv, NEW id \in Entity, NEW tx \in Tx, NEW t \in Tx,
         NEW val \in Val, NEW arg \in Arg, AddsVersion(id, tx, t, val, arg)
  PROVE  IInv'
<1> DEFINE row == [prev |-> db.current[id], tx |-> t, val |-> val]
           event == [id |-> id, tx |-> tx, arg |-> arg, before |-> db]
<1>1. /\ db \in Tables(Entity, Rows) /\ CanAddVersion(db, id)
      /\ db' = AddVersion(db, id, t, val)
      /\ log \in Seq(Event) /\ log' = Append(log, event)
      /\ tokens' = tokens /\ transactions' = transactions \cup {tx}
  BY DEF IInv, TypeOK, AddsVersion, Handled, ensureTransaction
<1>2. row \in Rows
  <2>1. db.current[id] \in Number \cup {Null}
    BY <1>1 DEF Tables
  <2> QED BY <2>1 DEF Rows
<1>3. /\ db' \in Tables(Entity, Rows)
      /\ \A j \in Entity :
           db'.current[j] = IF j = id THEN db.current[id] + 1 ELSE db.current[j]
      /\ \A j \in Entity, k \in Number :
           db'.version[j][k] = IF j = id /\ k = db.current[id] + 1 THEN row
                               ELSE db.version[j][k]
  BY <1>1, <1>2, AddVersionType
<1>4. /\ DeleteLatest(db', id) = db
      /\ Exists(db', id)
  BY <1>1, <1>2, DeleteInvertsAdd
<1> HIDE DEF row
<1>5. event \in Event
  BY <1>1 DEF Event
<1>6. /\ Len(log) \in Nat /\ Len(log') = Len(log) + 1
      /\ log'[Len(log) + 1] = event
      /\ \A i \in 1..Len(log) : log'[i] = log[i]
  BY <1>1, <1>5
<1>7. TypeOK'
  BY <1>1, <1>3, <1>5 DEF IInv, TypeOK
<1>8. VersionsChained'
  BY <1>1, <1>2, AddVersionChained, MarkersAssumption DEF IInv, VersionsChained, row
<1>9. LogRestorable'
  <2> SUFFICES ASSUME NEW i \in 1..Len(log')
               PROVE  /\ Exists(After(i)', log'[i].id)
                      /\ DeleteLatest(After(i)', log'[i].id) = log'[i].before
    BY DEF LogRestorable
  <2>1. CASE i = Len(log) + 1
    <3>1. After(i)' = db'
      BY <2>1, <1>6 DEF After
    <3>2. log'[i].id = id /\ log'[i].before = db
      BY <2>1, <1>6
    <3> QED BY <3>1, <3>2, <1>4
  <2>2. CASE i # Len(log) + 1
    <3>1. i \in 1..Len(log)
      BY <2>2, <1>6
    <3>2. After(i)' = After(i)
      <4>1. CASE i = Len(log)
        BY <4>1, <3>1, <1>6 DEF After
      <4>2. CASE i # Len(log)
        BY <4>2, <3>1, <1>6 DEF After
      <4> QED BY <4>1, <4>2
    <3> QED BY <3>1, <3>2, <1>6 DEF IInv, LogRestorable
  <2> QED BY <2>1, <2>2
<1>10. ListingsHaveTokens'
  <2> SUFFICES ASSUME NEW l \in OfferListings, Exists(db', l)
               PROVE  TokensOf[l] \subseteq tokens'
    BY DEF ListingsHaveTokens
  <2>1. CASE l = id
    BY <2>1, <1>1 DEF AddsVersion, assertTokensExist
  <2>2. CASE l # id
    <3>1. Exists(db, l)
      BY <2>2, <1>3 DEF Exists, Entity
    <3> QED BY <3>1, <1>1 DEF IInv, ListingsHaveTokens
  <2> QED BY <2>1, <2>2
<1>11. LogReplayed'
  <2>1. After(0)' = EmptyTables(Entity)
    <3>1. After(0)' = After(0)
      <4>1. CASE Len(log) = 0
        <5>1. log'[1].before = db /\ After(0) = db /\ Len(log') # 0
          BY <4>1, <1>6 DEF After
        <5> QED BY <5>1 DEF After
      <4>2. CASE Len(log) # 0
        <5>1. 1 \in 1..Len(log) /\ Len(log') # 0
          BY <4>2, <1>6
        <5> QED BY <5>1, <1>6 DEF After
      <4> QED BY <4>1, <4>2
    <3> QED BY <3>1 DEF IInv, LogReplayed
  <2>2. \A j \in Entity, f \in Field :
          Shown(db', j)[f] = IF id = j THEN Updated(Shown(db, j)[f], j, arg, f)
                             ELSE Shown(db, j)[f]
    <3>1. Shown(db', id) = val
      <4>1. Exists(db', id) /\ db'.current[id] = db.current[id] + 1
        BY <1>3, <1>4
      <4>2. db'.version[id][db.current[id] + 1] = row
        BY <1>1, <1>3 DEF CanAddVersion
      <4>3. row.val = val
        BY DEF row
      <4> QED BY <4>1, <4>2, <4>3 DEF Shown, Current
    <3>2. \A f \in Field : val[f] = Updated(Shown(db, id)[f], id, arg, f)
      BY DEF AddsVersion
    <3>3. ASSUME NEW j \in Entity, j # id
          PROVE  Shown(db', j) = Shown(db, j)
      <4>1. db'.current[j] = db.current[j]
        BY <1>3, <3>3
      <4>2. Exists(db, j) => db'.version[j][db.current[j]] = db.version[j][db.current[j]]
        BY <1>1, <1>3, <3>3 DEF Exists, Tables
      <4> QED BY <4>1, <4>2 DEF Shown, Current, Exists
    <3> QED BY <3>1, <3>2, <3>3
  <2>3. ASSUME NEW i \in 1..Len(log')
        PROVE  EventReplayed(i)'
    <3>1. CASE i = Len(log) + 1
      <4>1. After(i)' = db' /\ log'[i] = event
        BY <3>1, <1>6 DEF After
      <4>2. id \in MakerBalances => arg["balance"] \in Int
        BY DEF AddsVersion
      <4>3. event.id = id /\ event.arg = arg /\ event.before = db
        OBVIOUS
      <4> HIDE DEF event
      <4> QED BY <4>1, <4>2, <4>3, <2>2 DEF EventReplayed
    <3>2. CASE i # Len(log) + 1
      <4>1. i \in 1..Len(log)
        BY <3>2, <1>6
      <4>2. After(i)' = After(i)
        BY <3>2, <1>6 DEF After
      <4>3. EventReplayed(i)
        BY <4>1 DEF IInv, LogReplayed
      <4>4. log'[i] = log[i]
        BY <4>1, <1>6
      <4> QED BY <4>2, <4>3, <4>4 DEF EventReplayed
    <3> QED BY <3>1, <3>2
  <2> QED BY <2>1, <2>3 DEF LogReplayed
<1>12. LogInTables'
  <2>1. ASSUME NEW i \in 0..Len(log)
        PROVE  After(i)' = After(i)
    <3>1. CASE i = Len(log)
      BY <3>1, <1>6 DEF After
    <3>2. CASE i # Len(log)
      <4>1. i + 1 \in 1..Len(log) /\ i # Len(log')
        BY <3>2, <1>6
      <4> QED BY <3>2, <4>1, <1>6 DEF After
    <3> QED BY <3>1, <3>2
  <2>2. ASSUME NEW i \in 0..Len(log), NEW j \in Entity
        PROVE  Exists(After(i)', j) <=> \E k \in 1..i : log'[k].id = j
    <3>1. After(i)' = After(i) /\ \A k \in 1..i : log'[k] = log[k]
      BY <2>1, <1>6
    <3>2. Exists(After(i), j) <=> \E k \in 1..i : log[k].id = j
      BY DEF IInv, LogInTables
    <3> QED BY <3>1, <3>2
  <2>3. Len(log) \in 0..Len(log) /\ After(Len(log)) = db
    BY <1>6 DEF After
  <2>4. \A j \in Entity : Exists(db', j) <=> j = id \/ Exists(db, j)
    BY <1>3, <1>4 DEF Exists
  <2>5. \A j \in Entity :
          Exists(db', j) <=> \E k \in 1..(Len(log) + 1) : log'[k].id = j
    <3>1. \A j \in Entity : Exists(db, j) <=> \E k \in 1..Len(log) : log'[k].id = j
      BY <2>1, <2>2, <2>3
    <3>2. log'[Len(log) + 1].id = id
      BY <1>6
    <3>3. 1..(Len(log) + 1) = 1..Len(log) \cup {Len(log) + 1}
      BY <1>6
    <3> QED BY <2>4, <3>1, <3>2, <3>3
  <2>6. ASSUME NEW i \in 0..Len(log'), NEW j \in Entity
        PROVE  Exists(After(i)', j) <=> \E k \in 1..i : log'[k].id = j
    <3>1. CASE i \in 0..Len(log)
      BY <2>2, <3>1
    <3>2. CASE i = Len(log) + 1
      <4>1. After(i)' = db'
        BY <1>6, <3>2 DEF After
      <4> QED BY <2>5, <3>2, <4>1
    <3> QED BY <3>1, <3>2, <1>6
  <2> QED BY <2>6 DEF LogInTables
<1>13. CreatedFirst'
  <2> SUFFICES ASSUME NEW i \in 1..Len(log'), log'[i].id \in DOMAIN MangroveOf
               PROVE  \E j \in 1..(i - 1) : log'[j].id = MangroveOf[log'[i].id]
    BY DEF CreatedFirst
  <2>1. CASE i = Len(log) + 1
    <3>1. log'[i].id = id /\ i - 1 = Len(log)
      BY <2>1, <1>6
    <3>2. \E j \in 1..Len(log) : log[j].id = MangroveOf[id]
      BY <3>1 DEF AddsVersion, Created
    <3> QED BY <3>1, <3>2, <1>6
  <2>2. CASE i # Len(log) + 1
    <3>1. i \in 1..Len(log) /\ 1..(i - 1) \subseteq 1..Len(log)
      BY <2>2, <1>6
    <3> QED BY <3>1, <1>6 DEF IInv, CreatedFirst
  <2> QED BY <2>1, <2>2
<1> QED BY <1>7, <1>8, <1>9, <1>10, <1>11, <1>12, <1>13 DEF IInv

(***************************************************************************)
(* The inductive invariant is kept by the undo of the latest event.        *)
(***************************************************************************)
LEMMA UndoStep ==
  ASSUME IInv, Undo
  PROVE  IInv' /\ db' = Latest.before
<1> DEFINE id == Latest.id
<1>1. /\ log \in Seq(Event) /\ log # <<>>
      /\ db \in Tables(Entity, Rows)
      /\ log' = SubSeq(log, 1, Len(log) - 1)
      /\ tokens' = tokens /\ transactions' = transactions
      /\ db' = DeleteLatest(db, id)
  BY DEF IInv, TypeOK, Undo, deleteLatestVersion
<1>2. /\ Len(log) \in Nat \ {0}
      /\ log' \in Seq(Event) /\ Len(log') = Len(log) - 1
      /\ \A i \in 1..Len(log') : log'[i] = log[i]
      /\ Latest \in Event
  BY <1>1, FrontProperties DEF Latest
<1>3. /\ Exists(db, id)
      /\ db' = Latest.before
  BY <1>1, <1>2 DEF IInv, LogRestorable, After, Latest
<1>4. id \in Entity /\ db' \in Tables(Entity, Rows)
  BY <1>2, <1>3 DEF Event
<1>5. \A j \in Entity : Chained(db, j)
  BY DEF IInv, VersionsChained
<1> HIDE DEF id
<1>6. VersionsChained'
  BY <1>1, <1>3, <1>4, <1>5, DeleteLatestChained, MarkersAssumption
  DEF VersionsChained
<1>7. \A j \in Entity :
        db'.current[j] = IF j = id THEN db.current[id] - 1 ELSE db.current[j]
  <2>1. Chained(db, id)
    BY <1>4, <1>5
  <2> DEFINE e == DeleteLatest(db, id)
  <2>2. \A j \in Entity :
          e.current[j] = IF j = id THEN db.current[id] - 1 ELSE db.current[j]
    <3>1. db \in Tables(Entity, Rows)
      BY <1>1
    <3> QED BY <3>1, <1>3, <1>4, <2>1, DeleteLatestType
  <2> HIDE DEF e
  <2>3. db' = e
    BY <1>1 DEF e
  <2> QED BY <2>2, <2>3
<1>8. TypeOK'
  BY <1>1, <1>2, <1>4 DEF IInv, TypeOK
<1>9. LogRestorable'
  <2> SUFFICES ASSUME NEW i \in 1..Len(log')
               PROVE  /\ Exists(After(i)', log'[i].id)
                      /\ DeleteLatest(After(i)', log'[i].id) = log'[i].before
    BY DEF LogRestorable
  <2>1. i \in 1..Len(log) /\ i # Len(log) /\ log'[i] = log[i]
    BY <1>2
  <2>2. After(i)' = After(i)
    <3>1. After(i) = log[i + 1].before
      BY <2>1 DEF After
    <3>2. CASE i = Len(log')
      <4>1. After(i)' = db'
        BY <3>2 DEF After
      <4>2. log[i + 1] = Latest
        BY <3>2, <1>2 DEF Latest
      <4> QED BY <3>1, <4>1, <4>2, <1>3
    <3>3. CASE i # Len(log')
      <4>1. i + 1 \in 1..Len(log')
        BY <3>3, <1>2
      <4>2. After(i)' = log'[i + 1].before
        BY <3>3 DEF After
      <4> QED BY <3>1, <4>1, <4>2, <1>2
    <3> QED BY <3>2, <3>3
  <2> QED BY <2>1, <2>2 DEF IInv, LogRestorable
<1>10. ListingsHaveTokens'
  <2> SUFFICES ASSUME NEW l \in OfferListings, Exists(db', l)
               PROVE  TokensOf[l] \subseteq tokens
    BY <1>1 DEF ListingsHaveTokens
  <2>1. Exists(db, l)
    <3>1. CASE l = id
      BY <3>1, <1>3
    <3>2. CASE l # id
      BY <3>2, <1>7 DEF Exists, Entity
    <3> QED BY <3>1, <3>2
  <2> QED BY <2>1 DEF IInv, ListingsHaveTokens
<1>11. ASSUME NEW i \in 0..Len(log')
       PROVE  After(i)' = After(i)
  <2>1. i \in 0..Len(log) /\ i # Len(log)
    BY <1>2
  <2>2. CASE i = Len(log')
    <3>1. log[i + 1] = Latest
      BY <2>2, <1>2 DEF Latest
    <3> QED BY <2>1, <2>2, <3>1, <1>3 DEF After
  <2>3. CASE i # Len(log')
    <3>1. i + 1 \in 1..Len(log')
      BY <2>3, <1>2
    <3> QED BY <2>1, <2>3, <3>1, <1>2 DEF After
  <2> QED BY <2>2, <2>3
<1>12. LogInTables' /\ CreatedFirst'
  <2>1. /\ 0..Len(log') \subseteq 0..Len(log) /\ 1..Len(log') \subseteq 1..Len(log)
        /\ \A i \in 0..Len(log') : 1..i \subseteq 1..Len(log')
        /\ \A i \in 1..Len(log') : 1..(i - 1) \subseteq 1..Len(log')
    BY <1>2
  <2>2. ASSUME NEW i \in 0..Len(log'), NEW j \in Entity
        PROVE  Exists(After(i)', j) <=> \E k \in 1..i : log'[k].id = j
    <3>1. After(i)' = After(i) /\ \A k \in 1..i : log'[k] = log[k]
      BY <1>2, <1>11, <2>1
    <3>2. Exists(After(i), j) <=> \E k \in 1..i : log[k].id = j
      BY <2>1 DEF IInv, LogInTables
    <3> QED BY <3>1, <3>2
  <2>3. CreatedFirst'
    BY <1>2, <2>1 DEF IInv, CreatedFirst
  <2> QED BY <2>2, <2>3 DEF LogInTables
<1>13. LogReplayed'
  <2>1. After(0)' = EmptyTables(Entity)
    <3>1. 0 \in 0..Len(log')
      BY <1>2
    <3> QED BY <1>11, <3>1 DEF IInv, LogReplayed
  <2>2. ASSUME NEW i \in 1..Len(log')
        PROVE  EventReplayed(i)'
    <3>1. i \in 1..Len(log) /\ log'[i] = log[i]
      BY <1>2
    <3>2. EventReplayed(i)
      BY <3>1 DEF IInv, LogReplayed
    <3>3. After(i)' = After(i)
      BY <1>2, <1>11
    <3> QED BY <3>1, <3>2, <3>3 DEF EventReplayed
  <2> QED BY <2>1, <2>2 DEF LogReplayed
<1> QED BY <1>3, <1>6, <1>8, <1>9, <1>10, <1>12, <1>13 DEF IInv

(***************************************************************************)
(* The inductive invariant is kept by the token stream.                    *)
(***************************************************************************)
LEMMA TokenStep ==
  ASSUME IInv, NEW t \in Token, StoreToken(t) \/ UndoToken(t)
  PROVE  IInv'
<1>1. /\ db' = db /\ transactions' = transactions /\ log' = log
      /\ tokens' \subseteq Token
  BY DEF IInv, TypeOK, StoreToken, UndoToken
<1>2. TypeOK' /\ VersionsChained' /\ LogRestorable'
  BY <1>1 DEF IInv, TypeOK, VersionsChained, LogRestorable, After
<1>3. ListingsHaveTokens'
  BY <1>1 DEF IInv, ListingsHaveTokens, StoreToken, UndoToken, Referenced
<1>4. LogReplayed'
  BY <1>1 DEF IInv, LogReplayed, EventReplayed, After
<1>5. LogInTables' /\ CreatedFirst'
  BY <1>1 DEF IInv, LogInTables, CreatedFirst, After
<1> QED BY <1>2, <1>3, <1>4, <1>5 DEF IInv

-----------------------------------------------------------------------------
(***************************************************************************)
(* The initial state satisfies the inductive invariant.                    *)
(***************************************************************************)
LEMMA InitIInv == Init => IInv
<1> SUFFICES ASSUME Init
             PROVE  IInv
  OBVIOUS
<1>1. db = EmptyTables(Entity) /\ tokens = {} /\ transactions = {} /\ log = <<>>
  BY DEF Init
<1>2. \A id \in Entity :
        /\ db.current[id] = Null
        /\ \A n \in Number : db.version[id][n] = NoRow
  BY <1>1 DEF EmptyTables
<1>3. TypeOK
  BY <1>1 DEF TypeOK, EmptyTables, Tables
<1>4. VersionsChained
  BY <1>2 DEF VersionsChained, Chained, Number, Null
<1>5. LogRestorable
  BY <1>1 DEF LogRestorable
<1>6. ListingsHaveTokens
  BY <1>2 DEF ListingsHaveTokens, Exists, Entity
<1>7. LogReplayed
  BY <1>1 DEF LogReplayed, After
<1>8. LogInTables
  BY <1>1, <1>2 DEF LogInTables, After, Exists
<1>9. CreatedFirst
  BY <1>1 DEF CreatedFirst
<1> QED BY <1>3, <1>4, <1>5, <1>6, <1>7, <1>8, <1>9 DEF IInv

(***************************************************************************)
(* The inductive invariant is kept by every step.                          *)
(***************************************************************************)
LEMMA NextIInv == IInv /\ [Next]_vars => IInv'
<1> SUFFICES ASSUME IInv, [Next]_vars
             PROVE  IInv'
  OBVIOUS
<1>1. CASE Next
  BY <1>1, EventsAddVersion, AddStep, UndoStep, TokenStep
<1>2. CASE UNCHANGED vars
  BY <1>2 DEF vars, IInv, TypeOK, VersionsChained, LogRestorable, After,
     ListingsHaveTokens, LogReplayed, EventReplayed, LogInTables, CreatedFirst
<1> QED BY <1>1, <1>2

(***************************************************************************)
(* The invariant behind the other theorems holds of every behaviour.       *)
(***************************************************************************)
THEOREM Invariance == Spec => []IInv
  BY InitIInv, NextIInv, PTL DEF Spec

(***************************************************************************)
(* The tables always hold rows of their types: the handlers only ever      *)
(* write a version row whose transaction and columns are defined.          *)
(***************************************************************************)
THEOREM TypeCorrect == Spec => []TypeOK
<1>1. IInv => TypeOK
  BY DEF IInv
<1> QED BY <1>1, Invariance, PTL

(***************************************************************************)
(* The version rows of every entity are numbered without gaps from zero to *)
(* its current version, after any mixture of events and undos.             *)
(***************************************************************************)
THEOREM Chains == Spec => []VersionsChained
<1>1. IInv => VersionsChained
  BY DEF IInv
<1> QED BY <1>1, Invariance, PTL

(***************************************************************************)
(* What an event of the log has found is what the one before it has left.  *)
(***************************************************************************)
LEMMA FoundWhatWasLeft ==
  ASSUME log \in Seq(Event), NEW i \in 1..Len(log)
  PROVE  After(i - 1) = log[i].before
<1>1. Len(log) \in Nat /\ i - 1 # Len(log) /\ (i - 1) + 1 = i
  OBVIOUS
<1> QED BY <1>1 DEF After

(***************************************************************************)
(* The version that the latest event made is the first of its entity       *)
(* exactly if no earlier event of the log is about that entity.            *)
(***************************************************************************)
LEMMA FirstVersion ==
  ASSUME IInv, log # <<>>
  PROVE  /\ Latest.id \in Entity /\ Exists(db, Latest.id)
         /\ Current(db, Latest.id).prev = Null <=> FirstOfItsEntity(Len(log))
<1> DEFINE n == Len(log)
           id == Latest.id
<1>1. /\ n \in Nat \ {0} /\ log \in Seq(Event) /\ Latest \in Event
      /\ n \in 1..n /\ n - 1 \in 0..n
  BY FrontProperties DEF IInv, TypeOK, Latest
<1>2. id \in Entity
  BY <1>1 DEF Event
<1>3. After(n) = db /\ After(n - 1) = Latest.before
  BY <1>1, FoundWhatWasLeft DEF After, Latest
<1>4. Exists(db, id) /\ DeleteLatest(db, id) = Latest.before
  BY <1>1, <1>3 DEF IInv, LogRestorable, Latest
<1>5. db \in Tables(Entity, Rows)
  BY DEF IInv, TypeOK
<1>6. Latest.before.current[id] = Current(db, id).prev
  <2>1. DeleteLatest(db, id).current[id] = Current(db, id).prev
    BY <1>2, <1>5 DEF DeleteLatest, Tables
  <2> QED BY <1>4, <2>1
<1>7. Exists(Latest.before, id) <=> \E j \in 1..(n - 1) : log[j].id = id
  <2>1. Exists(After(n - 1), id) <=> \E j \in 1..(n - 1) : log[j].id = id
    BY <1>1, <1>2 DEF IInv, LogInTables
  <2> QED BY <1>3, <2>1
<1> QED BY <1>2, <1>4, <1>6, <1>7 DEF Exists, FirstOfItsEntity, Latest

(***************************************************************************)
(* The undo of the latest event throws exactly if the event made an offer  *)
(* list that an earlier approval names.  In any other case deleteLatest    *)
(* finds its rows, the tokens it asserts are still there, and no Restrict  *)
(* is in the way: what names a Mangrove came after it, so it is gone.      *)
(***************************************************************************)
THEOREM UndoSucceedsOrIsRefused == Spec => []UndoFailsOnlyForApprovedLists
<1>1. IInv => UndoFailsOnlyForApprovedLists
  <2> SUFFICES ASSUME IInv, log # <<>>
               PROVE  UndoAccepted <=> ~MadeApprovedList
    BY DEF UndoFailsOnlyForApprovedLists
  <2> DEFINE n == Len(log)
             id == Latest.id
             Refused == FirstOfItsEntity(n) /\ \E x \in Naming(id) : Exists(db, x)
  <2>1. n \in Nat \ {0} /\ n \in 0..n /\ After(n) = db /\ log[n].id = id
    BY FrontProperties DEF IInv, TypeOK, After, Latest
  <2>2. id \in Entity /\ Exists(db, id)
    BY FirstVersion
  <2>3. UndoAccepted <=> ~Refused
    <3>1. CanDeleteLatest(db, id)
      BY <2>2, ChainedCanDelete DEF IInv, TypeOK, VersionsChained
    <3>2. id \in OfferListings => assertTokensExist(id)
      BY <2>2 DEF IInv, ListingsHaveTokens, assertTokensExist
    <3> QED BY <3>1, <3>2, FirstVersion DEF UndoAccepted, CanDelete
  <2>4. Naming(id) \subseteq Entity
    BY RelationsAssumption DEF Naming, Entity
  <2>5. \A x \in Entity : Exists(db, x) <=> \E i \in 1..n : log[i].id = x
    BY <2>1 DEF IInv, LogInTables
  <2>6. CASE id \in Mangroves
    <3>1. ASSUME NEW x \in Naming(id), NEW i \in 1..n, log[i].id = x
          PROVE  ~FirstOfItsEntity(n)
      <4>1. x \in DOMAIN MangroveOf /\ MangroveOf[x] = id
        BY <2>6, EntitiesAssumption, RelationsAssumption DEF Naming
      <4>2. PICK j \in 1..(i - 1) : log[j].id = id
        BY <3>1, <4>1 DEF IInv, CreatedFirst
      <4>3. j \in 1..(n - 1)
        BY <2>1
      <4> QED BY <2>1, <4>2, <4>3 DEF FirstOfItsEntity
    <3>2. ~Refused
      BY <2>4, <2>5, <3>1
    <3>3. ~MadeApprovedList
      BY <2>6, EntitiesAssumption DEF MadeApprovedList
    <3> QED BY <2>3, <3>2, <3>3
  <2>7. CASE id \in OfferListings
    <3>1. Naming(id) = {a \in TakerApprovals : ListOf[a] = id}
      BY <2>7, EntitiesAssumption, RelationsAssumption DEF Naming
    <3>2. Refused <=> MadeApprovedList
      BY <2>4, <2>5, <2>7, <3>1 DEF MadeApprovedList
    <3> QED BY <2>3, <3>2
  <2>8. CASE id \notin Mangroves /\ id \notin OfferListings
    <3>1. Naming(id) = {} /\ ~MadeApprovedList
      BY <2>8, RelationsAssumption DEF Naming, MadeApprovedList
    <3> QED BY <2>3, <3>1
  <2> QED BY <2>6, <2>7, <2>8
<1> QED BY <1>1, Invariance, PTL

(***************************************************************************)
(* A step that shortens the log puts the tables back to what the event it  *)
(* undoes had found, row for row.                                          *)
(***************************************************************************)
THEOREM UndoIsInverse == Spec => UndoRestores
<1>1. IInv /\ [Next]_vars => [Len(log') < Len(log) => db' = Latest.before]_vars
  <2> SUFFICES ASSUME IInv, Next, Len(log') < Len(log)
               PROVE  db' = Latest.before
    OBVIOUS
  <2>1. log \in Seq(Event)
    BY DEF IInv, TypeOK
  <2>2. ASSUME NEW id \in Entity, NEW tx \in Tx, NEW t \in Tx, NEW val \in Val,
               NEW arg \in Arg, AddsVersion(id, tx, t, val, arg)
        PROVE  FALSE
    <3>1. log' = Append(log, [id |-> id, tx |-> tx, arg |-> arg, before |-> db])
      BY <2>2 DEF AddsVersion, Handled
    <3>2. Len(log') = Len(log) + 1 /\ Len(log) \in Nat
      BY <2>1, <3>1
    <3> QED BY <3>2
  <2>3. ASSUME NEW t \in Token, StoreToken(t) \/ UndoToken(t)
        PROVE  FALSE
    <3>1. log' = log /\ Len(log) \in Nat
      BY <2>1, <2>3 DEF StoreToken, UndoToken
    <3> QED BY <3>1
  <2> QED BY <2>2, <2>3, EventsAddVersion, UndoStep
<1> QED BY <1>1, Invariance, PTL DEF Spec, UndoRestores

-----------------------------------------------------------------------------
\* The balances of b after the first events of s, up to that after all.
IsBalances(g, s, b) ==
  /\ g \in [0..Len(s) -> Int] /\ g[0] = 0
  /\ g[Len(s)] = Balance(s, b)
  /\ \A i \in 1..Len(s) : g[i] = Deposited(g[i - 1], s[i], b)

(***************************************************************************)
(* The sum of the changes of a provision is reached event by event.        *)
(***************************************************************************)
LEMMA BalanceTrace ==
  ASSUME NEW s \in Seq(Event), NEW b,
         \A i \in 1..Len(s) : s[i].id = b => s[i].arg["balance"] \in Int
  PROVE  \E g : IsBalances(g, s, b)
<1> DEFINE n == Len(s)
           F == [p \in Int \X (1..n) |-> Deposited(p[1], s[p[2]], b)]
           P(h) == h = [S \in SUBSET DOMAIN s |->
                         IF S = {} THEN 0
                         ELSE Deposited(h[S \ {Max(S)}], s[Max(S)], b)]
           f == CHOOSE h : P(h)
           g == [i \in 0..n |-> f[1..i]]
<1> HIDE DEF f
<1>1. n \in Nat /\ DOMAIN s = 1..n
  OBVIOUS
<1>2. F \in [Int \X (1..n) -> Int]
  <2>1. \A p \in Int \X (1..n) : Deposited(p[1], s[p[2]], b) \in Int
    BY DEF Deposited
  <2> QED BY <2>1
<1>3. PICK h : FoldsSubsets(h, n, Int, 0, F)
  <2> DEFINE V == Int
             base == 0
  <2>1. base \in V /\ F \in [V \X (1..n) -> V] /\ n \in Nat
    BY <1>1, <1>2
  <2> HIDE DEF n, F, P, V, base
  <2>2. \E h : FoldsSubsets(h, n, V, base, F)
    BY <2>1, FoldExists
  <2> QED BY <2>2 DEF V, base
<1>4. P(h)
  <2> USE DEF FoldsSubsets
  <2>1. ASSUME NEW S \in SUBSET (1..n), S # {}
        PROVE  h[S] = Deposited(h[S \ {Max(S)}], s[Max(S)], b)
    <3>1. Max(S) \in 1..n
      BY <1>1, <2>1, MaxOfSubset
    <3>2. h[S \ {Max(S)}] \in Int
      BY <1>3
    <3>3. Stepped(F, h[S \ {Max(S)}], Max(S)) = Deposited(h[S \ {Max(S)}], s[Max(S)], b)
      BY <3>1, <3>2 DEF Stepped
    <3> HIDE DEF F
    <3> QED BY <1>3, <2>1, <3>3
  <2> QED BY <1>1, <1>3, <2>1
<1>5. P(f)
  <2> HIDE DEF P
  <2> QED BY <1>4 DEF f
<1>6. Balance(s, b) = f[1..n]
  BY <1>1 DEF Balance, FoldLeft, MapThenFoldSet, f
<1>7. ASSUME NEW i \in 1..n, f[1..(i - 1)] \in Int
      PROVE  f[1..i] = Stepped(F, f[1..(i - 1)], i)
  <2>1. 1..i \in SUBSET (1..n) /\ Max(1..i) = i /\ (1..i) \ {i} = 1..(i - 1)
        /\ 1..i # {}
    BY <1>1, MaxInterval
  <2>2. f[1..i] = Deposited(f[1..(i - 1)], s[i], b)
    BY <1>1, <1>5, <2>1
  <2> QED BY <2>2, <1>7 DEF Stepped
<1>8. f[{}] = 0
  BY <1>5
<1>9. IsTrace(g, n, Int, 0, F)
  <2> DEFINE V == Int
             base == 0
  <2> HIDE DEF n, F, P
  <2>1. /\ base \in V /\ F \in [V \X (1..n) -> V] /\ n \in Nat /\ f[{}] = base
        /\ \A i \in 1..n : f[1..(i - 1)] \in V => f[1..i] = Stepped(F, f[1..(i - 1)], i)
    BY <1>1, <1>2, <1>7, <1>8
  <2> HIDE DEF V, base
  <2>2. IsTrace(g, n, V, base, F)
    BY <2>1, FoldTrace
  <2> QED BY <2>2 DEF V, base
<1>10. g \in [0..n -> Int] /\ g[0] = 0
  BY <1>9 DEF IsTrace
<1>11. g[n] = Balance(s, b)
  BY <1>1, <1>6
<1>12. ASSUME NEW i \in 1..n
       PROVE  g[i] = Deposited(g[i - 1], s[i], b)
  <2>1. g[i] = Stepped(F, g[i - 1], i)
    BY <1>9 DEF IsTrace
  <2>2. g[i - 1] \in Int
    BY <1>1, <1>10
  <2> HIDE DEF g
  <2> QED BY <2>1, <2>2 DEF Stepped
<1> HIDE DEF g
<1>13. IsBalances(g, s, b)
  BY <1>10, <1>11, <1>12 DEF IsBalances
<1> QED BY <1>13

(***************************************************************************)
(* The columns of the empty tables.                                        *)
(***************************************************************************)
LEMMA ShownFirst ==
  ASSUME IInv, NEW id \in Entity, NEW f \in Field
  PROVE  Shown(After(0), id)[f] = IF id \in MakerBalances /\ f = "balance" THEN 0 ELSE Null
<1>1. ~Exists(After(0), id)
  BY DEF IInv, LogReplayed, EmptyTables, Exists
<1>2. "balance" \in Field
  BY DEF Field
<1> QED BY <1>1, <1>2 DEF Shown, ZeroBalance, NullVal

(***************************************************************************)
(* After every event the balance of a provision is the sum of its changes  *)
(* so far.                                                                 *)
(***************************************************************************)
LEMMA ProvisionReplayed ==
  ASSUME IInv, NEW b \in MakerBalances
  PROVE  Shown(db, b)["balance"] = Balance(log, b)
<1> DEFINE n == Len(log)
<1>1. log \in Seq(Event) /\ n \in Nat /\ b \in Entity /\ "balance" \in Field
  BY DEF IInv, TypeOK, Entity, Field
<1>2. \A i \in 1..n : EventReplayed(i)
  BY DEF IInv, LogReplayed
<1>3. \A i \in 1..n : log[i].id = b => log[i].arg["balance"] \in Int
  BY <1>2 DEF EventReplayed
<1>4. PICK g : IsBalances(g, log, b)
  BY <1>1, <1>3, BalanceTrace
<1> DEFINE T == {k \in 0..n : Shown(After(k), b)["balance"] = g[k]}
<1>5. 0 \in T
  <2>1. Shown(After(0), b)["balance"] = 0
    BY <1>1, ShownFirst
  <2>2. g[0] = 0 /\ 0 \in 0..n
    BY <1>1, <1>4 DEF IsBalances
  <2> QED BY <2>1, <2>2
<1>6. ASSUME NEW k \in 1..n, k - 1 \in T
      PROVE  k \in T
  <2>1. Shown(log[k].before, b)["balance"] = g[k - 1]
    BY <1>1, <1>6, FoundWhatWasLeft
  <2>2. g[k] = Deposited(g[k - 1], log[k], b)
    BY <1>4 DEF IsBalances
  <2>3. EventReplayed(k)
    BY <1>2
  <2>4. Shown(After(k), b)["balance"] =
          IF log[k].id = b THEN Updated(g[k - 1], b, log[k].arg, "balance") ELSE g[k - 1]
    BY <1>1, <2>1, <2>3 DEF EventReplayed
  <2>5. Shown(After(k), b)["balance"] = g[k]
    BY <1>3, <2>2, <2>4, MarkersAssumption DEF Updated, Deposited
  <2> QED BY <1>1, <2>5
<1>7. n \in T
  <2> HIDE DEF T, n
  <2>1. \A k \in 0..n : k \in T
    BY <1>1, <1>5, <1>6, CountUp
  <2> QED BY <1>1, <2>1
<1>8. After(n) = db
  BY DEF After
<1> QED BY <1>4, <1>7, <1>8 DEF IsBalances

(***************************************************************************)
(* After every event any other column has the value last set, or none.     *)
(***************************************************************************)
LEMMA ColumnReplayed ==
  ASSUME IInv, NEW id \in Entity, NEW f \in Field, ~(id \in MakerBalances /\ f = "balance")
  PROVE  Shown(db, id)[f] =
           IF Setters(id, f) = {} THEN Null ELSE log[Max(Setters(id, f))].arg[f]
<1> DEFINE n == Len(log)
           S == Setters(id, f)
           UpTo(k) == S \cap 1..k
           T == {k \in 0..n : Shown(After(k), id)[f] =
                   IF UpTo(k) = {} THEN Null ELSE log[Max(UpTo(k))].arg[f]}
<1>1. log \in Seq(Event) /\ n \in Nat
  BY DEF IInv, TypeOK
<1>2. \A i \in 1..n : EventReplayed(i)
  BY DEF IInv, LogReplayed
<1>3. S \subseteq 1..n /\ \A k \in 1..n : k \in S <=> log[k].id = id /\ log[k].arg[f] # Undefined
  BY DEF Setters
<1> HIDE DEF S
<1>4. 0 \in T
  <2>1. UpTo(0) = {}
    OBVIOUS
  <2> QED BY <1>1, <2>1, ShownFirst
<1>5. ASSUME NEW k \in 1..n, k - 1 \in T
      PROVE  k \in T
  <2>1. Shown(log[k].before, id)[f] =
          IF UpTo(k - 1) = {} THEN Null ELSE log[Max(UpTo(k - 1))].arg[f]
    BY <1>1, <1>5, FoundWhatWasLeft
  <2>2. EventReplayed(k)
    BY <1>2
  <2>3. Shown(After(k), id)[f] =
          IF k \in S THEN log[k].arg[f] ELSE Shown(log[k].before, id)[f]
    BY <1>3, <2>2 DEF EventReplayed, Updated
  <2>4. CASE k \in S
    <3>1. UpTo(k) \subseteq 1..n /\ k \in UpTo(k)
      BY <1>1, <2>4
    <3>2. Max(UpTo(k)) \in UpTo(k) /\ Max(UpTo(k)) >= k
      <4> DEFINE U == UpTo(k)
      <4>1. U \subseteq 1..n /\ U # {} /\ k \in U
        BY <3>1
      <4> HIDE DEF U
      <4>2. Max(U) \in U /\ Max(U) >= k
        BY <1>1, <4>1, MaxOfSubset
      <4> QED BY <4>2 DEF U
    <3>3. Max(UpTo(k)) = k
      <4>1. \A m \in UpTo(k) : m \in 1..k
        OBVIOUS
      <4>2. Max(UpTo(k)) \in 1..k
        BY <3>2, <4>1
      <4> QED BY <1>1, <3>2, <4>2
    <3> QED BY <1>1, <2>3, <2>4, <3>1, <3>3
  <2>5. CASE k \notin S
    <3>1. UpTo(k) = UpTo(k - 1)
      BY <1>1, <2>5
    <3>2. k \in 0..n
      BY <1>1
    <3> HIDE DEF UpTo
    <3> QED BY <2>1, <2>3, <2>5, <3>1, <3>2
  <2> QED BY <2>4, <2>5
<1>6. n \in T
  <2> HIDE DEF T, n
  <2>1. \A k \in 0..n : k \in T
    BY <1>1, <1>4, <1>5, CountUp
  <2> QED BY <1>1, <2>1
<1>7. After(n) = db /\ UpTo(n) = S
  BY <1>3 DEF After
<1> QED BY <1>6, <1>7 DEF S

(***************************************************************************)
(* What the index shows of an entity is the replay of the surviving        *)
(* events: a provision is the sum of its changes, any other column has the *)
(* value last set, whatever was undone on the way.                         *)
(***************************************************************************)
THEOREM IndexReplayed == Spec => []IndexIsReplay
<1>1. ASSUME IInv
      PROVE  IndexIsReplay
  <2> SUFFICES ASSUME NEW id \in Entity, Exists(db, id), NEW f \in Field
               PROVE  Current(db, id).val[f] =
                        IF id \in MakerBalances /\ f = "balance" THEN Balance(log, id)
                        ELSE IF Setters(id, f) = {} THEN Null
                        ELSE log[Max(Setters(id, f))].arg[f]
    BY DEF IndexIsReplay
  <2>1. Current(db, id).val = Shown(db, id)
    BY DEF Shown
  <2>2. CASE id \in MakerBalances /\ f = "balance"
    BY <1>1, <2>1, <2>2, ProvisionReplayed
  <2>3. CASE ~(id \in MakerBalances /\ f = "balance")
    BY <1>1, <2>1, <2>3, ColumnReplayed
  <2> QED BY <2>2, <2>3
<1> QED BY <1>1, Invariance, PTL

-----------------------------------------------------------------------------
(***************************************************************************)
(* The stacks read off the tables.                                         *)
(***************************************************************************)
LEMMA StackType ==
  ASSUME NEW d \in Tables(Entity, Rows), NEW id \in Entity, Chained(d, id)
  PROVE  /\ d.current[id] + 1 \in Nat
         /\ Stacks(d)[id] \in Seq(Val)
         /\ Len(Stacks(d)[id]) = d.current[id] + 1
         /\ \A k \in 1..(d.current[id] + 1) :
              Stacks(d)[id][k] = d.version[id][k - 1].val
<1>1. d.current[id] + 1 \in Nat
  BY DEF Tables, Number, Null
<1>2. \A k \in 1..(d.current[id] + 1) : d.version[id][k - 1].val \in Val
  <2> TAKE k \in 1..(d.current[id] + 1)
  <2>1. k - 1 \in Number /\ k - 1 <= d.current[id]
    BY <1>1 DEF Tables, Number, Null
  <2>2. d.version[id][k - 1] \in Rows
    BY <2>1 DEF Chained, Tables
  <2> QED BY <2>2 DEF Rows
<1>3. Stacks(d)[id] =
        [k \in 1..(d.current[id] + 1) |-> d.version[id][k - 1].val]
  BY DEF Stacks
<1> QED BY <1>1, <1>2, <1>3

(***************************************************************************)
(* Adding a version puts its value on top of the stack of the entity.      *)
(***************************************************************************)
LEMMA AddVersionPushes ==
  ASSUME NEW d \in Tables(Entity, Rows), NEW id \in Entity,
         NEW t \in Tx, NEW val \in Val, CanAddVersion(d, id),
         \A j \in Entity : Chained(d, j)
  PROVE  Stacks(AddVersion(d, id, t, val))
           = [Stacks(d) EXCEPT ![id] = Append(@, val)]
<1> DEFINE n == d.current[id] + 1
           row == [prev |-> d.current[id], tx |-> t, val |-> val]
           e == AddVersion(d, id, t, val)
           old == Stacks(d)
           new == Stacks(e)
<1>1. row \in Rows
  <2>1. d.current[id] \in Number \cup {Null}
    BY DEF Tables
  <2> QED BY <2>1 DEF Rows
<1>2. /\ e \in Tables(Entity, Rows)
      /\ \A j \in Entity : e.current[j] = IF j = id THEN n ELSE d.current[j]
      /\ \A j \in Entity, k \in Number :
           e.version[j][k] = IF j = id /\ k = n THEN row ELSE d.version[j][k]
  BY <1>1, AddVersionType
<1>3. \A j \in Entity : Chained(e, j)
  BY <1>1, AddVersionChained, MarkersAssumption
<1>4. n \in Number /\ row.val = val
  BY DEF CanAddVersion
<1> HIDE DEF e, row
<1>5. ASSUME NEW j \in Entity
      PROVE  new[j] = IF j = id THEN Append(old[j], val) ELSE old[j]
  <2>1. /\ d.current[j] + 1 \in Nat
        /\ old[j] \in Seq(Val)
        /\ Len(old[j]) = d.current[j] + 1
        /\ \A k \in 1..(d.current[j] + 1) : old[j][k] = d.version[j][k - 1].val
    BY StackType
  <2>2. /\ new[j] \in Seq(Val)
        /\ Len(new[j]) = e.current[j] + 1
        /\ \A k \in 1..(e.current[j] + 1) : new[j][k] = e.version[j][k - 1].val
    BY <1>2, <1>3, StackType
  <2>3. d.current[j] \in Number \cup {Null}
    BY DEF Tables
  <2>4. \A k \in 1..(d.current[j] + 1) : k - 1 \in Number
    BY <2>3 DEF Number, Null
  <2> HIDE DEF old, new
  <2>5. CASE j = id
    <3> DEFINE s == Append(old[j], val)
    <3>1. s \in Seq(Val) /\ Len(s) = n + 1
      BY <2>1, <2>5
    <3>2. Len(new[j]) = n + 1
      BY <2>2, <2>5, <1>2
    <3>3. ASSUME NEW k \in 1..(n + 1)
          PROVE  new[j][k] = s[k]
      <4>1. new[j][k] = e.version[j][k - 1].val
        BY <2>2, <2>5, <1>2
      <4>2. CASE k = n + 1
        <5>1. e.version[j][k - 1] = row
          BY <1>2, <1>4, <2>5, <4>2 DEF Number
        <5>2. s[k] = val
          BY <2>1, <2>5, <4>2
        <5> QED BY <4>1, <5>1, <5>2, <1>4
      <4>3. CASE k # n + 1
        <5>1. k \in 1..n /\ k - 1 \in Number /\ k - 1 # n
          BY <2>1, <2>4, <2>5, <4>3
        <5>2. s[k] = old[j][k]
          BY <2>1, <2>5, <5>1
        <5> QED BY <4>1, <5>1, <5>2, <1>2, <2>1, <2>5
      <4> QED BY <4>2, <4>3
    <3> HIDE DEF s
    <3>4. new[j] = s
      BY <2>2, <3>1, <3>2, <3>3, SeqEqual
    <3> QED BY <2>5, <3>4 DEF s
  <2>6. CASE j # id
    <3>1. Len(new[j]) = Len(old[j])
      BY <1>2, <2>1, <2>2, <2>6
    <3>2. \A k \in 1..Len(old[j]) : new[j][k] = old[j][k]
      BY <1>2, <2>1, <2>2, <2>4, <2>6
    <3>3. new[j] = old[j]
      BY <2>1, <2>2, <3>1, <3>2, SeqEqual
    <3> QED BY <2>6, <3>3
  <2> QED BY <2>5, <2>6
<1>6. /\ DOMAIN new = Entity /\ DOMAIN old = Entity
      /\ new = [j \in Entity |-> new[j]] /\ old = [j \in Entity |-> old[j]]
  BY DEF Stacks
<1> HIDE DEF new, old
<1>7. new = [old EXCEPT ![id] = Append(@, val)]
  BY <1>5, <1>6
<1> QED BY <1>7 DEF new, old, e

(***************************************************************************)
(* Deleting the latest version takes the top off the stack of the entity.  *)
(***************************************************************************)
LEMMA DeleteLatestPops ==
  ASSUME NEW d \in Tables(Entity, Rows), NEW id \in Entity,
         Exists(d, id), \A j \in Entity : Chained(d, j)
  PROVE  /\ Stacks(d)[id] # <<>>
         /\ Stacks(DeleteLatest(d, id))
              = [Stacks(d) EXCEPT ![id] = SubSeq(@, 1, Len(@) - 1)]
<1> DEFINE c == d.current[id]
           e == DeleteLatest(d, id)
           old == Stacks(d)
           new == Stacks(e)
<1>1. /\ e \in Tables(Entity, Rows)
      /\ \A j \in Entity : e.current[j] = IF j = id THEN c - 1 ELSE d.current[j]
      /\ \A j \in Entity, k \in Number :
           e.version[j][k] = IF j = id /\ k = c THEN NoRow ELSE d.version[j][k]
  <2>1. Chained(d, id)
    OBVIOUS
  <2> QED BY <2>1, DeleteLatestType
<1>2. \A j \in Entity : Chained(e, j)
  BY DeleteLatestChained, MarkersAssumption
<1>3. c \in Number
  BY ChainedCanDelete
<1> HIDE DEF e
<1>4. ASSUME NEW j \in Entity
      PROVE  /\ j = id => old[j] # <<>>
             /\ new[j] = IF j = id THEN SubSeq(old[j], 1, Len(old[j]) - 1)
                         ELSE old[j]
  <2>1. /\ d.current[j] + 1 \in Nat
        /\ old[j] \in Seq(Val)
        /\ Len(old[j]) = d.current[j] + 1
        /\ \A k \in 1..(d.current[j] + 1) : old[j][k] = d.version[j][k - 1].val
    BY StackType
  <2>2. /\ new[j] \in Seq(Val)
        /\ Len(new[j]) = e.current[j] + 1
        /\ \A k \in 1..(e.current[j] + 1) : new[j][k] = e.version[j][k - 1].val
    BY <1>1, <1>2, StackType
  <2>3. d.current[j] \in Number \cup {Null}
    BY DEF Tables
  <2>4. \A k \in 1..(d.current[j] + 1) : k - 1 \in Number
    BY <2>3 DEF Number, Null
  <2> HIDE DEF old, new
  <2>5. CASE j = id
    <3> DEFINE s == SubSeq(old[j], 1, Len(old[j]) - 1)
    <3>1. old[j] # <<>>
      BY <1>3, <2>1, <2>5 DEF Number
    <3>2. /\ s \in Seq(Val) /\ Len(s) = Len(old[j]) - 1
          /\ \A k \in 1..(Len(old[j]) - 1) : s[k] = old[j][k]
      BY <2>1, <3>1, FrontProperties
    <3> HIDE DEF s
    <3>3. Len(old[j]) - 1 = c /\ Len(new[j]) = c
      BY <1>1, <1>3, <2>1, <2>2, <2>5 DEF Number
    <3>4. ASSUME NEW k \in 1..c
          PROVE  new[j][k] = s[k]
      <4>1. k \in 1..(c + 1) /\ k - 1 # c /\ k - 1 \in Number
        BY <1>3, <2>4, <2>5 DEF Number
      <4>2. new[j][k] = e.version[j][k - 1].val
        BY <2>2, <3>3
      <4> QED BY <4>1, <4>2, <3>2, <3>3, <1>1, <2>1, <2>5
    <3>5. new[j] = s
      BY <2>2, <3>2, <3>3, <3>4, SeqEqual
    <3> QED BY <2>5, <3>1, <3>5 DEF s
  <2>6. CASE j # id
    <3>1. Len(new[j]) = Len(old[j])
      BY <1>1, <2>1, <2>2, <2>6
    <3>2. \A k \in 1..Len(old[j]) : new[j][k] = old[j][k]
      BY <1>1, <2>1, <2>2, <2>4, <2>6
    <3>3. new[j] = old[j]
      BY <2>1, <2>2, <3>1, <3>2, SeqEqual
    <3> QED BY <2>6, <3>3
  <2> QED BY <2>5, <2>6
<1>5. /\ DOMAIN new = Entity /\ DOMAIN old = Entity
      /\ new = [j \in Entity |-> new[j]] /\ old = [j \in Entity |-> old[j]]
  BY DEF Stacks
<1> HIDE DEF new, old
<1>6. old[id] # <<>> /\ new = [old EXCEPT ![id] = SubSeq(@, 1, Len(@) - 1)]
  BY <1>4, <1>5
<1> QED BY <1>6 DEF new, old, e

(***************************************************************************)
(* The entities of the log, event by event.                                *)
(***************************************************************************)
LEMMA TouchedType ==
  ASSUME NEW l \in Seq(Event)
  PROVE  /\ Touched(l) \in Seq(Entity)
         /\ Len(Touched(l)) = Len(l)
         /\ \A k \in 1..Len(l) : Touched(l)[k] = l[k].id
<1>1. Len(l) \in Nat /\ \A k \in 1..Len(l) : l[k] \in Event
  BY ElementOfSeq, LenProperties
<1>2. \A k \in 1..Len(l) : l[k].id \in Entity
  BY <1>1 DEF Event
<1> QED BY <1>1, <1>2 DEF Touched

(***************************************************************************)
(* An event that adds a version is a push of the abstract specification.   *)
(***************************************************************************)
LEMMA AddIsPush ==
  ASSUME IInv, NEW id \in Entity, NEW tx \in Tx, NEW t \in Tx,
         NEW val \in Val, NEW arg \in Arg, AddsVersion(id, tx, t, val, arg), IInv'
  PROVE  History!Push(id)
<1> DEFINE old == Stacks(db)
           new == Stacks(db')
<1>1. /\ db \in Tables(Entity, Rows) /\ log \in Seq(Event) /\ log' \in Seq(Event)
      /\ \A j \in Entity : Chained(db, j)
      /\ CanAddVersion(db, id) /\ db' = AddVersion(db, id, t, val)
      /\ log' = Append(log, [id |-> id, tx |-> tx, arg |-> arg, before |-> db])
  BY DEF IInv, TypeOK, VersionsChained, AddsVersion, Handled
<1>2. new = [old EXCEPT ![id] = Append(@, val)]
  BY <1>1, AddVersionPushes
<1>3. old[id] \in Seq(Val) /\ id \in DOMAIN old
  BY <1>1, StackType DEF Stacks
<1>4. Touched(log') = Append(Touched(log), id)
  <2>1. /\ Touched(log) \in Seq(Entity) /\ Len(Touched(log)) = Len(log)
        /\ \A k \in 1..Len(log) : Touched(log)[k] = log[k].id
        /\ Touched(log') \in Seq(Entity) /\ Len(Touched(log')) = Len(log')
        /\ \A k \in 1..Len(log') : Touched(log')[k] = log'[k].id
    BY <1>1, TouchedType
  <2>2. /\ Len(log) \in Nat /\ Len(log') = Len(log) + 1
        /\ log'[Len(log) + 1].id = id
        /\ \A k \in 1..Len(log) : log'[k] = log[k]
    BY <1>1
  <2> DEFINE s == Append(Touched(log), id)
  <2>3. /\ s \in Seq(Entity) /\ Len(s) = Len(log) + 1 /\ s[Len(log) + 1] = id
        /\ \A k \in 1..Len(log) : s[k] = log[k].id
    BY <2>1, <2>2
  <2> HIDE DEF s
  <2>4. \A k \in 1..Len(log') : Touched(log')[k] = s[k]
    <3> TAKE k \in 1..Len(log')
    <3>1. CASE k = Len(log) + 1
      BY <3>1, <2>1, <2>2, <2>3
    <3>2. CASE k # Len(log) + 1
      BY <3>2, <2>1, <2>2, <2>3
    <3> QED BY <3>1, <3>2
  <2>5. Touched(log') = s
    BY <2>1, <2>2, <2>3, <2>4, SeqEqual
  <2> QED BY <2>5 DEF s
<1> HIDE DEF old, new
<1>5. /\ Len(new[id]) = Len(old[id]) + 1
      /\ new[id][Len(old[id]) + 1] = val
  BY <1>2, <1>3
<1> QED BY <1>2, <1>4, <1>5 DEF History!Push, old, new

(***************************************************************************)
(* The undo of the latest event is a pop of the abstract specification.    *)
(***************************************************************************)
LEMMA UndoIsPop ==
  ASSUME IInv, Undo, IInv'
  PROVE  History!Pop
<1> DEFINE id == Latest.id
           old == Stacks(db)
           new == Stacks(db')
           touched == Touched(log)
<1>1. /\ db \in Tables(Entity, Rows) /\ log \in Seq(Event) /\ log' \in Seq(Event)
      /\ \A j \in Entity : Chained(db, j)
      /\ log # <<>> /\ log' = SubSeq(log, 1, Len(log) - 1)
      /\ db' = DeleteLatest(db, id)
  BY DEF IInv, TypeOK, VersionsChained, Undo, deleteLatestVersion
<1>2. /\ Len(log) \in Nat \ {0} /\ Len(log') = Len(log) - 1
      /\ \A k \in 1..(Len(log) - 1) : log'[k] = log[k]
      /\ Latest \in Event
  BY <1>1, FrontProperties DEF Latest
<1>3. id \in Entity /\ Exists(db, id)
  BY <1>2 DEF Event, IInv, LogRestorable, After, Latest
<1>4. /\ old[id] # <<>>
      /\ new = [old EXCEPT ![id] = SubSeq(@, 1, Len(@) - 1)]
  <2> HIDE DEF id
  <2> QED BY <1>1, <1>3, DeleteLatestPops
<1>5. /\ touched \in Seq(Entity) /\ Len(touched) = Len(log)
      /\ \A k \in 1..Len(log) : touched[k] = log[k].id
      /\ Touched(log') \in Seq(Entity) /\ Len(Touched(log')) = Len(log')
      /\ \A k \in 1..Len(log') : Touched(log')[k] = log'[k].id
  BY <1>1, TouchedType
<1> HIDE DEF touched
<1>6. touched # <<>> /\ touched[Len(touched)] = id
  BY <1>2, <1>5 DEF Latest
<1>7. Touched(log') = SubSeq(touched, 1, Len(touched) - 1)
  <2> DEFINE s == SubSeq(touched, 1, Len(touched) - 1)
  <2>1. /\ s \in Seq(Entity) /\ Len(s) = Len(touched) - 1
        /\ \A k \in 1..(Len(touched) - 1) : s[k] = touched[k]
    BY <1>5, <1>6, FrontProperties
  <2> HIDE DEF s
  <2>2. \A k \in 1..Len(Touched(log')) : Touched(log')[k] = s[k]
    BY <1>2, <1>5, <2>1
  <2>3. Touched(log') = s
    BY <1>2, <1>5, <2>1, <2>2, SeqEqual
  <2> QED BY <2>3 DEF s
<1> HIDE DEF id, old, new
<1> QED BY <1>4, <1>6, <1>7 DEF History!Pop, old, new, touched

(***************************************************************************)
(* The versioned tables implement the stacks of values that the section    *)
(* "Versioning of entities" promises: an event is a push, an undo a pop,   *)
(* and the token stream and the rest of the columns do not show.           *)
(***************************************************************************)
THEOREM Refinement == Spec => ImplementsHistory
<1>1. Init => History!Init
  <2> SUFFICES ASSUME Init
               PROVE  History!Init
    OBVIOUS
  <2>1. \A id \in Entity : db.current[id] = -1
    BY DEF Init, EmptyTables, Null
  <2>2. \A id \in Entity : Stacks(db)[id] = <<>>
    <3> TAKE id \in Entity
    <3>1. Stacks(db)[id] =
            [k \in 1..(db.current[id] + 1) |-> db.version[id][k - 1].val]
      BY DEF Stacks
    <3>2. 1..(db.current[id] + 1) = {}
      BY <2>1
    <3> QED BY <3>1, <3>2
  <2>3. Stacks(db) = [id \in Entity |-> <<>>]
    BY <2>2 DEF Stacks
  <2>4. Touched(log) = <<>>
    BY DEF Init, Touched
  <2> QED BY <2>3, <2>4 DEF History!Init
<1>2. IInv /\ [Next]_vars => [History!Next]_History!vars
  <2> SUFFICES ASSUME IInv, [Next]_vars
               PROVE  [History!Next]_History!vars
    OBVIOUS
  <2>1. IInv'
    BY NextIInv
  <2>2. ASSUME NEW id \in Entity, NEW tx \in Tx, NEW t \in Tx, NEW val \in Val,
               NEW arg \in Arg, AddsVersion(id, tx, t, val, arg)
        PROVE  History!Next
    BY <2>1, <2>2, AddIsPush DEF History!Next
  <2>3. CASE Undo
    BY <2>1, <2>3, UndoIsPop DEF History!Next
  <2>4. ASSUME NEW t \in Token, StoreToken(t) \/ UndoToken(t)
        PROVE  UNCHANGED History!vars
    BY <2>4 DEF StoreToken, UndoToken, History!vars
  <2>5. CASE UNCHANGED vars
    BY <2>5 DEF vars, History!vars
  <2>6. CASE Next
    BY <2>6, <2>2, <2>3, <2>4, EventsAddVersion
  <2> QED BY <2>5, <2>6
<1> QED BY <1>1, <1>2, Invariance, PTL DEF Spec, ImplementsHistory, History!Spec

=============================================================================
