--------------------------- MODULE StreamSessions ---------------------------
(***************************************************************************)
(* The handlers of several streams, statement by statement.  A stream has  *)
(* one database transaction at a time, in which it handles a batch of its  *)
(* events; the transactions of different streams run side by side under    *)
(* READ COMMITTED (the default of PostgreSQL, which the code never         *)
(* changes):                                                               *)
(*                                                                         *)
(*   - a statement reads what is committed and what its own transaction    *)
(*     has written;                                                        *)
(*   - a write waits for another transaction that has written that row,    *)
(*     or has created a row of that key, until it has ended;               *)
(*   - of two transactions that wait for each other one is rolled back;    *)
(*   - referential actions are not left to the database (relationMode is   *)
(*     "prisma"): a delete is preceded by a query for rows that refer to   *)
(*     what it deletes.                                                    *)
(*                                                                         *)
(* A handler that throws has its transaction rolled back, and the stream   *)
(* is opened again where it was.                                           *)
(***************************************************************************)
EXTENDS AtomicHandlers

CONSTANTS
  BatchSize,   \* most events in one database transaction
  MaxFaults    \* bound on the transactions that end for another reason

ASSUME SessionAssumption == BatchSize \in Nat \ {0} /\ MaxFaults \in Nat

\* The rows that more than one stream writes, by their primary key.
Row(k)        == <<"row", k, 0>>
Order(m)      == <<"mangroveOrder", m, 0>>
Version(m, n) == <<"version", m, n>>

RowKey == {Row(k) : k \in Keys} \cup {Order(m) : m \in MangroveOrders}
            \cup {Version(m, n) : m \in MangroveOrders, n \in Number}

\* What is kept of a row: the current version of a MangroveOrder, the
\* previous version of a version, or nothing.
Present == 0
Value   == Number \cup {Null}

ASSUME ValueAssumption == NoRow \notin Value

VARIABLES
  script,   \* the events of each stream
  done,     \* how many of them are handled: the stored offset
  db,       \* the committed rows
  batch,    \* how many events the transaction of a stream handles, or 0
  pending,  \* the rows it has written
  todo,     \* the statements that are left of it
  alone,    \* no other has committed since it began (history)
  woken,    \* the stream that goes on after a deadlock, or none
  faults

vars == <<script, done, db, batch, pending, todo, alone, woken, faults>>

Nothing == [k \in {} |-> NoRow]

Init ==
  /\ script \in Scripts
  /\ done = [s \in Streams |-> 0]
  /\ db = [k \in RowKey |-> NoRow]
  /\ batch = [s \in Streams |-> 0]
  /\ pending = [s \in Streams |-> Nothing]
  /\ todo = [s \in Streams |-> <<>>]
  /\ alone = [s \in Streams |-> TRUE]
  /\ woken = {}
  /\ faults = 0

-----------------------------------------------------------------------------
(***************************************************************************)
(* Statements, with what earlier ones have read: a handler goes on with    *)
(* the rows it has in its hands, whatever has become of them.              *)
(***************************************************************************)
Stmt(op, key, val, old) == [op |-> op, key |-> key, val |-> val, old |-> old]

Query(op, key)        == Stmt(op, key, Null, Null)
Create(key, val)      == Stmt("create", key, val, Null)
Update(key, val)      == Stmt("update", key, val, Null)
\* The row as it was found is what an upsert creates.
Upsert(key, val, old) == Stmt("upsert", key, val, old)

\* Deleting is refused while the query for references has a result.
Delete(key) == << Query("references", key), Query("delete", key) >>

Writes == {"create", "update", "upsert", "delete"}

\* Throws when the row is not there.
Requires == {"find", "current", "oldVersion", "latest", "version", "update", "delete"}

\* Mutant: the new version is not linked to the one before.
AddVersionStmtsUnlinked(m, n, prev, old) ==
  << Upsert(Order(m), n, old), Create(Version(m, n), Null) >>

AddVersionStmts(m, n, prev, old) ==
  << Upsert(Order(m), n, old), Create(Version(m, n), prev) >>

\* Mutant: the MangroveOrder is deleted before its last version.
DeleteLatestStmtsOrderFirst(m, n, prev) ==
  << Update(Order(m), prev) >> \o (IF prev = Null THEN Delete(Order(m)) ELSE <<>>)
    \o Delete(Version(m, n))

DeleteLatestStmts(m, n, prev) ==
  << Update(Order(m), prev) >> \o Delete(Version(m, n))
    \o (IF prev = Null THEN Delete(Order(m)) ELSE <<>>)

\* Mutant: a row that is there already is created again.
EnsuredAlways(key, r) == << Create(key, Present) >>

Ensured(key, r) == IF r = NoRow THEN << Create(key, Present) >> ELSE <<>>

\* The statements that follow from the row r that statement st has read.
\* A version is added in three steps: the MangroveOrder is looked up, again
\* for its current version, and that version; the latest one is deleted
\* after the first and the last of these.
Follow(st, r) ==
  LET m == st.key[2] IN
  CASE st.op = "ensure"     -> Ensured(st.key, r)
    [] st.op = "findMany"   -> IF r = NoRow THEN <<>> ELSE << Query("latest", st.key) >>
    [] st.op = "latest"     -> << Query("version", Version(m, r)) >>
    [] st.op = "version"    -> DeleteLatestStmts(m, st.key[3], r)
    [] st.op = "findFirst"  -> IF r = NoRow THEN <<>> ELSE << Query("find", st.key) >>
    [] st.op = "findOrNew"  -> IF r = NoRow THEN AddVersionStmts(m, 0, Null, 0)
                               ELSE << Stmt("current", st.key, Null, r) >>
    [] st.op = "find"       -> << Stmt("current", st.key, Null, r) >>
    [] st.op = "current"    -> << Stmt("oldVersion", Version(m, r), Null, st.old) >>
    [] st.op = "oldVersion" -> AddVersionStmts(m, st.key[3] + 1, st.key[3], st.old)
    [] OTHER                -> <<>>

\* What an event is handled with.
On(op, e) == [i \in 1..Cardinality(e.on) |-> Query(op, Order(SetToSeq(e.on)[i]))]

Statements(e) ==
  [i \in 1..Len(e.ensures) |-> Query("ensure", Row(e.ensures[i]))] \o
  CASE e.kind = "ensure"      -> <<>>
    [] e.kind = "order"       -> << Create(Row(e.order), Present) >>
    [] e.kind = "undoOrder"   -> Delete(Row(e.order)) \o On("findMany", e)
    [] e.kind = "summary"     -> On("findOrNew", e)
    [] e.kind = "expiry"      -> On("findFirst", e)
    [] e.kind = "undoSummary" -> On("latest", e)

-----------------------------------------------------------------------------
(***************************************************************************)
(* READ COMMITTED.                                                         *)
(***************************************************************************)

\* Mutant: a query outside of the transaction.
SeesCommitted(s, k) == db[k]

Sees(s, k) == IF k \in DOMAIN pending[s] THEN pending[s][k] ELSE db[k]

\* The rows that refer to the row of key k, as s sees them.
Referenced(s, k) ==
  CASE k[1] = "row" ->
         \E m \in MangroveOrders : OrderOf[m] = k[2] /\ Sees(s, Order(m)) # NoRow
    [] k[1] = "mangroveOrder" ->
         \E n \in Number : Sees(s, Version(k[2], n)) # NoRow
    [] k[1] = "version" ->
         \E n \in Number : Sees(s, Version(k[2], n)) = k[3]

Statement(s) == Head(todo[s])

WaitsFor(s, t) ==
  /\ s # t /\ todo[s] # <<>>
  /\ Statement(s).op \in Writes
  /\ Statement(s).key \in DOMAIN pending[t]

Blocked(s) == \E t \in Streams : WaitsFor(s, t)

\* A throw of the handler, or of the query engine: a primary key that is
\* taken, a row that is not found, one that is referred to.
Throws(s) ==
  LET st == Statement(s)
      r  == Sees(s, st.key)
  IN  /\ todo[s] # <<>>
      /\ ~Blocked(s)
      /\ \/ st.op = "create" /\ r # NoRow
         \/ st.op \in Requires /\ r = NoRow
         \/ st.op = "references" /\ Referenced(s, st.key)
         \/ st.op = "oldVersion" /\ st.key[3] + 1 \notin Number

\* The rows f, with row r for key k.
WithRow(f, k, r) == [x \in DOMAIN f \cup {k} |-> IF x = k THEN r ELSE f[x]]

Written(st, r) ==
  CASE st.op = "delete" -> NoRow
    [] st.op = "upsert" -> IF r = NoRow THEN st.old ELSE st.val
    [] OTHER            -> st.val

-----------------------------------------------------------------------------
Begin(s, n) ==
  /\ batch[s] = 0 /\ woken = {}
  /\ n \in 1..BatchSize /\ done[s] + n <= Len(script[s])
  /\ batch' = [batch EXCEPT ![s] = n]
  /\ todo' = [todo EXCEPT ![s] =
       FlattenSeq([i \in 1..n |-> Statements(script[s][done[s] + i])])]
  /\ alone' = [alone EXCEPT ![s] = TRUE]
  /\ UNCHANGED <<script, done, db, pending, woken, faults>>

Execute(s) ==
  /\ todo[s] # <<>>
  /\ ~Blocked(s)
  /\ ~Throws(s)
  /\ LET st == Statement(s)
         r  == Sees(s, st.key)
     IN  /\ todo' = [todo EXCEPT ![s] = Follow(st, r) \o Tail(@)]
         /\ pending' = IF st.op \in Writes
                       THEN [pending EXCEPT ![s] = WithRow(@, st.key, Written(st, r))]
                       ELSE pending
  /\ woken' = woken \ {s}
  /\ UNCHANGED <<script, done, db, batch, alone, faults>>

\* Mutant: what a rolled back transaction has written is used by the next.
EndKeepsPending(s) ==
  /\ batch' = [batch EXCEPT ![s] = 0]
  /\ todo' = [todo EXCEPT ![s] = <<>>]
  /\ UNCHANGED pending

End(s) ==
  /\ batch' = [batch EXCEPT ![s] = 0]
  /\ pending' = [pending EXCEPT ![s] = Nothing]
  /\ todo' = [todo EXCEPT ![s] = <<>>]

\* The offset is written with the rest.
Commit(s) ==
  /\ batch[s] > 0 /\ todo[s] = <<>>
  /\ db' = [k \in RowKey |-> Sees(s, k)]
  /\ done' = [done EXCEPT ![s] = @ + batch[s]]
  /\ End(s)
  /\ alone' = [t \in Streams |-> t = s]
  /\ woken' = woken \ {s}
  /\ UNCHANGED <<script, faults>>

Rollback(s) ==
  /\ End(s)
  /\ woken' = woken \ {s}
  /\ UNCHANGED <<script, done, db, alone>>

Throw(s) == Throws(s) /\ Rollback(s) /\ UNCHANGED faults

\* The database ends a transaction that waits for one that waits for it.  The
\* other is woken at once; the stream of the first comes back no sooner than a
\* second later.
Deadlock(s) ==
  /\ \E t \in Streams : WaitsFor(s, t) /\ WaitsFor(t, s) /\ woken' = {t}
  /\ End(s)
  /\ UNCHANGED <<script, done, db, alone, faults>>

\* A timeout, a lost connection or the end of the process.
Fault(s) ==
  /\ batch[s] > 0
  /\ faults < MaxFaults
  /\ faults' = faults + 1
  /\ Rollback(s)

Step(s) == Execute(s) \/ Throw(s) \/ Commit(s) \/ Deadlock(s)

Next ==
  \E s \in Streams :
    \/ \E n \in 1..BatchSize : Begin(s, n)
    \/ Step(s)
    \/ Fault(s)

\* A stream is opened again after a failure, and its transaction goes on.
Fairness ==
  \A s \in Streams : /\ WF_vars(\E n \in 1..BatchSize : Begin(s, n))
                     /\ WF_vars(Step(s))

Spec     == Init /\ [][Next]_vars
FairSpec == Spec /\ Fairness

-----------------------------------------------------------------------------
(***************************************************************************)
(* Properties.                                                             *)
(***************************************************************************)

\* Rows, and what the transactions have written of them: nothing outside of
\* a transaction.
TypeOK ==
  /\ done \in [Streams -> Nat] /\ batch \in [Streams -> 0..BatchSize]
  /\ db \in [RowKey -> Value \cup {NoRow}]
  /\ \A s \in Streams :
       /\ DOMAIN pending[s] \subseteq RowKey
       /\ \A k \in DOMAIN pending[s] : pending[s][k] \in Value \cup {NoRow}
       /\ \A i \in 1..Len(todo[s]) : todo[s][i].key \in RowKey
       /\ batch[s] = 0 => pending[s] = Nothing /\ todo[s] = <<>>
  /\ alone \in [Streams -> BOOLEAN] /\ woken \subseteq Streams
  /\ faults \in 0..MaxFaults

\* The rows f as the tables of AtomicHandlers.
TablesOf(f) ==
  [rows |-> {k \in Keys : f[Row(k)] # NoRow},
   mangroveOrders |->
     [current |-> [m \in MangroveOrders |->
                     IF f[Order(m)] = NoRow THEN Null ELSE f[Order(m)]],
      version |-> [m \in MangroveOrders |-> [n \in Number |->
                     IF f[Version(m, n)] = NoRow THEN NoRow
                     ELSE [prev |-> f[Version(m, n)], tx |-> Column, val |-> Column]]]]]

Committed == TablesOf(db)

\* Whatever the statements of the streams do between each other, what is
\* committed is what the same events leave behind when each is handled in
\* one step, in some order of the streams: what a handler read earlier still
\* held when it used it, or it has thrown, or it might have come first.
Serialisable == Committed \in Outcomes(script, done)

\* The versions of a MangroveOrder are linked and numbered without a gap
\* (README.md, "Versioning of entities"), whatever two streams read of it
\* before one of them wrote.
VersionsChained == \A m \in MangroveOrders : Chained(Committed.mangroveOrders, m)

\* The tables that the next k events of s leave behind, when each is handled
\* in one step and nothing comes between them; none if one is refused.
NextInOneStep(s, k) ==
  LET after[n \in 0..k] ==
        IF n = 0 THEN {Committed} ELSE Handled(after[n - 1], script[s][done[s] + n])
  IN  after[k]

\* The same for the events of its transaction.
InOneStep(s) == NextInOneStep(s, batch[s])

\* A transaction in whose time no other has committed leaves behind what
\* its events would, one after another in one step each, whatever the
\* others have begun and written in that time.
AtomicUnlessOvertaken ==
  [][\A s \in Streams :
       done'[s] # done[s] /\ alone[s] /\ VersionsChained => Committed' \in InOneStep(s)]_vars

\* Versions lose their links only in a transaction that was overtaken (the
\* race of a SetExpiry with the undo of an order needs one).
UnlinkedOnlyWhenOvertaken ==
  [][VersionsChained /\ ~VersionsChained' =>
       \E s \in Streams : done'[s] # done[s] /\ ~alone[s]]_vars

\* A handler throws in a transaction that nobody overtook only if one of its
\* events would be refused when handled in one step: an undo of an order that
\* its MangroveOrder still needs, an undo of a summary whose MangroveOrder is
\* gone.  Whatever the others have begun, written or locked is no reason.
ThrowsOnlyWhenRefused ==
  \A s \in Streams : Throws(s) /\ alone[s] /\ VersionsChained => InOneStep(s) = {}

\* The next batch of s may have the undo of a summary that is refused as the
\* rows are now.  The undo of an order deletes the MangroveOrders of the
\* offers it took, so that the strats stream cannot undo their summaries.
SummaryLost(s) ==
  \E n \in 1..BatchSize :
    /\ done[s] + n <= Len(script[s])
    /\ script[s][done[s] + n].kind = "undoSummary"
    /\ NextInOneStep(s, n - 1) # {}
    /\ NextInOneStep(s, n) = {}

\* Nothing else stops a stream for good: neither locks, deadlocks and throws
\* that come from the transactions of others, nor an order that can only be
\* deleted when the strats stream has taken back its MangroveOrder.
AllHandledUnlessLost ==
  <>[](\A s \in Streams : done[s] = Len(script[s]) \/ SummaryLost(s))

=============================================================================
