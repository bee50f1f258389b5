--------------------------- MODULE AtomicHandlers ---------------------------
(***************************************************************************)
(* What the other modules take for granted: the handler of an event runs   *)
(* in one step.  Of the tables there are only those that more than one     *)
(* stream writes: transactions, accounts, orders with the MangroveOrders   *)
(* that refer to them, and the versions of MangroveOrders.                 *)
(*                                                                         *)
(* StreamSessions.tla has the same handlers statement by statement, in     *)
(* database transactions that run side by side.                            *)
(***************************************************************************)
EXTENDS Versioning, SequencesExt

CONSTANTS
  Streams,
  Scripts,          \* what the streams may carry: [Streams -> Seq(Event)]
  Keys,             \* ids of transactions, accounts and orders
  MangroveOrders,
  OrderOf           \* the order a MangroveOrder refers to

\* An event: the rows its handler makes sure of, in this order, then what
\* its kind says, of an order and the MangroveOrders whose resting offer it
\* took, or of one MangroveOrder.
Event == [kind    : {"ensure", "order", "undoOrder", "summary", "undoSummary", "expiry"},
          ensures : Seq(Keys), order : Keys,
          on      : {S \in SUBSET MangroveOrders : IsFiniteSet(S)}]

ASSUME ScriptAssumption ==
  /\ OrderOf \in [MangroveOrders -> Keys]
  /\ Scripts \subseteq [Streams -> Seq(Event)]

\* The tables d: rows are the keys of Transaction, Account and Order.
NoTables == [rows |-> {}, mangroveOrders |-> EmptyTables(MangroveOrders)]

\* The columns of a version other than prevVersionId are left out.
Column == 0

\* The absence of a row is none of the versions.
ASSUME AbsenceAssumption ==
  NoRow \notin [prev : Number \cup {Null}, tx : {Column}, val : {Column}]

AddMangroveOrderVersion(d, m) == AddVersion(d, m, Column, Column)

Added(d, S)   == [d EXCEPT !.mangroveOrders = OnEach(AddMangroveOrderVersion, @, S)]
Deleted(d, S) == [d EXCEPT !.mangroveOrders = OnEach(DeleteLatest, @, S)]

Known(d, S) == {m \in S : Exists(d.mangroveOrders, m)}

\* Why a handler throws.
Refuses(e, d) ==
  \/ e.kind = "order" /\ e.order \in d.rows
  \/ /\ e.kind = "undoOrder"
     /\ \/ e.order \notin d.rows
        \/ \E m \in Known(d, MangroveOrders) : OrderOf[m] = e.order
        \/ \E m \in Known(d, e.on) : ~CanDeleteLatest(d.mangroveOrders, m)
  \/ /\ e.kind = "summary"
     /\ \E m \in e.on : ~CanAddVersion(d.mangroveOrders, m)
  \/ /\ e.kind = "expiry"
     /\ \E m \in Known(d, e.on) : ~CanAddVersion(d.mangroveOrders, m)
  \/ /\ e.kind = "undoSummary"
     /\ \E m \in e.on : ~CanDeleteLatest(d.mangroveOrders, m)

Effect(e, d) ==
  CASE e.kind = "ensure"      -> d
    [] e.kind = "order"       -> [d EXCEPT !.rows = @ \cup {e.order}]
    [] e.kind = "undoOrder"   -> [Deleted(d, Known(d, e.on)) EXCEPT !.rows = @ \ {e.order}]
    [] e.kind = "summary"     -> Added(d, e.on)
    [] e.kind = "expiry"      -> Added(d, Known(d, e.on))
    [] e.kind = "undoSummary" -> Deleted(d, e.on)

WithRows(e, d) == [d EXCEPT !.rows = @ \cup ToSet(e.ensures)]

\* The tables that event e can leave behind, if it finds one of D.
Handled(D, e) ==
  {Effect(e, WithRows(e, d)) : d \in {x \in D : ~Refuses(e, WithRows(e, x))}}

\* The tables after done[s] events of every stream s, handled one after
\* another in any order of the streams.
Outcomes(script, done) ==
  LET Before(n, s) == [n EXCEPT ![s] = @ - 1]
      from[n \in [Streams -> Nat]] ==
        IF \A s \in Streams : n[s] = 0 THEN {NoTables}
        ELSE UNION {Handled(from[Before(n, s)], script[s][n[s]]) :
                      s \in {t \in Streams : n[t] > 0}}
  IN  from[done]

=============================================================================
