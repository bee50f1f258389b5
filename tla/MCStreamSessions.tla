-------------------------- MODULE MCStreamSessions --------------------------
(***************************************************************************)
(* StreamSessions with two streams and a few scripts for them.             *)
(***************************************************************************)
EXTENDS StreamSessions

CONSTANTS m1, m2

MCStreams == {"a", "b"}
MCKeys    == {"t1", "t2", "x", "y", "o1", "o2", "o3"}
MCOrderOf == (m1 :> "o1") @@ (m2 :> "o3")

E(kind, ensures, order, on) ==
  [kind |-> kind, ensures |-> ensures, order |-> order, on |-> on]

Pair(a, b) == [s \in MCStreams |-> IF s = "a" THEN a ELSE b]

MCScripts == {
  \* The mangrove and the kandel stream make sure of the same transactions
  \* and accounts, in different orders.
  Pair(<<E("ensure", <<"t1", "x">>, "o1", {}), E("ensure", <<"t2", "y">>, "o1", {})>>,
       <<E("ensure", <<"t2", "y">>, "o1", {}), E("ensure", <<"t1", "y", "x">>, "o1", {})>>),
  \* An order and its summary, taken back, and another in its place.
  Pair(<<E("order", <<"t1", "x">>, "o1", {}), E("undoOrder", <<"t1">>, "o1", {}),
         E("order", <<"t2", "x">>, "o3", {})>>,
       <<E("summary", <<"t1">>, "o1", {m1}), E("undoSummary", <<"t1">>, "o1", {m1}),
         E("summary", <<"t2">>, "o3", {m2})>>),
  \* An order that took a resting offer is taken back, while the summary of
  \* the offer and that of another order are handled.
  Pair(<<E("order", <<"t2", "x">>, "o2", {}), E("undoOrder", <<"t2">>, "o2", {m1})>>,
       <<E("summary", <<"t1">>, "o1", {m1}), E("summary", <<"t2">>, "o3", {m2})>>),
  \* The order that took a resting offer and the summary of the offer are both
  \* taken back.
  Pair(<<E("order", <<"t2", "x">>, "o2", {}), E("undoOrder", <<"t2">>, "o2", {m1})>>,
       <<E("summary", <<"t1">>, "o1", {m1}), E("undoSummary", <<"t1">>, "o1", {m1})>>),
  \* Expiries, the first before the summary.
  Pair(<<E("order", <<"t1", "x">>, "o1", {}), E("order", <<"t2", "y">>, "o2", {})>>,
       <<E("expiry", <<"t1">>, "o1", {m1}), E("summary", <<"t1">>, "o1", {m1}),
         E("expiry", <<"t2">>, "o1", {m1})>>) }

\* The expiry of a resting offer is set while an order that took it is taken
\* back.
MCRacingScripts == {
  Pair(<<E("order", <<"t2", "x">>, "o2", {}), E("undoOrder", <<"t2">>, "o2", {m1})>>,
       <<E("summary", <<"t1">>, "o1", {m1}), E("expiry", <<"t2">>, "o1", {m1})>>) }

=============================================================================
