------------------------ MODULE StreamSessionsProofs ------------------------
(***************************************************************************)
(* The properties of StreamSessions for any streams, scripts, batches and  *)
(* faults.                                                                 *)
(***************************************************************************)
EXTENDS StreamSessions, Lemmas

-----------------------------------------------------------------------------
(***************************************************************************)
(* Short sequences.                                                        *)
(***************************************************************************)
LEMMA Heads ==
  ASSUME NEW a, NEW b, NEW c, NEW d, NEW e
  PROVE  /\ Head(<<a>>) = a /\ Tail(<<a>>) = <<>>
         /\ Head(<<a, b>>) = a /\ Tail(<<a, b>>) = <<b>>
         /\ Head(<<a, b, c>>) = a /\ Tail(<<a, b, c>>) = <<b, c>>
         /\ Head(<<a, b, c, d>>) = a /\ Tail(<<a, b, c, d>>) = <<b, c, d>>
         /\ Head(<<a, b, c, d, e>>) = a /\ Tail(<<a, b, c, d, e>>) = <<b, c, d, e>>
<1>1. Head(<<a>>) = a /\ Tail(<<a>>) = <<>>
  OBVIOUS
<1>2. Head(<<a, b>>) = a /\ Tail(<<a, b>>) = <<b>>
  OBVIOUS
<1>3. Head(<<a, b, c>>) = a /\ Tail(<<a, b, c>>) = <<b, c>>
  OBVIOUS
<1>4. Head(<<a, b, c, d>>) = a /\ Tail(<<a, b, c, d>>) = <<b, c, d>>
  OBVIOUS
<1>5. Head(<<a, b, c, d, e>>) = a /\ Tail(<<a, b, c, d, e>>) = <<b, c, d, e>>
  OBVIOUS
<1> QED BY <1>1, <1>2, <1>3, <1>4, <1>5

\* Short literal sequences put together.
LEMMA ShortConcats ==
  ASSUME NEW S, NEW a \in S, NEW b \in S, NEW c \in S, NEW d \in S, NEW e \in S
  PROVE  /\ <<a>> \o <<b, c>> = <<a, b, c>>
         /\ <<a, b, c>> \o <<d, e>> = <<a, b, c, d, e>>
<1>1. <<a>> \o <<b, c>> = <<a, b, c>>
  <2> DEFINE s == <<a>>
             t == <<b, c>>
             u == <<a, b, c>>
             v == s \o t
  <2>1. s \in Seq(S) /\ Len(s) = 1 /\ s[1] = a
    OBVIOUS
  <2>2. t \in Seq(S) /\ Len(t) = 2 /\ t[1] = b /\ t[2] = c
    OBVIOUS
  <2>3. u \in Seq(S) /\ Len(u) = 3 /\ u[1] = a /\ u[2] = b /\ u[3] = c
    OBVIOUS
  <2> HIDE DEF s, t, u
  <2>4. v \in Seq(S) /\ Len(v) = 3 /\ v[1] = a /\ v[2] = b /\ v[3] = c
    <3>1. /\ v \in Seq(S) /\ Len(v) = Len(s) + Len(t)
          /\ \A i \in 1..(Len(s) + Len(t)) :
               v[i] = IF i <= Len(s) THEN s[i] ELSE t[i - Len(s)]
      BY <2>1, <2>2, ConcatProperties
    <3> HIDE DEF v
    <3>2. v[1] = s[1] /\ v[2] = t[1] /\ v[3] = t[2]
      BY <2>1, <2>2, <3>1
    <3> QED BY <2>1, <2>2, <3>1, <3>2
  <2> HIDE DEF v
  <2>5. v = u
    BY <2>3, <2>4, SeqEqual
  <2> QED BY <2>5 DEF s, t, u, v
<1>2. <<a, b, c>> \o <<d, e>> = <<a, b, c, d, e>>
  <2> DEFINE s == <<a, b, c>>
             t == <<d, e>>
             u == <<a, b, c, d, e>>
             v == s \o t
  <2>1. s \in Seq(S) /\ Len(s) = 3 /\ s[1] = a /\ s[2] = b /\ s[3] = c
    OBVIOUS
  <2>2. t \in Seq(S) /\ Len(t) = 2 /\ t[1] = d /\ t[2] = e
    OBVIOUS
  <2>3. u \in Seq(S) /\ Len(u) = 5 /\ u[1] = a /\ u[2] = b /\ u[3] = c /\ u[4] = d /\ u[5] = e
    OBVIOUS
  <2> HIDE DEF s, t, u
  <2>4. v \in Seq(S) /\ Len(v) = 5 /\ v[1] = a /\ v[2] = b /\ v[3] = c /\ v[4] = d /\ v[5] = e
    <3>1. /\ v \in Seq(S) /\ Len(v) = Len(s) + Len(t)
          /\ \A i \in 1..(Len(s) + Len(t)) :
               v[i] = IF i <= Len(s) THEN s[i] ELSE t[i - Len(s)]
      BY <2>1, <2>2, ConcatProperties
    <3> HIDE DEF v
    <3>2. v[1] = s[1] /\ v[2] = s[2] /\ v[3] = s[3] /\ v[4] = t[1] /\ v[5] = t[2]
      BY <2>1, <2>2, <3>1
    <3> QED BY <2>1, <2>2, <3>1, <3>2
  <2> HIDE DEF v
  <2>5. v = u
    BY <2>3, <2>4, SeqEqual
  <2> QED BY <2>5 DEF s, t, u, v
<1> QED BY <1>1, <1>2

(***************************************************************************)
(* Taking the first element of p, and putting a sequence q in its place,   *)
(* leaves what follows p where it was.                                     *)
(***************************************************************************)
LEMMA Replace ==
  ASSUME NEW S, NEW p \in Seq(S), NEW q \in Seq(S), NEW r \in Seq(S), p # <<>>
  PROVE  /\ p \o r # <<>> /\ Head(p \o r) = Head(p) /\ Head(p) \in S
         /\ Tail(p) \in Seq(S) /\ q \o Tail(p) \in Seq(S)
         /\ q \o Tail(p \o r) = (q \o Tail(p)) \o r
<1>1. /\ Tail(p) \in Seq(S) /\ Head(p) \in S /\ p \o r \in Seq(S)
      /\ Len(p) \in Nat \ {0} /\ Len(r) \in Nat
  BY ConcatProperties, EmptySeq
<1>2. Len(p \o r) = Len(p) + Len(r) /\ p \o r # <<>> /\ (p \o r)[1] = p[1]
  BY <1>1, ConcatProperties
<1>3. Head(p \o r) = Head(p)
  BY <1>1, <1>2, HeadTailProperties
<1>4. Tail(p \o r) = Tail(p) \o r
  <2> DEFINE t == Tail(p)
             u == p \o r
             v == Tail(u)
             w == t \o r
  <2>1. t \in Seq(S) /\ Len(t) = Len(p) - 1 /\ \A i \in 1..Len(t) : t[i] = p[i + 1]
    BY <1>1, HeadTailProperties
  <2>2. /\ u \in Seq(S) /\ Len(u) = Len(p) + Len(r) /\ u # <<>>
        /\ \A i \in 1..Len(u) : u[i] = IF i <= Len(p) THEN p[i] ELSE r[i - Len(p)]
    BY <1>1, <1>2, ConcatProperties
  <2> HIDE DEF t, u
  <2>3. v \in Seq(S) /\ Len(v) = Len(u) - 1 /\ \A i \in 1..Len(v) : v[i] = u[i + 1]
    BY <1>1, <2>2, HeadTailProperties
  <2>4. /\ w \in Seq(S) /\ Len(w) = Len(t) + Len(r)
        /\ \A i \in 1..Len(w) : w[i] = IF i <= Len(t) THEN t[i] ELSE r[i - Len(t)]
    BY <2>1, ConcatProperties
  <2> HIDE DEF v, w
  <2>5. ASSUME NEW i \in 1..Len(v)
        PROVE  v[i] = w[i]
    <3>1. i \in Nat /\ i + 1 \in 1..Len(u) /\ i \in 1..Len(w)
      BY <1>1, <2>1, <2>2, <2>3, <2>4
    <3>2. CASE i <= Len(t)
      <4>1. i \in 1..Len(t) /\ i + 1 <= Len(p)
        BY <1>1, <2>1, <3>1, <3>2
      <4> QED BY <2>1, <2>2, <2>3, <2>4, <3>1, <4>1, <3>2
    <3>3. CASE ~(i <= Len(t))
      <4>1. ~(i + 1 <= Len(p)) /\ i + 1 - Len(p) = i - Len(t)
        BY <1>1, <2>1, <3>1, <3>3
      <4> QED BY <2>2, <2>3, <2>4, <3>1, <3>3, <4>1
    <3> QED BY <3>2, <3>3
  <2>6. v = w
    <3>1. Len(v) = Len(w)
      BY <1>1, <2>1, <2>2, <2>3, <2>4
    <3> QED BY <2>3, <2>4, <2>5, <3>1, SeqEqual
  <2> QED BY <2>6 DEF t, u, v, w
<1>5. q \o (Tail(p) \o r) = (q \o Tail(p)) \o r
  <2> DEFINE t == Tail(p)
  <2>1. t \in Seq(S)
    BY <1>1
  <2> HIDE DEF t
  <2>2. q \o (t \o r) = (q \o t) \o r
    <3>1. (q \o t) \o r = q \o (t \o r)
      BY <2>1, ConcatAssociative, SMTT(60)
    <3> QED BY <3>1
  <2> QED BY <2>2 DEF t
<1>6. q \o Tail(p) \in Seq(S)
  BY <1>1, ConcatProperties
<1> QED BY <1>1, <1>2, <1>3, <1>4, <1>5, <1>6

-----------------------------------------------------------------------------
(***************************************************************************)
(* Keys and statements.                                                    *)
(***************************************************************************)
LEMMA KeyParts ==
  /\ \A k : Row(k)[1] = "row" /\ Row(k)[2] = k
  /\ \A m : Order(m)[1] = "mangroveOrder" /\ Order(m)[2] = m
  /\ \A m, n : Version(m, n)[1] = "version" /\ Version(m, n)[2] = m /\ Version(m, n)[3] = n
BY DEF Row, Order, Version

\* A primary key tells the table and the row.
LEMMA KeysDiffer ==
  /\ \A k, j : Row(k) = Row(j) => k = j
  /\ \A m, j : Order(m) = Order(j) => m = j
  /\ \A m, n, j, i : Version(m, n) = Version(j, i) => m = j /\ n = i
  /\ \A k, m : Row(k) # Order(m)
  /\ \A k, m, n : Row(k) # Version(m, n)
  /\ \A j, m, n : Order(j) # Version(m, n)
BY DEF Row, Order, Version

\* The keys of the rows, and no others.
LEMMA KeyTypes ==
  /\ \A k \in Keys : Row(k) \in RowKey
  /\ \A m \in MangroveOrders : Order(m) \in RowKey
  /\ \A m \in MangroveOrders, n \in Number : Version(m, n) \in RowKey
  /\ \A x \in RowKey : \/ \E k \in Keys : x = Row(k)
                       \/ \E m \in MangroveOrders : x = Order(m)
                       \/ \E m \in MangroveOrders, n \in Number : x = Version(m, n)
BY DEF RowKey

\* What is kept of a row is never taken for the absence of one.
LEMMA Values ==
  /\ Number \subseteq Nat /\ 0 \in Number /\ Null = -1 /\ Null \notin Number
  /\ Number \subseteq Value /\ Null \in Value /\ Present \in Value /\ Value \subseteq Int
  /\ NoRow \notin Value /\ NoRow # Null /\ NoRow \notin Number
  /\ \A n \in Number : \A i \in Nat : i <= n => i \in Number
  /\ \A n \in Number : n - 1 \in Value
  /\ \A v \in Value : v # Null => v \in Number
BY MaxVersionAssumption, ValueAssumption DEF Number, Null, Value, Present

Ops == {"ensure", "references", "delete", "create", "update", "upsert", "findMany",
        "findOrNew", "findFirst", "latest", "version", "find", "current", "oldVersion"}

AnyStmt == [op : Ops, key : RowKey, val : Value, old : Value]

\* The parts of a statement.
LEMMA StmtFields ==
  \A op, key, val, old :
    /\ Stmt(op, key, val, old).op = op /\ Stmt(op, key, val, old).key = key
    /\ Stmt(op, key, val, old).val = val /\ Stmt(op, key, val, old).old = old
    /\ op \in Ops /\ key \in RowKey /\ val \in Value /\ old \in Value
         => Stmt(op, key, val, old) \in AnyStmt
BY DEF Stmt, AnyStmt

\* What an event is handled with.
OrderOps == {"findMany", "findOrNew", "findFirst", "latest"}
RowOps   == {"ensure", "references", "delete"}
TopLevel == {Query(op, Row(k)) : op \in RowOps, k \in Keys}
              \cup {Create(Row(k), Present) : k \in Keys}
              \cup {Query(op, Order(m)) : op \in OrderOps, m \in MangroveOrders}

\* What a handler begins with is a statement.
LEMMA TopLevelType == TopLevel \subseteq AnyStmt
<1>1. \A op \in RowOps \cup OrderOps : op \in Ops
  BY DEF RowOps, OrderOps, Ops
<1>2. ASSUME NEW op \in RowOps \cup OrderOps, NEW k \in RowKey
      PROVE  Query(op, k) \in AnyStmt
  <2>1. op \in Ops /\ Null \in Value
    BY <1>1, Values
  <2> QED BY <2>1, StmtFields DEF Query
<1>3. ASSUME NEW k \in Keys
      PROVE  Create(Row(k), Present) \in AnyStmt
  <2>1. Row(k) \in RowKey /\ Null \in Value /\ Present \in Value
    BY Values, KeyTypes
  <2>2. "create" \in Ops
    BY DEF Ops
  <2> QED BY <2>1, <2>2, StmtFields DEF Create
<1> QED BY <1>2, <1>3, KeyTypes DEF TopLevel

\* What follows the two queries that come before a version is added.
LEMMA FollowQuery ==
  ASSUME NEW r, NEW m, NEW n, NEW old
  PROVE  /\ Follow(Stmt("current", Order(m), Null, old), r)
              = << Stmt("oldVersion", Version(m, r), Null, old) >>
         /\ Follow(Stmt("oldVersion", Version(m, n), Null, old), r)
              = AddVersionStmts(m, n + 1, n, old)
<1>1. \A st : st.op = "current" =>
        Follow(st, r) = << Stmt("oldVersion", Version(st.key[2], r), Null, st.old) >>
  BY DEF Follow
<1>2. \A st : st.op = "oldVersion" =>
        Follow(st, r) = AddVersionStmts(st.key[2], st.key[3] + 1, st.key[3], st.old)
  BY DEF Follow
<1>3. \A op, k, v, o : /\ Stmt(op, k, v, o).op = op /\ Stmt(op, k, v, o).key = k
                      /\ Stmt(op, k, v, o).old = o
  BY StmtFields
<1>4. Order(m)[2] = m /\ Version(m, n)[2] = m /\ Version(m, n)[3] = n
  BY KeyParts
<1> QED BY <1>1, <1>2, <1>3, <1>4

\* What is to follow each statement.
LEMMA FollowEach ==
  ASSUME NEW r
  PROVE  /\ \A k : Follow(Query("ensure", Row(k)), r) = Ensured(Row(k), r)
         /\ \A k : Follow(Query("references", k), r) = <<>>
         /\ \A k : Follow(Query("delete", k), r) = <<>>
         /\ \A k, v : Follow(Create(k, v), r) = <<>>
         /\ \A k, v : Follow(Update(k, v), r) = <<>>
         /\ \A k, v, old : Follow(Upsert(k, v, old), r) = <<>>
         /\ \A m : Follow(Query("findMany", Order(m)), r)
                     = IF r = NoRow THEN <<>> ELSE << Query("latest", Order(m)) >>
         /\ \A m : Follow(Query("latest", Order(m)), r) = << Query("version", Version(m, r)) >>
         /\ \A m, n : Follow(Query("version", Version(m, n)), r) = DeleteLatestStmts(m, n, r)
         /\ \A m : Follow(Query("findFirst", Order(m)), r)
                     = IF r = NoRow THEN <<>> ELSE << Query("find", Order(m)) >>
         /\ \A m : Follow(Query("findOrNew", Order(m)), r)
                     = IF r = NoRow THEN AddVersionStmts(m, 0, Null, 0)
                       ELSE << Stmt("current", Order(m), Null, r) >>
         /\ \A m : Follow(Query("find", Order(m)), r) = << Stmt("current", Order(m), Null, r) >>
<1>1. \A st : st.op = "ensure" => Follow(st, r) = Ensured(st.key, r)
  BY DEF Follow
<1>2. \A st : st.op \in {"references", "delete", "create", "update", "upsert"}
                => Follow(st, r) = <<>>
  BY DEF Follow
<1>3. \A st : st.op = "findMany" =>
        Follow(st, r) = IF r = NoRow THEN <<>> ELSE << Query("latest", st.key) >>
  BY DEF Follow
<1>4. \A st : st.op = "latest" => Follow(st, r) = << Query("version", Version(st.key[2], r)) >>
  BY DEF Follow
<1>5. \A st : st.op = "version" => Follow(st, r) = DeleteLatestStmts(st.key[2], st.key[3], r)
  BY DEF Follow
<1>6. \A st : st.op = "findFirst" =>
        Follow(st, r) = IF r = NoRow THEN <<>> ELSE << Query("find", st.key) >>
  BY DEF Follow
<1>7. \A st : st.op = "findOrNew" =>
        Follow(st, r) = IF r = NoRow THEN AddVersionStmts(st.key[2], 0, Null, 0)
                        ELSE << Stmt("current", st.key, Null, r) >>
  BY DEF Follow
<1>8. \A st : st.op = "find" => Follow(st, r) = << Stmt("current", st.key, Null, r) >>
  BY DEF Follow
<1>11. /\ \A op, k : Query(op, k).op = op /\ Query(op, k).key = k
       /\ \A k, v : Create(k, v).op = "create" /\ Update(k, v).op = "update"
       /\ \A k, v, old : Upsert(k, v, old).op = "upsert"
       /\ \A op, k, v, old : /\ Stmt(op, k, v, old).op = op /\ Stmt(op, k, v, old).key = k
                             /\ Stmt(op, k, v, old).old = old
  BY StmtFields DEF Query, Create, Update, Upsert
<1>12. \A k : Follow(Query("ensure", Row(k)), r) = Ensured(Row(k), r)
  BY <1>1, <1>11
<1>13. \A k, v, old : /\ Follow(Query("references", k), r) = <<>>
                      /\ Follow(Query("delete", k), r) = <<>>
                      /\ Follow(Create(k, v), r) = <<>>
                      /\ Follow(Update(k, v), r) = <<>>
                      /\ Follow(Upsert(k, v, old), r) = <<>>
  BY <1>2, <1>11
<1>14. \A m : /\ Follow(Query("findMany", Order(m)), r)
                   = IF r = NoRow THEN <<>> ELSE << Query("latest", Order(m)) >>
              /\ Follow(Query("latest", Order(m)), r) = << Query("version", Version(m, r)) >>
  BY <1>3, <1>4, <1>11, KeyParts
<1>15. \A m, n : Follow(Query("version", Version(m, n)), r) = DeleteLatestStmts(m, n, r)
  BY <1>5, <1>11, KeyParts
<1>16. \A m : /\ Follow(Query("findFirst", Order(m)), r)
                   = IF r = NoRow THEN <<>> ELSE << Query("find", Order(m)) >>
              /\ Follow(Query("find", Order(m)), r) = << Stmt("current", Order(m), Null, r) >>
  BY <1>6, <1>8, <1>11
<1>17. \A m : Follow(Query("findOrNew", Order(m)), r)
                = IF r = NoRow THEN AddVersionStmts(m, 0, Null, 0)
                  ELSE << Stmt("current", Order(m), Null, r) >>
  BY <1>7, <1>11, KeyParts
<1> QED BY <1>12, <1>13, <1>14, <1>15, <1>16, <1>17

-----------------------------------------------------------------------------
(***************************************************************************)
(* What a statement does to the rows f that its transaction sees.          *)
(***************************************************************************)
Store == [RowKey -> Value \cup {NoRow}]

Changed(st, f) ==
  IF st.op \in Writes THEN [f EXCEPT ![st.key] = Written(st, f[st.key])] ELSE f

\* It does not throw.
Goes(st, f) ==
  /\ st.op = "create" => f[st.key] = NoRow
  /\ st.op \in Requires => f[st.key] # NoRow
  /\ st.op = "references" /\ st.key[1] = "row" =>
       \A m \in MangroveOrders : OrderOf[m] = st.key[2] => f[Order(m)] = NoRow
  /\ st.op = "oldVersion" => st.key[3] + 1 \in Number

\* The statements that are left of p when the first is done.
Rest(p, f) == Follow(Head(p), f[Head(p).key]) \o Tail(p)

\* A query leaves the rows as they are.
LEMMA QueryChanges ==
  ASSUME NEW f, NEW op, op \notin Writes, NEW k, NEW v, NEW old
  PROVE  Changed(Stmt(op, k, v, old), f) = f
BY StmtFields DEF Changed

\* A write changes the row of its key only.
LEMMA WriteChanges ==
  ASSUME NEW f, NEW op \in Writes, NEW k, NEW v, NEW old, NEW w,
         Written(Stmt(op, k, v, old), f[k]) = w
  PROVE  Changed(Stmt(op, k, v, old), f) = [f EXCEPT ![k] = w]
<1> DEFINE st == Stmt(op, k, v, old)
<1>1. st.op \in Writes /\ st.key = k
  BY StmtFields
<1> HIDE DEF st
<1>2. Changed(st, f) = [f EXCEPT ![st.key] = Written(st, f[st.key])]
  BY <1>1 DEF Changed
<1>3. Changed(st, f) = [f EXCEPT ![k] = Written(st, f[k])]
  BY <1>1, <1>2
<1> QED BY <1>3 DEF st

\* What a create and an update write.
LEMMA CreateChanges ==
  ASSUME NEW f, NEW k, NEW v
  PROVE  /\ Changed(Create(k, v), f) = [f EXCEPT ![k] = v]
         /\ Changed(Update(k, v), f) = [f EXCEPT ![k] = v]
<1>1. "create" \in Writes /\ Written(Stmt("create", k, v, Null), f[k]) = v
  BY StmtFields DEF Writes, Written
<1>2. "update" \in Writes /\ Written(Stmt("update", k, v, Null), f[k]) = v
  BY StmtFields DEF Writes, Written
<1>3. Changed(Create(k, v), f) = [f EXCEPT ![k] = v]
  BY <1>1, WriteChanges DEF Create
<1>4. Changed(Update(k, v), f) = [f EXCEPT ![k] = v]
  BY <1>2, WriteChanges DEF Update
<1> QED BY <1>3, <1>4

\* An upsert creates the row as it was found, or updates it.
LEMMA UpsertChanges ==
  ASSUME NEW f, NEW k, NEW v, NEW old, NEW w, w = IF f[k] = NoRow THEN old ELSE v
  PROVE  Changed(Upsert(k, v, old), f) = [f EXCEPT ![k] = w]
<1>1. "upsert" \in Writes /\ Written(Stmt("upsert", k, v, old), f[k]) = w
  BY StmtFields DEF Writes, Written
<1> QED BY <1>1, WriteChanges DEF Upsert

\* A delete leaves no row.
LEMMA DeleteChanges ==
  ASSUME NEW f, NEW k
  PROVE  Changed(Query("delete", k), f) = [f EXCEPT ![k] = NoRow]
<1>1. "delete" \in Writes /\ Written(Stmt("delete", k, Null, Null), f[k]) = NoRow
  BY StmtFields DEF Writes, Written
<1> QED BY <1>1, WriteChanges DEF Query

\* What a statement that does not throw has found.
LEMMA GoesEach ==
  ASSUME NEW f, NEW k
  PROVE  /\ \A op : op \in Requires /\ Goes(Query(op, k), f) => f[k] # NoRow
         /\ \A v : Goes(Create(k, v), f) => f[k] = NoRow
         /\ \A v : Goes(Update(k, v), f) => f[k] # NoRow
         /\ \A v, old : Goes(Stmt("current", k, v, old), f) => f[k] # NoRow
         /\ \A v, old : Goes(Stmt("oldVersion", k, v, old), f) =>
                          f[k] # NoRow /\ k[3] + 1 \in Number
<1>1. \A op, v, old : /\ Stmt(op, k, v, old).op = op /\ Stmt(op, k, v, old).key = k
  BY StmtFields
<1>2. \A op, v, old : op \in Requires /\ Goes(Stmt(op, k, v, old), f) => f[k] # NoRow
  BY <1>1 DEF Goes
<1>3. "update" \in Requires /\ "current" \in Requires /\ "oldVersion" \in Requires
  BY DEF Requires
<1>4. \A v, old : Goes(Stmt("oldVersion", k, v, old), f) => k[3] + 1 \in Number
  BY <1>1 DEF Goes
<1>5. \A v, old : Goes(Stmt("create", k, v, old), f) => f[k] = NoRow
  BY <1>1 DEF Goes
<1>6. \A op : op \in Requires /\ Goes(Query(op, k), f) => f[k] # NoRow
  BY <1>2 DEF Query
<1>7. \A v : Goes(Create(k, v), f) => f[k] = NoRow
  BY <1>5 DEF Create
<1>8. \A v : Goes(Update(k, v), f) => f[k] # NoRow
  BY <1>2, <1>3 DEF Update
<1>9. \A v, old : Goes(Stmt("current", k, v, old), f) => f[k] # NoRow
  BY <1>2, <1>3
<1>10. \A v, old : Goes(Stmt("oldVersion", k, v, old), f) => f[k] # NoRow /\ k[3] + 1 \in Number
  BY <1>2, <1>3, <1>4
<1> QED BY <1>6, <1>7, <1>8, <1>9, <1>10

-----------------------------------------------------------------------------
(***************************************************************************)
(* What may be left of what one event asks of one row: looking for the     *)
(* versions of a MangroveOrder, adding or deleting one, and deleting the   *)
(* MangroveOrder after its first version.                                  *)
(***************************************************************************)
Seeking(m, n, old) ==
  { << Query("latest", Order(m)) >>, << Query("find", Order(m)) >>,
    << Query("version", Version(m, n)) >>,
    << Stmt("current", Order(m), Null, old) >>,
    << Stmt("oldVersion", Version(m, n), Null, old) >> }

Writing(m, n, old, v) ==
  { AddVersionStmts(m, n, v, old), << Create(Version(m, n), v) >>,
    DeleteLatestStmts(m, n, v), Delete(Version(m, n)), << Query("delete", Version(m, n)) >> }

Ending(m, n) ==
  { << Query("references", Version(m, n)), Query("delete", Version(m, n)),
       Query("references", Order(m)), Query("delete", Order(m)) >>,
    << Query("delete", Version(m, n)),
       Query("references", Order(m)), Query("delete", Order(m)) >>,
    << Query("references", Order(m)), Query("delete", Order(m)) >>,
    << Query("delete", Order(m)) >> }

Plain(p) ==
  \/ p = <<>>
  \/ \E x \in TopLevel : p = << x >>
  \/ \E m \in MangroveOrders, n \in Number, old \in Number, v \in Value :
       p \in Seeking(m, n, old) \cup Writing(m, n, old, v)

\* A MangroveOrder has no current version only while it is deleted.
NoNulls(f) == \A m \in MangroveOrders : f[Order(m)] # Null

Underway(f, p) ==
  \/ NoNulls(f) /\ Plain(p)
  \/ \E m \in MangroveOrders, n \in Number :
       p \in Ending(m, n) /\ \A j \in MangroveOrders : f[Order(j)] = Null => j = m

\* The statements that follow from what others have read.
LEMMA InnerTypes ==
  ASSUME NEW m \in MangroveOrders, NEW n \in Number, NEW old \in Value, NEW v \in Value
  PROVE  /\ \A op \in {"latest", "find", "references", "delete"} : Query(op, Order(m)) \in AnyStmt
         /\ \A op \in {"version", "references", "delete"} : Query(op, Version(m, n)) \in AnyStmt
         /\ Stmt("current", Order(m), Null, old) \in AnyStmt
         /\ Stmt("oldVersion", Version(m, n), Null, old) \in AnyStmt
         /\ Upsert(Order(m), v, old) \in AnyStmt /\ Update(Order(m), v) \in AnyStmt
         /\ Create(Version(m, n), v) \in AnyStmt
<1>1. Order(m) \in RowKey /\ Version(m, n) \in RowKey /\ Null \in Value
  BY KeyTypes, Values
<1>2. \A op \in {"latest", "find", "references", "delete", "version", "current", "oldVersion",
                 "upsert", "update", "create"} : op \in Ops
  BY DEF Ops
<1>3. \A op \in {"latest", "find", "references", "delete", "version", "current", "oldVersion",
                 "upsert", "update", "create"} : \A k \in RowKey : \A x, y \in Value :
        Stmt(op, k, x, y) \in AnyStmt
  BY <1>2, StmtFields
<1>4. /\ \A op \in {"latest", "find", "references", "delete", "version"} : \A k \in RowKey :
           Query(op, k) \in AnyStmt
      /\ \A k \in RowKey : \A x \in Value : Create(k, x) \in AnyStmt /\ Update(k, x) \in AnyStmt
      /\ \A k \in RowKey : \A x, y \in Value : Upsert(k, x, y) \in AnyStmt
  BY <1>1, <1>3 DEF Query, Create, Update, Upsert
<1> QED BY <1>1, <1>3, <1>4

(***************************************************************************)
(* The statements that delete the latest version, one by one.              *)
(***************************************************************************)
LEMMA DeleteLatestLiteral ==
  ASSUME NEW m \in MangroveOrders, NEW n \in Number, NEW v \in Value
  PROVE  DeleteLatestStmts(m, n, v) =
           IF v = Null
           THEN << Update(Order(m), v), Query("references", Version(m, n)),
                   Query("delete", Version(m, n)), Query("references", Order(m)),
                   Query("delete", Order(m)) >>
           ELSE << Update(Order(m), v), Query("references", Version(m, n)),
                   Query("delete", Version(m, n)) >>
<1> DEFINE a == Update(Order(m), v)
           b == Query("references", Version(m, n))
           c == Query("delete", Version(m, n))
           d == Query("references", Order(m))
           e == Query("delete", Order(m))
<1>1. a \in AnyStmt /\ b \in AnyStmt /\ c \in AnyStmt /\ d \in AnyStmt /\ e \in AnyStmt
  BY InnerTypes
<1>2. DeleteLatestStmts(m, n, v) =
        (<< a >> \o << b, c >>) \o (IF v = Null THEN << d, e >> ELSE <<>>)
  BY DEF DeleteLatestStmts, Delete
<1> HIDE DEF a, b, c, d, e
<1>3. << a >> \o << b, c >> = << a, b, c >> /\ << a, b, c >> \o << d, e >> = << a, b, c, d, e >>
  BY <1>1, ShortConcats
<1>4. << a, b, c >> \in Seq(AnyStmt)
  BY <1>1
<1>5. << a, b, c >> \o <<>> = << a, b, c >>
  BY <1>4, ConcatEmptySeq
<1>6. DeleteLatestStmts(m, n, v) = IF v = Null THEN << a, b, c, d, e >> ELSE << a, b, c >>
  BY <1>2, <1>3, <1>5
<1> QED BY <1>6 DEF a, b, c, d, e

-----------------------------------------------------------------------------
(***************************************************************************)
(* One statement of each form: when p is what is left, and f what the      *)
(* transaction sees, it leaves q and g.                                    *)
(***************************************************************************)
IsSequence(w) == \E S : w \in Seq(S)

Does(p, f, q, g) ==
  /\ Rest(p, f) = q /\ Changed(Head(p), f) = g
  /\ IsSequence(Follow(Head(p), f[Head(p).key]))

\* Literals are sequences, and behind nothing they stay what they are.
LEMMA ShortSequences ==
  ASSUME NEW a, NEW b, NEW c, NEW d, NEW e
  PROVE  /\ IsSequence(<<>>) /\ IsSequence(<< a >>) /\ IsSequence(<< a, b >>)
         /\ IsSequence(<< a, b, c >>) /\ IsSequence(<< a, b, c, d, e >>)
         /\ <<>> \o << a >> = << a >> /\ <<>> \o << a, b >> = << a, b >>
         /\ <<>> \o << a, b, c >> = << a, b, c >>
         /\ <<>> \o << a, b, c, d >> = << a, b, c, d >>
<1> DEFINE S == {a, b, c, d, e}
<1>1. /\ <<>> \in Seq(S) /\ << a >> \in Seq(S) /\ << a, b >> \in Seq(S)
      /\ << a, b, c >> \in Seq(S) /\ << a, b, c, d >> \in Seq(S)
      /\ << a, b, c, d, e >> \in Seq(S)
  OBVIOUS
<1>2. \A s \in Seq(S) : <<>> \o s = s
  BY ConcatEmptySeq
<1> HIDE DEF S
<1>3. \A s \in Seq(S) : IsSequence(s)
  BY DEF IsSequence
<1> QED BY <1>1, <1>2, <1>3

\* A single statement x, and a statement x with others behind it.
LEMMA DoesFirst ==
  ASSUME NEW f, NEW g, NEW x, NEW k, NEW w,
         x.key = k, Changed(x, f) = g, Follow(x, f[k]) = w, IsSequence(w)
  PROVE  /\ Does(<< x >>, f, w, g)
         /\ w = <<>> =>
              /\ \A a : Does(<< x, a >>, f, << a >>, g)
              /\ \A a, b : Does(<< x, a, b >>, f, << a, b >>, g)
              /\ \A a, b, c : Does(<< x, a, b, c >>, f, << a, b, c >>, g)
              /\ \A a, b, c, d : Does(<< x, a, b, c, d >>, f, << a, b, c, d >>, g)
<1>1. Does(<< x >>, f, w, g)
  <2>1. Head(<< x >>) = x /\ Tail(<< x >>) = <<>>
    BY Heads
  <2>2. w \o <<>> = w
    BY ConcatEmptySeq DEF IsSequence
  <2> QED BY <2>1, <2>2 DEF Does, Rest
<1>2. ASSUME w = <<>>, NEW a, NEW b, NEW c, NEW d
      PROVE  /\ Does(<< x, a >>, f, << a >>, g) /\ Does(<< x, a, b >>, f, << a, b >>, g)
             /\ Does(<< x, a, b, c >>, f, << a, b, c >>, g)
             /\ Does(<< x, a, b, c, d >>, f, << a, b, c, d >>, g)
  <2>1. /\ <<>> \o << a >> = << a >> /\ <<>> \o << a, b >> = << a, b >>
        /\ <<>> \o << a, b, c >> = << a, b, c >>
        /\ <<>> \o << a, b, c, d >> = << a, b, c, d >>
    BY ShortSequences
  <2>2. /\ Head(<< x, a >>) = x /\ Tail(<< x, a >>) = << a >>
        /\ Head(<< x, a, b >>) = x /\ Tail(<< x, a, b >>) = << a, b >>
        /\ Head(<< x, a, b, c >>) = x /\ Tail(<< x, a, b, c >>) = << a, b, c >>
        /\ Head(<< x, a, b, c, d >>) = x /\ Tail(<< x, a, b, c, d >>) = << a, b, c, d >>
    BY Heads
  <2>3. \A p : Head(p) = x /\ Tail(p) = << a >> => Does(p, f, << a >>, g)
    BY <1>2, <2>1 DEF Does, Rest
  <2>4. \A p : Head(p) = x /\ Tail(p) = << a, b >> => Does(p, f, << a, b >>, g)
    BY <1>2, <2>1 DEF Does, Rest
  <2>5. \A p : Head(p) = x /\ Tail(p) = << a, b, c >> => Does(p, f, << a, b, c >>, g)
    BY <1>2, <2>1 DEF Does, Rest
  <2>6. \A p : Head(p) = x /\ Tail(p) = << a, b, c, d >> => Does(p, f, << a, b, c, d >>, g)
    BY <1>2, <2>1 DEF Does, Rest
  <2> QED BY <2>2, <2>3, <2>4, <2>5, <2>6
<1> QED BY <1>1, <1>2

\* Statements have these keys, and most change nothing.
LEMMA Unchanging ==
  ASSUME NEW f \in Store, NEW k, NEW v, NEW old
  PROVE  /\ \A op : Query(op, k).key = k
         /\ Create(k, v).key = k /\ Update(k, v).key = k /\ Upsert(k, v, old).key = k
         /\ \A op : Stmt(op, k, v, old).key = k
         /\ \A op \in {"ensure", "references", "findMany", "findOrNew", "findFirst", "latest",
                         "version", "find"} : Changed(Query(op, k), f) = f
         /\ \A op \in {"current", "oldVersion"} : Changed(Stmt(op, k, v, old), f) = f
<1>1. \A op \in {"ensure", "references", "findMany", "findOrNew", "findFirst", "latest",
                  "version", "find", "current", "oldVersion"} : op \notin Writes /\ op # "delete"
  BY DEF Writes
<1>2. \A op \in {"ensure", "references", "findMany", "findOrNew", "findFirst", "latest",
                  "version", "find"} : Changed(Query(op, k), f) = f
  BY <1>1, QueryChanges DEF Query
<1>3. ASSUME NEW op \in {"current", "oldVersion"}
      PROVE  Changed(Stmt(op, k, v, old), f) = f
  <2>1. op \notin Writes
    BY <1>1
  <2> QED BY <2>1, QueryChanges
<1>4. \A op : Stmt(op, k, v, old).key = k /\ Query(op, k).key = k
  BY StmtFields DEF Query
<1>5. Create(k, v).key = k /\ Update(k, v).key = k /\ Upsert(k, v, old).key = k
  BY StmtFields DEF Create, Update, Upsert
<1> QED BY <1>2, <1>3, <1>4, <1>5

\* One step of each query for a MangroveOrder or a version.
LEMMA SeekingDoes ==
  ASSUME NEW f \in Store, NEW m \in MangroveOrders, NEW n \in Number, NEW old
  PROVE  LET r == f[Order(m)]
             v == f[Version(m, n)]
         IN  /\ Does(<< Query("latest", Order(m)) >>, f, << Query("version", Version(m, r)) >>, f)
             /\ Does(<< Query("find", Order(m)) >>, f, << Stmt("current", Order(m), Null, r) >>, f)
             /\ v \in Value => Does(<< Query("version", Version(m, n)) >>, f,
                                    DeleteLatestStmts(m, n, v), f)
             /\ Does(<< Stmt("current", Order(m), Null, old) >>, f,
                     << Stmt("oldVersion", Version(m, r), Null, old) >>, f)
             /\ Does(<< Stmt("oldVersion", Version(m, n), Null, old) >>, f,
                     AddVersionStmts(m, n + 1, n, old), f)
<1> DEFINE r == f[Order(m)]
           v == f[Version(m, n)]
           x1 == Query("latest", Order(m))
           x2 == Query("find", Order(m))
           x3 == Query("version", Version(m, n))
           x4 == Stmt("current", Order(m), Null, old)
           x5 == Stmt("oldVersion", Version(m, n), Null, old)
<1>1. /\ x1.key = Order(m) /\ x2.key = Order(m) /\ x3.key = Version(m, n)
      /\ x4.key = Order(m) /\ x5.key = Version(m, n)
  BY Unchanging
<1>2. /\ Changed(x1, f) = f /\ Changed(x2, f) = f /\ Changed(x3, f) = f
      /\ Changed(x4, f) = f /\ Changed(x5, f) = f
  BY Unchanging
<1>3. /\ Follow(x1, r) = << Query("version", Version(m, r)) >>
      /\ Follow(x2, r) = << Stmt("current", Order(m), Null, r) >>
      /\ Follow(x3, v) = DeleteLatestStmts(m, n, v)
      /\ Follow(x4, r) = << Stmt("oldVersion", Version(m, r), Null, old) >>
      /\ Follow(x5, v) = AddVersionStmts(m, n + 1, n, old)
  <2> HIDE DEF r, v
  <2>1. Follow(x1, r) = << Query("version", Version(m, r)) >>
    BY FollowEach
  <2>2. Follow(x2, r) = << Stmt("current", Order(m), Null, r) >>
    BY FollowEach
  <2>3. Follow(x3, v) = DeleteLatestStmts(m, n, v)
    BY FollowEach
  <2>4. Follow(x4, r) = << Stmt("oldVersion", Version(m, r), Null, old) >>
    BY FollowQuery
  <2>5. Follow(x5, v) = AddVersionStmts(m, n + 1, n, old)
    BY FollowQuery
  <2> QED BY <2>1, <2>2, <2>3, <2>4, <2>5
<1>4. \A x : IsSequence(<< x >>)
  BY ShortSequences
<1>5. v \in Value => IsSequence(DeleteLatestStmts(m, n, v))
  <2>1. \A a, b, c, d, e : IsSequence(<< a, b, c, d, e >>) /\ IsSequence(<< a, b, c >>)
    BY ShortSequences
  <2> QED BY <2>1, DeleteLatestLiteral
<1>6. IsSequence(AddVersionStmts(m, n + 1, n, old))
  BY ShortSequences DEF AddVersionStmts
<1> HIDE DEF x1, x2, x3, x4, x5, r, v
<1>7. Does(<< x1 >>, f, << Query("version", Version(m, r)) >>, f)
  BY <1>1, <1>2, <1>3, <1>4, DoesFirst DEF r
<1>8. Does(<< x2 >>, f, << Stmt("current", Order(m), Null, r) >>, f)
  BY <1>1, <1>2, <1>3, <1>4, DoesFirst DEF r
<1>9. v \in Value => Does(<< x3 >>, f, DeleteLatestStmts(m, n, v), f)
  BY <1>1, <1>2, <1>3, <1>5, DoesFirst DEF v
<1>10. Does(<< x4 >>, f, << Stmt("oldVersion", Version(m, r), Null, old) >>, f)
  BY <1>1, <1>2, <1>3, <1>4, DoesFirst DEF r
<1>11. Does(<< x5 >>, f, AddVersionStmts(m, n + 1, n, old), f)
  BY <1>1, <1>2, <1>3, <1>6, DoesFirst DEF v
<1> QED BY <1>7, <1>8, <1>9, <1>10, <1>11 DEF x1, x2, x3, x4, x5, r, v

\* The key of a write.
LEMMA KeyWritten ==
  ASSUME NEW k, NEW v, NEW old
  PROVE  Create(k, v).key = k /\ Update(k, v).key = k /\ Upsert(k, v, old).key = k
BY StmtFields DEF Create, Update, Upsert

\* No statement follows from a write.
LEMMA FollowWritten ==
  ASSUME NEW k, NEW v, NEW old, NEW r
  PROVE  /\ Follow(Create(k, v), r) = <<>> /\ Follow(Update(k, v), r) = <<>>
         /\ Follow(Upsert(k, v, old), r) = <<>>
<1>1. \A j, x : Follow(Create(j, x), r) = <<>>
  BY FollowEach
<1>2. \A j, x : Follow(Update(j, x), r) = <<>>
  BY FollowEach
<1>3. \A j, x, o : Follow(Upsert(j, x, o), r) = <<>>
  BY FollowEach
<1> QED BY <1>1, <1>2, <1>3

\* One step of the writes that add a version or delete the latest one.
LEMMA WritingDoes ==
  ASSUME NEW f \in Store, NEW m \in MangroveOrders, NEW n \in Number, NEW old, NEW v \in Value
  PROVE  /\ Does(AddVersionStmts(m, n, v, old), f, << Create(Version(m, n), v) >>,
                 [f EXCEPT ![Order(m)] = IF f[Order(m)] = NoRow THEN old ELSE n])
         /\ Does(<< Create(Version(m, n), v) >>, f, <<>>, [f EXCEPT ![Version(m, n)] = v])
         /\ v # Null => Does(DeleteLatestStmts(m, n, v), f, Delete(Version(m, n)),
                             [f EXCEPT ![Order(m)] = v])
         /\ v = Null => Does(DeleteLatestStmts(m, n, v), f,
                             << Query("references", Version(m, n)),
                                Query("delete", Version(m, n)),
                                Query("references", Order(m)), Query("delete", Order(m)) >>,
                             [f EXCEPT ![Order(m)] = v])
<1> DEFINE u == Upsert(Order(m), n, old)
           c == Create(Version(m, n), v)
           x == Update(Order(m), v)
           rv == Query("references", Version(m, n))
           dv == Query("delete", Version(m, n))
           ro == Query("references", Order(m))
           do == Query("delete", Order(m))
           w == IF f[Order(m)] = NoRow THEN old ELSE n
           g == [f EXCEPT ![Order(m)] = w]
<1>1. u.key = Order(m) /\ c.key = Version(m, n) /\ x.key = Order(m)
  BY KeyWritten
<1>2. \A r : Follow(u, r) = <<>> /\ Follow(c, r) = <<>> /\ Follow(x, r) = <<>>
  BY FollowWritten
<1>3. Changed(u, f) = g
  <2>1. w = IF f[Order(m)] = NoRow THEN old ELSE n
    OBVIOUS
  <2> HIDE DEF w
  <2> QED BY <2>1, UpsertChanges
<1>4. Changed(c, f) = [f EXCEPT ![Version(m, n)] = v] /\ Changed(x, f) = [f EXCEPT ![Order(m)] = v]
  BY CreateChanges
<1>5. IsSequence(<<>>)
  BY ShortSequences
<1>6. AddVersionStmts(m, n, v, old) = << u, c >>
  BY DEF AddVersionStmts
<1>7. DeleteLatestStmts(m, n, v) = IF v = Null THEN << x, rv, dv, ro, do >> ELSE << x, rv, dv >>
  BY DeleteLatestLiteral
<1>8. Delete(Version(m, n)) = << rv, dv >>
  BY DEF Delete
<1> HIDE DEF u, c, x, rv, dv, ro, do, g
<1>9. Does(<< u, c >>, f, << c >>, g)
  BY <1>1, <1>2, <1>3, <1>5, DoesFirst
<1>10. Does(<< c >>, f, <<>>, [f EXCEPT ![Version(m, n)] = v])
  BY <1>1, <1>2, <1>4, <1>5, DoesFirst
<1>11. /\ Does(<< x, rv, dv >>, f, << rv, dv >>, [f EXCEPT ![Order(m)] = v])
       /\ Does(<< x, rv, dv, ro, do >>, f, << rv, dv, ro, do >>, [f EXCEPT ![Order(m)] = v])
  BY <1>1, <1>2, <1>4, <1>5, DoesFirst
<1>12. Does(AddVersionStmts(m, n, v, old), f, << c >>, g)
  BY <1>6, <1>9
<1>13. v # Null => Does(DeleteLatestStmts(m, n, v), f, Delete(Version(m, n)),
                        [f EXCEPT ![Order(m)] = v])
  BY <1>7, <1>8, <1>11
<1>14. v = Null => Does(DeleteLatestStmts(m, n, v), f, << rv, dv, ro, do >>,
                        [f EXCEPT ![Order(m)] = v])
  BY <1>7, <1>11
<1> QED BY <1>10, <1>12, <1>13, <1>14 DEF u, c, x, rv, dv, ro, do, g

\* One step of a delete and of the query for references before it.
LEMMA DeletingDoes ==
  ASSUME NEW f \in Store, NEW k
  PROVE  LET r == Query("references", k)
             x == Query("delete", k)
             g == [f EXCEPT ![k] = NoRow]
         IN  /\ Does(Delete(k), f, << x >>, f)
             /\ Does(<< x >>, f, <<>>, g) /\ Does(<< r >>, f, <<>>, f)
             /\ \A a, b : /\ Does(<< r, x, a, b >>, f, << x, a, b >>, f)
                          /\ Does(<< x, a, b >>, f, << a, b >>, g)
<1> DEFINE r == Query("references", k)
           x == Query("delete", k)
           g == [f EXCEPT ![k] = NoRow]
<1>1. r.key = k /\ x.key = k
  BY Unchanging
<1>2. Changed(r, f) = f
  BY Unchanging
<1>3. Changed(x, f) = g
  BY DeleteChanges
<1>4. Follow(r, f[k]) = <<>> /\ Follow(x, f[k]) = <<>>
  BY FollowEach
<1>5. IsSequence(<<>>)
  BY ShortSequences
<1>6. Delete(k) = << r, x >>
  BY DEF Delete
<1> HIDE DEF r, x, g
<1>7. Does(<< r, x >>, f, << x >>, f)
  BY <1>1, <1>2, <1>4, <1>5, DoesFirst
<1>8. Does(<< x >>, f, <<>>, g) /\ Does(<< r >>, f, <<>>, f)
  BY <1>1, <1>2, <1>3, <1>4, <1>5, DoesFirst
<1>9. ASSUME NEW a, NEW b
      PROVE  Does(<< r, x, a, b >>, f, << x, a, b >>, f) /\ Does(<< x, a, b >>, f, << a, b >>, g)
  BY <1>1, <1>2, <1>3, <1>4, <1>5, DoesFirst
<1> QED BY <1>6, <1>7, <1>8, <1>9 DEF r, x, g

\* One step of each statement that a handler begins with.
LEMMA TopLevelDoes ==
  ASSUME NEW f \in Store
  PROVE  /\ \A k : LET r == f[Row(k)] IN
              Does(<< Query("ensure", Row(k)) >>, f,
                   IF r = NoRow THEN << Create(Row(k), Present) >> ELSE <<>>, f)
         /\ \A k, v : Does(<< Create(Row(k), v) >>, f, <<>>, [f EXCEPT ![Row(k)] = v])
         /\ \A m : LET r == f[Order(m)] IN
              /\ Does(<< Query("findMany", Order(m)) >>, f,
                      IF r = NoRow THEN <<>> ELSE << Query("latest", Order(m)) >>, f)
              /\ Does(<< Query("findFirst", Order(m)) >>, f,
                      IF r = NoRow THEN <<>> ELSE << Query("find", Order(m)) >>, f)
              /\ Does(<< Query("findOrNew", Order(m)) >>, f,
                      IF r = NoRow THEN AddVersionStmts(m, 0, Null, 0)
                      ELSE << Stmt("current", Order(m), Null, r) >>, f)
<1>1. \A x, y : IsSequence(<< x >>) /\ IsSequence(<< x, y >>) /\ IsSequence(<<>>)
  BY ShortSequences
<1>2. ASSUME NEW k
      PROVE  Does(<< Query("ensure", Row(k)) >>, f,
                  IF f[Row(k)] = NoRow THEN << Create(Row(k), Present) >> ELSE <<>>, f)
  <2> DEFINE x == Query("ensure", Row(k))
             w == IF f[Row(k)] = NoRow THEN << Create(Row(k), Present) >> ELSE <<>>
  <2>1. x.key = Row(k) /\ Changed(x, f) = f
    BY Unchanging
  <2>2. Follow(x, f[Row(k)]) = w
    BY FollowEach DEF Ensured
  <2>3. IsSequence(w)
    BY <1>1
  <2> HIDE DEF x, w
  <2>4. Does(<< x >>, f, w, f)
    BY <2>1, <2>2, <2>3, DoesFirst
  <2> QED BY <2>4 DEF x, w
<1>3. ASSUME NEW k, NEW v
      PROVE  Does(<< Create(Row(k), v) >>, f, <<>>, [f EXCEPT ![Row(k)] = v])
  <2> DEFINE x == Create(Row(k), v)
             g == [f EXCEPT ![Row(k)] = v]
  <2>1. x.key = Row(k)
    BY KeyWritten
  <2>2. Changed(x, f) = g
    BY CreateChanges
  <2>3. Follow(x, f[Row(k)]) = <<>>
    BY FollowWritten
  <2> HIDE DEF x, g
  <2>4. Does(<< x >>, f, <<>>, g)
    BY <1>1, <2>1, <2>2, <2>3, DoesFirst
  <2> QED BY <2>4 DEF x, g
<1>4. ASSUME NEW m
      PROVE  LET r == f[Order(m)] IN
              /\ Does(<< Query("findMany", Order(m)) >>, f,
                      IF r = NoRow THEN <<>> ELSE << Query("latest", Order(m)) >>, f)
              /\ Does(<< Query("findFirst", Order(m)) >>, f,
                      IF r = NoRow THEN <<>> ELSE << Query("find", Order(m)) >>, f)
              /\ Does(<< Query("findOrNew", Order(m)) >>, f,
                      IF r = NoRow THEN AddVersionStmts(m, 0, Null, 0)
                      ELSE << Stmt("current", Order(m), Null, r) >>, f)
  <2> DEFINE r == f[Order(m)]
             x1 == Query("findMany", Order(m))
             x2 == Query("findFirst", Order(m))
             x3 == Query("findOrNew", Order(m))
             w1 == IF r = NoRow THEN <<>> ELSE << Query("latest", Order(m)) >>
             w2 == IF r = NoRow THEN <<>> ELSE << Query("find", Order(m)) >>
             w3 == IF r = NoRow THEN AddVersionStmts(m, 0, Null, 0)
                   ELSE << Stmt("current", Order(m), Null, r) >>
  <2>1. /\ x1.key = Order(m) /\ Changed(x1, f) = f
        /\ x2.key = Order(m) /\ Changed(x2, f) = f
        /\ x3.key = Order(m) /\ Changed(x3, f) = f
    BY Unchanging
  <2>2. Follow(x1, r) = w1 /\ Follow(x2, r) = w2 /\ Follow(x3, r) = w3
    <3> HIDE DEF r
    <3>1. Follow(x1, r) = w1
      BY FollowEach
    <3>2. Follow(x2, r) = w2
      BY FollowEach
    <3>3. Follow(x3, r) = w3
      BY FollowEach
    <3> QED BY <3>1, <3>2, <3>3
  <2>3. IsSequence(w1) /\ IsSequence(w2) /\ IsSequence(w3)
    BY <1>1 DEF AddVersionStmts
  <2> HIDE DEF r, x1, x2, x3, w1, w2, w3
  <2>4. Does(<< x1 >>, f, w1, f) /\ Does(<< x2 >>, f, w2, f) /\ Does(<< x3 >>, f, w3, f)
    BY <2>1, <2>2, <2>3, DoesFirst DEF r
  <2> QED BY <2>4 DEF r, x1, x2, x3, w1, w2, w3
<1> QED BY <1>2, <1>3, <1>4

-----------------------------------------------------------------------------
(***************************************************************************)
(* These forms are all there are, whatever the other streams commit        *)
(* meanwhile.                                                              *)
(***************************************************************************)
LEMMA FormType ==
  ASSUME NEW f, NEW p, Underway(f, p)
  PROVE  p \in Seq(AnyStmt)
<1>1. \A x \in AnyStmt : << x >> \in Seq(AnyStmt)
  OBVIOUS
<1>2. \A x, y \in AnyStmt : << x, y >> \in Seq(AnyStmt)
  OBVIOUS
<1>3. ASSUME NEW x \in AnyStmt, NEW y \in AnyStmt, NEW z \in AnyStmt
      PROVE  << x, y, z >> \in Seq(AnyStmt)
  OBVIOUS
<1>4. ASSUME NEW x \in AnyStmt, NEW y \in AnyStmt, NEW z \in AnyStmt, NEW u \in AnyStmt
      PROVE  << x, y, z, u >> \in Seq(AnyStmt)
  OBVIOUS
<1>5. ASSUME NEW x \in AnyStmt, NEW y \in AnyStmt, NEW z \in AnyStmt, NEW u \in AnyStmt,
             NEW w \in AnyStmt
      PROVE  << x, y, z, u, w >> \in Seq(AnyStmt)
  OBVIOUS
<1>6. ASSUME NEW m \in MangroveOrders, NEW n \in Number, NEW old \in Number,
             p \in Seeking(m, n, old)
      PROVE  p \in Seq(AnyStmt)
  <2>1. old \in Value
    BY Values
  <2> QED BY <1>1, <1>6, <2>1, InnerTypes, Values DEF Seeking
<1>7. ASSUME NEW m \in MangroveOrders, NEW n \in Number, NEW old \in Number, NEW v \in Value,
             p \in Writing(m, n, old, v)
      PROVE  p \in Seq(AnyStmt)
  <2>1. old \in Value /\ n \in Value
    BY Values
  <2>2. /\ Upsert(Order(m), n, old) \in AnyStmt /\ Create(Version(m, n), v) \in AnyStmt
        /\ Query("references", Version(m, n)) \in AnyStmt
        /\ Query("delete", Version(m, n)) \in AnyStmt
        /\ Query("references", Order(m)) \in AnyStmt /\ Query("delete", Order(m)) \in AnyStmt
        /\ Update(Order(m), v) \in AnyStmt
    BY <2>1, InnerTypes
  <2>3. AddVersionStmts(m, n, v, old) \in Seq(AnyStmt)
    BY <1>2, <2>2 DEF AddVersionStmts
  <2>4. Delete(Version(m, n)) \in Seq(AnyStmt)
    BY <1>2, <2>2 DEF Delete
  <2>5. DeleteLatestStmts(m, n, v) \in Seq(AnyStmt)
    <3>1. /\ << Update(Order(m), v), Query("references", Version(m, n)),
                Query("delete", Version(m, n)) >> \in Seq(AnyStmt)
          /\ << Update(Order(m), v), Query("references", Version(m, n)),
                Query("delete", Version(m, n)), Query("references", Order(m)),
                Query("delete", Order(m)) >> \in Seq(AnyStmt)
      BY <1>3, <1>5, <2>2
    <3> QED BY <3>1, DeleteLatestLiteral
  <2> QED BY <1>1, <1>7, <2>2, <2>3, <2>4, <2>5 DEF Writing
<1>8. ASSUME NEW m \in MangroveOrders, NEW n \in Number, p \in Ending(m, n)
      PROVE  p \in Seq(AnyStmt)
  <2>1. /\ Query("references", Version(m, n)) \in AnyStmt
        /\ Query("delete", Version(m, n)) \in AnyStmt
        /\ Query("references", Order(m)) \in AnyStmt /\ Query("delete", Order(m)) \in AnyStmt
    <3>1. Null \in Value
      BY Values
    <3> QED BY <3>1, InnerTypes
  <2> QED BY <1>1, <1>2, <1>3, <1>4, <1>8, <2>1 DEF Ending
<1>9. ASSUME NEW x \in TopLevel, p = << x >>
      PROVE  p \in Seq(AnyStmt)
  BY <1>1, <1>9, TopLevelType
<1>10. <<>> \in Seq(AnyStmt)
  OBVIOUS
<1> QED BY <1>6, <1>7, <1>8, <1>9, <1>10 DEF Underway, Plain

(***************************************************************************)
(* Each statement leaves one of them.                                      *)
(***************************************************************************)
LEMMA SeekingStep ==
  ASSUME NEW f \in Store, NEW p, NoNulls(f), Goes(Head(p), f),
         NEW m \in MangroveOrders, NEW n \in Number, NEW old \in Number,
         p \in Seeking(m, n, old)
  PROVE  \E q : Does(p, f, q, f) /\ Plain(q)
<1> DEFINE r == f[Order(m)]
           v == f[Version(m, n)]
<1>1. r \in Value \cup {NoRow} /\ v \in Value \cup {NoRow} /\ r # Null
  BY KeyTypes DEF Store, NoNulls
<1>2. r # NoRow => r \in Number
  BY <1>1, Values
<1>3. \A op \in {"latest", "find", "version"} : op \in Requires
  BY DEF Requires
<1>4. 0 \in Number /\ Null \in Value /\ n \in Value
  BY Values
<1>5. CASE p = << Query("latest", Order(m)) >>
  <2>1. Head(p) = Query("latest", Order(m))
    BY <1>5, Heads
  <2>2. r \in Number
    BY <1>2, <1>3, <2>1, GoesEach
  <2>3. << Query("version", Version(m, r)) >> \in Seeking(m, r, 0)
    BY DEF Seeking
  <2>4. Does(p, f, << Query("version", Version(m, r)) >>, f)
    BY <1>4, <1>5, SeekingDoes
  <2> HIDE DEF r
  <2> QED BY <1>4, <2>2, <2>3, <2>4 DEF Plain
<1>6. CASE p = << Query("find", Order(m)) >>
  <2>1. Head(p) = Query("find", Order(m))
    BY <1>6, Heads
  <2>2. r \in Number
    BY <1>2, <1>3, <2>1, GoesEach
  <2>3. << Stmt("current", Order(m), Null, r) >> \in Seeking(m, 0, r)
    BY DEF Seeking
  <2>4. Does(p, f, << Stmt("current", Order(m), Null, r) >>, f)
    BY <1>4, <1>6, SeekingDoes
  <2> HIDE DEF r
  <2> QED BY <1>4, <2>2, <2>3, <2>4 DEF Plain
<1>7. CASE p = << Query("version", Version(m, n)) >>
  <2>1. Head(p) = Query("version", Version(m, n))
    BY <1>7, Heads
  <2>2. v \in Value
    BY <1>1, <1>3, <2>1, GoesEach
  <2>3. DeleteLatestStmts(m, n, v) \in Writing(m, n, 0, v)
    BY DEF Writing
  <2>4. Does(p, f, DeleteLatestStmts(m, n, v), f)
    BY <1>7, <2>2, SeekingDoes
  <2> HIDE DEF v
  <2> QED BY <1>4, <2>2, <2>3, <2>4 DEF Plain
<1>8. CASE p = << Stmt("current", Order(m), Null, old) >>
  <2>1. Head(p) = Stmt("current", Order(m), Null, old)
    BY <1>8, Heads
  <2>2. r \in Number
    BY <1>2, <2>1, GoesEach
  <2>3. << Stmt("oldVersion", Version(m, r), Null, old) >> \in Seeking(m, r, old)
    BY DEF Seeking
  <2>4. Does(p, f, << Stmt("oldVersion", Version(m, r), Null, old) >>, f)
    BY <1>8, SeekingDoes
  <2> HIDE DEF r
  <2> QED BY <1>4, <2>2, <2>3, <2>4 DEF Plain
<1>9. CASE p = << Stmt("oldVersion", Version(m, n), Null, old) >>
  <2>1. Head(p) = Stmt("oldVersion", Version(m, n), Null, old)
    BY <1>9, Heads
  <2>2. n + 1 \in Number
    <3>1. Goes(Stmt("oldVersion", Version(m, n), Null, old), f)
      BY <2>1
    <3>2. Version(m, n)[3] + 1 \in Number
      BY <3>1, GoesEach
    <3> QED BY <3>2, KeyParts
  <2>3. AddVersionStmts(m, n + 1, n, old) \in Writing(m, n + 1, old, n)
    BY DEF Writing
  <2>4. Does(p, f, AddVersionStmts(m, n + 1, n, old), f)
    BY <1>9, SeekingDoes
  <2> QED BY <1>4, <2>2, <2>3, <2>4 DEF Plain
<1> QED BY <1>5, <1>6, <1>7, <1>8, <1>9 DEF Seeking

\* Rows of which one is replaced.
LEMMA StoreUpdate ==
  ASSUME NEW f \in Store, NEW k, NEW v \in Value \cup {NoRow}
  PROVE  LET g == [f EXCEPT ![k] = v] IN
         /\ g \in Store
         /\ \A j \in RowKey : g[j] = IF j = k THEN v ELSE f[j]
BY DEF Store

\* The step of a form in which versions are written leads to another form.
LEMMA WritingStep ==
  ASSUME NEW f \in Store, NEW p, NoNulls(f), Goes(Head(p), f),
         NEW m \in MangroveOrders, NEW n \in Number, NEW old \in Number, NEW v \in Value,
         p \in Writing(m, n, old, v)
  PROVE  \E q : \E g \in Store : Does(p, f, q, g) /\ Underway(g, q)
<1> DEFINE k == Order(m)
           w == IF f[k] = NoRow THEN old ELSE n
<1>1. /\ 0 \in Number /\ Null \in Value /\ n \in Value \cup {NoRow} /\ old \in Value \cup {NoRow}
      /\ v \in Value \cup {NoRow} /\ NoRow # Null /\ n # Null /\ old # Null
  BY Values
<1>2. w \in Value \cup {NoRow} /\ w # Null
  BY <1>1
<1>3. /\ k \in RowKey /\ \A j \in MangroveOrders : Order(j) \in RowKey /\ (Order(j) = k => j = m)
      /\ \A j \in MangroveOrders : Order(j) # Version(m, n)
  BY KeyTypes, KeysDiffer
<1>4. \A x : \A g \in Store : g = [f EXCEPT ![Version(m, n)] = x] /\ x \in Value \cup {NoRow}
        => NoNulls(g)
  BY <1>3, StoreUpdate DEF NoNulls
<1>5. Plain(<<>>)
  BY DEF Plain
<1>6. CASE p = AddVersionStmts(m, n, v, old)
  <2> DEFINE q == << Create(Version(m, n), v) >>
             g == [f EXCEPT ![k] = w]
  <2>1. Does(p, f, q, g)
    BY <1>6, WritingDoes
  <2>2. q \in Writing(m, n, old, v)
    BY DEF Writing
  <2> HIDE DEF q, w
  <2>3. g \in Store /\ \A j \in RowKey : g[j] = IF j = k THEN w ELSE f[j]
    BY <1>2, StoreUpdate
  <2> HIDE DEF g
  <2>4. NoNulls(g)
    BY <1>2, <1>3, <2>3 DEF NoNulls
  <2>5. Plain(q)
    BY <2>2 DEF Plain
  <2> QED BY <2>1, <2>3, <2>4, <2>5 DEF Underway
<1>7. CASE p = << Create(Version(m, n), v) >>
  <2> DEFINE g == [f EXCEPT ![Version(m, n)] = v]
  <2>1. Does(p, f, <<>>, g)
    BY <1>7, WritingDoes
  <2>2. g \in Store
    BY <1>1, StoreUpdate
  <2>3. NoNulls(g)
    BY <1>1, <1>4, <2>2
  <2> HIDE DEF g
  <2> QED BY <1>5, <2>1, <2>2, <2>3 DEF Underway
<1>8. CASE p = DeleteLatestStmts(m, n, v)
  <2> DEFINE g == [f EXCEPT ![k] = v]
  <2>1. g \in Store /\ \A j \in RowKey : g[j] = IF j = k THEN v ELSE f[j]
    BY <1>1 DEF Store
  <2>2. CASE v # Null
    <3>1. Does(p, f, Delete(Version(m, n)), g)
      BY <1>8, <2>2, WritingDoes
    <3>2. Plain(Delete(Version(m, n)))
      <4>1. Delete(Version(m, n)) \in Writing(m, n, old, v)
        BY DEF Writing
      <4> QED BY <4>1 DEF Plain
    <3> HIDE DEF g
    <3>3. NoNulls(g)
      BY <1>3, <2>1, <2>2 DEF NoNulls
    <3> QED BY <2>1, <3>1, <3>2, <3>3 DEF Underway
  <2>3. CASE v = Null
    <3> DEFINE q == << Query("references", Version(m, n)), Query("delete", Version(m, n)),
                       Query("references", Order(m)), Query("delete", Order(m)) >>
    <3>1. Does(p, f, q, g)
      BY <1>8, <2>3, WritingDoes
    <3>2. q \in Ending(m, n)
      BY DEF Ending
    <3> HIDE DEF g, q
    <3>3. \A j \in MangroveOrders : g[Order(j)] = Null => j = m
      BY <1>3, <2>1 DEF NoNulls
    <3> QED BY <2>1, <3>1, <3>2, <3>3 DEF Underway
  <2> QED BY <2>2, <2>3
<1>9. CASE p = Delete(Version(m, n))
  <2> DEFINE q == << Query("delete", Version(m, n)) >>
  <2>1. Does(p, f, q, f)
    BY <1>9, DeletingDoes
  <2>2. q \in Writing(m, n, old, v)
    BY DEF Writing
  <2> HIDE DEF q
  <2>3. Plain(q)
    BY <2>2 DEF Plain
  <2> QED BY <2>1, <2>3 DEF Underway
<1>10. CASE p = << Query("delete", Version(m, n)) >>
  <2> DEFINE g == [f EXCEPT ![Version(m, n)] = NoRow]
  <2>1. Does(p, f, <<>>, g)
    BY <1>10, DeletingDoes
  <2>2. g \in Store
    BY StoreUpdate
  <2>3. NoNulls(g)
    BY <1>4, <2>2
  <2> HIDE DEF g
  <2> QED BY <1>5, <2>1, <2>2, <2>3 DEF Underway
<1> QED BY <1>6, <1>7, <1>8, <1>9, <1>10 DEF Writing

\* So does the step of a form in which a MangroveOrder is deleted.
LEMMA EndingStep ==
  ASSUME NEW f \in Store, NEW p, Goes(Head(p), f),
         NEW m \in MangroveOrders, NEW n \in Number, p \in Ending(m, n),
         \A j \in MangroveOrders : f[Order(j)] = Null => j = m
  PROVE  \E q : \E g \in Store : Does(p, f, q, g) /\ Underway(g, q)
<1> DEFINE rv == Query("references", Version(m, n))
           dv == Query("delete", Version(m, n))
           ro == Query("references", Order(m))
           do == Query("delete", Order(m))
           h == [f EXCEPT ![Version(m, n)] = NoRow]
           g == [f EXCEPT ![Order(m)] = NoRow]
<1>1. /\ << rv, dv, ro, do >> \in Ending(m, n) /\ << dv, ro, do >> \in Ending(m, n)
      /\ << ro, do >> \in Ending(m, n) /\ << do >> \in Ending(m, n)
  BY DEF Ending
<1>2. \A j \in MangroveOrders : /\ Order(j) \in RowKey /\ (Order(j) = Order(m) => j = m)
                                /\ Order(j) # Version(m, n)
  BY KeyTypes, KeysDiffer
<1>3. h \in Store /\ \A j \in MangroveOrders : h[Order(j)] = f[Order(j)]
  <2>1. h \in Store /\ \A x \in RowKey : h[x] = IF x = Version(m, n) THEN NoRow ELSE f[x]
    BY DEF Store
  <2> HIDE DEF h
  <2> QED BY <1>2, <2>1
<1>4. g \in Store /\ \A j \in MangroveOrders : g[Order(j)] = IF j = m THEN NoRow ELSE f[Order(j)]
  <2>1. g \in Store /\ \A x \in RowKey : g[x] = IF x = Order(m) THEN NoRow ELSE f[x]
    BY DEF Store
  <2> HIDE DEF g
  <2> QED BY <1>2, <2>1
<1>5. NoNulls(g)
  BY <1>4, Values DEF NoNulls
<1>6. Plain(<<>>)
  BY DEF Plain
<1>7. /\ Does(<< rv, dv, ro, do >>, f, << dv, ro, do >>, f)
      /\ Does(<< dv, ro, do >>, f, << ro, do >>, h)
      /\ Does(<< ro, do >>, f, << do >>, f) /\ Does(<< do >>, f, <<>>, g)
  <2>1. /\ \A a, b : Does(<< rv, dv, a, b >>, f, << dv, a, b >>, f)
        /\ \A a, b : Does(<< dv, a, b >>, f, << a, b >>, h)
    BY DeletingDoes
  <2>2. Does(<< ro, do >>, f, << do >>, f)
    BY DeletingDoes DEF Delete
  <2>3. Does(<< do >>, f, <<>>, g)
    BY DeletingDoes
  <2> QED BY <2>1, <2>2, <2>3
<1>8. p \in {<< rv, dv, ro, do >>, << dv, ro, do >>, << ro, do >>, << do >>}
  BY DEF Ending
<1> HIDE DEF rv, dv, ro, do, h, g
<1>9. CASE p = << rv, dv, ro, do >>
  BY <1>1, <1>7, <1>9 DEF Underway
<1>10. CASE p = << dv, ro, do >>
  BY <1>1, <1>3, <1>7, <1>10 DEF Underway
<1>11. CASE p = << ro, do >>
  BY <1>1, <1>7, <1>11 DEF Underway
<1>12. CASE p = << do >>
  BY <1>4, <1>5, <1>6, <1>7, <1>12 DEF Underway
<1> QED BY <1>8, <1>9, <1>10, <1>11, <1>12

\* So does the first step of what a handler begins with.
LEMMA TopLevelStep ==
  ASSUME NEW f \in Store, NoNulls(f), NEW x \in TopLevel, Goes(x, f)
  PROVE  \E q : \E g \in Store : Does(<< x >>, f, q, g) /\ Underway(g, q)
<1>1. Plain(<<>>)
  BY DEF Plain
<1>2. ASSUME NEW k \in Keys, x = Query("ensure", Row(k))
      PROVE  \E q : Does(<< x >>, f, q, f) /\ Plain(q)
  <2>1. Create(Row(k), Present) \in TopLevel
    BY DEF TopLevel
  <2>2. Plain(<< Create(Row(k), Present) >>)
    BY <2>1 DEF Plain
  <2> QED BY <1>1, <1>2, <2>2, TopLevelDoes
<1>3. ASSUME NEW k \in Keys, NEW v \in Value \cup {NoRow}, NEW g, g = [f EXCEPT ![Row(k)] = v]
      PROVE  g \in Store /\ NoNulls(g)
  <2>1. g \in Store /\ \A j \in RowKey : g[j] = IF j = Row(k) THEN v ELSE f[j]
    BY <1>3 DEF Store
  <2> QED BY <2>1, KeyTypes, KeysDiffer DEF NoNulls
<1>4. ASSUME NEW k \in Keys, x = Query("delete", Row(k))
      PROVE  \E g \in Store : Does(<< x >>, f, <<>>, g) /\ NoNulls(g)
  BY <1>3, <1>4, DeletingDoes
<1>5. ASSUME NEW k \in Keys, x = Query("references", Row(k))
      PROVE  Does(<< x >>, f, <<>>, f)
  BY <1>5, DeletingDoes
<1>6. ASSUME NEW k \in Keys, x = Create(Row(k), Present)
      PROVE  \E g \in Store : Does(<< x >>, f, <<>>, g) /\ NoNulls(g)
  <2>1. Present \in Value \cup {NoRow}
    BY Values
  <2> QED BY <1>3, <1>6, <2>1, TopLevelDoes
<1>7. ASSUME NEW m \in MangroveOrders, NEW op \in OrderOps, x = Query(op, Order(m))
      PROVE  \E q : Does(<< x >>, f, q, f) /\ Plain(q)
  <2> DEFINE r == f[Order(m)]
  <2>1. r \in Value \cup {NoRow} /\ r # Null
    BY KeyTypes DEF Store, NoNulls
  <2>2. 0 \in Number /\ Null \in Value /\ (r # NoRow => r \in Number)
    BY <2>1, Values
  <2>3. /\ << Query("latest", Order(m)) >> \in Seeking(m, 0, 0)
        /\ << Query("find", Order(m)) >> \in Seeking(m, 0, 0)
        /\ << Stmt("current", Order(m), Null, r) >> \in Seeking(m, 0, r)
        /\ AddVersionStmts(m, 0, Null, 0) \in Writing(m, 0, 0, Null)
    BY DEF Seeking, Writing
  <2> HIDE DEF r
  <2>4. Plain(<< Query("latest", Order(m)) >>) /\ Plain(<< Query("find", Order(m)) >>)
    BY <2>2, <2>3 DEF Plain
  <2>5. r # NoRow => Plain(<< Stmt("current", Order(m), Null, r) >>)
    BY <2>2, <2>3 DEF Plain
  <2>6. Plain(AddVersionStmts(m, 0, Null, 0))
    BY <2>2, <2>3 DEF Plain
  <2>7. CASE op = "latest"
    <3>1. << x >> \in Seeking(m, 0, 0)
      BY <1>7, <2>3, <2>7
    <3>2. Head(<< x >>) = x
      BY Heads
    <3> QED BY <2>2, <3>1, <3>2, SeekingStep
  <2>8. CASE op = "findMany"
    BY <1>1, <1>7, <2>4, <2>8, TopLevelDoes DEF r
  <2>9. CASE op = "findFirst"
    BY <1>1, <1>7, <2>4, <2>9, TopLevelDoes DEF r
  <2>10. CASE op = "findOrNew"
    BY <1>7, <2>5, <2>6, <2>10, TopLevelDoes DEF r
  <2> QED BY <2>7, <2>8, <2>9, <2>10 DEF OrderOps
<1> QED BY <1>1, <1>2, <1>4, <1>5, <1>6, <1>7 DEF TopLevel, RowOps, Underway

-----------------------------------------------------------------------------
(***************************************************************************)
(* What an event is handled with.                                          *)
(***************************************************************************)
LEMMA SequenceOfSet ==
  ASSUME NEW S, IsFiniteSet(S)
  PROVE  LET n == Cardinality(S)
             f == SetToSeq(S)
         IN  /\ n \in Nat /\ f \in [1..n -> S]
             /\ \A i, j \in 1..n : f[i] = f[j] => i = j
             /\ \A x \in S : \E i \in 1..n : f[i] = x
<1> DEFINE n == Cardinality(S)
           P(f) == f \in [1..n -> S] /\ IsInjective(f)
<1>1. n \in Nat /\ ExistsBijection(1..n, S)
  BY FS_NatBijection, FS_CountingElements, FS_CardinalityType
<1>2. PICK g \in [1..n -> S] : IsInjective(g)
  BY <1>1 DEF ExistsBijection, Bijection, Injection, IsInjective
<1>3. P(SetToSeq(S))
  BY <1>2 DEF SetToSeq
<1>4. SetToSeq(S) \in Injection(1..n, S)
  BY <1>3 DEF Injection
<1>5. Cardinality(1..n) = n
  <2>1. 1 \in Int /\ n \in Int /\ n \in Nat
    BY <1>1
  <2> HIDE DEF n
  <2> QED BY <2>1, FS_Interval
<1>6. SetToSeq(S) \in Surjection(1..n, S)
  BY <1>4, <1>5, FS_Injection
<1> HIDE DEF n
<1> QED BY <1>1, <1>3, <1>6 DEF Surjection, IsInjective, n

\* The statements for the MangroveOrders of an event, one for each.
LEMMA OnType ==
  ASSUME NEW op \in OrderOps, NEW e \in Event
  PROVE  /\ On(op, e) \in Seq(TopLevel) /\ Len(On(op, e)) = Cardinality(e.on)
         /\ Cardinality(e.on) \in Nat
         /\ \A i \in 1..Len(On(op, e)) : On(op, e)[i] = Query(op, Order(SetToSeq(e.on)[i]))
<1> DEFINE n == Cardinality(e.on)
           f == SetToSeq(e.on)
<1>1. n \in Nat /\ f \in [1..n -> e.on]
  BY SequenceOfSet DEF Event
<1>2. e.on \subseteq MangroveOrders
  BY DEF Event
<1>3. \A i \in 1..n : Query(op, Order(f[i])) \in TopLevel
  BY <1>1, <1>2 DEF TopLevel
<1>4. On(op, e) = [i \in 1..n |-> Query(op, Order(f[i]))]
  BY DEF On
<1> HIDE DEF n, f
<1>5. On(op, e) \in [1..n -> TopLevel]
  BY <1>3, <1>4
<1>6. On(op, e) \in Seq(TopLevel) /\ Len(On(op, e)) = n
  BY <1>1, <1>5
<1> QED BY <1>1, <1>4, <1>6 DEF n, f

EnsureStmts(e) == [i \in 1..Len(e.ensures) |-> Query("ensure", Row(e.ensures[i]))]

KindStmts(e) ==
  CASE e.kind = "ensure"      -> <<>>
    [] e.kind = "order"       -> << Create(Row(e.order), Present) >>
    [] e.kind = "undoOrder"   -> Delete(Row(e.order)) \o On("findMany", e)
    [] e.kind = "summary"     -> On("findOrNew", e)
    [] e.kind = "expiry"      -> On("findFirst", e)
    [] e.kind = "undoSummary" -> On("latest", e)

\* The statements of an event: the rows it makes sure of, then what its kind says.
LEMMA StatementsType ==
  ASSUME NEW e \in Event
  PROVE  /\ EnsureStmts(e) \in Seq(TopLevel) /\ Len(EnsureStmts(e)) = Len(e.ensures)
         /\ KindStmts(e) \in Seq(TopLevel)
         /\ Delete(Row(e.order)) \in Seq(TopLevel)
         /\ Statements(e) = EnsureStmts(e) \o KindStmts(e)
         /\ Statements(e) \in Seq(TopLevel)
<1>1. e.order \in Keys /\ e.ensures \in Seq(Keys) /\ Len(e.ensures) \in Nat
  BY DEF Event
<1>2. e.kind \in {"ensure", "order", "undoOrder", "summary", "undoSummary", "expiry"}
  BY DEF Event
<1>3. EnsureStmts(e) \in Seq(TopLevel) /\ Len(EnsureStmts(e)) = Len(e.ensures)
  <2> DEFINE n == Len(e.ensures)
  <2>1. \A i \in 1..n : Query("ensure", Row(e.ensures[i])) \in TopLevel
    BY <1>1 DEF TopLevel, RowOps
  <2>2. EnsureStmts(e) \in [1..n -> TopLevel]
    BY <2>1 DEF EnsureStmts
  <2> HIDE DEF n
  <2>3. EnsureStmts(e) \in Seq(TopLevel) /\ Len(EnsureStmts(e)) = n
    <3>1. n \in Nat
      BY <1>1 DEF n
    <3> QED BY <2>2, <3>1
  <2> QED BY <2>3 DEF n
<1>4. Delete(Row(e.order)) \in Seq(TopLevel)
  <2>1. /\ Query("references", Row(e.order)) \in TopLevel
        /\ Query("delete", Row(e.order)) \in TopLevel
    BY <1>1 DEF TopLevel, RowOps
  <2> QED BY <2>1 DEF Delete
<1>5. \A op \in OrderOps : On(op, e) \in Seq(TopLevel)
  BY OnType
<1>6. << Create(Row(e.order), Present) >> \in Seq(TopLevel)
  <2>1. Create(Row(e.order), Present) \in TopLevel
    BY <1>1 DEF TopLevel
  <2> QED BY <2>1
<1>7. KindStmts(e) \in Seq(TopLevel)
  <2>1. <<>> \in Seq(TopLevel)
    OBVIOUS
  <2>2. /\ On("findMany", e) \in Seq(TopLevel) /\ On("findOrNew", e) \in Seq(TopLevel)
        /\ On("findFirst", e) \in Seq(TopLevel) /\ On("latest", e) \in Seq(TopLevel)
    BY <1>5 DEF OrderOps
  <2>3. Delete(Row(e.order)) \o On("findMany", e) \in Seq(TopLevel)
    BY <1>4, <2>2, ConcatProperties
  <2> QED BY <1>2, <1>6, <2>1, <2>2, <2>3 DEF KindStmts
<1>8. Statements(e) = EnsureStmts(e) \o KindStmts(e)
  BY DEF Statements, EnsureStmts, KindStmts
<1> QED BY <1>3, <1>4, <1>7, <1>8, ConcatProperties

-----------------------------------------------------------------------------
(***************************************************************************)
(* The next statement of a transaction that sees f and has the statements  *)
(* t left: p of what it has begun, and others.                             *)
(***************************************************************************)
AtWork(f, t) ==
  \E p, rest : rest \in Seq(TopLevel) /\ t = p \o rest /\ Underway(f, p)

\* The step of any form leads to another form.
LEMMA PartStep ==
  ASSUME NEW f \in Store, NEW p, Underway(f, p), p # <<>>, Goes(Head(p), f)
  PROVE  \E q : \E g \in Store : Does(p, f, q, g) /\ Underway(g, q)
<1>1. CASE \E m \in MangroveOrders, n \in Number :
             p \in Ending(m, n) /\ \A j \in MangroveOrders : f[Order(j)] = Null => j = m
  BY <1>1, EndingStep
<1>2. CASE NoNulls(f) /\ Plain(p)
  <2>1. CASE \E x \in TopLevel : p = << x >>
    <3>1. PICK x \in TopLevel : p = << x >>
      BY <2>1
    <3>2. Head(p) = x
      BY <3>1, Heads
    <3> QED BY <1>2, <3>1, <3>2, TopLevelStep
  <2>2. CASE \E m \in MangroveOrders, n \in Number, old \in Number, v \in Value :
               p \in Seeking(m, n, old) \cup Writing(m, n, old, v)
    <3>1. PICK m \in MangroveOrders, n \in Number, old \in Number, v \in Value :
                 p \in Seeking(m, n, old) \cup Writing(m, n, old, v)
      BY <2>2
    <3>2. CASE p \in Seeking(m, n, old)
      <4>1. PICK q : Does(p, f, q, f) /\ Plain(q)
        BY <1>2, <3>2, SeekingStep
      <4> QED BY <1>2, <4>1 DEF Underway
    <3>3. CASE p \in Writing(m, n, old, v)
      BY <1>2, <3>3, WritingStep
    <3> QED BY <3>1, <3>2, <3>3
  <2> QED BY <1>2, <2>1, <2>2 DEF Plain
<1> QED BY <1>1, <1>2 DEF Underway

Joins(t, p, rest) == t = p \o rest

\* A sequence p is replaced by the one that its first statement leaves.
LEMMA RestBehind ==
  ASSUME NEW f, NEW p \in Seq(AnyStmt), p # <<>>, NEW rest \in Seq(AnyStmt),
         NEW q, NEW g, Does(p, f, q, g), NEW t, Joins(t, p, rest)
  PROVE  t # <<>> /\ Head(t) = Head(p) /\ Joins(Rest(t, f), q, rest)
<1> DEFINE w == Follow(Head(p), f[Head(p).key])
<1>1. PICK S : w \in Seq(S)
  BY DEF Does, IsSequence
<1> DEFINE T == AnyStmt \cup S
<1>2. w \in Seq(T) /\ p \in Seq(T) /\ rest \in Seq(T)
  <2>1. AnyStmt \subseteq T /\ S \subseteq T
    OBVIOUS
  <2> HIDE DEF T, w
  <2> QED BY <1>1, <2>1, SeqMonotonic
<1> HIDE DEF T, w
<1>3. /\ p \o rest # <<>> /\ Head(p \o rest) = Head(p)
      /\ w \o Tail(p \o rest) = (w \o Tail(p)) \o rest
  BY <1>2, Replace
<1>4. w \o Tail(p) = q
  BY DEF Does, Rest, w
<1>5. Rest(t, f) = w \o Tail(p \o rest)
  BY <1>3 DEF Rest, w, Joins
<1> QED BY <1>3, <1>4, <1>5 DEF Joins

\* What is left of a transaction after a statement is again a form and whole items.
LEMMA WorkStep ==
  ASSUME NEW f \in Store, NEW t, t # <<>>, AtWork(f, t), Goes(Head(t), f)
  PROVE  Changed(Head(t), f) \in Store /\ AtWork(Changed(Head(t), f), Rest(t, f))
<1>1. PICK p, rest : rest \in Seq(TopLevel) /\ t = p \o rest /\ Underway(f, p)
  BY DEF AtWork
<1>2. \A r \in Seq(TopLevel) : r \in Seq(AnyStmt)
  BY TopLevelType, SeqMonotonic
<1>3. ASSUME NEW a, NEW r \in Seq(TopLevel), t = a \o r, Underway(f, a), a # <<>>
      PROVE  Changed(Head(t), f) \in Store /\ AtWork(Changed(Head(t), f), Rest(t, f))
  <2>1. a \in Seq(AnyStmt) /\ r \in Seq(AnyStmt)
    BY <1>2, <1>3, FormType
  <2>2. Head(t) = Head(a)
    <3>1. Head(a \o r) = Head(a)
      BY <1>3, <2>1, Replace
    <3> QED BY <1>3, <3>1
  <2>3. PICK q : \E g \in Store : Does(a, f, q, g) /\ Underway(g, q)
    BY <1>3, <2>2, PartStep
  <2>4. PICK g \in Store : Does(a, f, q, g) /\ Underway(g, q)
    BY <2>3
  <2>5. Rest(t, f) = q \o r
    <3>1. /\ a \in Seq(AnyStmt) /\ r \in Seq(AnyStmt) /\ a # <<>> /\ Does(a, f, q, g)
          /\ Joins(t, a, r)
      BY <1>3, <2>1, <2>4 DEF Joins
    <3>2. Joins(Rest(t, f), q, r)
      BY <3>1, RestBehind
    <3> QED BY <3>2 DEF Joins
  <2>6. Changed(Head(t), f) = g
    BY <2>2, <2>4 DEF Does
  <2> QED BY <2>4, <2>5, <2>6 DEF AtWork
<1>4. CASE p # <<>>
  BY <1>1, <1>3, <1>4
<1>5. CASE p = <<>>
  <2>1. t = rest
    BY <1>1, <1>5, ConcatEmptySeq
  <2>2. rest # <<>> /\ Head(rest) \in TopLevel /\ Tail(rest) \in Seq(TopLevel)
    BY <1>1, <2>1, HeadTailProperties
  <2>3. rest = << Head(rest) >> \o Tail(rest)
    <3> DEFINE h == << Head(rest) >>
               u == Tail(rest)
               v == h \o u
    <3>1. h \in Seq(TopLevel) /\ Len(h) = 1 /\ h[1] = rest[1] /\ u \in Seq(TopLevel)
      BY <2>2
    <3>2. Len(u) = Len(rest) - 1 /\ \A i \in 1..Len(u) : u[i] = rest[i + 1]
      BY <1>1, <2>2, HeadTailProperties
    <3>3. Len(rest) \in Nat \ {0}
      BY <1>1, <2>2, EmptySeq
    <3> HIDE DEF h, u
    <3>4. /\ v \in Seq(TopLevel) /\ Len(v) = Len(h) + Len(u)
          /\ \A i \in 1..(Len(h) + Len(u)) : v[i] = IF i <= Len(h) THEN h[i] ELSE u[i - Len(h)]
      BY <3>1, ConcatProperties
    <3> HIDE DEF v
    <3>5. Len(v) = Len(rest) /\ \A i \in 1..Len(rest) : v[i] = rest[i]
      BY <3>1, <3>2, <3>3, <3>4
    <3>6. v = rest
      BY <1>1, <3>4, <3>5, SeqEqual
    <3> QED BY <3>6 DEF v, h, u
  <2>4. \A m, n : p \notin Ending(m, n)
    BY <1>5 DEF Ending
  <2>5. Underway(f, << Head(rest) >>)
    BY <1>1, <2>2, <2>4 DEF Underway, Plain
  <2>6. << Head(rest) >> # <<>>
    OBVIOUS
  <2> QED BY <1>3, <2>1, <2>2, <2>3, <2>5, <2>6
<1> QED BY <1>4, <1>5

\* Nothing is left to do: every MangroveOrder has a current version.
LEMMA WorkDone ==
  ASSUME NEW f, AtWork(f, <<>>)
  PROVE  NoNulls(f)
<1>1. PICK p, rest : rest \in Seq(TopLevel) /\ <<>> = p \o rest /\ Underway(f, p)
  BY DEF AtWork
<1>2. p \in Seq(AnyStmt) /\ rest \in Seq(AnyStmt)
  BY <1>1, FormType, TopLevelType, SeqMonotonic
<1>3. p = <<>>
  <2>1. p \o rest = <<>>
    BY <1>1
  <2>2. Len(p \o rest) = Len(p) + Len(rest) /\ Len(p \o rest) = 0
    BY <1>2, <2>1, ConcatProperties, EmptySeq
  <2> QED BY <1>2, <2>2, EmptySeq
<1>4. \A m, n : p \notin Ending(m, n)
  BY <1>3 DEF Ending
<1> QED BY <1>1, <1>4 DEF Underway

\* What others commit has no MangroveOrder without a current version.
LEMMA WorkKept ==
  ASSUME NEW f, NEW g, NEW t, AtWork(f, t),
         \A m \in MangroveOrders : g[Order(m)] = Null => f[Order(m)] = Null
  PROVE  AtWork(g, t)
<1>1. PICK p, rest : rest \in Seq(TopLevel) /\ t = p \o rest /\ Underway(f, p)
  BY DEF AtWork
<1>2. Underway(g, p)
  BY <1>1 DEF Underway, NoNulls
<1> QED BY <1>1, <1>2 DEF AtWork

\* Nothing is begun.
LEMMA WorkAhead ==
  ASSUME NEW f, NoNulls(f), NEW t \in Seq(TopLevel)
  PROVE  AtWork(f, t)
<1>1. t = <<>> \o t
  BY ConcatEmptySeq
<1>2. Underway(f, <<>>)
  BY DEF Underway, Plain
<1> QED BY <1>1, <1>2 DEF AtWork

-----------------------------------------------------------------------------
(***************************************************************************)
(* The invariant.                                                          *)
(***************************************************************************)
PartStore == UNION {[K -> Value \cup {NoRow}] : K \in SUBSET RowKey}

View(s) == [k \in RowKey |-> Sees(s, k)]

Types ==
  /\ script \in Scripts
  /\ done \in [Streams -> Nat] /\ batch \in [Streams -> 0..BatchSize]
  /\ \A s \in Streams : done[s] + batch[s] <= Len(script[s])
  /\ db \in Store /\ NoNulls(db)
  /\ pending \in [Streams -> PartStore] /\ todo \in [Streams -> Seq(AnyStmt)]
  /\ alone \in [Streams -> BOOLEAN] /\ woken \subseteq Streams /\ faults \in 0..MaxFaults
  /\ \A s \in Streams : batch[s] = 0 => pending[s] = Nothing /\ todo[s] = <<>>

Inv == Types /\ \A s \in Streams : AtWork(View(s), todo[s])

\* The invariant has the type invariant that the runs check.
LEMMA InvTypeOK == Inv => TypeOK
<1> SUFFICES ASSUME Inv
             PROVE  TypeOK
  OBVIOUS
<1>1. ASSUME NEW s \in Streams
      PROVE  /\ DOMAIN pending[s] \subseteq RowKey
             /\ \A k \in DOMAIN pending[s] : pending[s][k] \in Value \cup {NoRow}
  <2>1. pending[s] \in PartStore
    BY DEF Inv, Types
  <2> QED BY <2>1 DEF PartStore
<1>2. ASSUME NEW s \in Streams, NEW i \in 1..Len(todo[s])
      PROVE  todo[s][i].key \in RowKey
  <2>1. todo[s] \in Seq(AnyStmt)
    BY DEF Inv, Types
  <2>2. todo[s][i] \in AnyStmt
    BY <2>1, ElementOfSeq
  <2> QED BY <2>2 DEF AnyStmt
<1> QED BY <1>1, <1>2 DEF TypeOK, Inv, Types, Store

\* What a transaction sees are rows.
LEMMA ViewType ==
  ASSUME Types, NEW s \in Streams
  PROVE  View(s) \in Store /\ \A k \in RowKey : View(s)[k] = Sees(s, k)
<1>1. pending[s] \in PartStore /\ db \in Store
  BY DEF Types
<1>2. \A k \in DOMAIN pending[s] : pending[s][k] \in Value \cup {NoRow}
  BY <1>1 DEF PartStore
<1>3. \A k \in RowKey : Sees(s, k) \in Value \cup {NoRow}
  BY <1>1, <1>2 DEF Store, Sees
<1> QED BY <1>3 DEF Store, View

\* A transaction that has not begun has written nothing.
LEMMA NothingPart == Nothing \in PartStore /\ DOMAIN Nothing = {}
<1>1. {} \in SUBSET RowKey
  OBVIOUS
<1>2. Nothing \in [{} -> Value \cup {NoRow}]
  BY DEF Nothing
<1> QED BY <1>1, <1>2 DEF PartStore

\* A stream that has written nothing sees what is committed.
LEMMA NothingSeen ==
  ASSUME Types, NEW s \in Streams, pending[s] = Nothing
  PROVE  View(s) = db
<1>1. \A k \in RowKey : Sees(s, k) = db[k]
  BY NothingPart DEF Sees
<1>2. db \in Store
  BY DEF Types
<1> QED BY <1>1, <1>2 DEF View, Store

(***************************************************************************)
(* A statement changes what its stream sees, and nothing else.             *)
(***************************************************************************)
LEMMA WithRowType ==
  ASSUME NEW f \in PartStore, NEW k \in RowKey, NEW r \in Value \cup {NoRow}
  PROVE  WithRow(f, k, r) \in PartStore
<1>1. PICK K \in SUBSET RowKey : f \in [K -> Value \cup {NoRow}]
  BY DEF PartStore
<1>2. K \cup {k} \in SUBSET RowKey
  BY <1>1
<1>3. WithRow(f, k, r) \in [K \cup {k} -> Value \cup {NoRow}]
  BY <1>1 DEF WithRow
<1> QED BY <1>2, <1>3 DEF PartStore

\* A statement of one stream is not seen by the others.
LEMMA ExecuteStep ==
  ASSUME Types, NEW s \in Streams, Execute(s)
  PROVE  /\ todo[s] # <<>> /\ Goes(Head(todo[s]), View(s))
         /\ View(s)' = Changed(Head(todo[s]), View(s))
         /\ todo'[s] = Rest(todo[s], View(s))
         /\ pending' \in [Streams -> PartStore]
         /\ \A t \in Streams : t # s => View(t)' = View(t) /\ todo'[t] = todo[t]
<1> DEFINE st == Head(todo[s])
           k == st.key
           r == Sees(s, k)
           w == Written(st, r)
<1>1. todo \in [Streams -> Seq(AnyStmt)] /\ pending \in [Streams -> PartStore] /\ db \in Store
  BY DEF Types
<1>2. todo[s] # <<>> /\ ~Blocked(s) /\ ~Throws(s)
  BY DEF Execute
<1>3. st \in AnyStmt
  BY <1>1, <1>2, HeadTailProperties
<1>4. k \in RowKey /\ st.val \in Value /\ st.old \in Value
  BY <1>3 DEF AnyStmt
<1>5. View(s) \in Store /\ \A j \in RowKey : View(s)[j] = Sees(s, j)
  BY ViewType
<1>6. r \in Value \cup {NoRow} /\ View(s)[k] = r
  BY <1>4, <1>5 DEF Store
<1>7. w \in Value \cup {NoRow}
  BY <1>4 DEF Written
<1>8. Goes(st, View(s))
  <2>1. \A m \in MangroveOrders : View(s)[Order(m)] = Sees(s, Order(m))
    BY <1>5, KeyTypes
  <2> QED BY <1>2, <1>6, <2>1 DEF Goes, Throws, Referenced, Statement
<1>9. /\ todo' = [todo EXCEPT ![s] = Follow(st, r) \o Tail(@)]
      /\ pending' = IF st.op \in Writes THEN [pending EXCEPT ![s] = WithRow(@, k, w)] ELSE pending
      /\ db' = db
  BY DEF Execute, Statement
<1>10. /\ todo'[s] = Follow(st, r) \o Tail(todo[s])
       /\ \A t \in Streams : t # s => todo'[t] = todo[t]
  BY <1>1, <1>9
<1>11. todo'[s] = Rest(todo[s], View(s))
  BY <1>6, <1>10 DEF Rest
<1>12. pending' \in [Streams -> PartStore]
  <2>1. pending[s] \in PartStore
    BY <1>1
  <2>2. WithRow(pending[s], k, w) \in PartStore
    BY <1>4, <1>7, <2>1, WithRowType
  <2> HIDE DEF st, k, w
  <2> QED BY <1>1, <1>9, <2>2
<1>13. ASSUME NEW t \in Streams, t # s
       PROVE  View(t)' = View(t)
  <2>1. pending'[t] = pending[t]
    BY <1>1, <1>9, <1>13
  <2> QED BY <1>9, <2>1 DEF View, Sees
<1>14. View(s)' = Changed(st, View(s))
  <2>1. CASE st.op \notin Writes
    <3>1. pending' = pending
      BY <1>9, <2>1
    <3>2. View(s)' = View(s)
      BY <1>9, <3>1 DEF View, Sees
    <3> QED BY <2>1, <3>2 DEF Changed
  <2>2. CASE st.op \in Writes
    <3>1. pending'[s] = WithRow(pending[s], k, w)
      BY <1>1, <1>9, <2>2
    <3> HIDE DEF st, k, w, r
    <3>2. ASSUME NEW j \in RowKey
          PROVE  Sees(s, j)' = IF j = k THEN w ELSE View(s)[j]
      BY <1>5, <1>9, <3>1, <3>2 DEF Sees, WithRow
    <3>3. View(s)' = [j \in RowKey |-> IF j = k THEN w ELSE View(s)[j]]
      BY <3>2 DEF View
    <3>4. View(s)' = [View(s) EXCEPT ![k] = w]
      BY <1>4, <1>5, <3>3 DEF Store
    <3>5. Changed(st, View(s)) = [View(s) EXCEPT ![k] = w]
      BY <1>6, <2>2 DEF Changed, w, k
    <3> QED BY <3>4, <3>5
  <2> QED BY <2>1, <2>2
<1> QED BY <1>2, <1>8, <1>10, <1>11, <1>12, <1>13, <1>14

-----------------------------------------------------------------------------
(***************************************************************************)
(* Every step keeps the invariant.                                         *)
(***************************************************************************)
LEMMA InvInit == Init => Inv
<1> SUFFICES ASSUME Init
             PROVE  Inv
  OBVIOUS
<1>1. /\ script \in Scripts /\ done = [s \in Streams |-> 0] /\ db = [k \in RowKey |-> NoRow]
      /\ batch = [s \in Streams |-> 0] /\ pending = [s \in Streams |-> Nothing]
      /\ todo = [s \in Streams |-> <<>>] /\ alone = [s \in Streams |-> TRUE]
      /\ woken = {} /\ faults = 0
  BY DEF Init
<1>2. script \in [Streams -> Seq(Event)]
  BY <1>1, ScriptAssumption
<1>3. \A s \in Streams : done[s] + batch[s] <= Len(script[s])
  BY <1>1, <1>2
<1>4. db \in Store /\ NoNulls(db)
  BY <1>1, KeyTypes, Values DEF Store, NoNulls
<1>5. pending \in [Streams -> PartStore] /\ todo \in [Streams -> Seq(AnyStmt)]
  BY <1>1, NothingPart
<1>6. Types
  BY <1>1, <1>3, <1>4, <1>5, SessionAssumption DEF Types
<1>7. ASSUME NEW s \in Streams
      PROVE  AtWork(View(s), todo[s])
  <2>1. View(s) = db /\ todo[s] = <<>>
    BY <1>1, <1>6, NothingSeen
  <2>2. <<>> \in Seq(TopLevel)
    OBVIOUS
  <2> QED BY <1>4, <2>1, <2>2, WorkAhead
<1> QED BY <1>6, <1>7 DEF Inv

\* The events of the transaction of s, one statement after another.
Items(s) == FlattenSeq([i \in 1..batch[s] |-> Statements(script[s][done[s] + i])])

\* The events that a stream has not handled yet, and their statements.
LEMMA EventsType ==
  ASSUME Types, NEW s \in Streams, NEW n \in Nat, done[s] + n <= Len(script[s])
  PROVE  /\ \A i \in 1..n : script[s][done[s] + i] \in Event
         /\ [i \in 1..n |-> Statements(script[s][done[s] + i])] \in Seq(Seq(TopLevel))
<1>1. script[s] \in Seq(Event) /\ done[s] \in Nat
  BY ScriptAssumption DEF Types
<1>2. ASSUME NEW i \in 1..n
      PROVE  script[s][done[s] + i] \in Event
  <2>1. done[s] + i \in 1..Len(script[s])
    BY <1>1
  <2> QED BY <1>1, <2>1, ElementOfSeq
<1>3. \A i \in 1..n : Statements(script[s][done[s] + i]) \in Seq(TopLevel)
  BY <1>2, StatementsType
<1> QED BY <1>2, <1>3

\* A transaction that begins sees what is committed and has all its items to do.
LEMMA BeginStep ==
  ASSUME Inv, NEW s \in Streams, NEW n \in 1..BatchSize, Begin(s, n)
  PROVE  /\ Inv' /\ todo'[s] = Items(s)' /\ Items(s)' \in Seq(TopLevel)
         /\ View(s)' = db /\ db' = db
<1>1. /\ Types /\ done[s] \in Nat /\ n \in Nat /\ batch[s] = 0
      /\ done[s] + n <= Len(script[s])
  BY SessionAssumption DEF Inv, Types, Begin
<1> DEFINE seqs == [i \in 1..n |-> Statements(script[s][done[s] + i])]
<1>2. /\ batch' = [batch EXCEPT ![s] = n] /\ todo' = [todo EXCEPT ![s] = FlattenSeq(seqs)]
      /\ alone' = [alone EXCEPT ![s] = TRUE]
      /\ UNCHANGED <<script, done, db, pending, woken, faults>>
  BY DEF Begin
<1>3. /\ batch \in [Streams -> 0..BatchSize] /\ todo \in [Streams -> Seq(AnyStmt)]
      /\ alone \in [Streams -> BOOLEAN]
  BY <1>1 DEF Types
<1>4. seqs \in Seq(Seq(TopLevel))
  BY <1>1, EventsType
<1>5. FlattenSeq(seqs) \in Seq(TopLevel)
  <2> HIDE DEF seqs
  <2> QED BY <1>4, FlattenType
<1>6. Items(s)' = FlattenSeq(seqs)
  <2>1. batch'[s] = n
    BY <1>2, <1>3
  <2> QED BY <1>2, <2>1 DEF Items
<1> HIDE DEF seqs
<1>7. todo'[s] = FlattenSeq(seqs) /\ \A t \in Streams : t # s => todo'[t] = todo[t]
  BY <1>2, <1>3
<1>8. FlattenSeq(seqs) \in Seq(AnyStmt)
  BY <1>5, TopLevelType, SeqMonotonic
<1>9. \A t \in Streams : View(t)' = View(t)
  BY <1>2 DEF View, Sees
<1>10. pending[s] = Nothing /\ View(s) = db
  BY <1>1, NothingSeen DEF Types
<1>11. Types'
  <2>1. \A t \in Streams : batch'[t] = IF t = s THEN n ELSE batch[t]
    BY <1>2, <1>3
  <2>2. batch' \in [Streams -> 0..BatchSize] /\ todo' \in [Streams -> Seq(AnyStmt)]
        /\ alone' \in [Streams -> BOOLEAN]
    BY <1>2, <1>3, <1>8, SessionAssumption
  <2>3. \A t \in Streams : (done[t] + batch[t] <= Len(script[t]))'
    BY <1>1, <1>2, <2>1 DEF Types
  <2>4. \A t \in Streams : (batch[t] = 0 => pending[t] = Nothing /\ todo[t] = <<>>)'
    BY <1>1, <1>2, <1>7, <2>1 DEF Types
  <2>5. (NoNulls(db))' <=> NoNulls(db)
    BY <1>2 DEF NoNulls
  <2> QED BY <1>1, <1>2, <2>2, <2>3, <2>4, <2>5 DEF Types
<1>12. ASSUME NEW t \in Streams
       PROVE  AtWork(View(t), todo[t])'
  <2>1. CASE t = s
    <3>1. NoNulls(db)
      BY <1>1 DEF Types
    <3>2. AtWork(db, FlattenSeq(seqs))
      BY <1>5, <3>1, WorkAhead
    <3>3. View(s)' = db /\ todo'[s] = FlattenSeq(seqs)
      BY <1>7, <1>9, <1>10
    <3> QED BY <2>1, <3>2, <3>3 DEF AtWork
  <2>2. CASE t # s
    <3>1. AtWork(View(t), todo[t])
      BY DEF Inv
    <3>2. View(t)' = View(t) /\ todo'[t] = todo[t]
      BY <1>7, <1>9, <2>2
    <3> QED BY <3>1, <3>2 DEF AtWork
  <2> QED BY <2>1, <2>2
<1>13. Inv'
  BY <1>11, <1>12 DEF Inv
<1> QED BY <1>2, <1>5, <1>6, <1>7, <1>9, <1>10, <1>13

\* A statement keeps the invariant.
LEMMA ExecuteInv ==
  ASSUME Inv, NEW s \in Streams, Execute(s)
  PROVE  Inv'
<1>1. Types
  BY DEF Inv
<1>2. /\ todo[s] # <<>> /\ Goes(Head(todo[s]), View(s))
      /\ View(s)' = Changed(Head(todo[s]), View(s))
      /\ todo'[s] = Rest(todo[s], View(s))
      /\ pending' \in [Streams -> PartStore]
      /\ \A t \in Streams : t # s => View(t)' = View(t) /\ todo'[t] = todo[t]
  BY <1>1, ExecuteStep
<1>3. /\ UNCHANGED <<script, done, db, batch, alone, faults>> /\ woken' = woken \ {s}
      /\ pending' = [pending EXCEPT ![s] = pending'[s]]
      /\ todo' = [todo EXCEPT ![s] = todo'[s]]
  <2>1. /\ pending \in [Streams -> PartStore] /\ todo \in [Streams -> Seq(AnyStmt)]
    BY <1>1 DEF Types
  <2>2. \A t \in Streams : t # s => pending'[t] = pending[t]
    BY <2>1 DEF Execute
  <2>3. DOMAIN todo' = Streams /\ DOMAIN pending' = Streams
    BY <1>2, <2>1 DEF Execute
  <2>4. todo' = [t \in Streams |-> todo'[t]]
    BY <2>1 DEF Execute
  <2> QED BY <1>2, <2>1, <2>2, <2>3, <2>4 DEF Execute
<1>4. View(s) \in Store
  BY <1>1, ViewType
<1>5. AtWork(View(s), todo[s])
  BY DEF Inv
<1>6. AtWork(View(s)', todo'[s])
  BY <1>2, <1>4, <1>5, WorkStep
<1>7. todo'[s] \in Seq(AnyStmt)
  <2>1. PICK p, rest : rest \in Seq(TopLevel) /\ todo'[s] = p \o rest /\ Underway(View(s)', p)
    BY <1>6 DEF AtWork
  <2>2. p \in Seq(AnyStmt) /\ rest \in Seq(AnyStmt)
    BY <2>1, FormType, TopLevelType, SeqMonotonic
  <2> QED BY <2>1, <2>2, ConcatProperties
<1>8. Types'
  <2>1. todo' \in [Streams -> Seq(AnyStmt)] /\ woken' \subseteq Streams
    BY <1>1, <1>3, <1>7 DEF Types
  <2>2. \A t \in Streams : t # s => pending'[t] = pending[t] /\ todo'[t] = todo[t]
    BY <1>1, <1>3 DEF Types
  <2>3. batch[s] # 0
    BY <1>1, <1>2 DEF Types
  <2>4. \A t \in Streams : (batch[t] = 0 => pending[t] = Nothing /\ todo[t] = <<>>)'
    BY <1>1, <1>3, <2>2, <2>3 DEF Types
  <2>5. (NoNulls(db))' <=> NoNulls(db)
    BY <1>3 DEF NoNulls
  <2> QED BY <1>1, <1>2, <1>3, <2>1, <2>4, <2>5 DEF Types
<1>9. ASSUME NEW t \in Streams
      PROVE  AtWork(View(t), todo[t])'
  <2>1. CASE t = s
    BY <1>6, <2>1 DEF AtWork
  <2>2. CASE t # s
    <3>1. AtWork(View(t), todo[t]) /\ View(t)' = View(t) /\ todo'[t] = todo[t]
      BY <1>2, <2>2 DEF Inv
    <3> QED BY <3>1 DEF AtWork
  <2> QED BY <2>1, <2>2
<1> QED BY <1>8, <1>9 DEF Inv

\* A transaction ends, and leaves behind db.
LEMMA EndInv ==
  ASSUME Inv, NEW s \in Streams, End(s), db' \in Store, NoNulls(db)',
         \A t \in Streams : (done[t] + batch[t] <= Len(script[t]))',
         script' = script, done' \in [Streams -> Nat], alone' \in [Streams -> BOOLEAN],
         woken' \subseteq Streams, faults' \in 0..MaxFaults
  PROVE  Inv'
<1>1. /\ batch \in [Streams -> 0..BatchSize] /\ todo \in [Streams -> Seq(AnyStmt)]
      /\ pending \in [Streams -> PartStore] /\ script \in Scripts
      /\ \A t \in Streams : batch[t] = 0 => pending[t] = Nothing /\ todo[t] = <<>>
  BY DEF Inv, Types
<1>2. /\ batch' = [batch EXCEPT ![s] = 0] /\ pending' = [pending EXCEPT ![s] = Nothing]
      /\ todo' = [todo EXCEPT ![s] = <<>>]
  BY DEF End
<1>3. \A t \in Streams :
        /\ batch'[t] = IF t = s THEN 0 ELSE batch[t]
        /\ pending'[t] = IF t = s THEN Nothing ELSE pending[t]
        /\ todo'[t] = IF t = s THEN <<>> ELSE todo[t]
  BY <1>1, <1>2
<1>4. /\ batch' \in [Streams -> 0..BatchSize] /\ pending' \in [Streams -> PartStore]
      /\ todo' \in [Streams -> Seq(AnyStmt)]
  <2>1. 0 \in 0..BatchSize /\ <<>> \in Seq(AnyStmt)
    BY SessionAssumption
  <2> QED BY <1>1, <1>2, <2>1, NothingPart
<1>5. Types'
  <2>1. \A t \in Streams : (batch[t] = 0 => pending[t] = Nothing /\ todo[t] = <<>>)'
    BY <1>1, <1>3
  <2> QED BY <1>1, <1>4, <2>1 DEF Types
<1>6. ASSUME NEW t \in Streams
      PROVE  AtWork(View(t), todo[t])'
  <2>1. CASE t = s
    <3>1. \A m \in MangroveOrders : View(t)'[Order(m)] = db'[Order(m)]
      BY <1>3, <2>1, KeyTypes, NothingPart DEF View, Sees
    <3>2. NoNulls(View(t)')
      BY <3>1 DEF NoNulls
    <3>3. <<>> \in Seq(TopLevel)
      OBVIOUS
    <3>4. AtWork(View(t)', <<>>)
      BY <3>2, <3>3, WorkAhead
    <3> QED BY <1>3, <2>1, <3>4 DEF AtWork
  <2>2. CASE t # s
    <3>1. AtWork(View(t), todo[t]) /\ todo'[t] = todo[t] /\ pending'[t] = pending[t]
      BY <1>3, <2>2 DEF Inv
    <3>2. \A m \in MangroveOrders : View(t)'[Order(m)] = Null => View(t)[Order(m)] = Null
      BY <3>1, KeyTypes DEF View, Sees, NoNulls
    <3>3. AtWork(View(t)', todo[t])
      BY <3>1, <3>2, WorkKept
    <3> QED BY <3>1, <3>3 DEF AtWork
  <2> QED BY <2>1, <2>2
<1> QED BY <1>5, <1>6 DEF Inv

\* A transaction is rolled back.
LEMMA RollbackInv ==
  ASSUME Inv, NEW s \in Streams, End(s), UNCHANGED <<script, done, db, alone>>,
         woken' \subseteq Streams, faults' \in 0..MaxFaults
  PROVE  Inv'
<1>1. Types
  BY DEF Inv
<1>2. db' \in Store /\ NoNulls(db)'
  BY <1>1 DEF Types, NoNulls
<1>3. \A t \in Streams : (done[t] + batch[t] <= Len(script[t]))'
  <2>1. \A t \in Streams : batch'[t] = IF t = s THEN 0 ELSE batch[t]
    BY <1>1 DEF Types, End
  <2>2. ASSUME NEW t \in Streams
        PROVE  done'[t] + batch'[t] <= Len(script'[t])
    <3>1. done[t] \in Nat /\ batch[t] \in Nat /\ done[t] + batch[t] <= Len(script[t])
      BY <1>1, SessionAssumption DEF Types
    <3>2. script[t] \in Seq(Event)
      BY <1>1, ScriptAssumption DEF Types
    <3>3. Len(script[t]) \in Nat
      BY <3>2
    <3> QED BY <2>1, <3>1, <3>3
  <2> QED BY <2>2
<1>4. done' \in [Streams -> Nat] /\ alone' \in [Streams -> BOOLEAN]
  BY <1>1 DEF Types
<1> QED BY <1>2, <1>3, <1>4, EndInv

\* A commit keeps the invariant, and what its stream saw is what is committed.
LEMMA CommitInv ==
  ASSUME Inv, NEW s \in Streams, Commit(s)
  PROVE  Inv' /\ db' = View(s) /\ \A t \in Streams : done'[t] # done[t] => t = s
<1>1. Types /\ AtWork(View(s), todo[s])
  BY DEF Inv
<1>2. /\ batch[s] > 0 /\ todo[s] = <<>> /\ done' = [done EXCEPT ![s] = @ + batch[s]]
      /\ End(s) /\ alone' = [t \in Streams |-> t = s] /\ woken' = woken \ {s}
      /\ UNCHANGED <<script, faults>>
  BY DEF Commit
<1>3. db' = View(s)
  BY DEF Commit, View
<1>4. View(s) \in Store
  BY <1>1, ViewType
<1>5. NoNulls(View(s))
  BY <1>1, <1>2, WorkDone
<1>6. NoNulls(db)'
  BY <1>3, <1>5 DEF NoNulls
<1>7. \A t \in Streams : done'[t] = IF t = s THEN done[s] + batch[s] ELSE done[t]
  BY <1>1, <1>2 DEF Types
<1>8. \A t \in Streams : (done[t] + batch[t] <= Len(script[t]))'
  <2>1. \A t \in Streams : batch'[t] = IF t = s THEN 0 ELSE batch[t]
    BY <1>1, <1>2 DEF Types, End
  <2>2. ASSUME NEW t \in Streams
        PROVE  done'[t] + batch'[t] <= Len(script'[t])
    <3>1. done[t] \in Nat /\ batch[t] \in Nat /\ done[t] + batch[t] <= Len(script[t])
      BY <1>1, SessionAssumption DEF Types
    <3>2. script'[t] = script[t]
      BY <1>2
    <3> QED BY <1>7, <2>1, <3>1, <3>2
  <2> QED BY <2>2
<1>9. done' \in [Streams -> Nat]
  <2>1. done[s] \in Nat /\ batch[s] \in Nat /\ done[s] + batch[s] \in Nat
    BY <1>1, SessionAssumption DEF Types
  <2> QED BY <1>1, <1>2, <2>1 DEF Types
<1>10. alone' \in [Streams -> BOOLEAN] /\ woken' \subseteq Streams /\ faults' \in 0..MaxFaults
  BY <1>1, <1>2 DEF Types
<1>11. Inv'
  BY <1>2, <1>3, <1>4, <1>6, <1>8, <1>9, <1>10, EndInv
<1> QED BY <1>3, <1>7, <1>11

\* The steps that end a transaction without a commit.
Gives(s) == Throw(s) \/ Deadlock(s) \/ Fault(s)

\* A transaction that is rolled back leaves everything but itself as it was.
LEMMA GivesInv ==
  ASSUME Inv, NEW s \in Streams, Gives(s)
  PROVE  Inv' /\ UNCHANGED <<script, done, db, alone>> /\ End(s)
<1>1. woken \subseteq Streams /\ faults \in 0..MaxFaults
  BY DEF Inv, Types
<1>2. End(s) /\ UNCHANGED <<script, done, db, alone>>
  BY DEF Gives, Throw, Deadlock, Fault, Rollback
<1>3. woken' \subseteq Streams
  BY <1>1 DEF Gives, Throw, Deadlock, Fault, Rollback
<1>4. faults' \in 0..MaxFaults
  BY <1>1, SessionAssumption DEF Gives, Throw, Deadlock, Fault, Rollback
<1> QED BY <1>2, <1>3, <1>4, RollbackInv

\* The kinds of steps.
LEMMA StepCases ==
  ASSUME Next
  PROVE  \E s \in Streams : \/ \E n \in 1..BatchSize : Begin(s, n)
                            \/ Execute(s) \/ Commit(s) \/ Gives(s)
BY DEF Next, Step, Gives

\* Every step keeps the invariant.
LEMMA InvNext == Inv /\ [Next]_vars => Inv'
<1> SUFFICES ASSUME Inv, [Next]_vars
             PROVE  Inv'
  OBVIOUS
<1>1. CASE UNCHANGED vars
  <2>1. /\ script' = script /\ done' = done /\ db' = db /\ batch' = batch
        /\ pending' = pending /\ todo' = todo /\ alone' = alone /\ woken' = woken
        /\ faults' = faults
    BY <1>1 DEF vars
  <2>2. \A s \in Streams : View(s)' = View(s)
    BY <2>1 DEF View, Sees
  <2>3. (NoNulls(db))' <=> NoNulls(db)
    BY <2>1 DEF NoNulls
  <2>4. \A s \in Streams : AtWork(View(s), todo[s])' <=> AtWork(View(s), todo[s])
    BY <2>1, <2>2 DEF AtWork
  <2>5. Types'
    BY <2>1, <2>3 DEF Inv, Types
  <2> QED BY <2>4, <2>5 DEF Inv
<1>2. CASE Next
  BY <1>2, StepCases, BeginStep, ExecuteInv, CommitInv, GivesInv
<1> QED BY <1>1, <1>2

(***************************************************************************)
(* Rows are of their types, statements are about rows there are, and       *)
(* nothing is written outside of a transaction: a handler that finds a     *)
(* MangroveOrder finds the number of a version.                            *)
(***************************************************************************)
THEOREM SessionTypes == Spec => []TypeOK
<1>1. Init => Inv
  BY InvInit
<1>2. Inv /\ [Next]_vars => Inv'
  BY InvNext
<1>3. Inv => TypeOK
  BY InvTypeOK
<1> QED BY <1>1, <1>2, <1>3, PTL DEF Spec

-----------------------------------------------------------------------------
(***************************************************************************)
(* Rows whose versions are chained: of a MangroveOrder it is enough to     *)
(* know the number of its current version.                                 *)
(***************************************************************************)
Chains == [rows : SUBSET Keys, cur : [MangroveOrders -> Number \cup {Null}]]

OrderRow(n) == IF n = Null THEN NoRow ELSE n

\* The rows f have o for MangroveOrder m, and its versions up to v.
KeptAt(f, m, o, v) ==
  /\ f[Order(m)] = o
  /\ \A n \in Number : f[Version(m, n)] = IF n <= v THEN n - 1 ELSE NoRow

\* They are as c says, but for those of m.
HoldsBut(f, c, m) ==
  /\ \A k \in Keys : f[Row(k)] # NoRow <=> k \in c.rows
  /\ \A j \in MangroveOrders : j # m => KeptAt(f, j, OrderRow(c.cur[j]), c.cur[j])

Holds(f, c) ==
  /\ \A k \in Keys : f[Row(k)] # NoRow <=> k \in c.rows
  /\ \A j \in MangroveOrders : KeptAt(f, j, OrderRow(c.cur[j]), c.cur[j])

\* The rows g are f with w for key k.
Becomes(f, g, k, w) == g \in Store /\ \A j \in RowKey : g[j] = IF j = k THEN w ELSE f[j]

\* Replacing a row, as a relation.
LEMMA ExceptBecomes ==
  ASSUME NEW f \in Store, NEW k, NEW w \in Value \cup {NoRow}
  PROVE  Becomes(f, [f EXCEPT ![k] = w], k, w)
BY DEF Store, Becomes

\* Writing a row of one MangroveOrder leaves those of the others as they were.
LEMMA RowUpdates ==
  ASSUME NEW f \in Store, NEW g, NEW w, NEW c \in Chains, NEW m \in MangroveOrders,
         HoldsBut(f, c, m)
  PROVE  /\ Becomes(f, g, Order(m), w) =>
              /\ HoldsBut(g, c, m)
              /\ \A o, v : KeptAt(f, m, o, v) => KeptAt(g, m, w, v)
         /\ \A n \in Number : Becomes(f, g, Version(m, n), w) =>
              /\ HoldsBut(g, c, m)
              /\ \A o : w = n - 1 /\ KeptAt(f, m, o, n - 1) => KeptAt(g, m, o, n)
              /\ \A o : w = NoRow /\ KeptAt(f, m, o, n) => KeptAt(g, m, o, n - 1)
<1>1. /\ \A k \in Keys : Row(k) \in RowKey
      /\ \A j \in MangroveOrders : Order(j) \in RowKey
      /\ \A j \in MangroveOrders, n \in Number : Version(j, n) \in RowKey
  BY KeyTypes
<1>2. ASSUME Becomes(f, g, Order(m), w)
      PROVE  /\ HoldsBut(g, c, m)
             /\ \A o, v : KeptAt(f, m, o, v) => KeptAt(g, m, w, v)
  <2>1. \A j \in RowKey : g[j] = IF j = Order(m) THEN w ELSE f[j]
    BY <1>2 DEF Becomes
  <2>2. /\ \A k \in Keys : g[Row(k)] = f[Row(k)]
        /\ \A j \in MangroveOrders : j # m => g[Order(j)] = f[Order(j)]
        /\ \A j \in MangroveOrders, n \in Number : g[Version(j, n)] = f[Version(j, n)]
        /\ g[Order(m)] = w
    BY <1>1, <2>1, KeysDiffer
  <2> QED BY <2>2 DEF HoldsBut, KeptAt
<1>3. ASSUME NEW n \in Number, Becomes(f, g, Version(m, n), w)
      PROVE  /\ HoldsBut(g, c, m)
             /\ \A o : w = n - 1 /\ KeptAt(f, m, o, n - 1) => KeptAt(g, m, o, n)
             /\ \A o : w = NoRow /\ KeptAt(f, m, o, n) => KeptAt(g, m, o, n - 1)
  <2>1. \A j \in RowKey : g[j] = IF j = Version(m, n) THEN w ELSE f[j]
    BY <1>3 DEF Becomes
  <2>2. /\ \A k \in Keys : g[Row(k)] = f[Row(k)]
        /\ \A j \in MangroveOrders : g[Order(j)] = f[Order(j)]
        /\ \A j \in MangroveOrders, i \in Number : j # m => g[Version(j, i)] = f[Version(j, i)]
        /\ \A i \in Number : g[Version(m, i)] = IF i = n THEN w ELSE f[Version(m, i)]
    BY <1>1, <2>1, KeysDiffer
  <2>3. HoldsBut(g, c, m)
    BY <2>2 DEF HoldsBut, KeptAt
  <2>4. \A i \in Number : i \in Int
    BY Values
  <2>5. ASSUME NEW o, w = n - 1, KeptAt(f, m, o, n - 1)
        PROVE  KeptAt(g, m, o, n)
    BY <2>2, <2>4, <2>5 DEF KeptAt
  <2>6. ASSUME NEW o, w = NoRow, KeptAt(f, m, o, n)
        PROVE  KeptAt(g, m, o, n - 1)
    BY <2>2, <2>4, <2>6 DEF KeptAt
  <2> QED BY <2>3, <2>5, <2>6
<1> QED BY <1>2, <1>3

\* The rows of one MangroveOrder and those of the others, taken apart and together.
LEMMA HoldsParts ==
  ASSUME NEW f, NEW c \in Chains, NEW m \in MangroveOrders
  PROVE  /\ Holds(f, c) <=> HoldsBut(f, c, m) /\ KeptAt(f, m, OrderRow(c.cur[m]), c.cur[m])
         /\ \A e : /\ HoldsBut(f, c, m) /\ KeptAt(f, m, OrderRow(e.cur[m]), e.cur[m])
                   /\ e.rows = c.rows
                   /\ \A j \in MangroveOrders : j # m => e.cur[j] = c.cur[j]
                   => Holds(f, e)
BY DEF Holds, HoldsBut

-----------------------------------------------------------------------------
(***************************************************************************)
(* What the handler asks of one row, done without interruption.            *)
(***************************************************************************)

\* Statement x, with all that follows from it, turns c into e.
Moves(e, c, m, n) ==
  /\ e.rows = c.rows
  /\ \A j \in MangroveOrders : e.cur[j] = IF j = m THEN n ELSE c.cur[j]

RowDid(x, c, e) ==
  \E k \in Keys :
    /\ e.cur = c.cur
    /\ \/ x = Query("ensure", Row(k)) /\ e.rows = c.rows \cup {k}
       \/ x = Create(Row(k), Present) /\ k \notin c.rows /\ e.rows = c.rows \cup {k}
       \/ /\ x = Query("references", Row(k)) /\ e.rows = c.rows
          /\ \A m \in MangroveOrders : OrderOf[m] = k => c.cur[m] = Null
       \/ x = Query("delete", Row(k)) /\ k \in c.rows /\ e.rows = c.rows \ {k}

OrderDid(x, c, e) ==
  \E m \in MangroveOrders :
    LET n == c.cur[m] IN
    \/ x = Query("latest", Order(m)) /\ n # Null /\ Moves(e, c, m, n - 1)
    \/ x = Query("findMany", Order(m)) /\ Moves(e, c, m, IF n = Null THEN Null ELSE n - 1)
    \/ x = Query("findOrNew", Order(m)) /\ n + 1 \in Number /\ Moves(e, c, m, n + 1)
    \/ /\ x = Query("findFirst", Order(m)) /\ (n # Null => n + 1 \in Number)
       /\ Moves(e, c, m, IF n = Null THEN Null ELSE n + 1)

Did(x, c, e) == e \in Chains /\ (RowDid(x, c, e) \/ OrderDid(x, c, e))

\* It is p that is left of statement x, begun with c, when the rows are f.
Deleting(x, c, f, p, m) ==
  LET n == c.cur[m] IN
  /\ n \in Number /\ x \in {Query("findMany", Order(m)), Query("latest", Order(m))}
  /\ \/ /\ KeptAt(f, m, n, n)
        /\ p \in { << Query("latest", Order(m)) >>, << Query("version", Version(m, n)) >>,
                   DeleteLatestStmts(m, n, n - 1) }
     \/ /\ n # 0 /\ KeptAt(f, m, n - 1, n)
        /\ p \in { Delete(Version(m, n)), << Query("delete", Version(m, n)) >> }
     \/ /\ n = 0 /\ KeptAt(f, m, Null, 0)
        /\ p \in { << Query("references", Version(m, n)), Query("delete", Version(m, n)),
                      Query("references", Order(m)), Query("delete", Order(m)) >>,
                   << Query("delete", Version(m, n)),
                      Query("references", Order(m)), Query("delete", Order(m)) >> }
     \/ /\ n = 0 /\ KeptAt(f, m, Null, Null)
        /\ p \in { << Query("references", Order(m)), Query("delete", Order(m)) >>,
                   << Query("delete", Order(m)) >> }

Adding(x, c, f, p, m) ==
  LET n == c.cur[m] IN
  /\ x \in {Query("findFirst", Order(m)), Query("findOrNew", Order(m))}
  /\ n = Null => x = Query("findOrNew", Order(m))
  /\ \/ /\ n \in Number /\ KeptAt(f, m, n, n)
        /\ p \in { << Query("find", Order(m)) >>, << Stmt("current", Order(m), Null, n) >>,
                   << Stmt("oldVersion", Version(m, n), Null, n) >> }
     \/ /\ n + 1 \in Number /\ KeptAt(f, m, OrderRow(n), n)
        /\ p = AddVersionStmts(m, n + 1, n, IF n = Null THEN 0 ELSE n)
     \/ /\ n + 1 \in Number /\ KeptAt(f, m, n + 1, n)
        /\ p = << Create(Version(m, n + 1), n) >>

Doing(x, c, f, p) ==
  \/ \E k \in Keys : /\ x = Query("ensure", Row(k)) /\ Holds(f, c)
                     /\ p = << Create(Row(k), Present) >>
  \/ \E m \in MangroveOrders :
       HoldsBut(f, c, m) /\ (Deleting(x, c, f, p, m) \/ Adding(x, c, f, p, m))

\* It goes on, or is done.
Further(x, c, g, q) ==
  \/ Doing(x, c, g, q)
  \/ q = <<>> /\ \E e : Did(x, c, e) /\ Holds(g, e)

Continues(x, c, f, p) == \E q : \E g \in Store : Does(p, f, q, g) /\ Further(x, c, g, q)

\* The rows of m have come to version v.
LEMMA MovesTo ==
  ASSUME NEW g, NEW c \in Chains, NEW m \in MangroveOrders, NEW v \in Number \cup {Null},
         HoldsBut(g, c, m), KeptAt(g, m, OrderRow(v), v)
  PROVE  \E e \in Chains : Moves(e, c, m, v) /\ Holds(g, e)
<1> DEFINE e == [rows |-> c.rows, cur |-> [j \in MangroveOrders |-> IF j = m THEN v ELSE c.cur[j]]]
<1>1. e \in Chains /\ e.rows = c.rows /\ e.cur[m] = v
      /\ \A j \in MangroveOrders : e.cur[j] = IF j = m THEN v ELSE c.cur[j]
  BY DEF Chains
<1> HIDE DEF e
<1>2. Holds(g, e)
  <2>1. \A j \in MangroveOrders : j # m => e.cur[j] = c.cur[j]
    BY <1>1
  <2>2. KeptAt(g, m, OrderRow(e.cur[m]), e.cur[m])
    BY <1>1
  <2> QED BY <1>1, <2>1, <2>2, HoldsParts
<1>3. Moves(e, c, m, v)
  BY <1>1 DEF Moves
<1> QED BY <1>1, <1>2, <1>3

\* The next statement of a deletion.
LEMMA DeletingGoesOn ==
  ASSUME NEW f \in Store, NEW c \in Chains, NEW x, NEW p, NEW m \in MangroveOrders,
         HoldsBut(f, c, m), Deleting(x, c, f, p, m)
  PROVE  Continues(x, c, f, p)
<1> DEFINE n == c.cur[m]
           rv == Query("references", Version(m, n))
           dv == Query("delete", Version(m, n))
           ro == Query("references", Order(m))
           do == Query("delete", Order(m))
<1>1. /\ n \in Number /\ n \in Int /\ n - 1 \in Value /\ n - 1 \in Value \cup {NoRow}
      /\ (n = 0 <=> n - 1 = Null) /\ (n # 0 => n - 1 \in Number) /\ n # Null /\ 0 \in Number
      /\ x \in {Query("findMany", Order(m)), Query("latest", Order(m))}
  BY Values DEF Deleting
<1>2. ASSUME NEW q, NEW g \in Store, Does(p, f, q, g), HoldsBut(g, c, m), Deleting(x, c, g, q, m)
      PROVE  Continues(x, c, f, p)
  BY <1>2 DEF Continues, Further, Doing
<1>3. ASSUME NEW g \in Store, Does(p, f, <<>>, g), HoldsBut(g, c, m),
             KeptAt(g, m, OrderRow(n - 1), n - 1)
      PROVE  Continues(x, c, f, p)
  <2>1. n - 1 \in Number \cup {Null}
    BY <1>1
  <2>2. PICK e \in Chains : Moves(e, c, m, n - 1) /\ Holds(g, e)
    BY <1>3, <2>1, MovesTo
  <2>3. Did(x, c, e)
    BY <1>1, <2>2 DEF Did, OrderDid
  <2> QED BY <1>3, <2>2, <2>3 DEF Continues, Further
<1>4. CASE KeptAt(f, m, n, n) /\ p = << Query("latest", Order(m)) >>
  <2> DEFINE q == << Query("version", Version(m, n)) >>
  <2>1. f[Order(m)] = n
    BY <1>4 DEF KeptAt
  <2>2. Does(p, f, q, f)
    BY <1>1, <1>4, <2>1, SeekingDoes
  <2>3. Deleting(x, c, f, q, m)
    BY <1>1, <1>4 DEF Deleting
  <2> QED BY <1>2, <2>2, <2>3
<1>5. CASE KeptAt(f, m, n, n) /\ p = << Query("version", Version(m, n)) >>
  <2> DEFINE q == DeleteLatestStmts(m, n, n - 1)
  <2>1. f[Version(m, n)] = n - 1
    BY <1>1, <1>5 DEF KeptAt
  <2>2. Does(p, f, q, f)
    BY <1>1, <1>5, <2>1, SeekingDoes
  <2>3. Deleting(x, c, f, q, m)
    BY <1>1, <1>5 DEF Deleting
  <2> QED BY <1>2, <2>2, <2>3
<1>6. CASE KeptAt(f, m, n, n) /\ p = DeleteLatestStmts(m, n, n - 1)
  <2> DEFINE g == [f EXCEPT ![Order(m)] = n - 1]
  <2>1. Becomes(f, g, Order(m), n - 1)
    BY <1>1, ExceptBecomes
  <2>2. HoldsBut(g, c, m) /\ KeptAt(g, m, n - 1, n) /\ g \in Store
    <3>1. g \in Store
      BY <2>1 DEF Becomes
    <3> HIDE DEF g, n
    <3> QED BY <1>6, <2>1, <3>1, RowUpdates
  <2>3. CASE n # 0
    <3>1. Does(p, f, Delete(Version(m, n)), g)
      BY <1>1, <1>6, <2>3, WritingDoes
    <3>2. Deleting(x, c, g, Delete(Version(m, n)), m)
      BY <1>1, <2>2, <2>3 DEF Deleting
    <3> QED BY <1>2, <2>2, <3>1, <3>2
  <2>4. CASE n = 0
    <3>1. Does(p, f, << rv, dv, ro, do >>, g)
      BY <1>1, <1>6, <2>4, WritingDoes
    <3>2. KeptAt(g, m, Null, 0)
      <4> HIDE DEF g, n
      <4> QED BY <1>1, <2>2, <2>4
    <3>3. Deleting(x, c, g, << rv, dv, ro, do >>, m)
      BY <1>1, <2>4, <3>2 DEF Deleting
    <3> QED BY <1>2, <2>2, <3>1, <3>3
  <2> QED BY <2>3, <2>4
<1>7. CASE n # 0 /\ KeptAt(f, m, n - 1, n) /\ p = Delete(Version(m, n))
  <2> DEFINE q == << Query("delete", Version(m, n)) >>
  <2>1. Does(p, f, q, f)
    BY <1>7, DeletingDoes
  <2>2. Deleting(x, c, f, q, m)
    BY <1>1, <1>7 DEF Deleting
  <2> QED BY <1>2, <2>1, <2>2
<1> DEFINE h == [f EXCEPT ![Version(m, n)] = NoRow]
           k == [f EXCEPT ![Order(m)] = NoRow]
<1>8. Becomes(f, h, Version(m, n), NoRow) /\ Becomes(f, k, Order(m), NoRow)
  BY ExceptBecomes
<1>9. /\ h \in Store /\ HoldsBut(h, c, m) /\ (\A o : KeptAt(f, m, o, n) => KeptAt(h, m, o, n - 1))
      /\ k \in Store /\ HoldsBut(k, c, m) /\ (\A o, v : KeptAt(f, m, o, v) => KeptAt(k, m, NoRow, v))
  <2>1. h \in Store /\ k \in Store
    BY <1>8 DEF Becomes
  <2> HIDE DEF h, k, n
  <2>2. HoldsBut(h, c, m) /\ (\A o : KeptAt(f, m, o, n) => KeptAt(h, m, o, n - 1))
    BY <1>1, <1>8, RowUpdates
  <2>3. HoldsBut(k, c, m) /\ (\A o, v : KeptAt(f, m, o, v) => KeptAt(k, m, NoRow, v))
    BY <1>8, RowUpdates
  <2> QED BY <2>1, <2>2, <2>3
<1>10. CASE n # 0 /\ KeptAt(f, m, n - 1, n) /\ p = << Query("delete", Version(m, n)) >>
  <2>1. Does(p, f, <<>>, h)
    BY <1>10, DeletingDoes
  <2> HIDE DEF h
  <2>2. KeptAt(h, m, OrderRow(n - 1), n - 1)
    BY <1>1, <1>9, <1>10 DEF OrderRow
  <2> QED BY <1>3, <1>9, <2>1, <2>2
<1>11. CASE n = 0 /\ KeptAt(f, m, Null, 0) /\ p = << rv, dv, ro, do >>
  <2>1. Does(p, f, << dv, ro, do >>, f)
    BY <1>11, DeletingDoes
  <2>2. Deleting(x, c, f, << dv, ro, do >>, m)
    BY <1>1, <1>11 DEF Deleting
  <2> QED BY <1>2, <2>1, <2>2
<1>12. CASE n = 0 /\ KeptAt(f, m, Null, 0) /\ p = << dv, ro, do >>
  <2>1. Does(p, f, << ro, do >>, h)
    BY <1>12, DeletingDoes
  <2> HIDE DEF h
  <2>2. KeptAt(h, m, Null, Null)
    <3>1. KeptAt(f, m, Null, n)
      BY <1>12
    <3>2. KeptAt(h, m, Null, n - 1)
      BY <1>9, <3>1
    <3> QED BY <1>1, <1>12, <3>2
  <2>3. Deleting(x, c, h, << ro, do >>, m)
    BY <1>1, <1>12, <2>2 DEF Deleting
  <2> QED BY <1>2, <1>9, <2>1, <2>3
<1>13. CASE n = 0 /\ KeptAt(f, m, Null, Null) /\ p = << ro, do >>
  <2>1. Does(p, f, << do >>, f)
    BY <1>13, DeletingDoes DEF Delete
  <2>2. Deleting(x, c, f, << do >>, m)
    BY <1>1, <1>13 DEF Deleting
  <2> QED BY <1>2, <2>1, <2>2
<1>14. CASE n = 0 /\ KeptAt(f, m, Null, Null) /\ p = << do >>
  <2>1. Does(p, f, <<>>, k)
    BY <1>14, DeletingDoes
  <2> HIDE DEF k
  <2>2. KeptAt(k, m, NoRow, Null)
    BY <1>9, <1>14
  <2>3. KeptAt(k, m, OrderRow(n - 1), n - 1)
    BY <1>1, <1>14, <2>2 DEF OrderRow
  <2> QED BY <1>3, <1>9, <2>1, <2>3
<1> QED BY <1>4, <1>5, <1>6, <1>7, <1>10, <1>11, <1>12, <1>13, <1>14 DEF Deleting

\* The next statement of an addition.
LEMMA AddingGoesOn ==
  ASSUME NEW f \in Store, NEW c \in Chains, NEW x, NEW p, NEW m \in MangroveOrders,
         HoldsBut(f, c, m), Adding(x, c, f, p, m), Goes(Head(p), f)
  PROVE  Continues(x, c, f, p)
<1> DEFINE n == c.cur[m]
           old == IF n = Null THEN 0 ELSE n
<1>1. /\ n \in Number \cup {Null} /\ n \in Int /\ n \in Value /\ 0 \in Number /\ Null = -1
      /\ (n = Null => n + 1 = 0) /\ old \in Number /\ NoRow # n /\ NoRow \notin Number
      /\ n + 1 # Null /\ n + 1 - 1 = n
      /\ x \in {Query("findFirst", Order(m)), Query("findOrNew", Order(m))}
      /\ (n = Null => x = Query("findOrNew", Order(m)))
  <2>1. n \in Number \cup {Null}
    BY DEF Chains
  <2>2. /\ x \in {Query("findFirst", Order(m)), Query("findOrNew", Order(m))}
        /\ (n = Null => x = Query("findOrNew", Order(m)))
    BY DEF Adding
  <2> HIDE DEF n
  <2>3. /\ n \in Int /\ n \in Value /\ 0 \in Number /\ Null = -1 /\ NoRow # n /\ NoRow \notin Number
    BY <2>1, Values
  <2>4. \A i \in Number : i \in Nat
    BY Values
  <2> QED BY <2>1, <2>2, <2>3, <2>4
<1>2. ASSUME NEW q, NEW g \in Store, Does(p, f, q, g), HoldsBut(g, c, m), Adding(x, c, g, q, m)
      PROVE  Continues(x, c, f, p)
  BY <1>2 DEF Continues, Further, Doing
<1>3. CASE n \in Number /\ KeptAt(f, m, n, n) /\ p = << Query("find", Order(m)) >>
  <2> DEFINE q == << Stmt("current", Order(m), Null, n) >>
  <2>1. f[Order(m)] = n
    BY <1>3 DEF KeptAt
  <2>2. Does(p, f, q, f)
    BY <1>1, <1>3, <2>1, SeekingDoes
  <2>3. Adding(x, c, f, q, m)
    BY <1>1, <1>3 DEF Adding
  <2> QED BY <1>2, <2>2, <2>3
<1>4. CASE n \in Number /\ KeptAt(f, m, n, n) /\ p = << Stmt("current", Order(m), Null, n) >>
  <2> DEFINE q == << Stmt("oldVersion", Version(m, n), Null, n) >>
  <2>1. f[Order(m)] = n
    BY <1>4 DEF KeptAt
  <2>2. Does(p, f, q, f)
    BY <1>1, <1>4, <2>1, SeekingDoes
  <2>3. Adding(x, c, f, q, m)
    BY <1>1, <1>4 DEF Adding
  <2> QED BY <1>2, <2>2, <2>3
<1>5. CASE n \in Number /\ KeptAt(f, m, n, n) /\ p = << Stmt("oldVersion", Version(m, n), Null, n) >>
  <2> DEFINE q == AddVersionStmts(m, n + 1, n, n)
  <2>1. Does(p, f, q, f)
    BY <1>1, <1>5, SeekingDoes
  <2>2. n + 1 \in Number
    <3>1. Head(p) = Stmt("oldVersion", Version(m, n), Null, n)
      BY <1>5, Heads
    <3>2. Goes(Stmt("oldVersion", Version(m, n), Null, n), f)
      BY <3>1
    <3> HIDE DEF n
    <3>3. Version(m, n)[3] + 1 \in Number
      BY <3>2, GoesEach
    <3> QED BY <3>3, KeyParts
  <2>3. n # Null /\ OrderRow(n) = n
    BY <1>5, Values DEF OrderRow
  <2>4. Adding(x, c, f, q, m)
    BY <1>1, <1>5, <2>2, <2>3 DEF Adding
  <2> QED BY <1>2, <2>1, <2>4
<1>6. CASE n + 1 \in Number /\ KeptAt(f, m, OrderRow(n), n) /\ p = AddVersionStmts(m, n + 1, n, old)
  <2> DEFINE q == << Create(Version(m, n + 1), n) >>
             g == [f EXCEPT ![Order(m)] = n + 1]
  <2>1. (IF f[Order(m)] = NoRow THEN old ELSE n + 1) = n + 1
    <3>1. f[Order(m)] = OrderRow(n)
      BY <1>6 DEF KeptAt
    <3> QED BY <1>1, <3>1 DEF OrderRow
  <2>2. Does(p, f, q, g)
    <3>1. Does(AddVersionStmts(m, n + 1, n, old), f, << Create(Version(m, n + 1), n) >>,
               [f EXCEPT ![Order(m)] = IF f[Order(m)] = NoRow THEN old ELSE n + 1])
      <4> HIDE DEF n, old
      <4> QED BY <1>1, <1>6, WritingDoes
    <3> QED BY <1>6, <2>1, <3>1
  <2>3. Becomes(f, g, Order(m), n + 1)
    <3>1. n + 1 \in Value \cup {NoRow}
      BY <1>6, Values
    <3> QED BY <3>1, ExceptBecomes
  <2>4. HoldsBut(g, c, m) /\ KeptAt(g, m, n + 1, n) /\ g \in Store
    <3>1. g \in Store
      BY <2>3 DEF Becomes
    <3> HIDE DEF g, n
    <3> QED BY <1>6, <2>3, <3>1, RowUpdates
  <2>5. Adding(x, c, g, q, m)
    BY <1>1, <1>6, <2>4 DEF Adding
  <2> QED BY <1>2, <2>2, <2>4, <2>5
<1>7. CASE n + 1 \in Number /\ KeptAt(f, m, n + 1, n) /\ p = << Create(Version(m, n + 1), n) >>
  <2> DEFINE g == [f EXCEPT ![Version(m, n + 1)] = n]
  <2>1. Does(p, f, <<>>, g)
    BY <1>1, <1>7, WritingDoes
  <2>2. Becomes(f, g, Version(m, n + 1), n)
    <3>1. n \in Value \cup {NoRow}
      BY <1>1
    <3> QED BY <3>1, ExceptBecomes
  <2>3. HoldsBut(g, c, m) /\ KeptAt(g, m, n + 1, n + 1) /\ g \in Store
    <3>1. g \in Store
      BY <2>2 DEF Becomes
    <3> DEFINE i == n + 1
    <3>2. i \in Number /\ KeptAt(f, m, i, i - 1) /\ n = i - 1 /\ Becomes(f, g, Version(m, i), n)
      BY <1>1, <1>7, <2>2
    <3> HIDE DEF g, i
    <3>3. HoldsBut(g, c, m) /\ KeptAt(g, m, i, i)
      BY <3>2, RowUpdates
    <3> QED BY <3>1, <3>3 DEF i
  <2> HIDE DEF g
  <2>4. KeptAt(g, m, OrderRow(n + 1), n + 1) /\ n + 1 \in Number \cup {Null}
    BY <1>1, <1>7, <2>3 DEF OrderRow
  <2>5. PICK e \in Chains : Moves(e, c, m, n + 1) /\ Holds(g, e)
    BY <2>3, <2>4, MovesTo
  <2>6. Did(x, c, e)
    BY <1>1, <1>7, <2>5 DEF Did, OrderDid
  <2> QED BY <2>1, <2>3, <2>5, <2>6 DEF Continues, Further
<1> QED BY <1>3, <1>4, <1>5, <1>6, <1>7 DEF Adding

\* A row is created or deleted.
LEMMA RowMoves ==
  ASSUME NEW f \in Store, NEW g, NEW c \in Chains, Holds(f, c), NEW k \in Keys, NEW w,
         Becomes(f, g, Row(k), w), NEW e \in Chains, e.cur = c.cur,
         \A j \in Keys : j \in e.rows <=> IF j = k THEN w # NoRow ELSE j \in c.rows
  PROVE  Holds(g, e)
<1>1. \A j \in RowKey : g[j] = IF j = Row(k) THEN w ELSE f[j]
  BY DEF Becomes
<1>2. /\ \A j \in Keys : g[Row(j)] = IF j = k THEN w ELSE f[Row(j)]
      /\ \A j \in MangroveOrders : g[Order(j)] = f[Order(j)]
      /\ \A j \in MangroveOrders, n \in Number : g[Version(j, n)] = f[Version(j, n)]
  BY <1>1, KeysDiffer, KeyTypes
<1>3. \A j \in Keys : g[Row(j)] # NoRow <=> j \in e.rows
  BY <1>2 DEF Holds
<1>4. \A j \in MangroveOrders : KeptAt(g, j, OrderRow(e.cur[j]), e.cur[j])
  BY <1>2 DEF Holds, KeptAt
<1> QED BY <1>3, <1>4 DEF Holds

With(e, c, k) == e.cur = c.cur /\ e.rows = c.rows \cup {k}

\* A row that is created is described like the rest.
LEMMA RowCreated ==
  ASSUME NEW f \in Store, NEW g, NEW c \in Chains, Holds(f, c), NEW k \in Keys,
         Becomes(f, g, Row(k), Present)
  PROVE  \E e \in Chains : Holds(g, e) /\ With(e, c, k)
<1> DEFINE e == [rows |-> c.rows \cup {k}, cur |-> c.cur]
<1>1. e \in Chains /\ e.rows = c.rows \cup {k} /\ e.cur = c.cur
  BY DEF Chains
<1> HIDE DEF e
<1>2. \A j \in Keys : j \in e.rows <=> IF j = k THEN Present # NoRow ELSE j \in c.rows
  BY <1>1, Values
<1>3. Holds(g, e)
  BY <1>1, <1>2, RowMoves
<1> QED BY <1>1, <1>3 DEF With

\* So are the rows without one that is deleted.
LEMMA RowDeleted ==
  ASSUME NEW f \in Store, NEW g, NEW c \in Chains, Holds(f, c), NEW k \in Keys,
         Becomes(f, g, Row(k), NoRow)
  PROVE  \E e \in Chains : Holds(g, e) /\ e.cur = c.cur /\ e.rows = c.rows \ {k}
<1> DEFINE e == [rows |-> c.rows \ {k}, cur |-> c.cur]
<1>1. e \in Chains /\ e.rows = c.rows \ {k} /\ e.cur = c.cur
  BY DEF Chains
<1> HIDE DEF e
<1>2. \A j \in Keys : j \in e.rows <=> IF j = k THEN NoRow # NoRow ELSE j \in c.rows
  BY <1>1
<1>3. Holds(g, e)
  BY <1>1, <1>2, RowMoves
<1> QED BY <1>1, <1>3

\* The first statement of what is asked of a row.
LEMMA RowStarts ==
  ASSUME NEW f \in Store, NEW c \in Chains, Holds(f, c), NEW k \in Keys,
         NEW x \in {Query("ensure", Row(k)), Create(Row(k), Present),
                    Query("references", Row(k)), Query("delete", Row(k))}, Goes(x, f)
  PROVE  Continues(x, c, f, << x >>)
<1>1. f[Row(k)] # NoRow <=> k \in c.rows
  BY DEF Holds
<1>2. Present \in Value \cup {NoRow} /\ Present # NoRow
  BY Values
<1>3. ASSUME NEW g \in Store, Does(<< x >>, f, <<>>, g), NEW e, Did(x, c, e), Holds(g, e)
      PROVE  Continues(x, c, f, << x >>)
  BY <1>3 DEF Continues, Further
<1>4. CASE x = Query("ensure", Row(k))
  <2>1. CASE f[Row(k)] = NoRow
    <3>1. Does(<< x >>, f, << Create(Row(k), Present) >>, f)
      BY <1>4, <2>1, TopLevelDoes
    <3>2. Doing(x, c, f, << Create(Row(k), Present) >>)
      BY <1>4 DEF Doing
    <3> QED BY <3>1, <3>2 DEF Continues, Further
  <2>2. CASE f[Row(k)] # NoRow
    <3>1. Does(<< x >>, f, <<>>, f)
      BY <1>4, <2>2, TopLevelDoes
    <3>2. Did(x, c, c)
      BY <1>1, <1>4, <2>2 DEF Did, RowDid
    <3> QED BY <1>3, <3>1, <3>2
  <2> QED BY <2>1, <2>2
<1>5. CASE x = Create(Row(k), Present)
  <2> DEFINE g == [f EXCEPT ![Row(k)] = Present]
  <2>1. Does(<< x >>, f, <<>>, g)
    BY <1>5, TopLevelDoes
  <2>2. Becomes(f, g, Row(k), Present)
    BY <1>2, ExceptBecomes
  <2> HIDE DEF g
  <2>3. PICK e \in Chains : Holds(g, e) /\ With(e, c, k)
    BY <2>2, RowCreated
  <2>4. k \notin c.rows
    BY <1>1, <1>5, GoesEach
  <2>5. Did(x, c, e)
    BY <1>5, <2>3, <2>4 DEF Did, RowDid, With
  <2> QED BY <1>3, <2>1, <2>2, <2>3, <2>5 DEF Becomes
<1>6. CASE x = Query("references", Row(k))
  <2>1. Does(<< x >>, f, <<>>, f)
    BY <1>6, DeletingDoes
  <2>2. ASSUME NEW m \in MangroveOrders, OrderOf[m] = k
        PROVE  c.cur[m] = Null
    <3>1. x.op = "references" /\ x.key = Row(k)
      BY <1>6, StmtFields DEF Query
    <3>2. f[Order(m)] = NoRow
      BY <2>2, <3>1, KeyParts DEF Goes
    <3>3. f[Order(m)] = OrderRow(c.cur[m]) /\ c.cur[m] \in Number \cup {Null}
      BY DEF Holds, KeptAt, Chains
    <3> QED BY <3>2, <3>3, Values DEF OrderRow
  <2>3. Did(x, c, c)
    BY <1>6, <2>2 DEF Did, RowDid
  <2> QED BY <1>3, <2>1, <2>3
<1>7. CASE x = Query("delete", Row(k))
  <2> DEFINE g == [f EXCEPT ![Row(k)] = NoRow]
  <2>1. Does(<< x >>, f, <<>>, g)
    BY <1>7, DeletingDoes
  <2>2. Becomes(f, g, Row(k), NoRow)
    BY ExceptBecomes
  <2> HIDE DEF g
  <2>3. PICK e \in Chains : Holds(g, e) /\ e.cur = c.cur /\ e.rows = c.rows \ {k}
    BY <2>2, RowDeleted
  <2>4. k \in c.rows
    <3>1. "delete" \in Requires
      BY DEF Requires
    <3> QED BY <1>1, <1>7, <3>1, GoesEach
  <2>5. Did(x, c, e)
    BY <1>7, <2>3, <2>4 DEF Did, RowDid
  <2> QED BY <1>3, <2>1, <2>2, <2>3, <2>5 DEF Becomes
<1> QED BY <1>4, <1>5, <1>6, <1>7

\* The row that was missing is created.
LEMMA EnsuringGoesOn ==
  ASSUME NEW f \in Store, NEW c \in Chains, Holds(f, c), NEW k \in Keys
  PROVE  Continues(Query("ensure", Row(k)), c, f, << Create(Row(k), Present) >>)
<1> DEFINE g == [f EXCEPT ![Row(k)] = Present]
           x == Query("ensure", Row(k))
<1>1. Present \in Value \cup {NoRow} /\ Present # NoRow
  BY Values
<1>2. Does(<< Create(Row(k), Present) >>, f, <<>>, g)
  BY TopLevelDoes
<1>3. Becomes(f, g, Row(k), Present)
  BY <1>1, ExceptBecomes
<1> HIDE DEF g
<1>4. PICK e \in Chains : Holds(g, e) /\ With(e, c, k)
  BY <1>3, RowCreated
<1>5. Did(x, c, e)
  BY <1>4 DEF Did, RowDid, With
<1> QED BY <1>2, <1>3, <1>4, <1>5 DEF Continues, Further, Becomes

\* The first statement of what is asked of a MangroveOrder.
LEMMA OrderStarts ==
  ASSUME NEW f \in Store, NEW c \in Chains, Holds(f, c), NEW m \in MangroveOrders,
         NEW op \in OrderOps, Goes(Query(op, Order(m)), f)
  PROVE  Continues(Query(op, Order(m)), c, f, << Query(op, Order(m)) >>)
<1> DEFINE n == c.cur[m]
           x == Query(op, Order(m))
<1>1. n \in Number \cup {Null}
  BY DEF Chains
<1>2. HoldsBut(f, c, m) /\ KeptAt(f, m, OrderRow(n), n) /\ f[Order(m)] = OrderRow(n)
  <2>1. HoldsBut(f, c, m) /\ KeptAt(f, m, OrderRow(n), n)
    BY HoldsParts
  <2> QED BY <2>1 DEF KeptAt
<1>3. n # Null => n \in Number /\ OrderRow(n) = n /\ OrderRow(n) # NoRow
  BY <1>1, Values DEF OrderRow
<1>4. n = Null => OrderRow(n) = NoRow /\ n + 1 = 0
  BY Values DEF OrderRow
<1>5. 0 \in Number
  BY Values
<1>6. Moves(c, c, m, n)
  BY DEF Moves
<1>7. ASSUME NEW q, Does(<< x >>, f, q, f), Deleting(x, c, f, q, m) \/ Adding(x, c, f, q, m)
      PROVE  Continues(x, c, f, << x >>)
  BY <1>2, <1>7 DEF Continues, Further, Doing
<1>8. CASE op = "latest"
  <2>1. "latest" \in Requires
    BY DEF Requires
  <2>2. n # Null
    BY <1>2, <1>4, <1>8, <2>1, GoesEach
  <2>3. Deleting(x, c, f, << x >>, m)
    BY <1>2, <1>3, <1>8, <2>2 DEF Deleting
  <2> QED BY <1>2, <2>3, DeletingGoesOn
<1>9. CASE op = "findMany"
  <2>1. CASE n = Null
    <3>1. Does(<< x >>, f, <<>>, f)
      BY <1>2, <1>4, <1>9, <2>1, TopLevelDoes
    <3>2. Did(x, c, c)
      BY <1>6, <1>9, <2>1 DEF Did, OrderDid
    <3> QED BY <3>1, <3>2 DEF Continues, Further
  <2>2. CASE n # Null
    <3>1. Does(<< x >>, f, << Query("latest", Order(m)) >>, f)
      BY <1>2, <1>3, <1>9, <2>2, TopLevelDoes
    <3>2. Deleting(x, c, f, << Query("latest", Order(m)) >>, m)
      BY <1>2, <1>3, <1>9, <2>2 DEF Deleting
    <3> QED BY <1>7, <3>1, <3>2
  <2> QED BY <2>1, <2>2
<1>10. CASE op = "findFirst"
  <2>1. CASE n = Null
    <3>1. Does(<< x >>, f, <<>>, f)
      BY <1>2, <1>4, <1>10, <2>1, TopLevelDoes
    <3>2. Did(x, c, c)
      BY <1>6, <1>10, <2>1 DEF Did, OrderDid
    <3> QED BY <3>1, <3>2 DEF Continues, Further
  <2>2. CASE n # Null
    <3>1. Does(<< x >>, f, << Query("find", Order(m)) >>, f)
      BY <1>2, <1>3, <1>10, <2>2, TopLevelDoes
    <3>2. Adding(x, c, f, << Query("find", Order(m)) >>, m)
      BY <1>2, <1>3, <1>10, <2>2 DEF Adding
    <3> QED BY <1>7, <3>1, <3>2
  <2> QED BY <2>1, <2>2
<1>11. CASE op = "findOrNew"
  <2>1. CASE n = Null
    <3> DEFINE q == AddVersionStmts(m, 0, Null, 0)
    <3>1. Does(<< x >>, f, q, f)
      BY <1>2, <1>4, <1>11, <2>1, TopLevelDoes
    <3>2. q = AddVersionStmts(m, n + 1, n, IF n = Null THEN 0 ELSE n)
      BY <1>4, <2>1
    <3>3. Adding(x, c, f, q, m)
      <4> HIDE DEF q
      <4> QED BY <1>2, <1>4, <1>5, <1>11, <2>1, <3>2 DEF Adding
    <3> QED BY <1>7, <3>1, <3>3
  <2>2. CASE n # Null
    <3>1. Does(<< x >>, f, << Stmt("current", Order(m), Null, n) >>, f)
      BY <1>2, <1>3, <1>11, <2>2, TopLevelDoes
    <3>2. Adding(x, c, f, << Stmt("current", Order(m), Null, n) >>, m)
      BY <1>2, <1>3, <1>11, <2>2 DEF Adding
    <3> QED BY <1>7, <3>1, <3>2
  <2> QED BY <2>1, <2>2
<1> QED BY <1>8, <1>9, <1>10, <1>11 DEF OrderOps

\* The first statement of what an event is handled with.
LEMMA DoStart ==
  ASSUME NEW f \in Store, NEW c \in Chains, Holds(f, c), NEW x \in TopLevel, Goes(x, f)
  PROVE  Continues(x, c, f, << x >>)
<1>1. CASE \E k \in Keys : x \in {Query("ensure", Row(k)), Create(Row(k), Present),
                                  Query("references", Row(k)), Query("delete", Row(k))}
  BY <1>1, RowStarts
<1>2. CASE \E op \in OrderOps, m \in MangroveOrders : x = Query(op, Order(m))
  BY <1>2, OrderStarts
<1> QED BY <1>1, <1>2 DEF TopLevel, RowOps

\* The next statement of what is begun.
LEMMA DoMore ==
  ASSUME NEW f \in Store, NEW c \in Chains, NEW x, NEW p, Doing(x, c, f, p), Goes(Head(p), f)
  PROVE  Continues(x, c, f, p)
<1>1. CASE \E k \in Keys : /\ x = Query("ensure", Row(k)) /\ Holds(f, c)
                           /\ p = << Create(Row(k), Present) >>
  BY <1>1, EnsuringGoesOn
<1>2. CASE \E m \in MangroveOrders :
             HoldsBut(f, c, m) /\ (Deleting(x, c, f, p, m) \/ Adding(x, c, f, p, m))
  BY <1>2, DeletingGoesOn, AddingGoesOn
<1> QED BY <1>1, <1>2 DEF Doing

\* What is begun is a sequence that is not empty.
LEMMA DoingType ==
  ASSUME NEW c \in Chains, NEW f, NEW x, NEW p, Doing(x, c, f, p)
  PROVE  p # <<>> /\ p \in Seq(AnyStmt)
<1> DEFINE z == [k \in RowKey |-> 0]
<1>1. /\ 0 \in Number /\ \A m \in MangroveOrders : z[Order(m)] # Null
      /\ \A m \in MangroveOrders : c.cur[m] \in Number \cup {Null}
  BY Values, KeyTypes DEF Chains
<1>2. NoNulls(z)
  BY <1>1 DEF NoNulls
<1> HIDE DEF z
<1>3. (\E m \in MangroveOrders, n \in Number, old \in Number, v \in Value :
         p \in Seeking(m, n, old) \cup Writing(m, n, old, v)) => Plain(p)
  BY DEF Plain
<1>4. (\E m \in MangroveOrders, n \in Number : p \in Ending(m, n)) => Underway(z, p)
  BY <1>1 DEF Underway
<1>5. ASSUME NEW k \in Keys, p = << Create(Row(k), Present) >>
      PROVE  Plain(p) /\ p # <<>>
  <2>1. Create(Row(k), Present) \in TopLevel
    BY DEF TopLevel
  <2> QED BY <1>5, <2>1 DEF Plain
<1>6. ASSUME NEW m \in MangroveOrders, Deleting(x, c, f, p, m)
      PROVE  (Plain(p) \/ Underway(z, p)) /\ p # <<>>
  <2> DEFINE n == c.cur[m]
             v == n - 1
  <2>1. n \in Number
    BY <1>6 DEF Deleting
  <2>2. v \in Value
    <3> HIDE DEF n
    <3> QED BY <2>1, Values
  <2>3. DeleteLatestStmts(m, n, v) # <<>>
    <3>1. \A a, b, d, e, g : << a, b, d, e, g >> # <<>> /\ << a, b, d >> # <<>>
      OBVIOUS
    <3> HIDE DEF n, v
    <3> QED BY <2>1, <2>2, <3>1, DeleteLatestLiteral
  <2>4. Delete(Version(m, n)) # <<>>
    BY DEF Delete
  <2>5. p \in Seeking(m, n, n) \cup Writing(m, n, n, v) \cup Ending(m, n)
    BY <1>6 DEF Deleting, Seeking, Writing, Ending
  <2>6. p # <<>>
    <3>1. \A y : y \in Seeking(m, n, n) \cup Ending(m, n) => y # <<>>
      <4>1. \A a, b, d, e : /\ << a >> # <<>> /\ << a, b >> # <<>>
                            /\ << a, b, d >> # <<>> /\ << a, b, d, e >> # <<>>
        OBVIOUS
      <4> HIDE DEF n, v
      <4>2. \A y \in Seeking(m, n, n) : y # <<>>
        <5>1. \A y \in Seeking(m, n, n) : \E a : y = << a >>
          BY Zenon DEF Seeking
        <5> QED BY <4>1, <5>1
      <4>3. \A y \in Ending(m, n) :
              \/ \E a : y = << a >>
              \/ \E a, b : y = << a, b >>
              \/ \E a, b, d : y = << a, b, d >>
              \/ \E a, b, d, e : y = << a, b, d, e >>
        BY Zenon DEF Ending
      <4>4. \A y \in Ending(m, n) : y # <<>>
        BY <4>1, <4>3
      <4> QED BY <4>2, <4>4
    <3>2. p \in {DeleteLatestStmts(m, n, v), Delete(Version(m, n)), << Query("delete", Version(m, n)) >>}
            \/ p \in Seeking(m, n, n) \cup Ending(m, n)
      <4>1. \/ p \in { << Query("latest", Order(m)) >>, << Query("version", Version(m, n)) >>,
                       DeleteLatestStmts(m, n, v) }
            \/ p \in { Delete(Version(m, n)), << Query("delete", Version(m, n)) >> }
            \/ p \in Ending(m, n)
        BY <1>6, SMTT(60) DEF Deleting, Ending
      <4> HIDE DEF n, v
      <4>2. /\ << Query("latest", Order(m)) >> \in Seeking(m, n, n)
            /\ << Query("version", Version(m, n)) >> \in Seeking(m, n, n)
        BY DEF Seeking
      <4> QED BY <4>1, <4>2
    <3>3. << Query("delete", Version(m, n)) >> # <<>>
      OBVIOUS
    <3> QED BY <2>3, <2>4, <3>1, <3>2, <3>3
  <2> HIDE DEF n, v
  <2> QED BY <1>3, <1>4, <2>1, <2>2, <2>5, <2>6
<1>7. ASSUME NEW m \in MangroveOrders, Adding(x, c, f, p, m)
      PROVE  Plain(p) /\ p # <<>>
  <2> DEFINE n == c.cur[m]
             old == IF n = Null THEN 0 ELSE n
  <2>1. n \in Number \cup {Null} /\ n \in Value /\ old \in Number
    <3>1. n \in Number \cup {Null}
      BY <1>1
    <3> QED BY <1>1, <3>1, Values
  <2>2. \/ n \in Number /\ p \in Seeking(m, n, n)
        \/ n + 1 \in Number /\ p \in Writing(m, n + 1, old, n)
    BY <1>7 DEF Adding, Seeking, Writing
  <2>3. p # <<>>
    <3>1. /\ << Query("find", Order(m)) >> # <<>> /\ << Stmt("current", Order(m), Null, n) >> # <<>>
          /\ << Stmt("oldVersion", Version(m, n), Null, n) >> # <<>>
          /\ << Create(Version(m, n + 1), n) >> # <<>>
      OBVIOUS
    <3>2. AddVersionStmts(m, n + 1, n, old) # <<>>
      BY DEF AddVersionStmts
    <3> QED BY <1>7, <3>1, <3>2 DEF Adding
  <2> HIDE DEF n, old
  <2> QED BY <1>3, <2>1, <2>2, <2>3
<1>8. (Plain(p) \/ Underway(z, p)) /\ p # <<>>
  BY <1>5, <1>6, <1>7 DEF Doing
<1> QED BY <1>2, <1>8, FormType DEF Underway

-----------------------------------------------------------------------------
(***************************************************************************)
(* A transaction that begins with the rows d, is to do w, and sees f with  *)
(* t left: the first a statements of w are done one after another, and the *)
(* next may be begun.                                                      *)
(***************************************************************************)
IsRun(d, w, a, C) ==
  /\ C \in [0..a -> Chains] /\ Holds(d, C[0])
  /\ \A i \in 1..a : Did(w[i], C[i - 1], C[i])

Left(w, a) == SubSeq(w, a + 1, Len(w))

InOrder(w, a, C, f, t) ==
  \/ Holds(f, C[a]) /\ t = Left(w, a)
  \/ /\ a + 1 \in 1..Len(w)
     /\ \E p : Doing(w[a + 1], C[a], f, p) /\ Joins(t, p, Left(w, a + 1))

Reached(d, w, f, t) ==
  \E a \in 0..Len(w) : \E C : IsRun(d, w, a, C) /\ InOrder(w, a, C, f, t)

\* What goes on from the next item is again an initial part of all.
LEMMA ReachedOn ==
  ASSUME NEW d, NEW w \in Seq(TopLevel), NEW a \in Nat, a + 1 \in 1..Len(w),
         NEW C, IsRun(d, w, a, C), NEW q, NEW g, Further(w[a + 1], C[a], g, q),
         NEW t, Joins(t, q, Left(w, a + 1))
  PROVE  Reached(d, w, g, t)
<1>1. a \in 0..Len(w) /\ a + 1 \in 0..Len(w) /\ Len(w) \in Nat
  OBVIOUS
<1>2. CASE Doing(w[a + 1], C[a], g, q)
  <2>1. InOrder(w, a, C, g, t)
    BY <1>2 DEF InOrder
  <2> QED BY <1>1, <2>1 DEF Reached
<1>3. CASE q = <<>> /\ \E e : Did(w[a + 1], C[a], e) /\ Holds(g, e)
  <2>1. PICK e : Did(w[a + 1], C[a], e) /\ Holds(g, e)
    BY <1>3
  <2> DEFINE D == [i \in 0..(a + 1) |-> IF i = a + 1 THEN e ELSE C[i]]
  <2>2. e \in Chains
    BY <2>1 DEF Did
  <2>3. D \in [0..(a + 1) -> Chains]
    BY <2>2 DEF IsRun
  <2>4. D[a + 1] = e /\ \A i \in 0..a : D[i] = C[i]
    BY <1>1
  <2> HIDE DEF D
  <2>5. IsRun(d, w, a + 1, D)
    <3>1. Holds(d, D[0])
      BY <2>4 DEF IsRun
    <3>2. ASSUME NEW i \in 1..(a + 1)
          PROVE  Did(w[i], D[i - 1], D[i])
      <4>1. CASE i = a + 1
        <5>1. D[i - 1] = C[a] /\ D[i] = e
          BY <2>4, <4>1
        <5> QED BY <2>1, <4>1, <5>1
      <4>2. CASE i # a + 1
        <5>1. i \in 1..a /\ i - 1 \in 0..a /\ i \in 0..a
          BY <4>2
        <5> QED BY <2>4, <5>1 DEF IsRun
      <4> QED BY <4>1, <4>2
    <3> QED BY <2>3, <3>1, <3>2 DEF IsRun
  <2>6. t = Left(w, a + 1)
    <3>1. Left(w, a + 1) \in Seq(TopLevel)
      <4>1. /\ a + 2 \in Int /\ Len(w) \in Int /\ a + 1 + 1 = a + 2
            /\ \A i \in (a + 2)..Len(w) : w[i] \in TopLevel
        BY <1>1, ElementOfSeq
      <4> QED BY <4>1, SubSeqProperties DEF Left
    <3> QED BY <1>3, <3>1, ConcatEmptySeq DEF Joins
  <2>7. InOrder(w, a + 1, D, g, t)
    BY <2>1, <2>4, <2>6 DEF InOrder
  <2> QED BY <1>1, <2>5, <2>7 DEF Reached
<1> QED BY <1>2, <1>3 DEF Further

\* The next statement, of what is begun or of what is next.
LEMMA ReachedStep ==
  ASSUME NEW d, NEW w \in Seq(TopLevel), NEW f \in Store, NEW t, Reached(d, w, f, t),
         t # <<>>, Goes(Head(t), f)
  PROVE  Reached(d, w, Changed(Head(t), f), Rest(t, f))
<1>1. PICK a \in 0..Len(w) : \E C : IsRun(d, w, a, C) /\ InOrder(w, a, C, f, t)
  BY DEF Reached
<1>2. PICK C : IsRun(d, w, a, C) /\ InOrder(w, a, C, f, t)
  BY <1>1
<1>3. a \in Nat /\ Len(w) \in Nat /\ C[a] \in Chains
  BY <1>2 DEF IsRun
<1>4. ASSUME NEW p \in Seq(AnyStmt), p # <<>>, a + 1 \in 1..Len(w), Joins(t, p, Left(w, a + 1)),
             Goes(Head(p), f) => Continues(w[a + 1], C[a], f, p)
      PROVE  Reached(d, w, Changed(Head(t), f), Rest(t, f))
  <2>1. Left(w, a + 1) \in Seq(AnyStmt)
    <3>1. /\ a + 2 \in Int /\ Len(w) \in Int /\ a + 1 + 1 = a + 2
          /\ \A i \in (a + 2)..Len(w) : w[i] \in TopLevel
      BY <1>3, ElementOfSeq
    <3>2. Left(w, a + 1) \in Seq(TopLevel)
      BY <3>1, SubSeqProperties DEF Left
    <3> QED BY <3>2, TopLevelType, SeqMonotonic
  <2>2. Head(t) = Head(p)
    <3>1. Head(p \o Left(w, a + 1)) = Head(p)
      BY <1>4, <2>1, Replace
    <3> QED BY <1>4, <3>1 DEF Joins
  <2>3. PICK q : \E g \in Store : Does(p, f, q, g) /\ Further(w[a + 1], C[a], g, q)
    BY <1>4, <2>2 DEF Continues
  <2>4. PICK g \in Store : Does(p, f, q, g) /\ Further(w[a + 1], C[a], g, q)
    BY <2>3
  <2>5. Joins(Rest(t, f), q, Left(w, a + 1))
    BY <1>4, <2>1, <2>4, RestBehind
  <2>6. Changed(Head(t), f) = g
    BY <2>2, <2>4 DEF Does
  <2> QED BY <1>2, <1>3, <1>4, <2>4, <2>5, <2>6, ReachedOn
<1>5. CASE Holds(f, C[a]) /\ t = Left(w, a)
  <2>1. a + 1 \in 1..Len(w)
    <3>1. SUFFICES ASSUME ~(a + 1 <= Len(w))
                   PROVE  FALSE
      BY <1>3
    <3>2. Left(w, a) = <<>>
      BY <1>3, <3>1, SubSeqEmpty DEF Left
    <3> QED BY <1>5, <3>2
  <2> DEFINE x == w[a + 1]
  <2>2. x \in TopLevel
    BY <2>1, ElementOfSeq
  <2>3. Joins(t, << x >>, Left(w, a + 1))
    <3>1. Len(w) \in (a + 1)..Len(w)
      BY <1>3, <2>1
    <3>2. SubSeq(w, a + 1, Len(w)) = << w[a + 1] >> \o SubSeq(w, a + 1 + 1, Len(w))
      BY <2>1, <3>1, SubSeqRecursiveFirst
    <3> QED BY <1>5, <3>2 DEF Left, Joins
  <2>4. << x >> \in Seq(AnyStmt) /\ << x >> # <<>> /\ Head(<< x >>) = x
    <3>1. x \in AnyStmt
      BY <2>2, TopLevelType
    <3> HIDE DEF x
    <3> QED BY <3>1
  <2>5. Goes(x, f) => Continues(x, C[a], f, << x >>)
    BY <1>3, <1>5, <2>2, DoStart
  <2> QED BY <1>4, <2>1, <2>3, <2>4, <2>5
<1>6. CASE a + 1 \in 1..Len(w) /\ \E p : Doing(w[a + 1], C[a], f, p) /\ Joins(t, p, Left(w, a + 1))
  <2>1. PICK p : Doing(w[a + 1], C[a], f, p) /\ Joins(t, p, Left(w, a + 1))
    BY <1>6
  <2>2. p # <<>> /\ p \in Seq(AnyStmt)
    BY <1>3, <2>1, DoingType
  <2>3. Goes(Head(p), f) => Continues(w[a + 1], C[a], f, p)
    BY <1>3, <2>1, DoMore
  <2> QED BY <1>4, <1>6, <2>1, <2>2, <2>3
<1> QED BY <1>2, <1>5, <1>6 DEF InOrder

\* Nothing is left: all of w is done.
LEMMA ReachedDone ==
  ASSUME NEW d, NEW w \in Seq(TopLevel), NEW f, Reached(d, w, f, <<>>)
  PROVE  \E C : IsRun(d, w, Len(w), C) /\ Holds(f, C[Len(w)])
<1>1. PICK a \in 0..Len(w) : \E C : IsRun(d, w, a, C) /\ InOrder(w, a, C, f, <<>>)
  BY DEF Reached
<1>2. PICK C : IsRun(d, w, a, C) /\ InOrder(w, a, C, f, <<>>)
  BY <1>1
<1>3. a \in Nat /\ Len(w) \in Nat /\ C[a] \in Chains
  BY <1>2 DEF IsRun
<1>4. CASE Holds(f, C[a]) /\ <<>> = Left(w, a)
  <2>1. a = Len(w)
    <3>1. SUFFICES ASSUME a + 1 <= Len(w)
                   PROVE  FALSE
      BY <1>3
    <3>2. /\ a + 1 \in Int /\ Len(w) \in Int
          /\ \A i \in (a + 1)..Len(w) : w[i] \in TopLevel
      BY <1>3, ElementOfSeq
    <3>3. Len(SubSeq(w, a + 1, Len(w))) = Len(w) - (a + 1) + 1
      BY <3>1, <3>2, SubSeqProperties
    <3>4. Len(Left(w, a)) = 0
      BY <1>4
    <3> QED BY <1>3, <3>1, <3>3, <3>4 DEF Left
  <2> QED BY <1>2, <1>4, <2>1
<1>5. ASSUME a + 1 \in 1..Len(w), NEW p, Doing(w[a + 1], C[a], f, p),
             Joins(<<>>, p, Left(w, a + 1))
      PROVE  FALSE
  <2>1. p # <<>> /\ p \in Seq(AnyStmt)
    BY <1>3, <1>5, DoingType
  <2>2. Left(w, a + 1) \in Seq(AnyStmt)
    <3>1. /\ a + 2 \in Int /\ Len(w) \in Int /\ a + 1 + 1 = a + 2
          /\ \A i \in (a + 2)..Len(w) : w[i] \in TopLevel
      BY <1>3, ElementOfSeq
    <3>2. Left(w, a + 1) \in Seq(TopLevel)
      BY <3>1, SubSeqProperties DEF Left
    <3> QED BY <3>2, TopLevelType, SeqMonotonic
  <2>3. p \o Left(w, a + 1) # <<>>
    BY <2>1, <2>2, Replace
  <2> QED BY <1>5, <2>3 DEF Joins
<1> QED BY <1>2, <1>4, <1>5 DEF InOrder

\* Nothing is done.
LEMMA ReachedFirst ==
  ASSUME NEW c \in Chains, NEW d, Holds(d, c), NEW w \in Seq(TopLevel)
  PROVE  Reached(d, w, d, w)
<1> DEFINE C == [i \in 0..0 |-> c]
<1>1. C \in [0..0 -> Chains] /\ C[0] = c /\ 0 \in 0..Len(w)
  OBVIOUS
<1> HIDE DEF C
<1>2. IsRun(d, w, 0, C)
  BY <1>1 DEF IsRun
<1>3. w = Left(w, 0)
  <2>1. 0 + 1 = 1
    OBVIOUS
  <2> QED BY <2>1, SubSeqFull DEF Left
<1>4. InOrder(w, 0, C, d, w)
  BY <1>1, <1>3 DEF InOrder
<1> QED BY <1>1, <1>2, <1>4 DEF Reached

-----------------------------------------------------------------------------
(***************************************************************************)
(* The tables of AtomicHandlers for rows that c describes.                 *)
(***************************************************************************)
ChainRow(v, n) == IF n <= v THEN [prev |-> n - 1, tx |-> Column, val |-> Column] ELSE NoRow

ChainTables(cur) ==
  [current |-> cur, version |-> [m \in MangroveOrders |-> [n \in Number |-> ChainRow(cur[m], n)]]]

TablesFor(c) == [rows |-> c.rows, mangroveOrders |-> ChainTables(c.cur)]

\* A version is not the absence of one.
LEMMA VersionRows ==
  ASSUME NEW v \in Value
  PROVE  [prev |-> v, tx |-> Column, val |-> Column] # NoRow
BY AbsenceAssumption DEF Value

\* Rows that c describes have the tables that c describes.
LEMMA HoldsTables ==
  ASSUME NEW f, NEW c \in Chains, Holds(f, c)
  PROVE  TablesOf(f) = TablesFor(c)
<1>1. c.rows \subseteq Keys /\ c.cur \in [MangroveOrders -> Number \cup {Null}]
  BY DEF Chains
<1>2. {k \in Keys : f[Row(k)] # NoRow} = c.rows
  BY <1>1 DEF Holds
<1>3. ASSUME NEW m \in MangroveOrders
      PROVE  (IF f[Order(m)] = NoRow THEN Null ELSE f[Order(m)]) = c.cur[m]
  <2>1. f[Order(m)] = OrderRow(c.cur[m]) /\ c.cur[m] \in Number \cup {Null}
    BY <1>1 DEF Holds, KeptAt
  <2> QED BY <2>1, Values DEF OrderRow
<1>4. [m \in MangroveOrders |-> IF f[Order(m)] = NoRow THEN Null ELSE f[Order(m)]] = c.cur
  BY <1>1, <1>3
<1>5. ASSUME NEW m \in MangroveOrders, NEW n \in Number
      PROVE  (IF f[Version(m, n)] = NoRow THEN NoRow
              ELSE [prev |-> f[Version(m, n)], tx |-> Column, val |-> Column])
                = ChainRow(c.cur[m], n)
  <2>1. f[Version(m, n)] = IF n <= c.cur[m] THEN n - 1 ELSE NoRow
    BY DEF Holds, KeptAt
  <2>2. n - 1 # NoRow
    BY Values
  <2> QED BY <2>1, <2>2 DEF ChainRow
<1> QED BY <1>2, <1>4, <1>5 DEF TablesOf, TablesFor, ChainTables

\* In these tables the versions are chained.
LEMMA TablesChained ==
  ASSUME NEW c \in Chains, NEW m \in MangroveOrders
  PROVE  Chained(TablesFor(c).mangroveOrders, m)
<1> DEFINE d == TablesFor(c).mangroveOrders
<1>1. d.current[m] = c.cur[m] /\ \A n \in Number : d.version[m][n] = ChainRow(c.cur[m], n)
  BY DEF TablesFor, ChainTables
<1>2. ASSUME NEW n \in Number
      PROVE  [prev |-> n - 1, tx |-> Column, val |-> Column] # NoRow
  <2>1. n - 1 \in Value
    BY Values
  <2> QED BY <2>1, VersionRows
<1> HIDE DEF d
<1>3. ASSUME NEW n \in Number
      PROVE  /\ (d.version[m][n] # NoRow) <=> (n <= d.current[m])
             /\ d.version[m][n] # NoRow => d.version[m][n].prev = n - 1
  <2>1. CASE n <= c.cur[m]
    <3>1. d.version[m][n] = [prev |-> n - 1, tx |-> Column, val |-> Column]
      BY <1>1, <2>1 DEF ChainRow
    <3> QED BY <1>1, <1>2, <2>1, <3>1
  <2>2. CASE ~(n <= c.cur[m])
    <3>1. d.version[m][n] = NoRow
      BY <1>1, <2>2 DEF ChainRow
    <3> QED BY <1>1, <2>2, <3>1
  <2> QED BY <2>1, <2>2
<1>4. Chained(d, m)
  BY <1>3 DEF Chained
<1> QED BY <1>4 DEF d

\* Rows without a null whose versions are chained.
LEMMA ChainedHolds ==
  ASSUME NEW f \in Store, NoNulls(f),
         \A m \in MangroveOrders : Chained(TablesOf(f).mangroveOrders, m)
  PROVE  \E c \in Chains : Holds(f, c)
<1> DEFINE cur(m) == IF f[Order(m)] = NoRow THEN Null ELSE f[Order(m)]
           c == [rows |-> {k \in Keys : f[Row(k)] # NoRow}, cur |-> [m \in MangroveOrders |-> cur(m)]]
           d == TablesOf(f).mangroveOrders
<1>1. ASSUME NEW m \in MangroveOrders
      PROVE  cur(m) \in Number \cup {Null} /\ f[Order(m)] = OrderRow(cur(m))
  <2>1. f[Order(m)] \in Value \cup {NoRow} /\ f[Order(m)] # Null
    BY KeyTypes DEF NoNulls, Store
  <2> QED BY <2>1, Values DEF OrderRow
<1>2. ASSUME NEW m \in MangroveOrders
      PROVE  KeptAt(f, m, OrderRow(cur(m)), cur(m))
  <2>1. /\ d.current[m] = cur(m)
        /\ \A n \in Number : d.version[m][n] =
             IF f[Version(m, n)] = NoRow THEN NoRow
             ELSE [prev |-> f[Version(m, n)], tx |-> Column, val |-> Column]
    BY DEF TablesOf
  <2>2. Chained(d, m)
    OBVIOUS
  <2> HIDE DEF d, cur
  <2>3. ASSUME NEW n \in Number
        PROVE  f[Version(m, n)] = IF n <= cur(m) THEN n - 1 ELSE NoRow
    <3>1. f[Version(m, n)] \in Value \cup {NoRow}
      BY KeyTypes DEF Store
    <3>2. /\ (d.version[m][n] # NoRow) <=> (n <= cur(m))
          /\ d.version[m][n] # NoRow => d.version[m][n].prev = n - 1
      BY <2>1, <2>2 DEF Chained
    <3>3. CASE f[Version(m, n)] = NoRow
      BY <2>1, <3>2, <3>3
    <3>4. CASE f[Version(m, n)] # NoRow
      <4>1. d.version[m][n] = [prev |-> f[Version(m, n)], tx |-> Column, val |-> Column]
        BY <2>1, <3>4
      <4>2. d.version[m][n] # NoRow
        BY <3>1, <3>4, <4>1, VersionRows
      <4> QED BY <3>2, <4>1, <4>2
    <3> QED BY <3>3, <3>4
  <2> QED BY <1>1, <2>3 DEF KeptAt
<1>3. c \in Chains /\ (\A m \in MangroveOrders : c.cur[m] = cur(m))
      /\ \A k \in Keys : f[Row(k)] # NoRow <=> k \in c.rows
  BY <1>1 DEF Chains
<1> HIDE DEF c, cur, d
<1>4. Holds(f, c)
  BY <1>2, <1>3 DEF Holds
<1> QED BY <1>3, <1>4

-----------------------------------------------------------------------------
(***************************************************************************)
(* Until another stream commits, what a transaction does is an initial     *)
(* part of what it would do without interruption.                          *)
(***************************************************************************)
UntilOvertaken ==
  \A s \in Streams :
    alone[s] /\ batch[s] > 0 /\ VersionsChained => Reached(db, Items(s), View(s), todo[s])

\* All that a transaction is to do are items that a handler begins with.
LEMMA ItemsType ==
  ASSUME Types, NEW s \in Streams
  PROVE  Items(s) \in Seq(TopLevel)
<1> DEFINE n == batch[s]
           seqs == [i \in 1..n |-> Statements(script[s][done[s] + i])]
<1>1. n \in Nat /\ done[s] + n <= Len(script[s])
  BY SessionAssumption DEF Types
<1> HIDE DEF n
<1>2. seqs \in Seq(Seq(TopLevel))
  BY <1>1, EventsType
<1> HIDE DEF seqs
<1>3. FlattenSeq(seqs) \in Seq(TopLevel)
  BY <1>2, FlattenType
<1> QED BY <1>3 DEF Items, seqs, n

\* What has not changed for a stream.
LEMMA SameUntilOvertaken ==
  ASSUME UntilOvertaken, NEW s \in Streams, script' = script, done' = done, db' = db,
         batch'[s] = batch[s], View(s)' = View(s), todo'[s] = todo[s], alone'[s] = alone[s]
  PROVE  (alone[s] /\ batch[s] > 0 /\ VersionsChained => Reached(db, Items(s), View(s), todo[s]))'
<1>1. VersionsChained' <=> VersionsChained
  BY DEF VersionsChained, Committed, TablesOf
<1>2. Items(s)' = Items(s)
  BY DEF Items
<1> QED BY <1>1, <1>2 DEF UntilOvertaken

\* A transaction that begins has done nothing, which is an initial part.
LEMMA BeginUntilOvertaken ==
  ASSUME Inv, UntilOvertaken, NEW s \in Streams, NEW n \in 1..BatchSize, Begin(s, n)
  PROVE  UntilOvertaken'
<1>1. Types /\ batch \in [Streams -> 0..BatchSize] /\ alone \in [Streams -> BOOLEAN]
      /\ todo \in [Streams -> Seq(AnyStmt)]
  BY DEF Inv, Types
<1>2. /\ todo'[s] = Items(s)' /\ Items(s)' \in Seq(TopLevel) /\ View(s)' = db /\ db' = db
  BY BeginStep
<1>3. UNCHANGED <<script, done, db, pending>>
  BY DEF Begin
<1>4. ASSUME NEW t \in Streams, t # s
      PROVE  batch'[t] = batch[t] /\ View(t)' = View(t) /\ todo'[t] = todo[t] /\ alone'[t] = alone[t]
  BY <1>1, <1>3, <1>4 DEF Begin, View, Sees
<1>5. ASSUME VersionsChained'
      PROVE  Reached(db, Items(s), View(s), todo[s])'
  <2>1. VersionsChained
    BY <1>3, <1>5 DEF VersionsChained, Committed, TablesOf
  <2>2. db \in Store /\ NoNulls(db)
    BY <1>1 DEF Types
  <2>3. PICK c \in Chains : Holds(db, c)
    BY <2>1, <2>2, ChainedHolds DEF VersionsChained, Committed
  <2>4. Reached(db, Items(s)', db, Items(s)')
    BY <1>2, <2>3, ReachedFirst
  <2> QED BY <1>2, <2>4
<1>6. ASSUME NEW t \in Streams
      PROVE  (alone[t] /\ batch[t] > 0 /\ VersionsChained => Reached(db, Items(t), View(t), todo[t]))'
  <2>1. CASE t = s
    BY <1>5, <2>1
  <2>2. CASE t # s
    BY <1>3, <1>4, <2>2, SameUntilOvertaken
  <2> QED BY <2>1, <2>2
<1> QED BY <1>6 DEF UntilOvertaken

\* A statement goes on from there, and the others see no difference.
LEMMA ExecuteUntilOvertaken ==
  ASSUME Inv, UntilOvertaken, NEW s \in Streams, Execute(s)
  PROVE  UntilOvertaken'
<1>1. Types
  BY DEF Inv
<1>2. /\ todo[s] # <<>> /\ Goes(Head(todo[s]), View(s))
      /\ View(s)' = Changed(Head(todo[s]), View(s))
      /\ todo'[s] = Rest(todo[s], View(s))
      /\ \A t \in Streams : t # s => View(t)' = View(t) /\ todo'[t] = todo[t]
  BY <1>1, ExecuteStep
<1>3. UNCHANGED <<script, done, db, batch, alone>>
  BY DEF Execute
<1>4. ASSUME alone'[s], batch'[s] > 0, VersionsChained'
      PROVE  Reached(db, Items(s), View(s), todo[s])'
  <2>1. alone[s] /\ batch[s] > 0 /\ VersionsChained
    BY <1>3, <1>4 DEF VersionsChained, Committed, TablesOf
  <2>2. Reached(db, Items(s), View(s), todo[s])
    BY <2>1 DEF UntilOvertaken
  <2>3. Items(s) \in Seq(TopLevel) /\ View(s) \in Store
    BY <1>1, ItemsType, ViewType
  <2>4. Reached(db, Items(s), Changed(Head(todo[s]), View(s)), Rest(todo[s], View(s)))
    BY <1>2, <2>2, <2>3, ReachedStep
  <2>5. Items(s)' = Items(s)
    BY <1>3 DEF Items
  <2> QED BY <1>2, <1>3, <2>4, <2>5
<1>5. ASSUME NEW t \in Streams
      PROVE  (alone[t] /\ batch[t] > 0 /\ VersionsChained => Reached(db, Items(t), View(t), todo[t]))'
  <2>1. CASE t = s
    BY <1>4, <2>1
  <2>2. CASE t # s
    BY <1>2, <1>3, <2>2, SameUntilOvertaken
  <2> QED BY <2>1, <2>2
<1> QED BY <1>5 DEF UntilOvertaken

\* After a commit all others are overtaken; after a rollback none is.
LEMMA EndUntilOvertaken ==
  ASSUME Inv, UntilOvertaken, NEW s \in Streams, Commit(s) \/ Gives(s)
  PROVE  UntilOvertaken'
<1>1. /\ batch \in [Streams -> 0..BatchSize] /\ todo \in [Streams -> Seq(AnyStmt)]
      /\ pending \in [Streams -> PartStore]
  BY DEF Inv, Types
<1>2. End(s)
  BY GivesInv DEF Commit
<1>3. /\ batch'[s] = 0
      /\ \A t \in Streams : t # s => /\ batch'[t] = batch[t] /\ todo'[t] = todo[t]
                                     /\ pending'[t] = pending[t]
  BY <1>1, <1>2 DEF End
<1>4. ASSUME NEW t \in Streams
      PROVE  (alone[t] /\ batch[t] > 0 /\ VersionsChained => Reached(db, Items(t), View(t), todo[t]))'
  <2>1. CASE t = s
    BY <1>3, <2>1
  <2>2. CASE t # s /\ Commit(s)
    <3>1. alone'[t] = FALSE
      BY <2>2 DEF Commit
    <3> QED BY <3>1
  <2>3. CASE t # s /\ Gives(s)
    <3>1. UNCHANGED <<script, done, db, alone>>
      BY <2>3, GivesInv
    <3>2. View(t)' = View(t)
      BY <1>3, <2>3, <3>1 DEF View, Sees
    <3> QED BY <1>3, <2>3, <3>1, <3>2, SameUntilOvertaken
  <2> QED BY <2>1, <2>2, <2>3
<1> QED BY <1>4 DEF UntilOvertaken

IInv == Inv /\ UntilOvertaken

\* The invariant holds at the start.
LEMMA IInvInit == Init => IInv
<1>1. Init => Inv
  BY InvInit
<1>2. Init => UntilOvertaken
  BY DEF Init, UntilOvertaken
<1> QED BY <1>1, <1>2 DEF IInv

\* Every step keeps it.
LEMMA IInvNext == IInv /\ [Next]_vars => IInv'
<1> SUFFICES ASSUME IInv, [Next]_vars
             PROVE  IInv'
  OBVIOUS
<1>1. Inv /\ UntilOvertaken /\ Inv'
  BY InvNext DEF IInv
<1>2. CASE UNCHANGED vars
  <2>1. /\ script' = script /\ done' = done /\ db' = db /\ batch' = batch
        /\ pending' = pending /\ todo' = todo /\ alone' = alone
    BY <1>2 DEF vars
  <2>2. \A s \in Streams : View(s)' = View(s)
    BY <2>1 DEF View, Sees
  <2>3. ASSUME NEW t \in Streams
        PROVE  (alone[t] /\ batch[t] > 0 /\ VersionsChained => Reached(db, Items(t), View(t), todo[t]))'
    BY <1>1, <2>1, <2>2, SameUntilOvertaken
  <2> QED BY <1>1, <2>3 DEF IInv, UntilOvertaken
<1>3. CASE Next
  <2>1. UntilOvertaken'
    BY <1>1, <1>3, StepCases, BeginUntilOvertaken, ExecuteUntilOvertaken, EndUntilOvertaken
  <2> QED BY <1>1, <2>1 DEF IInv
<1> QED BY <1>2, <1>3

\* A transaction that was not overtaken has done all of its statements, one
\* after another, when it commits.
LEMMA CommitRun ==
  ASSUME IInv, NEW s \in Streams, Commit(s), alone[s], VersionsChained
  PROVE  /\ Items(s) \in Seq(TopLevel)
         /\ \E C : IsRun(db, Items(s), Len(Items(s)), C) /\ Holds(db', C[Len(Items(s))])
<1>1. Inv /\ Types /\ UntilOvertaken /\ batch[s] > 0 /\ todo[s] = <<>>
  BY DEF IInv, Inv, Commit
<1>2. Items(s) \in Seq(TopLevel)
  BY <1>1, ItemsType
<1>3. Reached(db, Items(s), View(s), <<>>)
  BY <1>1 DEF UntilOvertaken
<1>4. db' = View(s)
  BY <1>1, CommitInv
<1> QED BY <1>2, <1>3, <1>4, ReachedDone

\* A step that changes what is committed or the offset of a stream.
LEMMA OnlyCommits ==
  ASSUME IInv, [Next]_vars, db' # db \/ \E s \in Streams : done'[s] # done[s]
  PROVE  \E s \in Streams : /\ Commit(s) /\ done'[s] # done[s]
                            /\ \A t \in Streams : done'[t] # done[t] => t = s
<1>1. Next
  BY DEF vars
<1>2. PICK s \in Streams : (\E n \in 1..BatchSize : Begin(s, n)) \/ Execute(s) \/ Commit(s) \/ Gives(s)
  BY <1>1, StepCases
<1>3. Commit(s)
  <2>1. Gives(s) => db' = db /\ done' = done
    BY GivesInv DEF IInv
  <2>2. (\E n \in 1..BatchSize : Begin(s, n)) \/ Execute(s) => db' = db /\ done' = done
    BY DEF Begin, Execute
  <2> QED BY <1>2, <2>1, <2>2
<1>4. \A t \in Streams : done'[t] # done[t] => t = s
  BY <1>3, CommitInv DEF IInv
<1>5. done'[s] # done[s]
  <2>1. done \in [Streams -> Nat] /\ batch[s] \in Nat /\ batch[s] > 0
    BY <1>3, SessionAssumption DEF IInv, Inv, Types, Commit
  <2>2. done'[s] = done[s] + batch[s]
    BY <1>3, <2>1 DEF Commit
  <2> QED BY <2>1, <2>2
<1> QED BY <1>3, <1>4, <1>5

(***************************************************************************)
(* Only a transaction that was overtaken can commit versions that are not  *)
(* linked, or leave a gap in their numbers.                                *)
(***************************************************************************)
THEOREM UnlinkedOnlyByRaces == Spec => UnlinkedOnlyWhenOvertaken
<1> DEFINE A == VersionsChained /\ ~VersionsChained' =>
                  \E s \in Streams : done'[s] # done[s] /\ ~alone[s]
<1>1. ASSUME IInv, [Next]_vars
      PROVE  A
  <2> SUFFICES ASSUME VersionsChained, ~VersionsChained'
               PROVE  \E s \in Streams : done'[s] # done[s] /\ ~alone[s]
    OBVIOUS
  <2>1. db' # db
    BY DEF VersionsChained, Committed, TablesOf
  <2>2. PICK s \in Streams : Commit(s) /\ done'[s] # done[s]
    BY <1>1, <2>1, OnlyCommits
  <2>3. SUFFICES ASSUME alone[s]
                 PROVE  FALSE
    BY <2>2
  <2>4. PICK C : /\ IsRun(db, Items(s), Len(Items(s)), C)
                 /\ Holds(db', C[Len(Items(s))])
    BY <1>1, <2>2, <2>3, CommitRun
  <2> DEFINE c == C[Len(Items(s))]
  <2>5. c \in Chains
    <3>1. Items(s) \in Seq(TopLevel)
      BY <1>1, <2>2, <2>3, CommitRun
    <3>2. Len(Items(s)) \in 0..Len(Items(s))
      BY <3>1
    <3> QED BY <2>4, <3>2 DEF IsRun
  <2> HIDE DEF c
  <2>6. TablesOf(db') = TablesFor(c)
    BY <2>4, <2>5, HoldsTables DEF c
  <2>7. Committed' = TablesFor(c)
    BY <2>6 DEF Committed, TablesOf
  <2>8. VersionsChained'
    BY <2>5, <2>7, TablesChained DEF VersionsChained
  <2> QED BY <2>8
<1>2. IInv /\ [Next]_vars => [A]_vars
  BY <1>1
<1>3. Spec => [][A]_vars
  BY <1>2, IInvInit, IInvNext, PTL DEF Spec
<1> QED BY <1>3 DEF UnlinkedOnlyWhenOvertaken

-----------------------------------------------------------------------------
(***************************************************************************)
(* What is done of each kind.                                              *)
(***************************************************************************)
LEMMA StmtsDiffer ==
  /\ \A op, k, ap, j : Query(op, k) = Query(ap, j) => op = ap /\ k = j
  /\ \A op, k, j, v : Query(op, k) = Create(j, v) => op = "create"
  /\ \A k, v, j, u : Create(k, v) = Create(j, u) => k = j
<1>1. /\ \A op, k : Query(op, k).op = op /\ Query(op, k).key = k
      /\ \A k, v : Create(k, v).op = "create" /\ Create(k, v).key = k
  BY StmtFields DEF Query, Create
<1>2. ASSUME NEW op, NEW k, NEW ap, NEW j, Query(op, k) = Query(ap, j)
      PROVE  op = ap /\ k = j
  BY <1>1, <1>2
<1>3. ASSUME NEW op, NEW k, NEW j, NEW v, Query(op, k) = Create(j, v)
      PROVE  op = "create"
  BY <1>1, <1>3
<1>4. ASSUME NEW k, NEW v, NEW j, NEW u, Create(k, v) = Create(j, u)
      PROVE  k = j
  BY <1>1, <1>4
<1> QED BY <1>2, <1>3, <1>4

\* The number of the current version that a handler finds and leaves.
May(op, n) ==
  /\ op = "latest" => n # Null
  /\ op = "findOrNew" => n + 1 \in Number
  /\ op = "findFirst" /\ n # Null => n + 1 \in Number

Turn(op, n) ==
  CASE op = "latest"    -> n - 1
    [] op = "findMany"  -> IF n = Null THEN Null ELSE n - 1
    [] op = "findOrNew" -> n + 1
    [] op = "findFirst" -> IF n = Null THEN Null ELSE n + 1

\* What each query for a MangroveOrder requires and does.
LEMMA DidOrder ==
  ASSUME NEW c \in Chains, NEW e, NEW op \in OrderOps, NEW m \in MangroveOrders,
         Did(Query(op, Order(m)), c, e)
  PROVE  e \in Chains /\ May(op, c.cur[m]) /\ Moves(e, c, m, Turn(op, c.cur[m]))
<1> DEFINE x == Query(op, Order(m))
<1>1. ~RowDid(x, c, e)
  <2>1. op # "create"
    BY DEF OrderOps
  <2>2. \A k, ap, v : x # Query(ap, Row(k)) /\ x # Create(Row(k), v)
    BY <2>1, StmtsDiffer, KeysDiffer
  <2> HIDE DEF x
  <2> QED BY <2>2 DEF RowDid
<1>2. PICK j \in MangroveOrders :
        LET n == c.cur[j] IN
        \/ x = Query("latest", Order(j)) /\ n # Null /\ Moves(e, c, j, n - 1)
        \/ x = Query("findMany", Order(j)) /\ Moves(e, c, j, IF n = Null THEN Null ELSE n - 1)
        \/ x = Query("findOrNew", Order(j)) /\ n + 1 \in Number /\ Moves(e, c, j, n + 1)
        \/ /\ x = Query("findFirst", Order(j)) /\ (n # Null => n + 1 \in Number)
           /\ Moves(e, c, j, IF n = Null THEN Null ELSE n + 1)
  BY <1>1 DEF Did, OrderDid
<1>3. e \in Chains
  BY DEF Did
<1>4. \A ap : x = Query(ap, Order(j)) => ap = op /\ j = m
  BY StmtsDiffer, KeysDiffer
<1> HIDE DEF x
<1>5. j = m
  BY <1>2, <1>4
<1> DEFINE n == c.cur[m]
<1>6. \/ op = "latest" /\ n # Null /\ Moves(e, c, m, n - 1)
      \/ op = "findMany" /\ Moves(e, c, m, IF n = Null THEN Null ELSE n - 1)
      \/ op = "findOrNew" /\ n + 1 \in Number /\ Moves(e, c, m, n + 1)
      \/ /\ op = "findFirst" /\ (n # Null => n + 1 \in Number)
         /\ Moves(e, c, m, IF n = Null THEN Null ELSE n + 1)
  BY <1>2, <1>4, <1>5
<1> HIDE DEF n
<1>7. May(op, n) /\ Moves(e, c, m, Turn(op, n))
  BY <1>6 DEF May, Turn
<1> QED BY <1>3, <1>7 DEF n

\* What each statement for a transaction, an account or an order requires and does.
LEMMA DidRow ==
  ASSUME NEW c \in Chains, NEW e, NEW k \in Keys
  PROVE  /\ Did(Query("ensure", Row(k)), c, e) =>
              e \in Chains /\ e.cur = c.cur /\ e.rows = c.rows \cup {k}
         /\ Did(Create(Row(k), Present), c, e) =>
              e \in Chains /\ e.cur = c.cur /\ k \notin c.rows /\ e.rows = c.rows \cup {k}
         /\ Did(Query("references", Row(k)), c, e) =>
              /\ e \in Chains /\ e.cur = c.cur /\ e.rows = c.rows
              /\ \A m \in MangroveOrders : OrderOf[m] = k => c.cur[m] = Null
         /\ Did(Query("delete", Row(k)), c, e) =>
              e \in Chains /\ e.cur = c.cur /\ k \in c.rows /\ e.rows = c.rows \ {k}
<1>1. ASSUME NEW op, NEW x, x = Query(op, Row(k)), Did(x, c, e)
      PROVE  /\ e \in Chains /\ e.cur = c.cur
             /\ op = "ensure" => e.rows = c.rows \cup {k}
             /\ op = "references" =>
                  e.rows = c.rows /\ \A m \in MangroveOrders : OrderOf[m] = k => c.cur[m] = Null
             /\ op = "delete" => k \in c.rows /\ e.rows = c.rows \ {k}
  <2>1. \A m, ap : x # Query(ap, Order(m))
    BY <1>1, StmtsDiffer, KeysDiffer
  <2>2. RowDid(x, c, e) /\ e \in Chains
    BY <1>1, <2>1 DEF Did, OrderDid
  <2>3. /\ \A ap, j : x = Query(ap, Row(j)) => ap = op /\ j = k
        /\ \A j, v : x = Create(Row(j), v) => op = "create"
    BY <1>1, StmtsDiffer, KeysDiffer
  <2>4. PICK j \in Keys :
          /\ e.cur = c.cur
          /\ \/ x = Query("ensure", Row(j)) /\ e.rows = c.rows \cup {j}
             \/ x = Create(Row(j), Present) /\ j \notin c.rows /\ e.rows = c.rows \cup {j}
             \/ /\ x = Query("references", Row(j)) /\ e.rows = c.rows
                /\ \A m \in MangroveOrders : OrderOf[m] = j => c.cur[m] = Null
             \/ x = Query("delete", Row(j)) /\ j \in c.rows /\ e.rows = c.rows \ {j}
    BY <2>2 DEF RowDid
  <2>5. CASE x = Query("ensure", Row(j)) /\ e.rows = c.rows \cup {j}
    <3>1. op = "ensure" /\ j = k
      BY <2>3, <2>5
    <3> QED BY <2>2, <2>4, <2>5, <3>1
  <2>6. CASE x = Create(Row(j), Present)
    <3>1. op = "create"
      BY <2>3, <2>6
    <3> QED BY <2>2, <2>4, <3>1
  <2>7. CASE /\ x = Query("references", Row(j)) /\ e.rows = c.rows
             /\ \A m \in MangroveOrders : OrderOf[m] = j => c.cur[m] = Null
    <3>1. op = "references" /\ j = k
      BY <2>3, <2>7
    <3> QED BY <2>2, <2>4, <2>7, <3>1
  <2>8. CASE x = Query("delete", Row(j)) /\ j \in c.rows /\ e.rows = c.rows \ {j}
    <3>1. op = "delete" /\ j = k
      BY <2>3, <2>8
    <3> QED BY <2>2, <2>4, <2>8, <3>1
  <2> QED BY <2>4, <2>5, <2>6, <2>7, <2>8
<1>2. ASSUME NEW x, x = Create(Row(k), Present), Did(x, c, e)
      PROVE  e \in Chains /\ e.cur = c.cur /\ k \notin c.rows /\ e.rows = c.rows \cup {k}
  <2>1. \A y, ap : ap # "create" => x # Query(ap, y)
    BY <1>2, StmtsDiffer
  <2>2. RowDid(x, c, e) /\ e \in Chains
    BY <1>2, <2>1 DEF Did, OrderDid
  <2>3. \A j, v : x = Create(Row(j), v) => j = k
    BY <1>2, StmtsDiffer, KeysDiffer
  <2>4. PICK j \in Keys : /\ e.cur = c.cur /\ x = Create(Row(j), Present)
                          /\ j \notin c.rows /\ e.rows = c.rows \cup {j}
    BY <2>1, <2>2 DEF RowDid
  <2>5. j = k
    BY <2>3, <2>4
  <2> QED BY <2>2, <2>4, <2>5
<1> QED BY <1>1, <1>2

-----------------------------------------------------------------------------
(***************************************************************************)
(* All of w, done one after another, turns c into e.                       *)
(***************************************************************************)
RunOf(C, w, c, e) ==
  /\ C \in [0..Len(w) -> Chains] /\ C[0] = c /\ C[Len(w)] = e
  /\ \A i \in 1..Len(w) : Did(w[i], C[i - 1], C[i])

Ran(w, c, e) == \E C : RunOf(C, w, c, e)

\* One after the other is in turn.
LEMMA RanSplits ==
  ASSUME NEW u \in Seq(TopLevel), NEW v \in Seq(TopLevel), NEW c, NEW e, Ran(u \o v, c, e)
  PROVE  \E b \in Chains : Ran(u, c, b) /\ Ran(v, b, e)
<1> DEFINE w == u \o v
           l == Len(u)
<1>1. /\ l \in Nat /\ Len(v) \in Nat /\ Len(w) = l + Len(v)
      /\ \A i \in 1..Len(w) : w[i] = IF i <= l THEN u[i] ELSE v[i - l]
  <2>1. Len(u) \in Nat /\ Len(v) \in Nat
    OBVIOUS
  <2> QED BY <2>1, ConcatProperties
<1> HIDE DEF w, l
<1>2. PICK C : RunOf(C, w, c, e)
  BY DEF Ran, w
<1> DEFINE A == [i \in 0..l |-> C[i]]
           B == [i \in 0..Len(v) |-> C[l + i]]
<1>3. A \in [0..l -> Chains] /\ \A i \in 0..l : A[i] = C[i]
  BY <1>1, <1>2 DEF RunOf
<1>4. B \in [0..Len(v) -> Chains] /\ \A i \in 0..Len(v) : B[i] = C[l + i]
  BY <1>1, <1>2 DEF RunOf
<1> HIDE DEF A, B
<1>5. RunOf(A, u, c, C[l])
  <2>1. ASSUME NEW i \in 1..l
        PROVE  Did(u[i], A[i - 1], A[i])
    <3>1. i \in 1..Len(w) /\ i <= l /\ i \in 0..l /\ i - 1 \in 0..l
      BY <1>1
    <3>2. Did(w[i], C[i - 1], C[i]) /\ w[i] = u[i]
      BY <1>1, <1>2, <3>1 DEF RunOf
    <3> QED BY <1>3, <3>1, <3>2
  <2>2. A[0] = c /\ A[l] = C[l]
    BY <1>1, <1>2, <1>3 DEF RunOf
  <2> QED BY <1>3, <2>1, <2>2 DEF RunOf, l
<1>6. RunOf(B, v, C[l], e)
  <2>1. ASSUME NEW i \in 1..Len(v)
        PROVE  Did(v[i], B[i - 1], B[i])
    <3>1. /\ l + i \in 1..Len(w) /\ ~(l + i <= l) /\ i \in 0..Len(v) /\ i - 1 \in 0..Len(v)
          /\ l + i - l = i /\ l + i - 1 = l + (i - 1)
      BY <1>1
    <3>2. Did(w[l + i], C[l + i - 1], C[l + i]) /\ w[l + i] = v[i]
      BY <1>1, <1>2, <3>1 DEF RunOf
    <3>3. B[i] = C[l + i] /\ B[i - 1] = C[l + i - 1]
      BY <1>4, <3>1
    <3> QED BY <3>2, <3>3
  <2>2. B[0] = C[l] /\ B[Len(v)] = e
    BY <1>1, <1>2, <1>4 DEF RunOf
  <2> QED BY <1>4, <2>1, <2>2 DEF RunOf
<1>7. C[l] \in Chains
  <2>1. l \in 0..Len(w)
    BY <1>1
  <2> QED BY <1>2, <2>1 DEF RunOf
<1> QED BY <1>5, <1>6, <1>7 DEF Ran

\* Nothing, one and two statements.
LEMMA RanFew ==
  ASSUME NEW c, NEW e
  PROVE  /\ Ran(<<>>, c, e) => e = c
         /\ \A x : Ran(<< x >>, c, e) => Did(x, c, e)
         /\ \A x, y : Ran(<< x, y >>, c, e) => \E b \in Chains : Did(x, c, b) /\ Did(y, b, e)
<1>1. Ran(<<>>, c, e) => e = c
  <2>1. Len(<<>>) = 0
    OBVIOUS
  <2> QED BY <2>1 DEF Ran, RunOf
<1>2. ASSUME NEW x, Ran(<< x >>, c, e)
      PROVE  Did(x, c, e)
  <2> DEFINE w == << x >>
  <2>1. Len(w) = 1 /\ w[1] = x
    OBVIOUS
  <2> HIDE DEF w
  <2>2. PICK C : RunOf(C, w, c, e)
    BY <1>2 DEF Ran, w
  <2>3. Did(w[1], C[1 - 1], C[1])
    BY <2>1, <2>2 DEF RunOf
  <2> QED BY <2>1, <2>2, <2>3 DEF RunOf
<1>3. ASSUME NEW x, NEW y, Ran(<< x, y >>, c, e)
      PROVE  \E b \in Chains : Did(x, c, b) /\ Did(y, b, e)
  <2> DEFINE w == << x, y >>
  <2>1. Len(w) = 2 /\ w[1] = x /\ w[2] = y
    OBVIOUS
  <2> HIDE DEF w
  <2>2. PICK C : RunOf(C, w, c, e)
    BY <1>3 DEF Ran, w
  <2>3. Did(w[1], C[1 - 1], C[1]) /\ Did(w[2], C[2 - 1], C[2]) /\ C[1] \in Chains
    BY <2>1, <2>2 DEF RunOf
  <2>4. C[0] = c /\ C[2] = e
    BY <2>1, <2>2 DEF RunOf
  <2> QED BY <2>1, <2>3, <2>4
<1> QED BY <1>1, <1>2, <1>3

(***************************************************************************)
(* The rows that an event makes sure of, and its MangroveOrders, each of   *)
(* which is changed once.                                                  *)
(***************************************************************************)
LEMMA EnsuresRun ==
  ASSUME NEW ev \in Event, NEW c \in Chains, NEW e, Ran(EnsureStmts(ev), c, e)
  PROVE  e \in Chains /\ e.cur = c.cur /\ e.rows = c.rows \cup ToSet(ev.ensures)
<1> DEFINE w == EnsureStmts(ev)
           n == Len(w)
           k(i) == ev.ensures[i]
<1>1. /\ n \in Nat /\ DOMAIN ev.ensures = 1..n
      /\ \A i \in 1..n : k(i) \in Keys /\ w[i] = Query("ensure", Row(k(i)))
  <2>1. ev.ensures \in Seq(Keys)
    BY DEF Event
  <2>2. n = Len(ev.ensures)
    BY StatementsType
  <2>3. \A i \in 1..Len(ev.ensures) : w[i] = Query("ensure", Row(k(i)))
    BY DEF EnsureStmts
  <2>4. Len(ev.ensures) \in Nat /\ DOMAIN ev.ensures = 1..Len(ev.ensures)
        /\ \A i \in 1..Len(ev.ensures) : k(i) \in Keys
    BY <2>1
  <2> HIDE DEF n, w, k
  <2> QED BY <2>2, <2>3, <2>4
<1>2. PICK C : RunOf(C, w, c, e)
  BY DEF Ran
<1> HIDE DEF w, n, k
<1>3. /\ C \in [0..n -> Chains] /\ C[0] = c /\ C[n] = e
      /\ \A i \in 1..n : Did(w[i], C[i - 1], C[i])
  BY <1>2 DEF RunOf, n
<1> DEFINE T == {i \in 0..n : C[i].cur = c.cur /\ C[i].rows = c.rows \cup {k(j) : j \in 1..i}}
<1>4. 0 \in T
  BY <1>1, <1>3
<1>5. ASSUME NEW i \in 1..n, i - 1 \in T
      PROVE  i \in T
  <2>1. i - 1 \in 0..n /\ i \in 0..n /\ i \in Nat
    BY <1>1
  <2>2. Did(Query("ensure", Row(k(i))), C[i - 1], C[i]) /\ C[i - 1] \in Chains
    BY <1>1, <1>3, <2>1
  <2>3. C[i].cur = C[i - 1].cur /\ C[i].rows = C[i - 1].rows \cup {k(i)}
    BY <1>1, <2>2, DidRow
  <2>4. {k(j) : j \in 1..i} = {k(j) : j \in 1..(i - 1)} \cup {k(i)}
    <3>1. 1..i = 1..(i - 1) \cup {i}
      BY <2>1
    <3> QED BY <3>1
  <2>5. C[i - 1].cur = c.cur /\ C[i - 1].rows = c.rows \cup {k(j) : j \in 1..(i - 1)}
    BY <1>5
  <2>6. C[i].rows = c.rows \cup {k(j) : j \in 1..i}
    BY <2>3, <2>4, <2>5
  <2> QED BY <2>1, <2>3, <2>5, <2>6
<1>6. n \in T
  <2> HIDE DEF T
  <2>1. \A i \in 0..n : i \in T
    BY <1>1, <1>4, <1>5, CountUp
  <2> QED BY <1>1, <2>1
<1>7. {k(j) : j \in 1..n} = ToSet(ev.ensures)
  BY <1>1 DEF ToSet, k
<1>8. n \in 0..n
  BY <1>1
<1> QED BY <1>3, <1>6, <1>7, <1>8

\* The MangroveOrders of S are changed, those of c as op does it.
Turned(e, c, op, S) ==
  /\ e.rows = c.rows
  /\ \A m \in MangroveOrders : e.cur[m] = IF m \in S THEN Turn(op, c.cur[m]) ELSE c.cur[m]
  /\ \A m \in S : May(op, c.cur[m])

\* One more MangroveOrder is changed.
LEMMA TurnedMore ==
  ASSUME NEW c \in Chains, NEW b \in Chains, NEW e, NEW op \in OrderOps,
         NEW S \in SUBSET MangroveOrders, NEW m \in MangroveOrders, m \notin S,
         Turned(b, c, op, S), Did(Query(op, Order(m)), b, e)
  PROVE  Turned(e, c, op, S \cup {m})
<1>1. May(op, b.cur[m]) /\ Moves(e, b, m, Turn(op, b.cur[m]))
  BY DidOrder
<1>2. b.cur[m] = c.cur[m] /\ b.rows = c.rows
  BY DEF Turned
<1>3. May(op, c.cur[m]) /\ Moves(e, b, m, Turn(op, c.cur[m]))
  BY <1>1, <1>2
<1>4. e.rows = c.rows
  BY <1>2, <1>3 DEF Moves
<1>5. ASSUME NEW j \in MangroveOrders
      PROVE  e.cur[j] = IF j \in S \cup {m} THEN Turn(op, c.cur[j]) ELSE c.cur[j]
  <2>1. e.cur[j] = IF j = m THEN Turn(op, c.cur[m]) ELSE b.cur[j]
    BY <1>3 DEF Moves
  <2>2. b.cur[j] = IF j \in S THEN Turn(op, c.cur[j]) ELSE c.cur[j]
    BY DEF Turned
  <2> QED BY <2>1, <2>2
<1>6. \A j \in S \cup {m} : May(op, c.cur[j])
  BY <1>3 DEF Turned
<1> QED BY <1>4, <1>5, <1>6 DEF Turned

\* The MangroveOrders of an event are changed, each once.
LEMMA OnRun ==
  ASSUME NEW ev \in Event, NEW op \in OrderOps, NEW c \in Chains, NEW e, Ran(On(op, ev), c, e)
  PROVE  e \in Chains /\ Turned(e, c, op, ev.on)
<1> DEFINE w == On(op, ev)
           n == Len(w)
           g == SetToSeq(ev.on)
           S(i) == {g[j] : j \in 1..i}
<1>1. ev.on \subseteq MangroveOrders /\ IsFiniteSet(ev.on)
  BY DEF Event
<1>2. /\ n \in Nat /\ g \in [1..n -> ev.on]
      /\ \A i, j \in 1..n : g[i] = g[j] => i = j
      /\ \A x \in ev.on : \E i \in 1..n : g[i] = x
      /\ \A i \in 1..n : w[i] = Query(op, Order(g[i]))
  <2>1. /\ n = Cardinality(ev.on) /\ Cardinality(ev.on) \in Nat
        /\ \A i \in 1..n : w[i] = Query(op, Order(g[i]))
    BY OnType
  <2>2. /\ g \in [1..Cardinality(ev.on) -> ev.on]
        /\ \A i, j \in 1..Cardinality(ev.on) : g[i] = g[j] => i = j
        /\ \A x \in ev.on : \E i \in 1..Cardinality(ev.on) : g[i] = x
    BY <1>1, SequenceOfSet
  <2> HIDE DEF n, w, g
  <2> QED BY <2>1, <2>2
<1>3. PICK C : RunOf(C, w, c, e)
  BY DEF Ran
<1> HIDE DEF w, n, g
<1>4. /\ C \in [0..n -> Chains] /\ C[0] = c /\ C[n] = e
      /\ \A i \in 1..n : Did(w[i], C[i - 1], C[i])
  BY <1>3 DEF RunOf, n
<1> DEFINE T == {i \in 0..n : Turned(C[i], c, op, S(i))}
<1>5. 0 \in T
  <2>1. S(0) = {} /\ 0 \in 0..n
    BY <1>2
  <2>2. Turned(c, c, op, {})
    BY DEF Turned
  <2> QED BY <1>4, <2>1, <2>2
<1>6. ASSUME NEW i \in 1..n, i - 1 \in T
      PROVE  i \in T
  <2>1. i - 1 \in 0..n /\ i \in 0..n /\ i \in Nat /\ C[i - 1] \in Chains
    BY <1>2, <1>4
  <2>2. Did(Query(op, Order(g[i])), C[i - 1], C[i])
    BY <1>2, <1>4
  <2>3. g[i] \in MangroveOrders /\ S(i - 1) \in SUBSET MangroveOrders /\ g[i] \notin S(i - 1)
    <3>1. \A j \in 1..(i - 1) : j \in 1..n /\ j # i
      BY <1>2
    <3> QED BY <1>1, <1>2, <3>1
  <2>4. S(i) = S(i - 1) \cup {g[i]}
    <3>1. 1..i = 1..(i - 1) \cup {i}
      BY <2>1
    <3> QED BY <3>1
  <2>5. Turned(C[i - 1], c, op, S(i - 1))
    BY <1>6
  <2> HIDE DEF S
  <2>6. Turned(C[i], c, op, S(i - 1) \cup {g[i]})
    BY <2>1, <2>2, <2>3, <2>5, TurnedMore
  <2> QED BY <2>1, <2>4, <2>6
<1>7. n \in T
  <2> HIDE DEF T
  <2>1. \A i \in 0..n : i \in T
    BY <1>2, <1>5, <1>6, CountUp
  <2> QED BY <1>2, <2>1
<1>8. S(n) = ev.on
  BY <1>2
<1>9. n \in 0..n
  BY <1>2
<1> HIDE DEF S
<1> QED BY <1>4, <1>7, <1>8, <1>9

-----------------------------------------------------------------------------
(***************************************************************************)
(* The operations of AtomicHandlers on tables whose versions are chained.  *)
(***************************************************************************)
ChainRows == [prev : Number \cup {Null}, tx : {Column}, val : {Column}]

\* The tables of chained versions.
LEMMA ChainTablesType ==
  ASSUME NEW c \in Chains
  PROVE  /\ ChainTables(c.cur) \in Tables(MangroveOrders, ChainRows)
         /\ ChainTables(c.cur).current = c.cur
         /\ \A m \in MangroveOrders :
              ChainTables(c.cur).version[m] = [n \in Number |-> ChainRow(c.cur[m], n)]
<1>1. c.cur \in [MangroveOrders -> Number \cup {Null}]
  BY DEF Chains
<1>2. ASSUME NEW v, NEW n \in Number
      PROVE  ChainRow(v, n) \in ChainRows \cup {NoRow}
  <2>1. n - 1 \in Number \cup {Null}
    BY MaxVersionAssumption DEF Number, Null
  <2> QED BY <2>1 DEF ChainRow, ChainRows
<1> QED BY <1>1, <1>2 DEF ChainTables, Tables

\* A version can be added when there is a number for it, and is the next one.
LEMMA AddsToChain ==
  ASSUME NEW c \in Chains, NEW m \in MangroveOrders, c.cur[m] + 1 \in Number
  PROVE  /\ CanAddVersion(ChainTables(c.cur), m)
         /\ AddMangroveOrderVersion(ChainTables(c.cur), m).current[m] = c.cur[m] + 1
         /\ AddMangroveOrderVersion(ChainTables(c.cur), m).version[m]
              = [n \in Number |-> ChainRow(c.cur[m] + 1, n)]
<1> DEFINE d == ChainTables(c.cur)
           v == c.cur[m]
           row == [prev |-> v, tx |-> Column, val |-> Column]
           e == AddMangroveOrderVersion(d, m)
<1>1. /\ d \in Tables(MangroveOrders, ChainRows) /\ d.current[m] = v
      /\ d.current \in [MangroveOrders -> Number \cup {Null}]
      /\ d.version \in [MangroveOrders -> [Number -> ChainRows \cup {NoRow}]]
      /\ d.version[m] = [n \in Number |-> ChainRow(v, n)]
      /\ v \in Number \cup {Null}
  BY ChainTablesType DEF Tables, Chains
<1> HIDE DEF d
<1>2. e = [current |-> [d.current EXCEPT ![m] = v + 1],
           version |-> Put(d.version, m, v + 1, row)]
  BY <1>1, AddVersionTables DEF AddMangroveOrderVersion
<1> HIDE DEF e, v
<1>3. v \in Int /\ (v = Null \/ v \in Number) /\ v + 1 \in Number
  BY <1>1 DEF Number, Null, v
<1>4. e.current[m] = v + 1
  BY <1>1, <1>2
<1>5. e.version[m] = [n \in Number |-> ChainRow(v + 1, n)]
  <2>1. e.version[m] = [d.version[m] EXCEPT ![v + 1] = row]
    BY <1>1, <1>2 DEF Put
  <2>2. ASSUME NEW n \in Number
        PROVE  (IF n = v + 1 THEN row ELSE ChainRow(v, n)) = ChainRow(v + 1, n)
    <3>1. n \in Int
      BY DEF Number
    <3>2. CASE n = v + 1
      BY <1>3, <3>1, <3>2 DEF ChainRow
    <3>3. CASE n # v + 1
      <4>1. n <= v <=> n <= v + 1
        BY <1>3, <3>1, <3>3
      <4> QED BY <3>3, <4>1 DEF ChainRow
    <3> QED BY <3>2, <3>3
  <2> HIDE DEF row
  <2> QED BY <1>1, <2>1, <2>2
<1>6. CanAddVersion(d, m)
  <2>1. d.version[m][v + 1] = NoRow
    BY <1>1, <1>3 DEF ChainRow
  <2>2. Exists(d, m) => Current(d, m) # NoRow
    <3>1. SUFFICES ASSUME v \in Number
                   PROVE  Current(d, m) # NoRow
      BY <1>1, <1>3 DEF Exists
    <3>2. Current(d, m) = [prev |-> v - 1, tx |-> Column, val |-> Column]
      BY <1>1, <1>3, <3>1 DEF Current, ChainRow
    <3>3. v - 1 \in Value
      BY <3>1, Values
    <3> QED BY <3>2, <3>3, VersionRows
  <2> QED BY <1>1, <1>3, <2>1, <2>2 DEF CanAddVersion
<1> QED BY <1>4, <1>5, <1>6 DEF d, e, v

\* The latest version can be deleted when there is one, and the one before is left.
LEMMA DeletesFromChain ==
  ASSUME NEW c \in Chains, NEW m \in MangroveOrders, c.cur[m] # Null
  PROVE  /\ CanDeleteLatest(ChainTables(c.cur), m)
         /\ DeleteLatest(ChainTables(c.cur), m).current[m] = c.cur[m] - 1
         /\ DeleteLatest(ChainTables(c.cur), m).version[m]
              = [n \in Number |-> ChainRow(c.cur[m] - 1, n)]
<1> DEFINE d == ChainTables(c.cur)
           v == c.cur[m]
           e == DeleteLatest(d, m)
<1>1. /\ d \in Tables(MangroveOrders, ChainRows) /\ d.current[m] = v
      /\ d.current \in [MangroveOrders -> Number \cup {Null}]
      /\ d.version \in [MangroveOrders -> [Number -> ChainRows \cup {NoRow}]]
      /\ d.version[m] = [n \in Number |-> ChainRow(v, n)]
      /\ v \in Number
  BY ChainTablesType DEF Tables, Chains
<1>2. Chained(d, m)
  BY TablesChained DEF TablesFor
<1> HIDE DEF d, v
<1>3. Exists(d, m)
  BY <1>1 DEF Exists, v
<1>4. CanDeleteLatest(d, m) /\ Current(d, m).prev = v - 1
  BY <1>1, <1>2, <1>3, ChainedCanDelete
<1>5. e = [current |-> [d.current EXCEPT ![m] = v - 1],
           version |-> Put(d.version, m, v, NoRow)]
  BY <1>1, <1>4, DeleteLatestTables
<1> HIDE DEF e
<1>6. e.current[m] = v - 1
  BY <1>1, <1>5
<1>7. e.version[m] = [n \in Number |-> ChainRow(v - 1, n)]
  <2>1. e.version[m] = [d.version[m] EXCEPT ![v] = NoRow]
    BY <1>1, <1>5 DEF Put
  <2>2. ASSUME NEW n \in Number
        PROVE  (IF n = v THEN NoRow ELSE ChainRow(v, n)) = ChainRow(v - 1, n)
    <3>1. n \in Int /\ v \in Int
      BY <1>1 DEF Number
    <3>2. CASE n = v
      BY <3>1, <3>2 DEF ChainRow
    <3>3. CASE n # v
      <4>1. n <= v <=> n <= v - 1
        BY <3>1, <3>3
      <4> QED BY <3>3, <4>1 DEF ChainRow
    <3> QED BY <3>2, <3>3
  <2> QED BY <1>1, <2>1, <2>2
<1> QED BY <1>4, <1>6, <1>7 DEF d, e, v

\* What a handler finds of a MangroveOrder.
LEMMA ExistsInChain ==
  ASSUME NEW c \in Chains
  PROVE  /\ \A m \in MangroveOrders : Exists(ChainTables(c.cur), m) <=> c.cur[m] # Null
         /\ \A S \in SUBSET MangroveOrders : Known(TablesFor(c), S) = {m \in S : c.cur[m] # Null}
BY ChainTablesType DEF Exists, Known, TablesFor

\* A version of each of S is added at once.
LEMMA AddedChain ==
  ASSUME NEW c \in Chains, NEW b \in Chains, NEW S \in SUBSET MangroveOrders,
         b.rows = c.rows, \A m \in S : c.cur[m] + 1 \in Number,
         \A m \in MangroveOrders : b.cur[m] = IF m \in S THEN c.cur[m] + 1 ELSE c.cur[m]
  PROVE  Added(TablesFor(c), S) = TablesFor(b)
<1> DEFINE d == ChainTables(c.cur)
<1>1. /\ d.current = c.cur /\ b.cur \in [MangroveOrders -> Number \cup {Null}]
      /\ DOMAIN d.current = MangroveOrders /\ DOMAIN d.version = MangroveOrders
      /\ \A m \in MangroveOrders : d.version[m] = [n \in Number |-> ChainRow(c.cur[m], n)]
  BY ChainTablesType DEF Chains, Tables
<1>2. \A m \in S : /\ AddMangroveOrderVersion(d, m).current[m] = b.cur[m]
                   /\ AddMangroveOrderVersion(d, m).version[m]
                        = [n \in Number |-> ChainRow(b.cur[m], n)]
  BY AddsToChain
<1>3. TablesFor(c) = [rows |-> c.rows, mangroveOrders |-> d]
  BY DEF TablesFor
<1> HIDE DEF d
<1>4. [m \in DOMAIN d.current |->
         IF m \in S THEN AddMangroveOrderVersion(d, m).current[m] ELSE d.current[m]] = b.cur
  BY <1>1, <1>2
<1>5. [m \in DOMAIN d.version |->
         IF m \in S THEN AddMangroveOrderVersion(d, m).version[m] ELSE d.version[m]]
        = [m \in MangroveOrders |-> [n \in Number |-> ChainRow(b.cur[m], n)]]
  BY <1>1, <1>2
<1>6. OnEach(AddMangroveOrderVersion, d, S) = ChainTables(b.cur)
  BY <1>4, <1>5 DEF OnEach, ChainTables
<1>7. Added(TablesFor(c), S) = [rows |-> c.rows, mangroveOrders |-> OnEach(AddMangroveOrderVersion, d, S)]
  BY <1>3 DEF Added
<1> QED BY <1>6, <1>7 DEF TablesFor

\* The latest versions of all of S are deleted at once.
LEMMA DeletedChain ==
  ASSUME NEW c \in Chains, NEW b \in Chains, NEW S \in SUBSET MangroveOrders,
         b.rows = c.rows, \A m \in S : c.cur[m] # Null,
         \A m \in MangroveOrders : b.cur[m] = IF m \in S THEN c.cur[m] - 1 ELSE c.cur[m]
  PROVE  Deleted(TablesFor(c), S) = TablesFor(b)
<1> DEFINE d == ChainTables(c.cur)
<1>1. /\ d.current = c.cur /\ b.cur \in [MangroveOrders -> Number \cup {Null}]
      /\ DOMAIN d.current = MangroveOrders /\ DOMAIN d.version = MangroveOrders
      /\ \A m \in MangroveOrders : d.version[m] = [n \in Number |-> ChainRow(c.cur[m], n)]
  BY ChainTablesType DEF Chains, Tables
<1>2. \A m \in S : /\ DeleteLatest(d, m).current[m] = b.cur[m]
                   /\ DeleteLatest(d, m).version[m] = [n \in Number |-> ChainRow(b.cur[m], n)]
  BY DeletesFromChain
<1>3. TablesFor(c) = [rows |-> c.rows, mangroveOrders |-> d]
  BY DEF TablesFor
<1> HIDE DEF d
<1>4. [m \in DOMAIN d.current |->
         IF m \in S THEN DeleteLatest(d, m).current[m] ELSE d.current[m]] = b.cur
  BY <1>1, <1>2
<1>5. [m \in DOMAIN d.version |->
         IF m \in S THEN DeleteLatest(d, m).version[m] ELSE d.version[m]]
        = [m \in MangroveOrders |-> [n \in Number |-> ChainRow(b.cur[m], n)]]
  BY <1>1, <1>2
<1>6. OnEach(DeleteLatest, d, S) = ChainTables(b.cur)
  BY <1>4, <1>5 DEF OnEach, ChainTables
<1>7. Deleted(TablesFor(c), S) = [rows |-> c.rows, mangroveOrders |-> OnEach(DeleteLatest, d, S)]
  BY <1>3 DEF Deleted
<1> QED BY <1>6, <1>7 DEF TablesFor

\* Rows that are made sure of, created or deleted.
LEMMA ChangedRows ==
  ASSUME NEW c \in Chains, NEW R
  PROVE  [TablesFor(c) EXCEPT !.rows = R] = [rows |-> R, mangroveOrders |-> ChainTables(c.cur)]
BY DEF TablesFor

-----------------------------------------------------------------------------
(***************************************************************************)
(* What the statements of an event do without interruption is what         *)
(* AtomicHandlers says of the event, by its kind.                          *)
(***************************************************************************)
IsEffect(ev, d, e) == ~Refuses(ev, d) /\ e = Effect(ev, d)

\* Versions are added, or the latest ones deleted, of the S that c has.
LEMMA TurnedTables ==
  ASSUME NEW c \in Chains, NEW b \in Chains, NEW op \in OrderOps,
         NEW S \in SUBSET MangroveOrders, Turned(b, c, op, S)
  PROVE  LET d == TablesFor(c)
             K == Known(d, S)
         IN  /\ op = "latest"    => /\ TablesFor(b) = Deleted(d, S)
                                    /\ \A m \in S : CanDeleteLatest(d.mangroveOrders, m)
             /\ op = "findMany"  => /\ TablesFor(b) = Deleted(d, K)
                                    /\ \A m \in K : CanDeleteLatest(d.mangroveOrders, m)
             /\ op = "findOrNew" => /\ TablesFor(b) = Added(d, S)
                                    /\ \A m \in S : CanAddVersion(d.mangroveOrders, m)
             /\ op = "findFirst" => /\ TablesFor(b) = Added(d, K)
                                    /\ \A m \in K : CanAddVersion(d.mangroveOrders, m)
<1> DEFINE d == TablesFor(c)
           K == {m \in S : c.cur[m] # Null}
<1>1. d.mangroveOrders = ChainTables(c.cur) /\ Known(d, S) = K
  BY ExistsInChain DEF TablesFor
<1>2. /\ b.rows = c.rows
      /\ \A m \in MangroveOrders : b.cur[m] = IF m \in S THEN Turn(op, c.cur[m]) ELSE c.cur[m]
      /\ \A m \in S : May(op, c.cur[m])
  BY DEF Turned
<1> HIDE DEF d
<1>3. ASSUME NEW R \in SUBSET MangroveOrders, \A m \in R : c.cur[m] # Null,
             \A m \in MangroveOrders : b.cur[m] = IF m \in R THEN c.cur[m] - 1 ELSE c.cur[m]
      PROVE  TablesFor(b) = Deleted(d, R) /\ \A m \in R : CanDeleteLatest(d.mangroveOrders, m)
  <2>1. Deleted(TablesFor(c), R) = TablesFor(b)
    BY <1>2, <1>3, DeletedChain
  <2>2. \A m \in R : CanDeleteLatest(ChainTables(c.cur), m)
    BY <1>3, DeletesFromChain
  <2> QED BY <1>1, <2>1, <2>2 DEF d
<1>4. ASSUME NEW R \in SUBSET MangroveOrders, \A m \in R : c.cur[m] + 1 \in Number,
             \A m \in MangroveOrders : b.cur[m] = IF m \in R THEN c.cur[m] + 1 ELSE c.cur[m]
      PROVE  TablesFor(b) = Added(d, R) /\ \A m \in R : CanAddVersion(d.mangroveOrders, m)
  <2>1. Added(TablesFor(c), R) = TablesFor(b)
    BY <1>2, <1>4, AddedChain
  <2>2. \A m \in R : CanAddVersion(ChainTables(c.cur), m)
    BY <1>4, AddsToChain
  <2> QED BY <1>1, <2>1, <2>2 DEF d
<1>5. ASSUME op = "latest"
      PROVE  TablesFor(b) = Deleted(d, S) /\ \A m \in S : CanDeleteLatest(d.mangroveOrders, m)
  BY <1>2, <1>3, <1>5 DEF Turn, May
<1>6. ASSUME op = "findMany"
      PROVE  TablesFor(b) = Deleted(d, K) /\ \A m \in K : CanDeleteLatest(d.mangroveOrders, m)
  <2>1. \A m \in MangroveOrders : b.cur[m] = IF m \in K THEN c.cur[m] - 1 ELSE c.cur[m]
    BY <1>2, <1>6 DEF Turn
  <2> QED BY <1>3, <2>1
<1>7. ASSUME op = "findOrNew"
      PROVE  TablesFor(b) = Added(d, S) /\ \A m \in S : CanAddVersion(d.mangroveOrders, m)
  BY <1>2, <1>4, <1>7 DEF Turn, May
<1>8. ASSUME op = "findFirst"
      PROVE  TablesFor(b) = Added(d, K) /\ \A m \in K : CanAddVersion(d.mangroveOrders, m)
  <2>1. \A m \in MangroveOrders : b.cur[m] = IF m \in K THEN c.cur[m] + 1 ELSE c.cur[m]
    BY <1>2, <1>8 DEF Turn
  <2>2. \A m \in K : c.cur[m] + 1 \in Number
    BY <1>2, <1>8 DEF May
  <2> QED BY <1>4, <2>1, <2>2
<1> HIDE DEF K
<1> QED BY <1>1, <1>5, <1>6, <1>7, <1>8 DEF d

\* The undo of an order: it is deleted, then the latest versions.
LEMMA UndoneOrder ==
  ASSUME NEW ev \in Event, NEW c \in Chains, NEW e, ev.kind = "undoOrder",
         Ran(KindStmts(ev), c, e)
  PROVE  e \in Chains /\ IsEffect(ev, TablesFor(c), TablesFor(e))
<1> DEFINE k == ev.order
           d == TablesFor(c)
           K == Known(d, ev.on)
<1>1. k \in Keys /\ ev.on \in SUBSET MangroveOrders
  BY DEF Event
<1>2. KindStmts(ev) = Delete(Row(k)) \o On("findMany", ev)
  BY DEF KindStmts
<1>3. Delete(Row(k)) \in Seq(TopLevel) /\ On("findMany", ev) \in Seq(TopLevel)
  BY StatementsType, OnType DEF OrderOps
<1>4. PICK a \in Chains : Ran(Delete(Row(k)), c, a) /\ Ran(On("findMany", ev), a, e)
  BY <1>2, <1>3, RanSplits
<1>5. PICK x \in Chains : /\ Did(Query("references", Row(k)), c, x)
                          /\ Did(Query("delete", Row(k)), x, a)
  BY <1>4, RanFew DEF Delete
<1>6. /\ x.cur = c.cur /\ x.rows = c.rows
      /\ \A m \in MangroveOrders : OrderOf[m] = k => c.cur[m] = Null
  BY <1>1, <1>5, DidRow
<1>7. a.cur = c.cur /\ k \in c.rows /\ a.rows = c.rows \ {k}
  BY <1>1, <1>5, <1>6, DidRow
<1>8. e \in Chains /\ Turned(e, a, "findMany", ev.on)
  BY <1>4, OnRun DEF OrderOps
<1> DEFINE b == [rows |-> c.rows, cur |-> e.cur]
<1>9. b \in Chains /\ b.rows = c.rows /\ b.cur = e.cur
  BY <1>8 DEF Chains
<1> HIDE DEF b
<1>10. Turned(b, c, "findMany", ev.on)
  BY <1>7, <1>8, <1>9 DEF Turned
<1>11. TablesFor(b) = Deleted(d, K) /\ \A m \in K : CanDeleteLatest(d.mangroveOrders, m)
  BY <1>1, <1>9, <1>10, TurnedTables DEF OrderOps
<1>12. ~Refuses(ev, d)
  <2>1. \A m \in Known(d, MangroveOrders) : OrderOf[m] # k
    BY <1>6, ExistsInChain
  <2>2. k \in d.rows
    BY <1>7 DEF TablesFor
  <2> HIDE DEF d
  <2> QED BY <1>11, <2>1, <2>2 DEF Refuses
<1>13. TablesFor(e) = Effect(ev, d)
  <2>1. Effect(ev, d) = [TablesFor(b) EXCEPT !.rows = TablesFor(b).rows \ {k}]
    BY <1>11 DEF Effect
  <2>2. TablesFor(b).rows = c.rows
    BY <1>9 DEF TablesFor
  <2>3. e.rows = c.rows \ {k}
    BY <1>7, <1>8 DEF Turned
  <2>4. Effect(ev, d) = [rows |-> e.rows, mangroveOrders |-> ChainTables(b.cur)]
    BY <1>9, <2>1, <2>2, <2>3, ChangedRows
  <2> QED BY <1>9, <2>4 DEF TablesFor
<1> QED BY <1>8, <1>12, <1>13 DEF IsEffect

\* What an event of any kind does with the rows it has made sure of.
LEMMA KindRun ==
  ASSUME NEW ev \in Event, NEW c \in Chains, NEW e, Ran(KindStmts(ev), c, e)
  PROVE  e \in Chains /\ IsEffect(ev, TablesFor(c), TablesFor(e))
<1> DEFINE d == TablesFor(c)
<1>1. /\ ev.kind \in {"ensure", "order", "undoOrder", "summary", "undoSummary", "expiry"}
      /\ ev.order \in Keys /\ ev.on \in SUBSET MangroveOrders
  BY DEF Event
<1>2. CASE ev.kind = "ensure"
  <2>1. e = c
    BY <1>2, RanFew DEF KindStmts
  <2>2. Effect(ev, d) = d /\ ~Refuses(ev, d)
    BY <1>2 DEF Effect, Refuses
  <2> QED BY <2>1, <2>2 DEF IsEffect
<1>3. CASE ev.kind = "order"
  <2>1. Did(Create(Row(ev.order), Present), c, e)
    BY <1>3, RanFew DEF KindStmts
  <2>2. e \in Chains /\ e.cur = c.cur /\ ev.order \notin c.rows /\ e.rows = c.rows \cup {ev.order}
    BY <1>1, <2>1, DidRow
  <2>3. d.rows = c.rows
    BY DEF TablesFor
  <2>4. ~Refuses(ev, d)
    BY <1>3, <2>2, <2>3 DEF Refuses
  <2>5. Effect(ev, d) = [d EXCEPT !.rows = d.rows \cup {ev.order}]
    BY <1>3 DEF Effect
  <2>6. Effect(ev, d) = [rows |-> e.rows, mangroveOrders |-> ChainTables(c.cur)]
    BY <2>2, <2>3, <2>5, ChangedRows
  <2> QED BY <2>2, <2>4, <2>6 DEF IsEffect, TablesFor
<1>4. CASE ev.kind = "undoOrder"
  BY <1>4, UndoneOrder
<1>5. ASSUME NEW op \in OrderOps, KindStmts(ev) = On(op, ev)
      PROVE  e \in Chains /\ Turned(e, c, op, ev.on)
  BY <1>5, OnRun
<1>6. CASE ev.kind = "summary"
  <2>1. e \in Chains /\ Turned(e, c, "findOrNew", ev.on)
    BY <1>5, <1>6 DEF KindStmts, OrderOps
  <2>2. TablesFor(e) = Added(d, ev.on) /\ \A m \in ev.on : CanAddVersion(d.mangroveOrders, m)
    BY <1>1, <2>1, TurnedTables DEF OrderOps
  <2> HIDE DEF d
  <2>3. Effect(ev, d) = Added(d, ev.on) /\ ~Refuses(ev, d)
    BY <1>6, <2>2 DEF Effect, Refuses
  <2> QED BY <2>1, <2>2, <2>3 DEF IsEffect, d
<1>7. CASE ev.kind = "expiry"
  <2>1. e \in Chains /\ Turned(e, c, "findFirst", ev.on)
    BY <1>5, <1>7 DEF KindStmts, OrderOps
  <2>2. /\ TablesFor(e) = Added(d, Known(d, ev.on))
        /\ \A m \in Known(d, ev.on) : CanAddVersion(d.mangroveOrders, m)
    BY <1>1, <2>1, TurnedTables DEF OrderOps
  <2> HIDE DEF d
  <2>3. Effect(ev, d) = Added(d, Known(d, ev.on)) /\ ~Refuses(ev, d)
    BY <1>7, <2>2 DEF Effect, Refuses
  <2> QED BY <2>1, <2>2, <2>3 DEF IsEffect, d
<1>8. CASE ev.kind = "undoSummary"
  <2>1. e \in Chains /\ Turned(e, c, "latest", ev.on)
    BY <1>5, <1>8 DEF KindStmts, OrderOps
  <2>2. TablesFor(e) = Deleted(d, ev.on) /\ \A m \in ev.on : CanDeleteLatest(d.mangroveOrders, m)
    BY <1>1, <2>1, TurnedTables DEF OrderOps
  <2> HIDE DEF d
  <2>3. Effect(ev, d) = Deleted(d, ev.on) /\ ~Refuses(ev, d)
    BY <1>8, <2>2 DEF Effect, Refuses
  <2> QED BY <2>1, <2>2, <2>3 DEF IsEffect, d
<1> QED BY <1>1, <1>2, <1>3, <1>4, <1>6, <1>7, <1>8

(***************************************************************************)
(* An event that is handled without interruption is handled as in one      *)
(* step.                                                                   *)
(***************************************************************************)
LEMMA EventRun ==
  ASSUME NEW ev \in Event, NEW c \in Chains, NEW e, Ran(Statements(ev), c, e)
  PROVE  e \in Chains /\ \A D : TablesFor(c) \in D => TablesFor(e) \in Handled(D, ev)
<1>1. PICK b \in Chains : Ran(EnsureStmts(ev), c, b) /\ Ran(KindStmts(ev), b, e)
  BY StatementsType, RanSplits
<1>2. b.cur = c.cur /\ b.rows = c.rows \cup ToSet(ev.ensures)
  BY <1>1, EnsuresRun
<1>3. TablesFor(b) = WithRows(ev, TablesFor(c))
  <2>1. WithRows(ev, TablesFor(c)) =
          [TablesFor(c) EXCEPT !.rows = TablesFor(c).rows \cup ToSet(ev.ensures)]
    BY DEF WithRows
  <2>2. TablesFor(c).rows = c.rows
    BY DEF TablesFor
  <2> QED BY <1>2, <2>1, <2>2, ChangedRows DEF TablesFor
<1>4. e \in Chains /\ IsEffect(ev, WithRows(ev, TablesFor(c)), TablesFor(e))
  BY <1>1, <1>3, KindRun
<1> QED BY <1>4 DEF IsEffect, Handled

-----------------------------------------------------------------------------
(***************************************************************************)
(* The tables h[i] are left when the first i events after number o of E    *)
(* are handled in one step each, and one of D is found.                    *)
(***************************************************************************)
IsTurns(h, E, o, n, D) ==
  h = [i \in 0..n |-> IF i = 0 THEN D ELSE Handled(h[i - 1], E[o + i])]

\* Such tables exist.
LEMMA TurnsExist ==
  ASSUME NEW n \in Nat, NEW E, NEW o, NEW D
  PROVE  \E h : IsTurns(h, E, o, n, D)
<1> DEFINE T == {k \in 0..n : \E h : IsTurns(h, E, o, k, D)}
<1>1. 0 \in T
  <2> DEFINE h == [i \in 0..0 |-> D]
  <2>1. \A i \in 0..0 : i = 0
    OBVIOUS
  <2>2. h = [i \in 0..0 |-> IF i = 0 THEN D ELSE Handled(h[i - 1], E[o + i])]
    BY <2>1
  <2> HIDE DEF h
  <2>3. IsTurns(h, E, o, 0, D)
    BY <2>2 DEF IsTurns
  <2> QED BY <2>3
<1>2. ASSUME NEW k \in 1..n, k - 1 \in T
      PROVE  k \in T
  <2>1. PICK g : IsTurns(g, E, o, k - 1, D)
    BY <1>2
  <2> DEFINE F(x, i) == IF i = 0 THEN D ELSE Handled(x, E[o + i])
             h == [i \in 0..k |-> F(g[i - 1], i)]
  <2>2. \A i \in 0..(k - 1) : i \in 0..k /\ h[i] = g[i]
    <3>1. \A i \in 0..(k - 1) : g[i] = F(g[i - 1], i)
      BY <2>1 DEF IsTurns
    <3>2. \A i \in 0..(k - 1) : i \in 0..k
      OBVIOUS
    <3> HIDE DEF F
    <3> QED BY <3>1, <3>2
  <2>3. ASSUME NEW i \in 0..k
        PROVE  F(g[i - 1], i) = F(h[i - 1], i)
    <3>1. CASE i = 0
      BY <3>1
    <3>2. CASE i # 0
      <4>1. i - 1 \in 0..(k - 1)
        BY <3>2
      <4>2. h[i - 1] = g[i - 1]
        BY <2>2, <4>1
      <4> HIDE DEF F, h
      <4> QED BY <4>2
    <3> QED BY <3>1, <3>2
  <2>4. h = [i \in 0..k |-> F(h[i - 1], i)]
    <3>1. h = [i \in 0..k |-> F(g[i - 1], i)]
      OBVIOUS
    <3> HIDE DEF h, F
    <3> QED BY <2>3, <3>1
  <2> HIDE DEF h
  <2>5. IsTurns(h, E, o, k, D)
    BY <2>4 DEF IsTurns
  <2>6. k \in 0..n
    OBVIOUS
  <2> QED BY <2>5, <2>6
<1> HIDE DEF T
<1>3. n \in T
  <2>1. \A k \in 0..n : k \in T
    BY <1>1, <1>2, CountUp
  <2> QED BY <2>1
<1> QED BY <1>3 DEF T

\* InOneStep is the last of them.
LEMMA OneStepTurns ==
  ASSUME NEW s \in Streams, batch[s] \in Nat
  PROVE  \E h : /\ IsTurns(h, script[s], done[s], batch[s], {Committed})
                /\ InOneStep(s) = h[batch[s]]
<1> DEFINE P(h) == IsTurns(h, script[s], done[s], batch[s], {Committed})
           f == CHOOSE h : P(h)
<1>1. \E h : P(h)
  BY TurnsExist
<1>2. P(f)
  <2> HIDE DEF P
  <2> QED BY <1>1
<1>3. InOneStep(s) = f[batch[s]]
  BY DEF InOneStep, NextInOneStep, IsTurns
<1> HIDE DEF f
<1> QED BY <1>2, <1>3

(***************************************************************************)
(* Events whose statements are done without interruption leave what they   *)
(* leave when they are handled in one step each.                           *)
(***************************************************************************)
LEMMA EventsRun ==
  ASSUME NEW n \in Nat, NEW E, NEW o, \A i \in 1..n : E[o + i] \in Event,
         NEW c \in Chains, NEW e, Ran(FlattenSeq([i \in 1..n |-> Statements(E[o + i])]), c, e),
         NEW h, IsTurns(h, E, o, n, {TablesFor(c)})
  PROVE  TablesFor(e) \in h[n]
<1> DEFINE w == [i \in 1..n |-> Statements(E[o + i])]
<1>1. w \in Seq(Seq(TopLevel)) /\ Len(w) = n /\ \A i \in 1..n : w[i] = Statements(E[o + i])
  <2>1. \A i \in 1..n : Statements(E[o + i]) \in Seq(TopLevel)
    BY StatementsType
  <2>2. w \in [1..n -> Seq(TopLevel)]
    BY <2>1
  <2> QED BY <2>2
<1>2. PICK g \in [0..n -> Seq(TopLevel)] :
        g[0] = <<>> /\ g[n] = FlattenSeq(w) /\ \A i \in 1..n : g[i] = g[i - 1] \o w[i]
  <2> HIDE DEF w
  <2> QED BY <1>1, FlattenPrefixes DEF IsPrefixes
<1> DEFINE T == {i \in 0..n : \A x : Ran(g[i], c, x) => x \in Chains /\ TablesFor(x) \in h[i]}
<1>3. 0 \in T
  <2>1. h[0] = {TablesFor(c)}
    BY DEF IsTurns
  <2>2. \A x : Ran(g[0], c, x) => x = c
    BY <1>2, RanFew
  <2> QED BY <2>1, <2>2
<1>4. ASSUME NEW i \in 1..n, i - 1 \in T
      PROVE  i \in T
  <2>1. i - 1 \in 0..n /\ i \in 0..n /\ g[i - 1] \in Seq(TopLevel)
    BY <1>2
  <2>2. g[i] = g[i - 1] \o Statements(E[o + i]) /\ Statements(E[o + i]) \in Seq(TopLevel)
    BY <1>1, <1>2, StatementsType
  <2>3. h[i] = Handled(h[i - 1], E[o + i])
    <3>1. \A j \in 0..n : h[j] = IF j = 0 THEN {TablesFor(c)} ELSE Handled(h[j - 1], E[o + j])
      BY DEF IsTurns
    <3>2. i # 0
      OBVIOUS
    <3> QED BY <2>1, <3>1, <3>2
  <2>4. ASSUME NEW x, Ran(g[i], c, x)
        PROVE  x \in Chains /\ TablesFor(x) \in h[i]
    <3>1. PICK b \in Chains : Ran(g[i - 1], c, b) /\ Ran(Statements(E[o + i]), b, x)
      BY <2>1, <2>2, <2>4, RanSplits
    <3>2. TablesFor(b) \in h[i - 1]
      BY <1>4, <3>1
    <3> QED BY <2>3, <3>1, <3>2, EventRun
  <2> QED BY <2>1, <2>4
<1>5. n \in T
  <2> HIDE DEF T, w
  <2>1. \A i \in 0..n : i \in T
    BY <1>3, <1>4, CountUp
  <2> QED BY <2>1
<1> QED BY <1>2, <1>5

-----------------------------------------------------------------------------
(***************************************************************************)
(* A transaction that was not overtaken leaves behind what its events      *)
(* would, one after another in one step each: whatever other transactions  *)
(* have begun and written in that time, nothing that a handler has read    *)
(* was changed before the handler used it.                                 *)
(***************************************************************************)
THEOREM AtomicWithoutRaces == Spec => AtomicUnlessOvertaken
<1> DEFINE A == \A s \in Streams :
                  done'[s] # done[s] /\ alone[s] /\ VersionsChained => Committed' \in InOneStep(s)
<1>1. ASSUME IInv, [Next]_vars
      PROVE  A
  <2> SUFFICES ASSUME NEW s \in Streams, done'[s] # done[s], alone[s], VersionsChained
               PROVE  Committed' \in InOneStep(s)
    OBVIOUS
  <2>1. Commit(s)
    BY <1>1, OnlyCommits
  <2>2. PICK C : IsRun(db, Items(s), Len(Items(s)), C) /\ Holds(db', C[Len(Items(s))])
    BY <1>1, <2>1, CommitRun
  <2>3. Items(s) \in Seq(TopLevel)
    BY <1>1, <2>1, CommitRun
  <2> DEFINE l == Len(Items(s))
  <2>4. l \in Nat /\ 0 \in 0..l /\ l \in 0..l
    BY <2>3
  <2>5. /\ C[0] \in Chains /\ C[l] \in Chains /\ Holds(db, C[0])
        /\ Ran(Items(s), C[0], C[l])
    BY <2>2, <2>4 DEF IsRun, Ran, RunOf
  <2>6. Committed = TablesFor(C[0]) /\ Committed' = TablesFor(C[l])
    <3>1. TablesOf(db) = TablesFor(C[0]) /\ TablesOf(db') = TablesFor(C[l])
      BY <2>2, <2>5, HoldsTables
    <3> QED BY <3>1 DEF Committed, TablesOf
  <2>7. /\ batch[s] \in Nat
        /\ \A i \in 1..batch[s] : script[s][done[s] + i] \in Event
    <3>1. Types /\ batch[s] \in Nat /\ done[s] + batch[s] <= Len(script[s])
      BY <1>1, SessionAssumption DEF IInv, Inv, Types
    <3> QED BY <3>1, EventsType
  <2>8. PICK h : /\ IsTurns(h, script[s], done[s], batch[s], {Committed})
                 /\ InOneStep(s) = h[batch[s]]
    BY <2>7, OneStepTurns
  <2>9. Ran(FlattenSeq([i \in 1..batch[s] |-> Statements(script[s][done[s] + i])]), C[0], C[l])
    BY <2>5 DEF Items
  <2>10. TablesFor(C[l]) \in h[batch[s]]
    <3> HIDE DEF l
    <3> QED BY <2>5, <2>6, <2>7, <2>8, <2>9, EventsRun
  <2> QED BY <2>6, <2>8, <2>10
<1>2. IInv /\ [Next]_vars => [A]_vars
  BY <1>1
<1>3. Spec => [][A]_vars
  BY <1>2, IInvInit, IInvNext, PTL DEF Spec
<1> QED BY <1>3 DEF AtomicUnlessOvertaken
=============================================================================
