------------------------- MODULE KandelHistoryProofs -------------------------
(***************************************************************************)
(* Proofs about KandelHistory.  The versions of the offer are the orders   *)
(* that the mangrove stream has seen and that survive, and the chain is    *)
(* ordered by time; so the orders up to a time are the first of them, and  *)
(* the readers by time find their end.                                     *)
(***************************************************************************)
EXTENDS KandelHistory, Lemmas

\* An entry of the log.
Entry == [undo : BOOLEAN, tx : Txs, time : 0..MaxTime]

-----------------------------------------------------------------------------
(***************************************************************************)
(* What OrdersUpTo makes of one more entry.                                *)
(***************************************************************************)
Counts(e, t) == Kind[e.tx] = "order" /\ e.time <= t

Longer(orders, e, t) == IF Counts(e, t) THEN Append(orders, e) ELSE orders

(***************************************************************************)
(* The orders are made entry by entry, as a trace of Longer.               *)
(***************************************************************************)
LEMMA OrdersTrace ==
  ASSUME NEW S, NEW s \in Seq(S), NEW t
  PROVE  \E g : /\ IsTrace(g, Len(s), Seq(S), <<>>,
                           [p \in Seq(S) \X (1..Len(s)) |-> Longer(p[1], s[p[2]], t)])
                /\ g[Len(s)] = OrdersUpTo(s, t)
<1> DEFINE n == Len(s)
           V == Seq(S)
           F == [p \in V \X (1..n) |-> Longer(p[1], s[p[2]], t)]
           P(h) == h = [T \in SUBSET DOMAIN s |->
                         IF T = {} THEN <<>>
                         ELSE Longer(h[T \ {Max(T)}], s[Max(T)], t)]
           f == CHOOSE h : P(h)
           g == [i \in 0..n |-> f[1..i]]
<1> HIDE DEF f
<1>1. n \in Nat /\ DOMAIN s = 1..n /\ (\A i \in 1..n : s[i] \in S) /\ <<>> \in V
  OBVIOUS
<1>2. F \in [V \X (1..n) -> V]
  <2> SUFFICES ASSUME NEW p \in V \X (1..n)
               PROVE  Longer(p[1], s[p[2]], t) \in V
    OBVIOUS
  <2>1. p[1] \in V /\ s[p[2]] \in S
    BY <1>1
  <2>2. Append(p[1], s[p[2]]) \in V
    BY <2>1
  <2> QED BY <2>1, <2>2 DEF Longer
<1> HIDE DEF V
<1>3. PICK h : FoldsSubsets(h, n, V, <<>>, F)
  <2> HIDE DEF n, F, P
  <2> QED BY <1>1, <1>2, FoldExists
<1>4. P(h)
  <2> USE DEF FoldsSubsets
  <2>1. ASSUME NEW T \in SUBSET (1..n), T # {}
        PROVE  h[T] = Longer(h[T \ {Max(T)}], s[Max(T)], t)
    <3>1. Max(T) \in 1..n
      BY <1>1, <2>1, MaxOfSubset
    <3>2. h[T \ {Max(T)}] \in V
      BY <1>3
    <3>3. Stepped(F, h[T \ {Max(T)}], Max(T)) = Longer(h[T \ {Max(T)}], s[Max(T)], t)
      BY <3>1, <3>2 DEF Stepped
    <3> HIDE DEF F
    <3> QED BY <1>3, <2>1, <3>3
  <2> QED BY <1>1, <1>3, <2>1
<1>5. P(f)
  <2> HIDE DEF P
  <2> QED BY <1>4 DEF f
<1>6. OrdersUpTo(s, t) = f[1..n]
  BY <1>1 DEF OrdersUpTo, FoldLeft, MapThenFoldSet, f, Longer, Counts
<1>7. ASSUME NEW i \in 1..n, f[1..(i - 1)] \in V
      PROVE  f[1..i] = Stepped(F, f[1..(i - 1)], i)
  <2>1. 1..i \in SUBSET (1..n) /\ Max(1..i) = i /\ (1..i) \ {i} = 1..(i - 1)
        /\ 1..i # {}
    BY <1>1, MaxInterval
  <2>2. f[1..i] = Longer(f[1..(i - 1)], s[i], t)
    BY <1>1, <1>5, <2>1
  <2> QED BY <2>2, <1>7 DEF Stepped
<1>8. f[{}] = <<>>
  BY <1>5
<1>9. IsTrace(g, n, V, <<>>, F)
  <2> HIDE DEF n, F, P
  <2> QED BY <1>1, <1>2, <1>7, <1>8, FoldTrace
<1>10. g[n] = OrdersUpTo(s, t)
  BY <1>1, <1>6
<1> QED BY <1>9, <1>10 DEF V

(***************************************************************************)
(* One more entry counts or not.                                           *)
(***************************************************************************)
LEMMA OrdersAppend ==
  ASSUME NEW S, NEW s \in Seq(S), NEW e \in S, NEW t
  PROVE  /\ OrdersUpTo(s, t) \in Seq(S)
         /\ OrdersUpTo(Append(s, e), t) = Longer(OrdersUpTo(s, t), e, t)
<1> DEFINE u == Append(s, e)
           n == Len(s)
           V == Seq(S)
           F == [p \in V \X (1..Len(s)) |-> Longer(p[1], s[p[2]], t)]
           G == [p \in V \X (1..Len(u)) |-> Longer(p[1], u[p[2]], t)]
<1>1. /\ u \in Seq(S) /\ n \in Nat /\ Len(u) = n + 1
      /\ u[n + 1] = e /\ \A i \in 1..n : u[i] = s[i]
  BY AppendProperties
<1>2. PICK g : IsTrace(g, n, V, <<>>, F) /\ g[n] = OrdersUpTo(s, t)
  BY OrdersTrace
<1> HIDE DEF u
<1>3. PICK h : IsTrace(h, n + 1, V, <<>>, G) /\ h[n + 1] = OrdersUpTo(u, t)
  <2>1. PICK h : IsTrace(h, Len(u), V, <<>>, G) /\ h[Len(u)] = OrdersUpTo(u, t)
    BY <1>1, OrdersTrace
  <2> HIDE DEF V, G
  <2> QED BY <1>1, <2>1
<1>4. \A v \in V : \A k \in 1..n : Stepped(F, v, k) = Stepped(G, v, k)
  BY <1>1 DEF Stepped
<1>5. \A v \in V : Stepped(G, v, n + 1) = Longer(v, e, t)
  BY <1>1 DEF Stepped
<1> HIDE DEF n, V, F, G
<1>6. g[n] \in V /\ h[n + 1] = Stepped(G, g[n], n + 1)
  BY <1>1, <1>2, <1>3, <1>4, TraceAppend
<1> QED BY <1>2, <1>3, <1>5, <1>6 DEF u, V

(***************************************************************************)
(* Without entries there are no orders.                                    *)
(***************************************************************************)
LEMMA OrdersNone ==
  ASSUME NEW t
  PROVE  OrdersUpTo(<<>>, t) = <<>>
<1>1. <<>> \in Seq({}) /\ Len(<<>>) = 0
  OBVIOUS
<1>2. PICK g : /\ IsTrace(g, Len(<<>>), Seq({}), <<>>,
                          [p \in Seq({}) \X (1..Len(<<>>)) |-> Longer(p[1], (<<>>)[p[2]], t)])
               /\ g[Len(<<>>)] = OrdersUpTo(<<>>, t)
  BY <1>1, OrdersTrace
<1> QED BY <1>1, <1>2 DEF IsTrace

-----------------------------------------------------------------------------
(***************************************************************************)
(* The chains that a log comes to on the way.                              *)
(***************************************************************************)

\* What may come behind a chain: a transaction that is not on it, of a block
\* that is not earlier, or what takes the last one back.
Follows(e, chain) ==
  /\ e.undo => chain # <<>> /\ e = TakenBack(Last(chain))
  /\ ~e.undo => \A i \in 1..Len(chain) : chain[i].tx # e.tx /\ chain[i].time <= e.time

Grounded(entries) == \A k \in 1..Len(entries) : Follows(entries[k], ChainAt(entries, k - 1))

(***************************************************************************)
(* What may come behind the chain keeps the log grounded.                  *)
(***************************************************************************)
LEMMA GroundedAppend ==
  ASSUME NEW l \in Seq(Entry), NEW e \in Entry, Grounded(l), Follows(e, Surviving(l))
  PROVE  Grounded(Append(l, e))
<1> DEFINE t == Append(l, e)
           n == Len(l)
<1>1. /\ n \in Nat /\ Len(t) = n + 1 /\ t[n + 1] = e
      /\ \A i \in 1..n : t[i] = l[i]
  BY AppendProperties
<1>2. \A k \in 0..n : ChainAt(t, k) = ChainAt(l, k)
  BY ChainAtAppend
<1>3. ChainAt(l, n) = Surviving(l)
  BY ChainAtEnds
<1> HIDE DEF t
<1>4. SUFFICES ASSUME NEW k \in 1..(n + 1)
               PROVE  Follows(t[k], ChainAt(t, k - 1))
  BY <1>1 DEF Grounded, t
<1>5. CASE k = n + 1
  <2>1. n \in 0..n /\ k - 1 = n
    BY <1>1, <1>5
  <2> QED BY <1>1, <1>2, <1>3, <1>5, <2>1
<1>6. CASE k # n + 1
  <2>1. k \in 1..n /\ k - 1 \in 0..n
    BY <1>1, <1>6
  <2> QED BY <1>1, <1>2, <2>1 DEF Grounded
<1> QED BY <1>5, <1>6

(***************************************************************************)
(* A chain and the one after the next entry differ in an entry at the end  *)
(* that is like the next one.                                              *)
(***************************************************************************)
EntryBetween(x, e, before, after) ==
  /\ x \in Entry /\ x.tx = e.tx /\ x.time = e.time
  /\ e.undo => before = Append(after, x)
  /\ ~e.undo => after = Append(before, x) /\ x = e

\* The entry between a chain and the next is of the transaction that is handled.
LEMMA ChainStep ==
  ASSUME NEW l \in Seq(Entry), Grounded(l), NEW k \in 1..Len(l)
  PROVE  /\ ChainAt(l, k - 1) \in Seq(Entry) /\ ChainAt(l, k) \in Seq(Entry)
         /\ \E x : EntryBetween(x, l[k], ChainAt(l, k - 1), ChainAt(l, k))
<1> DEFINE c == ChainAt(l, k - 1)
           d == ChainAt(l, k)
           e == l[k]
<1>1. c \in Seq(Entry) /\ d \in Seq(Entry) /\ d = Shorter(c, e)
  BY ChainAtStep
<1>2. e \in Entry /\ e.undo \in BOOLEAN
  <2>1. e \in Entry
    OBVIOUS
  <2> HIDE DEF e
  <2> QED BY <2>1 DEF Entry
<1>3. Follows(e, c)
  BY DEF Grounded
<1> HIDE DEF c, d, e
<1>4. CASE e.undo
  <2>1. c # <<>> /\ e = TakenBack(Last(c)) /\ d = Front(c)
    BY <1>1, <1>3, <1>4 DEF Follows, Shorter
  <2>2. Last(c) \in Entry /\ c = Append(d, Last(c))
    BY <1>1, <2>1, FrontLast
  <2>3. e.tx = Last(c).tx /\ e.time = Last(c).time
    BY <2>1, <2>2 DEF TakenBack, Entry
  <2>4. EntryBetween(Last(c), e, c, d)
    BY <1>4, <2>2, <2>3 DEF EntryBetween
  <2> QED BY <1>1, <2>4 DEF c, d, e
<1>5. CASE ~e.undo
  <2>1. EntryBetween(e, e, c, d)
    BY <1>1, <1>2, <1>5 DEF EntryBetween, Shorter
  <2> QED BY <1>1, <2>1 DEF c, d, e
<1> QED BY <1>4, <1>5

-----------------------------------------------------------------------------
(***************************************************************************)
(* A transaction is on the chain once, and the chain is ordered by time.   *)
(***************************************************************************)
Ordered(c) ==
  \A i, j \in 1..Len(c) : i < j => c[i].tx # c[j].tx /\ c[i].time <= c[j].time

\* A longer chain is ordered when what is added is new and not earlier.
LEMMA OrderedAppend ==
  ASSUME NEW c \in Seq(Entry), NEW x \in Entry
  PROVE  /\ Ordered(Append(c, x)) =>
              /\ Ordered(c)
              /\ \A i \in 1..Len(c) : c[i].tx # x.tx /\ c[i].time <= x.time
         /\ /\ Ordered(c)
            /\ \A i \in 1..Len(c) : c[i].tx # x.tx /\ c[i].time <= x.time
            => Ordered(Append(c, x))
<1> DEFINE d == Append(c, x)
           n == Len(c)
<1>1. /\ Len(d) = n + 1 /\ n \in Nat /\ d[n + 1] = x
      /\ \A i \in 1..n : d[i] = c[i]
  BY AppendProperties
<1> HIDE DEF d, n
<1>2. \A i \in 1..n : i \in 1..Len(d) /\ n + 1 \in 1..Len(d) /\ i < n + 1
  BY <1>1
<1>3. ASSUME Ordered(d)
      PROVE  /\ Ordered(c)
             /\ \A i \in 1..n : c[i].tx # x.tx /\ c[i].time <= x.time
  BY <1>1, <1>2, <1>3 DEF Ordered, n
<1>4. ASSUME Ordered(c), \A i \in 1..n : c[i].tx # x.tx /\ c[i].time <= x.time
      PROVE  Ordered(d)
  <2>1. \A i, j \in 1..Len(d) : i < j => i \in 1..n /\ (j \in 1..n \/ j = n + 1)
    BY <1>1
  <2> QED BY <1>1, <1>4, <2>1 DEF Ordered, n
<1> QED BY <1>3, <1>4 DEF d, n

\* Every chain that a log comes to on the way is ordered.
LEMMA ChainOrdered ==
  ASSUME NEW l \in Seq(Entry), Grounded(l), NEW k \in 0..Len(l)
  PROVE  Ordered(ChainAt(l, k))
<1> DEFINE n == Len(l)
           T == {i \in 0..n : Ordered(ChainAt(l, i))}
<1>1. n \in Nat
  OBVIOUS
<1>2. 0 \in T
  <2>1. ChainAt(l, 0) = <<>> /\ Len(<<>>) = 0 /\ 0 \in 0..n
    BY <1>1, ChainAtEnds
  <2>2. Ordered(<<>>)
    BY DEF Ordered
  <2> QED BY <2>1, <2>2
<1>3. ASSUME NEW i \in 1..n, i - 1 \in T
      PROVE  i \in T
  <2>1. Ordered(ChainAt(l, i - 1)) /\ i \in 0..n
    BY <1>3
  <2>2. /\ ChainAt(l, i - 1) \in Seq(Entry) /\ ChainAt(l, i) \in Seq(Entry)
        /\ \E x : EntryBetween(x, l[i], ChainAt(l, i - 1), ChainAt(l, i))
    BY ChainStep
  <2>3. PICK x : EntryBetween(x, l[i], ChainAt(l, i - 1), ChainAt(l, i))
    BY <2>2
  <2>4. Follows(l[i], ChainAt(l, i - 1))
    BY DEF Grounded
  <2>5. Ordered(ChainAt(l, i))
    <3>1. CASE l[i].undo
      <4>1. x \in Entry /\ ChainAt(l, i - 1) = Append(ChainAt(l, i), x)
        BY <2>3, <3>1 DEF EntryBetween
      <4>2. Ordered(Append(ChainAt(l, i), x)) => Ordered(ChainAt(l, i))
        BY <2>2, <4>1, OrderedAppend
      <4> QED BY <2>1, <4>1, <4>2
    <3>2. CASE ~l[i].undo
      <4>1. x \in Entry /\ x = l[i] /\ ChainAt(l, i) = Append(ChainAt(l, i - 1), x)
        BY <2>3, <3>2 DEF EntryBetween
      <4>2. Ordered(Append(ChainAt(l, i - 1), x))
        BY <2>1, <2>2, <2>4, <3>2, <4>1, OrderedAppend DEF Follows
      <4> QED BY <4>1, <4>2
    <3> QED BY <3>1, <3>2
  <2> QED BY <2>1, <2>5
<1>4. \A i \in 0..n : i \in T
  <2> HIDE DEF T, n
  <2> QED BY <1>1, <1>2, <1>3, CountUp
<1> QED BY <1>4

(***************************************************************************)
(* What is on the chain is an entry of the log.                            *)
(***************************************************************************)
Members(c, l, k) == \A j \in 1..Len(c) : \E i \in 1..k : c[j] = l[i]

\* By induction over the log, of which a chain only keeps entries.
LEMMA ChainMembers ==
  ASSUME NEW l \in Seq(Entry), Grounded(l), NEW k \in 0..Len(l)
  PROVE  Members(ChainAt(l, k), l, k)
<1> DEFINE n == Len(l)
           T == {i \in 0..n : Members(ChainAt(l, i), l, i)}
<1>1. n \in Nat
  OBVIOUS
<1>2. 0 \in T
  <2>1. ChainAt(l, 0) = <<>> /\ Len(<<>>) = 0 /\ 0 \in 0..n
    BY <1>1, ChainAtEnds
  <2>2. Members(<<>>, l, 0)
    BY DEF Members
  <2> QED BY <2>1, <2>2
<1>3. ASSUME NEW i \in 1..n, i - 1 \in T
      PROVE  i \in T
  <2>1. Members(ChainAt(l, i - 1), l, i - 1) /\ i \in 0..n
    BY <1>3
  <2>2. /\ ChainAt(l, i - 1) \in Seq(Entry) /\ ChainAt(l, i) \in Seq(Entry)
        /\ \E x : EntryBetween(x, l[i], ChainAt(l, i - 1), ChainAt(l, i))
    BY ChainStep
  <2>3. PICK x : EntryBetween(x, l[i], ChainAt(l, i - 1), ChainAt(l, i))
    BY <2>2
  <2> DEFINE c == ChainAt(l, i - 1)
             d == ChainAt(l, i)
             q == i - 1
  <2>4. (\A j \in 1..q : j \in 1..i) /\ i \in 1..i
    BY <1>1
  <2>5. Members(d, l, i)
    <3>1. CASE l[i].undo
      <4>1. x \in Entry /\ c = Append(d, x)
        BY <2>3, <3>1 DEF EntryBetween
      <4> HIDE DEF c, d, q
      <4>2. \A j \in 1..Len(d) : j \in 1..Len(c) /\ c[j] = d[j]
        <5>1. d \in Seq(Entry)
          BY <2>2 DEF d
        <5> QED BY <4>1, <5>1, AppendProperties
      <4>3. Members(c, l, q)
        BY <2>1 DEF c, q
      <4> QED BY <2>4, <4>2, <4>3 DEF Members
    <3>2. CASE ~l[i].undo
      <4>1. x \in Entry /\ x = l[i] /\ d = Append(c, x)
        BY <2>3, <3>2 DEF EntryBetween
      <4> HIDE DEF c, d, q
      <4>2. \A j \in 1..Len(d) : d[j] = l[i] \/ (j \in 1..Len(c) /\ d[j] = c[j])
        <5>1. c \in Seq(Entry)
          BY <2>2 DEF c
        <5>2. /\ Len(d) = Len(c) + 1 /\ Len(c) \in Nat /\ d[Len(c) + 1] = x
              /\ \A j \in 1..Len(c) : d[j] = c[j]
          BY <4>1, <5>1, AppendProperties
        <5> QED BY <4>1, <5>2
      <4>3. Members(c, l, q)
        BY <2>1 DEF c, q
      <4> QED BY <2>4, <4>2, <4>3 DEF Members
    <3> QED BY <3>1, <3>2
  <2> QED BY <2>1, <2>5
<1>4. \A i \in 0..n : i \in T
  <2> HIDE DEF T, n
  <2> QED BY <1>1, <1>2, <1>3, CountUp
<1> QED BY <1>4

-----------------------------------------------------------------------------
(***************************************************************************)
(* The orders up to a time are the first ones of all orders, which ascend  *)
(* in time and are those of the chain.                                     *)
(***************************************************************************)
PastFirst(past, all, t) ==
  /\ Len(past) <= Len(all)
  /\ \A n \in 1..Len(all) : n <= Len(past) <=> all[n].time <= t
  /\ \A n \in 1..Len(past) : past[n] = all[n]

Ascending(all) == \A m, n \in 1..Len(all) : m < n => all[m].time <= all[n].time

FromChain(all, c) ==
  /\ \A n \in 1..Len(all) : Kind[all[n].tx] = "order"
  /\ \A n \in 1..Len(all) : \E j \in 1..Len(c) : all[n] = c[j]

Split(c, t) ==
  LET all == OrdersUpTo(c, MaxTime)
  IN  PastFirst(OrdersUpTo(c, t), all, t) /\ Ascending(all) /\ FromChain(all, c)

(***************************************************************************)
(* A later order is either behind the past or, if it is of the past, then  *)
(* so are all orders before it.                                            *)
(***************************************************************************)
LEMMA PastFirstAppend ==
  ASSUME NEW past \in Seq(Entry), NEW all \in Seq(Entry), NEW x \in Entry, NEW t \in Int,
         PastFirst(past, all, t), Ascending(all),
         \A n \in 1..Len(all) : all[n].time <= x.time
  PROVE  /\ x.time <= t => PastFirst(Append(past, x), Append(all, x), t)
         /\ ~(x.time <= t) => PastFirst(past, Append(all, x), t)
         /\ Ascending(Append(all, x))
<1> DEFINE b == Append(all, x)
           a == Append(past, x)
           n == Len(all)
           m == Len(past)
<1>1. /\ Len(b) = n + 1 /\ n \in Nat /\ b[n + 1] = x
      /\ \A i \in 1..n : b[i] = all[i]
  BY AppendProperties
<1>2. /\ Len(a) = m + 1 /\ m \in Nat /\ a[m + 1] = x
      /\ \A i \in 1..m : a[i] = past[i]
  BY AppendProperties
<1>3. /\ m <= n
      /\ \A i \in 1..n : i <= m <=> all[i].time <= t
      /\ \A i \in 1..m : past[i] = all[i]
  BY DEF PastFirst
<1>4. x.time \in Int /\ \A i \in 1..n : all[i].time \in Int
  <2>1. \A y \in Entry : y.time \in Int
    <3> TAKE y \in Entry
    <3>1. y.time \in 0..MaxTime /\ MaxTime \in Nat
      BY HistoryAssumption DEF Entry
    <3> QED BY <3>1
  <2>2. \A i \in 1..n : all[i] \in Entry
    OBVIOUS
  <2> QED BY <2>1, <2>2
<1>5. \A i \in 1..n : all[i].time <= x.time
  OBVIOUS
<1>6. \A i, j \in 1..n : i < j => all[i].time <= all[j].time
  BY DEF Ascending
<1> HIDE DEF a, b, n, m
<1>7. Ascending(b)
  <2>1. \A i, j \in 1..Len(b) : i < j => i \in 1..n /\ (j \in 1..n \/ j = n + 1)
    BY <1>1
  <2> QED BY <1>1, <1>5, <1>6, <2>1 DEF Ascending
<1>8. ASSUME x.time <= t
      PROVE  PastFirst(a, b, t)
  <2>1. m = n
    <3>1. CASE n = 0
      BY <1>1, <1>2, <1>3, <3>1
    <3>2. CASE n # 0
      <4>1. n \in 1..n
        BY <1>1, <3>2
      <4>2. all[n].time <= t
        BY <1>4, <1>5, <1>8, <4>1
      <4> QED BY <1>1, <1>2, <1>3, <4>1, <4>2
    <3> QED BY <3>1, <3>2
  <2>2. ASSUME NEW i \in 1..(n + 1)
        PROVE  i <= n + 1 /\ b[i].time <= t /\ a[i] = b[i]
    <3>1. CASE i = n + 1
      BY <1>1, <1>2, <1>8, <2>1, <3>1
    <3>2. CASE i # n + 1
      <4>1. i \in 1..n
        BY <1>1, <3>2
      <4> QED BY <1>1, <1>2, <1>3, <2>1, <4>1
    <3> QED BY <3>1, <3>2
  <2> QED BY <1>1, <1>2, <2>1, <2>2 DEF PastFirst
<1>9. ASSUME ~(x.time <= t)
      PROVE  PastFirst(past, b, t)
  <2>1. ASSUME NEW i \in 1..(n + 1)
        PROVE  i <= m <=> b[i].time <= t
    <3>1. CASE i = n + 1
      BY <1>1, <1>2, <1>3, <1>9, <3>1
    <3>2. CASE i # n + 1
      <4>1. i \in 1..n
        BY <1>1, <3>2
      <4> QED BY <1>1, <1>3, <4>1
    <3> QED BY <3>1, <3>2
  <2>2. \A i \in 1..m : past[i] = b[i]
    <3>1. \A i \in 1..m : i \in 1..n
      BY <1>1, <1>2, <1>3
    <3> QED BY <1>1, <1>3, <3>1
  <2>3. m <= n + 1
    BY <1>1, <1>2, <1>3
  <2> QED BY <1>1, <2>1, <2>2, <2>3 DEF PastFirst, m
<1> QED BY <1>7, <1>8, <1>9 DEF a, b

\* Orders that are from a chain are from a longer one.
LEMMA FromChainAppend ==
  ASSUME NEW all \in Seq(Entry), NEW c \in Seq(Entry), NEW x \in Entry, FromChain(all, c)
  PROVE  /\ FromChain(all, Append(c, x))
         /\ Kind[x.tx] = "order" => FromChain(Append(all, x), Append(c, x))
<1> DEFINE b == Append(all, x)
           d == Append(c, x)
<1>1. /\ Len(b) = Len(all) + 1 /\ Len(all) \in Nat /\ b[Len(all) + 1] = x
      /\ \A i \in 1..Len(all) : b[i] = all[i]
  BY AppendProperties
<1>2. /\ Len(d) = Len(c) + 1 /\ Len(c) \in Nat /\ d[Len(c) + 1] = x
      /\ \A j \in 1..Len(c) : d[j] = c[j]
  BY AppendProperties
<1> HIDE DEF b, d
<1>3. /\ Len(c) + 1 \in 1..Len(d)
      /\ \A j \in 1..Len(c) : j \in 1..Len(d)
      /\ \A n \in 1..Len(b) : n = Len(all) + 1 \/ n \in 1..Len(all)
  BY <1>1, <1>2
<1>4. ASSUME NEW n \in 1..Len(all)
      PROVE  \E j \in 1..Len(d) : all[n] = d[j]
  <2>1. PICK j \in 1..Len(c) : all[n] = c[j]
    BY DEF FromChain
  <2> QED BY <1>2, <1>3, <2>1
<1>5. FromChain(all, d)
  BY <1>4 DEF FromChain
<1>6. ASSUME Kind[x.tx] = "order"
      PROVE  FromChain(b, d)
  <2>1. ASSUME NEW n \in 1..Len(b)
        PROVE  Kind[b[n].tx] = "order" /\ \E j \in 1..Len(d) : b[n] = d[j]
    <3>1. CASE n = Len(all) + 1
      BY <1>1, <1>2, <1>3, <1>6, <3>1
    <3>2. CASE n \in 1..Len(all)
      BY <1>1, <1>4, <3>2 DEF FromChain
    <3> QED BY <1>3, <3>1, <3>2
  <2> QED BY <2>1 DEF FromChain
<1> QED BY <1>5, <1>6 DEF b, d

\* The orders of the past stay the first ones as the chain gets longer.
LEMMA SplitAppend ==
  ASSUME NEW c \in Seq(Entry), NEW x \in Entry, NEW t \in Int, Split(c, t),
         \A j \in 1..Len(c) : c[j].time <= x.time
  PROVE  Split(Append(c, x), t)
<1> DEFINE past == OrdersUpTo(c, t)
           all == OrdersUpTo(c, MaxTime)
           d == Append(c, x)
<1>1. /\ past \in Seq(Entry) /\ all \in Seq(Entry)
      /\ OrdersUpTo(d, t) = Longer(past, x, t)
      /\ OrdersUpTo(d, MaxTime) = Longer(all, x, MaxTime)
  BY OrdersAppend
<1>2. PastFirst(past, all, t) /\ Ascending(all) /\ FromChain(all, c)
  BY DEF Split
<1>3. x.time <= MaxTime
  <2>1. x.time \in 0..MaxTime
    BY DEF Entry
  <2> QED BY <2>1
<1>4. \A n \in 1..Len(all) : all[n].time <= x.time
  <2> TAKE n \in 1..Len(all)
  <2>1. PICK j \in 1..Len(c) : all[n] = c[j]
    BY <1>2 DEF FromChain
  <2> QED BY <2>1
<1> HIDE DEF past, all
<1>5. /\ FromChain(all, d)
      /\ Kind[x.tx] = "order" => FromChain(Append(all, x), d)
  BY <1>1, <1>2, FromChainAppend
<1>6. /\ x.time <= t => PastFirst(Append(past, x), Append(all, x), t)
      /\ ~(x.time <= t) => PastFirst(past, Append(all, x), t)
      /\ Ascending(Append(all, x))
  BY <1>1, <1>2, <1>4, PastFirstAppend
<1>7. ASSUME Kind[x.tx] = "order"
      PROVE  Split(d, t)
  <2>1. OrdersUpTo(d, MaxTime) = Append(all, x)
    BY <1>1, <1>3, <1>7 DEF Longer, Counts
  <2>2. OrdersUpTo(d, t) = IF x.time <= t THEN Append(past, x) ELSE past
    BY <1>1, <1>7 DEF Longer, Counts
  <2> HIDE DEF d
  <2> QED BY <1>5, <1>6, <1>7, <2>1, <2>2 DEF Split
<1>8. ASSUME Kind[x.tx] # "order"
      PROVE  Split(d, t)
  <2>1. OrdersUpTo(d, MaxTime) = all /\ OrdersUpTo(d, t) = past
    BY <1>1, <1>8 DEF Longer, Counts
  <2> HIDE DEF d
  <2> QED BY <1>2, <1>5, <2>1 DEF Split
<1> HIDE DEF d
<1> QED BY <1>7, <1>8 DEF d

\* On an ordered chain the orders up to a time are the first of all orders.
LEMMA SplitAll ==
  ASSUME NEW c \in Seq(Entry), Ordered(c), NEW t \in Int
  PROVE  Split(c, t)
<1> DEFINE n == Len(c)
           T == {k \in 0..n : Split(SubSeq(c, 1, k), t)}
<1>1. n \in Nat /\ n \in 0..n /\ 0 \in 0..n
  OBVIOUS
<1>2. 0 \in T
  <2>1. SubSeq(c, 1, 0) = <<>>
    <3>1. SubSeq(c, 1, 0) \in Seq(Entry) /\ Len(SubSeq(c, 1, 0)) = 0
      BY <1>1, PrefixProperties
    <3> QED BY <3>1
  <2>2. OrdersUpTo(<<>>, t) = <<>> /\ OrdersUpTo(<<>>, MaxTime) = <<>> /\ Len(<<>>) = 0
    BY OrdersNone
  <2>3. PastFirst(<<>>, <<>>, t) /\ Ascending(<<>>) /\ FromChain(<<>>, <<>>)
    BY <2>2 DEF PastFirst, Ascending, FromChain
  <2>4. Split(<<>>, t)
    BY <2>2, <2>3 DEF Split
  <2> QED BY <1>1, <2>1, <2>4
<1>3. ASSUME NEW k \in 1..n, k - 1 \in T
      PROVE  k \in T
  <2> DEFINE q == k - 1
             b == SubSeq(c, 1, q)
             x == c[k]
  <2>1. b \in Seq(Entry) /\ x \in Entry /\ SubSeq(c, 1, k) = Append(b, x)
    BY PrefixStep
  <2>2. Split(b, t) /\ k \in 0..n
    BY <1>3
  <2>3. q \in 0..n /\ \A j \in 1..q : j \in 1..n /\ j < k
    BY <1>1
  <2>4. Len(b) = q /\ \A j \in 1..q : b[j] = c[j]
    <3> HIDE DEF q
    <3> QED BY <2>3, PrefixProperties
  <2>5. \A j \in 1..Len(b) : b[j].time <= x.time
    <3> HIDE DEF q, b
    <3>1. \A j \in 1..q : c[j].time <= c[k].time
      BY <2>3 DEF Ordered
    <3> QED BY <2>4, <3>1
  <2> HIDE DEF b, x
  <2>6. Split(Append(b, x), t)
    BY <2>1, <2>2, <2>5, SplitAppend
  <2> QED BY <2>1, <2>2, <2>6
<1>4. n \in T
  <2> HIDE DEF T, n
  <2>1. \A k \in 0..n : k \in T
    BY <1>1, <1>2, <1>3, CountUp
  <2> QED BY <1>1, <2>1
<1>5. SubSeq(c, 1, n) = c
  BY PrefixOfPrefix
<1> QED BY <1>4, <1>5

-----------------------------------------------------------------------------
(***************************************************************************)
(* What streams leave out.  Entries that are not orders do not change the  *)
(* orders, and those of other transactions not whether one is on the chain.*)
(***************************************************************************)
SameOrders(c, d) == \A t \in Int : OrdersUpTo(c, t) = OrdersUpTo(d, t)

\* Entries of other kinds leave the orders as they are.
LEMMA OrdersSkipped ==
  ASSUME NEW l \in Seq(Entry), Grounded(l), NEW p \in 0..Len(l), NEW q \in p..Len(l),
         \A j \in (p + 1)..q : Kind[l[j].tx] # "order"
  PROVE  SameOrders(ChainAt(l, p), ChainAt(l, q))
<1> DEFINE n == q - p
           T == {k \in 0..n : SameOrders(ChainAt(l, p), ChainAt(l, p + k))}
<1>1. n \in Nat /\ n \in 0..n /\ 0 \in 0..n /\ p + 0 = p /\ p + n = q
  OBVIOUS
<1>2. 0 \in T
  <2>1. SameOrders(ChainAt(l, p), ChainAt(l, p))
    BY DEF SameOrders
  <2> QED BY <1>1, <2>1
<1>3. ASSUME NEW k \in 1..n, k - 1 \in T
      PROVE  k \in T
  <2> DEFINE i == p + k
             c == ChainAt(l, i - 1)
             d == ChainAt(l, i)
  <2>1. i \in 1..Len(l) /\ i \in (p + 1)..q /\ i - 1 = p + (k - 1) /\ k \in 0..n
    OBVIOUS
  <2>2. SameOrders(ChainAt(l, p), c)
    BY <1>3, <2>1
  <2> HIDE DEF i
  <2>3. c \in Seq(Entry) /\ d \in Seq(Entry) /\ \E x : EntryBetween(x, l[i], c, d)
    BY <2>1, ChainStep
  <2>4. PICK x : EntryBetween(x, l[i], c, d)
    BY <2>3
  <2>5. x \in Entry /\ Kind[x.tx] # "order"
    BY <2>1, <2>4 DEF EntryBetween
  <2> HIDE DEF c, d
  <2>6. SameOrders(c, d)
    <3> SUFFICES ASSUME NEW t \in Int
                 PROVE  OrdersUpTo(c, t) = OrdersUpTo(d, t)
      BY DEF SameOrders
    <3>1. CASE l[i].undo
      <4>1. c = Append(d, x)
        BY <2>4, <3>1 DEF EntryBetween
      <4>2. OrdersUpTo(Append(d, x), t) = Longer(OrdersUpTo(d, t), x, t)
        BY <2>3, <2>5, OrdersAppend
      <4> QED BY <2>5, <4>1, <4>2 DEF Longer, Counts
    <3>2. CASE ~l[i].undo
      <4>1. d = Append(c, x)
        BY <2>4, <3>2 DEF EntryBetween
      <4>2. OrdersUpTo(Append(c, x), t) = Longer(OrdersUpTo(c, t), x, t)
        BY <2>3, <2>5, OrdersAppend
      <4> QED BY <2>5, <4>1, <4>2 DEF Longer, Counts
    <3> QED BY <3>1, <3>2
  <2>7. SameOrders(ChainAt(l, p), d)
    BY <2>2, <2>6 DEF SameOrders
  <2> QED BY <2>1, <2>7 DEF i, d
<1>4. n \in T
  <2> HIDE DEF T, n
  <2>1. \A k \in 0..n : k \in T
    BY <1>1, <1>2, <1>3, CountUp
  <2> QED BY <1>1, <2>1
<1> QED BY <1>1, <1>4

On(c, tx) == \E j \in 1..Len(c) : c[j].tx = tx

\* A longer chain has the transaction that is added.
LEMMA OnAppend ==
  ASSUME NEW c \in Seq(Entry), NEW x \in Entry, NEW tx
  PROVE  On(Append(c, x), tx) <=> On(c, tx) \/ x.tx = tx
<1> DEFINE d == Append(c, x)
<1>1. /\ Len(d) = Len(c) + 1 /\ Len(c) \in Nat /\ d[Len(c) + 1] = x
      /\ \A j \in 1..Len(c) : d[j] = c[j]
  BY AppendProperties
<1> HIDE DEF d
<1>2. /\ Len(c) + 1 \in 1..Len(d) /\ \A j \in 1..Len(c) : j \in 1..Len(d)
      /\ \A j \in 1..Len(d) : j = Len(c) + 1 \/ j \in 1..Len(c)
  BY <1>1
<1>3. On(d, tx) <=> On(c, tx) \/ x.tx = tx
  BY <1>1, <1>2 DEF On
<1> QED BY <1>3 DEF d

\* Entries of other transactions do not put one on the chain or take it off.
LEMMA OnSkipped ==
  ASSUME NEW l \in Seq(Entry), Grounded(l), NEW p \in 0..Len(l), NEW q \in p..Len(l),
         NEW tx, \A j \in (p + 1)..q : l[j].tx # tx
  PROVE  On(ChainAt(l, p), tx) <=> On(ChainAt(l, q), tx)
<1> DEFINE n == q - p
           T == {k \in 0..n : On(ChainAt(l, p), tx) <=> On(ChainAt(l, p + k), tx)}
<1>1. n \in Nat /\ n \in 0..n /\ 0 \in 0..n /\ p + 0 = p /\ p + n = q
  OBVIOUS
<1>2. 0 \in T
  BY <1>1
<1>3. ASSUME NEW k \in 1..n, k - 1 \in T
      PROVE  k \in T
  <2> DEFINE i == p + k
             c == ChainAt(l, i - 1)
             d == ChainAt(l, i)
  <2>1. i \in 1..Len(l) /\ i \in (p + 1)..q /\ i - 1 = p + (k - 1) /\ k \in 0..n
    OBVIOUS
  <2>2. On(ChainAt(l, p), tx) <=> On(c, tx)
    BY <1>3, <2>1
  <2> HIDE DEF i
  <2>3. c \in Seq(Entry) /\ d \in Seq(Entry) /\ \E x : EntryBetween(x, l[i], c, d)
    BY <2>1, ChainStep
  <2>4. PICK x : EntryBetween(x, l[i], c, d)
    BY <2>3
  <2>5. x \in Entry /\ x.tx # tx
    BY <2>1, <2>4 DEF EntryBetween
  <2> HIDE DEF c, d
  <2>6. On(c, tx) <=> On(d, tx)
    <3>1. CASE l[i].undo
      <4>1. c = Append(d, x)
        BY <2>4, <3>1 DEF EntryBetween
      <4>2. On(Append(d, x), tx) <=> On(d, tx) \/ x.tx = tx
        BY <2>3, <2>5, OnAppend
      <4> QED BY <2>5, <4>1, <4>2
    <3>2. CASE ~l[i].undo
      <4>1. d = Append(c, x)
        BY <2>4, <3>2 DEF EntryBetween
      <4>2. On(Append(c, x), tx) <=> On(c, tx) \/ x.tx = tx
        BY <2>3, <2>5, OnAppend
      <4> QED BY <2>5, <4>1, <4>2
    <3> QED BY <3>1, <3>2
  <2> QED BY <2>1, <2>2, <2>6 DEF i, d
<1>4. n \in T
  <2> HIDE DEF T, n
  <2>1. \A k \in 0..n : k \in T
    BY <1>1, <1>2, <1>3, CountUp
  <2> QED BY <1>1, <2>1
<1> QED BY <1>1, <1>4

-----------------------------------------------------------------------------
(***************************************************************************)
(* The inductive invariant.                                                *)
(***************************************************************************)
Row == [tx : Txs, send : Nat]

Types ==
  /\ log \in Seq(Entry) /\ pos \in [Streams -> 0..Len(log)]
  /\ time \in [Txs -> StoredTime]
  /\ versions \in Seq(Txs) /\ sends \in Seq(Row) /\ credits \in Seq(Txs)
  /\ events \subseteq Row /\ IsFiniteSet(events)
  /\ early \subseteq {x.tx : x \in events}

RowsStored ==
  /\ \A n \in 1..Len(versions) : time[versions[n]] # NoTime
  /\ \A n \in 1..Len(sends) : time[sends[n].tx] # NoTime /\ sends[n].send = n
  /\ \A n \in 1..Len(credits) : time[credits[n]] # NoTime
  /\ \A x \in events : time[x.tx] # NoTime

\* What a stream has handled is stored.
Recorded ==
  \A s \in Streams : \A i \in 1..pos[s] :
    StreamOf(log[i].tx) = s => time[log[i].tx] # NoTime

TxsOf(orders) == [n \in 1..Len(orders) |-> orders[n].tx]

VersionsReplayed == versions = TxsOf(Orders(MaxTime))

\* Unless an order was taken back, there is a balance for each version, and
\* each order that was seen is left.
SendsCounted ==
  ~OrderTakenBack =>
    Len(sends) = Len(versions) /\ \A n \in 1..Len(sends) : sends[n].tx = versions[n]

Among(e, orders) == \E n \in 1..Len(orders) : orders[n] = e

AllLeft ==
  ~OrderTakenBack =>
    \A i \in 1..pos["mangrove"] :
      Kind[log[i].tx] = "order" => Among(log[i], Orders(MaxTime))

\* The events are those of the transactions that the kandel stream has seen
\* and that survive.
EventsListed ==
  \A x \in events :
    Kind[x.tx] \in {"populate", "retract"} /\ On(ChainAt(log, pos["kandel"]), x.tx)

\* An order after an event ends the past of the event.
PastClosed(x) ==
  /\ \E n \in 1..Len(Orders(MaxTime)) : Orders(MaxTime)[n].time > time[x.tx]
  /\ x.send = Len(Orders(time[x.tx]))

Snapshots ==
  Restamped = {} /\ ~OrderTakenBack => \A x \in events : x.tx \notin early => PastClosed(x)

IInv ==
  /\ Types /\ Grounded(log) /\ RowsStored /\ Recorded
  /\ VersionsReplayed /\ SendsCounted /\ AllLeft
  /\ EventsListed /\ Snapshots

-----------------------------------------------------------------------------
(***************************************************************************)
(* What the invariant says of the orders that the mangrove stream has seen.*)
(***************************************************************************)
LEMMA KindOfStream ==
  ASSUME NEW tx \in Txs
  PROVE  /\ StreamOf(tx) \in Streams
         /\ StreamOf(tx) = "mangrove" <=> Kind[tx] = "order"
         /\ StreamOf(tx) = "kandel" <=> Kind[tx] \in {"populate", "retract", "credit"}
<1>1. Kind[tx] \in Kinds
  BY HistoryAssumption
<1> QED BY <1>1 DEF Kinds, StreamOf, Streams

\* The orders of the past are the first of those seen, which are entries of the log.
LEMMA SeenOrders ==
  ASSUME Types, Grounded(log), NEW t \in Int
  PROVE  /\ pos["mangrove"] \in 0..Len(log)
         /\ ChainAt(log, pos["mangrove"]) \in Seq(Entry)
         /\ Orders(t) \in Seq(Entry) /\ Orders(MaxTime) \in Seq(Entry)
         /\ PastFirst(Orders(t), Orders(MaxTime), t) /\ Ascending(Orders(MaxTime))
         /\ \A n \in 1..Len(Orders(MaxTime)) :
              /\ Kind[Orders(MaxTime)[n].tx] = "order"
              /\ \E i \in 1..pos["mangrove"] : Orders(MaxTime)[n] = log[i]
<1> DEFINE m == pos["mangrove"]
           c == ChainAt(log, m)
           all == Orders(MaxTime)
<1>1. log \in Seq(Entry) /\ m \in 0..Len(log) /\ MaxTime \in Int
  BY HistoryAssumption DEF Types, Streams
<1>2. c \in Seq(Entry)
  <2> HIDE DEF m
  <2> QED BY <1>1, ChainAtType
<1>3. Ordered(c) /\ Members(c, log, m)
  <2> HIDE DEF m
  <2> QED BY <1>1, ChainOrdered, ChainMembers
<1>4. Orders(t) \in Seq(Entry) /\ Orders(MaxTime) \in Seq(Entry)
  <2>1. \A u \in Int : OrdersUpTo(c, u) \in Seq(Entry)
    <3> TAKE u \in Int
    <3>1. <<>> \in Seq(Entry)
      OBVIOUS
    <3>2. PICK g : /\ IsTrace(g, Len(c), Seq(Entry), <<>>,
                          [p \in Seq(Entry) \X (1..Len(c)) |-> Longer(p[1], c[p[2]], u)])
                   /\ g[Len(c)] = OrdersUpTo(c, u)
      <4> HIDE DEF c
      <4> QED BY <1>2, OrdersTrace
    <3>3. Len(c) \in Nat
      BY <1>2
    <3> HIDE DEF c
    <3> QED BY <3>2, <3>3 DEF IsTrace
  <2> QED BY <1>1, <2>1 DEF Orders
<1>5. Split(c, t)
  <2> HIDE DEF c
  <2> QED BY <1>2, <1>3, SplitAll
<1>6. PastFirst(Orders(t), all, t) /\ Ascending(all) /\ FromChain(all, c)
  BY <1>5 DEF Split, Orders
<1>7. ASSUME NEW n \in 1..Len(all)
      PROVE  /\ Kind[all[n].tx] = "order"
             /\ \E i \in 1..m : all[n] = log[i]
  <2> HIDE DEF all, c, m
  <2>1. Kind[all[n].tx] = "order"
    BY <1>6 DEF FromChain
  <2>2. PICK j \in 1..Len(c) : all[n] = c[j]
    BY <1>6 DEF FromChain
  <2>3. PICK i \in 1..m : c[j] = log[i]
    BY <1>3 DEF Members
  <2> QED BY <2>1, <2>2, <2>3
<1> QED BY <1>1, <1>2, <1>4, <1>6, <1>7

(***************************************************************************)
(* The stored time of an order is that of its block, if no order came back *)
(* in another one.                                                         *)
(***************************************************************************)
LEMMA OrderTimes ==
  ASSUME IInv, \A tx \in Restamped : Kind[tx] # "order",
         NEW n \in 1..Len(Orders(MaxTime))
  PROVE  time[Orders(MaxTime)[n].tx] = Orders(MaxTime)[n].time
<1>1. Types /\ Grounded(log) /\ Recorded /\ MaxTime \in Int
  BY HistoryAssumption DEF IInv
<1>2. PICK i \in 1..pos["mangrove"] : Orders(MaxTime)[n] = log[i]
  BY <1>1, SeenOrders
<1>3. Kind[log[i].tx] = "order"
  BY <1>1, <1>2, SeenOrders
<1>4. i \in 1..Len(log) /\ log[i] \in Entry
  <2>1. log \in Seq(Entry) /\ pos["mangrove"] \in 0..Len(log)
    BY <1>1 DEF Types, Streams
  <2>2. i \in 1..Len(log)
    BY <2>1
  <2> QED BY <2>1, <2>2
<1>5. log[i].tx \in Txs
  BY <1>4 DEF Entry
<1>6. time[log[i].tx] # NoTime
  BY <1>1, <1>3, <1>5, KindOfStream DEF Recorded, Streams
<1>7. log[i].tx \notin Restamped
  BY <1>3
<1>8. i \in DOMAIN log
  BY <1>1, <1>4 DEF Types
<1> QED BY <1>2, <1>5, <1>6, <1>7, <1>8 DEF Restamped

(***************************************************************************)
(* The versions have the transactions of the orders.                       *)
(***************************************************************************)
LEMMA VersionTxs ==
  ASSUME IInv
  PROVE  /\ Len(versions) = Len(Orders(MaxTime)) /\ Len(versions) \in Nat
         /\ \A n \in 1..Len(versions) : versions[n] = Orders(MaxTime)[n].tx
<1>1. versions = TxsOf(Orders(MaxTime)) /\ Orders(MaxTime) \in Seq(Entry) /\ versions \in Seq(Txs)
  <2>1. MaxTime \in Int
    BY HistoryAssumption
  <2> QED BY <2>1, SeenOrders DEF IInv, VersionsReplayed, Types
<1> DEFINE all == Orders(MaxTime)
<1>2. Len(all) \in Nat /\ DOMAIN versions = 1..Len(all)
  BY <1>1 DEF TxsOf
<1>3. Len(versions) \in Nat /\ DOMAIN versions = 1..Len(versions)
  BY <1>1
<1>4. Len(versions) = Len(all)
  BY <1>2, <1>3
<1> QED BY <1>1, <1>2, <1>4 DEF TxsOf

-----------------------------------------------------------------------------
(***************************************************************************)
(* What the readers by time find.                                          *)
(***************************************************************************)
LEMMA VersionAtPast ==
  ASSUME IInv, \A tx \in Restamped : Kind[tx] # "order", NEW t \in Nat
  PROVE  VersionAt(t) = Len(Orders(t))
<1> DEFINE all == Orders(MaxTime)
           past == Orders(t)
           m == Len(past)
           n == Len(versions)
           later == {k \in DOMAIN versions : time[versions[k]] > t}
<1>1. PastFirst(past, all, t) /\ past \in Seq(Entry) /\ t \in Int
  BY SeenOrders DEF IInv
<1>2. /\ n = Len(all) /\ n \in Nat /\ DOMAIN versions = 1..n
      /\ \A k \in 1..n : versions[k] = all[k].tx
  BY VersionTxs DEF IInv, Types
<1>3. \A k \in 1..n : time[versions[k]] = all[k].time
  BY <1>2, OrderTimes
<1>4. m \in Nat /\ m <= n /\ \A k \in 1..n : k <= m <=> all[k].time <= t
  BY <1>1, <1>2 DEF PastFirst
<1>5. \A k \in 1..n : all[k].time \in Int
  <2>1. all \in Seq(Entry)
    BY <1>1, SeenOrders DEF IInv
  <2>2. \A y \in Entry : y.time \in Int
    BY DEF Entry
  <2> HIDE DEF all
  <2> QED BY <1>2, <2>1, <2>2
<1> HIDE DEF all, m, n
<1>6. later = {k \in 1..n : k > m}
  BY <1>2, <1>3, <1>4, <1>5
<1>7. VersionAt(t) = IF later = {} THEN n
                     ELSE (CHOOSE k \in later : \A j \in later : k <= j) - 1
  BY DEF VersionAt, n
<1> HIDE DEF later
<1>8. CASE m = n
  <2>1. later = {}
    BY <1>4, <1>6, <1>8
  <2> QED BY <1>7, <1>8, <2>1 DEF m
<1>9. CASE m # n
  <2>1. m + 1 \in later /\ \A j \in later : m + 1 <= j
    BY <1>2, <1>4, <1>6, <1>9
  <2>2. \A k \in later : (\A j \in later : k <= j) => k = m + 1
    BY <1>2, <1>4, <1>6, <2>1
  <2>3. (CHOOSE k \in later : \A j \in later : k <= j) = m + 1
    BY <2>1, <2>2
  <2>4. VersionAt(t) = (m + 1) - 1
    BY <1>7, <2>1, <2>3
  <2> QED BY <1>4, <2>4 DEF m
<1> QED BY <1>8, <1>9

(***************************************************************************)
(* The balance found is one that is there.                                 *)
(***************************************************************************)
Later(m, n) == \/ time[sends[m].tx] < time[sends[n].tx]
               \/ time[sends[m].tx] = time[sends[n].tx] /\ m < n

\* CHOOSE finds the only balance that is later than all others of the past.
LEMMA LatestSendIs ==
  ASSUME NEW t, NEW n \in OfThePast(t), \A m \in OfThePast(t) \ {n} : Later(m, n),
         \A k \in OfThePast(t) : k \in Int /\ time[sends[k].tx] \in Int
  PROVE  LatestSend(t) = sends[n].send
<1> DEFINE past == OfThePast(t)
<1> HIDE DEF past
<1>1. n \in past /\ \A m \in past \ {n} : Later(m, n)
  BY DEF past
<1>2. \A k \in past : k \in Int /\ time[sends[k].tx] \in Int
  BY DEF past
<1>3. ASSUME NEW k \in past, \A m \in past \ {k} : Later(m, k)
      PROVE  k = n
  <2>1. SUFFICES ASSUME k # n
                 PROVE  FALSE
    OBVIOUS
  <2>2. Later(k, n) /\ Later(n, k)
    BY <1>1, <1>3, <2>1
  <2> QED BY <1>1, <1>2, <2>2 DEF Later
<1>4. (CHOOSE k \in past : \A m \in past \ {k} : Later(m, k)) = n
  BY <1>1, <1>3
<1>5. LatestSend(t) = IF past = {} THEN 0
                      ELSE sends[CHOOSE k \in past : \A m \in past \ {k} : Later(m, k)].send
  BY DEF LatestSend, past, Later
<1> QED BY <1>1, <1>4, <1>5

\* LatestSend counts the orders of the past, if none came back or was taken back.
LEMMA LatestSendPast ==
  ASSUME IInv, Restamped = {}, ~OrderTakenBack, NEW t \in Nat
  PROVE  LatestSend(t) = Len(Orders(t))
<1> DEFINE all == Orders(MaxTime)
           m == Len(Orders(t))
           n == Len(sends)
<1>1. PastFirst(Orders(t), all, t) /\ Ascending(all) /\ Orders(t) \in Seq(Entry) /\ t \in Int
  BY SeenOrders DEF IInv
<1>2. n = Len(all) /\ n \in Nat /\ \A k \in 1..n : sends[k].tx = all[k].tx /\ sends[k].send = k
  <2>1. n = Len(versions) /\ \A k \in 1..n : sends[k].tx = versions[k] /\ sends[k].send = k
    BY DEF IInv, SendsCounted, RowsStored
  <2>2. Len(versions) = Len(all) /\ \A k \in 1..Len(versions) : versions[k] = all[k].tx
    BY VersionTxs
  <2>3. n \in Nat
    BY DEF IInv, Types
  <2> HIDE DEF n, all
  <2> QED BY <2>1, <2>2, <2>3
<1>3. \A k \in 1..n : time[sends[k].tx] = all[k].time
  BY <1>2, OrderTimes
<1>4. m \in Nat /\ m <= n /\ \A k \in 1..n : k <= m <=> all[k].time <= t
  BY <1>1, <1>2 DEF PastFirst
<1>5. \A k \in 1..n : all[k].time \in Int
  <2>1. all \in Seq(Entry)
    BY <1>1, SeenOrders DEF IInv
  <2>2. \A y \in Entry : y.time \in Int
    BY DEF Entry
  <2> HIDE DEF all
  <2> QED BY <1>2, <2>1, <2>2
<1>6. \A j, k \in 1..n : j < k => all[j].time <= all[k].time
  BY <1>1, <1>2 DEF Ascending
<1>7. DOMAIN sends = 1..n
  BY DEF IInv, Types
<1> HIDE DEF all, m, n
<1>8. OfThePast(t) = 1..m
  <2>1. \A k : k \in OfThePast(t) <=> k \in 1..n /\ k <= m
    BY <1>3, <1>4, <1>7 DEF OfThePast
  <2>2. \A k : k \in 1..n /\ k <= m <=> k \in 1..m
    BY <1>2, <1>4
  <2> QED BY <2>1, <2>2
<1>9. CASE m = 0
  <2>1. OfThePast(t) = {}
    BY <1>8, <1>9
  <2> QED BY <1>9, <2>1 DEF LatestSend, m
<1>10. CASE m # 0
  <2>1. m \in 1..m /\ m \in 1..n /\ \A k \in 1..m : k \in 1..n /\ k \in Int
    BY <1>2, <1>4, <1>10
  <2>2. \A k \in (1..m) \ {m} : k < m
    BY <1>4
  <2>3. \A k \in OfThePast(t) \ {m} : Later(k, m)
    <3> TAKE k \in OfThePast(t) \ {m}
    <3>1. k \in 1..n /\ k < m
      BY <1>8, <2>1, <2>2
    <3>2. all[k].time <= all[m].time /\ all[k].time \in Int /\ all[m].time \in Int
      BY <1>5, <1>6, <2>1, <3>1
    <3>3. time[sends[k].tx] = all[k].time /\ time[sends[m].tx] = all[m].time
      BY <1>3, <2>1, <3>1
    <3> QED BY <3>1, <3>2, <3>3 DEF Later
  <2>4. \A k \in OfThePast(t) : k \in Int /\ time[sends[k].tx] \in Int
    BY <1>3, <1>5, <1>8, <2>1
  <2>5. LatestSend(t) = sends[m].send
    BY <1>8, <2>1, <2>3, <2>4, LatestSendIs
  <2> QED BY <1>2, <2>1, <2>5 DEF m
<1> QED BY <1>9, <1>10

\* What LatestSend returns is a number, also after a reorganisation.
LEMMA LatestSendType ==
  ASSUME Types, RowsStored, NEW t
  PROVE  LatestSend(t) \in Nat
<1> DEFINE past == OfThePast(t)
           n == Len(sends)
           W == {time[sends[k].tx] + 1 : k \in past}
           w == Max(W)
           V == {k \in past : time[sends[k].tx] + 1 = w}
<1>1. /\ n \in Nat /\ past \subseteq 1..n
      /\ \A k \in 1..n : sends[k].send = k /\ time[sends[k].tx] \in 0..MaxTime
  <2>1. sends \in Seq(Row) /\ DOMAIN sends = 1..n /\ n \in Nat
    BY DEF Types
  <2>2. ASSUME NEW k \in 1..n
        PROVE  sends[k].send = k /\ time[sends[k].tx] \in 0..MaxTime
    <3>1. sends[k] \in Row
      BY <2>1
    <3>2. sends[k].tx \in Txs
      BY <3>1 DEF Row
    <3>3. time[sends[k].tx] \in StoredTime
      BY <3>2 DEF Types
    <3> HIDE DEF n
    <3>4. sends[k].send = k /\ time[sends[k].tx] # NoTime
      BY DEF RowsStored, n
    <3> QED BY <3>3, <3>4 DEF StoredTime
  <2> HIDE DEF n
  <2> QED BY <2>1, <2>2 DEF OfThePast
<1> HIDE DEF past, n
<1>2. CASE past = {}
  BY <1>2 DEF LatestSend, past
<1>3. CASE past # {}
  <2>1. MaxTime + 1 \in Nat /\ W \subseteq 1..(MaxTime + 1) /\ W # {}
    <3>1. MaxTime \in Nat
      BY HistoryAssumption
    <3>2. \A k \in past : time[sends[k].tx] + 1 \in 1..(MaxTime + 1)
      BY <1>1, <3>1
    <3> QED BY <1>3, <3>1, <3>2
  <2>2. w \in W /\ \A y \in W : w >= y
    <3> HIDE DEF W
    <3> QED BY <2>1, MaxOfSubset
  <2> HIDE DEF w
  <2>3. V \subseteq 1..n /\ V # {}
    BY <1>1, <2>2
  <2> DEFINE m == Max(V)
  <2>4. m \in V /\ \A y \in V : m >= y
    <3> HIDE DEF V
    <3> QED BY <1>1, <2>3, MaxOfSubset
  <2> HIDE DEF m
  <2>5. m \in past /\ m \in 1..n
    BY <1>1, <2>4
  <2>6. \A k \in past : k \in Int /\ time[sends[k].tx] \in Int
    BY <1>1
  <2>7. \A k \in past \ {m} : Later(k, m)
    <3> TAKE k \in past \ {m}
    <3>1. time[sends[k].tx] + 1 <= w /\ time[sends[m].tx] + 1 = w
      BY <1>1, <2>1, <2>2, <2>4
    <3>2. time[sends[k].tx] + 1 = w => k < m
      BY <1>1, <2>4, <2>5
    <3> QED BY <2>5, <2>6, <3>1, <3>2 DEF Later
  <2>8. LatestSend(t) = sends[m].send
    BY <2>5, <2>6, <2>7, LatestSendIs DEF past
  <2> QED BY <1>1, <2>5, <2>8
<1> QED BY <1>2, <1>3

-----------------------------------------------------------------------------
(***************************************************************************)
(* The inductive invariant holds at first, and as the chain goes on.       *)
(***************************************************************************)
\* In the first state there is nothing on the chain and in the tables.
LEMMA InitIInv == Init => IInv
<1> SUFFICES ASSUME Init
             PROVE  IInv
  OBVIOUS
<1>1. /\ log = <<>> /\ pos = [s \in Streams |-> 0] /\ time = [tx \in Txs |-> NoTime]
      /\ versions = <<>> /\ sends = <<>> /\ credits = <<>> /\ events = {} /\ early = {}
  BY DEF Init
<1>2. /\ <<>> \in Seq(Entry) /\ <<>> \in Seq(Txs) /\ <<>> \in Seq(Row) /\ Len(<<>>) = 0
      /\ IsFiniteSet({})
  BY FS_EmptySet
<1>3. Types
  <2>1. pos \in [Streams -> 0..Len(log)] /\ time \in [Txs -> StoredTime]
    BY <1>1, <1>2 DEF StoredTime
  <2> QED BY <1>1, <1>2, <2>1 DEF Types
<1>4. Grounded(log) /\ RowsStored
  BY <1>1, <1>2 DEF Grounded, RowsStored
<1>5. \A s \in Streams : pos[s] = 0
  BY <1>1
<1>6. Recorded
  BY <1>5 DEF Recorded
<1>7. Orders(MaxTime) = <<>>
  <2>1. pos["mangrove"] = 0
    BY <1>5 DEF Streams
  <2>2. ChainAt(<<>>, 0) = <<>>
    BY <1>2, ChainAtEnds
  <2> QED BY <1>1, <2>1, <2>2, OrdersNone DEF Orders
<1>8. VersionsReplayed
  <2>1. TxsOf(<<>>) = <<>>
    BY <1>2 DEF TxsOf
  <2> QED BY <1>1, <1>7, <2>1 DEF VersionsReplayed
<1>9. SendsCounted /\ AllLeft
  <2>1. \A i \in 1..pos["mangrove"] : FALSE
    BY <1>5 DEF Streams
  <2> QED BY <1>1, <1>2, <2>1 DEF SendsCounted, AllLeft
<1>10. EventsListed /\ Snapshots
  BY <1>1 DEF EventsListed, Snapshots
<1> QED BY <1>3, <1>4, <1>6, <1>8, <1>9, <1>10 DEF IInv

(***************************************************************************)
(* What came back in a block of another time stays so.                     *)
(***************************************************************************)
LEMMA RestampedStays ==
  ASSUME Types, Len(log) <= Len(log'), log' \in Seq(Entry),
         \A i \in 1..Len(log) : log'[i] = log[i],
         \A tx \in Txs : time[tx] # NoTime => time'[tx] = time[tx]
  PROVE  Restamped \subseteq Restamped'
<1> SUFFICES ASSUME NEW tx \in Restamped
             PROVE  tx \in Restamped'
  OBVIOUS
<1>1. PICK i \in DOMAIN log : log[i].tx = tx /\ time[tx] \notin {NoTime, log[i].time}
  BY DEF Restamped
<1>2. tx \in Txs
  BY DEF Restamped
<1>3. i \in 1..Len(log) /\ i \in DOMAIN log' /\ log'[i] = log[i]
  <2>1. DOMAIN log = 1..Len(log) /\ DOMAIN log' = 1..Len(log')
        /\ Len(log) \in Nat /\ Len(log') \in Nat
    BY DEF Types
  <2> QED BY <2>1
<1>4. time'[tx] = time[tx]
  BY <1>1, <1>2
<1> QED BY <1>1, <1>2, <1>3, <1>4 DEF Restamped

(***************************************************************************)
(* A new entry that may come behind the chain leaves the tables as they    *)
(* are, and what the streams have seen.                                    *)
(***************************************************************************)
LEMMA MinedIInv ==
  ASSUME IInv, NEW e \in Entry, Follows(e, Chain), log' = Append(log, e),
         UNCHANGED <<pos, time, versions, sends, credits, events, early>>
  PROVE  IInv'
<1>1. /\ pos' = pos /\ time' = time /\ versions' = versions /\ sends' = sends
      /\ credits' = credits /\ events' = events /\ early' = early
  OBVIOUS
<1>2. /\ log \in Seq(Entry) /\ pos \in [Streams -> 0..Len(log)] /\ Grounded(log)
  BY DEF IInv, Types
<1>3. /\ log' \in Seq(Entry) /\ Len(log') = Len(log) + 1 /\ Len(log) \in Nat
      /\ \A i \in 1..Len(log) : log'[i] = log[i]
  BY <1>2, AppendProperties
<1>4. Types'
  <2>1. pos \in [Streams -> 0..Len(log')]
    <3>1. \A s \in Streams : pos[s] \in 0..Len(log')
      BY <1>2, <1>3
    <3> QED BY <1>2, <3>1
  <2> QED BY <1>1, <1>3, <2>1 DEF IInv, Types
<1>5. Grounded(log')
  BY <1>2, GroundedAppend DEF Chain
<1>6. RowsStored'
  BY <1>1 DEF IInv, RowsStored
<1>7. \A s \in Streams : \A i \in 1..pos[s] : i \in 1..Len(log) /\ log'[i] = log[i]
  <2>1. \A s \in Streams : pos[s] \in 0..Len(log)
    BY <1>2
  <2>2. \A s \in Streams : \A i \in 1..pos[s] : i \in 1..Len(log)
    BY <1>3, <2>1
  <2> QED BY <1>3, <2>2
<1>8. Recorded'
  <2>1. ASSUME NEW s \in Streams, NEW i \in 1..pos[s], StreamOf(log'[i].tx) = s
        PROVE  time[log'[i].tx] # NoTime
    BY <1>7, <2>1 DEF IInv, Recorded
  <2> QED BY <1>1, <2>1 DEF Recorded
<1>9. \A s \in Streams : ChainAt(log', pos[s]) = ChainAt(log, pos[s])
  <2> TAKE s \in Streams
  <2>1. pos[s] \in 0..Len(log)
    BY <1>2
  <2> QED BY <1>2, <2>1, ChainAtAppend
<1>10. "mangrove" \in Streams /\ "kandel" \in Streams
  BY DEF Streams
<1>11. \A t : Orders(t)' = Orders(t)
  BY <1>1, <1>9, <1>10 DEF Orders
<1>12. OrderTakenBack' <=> OrderTakenBack
  BY <1>1, <1>7, <1>10 DEF OrderTakenBack
<1>13. VersionsReplayed' /\ SendsCounted'
  BY <1>1, <1>11, <1>12 DEF IInv, VersionsReplayed, SendsCounted
<1>14. AllLeft'
  BY <1>1, <1>7, <1>10, <1>11, <1>12 DEF IInv, AllLeft
<1>15. EventsListed'
  BY <1>1, <1>9, <1>10 DEF IInv, EventsListed
<1>16. Snapshots'
  <2>1. Restamped \subseteq Restamped'
    <3>1. Types /\ Len(log) <= Len(log')
      BY <1>3 DEF IInv
    <3> QED BY <1>1, <1>3, <3>1, RestampedStays
  <2>2. \A x : PastClosed(x)' <=> PastClosed(x)
    BY <1>1, <1>11 DEF PastClosed
  <2>3. Restamped' = {} => Restamped = {}
    BY <2>1
  <2> QED BY <1>1, <1>12, <2>2, <2>3 DEF IInv, Snapshots
<1> QED BY <1>4, <1>5, <1>6, <1>8, <1>13, <1>14, <1>15, <1>16 DEF IInv

\* The chain is one of entries and ordered.
LEMMA ChainType ==
  ASSUME IInv
  PROVE  Chain \in Seq(Entry) /\ Ordered(Chain)
<1>1. log \in Seq(Entry) /\ Grounded(log)
  BY DEF IInv, Types
<1>2. Len(log) \in 0..Len(log)
  <2>1. Len(log) \in Nat
    BY <1>1
  <2> QED BY <2>1
<1>3. Chain = ChainAt(log, Len(log))
  BY <1>1, ChainAtEnds DEF Chain
<1> QED BY <1>1, <1>2, <1>3, ChainAtType, ChainOrdered

\* A transaction that is mined keeps the invariant: it is new, and not earlier.
LEMMA MineIInv ==
  ASSUME IInv, NEW tx \in Txs, Mine(tx)
  PROVE  IInv'
<1>1. Chain \in Seq(Entry) /\ Ordered(Chain)
  BY ChainType
<1>2. PICK t \in {Tip, Tip + 1} \cap 0..MaxTime :
        log' = Append(log, [undo |-> FALSE, tx |-> tx, time |-> t])
  BY DEF Mine
<1> DEFINE e == [undo |-> FALSE, tx |-> tx, time |-> t]
           n == Len(Chain)
<1>3. e \in Entry /\ e.undo = FALSE /\ e.tx = tx /\ e.time = t
  BY DEF Entry
<1>4. ASSUME NEW i \in 1..n
      PROVE  Chain[i].tx # tx /\ Chain[i].time <= t
  <2>1. n \in Nat /\ n \in 1..n /\ Chain # <<>>
    BY <1>1
  <2>2. Chain[n] \in Entry /\ Chain[i] \in Entry
    BY <1>1, <2>1
  <2>3. Chain[n].time \in Int /\ Chain[i].time \in Int
    BY <2>2 DEF Entry
  <2>4. Tip = Chain[n].time
    BY <2>1 DEF Tip, Last
  <2>5. Chain[i].time <= Chain[n].time
    <3>1. i = n \/ i < n
      BY <2>1
    <3> QED BY <1>1, <2>1, <2>3, <3>1 DEF Ordered
  <2>6. Chain[n].time <= t
    BY <2>3, <2>4
  <2>7. i \in DOMAIN Chain
    BY <1>1
  <2>8. Chain[i].tx # tx
    BY <2>7 DEF Mine
  <2> QED BY <2>3, <2>5, <2>6, <2>8
<1>5. Follows(e, Chain)
  <2> HIDE DEF e
  <2> QED BY <1>3, <1>4 DEF Follows
<1>6. log' = Append(log, e) /\ UNCHANGED <<pos, time, versions, sends, credits, events, early>>
  BY <1>2 DEF Mine
<1> HIDE DEF e
<1> QED BY <1>3, <1>5, <1>6, MinedIInv

\* So does a block that is taken back, which is the last one.
LEMMA TakeBackIInv ==
  ASSUME IInv, TakeBack
  PROVE  IInv'
<1>1. Chain \in Seq(Entry) /\ Chain # <<>>
  BY ChainType DEF TakeBack
<1> DEFINE x == Last(Chain)
           e == TakenBack(x)
<1>2. x \in Entry
  BY <1>1, FrontLast
<1>3. e \in Entry /\ e.undo = TRUE
  <2> HIDE DEF x
  <2> QED BY <1>2 DEF TakenBack, Entry
<1>4. Follows(e, Chain)
  <2>1. e = TakenBack(Last(Chain))
    OBVIOUS
  <2> HIDE DEF e, x
  <2> QED BY <1>1, <1>3, <2>1 DEF Follows
<1>5. log' = Append(log, e) /\ UNCHANGED <<pos, time, versions, sends, credits, events, early>>
  BY DEF TakeBack
<1> HIDE DEF e, x
<1> QED BY <1>3, <1>4, <1>5, MinedIInv

\* And so does a step that changes nothing.
LEMMA StutterIInv == IInv /\ UNCHANGED vars => IInv'
<1> SUFFICES ASSUME IInv, UNCHANGED vars
             PROVE  IInv'
  OBVIOUS
<1>1. /\ log' = log /\ pos' = pos /\ time' = time /\ versions' = versions
      /\ sends' = sends /\ credits' = credits /\ events' = events /\ early' = early
  BY DEF vars
<1>2. Types' /\ Grounded(log') /\ RowsStored' /\ Recorded'
  BY <1>1 DEF IInv, Types, RowsStored, Recorded
<1>3. \A t : Orders(t)' = Orders(t)
  BY <1>1 DEF Orders
<1>4. (OrderTakenBack' <=> OrderTakenBack) /\ Restamped' = Restamped
  BY <1>1 DEF OrderTakenBack, Restamped
<1>5. VersionsReplayed' /\ SendsCounted' /\ AllLeft' /\ EventsListed'
  BY <1>1, <1>3, <1>4 DEF IInv, VersionsReplayed, SendsCounted, AllLeft, EventsListed
<1>6. Snapshots'
  BY <1>1, <1>3, <1>4 DEF IInv, Snapshots, PastClosed
<1> QED BY <1>2, <1>5, <1>6 DEF IInv

-----------------------------------------------------------------------------
(***************************************************************************)
(* What a stream handles.                                                  *)
(***************************************************************************)
IsNext(i, s) ==
  /\ i \in pos[s] + 1..Len(log) /\ StreamOf(log[i].tx) = s
  /\ \A j \in pos[s] + 1..i - 1 : StreamOf(log[j].tx) # s

Handled(i, s) ==
  /\ IsNext(i, s) /\ log' = log /\ pos' = [pos EXCEPT ![s] = i]
  /\ time' = [time EXCEPT ![log[i].tx] = Stored(log[i].tx, log[i].time)]
  /\ IF Kind[log[i].tx] = "order" THEN Order(log[i]) ELSE UNCHANGED <<versions, sends>>
  /\ IF Kind[log[i].tx] = "credit" THEN Credit(log[i]) ELSE UNCHANGED credits
  /\ IF Kind[log[i].tx] \in {"populate", "retract"}
     THEN PopulateOrRetract(log[i]) ELSE UNCHANGED <<events, early>>

\* Handle handles the next entry of its stream.
LEMMA HandleEntry ==
  ASSUME IInv, NEW s \in Streams, Handle(s)
  PROVE  \E i : Handled(i, s)
<1>1. PICK i \in Upcoming(StreamsOf(log), pos[s], s) :
        /\ pos' = [pos EXCEPT ![s] = i]
        /\ time' = [time EXCEPT ![log[i].tx] = Stored(log[i].tx, log[i].time)]
        /\ IF Kind[log[i].tx] = "order" THEN Order(log[i]) ELSE UNCHANGED <<versions, sends>>
        /\ IF Kind[log[i].tx] = "credit" THEN Credit(log[i]) ELSE UNCHANGED credits
        /\ IF Kind[log[i].tx] \in {"populate", "retract"}
           THEN PopulateOrRetract(log[i]) ELSE UNCHANGED <<events, early>>
  BY DEF Handle
<1>2. log' = log
  BY DEF Handle
<1>3. IsNext(i, s)
  <2>1. /\ log \in Seq(Entry) /\ DOMAIN log = 1..Len(log) /\ Len(log) \in Nat
        /\ pos[s] \in 0..Len(log)
    BY DEF IInv, Types
  <2>2. /\ Len(StreamsOf(log)) = Len(log)
        /\ \A j \in 1..Len(log) : StreamsOf(log)[j] = StreamOf(log[j].tx)
    BY <2>1 DEF StreamsOf
  <2>3. /\ i \in pos[s] + 1..Len(log) /\ StreamsOf(log)[i] = s
        /\ \A j \in pos[s] + 1..i - 1 : StreamsOf(log)[j] # s
    BY <2>2 DEF Upcoming
  <2>4. i \in 1..Len(log) /\ \A j \in pos[s] + 1..i - 1 : j \in 1..Len(log)
    BY <2>1, <2>3
  <2> QED BY <2>2, <2>3, <2>4 DEF IsNext
<1> QED BY <1>1, <1>2, <1>3 DEF Handled

(***************************************************************************)
(* Streams go on, and a time that is stored stays.                         *)
(***************************************************************************)
LEMMA HandledEntry ==
  ASSUME IInv, NEW s \in Streams, NEW i, Handled(i, s)
  PROVE  /\ log \in Seq(Entry) /\ pos[s] \in 0..Len(log)
         /\ i \in 1..Len(log) /\ i > pos[s] /\ i \in Nat /\ log[i] \in Entry
         /\ log[i].tx \in Txs /\ log[i].time \in 0..MaxTime /\ log[i].undo \in BOOLEAN
         /\ pos' \in [Streams -> 0..Len(log)] /\ pos'[s] = i
         /\ \A r \in Streams : r # s => pos'[r] = pos[r]
<1>1. /\ log \in Seq(Entry) /\ pos \in [Streams -> 0..Len(log)] /\ pos[s] \in 0..Len(log)
      /\ Len(log) \in Nat
  BY DEF IInv, Types
<1>2. i \in pos[s] + 1..Len(log) /\ pos' = [pos EXCEPT ![s] = i]
  BY DEF Handled, IsNext
<1>3. i \in 1..Len(log) /\ i > pos[s] /\ i \in Nat /\ i \in 0..Len(log)
  BY <1>1, <1>2
<1> DEFINE e == log[i]
<1>4. e \in Entry
  BY <1>1, <1>3
<1> HIDE DEF e
<1>5. e.tx \in Txs /\ e.time \in 0..MaxTime /\ e.undo \in BOOLEAN
  BY <1>4 DEF Entry
<1>6. /\ pos' \in [Streams -> 0..Len(log)] /\ pos'[s] = i
      /\ \A r \in Streams : r # s => pos'[r] = pos[r]
  BY <1>1, <1>2, <1>3
<1> QED BY <1>1, <1>3, <1>4, <1>5, <1>6 DEF e

\* The handled transaction has a stored time, which is the first one it had.
LEMMA HandledTime ==
  ASSUME IInv, NEW s \in Streams, NEW i, Handled(i, s)
  PROVE  /\ time' \in [Txs -> StoredTime] /\ time'[log[i].tx] \in 0..MaxTime
         /\ \A tx \in Txs : time[tx] # NoTime => time'[tx] = time[tx]
         /\ Restamped' = {} => Restamped = {} /\ time'[log[i].tx] = log[i].time
         /\ Recorded'
<1> DEFINE e == log[i]
<1>1. /\ e \in Entry /\ e.tx \in Txs /\ e.time \in 0..MaxTime
      /\ i \in 1..Len(log) /\ log \in Seq(Entry) /\ log' = log
  BY HandledEntry DEF Handled
<1>2. time \in [Txs -> StoredTime] /\ time' = [time EXCEPT ![e.tx] = Stored(e.tx, e.time)]
  BY DEF Handled, IInv, Types
<1> HIDE DEF e
<1>3. Stored(e.tx, e.time) \in 0..MaxTime
  BY <1>1, <1>2 DEF Stored, StoredTime
<1>4. time' \in [Txs -> StoredTime] /\ time'[e.tx] \in 0..MaxTime
  BY <1>1, <1>2, <1>3 DEF StoredTime
<1>5. \A tx \in Txs : time[tx] # NoTime => time'[tx] = time[tx]
  BY <1>1, <1>2 DEF Stored
<1>6. ASSUME Restamped' = {}
      PROVE  Restamped = {} /\ time'[e.tx] = e.time
  <2>1. Restamped \subseteq Restamped'
    <3>1. Types /\ Len(log) <= Len(log') /\ log' \in Seq(Entry)
          /\ \A k \in 1..Len(log) : log'[k] = log[k]
      <4>1. Types /\ log' = log /\ log' \in Seq(Entry)
        BY <1>1 DEF IInv
      <4>2. Len(log) <= Len(log)
        <5>1. Len(log) \in Nat
          BY <1>1
        <5> QED BY <5>1
      <4> QED BY <4>1, <4>2
    <3> QED BY <1>5, <3>1, RestampedStays
  <2>2. e.tx \notin Restamped'
    BY <1>6
  <2>3. i \in DOMAIN log' /\ log'[i] = e
    BY <1>1 DEF e
  <2>4. time'[e.tx] \in {NoTime, e.time}
    BY <1>1, <2>2, <2>3 DEF Restamped
  <2>5. time'[e.tx] # NoTime
    BY <1>4 DEF NoTime
  <2> QED BY <1>6, <2>1, <2>4, <2>5
<1>7. ASSUME NEW r \in Streams, NEW k \in 1..pos'[r], StreamOf(log[k].tx) = r
      PROVE  time'[log[k].tx] # NoTime
  <2>1. pos[r] \in 0..Len(log) /\ pos'[r] \in 0..Len(log) /\ Len(log) \in Nat
    BY <1>1, HandledEntry DEF IInv, Types
  <2>2. k \in 1..Len(log)
    BY <2>1
  <2>3. log[k].tx \in Txs
    <3>1. log[k] \in Entry
      BY <1>1, <2>2
    <3> QED BY <3>1 DEF Entry
  <2>4. CASE k \in 1..pos[r]
    BY <1>5, <1>7, <2>3, <2>4 DEF IInv, Recorded
  <2>5. CASE k \notin 1..pos[r]
    <3>1. r = s /\ k \in pos[s] + 1..i
      <4>1. pos'[s] = i /\ \A q \in Streams : q # s => pos'[q] = pos[q]
        BY HandledEntry
      <4> QED BY <2>1, <2>5, <4>1
    <3>2. k = i \/ k \in pos[s] + 1..i - 1
      BY <1>1, <2>1, <3>1
    <3>3. k = i
      BY <1>7, <3>1, <3>2 DEF Handled, IsNext
    <3> QED BY <1>4, <3>3 DEF e, NoTime
  <2> QED BY <2>4, <2>5
<1>8. Recorded'
  BY <1>1, <1>7 DEF Recorded
<1> QED BY <1>4, <1>5, <1>6, <1>8 DEF e

(***************************************************************************)
(* An order comes behind all others, or the last one is taken back.        *)
(***************************************************************************)
LEMMA OrdersNext ==
  ASSUME IInv, NEW i, Handled(i, "mangrove")
  PROVE  LET e == log[i]
             all == Orders(MaxTime)
         IN  /\ Kind[e.tx] = "order"
             /\ e.undo => \E x \in Entry : x.tx = e.tx /\ all = Append(Orders(MaxTime)', x)
             /\ ~e.undo => /\ \A t \in Int : Orders(t)' = Longer(Orders(t), e, t)
                           /\ Orders(MaxTime)' = Append(all, e)
                           /\ \A n \in 1..Len(all) : all[n].time <= e.time
             /\ Orders(MaxTime)' \in Seq(Entry) /\ all \in Seq(Entry)
<1> DEFINE e == log[i]
           m == pos["mangrove"]
           q == i - 1
           b == ChainAt(log, q)
           d == ChainAt(log, i)
<1>1. /\ log \in Seq(Entry) /\ m \in 0..Len(log) /\ i \in 1..Len(log) /\ i > m /\ i \in Nat
      /\ e \in Entry /\ e.tx \in Txs /\ e.time \in 0..MaxTime /\ e.undo \in BOOLEAN
      /\ pos'["mangrove"] = i /\ Grounded(log) /\ log' = log
  <2>1. "mangrove" \in Streams
    BY DEF Streams
  <2> QED BY <2>1, HandledEntry DEF IInv, Handled
<1>2. MaxTime \in Int
  BY HistoryAssumption
<1>3. IsNext(i, "mangrove")
  BY DEF Handled
<1>4. Kind[e.tx] = "order"
  BY <1>1, <1>3, KindOfStream DEF IsNext
<1> HIDE DEF e
<1>5. b \in Seq(Entry) /\ d \in Seq(Entry) /\ \E x : EntryBetween(x, e, b, d)
  BY <1>1, ChainStep DEF e
<1>6. PICK x : EntryBetween(x, e, b, d)
  BY <1>5
<1>7. q \in m..Len(log) /\ \A j \in (m + 1)..q : Kind[log[j].tx] # "order"
  <2>1. q \in m..Len(log) /\ \A j \in (m + 1)..q : j \in 1..Len(log) /\ j \in m + 1..i - 1
    BY <1>1
  <2> HIDE DEF q
  <2>2. ASSUME NEW j \in (m + 1)..q
        PROVE  Kind[log[j].tx] # "order"
    <3>1. StreamOf(log[j].tx) # "mangrove"
      BY <1>3, <2>1 DEF IsNext
    <3>2. log[j] \in Entry
      BY <1>1, <2>1
    <3>3. log[j].tx \in Txs
      BY <3>2 DEF Entry
    <3> QED BY <3>1, <3>3, KindOfStream
  <2> QED BY <2>1, <2>2
<1>8. SameOrders(ChainAt(log, m), b)
  <2> HIDE DEF m, q
  <2> QED BY <1>1, <1>7, OrdersSkipped
<1>9. \A t \in Int : Orders(t) = OrdersUpTo(b, t)
  BY <1>8 DEF SameOrders, Orders
<1>10. \A t : Orders(t)' = OrdersUpTo(d, t)
  BY <1>1 DEF Orders
<1>11. Ordered(b)
  <2>1. q \in 0..Len(log)
    BY <1>1
  <2> HIDE DEF q
  <2> QED BY <1>1, <2>1, ChainOrdered
<1>12. Follows(e, b)
  BY <1>1 DEF Grounded, e
<1> HIDE DEF m, q, b, d
<1>13. x \in Entry /\ x.tx = e.tx /\ x.time = e.time /\ x.time <= MaxTime
  BY <1>1, <1>6 DEF EntryBetween
<1>14. /\ OrdersUpTo(b, MaxTime) \in Seq(Entry) /\ OrdersUpTo(d, MaxTime) \in Seq(Entry)
  BY <1>5, <1>13, OrdersAppend
<1>15. ASSUME e.undo
       PROVE  Orders(MaxTime) = Append(Orders(MaxTime)', x)
  <2>1. b = Append(d, x)
    BY <1>6, <1>15 DEF EntryBetween
  <2>2. OrdersUpTo(Append(d, x), MaxTime) = Longer(OrdersUpTo(d, MaxTime), x, MaxTime)
    BY <1>5, <1>13, OrdersAppend
  <2>3. OrdersUpTo(b, MaxTime) = Append(OrdersUpTo(d, MaxTime), x)
    BY <1>4, <1>13, <2>1, <2>2 DEF Longer, Counts
  <2> QED BY <1>2, <1>9, <1>10, <2>3
<1>16. ASSUME ~e.undo
       PROVE  /\ \A t \in Int : Orders(t)' = Longer(Orders(t), e, t)
              /\ Orders(MaxTime)' = Append(Orders(MaxTime), e)
              /\ \A n \in 1..Len(Orders(MaxTime)) : Orders(MaxTime)[n].time <= e.time
  <2>1. d = Append(b, e)
    BY <1>6, <1>16 DEF EntryBetween
  <2>2. ASSUME NEW t \in Int
        PROVE  Orders(t)' = Longer(Orders(t), e, t)
    <3>1. OrdersUpTo(Append(b, e), t) = Longer(OrdersUpTo(b, t), e, t)
      BY <1>1, <1>5, OrdersAppend
    <3> QED BY <1>9, <1>10, <2>1, <3>1
  <2>3. Orders(MaxTime)' = Append(Orders(MaxTime), e)
    <3>1. Orders(MaxTime)' = Longer(Orders(MaxTime), e, MaxTime)
      BY <1>2, <2>2
    <3> QED BY <1>4, <1>13, <3>1 DEF Longer, Counts
  <2>4. ASSUME NEW n \in 1..Len(OrdersUpTo(b, MaxTime))
        PROVE  OrdersUpTo(b, MaxTime)[n].time <= e.time
    <3>1. FromChain(OrdersUpTo(b, MaxTime), b)
      BY <1>2, <1>5, <1>11, SplitAll DEF Split
    <3>2. PICK j \in 1..Len(b) : OrdersUpTo(b, MaxTime)[n] = b[j]
      BY <3>1 DEF FromChain
    <3> QED BY <1>12, <1>16, <3>2 DEF Follows
  <2> QED BY <1>2, <1>9, <2>2, <2>3, <2>4
<1>17. Orders(MaxTime)' \in Seq(Entry) /\ Orders(MaxTime) \in Seq(Entry)
  BY <1>2, <1>9, <1>10, <1>14
<1> QED BY <1>4, <1>13, <1>15, <1>16, <1>17 DEF e

\* The transactions of the orders get one more, with the orders.
LEMMA TxsOfAppend ==
  ASSUME NEW orders \in Seq(Entry), NEW x \in Entry
  PROVE  /\ TxsOf(orders) \in Seq(Txs) /\ x.tx \in Txs
         /\ TxsOf(Append(orders, x)) = Append(TxsOf(orders), x.tx)
<1> DEFINE b == Append(orders, x)
           n == Len(orders)
           u == TxsOf(orders)
           v == Append(u, x.tx)
           w == TxsOf(b)
<1>1. /\ b \in Seq(Entry) /\ Len(b) = n + 1 /\ n \in Nat /\ b[n + 1] = x
      /\ \A i \in 1..n : b[i] = orders[i]
  BY AppendProperties
<1>2. \A y \in Entry : y.tx \in Txs
  BY DEF Entry
<1>3. \A i \in 1..n : orders[i].tx \in Txs
  BY <1>2
<1>4. u \in Seq(Txs) /\ Len(u) = n /\ \A i \in 1..n : u[i] = orders[i].tx
  BY <1>1, <1>3 DEF TxsOf
<1> HIDE DEF b, u, n
<1>5. v \in Seq(Txs) /\ Len(v) = n + 1 /\ v[n + 1] = x.tx /\ \A i \in 1..n : v[i] = u[i]
  BY <1>2, <1>4, AppendProperties
<1>6. \A i \in 1..(n + 1) : b[i].tx = v[i] /\ b[i].tx \in Txs
  BY <1>1, <1>2, <1>3, <1>4, <1>5
<1>7. w \in Seq(Txs) /\ Len(w) = n + 1 /\ \A i \in 1..(n + 1) : w[i] = b[i].tx
  BY <1>1, <1>6 DEF TxsOf
<1> HIDE DEF v, w
<1>8. w = v
  BY <1>5, <1>6, <1>7, SeqEqual
<1> QED BY <1>2, <1>4, <1>8 DEF b, u, v, w

(***************************************************************************)
(* An order makes a version and a balance; when it is taken back, the      *)
(* version goes.                                                           *)
(***************************************************************************)
LEMMA VersionsNext ==
  ASSUME IInv, NEW i, Handled(i, "mangrove")
  PROVE  /\ versions' \in Seq(Txs) /\ VersionsReplayed'
         /\ \A n \in 1..Len(versions') : time'[versions'[n]] # NoTime
<1> DEFINE e == log[i]
           all == Orders(MaxTime)
<1>1. /\ versions \in Seq(Txs) /\ versions = TxsOf(all) /\ e \in Entry /\ e.tx \in Txs
      /\ \A n \in 1..Len(versions) : time[versions[n]] # NoTime
  <2>1. "mangrove" \in Streams
    BY DEF Streams
  <2> QED BY <2>1, HandledEntry DEF IInv, Types, VersionsReplayed, RowsStored
<1>2. /\ \A tx \in Txs : time[tx] # NoTime => time'[tx] = time[tx]
      /\ time'[e.tx] # NoTime
  <2>1. "mangrove" \in Streams
    BY DEF Streams
  <2>2. time'[e.tx] \in 0..MaxTime /\ \A tx \in Txs : time[tx] # NoTime => time'[tx] = time[tx]
    BY <2>1, HandledTime
  <2> HIDE DEF e
  <2> QED BY <2>2 DEF NoTime
<1>3. /\ e.undo => \E x \in Entry : x.tx = e.tx /\ all = Append(Orders(MaxTime)', x)
      /\ ~e.undo => Orders(MaxTime)' = Append(all, e)
      /\ Orders(MaxTime)' \in Seq(Entry) /\ all \in Seq(Entry) /\ Kind[e.tx] = "order"
  BY OrdersNext
<1>4. /\ e.undo => versions' = Front(versions)
      /\ ~e.undo => versions' = Append(versions, e.tx)
  BY <1>3 DEF Handled, Order
<1> HIDE DEF e, all
<1>5. CASE e.undo
  <2>1. PICK x \in Entry : x.tx = e.tx /\ all = Append(Orders(MaxTime)', x)
    BY <1>3, <1>5
  <2> DEFINE kept == TxsOf(Orders(MaxTime)')
  <2>2. kept \in Seq(Txs) /\ x.tx \in Txs /\ versions = Append(kept, x.tx)
    BY <1>1, <1>3, <2>1, TxsOfAppend
  <2>3. versions' = kept
    <3> HIDE DEF kept
    <3> QED BY <1>4, <1>5, <2>2, FrontOfAppend
  <2>4. VersionsReplayed'
    BY <2>3 DEF VersionsReplayed, TxsOf
  <2> HIDE DEF kept
  <2>5. /\ Len(versions) = Len(kept) + 1 /\ Len(kept) \in Nat
        /\ \A n \in 1..Len(kept) : kept[n] = versions[n] /\ kept[n] \in Txs
    BY <2>2, AppendProperties
  <2>6. \A n \in 1..Len(kept) : time'[kept[n]] # NoTime
    <3>1. \A n \in 1..Len(kept) : n \in 1..Len(versions)
      BY <2>5
    <3> QED BY <1>1, <1>2, <2>5, <3>1
  <2> QED BY <2>2, <2>3, <2>4, <2>6
<1>6. CASE ~e.undo
  <2> DEFINE more == Append(versions, e.tx)
  <2>1. versions' = more /\ more \in Seq(Txs)
    BY <1>1, <1>4, <1>6, AppendProperties
  <2>2. TxsOf(Orders(MaxTime)') = more
    BY <1>1, <1>3, <1>6, TxsOfAppend
  <2>3. VersionsReplayed'
    BY <2>1, <2>2 DEF VersionsReplayed, TxsOf
  <2>4. /\ Len(more) = Len(versions) + 1 /\ Len(versions) \in Nat
        /\ more[Len(versions) + 1] = e.tx
        /\ \A n \in 1..Len(versions) : more[n] = versions[n] /\ versions[n] \in Txs
    BY <1>1, AppendProperties
  <2> HIDE DEF more
  <2>5. \A n \in 1..Len(more) : time'[more[n]] # NoTime
    <3>1. \A n \in 1..Len(more) : n = Len(versions) + 1 \/ n \in 1..Len(versions)
      BY <2>4
    <3> QED BY <1>1, <1>2, <2>4, <3>1
  <2> QED BY <2>1, <2>3, <2>5
<1> QED BY <1>1, <1>5, <1>6 DEF Entry

\* The balances are counted up by one, and are not taken back.
LEMMA SendsNext ==
  ASSUME IInv, NEW i, Handled(i, "mangrove")
  PROVE  /\ sends' \in Seq(Row)
         /\ \A n \in 1..Len(sends') : time'[sends'[n].tx] # NoTime /\ sends'[n].send = n
         /\ ~log[i].undo =>
              /\ Len(sends') = Len(sends) + 1 /\ sends'[Len(sends) + 1].tx = log[i].tx
              /\ \A n \in 1..Len(sends) : sends'[n] = sends[n]
<1> DEFINE e == log[i]
           n == Len(sends)
           row == [tx |-> e.tx, send |-> n + 1]
           more == Append(sends, row)
<1>1. /\ sends \in Seq(Row) /\ n \in Nat /\ e.tx \in Txs
      /\ \A k \in 1..n : time[sends[k].tx] # NoTime /\ sends[k].send = k
  <2>1. "mangrove" \in Streams
    BY DEF Streams
  <2> QED BY <2>1, HandledEntry DEF IInv, Types, RowsStored
<1>2. /\ \A tx \in Txs : time[tx] # NoTime => time'[tx] = time[tx]
      /\ time'[e.tx] # NoTime
  <2>1. "mangrove" \in Streams
    BY DEF Streams
  <2>2. time'[e.tx] \in 0..MaxTime /\ \A tx \in Txs : time[tx] # NoTime => time'[tx] = time[tx]
    BY <2>1, HandledTime
  <2> HIDE DEF e
  <2> QED BY <2>2 DEF NoTime
<1>3. Kind[e.tx] = "order"
  BY OrdersNext
<1>4. \A k \in 1..n : sends[k].tx \in Txs
  <2>1. \A k \in 1..n : sends[k] \in Row
    BY <1>1
  <2> QED BY <2>1 DEF Row
<1>5. 1 + (IF sends = <<>> THEN 0 ELSE Last(sends).send) = n + 1
  <2>1. CASE sends = <<>>
    BY <2>1
  <2>2. CASE sends # <<>>
    <3>1. n \in 1..n
      BY <1>1, <2>2
    <3>2. Last(sends) = sends[n]
      BY DEF Last
    <3> HIDE DEF n
    <3> QED BY <1>1, <2>2, <3>1, <3>2
  <2> QED BY <2>1, <2>2
<1>6. CASE e.undo
  <2>1. sends' = sends
    BY <1>3, <1>6 DEF Handled, Order
  <2>2. \A k \in 1..n : time'[sends[k].tx] # NoTime
    BY <1>1, <1>2, <1>4
  <2> QED BY <1>1, <1>6, <2>1, <2>2
<1>7. CASE ~e.undo
  <2>1. sends' = more
    <3>1. sends' = Append(sends, [tx   |-> e.tx,
                                  send |-> 1 + IF sends = <<>> THEN 0 ELSE Last(sends).send])
      BY <1>3, <1>7 DEF Handled, Order
    <3> QED BY <1>5, <3>1
  <2>2. row \in Row /\ row.tx = e.tx /\ row.send = n + 1
    BY <1>1 DEF Row
  <2> HIDE DEF row
  <2>3. /\ more \in Seq(Row) /\ Len(more) = n + 1 /\ more[n + 1] = row
        /\ \A k \in 1..n : more[k] = sends[k]
    BY <1>1, <2>2, AppendProperties
  <2> HIDE DEF n, more
  <2>4. ASSUME NEW k \in 1..(n + 1)
        PROVE  time'[more[k].tx] # NoTime /\ more[k].send = k
    <3>1. CASE k = n + 1
      BY <1>2, <2>2, <2>3, <3>1
    <3>2. CASE k # n + 1
      <4>1. k \in 1..n
        BY <1>1, <3>2
      <4> QED BY <1>1, <1>2, <1>4, <2>3, <4>1
    <3> QED BY <3>1, <3>2
  <2> QED BY <2>1, <2>2, <2>3, <2>4 DEF n
<1> QED BY <1>6, <1>7

(***************************************************************************)
(* As long as no order is taken back, each order that was seen is left.    *)
(***************************************************************************)
LEMMA LeftNext ==
  ASSUME IInv, NEW i, Handled(i, "mangrove"), ~OrderTakenBack'
  PROVE  /\ ~OrderTakenBack /\ ~log[i].undo
         /\ SendsCounted' /\ AllLeft'
<1> DEFINE e == log[i]
           all == Orders(MaxTime)
           m == pos["mangrove"]
<1>1. /\ log \in Seq(Entry) /\ m \in 0..Len(log) /\ i \in 1..Len(log) /\ i > m
      /\ pos'["mangrove"] = i /\ log' = log /\ e \in Entry /\ Len(log) \in Nat
  <2>1. "mangrove" \in Streams
    BY DEF Streams
  <2>2. log \in Seq(Entry) /\ Len(log) \in Nat
    BY DEF IInv, Types
  <2> QED BY <2>1, <2>2, HandledEntry DEF Handled
<1>2. Kind[e.tx] = "order"
  BY OrdersNext
<1>3. ~e.undo
  <2>1. i \in 1..pos'["mangrove"]
    BY <1>1
  <2> QED BY <1>1, <1>2, <2>1 DEF OrderTakenBack
<1>4. ~OrderTakenBack
  <2>1. \A k \in 1..m : k \in 1..pos'["mangrove"]
    BY <1>1
  <2> QED BY <1>1, <2>1 DEF OrderTakenBack
<1>5. Orders(MaxTime)' = Append(all, e) /\ all \in Seq(Entry)
  BY <1>3, OrdersNext
<1>6. SendsCounted'
  <2>1. /\ Len(sends) = Len(versions) /\ Len(versions) \in Nat /\ versions \in Seq(Txs)
        /\ e.tx \in Txs /\ \A n \in 1..Len(sends) : sends[n].tx = versions[n]
    <3>1. "mangrove" \in Streams
      BY DEF Streams
    <3> QED BY <1>4, <3>1, HandledEntry DEF IInv, SendsCounted, Types
  <2>2. versions' = Append(versions, e.tx)
    BY <1>2, <1>3 DEF Handled, Order
  <2>3. /\ Len(versions') = Len(versions) + 1 /\ versions'[Len(versions) + 1] = e.tx
        /\ \A n \in 1..Len(versions) : versions'[n] = versions[n]
    <3> HIDE DEF e
    <3> QED BY <2>1, <2>2, AppendProperties
  <2>4. /\ Len(sends') = Len(sends) + 1 /\ sends'[Len(sends) + 1].tx = e.tx
        /\ \A n \in 1..Len(sends) : sends'[n] = sends[n]
    BY <1>3, SendsNext
  <2>5. ASSUME NEW n \in 1..Len(sends')
        PROVE  sends'[n].tx = versions'[n]
    <3>1. n = Len(versions) + 1 \/ n \in 1..Len(versions)
      BY <2>1, <2>4
    <3> QED BY <2>1, <2>3, <2>4, <3>1
  <2>6. Len(sends') = Len(versions')
    BY <2>1, <2>3, <2>4
  <2> QED BY <2>5, <2>6 DEF SendsCounted
<1>7. AllLeft'
  <2> DEFINE next == Append(all, e)
  <2>1. /\ Len(next) = Len(all) + 1 /\ Len(all) \in Nat /\ next[Len(all) + 1] = e
        /\ \A n \in 1..Len(all) : next[n] = all[n]
    <3> HIDE DEF e, all
    <3> QED BY <1>1, <1>5, AppendProperties
  <2> HIDE DEF next
  <2>2. Len(all) + 1 \in 1..Len(next) /\ \A n \in 1..Len(all) : n \in 1..Len(next)
    BY <2>1
  <2>3. ASSUME NEW k \in 1..i, Kind[log[k].tx] = "order"
        PROVE  Among(log[k], next)
    <3>1. CASE k = i
      BY <2>1, <2>2, <3>1 DEF Among
    <3>2. CASE k \in m + 1..i - 1
      <4>1. StreamOf(log[k].tx) # "mangrove"
        BY <3>2 DEF Handled, IsNext
      <4>2. k \in 1..Len(log)
        BY <1>1
      <4>3. log[k] \in Entry
        BY <1>1, <4>2
      <4>4. log[k].tx \in Txs
        BY <4>3 DEF Entry
      <4> QED BY <2>3, <4>1, <4>4, KindOfStream
    <3>3. CASE k \in 1..m
      <4>1. Among(log[k], all)
        BY <1>4, <2>3, <3>3 DEF IInv, AllLeft
      <4> QED BY <2>1, <2>2, <4>1 DEF Among
    <3>4. k = i \/ k \in m + 1..i - 1 \/ k \in 1..m
      BY <1>1
    <3> QED BY <3>1, <3>2, <3>3, <3>4
  <2>4. Orders(MaxTime)' = next
    BY <1>5 DEF next
  <2> QED BY <1>1, <2>3, <2>4 DEF AllLeft
<1> QED BY <1>3, <1>4, <1>6, <1>7

(***************************************************************************)
(* The past of an event that an order has ended is not changed by another  *)
(* order.                                                                  *)
(***************************************************************************)
LEMMA PastStays ==
  ASSUME IInv, NEW i, Handled(i, "mangrove"), ~log[i].undo,
         NEW x \in events, PastClosed(x)
  PROVE  PastClosed(x)'
<1> DEFINE e == log[i]
           all == Orders(MaxTime)
<1> PICK t : t = time[x.tx]
  OBVIOUS
<1>1. x \in Row /\ x.tx \in Txs /\ t # NoTime /\ t \in Int
  <2>1. x \in Row /\ t # NoTime /\ time \in [Txs -> StoredTime]
    BY DEF IInv, Types, RowsStored
  <2>2. x.tx \in Txs
    BY <2>1 DEF Row
  <2>3. t \in StoredTime
    BY <2>1, <2>2
  <2> QED BY <2>1, <2>2, <2>3 DEF StoredTime, NoTime
<1>2. time'[x.tx] = t
  <2>1. "mangrove" \in Streams
    BY DEF Streams
  <2>2. \A tx \in Txs : time[tx] # NoTime => time'[tx] = time[tx]
    BY <2>1, HandledTime
  <2> QED BY <1>1, <2>2
<1>3. /\ \A u \in Int : Orders(u)' = Longer(Orders(u), e, u)
      /\ Orders(MaxTime)' = Append(all, e) /\ all \in Seq(Entry)
      /\ \A n \in 1..Len(all) : all[n].time <= e.time
  BY OrdersNext
<1>4. e \in Entry /\ e.time \in Int
  <2>1. "mangrove" \in Streams
    BY DEF Streams
  <2>2. e \in Entry /\ e.time \in 0..MaxTime
    BY <2>1, HandledEntry
  <2> HIDE DEF e
  <2> QED BY <2>2
<1>5. PICK n \in 1..Len(all) : all[n].time > t
  BY DEF PastClosed
<1>6. x.send = Len(Orders(t))
  BY DEF PastClosed
<1> HIDE DEF e, all
<1>7. all[n].time \in Int
  <2>1. all[n] \in Entry
    BY <1>3
  <2> QED BY <2>1 DEF Entry
<1>8. ~(e.time <= t)
  BY <1>1, <1>3, <1>4, <1>5, <1>7
<1>9. Orders(t)' = Orders(t)
  BY <1>1, <1>3, <1>8 DEF Longer, Counts
<1> DEFINE next == Append(all, e)
<1>10. Len(next) = Len(all) + 1 /\ Len(all) \in Nat /\ \A k \in 1..Len(all) : next[k] = all[k]
  BY <1>3, <1>4, AppendProperties
<1> HIDE DEF next
<1>11. n \in 1..Len(next) /\ next[n].time > t
  BY <1>5, <1>10
<1>12. Orders(MaxTime)' = next
  BY <1>3 DEF next
<1>13. \E k \in 1..Len(Orders(MaxTime)') : Orders(MaxTime)'[k].time > time'[x.tx]
  BY <1>2, <1>11, <1>12
<1>14. PastClosed(x)' <=>
         /\ \E k \in 1..Len(Orders(MaxTime)') : Orders(MaxTime)'[k].time > time'[x.tx]
         /\ x.send = Len(OrdersUpTo(ChainAt(log', pos'["mangrove"]), time'[x.tx]))
  BY DEF PastClosed, Orders
<1>15. OrdersUpTo(ChainAt(log', pos'["mangrove"]), t) = Orders(t)
  BY <1>9 DEF Orders
<1> QED BY <1>2, <1>6, <1>13, <1>14, <1>15

\* The mangrove stream keeps the invariant.
LEMMA MangroveIInv ==
  ASSUME IInv, NEW i, Handled(i, "mangrove")
  PROVE  IInv'
<1> DEFINE e == log[i]
<1>1. "mangrove" \in Streams /\ "kandel" \in Streams
  BY DEF Streams
<1>2. /\ log \in Seq(Entry) /\ Grounded(log) /\ log' = log
      /\ pos' \in [Streams -> 0..Len(log)] /\ pos'["kandel"] = pos["kandel"]
  BY <1>1, HandledEntry DEF IInv, Handled
<1>3. Kind[e.tx] = "order"
  BY OrdersNext
<1>4. credits' = credits /\ events' = events /\ early' = early
  BY <1>3 DEF Handled
<1>5. /\ time' \in [Txs -> StoredTime] /\ Recorded'
      /\ \A tx \in Txs : time[tx] # NoTime => time'[tx] = time[tx]
      /\ Restamped' = {} => Restamped = {}
  BY <1>1, HandledTime
<1>6. /\ versions' \in Seq(Txs) /\ VersionsReplayed'
      /\ \A n \in 1..Len(versions') : time'[versions'[n]] # NoTime
  BY VersionsNext
<1>7. /\ sends' \in Seq(Row)
      /\ \A n \in 1..Len(sends') : time'[sends'[n].tx] # NoTime /\ sends'[n].send = n
  BY SendsNext
<1>8. ~OrderTakenBack' => ~OrderTakenBack /\ ~e.undo /\ SendsCounted' /\ AllLeft'
  BY LeftNext
<1>9. Types'
  BY <1>2, <1>4, <1>5, <1>6, <1>7 DEF IInv, Types
<1>10. /\ \A n \in 1..Len(credits) : credits[n] \in Txs /\ time[credits[n]] # NoTime
       /\ \A x \in events : x.tx \in Txs /\ time[x.tx] # NoTime
  <2>1. credits \in Seq(Txs) /\ events \subseteq Row
    BY DEF IInv, Types
  <2>2. \A n \in 1..Len(credits) : credits[n] \in Txs
    BY <2>1
  <2>3. \A x \in events : x.tx \in Txs
    BY <2>1 DEF Row
  <2> QED BY <2>2, <2>3 DEF IInv, RowsStored
<1>11. RowsStored'
  BY <1>4, <1>5, <1>6, <1>7, <1>10 DEF RowsStored
<1>12. EventsListed'
  BY <1>2, <1>4 DEF IInv, EventsListed
<1>13. SendsCounted' /\ AllLeft'
  BY <1>8 DEF SendsCounted, AllLeft
<1>14. Snapshots'
  <2>1. ASSUME Restamped' = {}, ~OrderTakenBack', NEW x \in events', x.tx \notin early'
        PROVE  PastClosed(x)'
    <3>1. x \in events /\ PastClosed(x)
      BY <1>4, <1>5, <1>8, <2>1 DEF IInv, Snapshots
    <3>2. ~log[i].undo
      BY <1>8, <2>1
    <3> QED BY <3>1, <3>2, PastStays
  <2> QED BY <2>1 DEF Snapshots
<1> QED BY <1>2, <1>5, <1>6, <1>9, <1>11, <1>12, <1>13, <1>14 DEF IInv

(***************************************************************************)
(* The other streams leave the orders alone.                               *)
(***************************************************************************)
LEMMA OtherOrders ==
  ASSUME IInv, NEW s \in Streams \ {"mangrove"}, NEW i, Handled(i, s)
  PROVE  /\ versions' = versions /\ sends' = sends /\ Kind[log[i].tx] # "order"
         /\ \A t : Orders(t)' = Orders(t)
         /\ OrderTakenBack' <=> OrderTakenBack
         /\ VersionsReplayed' /\ SendsCounted' /\ AllLeft'
<1>1. s \in Streams /\ s # "mangrove" /\ "mangrove" \in Streams
  BY DEF Streams
<1>2. log' = log /\ pos'["mangrove"] = pos["mangrove"] /\ log[i].tx \in Txs
  BY <1>1, HandledEntry DEF Handled
<1>3. Kind[log[i].tx] # "order"
  BY <1>1, <1>2, KindOfStream DEF Handled, IsNext
<1>4. versions' = versions /\ sends' = sends
  BY <1>3 DEF Handled
<1>5. \A t : Orders(t)' = Orders(t)
  BY <1>2 DEF Orders
<1>6. OrderTakenBack' <=> OrderTakenBack
  BY <1>2 DEF OrderTakenBack
<1>7. VersionsReplayed' /\ SendsCounted' /\ AllLeft'
  BY <1>2, <1>4, <1>5, <1>6 DEF IInv, VersionsReplayed, SendsCounted, AllLeft
<1> QED BY <1>3, <1>4, <1>5, <1>6, <1>7

(***************************************************************************)
(* A credit of the kandel, with which its earlier ones are still there.    *)
(***************************************************************************)
LEMMA CreditsNext ==
  ASSUME IInv, NEW s \in Streams, NEW i, Handled(i, s)
  PROVE  credits' \in Seq(Txs) /\ \A n \in 1..Len(credits') : time'[credits'[n]] # NoTime
<1> DEFINE e == log[i]
<1>1. credits \in Seq(Txs) /\ \A n \in 1..Len(credits) : time[credits[n]] # NoTime
  BY DEF IInv, Types, RowsStored
<1>2. e.tx \in Txs /\ e.undo \in BOOLEAN
  BY HandledEntry
<1>3. /\ \A tx \in Txs : time[tx] # NoTime => time'[tx] = time[tx]
      /\ time'[e.tx] # NoTime
  <2>1. time'[e.tx] \in 0..MaxTime /\ \A tx \in Txs : time[tx] # NoTime => time'[tx] = time[tx]
    BY HandledTime
  <2> HIDE DEF e
  <2> QED BY <2>1 DEF NoTime
<1>4. credits' \in {credits, Front(credits), Append(credits, e.tx)}
  BY DEF Handled, Credit
<1> HIDE DEF e
<1>5. \A n \in 1..Len(credits) : credits[n] \in Txs /\ time'[credits[n]] # NoTime
  BY <1>1, <1>3
<1>6. CASE credits' = credits
  BY <1>1, <1>5, <1>6
<1>7. CASE credits' = Front(credits)
  <2>1. CASE credits = <<>>
    <3>1. Front(credits) \in Seq({})
      <4>1. credits \in Seq({})
        BY <2>1
      <4> QED BY <4>1, FrontType
    <3>2. Front(credits) = <<>>
      BY <3>1
    <3> QED BY <1>1, <1>5, <1>7, <2>1, <3>2
  <2>2. CASE credits # <<>>
    <3>1. /\ Front(credits) \in Seq(Txs) /\ Len(Front(credits)) = Len(credits) - 1
          /\ Len(credits) \in Nat
          /\ \A n \in 1..(Len(credits) - 1) : Front(credits)[n] = credits[n]
      BY <1>1, <2>2, FrontLast
    <3>2. \A n \in 1..(Len(credits) - 1) : n \in 1..Len(credits)
      BY <3>1
    <3> QED BY <1>5, <1>7, <3>1, <3>2
  <2> QED BY <2>1, <2>2
<1>8. CASE credits' = Append(credits, e.tx)
  <2> DEFINE more == Append(credits, e.tx)
  <2>1. /\ more \in Seq(Txs) /\ Len(more) = Len(credits) + 1 /\ Len(credits) \in Nat
        /\ more[Len(credits) + 1] = e.tx /\ \A n \in 1..Len(credits) : more[n] = credits[n]
    BY <1>1, <1>2, AppendProperties
  <2> HIDE DEF more
  <2>2. \A n \in 1..Len(more) : n = Len(credits) + 1 \/ n \in 1..Len(credits)
    BY <2>1
  <2>3. \A n \in 1..Len(more) : time'[more[n]] # NoTime
    BY <1>3, <1>5, <2>1, <2>2
  <2> QED BY <1>8, <2>1, <2>3 DEF more
<1> QED BY <1>4, <1>6, <1>7, <1>8

-----------------------------------------------------------------------------
(***************************************************************************)
(* The events of the kandel.                                               *)
(***************************************************************************)
LEMMA OnNext ==
  ASSUME IInv, NEW i, Handled(i, "kandel")
  PROVE  /\ \A tx \in Txs :
              Kind[tx] \in {"populate", "retract"} /\ tx # log[i].tx
              /\ On(ChainAt(log, pos["kandel"]), tx) => On(ChainAt(log, i), tx)
         /\ ~log[i].undo => /\ ~On(ChainAt(log, pos["kandel"]), log[i].tx)
                            /\ On(ChainAt(log, i), log[i].tx)
<1> DEFINE e == log[i]
           p == pos["kandel"]
           q == i - 1
<1>1. /\ log \in Seq(Entry) /\ p \in 0..Len(log) /\ i \in 1..Len(log) /\ i > p /\ i \in Nat
      /\ e \in Entry /\ e.tx \in Txs /\ Grounded(log) /\ Len(log) \in Nat
  <2>1. "kandel" \in Streams /\ log \in Seq(Entry) /\ Len(log) \in Nat /\ Grounded(log)
    BY DEF Streams, IInv, Types
  <2> QED BY <2>1, HandledEntry
<1>2. /\ StreamOf(e.tx) = "kandel"
      /\ \A j \in (p + 1)..q : StreamOf(log[j].tx) # "kandel"
  BY DEF Handled, IsNext
<1>3. i \in p..Len(log) /\ q \in p..Len(log)
      /\ \A j \in (p + 1)..i : j = i \/ j \in (p + 1)..q
  BY <1>1
<1> HIDE DEF e, p, q
<1>4. ASSUME NEW tx \in Txs, Kind[tx] \in {"populate", "retract"}, tx # e.tx,
             On(ChainAt(log, p), tx)
      PROVE  On(ChainAt(log, i), tx)
  <2>1. StreamOf(tx) = "kandel"
    BY <1>4, KindOfStream
  <2>2. \A j \in (p + 1)..i : log[j].tx # tx
    BY <1>2, <1>3, <1>4, <2>1 DEF e
  <2> QED BY <1>1, <1>3, <1>4, <2>2, OnSkipped
<1>5. ASSUME ~e.undo
      PROVE  ~On(ChainAt(log, p), e.tx) /\ On(ChainAt(log, i), e.tx)
  <2>1. ChainAt(log, q) \in Seq(Entry) /\ ChainAt(log, i) \in Seq(Entry)
        /\ \E x : EntryBetween(x, e, ChainAt(log, q), ChainAt(log, i))
    BY <1>1, ChainStep DEF e, q
  <2>2. PICK x : EntryBetween(x, e, ChainAt(log, q), ChainAt(log, i))
    BY <2>1
  <2>3. ChainAt(log, i) = Append(ChainAt(log, q), e)
    BY <1>5, <2>2 DEF EntryBetween
  <2>4. On(ChainAt(log, i), e.tx)
    <3> DEFINE c == ChainAt(log, q)
    <3>1. c \in Seq(Entry)
      BY <2>1
    <3> HIDE DEF c
    <3>2. On(Append(c, e), e.tx) <=> On(c, e.tx) \/ e.tx = e.tx
      BY <1>1, <3>1, OnAppend
    <3> QED BY <2>3, <3>2 DEF c
  <2>5. Follows(e, ChainAt(log, q))
    BY <1>1 DEF Grounded, e, q
  <2>6. ~On(ChainAt(log, q), e.tx)
    BY <1>5, <2>5 DEF Follows, On
  <2>7. \A j \in (p + 1)..q : log[j].tx # e.tx
    BY <1>2
  <2>8. On(ChainAt(log, p), e.tx) <=> On(ChainAt(log, q), e.tx)
    BY <1>1, <1>3, <2>7, OnSkipped
  <2> QED BY <2>4, <2>6, <2>8
<1> QED BY <1>4, <1>5 DEF e, p

(***************************************************************************)
(* What is in an event that mangrove let through.                          *)
(***************************************************************************)
LEMMA NewEventClosed ==
  ASSUME IInv, NEW s \in Streams \ {"mangrove"}, NEW i, Handled(i, s),
         Restamped' = {}, ~OrderTakenBack', MangroveIsLater(log[i].time),
         NEW x, x = [tx |-> log[i].tx, send |-> LatestSend(time'[log[i].tx])]
  PROVE  PastClosed(x)'
<1> DEFINE e == log[i]
           all == Orders(MaxTime)
<1>1. s \in Streams /\ e.time \in 0..MaxTime /\ log \in Seq(Entry)
  BY HandledEntry
<1>2. Restamped = {} /\ time'[e.tx] = e.time
  BY <1>1, HandledTime
<1>3. ~OrderTakenBack /\ \A t : Orders(t)' = Orders(t)
  BY OtherOrders
<1>4. x.tx = e.tx /\ x.send = LatestSend(e.time)
  BY <1>2
<1>5. PICK k \in 1..pos["mangrove"] :
        Kind[log[k].tx] = "order" /\ LaterThan(time[log[k].tx], e.time)
  BY DEF MangroveIsLater
<1>6. PICK n \in 1..Len(all) : all[n] = log[k]
  BY <1>3, <1>5 DEF IInv, AllLeft, Among
<1>7. all[n].time > e.time
  BY <1>2, <1>5, <1>6, OrderTimes DEF LaterThan
<1>8. LatestSend(e.time) = Len(Orders(e.time))
  <2>1. e.time \in Nat
    BY <1>1
  <2> HIDE DEF e
  <2> QED BY <1>2, <1>3, <2>1, LatestSendPast
<1> HIDE DEF e, all
<1>9. PastClosed(x)' <=>
        /\ \E m \in 1..Len(Orders(MaxTime)') : Orders(MaxTime)'[m].time > time'[x.tx]
        /\ x.send = Len(OrdersUpTo(ChainAt(log', pos'["mangrove"]), time'[x.tx]))
  BY DEF PastClosed, Orders
<1>10. OrdersUpTo(ChainAt(log', pos'["mangrove"]), time'[x.tx]) = Orders(e.time)
  <2>1. PICK t : t = e.time
    OBVIOUS
  <2>2. Orders(t)' = Orders(t)
    BY <1>3
  <2> QED BY <1>2, <1>4, <2>1, <2>2 DEF Orders
<1>11. Orders(MaxTime)' = all
  BY <1>3 DEF all
<1> QED BY <1>2, <1>4, <1>6, <1>7, <1>8, <1>9, <1>10, <1>11

(***************************************************************************)
(* An event that stays is one that was there, of another transaction.      *)
(***************************************************************************)
LEMMA EventsKept ==
  ASSUME IInv, NEW s \in Streams \ {"mangrove"}, NEW i, Handled(i, s)
  PROVE  /\ events' \subseteq Row /\ IsFiniteSet(events')
         /\ early' \subseteq {x.tx : x \in events'}
         /\ \A x \in events' :
              \/ /\ x \in events /\ (s = "kandel" => x.tx # log[i].tx)
                 /\ x.tx \notin early' => x.tx \notin early
              \/ /\ s = "kandel" /\ ~log[i].undo
                 /\ Kind[log[i].tx] \in {"populate", "retract"}
                 /\ x = [tx |-> log[i].tx, send |-> LatestSend(time'[log[i].tx])]
                 /\ x.tx \notin early' => MangroveIsLater(log[i].time)
<1> DEFINE e == log[i]
           new == [tx |-> e.tx, send |-> LatestSend(time'[e.tx])]
<1>1. /\ s \in Streams /\ e.tx \in Txs /\ e.undo \in BOOLEAN
      /\ events \subseteq Row /\ IsFiniteSet(events) /\ early \subseteq {x.tx : x \in events}
      /\ StreamOf(e.tx) = s
  BY HandledEntry DEF IInv, Types, Handled, IsNext
<1>2. \A x \in events :
        Kind[x.tx] \in {"populate", "retract"} /\ On(ChainAt(log, pos["kandel"]), x.tx)
  BY DEF IInv, EventsListed
<1>3. new \in Row
  <2>1. LatestSend(time'[e.tx]) \in Nat
    BY LatestSendType DEF IInv
  <2> QED BY <1>1, <2>1 DEF Row
<1>4. CASE Kind[e.tx] \in {"populate", "retract"}
  <2>1. s = "kandel"
    BY <1>1, <1>4, KindOfStream
  <2>2. /\ events' = IF e.undo THEN {x \in events : x.tx # e.tx} ELSE events \cup {new}
        /\ early' = IF e.undo \/ MangroveIsLater(e.time) THEN early \ {e.tx}
                    ELSE early \cup {e.tx}
    BY <1>4 DEF Handled, PopulateOrRetract
  <2>3. ~e.undo => \A x \in events : x.tx # e.tx
    <3>1. ~e.undo => ~On(ChainAt(log, pos["kandel"]), e.tx)
      BY <2>1, OnNext
    <3> QED BY <1>2, <3>1
  <2>4. new.tx = e.tx
    OBVIOUS
  <2> HIDE DEF new
  <2>5. CASE e.undo
    <3>1. events' = {x \in events : x.tx # e.tx} /\ early' = early \ {e.tx}
      BY <2>2, <2>5
    <3> HIDE DEF e
    <3>2. IsFiniteSet(events')
      <4>1. events' \subseteq events
        BY <3>1
      <4> QED BY <1>1, <4>1, FS_Subset
    <3> QED BY <1>1, <3>1, <3>2 DEF e
  <2>6. CASE ~e.undo
    <3>1. /\ events' = events \cup {new}
          /\ early' = IF MangroveIsLater(e.time) THEN early \ {e.tx} ELSE early \cup {e.tx}
      BY <2>2, <2>6
    <3>2. IsFiniteSet(events')
      BY <1>1, <3>1, FS_AddElement
    <3>3. events' \subseteq Row /\ early' \subseteq {x.tx : x \in events'}
      BY <1>1, <1>3, <2>4, <3>1
    <3>4. ASSUME NEW x \in events'
          PROVE  \/ /\ x \in events /\ x.tx # e.tx
                    /\ x.tx \notin early' => x.tx \notin early
                 \/ x = new /\ (x.tx \notin early' => MangroveIsLater(e.time))
      BY <2>3, <2>4, <2>6, <3>1
    <3> QED BY <1>4, <2>1, <2>6, <3>2, <3>3, <3>4 DEF new
  <2> QED BY <2>5, <2>6
<1>5. CASE Kind[e.tx] \notin {"populate", "retract"}
  <2>1. events' = events /\ early' = early
    BY <1>5 DEF Handled
  <2>2. \A x \in events : x.tx # e.tx
    BY <1>2, <1>5
  <2> QED BY <1>1, <2>1, <2>2
<1> QED BY <1>4, <1>5

\* The kandel stream and the other one keep the invariant.
LEMMA OtherIInv ==
  ASSUME IInv, NEW s \in Streams \ {"mangrove"}, NEW i, Handled(i, s)
  PROVE  IInv'
<1> DEFINE e == log[i]
<1>1. /\ s \in Streams /\ log \in Seq(Entry) /\ Grounded(log) /\ log' = log
      /\ pos' \in [Streams -> 0..Len(log)] /\ pos'[s] = i /\ e.tx \in Txs
      /\ \A r \in Streams : r # s => pos'[r] = pos[r]
  BY HandledEntry DEF IInv, Handled
<1>2. /\ time' \in [Txs -> StoredTime] /\ Recorded' /\ time'[e.tx] # NoTime
      /\ \A tx \in Txs : time[tx] # NoTime => time'[tx] = time[tx]
      /\ Restamped' = {} => Restamped = {}
  <2>1. time'[e.tx] # NoTime
    <3>1. time'[e.tx] \in 0..MaxTime
      BY <1>1, HandledTime
    <3> HIDE DEF e
    <3> QED BY <3>1 DEF NoTime
  <2> QED BY <1>1, <2>1, HandledTime
<1>3. /\ versions' = versions /\ sends' = sends
      /\ \A t : Orders(t)' = Orders(t)
      /\ OrderTakenBack' <=> OrderTakenBack
      /\ VersionsReplayed' /\ SendsCounted' /\ AllLeft'
  BY OtherOrders
<1>4. credits' \in Seq(Txs) /\ \A n \in 1..Len(credits') : time'[credits'[n]] # NoTime
  BY <1>1, CreditsNext
<1>5. /\ events' \subseteq Row /\ IsFiniteSet(events')
      /\ early' \subseteq {x.tx : x \in events'}
  BY EventsKept
<1>6. Types'
  BY <1>1, <1>2, <1>3, <1>4, <1>5 DEF IInv, Types
<1>7. /\ \A n \in 1..Len(versions) : versions[n] \in Txs /\ time[versions[n]] # NoTime
      /\ \A n \in 1..Len(sends) :
           sends[n].tx \in Txs /\ time[sends[n].tx] # NoTime /\ sends[n].send = n
      /\ \A x \in events : x.tx \in Txs /\ time[x.tx] # NoTime
  <2>1. versions \in Seq(Txs) /\ sends \in Seq(Row) /\ events \subseteq Row /\ RowsStored
    BY DEF IInv, Types
  <2>2. \A n \in 1..Len(versions) : versions[n] \in Txs
    BY <2>1
  <2>3. \A n \in 1..Len(sends) : sends[n].tx \in Txs
    <3>1. \A n \in 1..Len(sends) : sends[n] \in Row
      BY <2>1
    <3> QED BY <3>1 DEF Row
  <2>4. \A x \in events : x.tx \in Txs
    BY <2>1 DEF Row
  <2> QED BY <2>1, <2>2, <2>3, <2>4 DEF RowsStored
<1>8. ASSUME NEW x \in events'
      PROVE  time'[x.tx] # NoTime
  <2>1. x \in events \/ x.tx = e.tx
    BY EventsKept
  <2> QED BY <1>2, <1>7, <2>1
<1>9. RowsStored'
  BY <1>2, <1>3, <1>4, <1>7, <1>8 DEF RowsStored
<1>10. EventsListed'
  <2>1. ASSUME NEW x \in events'
        PROVE  /\ Kind[x.tx] \in {"populate", "retract"}
               /\ On(ChainAt(log, pos'["kandel"]), x.tx)
    <3>1. \/ x \in events /\ (s = "kandel" => x.tx # e.tx)
          \/ /\ s = "kandel" /\ ~e.undo /\ x.tx = e.tx
             /\ Kind[e.tx] \in {"populate", "retract"}
      BY EventsKept
    <3>2. x \in events =>
            Kind[x.tx] \in {"populate", "retract"} /\ On(ChainAt(log, pos["kandel"]), x.tx)
      BY DEF IInv, EventsListed
    <3>3. CASE s = "kandel"
      <4>1. pos'["kandel"] = i /\ Handled(i, "kandel")
        BY <1>1, <3>3
      <4>2. /\ \A tx \in Txs :
                 Kind[tx] \in {"populate", "retract"} /\ tx # e.tx
                 /\ On(ChainAt(log, pos["kandel"]), tx) => On(ChainAt(log, i), tx)
            /\ ~e.undo => On(ChainAt(log, i), e.tx)
        BY <4>1, OnNext
      <4> QED BY <1>7, <3>1, <3>2, <3>3, <4>1, <4>2
    <3>4. CASE s # "kandel"
      <4>1. pos'["kandel"] = pos["kandel"]
        BY <1>1, <3>4 DEF Streams
      <4> QED BY <3>1, <3>2, <3>4, <4>1
    <3> QED BY <3>3, <3>4
  <2> QED BY <1>1, <2>1 DEF EventsListed
<1>11. Snapshots'
  <2>1. ASSUME Restamped' = {}, ~OrderTakenBack', NEW x \in events', x.tx \notin early'
        PROVE  PastClosed(x)'
    <3>1. CASE x \in events /\ x.tx \notin early
      <4>1. PastClosed(x)
        BY <1>2, <1>3, <2>1, <3>1 DEF IInv, Snapshots
      <4>2. time'[x.tx] = time[x.tx]
        BY <1>2, <1>7, <3>1
      <4>3. PastClosed(x)' <=>
              /\ \E m \in 1..Len(Orders(MaxTime)') : Orders(MaxTime)'[m].time > time'[x.tx]
              /\ x.send = Len(OrdersUpTo(ChainAt(log', pos'["mangrove"]), time'[x.tx]))
        BY DEF PastClosed, Orders
      <4>4. OrdersUpTo(ChainAt(log', pos'["mangrove"]), time'[x.tx]) = Orders(time[x.tx])
        <5>1. PICK t : t = time[x.tx]
          OBVIOUS
        <5>2. Orders(t)' = Orders(t)
          BY <1>3
        <5> QED BY <4>2, <5>1, <5>2 DEF Orders
      <4> QED BY <1>3, <4>1, <4>2, <4>3, <4>4 DEF PastClosed
    <3>2. CASE ~(x \in events /\ x.tx \notin early)
      <4>1. /\ x = [tx |-> log[i].tx, send |-> LatestSend(time'[log[i].tx])]
            /\ MangroveIsLater(log[i].time)
        BY <2>1, <3>2, EventsKept
      <4> QED BY <2>1, <4>1, NewEventClosed
    <3> QED BY <3>1, <3>2
  <2> QED BY <2>1 DEF Snapshots
<1> QED BY <1>1, <1>2, <1>3, <1>6, <1>9, <1>10, <1>11 DEF IInv

-----------------------------------------------------------------------------
(***************************************************************************)
(* The theorems.                                                           *)
(***************************************************************************)
\* Every step keeps the invariant.
LEMMA NextIInv == IInv /\ [Next]_vars => IInv'
<1> SUFFICES ASSUME IInv, [Next]_vars
             PROVE  IInv'
  OBVIOUS
<1>1. ASSUME NEW tx \in Txs, Mine(tx)
      PROVE  IInv'
  BY <1>1, MineIInv
<1>2. CASE TakeBack
  BY <1>2, TakeBackIInv
<1>3. ASSUME NEW s \in Streams, Handle(s)
      PROVE  IInv'
  <2>1. PICK i : Handled(i, s)
    BY <1>3, HandleEntry
  <2>2. CASE s = "mangrove"
    BY <2>1, <2>2, MangroveIInv
  <2>3. CASE s # "mangrove"
    BY <2>1, <2>3, OtherIInv
  <2> QED BY <2>2, <2>3
<1>4. CASE UNCHANGED vars
  BY <1>4, StutterIInv
<1> QED BY <1>1, <1>2, <1>3, <1>4 DEF Next

(***************************************************************************)
(* The inductive invariant holds of every state.                           *)
(***************************************************************************)
THEOREM Invariance == Spec => []IInv
BY InitIInv, NextIInv, PTL DEF Spec

(***************************************************************************)
(* TypeOK: every row refers to a transaction that is stored, also after    *)
(* any number of reorganisations, and the numbers of the sends go up one   *)
(* by one.                                                                 *)
(***************************************************************************)
THEOREM HistoryTypes == Spec => []TypeOK
<1>1. IInv => TypeOK
  <2> SUFFICES ASSUME IInv
               PROVE  TypeOK
    OBVIOUS
  <2>1. /\ pos \in [Streams -> 0..Len(log)] /\ time \in [Txs -> StoredTime]
        /\ DOMAIN versions = 1..Len(versions) /\ DOMAIN sends = 1..Len(sends)
        /\ DOMAIN credits = 1..Len(credits) /\ events \subseteq Row
        /\ early \subseteq {x.tx : x \in events}
    BY DEF IInv, Types
  <2>2. \A x \in events : x.send \in Nat
    BY <2>1 DEF Row
  <2> QED BY <2>1, <2>2 DEF IInv, RowsStored, TypeOK
<1> QED BY <1>1, Invariance, PTL

(***************************************************************************)
(* OffersAtTime: findVersionMatchingTime ends at the last version of the   *)
(* past, for any number of orders and whatever was taken back.             *)
(***************************************************************************)
THEOREM OffersOfThePast == Spec => []OffersAtTime
<1>1. IInv => OffersAtTime
  <2> SUFFICES ASSUME IInv, \A tx \in Restamped : Kind[tx] # "order", NEW t \in 0..MaxTime
               PROVE  SubSeq(versions, 1, VersionAt(t)) = [i \in DOMAIN Orders(t) |-> Orders(t)[i].tx]
    BY DEF OffersAtTime
  <2> DEFINE past == Orders(t)
             all == Orders(MaxTime)
             m == Len(past)
             u == SubSeq(versions, 1, m)
             v == TxsOf(past)
  <2>1. t \in Nat /\ t \in Int
    OBVIOUS
  <2>2. VersionAt(t) = m
    <3> HIDE DEF m
    <3> QED BY <2>1, VersionAtPast DEF m
  <2>3. PastFirst(past, all, t) /\ past \in Seq(Entry)
    BY <2>1, SeenOrders DEF IInv
  <2>4. /\ Len(versions) = Len(all) /\ Len(versions) \in Nat /\ versions \in Seq(Txs)
        /\ \A n \in 1..Len(versions) : versions[n] = all[n].tx
    BY VersionTxs DEF IInv, Types
  <2> HIDE DEF past, all
  <2>5. m \in 0..Len(versions) /\ m \in Nat /\ DOMAIN past = 1..m
        /\ \A n \in 1..m : n \in 1..Len(versions) /\ past[n] = all[n]
    BY <2>3, <2>4 DEF PastFirst
  <2>6. /\ u \in Seq(Txs) /\ Len(u) = m /\ \A n \in 1..m : u[n] = versions[n]
    <3> HIDE DEF m
    <3> QED BY <2>4, <2>5, PrefixProperties
  <2>7. \A n \in 1..m : past[n].tx \in Txs
    <3>1. \A y \in Entry : y.tx \in Txs
      BY DEF Entry
    <3> QED BY <2>3, <3>1
  <2>8. v \in Seq(Txs) /\ Len(v) = m /\ \A n \in 1..m : v[n] = past[n].tx
    BY <2>5, <2>7 DEF TxsOf
  <2>9. v = [i \in DOMAIN past |-> past[i].tx]
    BY <2>5 DEF TxsOf
  <2> HIDE DEF u, v, m
  <2>10. u = v
    <3>1. \A n \in 1..Len(u) : u[n] = v[n]
      BY <2>4, <2>5, <2>6, <2>8
    <3> QED BY <2>6, <2>8, <3>1, SeqEqual
  <2> QED BY <2>2, <2>9, <2>10 DEF u, past
<1> QED BY <1>1, Invariance, PTL

(***************************************************************************)
(* SnapshotsComplete: the kandel stream has waited long enough, when it    *)
(* was an order that ended the wait, and nothing after it is of the past.  *)
(***************************************************************************)
THEOREM SendsOfThePast == Spec => []SnapshotsComplete
<1>1. IInv => SnapshotsComplete
  BY DEF IInv, Snapshots, PastClosed, SnapshotsComplete
<1> QED BY <1>1, Invariance, PTL

-----------------------------------------------------------------------------
(***************************************************************************)
(* The periods.  The volume offered is carried over from the first period, *)
(* and is that of the latest event to set each offer.                      *)
(***************************************************************************)
SetBy(order, i, o) == {j \in 1..i : o \in DOMAIN Gives[order[j].tx]}

\* LatestGives in terms of SetBy.
LEMMA LatestGivesIs ==
  ASSUME NEW order, NEW i
  PROVE  LatestGives(order, i) =
           [o \in {p \in Offers : SetBy(order, i, p) # {}} |->
              Gives[order[Max(SetBy(order, i, o))].tx][o]]
BY DEF LatestGives, SetBy

\* One more event sets the volume of the offers it names, and of no other.
LEMMA LatestGivesStep ==
  ASSUME NEW order \in Seq(Row), NEW i \in 1..Len(order)
  PROVE  LatestGives(order, i) = Offering(LatestGives(order, i - 1), Gives[order[i].tx])
<1> DEFINE q == i - 1
           new == Gives[order[i].tx]
           D == {p \in Offers : SetBy(order, q, p) # {}}
           E == {p \in Offers : SetBy(order, i, p) # {}}
<1>1. i \in Nat /\ q \in Nat /\ \A j : j \in 1..i <=> j \in 1..q \/ j = i
  <2>1. i \in Nat /\ i >= 1
    BY SeqDef
  <2> QED BY <2>1
<1>2. DOMAIN new \subseteq Offers
  <2>1. order[i] \in Row
    OBVIOUS
  <2>2. order[i].tx \in Txs
    BY <2>1 DEF Row
  <2> QED BY <2>2, HistoryAssumption
<1> HIDE DEF q, new
<1>3. ASSUME NEW o
      PROVE  /\ o \in DOMAIN new =>
                  SetBy(order, i, o) # {} /\ Max(SetBy(order, i, o)) = i
             /\ o \notin DOMAIN new => SetBy(order, i, o) = SetBy(order, q, o)
  <2>1. ASSUME o \in DOMAIN new
        PROVE  SetBy(order, i, o) # {} /\ Max(SetBy(order, i, o)) = i
    <3> DEFINE S == SetBy(order, i, o)
    <3>1. i \in S /\ S \subseteq 1..i
      BY <1>1, <2>1 DEF SetBy, new
    <3> HIDE DEF S
    <3>2. Max(S) \in S /\ Max(S) >= i
      BY <1>1, <3>1, MaxOfSubset
    <3>3. Max(S) \in 1..i
      BY <3>1, <3>2
    <3> QED BY <1>1, <3>1, <3>2, <3>3 DEF S
  <2>2. ASSUME o \notin DOMAIN new
        PROVE  SetBy(order, i, o) = SetBy(order, q, o)
    BY <1>1, <2>2 DEF SetBy, new
  <2> QED BY <2>1, <2>2
<1>4. E = D \cup DOMAIN new
  BY <1>2, <1>3
<1> DEFINE before == LatestGives(order, q)
<1>5. /\ before = [o \in D |-> Gives[order[Max(SetBy(order, q, o))].tx][o]]
      /\ LatestGives(order, i) = [o \in E |-> Gives[order[Max(SetBy(order, i, o))].tx][o]]
  BY LatestGivesIs
<1>6. \A o \in E : Gives[order[Max(SetBy(order, i, o))].tx][o] =
                     IF o \in DOMAIN new THEN new[o] ELSE before[o]
  <2> TAKE o \in E
  <2>1. CASE o \in DOMAIN new
    BY <1>3, <2>1 DEF new
  <2>2. CASE o \notin DOMAIN new
    <3>1. o \in D /\ SetBy(order, i, o) = SetBy(order, q, o)
      BY <1>3, <1>4, <2>2
    <3> HIDE DEF before, D
    <3> QED BY <1>5, <2>2, <3>1
  <2> QED BY <2>1, <2>2
<1>7. DOMAIN before = D
  BY <1>5
<1> HIDE DEF before, D, E
<1>8. LatestGives(order, i) = [o \in DOMAIN before \cup DOMAIN new |->
                                 IF o \in DOMAIN new THEN new[o] ELSE before[o]]
  BY <1>4, <1>5, <1>6, <1>7
<1> QED BY <1>8 DEF Offering, before, new, q

\* Without events nothing is offered.
LEMMA LatestGivesNone ==
  ASSUME NEW order
  PROVE  LatestGives(order, 0) = [o \in {} |-> 0]
<1>1. \A o : SetBy(order, 0, o) = {}
  BY DEF SetBy
<1>2. {p \in Offers : SetBy(order, 0, p) # {}} = {}
  BY <1>1
<1> QED BY <1>2, LatestGivesIs

\* The volume that is carried over is that of the latest events.
LEMMA OfferedAreLatest ==
  ASSUME NEW order \in Seq(Row), NEW periods, Len(periods) \in 0..Len(order),
         \A i \in 1..Len(periods) : periods[i].gives = Gives[order[i].tx],
         NEW i \in 1..Len(periods)
  PROVE  OfferedTotal(periods, i) = Total(LatestGives(order, i))
<1> DEFINE n == Len(periods)
           Is(h) == h = [k \in 0..n |-> IF k = 0 THEN [o \in {} |-> 0]
                                        ELSE Offering(h[k - 1], periods[k].gives)]
           g == [k \in 0..n |-> LatestGives(order, k)]
           f == OfferedPerOffer(periods)
           T == {k \in 0..n : f[k] = LatestGives(order, k)}
<1>1. n \in Nat /\ \A k \in 1..n : k \in 1..Len(order) /\ k - 1 \in 0..n
  BY SeqDef
<1>2. Is(g)
  <2>1. g[0] = [o \in {} |-> 0]
    BY <1>1, LatestGivesNone
  <2>2. ASSUME NEW k \in 1..n
        PROVE  g[k] = Offering(g[k - 1], periods[k].gives)
    <3>1. k \in 1..Len(order) /\ g[k] = LatestGives(order, k) /\ g[k - 1] = LatestGives(order, k - 1)
      BY <1>1
    <3>2. LatestGives(order, k) = Offering(LatestGives(order, k - 1), Gives[order[k].tx])
      BY <3>1, LatestGivesStep
    <3> HIDE DEF g
    <3> QED BY <3>1, <3>2
  <2>3. \A k \in 0..n : k = 0 \/ k \in 1..n
    BY <1>1
  <2> DEFINE G == [k \in 0..n |-> IF k = 0 THEN [o \in {} |-> 0]
                                  ELSE Offering(g[k - 1], periods[k].gives)]
  <2>4. \A k \in 0..n : g[k] = G[k]
    <3> HIDE DEF g
    <3> QED BY <2>1, <2>2, <2>3
  <2>5. DOMAIN g = 0..n /\ DOMAIN G = 0..n /\ g = [k \in 0..n |-> g[k]] /\ G = [k \in 0..n |-> G[k]]
    OBVIOUS
  <2>6. g = G
    <3> HIDE DEF g, G
    <3> QED BY <2>4, <2>5
  <2> QED BY <2>6
<1>3. f = CHOOSE h : Is(h)
  BY DEF OfferedPerOffer
<1>4. Is(f)
  <2> HIDE DEF Is, g, f
  <2> QED BY <1>2, <1>3
<1> HIDE DEF f
<1>5. f[0] = [o \in {} |-> 0] /\ \A k \in 1..n : f[k] = Offering(f[k - 1], periods[k].gives)
  <2> DEFINE G == [k \in 0..n |-> IF k = 0 THEN [o \in {} |-> 0]
                                  ELSE Offering(f[k - 1], periods[k].gives)]
  <2>1. f = G
    BY <1>4
  <2>2. 0 \in 0..n /\ \A k \in 1..n : k \in 0..n /\ k # 0
    BY <1>1
  <2>3. G[0] = [o \in {} |-> 0] /\ \A k \in 1..n : G[k] = Offering(f[k - 1], periods[k].gives)
    BY <2>2
  <2> HIDE DEF G
  <2> QED BY <2>1, <2>3
<1>6. 0 \in T
  BY <1>1, <1>5, LatestGivesNone
<1>7. ASSUME NEW k \in 1..n, k - 1 \in T
      PROVE  k \in T
  <2>1. f[k] = Offering(LatestGives(order, k - 1), Gives[order[k].tx]) /\ k \in 0..n
    BY <1>1, <1>5, <1>7
  <2>2. LatestGives(order, k) = Offering(LatestGives(order, k - 1), Gives[order[k].tx])
    BY <1>1, LatestGivesStep
  <2> QED BY <2>1, <2>2
<1>8. \A k \in 0..n : k \in T
  <2> HIDE DEF T, n
  <2> QED BY <1>1, <1>6, <1>7, CountUp
<1>9. f[i] = LatestGives(order, i)
  <2>1. i \in 0..n
    BY <1>1
  <2> QED BY <1>8, <2>1
<1> QED BY <1>9 DEF OfferedTotal, f

(***************************************************************************)
(* A period goes from its event to the next one, or to now.                *)
(***************************************************************************)
LEMMA PeriodsAre ==
  ASSUME Types, NEW order \in Seq(Row), NEW last \in Seq(Nat), Len(last) \in {0, 1}
  PROVE  LET periods == Periods(order, last)
             n == Len(periods)
         IN  /\ n \in 0..Len(order) /\ DOMAIN periods = 1..n
             /\ \A i \in 1..n :
                  /\ periods[i].start = time[order[i].tx]
                  /\ periods[i].gives = Gives[order[i].tx]
                  /\ IF i < Len(order)
                     THEN /\ periods[i].end = time[order[i + 1].tx]
                          /\ periods[i].send = order[i + 1].send
                     ELSE /\ Len(last) = 1 /\ periods[i].end = Now
                          /\ periods[i].send = last[1]
<1> DEFINE N == Len(order)
           S == [time : Int, send : Nat]
           a == [i \in DOMAIN order |-> [time |-> time[order[i].tx], send |-> order[i].send]]
           b == [i \in DOMAIN last |-> [time |-> Now, send |-> last[i]]]
           ends == a \o b
           n == IF order = <<>> THEN 0 ELSE Len(ends) - 1
           periods == Periods(order, last)
<1>1. /\ N \in Nat /\ DOMAIN order = 1..N /\ DOMAIN last = 1..Len(last)
      /\ order = <<>> <=> N = 0
  OBVIOUS
<1>2. \A i \in 1..N : order[i].tx \in Txs /\ order[i].send \in Nat
  <2>1. \A i \in 1..N : order[i] \in Row
    OBVIOUS
  <2> QED BY <2>1 DEF Row
<1>3. \A i \in 1..N : [time |-> time[order[i].tx], send |-> order[i].send] \in S
  <2> TAKE i \in 1..N
  <2>1. time[order[i].tx] \in StoredTime
    BY <1>2 DEF Types
  <2>2. time[order[i].tx] \in Int
    BY <2>1 DEF StoredTime, NoTime
  <2> QED BY <1>2, <2>2
<1>4. /\ a \in Seq(S) /\ Len(a) = N
      /\ \A i \in 1..N : a[i].time = time[order[i].tx] /\ a[i].send = order[i].send
  <2> DEFINE A(i) == [time |-> time[order[i].tx], send |-> order[i].send]
  <2>1. a = [i \in 1..N |-> A(i)]
    BY <1>1
  <2>2. \A i \in 1..N : A(i) \in S
    BY <1>3
  <2>3. \A i \in 1..N : A(i).time = time[order[i].tx] /\ A(i).send = order[i].send
    OBVIOUS
  <2> HIDE DEF A, S, a, N
  <2> QED BY <1>1, <2>1, <2>2, <2>3
<1>5. /\ b \in Seq(S) /\ Len(b) = Len(last)
      /\ Len(last) = 1 => b[1].time = Now /\ b[1].send = last[1]
  <2>1. Now \in Int
    BY HistoryAssumption DEF Now
  <2>2. \A i \in 1..Len(last) : last[i] \in Nat
    OBVIOUS
  <2>3. \A i \in 1..Len(last) : [time |-> Now, send |-> last[i]] \in S
    BY <2>1, <2>2
  <2>4. Len(last) \in Nat
    OBVIOUS
  <2> QED BY <1>1, <2>3, <2>4
<1>6. periods = [i \in 1..n |->
                   [start |-> time[order[i].tx], end |-> ends[i + 1].time,
                    gives |-> Gives[order[i].tx], send |-> ends[i + 1].send]]
  BY Zenon DEF Periods
<1> HIDE DEF a, b, S
<1>7. /\ ends \in Seq(S) /\ Len(ends) = N + Len(last)
      /\ \A i \in 1..(N + Len(last)) : ends[i] = IF i <= N THEN a[i] ELSE b[i - N]
  <2>1. /\ Len(ends) = Len(a) + Len(b)
        /\ \A i \in 1..(Len(a) + Len(b)) : ends[i] = IF i <= Len(a) THEN a[i] ELSE b[i - Len(a)]
        /\ ends \in Seq(S)
    BY <1>4, <1>5, ConcatProperties
  <2> QED BY <1>4, <1>5, <2>1
<1> HIDE DEF N, ends, periods
<1>8. n \in 0..N /\ n = IF N = 0 THEN 0 ELSE N + Len(last) - 1
  <2> DEFINE L == Len(last)
             E == Len(ends)
  <2>1. N \in Nat /\ L \in {0, 1} /\ E = N + L
    BY <1>1, <1>7
  <2>2. n = IF N = 0 THEN 0 ELSE E - 1
    <3>1. order = <<>> <=> N = 0
      BY <1>1
    <3> HIDE DEF E
    <3> QED BY <3>1 DEF E
  <2> HIDE DEF n, L, E
  <2>3. n = IF N = 0 THEN 0 ELSE N + L - 1
    BY <2>1, <2>2
  <2>4. n \in 0..N
    BY <2>1, <2>3
  <2> QED BY <2>3, <2>4 DEF L
<1> HIDE DEF n
<1>9. Len(periods) = n /\ DOMAIN periods = 1..n
  <2>1. n \in Nat
    BY <1>1, <1>8
  <2> QED BY <1>6, <2>1
<1>10. ASSUME NEW i \in 1..n
       PROVE  /\ periods[i].start = time[order[i].tx]
              /\ periods[i].gives = Gives[order[i].tx]
              /\ IF i < N
                 THEN /\ periods[i].end = time[order[i + 1].tx]
                      /\ periods[i].send = order[i + 1].send
                 ELSE /\ Len(last) = 1 /\ periods[i].end = Now
                      /\ periods[i].send = last[1]
  <2>1. /\ periods[i].start = time[order[i].tx]
        /\ periods[i].gives = Gives[order[i].tx]
        /\ periods[i].end = ends[i + 1].time /\ periods[i].send = ends[i + 1].send
    BY <1>6
  <2>2. CASE i < N
    <3>1. i + 1 \in 1..N /\ i + 1 \in 1..(N + Len(last)) /\ i + 1 <= N
      BY <1>1, <1>8, <2>2
    <3>2. ends[i + 1] = a[i + 1]
      BY <1>7, <3>1
    <3> QED BY <1>4, <2>1, <2>2, <3>1, <3>2
  <2>3. CASE ~(i < N)
    <3>1. Len(last) = 1 /\ i = N /\ i + 1 \in 1..(N + Len(last)) /\ ~(i + 1 <= N) /\ (i + 1) - N = 1
      BY <1>1, <1>8, <2>3
    <3>2. ends[i + 1] = b[1]
      BY <1>7, <3>1
    <3> QED BY <1>5, <2>1, <2>3, <3>1, <3>2
  <2> QED BY <2>2, <2>3
<1> QED BY <1>8, <1>9, <1>10 DEF N, periods

(***************************************************************************)
(* A balance that is read counts the orders up to its time; that of now    *)
(* counts all.                                                             *)
(***************************************************************************)
LEMMA AllSent ==
  ASSUME IInv, ~OrderTakenBack, credits = <<>>, NEW last \in CurrentSends
  PROVE  /\ last \in Seq(Nat) /\ Len(last) \in {0, 1}
         /\ Len(last) = 1 => last[1] = Len(Orders(Now))
<1> DEFINE n == Len(sends)
<1>1. /\ sends \in Seq(Row) /\ n \in Nat /\ DOMAIN sends = 1..n /\ DOMAIN credits = {}
      /\ \A k \in 1..n : sends[k].send = k
  BY DEF IInv, Types, RowsStored
<1>2. Now \in Int /\ MaxTime \in Int /\ MaxTime < Now
  BY HistoryAssumption DEF Now
<1>3. n = Len(Orders(Now))
  <2> DEFINE past == Orders(Now)
             all == Orders(MaxTime)
  <2>1. PastFirst(past, all, Now) /\ past \in Seq(Entry) /\ all \in Seq(Entry)
    BY <1>2, SeenOrders DEF IInv
  <2>2. n = Len(all)
    BY VersionTxs DEF IInv, SendsCounted
  <2> HIDE DEF past, all, n
  <2>3. \A k \in 1..Len(all) : all[k].time <= Now
    <3> TAKE k \in 1..Len(all)
    <3>1. all[k] \in Entry
      BY <2>1
    <3>2. all[k].time \in 0..MaxTime
      BY <3>1 DEF Entry
    <3> QED BY <1>2, <3>2
  <2>4. Len(past) = Len(all)
    <3>1. Len(past) \in Nat /\ Len(all) \in Nat /\ Len(past) <= Len(all)
      BY <2>1 DEF PastFirst
    <3>2. Len(all) # 0 => Len(all) <= Len(past)
      <4>1. Len(all) # 0 => Len(all) \in 1..Len(all)
        BY <3>1
      <4> QED BY <2>1, <2>3, <4>1 DEF PastFirst
    <3> QED BY <3>1, <3>2
  <2> QED BY <2>2, <2>4 DEF past
<1>4. CASE sends = <<>>
  <2>1. CurrentSends = {<<>>}
    BY <1>4 DEF CurrentSends
  <2>2. last = <<>>
    BY <2>1
  <2> QED BY <2>2
<1>5. CASE sends # <<>>
  <2>1. n \in 1..n
    BY <1>1, <1>5
  <2>2. Last(sends).send = n
    <3>1. Last(sends) = sends[n]
      BY DEF Last
    <3> HIDE DEF n
    <3> QED BY <1>1, <2>1, <3>1
  <2>3. last = <<Last(sends).send>>
    BY <1>1, <1>5 DEF CurrentSends
  <2>4. last = <<n>>
    BY <2>2, <2>3
  <2> HIDE DEF n
  <2>5. last \in Seq(Nat) /\ Len(last) = 1 /\ last[1] = n
    BY <1>1, <2>4
  <2> QED BY <1>3, <2>5
<1> QED BY <1>4, <1>5

\* What PeriodsAreReplay says of one period, in one order of the events.
LEMMA PeriodsReplayed ==
  ASSUME IInv, Restamped = {}, ~OrderTakenBack, early = {}, credits = <<>>,
         NEW order \in Orderings, NEW last \in CurrentSends,
         NEW i \in DOMAIN Periods(order, last)
  PROVE  LET periods == Periods(order, last)
         IN  /\ SentInPeriod(periods, i) =
                  Len(Orders(periods[i].end)) - IF i = 1 THEN 0 ELSE Len(Orders(periods[i].start))
             /\ OfferedTotal(periods, i) = Total(LatestGives(order, i))
<1> DEFINE periods == Periods(order, last)
           N == Len(order)
           n == Len(periods)
<1>1. order \in Seq(Row) /\ N \in Nat /\ \A k \in 1..N : order[k] \in events
  <2>1. events \subseteq Row /\ Cardinality(events) \in Nat
    BY FS_CardinalityType DEF IInv, Types
  <2>2. order \in [1..Cardinality(events) -> events]
    BY DEF Orderings, SetToSeqs
  <2>3. Len(order) = Cardinality(events) /\ order \in Seq(events)
    BY <2>1, <2>2
  <2>4. order \in Seq(Row)
    BY <2>1, <2>3
  <2> QED BY <2>1, <2>2, <2>3, <2>4
<1>2. /\ last \in Seq(Nat) /\ Len(last) \in {0, 1}
      /\ Len(last) = 1 => last[1] = Len(Orders(Now))
  BY AllSent
<1>3. /\ n \in 0..N /\ DOMAIN periods = 1..n
      /\ \A k \in 1..n :
           /\ periods[k].start = time[order[k].tx]
           /\ periods[k].gives = Gives[order[k].tx]
           /\ IF k < N
              THEN /\ periods[k].end = time[order[k + 1].tx]
                   /\ periods[k].send = order[k + 1].send
              ELSE /\ Len(last) = 1 /\ periods[k].end = Now
                   /\ periods[k].send = last[1]
  BY <1>1, <1>2, PeriodsAre DEF IInv
<1>4. \A k \in 1..N : order[k].send = Len(Orders(time[order[k].tx]))
  <2> TAKE k \in 1..N
  <2>1. order[k] \in events
    BY <1>1
  <2> QED BY <2>1 DEF IInv, Snapshots, PastClosed
<1> HIDE DEF periods, N
<1>5. i \in 1..n /\ n \in 0..N
  BY <1>3 DEF periods
<1> HIDE DEF n
<1>6. \A k \in 1..n : periods[k].send = Len(Orders(periods[k].end))
  <2> TAKE k \in 1..n
  <2>1. CASE k < N
    <3>1. k + 1 \in 1..N
      BY <1>1, <1>5, <2>1
    <3> QED BY <1>3, <1>4, <2>1, <3>1
  <2>2. CASE ~(k < N)
    BY <1>2, <1>3, <2>2
  <2> QED BY <2>1, <2>2
<1>7. SentInPeriod(periods, i) =
        Len(Orders(periods[i].end)) - IF i = 1 THEN 0 ELSE Len(Orders(periods[i].start))
  <2>1. CASE i = 1
    BY <1>5, <1>6, <2>1 DEF SentInPeriod
  <2>2. CASE i # 1
    <3> DEFINE k == i - 1
    <3>1. k \in 1..n /\ k < N /\ k + 1 = i /\ i \in 1..N
      BY <1>1, <1>5, <2>2
    <3>2. periods[k].send = order[i].send
      <4> HIDE DEF k
      <4> QED BY <1>3, <3>1
    <3>3. periods[k].send = Len(Orders(periods[i].start))
      BY <1>3, <1>4, <1>5, <3>1, <3>2
    <3>4. periods[i].send = Len(Orders(periods[i].end))
      BY <1>5, <1>6
    <3> QED BY <2>2, <3>3, <3>4 DEF SentInPeriod
  <2> QED BY <2>1, <2>2
<1>8. OfferedTotal(periods, i) = Total(LatestGives(order, i))
  BY <1>1, <1>3, <1>5, OfferedAreLatest DEF n, N
<1> QED BY <1>7, <1>8 DEF periods

(***************************************************************************)
(* PeriodsAreReplay: the sends of the periods add up to the orders between *)
(* their ends, and the volume offered is carried over rightly, for any     *)
(* number of events and offers and in whatever order the events are read.  *)
(***************************************************************************)
THEOREM ReturnsReplayed == Spec => []PeriodsAreReplay
<1>1. IInv => PeriodsAreReplay
  <2> SUFFICES ASSUME IInv, Restamped = {}, ~OrderTakenBack, early = {}, credits = <<>>,
                      NEW order \in Orderings, NEW last \in CurrentSends,
                      NEW i \in DOMAIN Periods(order, last)
               PROVE  LET periods == Periods(order, last)
                      IN  /\ SentInPeriod(periods, i) =
                               Len(Orders(periods[i].end))
                               - IF i = 1 THEN 0 ELSE Len(Orders(periods[i].start))
                          /\ OfferedTotal(periods, i) = Total(LatestGives(order, i))
    BY DEF PeriodsAreReplay
  <2> QED BY PeriodsReplayed
<1> QED BY <1>1, Invariance, PTL

=============================================================================
