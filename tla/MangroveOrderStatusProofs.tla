---------------------- MODULE MangroveOrderStatusProofs ----------------------
(***************************************************************************)
(* Proofs about MangroveOrderStatus.  The tables that the resolvers look   *)
(* at are a replay of the events that survive: of the versions of the      *)
(* resting offer one by one, of what the order and the takers got as a     *)
(* sum.  From that follow the fills and the status that are shown, however *)
(* far the two streams are and whatever was undone.                        *)
(***************************************************************************)
EXTENDS MangroveOrderStatus, Lemmas

Kinds == {"order", "write", "take", "retract", "summary", "expiry"}

OfferKinds == {"write", "take", "retract"}

\* An event, or what takes one back.
Entry ==
  {e \in [undo : BOOLEAN, kind : Kinds, amount : Nat, outcome : Outcomes, date : Nat] :
     /\ e.kind = "order" => e.amount \in Gots /\ e.outcome = "success"
     /\ e.kind = "take" => e.amount \in Amounts
     /\ e.kind \in {"summary", "expiry"} => e.date \in Dates}

Row == [deleted : BOOLEAN, retract : BOOLEAN, taken : Takes \cup {NoTake}]

-----------------------------------------------------------------------------
(***************************************************************************)
(* What Of and Got make of one more entry.                                 *)
(***************************************************************************)
Longer(kept, e, kinds) == IF e.kind \in kinds THEN Append(kept, e) ELSE kept

Counted(sum, e, outcomes) ==
  IF e.kind \in {"order", "take"} /\ e.outcome \in outcomes THEN sum + e.amount ELSE sum

Given(e, outcomes) ==
  IF e.kind \in {"order", "take"} /\ e.outcome \in outcomes THEN e.amount ELSE 0

(***************************************************************************)
(* So are the entries of some kinds.                                       *)
(***************************************************************************)
LEMMA OfTrace ==
  ASSUME NEW S, NEW s \in Seq(S), NEW kinds
  PROVE  \E g : /\ IsTrace(g, Len(s), Seq(S), <<>>,
                           [p \in Seq(S) \X (1..Len(s)) |-> Longer(p[1], s[p[2]], kinds)])
                /\ g[Len(s)] = Of(s, kinds)
<1> DEFINE n == Len(s)
           V == Seq(S)
           F == [p \in V \X (1..n) |-> Longer(p[1], s[p[2]], kinds)]
           P(h) == h = [T \in SUBSET DOMAIN s |->
                         IF T = {} THEN <<>>
                         ELSE Longer(h[T \ {Max(T)}], s[Max(T)], kinds)]
           f == CHOOSE h : P(h)
           g == [i \in 0..n |-> f[1..i]]
<1> HIDE DEF f
<1>1. n \in Nat /\ DOMAIN s = 1..n /\ (\A i \in 1..n : s[i] \in S) /\ <<>> \in V
  OBVIOUS
<1>2. F \in [V \X (1..n) -> V]
  <2> SUFFICES ASSUME NEW p \in V \X (1..n)
               PROVE  Longer(p[1], s[p[2]], kinds) \in V
    OBVIOUS
  <2>1. p[1] \in V /\ s[p[2]] \in S
    BY <1>1
  <2>2. Append(p[1], s[p[2]]) \in V
    BY <2>1
  <2> QED BY <2>1, <2>2 DEF Longer
<1> HIDE DEF V
<1>3. PICK h : FoldsSubsets(h, n, V, <<>>, F)
  <2> HIDE DEF n, F, P
  <2> QED BY <1>1, <1>2, FoldExists
<1>4. P(h)
  <2> USE DEF FoldsSubsets
  <2>1. ASSUME NEW T \in SUBSET (1..n), T # {}
        PROVE  h[T] = Longer(h[T \ {Max(T)}], s[Max(T)], kinds)
    <3>1. Max(T) \in 1..n
      BY <1>1, <2>1, MaxOfSubset
    <3>2. h[T \ {Max(T)}] \in V
      BY <1>3
    <3>3. Stepped(F, h[T \ {Max(T)}], Max(T)) = Longer(h[T \ {Max(T)}], s[Max(T)], kinds)
      BY <3>1, <3>2 DEF Stepped
    <3> HIDE DEF F
    <3> QED BY <1>3, <2>1, <3>3
  <2> QED BY <1>1, <1>3, <2>1
<1>5. P(f)
  <2> HIDE DEF P
  <2> QED BY <1>4 DEF f
<1>6. Of(s, kinds) = f[1..n]
  BY <1>1 DEF Of, FoldLeft, MapThenFoldSet, f, Longer
<1>7. ASSUME NEW i \in 1..n, f[1..(i - 1)] \in V
      PROVE  f[1..i] = Stepped(F, f[1..(i - 1)], i)
  <2>1. 1..i \in SUBSET (1..n) /\ Max(1..i) = i /\ (1..i) \ {i} = 1..(i - 1)
        /\ 1..i # {}
    BY <1>1, MaxInterval
  <2>2. f[1..i] = Longer(f[1..(i - 1)], s[i], kinds)
    BY <1>1, <1>5, <2>1
  <2> QED BY <2>2, <1>7 DEF Stepped
<1>8. f[{}] = <<>>
  BY <1>5
<1>9. IsTrace(g, n, V, <<>>, F)
  <2> HIDE DEF n, F, P
  <2> QED BY <1>1, <1>2, <1>7, <1>8, FoldTrace
<1>10. g[n] = Of(s, kinds)
  BY <1>1, <1>6
<1> QED BY <1>9, <1>10 DEF V

(***************************************************************************)
(* One more entry is kept or not.                                          *)
(***************************************************************************)
LEMMA OfAppend ==
  ASSUME NEW S, NEW s \in Seq(S), NEW e \in S, NEW kinds
  PROVE  /\ Of(s, kinds) \in Seq(S)
         /\ Of(Append(s, e), kinds) = Longer(Of(s, kinds), e, kinds)
<1> DEFINE t == Append(s, e)
           n == Len(s)
           V == Seq(S)
           F == [p \in V \X (1..Len(s)) |-> Longer(p[1], s[p[2]], kinds)]
           G == [p \in V \X (1..Len(t)) |-> Longer(p[1], t[p[2]], kinds)]
<1>1. /\ t \in Seq(S) /\ n \in Nat /\ Len(t) = n + 1
      /\ t[n + 1] = e /\ \A i \in 1..n : t[i] = s[i]
  BY AppendProperties
<1>2. PICK g : IsTrace(g, n, V, <<>>, F) /\ g[n] = Of(s, kinds)
  BY OfTrace
<1> HIDE DEF t
<1>3. PICK h : IsTrace(h, n + 1, V, <<>>, G) /\ h[n + 1] = Of(t, kinds)
  <2>1. PICK h : IsTrace(h, Len(t), V, <<>>, G) /\ h[Len(t)] = Of(t, kinds)
    BY <1>1, OfTrace
  <2> HIDE DEF V, G
  <2> QED BY <1>1, <2>1
<1>4. \A v \in V : \A k \in 1..n : Stepped(F, v, k) = Stepped(G, v, k)
  BY <1>1 DEF Stepped
<1>5. \A v \in V : Stepped(G, v, n + 1) = Longer(v, e, kinds)
  BY <1>1 DEF Stepped
<1> HIDE DEF n, V, F, G
<1>6. g[n] \in V /\ h[n + 1] = Stepped(G, g[n], n + 1)
  BY <1>1, <1>2, <1>3, <1>4, TraceAppend
<1> QED BY <1>2, <1>3, <1>5, <1>6 DEF t, V

(***************************************************************************)
(* Of no entries there are none of a kind.                                 *)
(***************************************************************************)
LEMMA OfNone ==
  ASSUME NEW kinds
  PROVE  Of(<<>>, kinds) = <<>>
<1>1. <<>> \in Seq({}) /\ Len(<<>>) = 0
  OBVIOUS
<1>2. PICK g : /\ IsTrace(g, Len(<<>>), Seq({}), <<>>,
                          [p \in Seq({}) \X (1..Len(<<>>)) |-> Longer(p[1], (<<>>)[p[2]], kinds)])
               /\ g[Len(<<>>)] = Of(<<>>, kinds)
  BY <1>1, OfTrace
<1> QED BY <1>1, <1>2 DEF IsTrace

(***************************************************************************)
(* And what was got.                                                       *)
(***************************************************************************)
LEMMA GotTrace ==
  ASSUME NEW s \in Seq(Entry), NEW outcomes
  PROVE  \E g : /\ IsTrace(g, Len(s), Nat, 0,
                           [p \in Nat \X (1..Len(s)) |-> Counted(p[1], s[p[2]], outcomes)])
                /\ g[Len(s)] = Got(s, outcomes)
<1> DEFINE n == Len(s)
           V == Nat
           F == [p \in V \X (1..n) |-> Counted(p[1], s[p[2]], outcomes)]
           P(h) == h = [T \in SUBSET DOMAIN s |->
                         IF T = {} THEN 0
                         ELSE Counted(h[T \ {Max(T)}], s[Max(T)], outcomes)]
           f == CHOOSE h : P(h)
           g == [i \in 0..n |-> f[1..i]]
<1> HIDE DEF f
<1>1. n \in Nat /\ DOMAIN s = 1..n /\ (\A i \in 1..n : s[i] \in Entry) /\ 0 \in V
  OBVIOUS
<1>2. F \in [V \X (1..n) -> V]
  <2> SUFFICES ASSUME NEW p \in V \X (1..n)
               PROVE  Counted(p[1], s[p[2]], outcomes) \in V
    OBVIOUS
  <2>1. p[1] \in V /\ s[p[2]] \in Entry
    BY <1>1
  <2>2. s[p[2]].amount \in Nat
    BY <2>1 DEF Entry
  <2> QED BY <2>1, <2>2 DEF Counted
<1> HIDE DEF V
<1>3. PICK h : FoldsSubsets(h, n, V, 0, F)
  <2> HIDE DEF n, F, P
  <2> QED BY <1>1, <1>2, FoldExists
<1>4. P(h)
  <2> USE DEF FoldsSubsets
  <2>1. ASSUME NEW T \in SUBSET (1..n), T # {}
        PROVE  h[T] = Counted(h[T \ {Max(T)}], s[Max(T)], outcomes)
    <3>1. Max(T) \in 1..n
      BY <1>1, <2>1, MaxOfSubset
    <3>2. h[T \ {Max(T)}] \in V
      BY <1>3
    <3>3. Stepped(F, h[T \ {Max(T)}], Max(T)) = Counted(h[T \ {Max(T)}], s[Max(T)], outcomes)
      BY <3>1, <3>2 DEF Stepped
    <3> HIDE DEF F
    <3> QED BY <1>3, <2>1, <3>3
  <2> QED BY <1>1, <1>3, <2>1
<1>5. P(f)
  <2> HIDE DEF P
  <2> QED BY <1>4 DEF f
<1>6. Got(s, outcomes) = f[1..n]
  BY <1>1 DEF Got, FoldLeft, MapThenFoldSet, f, Counted
<1>7. ASSUME NEW i \in 1..n, f[1..(i - 1)] \in V
      PROVE  f[1..i] = Stepped(F, f[1..(i - 1)], i)
  <2>1. 1..i \in SUBSET (1..n) /\ Max(1..i) = i /\ (1..i) \ {i} = 1..(i - 1)
        /\ 1..i # {}
    BY <1>1, MaxInterval
  <2>2. f[1..i] = Counted(f[1..(i - 1)], s[i], outcomes)
    BY <1>1, <1>5, <2>1
  <2> QED BY <2>2, <1>7 DEF Stepped
<1>8. f[{}] = 0
  BY <1>5
<1>9. IsTrace(g, n, V, 0, F)
  <2> HIDE DEF n, F, P
  <2> QED BY <1>1, <1>2, <1>7, <1>8, FoldTrace
<1>10. g[n] = Got(s, outcomes)
  BY <1>1, <1>6
<1> QED BY <1>9, <1>10 DEF V

(***************************************************************************)
(* One more entry is counted or not.                                       *)
(***************************************************************************)
LEMMA GotAppend ==
  ASSUME NEW s \in Seq(Entry), NEW e \in Entry, NEW outcomes
  PROVE  /\ Got(s, outcomes) \in Nat
         /\ Got(Append(s, e), outcomes) = Got(s, outcomes) + Given(e, outcomes)
<1> DEFINE t == Append(s, e)
           n == Len(s)
           V == Nat
           F == [p \in V \X (1..Len(s)) |-> Counted(p[1], s[p[2]], outcomes)]
           G == [p \in V \X (1..Len(t)) |-> Counted(p[1], t[p[2]], outcomes)]
<1>1. /\ t \in Seq(Entry) /\ n \in Nat /\ Len(t) = n + 1
      /\ t[n + 1] = e /\ \A i \in 1..n : t[i] = s[i]
  BY AppendProperties
<1>2. PICK g : IsTrace(g, n, V, 0, F) /\ g[n] = Got(s, outcomes)
  BY GotTrace
<1> HIDE DEF t
<1>3. PICK h : IsTrace(h, n + 1, V, 0, G) /\ h[n + 1] = Got(t, outcomes)
  <2>1. PICK h : IsTrace(h, Len(t), V, 0, G) /\ h[Len(t)] = Got(t, outcomes)
    BY <1>1, GotTrace
  <2> HIDE DEF V, G
  <2> QED BY <1>1, <2>1
<1>4. \A v \in V : \A k \in 1..n : Stepped(F, v, k) = Stepped(G, v, k)
  BY <1>1 DEF Stepped
<1>5. \A v \in V : Stepped(G, v, n + 1) = Counted(v, e, outcomes)
  BY <1>1 DEF Stepped
<1> HIDE DEF n, V, F, G
<1>6. g[n] \in V /\ h[n + 1] = Stepped(G, g[n], n + 1)
  BY <1>1, <1>2, <1>3, <1>4, TraceAppend
<1>7. Got(t, outcomes) = Counted(Got(s, outcomes), e, outcomes) /\ Got(s, outcomes) \in Nat
  BY <1>2, <1>3, <1>5, <1>6 DEF V
<1> HIDE DEF G
<1> QED BY <1>7 DEF t, Counted, Given

(***************************************************************************)
(* Without entries nothing is got.                                         *)
(***************************************************************************)
LEMMA GotNone ==
  ASSUME NEW outcomes
  PROVE  Got(<<>>, outcomes) = 0
<1>1. <<>> \in Seq(Entry) /\ Len(<<>>) = 0
  OBVIOUS
<1>2. PICK g : /\ IsTrace(g, Len(<<>>), Nat, 0,
                          [p \in Nat \X (1..Len(<<>>)) |-> Counted(p[1], (<<>>)[p[2]], outcomes)])
               /\ g[Len(<<>>)] = Got(<<>>, outcomes)
  BY <1>1, GotTrace
<1> QED BY <1>1, <1>2 DEF IsTrace

-----------------------------------------------------------------------------
(***************************************************************************)
(* The chains that a log comes to on the way.                              *)
(***************************************************************************)

Has(entries, kinds) == \E j \in 1..Len(entries) : entries[j].kind \in kinds

\* What may come behind a chain.
Follows(e, chain) ==
  /\ e.undo => chain # <<>> /\ e = TakenBack(Last(chain))
  /\ ~e.undo =>
       /\ e.kind = "order" => ~Has(chain, {"order"})
       /\ e.kind = "write" /\ Has(chain, {"summary"}) => Has(chain, {"write"})
       /\ e.kind = "summary" => ~Has(chain, {"summary"})
       /\ e.kind \in {"take", "retract"} => Has(chain, {"write"})

Grounded(entries) == \A k \in 1..Len(entries) : Follows(entries[k], ChainAt(entries, k - 1))

(***************************************************************************)
(* What may come behind the chain keeps the log grounded.                  *)
(***************************************************************************)
LEMMA GroundedAppend ==
  ASSUME NEW S, NEW l \in Seq(S), NEW e \in S, Grounded(l), Follows(e, Surviving(l))
  PROVE  Grounded(Append(l, e))
<1> DEFINE t == Append(l, e)
           n == Len(l)
<1>1. /\ n \in Nat /\ Len(t) = n + 1 /\ t[n + 1] = e
      /\ \A i \in 1..n : t[i] = l[i]
  BY AppendProperties
<1>2. \A k \in 0..n : ChainAt(t, k) = ChainAt(l, k)
  BY ChainAtAppend
<1>3. ChainAt(l, n) = Surviving(l)
  BY ChainAtEnds
<1> HIDE DEF t
<1>4. SUFFICES ASSUME NEW k \in 1..(n + 1)
               PROVE  Follows(t[k], ChainAt(t, k - 1))
  BY <1>1 DEF Grounded, t
<1>5. CASE k = n + 1
  <2>1. n \in 0..n /\ k - 1 = n
    BY <1>1, <1>5
  <2> QED BY <1>1, <1>2, <1>3, <1>5, <2>1
<1>6. CASE k # n + 1
  <2>1. k \in 1..n /\ k - 1 \in 0..n
    BY <1>1, <1>6
  <2> QED BY <1>1, <1>2, <2>1 DEF Grounded
<1> QED BY <1>5, <1>6

(***************************************************************************)
(* A chain and the one after the next entry differ in an entry at the end  *)
(* that is like the next one.                                              *)
(***************************************************************************)
EntryBetween(x, e, before, after) ==
  /\ x \in Entry /\ x.kind = e.kind /\ x.amount = e.amount /\ x.outcome = e.outcome
  /\ e.undo => before = Append(after, x)
  /\ ~e.undo => after = Append(before, x) /\ x = e

LEMMA ChainStep ==
  ASSUME NEW l \in Seq(Entry), Grounded(l), NEW k \in 1..Len(l)
  PROVE  /\ ChainAt(l, k - 1) \in Seq(Entry) /\ ChainAt(l, k) \in Seq(Entry)
         /\ \E x : EntryBetween(x, l[k], ChainAt(l, k - 1), ChainAt(l, k))
<1> DEFINE c == ChainAt(l, k - 1)
           d == ChainAt(l, k)
           e == l[k]
<1>1. c \in Seq(Entry) /\ d \in Seq(Entry) /\ d = Shorter(c, e)
  BY ChainAtStep
<1>2. e \in Entry /\ e.undo \in BOOLEAN
  BY DEF Entry
<1>3. Follows(e, c)
  BY DEF Grounded
<1> HIDE DEF c, d, e
<1>4. CASE e.undo
  <2>1. c # <<>> /\ e = TakenBack(Last(c)) /\ d = Front(c)
    BY <1>1, <1>3, <1>4 DEF Follows, Shorter
  <2>2. Last(c) \in Entry /\ c = Append(d, Last(c))
    BY <1>1, <2>1, FrontLast
  <2>3. e.kind = Last(c).kind /\ e.amount = Last(c).amount /\ e.outcome = Last(c).outcome
    BY <2>1, <2>2 DEF TakenBack, Entry
  <2>4. EntryBetween(Last(c), e, c, d)
    BY <1>4, <2>2, <2>3 DEF EntryBetween
  <2> QED BY <1>1, <2>4 DEF c, d, e
<1>5. CASE ~e.undo
  <2>1. EntryBetween(e, e, c, d)
    BY <1>1, <1>2, <1>5 DEF EntryBetween, Shorter
  <2> QED BY <1>1, <2>1 DEF c, d, e
<1> QED BY <1>4, <1>5

(***************************************************************************)
(* The entries of some kinds are entries, and there are none only if there *)
(* is no entry of the kinds.                                               *)
(***************************************************************************)
Kept(c, kinds) ==
  /\ \A n \in 1..Len(Of(c, kinds)) :
       Of(c, kinds)[n].kind \in kinds /\ \E j \in 1..Len(c) : Of(c, kinds)[n] = c[j]
  /\ Has(c, kinds) <=> Of(c, kinds) # <<>>

LEMMA KeptAppend ==
  ASSUME NEW S, NEW c \in Seq(S), NEW e \in S, NEW kinds, Kept(c, kinds)
  PROVE  Kept(Append(c, e), kinds)
<1> DEFINE d == Append(c, e)
           a == Of(c, kinds)
           b == Of(d, kinds)
<1>1. /\ d \in Seq(S) /\ Len(d) = Len(c) + 1 /\ Len(c) \in Nat /\ d[Len(c) + 1] = e
      /\ \A i \in 1..Len(c) : d[i] = c[i]
  BY AppendProperties
<1>2. a \in Seq(S) /\ b = Longer(a, e, kinds)
  BY OfAppend
<1>3. Len(a) \in Nat /\ Len(c) + 1 \in 1..Len(d) /\ \A i \in 1..Len(c) : i \in 1..Len(d)
  BY <1>1, <1>2
<1> HIDE DEF d, a, b
<1>4. /\ \A n \in 1..Len(a) : a[n].kind \in kinds /\ \E j \in 1..Len(c) : a[n] = c[j]
      /\ Has(c, kinds) <=> a # <<>>
  BY DEF Kept, a
<1>5. CASE e.kind \in kinds
  <2>1. /\ b = Append(a, e) /\ Len(b) = Len(a) + 1 /\ b[Len(a) + 1] = e
        /\ \A i \in 1..Len(a) : b[i] = a[i]
    BY <1>2, <1>5, AppendProperties DEF Longer
  <2>2. ASSUME NEW n \in 1..Len(b)
        PROVE  b[n].kind \in kinds /\ \E j \in 1..Len(d) : b[n] = d[j]
    <3>1. CASE n = Len(a) + 1
      BY <1>1, <1>3, <1>5, <2>1, <3>1
    <3>2. CASE n # Len(a) + 1
      <4>1. n \in 1..Len(a) /\ b[n] = a[n]
        BY <1>3, <2>1, <3>2
      <4>2. PICK j \in 1..Len(c) : a[n] = c[j]
        BY <1>4, <4>1
      <4> QED BY <1>1, <1>3, <1>4, <4>1, <4>2
    <3> QED BY <3>1, <3>2
  <2>3. Has(d, kinds) /\ b # <<>>
    <3>1. Has(d, kinds)
      BY <1>1, <1>3, <1>5 DEF Has
    <3>2. Len(b) # 0
      BY <1>3, <2>1
    <3> QED BY <3>1, <3>2
  <2> QED BY <2>2, <2>3 DEF Kept, b, d
<1>6. CASE e.kind \notin kinds
  <2>1. b = a
    BY <1>2, <1>6 DEF Longer
  <2>2. ASSUME NEW n \in 1..Len(b)
        PROVE  b[n].kind \in kinds /\ \E j \in 1..Len(d) : b[n] = d[j]
    <3>1. PICK j \in 1..Len(c) : a[n] = c[j]
      BY <1>4, <2>1
    <3> QED BY <1>1, <1>3, <1>4, <2>1, <3>1
  <2>3. Has(d, kinds) <=> Has(c, kinds)
    <3>1. \A j \in 1..Len(d) : d[j].kind \in kinds => j \in 1..Len(c)
      BY <1>1, <1>6
    <3> QED BY <1>1, <1>3, <3>1 DEF Has
  <2> QED BY <1>4, <2>1, <2>2, <2>3 DEF Kept, b, d
<1> QED BY <1>5, <1>6

LEMMA KeptAll ==
  ASSUME NEW S, NEW c \in Seq(S), NEW kinds
  PROVE  Kept(c, kinds) /\ Of(c, kinds) \in Seq(S)
<1> DEFINE n == Len(c)
           T == {k \in 0..n : Kept(SubSeq(c, 1, k), kinds) /\ Of(SubSeq(c, 1, k), kinds) \in Seq(S)}
<1>1. n \in Nat /\ n \in 0..n /\ 0 \in 0..n
  OBVIOUS
<1>2. 0 \in T
  <2>1. SubSeq(c, 1, 0) = <<>>
    <3>1. SubSeq(c, 1, 0) \in Seq(S) /\ Len(SubSeq(c, 1, 0)) = 0
      BY <1>1, PrefixProperties
    <3> QED BY <3>1
  <2>2. Kept(<<>>, kinds) /\ Of(<<>>, kinds) \in Seq(S)
    <3>1. Of(<<>>, kinds) = <<>> /\ Len(<<>>) = 0 /\ <<>> \in Seq(S)
      BY OfNone
    <3>2. ~Has(<<>>, kinds)
      BY <3>1 DEF Has
    <3>3. Len(Of(<<>>, kinds)) = 0 /\ \A a \in 1..0 : FALSE
      BY <3>1
    <3>4. Kept(<<>>, kinds)
      BY <3>1, <3>2, <3>3 DEF Kept
    <3> QED BY <3>1, <3>4
  <2> QED BY <1>1, <2>1, <2>2
<1>3. ASSUME NEW k \in 1..n, k - 1 \in T
      PROVE  k \in T
  <2> DEFINE t == SubSeq(c, 1, k - 1)
  <2>1. t \in Seq(S) /\ c[k] \in S /\ SubSeq(c, 1, k) = Append(t, c[k])
    BY PrefixStep
  <2>2. Kept(t, kinds)
    BY <1>3
  <2> HIDE DEF t
  <2>3. Kept(Append(t, c[k]), kinds)
    BY <2>1, <2>2, KeptAppend
  <2>4. Of(Append(t, c[k]), kinds) \in Seq(S)
    <3>1. Of(t, kinds) \in Seq(S) /\ Of(Append(t, c[k]), kinds) = Longer(Of(t, kinds), c[k], kinds)
      BY <2>1, OfAppend
    <3>2. Append(Of(t, kinds), c[k]) \in Seq(S)
      BY <2>1, <3>1
    <3> QED BY <3>1, <3>2 DEF Longer
  <2>5. k \in 0..n
    BY <1>1
  <2> QED BY <2>1, <2>3, <2>4, <2>5
<1>4. n \in T
  <2> HIDE DEF T, n
  <2>1. \A k \in 0..n : k \in T
    BY <1>1, <1>2, <1>3, CountUp
  <2> QED BY <1>1, <2>1
<1>5. SubSeq(c, 1, n) = c
  BY PrefixOfPrefix
<1> QED BY <1>4, <1>5

(***************************************************************************)
(* What a chain has after one more entry, and what it had before.          *)
(***************************************************************************)
LEMMA HasAppend ==
  ASSUME NEW S, NEW c \in Seq(S), NEW e \in S, NEW kinds
  PROVE  Has(Append(c, e), kinds) <=> Has(c, kinds) \/ e.kind \in kinds
<1> DEFINE d == Append(c, e)
<1>1. /\ Len(d) = Len(c) + 1 /\ Len(c) \in Nat /\ d[Len(c) + 1] = e
      /\ \A i \in 1..Len(c) : d[i] = c[i]
  BY AppendProperties
<1> HIDE DEF d
<1>2. /\ Len(c) + 1 \in 1..Len(d) /\ \A i \in 1..Len(c) : i \in 1..Len(d)
      /\ \A i \in 1..Len(d) : i = Len(c) + 1 \/ i \in 1..Len(c)
  BY <1>1
<1>3. Has(d, kinds) <=> Has(c, kinds) \/ e.kind \in kinds
  BY <1>1, <1>2 DEF Has
<1> QED BY <1>3 DEF d

(***************************************************************************)
(* Entries of other kinds change neither the entries of some kinds nor, if *)
(* those are among them, what the order and the takers of its offer got.   *)
(***************************************************************************)
SameFor(c, d, kinds) ==
  /\ Of(c, kinds) = Of(d, kinds)
  /\ {"order", "take"} \subseteq kinds => \A outcomes : Got(c, outcomes) = Got(d, outcomes)

LEMMA OtherAppended ==
  ASSUME NEW c \in Seq(Entry), NEW e \in Entry, NEW kinds, e.kind \notin kinds
  PROVE  SameFor(c, Append(c, e), kinds)
<1>1. Of(Append(c, e), kinds) = Of(c, kinds)
  BY OfAppend DEF Longer
<1>2. ASSUME {"order", "take"} \subseteq kinds, NEW outcomes
      PROVE  Got(c, outcomes) = Got(Append(c, e), outcomes)
  <2>1. Given(e, outcomes) = 0
    BY <1>2 DEF Given
  <2>2. Got(c, outcomes) \in Nat /\ Got(Append(c, e), outcomes) = Got(c, outcomes) + Given(e, outcomes)
    BY GotAppend
  <2> QED BY <2>1, <2>2
<1> QED BY <1>1, <1>2 DEF SameFor

LEMMA OtherSkipped ==
  ASSUME NEW l \in Seq(Entry), Grounded(l), NEW p \in 0..Len(l), NEW q \in p..Len(l), NEW kinds,
         \A j \in (p + 1)..q : l[j].kind \notin kinds
  PROVE  SameFor(ChainAt(l, p), ChainAt(l, q), kinds)
<1> DEFINE n == q - p
           T == {k \in 0..n : SameFor(ChainAt(l, p), ChainAt(l, p + k), kinds)}
<1>1. n \in Nat /\ n \in 0..n /\ 0 \in 0..n /\ p + 0 = p /\ p + n = q
  OBVIOUS
<1>2. 0 \in T
  <2>1. SameFor(ChainAt(l, p), ChainAt(l, p), kinds)
    BY DEF SameFor
  <2> QED BY <1>1, <2>1
<1>3. ASSUME NEW k \in 1..n, k - 1 \in T
      PROVE  k \in T
  <2> DEFINE i == p + k
  <2>1. i \in 1..Len(l) /\ i \in (p + 1)..q /\ i - 1 = p + (k - 1) /\ k \in 0..n
    OBVIOUS
  <2>2. SameFor(ChainAt(l, p), ChainAt(l, i - 1), kinds)
    BY <1>3, <2>1
  <2> HIDE DEF i
  <2>3. /\ ChainAt(l, i - 1) \in Seq(Entry) /\ ChainAt(l, i) \in Seq(Entry)
        /\ \E x : EntryBetween(x, l[i], ChainAt(l, i - 1), ChainAt(l, i))
    BY <2>1, ChainStep
  <2>4. PICK x : EntryBetween(x, l[i], ChainAt(l, i - 1), ChainAt(l, i))
    BY <2>3
  <2>5. x \in Entry /\ x.kind \notin kinds
    BY <2>1, <2>4 DEF EntryBetween
  <2>6. SameFor(ChainAt(l, i - 1), ChainAt(l, i), kinds)
    <3>1. CASE l[i].undo
      <4>1. SameFor(ChainAt(l, i), Append(ChainAt(l, i), x), kinds)
        BY <2>3, <2>5, OtherAppended
      <4> QED BY <2>4, <3>1, <4>1 DEF EntryBetween, SameFor
    <3>2. CASE ~l[i].undo
      <4>1. SameFor(ChainAt(l, i - 1), Append(ChainAt(l, i - 1), x), kinds)
        BY <2>3, <2>5, OtherAppended
      <4> QED BY <2>4, <3>2, <4>1 DEF EntryBetween
    <3> QED BY <3>1, <3>2
  <2>7. SameFor(ChainAt(l, p), ChainAt(l, i), kinds)
    BY <2>2, <2>6 DEF SameFor
  <2> QED BY <2>1, <2>7 DEF i
<1>4. n \in T
  <2> HIDE DEF T, n
  <2>1. \A k \in 0..n : k \in T
    BY <1>1, <1>2, <1>3, CountUp
  <2> QED BY <1>1, <2>1
<1> QED BY <1>1, <1>4

(***************************************************************************)
(* An offer is written before it is taken or retracted.                    *)
(***************************************************************************)
Shape(c) ==
  \A a \in 1..Len(c) : c[a].kind \in {"take", "retract"} =>
    \E b \in 1..(a - 1) : c[b].kind = "write"

LEMMA ShapeAppend ==
  ASSUME NEW c \in Seq(Entry), NEW x \in Entry
  PROVE  /\ Shape(Append(c, x)) => Shape(c)
         /\ /\ Shape(c)
            /\ x.kind \in {"take", "retract"} => Has(c, {"write"})
            => Shape(Append(c, x))
<1> DEFINE d == Append(c, x)
           n == Len(c)
<1>1. /\ Len(d) = n + 1 /\ n \in Nat /\ d[n + 1] = x
      /\ \A i \in 1..n : d[i] = c[i]
  BY AppendProperties
<1> HIDE DEF d
<1>2. ASSUME Shape(d)
      PROVE  Shape(c)
  <2>1. \A i \in 1..n : i \in 1..Len(d) /\ \A b \in 1..(i - 1) : b \in 1..n
    BY <1>1
  <2> QED BY <1>1, <1>2, <2>1 DEF Shape
<1>3. ASSUME Shape(c),
             x.kind \in {"take", "retract"} => Has(c, {"write"})
      PROVE  Shape(d)
  <2>1. \A i \in 1..Len(d) : i = n + 1 \/ i \in 1..n
    BY <1>1
  <2>3. ASSUME NEW a \in 1..Len(d), d[a].kind \in {"take", "retract"}
        PROVE  \E b \in 1..(a - 1) : d[b].kind = "write"
    <3>1. CASE a = n + 1
      <4>1. PICK b \in 1..n : c[b].kind = "write"
        BY <1>1, <1>3, <2>3, <3>1 DEF Has
      <4>2. b \in 1..(a - 1) /\ d[b].kind = "write"
        BY <1>1, <3>1, <4>1
      <4> QED BY <4>2
    <3>2. CASE a # n + 1
      <4>1. a \in 1..n /\ c[a].kind \in {"take", "retract"}
        BY <1>1, <2>1, <2>3, <3>2
      <4>2. PICK b \in 1..(a - 1) : c[b].kind = "write"
        BY <1>3, <4>1 DEF Shape
      <4>3. d[b].kind = "write"
        BY <1>1, <4>1, <4>2
      <4> QED BY <4>3
    <3> QED BY <3>1, <3>2
  <2> QED BY <2>3 DEF Shape
<1> QED BY <1>2, <1>3 DEF d

LEMMA ChainShape ==
  ASSUME NEW l \in Seq(Entry), Grounded(l), NEW k \in 0..Len(l)
  PROVE  Shape(ChainAt(l, k))
<1> DEFINE n == Len(l)
           T == {i \in 0..n : Shape(ChainAt(l, i))}
<1>1. n \in Nat
  OBVIOUS
<1>2. 0 \in T
  <2>1. ChainAt(l, 0) = <<>> /\ Len(<<>>) = 0 /\ 0 \in 0..n
    BY <1>1, ChainAtEnds
  <2>2. Shape(<<>>)
    BY DEF Shape
  <2> QED BY <2>1, <2>2
<1>3. ASSUME NEW i \in 1..n, i - 1 \in T
      PROVE  i \in T
  <2>1. Shape(ChainAt(l, i - 1)) /\ i \in 0..n
    BY <1>3
  <2>2. /\ ChainAt(l, i - 1) \in Seq(Entry) /\ ChainAt(l, i) \in Seq(Entry)
        /\ \E x : EntryBetween(x, l[i], ChainAt(l, i - 1), ChainAt(l, i))
    BY ChainStep
  <2>3. PICK x : EntryBetween(x, l[i], ChainAt(l, i - 1), ChainAt(l, i))
    BY <2>2
  <2>4. Follows(l[i], ChainAt(l, i - 1))
    BY DEF Grounded
  <2>5. Shape(ChainAt(l, i))
    <3>1. CASE l[i].undo
      <4>1. x \in Entry /\ ChainAt(l, i - 1) = Append(ChainAt(l, i), x)
        BY <2>3, <3>1 DEF EntryBetween
      <4>2. Shape(Append(ChainAt(l, i), x)) => Shape(ChainAt(l, i))
        BY <2>2, <4>1, ShapeAppend
      <4> QED BY <2>1, <4>1, <4>2
    <3>2. CASE ~l[i].undo
      <4>1. x \in Entry /\ x = l[i] /\ ChainAt(l, i) = Append(ChainAt(l, i - 1), x)
        BY <2>3, <3>2 DEF EntryBetween
      <4>2. x.kind \in {"take", "retract"} => Has(ChainAt(l, i - 1), {"write"})
        BY <2>4, <3>2, <4>1 DEF Follows
      <4>3. Shape(Append(ChainAt(l, i - 1), x))
        BY <2>1, <2>2, <4>1, <4>2, ShapeAppend
      <4> QED BY <4>1, <4>3
    <3> QED BY <3>1, <3>2
  <2> QED BY <2>1, <2>5
<1>4. \A i \in 0..n : i \in T
  <2> HIDE DEF T, n
  <2> QED BY <1>1, <1>2, <1>3, CountUp
<1> QED BY <1>4

(***************************************************************************)
(* An order that was summarised without an offer never gets one while the  *)
(* summary stands.                                                         *)
(***************************************************************************)
LEMMA NeverWritten ==
  ASSUME NEW l \in Seq(Entry), Grounded(l), NEW p \in 0..Len(l), NEW q \in p..Len(l),
         \A j \in (p + 1)..q : l[j].kind # "summary",
         Has(ChainAt(l, p), {"summary"}), ~Has(ChainAt(l, p), {"write"})
  PROVE  Has(ChainAt(l, q), {"summary"}) /\ ~Has(ChainAt(l, q), {"write"})
<1> DEFINE n == q - p
           T == {k \in 0..n : Has(ChainAt(l, p + k), {"summary"}) /\ ~Has(ChainAt(l, p + k), {"write"})}
<1>1. n \in Nat /\ n \in 0..n /\ 0 \in 0..n /\ p + 0 = p /\ p + n = q
  OBVIOUS
<1>2. 0 \in T
  BY <1>1
<1>3. ASSUME NEW k \in 1..n, k - 1 \in T
      PROVE  k \in T
  <2> DEFINE i == p + k
  <2>1. i \in 1..Len(l) /\ i \in (p + 1)..q /\ i - 1 = p + (k - 1) /\ k \in 0..n
    OBVIOUS
  <2>2. Has(ChainAt(l, i - 1), {"summary"}) /\ ~Has(ChainAt(l, i - 1), {"write"})
    BY <1>3, <2>1
  <2> HIDE DEF i
  <2>3. /\ ChainAt(l, i - 1) \in Seq(Entry) /\ ChainAt(l, i) \in Seq(Entry)
        /\ \E x : EntryBetween(x, l[i], ChainAt(l, i - 1), ChainAt(l, i))
    BY <2>1, ChainStep
  <2>4. PICK x : EntryBetween(x, l[i], ChainAt(l, i - 1), ChainAt(l, i))
    BY <2>3
  <2>5. Follows(l[i], ChainAt(l, i - 1))
    BY <2>1 DEF Grounded
  <2>6. l[i].kind # "summary"
    BY <2>1
  <2>7. Has(ChainAt(l, i), {"summary"}) /\ ~Has(ChainAt(l, i), {"write"})
    <3>1. CASE l[i].undo
      <4>1. x \in Entry /\ x.kind = l[i].kind /\ ChainAt(l, i - 1) = Append(ChainAt(l, i), x)
        BY <2>4, <3>1 DEF EntryBetween
      <4>2. \A kinds : Has(Append(ChainAt(l, i), x), kinds) <=> Has(ChainAt(l, i), kinds) \/ x.kind \in kinds
        BY <2>3, <4>1, HasAppend
      <4> QED BY <2>2, <2>6, <4>1, <4>2
    <3>2. CASE ~l[i].undo
      <4>1. x \in Entry /\ x = l[i] /\ ChainAt(l, i) = Append(ChainAt(l, i - 1), x)
        BY <2>4, <3>2 DEF EntryBetween
      <4>2. \A kinds : Has(Append(ChainAt(l, i - 1), x), kinds) <=>
                         Has(ChainAt(l, i - 1), kinds) \/ x.kind \in kinds
        BY <2>3, <4>1, HasAppend
      <4>3. x.kind # "write"
        BY <2>2, <2>5, <3>2, <4>1 DEF Follows
      <4> QED BY <2>2, <4>1, <4>2, <4>3
    <3> QED BY <3>1, <3>2
  <2> QED BY <2>1, <2>7 DEF i
<1>4. n \in T
  <2> HIDE DEF T, n
  <2>1. \A k \in 0..n : k \in T
    BY <1>1, <1>2, <1>3, CountUp
  <2> QED BY <1>1, <2>1
<1> QED BY <1>1, <1>4

-----------------------------------------------------------------------------
(***************************************************************************)
(* The versions of the offer, and what its takers got.                     *)
(***************************************************************************)

\* The version that an event of the offer adds.
RowOf(e) ==
  CASE e.kind = "write" -> Written [] e.kind = "retract" -> Retracted
    [] e.kind = "take"  -> Taken(e)

RowsOf(events) == [n \in 1..Len(events) |-> RowOf(events[n])]

Good(row) == row.taken # NoTake /\ ~row.taken.failed /\ ~row.taken.posthookFailed

Gain(row) == IF Good(row) THEN row.taken.amount ELSE 0

Takers(versions) == TakenFor(versions, GoodTakes(versions))

(***************************************************************************)
(* Such a version is a row, and brings the taker what the event says.      *)
(***************************************************************************)
LEMMA RowFor ==
  ASSUME NEW e \in Entry, e.kind \in OfferKinds
  PROVE  /\ RowOf(e) \in Row
         /\ Gain(RowOf(e)) = Given(e, {"success"})
         /\ RowOf(e).taken # NoTake <=> e.kind = "take"
         /\ e.kind = "take" =>
              /\ RowOf(e).taken.amount = e.amount
              /\ RowOf(e).taken.failed <=> e.outcome = "failed"
         /\ RowOf(e).retract <=> e.kind = "retract"
         /\ RowOf(e).deleted <=> e.kind # "write"
<1>1. e.outcome \in Outcomes /\ e.amount \in Nat
  BY DEF Entry
<1>2. CASE e.kind = "take"
  <2> DEFINE take == [amount |-> e.amount, failed |-> e.outcome = "failed",
                      posthookFailed |-> e.outcome = "posthookFailed"]
  <2>1. take \in Takes
    BY <1>1, <1>2 DEF Takes, Entry
  <2>2. take # NoTake
    BY <2>1, AbsenceAssumption
  <2>3. RowOf(e) = [deleted |-> TRUE, retract |-> FALSE, taken |-> take]
    BY <1>2 DEF RowOf, Taken
  <2>4. take.amount = e.amount /\ (take.failed <=> e.outcome = "failed")
        /\ (take.posthookFailed <=> e.outcome = "posthookFailed")
    OBVIOUS
  <2> HIDE DEF take
  <2>5. /\ RowOf(e) \in Row /\ RowOf(e).taken = take
        /\ RowOf(e).deleted = TRUE /\ RowOf(e).retract = FALSE
    BY <2>1, <2>3 DEF Row
  <2>6. Gain(RowOf(e)) = Given(e, {"success"})
    <3>1. Good(RowOf(e)) <=> e.outcome = "success"
      BY <1>1, <2>2, <2>4, <2>5 DEF Good, Outcomes
    <3> QED BY <1>2, <2>4, <2>5, <3>1 DEF Gain, Given
  <2> QED BY <1>2, <2>2, <2>4, <2>5, <2>6
<1>3. CASE e.kind = "write"
  BY <1>3 DEF RowOf, Written, Row, Gain, Good, Given
<1>4. CASE e.kind = "retract"
  BY <1>4 DEF RowOf, Retracted, Row, Gain, Good, Given
<1> QED BY <1>2, <1>3, <1>4 DEF OfferKinds

(***************************************************************************)
(* One more event adds its version.                                        *)
(***************************************************************************)
LEMMA RowsAppend ==
  ASSUME NEW events \in Seq(Entry), NEW e \in Entry,
         \A n \in 1..Len(events) : events[n].kind \in OfferKinds
  PROVE  /\ RowsOf(events) \in Seq(Row) /\ Len(RowsOf(events)) = Len(events)
         /\ RowsOf(Append(events, e)) = Append(RowsOf(events), RowOf(e))
<1> DEFINE t == Append(events, e)
           n == Len(events)
           a == RowsOf(events)
           b == Append(a, RowOf(e))
           c == RowsOf(t)
<1>1. /\ n \in Nat /\ Len(t) = n + 1 /\ t[n + 1] = e
      /\ \A i \in 1..n : t[i] = events[i]
  BY AppendProperties
<1>2. \A i \in 1..n : RowOf(events[i]) \in Row
  BY RowFor
<1>3. a \in Seq(Row) /\ Len(a) = n /\ \A i \in 1..n : a[i] = RowOf(events[i])
  BY <1>1, <1>2 DEF RowsOf
<1> HIDE DEF t, a
<1>4. a \in Seq(Row \cup {RowOf(e)}) /\ RowOf(e) \in Row \cup {RowOf(e)}
  BY <1>3
<1>5. /\ b \in Seq(Row \cup {RowOf(e)}) /\ Len(b) = n + 1 /\ b[n + 1] = RowOf(e)
      /\ \A i \in 1..n : b[i] = a[i]
  BY <1>3, <1>4, AppendProperties
<1>6. \A i \in 1..(n + 1) : i = n + 1 \/ i \in 1..n
  BY <1>1
<1>7. /\ c = [i \in 1..(n + 1) |-> RowOf(t[i])]
      /\ \A i \in 1..(n + 1) : c[i] = RowOf(t[i])
  BY <1>1 DEF RowsOf
<1> HIDE DEF b, c
<1>8. \A i \in 1..(n + 1) : c[i] = b[i]
  BY <1>1, <1>3, <1>5, <1>6, <1>7
<1>9. c = b
  <2>1. b = [i \in 1..(n + 1) |-> b[i]]
    BY <1>1, <1>5
  <2> QED BY <1>7, <1>8, <2>1
<1> QED BY <1>3, <1>9 DEF a, b, c, t

(***************************************************************************)
(* What the takers gave is a sum over the versions.                        *)
(***************************************************************************)
LEMMA TakenTrace ==
  ASSUME NEW rows, NEW B, IsFiniteSet(B), \A b \in B : rows[b].taken.amount \in Int
  PROVE  \E f : IsSum(f, B, [b \in B |-> rows[b].taken.amount]) /\ f[B] = TakenFor(rows, B)
<1> DEFINE w == [b \in B |-> rows[b].taken.amount]
           P(h) == h = [s \in SUBSET B |->
                         IF s = {} THEN 0
                         ELSE h[s \ {Pick(s)}] + rows[Pick(s)].taken.amount]
           f == CHOOSE h : P(h)
<1> HIDE DEF f
<1>1. \A b \in B : w[b] = rows[b].taken.amount /\ w[b] \in Int
  OBVIOUS
<1>2. PICK g : IsSum(g, B, w)
  <2> HIDE DEF w
  <2> QED BY <1>1, SumExists
<1>3. ASSUME NEW h
      PROVE  /\ P(h) => Adds(h, B, w)
             /\ IsSum(h, B, w) => P(h)
  <2>1. \A s \in SUBSET B : s # {} => Pick(s) \in B
    BY DEF Pick
  <2>2. \A s \in SUBSET B : s # {} => w[Pick(s)] = rows[Pick(s)].taken.amount
    BY <1>1, <2>1
  <2> HIDE DEF w
  <2> QED BY <2>2 DEF IsSum, Adds
<1>4. P(f)
  <2>1. P(g)
    BY <1>2, <1>3
  <2> HIDE DEF P
  <2> QED BY <2>1 DEF f
<1>5. TakenFor(rows, B) = f[B]
  BY DEF TakenFor, FoldSet, MapThenFoldSet, f, Pick
<1>6. Adds(f, B, w)
  BY <1>3, <1>4
<1>7. f \in [SUBSET B -> Int]
  <2>1. \A s \in SUBSET B : f[s] \in Int
    <3> HIDE DEF w, P
    <3> QED BY <1>1, <1>6, SumType
  <2> QED BY <1>4, <2>1
<1> HIDE DEF w
<1>8. IsSum(f, B, w)
  BY <1>6, <1>7 DEF IsSum
<1> QED BY <1>5, <1>8 DEF w

(***************************************************************************)
(* For no versions they gave nothing.                                      *)
(***************************************************************************)
LEMMA TakenForNone ==
  ASSUME NEW rows
  PROVE  TakenFor(rows, {}) = 0
<1>1. PICK f : IsSum(f, {}, [b \in {} |-> rows[b].taken.amount]) /\ f[{}] = TakenFor(rows, {})
  BY TakenTrace, FS_EmptySet
<1> QED BY <1>1 DEF IsSum, Adds

(***************************************************************************)
(* The sum looks at nothing but the versions it is over.                   *)
(***************************************************************************)
LEMMA TakenForSame ==
  ASSUME NEW rows, NEW others, NEW B, IsFiniteSet(B),
         \A b \in B : rows[b].taken.amount \in Int /\ others[b] = rows[b]
  PROVE  TakenFor(rows, B) = TakenFor(others, B) /\ TakenFor(rows, B) \in Int
<1> DEFINE v == [b \in B |-> rows[b].taken.amount]
           w == [b \in B |-> others[b].taken.amount]
<1>1. PICK f : IsSum(f, B, v) /\ f[B] = TakenFor(rows, B)
  BY TakenTrace
<1>2. PICK g : IsSum(g, B, w) /\ g[B] = TakenFor(others, B)
  BY TakenTrace
<1>3. \A b \in B : v[b] = w[b] /\ w[b] \in Int
  OBVIOUS
<1> HIDE DEF v, w
<1>4. f[B] = g[B]
  BY <1>1, <1>2, <1>3, SumSame DEF IsSum
<1>5. f[B] \in Int
  BY <1>1 DEF IsSum
<1> QED BY <1>1, <1>2, <1>4, <1>5

(***************************************************************************)
(* One more version adds what its taker gave.                              *)
(***************************************************************************)
LEMMA TakenForMore ==
  ASSUME NEW rows, NEW B, IsFiniteSet(B), NEW x, x \notin B,
         \A b \in B \cup {x} : rows[b].taken.amount \in Int
  PROVE  TakenFor(rows, B \cup {x}) = TakenFor(rows, B) + rows[x].taken.amount
<1> DEFINE C == B \cup {x}
           v == [b \in B |-> rows[b].taken.amount]
           w == [b \in C |-> rows[b].taken.amount]
<1>1. IsFiniteSet(C)
  BY FS_AddElement
<1>2. PICK f : IsSum(f, B, v) /\ f[B] = TakenFor(rows, B)
  BY TakenTrace
<1>3. PICK g : IsSum(g, C, w) /\ g[C] = TakenFor(rows, C)
  <2> HIDE DEF C
  <2> QED BY <1>1, TakenTrace DEF C
<1>4. /\ C \ {x} = B /\ x \in C /\ w[x] = rows[x].taken.amount /\ B \subseteq C
      /\ \A b \in C : w[b] \in Int
      /\ \A b \in B : v[b] = w[b]
  OBVIOUS
<1> HIDE DEF C, v, w
<1>5. g[C] = g[B] + w[x]
  BY <1>1, <1>3, <1>4, SumTake
<1>6. f[B] = g[B]
  BY <1>2, <1>3, <1>4, SumSame DEF IsSum
<1> QED BY <1>2, <1>3, <1>4, <1>5, <1>6 DEF C

(***************************************************************************)
(* The good takes are finitely many, of natural amounts.                   *)
(***************************************************************************)
LEMMA GoodTakesType ==
  ASSUME NEW rows \in Seq(Row)
  PROVE  /\ IsFiniteSet(GoodTakes(rows)) /\ GoodTakes(rows) \subseteq 1..Len(rows)
         /\ \A n \in GoodTakes(rows) : rows[n].taken.amount \in Nat
<1>1. Len(rows) \in Nat /\ DOMAIN rows = 1..Len(rows) /\ \A n \in 1..Len(rows) : rows[n] \in Row
  OBVIOUS
<1>2. GoodTakes(rows) \subseteq 1..Len(rows)
  BY <1>1 DEF GoodTakes
<1>3. IsFiniteSet(GoodTakes(rows))
  <2>1. IsFiniteSet(1..Len(rows))
    BY <1>1, FS_Interval
  <2> QED BY <1>2, <2>1, FS_Subset
<1>4. ASSUME NEW n \in GoodTakes(rows)
      PROVE  rows[n].taken.amount \in Nat
  <2>1. rows[n] \in Row /\ rows[n].taken # NoTake
    BY <1>1, <1>2 DEF GoodTakes
  <2>2. rows[n].taken \in Takes
    BY <2>1 DEF Row
  <2>3. rows[n].taken.amount \in Amounts
    BY <2>2 DEF Takes
  <2> QED BY <2>3, StatusAssumption
<1> QED BY <1>2, <1>3, <1>4

(***************************************************************************)
(* So what all takers gave changes by what the last one did.               *)
(***************************************************************************)
LEMMA TakersAppend ==
  ASSUME NEW rows \in Seq(Row), NEW row \in Row
  PROVE  /\ Takers(rows) \in Int /\ Gain(row) \in Nat
         /\ Takers(Append(rows, row)) = Takers(rows) + Gain(row)
<1> DEFINE t == Append(rows, row)
           n == Len(rows)
           B == GoodTakes(rows)
<1>1. /\ t \in Seq(Row) /\ n \in Nat /\ Len(t) = n + 1 /\ t[n + 1] = row
      /\ \A i \in 1..n : t[i] = rows[i]
  BY AppendProperties
<1>2. /\ IsFiniteSet(B) /\ B \subseteq 1..n /\ n + 1 \notin B
      /\ \A i \in B : rows[i].taken.amount \in Nat
  <2>1. n + 1 \notin 1..n
    BY <1>1
  <2> QED BY <2>1, GoodTakesType
<1>3. /\ IsFiniteSet(GoodTakes(t)) /\ \A i \in GoodTakes(t) : t[i].taken.amount \in Nat
  <2> HIDE DEF t
  <2> QED BY <1>1, GoodTakesType
<1>4. GoodTakes(t) = IF Good(row) THEN B \cup {n + 1} ELSE B
  <2>1. DOMAIN rows = 1..n /\ DOMAIN t = 1..(n + 1)
    BY <1>1
  <2>2. \A i \in 1..(n + 1) : i = n + 1 \/ i \in 1..n
    BY <1>1
  <2>3. \A i \in 1..n : i \in 1..(n + 1) /\ i # n + 1
    BY <1>1
  <2> HIDE DEF t, n
  <2>4. \A i : i \in GoodTakes(t) <=> i \in 1..(n + 1) /\ Good(t[i])
    BY <2>1 DEF GoodTakes, Good
  <2>5. \A i : i \in B <=> i \in 1..n /\ Good(rows[i])
    BY <2>1 DEF GoodTakes, Good
  <2>6. n + 1 \in 1..(n + 1)
    BY <1>1
  <2> HIDE DEF B
  <2>7. ASSUME NEW i
        PROVE  i \in GoodTakes(t) <=> i \in (IF Good(row) THEN B \cup {n + 1} ELSE B)
    BY <1>1, <2>2, <2>3, <2>4, <2>5, <2>6
  <2> QED BY <2>7
<1> HIDE DEF t, n, B
<1>5. TakenFor(rows, B) = TakenFor(t, B) /\ TakenFor(rows, B) \in Int
  <2>1. \A b \in B : rows[b].taken.amount \in Int /\ t[b] = rows[b]
    BY <1>1, <1>2
  <2> QED BY <1>2, <2>1, TakenForSame
<1>6. CASE Good(row)
  <2>1. \A b \in B \cup {n + 1} : t[b].taken.amount \in Int
    BY <1>3, <1>4, <1>6
  <2>2. TakenFor(t, B \cup {n + 1}) = TakenFor(t, B) + t[n + 1].taken.amount
    BY <1>2, <2>1, TakenForMore
  <2>3. Gain(row) = t[n + 1].taken.amount /\ Gain(row) \in Nat
    BY <1>1, <1>3, <1>4, <1>6 DEF Gain
  <2> QED BY <1>4, <1>5, <1>6, <2>2, <2>3 DEF Takers, t, B
<1>7. CASE ~Good(row)
  BY <1>4, <1>5, <1>7 DEF Takers, Gain, t, B
<1> QED BY <1>6, <1>7

-----------------------------------------------------------------------------
(***************************************************************************)
(* The tables of the mangrove stream are a replay of a chain.              *)
(***************************************************************************)
OrderReplayed(c, o) ==
  IF o = NoOrder THEN Of(c, {"order"}) = <<>>
  ELSE \E x \in Entry : Of(c, {"order"}) = <<x>> /\ o = [got |-> x.amount]

AtOnce(o) == IF o = NoOrder THEN 0 ELSE o.got

Replayed(c, o, rows) ==
  /\ rows = RowsOf(OfferEvents(c))
  /\ OrderReplayed(c, o)
  /\ FilledOf(c) = AtOnce(o) + Takers(rows)

(***************************************************************************)
(* The events of the offer are of its kinds, and make rows.                *)
(***************************************************************************)
LEMMA OfferEventsType ==
  ASSUME NEW c \in Seq(Entry)
  PROVE  /\ OfferEvents(c) \in Seq(Entry) /\ RowsOf(OfferEvents(c)) \in Seq(Row)
         /\ Len(RowsOf(OfferEvents(c))) = Len(OfferEvents(c))
         /\ \A n \in 1..Len(OfferEvents(c)) :
              /\ OfferEvents(c)[n] \in Entry /\ OfferEvents(c)[n].kind \in OfferKinds
              /\ \E j \in 1..Len(c) : OfferEvents(c)[n] = c[j]
<1> DEFINE events == OfferEvents(c)
<1>1. events = Of(c, OfferKinds)
  BY DEF OfferEvents, OfferKinds
<1>2. events \in Seq(Entry)
  BY <1>1, KeptAll
<1>3. Kept(c, OfferKinds)
  BY KeptAll
<1> HIDE DEF events
<1>4. \A n \in 1..Len(events) :
        /\ events[n] \in Entry /\ events[n].kind \in OfferKinds
        /\ \E j \in 1..Len(c) : events[n] = c[j]
  BY <1>1, <1>2, <1>3 DEF Kept
<1>5. Len(events) \in Nat /\ \A n \in 1..Len(events) : RowOf(events[n]) \in Row
  BY <1>2, <1>4, RowFor
<1>6. RowsOf(events) \in Seq(Row) /\ Len(RowsOf(events)) = Len(events)
  BY <1>5 DEF RowsOf
<1> QED BY <1>2, <1>4, <1>6 DEF events

(***************************************************************************)
(* One more event of the offer is one more of its events.                  *)
(***************************************************************************)
LEMMA OfferEventsAppend ==
  ASSUME NEW c \in Seq(Entry), NEW e \in Entry
  PROVE  /\ e.kind \in OfferKinds =>
              /\ OfferEvents(Append(c, e)) = Append(OfferEvents(c), e)
              /\ RowsOf(OfferEvents(Append(c, e))) = Append(RowsOf(OfferEvents(c)), RowOf(e))
         /\ e.kind \notin OfferKinds => OfferEvents(Append(c, e)) = OfferEvents(c)
<1>1. OfferEvents(Append(c, e)) = Longer(OfferEvents(c), e, OfferKinds)
  BY OfAppend DEF OfferEvents, OfferKinds
<1>2. RowsOf(Append(OfferEvents(c), e)) = Append(RowsOf(OfferEvents(c)), RowOf(e))
  BY OfferEventsType, RowsAppend
<1> QED BY <1>1, <1>2 DEF Longer

(***************************************************************************)
(* An order that comes is in the table, and one taken back is not.         *)
(***************************************************************************)
LEMMA ReplayedOrder ==
  ASSUME NEW c \in Seq(Entry), NEW x \in Entry, x.kind = "order", NEW rows, NEW o
  PROVE  /\ Replayed(c, NoOrder, rows) => Replayed(Append(c, x), [got |-> x.amount], rows)
         /\ Replayed(Append(c, x), o, rows) => Replayed(c, NoOrder, rows)
<1> DEFINE d == Append(c, x)
           a == Of(c, {"order"})
<1>1. OfferEvents(d) = OfferEvents(c)
  BY OfferEventsAppend DEF OfferKinds
<1>2. a \in Seq(Entry) /\ Of(d, {"order"}) = Append(a, x)
  BY OfAppend DEF Longer
<1>3. FilledOf(c) \in Nat /\ FilledOf(d) = FilledOf(c) + x.amount
  <2>1. Given(x, {"success"}) = x.amount
    BY DEF Given, Entry
  <2> QED BY <2>1, GotAppend DEF FilledOf
<1>4. x.amount \in Gots /\ x.amount \in Nat
  BY DEF Entry
<1>5. [got |-> x.amount] # NoOrder
  <2>1. [got |-> x.amount] \in [got : Gots]
    BY <1>4
  <2> QED BY <2>1, AbsenceAssumption
<1>6. \A r : r = RowsOf(OfferEvents(c)) => Takers(r) \in Int
  <2>1. RowsOf(OfferEvents(c)) \in Seq(Row)
    BY OfferEventsType
  <2>2. Written \in Row
    BY DEF Written, Row
  <2> QED BY <2>1, <2>2, TakersAppend
<1> HIDE DEF d, a
<1>7. ASSUME Replayed(c, NoOrder, rows)
      PROVE  Replayed(d, [got |-> x.amount], rows)
  <2>1. a = <<>> /\ FilledOf(c) = Takers(rows) /\ Takers(rows) \in Int
    BY <1>6, <1>7 DEF Replayed, OrderReplayed, AtOnce, a
  <2>2. Of(d, {"order"}) = <<x>>
    BY <1>2, <2>1
  <2>3. OrderReplayed(d, [got |-> x.amount])
    BY <1>5, <2>2 DEF OrderReplayed
  <2>4. FilledOf(d) = AtOnce([got |-> x.amount]) + Takers(rows)
    BY <1>3, <1>4, <1>5, <2>1 DEF AtOnce
  <2> QED BY <1>1, <1>7, <2>3, <2>4 DEF Replayed
<1>8. ASSUME Replayed(d, o, rows)
      PROVE  Replayed(c, NoOrder, rows)
  <2>1. Of(d, {"order"}) # <<>>
    BY <1>2
  <2>2. PICK y \in Entry : Append(a, x) = <<y>> /\ o = [got |-> y.amount] /\ o # NoOrder
    BY <1>2, <1>8, <2>1 DEF Replayed, OrderReplayed
  <2>3. a = <<>> /\ y = x
    <3>1. Append(a, x) = Append(<<>>, y) /\ <<>> \in Seq(Entry)
      BY <2>2
    <3>2. Front(Append(a, x)) = a /\ Last(Append(a, x)) = x
      BY <1>2, FrontOfAppend
    <3>3. Front(Append(<<>>, y)) = <<>> /\ Last(Append(<<>>, y)) = y
      BY <3>1, FrontOfAppend
    <3> QED BY <3>1, <3>2, <3>3
  <2>4. FilledOf(d) = x.amount + Takers(rows) /\ Takers(rows) \in Int
    BY <1>1, <1>6, <1>8, <2>2, <2>3 DEF Replayed, AtOnce
  <2>5. FilledOf(c) = AtOnce(NoOrder) + Takers(rows)
    BY <1>3, <1>4, <2>4 DEF AtOnce
  <2> QED BY <1>1, <1>8, <2>3, <2>5 DEF Replayed, OrderReplayed, a
<1> QED BY <1>7, <1>8 DEF d

(***************************************************************************)
(* An event of the offer adds a version, and takes it along.               *)
(***************************************************************************)
LEMMA ReplayedOffer ==
  ASSUME NEW c \in Seq(Entry), NEW x \in Entry, x.kind \in OfferKinds, NEW rows,
         NEW o \in [got : Gots] \cup {NoOrder}
  PROVE  /\ Replayed(c, o, rows) => Replayed(Append(c, x), o, Append(rows, RowOf(x)))
         /\ Replayed(Append(c, x), o, rows) => Replayed(c, o, Front(rows))
<1> DEFINE d == Append(c, x)
           r == RowsOf(OfferEvents(c))
<1>1. RowsOf(OfferEvents(d)) = Append(r, RowOf(x))
  BY OfferEventsAppend
<1>2. r \in Seq(Row) /\ RowOf(x) \in Row /\ Gain(RowOf(x)) = Given(x, {"success"})
  BY OfferEventsType, RowFor
<1>3. Of(d, {"order"}) = Of(c, {"order"})
  BY OfAppend DEF Longer, OfferKinds
<1>4. FilledOf(c) \in Nat /\ FilledOf(d) = FilledOf(c) + Given(x, {"success"})
  BY GotAppend DEF FilledOf
<1> HIDE DEF d, r
<1>5. /\ Takers(r) \in Int /\ Gain(RowOf(x)) \in Nat
      /\ Takers(Append(r, RowOf(x))) = Takers(r) + Gain(RowOf(x))
  BY <1>2, TakersAppend
<1>6. AtOnce(o) \in Nat
  <2>1. o # NoOrder => o.got \in Gots
    OBVIOUS
  <2> QED BY <2>1, StatusAssumption DEF AtOnce
<1>7. OrderReplayed(c, o) <=> OrderReplayed(d, o)
  BY <1>3 DEF OrderReplayed
<1>8. FilledOf(c) = AtOnce(o) + Takers(r)
        <=> FilledOf(d) = AtOnce(o) + Takers(Append(r, RowOf(x)))
  BY <1>2, <1>4, <1>5, <1>6
<1>9. Front(Append(r, RowOf(x))) = r
  BY <1>2, FrontOfAppend
<1>10. ASSUME Replayed(c, o, rows)
       PROVE  Replayed(d, o, Append(rows, RowOf(x)))
  <2>1. rows = r
    BY <1>10 DEF Replayed, r
  <2> QED BY <1>1, <1>7, <1>8, <1>10, <2>1 DEF Replayed
<1>11. ASSUME Replayed(d, o, rows)
       PROVE  Replayed(c, o, Front(rows))
  <2>1. rows = Append(r, RowOf(x)) /\ Front(rows) = r
    BY <1>1, <1>9, <1>11 DEF Replayed
  <2> QED BY <1>7, <1>8, <1>11, <2>1 DEF Replayed, r
<1> QED BY <1>10, <1>11 DEF d

(***************************************************************************)
(* The entries of the other stream change nothing of it.                   *)
(***************************************************************************)
LEMMA ReplayedLater ==
  ASSUME NEW l \in Seq(Entry), Grounded(l), NEW p \in 0..Len(l), NEW q \in p..Len(l),
         \A j \in (p + 1)..q : StreamOf(l[j]) # "mangrove",
         NEW o, NEW rows, Replayed(ChainAt(l, p), o, rows)
  PROVE  /\ Replayed(ChainAt(l, q), o, rows)
         /\ OfferEvents(ChainAt(l, q)) = OfferEvents(ChainAt(l, p))
         /\ FilledOf(ChainAt(l, q)) = FilledOf(ChainAt(l, p))
<1>1. \A j \in (p + 1)..q : l[j].kind \notin {"order", "write", "take", "retract"}
  BY DEF StreamOf
<1>2. SameFor(ChainAt(l, p), ChainAt(l, q), {"order"})
  BY <1>1, OtherSkipped
<1>3. SameFor(ChainAt(l, p), ChainAt(l, q), {"write", "take", "retract"})
  BY <1>1, OtherSkipped
<1>4. SameFor(ChainAt(l, p), ChainAt(l, q), {"order", "take"})
  BY <1>1, OtherSkipped
<1>5. /\ OfferEvents(ChainAt(l, q)) = OfferEvents(ChainAt(l, p))
      /\ FilledOf(ChainAt(l, q)) = FilledOf(ChainAt(l, p))
      /\ Of(ChainAt(l, q), {"order"}) = Of(ChainAt(l, p), {"order"})
  BY <1>2, <1>3, <1>4 DEF SameFor, OfferEvents, FilledOf
<1> QED BY <1>5 DEF Replayed, OrderReplayed

-----------------------------------------------------------------------------
(***************************************************************************)
(* The inductive invariant.                                                *)
(***************************************************************************)
DateValues == Dates \cup {Millis(d) : d \in Dates}

\* The columns of the table of the strats stream.
StratTypes(resting, dates) ==
  /\ resting \in BOOLEAN /\ (resting => dates # <<>>)
  /\ dates \in Seq(DateValues)

Types ==
  /\ log \in Seq(Entry) /\ pos \in [Streams -> 0..Len(log)] /\ now \in 1..MaxTime
  /\ order \in [got : Gots] \cup {NoOrder}
  /\ offerVersions \in Seq(Row)
  /\ StratTypes(restingOrder, expiryDates)

\* A MangroveOrder that names no offer has one version, and was summarised
\* without an offer.
Named(resting, dates, c) ==
  dates # <<>> /\ ~resting =>
    /\ Len(dates) = 1 /\ Has(c, {"summary"}) /\ ~Has(c, {"write"})

IInv ==
  /\ Types
  /\ Grounded(log)
  /\ Replayed(SeenBy("mangrove"), order, offerVersions)
  /\ Named(restingOrder, expiryDates, SeenBy("strats"))

(***************************************************************************)
(* What a stream has seen is a chain on the way.                           *)
(***************************************************************************)
LEMMA SeenChain ==
  ASSUME NEW s
  PROVE  SeenBy(s) = ChainAt(log, pos[s])
BY DEF SeenBy, ChainAt

(***************************************************************************)
(* Nothing has happened at first.                                          *)
(***************************************************************************)
LEMMA InitIInv == Init => IInv
<1> SUFFICES ASSUME Init
             PROVE  IInv
  OBVIOUS
<1>1. /\ log = <<>> /\ pos = [s \in Streams |-> 0] /\ now = 1 /\ order = NoOrder
      /\ offerVersions = <<>> /\ restingOrder = FALSE /\ expiryDates = <<>>
  BY DEF Init
<1>2. <<>> \in Seq(Entry) /\ <<>> \in Seq(Row) /\ <<>> \in Seq(DateValues) /\ Len(<<>>) = 0
  OBVIOUS
<1>3. Types
  <2>1. now \in 1..MaxTime
    BY <1>1, StatusAssumption
  <2>2. pos \in [Streams -> 0..Len(log)]
    BY <1>1, <1>2
  <2> QED BY <1>1, <1>2, <2>1, <2>2 DEF Types, StratTypes
<1>4. Grounded(log)
  BY <1>1, <1>2 DEF Grounded
<1>5. SeenBy("mangrove") = <<>>
  <2>1. pos["mangrove"] = 0
    BY <1>1 DEF Streams
  <2>2. ChainAt(<<>>, 0) = <<>>
    BY <1>2, ChainAtEnds
  <2> QED BY <1>1, <2>1, <2>2, SeenChain
<1>6. Replayed(<<>>, NoOrder, <<>>)
  <2>1. OfferEvents(<<>>) = <<>> /\ Of(<<>>, {"order"}) = <<>> /\ FilledOf(<<>>) = 0
    BY OfNone, GotNone DEF OfferEvents, FilledOf
  <2>2. RowsOf(<<>>) = <<>>
    BY <1>2 DEF RowsOf
  <2>3. GoodTakes(<<>>) = {}
    BY DEF GoodTakes
  <2>4. Takers(<<>>) = 0
    BY <2>3, TakenForNone DEF Takers
  <2> QED BY <2>1, <2>2, <2>4 DEF Replayed, OrderReplayed, AtOnce
<1>7. Named(restingOrder, expiryDates, SeenBy("strats"))
  BY <1>1 DEF Named
<1> QED BY <1>1, <1>3, <1>4, <1>5, <1>6, <1>7 DEF IInv

(***************************************************************************)
(* A new entry that may come behind the chain leaves the tables as they    *)
(* are, and what the streams have seen.                                    *)
(***************************************************************************)
LEMMA MinedIInv ==
  ASSUME IInv, NEW e \in Entry, Follows(e, Chain), log' = Append(log, e),
         UNCHANGED <<pos, now, offerTables, stratTables>>
  PROVE  IInv'
<1>1. /\ pos' = pos /\ now' = now /\ order' = order /\ offerVersions' = offerVersions
      /\ restingOrder' = restingOrder /\ expiryDates' = expiryDates
  BY DEF offerTables, stratTables
<1>2. /\ log \in Seq(Entry) /\ pos \in [Streams -> 0..Len(log)] /\ now \in 1..MaxTime
      /\ order \in [got : Gots] \cup {NoOrder} /\ offerVersions \in Seq(Row)
      /\ StratTypes(restingOrder, expiryDates) /\ Grounded(log)
  BY DEF IInv, Types
<1>3. log' \in Seq(Entry) /\ Len(log') = Len(log) + 1 /\ Len(log) \in Nat
  BY <1>2, AppendProperties
<1>4. Types'
  <2>1. pos \in [Streams -> 0..Len(log')]
    <3>1. \A s \in Streams : pos[s] \in 0..Len(log')
      BY <1>2, <1>3
    <3> QED BY <1>2, <3>1
  <2> QED BY <1>1, <1>2, <1>3, <2>1 DEF Types
<1>5. Grounded(log')
  BY <1>2, GroundedAppend DEF Chain
<1>6. ASSUME NEW s \in Streams
      PROVE  SeenBy(s)' = SeenBy(s)
  <2>1. pos[s] \in 0..Len(log)
    BY <1>2
  <2>2. ChainAt(Append(log, e), pos[s]) = ChainAt(log, pos[s])
    BY <1>2, <2>1, ChainAtAppend
  <2> QED BY <1>1, <2>2 DEF SeenBy, ChainAt
<1>7. SeenBy("mangrove")' = SeenBy("mangrove") /\ SeenBy("strats")' = SeenBy("strats")
  BY <1>6 DEF Streams
<1> QED BY <1>1, <1>4, <1>5, <1>7 DEF IInv

(***************************************************************************)
(* The chain is the last of the chains on the way.                         *)
(***************************************************************************)
LEMMA ChainType ==
  ASSUME log \in Seq(Entry)
  PROVE  Chain \in Seq(Entry) /\ Chain = ChainAt(log, Len(log)) /\ Len(log) \in 0..Len(log)
<1>1. Len(log) \in 0..Len(log)
  OBVIOUS
<1>2. ChainAt(log, Len(log)) \in Seq(Entry) /\ ChainAt(log, Len(log)) = Chain
  BY <1>1, ChainAtType, ChainAtEnds DEF Chain
<1> QED BY <1>1, <1>2

(***************************************************************************)
(* What has happened is in the chain.                                      *)
(***************************************************************************)
LEMMA HappenedHas ==
  ASSUME log \in Seq(Entry), NEW kind
  PROVE  Happened(kind) <=> Has(Chain, {kind})
<1>1. Chain \in Seq(Entry)
  BY ChainType
<1>2. Kept(Chain, {kind})
  BY <1>1, KeptAll
<1> QED BY <1>2 DEF Kept, Happened

(***************************************************************************)
(* A new event that comes in its turn is such an entry.                    *)
(***************************************************************************)
LEMMA MineIInv ==
  ASSUME IInv, NEW kind \in Kinds, NEW amount \in Nat, NEW outcome \in Outcomes, NEW date \in Nat,
         kind = "order" => amount \in Gots /\ outcome = "success" /\ ~Happened("order"),
         kind = "take" => amount \in Amounts,
         kind \in {"summary", "expiry"} => date \in Dates,
         kind = "write" /\ Happened("summary") => Happened("write"),
         kind = "summary" => ~Happened("summary"),
         kind \in {"take", "retract"} => Happened("write"),
         Mine(kind, amount, outcome, date)
  PROVE  IInv'
<1> DEFINE e == [undo |-> FALSE, kind |-> kind, amount |-> amount, outcome |-> outcome,
                 date |-> date]
<1>1. e \in Entry
  BY DEF Entry
<1>2. \A k : Happened(k) <=> Has(Chain, {k})
  BY HappenedHas DEF IInv, Types
<1>3. Follows(e, Chain)
  BY <1>2 DEF Follows
<1>4. log' = Append(log, e) /\ UNCHANGED <<pos, now, offerTables, stratTables>>
  BY DEF Mine
<1> HIDE DEF e
<1> QED BY <1>1, <1>3, <1>4, MinedIInv

(***************************************************************************)
(* What the chain does is such an entry.                                   *)
(***************************************************************************)
LEMMA ChainIInv ==
  ASSUME IInv,
         \/ MineOrder \/ MineWrite \/ MineSummary \/ MineTake \/ MineRetract \/ MineExpiry
         \/ TakeBack
  PROVE  IInv'
<1>1. /\ "order" \in Kinds /\ "write" \in Kinds /\ "summary" \in Kinds /\ "take" \in Kinds
      /\ "retract" \in Kinds /\ "expiry" \in Kinds
      /\ "success" \in Outcomes /\ 0 \in Nat
      /\ Gots \subseteq Nat /\ Amounts \subseteq Nat /\ Dates \subseteq Nat
  BY StatusAssumption DEF Kinds, Outcomes
<1>2. CASE MineOrder
  <2>1. PICK a \in Gots : ~Happened("order") /\ Mine("order", a, "success", 0)
    BY <1>2 DEF MineOrder
  <2> QED BY <1>1, <2>1, MineIInv
<1>3. CASE MineWrite
  <2>1. Mine("write", 0, "success", 0) /\ (Happened("summary") => Happened("write"))
    BY <1>3 DEF MineWrite
  <2> QED BY <1>1, <2>1, MineIInv
<1>4. CASE MineSummary
  <2>1. PICK d \in Dates : ~Happened("summary") /\ Mine("summary", 0, "success", d)
    BY <1>4 DEF MineSummary
  <2> QED BY <1>1, <2>1, MineIInv
<1>5. CASE MineTake
  <2>1. PICK a \in Amounts, outcome \in Outcomes : InBook /\ Mine("take", a, outcome, 0)
    BY <1>5 DEF MineTake
  <2>2. Happened("write")
    <3>1. log \in Seq(Entry)
      BY DEF IInv, Types
    <3>2. Chain \in Seq(Entry)
      BY <3>1, ChainType
    <3> DEFINE events == OfferEvents(Chain)
    <3>3. events # <<>> /\ events[Len(events)].kind = "write"
      BY <2>1 DEF InBook, Last
    <3>4. /\ events \in Seq(Entry)
          /\ \A n \in 1..Len(events) : \E j \in 1..Len(Chain) : events[n] = Chain[j]
      BY <3>2, OfferEventsType
    <3> HIDE DEF events
    <3>5. Len(events) \in 1..Len(events)
      BY <3>3, <3>4
    <3>6. PICK j \in 1..Len(Chain) : Chain[j].kind = "write"
      BY <3>3, <3>4, <3>5
    <3>7. Has(Chain, {"write"})
      BY <3>6 DEF Has
    <3> QED BY <3>1, <3>7, HappenedHas
  <2> QED BY <1>1, <2>1, <2>2, MineIInv
<1>6. CASE MineRetract
  <2>1. Happened("write") /\ Mine("retract", 0, "success", 0)
    BY <1>6 DEF MineRetract
  <2> QED BY <1>1, <2>1, MineIInv
<1>7. CASE MineExpiry
  <2>1. PICK d \in Dates : Mine("expiry", 0, "success", d)
    BY <1>7 DEF MineExpiry
  <2> QED BY <1>1, <2>1, MineIInv
<1>8. CASE TakeBack
  <2> DEFINE e == TakenBack(Last(Chain))
  <2>1. Chain # <<>> /\ log' = Append(log, e) /\ UNCHANGED <<pos, now, offerTables, stratTables>>
    BY <1>8 DEF TakeBack
  <2>2. Chain \in Seq(Entry)
    BY ChainType DEF IInv, Types
  <2>3. Last(Chain) \in Entry
    BY <2>1, <2>2, FrontLast
  <2>4. e \in Entry /\ e.undo = TRUE
    BY <2>3 DEF TakenBack, Entry
  <2>5. Follows(e, Chain)
    BY <2>1, <2>4 DEF Follows
  <2> HIDE DEF e
  <2> QED BY <2>1, <2>4, <2>5, MinedIInv
<1> QED BY <1>2, <1>3, <1>4, <1>5, <1>6, <1>7, <1>8

(***************************************************************************)
(* Time changes nothing of it.                                             *)
(***************************************************************************)
LEMMA TickIInv ==
  ASSUME IInv, Tick
  PROVE  IInv'
<1>1. /\ log' = log /\ pos' = pos /\ order' = order /\ offerVersions' = offerVersions
      /\ restingOrder' = restingOrder /\ expiryDates' = expiryDates
      /\ now < MaxTime /\ now' = now + 1
  BY DEF Tick, offerTables, stratTables
<1>2. now' \in 1..MaxTime
  BY <1>1, StatusAssumption DEF IInv, Types
<1>3. SeenBy("mangrove")' = SeenBy("mangrove") /\ SeenBy("strats")' = SeenBy("strats")
  BY <1>1 DEF SeenBy
<1> QED BY <1>1, <1>2, <1>3 DEF IInv, Types

-----------------------------------------------------------------------------
(***************************************************************************)
(* The next entry of a stream is the first of it behind its position.      *)
(***************************************************************************)
IsNext(i, s) ==
  /\ i \in 1..Len(log) /\ pos[s] \in 0..Len(log) /\ i - 1 \in pos[s]..Len(log)
  /\ StreamOf(log[i]) = s
  /\ \A j \in (pos[s] + 1)..(i - 1) : StreamOf(log[j]) # s

LEMMA NextEntry ==
  ASSUME Types, NEW s \in Streams,
         NEW i \in Upcoming([j \in DOMAIN log |-> StreamOf(log[j])], pos[s], s)
  PROVE  IsNext(i, s)
<1> DEFINE n == Len(log)
           streams == [j \in DOMAIN log |-> StreamOf(log[j])]
<1>1. n \in Nat /\ DOMAIN log = 1..n /\ pos[s] \in 0..n
  BY DEF Types
<1>2. Len(streams) = n /\ \A j \in 1..n : streams[j] = StreamOf(log[j])
  BY <1>1
<1> HIDE DEF streams, n
<1>3. /\ i \in (pos[s] + 1)..n /\ streams[i] = s
      /\ \A j \in (pos[s] + 1)..(i - 1) : streams[j] # s
  BY <1>2 DEF Upcoming, streams
<1>4. i \in 1..n /\ i - 1 \in pos[s]..n /\ \A j \in (pos[s] + 1)..(i - 1) : j \in 1..n
  BY <1>1, <1>3
<1> QED BY <1>1, <1>2, <1>3, <1>4 DEF IsNext, n

(***************************************************************************)
(* Handling it, the stream has seen it, and the other stream nothing new.  *)
(***************************************************************************)
LEMMA SeenNext ==
  ASSUME Types, NEW s \in Streams, NEW i, IsNext(i, s),
         pos' = [pos EXCEPT ![s] = i], log' = log
  PROVE  /\ pos' \in [Streams -> 0..Len(log)] /\ pos'[s] = i
         /\ SeenBy(s)' = ChainAt(log, i)
         /\ \A r \in Streams : r # s => SeenBy(r)' = SeenBy(r)
<1>1. pos \in [Streams -> 0..Len(log)] /\ i \in 0..Len(log)
  BY DEF Types, IsNext
<1>2. pos' \in [Streams -> 0..Len(log)] /\ pos'[s] = i /\ \A r \in Streams : r # s => pos'[r] = pos[r]
  BY <1>1
<1>3. \A r : SeenBy(r)' = ChainAt(log, pos'[r])
  BY DEF SeenBy, ChainAt
<1>4. \A r : SeenBy(r) = ChainAt(log, pos[r])
  BY SeenChain
<1> QED BY <1>2, <1>3, <1>4

(***************************************************************************)
(* Without its latest version, the MangroveOrder is gone or keeps its      *)
(* offer: one without an offer has no other version.                       *)
(***************************************************************************)
LEMMA LatestDeleted ==
  ASSUME NEW resting, NEW dates, NEW c, NEW d, StratTypes(resting, dates), dates # <<>>,
         Named(resting, dates, c)
  PROVE  LET left == Front(dates)
             kept == resting /\ Len(dates) > 1
         IN  StratTypes(kept, left) /\ Named(kept, left, d)
<1> DEFINE left == Front(dates)
<1>1. /\ left \in Seq(DateValues) /\ Len(left) = Len(dates) - 1 /\ Len(dates) \in Nat \ {0}
  BY FrontLast DEF StratTypes
<1> HIDE DEF left
<1>2. Len(dates) > 1 => left # <<>>
  BY <1>1
<1>3. ~(Len(dates) > 1) => left = <<>>
  BY <1>1
<1>4. ~resting => Len(dates) = 1
  BY DEF Named
<1>5. StratTypes(resting /\ Len(dates) > 1, left)
  BY <1>1, <1>2 DEF StratTypes
<1>6. Named(resting /\ Len(dates) > 1, left, d)
  <2>1. left # <<>> => resting /\ Len(dates) > 1
    BY <1>1, <1>3, <1>4
  <2> QED BY <2>1 DEF Named
<1> QED BY <1>5, <1>6 DEF left

(***************************************************************************)
(* An event of the mangrove stream is handled.                             *)
(***************************************************************************)
LEMMA MangroveReplayed ==
  ASSUME IInv, NEW i, IsNext(i, "mangrove"), Mangrove(log[i])
  PROVE  /\ Replayed(ChainAt(log, i), order', offerVersions')
         /\ order' \in [got : Gots] \cup {NoOrder}
         /\ log[i].kind = "order" /\ ~log[i].undo => order = NoOrder
<1> DEFINE c == ChainAt(log, pos["mangrove"])
           d == ChainAt(log, i - 1)
           e == log[i]
<1>1. /\ log \in Seq(Entry) /\ Grounded(log) /\ i \in 1..Len(log)
      /\ order \in [got : Gots] \cup {NoOrder}
  BY DEF IInv, Types, IsNext
<1>2. Replayed(c, order, offerVersions)
  BY SeenChain DEF IInv
<1>3. Replayed(d, order, offerVersions)
  <2> DEFINE p == pos["mangrove"]
             q == i - 1
  <2>1. /\ p \in 0..Len(log) /\ q \in p..Len(log)
        /\ \A j \in (p + 1)..q : StreamOf(log[j]) # "mangrove"
    BY DEF IsNext
  <2>2. Replayed(ChainAt(log, p), order, offerVersions)
    BY <1>2
  <2> HIDE DEF p, q
  <2>3. Replayed(ChainAt(log, q), order, offerVersions)
    BY <1>1, <2>1, <2>2, ReplayedLater
  <2> QED BY <2>3 DEF q
<1>4. d \in Seq(Entry) /\ ChainAt(log, i) \in Seq(Entry)
      /\ \E x : EntryBetween(x, e, d, ChainAt(log, i))
  BY <1>1, ChainStep
<1>5. PICK x : EntryBetween(x, e, d, ChainAt(log, i))
  BY <1>4
<1>6. Follows(e, d) /\ e \in Entry
  BY <1>1 DEF Grounded
<1>7. e.kind = "order" \/ e.kind \in OfferKinds
  <2>1. StreamOf(e) = "mangrove"
    BY DEF IsNext
  <2> QED BY <1>6, <2>1 DEF StreamOf, Entry, Kinds, OfferKinds
<1> HIDE DEF c, d, e
<1>8. CASE e.kind = "order" /\ ~e.undo
  <2>1. order' = [got |-> e.amount] /\ offerVersions' = offerVersions
    BY <1>8 DEF Mangrove, e
  <2>2. ~Has(d, {"order"})
    BY <1>6, <1>8 DEF Follows
  <2>3. Of(d, {"order"}) = <<>>
    BY <1>4, <2>2, KeptAll DEF Kept
  <2>4. order = NoOrder
    <3>1. \A y : <<y>> # <<>>
      OBVIOUS
    <3> QED BY <1>3, <2>3, <3>1 DEF Replayed, OrderReplayed
  <2>5. ChainAt(log, i) = Append(d, e)
    BY <1>5, <1>8 DEF EntryBetween
  <2>6. Replayed(Append(d, e), [got |-> e.amount], offerVersions)
    BY <1>3, <1>4, <1>6, <1>8, <2>4, ReplayedOrder
  <2>7. e.amount \in Gots
    BY <1>6, <1>8 DEF Entry
  <2> QED BY <2>1, <2>4, <2>5, <2>6, <2>7
<1>9. CASE e.kind = "order" /\ e.undo
  <2>1. order' = NoOrder /\ offerVersions' = offerVersions
    BY <1>9 DEF Mangrove, e
  <2>2. x \in Entry /\ x.kind = "order" /\ d = Append(ChainAt(log, i), x)
    BY <1>5, <1>9 DEF EntryBetween
  <2>3. Replayed(ChainAt(log, i), NoOrder, offerVersions)
    BY <1>3, <1>4, <2>2, ReplayedOrder
  <2> QED BY <1>9, <2>1, <2>3 DEF e
<1>10. CASE e.kind \in OfferKinds /\ ~e.undo
  <2>1. e.kind # "order"
    BY <1>10 DEF OfferKinds
  <2>2. order' = order /\ offerVersions' = Append(offerVersions, RowOf(e))
    BY <1>10, <2>1 DEF Mangrove, addVersionedOffer, RowOf, e
  <2>3. ChainAt(log, i) = Append(d, e)
    BY <1>5, <1>10 DEF EntryBetween
  <2>4. Replayed(Append(d, e), order, Append(offerVersions, RowOf(e)))
    BY <1>1, <1>3, <1>4, <1>6, <1>10, ReplayedOffer
  <2> QED BY <1>1, <2>1, <2>2, <2>3, <2>4 DEF e
<1>11. CASE e.kind \in OfferKinds /\ e.undo
  <2>1. e.kind # "order"
    BY <1>11 DEF OfferKinds
  <2>2. order' = order /\ offerVersions' = Front(offerVersions)
    BY <1>11, <2>1 DEF Mangrove, e
  <2>3. x \in Entry /\ x.kind \in OfferKinds /\ d = Append(ChainAt(log, i), x)
    BY <1>5, <1>11 DEF EntryBetween
  <2>4. Replayed(ChainAt(log, i), order, Front(offerVersions))
    BY <1>1, <1>3, <1>4, <2>3, ReplayedOffer
  <2> QED BY <1>1, <2>1, <2>2, <2>4 DEF e
<1> QED BY <1>7, <1>8, <1>9, <1>10, <1>11

LEMMA MangroveIInv ==
  ASSUME IInv, NEW i, IsNext(i, "mangrove"), Mangrove(log[i]),
         pos' = [pos EXCEPT !["mangrove"] = i], log' = log, now' = now
  PROVE  IInv'
<1> DEFINE c == SeenBy("strats")
<1>1. Types /\ Grounded(log) /\ Named(restingOrder, expiryDates, c)
      /\ StratTypes(restingOrder, expiryDates)
  BY DEF IInv, Types
<1>2. "mangrove" \in Streams /\ "strats" \in Streams /\ "mangrove" # "strats"
  BY DEF Streams
<1>3. /\ pos' \in [Streams -> 0..Len(log)] /\ SeenBy("mangrove")' = ChainAt(log, i)
      /\ SeenBy("strats")' = c
  BY <1>1, <1>2, SeenNext
<1>4. /\ Replayed(ChainAt(log, i), order', offerVersions')
      /\ order' \in [got : Gots] \cup {NoOrder}
  BY MangroveReplayed
<1>5. offerVersions' \in Seq(Row)
  <2>1. ChainAt(log, i) \in Seq(Entry)
    BY <1>1, ChainAtStep DEF Types, IsNext
  <2> QED BY <1>4, <2>1, OfferEventsType DEF Replayed
<1> HIDE DEF c
<1>6. StratTypes(restingOrder', expiryDates') /\ Named(restingOrder', expiryDates', c)
  <2>1. \/ restingOrder' = restingOrder /\ expiryDates' = expiryDates
        \/ Indexed /\ deleteLatestVersionOfMangroveOrder
    BY DEF Mangrove, stratTables, deleteLatestMangroveOrderVersionUsingOfferId
  <2>2. CASE restingOrder' = restingOrder /\ expiryDates' = expiryDates
    BY <1>1, <2>2
  <2>3. CASE Indexed /\ deleteLatestVersionOfMangroveOrder
    <3>1. /\ expiryDates # <<>> /\ expiryDates' = Front(expiryDates)
          /\ restingOrder' = (restingOrder /\ Len(expiryDates) > 1)
      BY <2>3 DEF Indexed, deleteLatestVersionOfMangroveOrder
    <3> QED BY <1>1, <3>1, LatestDeleted
  <2> QED BY <2>1, <2>2, <2>3
<1>7. Types'
  BY <1>1, <1>3, <1>4, <1>5, <1>6 DEF Types
<1> QED BY <1>1, <1>3, <1>4, <1>6, <1>7 DEF IInv

(***************************************************************************)
(* One more version of a MangroveOrder.                                    *)
(***************************************************************************)
LEMMA VersionAppended ==
  ASSUME NEW resting \in BOOLEAN, NEW dates \in Seq(DateValues), NEW date \in DateValues, NEW c,
         resting \/ (dates = <<>> /\ Has(c, {"summary"}) /\ ~Has(c, {"write"}))
  PROVE  StratTypes(resting, Append(dates, date)) /\ Named(resting, Append(dates, date), c)
<1>1. /\ Append(dates, date) \in Seq(DateValues) /\ Len(dates) \in Nat
      /\ Len(Append(dates, date)) = Len(dates) + 1
  OBVIOUS
<1>2. Append(dates, date) # <<>>
  BY <1>1
<1>3. dates = <<>> => Len(Append(dates, date)) = 1
  BY <1>1
<1> QED BY <1>1, <1>2, <1>3 DEF StratTypes, Named

(***************************************************************************)
(* An event of the strats stream is handled.                               *)
(***************************************************************************)
LEMMA StratsNamed ==
  ASSUME IInv, NEW i, IsNext(i, "strats"), Strats(i)
  PROVE  /\ StratTypes(restingOrder', expiryDates')
         /\ Named(restingOrder', expiryDates', ChainAt(log, i))
         /\ UNCHANGED <<order, offerVersions>>
<1> DEFINE p == pos["strats"]
           c == ChainAt(log, p)
           d == ChainAt(log, i - 1)
           e == log[i]
<1>1. /\ log \in Seq(Entry) /\ Grounded(log) /\ i \in 1..Len(log) /\ e \in Entry
      /\ StratTypes(restingOrder, expiryDates)
  BY DEF IInv, Types, IsNext
<1>2. Named(restingOrder, expiryDates, c)
  BY SeenChain DEF IInv
<1>3. /\ p \in 0..Len(log) /\ i - 1 \in p..Len(log) /\ i \in p..Len(log)
      /\ \A j \in (p + 1)..(i - 1) : StreamOf(log[j]) # "strats"
  BY DEF IsNext
<1>4. d \in Seq(Entry) /\ c \in Seq(Entry) /\ ChainAt(log, i) \in Seq(Entry)
  BY <1>1, <1>3, ChainAtStep, ChainAtType
<1>5. d = ChainAt(log, i - 1)
  OBVIOUS
<1>6. c = ChainAt(log, p)
  OBVIOUS
<1> HIDE DEF c, d, p
<1>7. UNCHANGED <<order, offerVersions>>
  BY DEF Strats, offerTables
<1>8. CASE e.kind = "summary" /\ ~e.undo
  <2>1. OrderSummary(i)
    BY <1>8 DEF Strats
  <2>2. ~Has(d, {"summary"})
    BY <1>1, <1>5, <1>8 DEF Grounded, Follows
  <2>3. SameFor(c, d, {"summary"})
    <3>1. \A j \in (p + 1)..(i - 1) : log[j].kind \notin {"summary"}
      BY <1>3 DEF StreamOf
    <3>2. SameFor(ChainAt(log, p), ChainAt(log, i - 1), {"summary"})
      <4> DEFINE q == i - 1
      <4>1. q \in p..Len(log) /\ \A j \in (p + 1)..q : log[j].kind \notin {"summary"}
        BY <1>3, <3>1
      <4> HIDE DEF q
      <4>2. SameFor(ChainAt(log, p), ChainAt(log, q), {"summary"})
        BY <1>1, <1>3, <4>1, OtherSkipped
      <4> QED BY <4>2 DEF q
    <3> QED BY <1>5, <1>6, <3>2
  <2>4. ~Has(c, {"summary"})
    BY <1>4, <2>2, <2>3, KeptAll DEF Kept, SameFor
  <2>5. Indexed => restingOrder
    BY <1>2, <2>4 DEF Named, Indexed
  <2>6. ChainAt(log, i) = Append(d, e)
    BY <1>1, <1>5, <1>8, ChainAtStep DEF Shorter
  <2>7. Has(ChainAt(log, i), {"summary"})
    BY <1>1, <1>4, <1>8, <2>6, HasAppend
  <2>8. WroteBefore(i) <=> Has(ChainAt(log, i), {"write"})
    <3>1. Kept(ChainAt(log, i), {"write"})
      BY <1>4, KeptAll
    <3> QED BY <3>1 DEF WroteBefore, Kept, ChainAt
  <2>9. SummaryDate(e) \in DateValues
    BY <1>1, <1>8 DEF SummaryDate, DateValues, Entry
  <2>10. expiryDates' = Append(expiryDates, SummaryDate(e))
    BY <2>1 DEF OrderSummary
  <2>11. restingOrder' = IF Indexed THEN restingOrder ELSE WroteBefore(i)
    BY <2>1 DEF OrderSummary
  <2>12. WroteBefore(i) \in BOOLEAN
    BY DEF WroteBefore
  <2>13. /\ restingOrder' \in BOOLEAN
         /\ restingOrder' \/ (expiryDates = <<>> /\ ~Has(ChainAt(log, i), {"write"}))
    BY <1>1, <2>5, <2>8, <2>11, <2>12 DEF StratTypes, Indexed
  <2>14. expiryDates \in Seq(DateValues)
    BY <1>1 DEF StratTypes
  <2> HIDE DEF e
  <2> QED BY <1>7, <2>7, <2>9, <2>10, <2>13, <2>14, VersionAppended
<1>9. CASE e.kind = "summary" /\ e.undo
  <2>1. Indexed /\ deleteLatestVersionOfMangroveOrder
    BY <1>9 DEF Strats
  <2>2. /\ expiryDates # <<>> /\ expiryDates' = Front(expiryDates)
        /\ restingOrder' = (restingOrder /\ Len(expiryDates) > 1)
    BY <2>1 DEF Indexed, deleteLatestVersionOfMangroveOrder
  <2> QED BY <1>1, <1>2, <1>7, <2>2, LatestDeleted
<1>10. CASE e.kind = "expiry"
  <2>1. SetExpiry(e)
    BY <1>10 DEF Strats
  <2>2. CASE Indexed /\ restingOrder
    <3>1. /\ expiryDates' = Append(expiryDates, ExpiryDate(e)) /\ restingOrder' = restingOrder
          /\ restingOrder
      BY <2>1, <2>2 DEF SetExpiry
    <3>2. ExpiryDate(e) \in DateValues
      BY <1>1, <1>10 DEF ExpiryDate, DateValues, Entry
    <3>3. restingOrder \in BOOLEAN /\ expiryDates \in Seq(DateValues)
      BY <1>1 DEF StratTypes
    <3> HIDE DEF e
    <3> QED BY <1>7, <3>1, <3>2, <3>3, VersionAppended
  <2>3. CASE ~(Indexed /\ restingOrder)
    <3>1. expiryDates' = expiryDates /\ restingOrder' = restingOrder
      BY <2>1, <2>3 DEF SetExpiry
    <3>2. Named(restingOrder, expiryDates, ChainAt(log, i))
      <4>1. SUFFICES ASSUME expiryDates # <<>>, ~restingOrder
                     PROVE  Named(restingOrder, expiryDates, ChainAt(log, i))
        BY DEF Named
      <4>2. Len(expiryDates) = 1 /\ Has(ChainAt(log, p), {"summary"}) /\ ~Has(ChainAt(log, p), {"write"})
        BY <1>2, <1>6, <4>1 DEF Named
      <4>3. \A j \in (p + 1)..i : log[j].kind # "summary"
        <5>1. \A j \in (p + 1)..i : j = i \/ j \in (p + 1)..(i - 1)
          BY <1>3
        <5> QED BY <1>3, <1>10, <5>1 DEF StreamOf
      <4>4. Has(ChainAt(log, i), {"summary"}) /\ ~Has(ChainAt(log, i), {"write"})
        BY <1>1, <1>3, <4>2, <4>3, NeverWritten
      <4> QED BY <4>2, <4>4 DEF Named
    <3> QED BY <1>1, <1>7, <3>1, <3>2
  <2> QED BY <2>2, <2>3
<1>11. e.kind = "summary" \/ e.kind = "expiry"
  BY DEF Strats
<1>12. e.undo \in BOOLEAN
  BY <1>1 DEF Entry
<1> HIDE DEF e
<1> QED BY <1>8, <1>9, <1>10, <1>11, <1>12

LEMMA StratsIInv ==
  ASSUME IInv, NEW i, IsNext(i, "strats"), Strats(i),
         pos' = [pos EXCEPT !["strats"] = i], log' = log, now' = now
  PROVE  IInv'
<1>1. /\ Types /\ Grounded(log) /\ offerVersions \in Seq(Row)
      /\ Replayed(SeenBy("mangrove"), order, offerVersions)
  BY DEF IInv, Types
<1>2. "mangrove" \in Streams /\ "strats" \in Streams /\ "mangrove" # "strats"
  BY DEF Streams
<1>3. /\ pos' \in [Streams -> 0..Len(log)] /\ SeenBy("strats")' = ChainAt(log, i)
      /\ SeenBy("mangrove")' = SeenBy("mangrove")
  BY <1>1, <1>2, SeenNext
<1>4. /\ StratTypes(restingOrder', expiryDates')
      /\ Named(restingOrder', expiryDates', ChainAt(log, i))
      /\ order' = order /\ offerVersions' = offerVersions
  BY StratsNamed
<1>5. Types'
  BY <1>1, <1>3, <1>4 DEF Types
<1>6. Grounded(log)'
  BY <1>1
<1>7. Replayed(SeenBy("mangrove"), order, offerVersions)'
  BY <1>1, <1>3, <1>4
<1>8. Named(restingOrder, expiryDates, SeenBy("strats"))'
  BY <1>3, <1>4
<1> QED BY <1>5, <1>6, <1>7, <1>8 DEF IInv

(***************************************************************************)
(* A step of a stream handles its next entry.                              *)
(***************************************************************************)
LEMMA HandleEntry ==
  ASSUME IInv, NEW s \in Streams, Handle(s)
  PROVE  /\ log' = log /\ now' = now
         /\ \E i : /\ IsNext(i, s) /\ pos' = [pos EXCEPT ![s] = i]
                   /\ IF s = "mangrove" THEN Mangrove(log[i]) ELSE Strats(i)
<1>1. log' = log /\ now' = now
  BY DEF Handle
<1>2. PICK i \in Upcoming([j \in DOMAIN log |-> StreamOf(log[j])], pos[s], s) :
        /\ pos' = [pos EXCEPT ![s] = i]
        /\ IF s = "mangrove" THEN Mangrove(log[i]) ELSE Strats(i)
  BY Zenon DEF Handle
<1>3. IsNext(i, s)
  BY NextEntry DEF IInv
<1> QED BY <1>1, <1>2, <1>3

LEMMA HandleIInv ==
  ASSUME IInv, NEW s \in Streams, Handle(s)
  PROVE  IInv'
<1>1. PICK i : /\ IsNext(i, s) /\ pos' = [pos EXCEPT ![s] = i]
               /\ IF s = "mangrove" THEN Mangrove(log[i]) ELSE Strats(i)
  BY HandleEntry
<1>2. log' = log /\ now' = now
  BY HandleEntry
<1>3. CASE s = "mangrove"
  BY <1>1, <1>2, <1>3, MangroveIInv
<1>4. CASE s = "strats"
  BY <1>1, <1>2, <1>4, StratsIInv
<1> QED BY <1>3, <1>4 DEF Streams

(***************************************************************************)
(* Every step keeps the invariant.                                         *)
(***************************************************************************)
LEMMA StutterIInv == IInv /\ UNCHANGED vars => IInv'
<1> SUFFICES ASSUME IInv, UNCHANGED vars
             PROVE  IInv'
  OBVIOUS
<1>1. /\ log' = log /\ pos' = pos /\ now' = now /\ order' = order
      /\ offerVersions' = offerVersions
      /\ restingOrder' = restingOrder /\ expiryDates' = expiryDates
  BY DEF vars, offerTables, stratTables
<1>2. SeenBy("mangrove")' = SeenBy("mangrove") /\ SeenBy("strats")' = SeenBy("strats")
  BY <1>1 DEF SeenBy
<1> QED BY <1>1, <1>2 DEF IInv, Types

LEMMA NextIInv == IInv /\ [Next]_vars => IInv'
<1> SUFFICES ASSUME IInv, [Next]_vars
             PROVE  IInv'
  OBVIOUS
<1>1. CASE \/ MineOrder \/ MineWrite \/ MineSummary \/ MineTake \/ MineRetract \/ MineExpiry
           \/ TakeBack
  BY <1>1, ChainIInv
<1>2. CASE Tick
  BY <1>2, TickIInv
<1>3. ASSUME NEW s \in Streams, Handle(s)
      PROVE  IInv'
  BY <1>3, HandleIInv
<1>4. CASE UNCHANGED vars
  BY <1>4, StutterIInv
<1> QED BY <1>1, <1>2, <1>3, <1>4 DEF Next

(***************************************************************************)
(* It holds in every state that is reached.                                *)
(***************************************************************************)
THEOREM Invariance == Spec => []IInv
<1> QED BY InitIInv, NextIInv, PTL DEF Spec

-----------------------------------------------------------------------------
(***************************************************************************)
(* The tables hold rows of their types, and whenever the query is answered *)
(* it gives one of the statuses.                                           *)
(***************************************************************************)
THEOREM StatusTypes == Spec => []TypeOK
<1>1. Status \in Statuses
  BY DEF Status, Statuses
<1>2. IInv => TypeOK
  BY <1>1 DEF IInv, Types, TypeOK, StratTypes, DateValues, Row, Indexed
<1> QED BY <1>2, Invariance, PTL

-----------------------------------------------------------------------------
(***************************************************************************)
(* What the rows of the offer say of its events.                           *)
(***************************************************************************)
LEMMA RowsShown ==
  ASSUME NEW c \in Seq(Entry), NEW rows, rows = RowsOf(OfferEvents(c))
  PROVE  /\ rows \in Seq(Row) /\ DOMAIN rows = 1..Len(OfferEvents(c))
         /\ DOMAIN OfferEvents(c) = 1..Len(OfferEvents(c)) /\ Len(OfferEvents(c)) \in Nat
         /\ \A n \in DOMAIN rows :
              /\ rows[n] = RowOf(OfferEvents(c)[n])
              /\ rows[n].taken # NoTake <=> OfferEvents(c)[n].kind = "take"
              /\ OfferEvents(c)[n].kind = "take" =>
                   rows[n].taken.amount = OfferEvents(c)[n].amount
<1> DEFINE events == OfferEvents(c)
<1>1. /\ events \in Seq(Entry) /\ rows \in Seq(Row) /\ Len(rows) = Len(events)
      /\ \A n \in 1..Len(events) : events[n] \in Entry /\ events[n].kind \in OfferKinds
  BY OfferEventsType
<1>2. \A n \in 1..Len(events) : rows[n] = RowOf(events[n])
  BY DEF RowsOf
<1> HIDE DEF events
<1>3. DOMAIN rows = 1..Len(events) /\ DOMAIN events = 1..Len(events) /\ Len(events) \in Nat
  BY <1>1
<1>4. \A n \in DOMAIN rows :
        /\ rows[n] = RowOf(events[n])
        /\ rows[n].taken # NoTake <=> events[n].kind = "take"
        /\ events[n].kind = "take" => rows[n].taken.amount = events[n].amount
  BY <1>1, <1>2, <1>3, RowFor
<1> QED BY <1>1, <1>3, <1>4 DEF events

(***************************************************************************)
(* The fills listed are the order and every take of its offer that         *)
(* survives, and what counts as filled is what the good ones come to.      *)
(***************************************************************************)
THEOREM FillsReplayed == Spec => []FillsAreReplay
<1> DEFINE c == SeenBy("mangrove")
           events == OfferEvents(c)
           takes == {n \in DOMAIN events : events[n].kind = "take"}
           fills == {[type |-> IF Indexed THEN "Limit" ELSE "MarketOrder", version |-> 0,
                      amount |-> order.got]}
                    \cup {[type |-> "Limit", version |-> n, amount |-> events[n].amount] :
                            n \in takes}
<1>1. ASSUME IInv, order # NoOrder, restingOrder \/ takes = {}
      PROVE  MangroveOrderFill = fills /\ TakerGot = FilledOf(c)
  <2>1. c \in Seq(Entry)
    <3>1. log \in Seq(Entry) /\ pos["mangrove"] \in 0..Len(log)
      BY <1>1 DEF IInv, Types, Streams
    <3> QED BY <3>1, SeenChain, ChainAtType
  <2>2. offerVersions = RowsOf(events) /\ FilledOf(c) = order.got + Takers(offerVersions)
    BY <1>1 DEF IInv, Replayed, AtOnce
  <2>3. /\ DOMAIN offerVersions = DOMAIN events
        /\ \A n \in DOMAIN offerVersions :
             /\ offerVersions[n].taken # NoTake <=> events[n].kind = "take"
             /\ events[n].kind = "take" => offerVersions[n].taken.amount = events[n].amount
    BY <2>1, <2>2, RowsShown
  <2>4. order.got \in Nat
    BY <1>1, StatusAssumption DEF IInv, Types
  <2> HIDE DEF events, c
  <2>5. CASE restingOrder
    <3>1. RestingVersions = offerVersions
      BY <2>5 DEF RestingVersions
    <3>2. TakenOffers = takes
      BY <2>3, <3>1 DEF TakenOffers
    <3>3. \A n \in takes : Amount(n) = events[n].amount
      BY <2>3, <3>1 DEF Amount
    <3>4. Indexed
      BY <1>1, <2>5 DEF IInv, Types, StratTypes, Indexed
    <3>5. MangroveOrderFill =
            {[type |-> "Limit", version |-> 0, amount |-> order.got]}
              \cup {[type |-> "Limit", version |-> n, amount |-> Amount(n)] : n \in takes}
      BY <1>1, <3>2, <3>4 DEF MangroveOrderFill
    <3>6. TakerGot = order.got + Takers(offerVersions)
      BY <3>1 DEF TakerGot, Takers
    <3> HIDE DEF takes
    <3>7. MangroveOrderFill = fills
      BY <3>3, <3>4, <3>5
    <3> QED BY <2>2, <3>6, <3>7
  <2>6. CASE ~restingOrder
    <3>1. takes = {} /\ RestingVersions = <<>>
      BY <1>1, <2>6 DEF RestingVersions
    <3>2. TakenOffers = {}
      BY <3>1 DEF TakenOffers
    <3>3. GoodTakes(offerVersions) = {} /\ GoodTakes(RestingVersions) = {}
      BY <2>3, <3>1 DEF GoodTakes
    <3>4. TakerGot = order.got + 0 /\ FilledOf(c) = order.got + 0
      BY <2>2, <3>3, TakenForNone DEF TakerGot, Takers
    <3>5. MangroveOrderFill = fills
      <4> HIDE DEF takes
      <4>1. {[type |-> "Limit", version |-> n, amount |-> events[n].amount] : n \in takes} = {}
        BY <3>1
      <4>2. {[type |-> "Limit", version |-> n, amount |-> Amount(n)] : n \in TakenOffers} = {}
        BY <3>2
      <4> QED BY <1>1, <4>1, <4>2 DEF MangroveOrderFill
    <3> QED BY <3>4, <3>5
  <2> QED BY <2>5, <2>6
<1>2. IInv => FillsAreReplay
  BY <1>1 DEF FillsAreReplay
<1> QED BY <1>2, Invariance, PTL

-----------------------------------------------------------------------------
(***************************************************************************)
(* Of an order without an offer there is nothing to take or to retract.    *)
(***************************************************************************)
LEMMA NoOffer ==
  ASSUME NEW l \in Seq(Entry), Grounded(l), NEW k \in 0..Len(l), ~Has(ChainAt(l, k), {"write"})
  PROVE  OfferEvents(ChainAt(l, k)) = <<>>
<1> DEFINE c == ChainAt(l, k)
<1>1. c \in Seq(Entry) /\ Shape(c)
  BY ChainAtType, ChainShape
<1> HIDE DEF c
<1>2. ~Has(c, {"write"})
  BY DEF c
<1>3. ASSUME NEW a \in 1..Len(c), c[a].kind \in {"take", "retract"}
      PROVE  FALSE
  <2>1. PICK b \in 1..(a - 1) : c[b].kind = "write"
    BY <1>1, <1>3 DEF Shape
  <2>2. b \in 1..Len(c)
    BY <1>1, <2>1
  <2> QED BY <1>2, <2>1, <2>2 DEF Has
<1>4. ~Has(c, OfferKinds)
  BY <1>2, <1>3 DEF Has, OfferKinds
<1>5. Of(c, OfferKinds) = <<>>
  BY <1>1, <1>4, KeptAll DEF Kept
<1> QED BY <1>5 DEF OfferEvents, OfferKinds, c

(***************************************************************************)
(* The stream that has caught up has seen all of its events.               *)
(***************************************************************************)
LEMMA MangroveCaughtUp ==
  ASSUME IInv, CaughtUp("mangrove")
  PROVE  Replayed(Chain, order, offerVersions)
<1> DEFINE p == pos["mangrove"]
           q == Len(log)
<1>1. log \in Seq(Entry) /\ Grounded(log) /\ p \in 0..q
  BY DEF IInv, Types, Streams
<1>2. q \in p..q /\ \A j \in (p + 1)..q : StreamOf(log[j]) # "mangrove"
  BY <1>1 DEF CaughtUp
<1>3. Replayed(ChainAt(log, p), order, offerVersions)
  BY SeenChain DEF IInv
<1>4. Chain = ChainAt(log, Len(log))
  BY <1>1, ChainType
<1> HIDE DEF p
<1>5. Replayed(ChainAt(log, q), order, offerVersions)
  BY <1>1, <1>2, <1>3, ReplayedLater
<1> QED BY <1>4, <1>5

LEMMA StratsCaughtUp ==
  ASSUME IInv, CaughtUp("strats"), Indexed, ~restingOrder
  PROVE  OfferEvents(Chain) = <<>>
<1> DEFINE p == pos["strats"]
           q == Len(log)
<1>1. log \in Seq(Entry) /\ Grounded(log) /\ p \in 0..q
  BY DEF IInv, Types, Streams
<1>2. q \in p..q /\ q \in 0..q /\ \A j \in (p + 1)..q : log[j].kind # "summary"
  BY <1>1 DEF CaughtUp, StreamOf
<1>3. Has(ChainAt(log, p), {"summary"}) /\ ~Has(ChainAt(log, p), {"write"})
  BY SeenChain DEF IInv, Named, Indexed
<1>4. Chain = ChainAt(log, Len(log))
  BY <1>1, ChainType
<1> HIDE DEF p
<1>5. ~Has(ChainAt(log, q), {"write"})
  BY <1>1, <1>2, <1>3, NeverWritten
<1> QED BY <1>1, <1>2, <1>4, <1>5, NoOffer

(***************************************************************************)
(* Once both streams have handled all events, the status shown is that of  *)
(* the chain, whatever was undone on the way and in whatever order the two *)
(* streams went.                                                           *)
(***************************************************************************)
THEOREM StatusReplayed == Spec => []StatusIsThatOfChain
<1> DEFINE events == OfferEvents(Chain)
           last == Last(events)
           current == Last(RestingVersions)
<1>1. ASSUME IInv, Answered, CaughtUp("mangrove"), CaughtUp("strats"),
             Last(expiryDates) = DateSet
      PROVE  Status = StatusOfChain
  <2>1. Replayed(Chain, order, offerVersions) /\ order # NoOrder /\ Indexed
    BY <1>1, MangroveCaughtUp DEF Answered
  <2>2. /\ offerVersions = RowsOf(events)
        /\ FilledOf(Chain) = order.got + Takers(offerVersions)
    BY <2>1 DEF Replayed, AtOnce
  <2>3. Chain \in Seq(Entry)
    BY <1>1, ChainType DEF IInv, Types
  <2>4. RestingVersions = RowsOf(events) /\ (RestingVersions = <<>> <=> events = <<>>)
    <3>1. /\ Len(RowsOf(events)) = Len(events) /\ events \in Seq(Entry)
          /\ RowsOf(events) \in Seq(Row)
      BY <2>3, OfferEventsType
    <3> HIDE DEF events
    <3>2. RowsOf(events) = <<>> <=> events = <<>>
      BY <3>1
    <3>3. CASE restingOrder
      BY <2>2, <3>2, <3>3 DEF RestingVersions
    <3>4. CASE ~restingOrder
      <4>1. events = <<>>
        BY <1>1, <2>1, <3>4, StratsCaughtUp DEF events
      <4> QED BY <3>2, <3>4, <4>1 DEF RestingVersions
    <3> QED BY <3>3, <3>4
  <2>5. TakerGot = FilledOf(Chain)
    BY <2>2, <2>4 DEF TakerGot, Takers
  <2>6. IsFilled <=> FilledOf(Chain) + Fee >= Wants
    BY <2>5 DEF IsFilled
  <2>7. Expired <=> DateSet # 0 /\ DateSet < Millis(now)
    BY <1>1 DEF Expired
  <2> HIDE DEF events
  <2>8. CASE events = <<>>
    BY <2>4, <2>6, <2>8 DEF Status, StatusOfChain, events
  <2>9. CASE events # <<>>
    <3>1. /\ last \in Entry /\ last.kind \in OfferKinds /\ current = RowOf(last)
      <4>1. /\ events \in Seq(Entry) /\ Len(RowsOf(events)) = Len(events)
            /\ \A n \in 1..Len(events) : events[n] \in Entry /\ events[n].kind \in OfferKinds
        BY <2>3, OfferEventsType DEF events
      <4>2. Len(events) \in 1..Len(events)
        BY <2>9, <4>1
      <4> QED BY <2>4, <4>1, <4>2 DEF Last, RowsOf
    <3> HIDE DEF last, current
    <3>2. /\ current.taken # NoTake <=> last.kind = "take"
          /\ last.kind = "take" => (current.taken.failed <=> last.outcome = "failed")
          /\ current.retract <=> last.kind = "retract"
          /\ current.deleted <=> last.kind # "write"
      BY <3>1, RowFor
    <3>3. Failed(current) <=> last.kind = "take" /\ last.outcome = "failed"
      BY <3>2 DEF Failed
    <3>4. Status =
            IF IsFilled THEN "Filled"
            ELSE IF Failed(current) THEN "Failed"
            ELSE IF ~current.retract /\ ~current.deleted /\ ~Expired THEN "Open"
            ELSE IF current.retract \/ Expired THEN "Cancelled"
            ELSE "Partial Fill"
      BY <2>4, <2>9 DEF Status, current
    <3>5. StatusOfChain =
            IF FilledOf(Chain) + Fee >= Wants THEN "Filled"
            ELSE IF last.kind = "take" /\ last.outcome = "failed" THEN "Failed"
            ELSE IF last.kind = "retract" \/ (DateSet # 0 /\ DateSet < Millis(now))
                 THEN "Cancelled"
            ELSE IF last.kind = "write" THEN "Open" ELSE "Partial Fill"
      BY <2>9, <3>1 DEF StatusOfChain, last, events, OfferKinds
    <3>6. last.kind \in OfferKinds
      BY <3>1
    <3> QED BY <2>6, <2>7, <3>2, <3>3, <3>4, <3>5, <3>6 DEF OfferKinds
  <2> QED BY <2>8, <2>9
<1>2. IInv => StatusIsThatOfChain
  BY <1>1 DEF StatusIsThatOfChain, Streams
<1> QED BY <1>2, Invariance, PTL

-----------------------------------------------------------------------------
(***************************************************************************)
(* The status by the versions of the offer, by whether the order is filled *)
(* and by whether its date is over.                                        *)
(***************************************************************************)
StatusFor(versions, filled, expired) ==
  IF versions = <<>> THEN (IF filled THEN "Filled" ELSE "Partial Fill")
  ELSE LET current == Last(versions) IN
    IF filled THEN "Filled"
    ELSE IF Failed(current) THEN "Failed"
    ELSE IF ~current.retract /\ ~current.deleted /\ ~expired THEN "Open"
    ELSE IF current.retract \/ expired THEN "Cancelled"
    ELSE "Partial Fill"

(***************************************************************************)
(* When it says that an order is filled, and when that it is open.         *)
(***************************************************************************)
LEMMA StatusForCases ==
  ASSUME NEW versions, NEW filled, NEW expired
  PROVE  /\ StatusFor(versions, filled, expired) = "Filled" <=> filled
         /\ StatusFor(versions, filled, expired) = "Open" <=>
              /\ versions # <<>> /\ ~filled /\ ~Failed(Last(versions))
              /\ ~Last(versions).retract /\ ~Last(versions).deleted /\ ~expired
BY DEF StatusFor

(***************************************************************************)
(* That status is shown when the query is answered.                        *)
(***************************************************************************)
LEMMA ShownFor ==
  /\ Shown = "Filled" <=> Answered /\ IsFilled
  /\ Shown \in Statuses => Answered
  /\ Shown = "Open" <=>
       Answered /\ StatusFor(RestingVersions, IsFilled, Expired) = "Open"
  /\ Shown' = "Filled" <=> Answered' /\ IsFilled'
  /\ Shown' = "Open" <=>
       Answered' /\ StatusFor(RestingVersions', IsFilled', Expired') = "Open"
<1>1. Status = StatusFor(RestingVersions, IsFilled, Expired)
  BY DEF Status, StatusFor
<1>2. Status' = StatusFor(RestingVersions', IsFilled', Expired')
  BY DEF Status, StatusFor, Failed
<1>3. Shown = IF Answered THEN Status ELSE "none"
  BY DEF Shown
<1>4. Shown' = IF Answered' THEN Status' ELSE "none"
  BY DEF Shown
<1>5. StatusFor(RestingVersions, IsFilled, Expired) = "Filled" <=> IsFilled
  BY StatusForCases
<1>6. StatusFor(RestingVersions', IsFilled', Expired') = "Filled" <=> IsFilled'
  BY StatusForCases
<1> QED BY <1>1, <1>2, <1>3, <1>4, <1>5, <1>6 DEF Statuses

(***************************************************************************)
(* What a closed order must not do.                                        *)
(***************************************************************************)
StaysFilled == Shown = "Filled" => Shown' = "Filled"

StaysClosed == Shown \in Statuses \ {"Open"} => Shown' # "Open"

(***************************************************************************)
(* Time alone changes no more than whether the date is over.               *)
(***************************************************************************)
LEMMA TimePasses ==
  ASSUME IInv, UNCHANGED <<order, offerVersions, restingOrder, expiryDates>>,
         now' \in Nat, now <= now'
  PROVE  StaysFilled /\ StaysClosed
<1>1. (Answered' <=> Answered) /\ RestingVersions' = RestingVersions
  BY DEF Answered, Indexed, RestingVersions
<1>2. IsFilled' <=> IsFilled
  BY <1>1 DEF IsFilled, TakerGot
<1>3. Answered /\ Expired => Expired'
  <2> SUFFICES ASSUME Answered, Expired
               PROVE  Expired'
    OBVIOUS
  <2>1. expiryDates \in Seq(DateValues) /\ expiryDates # <<>> /\ now \in Nat
    BY DEF IInv, Types, StratTypes, Answered, Indexed
  <2>2. Last(expiryDates) \in DateValues
    BY <2>1 DEF Last
  <2>3. Last(expiryDates) \in Nat
    <3>1. \A d \in Dates : d \in Nat /\ Millis(d) \in Nat
      BY StatusAssumption DEF Millis
    <3> QED BY <2>2, <3>1 DEF DateValues
  <2>4. expiryDates' = expiryDates
    OBVIOUS
  <2>5. Last(expiryDates) # 0 /\ Last(expiryDates) < 1000 * now
    BY DEF Expired, Millis
  <2> DEFINE d == Last(expiryDates)
  <2>6. d < 1000 * now'
    <3> HIDE DEF d
    <3> QED BY <2>1, <2>3, <2>5 DEF d
  <2> QED BY <2>4, <2>5, <2>6 DEF Expired, Millis
<1>4. StatusFor(RestingVersions, IsFilled', Expired') = "Open" /\ Answered
        => StatusFor(RestingVersions, IsFilled, Expired) = "Open"
  BY <1>2, <1>3, StatusForCases
<1> QED BY <1>1, <1>2, <1>4, ShownFor DEF StaysFilled, StaysClosed

(***************************************************************************)
(* A taker or a retraction leaves no open offer, and no taker gives less.  *)
(***************************************************************************)
LEMMA MangroveShown ==
  ASSUME IInv, NEW i, IsNext(i, "mangrove"), Mangrove(log[i]), ~log[i].undo
  PROVE  StaysFilled /\ (log[i].kind # "write" => StaysClosed)
<1> DEFINE e == log[i]
<1>1. /\ e \in Entry /\ offerVersions \in Seq(Row)
      /\ order \in [got : Gots] \cup {NoOrder}
      /\ StreamOf(e) = "mangrove"
  BY DEF IInv, Types, IsNext
<1>2. CASE e.kind = "order"
  <2>1. ~Answered
    BY <1>2, MangroveReplayed DEF Answered
  <2> QED BY <2>1, ShownFor DEF StaysFilled, StaysClosed
<1>3. CASE e.kind # "order"
  <2>1. /\ order' = order /\ restingOrder' = restingOrder /\ expiryDates' = expiryDates
        /\ addVersionedOffer(e)
    BY <1>3 DEF Mangrove, stratTables
  <2>2. e.kind \in OfferKinds
    BY <1>1, <1>3 DEF Entry, Kinds, OfferKinds, StreamOf
  <2>3. offerVersions' = Append(offerVersions, RowOf(e))
    BY <2>1 DEF addVersionedOffer, RowOf
  <2>4. RowOf(e) \in Row /\ (RowOf(e).deleted <=> e.kind # "write")
    BY <1>1, <2>2, RowFor
  <2>5. Answered' <=> Answered
    BY <2>1 DEF Answered, Indexed
  <2> HIDE DEF e
  <2>6. CASE restingOrder
    <3>1. RestingVersions = offerVersions /\ RestingVersions' = Append(offerVersions, RowOf(e))
      BY <2>1, <2>3, <2>6 DEF RestingVersions
    <3>2. /\ Takers(offerVersions) \in Int /\ Gain(RowOf(e)) \in Nat
          /\ Takers(Append(offerVersions, RowOf(e)))
               = Takers(offerVersions) + Gain(RowOf(e))
      BY <1>1, <2>4, TakersAppend
    <3>3. TakerGot = order.got + Takers(offerVersions)
      BY <3>1 DEF TakerGot, Takers
    <3>4. TakerGot' = order.got + Takers(Append(offerVersions, RowOf(e)))
      BY <2>1, <3>1 DEF TakerGot, Takers
    <3>5. Answered /\ IsFilled => IsFilled'
      <4>1. SUFFICES ASSUME Answered, IsFilled
                     PROVE  IsFilled'
        OBVIOUS
      <4>2. order.got \in Nat /\ Wants \in Nat /\ Fee \in Nat
        BY <1>1, <4>1, StatusAssumption DEF Answered
      <4>3. TakerGot + Fee >= Wants
        BY <4>1 DEF IsFilled
      <4>4. TakerGot' + Fee >= Wants
        BY <3>2, <3>3, <3>4, <4>2, <4>3
      <4> QED BY <4>4 DEF IsFilled
    <3>6. e.kind # "write" => Last(RestingVersions').deleted
      <4>1. Last(Append(offerVersions, RowOf(e))) = RowOf(e)
        BY <1>1, <2>4, AppendProperties DEF Last
      <4> QED BY <2>4, <3>1, <4>1
    <3>7. e.kind # "write" => StatusFor(RestingVersions', IsFilled', Expired') # "Open"
      BY <3>6, StatusForCases
    <3>8. StaysFilled
      BY <2>5, <3>5, ShownFor DEF StaysFilled
    <3>9. e.kind # "write" => StaysClosed
      BY <3>7, ShownFor DEF StaysClosed
    <3> QED BY <3>8, <3>9 DEF e
  <2>7. CASE ~restingOrder
    <3>1. RestingVersions = <<>> /\ RestingVersions' = <<>>
      BY <2>1, <2>7 DEF RestingVersions
    <3>2. TakerGot' = TakerGot
      BY <2>1, <3>1 DEF TakerGot
    <3>3. IsFilled' <=> IsFilled
      BY <3>2 DEF IsFilled
    <3>4. StatusFor(RestingVersions', IsFilled', Expired') # "Open"
      BY <3>1, StatusForCases
    <3> QED BY <2>5, <3>3, <3>4, ShownFor DEF StaysFilled, StaysClosed
  <2> QED BY <2>6, <2>7
<1> QED BY <1>2, <1>3

(***************************************************************************)
(* One more version of the MangroveOrder changes nothing of what was got.  *)
(***************************************************************************)
LEMMA StratsShown ==
  ASSUME IInv, NEW i, IsNext(i, "strats"), Strats(i), ~log[i].undo
  PROVE  StaysFilled
<1>1. SUFFICES ASSUME Answered, IsFilled
               PROVE  Answered' /\ IsFilled'
  BY ShownFor DEF StaysFilled
<1>2. order' = order /\ offerVersions' = offerVersions
  BY DEF Strats, offerTables
<1>3. /\ restingOrder' = restingOrder
      /\ expiryDates' = expiryDates \/ \E d : expiryDates' = Append(expiryDates, d)
  BY <1>1 DEF Strats, OrderSummary, SetExpiry, Answered
<1>4. expiryDates' # <<>>
  <2>1. expiryDates \in Seq(DateValues) /\ expiryDates # <<>>
    BY <1>1 DEF IInv, Types, StratTypes, Answered, Indexed
  <2>2. \A d : Append(expiryDates, d) # <<>>
    <3> TAKE d
    <3>1. expiryDates \in Seq(DateValues \cup {d})
      BY <2>1
    <3>2. Len(Append(expiryDates, d)) = Len(expiryDates) + 1 /\ Len(expiryDates) \in Nat
      BY <3>1
    <3> QED BY <3>2
  <2> QED BY <1>3, <2>1, <2>2
<1>5. TakerGot' = TakerGot
  BY <1>2, <1>3 DEF TakerGot, RestingVersions
<1> QED BY <1>1, <1>2, <1>4, <1>5 DEF Answered, Indexed, IsFilled

(***************************************************************************)
(* An order that is shown as filled stays so and one that is shown as      *)
(* closed stays closed, through time and the late events of either stream, *)
(* unless its offer is written, its date set or an event undone.           *)
(***************************************************************************)
THEOREM ClosedForGood == Spec => ClosedStaysClosed
<1> DEFINE Closed ==
             /\ Shown = "Filled" /\ ~Handles({}) => Shown' = "Filled"
             /\ Shown \in Statuses \ {"Open"} /\ ~Handles({"write", "summary", "expiry"}) =>
                  Shown' # "Open"
<1>1. StaysFilled /\ StaysClosed => Closed
  BY DEF StaysFilled, StaysClosed
<1>2. ASSUME IInv, UNCHANGED <<order, offerVersions, restingOrder, expiryDates>>,
             now' = now \/ now' = now + 1
      PROVE  Closed
  <2>1. now \in Nat
    BY <1>2 DEF IInv, Types
  <2>2. now' \in Nat /\ now <= now'
    BY <1>2, <2>1
  <2> QED BY <1>1, <1>2, <2>2, TimePasses
<1>3. ASSUME IInv, NEW s \in Streams, Handle(s)
      PROVE  Closed
  <2>1. PICK i : /\ IsNext(i, s) /\ pos' = [pos EXCEPT ![s] = i]
                 /\ IF s = "mangrove" THEN Mangrove(log[i]) ELSE Strats(i)
    BY <1>3, HandleEntry
  <2>2. pos'[s] = i /\ pos[s] # i
    <3>1. pos \in [Streams -> 0..Len(log)] /\ i \in (pos[s] + 1)..Len(log)
      BY <1>3, <2>1 DEF IInv, Types, IsNext
    <3>2. pos[s] \in Nat
      BY <3>1
    <3> QED BY <2>1, <3>1, <3>2
  <2>3. \A kinds : ~Handles(kinds) => log[i].kind \notin kinds /\ ~log[i].undo
    BY <2>2 DEF Handles
  <2>4. CASE s = "mangrove"
    <3>1. ~log[i].undo => StaysFilled /\ (log[i].kind # "write" => StaysClosed)
      BY <1>3, <2>1, <2>4, MangroveShown
    <3> QED BY <2>3, <3>1 DEF StaysFilled, StaysClosed
  <2>5. CASE s = "strats"
    <3>1. ~log[i].undo => StaysFilled
      BY <1>3, <2>1, <2>5, StratsShown
    <3>2. log[i].kind \in {"write", "summary", "expiry"}
      BY <2>1, <2>5 DEF Strats
    <3> QED BY <2>3, <3>1, <3>2 DEF StaysFilled
  <2> QED BY <2>4, <2>5 DEF Streams
<1>4. IInv /\ [Next]_vars => Closed
  <2> SUFFICES ASSUME IInv, [Next]_vars
               PROVE  Closed
    OBVIOUS
  <2> HIDE DEF Closed
  <2>1. CASE \/ MineOrder \/ MineWrite \/ MineSummary \/ MineTake \/ MineRetract \/ MineExpiry
             \/ TakeBack
    <3>1. now' = now /\ UNCHANGED <<order, offerVersions, restingOrder, expiryDates>>
      BY <2>1 DEF MineOrder, MineWrite, MineSummary, MineTake, MineRetract, MineExpiry,
                  Mine, TakeBack, offerTables, stratTables
    <3> QED BY <1>2, <3>1
  <2>2. CASE Tick
    BY <1>2, <2>2 DEF Tick, offerTables, stratTables
  <2>3. ASSUME NEW s \in Streams, Handle(s)
        PROVE  Closed
    BY <1>3, <2>3
  <2>4. CASE UNCHANGED vars
    BY <1>2, <2>4 DEF vars, offerTables, stratTables
  <2> QED BY <2>1, <2>2, <2>3, <2>4 DEF Next
<1>5. IInv /\ [Next]_vars => [Closed]_vars
  BY <1>4
<1> QED BY <1>5, Invariance, PTL DEF Spec, ClosedStaysClosed

=============================================================================
