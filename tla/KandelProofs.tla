---------------------------- MODULE KandelProofs ----------------------------
(***************************************************************************)
(* The properties of Kandel for every set of kandels, tokens and offers,   *)
(* every sharing of reserves and every bound: no version shares or has     *)
(* lost its configuration, undo restores the tables, the configurations    *)
(* and the balances of reserves are the replay of the surviving events,    *)
(* the history shows those events and no other, no row dangles; and of     *)
(* what KandelHistoryResolver shows, the deposits and withdrawals come to  *)
(* the balance of the reserve, and the parameters are those the surviving  *)
(* events have set, each with the value it had before.                     *)
(***************************************************************************)
EXTENDS Kandel, Lemmas

-----------------------------------------------------------------------------
(***************************************************************************)
(* The two folds over the log, taken step by step.                         *)
(***************************************************************************)

(***************************************************************************)
(* Amounts are numbers, so a total stays one.                              *)
(***************************************************************************)
LEMMA BookedType ==
  ASSUME NEW sum \in Int, NEW e \in Event, NEW id, NEW kind
  PROVE  Booked(sum, e, id, kind) \in Int
<1>1. e.amount \in Amount \cup {0}
  BY DEF Event
<1>2. \A x \in Amount \cup {0} : x \in Int
  BY KandelAssumption
<1>3. e.amount \in Int
  BY <1>1, <1>2
<1> QED BY <1>3 DEF Booked

\* The totals of the first events of s, up to that of all.
IsTotals(g, s, id, kind) ==
  /\ g \in [0..Len(s) -> Int] /\ g[0] = 0 /\ g[Len(s)] = Total(s, id, kind)
  /\ \A i \in 1..Len(s) : g[i] = Booked(g[i - 1], s[i], id, kind)

(***************************************************************************)
(* A total is reached event by event.                                      *)
(***************************************************************************)
LEMMA TotalTrace ==
  ASSUME NEW s \in Seq(Event), NEW id, NEW kind
  PROVE  \E g : IsTotals(g, s, id, kind)
<1> DEFINE n == Len(s)
           F == [p \in Int \X (1..n) |-> Booked(p[1], s[p[2]], id, kind)]
           P(h) == h = [S \in SUBSET DOMAIN s |->
                         IF S = {} THEN 0
                         ELSE Booked(h[S \ {Max(S)}], s[Max(S)], id, kind)]
           f == CHOOSE h : P(h)
           g == [i \in 0..n |-> f[1..i]]
<1> HIDE DEF f
<1>1. n \in Nat /\ DOMAIN s = 1..n /\ \A i \in 1..n : s[i] \in Event
  OBVIOUS
<1>2. F \in [Int \X (1..n) -> Int]
  <2> HIDE DEF n
  <2>1. \A p \in Int \X (1..n) : Booked(p[1], s[p[2]], id, kind) \in Int
    BY <1>1, BookedType
  <2> QED BY <2>1
<1>3. PICK h : FoldsSubsets(h, n, Int, 0, F)
  <2> DEFINE V == Int
             base == 0
  <2>1. base \in V /\ F \in [V \X (1..n) -> V] /\ n \in Nat
    BY <1>1, <1>2
  <2> HIDE DEF n, F, P, V, base
  <2>2. \E h : FoldsSubsets(h, n, V, base, F)
    BY <2>1, FoldExists
  <2> QED BY <2>2 DEF V, base
<1>4. P(h)
  <2> USE DEF FoldsSubsets
  <2>1. ASSUME NEW S \in SUBSET (1..n), S # {}
        PROVE  h[S] = Booked(h[S \ {Max(S)}], s[Max(S)], id, kind)
    <3>1. Max(S) \in 1..n
      BY <1>1, <2>1, MaxOfSubset
    <3>2. h[S \ {Max(S)}] \in Int
      BY <1>3
    <3>3. Stepped(F, h[S \ {Max(S)}], Max(S)) = Booked(h[S \ {Max(S)}], s[Max(S)], id, kind)
      BY <3>1, <3>2 DEF Stepped
    <3> HIDE DEF F
    <3> QED BY <1>3, <2>1, <3>3
  <2> QED BY <1>1, <1>3, <2>1
<1>5. P(f)
  <2> HIDE DEF P
  <2> QED BY <1>4 DEF f
<1>6. Total(s, id, kind) = f[1..n]
  BY <1>1 DEF Total, FoldLeft, MapThenFoldSet, f
<1>7. ASSUME NEW i \in 1..n, f[1..(i - 1)] \in Int
      PROVE  f[1..i] = Stepped(F, f[1..(i - 1)], i)
  <2>1. 1..i \in SUBSET (1..n) /\ Max(1..i) = i /\ (1..i) \ {i} = 1..(i - 1)
        /\ 1..i # {}
    BY <1>1, MaxInterval
  <2>2. f[1..i] = Booked(f[1..(i - 1)], s[i], id, kind)
    BY <1>1, <1>5, <2>1
  <2> QED BY <2>2, <1>7 DEF Stepped
<1>8. f[{}] = 0
  BY <1>5
<1>9. IsTrace(g, n, Int, 0, F)
  <2> DEFINE V == Int
             base == 0
  <2> HIDE DEF n, F, P
  <2>1. /\ base \in V /\ F \in [V \X (1..n) -> V] /\ n \in Nat /\ f[{}] = base
        /\ \A i \in 1..n : f[1..(i - 1)] \in V => f[1..i] = Stepped(F, f[1..(i - 1)], i)
    BY <1>1, <1>2, <1>7, <1>8
  <2> HIDE DEF V, base
  <2>2. IsTrace(g, n, V, base, F)
    BY <2>1, FoldTrace
  <2> QED BY <2>2 DEF V, base
<1>10. g \in [0..n -> Int] /\ g[0] = 0
  BY <1>9 DEF IsTrace
<1>11. g[n] = Total(s, id, kind)
  BY <1>1, <1>6
<1>12. ASSUME NEW i \in 1..n
       PROVE  g[i] = Booked(g[i - 1], s[i], id, kind)
  <2>1. g[i] = Stepped(F, g[i - 1], i)
    BY <1>9 DEF IsTrace
  <2>2. g[i - 1] \in Int
    BY <1>1, <1>10
  <2> HIDE DEF g
  <2> QED BY <2>1, <2>2 DEF Stepped
<1> HIDE DEF g
<1>13. IsTotals(g, s, id, kind)
  BY <1>10, <1>11, <1>12 DEF IsTotals
<1> QED BY <1>13

(***************************************************************************)
(* Without events there is nothing to add.                                 *)
(***************************************************************************)
LEMMA TotalOfNone ==
  ASSUME NEW id, NEW kind
  PROVE  Total(<<>>, id, kind) = 0
<1>1. <<>> \in Seq(Event) /\ Len(<<>>) = 0
  OBVIOUS
<1>2. PICK f : IsTotals(f, <<>>, id, kind)
  BY <1>1, TotalTrace
<1> QED BY <1>1, <1>2 DEF IsTotals

(***************************************************************************)
(* The total of one more event.                                            *)
(***************************************************************************)
LEMMA TotalAppend ==
  ASSUME NEW s \in Seq(Event), NEW e \in Event, NEW id, NEW kind
  PROVE  /\ Total(s, id, kind) \in Int
         /\ Total(Append(s, e), id, kind) = Booked(Total(s, id, kind), e, id, kind)
<1> DEFINE t == Append(s, e)
           n == Len(s)
<1>1. /\ t \in Seq(Event) /\ n \in Nat /\ Len(t) = n + 1
      /\ t[n + 1] = e /\ \A i \in 1..n : t[i] = s[i]
  BY AppendProperties
<1> HIDE DEF t
<1>2. PICK g : IsTotals(g, s, id, kind)
  BY TotalTrace
<1>3. PICK h : IsTotals(h, t, id, kind)
  BY <1>1, TotalTrace
<1> USE <1>1 DEF IsTotals
<1>4. \A i \in 0..n : i \in {j \in 0..n : g[j] = h[j]}
  <2> DEFINE T == {j \in 0..n : g[j] = h[j]}
  <2>1. 0 \in T
    BY <1>1, <1>2, <1>3
  <2>2. ASSUME NEW i \in 1..n, i - 1 \in T
        PROVE  i \in T
    <3>1. /\ g[i] = Booked(g[i - 1], s[i], id, kind)
          /\ h[i] = Booked(h[i - 1], t[i], id, kind)
          /\ t[i] = s[i] /\ g[i - 1] = h[i - 1]
      BY <1>1, <1>2, <1>3, <2>2
    <3> QED BY <3>1
  <2> HIDE DEF T
  <2>3. n \in Nat
    BY <1>1
  <2>4. \A i \in 0..n : i \in T
    <3> HIDE DEF n
    <3> QED BY <2>1, <2>2, <2>3, CountUp
  <2> QED BY <2>4 DEF T
<1>5. g[n] = h[n] /\ n \in 0..n /\ n + 1 \in 1..(n + 1)
  BY <1>1, <1>4
<1>6. h[n + 1] = Booked(g[n], e, id, kind)
  BY <1>1, <1>3, <1>5
<1> QED BY <1>1, <1>2, <1>3, <1>5, <1>6 DEF t

(***************************************************************************)
(* A configuration of which nothing is set is one.                         *)
(***************************************************************************)
LEMMA NoConfigType == NoConfig \in ConfigVal
  BY DEF NoConfig, ConfigVal

(***************************************************************************)
(* The parameters of an event make a configuration, alone or with another. *)
(***************************************************************************)
LEMMA ConfigTypes ==
  ASSUME NEW p \in [Field -> ParamValue \cup {Undefined}], NEW c \in ConfigVal
  PROVE  InitialConfig(p) \in ConfigVal /\ Overrides(c, p) \in ConfigVal
<1>1. \A x \in ParamValue : x \in Nat
  BY KandelAssumption
<1>2. \A f \in ConfigField : f \in Field /\ p[f] \in ParamValue \cup {Undefined}
  BY DEF Field
<1>3. \A f \in ConfigField : p[f] # Undefined => p[f] \in Nat
  BY <1>1, <1>2
<1>4. \A f \in ConfigField : c[f] \in Nat
  BY DEF ConfigVal
<1> QED BY <1>3, <1>4 DEF InitialConfig, Overrides, ConfigVal

(***************************************************************************)
(* So does every event, whether it says something of the kandel or not.    *)
(***************************************************************************)
LEMMA ConfiguredType ==
  ASSUME NEW c \in ConfigVal, NEW e \in Event, NEW k
  PROVE  Configured(c, e, k) \in ConfigVal
<1>1. e.params \in [Field -> ParamValue \cup {Undefined}]
  BY DEF Event
<1> QED BY <1>1, ConfigTypes DEF Configured, Overrides

\* The configurations of k after the first events of s, up to all.
IsConfigs(g, s, k) ==
  /\ g \in [0..Len(s) -> ConfigVal] /\ g[0] = NoConfig /\ g[Len(s)] = ReplayedConfig(s, k)
  /\ \A i \in 1..Len(s) : g[i] = Configured(g[i - 1], s[i], k)

(***************************************************************************)
(* A configuration is reached event by event.                              *)
(***************************************************************************)
LEMMA ConfigTrace ==
  ASSUME NEW s \in Seq(Event), NEW k
  PROVE  \E g : IsConfigs(g, s, k)
<1> DEFINE n == Len(s)
           F == [p \in ConfigVal \X (1..n) |-> Configured(p[1], s[p[2]], k)]
           P(h) == h = [S \in SUBSET DOMAIN s |->
                         IF S = {} THEN NoConfig
                         ELSE Configured(h[S \ {Max(S)}], s[Max(S)], k)]
           f == CHOOSE h : P(h)
           g == [i \in 0..n |-> f[1..i]]
<1> HIDE DEF f
<1>1. n \in Nat /\ DOMAIN s = 1..n /\ \A i \in 1..n : s[i] \in Event
  OBVIOUS
<1>2. F \in [ConfigVal \X (1..n) -> ConfigVal]
  <2> HIDE DEF n
  <2>1. \A p \in ConfigVal \X (1..n) : Configured(p[1], s[p[2]], k) \in ConfigVal
    BY <1>1, ConfiguredType
  <2> QED BY <2>1
<1>3. PICK h : FoldsSubsets(h, n, ConfigVal, NoConfig, F)
  <2> DEFINE V == ConfigVal
             base == NoConfig
  <2>1. base \in V /\ F \in [V \X (1..n) -> V] /\ n \in Nat
    BY <1>1, <1>2, NoConfigType
  <2> HIDE DEF n, F, P, V, base
  <2>2. \E h : FoldsSubsets(h, n, V, base, F)
    BY <2>1, FoldExists
  <2> QED BY <2>2 DEF V, base
<1>4. P(h)
  <2> USE DEF FoldsSubsets
  <2>1. ASSUME NEW S \in SUBSET (1..n), S # {}
        PROVE  h[S] = Configured(h[S \ {Max(S)}], s[Max(S)], k)
    <3>1. Max(S) \in 1..n
      BY <1>1, <2>1, MaxOfSubset
    <3>2. h[S \ {Max(S)}] \in ConfigVal
      BY <1>3
    <3>3. Stepped(F, h[S \ {Max(S)}], Max(S)) = Configured(h[S \ {Max(S)}], s[Max(S)], k)
      BY <3>1, <3>2 DEF Stepped
    <3> HIDE DEF F
    <3> QED BY <1>3, <2>1, <3>3
  <2> QED BY <1>1, <1>3, <2>1
<1>5. P(f)
  <2> HIDE DEF P
  <2> QED BY <1>4 DEF f
<1>6. ReplayedConfig(s, k) = f[1..n]
  BY <1>1 DEF ReplayedConfig, FoldLeft, MapThenFoldSet, f
<1>7. ASSUME NEW i \in 1..n, f[1..(i - 1)] \in ConfigVal
      PROVE  f[1..i] = Stepped(F, f[1..(i - 1)], i)
  <2>1. 1..i \in SUBSET (1..n) /\ Max(1..i) = i /\ (1..i) \ {i} = 1..(i - 1)
        /\ 1..i # {}
    BY <1>1, MaxInterval
  <2>2. f[1..i] = Configured(f[1..(i - 1)], s[i], k)
    BY <1>1, <1>5, <2>1
  <2> QED BY <2>2, <1>7 DEF Stepped
<1>8. f[{}] = NoConfig
  BY <1>5
<1>9. IsTrace(g, n, ConfigVal, NoConfig, F)
  <2> DEFINE V == ConfigVal
             base == NoConfig
  <2> HIDE DEF n, F, P
  <2>1. /\ base \in V /\ F \in [V \X (1..n) -> V] /\ n \in Nat /\ f[{}] = base
        /\ \A i \in 1..n : f[1..(i - 1)] \in V => f[1..i] = Stepped(F, f[1..(i - 1)], i)
    BY <1>1, <1>2, <1>7, <1>8, NoConfigType
  <2> HIDE DEF V, base
  <2>2. IsTrace(g, n, V, base, F)
    BY <2>1, FoldTrace
  <2> QED BY <2>2 DEF V, base
<1>10. g \in [0..n -> ConfigVal] /\ g[0] = NoConfig
  BY <1>9 DEF IsTrace
<1>11. g[n] = ReplayedConfig(s, k)
  BY <1>1, <1>6
<1>12. ASSUME NEW i \in 1..n
       PROVE  g[i] = Configured(g[i - 1], s[i], k)
  <2>1. g[i] = Stepped(F, g[i - 1], i)
    BY <1>9 DEF IsTrace
  <2>2. g[i - 1] \in ConfigVal
    BY <1>1, <1>10
  <2> HIDE DEF g
  <2> QED BY <2>1, <2>2 DEF Stepped
<1> HIDE DEF g
<1>13. IsConfigs(g, s, k)
  BY <1>10, <1>11, <1>12 DEF IsConfigs
<1> QED BY <1>13

(***************************************************************************)
(* The configuration after one more event follows from the one before.    *)
(***************************************************************************)
LEMMA ReplayAppend ==
  ASSUME NEW s \in Seq(Event), NEW e \in Event, NEW k
  PROVE  /\ ReplayedConfig(s, k) \in ConfigVal
         /\ ReplayedConfig(<<>>, k) = NoConfig
         /\ ReplayedConfig(Append(s, e), k) = Configured(ReplayedConfig(s, k), e, k)
<1> DEFINE t == Append(s, e)
           n == Len(s)
<1>1. /\ t \in Seq(Event) /\ n \in Nat /\ Len(t) = n + 1
      /\ t[n + 1] = e /\ \A i \in 1..n : t[i] = s[i]
  BY AppendProperties
<1> HIDE DEF t
<1>2. PICK g : IsConfigs(g, s, k)
  BY ConfigTrace
<1>3. PICK h : IsConfigs(h, t, k)
  BY <1>1, ConfigTrace
<1> USE <1>1 DEF IsConfigs
<1>4. \A i \in 0..n : i \in {j \in 0..n : g[j] = h[j]}
  <2> DEFINE T == {j \in 0..n : g[j] = h[j]}
  <2>1. 0 \in T
    BY <1>1, <1>2, <1>3
  <2>2. ASSUME NEW i \in 1..n, i - 1 \in T
        PROVE  i \in T
    <3>1. /\ g[i] = Configured(g[i - 1], s[i], k)
          /\ h[i] = Configured(h[i - 1], t[i], k)
          /\ t[i] = s[i] /\ g[i - 1] = h[i - 1]
      BY <1>1, <1>2, <1>3, <2>2
    <3> QED BY <3>1
  <2> HIDE DEF T
  <2>3. n \in Nat
    BY <1>1
  <2>4. \A i \in 0..n : i \in T
    <3> HIDE DEF n
    <3> QED BY <2>1, <2>2, <2>3, CountUp
  <2> QED BY <2>4 DEF T
<1>5. g[n] = h[n] /\ n \in 0..n /\ n + 1 \in 1..(n + 1)
  BY <1>1, <1>4
<1>6. h[n + 1] = Configured(g[n], e, k)
  BY <1>1, <1>3, <1>5
<1>7. ReplayedConfig(<<>>, k) = NoConfig
  <2>1. <<>> \in Seq(Event) /\ Len(<<>>) = 0
    OBVIOUS
  <2>2. PICK f : IsConfigs(f, <<>>, k)
    <3> HIDE DEF IsConfigs
    <3> QED BY <2>1, ConfigTrace
  <2> QED BY <2>1, <2>2
<1> QED BY <1>1, <1>2, <1>3, <1>5, <1>6, <1>7 DEF t

-----------------------------------------------------------------------------
(***************************************************************************)
(* The log after an event and after an undo.                               *)
(***************************************************************************)

\* The entry of the log for an event with these values.
Entry(kind, k, tx, params, token, amount, S) ==
  [kind |-> kind, kandel |-> k, tx |-> tx, params |-> params, token |-> token,
   amount |-> amount, offers |-> S, before |-> Snapshot]

Kinds == ShownKinds \cup {"Credit", "Debit", "mapping"}

\* The log has one entry e more, and the earlier states are as they were.
LogExtended(e) ==
  LET n == Len(log) IN
  /\ n \in Nat /\ n + 1 <= MaxLog /\ e \in Event
  /\ log' = Append(log, e) /\ log' \in Seq(Event) /\ Len(log') = n + 1
  /\ log'[n + 1] = e /\ \A i \in 1..n : log'[i] = log[i]
  /\ \A i \in 0..n : After(i)' = After(i)
  /\ After(Len(log))' = Snapshot'
  /\ \A i \in 0..n : SubSeq(log', 1, i) = SubSeq(log, 1, i)
  /\ SubSeq(log', 1, n + 1) = Append(log, e) /\ SubSeq(log, 1, n) = log
  /\ undoing = NoTx /\ undoing' = NoTx
  /\ transactions' = transactions \cup {e.tx}

(***************************************************************************)
(* The tables are a snapshot.                                              *)
(***************************************************************************)
LEMMA SnapshotType == TypeOK => Snapshot \in Snapshots
  BY DEF TypeOK, Snapshot, Snapshots

(***************************************************************************)
(* What Handled does to the log.                                           *)
(***************************************************************************)
LEMMA HandledLog ==
  ASSUME TypeOK, NEW kind \in Kinds, NEW k \in Kandels, NEW tx \in TxIds,
         NEW params \in [Field -> ParamValue \cup {Undefined}],
         NEW token \in Tokens \cup {NoToken}, NEW amount \in Amount \cup {0},
         NEW S \in SUBSET Offers,
         Handled(kind, k, tx, params, token, amount, S)
  PROVE  LogExtended(Entry(kind, k, tx, params, token, amount, S))
<1> DEFINE e == Entry(kind, k, tx, params, token, amount, S)
           n == Len(log)
<1>1. e \in Event /\ e.before = Snapshot /\ e.tx = tx
  BY SnapshotType DEF Entry, Event, Kinds
<1>2. /\ log \in Seq(Event) /\ n \in Nat /\ n + 1 <= MaxLog
      /\ log' = Append(log, e) /\ undoing = NoTx /\ undoing' = NoTx
      /\ transactions' = transactions \cup {tx}
  BY KandelAssumption DEF Handled, Entry, TypeOK
<1> HIDE DEF e
<1>3. /\ log' \in Seq(Event) /\ Len(log') = n + 1 /\ log'[n + 1] = e
      /\ \A i \in 1..n : log'[i] = log[i]
  BY <1>1, <1>2, AppendProperties
<1>4. /\ \A i \in 0..n : SubSeq(log', 1, i) = SubSeq(log, 1, i)
      /\ SubSeq(log', 1, n + 1) = Append(log, e) /\ SubSeq(log, 1, n) = log
  <2>1. SubSeq(log', 1, Len(log')) = log' /\ SubSeq(log, 1, Len(log)) = log
    BY <1>2, <1>3, PrefixOfPrefix
  <2> QED BY <1>1, <1>2, <1>3, <2>1, PrefixOfAppend
<1>5. After(Len(log))' = Snapshot'
  BY DEF After
<1>6. ASSUME NEW i \in 0..n
      PROVE  After(i)' = After(i)
  <2>1. After(i)' = log'[i + 1].before
    BY <1>2, <1>3 DEF After
  <2>2. CASE i = n
    BY <1>1, <1>3, <2>1, <2>2 DEF After
  <2>3. CASE i # n
    BY <1>2, <1>3, <2>1, <2>3 DEF After
  <2> QED BY <2>2, <2>3
<1>7. LogExtended(e)
  BY <1>1, <1>2, <1>3, <1>4, <1>5, <1>6 DEF LogExtended
<1> QED BY <1>7 DEF e

\* The log has its last entry no more, and the tables are what that found.
LogShortened ==
  LET n == Len(log) IN
  /\ n \in Nat \ {0} /\ LastEvent = log[n] /\ LastEvent \in Event
  /\ log' = SubSeq(log, 1, n - 1) /\ log' \in Seq(Event) /\ Len(log') = n - 1
  /\ \A i \in 1..(n - 1) : log'[i] = log[i]
  /\ \A i \in 0..(n - 1) : After(i)' = After(i)
  /\ \A i \in 0..(n - 1) : SubSeq(log', 1, i) = SubSeq(log, 1, i)
  /\ undoing' = IF n > 1 /\ log[n - 1].tx = log[n].tx THEN log[n].tx ELSE NoTx
  /\ transactions' = transactions \cup {LastEvent.tx}
  /\ Snapshot' = LastEvent.before /\ Snapshot' \in Snapshots

(***************************************************************************)
(* What an undo does to the log, when it restores the tables.              *)
(***************************************************************************)
LEMMA UndoneLog ==
  ASSUME TypeOK, log # <<>>, Undone, Snapshot' = LastEvent.before
  PROVE  LogShortened
<1> DEFINE n == Len(log)
<1>1. /\ log \in Seq(Event) /\ n \in Nat \ {0} /\ n - 1 \in 0..n
      /\ LastEvent = log[n] /\ LastEvent \in Event
  BY DEF TypeOK, LastEvent
<1>2. LastEvent.before \in Snapshots
  BY <1>1 DEF Event
<1>3. log' = SubSeq(log, 1, n - 1)
  BY DEF Undone, Front
<1>4. /\ log' \in Seq(Event) /\ Len(log') = n - 1
      /\ \A i \in 1..(n - 1) : log'[i] = log[i]
  BY <1>1, <1>3, PrefixProperties
<1>5. \A i \in 0..(n - 1) : SubSeq(log', 1, i) = SubSeq(log, 1, i)
  BY <1>1, <1>3, PrefixOfPrefix
<1>6. ASSUME NEW i \in 0..(n - 1)
      PROVE  After(i)' = After(i)
  <2>1. CASE i = n - 1
    BY <1>1, <1>4, <2>1 DEF After
  <2>2. CASE i # n - 1
    BY <1>1, <1>4, <2>2 DEF After
  <2> QED BY <2>1, <2>2
<1>7. /\ undoing' = IF n > 1 /\ log[n - 1].tx = log[n].tx THEN log[n].tx ELSE NoTx
      /\ transactions' = transactions \cup {LastEvent.tx}
  BY <1>1 DEF Undone
<1> QED BY <1>1, <1>2, <1>3, <1>4, <1>5, <1>6, <1>7 DEF LogShortened

-----------------------------------------------------------------------------
(***************************************************************************)
(* What of the invariant speaks of the log: it depends on the entries that *)
(* stay only, so an event has to show it of its own entry.                 *)
(***************************************************************************)

(***************************************************************************)
(* There are finitely many events that made versions of a kandel.          *)
(***************************************************************************)
LEMMA VersionEventsFinite ==
  ASSUME NEW k, NEW i \in Nat
  PROVE  /\ IsFiniteSet(VersionEvents(k, i)) /\ Cardinality(VersionEvents(k, i)) \in Nat
         /\ VersionEvents(k, i) \subseteq 1..i
<1>1. VersionEvents(k, i) \in SUBSET (1..i)
  BY DEF VersionEvents
<1>2. IsFiniteSet(1..i)
  BY FS_Interval
<1> QED BY <1>1, <1>2, FS_Subset, FS_CardinalityType

(***************************************************************************)
(* The rows that entries of the log have depend on those up to them.       *)
(***************************************************************************)
LEMMA RowsKept ==
  ASSUME NEW n \in Nat, \A i \in 1..n : log'[i] = log[i]
  PROVE  /\ \A k : \A i \in 0..n : VersionEvents(k, i)' = VersionEvents(k, i)
         /\ \A i \in 1..n : RowOf(i)' = RowOf(i)
<1>1. ASSUME NEW k, NEW i \in 0..n
      PROVE  VersionEvents(k, i)' = VersionEvents(k, i)
  BY DEF VersionEvents
<1>2. ASSUME NEW i \in 1..n
      PROVE  RowOf(i)' = RowOf(i)
  <2>1. \A k : VersionEvents(k, i - 1)' = VersionEvents(k, i - 1)
    <3>1. i - 1 \in 0..n
      OBVIOUS
    <3> QED BY <3>1, <1>1
  <2> QED BY <2>1 DEF RowOf
<1> QED BY <1>1, <1>2

(***************************************************************************)
(* A new entry of the log is a version event of its kandel, or none.       *)
(***************************************************************************)
LEMMA ExtendedVersionEvents ==
  ASSUME NEW e, LogExtended(e), NEW k
  PROVE  /\ VersionEvents(k, Len(log))' =
              IF e.kandel = k /\ e.kind \in VersionKinds
              THEN VersionEvents(k, Len(log)) \cup {Len(log) + 1}
              ELSE VersionEvents(k, Len(log))
         /\ Cardinality(VersionEvents(k, Len(log)))' =
              IF e.kandel = k /\ e.kind \in VersionKinds
              THEN Cardinality(VersionEvents(k, Len(log))) + 1
              ELSE Cardinality(VersionEvents(k, Len(log)))
<1> DEFINE n == Len(log)
<1>1. /\ n \in Nat /\ Len(log') = n + 1 /\ log'[n + 1] = e
      /\ \A i \in 1..n : log'[i] = log[i]
  BY DEF LogExtended
<1>2. VersionEvents(k, Len(log))' =
        {j \in 1..(n + 1) : log'[j].kandel = k /\ log'[j].kind \in VersionKinds}
  BY <1>1 DEF VersionEvents
<1>3. VersionEvents(k, Len(log))' =
        IF e.kandel = k /\ e.kind \in VersionKinds
        THEN VersionEvents(k, n) \cup {n + 1} ELSE VersionEvents(k, n)
  <2>1. VersionEvents(k, n) = {j \in 1..n : log[j].kandel = k /\ log[j].kind \in VersionKinds}
    BY DEF VersionEvents
  <2> HIDE DEF n
  <2>2. \A j : j \in 1..(n + 1) <=> j \in 1..n \/ j = n + 1
    BY <1>1
  <2> QED BY <1>1, <1>2, <2>1, <2>2
<1>4. IsFiniteSet(VersionEvents(k, n)) /\ n + 1 \notin VersionEvents(k, n)
  BY <1>1, VersionEventsFinite
<1> HIDE DEF n
<1>5. Cardinality(VersionEvents(k, n) \cup {n + 1}) = Cardinality(VersionEvents(k, n)) + 1
  BY <1>4, FS_AddElement
<1> QED BY <1>3, <1>5 DEF n

(***************************************************************************)
(* Without its last entry the log has a version event less, or as many.    *)
(***************************************************************************)
LEMMA ShortenedVersionEvents ==
  ASSUME LogShortened, NEW k
  PROVE  Cardinality(VersionEvents(k, Len(log))) =
           IF LastEvent.kandel = k /\ LastEvent.kind \in VersionKinds
           THEN Cardinality(VersionEvents(k, Len(log)))' + 1
           ELSE Cardinality(VersionEvents(k, Len(log)))'
<1> DEFINE n == Len(log)
           new == VersionEvents(k, Len(log))'
<1>1. /\ n \in Nat \ {0} /\ Len(log') = n - 1 /\ log[n] = LastEvent
      /\ \A i \in 1..(n - 1) : log'[i] = log[i]
  BY DEF LogShortened
<1>2. new = {j \in 1..(n - 1) : log'[j].kandel = k /\ log'[j].kind \in VersionKinds}
  BY <1>1 DEF VersionEvents
<1>3. VersionEvents(k, n) =
        IF LastEvent.kandel = k /\ LastEvent.kind \in VersionKinds
        THEN new \cup {n} ELSE new
  <2>1. VersionEvents(k, n) = {j \in 1..n : log[j].kandel = k /\ log[j].kind \in VersionKinds}
    BY DEF VersionEvents
  <2> HIDE DEF n, new
  <2>2. \A j : j \in 1..n <=> j \in 1..(n - 1) \/ j = n
    BY <1>1
  <2> QED BY <1>1, <1>2, <2>1, <2>2
<1>4. IsFiniteSet(new) /\ n \notin new
  <2>1. new \in SUBSET (1..(n - 1))
    BY <1>2
  <2>2. IsFiniteSet(1..(n - 1))
    <3> DEFINE m == n - 1
    <3>1. m \in Int /\ 1 \in Int
      BY <1>1
    <3> HIDE DEF m
    <3>2. IsFiniteSet(1..m)
      BY <3>1, FS_Interval
    <3> QED BY <3>2 DEF m
  <2>3. n \notin 1..(n - 1)
    BY <1>1
  <2> QED BY <2>1, <2>2, <2>3, FS_Subset
<1> HIDE DEF n, new
<1>5. Cardinality(new \cup {n}) = Cardinality(new) + 1
  BY <1>4, FS_AddElement
<1> QED BY <1>3, <1>5 DEF n, new

(***************************************************************************)
(* The order of transactions.                                              *)
(***************************************************************************)
LEMMA ExtendedOrder ==
  ASSUME TypeOK, TransactionsInOrder, NEW e, LogExtended(e), e.tx \in NextTx
  PROVE  TransactionsInOrder'
<1> DEFINE n == Len(log)
<1>1. /\ n \in Nat /\ Len(log') = n + 1 /\ log'[n + 1] = e
      /\ \A i \in 1..n : log'[i] = log[i]
      /\ undoing' = NoTx
  BY DEF LogExtended
<1>2. /\ \A i, j \in 1..n : i <= j => log[i].tx <= log[j].tx
      /\ \A i \in 1..n : log[i].tx \in Nat
  <2>1. \A i \in 1..n : log[i] \in Event
    BY <1>1 DEF TypeOK
  <2> QED BY <2>1 DEF TransactionsInOrder, Event, TxIds
<1>3. n > 0 => e.tx \in Nat /\ e.tx >= log[n].tx
  <2> SUFFICES ASSUME n > 0
               PROVE  e.tx \in Nat /\ e.tx >= log[n].tx
    OBVIOUS
  <2>1. log # <<>> /\ log[n].tx \in Nat /\ e.tx \in {log[n].tx, log[n].tx + 1}
    BY <1>1, <1>2 DEF NextTx, LastEvent
  <2> QED BY <2>1
<1>4. e.tx \in Nat
  BY DEF LogExtended, Event, TxIds
<1> HIDE DEF n
<1>5. ASSUME NEW i \in 1..(n + 1), NEW j \in 1..(n + 1), i <= j
      PROVE  log'[i].tx <= log'[j].tx
  <2>1. CASE j = n + 1 /\ i = n + 1
    BY <1>1, <1>4, <2>1
  <2>2. CASE j = n + 1 /\ i # n + 1
    <3>1. i \in 1..n /\ n \in 1..n /\ n > 0
      BY <1>1, <2>2
    <3>2. log[i].tx <= log[n].tx /\ log[i].tx \in Nat /\ log[n].tx \in Nat
      BY <1>1, <1>2, <3>1
    <3> QED BY <1>1, <1>3, <2>2, <3>1, <3>2
  <2>3. CASE j # n + 1
    <3>1. i \in 1..n /\ j \in 1..n
      BY <1>1, <1>5, <2>3
    <3> QED BY <1>1, <1>2, <1>5, <3>1
  <2> QED BY <2>1, <2>2, <2>3
<1> QED BY <1>1, <1>5 DEF TransactionsInOrder

(***************************************************************************)
(* And that of a shorter log; an earlier transaction is complete.          *)
(***************************************************************************)
LEMMA ShortenedOrder ==
  ASSUME TypeOK, TransactionsInOrder, LogShortened
  PROVE  /\ TransactionsInOrder'
         /\ undoing \in {NoTx, LastEvent.tx} /\ undoing' \in {NoTx, LastEvent.tx}
         /\ undoing' = NoTx =>
              \A i \in 1..(Len(log) - 1) : log[i].tx # LastEvent.tx
<1> DEFINE n == Len(log)
<1>1. /\ n \in Nat \ {0} /\ Len(log') = n - 1 /\ log[n] = LastEvent
      /\ \A i \in 1..(n - 1) : log'[i] = log[i]
      /\ undoing' = IF n > 1 /\ log[n - 1].tx = log[n].tx THEN log[n].tx ELSE NoTx
  BY DEF LogShortened
<1>2. \A i, j \in 1..n : i <= j => log[i].tx <= log[j].tx
  BY DEF TransactionsInOrder
<1>3. \A i \in 1..n : log[i].tx \in Nat \ {0}
  <2>1. \A i \in 1..n : log[i] \in Event
    BY <1>1 DEF TypeOK
  <2> QED BY <2>1 DEF Event, TxIds
<1>4. undoing \in {NoTx, LastEvent.tx} /\ undoing' \in {NoTx, LastEvent.tx}
  BY <1>1 DEF TransactionsInOrder
<1>5. TransactionsInOrder'
  <2>1. \A i, j \in 1..(n - 1) : i <= j => log'[i].tx <= log'[j].tx
    BY <1>1, <1>2
  <2>2. ASSUME undoing' # NoTx
        PROVE  log' # <<>> /\ LastEvent' = log'[n - 1] /\ log'[n - 1].tx = undoing'
    BY <1>1, <2>2 DEF LastEvent
  <2> QED BY <1>1, <2>1, <2>2 DEF TransactionsInOrder
<1>6. ASSUME undoing' = NoTx, NEW i \in 1..(n - 1)
      PROVE  log[i].tx # LastEvent.tx
  <2>1. n > 1 /\ n - 1 \in 1..n /\ i \in 1..n /\ n \in 1..n
    BY <1>1
  <2>2. log[n - 1].tx # log[n].tx
    <3>1. log[n].tx # NoTx
      BY <1>3, <2>1 DEF NoTx
    <3> QED BY <1>1, <1>6, <2>1, <3>1
  <2>3. log[i].tx <= log[n - 1].tx /\ log[n - 1].tx <= log[n].tx
    BY <1>1, <1>2, <2>1
  <2>4. log[i].tx \in Nat /\ log[n - 1].tx \in Nat /\ log[n].tx \in Nat
    BY <1>3, <2>1
  <2> QED BY <1>1, <2>2, <2>3, <2>4
<1> QED BY <1>4, <1>5, <1>6

(***************************************************************************)
(* Every entry can be undone if the new one can.                           *)
(***************************************************************************)
LEMMA ExtendedUndoable ==
  ASSUME LogUndoable, NEW e, LogExtended(e), Undoable(e, Snapshot')
  PROVE  LogUndoable'
<1> DEFINE n == Len(log)
<1>1. /\ n \in Nat /\ Len(log') = n + 1 /\ log'[n + 1] = e
      /\ \A i \in 1..n : log'[i] = log[i]
      /\ \A i \in 0..n : After(i)' = After(i)
  BY DEF LogExtended
<1> SUFFICES ASSUME NEW i \in 1..(n + 1)
             PROVE  Undoable(log[i], After(i))'
  BY <1>1 DEF LogUndoable
<1>2. Undoable(log[i], After(i))' = Undoable(log'[i], After(i)')
  OBVIOUS
<1>3. CASE i = n + 1
  <2>1. After(i)' = Snapshot' /\ log'[i] = e
    BY <1>1, <1>3 DEF After
  <2> QED BY <1>2, <2>1
<1>4. CASE i # n + 1
  <2>1. i \in 1..n /\ i \in 0..n
    BY <1>1, <1>4
  <2> QED BY <1>1, <1>2, <2>1 DEF LogUndoable
<1> QED BY <1>3, <1>4

(***************************************************************************)
(* And every entry of the shorter log.                                     *)
(***************************************************************************)
LEMMA ShortenedUndoable ==
  ASSUME LogUndoable, LogShortened
  PROVE  LogUndoable'
<1> DEFINE n == Len(log)
<1>1. /\ n \in Nat \ {0} /\ Len(log') = n - 1
      /\ \A i \in 1..(n - 1) : log'[i] = log[i]
      /\ \A i \in 0..(n - 1) : After(i)' = After(i)
  BY DEF LogShortened
<1> SUFFICES ASSUME NEW i \in 1..(n - 1)
             PROVE  Undoable(log[i], After(i))'
  BY <1>1 DEF LogUndoable
<1>2. Undoable(log[i], After(i))' = Undoable(log'[i], After(i)')
  OBVIOUS
<1>3. i \in 1..n /\ i \in 0..(n - 1)
  BY <1>1
<1> QED BY <1>1, <1>2, <1>3 DEF LogUndoable

(***************************************************************************)
(* The configurations are a replay if the new entry explains the change.   *)
(***************************************************************************)
LEMMA ExtendedConfigs ==
  ASSUME TypeOK, ConfigsReplayed, NEW e, LogExtended(e),
         \A k \in Kandels : Exists(kandels', k) =>
           configs'[Current(kandels', k).val.config] =
             Configured(ReplayedConfig(log, k), e, k)
  PROVE  ConfigsReplayed'
<1> DEFINE n == Len(log)
<1>1. /\ n \in Nat /\ Len(log') = n + 1 /\ e \in Event /\ log \in Seq(Event)
      /\ \A i \in 0..n : After(i)' = After(i)
      /\ \A i \in 0..n : SubSeq(log', 1, i) = SubSeq(log, 1, i)
      /\ SubSeq(log', 1, n + 1) = Append(log, e)
  BY DEF LogExtended, TypeOK
<1> SUFFICES ASSUME NEW i \in 0..(n + 1), NEW k \in Kandels,
                    Exists(After(i)'.kandels, k)
             PROVE  After(i)'.configs[Current(After(i)'.kandels, k).val.config]
                      = ReplayedConfig(SubSeq(log', 1, i), k)
  BY <1>1 DEF ConfigsReplayed
<1>2. CASE i = n + 1
  <2>1. After(i)' = Snapshot'
    BY <1>1, <1>2 DEF After
  <2>2. After(i)'.kandels = kandels' /\ After(i)'.configs = configs'
    BY <2>1 DEF Snapshot
  <2>3. ReplayedConfig(Append(log, e), k) = Configured(ReplayedConfig(log, k), e, k)
    BY <1>1, ReplayAppend
  <2> QED BY <1>1, <1>2, <2>2, <2>3
<1>3. CASE i # n + 1
  <2>1. i \in 0..n
    BY <1>1, <1>3
  <2> QED BY <1>1, <2>1 DEF ConfigsReplayed
<1> QED BY <1>2, <1>3

(***************************************************************************)
(* And so are the configurations of the shorter log.                       *)
(***************************************************************************)
LEMMA ShortenedConfigs ==
  ASSUME ConfigsReplayed, LogShortened
  PROVE  ConfigsReplayed'
<1> DEFINE n == Len(log)
<1>1. /\ n \in Nat \ {0} /\ Len(log') = n - 1
      /\ \A i \in 0..(n - 1) : After(i)' = After(i)
      /\ \A i \in 0..(n - 1) : SubSeq(log', 1, i) = SubSeq(log, 1, i)
  BY DEF LogShortened
<1> SUFFICES ASSUME NEW i \in 0..(n - 1), NEW k \in Kandels,
                    Exists(After(i)'.kandels, k)
             PROVE  After(i)'.configs[Current(After(i)'.kandels, k).val.config]
                      = ReplayedConfig(SubSeq(log', 1, i), k)
  BY <1>1 DEF ConfigsReplayed
<1>2. i \in 0..n
  BY <1>1
<1> QED BY <1>1, <1>2 DEF ConfigsReplayed

\* What a balance is when the credits and debits come to these totals.
Balance(credit, debit) ==
  [deposit |-> credit, withdrawal |-> debit, balance |-> credit - debit]

(***************************************************************************)
(* The balances are a replay if the new entry explains the change.         *)
(***************************************************************************)
LEMMA ExtendedBalances ==
  ASSUME TypeOK, BalancesReplayed, NEW e, LogExtended(e),
         \A id \in BalanceId :
           BalanceOf(Snapshot', id) =
             Balance(Booked(Total(log, id, "Credit"), e, id, "Credit"),
                     Booked(Total(log, id, "Debit"), e, id, "Debit"))
  PROVE  BalancesReplayed'
<1> DEFINE n == Len(log)
<1>1. /\ n \in Nat /\ Len(log') = n + 1 /\ e \in Event /\ log \in Seq(Event)
      /\ \A i \in 0..n : After(i)' = After(i)
      /\ \A i \in 0..n : SubSeq(log', 1, i) = SubSeq(log, 1, i)
      /\ SubSeq(log', 1, n + 1) = Append(log, e)
  BY DEF LogExtended, TypeOK
<1> SUFFICES ASSUME NEW i \in 0..(n + 1), NEW id \in BalanceId
             PROVE  BalanceOf(After(i)', id) =
                      Balance(Total(SubSeq(log', 1, i), id, "Credit"),
                              Total(SubSeq(log', 1, i), id, "Debit"))
  BY <1>1 DEF BalancesReplayed, Balance
<1>2. CASE i = n + 1
  <2>1. After(i)' = Snapshot'
    BY <1>1, <1>2 DEF After
  <2>2. \A kind : Total(Append(log, e), id, kind) = Booked(Total(log, id, kind), e, id, kind)
    BY <1>1, TotalAppend
  <2> QED BY <1>1, <1>2, <2>1, <2>2
<1>3. CASE i # n + 1
  <2>1. i \in 0..n
    BY <1>1, <1>3
  <2>2. BalanceOf(After(i), id) =
          Balance(Total(SubSeq(log, 1, i), id, "Credit"), Total(SubSeq(log, 1, i), id, "Debit"))
    BY <2>1 DEF BalancesReplayed, Balance
  <2> QED BY <1>1, <2>1, <2>2
<1> QED BY <1>2, <1>3

(***************************************************************************)
(* And so are the balances of the shorter log.                             *)
(***************************************************************************)
LEMMA ShortenedBalances ==
  ASSUME BalancesReplayed, LogShortened
  PROVE  BalancesReplayed'
<1> DEFINE n == Len(log)
<1>1. /\ n \in Nat \ {0} /\ Len(log') = n - 1
      /\ \A i \in 0..(n - 1) : After(i)' = After(i)
      /\ \A i \in 0..(n - 1) : SubSeq(log', 1, i) = SubSeq(log, 1, i)
  BY DEF LogShortened
<1> SUFFICES ASSUME NEW i \in 0..(n - 1), NEW id \in BalanceId
             PROVE  BalanceOf(After(i)', id) =
                      Balance(Total(SubSeq(log', 1, i), id, "Credit"),
                              Total(SubSeq(log', 1, i), id, "Debit"))
  BY <1>1 DEF BalancesReplayed, Balance
<1>2. i \in 0..n
  BY <1>1
<1>3. BalanceOf(After(i), id) =
        Balance(Total(SubSeq(log, 1, i), id, "Credit"), Total(SubSeq(log, 1, i), id, "Debit"))
  BY <1>2 DEF BalancesReplayed, Balance
<1> QED BY <1>1, <1>3

(***************************************************************************)
(* The number of versions is that of version events, when the new entry    *)
(* adds a version exactly if it is one.                                    *)
(***************************************************************************)
LEMMA ExtendedCount ==
  ASSUME VersionsCounted, NEW e, LogExtended(e),
         \A k \in Kandels :
           kandels'.current[k] =
             IF e.kandel = k /\ e.kind \in VersionKinds
             THEN kandels.current[k] + 1 ELSE kandels.current[k]
  PROVE  VersionsCounted'
<1> SUFFICES ASSUME NEW k \in Kandels
             PROVE  kandels'.current[k] + 1 = Cardinality(VersionEvents(k, Len(log)))'
  BY DEF VersionsCounted
<1>1. kandels.current[k] + 1 = Cardinality(VersionEvents(k, Len(log)))
  BY DEF VersionsCounted
<1> QED BY <1>1, ExtendedVersionEvents

(***************************************************************************)
(* When the last entry goes with its version, the numbers still agree.     *)
(***************************************************************************)
LEMMA ShortenedCount ==
  ASSUME TypeOK, VersionsCounted, LogShortened,
         \A k \in Kandels :
           kandels'.current[k] =
             IF LastEvent.kandel = k /\ LastEvent.kind \in VersionKinds
             THEN kandels.current[k] - 1 ELSE kandels.current[k]
  PROVE  VersionsCounted'
<1> SUFFICES ASSUME NEW k \in Kandels
             PROVE  kandels'.current[k] + 1 = Cardinality(VersionEvents(k, Len(log)))'
  BY DEF VersionsCounted
<1>1. kandels.current[k] + 1 = Cardinality(VersionEvents(k, Len(log)))
  BY DEF VersionsCounted
<1>2. kandels.current[k] \in Int
  BY DEF TypeOK, Tables, Number, Null
<1>3. Cardinality(VersionEvents(k, Len(log)))' \in Nat
  <2>1. Len(log') \in Nat
    BY DEF LogShortened
  <2>2. VersionEvents(k, Len(log))' \in SUBSET (1..Len(log'))
    BY DEF VersionEvents
  <2>3. IsFiniteSet(1..Len(log'))
    BY <2>1, FS_Interval
  <2> QED BY <2>2, <2>3, FS_Subset, FS_CardinalityType
<1> QED BY <1>1, <1>2, <1>3, ShortenedVersionEvents

(***************************************************************************)
(* The row of the new entry.                                               *)
(***************************************************************************)
LEMMA NewRow ==
  ASSUME NEW e, LogExtended(e), NEW i, i = Len(log) + 1
  PROVE  RowOf(i)' =
           [id |-> i, kandel |-> e.kandel, tx |-> e.tx, offers |-> e.offers,
            version |-> IF e.kind \in VersionKinds
                        THEN Cardinality(VersionEvents(e.kandel, Len(log))) ELSE Null,
            kind |-> IF e.kind = "params" THEN ParamsKind(e.params) ELSE e.kind,
            value |-> IF e.kind = "params" THEN e.params[ParamsKind(e.params)] ELSE 0]
<1>1. /\ Len(log) \in Nat /\ log'[i] = e /\ \A j \in 1..Len(log) : log'[j] = log[j]
  BY DEF LogExtended
<1>2. VersionEvents(e.kandel, i - 1)' = VersionEvents(e.kandel, Len(log))
  <2> DEFINE n == Len(log)
  <2>1. n \in Nat /\ n \in 0..n /\ i - 1 = n
    BY <1>1
  <2>2. \A k : \A j \in 0..n : VersionEvents(k, j)' = VersionEvents(k, j)
    BY <1>1, <2>1, RowsKept
  <2>3. VersionEvents(e.kandel, i - 1)' = VersionEvents(e.kandel, i - 1)
    BY <2>1, <2>2
  <2> QED BY <2>1, <2>3
<1> QED BY <1>1, <1>2 DEF RowOf

(***************************************************************************)
(* The rows are those of the survivors if the new entry adds its own.      *)
(***************************************************************************)
LEMMA ExtendedRows ==
  ASSUME RowsOfSurvivors, NEW e, LogExtended(e), NEW r,
         \A i : i = Len(log) + 1 => r = RowOf(i)',
         e.tx # NoTx,
         kandelEvents' = IF e.kind \in ShownKinds THEN kandelEvents \cup {r}
                         ELSE kandelEvents
  PROVE  RowsOfSurvivors'
<1> DEFINE n == Len(log)
<1>1. /\ n \in Nat /\ Len(log') = n + 1 /\ log'[n + 1] = e
      /\ \A i \in 1..n : log'[i] = log[i]
      /\ undoing = NoTx /\ undoing' = NoTx
  BY DEF LogExtended
<1>2. \A i \in 1..n : RowOf(i)' = RowOf(i)
  BY <1>1, RowsKept
<1>3. ASSUME NEW i \in 1..(n + 1), log'[i].kind \in ShownKinds, log'[i].tx # undoing'
      PROVE  RowOf(i)' \in kandelEvents'
  <2>1. CASE i = n + 1
    BY <1>1, <1>3, <2>1
  <2>2. CASE i # n + 1
    <3>1. i \in 1..n
      BY <1>1, <2>2
    <3>2. RowOf(i) \in kandelEvents
      BY <1>1, <1>3, <3>1 DEF RowsOfSurvivors
    <3> QED BY <1>2, <3>1, <3>2
  <2> QED BY <2>1, <2>2
<1>4. ASSUME NEW x \in kandelEvents'
      PROVE  \E i \in 1..(n + 1) : log'[i].kind \in ShownKinds /\ x = RowOf(i)'
  <2>1. CASE x \in kandelEvents
    <3>1. PICK i \in 1..n : log[i].kind \in ShownKinds /\ x = RowOf(i)
      BY <2>1 DEF RowsOfSurvivors
    <3>2. i \in 1..(n + 1)
      BY <1>1
    <3> QED BY <1>1, <1>2, <3>1, <3>2
  <2>2. CASE x \notin kandelEvents
    <3>1. e.kind \in ShownKinds /\ x = r
      BY <1>4, <2>2
    <3>2. n + 1 \in 1..(n + 1)
      BY <1>1
    <3> QED BY <1>1, <3>1, <3>2
  <2> QED BY <2>1, <2>2
<1> QED BY <1>1, <1>3, <1>4 DEF RowsOfSurvivors

(***************************************************************************)
(* So they are if the new entry has no row.                                *)
(***************************************************************************)
LEMMA ExtendedRowless ==
  ASSUME RowsOfSurvivors, NEW e, LogExtended(e), e.kind \notin ShownKinds,
         e.tx # NoTx, kandelEvents' = kandelEvents
  PROVE  RowsOfSurvivors'
<1>1. PICK i : i = Len(log) + 1
  OBVIOUS
<1>2. PICK r : r = RowOf(i)'
  OBVIOUS
<1>3. \A j : j = Len(log) + 1 => r = RowOf(j)'
  BY <1>1, <1>2
<1> QED BY <1>3, ExtendedRows

(***************************************************************************)
(* The rows that go when the last entry is undone are its own and rows of  *)
(* its transaction.                                                        *)
(***************************************************************************)
LEMMA ShortenedRows ==
  ASSUME TypeOK, RowsOfSurvivors, TransactionsInOrder, LogShortened,
         kandelEvents' \subseteq kandelEvents,
         LastEvent.kind \in ShownKinds => RowOf(Len(log)) \notin kandelEvents',
         \A i \in 1..(Len(log) - 1) :
           /\ log[i].tx # LastEvent.tx
           /\ RowOf(i) \in kandelEvents
           => RowOf(i) \in kandelEvents'
  PROVE  RowsOfSurvivors'
<1> DEFINE n == Len(log)
<1>1. /\ n \in Nat \ {0} /\ Len(log') = n - 1 /\ log[n] = LastEvent
      /\ \A i \in 1..(n - 1) : log'[i] = log[i]
  BY DEF LogShortened
<1>2. \A i \in 1..(n - 1) : RowOf(i)' = RowOf(i)
  <2> DEFINE m == n - 1
  <2>1. m \in Nat /\ \A i \in 1..m : log'[i] = log[i]
    BY <1>1
  <2> HIDE DEF m
  <2>2. \A i \in 1..m : RowOf(i)' = RowOf(i)
    BY <2>1, RowsKept
  <2> QED BY <2>2 DEF m
<1>3. ASSUME NEW i \in 1..(n - 1), log'[i].kind \in ShownKinds, log'[i].tx # undoing'
      PROVE  RowOf(i)' \in kandelEvents'
  <2>1. log[i].tx # LastEvent.tx /\ log[i].tx # undoing
    <3>1. /\ undoing \in {NoTx, LastEvent.tx} /\ undoing' \in {NoTx, LastEvent.tx}
          /\ undoing' = NoTx => log[i].tx # LastEvent.tx
      BY ShortenedOrder
    <3>2. log[i].tx # NoTx
      <4>1. log[i] \in Event
        BY <1>1 DEF TypeOK
      <4> QED BY <4>1 DEF Event, TxIds, NoTx
    <3> QED BY <1>1, <1>3, <3>1, <3>2
  <2>2. i \in 1..n
    BY <1>1
  <2>3. RowOf(i) \in kandelEvents
    BY <1>1, <1>3, <2>1, <2>2 DEF RowsOfSurvivors
  <2> QED BY <1>2, <2>1, <2>3
<1>4. ASSUME NEW x \in kandelEvents'
      PROVE  \E i \in 1..(n - 1) : log'[i].kind \in ShownKinds /\ x = RowOf(i)'
  <2>1. PICK i \in 1..n : log[i].kind \in ShownKinds /\ x = RowOf(i)
    BY <1>4 DEF RowsOfSurvivors
  <2>2. i # n
    BY <1>1, <1>4, <2>1
  <2>3. i \in 1..(n - 1)
    BY <1>1, <2>2
  <2> QED BY <1>1, <1>2, <2>1, <2>3
<1> QED BY <1>1, <1>3, <1>4 DEF RowsOfSurvivors

(***************************************************************************)
(* An entry of the log adds itself to the version events of its kandel.    *)
(***************************************************************************)
LEMMA VersionEventsNext ==
  ASSUME NEW i \in Nat, log[i + 1].kind \in VersionKinds
  PROVE  LET k == log[i + 1].kandel
         IN  Cardinality(VersionEvents(k, i + 1)) = Cardinality(VersionEvents(k, i)) + 1
<1> DEFINE k == log[i + 1].kandel
<1>1. VersionEvents(k, i + 1) = VersionEvents(k, i) \cup {i + 1}
  <2>1. \A j : j \in 1..(i + 1) <=> j \in 1..i \/ j = i + 1
    OBVIOUS
  <2> QED BY <2>1 DEF VersionEvents
<1>2. IsFiniteSet(VersionEvents(k, i)) /\ i + 1 \notin VersionEvents(k, i)
  BY VersionEventsFinite
<1> HIDE DEF k
<1>3. Cardinality(VersionEvents(k, i) \cup {i + 1}) = Cardinality(VersionEvents(k, i)) + 1
  BY <1>2, FS_AddElement
<1> QED BY <1>1, <1>3 DEF k

(***************************************************************************)
(* The row of the last entry names the current version of its kandel, and  *)
(* no earlier row does.                                                    *)
(***************************************************************************)
LEMMA RowOfCurrent ==
  ASSUME TypeOK, VersionsCounted, log # <<>>, LastEvent.kind \in VersionKinds
  PROVE  LET k == LastEvent.kandel
         IN  /\ RowOf(Len(log)).kandel = k
             /\ RowOf(Len(log)).version = kandels.current[k]
             /\ \A i \in 1..(Len(log) - 1) :
                  ~(RowOf(i).kandel = k /\ RowOf(i).version = kandels.current[k])
<1> DEFINE n == Len(log)
           k == LastEvent.kandel
           VE(i) == VersionEvents(k, i)
<1>1. /\ n - 1 \in Nat /\ n - 1 + 1 = n /\ log[n] = LastEvent /\ k \in Kandels
      /\ kandels.current[k] \in Int
  <2>1. n \in Nat \ {0} /\ log[n] = LastEvent /\ LastEvent \in Event
    BY DEF TypeOK, LastEvent
  <2>2. k \in Kandels
    BY <2>1 DEF Event
  <2>3. kandels.current[k] \in Int
    BY <2>2 DEF TypeOK, Tables, Number, Null
  <2> QED BY <2>1, <2>2, <2>3
<1>2. Cardinality(VE(n - 1)) \in Nat /\ kandels.current[k] = Cardinality(VE(n - 1))
  <2> DEFINE m == n - 1
  <2>1. m \in Nat /\ log[m + 1] = LastEvent
    BY <1>1
  <2>2. kandels.current[k] + 1 = Cardinality(VE(m + 1))
    BY <1>1 DEF VersionsCounted
  <2> HIDE DEF m
  <2>3. Cardinality(VE(m + 1)) = Cardinality(VE(m)) + 1
    BY <2>1, VersionEventsNext
  <2>4. Cardinality(VE(m)) \in Nat
    BY <2>1, VersionEventsFinite
  <2>5. Cardinality(VE(m)) \in Nat /\ kandels.current[k] = Cardinality(VE(m))
    BY <1>1, <2>2, <2>3, <2>4
  <2> QED BY <2>5 DEF m
<1>3. RowOf(n).kandel = k /\ RowOf(n).version = kandels.current[k]
  BY <1>1, <1>2 DEF RowOf
<1>4. ASSUME NEW i \in 1..(n - 1), RowOf(i).kandel = k, RowOf(i).version = kandels.current[k]
      PROVE  FALSE
  <2>1. log[i].kandel = k
    BY <1>4 DEF RowOf
  <2>2. CASE log[i].kind \in VersionKinds
    <3>1. kandels.current[k] = Cardinality(VE(i - 1))
      BY <1>4, <2>1, <2>2 DEF RowOf
    <3>2. Cardinality(VE(i)) = Cardinality(VE(i - 1)) + 1
      <4> DEFINE j == i - 1
      <4>1. j \in Nat /\ j + 1 = i
        BY <1>1
      <4> HIDE DEF j
      <4>2. Cardinality(VE(j + 1)) = Cardinality(VE(j)) + 1
        BY <2>1, <2>2, <4>1, VersionEventsNext
      <4> QED BY <4>1, <4>2 DEF j
    <3>3. Cardinality(VE(i)) <= Cardinality(VE(n - 1))
      <4>1. VE(i) \in SUBSET VE(n - 1)
        BY <1>1 DEF VersionEvents
      <4>2. IsFiniteSet(VE(n - 1))
        BY <1>1, VersionEventsFinite
      <4> QED BY <4>1, <4>2, FS_Subset
    <3> QED BY <1>2, <3>1, <3>2, <3>3
  <2>3. CASE log[i].kind \notin VersionKinds
    <3>1. RowOf(i).version = Null
      BY <2>3 DEF RowOf
    <3> QED BY <1>2, <1>4, <3>1 DEF Null
  <2> QED BY <2>2, <2>3
<1> QED BY <1>3, <1>4

-----------------------------------------------------------------------------
(***************************************************************************)
(* Versions and configurations.                                            *)
(***************************************************************************)

(***************************************************************************)
(* A kandel that exists has its current version, and that a configuration. *)
(***************************************************************************)
LEMMA CurrentKandel ==
  ASSUME TypeOK, VersionsChained, ConfigsOwned, NEW k \in Kandels, Exists(kandels, k)
  PROVE  /\ kandels.current[k] \in Number
         /\ kandels.version[k][kandels.current[k]] # NoRow
         /\ Current(kandels, k) \in Rows(KandelVal)
         /\ Current(kandels, k).val \in KandelVal
         /\ Current(kandels, k).val.config \in ConfigId
         /\ configs[Current(kandels, k).val.config] # NoRow
         /\ configs[Current(kandels, k).val.config] \in ConfigVal
<1>1. kandels.current[k] \in Number
  BY DEF TypeOK, Tables, Exists
<1>2. kandels.version[k][kandels.current[k]] # NoRow
  <2>1. kandels.current[k] <= kandels.current[k]
    BY <1>1 DEF Number
  <2> QED BY <1>1, <2>1 DEF VersionsChained, Chained
<1>3. Current(kandels, k) \in Rows(KandelVal)
  BY <1>1, <1>2 DEF TypeOK, Tables, Current
<1>4. Current(kandels, k).val \in KandelVal /\ Current(kandels, k).val.config \in ConfigId
  BY <1>3 DEF Rows, KandelVal
<1>5. configs[Current(kandels, k).val.config] # NoRow
  BY <1>1, <1>2, <1>4 DEF ConfigsOwned, Current
<1>6. configs[Current(kandels, k).val.config] \in ConfigVal
  BY <1>4, <1>5 DEF TypeOK
<1> QED BY <1>1, <1>2, <1>3, <1>4, <1>5, <1>6

(***************************************************************************)
(* A balance that exists has its current version.                          *)
(***************************************************************************)
LEMMA CurrentBalance ==
  ASSUME TypeOK, VersionsChained, NEW id \in BalanceId, Exists(balances, id)
  PROVE  /\ balances.current[id] \in Number
         /\ Current(balances, id) \in Rows(BalanceVal)
         /\ Current(balances, id).val \in BalanceVal
<1>1. balances.current[id] \in Number
  BY DEF TypeOK, Tables, Exists
<1>2. Current(balances, id) # NoRow
  <2>1. balances.current[id] <= balances.current[id]
    BY <1>1 DEF Number
  <2> QED BY <1>1, <2>1 DEF VersionsChained, Chained, Current
<1>3. Current(balances, id) \in Rows(BalanceVal)
  BY <1>1, <1>2 DEF TypeOK, Tables, Current
<1>4. Current(balances, id).val \in BalanceVal
  BY <1>3 DEF Rows
<1> QED BY <1>1, <1>3, <1>4

(***************************************************************************)
(* The id of a new configuration is free, when one is.                     *)
(***************************************************************************)
LEMMA NewConfigFree ==
  ASSUME \E c \in ConfigId : configs[c] = NoRow
  PROVE  NewConfig \in ConfigId /\ configs[NewConfig] = NoRow
<1> DEFINE T == {c \in ConfigId : configs[c] = NoRow}
<1>1. T \subseteq Nat /\ T # {}
  BY DEF ConfigId
<1>2. PICK m \in T : \A c \in T : m <= c
  <2> HIDE DEF T
  <2> QED BY <1>1, LeastNatural
<1>3. m \in ConfigId /\ configs[m] = NoRow /\ \A b \in 1..(m - 1) : configs[b] # NoRow
  <2>1. m \in ConfigId /\ configs[m] = NoRow
    BY <1>2
  <2>2. ASSUME NEW b \in 1..(m - 1)
        PROVE  configs[b] # NoRow
    <3>1. b \in ConfigId /\ b < m
      BY <2>1, KandelAssumption DEF ConfigId
    <3>2. b \in ConfigId /\ ~(m <= b)
      BY <2>1, <3>1 DEF ConfigId
    <3> QED BY <1>2, <3>2
  <2> QED BY <2>1, <2>2
<1> QED BY <1>3 DEF NewConfig

\* What a new version of k, with a configuration of its own, changes.
VersionAdded(k, val, config) ==
  /\ kandels' \in Tables(Kandels, Rows(KandelVal))
  /\ \A j \in Kandels : Chained(kandels', j)
  /\ configs' \in [ConfigId -> ConfigVal \cup {NoRow}]
  /\ Exists(kandels', k) /\ Current(kandels', k).val = val
  /\ configs'[val.config] = config
  /\ DeleteLatest(kandels', k) = kandels
  /\ configs = [configs' EXCEPT ![val.config] = NoRow]
  /\ \A j \in Kandels :
       kandels'.current[j] = IF j = k THEN kandels.current[j] + 1 ELSE kandels.current[j]
  /\ \A j \in Kandels : Exists(kandels', j) <=> j = k \/ Exists(kandels, j)
  /\ \A j \in Kandels \ {k} : Exists(kandels, j) =>
       /\ Current(kandels', j) = Current(kandels, j)
       /\ configs'[Current(kandels, j).val.config] = configs[Current(kandels, j).val.config]
  /\ \A j \in Kandels, n \in Number :
       kandels.version[j][n] # NoRow => kandels'.version[j][n] # NoRow
  /\ kandels.current[k] + 1 \in Number
  /\ kandels'.version[k][kandels.current[k] + 1] # NoRow

(***************************************************************************)
(* A new version with a new configuration can be taken back, and leaves    *)
(* the versions and configurations of other kandels alone.                 *)
(***************************************************************************)
LEMMA AddKandelVersion ==
  ASSUME TypeOK, VersionsChained, ConfigsOwned, NEW k \in Kandels, NEW tx \in TxIds,
         NEW val \in KandelVal, NEW config \in ConfigVal,
         val.config = NewConfig, createNewKandelConfiguration(config),
         addVersionedKandel(k, tx, val)
  PROVE  VersionAdded(k, val, config) /\ ConfigsOwned'
<1> DEFINE R == Rows(KandelVal)
           n == kandels.current[k] + 1
           row == [prev |-> kandels.current[k], tx |-> tx, val |-> val]
           c == val.config
<1>1. /\ kandels \in Tables(Kandels, R) /\ NoRow \notin R /\ row \in R
      /\ CanAddVersion(kandels, k) /\ kandels' = AddVersion(kandels, k, tx, val)
      /\ \A j \in Kandels : Chained(kandels, j)
  BY MarkersAssumption DEF TypeOK, Tables, Rows, addVersionedKandel, VersionsChained
<1>2. /\ c \in ConfigId /\ configs[c] = NoRow
      /\ configs' = [configs EXCEPT ![c] = config]
      /\ configs \in [ConfigId -> ConfigVal \cup {NoRow}]
  BY NewConfigFree DEF createNewKandelConfiguration, TypeOK
<1>3. row.val = val /\ row # NoRow
  BY <1>1
<1> HIDE DEF R, row
<1>4. /\ kandels' \in Tables(Kandels, R)
      /\ \A j \in Kandels : kandels'.current[j] = IF j = k THEN n ELSE kandels.current[j]
      /\ \A j \in Kandels, m \in Number :
           kandels'.version[j][m] = IF j = k /\ m = n THEN row ELSE kandels.version[j][m]
  BY <1>1, AddVersionType DEF row
<1>5. \A j \in Kandels : Chained(kandels', j)
  BY <1>1, AddVersionChained DEF row
<1>6. DeleteLatest(kandels', k) = kandels /\ Exists(kandels', k)
  BY <1>1, DeleteInvertsAdd DEF row
<1>7. /\ n \in Number /\ kandels.version[k][n] = NoRow
      /\ \A j \in Kandels : kandels.current[j] \in Number \cup {Null}
  BY <1>1 DEF CanAddVersion, Tables
<1> HIDE DEF c
<1>8. /\ configs' \in [ConfigId -> ConfigVal \cup {NoRow}] /\ configs'[c] = config
      /\ \A b \in ConfigId \ {c} : configs'[b] = configs[b]
  BY <1>2
<1>9. configs = [configs' EXCEPT ![c] = NoRow]
  BY <1>2, <1>8
<1> HIDE DEF n
<1>10. Current(kandels', k).val = val
  BY <1>3, <1>4, <1>7 DEF Current
<1>11. \A j \in Kandels : Exists(kandels', j) <=> j = k \/ Exists(kandels, j)
  BY <1>4, <1>6 DEF Exists
<1>12. ASSUME NEW j \in Kandels \ {k}, Exists(kandels, j)
       PROVE  /\ Current(kandels', j) = Current(kandels, j)
              /\ configs'[Current(kandels, j).val.config] = configs[Current(kandels, j).val.config]
  <2>1. /\ kandels.current[j] \in Number /\ Current(kandels, j).val.config \in ConfigId
        /\ configs[Current(kandels, j).val.config] # NoRow
    BY <1>12, CurrentKandel
  <2> QED BY <1>2, <1>4, <1>8, <2>1 DEF Current
<1>13. \A j \in Kandels, m \in Number :
         kandels.version[j][m] # NoRow => kandels'.version[j][m] # NoRow
  BY <1>3, <1>4
<1>14. kandels'.version[k][n] # NoRow
  BY <1>3, <1>4, <1>7
<1>15. ConfigsOwned'
  <2>1. \A j \in Kandels, m \in Number :
          kandels.version[j][m] # NoRow => kandels.version[j][m].val.config # c
    BY <1>2 DEF ConfigsOwned
  <2>2. row.val.config = c
    BY <1>3 DEF c
  <2>3. ASSUME NEW j \in Kandels, NEW l \in Kandels, NEW m \in Number, NEW q \in Number,
               kandels'.version[j][m] # NoRow, kandels'.version[l][q] # NoRow,
               kandels'.version[j][m].val.config = kandels'.version[l][q].val.config
        PROVE  j = l /\ m = q
    <3>1. CASE ~(j = k /\ m = n) /\ ~(l = k /\ q = n)
      <4>1. /\ kandels'.version[j][m] = kandels.version[j][m]
            /\ kandels'.version[l][q] = kandels.version[l][q]
        BY <1>4, <3>1
      <4> QED BY <2>3, <4>1 DEF ConfigsOwned
    <3>2. CASE j = k /\ m = n
      <4>1. kandels'.version[j][m].val.config = c
        BY <1>4, <1>7, <2>2, <3>2
      <4> QED BY <1>4, <2>1, <2>3, <3>2, <4>1
    <3>3. CASE l = k /\ q = n
      <4>1. kandels'.version[l][q].val.config = c
        BY <1>4, <1>7, <2>2, <3>3
      <4> QED BY <1>4, <2>1, <2>3, <3>3, <4>1
    <3> QED BY <3>1, <3>2, <3>3
  <2>4. ASSUME NEW b \in ConfigId
        PROVE  configs'[b] # NoRow <=>
                 \E j \in Kandels, m \in Number :
                   kandels'.version[j][m] # NoRow /\ kandels'.version[j][m].val.config = b
    <3>1. CASE b = c
      <4>1. configs'[b] # NoRow
        BY <1>8, <3>1, MarkersAssumption
      <4>2. kandels'.version[k][n].val.config = b
        BY <1>4, <1>7, <2>2, <3>1
      <4> QED BY <1>7, <1>14, <4>1, <4>2
    <3>2. CASE b # c
      <4>1. configs'[b] = configs[b]
        BY <1>8, <3>2
      <4>2. ASSUME NEW j \in Kandels, NEW m \in Number
            PROVE  (kandels'.version[j][m] # NoRow /\ kandels'.version[j][m].val.config = b)
                   <=> (kandels.version[j][m] # NoRow /\ kandels.version[j][m].val.config = b)
        <5>1. CASE j = k /\ m = n
          BY <1>4, <1>7, <2>2, <3>2, <5>1
        <5>2. CASE ~(j = k /\ m = n)
          BY <1>4, <5>2
        <5> QED BY <5>1, <5>2
      <4> QED BY <4>1, <4>2 DEF ConfigsOwned
    <3> QED BY <3>1, <3>2
  <2> QED BY <2>3, <2>4 DEF ConfigsOwned
<1>16. VersionAdded(k, val, config)
  BY <1>4, <1>5, <1>6, <1>7, <1>8, <1>9, <1>10, <1>11, <1>12, <1>13, <1>14
     DEF VersionAdded, R, c, n
<1> QED BY <1>15, <1>16

\* What the deletion of the latest version of k changes.
VersionDeleted(k) ==
  /\ Exists(kandels, k) /\ kandels.current[k] \in Number
  /\ kandels' = DeleteLatest(kandels, k)
  /\ \A j \in Kandels : Chained(kandels', j)
  /\ configs' = [configs EXCEPT ![Current(kandels, k).val.config] = NoRow]
  /\ kandelEvents' = EventsWithoutLatest(k)
  /\ \A j \in Kandels :
       kandels'.current[j] = IF j = k THEN kandels.current[j] - 1 ELSE kandels.current[j]
  /\ \A j \in Kandels, n \in Number :
       kandels'.version[j][n] =
         IF j = k /\ n = kandels.current[k] THEN NoRow ELSE kandels.version[j][n]

(***************************************************************************)
(* With the latest version its configuration goes, since no other version  *)
(* uses it, and no other configuration does.                               *)
(***************************************************************************)
LEMMA DeleteKandelVersion ==
  ASSUME TypeOK, VersionsChained, ConfigsOwned, NEW k \in Kandels,
         deleteLatestKandelVersion(k)
  PROVE  VersionDeleted(k) /\ ConfigsOwned'
<1> DEFINE R == Rows(KandelVal)
           n == kandels.current[k]
           c == Current(kandels, k).val.config
<1>1. /\ kandels \in Tables(Kandels, R) /\ Exists(kandels, k)
      /\ kandels' = DeleteLatest(kandels, k)
      /\ \A j \in Kandels : Chained(kandels, j)
      /\ kandelEvents' = EventsWithoutLatest(k) /\ DeleteUnusedConfig(c)
      /\ configs \in [ConfigId -> ConfigVal \cup {NoRow}]
  BY DEF TypeOK, VersionsChained, deleteLatestKandelVersion, CanDeleteLatest
<1>2. n \in Number /\ kandels.version[k][n] # NoRow /\ c \in ConfigId
      /\ kandels.version[k][n].val.config = c
  BY <1>1, CurrentKandel DEF Current
<1> HIDE DEF R, n, c
<1>3. /\ \A j \in Kandels :
           kandels'.current[j] = IF j = k THEN n - 1 ELSE kandels.current[j]
      /\ \A j \in Kandels, m \in Number :
           kandels'.version[j][m] = IF j = k /\ m = n THEN NoRow ELSE kandels.version[j][m]
  BY <1>1, DeleteLatestType DEF n
<1>4. \A j \in Kandels : Chained(kandels', j)
  BY <1>1, DeleteLatestChained
<1>5. ASSUME NEW j \in Kandels, NEW m \in Number, kandels'.version[j][m] # NoRow
      PROVE  kandels'.version[j][m].val.config # c
  <2>1. ~(j = k /\ m = n) /\ kandels'.version[j][m] = kandels.version[j][m]
    BY <1>3, <1>5
  <2> QED BY <1>2, <1>5, <2>1 DEF ConfigsOwned
<1>6. configs' = [configs EXCEPT ![c] = NoRow]
  BY <1>1, <1>5 DEF DeleteUnusedConfig
<1>7. \A b \in ConfigId : configs'[b] = IF b = c THEN NoRow ELSE configs[b]
  BY <1>1, <1>6
<1>8. ConfigsOwned'
  <2>1. ASSUME NEW j \in Kandels, NEW l \in Kandels, NEW m \in Number, NEW q \in Number,
               kandels'.version[j][m] # NoRow, kandels'.version[l][q] # NoRow,
               kandels'.version[j][m].val.config = kandels'.version[l][q].val.config
        PROVE  j = l /\ m = q
    <3>1. /\ kandels'.version[j][m] = kandels.version[j][m]
          /\ kandels'.version[l][q] = kandels.version[l][q]
      BY <1>3, <2>1
    <3> QED BY <2>1, <3>1 DEF ConfigsOwned
  <2>2. ASSUME NEW b \in ConfigId
        PROVE  configs'[b] # NoRow <=>
                 \E j \in Kandels, m \in Number :
                   kandels'.version[j][m] # NoRow /\ kandels'.version[j][m].val.config = b
    <3>1. CASE b = c
      BY <1>5, <1>7, <3>1
    <3>2. CASE b # c
      <4>1. ASSUME NEW j \in Kandels, NEW m \in Number
            PROVE  (kandels'.version[j][m] # NoRow /\ kandels'.version[j][m].val.config = b)
                   <=> (kandels.version[j][m] # NoRow /\ kandels.version[j][m].val.config = b)
        <5>1. CASE j = k /\ m = n
          BY <1>2, <1>3, <3>2, <5>1
        <5>2. CASE ~(j = k /\ m = n)
          BY <1>3, <5>2
        <5> QED BY <5>1, <5>2
      <4> QED BY <1>7, <3>2, <4>1 DEF ConfigsOwned
    <3> QED BY <3>1, <3>2
  <2> QED BY <2>1, <2>2 DEF ConfigsOwned
<1>9. VersionDeleted(k)
  BY <1>1, <1>2, <1>3, <1>4, <1>6 DEF VersionDeleted, n, c
<1> QED BY <1>8, <1>9

-----------------------------------------------------------------------------
(***************************************************************************)
(* Undo puts the tables back to what the event found.                      *)
(***************************************************************************)
LEMMA UndoSnapshot ==
  ASSUME IInv, Undo
  PROVE  Snapshot' = LastEvent.before
<1> DEFINE e == LastEvent
           k == e.kandel
<1>1. /\ TypeOK /\ VersionsChained /\ ConfigsOwned /\ LogUndoable /\ log # <<>>
  BY DEF IInv, Undo
<1>2. e \in Event /\ k \in Kandels /\ Undoable(e, Snapshot)
  <2>1. Len(log) \in 1..Len(log) /\ log[Len(log)] \in Event
    BY <1>1 DEF TypeOK
  <2>2. Undoable(log[Len(log)], After(Len(log)))
    BY <1>1, <2>1 DEF LogUndoable
  <2> QED BY <2>1, <2>2 DEF LastEvent, After, Event
<1> HIDE DEF e
<1>3. CASE /\ e.kind \in VersionKinds /\ deleteLatestKandelVersion(k)
           /\ UNCHANGED <<balances, balanceEvents>>
  <2>1. VersionDeleted(k)
    BY <1>1, <1>2, <1>3, DeleteKandelVersion
  <2>2. e.before = [kandels |-> DeleteLatest(kandels, k),
                    configs |-> [configs EXCEPT ![Current(kandels, k).val.config] = NoRow],
                    balances |-> balances, balanceEvents |-> balanceEvents]
    BY <1>2, <1>3 DEF Undoable, Snapshot
  <2> QED BY <1>3, <2>1, <2>2 DEF VersionDeleted, Snapshot, e
<1>4. CASE e.kind \in {"Credit", "Debit"} /\ UndoDepositWithdrawal(k, e.token)
  <2> DEFINE id == ReserveBalance(k, e.token)
  <2>1. e.before = [kandels |-> kandels, configs |-> configs,
                    balances |-> DeleteLatest(balances, id),
                    balanceEvents |->
                      {b \in balanceEvents : b.id # id \/ b.n # balances.current[id]}]
    BY <1>2, <1>4 DEF Undoable, Snapshot, VersionKinds
  <2>2. /\ kandels' = kandels /\ configs' = configs
        /\ balances' = DeleteLatest(balances, id)
        /\ balanceEvents' = {b \in balanceEvents : b.id # id \/ b.n # balances.current[id]}
    BY <1>4 DEF UndoDepositWithdrawal, BalanceEventsWithoutLatest
  <2> QED BY <2>1, <2>2 DEF Snapshot, e
<1>5. CASE /\ e.kind \in {"retract", "populate", "mapping"}
           /\ UNCHANGED <<kandels, configs, balances, balanceEvents>>
  BY <1>2, <1>5 DEF Undoable, Snapshot, VersionKinds, e
<1>6. \/ e.kind = "new" /\ UndoNewKandel(k)
      \/ e.kind = "params" /\ UndoSetParams(k)
      \/ e.kind \in {"Credit", "Debit"} /\ UndoDepositWithdrawal(k, e.token)
      \/ e.kind \in {"retract", "populate"} /\ UndoRetractOrPopulate(k, e.tx)
      \/ e.kind = "mapping" /\ \E o \in e.offers : UndoSetIndexMapping(k, o)
  BY DEF Undo, e
<1> QED BY <1>3, <1>4, <1>5, <1>6
     DEF UndoNewKandel, UndoSetParams, UndoRetractOrPopulate, UndoSetIndexMapping,
         VersionKinds

(***************************************************************************)
(* The log, the tables and what is to be undone after an undo.             *)
(***************************************************************************)
LEMMA UndoShortens ==
  ASSUME IInv, Undo
  PROVE  LogShortened
  BY UndoSnapshot, UndoneLog DEF IInv, Undo

(***************************************************************************)
(* The types after an undo.                                                *)
(***************************************************************************)
LEMMA UndoTypes ==
  ASSUME TypeOK, LogShortened, kandelEvents' \subseteq kandelEvents,
         accounts' \subseteq accounts,
         offerIndexes' \in [Offers -> TxIds \cup {NoTx}]
  PROVE  TypeOK'
<1>1. /\ kandels' \in Tables(Kandels, Rows(KandelVal))
      /\ configs' \in [ConfigId -> ConfigVal \cup {NoRow}]
      /\ balances' \in Tables(BalanceId, Rows(BalanceVal))
      /\ balanceEvents' \subseteq BalanceEvent
  BY DEF LogShortened, Snapshots, Snapshot
<1>2. LastEvent.tx \in TxIds
  BY DEF LogShortened, Event
<1>3. transactions' \subseteq TxIds /\ undoing' \in transactions' \cup {NoTx}
  BY <1>2 DEF LogShortened, TypeOK
<1>4. log' \in Seq(Event)
  BY DEF LogShortened
<1> QED BY <1>1, <1>3, <1>4 DEF TypeOK

\* What an undo leaves to be shown beside the log and its replays.
UndoRest ==
  TypeOK' /\ VersionsChained' /\ ConfigsOwned' /\ ReferencesResolve'
    /\ VersionsCounted' /\ RowsOfSurvivors'

(***************************************************************************)
(* The last event and what its undo restores.                              *)
(***************************************************************************)
LEMMA LastUndoable ==
  ASSUME TypeOK, LogUndoable, log # <<>>
  PROVE  LastEvent \in Event /\ Undoable(LastEvent, Snapshot)
<1>1. Len(log) \in 1..Len(log) /\ log[Len(log)] \in Event
  BY DEF TypeOK
<1>2. Undoable(log[Len(log)], After(Len(log)))
  BY <1>1 DEF LogUndoable
<1> QED BY <1>1, <1>2 DEF LastEvent, After

(***************************************************************************)
(* The undo of the creation of a kandel, or of new parameters for it.      *)
(***************************************************************************)
LEMMA UndoVersion ==
  ASSUME IInv, LogShortened, LastEvent.kind \in VersionKinds,
         \/ LastEvent.kind = "new" /\ UndoNewKandel(LastEvent.kandel)
         \/ LastEvent.kind = "params" /\ UndoSetParams(LastEvent.kandel)
  PROVE  UndoRest
<1> DEFINE k == LastEvent.kandel
<1>1. /\ TypeOK /\ VersionsChained /\ ConfigsOwned /\ LogUndoable /\ ReferencesResolve
      /\ VersionsCounted /\ TransactionsInOrder /\ RowsOfSurvivors
      /\ k \in Kandels /\ log # <<>>
  BY DEF IInv, LogShortened, Event
<1>2. /\ deleteLatestKandelVersion(k)
      /\ offerIndexes' = offerIndexes /\ balances' = balances
      /\ balanceEvents' = balanceEvents
      /\ LastEvent.kind = "new" =>
           KandelUnreferenced(k) /\ CanDeleteAccount(k) /\ accounts' = accounts \ {k}
      /\ LastEvent.kind = "params" => accounts' = accounts
  BY DEF UndoNewKandel, UndoSetParams
<1>3. VersionDeleted(k) /\ ConfigsOwned'
  BY <1>1, <1>2, DeleteKandelVersion
<1>4. /\ kandelEvents' = {e \in kandelEvents : ~(e.kandel = k /\ e.version = kandels.current[k])}
      /\ kandelEvents' \subseteq kandelEvents /\ accounts' \subseteq accounts
  BY <1>2, <1>3 DEF VersionDeleted, EventsWithoutLatest, VersionKinds
<1>5. TypeOK'
  BY <1>1, <1>2, <1>4, UndoTypes DEF TypeOK
<1>6. VersionsChained'
  BY <1>1, <1>2, <1>3 DEF VersionsChained, VersionDeleted
<1>7. VersionsCounted'
  BY <1>1, <1>3, ShortenedCount DEF VersionDeleted
<1>8. RowsOfSurvivors'
  <2>1. /\ RowOf(Len(log)).kandel = k
        /\ RowOf(Len(log)).version = kandels.current[k]
        /\ \A i \in 1..(Len(log) - 1) :
             ~(RowOf(i).kandel = k /\ RowOf(i).version = kandels.current[k])
    BY <1>1, RowOfCurrent
  <2>2. RowOf(Len(log)) \notin kandelEvents'
    BY <1>4, <2>1
  <2>3. \A i \in 1..(Len(log) - 1) :
          RowOf(i) \in kandelEvents => RowOf(i) \in kandelEvents'
    BY <1>4, <2>1
  <2> QED BY <1>1, <1>4, <2>2, <2>3, ShortenedRows
<1>9. \A j \in Kandels : Exists(kandels', j) <=> Exists(kandels, j) /\ (j = k => LastEvent.kind = "params")
  <2>1. LastEvent.kind = "params" <=> Exists(kandels', k)
    <3>1. LastEvent.kind = "params" <=> Exists(LastEvent.before.kandels, k)
      BY <1>1, LastUndoable DEF Undoable
    <3>2. LastEvent.before.kandels = kandels'
      BY DEF LogShortened, Snapshot
    <3> QED BY <3>1, <3>2
  <2>2. Exists(kandels, k) /\ \A j \in Kandels \ {k} : kandels'.current[j] = kandels.current[j]
    BY <1>3 DEF VersionDeleted
  <2> QED BY <2>1, <2>2 DEF Exists
<1>10. transactions \subseteq transactions'
  BY DEF LogShortened
<1>11. ReferencesResolve'
  <2>1. ASSUME NEW j \in Kandels, Exists(kandels', j)
        PROVE  {j, ReserveOf[j]} \subseteq accounts'
    <3>1. {j, ReserveOf[j]} \subseteq accounts
      BY <1>1, <1>9, <2>1 DEF ReferencesResolve
    <3>2. CASE LastEvent.kind = "new"
      <4>1. j # k /\ ReserveOf[j] # k
        BY <1>2, <1>9, <2>1, <3>2 DEF CanDeleteAccount
      <4> QED BY <1>2, <3>1, <3>2, <4>1
    <3>3. CASE LastEvent.kind = "params"
      BY <1>2, <3>1, <3>3
    <3> QED BY <3>2, <3>3 DEF VersionKinds
  <2>2. ASSUME NEW e \in kandelEvents'
        PROVE  /\ Exists(kandels', e.kandel) /\ e.tx \in transactions'
               /\ e.version # Null => kandels'.version[e.kandel][e.version] # NoRow
    <3>1. /\ e \in kandelEvents /\ Exists(kandels, e.kandel) /\ e.tx \in transactions
          /\ e.version # Null => kandels.version[e.kandel][e.version] # NoRow
          /\ e.kandel \in Kandels /\ e.version \in Number \cup {Null}
          /\ ~(e.kandel = k /\ e.version = kandels.current[k])
      BY <1>1, <1>4 DEF ReferencesResolve, TypeOK
    <3>2. e.kandel = k => LastEvent.kind = "params"
      <4>1. CASE LastEvent.kind = "new"
        BY <1>2, <1>4, <3>1, <4>1 DEF KandelUnreferenced, EventsWithoutLatest
      <4> QED BY <4>1 DEF VersionKinds
    <3>3. e.version # Null => kandels'.version[e.kandel][e.version] # NoRow
      BY <1>3, <3>1 DEF VersionDeleted
    <3> QED BY <1>9, <1>10, <3>1, <3>2, <3>3
  <2>3. ASSUME NEW o \in Offers, offerIndexes'[o] # NoTx
        PROVE  Exists(kandels', KandelOf[o]) /\ offerIndexes'[o] \in transactions'
    <3>1. /\ Exists(kandels, KandelOf[o]) /\ offerIndexes[o] \in transactions
          /\ KandelOf[o] \in Kandels
      BY <1>1, <1>2, <2>3, KandelAssumption DEF ReferencesResolve
    <3>2. KandelOf[o] = k => LastEvent.kind = "params"
      BY <1>2, <2>3 DEF KandelUnreferenced, VersionKinds
    <3> QED BY <1>2, <1>9, <1>10, <3>1, <3>2
  <2>4. ASSUME NEW b \in balanceEvents'
        PROVE  Exists(kandels', b.source) /\ balances'.version[b.id][b.n] # NoRow
    <3>1. /\ Exists(kandels, b.source) /\ balances.version[b.id][b.n] # NoRow
          /\ b.source \in Kandels
      BY <1>1, <1>2, <2>4 DEF ReferencesResolve, TypeOK, BalanceEvent
    <3>2. b.source = k => LastEvent.kind = "params"
      BY <1>2, <2>4 DEF KandelUnreferenced, VersionKinds
    <3> QED BY <1>2, <1>9, <3>1, <3>2
  <2> QED BY <2>1, <2>2, <2>3, <2>4 DEF ReferencesResolve
<1> QED BY <1>3, <1>5, <1>6, <1>7, <1>8, <1>11 DEF UndoRest

(***************************************************************************)
(* The undo of a deposit or a withdrawal.                                  *)
(***************************************************************************)
LEMMA UndoBalance ==
  ASSUME IInv, LogShortened, LastEvent.kind \in {"Credit", "Debit"},
         UndoDepositWithdrawal(LastEvent.kandel, LastEvent.token)
  PROVE  UndoRest
<1> DEFINE k == LastEvent.kandel
           id == ReserveBalance(k, LastEvent.token)
           R == Rows(BalanceVal)
<1>1. /\ TypeOK /\ VersionsChained /\ ConfigsOwned /\ LogUndoable /\ ReferencesResolve
      /\ VersionsCounted /\ TransactionsInOrder /\ RowsOfSurvivors
      /\ k \in Kandels /\ log # <<>>
  BY DEF IInv, LogShortened, Event
<1>2. /\ kandels' = kandels /\ configs' = configs /\ kandelEvents' = kandelEvents
      /\ offerIndexes' = offerIndexes /\ accounts' = accounts
      /\ balances' = DeleteLatest(balances, id) /\ Exists(balances, id)
      /\ balanceEvents' = {b \in balanceEvents : b.id # id \/ b.n # balances.current[id]}
  BY DEF UndoDepositWithdrawal, BalanceEventsWithoutLatest, CanDeleteLatest
<1>3. id \in BalanceId
  <2>1. LastEvent.token \in Tokens
    BY <1>1, LastUndoable DEF Undoable, VersionKinds
  <2> QED BY <1>1, <2>1, KandelAssumption DEF ReserveBalance, BalanceId
<1>4. TypeOK'
  BY <1>1, <1>2, UndoTypes DEF TypeOK
<1>5. /\ balances \in Tables(BalanceId, R) /\ \A j \in BalanceId : Chained(balances, j)
  BY <1>1 DEF TypeOK, VersionsChained
<1> HIDE DEF id, R
<1>6. VersionsChained'
  <2>1. \A j \in BalanceId : Chained(balances', j)
    BY <1>2, <1>3, <1>5, DeleteLatestChained
  <2> QED BY <1>1, <1>2, <2>1 DEF VersionsChained
<1>7. ConfigsOwned'
  BY <1>1, <1>2 DEF ConfigsOwned
<1>8. VersionsCounted'
  BY <1>1, <1>2, ShortenedCount DEF VersionKinds
<1>9. RowsOfSurvivors'
  BY <1>1, <1>2, ShortenedRows DEF ShownKinds, VersionKinds
<1>10. transactions \subseteq transactions'
  BY DEF LogShortened
<1>11. ReferencesResolve'
  <2>1. \A b \in balanceEvents' :
          Exists(kandels', b.source) /\ balances'.version[b.id][b.n] # NoRow
    <3> TAKE b \in balanceEvents'
    <3>1. /\ Exists(kandels, b.source) /\ balances.version[b.id][b.n] # NoRow
          /\ b.id \in BalanceId /\ b.n \in Number
          /\ b.id # id \/ b.n # balances.current[id]
      BY <1>1, <1>2 DEF ReferencesResolve, TypeOK, BalanceEvent
    <3>2. \A j \in BalanceId, n \in Number :
            balances'.version[j][n] =
              IF j = id /\ n = balances.current[id] THEN NoRow ELSE balances.version[j][n]
      BY <1>2, <1>3, <1>5, DeleteLatestType
    <3> QED BY <1>2, <3>1, <3>2
  <2> QED BY <1>1, <1>2, <1>10, <2>1 DEF ReferencesResolve
<1> QED BY <1>4, <1>6, <1>7, <1>8, <1>9, <1>11 DEF UndoRest

(***************************************************************************)
(* The undo of a retract or a populate, or of the index of an offer.       *)
(***************************************************************************)
LEMMA UndoOther ==
  ASSUME IInv, LogShortened,
         \/ /\ LastEvent.kind \in {"retract", "populate"}
            /\ UndoRetractOrPopulate(LastEvent.kandel, LastEvent.tx)
         \/ /\ LastEvent.kind = "mapping"
            /\ \E o \in LastEvent.offers : UndoSetIndexMapping(LastEvent.kandel, o)
  PROVE  UndoRest
<1>1. /\ TypeOK /\ VersionsChained /\ ConfigsOwned /\ LogUndoable /\ ReferencesResolve
      /\ VersionsCounted /\ TransactionsInOrder /\ RowsOfSurvivors
  BY DEF IInv
<1>2. /\ kandels' = kandels /\ configs' = configs /\ balances' = balances
      /\ balanceEvents' = balanceEvents /\ accounts' = accounts
      /\ LastEvent.kind \in {"retract", "populate"} =>
           /\ kandelEvents' = {e \in kandelEvents : e.tx # LastEvent.tx}
           /\ offerIndexes' = offerIndexes
      /\ LastEvent.kind = "mapping" => kandelEvents' = kandelEvents
      /\ LastEvent.kind \in {"retract", "populate", "mapping"}
      /\ kandelEvents' \subseteq kandelEvents
  BY DEF UndoRetractOrPopulate, UndoSetIndexMapping
<1>3. /\ offerIndexes' \in [Offers -> TxIds \cup {NoTx}]
      /\ \A o \in Offers : offerIndexes'[o] # NoTx => offerIndexes'[o] = offerIndexes[o]
  <2>1. CASE LastEvent.kind = "mapping"
    BY <1>1, <2>1 DEF UndoSetIndexMapping, TypeOK
  <2>2. CASE LastEvent.kind # "mapping"
    BY <1>1, <1>2, <2>2 DEF TypeOK
  <2> QED BY <2>1, <2>2
<1>4. TypeOK'
  BY <1>1, <1>2, <1>3, UndoTypes
<1>5. VersionsChained' /\ ConfigsOwned'
  BY <1>1, <1>2 DEF VersionsChained, ConfigsOwned
<1>6. VersionsCounted'
  BY <1>1, <1>2, ShortenedCount DEF VersionKinds
<1>7. RowsOfSurvivors'
  <2>1. LastEvent.kind \in ShownKinds => RowOf(Len(log)) \notin kandelEvents'
    <3>1. RowOf(Len(log)).tx = LastEvent.tx
      BY DEF RowOf, LastEvent
    <3> QED BY <1>2, <3>1 DEF ShownKinds, VersionKinds
  <2>2. \A i \in 1..(Len(log) - 1) :
          log[i].tx # LastEvent.tx /\ RowOf(i) \in kandelEvents => RowOf(i) \in kandelEvents'
    <3> TAKE i \in 1..(Len(log) - 1)
    <3>1. RowOf(i).tx = log[i].tx
      BY DEF RowOf
    <3> QED BY <1>2, <3>1
  <2> QED BY <1>1, <1>2, <2>1, <2>2, ShortenedRows
<1>8. transactions \subseteq transactions'
  BY DEF LogShortened
<1>9. ReferencesResolve'
  BY <1>1, <1>2, <1>3, <1>8 DEF ReferencesResolve
<1> QED BY <1>4, <1>5, <1>6, <1>7, <1>9 DEF UndoRest

(***************************************************************************)
(* The inductive invariant is kept by an undo.                             *)
(***************************************************************************)
LEMMA UndoStep ==
  ASSUME IInv, Undo
  PROVE  IInv'
<1>1. LogShortened
  BY UndoShortens
<1>2. UndoRest
  <2>1. CASE \/ LastEvent.kind = "new" /\ UndoNewKandel(LastEvent.kandel)
             \/ LastEvent.kind = "params" /\ UndoSetParams(LastEvent.kandel)
    <3>1. LastEvent.kind \in VersionKinds
      BY <2>1 DEF VersionKinds
    <3> QED BY <1>1, <2>1, <3>1, UndoVersion, Zenon
  <2>2. CASE /\ LastEvent.kind \in {"Credit", "Debit"}
             /\ UndoDepositWithdrawal(LastEvent.kandel, LastEvent.token)
    BY <1>1, <2>2, UndoBalance
  <2>3. CASE \/ /\ LastEvent.kind \in {"retract", "populate"}
                /\ UndoRetractOrPopulate(LastEvent.kandel, LastEvent.tx)
             \/ /\ LastEvent.kind = "mapping"
                /\ \E o \in LastEvent.offers : UndoSetIndexMapping(LastEvent.kandel, o)
    BY <1>1, <2>3, UndoOther
  <2> QED BY <2>1, <2>2, <2>3 DEF Undo
<1>3. LogUndoable' /\ ConfigsReplayed' /\ BalancesReplayed' /\ TransactionsInOrder'
  BY <1>1, ShortenedUndoable, ShortenedConfigs, ShortenedBalances, ShortenedOrder DEF IInv
<1> QED BY <1>2, <1>3 DEF IInv, UndoRest

-----------------------------------------------------------------------------
(***************************************************************************)
(* The events.                                                             *)
(***************************************************************************)

(***************************************************************************)
(* The transaction of the next event is one within the bound.              *)
(***************************************************************************)
LEMMA NextTxType ==
  ASSUME TypeOK, Len(log) < MaxLog, NEW tx \in NextTx
  PROVE  tx \in TxIds /\ tx # NoTx
<1>1. MaxLog \in Nat /\ log \in Seq(Event)
  BY KandelAssumption DEF TypeOK
<1>2. CASE log = <<>>
  <2>1. tx = 1 /\ Len(log) = 0
    BY <1>2 DEF NextTx
  <2> QED BY <1>1, <2>1 DEF TxIds, NoTx
<1>3. CASE log # <<>>
  BY <1>1, <1>3 DEF NextTx, TxIds, NoTx
<1> QED BY <1>2, <1>3

(***************************************************************************)
(* The configurations and balances are the replay of the log.              *)
(***************************************************************************)
LEMMA CurrentReplay ==
  ASSUME TypeOK, ConfigsReplayed, BalancesReplayed
  PROVE  /\ \A k \in Kandels : Exists(kandels, k) =>
              configs[Current(kandels, k).val.config] = ReplayedConfig(log, k)
         /\ \A id \in BalanceId :
              BalanceOf(Snapshot, id) =
                Balance(Total(log, id, "Credit"), Total(log, id, "Debit"))
<1> DEFINE n == Len(log)
<1>1. n \in 0..n /\ SubSeq(log, 1, n) = log
  BY PrefixOfPrefix DEF TypeOK
<1>2. After(n) = Snapshot
  BY DEF After
<1>3. Snapshot.kandels = kandels /\ Snapshot.configs = configs
  BY DEF Snapshot
<1> HIDE DEF n
<1>4. ASSUME NEW k \in Kandels, Exists(kandels, k)
      PROVE  configs[Current(kandels, k).val.config] = ReplayedConfig(log, k)
  <2>1. Exists(After(n).kandels, k) =>
          After(n).configs[Current(After(n).kandels, k).val.config]
            = ReplayedConfig(SubSeq(log, 1, n), k)
    BY <1>1 DEF ConfigsReplayed, n
  <2> QED BY <1>1, <1>2, <1>3, <1>4, <2>1
<1>5. ASSUME NEW id \in BalanceId
      PROVE  BalanceOf(Snapshot, id) =
               Balance(Total(log, id, "Credit"), Total(log, id, "Debit"))
  <2>1. BalanceOf(After(n), id) =
          Balance(Total(SubSeq(log, 1, n), id, "Credit"),
                  Total(SubSeq(log, 1, n), id, "Debit"))
    BY <1>1 DEF BalancesReplayed, Balance, n
  <2> QED BY <1>1, <1>2, <2>1
<1> QED BY <1>4, <1>5

(***************************************************************************)
(* An event that is no deposit or withdrawal leaves the balances alone.    *)
(***************************************************************************)
LEMMA BalancesKept ==
  ASSUME TypeOK, ConfigsReplayed, BalancesReplayed, NEW e, LogExtended(e),
         e.kind \notin {"Credit", "Debit"}, balances' = balances
  PROVE  BalancesReplayed'
<1>1. \A id : \A sum : /\ Booked(sum, e, id, "Credit") = sum
                       /\ Booked(sum, e, id, "Debit") = sum
  BY DEF Booked
<1>2. \A id : BalanceOf(Snapshot', id) = BalanceOf(Snapshot, id)
  BY DEF BalanceOf, Snapshot
<1> QED BY <1>1, <1>2, CurrentReplay, ExtendedBalances

(***************************************************************************)
(* An event that makes no version leaves the configurations alone.         *)
(***************************************************************************)
LEMMA ConfigsKept ==
  ASSUME TypeOK, ConfigsReplayed, BalancesReplayed, NEW e, LogExtended(e),
         e.kind \notin VersionKinds, kandels' = kandels, configs' = configs
  PROVE  ConfigsReplayed'
<1>1. \A k : \A c : Configured(c, e, k) = c
  BY DEF Configured, VersionKinds
<1> QED BY <1>1, CurrentReplay, ExtendedConfigs

(***************************************************************************)
(* An event that adds a version, with the configuration it says, and the   *)
(* row that shows it.                                                      *)
(***************************************************************************)
LEMMA VersionStep ==
  ASSUME IInv, NEW k \in Kandels, NEW val, NEW config, NEW e, NEW kind, NEW value,
         VersionAdded(k, val, config), ConfigsOwned', LogExtended(e),
         e.tx \in NextTx, e.kandel = k, e.kind \in VersionKinds, e.offers = {},
         e.before = Snapshot, e.kind = "params" <=> Exists(kandels, k),
         Configured(ReplayedConfig(log, k), e, k) = config,
         balances' = balances, balanceEvents' = balanceEvents,
         offerIndexes' = offerIndexes,
         accounts \subseteq accounts', accounts' \subseteq Accounts,
         {k, ReserveOf[k]} \subseteq accounts',
         kind = IF e.kind = "params" THEN ParamsKind(e.params) ELSE e.kind,
         value = IF e.kind = "params" THEN e.params[ParamsKind(e.params)] ELSE 0,
         kandelEvents' = kandelEvents \cup
           {KandelEvent(k, e.tx, kandels.current[k] + 1, kind, value, {})}
  PROVE  IInv'
<1> DEFINE n == Len(log)
<1>1. /\ TypeOK /\ VersionsChained /\ ConfigsOwned /\ LogUndoable /\ ReferencesResolve
      /\ ConfigsReplayed /\ BalancesReplayed /\ VersionsCounted
      /\ TransactionsInOrder /\ RowsOfSurvivors
  BY DEF IInv
<1>2. /\ n \in Nat /\ n < MaxLog /\ e \in Event /\ transactions' = transactions \cup {e.tx}
      /\ undoing' = NoTx /\ log' \in Seq(Event)
  BY KandelAssumption DEF LogExtended
<1>3. e.tx \in TxIds /\ e.tx # NoTx
  BY <1>1, <1>2, NextTxType
<1>4. kandels.current[k] + 1 \in Number
  BY DEF VersionAdded
<1>5. TypeOK'
  <2>1. /\ kandels' \in Tables(Kandels, Rows(KandelVal))
        /\ configs' \in [ConfigId -> ConfigVal \cup {NoRow}]
    BY DEF VersionAdded
  <2>2. \A x \in kandelEvents' :
          x.kandel \in Kandels /\ x.tx \in TxIds /\ x.version \in Number \cup {Null}
    BY <1>1, <1>3, <1>4 DEF TypeOK, KandelEvent
  <2>3. transactions' \subseteq TxIds
    BY <1>1, <1>2, <1>3 DEF TypeOK
  <2> QED BY <1>1, <1>2, <2>1, <2>2, <2>3 DEF TypeOK
<1>6. VersionsChained'
  BY <1>1 DEF VersionsChained, VersionAdded
<1>7. LogUndoable'
  <2>1. /\ Exists(kandels', k) /\ DeleteLatest(kandels', k) = kandels
        /\ configs = [configs' EXCEPT ![Current(kandels', k).val.config] = NoRow]
    BY DEF VersionAdded
  <2>2. Undoable(e, Snapshot')
    BY <2>1 DEF Undoable, Snapshot
  <2> QED BY <1>1, <2>2, ExtendedUndoable
<1>8. ConfigsReplayed'
  <2>1. ASSUME NEW j \in Kandels, Exists(kandels', j)
        PROVE  configs'[Current(kandels', j).val.config]
                 = Configured(ReplayedConfig(log, j), e, j)
    <3>1. CASE j = k
      BY <3>1 DEF VersionAdded
    <3>2. CASE j # k
      <4>1. /\ Exists(kandels, j) /\ Current(kandels', j) = Current(kandels, j)
            /\ configs'[Current(kandels, j).val.config] = configs[Current(kandels, j).val.config]
        BY <2>1, <3>2 DEF VersionAdded
      <4>2. Configured(ReplayedConfig(log, j), e, j) = ReplayedConfig(log, j)
        BY <3>2 DEF Configured
      <4> QED BY <1>1, <4>1, <4>2, CurrentReplay
    <3> QED BY <3>1, <3>2
  <2> QED BY <1>1, <2>1, ExtendedConfigs
<1>9. BalancesReplayed'
  BY <1>1, BalancesKept DEF VersionKinds
<1>10. VersionsCounted'
  <2>1. \A j \in Kandels :
          kandels'.current[j] =
            IF e.kandel = j /\ e.kind \in VersionKinds
            THEN kandels.current[j] + 1 ELSE kandels.current[j]
    BY DEF VersionAdded
  <2> QED BY <1>1, <2>1, ExtendedCount
<1>11. TransactionsInOrder'
  BY <1>1, ExtendedOrder
<1>12. RowsOfSurvivors'
  <2> DEFINE r == KandelEvent(k, e.tx, kandels.current[k] + 1, kind, value, {})
  <2>1. kandels.current[k] + 1 = Cardinality(VersionEvents(k, n))
    BY <1>1 DEF VersionsCounted
  <2>2. \A i : i = n + 1 => r = RowOf(i)'
    BY <2>1, NewRow DEF KandelEvent
  <2>3. e.kind \in ShownKinds
    BY DEF ShownKinds
  <2> HIDE DEF r
  <2>4. kandelEvents' = kandelEvents \cup {r}
    BY DEF r
  <2> QED BY <1>1, <1>3, <2>2, <2>3, <2>4, ExtendedRows
<1>13. ReferencesResolve'
  <2>1. /\ \A j \in Kandels : Exists(kandels', j) <=> j = k \/ Exists(kandels, j)
        /\ \A j \in Kandels, m \in Number :
             kandels.version[j][m] # NoRow => kandels'.version[j][m] # NoRow
        /\ kandels'.version[k][kandels.current[k] + 1] # NoRow
    BY DEF VersionAdded
  <2>2. ASSUME NEW x \in kandelEvents'
        PROVE  /\ Exists(kandels', x.kandel) /\ x.tx \in transactions'
               /\ x.version # Null => kandels'.version[x.kandel][x.version] # NoRow
    <3>1. CASE x \in kandelEvents
      <4>1. x.kandel \in Kandels /\ x.version \in Number \cup {Null}
        BY <1>1, <3>1 DEF TypeOK
      <4> QED BY <1>1, <1>2, <2>1, <3>1, <4>1 DEF ReferencesResolve
    <3>2. CASE x \notin kandelEvents
      <4>1. x = KandelEvent(k, e.tx, kandels.current[k] + 1, kind, value, {})
        BY <2>2, <3>2
      <4> QED BY <1>2, <2>1, <4>1 DEF KandelEvent
    <3> QED BY <3>1, <3>2
  <2>3. \A j \in Kandels : Exists(kandels', j) => {j, ReserveOf[j]} \subseteq accounts'
    BY <1>1, <2>1 DEF ReferencesResolve
  <2>4. \A o \in Offers : offerIndexes'[o] # NoTx =>
          Exists(kandels', KandelOf[o]) /\ offerIndexes'[o] \in transactions'
    BY <1>1, <1>2, <2>1, KandelAssumption DEF ReferencesResolve
  <2>5. \A b \in balanceEvents' :
          Exists(kandels', b.source) /\ balances'.version[b.id][b.n] # NoRow
    <3> TAKE b \in balanceEvents'
    <3>1. b \in balanceEvents /\ b.source \in Kandels
      BY <1>1 DEF TypeOK, BalanceEvent
    <3> QED BY <1>1, <2>1, <3>1 DEF ReferencesResolve
  <2> QED BY <2>2, <2>3, <2>4, <2>5 DEF ReferencesResolve
<1> QED BY <1>5, <1>6, <1>7, <1>8, <1>9, <1>10, <1>11, <1>12, <1>13 DEF IInv

(***************************************************************************)
(* What a parameter event carries, when it carries it all.                 *)
(***************************************************************************)
LEMMA ParamsType ==
  ASSUME NEW Fields, NEW p \in Params(Fields)
  PROVE  /\ p \in [Field -> ParamValue \cup {Undefined}]
         /\ (\A F \in Fields : "admin" \in F) => p["admin"] \in ParamValue
<1>1. PICK F \in Fields, v \in ParamValue :
        p = [f \in Field |-> IF f \in F THEN v ELSE Undefined]
  BY DEF Params
<1>2. "admin" \in Field
  BY DEF Field
<1> QED BY <1>1, <1>2

(***************************************************************************)
(* The values that events set are numbers.                                 *)
(***************************************************************************)
LEMMA ParamNumbers == \A v \in ParamValue : v \in Nat /\ v \in Int
  BY KandelAssumption

(***************************************************************************)
(* A kandel is created.                                                    *)
(***************************************************************************)
LEMMA NewKandelStep ==
  ASSUME IInv, NEW k \in Kandels, NEW tx \in NextTx, NEW params \in Params(CreateFields),
         NewKandel(k, tx, params)
  PROVE  IInv'
<1> DEFINE val == [config |-> NewConfig, admin |-> params["admin"],
                   router |-> IF params["router"] = Undefined THEN Null
                              ELSE params["router"]]
           config == InitialConfig(params)
           e == Entry("new", k, tx, params, NoToken, 0, {})
<1>1. /\ TypeOK /\ VersionsChained /\ ConfigsOwned /\ ~Exists(kandels, k)
      /\ Len(log) < MaxLog
      /\ createNewKandelConfiguration(config) /\ addVersionedKandel(k, tx, val)
      /\ accounts' = accounts \cup {ReserveOf[k], k}
      /\ kandelEvents' = kandelEvents \cup {KandelEvent(k, tx, 0, "new", 0, {})}
      /\ Handled("new", k, tx, params, NoToken, 0, {})
      /\ offerIndexes' = offerIndexes /\ balances' = balances
      /\ balanceEvents' = balanceEvents
  BY DEF IInv, NewKandel, EnsuredAccounts, createKandelEvent, Handled
<1>2. tx \in TxIds
  BY <1>1, NextTxType
<1>3. /\ params \in [Field -> ParamValue \cup {Undefined}]
      /\ params["admin"] \in ParamValue
  BY ParamsType, KandelAssumption
<1>4. val \in KandelVal
  <2>1. NewConfig \in ConfigId
    BY <1>1, NewConfigFree DEF createNewKandelConfiguration
  <2>2. params["router"] \in ParamValue \cup {Undefined}
    <3>1. "router" \in Field
      BY DEF Field
    <3> QED BY <1>3, <3>1
  <2>3. val.router \in Int
    BY <2>2, ParamNumbers DEF Null
  <2>4. val.admin \in Int
    BY <1>3, ParamNumbers
  <2> QED BY <2>1, <2>3, <2>4 DEF KandelVal
<1>5. config \in ConfigVal
  BY <1>3, ConfigTypes, NoConfigType
<1>6. LogExtended(e)
  BY <1>1, <1>2, <1>3, HandledLog DEF Kinds, ShownKinds, VersionKinds
<1>7. /\ e.kind = "new" /\ e.kandel = k /\ e.tx = tx /\ e.params = params /\ e.offers = {}
      /\ e.before = Snapshot
  BY DEF Entry
<1>8. val.config = NewConfig
  OBVIOUS
<1> HIDE DEF val, config, e
<1>9. VersionAdded(k, val, config) /\ ConfigsOwned'
  BY <1>1, <1>2, <1>4, <1>5, <1>8, AddKandelVersion
<1>10. Configured(ReplayedConfig(log, k), e, k) = config
  BY <1>7 DEF Configured, config
<1>11. kandels.current[k] + 1 = 0
  BY <1>1 DEF Exists, Null
<1>12. /\ accounts \subseteq accounts' /\ accounts' \subseteq Accounts
       /\ {k, ReserveOf[k]} \subseteq accounts'
  BY <1>1, KandelAssumption DEF TypeOK, Accounts
<1>13. e.kind \in VersionKinds
  BY <1>7 DEF VersionKinds
<1> DEFINE kind == "new"
           value == 0
<1>14. /\ kind = IF e.kind = "params" THEN ParamsKind(e.params) ELSE e.kind
       /\ value = IF e.kind = "params" THEN e.params[ParamsKind(e.params)] ELSE 0
       /\ kandelEvents' = kandelEvents \cup
            {KandelEvent(k, e.tx, kandels.current[k] + 1, kind, value, {})}
       /\ e.kind = "params" <=> Exists(kandels, k)
  BY <1>1, <1>7, <1>11
<1> HIDE DEF kind, value
<1> QED BY <1>1, <1>6, <1>7, <1>9, <1>10, <1>12, <1>13, <1>14, VersionStep

(***************************************************************************)
(* The parameters of a kandel are set.                                     *)
(***************************************************************************)
LEMMA SetParamsStep ==
  ASSUME IInv, NEW k \in Kandels, NEW tx \in NextTx, NEW params \in Params(ParamsFields),
         SetParams(k, tx, params)
  PROVE  IInv'
<1> DEFINE old == Current(kandels, k).val
           val == [old EXCEPT !.config = NewConfig]
           config == Overrides(configs[old.config], params)
           e == Entry("params", k, tx, params, NoToken, 0, {})
<1>1. /\ TypeOK /\ VersionsChained /\ ConfigsOwned /\ Exists(kandels, k)
      /\ ReferencesResolve /\ ConfigsReplayed /\ BalancesReplayed
      /\ Len(log) < MaxLog
      /\ createNewKandelConfiguration(config) /\ addVersionedKandel(k, tx, val)
      /\ accounts' = accounts
      /\ kandelEvents' = kandelEvents \cup
           {KandelEvent(k, tx, kandels.current[k] + 1, ParamsKind(params),
                        params[ParamsKind(params)], {})}
      /\ Handled("params", k, tx, params, NoToken, 0, {})
      /\ offerIndexes' = offerIndexes /\ balances' = balances
      /\ balanceEvents' = balanceEvents
  BY DEF IInv, SetParams, createKandelEvent, Handled
<1>2. tx \in TxIds
  BY <1>1, NextTxType
<1>3. params \in [Field -> ParamValue \cup {Undefined}]
  BY ParamsType
<1>4. /\ old \in KandelVal /\ configs[old.config] \in ConfigVal
      /\ configs[old.config] = ReplayedConfig(log, k)
  BY <1>1, CurrentKandel, CurrentReplay
<1>5. val \in KandelVal /\ val.config = NewConfig
  <2>1. NewConfig \in ConfigId
    BY <1>1, NewConfigFree DEF createNewKandelConfiguration
  <2> HIDE DEF old
  <2> QED BY <1>4, <2>1 DEF KandelVal
<1>6. config \in ConfigVal
  BY <1>3, <1>4, ConfigTypes
<1>7. LogExtended(e)
  BY <1>1, <1>2, <1>3, HandledLog DEF Kinds, ShownKinds, VersionKinds
<1>8. /\ e.kind = "params" /\ e.kandel = k /\ e.tx = tx /\ e.params = params /\ e.offers = {}
      /\ e.before = Snapshot
  BY DEF Entry
<1>9. Configured(ReplayedConfig(log, k), e, k) = config
  BY <1>4, <1>8 DEF Configured, Overrides
<1> HIDE DEF old, val, config, e
<1>10. VersionAdded(k, val, config) /\ ConfigsOwned'
  BY <1>1, <1>2, <1>5, <1>6, AddKandelVersion
<1>11. /\ accounts \subseteq accounts' /\ accounts' \subseteq Accounts
       /\ {k, ReserveOf[k]} \subseteq accounts'
  BY <1>1 DEF TypeOK, ReferencesResolve
<1>12. e.kind \in VersionKinds
  BY <1>8 DEF VersionKinds
<1> DEFINE kind == ParamsKind(params)
           value == params[ParamsKind(params)]
<1>13. /\ kind = IF e.kind = "params" THEN ParamsKind(e.params) ELSE e.kind
       /\ value = IF e.kind = "params" THEN e.params[ParamsKind(e.params)] ELSE 0
       /\ kandelEvents' = kandelEvents \cup
            {KandelEvent(k, e.tx, kandels.current[k] + 1, kind, value, {})}
       /\ e.kind = "params" <=> Exists(kandels, k)
  BY <1>1, <1>8
<1> HIDE DEF kind, value
<1> QED BY <1>1, <1>7, <1>8, <1>9, <1>10, <1>11, <1>12, <1>13, VersionStep

(***************************************************************************)
(* A balance with two of its fields replaced.                              *)
(***************************************************************************)
LEMMA ReplaceSums ==
  ASSUME NEW old \in BalanceVal, NEW c, NEW d
  PROVE  /\ [old EXCEPT !.deposit = c, !.balance = d]
              = [deposit |-> c, withdrawal |-> old.withdrawal, balance |-> d]
         /\ [old EXCEPT !.withdrawal = c, !.balance = d]
              = [deposit |-> old.deposit, withdrawal |-> c, balance |-> d]
<1> DEFINE x == old.deposit
           y == old.withdrawal
           z == old.balance
<1>1. /\ [old EXCEPT !.deposit = c] = [deposit |-> c, withdrawal |-> y, balance |-> z]
      /\ [old EXCEPT !.withdrawal = c] = [deposit |-> x, withdrawal |-> c, balance |-> z]
  BY DEF BalanceVal
<1> HIDE DEF x, y, z
<1>2. /\ [[deposit |-> c, withdrawal |-> y, balance |-> z] EXCEPT !.balance = d]
           = [deposit |-> c, withdrawal |-> y, balance |-> d]
      /\ [[deposit |-> x, withdrawal |-> c, balance |-> z] EXCEPT !.balance = d]
           = [deposit |-> x, withdrawal |-> c, balance |-> d]
  OBVIOUS
<1>3. /\ [old EXCEPT !.deposit = c, !.balance = d]
           = [[old EXCEPT !.deposit = c] EXCEPT !.balance = d]
      /\ [old EXCEPT !.withdrawal = c, !.balance = d]
           = [[old EXCEPT !.withdrawal = c] EXCEPT !.balance = d]
  OBVIOUS
<1> QED BY <1>1, <1>2, <1>3 DEF x, y

(***************************************************************************)
(* A credit and a debit move the balance, and the sum of their own kind.   *)
(***************************************************************************)
LEMMA NewBalanceValues ==
  ASSUME NEW credit \in Int, NEW debit \in Int, NEW amount \in Int
  PROVE  /\ NewBalance(Balance(credit, debit), "Credit", amount) = Balance(credit + amount, debit)
         /\ NewBalance(Balance(credit, debit), "Debit", amount) = Balance(credit, debit + amount)
<1> DEFINE old == Balance(credit, debit)
           net == credit - debit
<1>1. /\ old = [deposit |-> credit, withdrawal |-> debit, balance |-> net]
      /\ old.deposit = credit /\ old.withdrawal = debit /\ old.balance = net
  BY DEF Balance
<1>2. old \in BalanceVal
  BY DEF Balance, BalanceVal
<1>3. net + amount = (credit + amount) - debit /\ net - amount = credit - (debit + amount)
  OBVIOUS
<1> HIDE DEF old, net
<1>4. NewBalance(old, "Credit", amount) = Balance(credit + amount, debit)
  <2> DEFINE c == credit + amount
             d == net + amount
  <2>1. NewBalance(old, "Credit", amount) = [old EXCEPT !.deposit = c, !.balance = d]
    BY <1>1 DEF NewBalance
  <2>2. Balance(c, debit) = [deposit |-> c, withdrawal |-> debit, balance |-> d]
    BY <1>3 DEF Balance
  <2> HIDE DEF c, d
  <2>3. [old EXCEPT !.deposit = c, !.balance = d]
          = [deposit |-> c, withdrawal |-> old.withdrawal, balance |-> d]
    BY <1>2, ReplaceSums
  <2> QED BY <1>1, <2>1, <2>2, <2>3 DEF c
<1>5. NewBalance(old, "Debit", amount) = Balance(credit, debit + amount)
  <2> DEFINE c == debit + amount
             d == net - amount
  <2>1. NewBalance(old, "Debit", amount) = [old EXCEPT !.withdrawal = c, !.balance = d]
    BY <1>1 DEF NewBalance
  <2>2. Balance(credit, c) = [deposit |-> credit, withdrawal |-> c, balance |-> d]
    BY <1>3 DEF Balance
  <2> HIDE DEF c, d
  <2>3. [old EXCEPT !.withdrawal = c, !.balance = d]
          = [deposit |-> old.deposit, withdrawal |-> c, balance |-> d]
    BY <1>2, ReplaceSums
  <2> QED BY <1>1, <2>1, <2>2, <2>3 DEF c
<1> QED BY <1>4, <1>5 DEF old

(***************************************************************************)
(* A deposit to or a withdrawal from the reserve of a kandel.              *)
(***************************************************************************)
LEMMA DepositStep ==
  ASSUME IInv, NEW kind \in {"Credit", "Debit"}, NEW k \in Kandels, NEW tx \in NextTx,
         NEW t \in Tokens, NEW amount \in Amount, DepositWithdrawal(kind, k, tx, t, amount)
  PROVE  IInv'
<1> DEFINE n == Len(log)
           id == ReserveBalance(k, t)
           R == Rows(BalanceVal)
           old == IF Exists(balances, id) THEN Current(balances, id).val ELSE NoBalance
           val == NewBalance(old, kind, amount)
           row == [prev |-> balances.current[id], tx |-> tx, val |-> val]
           b == [id |-> id, n |-> balances.current[id] + 1, kind |-> kind, source |-> k,
                 amount |-> amount]
           e == Entry(kind, k, tx, Nothing, t, amount, {})
<1>1. /\ TypeOK /\ VersionsChained /\ ConfigsOwned /\ LogUndoable /\ ReferencesResolve
      /\ ConfigsReplayed /\ BalancesReplayed /\ VersionsCounted
      /\ TransactionsInOrder /\ RowsOfSurvivors
      /\ Exists(kandels, k) /\ n < MaxLog /\ CanAddVersion(balances, id)
      /\ balances' = AddVersion(balances, id, tx, val)
      /\ balanceEvents' = balanceEvents \cup {b}
      /\ Handled(kind, k, tx, Nothing, t, amount, {})
      /\ kandels' = kandels /\ configs' = configs /\ kandelEvents' = kandelEvents
      /\ offerIndexes' = offerIndexes /\ accounts' = accounts
  BY DEF IInv, DepositWithdrawal, Handled
<1>2. tx \in TxIds /\ tx # NoTx
  BY <1>1, NextTxType
<1>3. id \in BalanceId /\ id = <<ReserveOf[k], t>>
  BY KandelAssumption DEF ReserveBalance, BalanceId
<1>4. LogExtended(e)
  <2>1. Nothing \in [Field -> ParamValue \cup {Undefined}]
    BY DEF Nothing
  <2>2. kind \in Kinds
    BY DEF Kinds
  <2> QED BY <1>1, <1>2, <2>1, <2>2, HandledLog
<1>5. /\ e.kind = kind /\ e.kandel = k /\ e.tx = tx /\ e.token = t /\ e.amount = amount
      /\ e.before = Snapshot
  BY DEF Entry
<1>6. amount \in Int
  BY KandelAssumption
<1>7. /\ Total(log, id, "Credit") \in Int /\ Total(log, id, "Debit") \in Int
      /\ old = Balance(Total(log, id, "Credit"), Total(log, id, "Debit"))
  <2>1. Total(log, id, "Credit") \in Int /\ Total(log, id, "Debit") \in Int
    BY <1>1, <1>4, TotalAppend DEF TypeOK, LogExtended
  <2>2. BalanceOf(Snapshot, id) = old
    BY DEF BalanceOf, Snapshot
  <2> QED BY <1>1, <1>3, <2>1, <2>2, CurrentReplay
<1> HIDE DEF id, old, e
<1>8. val \in BalanceVal
  <2>1. PICK c \in Int, d \in Int : val = Balance(c, d)
    <3>1. \A c, d \in Int : c + amount \in Int /\ d + amount \in Int
      BY <1>6
    <3>2. CASE kind = "Credit"
      BY <1>6, <1>7, <3>1, <3>2, NewBalanceValues
    <3>3. CASE kind = "Debit"
      BY <1>6, <1>7, <3>1, <3>3, NewBalanceValues
    <3> QED BY <3>2, <3>3
  <2>2. c - d \in Int
    OBVIOUS
  <2> QED BY <2>1, <2>2 DEF Balance, BalanceVal
<1>9. /\ balances \in Tables(BalanceId, R) /\ \A j \in BalanceId : Chained(balances, j)
      /\ NoRow \notin R /\ row \in R /\ row.val = val
  BY <1>1, <1>2, <1>3, <1>8, MarkersAssumption
     DEF TypeOK, VersionsChained, Rows, Tables
<1> HIDE DEF val, R, row
<1>10. /\ balances' \in Tables(BalanceId, R)
       /\ \A j \in BalanceId :
            balances'.current[j] = IF j = id THEN balances.current[j] + 1 ELSE balances.current[j]
       /\ \A j \in BalanceId, m \in Number :
            balances'.version[j][m] = IF j = id /\ m = balances.current[id] + 1 THEN row
                                      ELSE balances.version[j][m]
  BY <1>1, <1>3, <1>9, AddVersionType DEF row
<1>11. \A j \in BalanceId : Chained(balances', j)
  BY <1>1, <1>3, <1>9, AddVersionChained DEF row
<1>12. DeleteLatest(balances', id) = balances /\ Exists(balances', id)
  BY <1>1, <1>3, <1>9, DeleteInvertsAdd DEF row
<1>13. /\ balances.current[id] + 1 \in Number
       /\ balances.version[id][balances.current[id] + 1] = NoRow
       /\ row # NoRow
  BY <1>1, <1>9 DEF CanAddVersion
<1>14. \A x \in balanceEvents :
         /\ x \in BalanceEvent /\ x.id \in BalanceId /\ x.n \in Number
         /\ Exists(kandels, x.source) /\ balances.version[x.id][x.n] # NoRow
  BY <1>1 DEF TypeOK, ReferencesResolve, BalanceEvent
<1>15. b \in BalanceEvent
  BY <1>3, <1>13 DEF BalanceEvent
<1>16. TypeOK'
  <2>1. /\ undoing' = NoTx /\ transactions' \subseteq TxIds /\ log' \in Seq(Event)
    BY <1>1, <1>2, <1>4, <1>5 DEF TypeOK, LogExtended
  <2> QED BY <1>1, <1>10, <1>15, <2>1 DEF TypeOK, R
<1>17. VersionsChained'
  BY <1>1, <1>11 DEF VersionsChained
<1>18. ConfigsOwned'
  BY <1>1 DEF ConfigsOwned
<1>19. LogUndoable'
  <2>1. {x \in balanceEvents' : x.id # id \/ x.n # balances'.current[id]} = balanceEvents
    <3>1. balances'.current[id] = balances.current[id] + 1
      BY <1>3, <1>10
    <3>2. \A x \in balanceEvents : x.id # id \/ x.n # balances.current[id] + 1
      BY <1>13, <1>14
    <3>3. b.id = id /\ b.n = balances.current[id] + 1
      OBVIOUS
    <3> HIDE DEF b
    <3> QED BY <1>1, <3>1, <3>2, <3>3
  <2>2. ReserveBalance(e.kandel, e.token) = id /\ e.token \in Tokens
    BY <1>5 DEF id
  <2>3. e.kind \notin VersionKinds /\ e.kind \in {"Credit", "Debit"}
    BY <1>5 DEF VersionKinds
  <2>4. Undoable(e, Snapshot')
    BY <1>1, <1>5, <1>12, <2>1, <2>2, <2>3 DEF Undoable, Snapshot
  <2> QED BY <1>1, <1>4, <2>4, ExtendedUndoable
<1>20. ConfigsReplayed'
  BY <1>1, <1>4, <1>5, ConfigsKept DEF VersionKinds
<1>21. BalancesReplayed'
  <2>1. ASSUME NEW j \in BalanceId
        PROVE  BalanceOf(Snapshot', j) =
                 Balance(Booked(Total(log, j, "Credit"), e, j, "Credit"),
                         Booked(Total(log, j, "Debit"), e, j, "Debit"))
    <3> DEFINE credit == Total(log, j, "Credit")
               debit == Total(log, j, "Debit")
    <3>1. BalanceOf(Snapshot, j) = Balance(credit, debit)
      BY <1>1, CurrentReplay
    <3>2. credit \in Int /\ debit \in Int
      BY <1>1, <1>4, TotalAppend DEF TypeOK, LogExtended
    <3>3. /\ Booked(credit, e, j, "Credit") =
               IF kind = "Credit" /\ id = j THEN credit + amount ELSE credit
          /\ Booked(debit, e, j, "Debit") =
               IF kind = "Debit" /\ id = j THEN debit + amount ELSE debit
      BY <1>3, <1>5 DEF Booked
    <3> HIDE DEF credit, debit
    <3>4. CASE j = id
      <4>1. old = Balance(credit, debit)
        BY <1>7, <3>4 DEF credit, debit
      <4>2. BalanceOf(Snapshot', j) = val
        BY <1>3, <1>9, <1>10, <1>12, <1>13, <3>4 DEF BalanceOf, Snapshot, Current
      <4>3. CASE kind = "Credit"
        <5>1. val = Balance(credit + amount, debit)
          BY <1>6, <3>2, <4>1, <4>3, NewBalanceValues DEF val
        <5> QED BY <3>3, <3>4, <4>2, <4>3, <5>1 DEF credit, debit
      <4>4. CASE kind = "Debit"
        <5>1. val = Balance(credit, debit + amount)
          BY <1>6, <3>2, <4>1, <4>4, NewBalanceValues DEF val
        <5> QED BY <3>3, <3>4, <4>2, <4>4, <5>1 DEF credit, debit
      <4> QED BY <4>3, <4>4
    <3>5. CASE j # id
      <4>1. balances'.current[j] = balances.current[j]
        BY <1>10, <3>5
      <4>2. Exists(balances, j) => Current(balances', j) = Current(balances, j)
        BY <1>1, <1>10, <3>5, <4>1, CurrentBalance DEF Current
      <4>3. BalanceOf(Snapshot', j) = BalanceOf(Snapshot, j)
        BY <4>1, <4>2 DEF BalanceOf, Snapshot, Exists
      <4> QED BY <3>1, <3>3, <3>5, <4>3 DEF credit, debit
    <3> QED BY <3>4, <3>5
  <2> QED BY <1>1, <1>4, <2>1, ExtendedBalances
<1>22. VersionsCounted'
  BY <1>1, <1>4, <1>5, ExtendedCount DEF VersionKinds
<1>23. TransactionsInOrder'
  BY <1>1, <1>4, <1>5, ExtendedOrder
<1>24. RowsOfSurvivors'
  <2>1. e.kind \notin ShownKinds /\ e.tx # NoTx
    BY <1>2, <1>5 DEF ShownKinds, VersionKinds
  <2> QED BY <1>1, <1>4, <2>1, ExtendedRowless
<1>25. ReferencesResolve'
  <2>1. transactions \subseteq transactions'
    BY <1>4 DEF LogExtended
  <2>2. ASSUME NEW x \in balanceEvents'
        PROVE  Exists(kandels', x.source) /\ balances'.version[x.id][x.n] # NoRow
    <3>1. CASE x \in balanceEvents
      BY <1>1, <1>10, <1>13, <1>14, <3>1
    <3>2. CASE x \notin balanceEvents
      <4>1. x.id = id /\ x.n = balances.current[id] + 1 /\ x.source = k
        BY <1>1, <2>2, <3>2
      <4> QED BY <1>1, <1>3, <1>10, <1>13, <4>1
    <3> QED BY <3>1, <3>2
  <2> QED BY <1>1, <2>1, <2>2 DEF ReferencesResolve
<1> QED BY <1>16, <1>17, <1>18, <1>19, <1>20, <1>21, <1>22, <1>23, <1>24, <1>25 DEF IInv

(***************************************************************************)
(* An event that adds a row to the history or indexes of offers, or both,  *)
(* and touches neither kandels nor balances.                               *)
(***************************************************************************)
LEMMA OtherStep ==
  ASSUME IInv, NEW k \in Kandels, NEW e, LogExtended(e), e.tx \in NextTx,
         e.kind \in {"retract", "populate", "mapping"}, e.kandel = k, e.before = Snapshot,
         Exists(kandels, k),
         kandels' = kandels, configs' = configs, balances' = balances,
         balanceEvents' = balanceEvents, accounts' = accounts,
         kandelEvents' = IF e.kind \in ShownKinds
                         THEN kandelEvents \cup {KandelEvent(k, e.tx, Null, e.kind, 0, e.offers)}
                         ELSE kandelEvents,
         offerIndexes' \in [Offers -> TxIds \cup {NoTx}],
         \A o \in Offers : offerIndexes'[o] # offerIndexes[o] =>
           KandelOf[o] = k /\ offerIndexes'[o] = e.tx
  PROVE  IInv'
<1> DEFINE n == Len(log)
           r == KandelEvent(k, e.tx, Null, e.kind, 0, e.offers)
<1>1. /\ TypeOK /\ VersionsChained /\ ConfigsOwned /\ LogUndoable /\ ReferencesResolve
      /\ ConfigsReplayed /\ BalancesReplayed /\ VersionsCounted
      /\ TransactionsInOrder /\ RowsOfSurvivors
  BY DEF IInv
<1>2. /\ n \in Nat /\ n < MaxLog /\ e \in Event /\ transactions' = transactions \cup {e.tx}
      /\ undoing' = NoTx /\ log' \in Seq(Event)
  BY KandelAssumption DEF LogExtended
<1>3. e.tx \in TxIds /\ e.tx # NoTx
  BY <1>1, <1>2, NextTxType
<1>4. e.kind \notin VersionKinds /\ e.kind \notin {"Credit", "Debit"} /\ e.kind # "params"
  BY DEF VersionKinds
<1>5. /\ r.kandel = k /\ r.tx = e.tx /\ r.version = Null
      /\ \A x \in kandelEvents' : x \in kandelEvents \/ x = r
  BY DEF KandelEvent
<1>6. TypeOK'
  <2>1. \A x \in kandelEvents' :
          x.kandel \in Kandels /\ x.tx \in TxIds /\ x.version \in Number \cup {Null}
    <3> HIDE DEF r
    <3> QED BY <1>1, <1>3, <1>5 DEF TypeOK
  <2>2. transactions' \subseteq TxIds
    BY <1>1, <1>2, <1>3 DEF TypeOK
  <2> QED BY <1>1, <1>2, <2>1, <2>2 DEF TypeOK
<1>7. VersionsChained'
  BY <1>1 DEF VersionsChained
<1>8. ConfigsOwned'
  BY <1>1 DEF ConfigsOwned
<1>9. LogUndoable'
  <2>1. Snapshot' = Snapshot
    BY DEF Snapshot
  <2>2. Undoable(e, Snapshot')
    BY <1>4, <2>1 DEF Undoable
  <2> QED BY <1>1, <2>2, ExtendedUndoable
<1>10. ConfigsReplayed'
  BY <1>1, <1>4, ConfigsKept
<1>11. BalancesReplayed'
  BY <1>1, <1>4, BalancesKept
<1>12. VersionsCounted'
  BY <1>1, <1>4, ExtendedCount
<1>13. TransactionsInOrder'
  BY <1>1, ExtendedOrder
<1>14. RowsOfSurvivors'
  <2>1. \A i : i = n + 1 => r = RowOf(i)'
    BY <1>4, NewRow DEF KandelEvent
  <2> HIDE DEF r
  <2>2. kandelEvents' = IF e.kind \in ShownKinds THEN kandelEvents \cup {r} ELSE kandelEvents
    BY DEF r
  <2> QED BY <1>1, <1>3, <2>1, <2>2, ExtendedRows
<1>15. ReferencesResolve'
  <2>1. \A x \in kandelEvents' :
          /\ Exists(kandels', x.kandel) /\ x.tx \in transactions'
          /\ x.version # Null => kandels'.version[x.kandel][x.version] # NoRow
    <3> HIDE DEF r
    <3> QED BY <1>1, <1>2, <1>5 DEF ReferencesResolve
  <2>2. \A o \in Offers : offerIndexes'[o] # NoTx =>
          Exists(kandels', KandelOf[o]) /\ offerIndexes'[o] \in transactions'
    <3> TAKE o \in Offers
    <3>1. CASE offerIndexes'[o] = offerIndexes[o]
      BY <1>1, <1>2, <3>1 DEF ReferencesResolve
    <3>2. CASE offerIndexes'[o] # offerIndexes[o]
      BY <1>2, <3>2
    <3> QED BY <3>1, <3>2
  <2> QED BY <1>1, <2>1, <2>2 DEF ReferencesResolve
<1> QED BY <1>6, <1>7, <1>8, <1>9, <1>10, <1>11, <1>12, <1>13, <1>14, <1>15 DEF IInv

(***************************************************************************)
(* The entry of an event that carries offers and nothing else.             *)
(***************************************************************************)
LEMMA OfferEntry ==
  ASSUME IInv, NEW kind \in {"retract", "populate", "mapping"}, NEW k \in Kandels,
         NEW tx \in NextTx, NEW S \in SUBSET Offers,
         Handled(kind, k, tx, Nothing, NoToken, 0, S)
  PROVE  LET e == Entry(kind, k, tx, Nothing, NoToken, 0, S)
         IN  /\ LogExtended(e) /\ e.kind = kind /\ e.kandel = k /\ e.tx = tx
             /\ e.offers = S /\ e.before = Snapshot /\ tx \in TxIds
<1> DEFINE e == Entry(kind, k, tx, Nothing, NoToken, 0, S)
<1>1. TypeOK /\ tx \in TxIds
  BY NextTxType DEF IInv, Handled
<1>2. Nothing \in [Field -> ParamValue \cup {Undefined}]
  BY DEF Nothing
<1>3. kind \in Kinds
  BY DEF Kinds, ShownKinds, VersionKinds
<1>4. LogExtended(e)
  BY <1>1, <1>2, <1>3, HandledLog
<1> QED BY <1>1, <1>4 DEF Entry

(***************************************************************************)
(* A retract.                                                              *)
(***************************************************************************)
LEMMA RetractStep ==
  ASSUME IInv, NEW k \in Kandels, NEW tx \in NextTx, NEW S \in SUBSET OffersOf(k),
         Retract(k, tx, S)
  PROVE  IInv'
<1> DEFINE e == Entry("retract", k, tx, Nothing, NoToken, 0, S)
<1>1. S \in SUBSET Offers
  BY DEF OffersOf
<1>2. /\ LogExtended(e) /\ e.kind = "retract" /\ e.kandel = k /\ e.tx = tx
      /\ e.offers = S /\ e.before = Snapshot
  BY <1>1, OfferEntry DEF Retract
<1>3. offerIndexes \in [Offers -> TxIds \cup {NoTx}]
  BY DEF IInv, TypeOK
<1>4. "retract" \in ShownKinds
  BY DEF ShownKinds
<1> HIDE DEF e
<1> QED BY <1>2, <1>3, <1>4, OtherStep DEF Retract, createKandelEvent

(***************************************************************************)
(* A populate, with the indexes of the offers that are new.                *)
(***************************************************************************)
LEMMA PopulateStep ==
  ASSUME IInv, NEW k \in Kandels, NEW tx \in NextTx, NEW S \in SUBSET OffersOf(k),
         Populate(k, tx, S)
  PROVE  IInv'
<1> DEFINE e == Entry("populate", k, tx, Nothing, NoToken, 0, S)
<1>1. S \in SUBSET Offers /\ \A o \in S : KandelOf[o] = k
  BY DEF OffersOf
<1>2. /\ LogExtended(e) /\ e.kind = "populate" /\ e.kandel = k /\ e.tx = tx
      /\ e.offers = S /\ e.before = Snapshot /\ tx \in TxIds
  BY <1>1, OfferEntry DEF Populate
<1>3. /\ offerIndexes' \in [Offers -> TxIds \cup {NoTx}]
      /\ \A o \in Offers : offerIndexes'[o] # offerIndexes[o] =>
           KandelOf[o] = k /\ offerIndexes'[o] = e.tx
  BY <1>1, <1>2 DEF IInv, TypeOK, Populate, createOfferIndex
<1>4. "populate" \in ShownKinds
  BY DEF ShownKinds
<1> HIDE DEF e
<1> QED BY <1>2, <1>3, <1>4, OtherStep DEF Populate, createKandelEvent

(***************************************************************************)
(* The index of one offer.                                                 *)
(***************************************************************************)
LEMMA SetIndexMappingStep ==
  ASSUME IInv, NEW k \in Kandels, NEW tx \in NextTx, NEW o \in OffersOf(k),
         SetIndexMapping(k, tx, o)
  PROVE  IInv'
<1> DEFINE e == Entry("mapping", k, tx, Nothing, NoToken, 0, {o})
<1>1. {o} \in SUBSET Offers /\ KandelOf[o] = k
  BY DEF OffersOf
<1>2. /\ LogExtended(e) /\ e.kind = "mapping" /\ e.kandel = k /\ e.tx = tx
      /\ e.offers = {o} /\ e.before = Snapshot /\ tx \in TxIds
  <2> DEFINE S == {o}
  <2>1. /\ S \in SUBSET Offers
        /\ Handled("mapping", k, tx, Nothing, NoToken, 0, S)
    BY <1>1 DEF SetIndexMapping
  <2> HIDE DEF S
  <2>2. "mapping" \in {"retract", "populate", "mapping"}
    OBVIOUS
  <2>3. LET d == Entry("mapping", k, tx, Nothing, NoToken, 0, S)
        IN  /\ LogExtended(d) /\ d.kind = "mapping" /\ d.kandel = k /\ d.tx = tx
            /\ d.offers = S /\ d.before = Snapshot /\ tx \in TxIds
    BY <2>1, <2>2, OfferEntry
  <2> QED BY <2>3 DEF S
<1>3. /\ offerIndexes' \in [Offers -> TxIds \cup {NoTx}]
      /\ \A p \in Offers : offerIndexes'[p] # offerIndexes[p] =>
           KandelOf[p] = k /\ offerIndexes'[p] = e.tx
  BY <1>1, <1>2 DEF IInv, TypeOK, SetIndexMapping, createOfferIndex
<1>4. "mapping" \notin ShownKinds
  BY DEF ShownKinds, VersionKinds
<1> HIDE DEF e
<1> QED BY <1>2, <1>3, <1>4, OtherStep DEF SetIndexMapping

(***************************************************************************)
(* The invariant holds of empty tables and an empty log.                   *)
(***************************************************************************)
LEMMA InitIInv == Init => IInv
<1> SUFFICES ASSUME Init
             PROVE  IInv
  OBVIOUS
<1>1. /\ kandels = [current |-> [k \in Kandels |-> Null],
                    version |-> [k \in Kandels |-> [n \in Number |-> NoRow]]]
      /\ balances = [current |-> [id \in BalanceId |-> Null],
                     version |-> [id \in BalanceId |-> [n \in Number |-> NoRow]]]
      /\ configs = [c \in ConfigId |-> NoRow] /\ kandelEvents = {}
      /\ offerIndexes = [o \in Offers |-> NoTx] /\ balanceEvents = {}
      /\ accounts = {} /\ transactions = {} /\ log = <<>> /\ undoing = NoTx
      /\ Len(log) = 0
  BY DEF Init, EmptyTables
<1>2. /\ \A k \in Kandels : kandels.current[k] = Null /\ ~Exists(kandels, k)
      /\ \A k \in Kandels, n \in Number : kandels.version[k][n] = NoRow
      /\ \A id \in BalanceId : balances.current[id] = Null /\ ~Exists(balances, id)
      /\ \A id \in BalanceId, n \in Number : balances.version[id][n] = NoRow
      /\ \A c \in ConfigId : configs[c] = NoRow
      /\ \A o \in Offers : offerIndexes[o] = NoTx
  BY <1>1 DEF Exists
<1>3. TypeOK
  BY <1>1 DEF TypeOK, Tables
<1>4. VersionsChained
  <2>1. \A k \in Kandels : Chained(kandels, k)
    BY <1>2 DEF Chained, Null, Number
  <2>2. \A id \in BalanceId : Chained(balances, id)
    BY <1>2 DEF Chained, Null, Number
  <2> QED BY <2>1, <2>2 DEF VersionsChained
<1>5. ConfigsOwned
  BY <1>2 DEF ConfigsOwned
<1>6. LogUndoable /\ TransactionsInOrder /\ RowsOfSurvivors
  BY <1>1 DEF LogUndoable, TransactionsInOrder, RowsOfSurvivors
<1>7. ReferencesResolve
  BY <1>1, <1>2 DEF ReferencesResolve
<1>8. \A i \in 0..Len(log) : i = 0 /\ After(i) = Snapshot /\ SubSeq(log, 1, i) = <<>>
  BY <1>1 DEF After
<1>9. Snapshot.kandels = kandels /\ Snapshot.balances = balances
  BY DEF Snapshot
<1>10. ConfigsReplayed
  BY <1>2, <1>8, <1>9 DEF ConfigsReplayed
<1>11. BalancesReplayed
  <2>1. \A id, kind : Total(<<>>, id, kind) = 0
    BY TotalOfNone
  <2>2. \A id \in BalanceId : BalanceOf(Snapshot, id) = NoBalance
    BY <1>2, <1>9 DEF BalanceOf
  <2>3. 0 - 0 = 0
    OBVIOUS
  <2>4. ASSUME NEW i \in 0..Len(log), NEW id \in BalanceId
        PROVE  LET l == SubSeq(log, 1, i) IN
               BalanceOf(After(i), id) =
                 [deposit |-> Total(l, id, "Credit"), withdrawal |-> Total(l, id, "Debit"),
                  balance |-> Total(l, id, "Credit") - Total(l, id, "Debit")]
    BY <1>8, <2>1, <2>2, <2>3, Zenon DEF NoBalance
  <2> QED BY <2>4 DEF BalancesReplayed
<1>12. VersionsCounted
  <2>1. \A k \in Kandels : VersionEvents(k, Len(log)) = {}
    BY <1>1 DEF VersionEvents
  <2>2. Cardinality({}) = 0
    BY FS_EmptySet
  <2>3. ASSUME NEW k \in Kandels
        PROVE  kandels.current[k] + 1 = Cardinality(VersionEvents(k, Len(log)))
    <3>1. kandels.current[k] + 1 = 0
      BY <1>2 DEF Null
    <3> QED BY <2>1, <2>2, <3>1, Zenon
  <2> QED BY <2>3 DEF VersionsCounted
<1> QED BY <1>3, <1>4, <1>5, <1>6, <1>7, <1>10, <1>11, <1>12 DEF IInv

(***************************************************************************)
(* The invariant looks at the variables and at nothing else.               *)
(***************************************************************************)
LEMMA StutterIInv == IInv /\ UNCHANGED vars => IInv'
<1> SUFFICES ASSUME IInv, UNCHANGED vars
             PROVE  IInv'
  OBVIOUS
<1>1. /\ kandels' = kandels /\ configs' = configs /\ kandelEvents' = kandelEvents
      /\ offerIndexes' = offerIndexes /\ balances' = balances
      /\ balanceEvents' = balanceEvents /\ accounts' = accounts
      /\ transactions' = transactions /\ log' = log /\ undoing' = undoing
  BY DEF vars, tables
<1>2. /\ TypeOK' = TypeOK /\ VersionsChained' = VersionsChained
      /\ ConfigsOwned' = ConfigsOwned /\ ReferencesResolve' = ReferencesResolve
  BY <1>1 DEF TypeOK, VersionsChained, ConfigsOwned, ReferencesResolve
<1>3. Snapshot' = Snapshot /\ LastEvent' = LastEvent
  BY <1>1 DEF Snapshot, LastEvent
<1>4. \A i : After(i)' = After(i)
  BY <1>1, <1>3 DEF After
<1>5. \A k, i : VersionEvents(k, i)' = VersionEvents(k, i)
  BY <1>1 DEF VersionEvents
<1>6. LogUndoable'
  BY <1>1, <1>4 DEF IInv, LogUndoable
<1>7. ConfigsReplayed'
  BY <1>1, <1>4 DEF IInv, ConfigsReplayed
<1>8. BalancesReplayed'
  BY <1>1, <1>4 DEF IInv, BalancesReplayed
<1>9. VersionsCounted' /\ TransactionsInOrder'
  BY <1>1, <1>3, <1>5 DEF IInv, VersionsCounted, TransactionsInOrder
<1>10. RowsOfSurvivors'
  <2>1. \A i : RowOf(i)' = RowOf(i)
    BY <1>1, <1>5 DEF RowOf
  <2> QED BY <1>1, <2>1 DEF IInv, RowsOfSurvivors
<1> QED BY <1>2, <1>6, <1>7, <1>8, <1>9, <1>10 DEF IInv

(***************************************************************************)
(* The invariant is inductive: one case per event, and the undo.           *)
(***************************************************************************)
LEMMA NextIInv == IInv /\ [Next]_vars => IInv'
<1> SUFFICES ASSUME IInv, [Next]_vars
             PROVE  IInv'
  OBVIOUS
<1>1. ASSUME NEW k \in Kandels, NEW tx \in NextTx, NEW p \in Params(CreateFields),
             NewKandel(k, tx, p)
      PROVE  IInv'
  BY <1>1, NewKandelStep
<1>2. ASSUME NEW k \in Kandels, NEW tx \in NextTx, NEW p \in Params(ParamsFields),
             SetParams(k, tx, p)
      PROVE  IInv'
  BY <1>2, SetParamsStep
<1>3. ASSUME NEW k \in Kandels, NEW tx \in NextTx, NEW t \in Tokens, NEW amount \in Amount,
             \/ DepositWithdrawal("Credit", k, tx, t, amount)
             \/ DepositWithdrawal("Debit", k, tx, t, amount)
      PROVE  IInv'
  <2>1. PICK kind \in {"Credit", "Debit"} : DepositWithdrawal(kind, k, tx, t, amount)
    BY <1>3
  <2> QED BY <2>1, DepositStep
<1>4. ASSUME NEW k \in Kandels, NEW tx \in NextTx, NEW S \in SUBSET OffersOf(k),
             Retract(k, tx, S)
      PROVE  IInv'
  BY <1>4, RetractStep
<1>5. ASSUME NEW k \in Kandels, NEW tx \in NextTx, NEW S \in SUBSET OffersOf(k),
             Populate(k, tx, S)
      PROVE  IInv'
  BY <1>5, PopulateStep
<1>6. ASSUME NEW k \in Kandels, NEW tx \in NextTx, NEW o \in OffersOf(k),
             SetIndexMapping(k, tx, o)
      PROVE  IInv'
  BY <1>6, SetIndexMappingStep
<1>7. CASE Undo
  BY <1>7, UndoStep
<1>8. CASE UNCHANGED vars
  BY <1>8, StutterIInv
<1> QED BY <1>1, <1>2, <1>3, <1>4, <1>5, <1>6, <1>7, <1>8 DEF Next

-----------------------------------------------------------------------------
(***************************************************************************)
(* The inductive invariant holds in every state that the consumer reaches. *)
(***************************************************************************)
THEOREM Invariance == Spec => []IInv
<1> QED BY InitIInv, NextIInv, PTL DEF Spec

(***************************************************************************)
(* Every handler of the kandel stream and every undo keeps the types of    *)
(* the tables: no version number runs over the ones there are, and no      *)
(* configuration is a reused id of something else.                         *)
(***************************************************************************)
THEOREM TypeCorrect == Spec => []TypeOK
<1>1. IInv => TypeOK
  BY DEF IInv
<1> QED BY <1>1, Invariance, PTL

(***************************************************************************)
(* deleteKandelConfigIfNotUsed deletes the configuration of a version that *)
(* goes and never that of another: a configuration is kept exactly as long *)
(* as the one version it is for.                                           *)
(***************************************************************************)
THEOREM ConfigOfOneVersion == Spec => []ConfigsOfVersions
<1>1. ASSUME IInv
      PROVE  ConfigsOfVersions
  <2> DEFINE Users(c) == {v \in Kandels \X Number :
                            /\ kandels.version[v[1]][v[2]] # NoRow
                            /\ kandels.version[v[1]][v[2]].val.config = c}
  <2>1. ConfigsOwned
    BY <1>1 DEF IInv
  <2>2. ASSUME NEW c \in ConfigId
        PROVE  Cardinality(Users(c)) = IF configs[c] = NoRow THEN 0 ELSE 1
    <3>1. CASE configs[c] = NoRow
      <4>1. Users(c) = {}
        BY <2>1, <3>1 DEF ConfigsOwned
      <4> QED BY <3>1, <4>1, FS_EmptySet
    <3>2. CASE configs[c] # NoRow
      <4>1. PICK k \in Kandels, n \in Number :
              kandels.version[k][n] # NoRow /\ kandels.version[k][n].val.config = c
        BY <2>1, <3>2 DEF ConfigsOwned
      <4>2. \A v \in Users(c) : v = <<k, n>>
        BY <2>1, <4>1 DEF ConfigsOwned
      <4>3. <<k, n>> \in Users(c)
        BY <4>1
      <4>4. Users(c) = {<<k, n>>}
        <5> HIDE DEF Users
        <5> QED BY <4>2, <4>3
      <4>5. Cardinality({<<k, n>>}) = 1
        BY FS_Singleton
      <4> QED BY <3>2, <4>4, <4>5
    <3> QED BY <3>1, <3>2
  <2> QED BY <2>2 DEF ConfigsOfVersions
<1> QED BY <1>1, Invariance, PTL

(***************************************************************************)
(* The current version of a kandel has the configuration that the          *)
(* surviving events give it, and there is one version per event that makes *)
(* one, whatever was undone on the way and whatever the other kandels did. *)
(***************************************************************************)
THEOREM ConfigReplayed == Spec => []ConfigIsReplay
<1>1. IInv => ConfigIsReplay
  BY CurrentReplay DEF IInv, ConfigIsReplay, VersionsCounted
<1> QED BY <1>1, Invariance, PTL

(***************************************************************************)
(* The balance of a reserve is what all the kandels that share it have     *)
(* deposited less what they have withdrawn, in the events that survive.    *)
(***************************************************************************)
THEOREM ReserveBalanceReplayed == Spec => []ReserveBalanceIsReplay
<1>1. ASSUME IInv
      PROVE  ReserveBalanceIsReplay
  <2>1. TypeOK /\ ConfigsReplayed /\ BalancesReplayed
    BY <1>1 DEF IInv
  <2>2. ASSUME NEW id \in BalanceId, Exists(balances, id)
        PROVE  Current(balances, id).val =
                 Balance(Total(log, id, "Credit"), Total(log, id, "Debit"))
    <3>1. BalanceOf(Snapshot, id) = Current(balances, id).val
      BY <2>2 DEF BalanceOf, Snapshot
    <3> QED BY <2>1, <3>1, CurrentReplay
  <2> QED BY <2>2 DEF ReserveBalanceIsReplay, Balance
<1> QED BY <1>1, Invariance, PTL

(***************************************************************************)
(* When no transaction is half undone, the history of the kandels has a    *)
(* row for every surviving event that is shown, and no other row: although *)
(* deleteAllKandelEventsForTransaction takes the rows of all kandels.      *)
(***************************************************************************)
THEOREM HistoryOfSurvivors == Spec => []EventsOfSurvivors
<1>1. ASSUME IInv, undoing = NoTx
      PROVE  kandelEvents = {RowOf(i) : i \in {j \in 1..Len(log) : log[j].kind \in ShownKinds}}
  <2>1. RowsOfSurvivors /\ log \in Seq(Event)
    BY <1>1 DEF IInv, TypeOK
  <2>2. ASSUME NEW i \in 1..Len(log)
        PROVE  log[i].tx # NoTx
    <3>1. log[i] \in Event
      BY <2>1
    <3>2. log[i].tx \in 1..MaxLog
      BY <3>1 DEF Event, TxIds
    <3> QED BY <3>2, KandelAssumption DEF NoTx
  <2>3. \A i \in 1..Len(log) : log[i].kind \in ShownKinds => RowOf(i) \in kandelEvents
    BY <1>1, <2>1, <2>2 DEF RowsOfSurvivors
  <2>4. \A e \in kandelEvents :
          \E i \in 1..Len(log) : log[i].kind \in ShownKinds /\ e = RowOf(i)
    BY <2>1 DEF RowsOfSurvivors
  <2> QED BY <2>3, <2>4
<1>2. IInv => EventsOfSurvivors
  BY <1>1 DEF EventsOfSurvivors
<1> QED BY <1>2, Invariance, PTL

(***************************************************************************)
(* What a row names is there, although nothing in the database checks it.  *)
(***************************************************************************)
THEOREM NoDanglingReferences == Spec => []ReferencesResolve
<1>1. IInv => ReferencesResolve
  BY DEF IInv
<1> QED BY <1>1, Invariance, PTL

(***************************************************************************)
(* Only an undo shortens the log.                                          *)
(***************************************************************************)
LEMMA OnlyUndoShortens ==
  ASSUME IInv, [Next]_vars, Len(log') < Len(log)
  PROVE  Undo
<1>1. log \in Seq(Event) /\ Len(log) \in Nat
  BY DEF IInv, TypeOK
<1>2. ASSUME NEW kind, NEW k, NEW tx, NEW params, NEW token, NEW amount, NEW S,
             Handled(kind, k, tx, params, token, amount, S)
      PROVE  FALSE
  <2>1. PICK e : log' = Append(log, e)
    BY <1>2 DEF Handled
  <2>2. Len(log') = Len(log) + 1
    BY <1>1, <2>1
  <2> QED BY <1>1, <2>2
<1>3. CASE UNCHANGED vars
  BY <1>1, <1>3 DEF vars
<1>4. ASSUME NEW k \in Kandels, NEW tx \in NextTx
      PROVE  /\ \A p : ~NewKandel(k, tx, p) /\ ~SetParams(k, tx, p)
             /\ \A kind, t, amount : ~DepositWithdrawal(kind, k, tx, t, amount)
             /\ \A S : ~Retract(k, tx, S) /\ ~Populate(k, tx, S)
             /\ \A o : ~SetIndexMapping(k, tx, o)
  <2>1. \A p : ~NewKandel(k, tx, p)
    BY <1>2, Zenon DEF NewKandel
  <2>2. \A p : ~SetParams(k, tx, p)
    BY <1>2, Zenon DEF SetParams
  <2>3. \A kind, t, amount : ~DepositWithdrawal(kind, k, tx, t, amount)
    BY <1>2, Zenon DEF DepositWithdrawal
  <2>4. \A S : ~Retract(k, tx, S) /\ ~Populate(k, tx, S)
    BY <1>2, Zenon DEF Retract, Populate
  <2>5. \A o : ~SetIndexMapping(k, tx, o)
    BY <1>2, Zenon DEF SetIndexMapping
  <2> QED BY <2>1, <2>2, <2>3, <2>4, <2>5
<1> QED BY <1>3, <1>4 DEF Next

(***************************************************************************)
(* Undoing an event puts kandels, configurations, balances and the         *)
(* deposits and withdrawals back to what they were before it, row for row, *)
(* also when other kandels have used the same reserve or the same          *)
(* configuration ids since.                                                *)
(***************************************************************************)
THEOREM UndoRestoresTables == Spec => UndoRestores
<1>1. ASSUME IInv, [Next]_vars, Len(log') < Len(log)
      PROVE  Snapshot' = LastEvent.before
  BY <1>1, OnlyUndoShortens, UndoSnapshot
<1>2. IInv /\ [Next]_vars => [Len(log') < Len(log) => Snapshot' = LastEvent.before]_vars
  BY <1>1
<1> QED BY <1>2, Invariance, PTL DEF Spec, UndoRestores


-----------------------------------------------------------------------------
(***************************************************************************)
(* The sum of deposits and withdrawals.                                    *)
(***************************************************************************)

(***************************************************************************)
(* A sum is taken one deposit or withdrawal at a time.                     *)
(***************************************************************************)
LEMMA SumTrace ==
  ASSUME NEW B, IsFiniteSet(B), \A b \in B : Signed(b) \in Int
  PROVE  \E f : IsSum(f, B, [b \in B |-> Signed(b)]) /\ f[B] = SumOf(B)
<1> DEFINE w == [b \in B |-> Signed(b)]
           P(h) == h = [s \in SUBSET B |->
                         IF s = {} THEN 0
                         ELSE h[s \ {Pick(s)}] + Signed(Pick(s))]
           f == CHOOSE h : P(h)
<1> HIDE DEF f
<1>1. \A b \in B : w[b] = Signed(b) /\ w[b] \in Int
  OBVIOUS
<1>2. PICK g : IsSum(g, B, w)
  <2> HIDE DEF w
  <2> QED BY <1>1, SumExists
<1>3. ASSUME NEW h
      PROVE  /\ P(h) => Adds(h, B, w)
             /\ IsSum(h, B, w) => P(h)
  <2>1. \A s \in SUBSET B : s # {} => Pick(s) \in B
    BY DEF Pick
  <2>2. \A s \in SUBSET B : s # {} => w[Pick(s)] = Signed(Pick(s))
    BY <1>1, <2>1
  <2> HIDE DEF w
  <2> QED BY <2>2 DEF IsSum, Adds
<1>4. P(f)
  <2>1. P(g)
    BY <1>2, <1>3
  <2> HIDE DEF P
  <2> QED BY <2>1 DEF f
<1>5. SumOf(B) = f[B]
  BY DEF SumOf, FoldSet, MapThenFoldSet, f, Pick
<1>6. Adds(f, B, w)
  BY <1>3, <1>4
<1>7. f \in [SUBSET B -> Int]
  <2>1. \A s \in SUBSET B : f[s] \in Int
    <3> HIDE DEF w, P
    <3> QED BY <1>1, <1>6, SumType
  <2> QED BY <1>4, <2>1
<1> HIDE DEF w
<1>8. IsSum(f, B, w)
  BY <1>6, <1>7 DEF IsSum
<1> QED BY <1>5, <1>8 DEF w

(***************************************************************************)
(* One more deposit or withdrawal adds its amount, whatever the order in   *)
(* which they are summed up.                                               *)
(***************************************************************************)
LEMMA SumOfMore ==
  ASSUME NEW B, IsFiniteSet(B), NEW x, x \notin B, Signed(x) \in Int,
         \A b \in B : Signed(b) \in Int
  PROVE  SumOf(B) \in Int /\ SumOf(B \cup {x}) = SumOf(B) + Signed(x)
<1> DEFINE C == B \cup {x}
           v == [b \in B |-> Signed(b)]
           w == [b \in C |-> Signed(b)]
<1>1. IsFiniteSet(C) /\ \A b \in C : Signed(b) \in Int
  BY FS_AddElement
<1>2. PICK f : IsSum(f, B, v) /\ f[B] = SumOf(B)
  BY SumTrace
<1>3. PICK g : IsSum(g, C, w) /\ g[C] = SumOf(C)
  <2> HIDE DEF C
  <2> QED BY <1>1, SumTrace
<1>4. /\ C \ {x} = B /\ x \in C /\ w[x] = Signed(x) /\ B \subseteq C
      /\ \A b \in C : w[b] \in Int
      /\ \A b \in B : v[b] = w[b]
  BY <1>1
<1> HIDE DEF C, v, w
<1>5. g[C] = g[B] + w[x]
  BY <1>1, <1>3, <1>4, SumTake
<1>6. f[B] = g[B]
  BY <1>2, <1>3, <1>4, SumSame DEF IsSum
<1>7. SumOf(B) \in Int
  BY <1>2 DEF IsSum
<1>8. SumOf(C) = SumOf(B) + Signed(x)
  BY <1>2, <1>3, <1>4, <1>5, <1>6
<1> QED BY <1>7, <1>8 DEF C

(***************************************************************************)
(* Nothing comes to nothing.                                               *)
(***************************************************************************)
LEMMA SumOfNone == SumOf({}) = 0
<1>1. PICK f : IsSum(f, {}, [b \in {} |-> Signed(b)]) /\ f[{}] = SumOf({})
  BY SumTrace, FS_EmptySet
<1> QED BY <1>1 DEF IsSum, Adds

-----------------------------------------------------------------------------
(***************************************************************************)
(* The deposits and withdrawals shown come to the balance.                 *)
(***************************************************************************)

(***************************************************************************)
(* At first there are none.                                                *)
(***************************************************************************)
LEMMA InitDeposits == Init => DepositsListed
<1> SUFFICES ASSUME Init
             PROVE  DepositsListed
  OBVIOUS
<1>1. /\ Len(log) = 0 /\ After(0) = Snapshot /\ Snapshot.balanceEvents = {}
      /\ Snapshot.balances = EmptyTables(BalanceId)
  BY DEF Init, After, Snapshot
<1>2. \A id \in BalanceId : BalanceOf(Snapshot, id).balance = 0
  BY <1>1 DEF BalanceOf, Exists, EmptyTables, NoBalance
<1>3. \A id : DepositsOf({}, id) = {}
  BY DEF DepositsOf
<1>4. SumsListed(Snapshot)
  BY <1>1, <1>2, <1>3, SumOfNone, FS_EmptySet DEF SumsListed
<1> QED BY <1>1, <1>4 DEF DepositsListed

(***************************************************************************)
(* What is shown is the sum when it is for the tables after the new event. *)
(***************************************************************************)
LEMMA ExtendedDeposits ==
  ASSUME DepositsListed, NEW e, LogExtended(e), SumsListed(Snapshot')
  PROVE  DepositsListed'
<1> DEFINE n == Len(log)
<1>1. /\ n \in Nat /\ Len(log') = n + 1
      /\ \A i \in 0..n : After(i)' = After(i)
  BY DEF LogExtended
<1> SUFFICES ASSUME NEW i \in 0..(n + 1)
             PROVE  SumsListed(After(i)')
  BY <1>1 DEF DepositsListed, SumsListed
<1>2. CASE i = n + 1
  <2>1. After(i)' = Snapshot'
    BY <1>1, <1>2 DEF After
  <2> QED BY <2>1
<1>3. CASE i # n + 1
  <2>1. i \in 0..n
    BY <1>1, <1>3
  <2> QED BY <1>1, <2>1 DEF DepositsListed
<1> QED BY <1>2, <1>3

(***************************************************************************)
(* And after an undo.                                                      *)
(***************************************************************************)
LEMMA ShortenedDeposits ==
  ASSUME DepositsListed, LogShortened
  PROVE  DepositsListed'
<1> DEFINE n == Len(log)
<1>1. /\ n \in Nat \ {0} /\ Len(log') = n - 1
      /\ \A i \in 0..(n - 1) : After(i)' = After(i)
  BY DEF LogShortened
<1> SUFFICES ASSUME NEW i \in 0..(n - 1)
             PROVE  SumsListed(After(i)')
  BY <1>1 DEF DepositsListed, SumsListed
<1>2. i \in 0..n
  BY <1>1
<1> QED BY <1>1, <1>2 DEF DepositsListed

(***************************************************************************)
(* Before the next event, the tables are those after all that were.        *)
(***************************************************************************)
LEMMA NowListed ==
  ASSUME TypeOK, DepositsListed
  PROVE  SumsListed(Snapshot)
<1>1. Len(log) \in 0..Len(log) /\ After(Len(log)) = Snapshot
  BY DEF TypeOK, After
<1> QED BY <1>1 DEF DepositsListed

(***************************************************************************)
(* A deposit or a withdrawal changes the one balance by what is shown of   *)
(* it: it is a row that was not there.                                     *)
(***************************************************************************)
LEMMA DepositListed ==
  ASSUME IInv, DepositsListed, NEW kind \in {"Credit", "Debit"}, NEW k \in Kandels,
         NEW tx \in NextTx, NEW t \in Tokens, NEW amount \in Amount,
         DepositWithdrawal(kind, k, tx, t, amount)
  PROVE  DepositsListed'
<1> DEFINE n == Len(log)
           id == ReserveBalance(k, t)
           b == [id |-> id, n |-> balances.current[id] + 1, kind |-> kind, source |-> k,
                 amount |-> amount]
           e == Entry(kind, k, tx, Nothing, t, amount, {})
<1>1. /\ TypeOK /\ ReferencesResolve /\ BalancesReplayed /\ ConfigsReplayed
      /\ n < MaxLog /\ CanAddVersion(balances, id)
      /\ balanceEvents' = balanceEvents \cup {b}
      /\ Handled(kind, k, tx, Nothing, t, amount, {})
  BY DEF IInv, DepositWithdrawal, Handled
<1>2. tx \in TxIds
  BY <1>1, NextTxType
<1>3. id \in BalanceId /\ id = <<ReserveOf[k], t>>
  BY KandelAssumption DEF ReserveBalance, BalanceId
<1>4. LogExtended(e)
  <2>1. Nothing \in [Field -> ParamValue \cup {Undefined}]
    BY DEF Nothing
  <2>2. kind \in Kinds
    BY DEF Kinds
  <2> QED BY <1>1, <1>2, <2>1, <2>2, HandledLog
<1>5. e.kind = kind /\ e.kandel = k /\ e.token = t /\ e.amount = amount
  BY DEF Entry
<1>6. /\ b.id = id /\ b.kind = kind /\ b.source = k /\ b.amount = amount
      /\ b.n = balances.current[id] + 1
  OBVIOUS
<1>7. BalancesReplayed'
  BY DepositStep DEF IInv
<1> HIDE DEF id, b, e
<1>8. amount \in Int
  BY KandelAssumption
<1>9. Signed(b) = IF kind = "Credit" THEN amount ELSE -amount
  BY <1>6 DEF Signed
<1>10. \A x \in balanceEvents : x \in BalanceEvent /\ Signed(x) \in Int
  <2> SUFFICES ASSUME NEW x \in balanceEvents
               PROVE  x \in BalanceEvent /\ Signed(x) \in Int
    OBVIOUS
  <2>1. x \in BalanceEvent
    BY <1>1 DEF TypeOK
  <2>2. x.amount \in Amount
    BY <2>1 DEF BalanceEvent
  <2>3. x.amount \in Int
    <3>1. \A a \in Amount : a \in Int
      BY KandelAssumption
    <3> QED BY <2>2, <3>1
  <2> QED BY <2>1, <2>3 DEF Signed
<1>11. b \notin balanceEvents
  <2>1. \A x \in balanceEvents : balances.version[x.id][x.n] # NoRow
    BY <1>1 DEF ReferencesResolve
  <2>2. balances.version[b.id][b.n] = NoRow
    BY <1>1, <1>6 DEF CanAddVersion
  <2> QED BY <2>1, <2>2
<1>12. IsFiniteSet(balanceEvents) /\ SumsListed(Snapshot)
  BY <1>1, NowListed DEF SumsListed, Snapshot
<1>13. ASSUME NEW j \in BalanceId
       PROVE  BalanceOf(Snapshot', j).balance = SumOf(DepositsOf(balanceEvents', j))
  <2> DEFINE D == DepositsOf(balanceEvents, j)
             credit == Total(log, j, "Credit")
             debit == Total(log, j, "Debit")
  <2>1. credit \in Int /\ debit \in Int
    BY <1>1, <1>4, TotalAppend DEF TypeOK, LogExtended
  <2>2. BalanceOf(Snapshot, j).balance = credit - debit
    BY <1>1, CurrentReplay DEF Balance
  <2>3. BalanceOf(Snapshot', j).balance =
          Booked(credit, e, j, "Credit") - Booked(debit, e, j, "Debit")
    <3> SUFFICES ASSUME NEW m, m = n + 1
                 PROVE  BalanceOf(Snapshot', j).balance =
                          Booked(credit, e, j, "Credit") - Booked(debit, e, j, "Debit")
      OBVIOUS
    <3>1. /\ m \in 0..Len(log') /\ m = Len(log') /\ SubSeq(log', 1, m) = Append(log, e)
          /\ log \in Seq(Event) /\ e \in Event /\ After(m)' = Snapshot'
      <4>1. /\ n \in Nat /\ m \in Nat /\ m = Len(log') /\ SubSeq(log', 1, m) = Append(log, e)
            /\ log \in Seq(Event) /\ e \in Event
        BY <1>1, <1>4 DEF LogExtended, TypeOK
      <4>2. After(m)' = Snapshot'
        BY <4>1 DEF After
      <4> QED BY <4>1, <4>2
    <3>2. BalanceOf(After(m)', j) =
            Balance(Total(SubSeq(log', 1, m), j, "Credit"),
                    Total(SubSeq(log', 1, m), j, "Debit"))
      BY <1>7, <3>1 DEF BalancesReplayed, Balance
    <3>3. \A q : Total(Append(log, e), j, q) = Booked(Total(log, j, q), e, j, q)
      BY <3>1, TotalAppend
    <3>4. BalanceOf(Snapshot', j) =
            Balance(Booked(credit, e, j, "Credit"), Booked(debit, e, j, "Debit"))
      BY <3>1, <3>2, <3>3
    <3> QED BY <3>4 DEF Balance
  <2>4. /\ D \subseteq balanceEvents /\ IsFiniteSet(D) /\ b \notin D
        /\ \A x \in D : Signed(x) \in Int
    <3>1. D \in SUBSET balanceEvents
      BY DEF DepositsOf
    <3> HIDE DEF D
    <3> QED BY <1>10, <1>11, <1>12, <3>1, FS_Subset
  <2>5. BalanceOf(Snapshot, j).balance = SumOf(D)
    BY <1>12 DEF SumsListed, Snapshot
  <2>6. /\ Booked(credit, e, j, "Credit") =
             IF kind = "Credit" /\ id = j THEN credit + amount ELSE credit
        /\ Booked(debit, e, j, "Debit") =
             IF kind = "Debit" /\ id = j THEN debit + amount ELSE debit
    BY <1>3, <1>5 DEF Booked
  <2>7. DepositsOf(balanceEvents', j) = IF j = id THEN D \cup {b} ELSE D
    <3>1. (ReserveOf[b.source] = j[1] /\ b.id[2] = j[2]) <=> j = id
      BY <1>3, <1>6 DEF BalanceId
    <3> QED BY <1>1, <3>1 DEF DepositsOf
  <2> HIDE DEF D, credit, debit
  <2>8. CASE j = id
    <3>1. SumOf(D \cup {b}) = SumOf(D) + Signed(b) /\ SumOf(D) \in Int
      <4>1. Signed(b) \in Int
        BY <1>8, <1>9
      <4> QED BY <2>4, <4>1, SumOfMore
    <3> QED BY <1>8, <1>9, <2>1, <2>2, <2>3, <2>5, <2>6, <2>7, <2>8, <3>1
  <2>9. CASE j # id
    BY <2>2, <2>3, <2>5, <2>6, <2>7, <2>9
  <2> QED BY <2>8, <2>9
<1>14. IsFiniteSet(balanceEvents')
  BY <1>1, <1>12, FS_AddElement
<1>15. SumsListed(Snapshot')
  <2>1. Snapshot'.balanceEvents = balanceEvents'
    BY DEF Snapshot
  <2> QED BY <1>13, <1>14, <2>1 DEF SumsListed
<1> QED BY <1>4, <1>15, ExtendedDeposits

-----------------------------------------------------------------------------
(***************************************************************************)
(* The versions of a kandel, also those that are not its latest.           *)
(***************************************************************************)

(***************************************************************************)
(* What an event was counted as has its number among the versions.         *)
(***************************************************************************)
LEMMA CountedVersion ==
  ASSUME IInv, NEW k \in Kandels, NEW i \in 0..Len(log), VersionEvents(k, i) # {}
  PROVE  /\ kandels.current[k] \in Number
         /\ Cardinality(VersionEvents(k, i)) - 1 \in 0..kandels.current[k]
         /\ Cardinality(VersionEvents(k, i)) - 1 \in Number
<1> DEFINE n == Len(log)
           c == Cardinality(VersionEvents(k, i))
           d == Cardinality(VersionEvents(k, n))
<1>1. n \in Nat /\ i \in Nat /\ i <= n /\ kandels.current[k] \in Number \cup {Null}
  BY DEF IInv, TypeOK, Tables
<1>2. /\ IsFiniteSet(VersionEvents(k, i)) /\ c \in Nat
      /\ IsFiniteSet(VersionEvents(k, n)) /\ d \in Nat
  BY <1>1, VersionEventsFinite
<1>3. VersionEvents(k, i) \subseteq VersionEvents(k, n)
  BY <1>1 DEF VersionEvents
<1>4. c <= d
  BY <1>2, <1>3, FS_Subset
<1>5. c # 0
  BY <1>2, FS_EmptySet
<1>6. kandels.current[k] + 1 = d
  BY DEF IInv, VersionsCounted
<1> HIDE DEF c, d
<1>7. kandels.current[k] \in Number
  BY <1>1, <1>2, <1>4, <1>5, <1>6 DEF Null
<1>8. c - 1 \in 0..kandels.current[k] /\ kandels.current[k] <= MaxVersion
  BY <1>2, <1>4, <1>5, <1>6, <1>7, MaxVersionAssumption DEF Number
<1>9. c - 1 \in Number
  BY <1>2, <1>7, <1>8, MaxVersionAssumption DEF Number
<1> QED BY <1>7, <1>8, <1>9 DEF c

(***************************************************************************)
(* A kandel that exists has had a version event.                           *)
(***************************************************************************)
LEMMA ExistingCounted ==
  ASSUME IInv, NEW k \in Kandels, Exists(kandels, k)
  PROVE  VersionEvents(k, Len(log)) # {} /\ VersionAfter(k, Len(log)) = Current(kandels, k)
<1>1. /\ kandels.current[k] \in Number
      /\ kandels.current[k] + 1 = Cardinality(VersionEvents(k, Len(log)))
  BY DEF IInv, TypeOK, Tables, Exists, VersionsCounted
<1>2. Cardinality({}) = 0
  BY FS_EmptySet
<1>3. VersionEvents(k, Len(log)) # {}
  <2>1. kandels.current[k] + 1 # 0
    BY <1>1 DEF Number
  <2> QED BY <1>1, <1>2, <2>1
<1>4. Cardinality(VersionEvents(k, Len(log))) - 1 = kandels.current[k]
  <2> DEFINE c == Cardinality(VersionEvents(k, Len(log)))
  <2>1. c = kandels.current[k] + 1 /\ kandels.current[k] \in Int
    BY <1>1 DEF Number
  <2> HIDE DEF c
  <2>2. c - 1 = kandels.current[k]
    BY <2>1
  <2> QED BY <2>2 DEF c
<1> QED BY <1>3, <1>4 DEF VersionAfter, Current

\* The version val of k has the admin and router that its creation in the
\* first n events of the log gave it.
HasIdentity(k, val, n) ==
  \A j \in 1..n : IsCreation(j, k) =>
    /\ val.admin = InitialValue(log[j].params, "admin")
    /\ val.router = InitialValue(log[j].params, "router")

CurrentHasIdentity ==
  \A k \in Kandels : Exists(kandels, k) =>
    HasIdentity(k, Current(kandels, k).val, Len(log))

(***************************************************************************)
(* The version that is current has them.                                   *)
(***************************************************************************)
LEMMA CurrentIdentity ==
  ASSUME IInv, VersionsKept
  PROVE  CurrentHasIdentity
<1>1. Len(log) \in 0..Len(log)
  BY DEF IInv, TypeOK
<1> QED BY <1>1, ExistingCounted DEF VersionsKept, HasIdentity, CurrentHasIdentity

\* The rows of versions, and their configurations, are left as they are.
RowsLeft ==
  \A k \in Kandels, m \in Number : kandels.version[k][m] # NoRow =>
    /\ kandels'.version[k][m] = kandels.version[k][m]
    /\ configs'[kandels.version[k][m].val.config] = configs[kandels.version[k][m].val.config]

(***************************************************************************)
(* Old versions are kept by an event that leaves their rows alone, and     *)
(* does not create their kandel once more.                                 *)
(***************************************************************************)
LEMMA ExtendedVersions ==
  ASSUME IInv, IInv', VersionsKept, CreatedFirst, NEW e, LogExtended(e),
         e.kind = "new" => \A j \in 1..Len(log) : ~IsCreation(j, e.kandel),
         RowsLeft, CurrentHasIdentity'
  PROVE  VersionsKept'
<1> DEFINE n == Len(log)
<1>1. /\ n \in Nat /\ Len(log') = n + 1 /\ log'[n + 1] = e
      /\ \A i \in 1..n : log'[i] = log[i]
      /\ \A i \in 0..n : SubSeq(log', 1, i) = SubSeq(log, 1, i)
  BY DEF LogExtended
<1>2. \A k : \A i \in 0..n : VersionEvents(k, i)' = VersionEvents(k, i)
  BY <1>1, RowsKept
<1> SUFFICES ASSUME NEW k \in Kandels, NEW i \in 0..(n + 1), VersionEvents(k, i)' # {}
             PROVE  /\ VersionAfter(k, i)' # NoRow
                    /\ configs'[VersionAfter(k, i)'.val.config]
                         = ReplayedConfig(SubSeq(log', 1, i), k)
                    /\ \A j \in 1..(n + 1) : IsCreation(j, k)' =>
                         /\ VersionAfter(k, i)'.val.admin = InitialValue(log'[j].params, "admin")
                         /\ VersionAfter(k, i)'.val.router = InitialValue(log'[j].params, "router")
  BY <1>1 DEF VersionsKept
<1>3. CASE i # n + 1
  <2>1. i \in 0..n /\ VersionEvents(k, i) # {} /\ VersionEvents(k, i)' = VersionEvents(k, i)
    BY <1>1, <1>2, <1>3
  <2> DEFINE m == Cardinality(VersionEvents(k, i)) - 1
  <2>2. m \in Number
    BY <2>1, CountedVersion
  <2>3. /\ VersionAfter(k, i) = kandels.version[k][m]
        /\ VersionAfter(k, i)' = kandels'.version[k][m]
    BY <2>1 DEF VersionAfter
  <2> HIDE DEF m
  <2> DEFINE row == kandels.version[k][m]
  <2>4. /\ row # NoRow /\ configs[row.val.config] = ReplayedConfig(SubSeq(log, 1, i), k)
        /\ \A j \in 1..n : IsCreation(j, k) =>
             /\ row.val.admin = InitialValue(log[j].params, "admin")
             /\ row.val.router = InitialValue(log[j].params, "router")
    BY <2>1, <2>3 DEF VersionsKept
  <2>5. kandels'.version[k][m] = row /\ configs'[row.val.config] = configs[row.val.config]
    BY <2>2, <2>4 DEF RowsLeft
  <2>6. ASSUME NEW j \in 1..(n + 1), IsCreation(j, k)'
        PROVE  j \in 1..n /\ IsCreation(j, k) /\ log'[j] = log[j]
    <3>1. CASE j = n + 1
      <4>1. e.kind = "new" /\ e.kandel = k
        BY <1>1, <2>6, <3>1 DEF IsCreation
      <4>2. PICK q \in 1..i : log[q].kandel = k /\ log[q].kind \in VersionKinds
        BY <2>1 DEF VersionEvents
      <4>3. q \in 1..n
        BY <1>1, <2>1
      <4>4. PICK r \in 1..q : IsCreation(r, k)
        BY <4>2, <4>3 DEF CreatedFirst
      <4>5. r \in 1..n
        BY <1>1, <4>3
      <4> QED BY <4>1, <4>4, <4>5
    <3>2. CASE j # n + 1
      <4>1. j \in 1..n
        BY <1>1, <3>2
      <4> QED BY <1>1, <2>6, <4>1 DEF IsCreation
    <3> QED BY <3>1, <3>2
  <2> HIDE DEF row
  <2> QED BY <1>1, <2>1, <2>3, <2>4, <2>5, <2>6
<1>4. CASE i = n + 1
  <2>1. VersionEvents(k, Len(log))' = VersionEvents(k, i)'
    BY <1>1, <1>4
  <2>2. /\ TypeOK' /\ VersionsChained' /\ ConfigsReplayed' /\ VersionsCounted'
    BY DEF IInv
  <2> DEFINE c == Cardinality(VersionEvents(k, i)')
  <2>3. c \in Nat /\ c # 0 /\ kandels'.current[k] + 1 = c
    <3>1. IsFiniteSet(VersionEvents(k, i)')
      <4>1. VersionEvents(k, i)' \in SUBSET (1..i)
        BY DEF VersionEvents
      <4>2. i \in Int /\ 1 \in Int
        BY <1>1
      <4>3. IsFiniteSet(1..i)
        BY <4>2, FS_Interval
      <4> QED BY <4>1, <4>3, FS_Subset
    <3>2. c \in Nat /\ c # 0
      BY <3>1, FS_CardinalityType, FS_EmptySet
    <3>3. kandels'.current[k] + 1 = Cardinality(VersionEvents(k, Len(log))')
      BY <2>2 DEF VersionsCounted
    <3> QED BY <2>1, <3>2, <3>3
  <2>4. kandels'.current[k] \in Number \cup {Null}
    BY <2>2 DEF TypeOK, Tables
  <2>5. VersionAfter(k, i)' = kandels'.version[k][c - 1]
    BY DEF VersionAfter
  <2> HIDE DEF c
  <2>6. kandels'.current[k] = c - 1 /\ kandels'.current[k] \in Number /\ Exists(kandels', k)
    BY <2>3, <2>4 DEF Null, Number, Exists
  <2>7. VersionAfter(k, i)' = Current(kandels', k)
    BY <2>5, <2>6 DEF Current
  <2>8. Current(kandels', k) # NoRow
    <3>1. kandels'.current[k] <= kandels'.current[k]
      BY <2>6 DEF Number
    <3> QED BY <2>2, <2>6, <3>1 DEF VersionsChained, Chained, Current
  <2>9. configs'[Current(kandels', k).val.config] = ReplayedConfig(SubSeq(log', 1, i), k)
    <3>1. After(i)' = Snapshot' /\ i \in 0..Len(log')
      BY <1>1, <1>4 DEF After
    <3>2. Snapshot'.kandels = kandels' /\ Snapshot'.configs = configs'
      BY DEF Snapshot
    <3> QED BY <2>2, <2>6, <3>1, <3>2 DEF ConfigsReplayed
  <2>10. \A j \in 1..(n + 1) : IsCreation(j, k)' =>
           /\ Current(kandels', k).val.admin = InitialValue(log'[j].params, "admin")
           /\ Current(kandels', k).val.router = InitialValue(log'[j].params, "router")
    BY <1>1, <2>6 DEF CurrentHasIdentity, HasIdentity
  <2> QED BY <2>7, <2>8, <2>9, <2>10
<1> QED BY <1>3, <1>4

(***************************************************************************)
(* Old versions are kept when the last event is taken back: it had the     *)
(* greatest number.                                                        *)
(***************************************************************************)
LEMMA ShortenedVersions ==
  ASSUME IInv, VersionsKept, LogShortened,
         \A k \in Kandels, m \in Number :
           /\ kandels.version[k][m] # NoRow
           /\ LastEvent.kind \in VersionKinds /\ k = LastEvent.kandel => m # kandels.current[k]
           => /\ kandels'.version[k][m] = kandels.version[k][m]
              /\ configs'[kandels.version[k][m].val.config]
                   = configs[kandels.version[k][m].val.config]
  PROVE  VersionsKept'
<1> DEFINE n == Len(log)
<1>1. /\ n \in Nat \ {0} /\ Len(log') = n - 1 /\ LastEvent = log[n]
      /\ \A i \in 1..(n - 1) : log'[i] = log[i]
      /\ \A i \in 0..(n - 1) : SubSeq(log', 1, i) = SubSeq(log, 1, i)
  BY DEF LogShortened
<1>2. \A k : \A i \in 0..(n - 1) : VersionEvents(k, i)' = VersionEvents(k, i)
  <2> DEFINE m == n - 1
  <2>1. m \in Nat /\ \A i \in 1..m : log'[i] = log[i]
    BY <1>1
  <2> HIDE DEF m
  <2>2. \A k : \A i \in 0..m : VersionEvents(k, i)' = VersionEvents(k, i)
    BY <2>1, RowsKept
  <2> QED BY <2>2 DEF m
<1> SUFFICES ASSUME NEW k \in Kandels, NEW i \in 0..(n - 1), VersionEvents(k, i)' # {}
             PROVE  /\ VersionAfter(k, i)' # NoRow
                    /\ configs'[VersionAfter(k, i)'.val.config]
                         = ReplayedConfig(SubSeq(log', 1, i), k)
                    /\ \A j \in 1..(n - 1) : IsCreation(j, k)' =>
                         /\ VersionAfter(k, i)'.val.admin = InitialValue(log'[j].params, "admin")
                         /\ VersionAfter(k, i)'.val.router = InitialValue(log'[j].params, "router")
  BY <1>1 DEF VersionsKept
<1>3. /\ i \in 0..n /\ i \in Nat /\ VersionEvents(k, i) # {}
      /\ VersionEvents(k, i)' = VersionEvents(k, i)
  BY <1>1, <1>2
<1> DEFINE m == Cardinality(VersionEvents(k, i)) - 1
<1>4. m \in Number
  BY <1>3, CountedVersion
<1>5. /\ VersionAfter(k, i) = kandels.version[k][m]
      /\ VersionAfter(k, i)' = kandels'.version[k][m]
  BY <1>3 DEF VersionAfter
<1>6. ASSUME LastEvent.kind \in VersionKinds, k = LastEvent.kandel
      PROVE  m # kandels.current[k]
  <2> DEFINE c == Cardinality(VersionEvents(k, i))
             d == Cardinality(VersionEvents(k, n))
             D == VersionEvents(k, n)
             C == VersionEvents(k, i)
  <2>1. IsFiniteSet(D) /\ c \in Nat /\ d \in Nat
    BY <1>1, <1>3, VersionEventsFinite
  <2>2. C \subseteq D /\ n \in D /\ n \notin C
    BY <1>1, <1>3, <1>6 DEF VersionEvents
  <2>3. kandels.current[k] + 1 = d /\ kandels.current[k] \in Int
    BY DEF IInv, VersionsCounted, TypeOK, Tables, Number, Null
  <2> HIDE DEF C, D
  <2>4. Cardinality(C) <= Cardinality(D \ {n}) /\ Cardinality(D \ {n}) = Cardinality(D) - 1
    <3>1. C \subseteq D \ {n} /\ IsFiniteSet(D \ {n})
      BY <2>1, <2>2, FS_RemoveElement
    <3> QED BY <2>1, <2>2, <3>1, FS_Subset, FS_RemoveElement
  <2>5. c = Cardinality(C) /\ d = Cardinality(D)
    BY DEF C, D
  <2> HIDE DEF c, d
  <2>6. c - 1 # kandels.current[k]
    BY <2>1, <2>3, <2>4, <2>5
  <2> QED BY <2>6 DEF c
<1> HIDE DEF m
<1> DEFINE row == kandels.version[k][m]
<1>7. /\ row # NoRow /\ configs[row.val.config] = ReplayedConfig(SubSeq(log, 1, i), k)
      /\ \A j \in 1..n : IsCreation(j, k) =>
           /\ row.val.admin = InitialValue(log[j].params, "admin")
           /\ row.val.router = InitialValue(log[j].params, "router")
  BY <1>3, <1>5 DEF VersionsKept
<1>8. kandels'.version[k][m] = row /\ configs'[row.val.config] = configs[row.val.config]
  BY <1>4, <1>6, <1>7
<1>9. \A j \in 1..(n - 1) : IsCreation(j, k)' =>
        j \in 1..n /\ IsCreation(j, k) /\ log'[j] = log[j]
  BY <1>1 DEF IsCreation
<1> HIDE DEF row
<1> QED BY <1>1, <1>5, <1>7, <1>8, <1>9

(***************************************************************************)
(* A kandel is still created first when the log has one event more,        *)
(* unless the event sets parameters and carries none, or of no kandel.     *)
(***************************************************************************)
LEMMA ExtendedCreated ==
  ASSUME CreatedFirst, NEW e, LogExtended(e),
         e.kind = "params" =>
           /\ \E j \in 1..Len(log) : IsCreation(j, e.kandel)
           /\ \E f \in Field : e.params[f] # Undefined
  PROVE  CreatedFirst'
<1> DEFINE n == Len(log)
<1>1. /\ n \in Nat /\ Len(log') = n + 1 /\ log'[n + 1] = e
      /\ \A i \in 1..n : log'[i] = log[i]
  BY DEF LogExtended
<1>2. \A j \in 1..n : \A k : IsCreation(j, k)' <=> IsCreation(j, k)
  BY <1>1 DEF IsCreation
<1> SUFFICES ASSUME NEW i \in 1..(n + 1), log'[i].kind \in VersionKinds
             PROVE  /\ \E j \in 1..i : log'[j].kind = "new" /\ log'[j].kandel = log'[i].kandel
                    /\ log'[i].kind = "params" => \E f \in Field : log'[i].params[f] # Undefined
  BY <1>1 DEF CreatedFirst, IsCreation
<1>3. CASE i # n + 1
  <2>1. i \in 1..n /\ log'[i] = log[i]
    BY <1>1, <1>3
  <2>2. PICK j \in 1..i : IsCreation(j, log[i].kandel)
    BY <2>1 DEF CreatedFirst
  <2>3. j \in 1..n
    BY <1>1, <2>1
  <2>4. log'[j].kind = "new" /\ log'[j].kandel = log'[i].kandel
    BY <1>1, <2>1, <2>2, <2>3 DEF IsCreation
  <2> QED BY <2>1, <2>4 DEF CreatedFirst
<1>4. CASE i = n + 1
  <2>1. log'[i] = e /\ i \in 1..i
    BY <1>1, <1>4
  <2>2. CASE e.kind = "new"
    BY <2>1, <2>2
  <2>3. CASE e.kind = "params"
    <3>1. PICK j \in 1..n : IsCreation(j, e.kandel)
      BY <2>3
    <3>2. j \in 1..i /\ log'[j] = log[j]
      BY <1>1, <1>4
    <3> QED BY <2>1, <2>3, <3>1, <3>2 DEF IsCreation
  <2> QED BY <2>1, <2>2, <2>3 DEF VersionKinds
<1> QED BY <1>3, <1>4

(***************************************************************************)
(* And when it has one less.                                               *)
(***************************************************************************)
LEMMA ShortenedCreated ==
  ASSUME CreatedFirst, LogShortened
  PROVE  CreatedFirst'
<1> DEFINE n == Len(log)
<1>1. /\ n \in Nat \ {0} /\ Len(log') = n - 1
      /\ \A i \in 1..(n - 1) : log'[i] = log[i]
  BY DEF LogShortened
<1> SUFFICES ASSUME NEW i \in 1..(n - 1), log'[i].kind \in VersionKinds
             PROVE  /\ \E j \in 1..i : log'[j].kind = "new" /\ log'[j].kandel = log'[i].kandel
                    /\ log'[i].kind = "params" => \E f \in Field : log'[i].params[f] # Undefined
  BY <1>1 DEF CreatedFirst, IsCreation
<1>2. i \in 1..n /\ log'[i] = log[i]
  BY <1>1
<1>3. PICK j \in 1..i : IsCreation(j, log[i].kandel)
  BY <1>2 DEF CreatedFirst
<1>4. j \in 1..(n - 1)
  BY <1>1
<1>5. log'[j].kind = "new" /\ log'[j].kandel = log'[i].kandel
  BY <1>1, <1>2, <1>3, <1>4 DEF IsCreation
<1> QED BY <1>2, <1>5 DEF CreatedFirst

(***************************************************************************)
(* A new version of a kandel leaves the rows there are, and the versions   *)
(* of other kandels.                                                       *)
(***************************************************************************)
LEMMA AddedVersion ==
  ASSUME TypeOK, ConfigsOwned, NEW k \in Kandels, NEW tx, NEW val, NEW config,
         createNewKandelConfiguration(config), addVersionedKandel(k, tx, val)
  PROVE  /\ RowsLeft
         /\ Current(kandels', k).val = val
         /\ \A j \in Kandels \ {k} :
              /\ Exists(kandels', j) <=> Exists(kandels, j)
              /\ Exists(kandels, j) => Current(kandels', j) = Current(kandels, j)
<1> DEFINE n == kandels.current[k] + 1
           row == [prev |-> kandels.current[k], tx |-> tx, val |-> val]
           R == Rows(KandelVal) \cup {row}
<1>1. /\ kandels \in Tables(Kandels, R) /\ row \in R /\ row.val = val
      /\ CanAddVersion(kandels, k) /\ kandels' = AddVersion(kandels, k, tx, val)
      /\ \A j \in Kandels : kandels.current[j] \in Number \cup {Null}
  BY DEF TypeOK, Tables, addVersionedKandel
<1>2. n \in Number /\ kandels.version[k][n] = NoRow
  BY <1>1 DEF CanAddVersion
<1> HIDE DEF R, row
<1>3. /\ \A j \in Kandels : kandels'.current[j] = IF j = k THEN n ELSE kandels.current[j]
      /\ \A j \in Kandels, m \in Number :
           kandels'.version[j][m] = IF j = k /\ m = n THEN row ELSE kandels.version[j][m]
  BY <1>1, AddVersionType DEF row
<1> HIDE DEF n
<1>4. Current(kandels', k).val = val
  BY <1>1, <1>2, <1>3 DEF Current
<1>5. ASSUME NEW j \in Kandels \ {k}
      PROVE  /\ Exists(kandels', j) <=> Exists(kandels, j)
             /\ Exists(kandels, j) => Current(kandels', j) = Current(kandels, j)
  <2>1. kandels'.current[j] = kandels.current[j]
    BY <1>3
  <2>2. Exists(kandels, j) => kandels.current[j] \in Number
    BY <1>1 DEF Exists
  <2> QED BY <1>3, <2>1, <2>2 DEF Exists, Current
<1>6. /\ NewConfig \in ConfigId /\ configs[NewConfig] = NoRow
      /\ configs' = [configs EXCEPT ![NewConfig] = config]
      /\ configs \in [ConfigId -> ConfigVal \cup {NoRow}]
  BY NewConfigFree DEF createNewKandelConfiguration, TypeOK
<1>7. ASSUME NEW j \in Kandels, NEW m \in Number, kandels.version[j][m] # NoRow
      PROVE  /\ kandels'.version[j][m] = kandels.version[j][m]
             /\ configs'[kandels.version[j][m].val.config]
                  = configs[kandels.version[j][m].val.config]
  <2>1. kandels.version[j][m].val.config \in ConfigId
    <3>1. kandels.version[j][m] \in Rows(KandelVal)
      BY <1>7 DEF TypeOK, Tables
    <3> QED BY <3>1 DEF Rows, KandelVal
  <2>2. configs[kandels.version[j][m].val.config] # NoRow
    BY <1>7, <2>1 DEF ConfigsOwned
  <2>3. kandels.version[j][m].val.config # NewConfig
    BY <1>6, <2>2
  <2> QED BY <1>2, <1>3, <1>6, <1>7, <2>1, <2>3
<1> QED BY <1>4, <1>5, <1>7 DEF RowsLeft

-----------------------------------------------------------------------------
(***************************************************************************)
(* What is shown rests on this, besides the inductive invariant.           *)
(***************************************************************************)
Shown == DepositsListed /\ VersionsKept /\ CreatedFirst

(***************************************************************************)
(* An event that is no deposit or withdrawal leaves the sums alone.        *)
(***************************************************************************)
LEMMA SumsLeft ==
  ASSUME TypeOK, DepositsListed, NEW e, LogExtended(e),
         balances' = balances, balanceEvents' = balanceEvents
  PROVE  DepositsListed'
<1>1. SumsListed(Snapshot)
  BY NowListed
<1>2. SumsListed(Snapshot')
  BY <1>1 DEF SumsListed, Snapshot, BalanceOf
<1> QED BY <1>2, ExtendedDeposits

(***************************************************************************)
(* A kandel is created, or its parameters are set.                         *)
(***************************************************************************)
LEMMA VersionShown ==
  ASSUME IInv, IInv', Shown, NEW k \in Kandels, NEW tx, NEW val, NEW config, NEW e,
         LogExtended(e), e.kandel = k,
         createNewKandelConfiguration(config), addVersionedKandel(k, tx, val),
         balances' = balances, balanceEvents' = balanceEvents,
         \/ /\ e.kind = "new" /\ ~Created(k)
            /\ val.admin = InitialValue(e.params, "admin")
            /\ val.router = InitialValue(e.params, "router")
         \/ /\ e.kind = "params" /\ Exists(kandels, k)
            /\ val.admin = Current(kandels, k).val.admin
            /\ val.router = Current(kandels, k).val.router
            /\ \E f \in Field : e.params[f] # Undefined
  PROVE  Shown'
<1> DEFINE n == Len(log)
<1>1. /\ TypeOK /\ ConfigsOwned /\ DepositsListed /\ VersionsKept /\ CreatedFirst
  BY DEF IInv, Shown
<1>2. /\ RowsLeft
      /\ Current(kandels', k).val = val
      /\ \A j \in Kandels \ {k} :
           /\ Exists(kandels', j) <=> Exists(kandels, j)
           /\ Exists(kandels, j) => Current(kandels', j) = Current(kandels, j)
  BY <1>1, AddedVersion
<1>3. /\ n \in Nat /\ Len(log') = n + 1 /\ log'[n + 1] = e
      /\ \A i \in 1..n : log'[i] = log[i]
  BY DEF LogExtended
<1>4. \A j \in Kandels : Exists(kandels, j) => HasIdentity(j, Current(kandels, j).val, n)
  BY <1>1, CurrentIdentity DEF CurrentHasIdentity
<1>5. e.kind = "new" => \A j \in 1..n : ~IsCreation(j, k)
  BY DEF Created, IsCreation
<1>6. ASSUME NEW j \in Kandels, Exists(kandels', j),
             NEW q \in 1..(n + 1), log'[q].kind = "new", log'[q].kandel = j
      PROVE  /\ Current(kandels', j).val.admin = InitialValue(log'[q].params, "admin")
             /\ Current(kandels', j).val.router = InitialValue(log'[q].params, "router")
  <2>1. CASE q = n + 1
    BY <1>2, <1>3, <1>6, <2>1
  <2>2. CASE q # n + 1
    <3>1. q \in 1..n /\ log'[q] = log[q] /\ IsCreation(q, j)
      BY <1>3, <1>6, <2>2 DEF IsCreation
    <3>2. CASE j = k
      <4>1. e.kind = "params"
        BY <1>5, <3>1, <3>2
      <4>2. /\ Current(kandels, k).val.admin = InitialValue(log[q].params, "admin")
            /\ Current(kandels, k).val.router = InitialValue(log[q].params, "router")
        BY <1>4, <3>1, <3>2, <4>1 DEF HasIdentity
      <4> QED BY <1>2, <3>1, <3>2, <4>1, <4>2
    <3>3. CASE j # k
      <4>1. Exists(kandels, j) /\ Current(kandels', j) = Current(kandels, j)
        BY <1>2, <1>6, <3>3
      <4> QED BY <1>4, <3>1, <4>1 DEF HasIdentity
    <3> QED BY <3>2, <3>3
  <2> QED BY <2>1, <2>2
<1>7. CurrentHasIdentity'
  BY <1>3, <1>6 DEF CurrentHasIdentity, HasIdentity, IsCreation
<1>8. VersionsKept'
  BY <1>1, <1>2, <1>5, <1>7, ExtendedVersions
<1>9. DepositsListed'
  BY <1>1, SumsLeft
<1>10. CreatedFirst'
  <2>1. e.kind = "params" => \E j \in 1..n : IsCreation(j, k)
    <3> SUFFICES ASSUME e.kind = "params"
                 PROVE  \E j \in 1..n : IsCreation(j, k)
      OBVIOUS
    <3>1. VersionEvents(k, n) # {}
      BY ExistingCounted
    <3>2. PICK i \in 1..n : log[i].kandel = k /\ log[i].kind \in VersionKinds
      BY <3>1 DEF VersionEvents
    <3>3. PICK j \in 1..i : IsCreation(j, k)
      BY <1>1, <3>2 DEF CreatedFirst
    <3>4. j \in 1..n
      BY <1>3
    <3> QED BY <3>3, <3>4
  <2> QED BY <1>1, <2>1, ExtendedCreated
<1> QED BY <1>8, <1>9, <1>10 DEF Shown

(***************************************************************************)
(* An event that makes no version of a kandel leaves versions alone.       *)
(***************************************************************************)
LEMMA VersionsLeft ==
  ASSUME IInv, IInv', Shown, NEW e, LogExtended(e), e.kind \notin VersionKinds,
         kandels' = kandels, configs' = configs
  PROVE  VersionsKept' /\ CreatedFirst'
<1>1. VersionsKept /\ CreatedFirst /\ CurrentHasIdentity
  BY CurrentIdentity DEF Shown
<1>2. /\ Len(log) \in Nat /\ Len(log') = Len(log) + 1 /\ log'[Len(log) + 1] = e
      /\ \A i \in 1..Len(log) : log'[i] = log[i]
  BY DEF LogExtended
<1>3. CurrentHasIdentity'
  <2>1. ASSUME NEW q \in 1..(Len(log) + 1), log'[q].kind = "new"
        PROVE  q \in 1..Len(log) /\ log'[q] = log[q]
    <3>1. q # Len(log) + 1
      BY <1>2, <2>1 DEF VersionKinds
    <3> QED BY <1>2, <3>1
  <2> QED BY <1>1, <1>2, <2>1 DEF CurrentHasIdentity, HasIdentity, IsCreation
<1>4. RowsLeft
  BY DEF RowsLeft
<1>5. e.kind # "new" /\ e.kind # "params"
  BY DEF VersionKinds
<1> QED BY <1>1, <1>3, <1>4, <1>5, ExtendedVersions, ExtendedCreated

(***************************************************************************)
(* What Handled does to the log, for an event that follows.                *)
(***************************************************************************)
LEMMA HandledNext ==
  ASSUME TypeOK, NEW kind \in Kinds, NEW k \in Kandels, NEW tx \in NextTx,
         NEW params \in [Field -> ParamValue \cup {Undefined}],
         NEW token \in Tokens \cup {NoToken}, NEW amount \in Amount \cup {0},
         NEW S \in SUBSET Offers,
         Handled(kind, k, tx, params, token, amount, S)
  PROVE  LogExtended(Entry(kind, k, tx, params, token, amount, S))
<1>1. tx \in TxIds
  BY NextTxType DEF Handled
<1> QED BY <1>1, HandledLog

(***************************************************************************)
(* The creation of a kandel.                                               *)
(***************************************************************************)
LEMMA NewKandelShown ==
  ASSUME IInv, Shown, NEW k \in Kandels, NEW tx \in NextTx,
         NEW params \in Params(CreateFields), NewKandel(k, tx, params)
  PROVE  Shown'
<1> DEFINE val == [config |-> NewConfig, admin |-> params["admin"],
                   router |-> IF params["router"] = Undefined THEN Null
                              ELSE params["router"]]
           e == Entry("new", k, tx, params, NoToken, 0, {})
<1>1. IInv' /\ TypeOK
  BY NewKandelStep DEF IInv
<1>2. /\ ~Created(k)
      /\ createNewKandelConfiguration(InitialConfig(params)) /\ addVersionedKandel(k, tx, val)
      /\ Handled("new", k, tx, params, NoToken, 0, {})
      /\ balances' = balances /\ balanceEvents' = balanceEvents
  BY DEF NewKandel
<1>3. /\ params \in [Field -> ParamValue \cup {Undefined}]
      /\ params["admin"] \in ParamValue
  BY ParamsType, KandelAssumption
<1>4. LogExtended(e)
  BY <1>1, <1>2, <1>3, HandledNext DEF Kinds, ShownKinds, VersionKinds
<1>5. e.kind = "new" /\ e.kandel = k /\ e.params = params
  BY DEF Entry
<1>6. params["admin"] # Undefined
  BY <1>3, ParamNumbers, KandelAssumption
<1>7. /\ val.admin = InitialValue(params, "admin")
      /\ val.router = InitialValue(params, "router")
  BY <1>6 DEF InitialValue
<1> HIDE DEF val, e
<1> QED BY <1>1, <1>2, <1>4, <1>5, <1>7, VersionShown

(***************************************************************************)
(* New parameters for one.                                                 *)
(***************************************************************************)
LEMMA SetParamsShown ==
  ASSUME IInv, Shown, NEW k \in Kandels, NEW tx \in NextTx,
         NEW params \in Params(ParamsFields), SetParams(k, tx, params)
  PROVE  Shown'
<1> DEFINE old == Current(kandels, k).val
           val == [old EXCEPT !.config = NewConfig]
           config == Overrides(configs[old.config], params)
           e == Entry("params", k, tx, params, NoToken, 0, {})
<1>1. IInv' /\ TypeOK /\ VersionsChained /\ ConfigsOwned
  BY SetParamsStep DEF IInv
<1>2. /\ Exists(kandels, k) /\ params # Nothing
      /\ createNewKandelConfiguration(config) /\ addVersionedKandel(k, tx, val)
      /\ Handled("params", k, tx, params, NoToken, 0, {})
      /\ balances' = balances /\ balanceEvents' = balanceEvents
  BY DEF SetParams
<1>3. params \in [Field -> ParamValue \cup {Undefined}]
  BY ParamsType
<1>4. LogExtended(e)
  BY <1>1, <1>2, <1>3, HandledNext DEF Kinds, ShownKinds, VersionKinds
<1>5. e.kind = "params" /\ e.kandel = k /\ e.params = params
  BY DEF Entry
<1>6. \E f \in Field : params[f] # Undefined
  BY <1>2, <1>3 DEF Nothing
<1>7. val.admin = old.admin /\ val.router = old.router
  <2>1. old \in KandelVal
    BY <1>1, <1>2, CurrentKandel
  <2> HIDE DEF old
  <2> QED BY <2>1 DEF KandelVal
<1> HIDE DEF val, e, config
<1> QED BY <1>1, <1>2, <1>4, <1>5, <1>6, <1>7, VersionShown

(***************************************************************************)
(* A deposit or a withdrawal.                                              *)
(***************************************************************************)
LEMMA DepositShown ==
  ASSUME IInv, Shown, NEW kind \in {"Credit", "Debit"}, NEW k \in Kandels,
         NEW tx \in NextTx, NEW t \in Tokens, NEW amount \in Amount,
         DepositWithdrawal(kind, k, tx, t, amount)
  PROVE  Shown'
<1> DEFINE e == Entry(kind, k, tx, Nothing, t, amount, {})
<1>1. IInv' /\ TypeOK
  BY DepositStep DEF IInv
<1>2. /\ Handled(kind, k, tx, Nothing, t, amount, {})
      /\ kandels' = kandels /\ configs' = configs
  BY DEF DepositWithdrawal
<1>3. LogExtended(e)
  <2>1. Nothing \in [Field -> ParamValue \cup {Undefined}] /\ kind \in Kinds
    BY DEF Nothing, Kinds
  <2> QED BY <1>1, <1>2, <2>1, HandledNext
<1>4. e.kind \notin VersionKinds
  BY DEF Entry, VersionKinds
<1> HIDE DEF e
<1>5. VersionsKept' /\ CreatedFirst'
  BY <1>1, <1>2, <1>3, <1>4, VersionsLeft
<1>6. DepositsListed'
  BY DepositListed DEF Shown
<1> QED BY <1>5, <1>6 DEF Shown

(***************************************************************************)
(* An event of the offers of a kandel.                                     *)
(***************************************************************************)
LEMMA OffersShown ==
  ASSUME IInv, IInv', Shown, NEW k \in Kandels, NEW tx \in NextTx, NEW S \in SUBSET Offers,
         NEW kind \in {"retract", "populate", "mapping"},
         Handled(kind, k, tx, Nothing, NoToken, 0, S),
         kandels' = kandels, configs' = configs, balances' = balances,
         balanceEvents' = balanceEvents
  PROVE  Shown'
<1> DEFINE e == Entry(kind, k, tx, Nothing, NoToken, 0, S)
<1>1. TypeOK
  BY DEF IInv
<1>2. LogExtended(e)
  <2>1. Nothing \in [Field -> ParamValue \cup {Undefined}] /\ kind \in Kinds
    BY DEF Nothing, Kinds, ShownKinds
  <2> QED BY <1>1, <2>1, HandledNext
<1>3. e.kind \notin VersionKinds
  BY DEF Entry, VersionKinds
<1> HIDE DEF e
<1> QED BY <1>1, <1>2, <1>3, VersionsLeft, SumsLeft DEF Shown

(***************************************************************************)
(* The undo of any event.                                                  *)
(***************************************************************************)
LEMMA UndoShown ==
  ASSUME IInv, Shown, Undo
  PROVE  Shown'
<1> DEFINE k == LastEvent.kandel
<1>1. LogShortened /\ TypeOK /\ VersionsChained /\ ConfigsOwned /\ k \in Kandels
  <2>1. LogShortened
    BY UndoShortens
  <2> QED BY <2>1 DEF IInv, LogShortened, Event
<1>2. ASSUME NEW j \in Kandels, NEW m \in Number, kandels.version[j][m] # NoRow,
             LastEvent.kind \in VersionKinds /\ j = k => m # kandels.current[j]
      PROVE  /\ kandels'.version[j][m] = kandels.version[j][m]
             /\ configs'[kandels.version[j][m].val.config]
                  = configs[kandels.version[j][m].val.config]
  <2>1. CASE LastEvent.kind \in VersionKinds
    <3> DEFINE c == Current(kandels, k).val.config
    <3>1. deleteLatestKandelVersion(k)
      BY <2>1 DEF Undo, UndoNewKandel, UndoSetParams, VersionKinds
    <3>2. VersionDeleted(k)
      BY <1>1, <3>1, DeleteKandelVersion
    <3>3. ~(j = k /\ m = kandels.current[k])
      BY <1>2, <2>1
    <3>4. kandels'.version[j][m] = kandels.version[j][m]
      BY <3>2, <3>3 DEF VersionDeleted
    <3>5. kandels.version[j][m].val.config \in ConfigId
      <4>1. kandels.version[j][m] \in Rows(KandelVal)
        BY <1>1, <1>2 DEF TypeOK, Tables
      <4> QED BY <4>1 DEF Rows, KandelVal
    <3>6. kandels.version[j][m].val.config # c
      <4>1. Exists(kandels, k)
        BY <3>2 DEF VersionDeleted
      <4>2. /\ kandels.current[k] \in Number
            /\ kandels.version[k][kandels.current[k]] # NoRow
        BY <1>1, <4>1, CurrentKandel
      <4> QED BY <1>1, <1>2, <3>3, <4>2 DEF ConfigsOwned, Current
    <3>7. configs' = [configs EXCEPT ![c] = NoRow] /\ configs \in [ConfigId -> ConfigVal \cup {NoRow}]
      BY <1>1, <3>2 DEF VersionDeleted, TypeOK
    <3> HIDE DEF c
    <3> QED BY <3>4, <3>5, <3>6, <3>7
  <2>2. CASE LastEvent.kind \notin VersionKinds
    BY <2>2 DEF Undo, UndoDepositWithdrawal, UndoRetractOrPopulate, UndoSetIndexMapping,
                VersionKinds
  <2> QED BY <2>1, <2>2
<1>3. VersionsKept'
  BY <1>1, <1>2, ShortenedVersions DEF Shown
<1> QED BY <1>1, <1>3, ShortenedDeposits, ShortenedCreated DEF Shown

(***************************************************************************)
(* At first nothing is shown.                                              *)
(***************************************************************************)
LEMMA InitShown == Init => Shown
<1> SUFFICES ASSUME Init
             PROVE  Shown
  OBVIOUS
<1>1. Len(log) = 0
  BY DEF Init
<1>2. \A k : \A i \in 0..Len(log) : VersionEvents(k, i) = {}
  BY <1>1 DEF VersionEvents
<1> QED BY <1>1, <1>2, InitDeposits DEF Shown, VersionsKept, CreatedFirst

(***************************************************************************)
(* It looks at the variables and at nothing else.                          *)
(***************************************************************************)
LEMMA StutterShown == Shown /\ UNCHANGED vars => Shown'
<1> SUFFICES ASSUME Shown, UNCHANGED vars
             PROVE  Shown'
  OBVIOUS
<1>1. /\ kandels' = kandels /\ configs' = configs /\ balances' = balances
      /\ balanceEvents' = balanceEvents /\ log' = log
  BY DEF vars, tables
<1>2. Snapshot' = Snapshot
  BY <1>1 DEF Snapshot
<1>3. \A i : After(i)' = After(i)
  BY <1>1, <1>2 DEF After
<1>4. \A k, i : VersionEvents(k, i)' = VersionEvents(k, i) /\ (IsCreation(i, k)' <=> IsCreation(i, k))
  BY <1>1 DEF VersionEvents, IsCreation
<1>5. \A k, i : VersionAfter(k, i)' = VersionAfter(k, i)
  BY <1>1, <1>4 DEF VersionAfter
<1>6. DepositsListed'
  <2> SUFFICES ASSUME NEW i \in 0..Len(log)
               PROVE  SumsListed(After(i)')
    BY <1>1 DEF DepositsListed, SumsListed
  <2> QED BY <1>3 DEF Shown, DepositsListed
<1>7. VersionsKept'
  BY <1>1, <1>4, <1>5 DEF Shown, VersionsKept
<1>8. CreatedFirst'
  BY <1>1, <1>4 DEF Shown, CreatedFirst
<1> QED BY <1>6, <1>7, <1>8 DEF Shown

(***************************************************************************)
(* Every step keeps it.                                                    *)
(***************************************************************************)
LEMMA NextShown == IInv /\ Shown /\ [Next]_vars => Shown'
<1> SUFFICES ASSUME IInv, Shown, [Next]_vars
             PROVE  Shown'
  OBVIOUS
<1>1. IInv'
  BY NextIInv
<1>2. ASSUME NEW k \in Kandels, NEW tx \in NextTx, NEW p \in Params(CreateFields),
             NewKandel(k, tx, p)
      PROVE  Shown'
  BY <1>2, NewKandelShown
<1>3. ASSUME NEW k \in Kandels, NEW tx \in NextTx, NEW p \in Params(ParamsFields),
             SetParams(k, tx, p)
      PROVE  Shown'
  BY <1>3, SetParamsShown
<1>4. ASSUME NEW k \in Kandels, NEW tx \in NextTx, NEW t \in Tokens, NEW amount \in Amount,
             \/ DepositWithdrawal("Credit", k, tx, t, amount)
             \/ DepositWithdrawal("Debit", k, tx, t, amount)
      PROVE  Shown'
  <2>1. PICK kind \in {"Credit", "Debit"} : DepositWithdrawal(kind, k, tx, t, amount)
    BY <1>4
  <2> QED BY <2>1, DepositShown
<1>5. ASSUME NEW k \in Kandels, NEW tx \in NextTx, NEW S \in SUBSET OffersOf(k),
             Retract(k, tx, S) \/ Populate(k, tx, S)
      PROVE  Shown'
  <2>1. S \in SUBSET Offers
    BY DEF OffersOf
  <2>2. PICK kind \in {"retract", "populate", "mapping"} :
          /\ Handled(kind, k, tx, Nothing, NoToken, 0, S)
          /\ kandels' = kandels /\ configs' = configs /\ balances' = balances
          /\ balanceEvents' = balanceEvents
    BY <1>5, Zenon DEF Retract, Populate
  <2> QED BY <1>1, <2>1, <2>2, OffersShown
<1>6. ASSUME NEW k \in Kandels, NEW tx \in NextTx, NEW o \in OffersOf(k),
             SetIndexMapping(k, tx, o)
      PROVE  Shown'
  <2>1. {o} \in SUBSET Offers
    BY DEF OffersOf
  <2>2. /\ Handled("mapping", k, tx, Nothing, NoToken, 0, {o})
        /\ kandels' = kandels /\ configs' = configs /\ balances' = balances
        /\ balanceEvents' = balanceEvents
    BY <1>6 DEF SetIndexMapping
  <2> QED BY <1>1, <2>1, <2>2, OffersShown
<1>7. CASE Undo
  BY <1>7, UndoShown
<1>8. CASE UNCHANGED vars
  BY <1>8, StutterShown
<1> QED BY <1>2, <1>3, <1>4, <1>5, <1>6, <1>7, <1>8 DEF Next

(***************************************************************************)
(* It holds in every state that the consumer reaches.                      *)
(***************************************************************************)
LEMMA ShownInvariance == Spec => []Shown
<1> QED BY InitShown, NextShown, Invariance, PTL DEF Spec

-----------------------------------------------------------------------------
(***************************************************************************)
(* The deposits and withdrawals that KandelHistoryResolver lists for the   *)
(* kandels that share a reserve come to the balance of that reserve,       *)
(* however many kandels share it and whichever of them undoes an event.    *)
(***************************************************************************)
THEOREM DepositsShown == Spec => []DepositsAddUp
<1>1. ASSUME IInv, Shown, NEW id \in BalanceId, Exists(balances, id)
      PROVE  Current(balances, id).val.balance =
               SumOf(UNION {kandelDepositWithdraw(k, id[2]) :
                              k \in {l \in Kandels : ReserveOf[l] = id[1]}})
  <2>1. TypeOK /\ SumsListed(Snapshot)
    BY <1>1, NowListed DEF IInv, Shown
  <2>2. BalanceOf(Snapshot, id) = Current(balances, id).val
    BY <1>1 DEF BalanceOf, Snapshot
  <2>3. Current(balances, id).val.balance = SumOf(DepositsOf(balanceEvents, id))
    BY <2>1, <2>2 DEF SumsListed, Snapshot
  <2>4. \A b \in balanceEvents : b.source \in Kandels
    BY <2>1 DEF TypeOK, BalanceEvent
  <2>5. DepositsOf(balanceEvents, id) =
          UNION {kandelDepositWithdraw(k, id[2]) :
                   k \in {l \in Kandels : ReserveOf[l] = id[1]}}
    BY <2>4 DEF DepositsOf, kandelDepositWithdraw
  <2> QED BY <2>3, <2>5
<1>2. IInv /\ Shown => DepositsAddUp
  BY <1>1 DEF DepositsAddUp
<1> QED BY <1>2, Invariance, ShownInvariance, PTL

-----------------------------------------------------------------------------
(***************************************************************************)
(* createKandelParamsEvent shows an event as a parameter that it carries.  *)
(***************************************************************************)
LEMMA KindCarried ==
  ASSUME NEW p, \E f \in Field : p[f] # Undefined
  PROVE  ParamsKind(p) \in Field
<1> DEFINE I == {i \in 1..Len(ParamsKinds) : p[ParamsKinds[i]] # Undefined}
<1>1. Len(ParamsKinds) = 7 /\ \A i \in 1..7 : ParamsKinds[i] \in Field
  <2>1. /\ ParamsKinds[1] \in Field /\ ParamsKinds[2] \in Field /\ ParamsKinds[3] \in Field
        /\ ParamsKinds[4] \in Field /\ ParamsKinds[5] \in Field /\ ParamsKinds[6] \in Field
        /\ ParamsKinds[7] \in Field
    BY DEF ParamsKinds, Field, ConfigField
  <2>2. \A i \in 1..7 : i \in {1, 2, 3, 4, 5, 6, 7}
    OBVIOUS
  <2>3. Len(ParamsKinds) = 7
    BY DEF ParamsKinds
  <2> QED BY <2>1, <2>2, <2>3
<1>2. \A f \in Field : \E i \in 1..7 : ParamsKinds[i] = f
  BY DEF ParamsKinds, Field, ConfigField
<1>3. I # {} /\ I \subseteq Nat /\ I \subseteq 1..7
  BY <1>1, <1>2
<1>4. ParamsKind(p) = ParamsKinds[IF I # {} THEN Min(I) ELSE 0]
  BY DEF ParamsKind, SelectInSeq
<1> HIDE DEF I
<1>5. \E m \in I : \A i \in I : m <= i
  BY <1>3, LeastNatural
<1>6. Min(I) \in I
  BY <1>5 DEF Min
<1> QED BY <1>1, <1>3, <1>4, <1>6

(***************************************************************************)
(* The old value of a parameter that is shown: prevVersion names the       *)
(* version before, which has kept what it had when it was the latest.      *)
(***************************************************************************)
LEMMA OldValueShown ==
  ASSUME IInv, Shown, NEW i \in 1..Len(log), log[i].kind = "params"
  PROVE  /\ ParamsKind(log[i].params) \in Field
         /\ OldValue(RowOf(i))
              = ReplayedParameter(i - 1, log[i].kandel, ParamsKind(log[i].params))
<1> DEFINE k == log[i].kandel
           f == ParamsKind(log[i].params)
           h == i - 1
           m == Cardinality(VersionEvents(k, h))
           rows == kandels.version[k]
<1>1. /\ TypeOK /\ VersionsChained /\ VersionsKept /\ CreatedFirst
      /\ log \in Seq(Event) /\ log[i] \in Event /\ k \in Kandels
  <2>1. TypeOK /\ VersionsChained /\ log \in Seq(Event)
    BY DEF IInv, TypeOK
  <2>2. log[i] \in Event
    BY <2>1
  <2>3. k \in Kandels
    BY <2>2 DEF Event
  <2> QED BY <2>1, <2>2, <2>3 DEF Shown
<1>2. f \in Field
  BY <1>1, KindCarried DEF CreatedFirst, VersionKinds
<1>3. h \in Nat /\ h \in 0..Len(log) /\ i \in 0..Len(log) /\ i = h + 1
  BY <1>1
<1>4. PICK c \in 1..i : IsCreation(c, k)
  BY <1>1 DEF CreatedFirst, VersionKinds
<1>5. c \in 1..h /\ c \in 1..Len(log)
  <2>1. c # i
    BY <1>4 DEF IsCreation
  <2> QED BY <1>1, <1>3, <2>1
<1>6. VersionEvents(k, h) # {} /\ VersionEvents(k, i) # {}
  <2>1. c \in VersionEvents(k, h)
    BY <1>4, <1>5 DEF VersionEvents, IsCreation, VersionKinds
  <2>2. i \in VersionEvents(k, i)
    BY <1>3 DEF VersionEvents, VersionKinds
  <2> QED BY <2>1, <2>2
<1>7. Cardinality(VersionEvents(k, i)) = m + 1 /\ m \in Nat
  <2>1. log[h + 1].kind \in VersionKinds /\ log[h + 1].kandel = k
    BY <1>3 DEF VersionKinds
  <2>2. Cardinality(VersionEvents(k, h + 1)) = Cardinality(VersionEvents(k, h)) + 1
    BY <1>3, <2>1, VersionEventsNext
  <2> QED BY <1>3, <2>2, VersionEventsFinite
<1>8. m \in Number
  <2>1. Cardinality(VersionEvents(k, i)) - 1 \in Number
    BY <1>1, <1>3, <1>6, CountedVersion
  <2> QED BY <1>7, <2>1
<1>9. VersionAfter(k, i) = rows[m] /\ VersionAfter(k, h) = rows[m - 1]
  <2>1. (m + 1) - 1 = m
    BY <1>7
  <2> QED BY <1>7, <2>1 DEF VersionAfter
<1>10. rows[m].prev = m - 1
  <2>1. rows[m] # NoRow
    BY <1>1, <1>3, <1>6, <1>9 DEF VersionsKept
  <2> QED BY <1>1, <1>8, <2>1 DEF VersionsChained, Chained
<1> DEFINE row == rows[m - 1]
           d == CHOOSE j \in 1..Len(log) : IsCreation(j, k)
<1>11. d \in 1..Len(log) /\ IsCreation(d, k)
  BY <1>4, <1>5
<1>12. /\ configs[row.val.config] = ReplayedConfig(SubSeq(log, 1, h), k)
       /\ row.val.admin = InitialValue(log[d].params, "admin")
       /\ row.val.router = InitialValue(log[d].params, "router")
  BY <1>1, <1>3, <1>6, <1>9, <1>11 DEF VersionsKept
<1>13. RowOf(i).kandel = k /\ RowOf(i).version = m /\ RowOf(i).kind = f
  BY <1>7 DEF RowOf, VersionKinds
<1> HIDE DEF k, f, h, m
<1>14. OldValue(RowOf(i)) = Column(row.val, f)
  BY <1>10, <1>13 DEF OldValue
<1> HIDE DEF row, d
<1>15. Column(row.val, f) = ReplayedParameter(h, k, f)
  <2>1. CASE f = "admin"
    BY <1>12, <2>1 DEF Column, ReplayedParameter, ConfigField, d
  <2>2. CASE f = "router"
    BY <1>12, <2>2 DEF Column, ReplayedParameter, ConfigField, d
  <2>3. CASE f # "admin" /\ f # "router"
    <3>1. f \in ConfigField
      BY <1>2, <2>3 DEF Field
    <3> QED BY <1>12, <2>3, <3>1 DEF Column, ReplayedParameter
  <2> QED BY <2>1, <2>2, <2>3
<1> QED BY <1>2, <1>14, <1>15 DEF k, f, h

(***************************************************************************)
(* When no transaction is half undone, kandelParameters shows exactly the  *)
(* parameters that the surviving events have set, each with the value it   *)
(* had before: deleteLatestKandelVersion leaves old versions and their     *)
(* configurations as they were when they were current.                     *)
(***************************************************************************)
THEOREM ParametersShown == Spec => []ParametersAreReplay
<1>1. ASSUME IInv, Shown, EventsOfSurvivors, undoing = NoTx, NEW k \in Kandels
      PROVE  kandelParameters(k) =
               {ShownParameter(i) :
                  i \in {j \in 1..Len(log) : log[j].kandel = k /\ log[j].kind = "params"}}
  <2> DEFINE Line(e) == [version |-> e.version, type |-> e.kind, value |-> e.value,
                         prevVersion |-> OldValue(e)]
             I == {j \in 1..Len(log) : log[j].kandel = k /\ log[j].kind = "params"}
             E == {e \in kandelEvents : e.kandel = k /\ e.kind \in Field}
  <2>1. kandelEvents = {RowOf(i) : i \in {j \in 1..Len(log) : log[j].kind \in ShownKinds}}
    BY <1>1 DEF EventsOfSurvivors
  <2>2. ASSUME NEW i \in 1..Len(log)
        PROVE  /\ RowOf(i).kandel = log[i].kandel
               /\ log[i].kind # "params" => RowOf(i).kind = log[i].kind
               /\ log[i].kind = "params" =>
                    /\ RowOf(i).kind = ParamsKind(log[i].params)
                    /\ RowOf(i).kind \in Field
                    /\ Line(RowOf(i)) = ShownParameter(i)
    <3>1. /\ RowOf(i).kandel = log[i].kandel
          /\ log[i].kind # "params" => RowOf(i).kind = log[i].kind
          /\ log[i].kind = "params" =>
               /\ RowOf(i).kind = ParamsKind(log[i].params)
               /\ RowOf(i).value = log[i].params[ParamsKind(log[i].params)]
               /\ RowOf(i).version = Cardinality(VersionEvents(log[i].kandel, i - 1))
      BY DEF RowOf, VersionKinds
    <3>2. log[i].kind = "params" =>
            /\ ParamsKind(log[i].params) \in Field
            /\ OldValue(RowOf(i))
                 = ReplayedParameter(i - 1, log[i].kandel, ParamsKind(log[i].params))
      BY <1>1, OldValueShown
    <3> QED BY <3>1, <3>2 DEF ShownParameter
  <2>3. \A i \in 1..Len(log) :
          log[i].kind \in ShownKinds /\ log[i].kind # "params" => RowOf(i).kind \notin Field
    BY <2>2 DEF ShownKinds, VersionKinds, Field, ConfigField
  <2>4. kandelParameters(k) = {Line(e) : e \in E}
    BY DEF kandelParameters
  <2>5. \A e \in E : \E i \in I : e = RowOf(i)
    BY <2>1, <2>2, <2>3
  <2>6. \A i \in I : RowOf(i) \in E
    BY <2>1, <2>2 DEF ShownKinds, VersionKinds
  <2>7. \A i \in I : Line(RowOf(i)) = ShownParameter(i)
    BY <2>2
  <2> HIDE DEF Line, I, E
  <2>8. {Line(e) : e \in E} = {ShownParameter(i) : i \in I}
    BY <2>5, <2>6, <2>7
  <2> QED BY <2>4, <2>8 DEF I
<1>2. IInv /\ Shown /\ EventsOfSurvivors => ParametersAreReplay
  BY <1>1 DEF ParametersAreReplay
<1> QED BY <1>2, Invariance, ShownInvariance, HistoryOfSurvivors, PTL

=============================================================================
