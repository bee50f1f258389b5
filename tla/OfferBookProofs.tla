--------------------------- MODULE OfferBookProofs ---------------------------
(***************************************************************************)
(* The properties of OfferBook for every set of offers, orders, accounts   *)
(* and tokens, every sharing of reserves and every bound: versions are     *)
(* chained, undo restores the offers, the book and the taken offers are    *)
(* the replay of the surviving events, and no row dangles.                 *)
(***************************************************************************)
EXTENDS OfferBook, Lemmas

-----------------------------------------------------------------------------
(***************************************************************************)
(* The balances an order changes.                                          *)
(***************************************************************************)

\* A booking of an offer of the set S.
BookingOf(S) == [id : BalanceId, offer : S, inbound : BOOLEAN]

(***************************************************************************)
(* The bookings of a taken offer are of the tokens of its list.            *)
(***************************************************************************)
LEMMA BookedType ==
  ASSUME NEW f \in Offers, NEW S, f \in S
  PROVE  Booked(f) \in Seq(BookingOf(S))
<1>1. /\ MakerOf[f] \in Accounts /\ ReserveOf[MakerOf[f]] \in Accounts
      /\ Inbound[ListOf[f]] \in Tokens /\ Outbound[ListOf[f]] \in Tokens
  BY BookAssumption
<1>2. ASSUME NEW a \in Accounts
      PROVE  BookedFor(f, a) \in Seq(BookingOf(S))
  <2> DEFINE x == [id |-> <<a, Inbound[ListOf[f]]>>, offer |-> f, inbound |-> TRUE]
             y == [id |-> <<a, Outbound[ListOf[f]]>>, offer |-> f, inbound |-> FALSE]
             Q == BookingOf(S)
  <2>1. x \in Q /\ y \in Q
    BY <1>1 DEF BookingOf, BalanceId
  <2>2. BookedFor(f, a) = <<x, y>>
    BY DEF BookedFor
  <2> HIDE DEF x, y, Q
  <2>3. <<x, y>> \in Seq(Q)
    BY <2>1
  <2> QED BY <2>2, <2>3 DEF Q
<1>3. \A s, t \in Seq(BookingOf(S)) : s \o t \in Seq(BookingOf(S))
  OBVIOUS
<1> QED BY <1>1, <1>2, <1>3 DEF Booked

(***************************************************************************)
(* So are those of all offers that are taken.                              *)
(***************************************************************************)
LEMMA BookingsType ==
  ASSUME NEW taken \in Seq(Offers)
  PROVE  Bookings(taken) \in Seq(BookingOf(ToSet(taken)))
<1> DEFINE Q == BookingOf(ToSet(taken))
           s == [i \in 1..Len(taken) |-> Booked(taken[i])]
<1>1. ASSUME NEW i \in 1..Len(taken)
      PROVE  Booked(taken[i]) \in Seq(Q)
  <2>1. taken[i] \in Offers /\ taken[i] \in ToSet(taken)
    BY DEF ToSet
  <2> QED BY <2>1, BookedType
<1>2. Len(taken) \in Nat
  OBVIOUS
<1> HIDE DEF Q
<1>3. s \in Seq(Seq(Q))
  BY <1>1, <1>2
<1> HIDE DEF s
<1>4. FlattenSeq(s) \in Seq(Q)
  BY <1>3, FlattenType
<1> QED BY <1>4 DEF Bookings, s, Q

\* The balances after the first bookings of B, up to those after all.
IsBalances(g, B, tx, base) ==
  /\ g[0] = base
  /\ g[Len(B)] = FoldLeft(LAMBDA d, b : AddVersion(d, b.id, tx, NewBalance(d, b)), base, B)
  /\ \A i \in 1..Len(B) :
       g[i] = AddVersion(g[i - 1], B[i].id, tx, NewBalance(g[i - 1], B[i]))

(***************************************************************************)
(* The bookings are made one after another.                                *)
(***************************************************************************)
LEMMA BalancesTrace ==
  ASSUME NEW S, NEW B \in Seq(S), NEW tx, NEW base
  PROVE  \E g : IsBalances(g, B, tx, base)
<1> DEFINE n == Len(B)
           Op(d, i) == AddVersion(d, B[i].id, tx, NewBalance(d, B[i]))
           P(k, h) == h = [s \in SUBSET (1..k) |->
                             IF s = {} THEN base ELSE Op(h[s \ {Max(s)}], Max(s))]
           f == CHOOSE h : P(n, h)
           g == [i \in 0..n |-> f[1..i]]
           T == {k \in 0..n : \E h : P(k, h)}
<1> HIDE DEF f
<1>1. n \in Nat /\ DOMAIN B = 1..n
  OBVIOUS
<1>2. 0 \in T
  <2> DEFINE h == [s \in SUBSET (1..0) |-> base]
  <2>1. \A s \in SUBSET (1..0) : s = {}
    OBVIOUS
  <2>2. h = [s \in SUBSET (1..0) |-> IF s = {} THEN base ELSE Op(h[s \ {Max(s)}], Max(s))]
    <3> HIDE DEF Op
    <3> QED BY <2>1
  <2> QED BY <1>1, <2>2
<1>3. ASSUME NEW k \in 1..n, k - 1 \in T
      PROVE  k \in T
  <2> HIDE DEF Op
  <2>1. PICK e : P(k - 1, e)
    BY <1>3
  <2> DEFINE h == [s \in SUBSET (1..k) |-> IF k \in s THEN Op(e[s \ {k}], k) ELSE e[s]]
  <2>2. ASSUME NEW s \in SUBSET (1..k)
        PROVE  /\ s \ {k} \in SUBSET (1..(k - 1))
               /\ k \in s => Max(s) = k
               /\ k \notin s => s \in SUBSET (1..(k - 1))
    <3>1. s \ {k} \in SUBSET (1..(k - 1))
      OBVIOUS
    <3>2. ASSUME k \in s
          PROVE  Max(s) = k
      <4>1. k \in Nat /\ s \subseteq 1..k /\ s # {}
        BY <3>2
      <4>2. Max(s) \in s /\ Max(s) >= k
        BY <3>2, <4>1, MaxOfSubset
      <4>3. Max(s) \in 1..k
        BY <4>1, <4>2
      <4> QED BY <4>1, <4>2, <4>3
    <3> QED BY <3>1, <3>2
  <2>3. ASSUME NEW s \in SUBSET (1..k)
        PROVE  h[s] = IF s = {} THEN base ELSE Op(h[s \ {Max(s)}], Max(s))
    <3>1. CASE k \in s
      <4>1. Max(s) = k /\ s \ {k} \in SUBSET (1..(k - 1)) /\ s \ {k} \in SUBSET (1..k)
        BY <2>2, <3>1
      <4>2. h[s \ {k}] = e[s \ {k}]
        BY <4>1
      <4>3. h[s] = Op(e[s \ {k}], k)
        BY <3>1
      <4> HIDE DEF h
      <4> QED BY <3>1, <4>1, <4>2, <4>3
    <3>2. CASE k \notin s
      <4>1. s \in SUBSET (1..(k - 1)) /\ h[s] = e[s]
        BY <2>2, <3>2
      <4>2. e[s] = IF s = {} THEN base ELSE Op(e[s \ {Max(s)}], Max(s))
        BY <2>1, <4>1
      <4>3. s \ {Max(s)} \in SUBSET (1..k) /\ k \notin s \ {Max(s)}
        BY <3>2
      <4>4. h[s \ {Max(s)}] = e[s \ {Max(s)}]
        BY <4>3
      <4> HIDE DEF h
      <4> QED BY <4>1, <4>2, <4>4
    <3> QED BY <3>1, <3>2
  <2>4. P(k, h)
    <3>1. h = [s \in SUBSET (1..k) |-> h[s]]
      OBVIOUS
    <3> HIDE DEF h
    <3> QED BY <2>3, <3>1
  <2>5. k \in 0..n
    BY <1>1
  <2> HIDE DEF h, P
  <2> QED BY <2>4, <2>5
<1>4. n \in T
  <2>1. n \in 0..n
    BY <1>1
  <2> HIDE DEF T
  <2> QED BY <1>1, <1>2, <1>3, <2>1, CountUp
<1>5. P(n, f)
  <2> HIDE DEF P
  <2> QED BY <1>4 DEF f
<1>6. FoldLeft(LAMBDA d, b : AddVersion(d, b.id, tx, NewBalance(d, b)), base, B) = f[1..n]
  BY <1>1 DEF FoldLeft, MapThenFoldSet, f
<1>7. g[0] = base
  <2>1. 1..0 = {} /\ 0 \in 0..n
    BY <1>1
  <2>2. g[0] = f[1..0]
    BY <2>1
  <2>3. f[{}] = base
    BY <1>5
  <2> QED BY <2>1, <2>2, <2>3
<1>8. g[n] = f[1..n]
  BY <1>1
<1>9. ASSUME NEW i \in 1..n
      PROVE  g[i] = Op(g[i - 1], i)
  <2>1. /\ 1..i \in SUBSET (1..n) /\ Max(1..i) = i /\ (1..i) \ {i} = 1..(i - 1)
        /\ 1..i # {}
    BY <1>1, MaxInterval
  <2>2. f[1..i] = Op(f[1..(i - 1)], i)
    <3> HIDE DEF Op
    <3> QED BY <1>5, <2>1
  <2>3. i \in 0..n /\ i - 1 \in 0..n
    BY <1>1
  <2>4. g[i] = f[1..i] /\ g[i - 1] = f[1..(i - 1)]
    BY <2>3
  <2> HIDE DEF g, Op
  <2> QED BY <2>2, <2>4
<1> HIDE DEF g
<1>10. IsBalances(g, B, tx, base)
  BY <1>6, <1>7, <1>8, <1>9 DEF IsBalances
<1> QED BY <1>10

(***************************************************************************)
(* Crediting and charging a balance.                                       *)
(***************************************************************************)
LEMMA CreditedType ==
  ASSUME NEW old \in BalanceVal
  PROVE  /\ [old EXCEPT !.received = Gave + @, !.balance = Gave + @] \in BalanceVal
         /\ [old EXCEPT !.send = Got + @, !.balance = Got - @] \in BalanceVal
<1>1. /\ Gave + old.received \in Int /\ Gave + old.balance \in Int
      /\ Got + old.send \in Int /\ Got - old.balance \in Int
  BY BookAssumption DEF BalanceVal
<1>2. ASSUME NEW x \in Int, NEW y \in Int
      PROVE  /\ [old EXCEPT !.received = x, !.balance = y] \in BalanceVal
             /\ [old EXCEPT !.send = x, !.balance = y] \in BalanceVal
  BY DEF BalanceVal
<1>3. /\ [old EXCEPT !.received = Gave + old.received, !.balance = Gave + old.balance]
           \in BalanceVal
      /\ [old EXCEPT !.send = Got + old.send, !.balance = Got - old.balance] \in BalanceVal
  BY <1>1, <1>2
<1> QED BY <1>3

(***************************************************************************)
(* A new balance is a balance.                                             *)
(***************************************************************************)
LEMMA NewBalanceType ==
  ASSUME NEW d \in Tables(BalanceId, Rows(BalanceVal)), NEW S, NEW b \in BookingOf(S),
         Chained(d, b.id)
  PROVE  NewBalance(d, b) \in BalanceVal
<1>1. b.id \in BalanceId
  BY DEF BookingOf
<1>2. Balance(d, b.id) \in BalanceVal
  <2>1. CASE Exists(d, b.id)
    <3>1. d.current[b.id] \in Number /\ Current(d, b.id) # NoRow
      BY <1>1, <2>1, ChainedCanDelete DEF CanDeleteLatest
    <3>2. d.version[b.id][d.current[b.id]] \in Rows(BalanceVal) \cup {NoRow}
      BY <1>1, <3>1 DEF Tables
    <3>3. Current(d, b.id) \in Rows(BalanceVal)
      BY <3>1, <3>2 DEF Current
    <3> QED BY <2>1, <3>3 DEF Balance, Rows
  <2>2. CASE ~Exists(d, b.id)
    BY <2>2 DEF Balance, BalanceVal
  <2> QED BY <2>1, <2>2
<1> QED BY <1>2, CreditedType DEF NewBalance

(***************************************************************************)
(* An entity whose versions are chained can be given another one, as long  *)
(* as there are numbers left.                                              *)
(***************************************************************************)
LEMMA ChainedCanAdd ==
  ASSUME NEW Ids, NEW Vals, NEW d \in Tables(Ids, Vals), NEW id \in Ids,
         Chained(d, id), d.current[id] + 1 \in Number
  PROVE  CanAddVersion(d, id)
<1>1. d.current[id] \in Number \cup {Null}
  BY DEF Tables
<1>2. d.version[id][d.current[id] + 1] = NoRow
  <2>1. ~(d.current[id] + 1 <= d.current[id])
    BY <1>1 DEF Number, Null
  <2> QED BY <2>1 DEF Chained
<1>3. Exists(d, id) => Current(d, id) # NoRow
  BY ChainedCanDelete DEF CanDeleteLatest
<1> QED BY <1>2, <1>3 DEF CanAddVersion

\* The bookings among the first i of B that are of id.
BookingsOf(B, id, i) == {j \in 1..i : B[j].id = id}

\* What holds after the first i bookings: the tables d have a version more
\* for each of them, and all the versions there were.
BookedUpTo(d, B, i) ==
  /\ d \in Tables(BalanceId, Rows(BalanceVal))
  /\ \A id \in BalanceId :
       Chained(d, id) /\ d.current[id] = balances.current[id] + Cardinality(BookingsOf(B, id, i))
  /\ \A id \in BalanceId, n \in Number :
       balances.version[id][n] # NoRow => d.version[id][n] # NoRow
  /\ \A j \in 1..i : d.version[B[j].id][BookedVersion(B, j)] # NoRow

(***************************************************************************)
(* Each booking adds the version that its event names.                     *)
(***************************************************************************)
LEMMA BookingsCounted ==
  ASSUME NEW B, NEW i \in Nat \ {0}, NEW id
  PROVE  /\ Cardinality(BookingsOf(B, id, i)) =
              IF B[i].id = id THEN Cardinality(BookingsOf(B, id, i - 1)) + 1
              ELSE Cardinality(BookingsOf(B, id, i - 1))
         /\ Cardinality(BookingsOf(B, id, i)) \in Nat
         /\ Cardinality(BookingsOf(B, id, 0)) = 0
<1> DEFINE s == BookingsOf(B, id, i - 1)
           t == BookingsOf(B, id, i)
<1>1. t = IF B[i].id = id THEN s \cup {i} ELSE s
  <2>1. \A j : j \in 1..i <=> j \in 1..(i - 1) \/ j = i
    OBVIOUS
  <2> QED BY <2>1 DEF BookingsOf
<1>2. IsFiniteSet(s) /\ Cardinality(s) \in Nat
  <2> DEFINE m == i - 1
  <2>1. m \in Int
    OBVIOUS
  <2> HIDE DEF m
  <2>2. IsFiniteSet(1..m)
    BY <2>1, FS_Interval
  <2>3. BookingsOf(B, id, m) \subseteq 1..m
    BY DEF BookingsOf
  <2>4. IsFiniteSet(BookingsOf(B, id, m))
    BY <2>2, <2>3, FS_Subset
  <2> QED BY <2>4, FS_CardinalityType DEF m
<1>3. i \notin s
  BY DEF BookingsOf
<1>4. Cardinality(BookingsOf(B, id, 0)) = 0
  <2>1. BookingsOf(B, id, 0) = {}
    BY DEF BookingsOf
  <2> QED BY <2>1, FS_EmptySet
<1> HIDE DEF s, t
<1>5. Cardinality(s \cup {i}) = Cardinality(s) + 1
  BY <1>2, <1>3, FS_AddElement
<1>6. Cardinality(t) = (IF B[i].id = id THEN Cardinality(s) + 1 ELSE Cardinality(s))
  BY <1>1, <1>5
<1>7. Cardinality(t) \in Nat
  BY <1>2, <1>6
<1> QED BY <1>4, <1>6, <1>7 DEF s, t

\* Tables of balances before an order.
Start(d) ==
  /\ d \in Tables(BalanceId, Rows(BalanceVal))
  /\ \A id \in BalanceId : Chained(d, id) /\ d.current[id] \in Int

(***************************************************************************)
(* The number of bookings stays a number.                                  *)
(***************************************************************************)
LEMMA BookingsAreCounted ==
  ASSUME NEW B, NEW i \in Nat, NEW id
  PROVE  Cardinality(BookingsOf(B, id, i)) \in Nat
<1>1. CASE i = 0
  <2>1. Cardinality(BookingsOf(B, id, 0)) = 0
    <3>1. 1 \in Nat \ {0}
      OBVIOUS
    <3> QED BY <3>1, BookingsCounted
  <2> QED BY <1>1, <2>1
<1>2. CASE i # 0
  <2>1. i \in Nat \ {0}
    BY <1>2
  <2> QED BY <2>1, BookingsCounted
<1> QED BY <1>1, <1>2

(***************************************************************************)
(* One booking more.                                                       *)
(***************************************************************************)
LEMMA BookingStep ==
  ASSUME Start(balances), NEW tx \in Tx, NEW S, NEW B \in Seq(BookingOf(S)),
         \A j \in 1..Len(B) : BookedVersion(B, j) \in Number,
         NEW i \in 1..Len(B), NEW c, BookedUpTo(c, B, i - 1)
  PROVE  BookedUpTo(AddVersion(c, B[i].id, tx, NewBalance(c, B[i])), B, i)
<1> DEFINE R == Rows(BalanceVal)
           id == B[i].id
           val == NewBalance(c, B[i])
           row == [prev |-> c.current[id], tx |-> tx, val |-> val]
           e == AddVersion(c, id, tx, val)
           m == i - 1
<1>1. /\ \A j \in 1..Len(B) : B[j] \in BookingOf(S) /\ B[j].id \in BalanceId
      /\ i \in Nat \ {0} /\ m \in Nat
      /\ \A j \in 1..i : j \in 1..Len(B) /\ (j = i \/ j \in 1..m)
  <2> DEFINE Q == BookingOf(S)
  <2>1. (\A b \in Q : b.id \in BalanceId) /\ B \in Seq(Q)
    BY DEF BookingOf
  <2> HIDE DEF Q
  <2>2. \A j \in 1..Len(B) : B[j] \in Q
    BY <2>1
  <2>3. Len(B) \in Nat
    OBVIOUS
  <2>4. /\ i \in Nat \ {0} /\ m \in Nat
        /\ \A j \in 1..i : j \in 1..Len(B) /\ (j = i \/ j \in 1..m)
    BY <2>3
  <2> QED BY <2>1, <2>2, <2>4 DEF Q
<1>2. /\ c \in Tables(BalanceId, R) /\ \A j \in BalanceId : Chained(c, j)
      /\ \A j \in BalanceId :
           c.current[j] = balances.current[j] + Cardinality(BookingsOf(B, j, m))
      /\ \A j \in BalanceId, k \in Number :
           balances.version[j][k] # NoRow => c.version[j][k] # NoRow
      /\ \A j \in 1..m : c.version[B[j].id][BookedVersion(B, j)] # NoRow
  BY DEF BookedUpTo
<1>3. id \in BalanceId /\ B[i] \in BookingOf(S)
  BY <1>1
<1>4. val \in BalanceVal
  BY <1>2, <1>3, NewBalanceType
<1>5. \A j : /\ Cardinality(BookingsOf(B, j, m)) \in Nat
             /\ Cardinality(BookingsOf(B, j, i)) =
                  IF j = id THEN Cardinality(BookingsOf(B, j, m)) + 1
                  ELSE Cardinality(BookingsOf(B, j, m))
  <2>1. \A j : Cardinality(BookingsOf(B, j, i)) =
                 IF B[i].id = j THEN Cardinality(BookingsOf(B, j, i - 1)) + 1
                 ELSE Cardinality(BookingsOf(B, j, i - 1))
    BY <1>1, BookingsCounted
  <2>2. \A j : Cardinality(BookingsOf(B, j, m)) \in Nat
    <3> HIDE DEF m
    <3> QED BY <1>1, BookingsAreCounted
  <2> QED BY <2>1, <2>2
<1>6. \A j \in BalanceId : balances.current[j] \in Int
  BY DEF Start
<1>7. BookedVersion(B, i) = balances.current[id] + Cardinality(BookingsOf(B, id, i))
  BY DEF BookedVersion, BookingsOf
<1>8. BookedVersion(B, i) \in Number
  OBVIOUS
<1>9. NoRow \notin R
  BY MarkersAssumption
<1> HIDE DEF id, val, m, R
<1>10. BookedVersion(B, i) = c.current[id] + 1
  BY <1>2, <1>3, <1>5, <1>6, <1>7
<1>11. CanAddVersion(c, id)
  BY <1>2, <1>3, <1>8, <1>10, ChainedCanAdd
<1>12. row \in R
  <2>1. c.current[id] \in Number \cup {Null}
    BY <1>2, <1>3 DEF Tables
  <2> QED BY <1>4, <2>1 DEF Rows, R
<1>13. /\ e \in Tables(BalanceId, R)
       /\ \A j \in BalanceId : e.current[j] = IF j = id THEN c.current[id] + 1 ELSE c.current[j]
       /\ \A j \in BalanceId, k \in Number :
            e.version[j][k] = IF j = id /\ k = c.current[id] + 1 THEN row ELSE c.version[j][k]
  BY <1>2, <1>3, <1>11, <1>12, AddVersionType
<1>14. \A j \in BalanceId : Chained(e, j)
  BY <1>2, <1>3, <1>9, <1>11, <1>12, AddVersionChained
<1>15. row # NoRow
  BY <1>9, <1>12
<1> HIDE DEF row, e
<1>16. \A j \in BalanceId :
         e.current[j] = balances.current[j] + Cardinality(BookingsOf(B, j, i))
  BY <1>2, <1>3, <1>5, <1>6, <1>13
<1>17. \A j \in BalanceId, k \in Number : c.version[j][k] # NoRow => e.version[j][k] # NoRow
  BY <1>13, <1>15
<1>18. ASSUME NEW j \in 1..i
       PROVE  e.version[B[j].id][BookedVersion(B, j)] # NoRow
  <2>1. CASE j = i
    <3>1. B[j].id = id /\ BookedVersion(B, j) = c.current[id] + 1
      BY <1>10, <2>1 DEF id
    <3> QED BY <1>3, <1>8, <1>10, <1>13, <1>15, <3>1
  <2>2. CASE j \in 1..m
    <3>1. B[j].id \in BalanceId /\ BookedVersion(B, j) \in Number
      BY <1>1
    <3> QED BY <1>2, <1>17, <2>2, <3>1
  <2> QED BY <1>1, <2>1, <2>2
<1>19. \A j \in BalanceId, k \in Number :
         balances.version[j][k] # NoRow => e.version[j][k] # NoRow
  BY <1>2, <1>17
<1>20. BookedUpTo(e, B, i)
  BY <1>13, <1>14, <1>16, <1>18, <1>19 DEF BookedUpTo, R
<1> QED BY <1>20 DEF e, val, id

(***************************************************************************)
(* All bookings of an order together.                                      *)
(***************************************************************************)
LEMMA BalancesAdded ==
  ASSUME Start(balances), NEW tx \in Tx, NEW S, NEW B \in Seq(BookingOf(S)),
         \A i \in 1..Len(B) : BookedVersion(B, i) \in Number
  PROVE  BookedUpTo(
           FoldLeft(LAMBDA d, b : AddVersion(d, b.id, tx, NewBalance(d, b)), balances, B),
           B, Len(B))
<1>1. PICK g : IsBalances(g, B, tx, balances)
  BY BalancesTrace
<1> DEFINE n == Len(B)
           T == {i \in 0..n : BookedUpTo(g[i], B, i)}
<1>2. n \in Nat /\ 0 \in 0..n /\ n \in 0..n /\ \A i \in 1..n : i \in 0..n
  OBVIOUS
<1>3. 0 \in T
  <2>1. g[0] = balances
    BY <1>1 DEF IsBalances
  <2>2. \A id : Cardinality(BookingsOf(B, id, 0)) = 0
    <3>1. 1 \in Nat \ {0}
      OBVIOUS
    <3> QED BY <3>1, BookingsCounted
  <2>3. BookedUpTo(balances, B, 0)
    BY <2>2 DEF Start, BookedUpTo
  <2> QED BY <1>2, <2>1, <2>3
<1>4. ASSUME NEW i \in 1..n, i - 1 \in T
      PROVE  i \in T
  <2>1. BookedUpTo(g[i - 1], B, i - 1)
    BY <1>4
  <2>2. g[i] = AddVersion(g[i - 1], B[i].id, tx, NewBalance(g[i - 1], B[i]))
    BY <1>1 DEF IsBalances
  <2>3. BookedUpTo(g[i], B, i)
    BY <2>1, <2>2, BookingStep
  <2> QED BY <1>2, <2>3
<1>5. n \in T
  <2> HIDE DEF T
  <2> QED BY <1>2, <1>3, <1>4, CountUp
<1> QED BY <1>1, <1>5 DEF IsBalances

-----------------------------------------------------------------------------
\* The version an event adds to the offer f.
NewOfferRow(f, tx, kind) == [prev |-> offers.current[f], tx |-> tx, val |-> Shown(kind)]

\* The offers of S, and they alone, get a version that shows the event.
OffersExtended(S, tx, kind) ==
  /\ S \subseteq Offers /\ \A f \in S : CanAddVersion(offers, f)
  /\ offers' \in Tables(Offers, Rows(OfferVal))
  /\ \A f \in Offers :
       offers'.current[f] = IF f \in S THEN offers.current[f] + 1 ELSE offers.current[f]
  /\ \A f \in Offers, n \in Number :
       offers'.version[f][n] =
         IF f \in S /\ n = offers.current[f] + 1 THEN NewOfferRow(f, tx, kind)
         ELSE offers.version[f][n]

(***************************************************************************)
(* The new version of an offer is a row of its table.                      *)
(***************************************************************************)
LEMMA NewOfferRowType ==
  ASSUME offers \in Tables(Offers, Rows(OfferVal)), NEW f \in Offers, NEW tx \in Tx, NEW kind
  PROVE  NewOfferRow(f, tx, kind) \in Rows(OfferVal) /\ NewOfferRow(f, tx, kind) # NoRow
<1>1. WrittenVal \in OfferVal /\ RetractedVal \in OfferVal
      /\ [WrittenVal EXCEPT !.deleted = TRUE] \in OfferVal
  BY DEF WrittenVal, RetractedVal, OfferVal
<1>2. Shown(kind) \in OfferVal
  BY <1>1 DEF Shown
<1>3. offers.current[f] \in Number \cup {Null}
  BY DEF Tables
<1>4. NewOfferRow(f, tx, kind) \in Rows(OfferVal)
  BY <1>2, <1>3 DEF NewOfferRow, Rows
<1> QED BY <1>4, MarkersAssumption

(***************************************************************************)
(* AddVersion for one offer.                                               *)
(***************************************************************************)
LEMMA OneOfferExtended ==
  ASSUME offers \in Tables(Offers, Rows(OfferVal)), NEW f \in Offers, NEW tx \in Tx, NEW kind,
         CanAddVersion(offers, f), offers' = AddVersion(offers, f, tx, Shown(kind))
  PROVE  OffersExtended({f}, tx, kind)
<1> DEFINE S == {f}
<1>1. NewOfferRow(f, tx, kind) \in Rows(OfferVal)
  BY NewOfferRowType
<1>2. /\ offers' \in Tables(Offers, Rows(OfferVal))
      /\ \A j \in Offers :
           offers'.current[j] = IF j = f THEN offers.current[f] + 1 ELSE offers.current[j]
      /\ \A j \in Offers, k \in Number :
           offers'.version[j][k] = IF j = f /\ k = offers.current[f] + 1
                                   THEN NewOfferRow(f, tx, kind) ELSE offers.version[j][k]
  BY <1>1, AddVersionType DEF NewOfferRow
<1>3. \A j : j \in S <=> j = f
  OBVIOUS
<1> HIDE DEF S
<1>4. OffersExtended(S, tx, kind)
  BY <1>2, <1>3 DEF OffersExtended
<1> QED BY <1>4 DEF S

(***************************************************************************)
(* Tables are the same when they have the same rows.                       *)
(***************************************************************************)
LEMMA SameTables ==
  ASSUME NEW Ids, NEW Rws, NEW d \in Tables(Ids, Rws), NEW e \in Tables(Ids, Rws),
         \A j \in Ids : d.current[j] = e.current[j],
         \A j \in Ids, k \in Number : d.version[j][k] = e.version[j][k]
  PROVE  d = e
<1>1. /\ d.current \in [Ids -> Number \cup {Null}] /\ e.current \in [Ids -> Number \cup {Null}]
      /\ d.version \in [Ids -> [Number -> Rws \cup {NoRow}]]
      /\ e.version \in [Ids -> [Number -> Rws \cup {NoRow}]]
      /\ d = [current |-> d.current, version |-> d.version]
      /\ e = [current |-> e.current, version |-> e.version]
  BY DEF Tables
<1>2. d.current = e.current
  BY <1>1
<1>3. ASSUME NEW j \in Ids
      PROVE  d.version[j] = e.version[j]
  <2>1. d.version[j] \in [Number -> Rws \cup {NoRow}] /\ e.version[j] \in [Number -> Rws \cup {NoRow}]
    BY <1>1
  <2> QED BY <2>1
<1>4. d.version = e.version
  BY <1>1, <1>3
<1> QED BY <1>1, <1>2, <1>4

(***************************************************************************)
(* An event keeps the versions of the offers chained, and deleting the     *)
(* versions it added puts the offers back, row for row.                    *)
(***************************************************************************)
LEMMA OffersExtendedUndoable ==
  ASSUME offers \in Tables(Offers, Rows(OfferVal)), \A f \in Offers : Chained(offers, f),
         NEW S, NEW tx \in Tx, NEW kind, OffersExtended(S, tx, kind)
  PROVE  /\ \A f \in Offers : Chained(offers', f)
         /\ \A f \in S : Exists(offers', f) /\ offers'.current[f] = offers.current[f] + 1
         /\ OnEach(DeleteLatest, offers', S) = offers
<1> DEFINE R == Rows(OfferVal)
           d == offers
           e == offers'
           u == OnEach(DeleteLatest, e, S)
<1>1. /\ S \subseteq Offers /\ e \in Tables(Offers, R)
      /\ \A f \in Offers : e.current[f] = IF f \in S THEN d.current[f] + 1 ELSE d.current[f]
      /\ \A f \in Offers, n \in Number :
           e.version[f][n] = IF f \in S /\ n = d.current[f] + 1 THEN NewOfferRow(f, tx, kind)
                             ELSE d.version[f][n]
      /\ \A f \in S : d.current[f] + 1 \in Number /\ d.version[f][d.current[f] + 1] = NoRow
  BY DEF OffersExtended, CanAddVersion
<1>2. \A f \in Offers : d.current[f] \in Number \cup {Null}
  BY DEF Tables
<1>3. \A f \in Offers : NewOfferRow(f, tx, kind) # NoRow /\ NewOfferRow(f, tx, kind).prev = d.current[f]
  BY NewOfferRowType DEF NewOfferRow
<1>4. \A f \in Offers, n \in Number :
        /\ (d.version[f][n] # NoRow) <=> (n <= d.current[f])
        /\ d.version[f][n] # NoRow => d.version[f][n].prev = n - 1
  BY DEF Chained
<1> HIDE DEF d, e, R
<1>5. ASSUME NEW f \in Offers, NEW n \in Number
      PROVE  /\ (e.version[f][n] # NoRow) <=> (n <= e.current[f])
             /\ e.version[f][n] # NoRow => e.version[f][n].prev = n - 1
  <2>1. d.current[f] \in Int /\ n \in Int
    BY <1>2 DEF Number, Null
  <2>2. CASE f \in S /\ n = d.current[f] + 1
    BY <1>1, <1>3, <2>1, <2>2
  <2>3. CASE f \in S /\ n # d.current[f] + 1
    BY <1>1, <1>4, <2>1, <2>3
  <2>4. CASE f \notin S
    BY <1>1, <1>4, <2>1, <2>4
  <2> QED BY <2>2, <2>3, <2>4
<1>6. \A f \in Offers : Chained(e, f)
  BY <1>5 DEF Chained
<1>7. \A f \in S : Exists(e, f) /\ e.current[f] = d.current[f] + 1
  BY <1>1 DEF Exists, Null, Number
<1>8. DeletedEach(u, e, Offers, R, S)
  BY <1>1, <1>6, <1>7, DeleteEach
<1> HIDE DEF u
<1>9. u = d
  <2>1. u \in Tables(Offers, R) /\ d \in Tables(Offers, R)
    BY <1>8 DEF DeletedEach, d, R
  <2>2. ASSUME NEW f \in Offers
        PROVE  u.current[f] = d.current[f]
    <3>1. d.current[f] \in Int
      BY <1>2 DEF Number, Null
    <3> QED BY <1>1, <1>8, <3>1 DEF DeletedEach
  <2>3. ASSUME NEW f \in Offers, NEW n \in Number
        PROVE  u.version[f][n] = d.version[f][n]
    <3>1. u.version[f][n] = IF f \in S /\ n = e.current[f] THEN NoRow ELSE e.version[f][n]
      BY <1>8 DEF DeletedEach
    <3> QED BY <1>1, <3>1
  <2> QED BY <2>1, <2>2, <2>3, SameTables
<1> QED BY <1>6, <1>7, <1>9 DEF d, e, u

-----------------------------------------------------------------------------
(***************************************************************************)
(* The log.                                                                *)
(***************************************************************************)

\* The log has the entry e more, and the offers those versions of it.
LogExtended(e) ==
  LET n == Len(log) IN
  /\ n \in Nat /\ e \in Event /\ e.before = offers
  /\ log' \in Seq(Event) /\ Len(log') = n + 1
  /\ log'[n + 1] = e /\ \A i \in 1..n : log'[i] = log[i]
  /\ \A i \in 0..n : After(i)' = After(i)
  /\ After(Len(log))' = offers' /\ After(n) = offers
  /\ transactions' = transactions \cup {e.tx}
  /\ OffersExtended(ToSet(e.offers), e.tx, e.kind)

\* The entry of an event of the mangrove stream.
Entry(kind, o, fs, tx) ==
  [kind |-> kind, order |-> o, offers |-> fs, tx |-> tx, before |-> offers]

(***************************************************************************)
(* What Handled does to the log.                                           *)
(***************************************************************************)
LEMMA HandledLog ==
  ASSUME TypeOK, NEW kind, NEW o, NEW fs \in Seq(Offers), NEW tx \in Tx,
         \/ kind \in {"written", "retracted"} /\ o = NoOrder
         \/ kind = "completed" /\ o \in Orders,
         Handled(kind, o, fs, tx), OffersExtended(ToSet(fs), tx, kind)
  PROVE  LogExtended(Entry(kind, o, fs, tx))
<1> DEFINE e == Entry(kind, o, fs, tx)
           n == Len(log)
<1>1. e \in Event /\ e.before = offers /\ e.tx = tx /\ e.offers = fs /\ e.kind = kind
  <2>1. offers \in Tables(Offers, Rows(OfferVal))
    BY DEF TypeOK
  <2>2. CASE kind \in {"written", "retracted"} /\ o = NoOrder
    BY <2>1, <2>2 DEF Entry, Event
  <2>3. CASE kind = "completed" /\ o \in Orders
    BY <2>1, <2>3 DEF Entry, Event
  <2> QED BY <2>2, <2>3
<1>2. /\ log \in Seq(Event) /\ n \in Nat /\ log' = Append(log, e)
      /\ transactions' = transactions \cup {tx}
  BY DEF Handled, Entry, TypeOK, ensureTransaction
<1> HIDE DEF e
<1>3. /\ log' \in Seq(Event) /\ Len(log') = n + 1 /\ log'[n + 1] = e
      /\ \A i \in 1..n : log'[i] = log[i]
  BY <1>1, <1>2, AppendProperties
<1>4. After(Len(log))' = offers' /\ After(n) = offers
  BY DEF After
<1>5. ASSUME NEW i \in 0..n
      PROVE  After(i)' = After(i)
  <2>1. After(i)' = log'[i + 1].before
    BY <1>2, <1>3 DEF After
  <2>2. CASE i = n
    BY <1>1, <1>3, <2>1, <2>2 DEF After
  <2>3. CASE i # n
    BY <1>2, <1>3, <2>1, <2>3 DEF After
  <2> QED BY <2>2, <2>3
<1>6. LogExtended(e)
  BY <1>1, <1>2, <1>3, <1>4, <1>5 DEF LogExtended
<1> QED BY <1>6 DEF e

\* The log has its last entry no more, and the offers are what that found.
LogShortened ==
  LET n == Len(log) IN
  /\ n \in Nat \ {0} /\ LatestEvent = log[n] /\ LatestEvent \in Event
  /\ log' \in Seq(Event) /\ Len(log') = n - 1
  /\ \A i \in 1..(n - 1) : log'[i] = log[i]
  /\ \A i \in 0..(n - 1) : After(i)' = After(i)
  /\ After(n) = offers /\ After(n - 1) = LatestEvent.before
  /\ transactions' = transactions \cup {LatestEvent.tx}
  /\ offers' = LatestEvent.before
  /\ DeletedEach(offers', offers, Offers, Rows(OfferVal), ToSet(LatestEvent.offers))

(***************************************************************************)
(* What an undo does to the log and to the offers.                         *)
(***************************************************************************)
LEMMA UndoneLog ==
  ASSUME TypeOK, VersionsChained, LogUndoable, UndoMangroveEvent
  PROVE  LogShortened
<1> DEFINE n == Len(log)
           S == ToSet(LatestEvent.offers)
<1>1. /\ log \in Seq(Event) /\ n \in Nat \ {0} /\ n - 1 \in 0..n
      /\ LatestEvent = log[n] /\ LatestEvent \in Event /\ n \in 1..n
  BY DEF TypeOK, LatestEvent, UndoMangroveEvent
<1>2. LatestEvent.offers \in Seq(Offers) /\ LatestEvent.before \in Tables(Offers, Rows(OfferVal))
  BY <1>1 DEF Event
<1>3. S \subseteq Offers
  BY <1>2 DEF ToSet
<1>4. /\ \A f \in S : Exists(offers, f)
      /\ OnEach(DeleteLatest, offers, S) = LatestEvent.before
  <2>1. After(n) = offers
    BY DEF After
  <2> QED BY <1>1, <2>1 DEF LogUndoable, Undone
<1>5. offers' = OnEach(DeleteLatest, offers, S)
  BY DEF UndoMangroveEvent, Undone
<1>6. log' = SubSeq(log, 1, n - 1)
  BY DEF UndoMangroveEvent, Front
<1>7. /\ log' \in Seq(Event) /\ Len(log') = n - 1
      /\ \A i \in 1..(n - 1) : log'[i] = log[i]
  BY <1>1, <1>6, PrefixProperties
<1>8. ASSUME NEW i \in 0..(n - 1)
      PROVE  After(i)' = After(i)
  <2>1. CASE i = n - 1
    BY <1>1, <1>4, <1>5, <1>7, <2>1 DEF After
  <2>2. CASE i # n - 1
    BY <1>1, <1>7, <2>2 DEF After
  <2> QED BY <2>1, <2>2
<1>9. DeletedEach(offers', offers, Offers, Rows(OfferVal), S)
  <2>1. offers \in Tables(Offers, Rows(OfferVal)) /\ \A f \in Offers : Chained(offers, f)
    BY DEF TypeOK, VersionsChained
  <2> HIDE DEF S
  <2> QED BY <1>3, <1>4, <1>5, <2>1, DeleteEach
<1>10. After(n) = offers /\ After(n - 1) = LatestEvent.before
  BY <1>1 DEF After
<1>11. transactions' = transactions \cup {LatestEvent.tx}
  BY DEF UndoMangroveEvent, ensureTransaction
<1> QED BY <1>1, <1>4, <1>5, <1>7, <1>8, <1>9, <1>10, <1>11 DEF LogShortened

-----------------------------------------------------------------------------
(***************************************************************************)
(* What of the invariant speaks of the offers and the log.  It depends on  *)
(* the entries that stay only, so an event has to show it of its own.      *)
(***************************************************************************)

(***************************************************************************)
(* The versions of offers.                                                 *)
(***************************************************************************)
LEMMA ExtendedChained ==
  ASSUME TypeOK, BooksChained, LogUndoable, NEW e, LogExtended(e)
  PROVE  /\ BooksChained' /\ LogUndoable'
         /\ \A f \in Offers : Chained(offers', f)
<1> DEFINE n == Len(log)
           S == ToSet(e.offers)
<1>1. /\ n \in Nat /\ Len(log') = n + 1 /\ log'[n + 1] = e /\ e.before = offers
      /\ \A i \in 1..n : log'[i] = log[i]
      /\ \A i \in 0..n : After(i)' = After(i)
      /\ After(Len(log))' = offers' /\ After(n) = offers
      /\ OffersExtended(S, e.tx, e.kind) /\ e.tx \in Tx
  BY DEF LogExtended, Event
<1>2. \A f \in Offers : Chained(offers, f)
  BY <1>1 DEF BooksChained
<1> HIDE DEF S
<1>3. /\ \A f \in Offers : Chained(offers', f)
      /\ \A f \in S : Exists(offers', f) /\ offers'.current[f] = offers.current[f] + 1
      /\ OnEach(DeleteLatest, offers', S) = offers
  <2>1. offers \in Tables(Offers, Rows(OfferVal))
    BY DEF TypeOK
  <2> QED BY <1>1, <1>2, <2>1, OffersExtendedUndoable
<1>4. ASSUME NEW i \in 0..(n + 1), NEW f \in Offers
      PROVE  Chained(After(i)', f)
  <2>1. CASE i = n + 1
    <3>1. After(i)' = offers'
      BY <1>1, <2>1 DEF After
    <3> QED BY <1>3, <3>1
  <2>2. CASE i # n + 1
    <3>1. i \in 0..n
      BY <1>1, <2>2
    <3>2. Chained(After(i), f) /\ After(i)' = After(i)
      BY <1>1, <3>1 DEF BooksChained
    <3> QED BY <3>2
  <2> QED BY <2>1, <2>2
<1>5. BooksChained'
  BY <1>1, <1>4 DEF BooksChained
<1>6. ASSUME NEW i \in 1..(n + 1)
      PROVE  /\ \A f \in Undone(log'[i]) :
                  Exists(After(i)', f) /\ After(i)'.current[f] = log'[i].before.current[f] + 1
             /\ OnEach(DeleteLatest, After(i)', Undone(log'[i])) = log'[i].before
  <2>1. CASE i = n + 1
    <3>1. After(i)' = offers' /\ log'[i] = e /\ Undone(e) = S
      BY <1>1, <2>1 DEF After, Undone, S
    <3> QED BY <1>1, <1>3, <3>1
  <2>2. CASE i # n + 1
    <3>1. i \in 1..n /\ i \in 0..n
      BY <1>1, <2>2
    <3>2. log'[i] = log[i] /\ After(i)' = After(i)
      BY <1>1, <3>1
    <3>3. /\ \A f \in Undone(log[i]) :
               Exists(After(i), f) /\ After(i).current[f] = log[i].before.current[f] + 1
          /\ OnEach(DeleteLatest, After(i), Undone(log[i])) = log[i].before
      BY <3>1 DEF LogUndoable
    <3> QED BY <3>2, <3>3
  <2> QED BY <2>1, <2>2
<1>7. LogUndoable'
  <2>1. \A i : Undone(log[i])' = Undone(log'[i])
    BY DEF Undone
  <2> QED BY <1>1, <1>6, <2>1 DEF LogUndoable
<1> QED BY <1>3, <1>5, <1>7

(***************************************************************************)
(* Those of a shorter log.                                                 *)
(***************************************************************************)
LEMMA ShortenedChained ==
  ASSUME BooksChained, LogUndoable, LogShortened
  PROVE  BooksChained' /\ LogUndoable' /\ \A f \in Offers : Chained(offers', f)
<1> DEFINE n == Len(log)
<1>1. /\ n \in Nat \ {0} /\ Len(log') = n - 1 /\ n - 1 \in 0..n
      /\ \A i \in 0..(n - 1) : i \in 0..n
      /\ \A i \in 1..(n - 1) : i \in 1..n /\ i \in 0..(n - 1)
      /\ \A i \in 1..(n - 1) : log'[i] = log[i]
      /\ \A i \in 0..(n - 1) : After(i)' = After(i)
      /\ offers' = After(n - 1)
  BY DEF LogShortened
<1>2. BooksChained'
  <2>1. \A i \in 0..(n - 1), f \in Offers : Chained(After(i), f)
    BY <1>1 DEF BooksChained
  <2>2. \A i \in 0..(n - 1), f \in Offers : Chained(After(i)', f)
    BY <1>1, <2>1
  <2> QED BY <1>1, <2>2 DEF BooksChained
<1>3. ASSUME NEW i \in 1..(n - 1)
      PROVE  /\ \A f \in Undone(log'[i]) :
                  Exists(After(i)', f) /\ After(i)'.current[f] = log'[i].before.current[f] + 1
             /\ OnEach(DeleteLatest, After(i)', Undone(log'[i])) = log'[i].before
  <2>1. log'[i] = log[i] /\ After(i)' = After(i)
    BY <1>1
  <2>2. /\ \A f \in Undone(log[i]) :
             Exists(After(i), f) /\ After(i).current[f] = log[i].before.current[f] + 1
        /\ OnEach(DeleteLatest, After(i), Undone(log[i])) = log[i].before
    BY <1>1 DEF LogUndoable
  <2> QED BY <2>1, <2>2
<1>4. LogUndoable'
  <2>1. \A i : Undone(log[i])' = Undone(log'[i])
    BY DEF Undone
  <2> QED BY <1>1, <1>3, <2>1 DEF LogUndoable
<1>5. \A f \in Offers : Chained(offers', f)
  BY <1>1 DEF BooksChained
<1> QED BY <1>2, <1>4, <1>5

(***************************************************************************)
(* Versions stay what they are: the new ones take free numbers.            *)
(***************************************************************************)
LEMMA ExtendedRows ==
  ASSUME RowsStay, NEW e, LogExtended(e)
  PROVE  RowsStay'
<1> DEFINE n == Len(log)
<1>1. /\ n \in Nat /\ Len(log') = n + 1
      /\ \A i \in 0..n : After(i)' = After(i)
      /\ After(Len(log))' = offers' /\ After(n) = offers
      /\ OffersExtended(ToSet(e.offers), e.tx, e.kind)
  BY DEF LogExtended
<1>2. \A f \in Offers, k \in Number :
        offers.version[f][k] # NoRow => offers'.version[f][k] = offers.version[f][k]
  <2> DEFINE S == ToSet(e.offers)
  <2>1. /\ \A f \in S : offers.version[f][offers.current[f] + 1] = NoRow
        /\ \A f \in Offers, k \in Number :
             ~(f \in S /\ k = offers.current[f] + 1) => offers'.version[f][k] = offers.version[f][k]
    BY <1>1 DEF OffersExtended, CanAddVersion
  <2> HIDE DEF S
  <2> QED BY <2>1
<1>3. \A j : j = n + 1 => After(j)' = offers'
  BY <1>1 DEF After
<1>4. ASSUME NEW i \in 0..(n + 1), NEW j \in i..(n + 1), NEW f \in Offers, NEW k \in Number,
             After(i)'.version[f][k] # NoRow
      PROVE  After(j)'.version[f][k] = After(i)'.version[f][k]
  <2>1. CASE i = n + 1
    <3>1. j = i
      BY <1>1, <2>1
    <3> QED BY <3>1
  <2>2. CASE i # n + 1 /\ j = n + 1
    <3>1. i \in 0..n /\ n \in i..n
      BY <1>1, <2>2
    <3>2. After(i).version[f][k] # NoRow /\ After(i)' = After(i)
      BY <1>1, <1>4, <3>1
    <3>3. offers.version[f][k] = After(i).version[f][k]
      BY <1>1, <3>1, <3>2 DEF RowsStay
    <3>4. offers'.version[f][k] = After(i).version[f][k]
      BY <1>2, <3>2, <3>3
    <3>5. After(j)' = offers'
      BY <1>3, <2>2
    <3> QED BY <3>2, <3>4, <3>5
  <2>3. CASE i # n + 1 /\ j # n + 1
    <3>1. i \in 0..n /\ j \in i..n /\ j \in 0..n
      BY <1>1, <2>3
    <3>2. After(i)' = After(i) /\ After(j)' = After(j)
      BY <1>1, <3>1
    <3> QED BY <1>4, <3>1, <3>2 DEF RowsStay
  <2> QED BY <2>1, <2>2, <2>3
<1> QED BY <1>1, <1>4 DEF RowsStay

(***************************************************************************)
(* And they did in a shorter log.                                          *)
(***************************************************************************)
LEMMA ShortenedRows ==
  ASSUME RowsStay, LogShortened
  PROVE  RowsStay'
<1> DEFINE n == Len(log)
<1>1. /\ n \in Nat \ {0} /\ Len(log') = n - 1
      /\ \A i \in 0..(n - 1) : After(i)' = After(i)
  BY DEF LogShortened
<1>2. ASSUME NEW i \in 0..(n - 1), NEW j \in i..(n - 1), NEW f \in Offers, NEW k \in Number,
             After(i)'.version[f][k] # NoRow
      PROVE  After(j)'.version[f][k] = After(i)'.version[f][k]
  <2>1. i \in 0..n /\ j \in i..n /\ j \in 0..(n - 1)
    BY <1>1
  <2>2. After(i)' = After(i) /\ After(j)' = After(j)
    BY <1>1, <2>1
  <2> QED BY <1>2, <2>1, <2>2 DEF RowsStay
<1> QED BY <1>1, <1>2 DEF RowsStay

(***************************************************************************)
(* The offers are the replay of the entries.                               *)
(***************************************************************************)
LEMMA ExtendedReplay ==
  ASSUME TypeOK, OffersReplayed, NEW e, LogExtended(e)
  PROVE  OffersReplayed'
<1> DEFINE n == Len(log)
           S == ToSet(e.offers)
<1>1. /\ n \in Nat /\ Len(log') = n + 1 /\ log'[n + 1] = e
      /\ \A i \in 1..n : log'[i] = log[i]
      /\ \A i \in 0..n : After(i)' = After(i)
      /\ After(Len(log))' = offers' /\ After(n) = offers
      /\ OffersExtended(S, e.tx, e.kind)
  BY DEF LogExtended
<1>2. \A j, f : /\ j \in 1..n => (Touches(log'[j], f) <=> Touches(log[j], f))
                /\ j = n + 1 => (Touches(log'[j], f) <=> f \in S)
  BY <1>1 DEF Touches
<1>3. \A f \in Offers : offers.current[f] \in Number \cup {Null}
  BY DEF TypeOK, Tables
<1>4. ASSUME NEW f \in Offers
      PROVE  /\ offers'.current[f] = IF f \in S THEN offers.current[f] + 1 ELSE offers.current[f]
             /\ f \in S => offers'.current[f] \in Number
             /\ f \in S => Current(offers', f) = NewOfferRow(f, e.tx, e.kind)
             /\ f \notin S /\ Exists(offers, f) => Current(offers', f) = Current(offers, f)
             /\ Exists(offers', f) <=> f \in S \/ Exists(offers, f)
  <2>1. offers'.current[f] = IF f \in S THEN offers.current[f] + 1 ELSE offers.current[f]
    BY <1>1 DEF OffersExtended
  <2>2. f \in S => offers'.current[f] \in Number
    BY <1>1, <2>1 DEF OffersExtended, CanAddVersion
  <2>3. f \in S => Current(offers', f) = NewOfferRow(f, e.tx, e.kind)
    BY <1>1, <2>1, <2>2 DEF OffersExtended, Current
  <2>4. f \notin S /\ Exists(offers, f) => Current(offers', f) = Current(offers, f)
    <3>1. Exists(offers, f) => offers.current[f] \in Number
      BY <1>3 DEF Exists
    <3> QED BY <1>1, <2>1, <3>1 DEF OffersExtended, Current
  <2>5. Exists(offers', f) <=> f \in S \/ Exists(offers, f)
    BY <2>1, <2>2 DEF Exists, Number, Null
  <2> QED BY <2>1, <2>2, <2>3, <2>4, <2>5
<1> HIDE DEF S
<1>5. ASSUME NEW f \in Offers
      PROVE  /\ Exists(offers', f) <=> \E j \in 1..(n + 1) : Touches(log'[j], f)
             /\ \A j \in 1..(n + 1) :
                  (Touches(log'[j], f) /\ \A k \in (j + 1)..(n + 1) : ~Touches(log'[k], f)) =>
                    /\ Current(offers', f).val = Shown(log'[j].kind)
                    /\ Current(offers', f).tx = log'[j].tx
  <2>1. n \in 0..n
    BY <1>1
  <2>2. /\ Exists(offers, f) <=> \E j \in 1..n : Touches(log[j], f)
        /\ \A j \in 1..n : LastTouch(f, j, n) =>
             /\ Current(offers, f).val = Shown(log[j].kind)
             /\ Current(offers, f).tx = log[j].tx
    BY <1>1, <2>1 DEF OffersReplayed
  <2>3. \A j : j \in 1..(n + 1) <=> j \in 1..n \/ j = n + 1
    BY <1>1
  <2>4. Exists(offers', f) <=> \E j \in 1..(n + 1) : Touches(log'[j], f)
    BY <1>2, <1>4, <2>2, <2>3
  <2>5. ASSUME NEW j \in 1..(n + 1), Touches(log'[j], f),
               \A k \in (j + 1)..(n + 1) : ~Touches(log'[k], f)
        PROVE  /\ Current(offers', f).val = Shown(log'[j].kind)
               /\ Current(offers', f).tx = log'[j].tx
    <3>1. CASE j = n + 1
      <4>1. f \in S /\ log'[j] = e
        BY <1>1, <1>2, <2>5, <3>1
      <4> QED BY <1>4, <4>1 DEF NewOfferRow
    <3>2. CASE j # n + 1
      <4>1. j \in 1..n /\ log'[j] = log[j] /\ n + 1 \in (j + 1)..(n + 1)
        BY <1>1, <3>2
      <4>2. f \notin S
        BY <1>2, <2>5, <4>1
      <4>3. \A k \in (j + 1)..n : k \in 1..n /\ k \in (j + 1)..(n + 1)
        BY <1>1, <4>1
      <4>4. LastTouch(f, j, n)
        BY <1>2, <2>5, <4>1, <4>3 DEF LastTouch
      <4>5. Exists(offers, f)
        BY <2>2, <4>1, <4>4 DEF LastTouch
      <4> QED BY <1>4, <2>2, <4>1, <4>2, <4>4, <4>5
    <3> QED BY <3>1, <3>2
  <2> QED BY <2>4, <2>5
<1>6. ASSUME NEW i \in 0..(n + 1), NEW f \in Offers
      PROVE  /\ Exists(After(i)', f) <=> \E j \in 1..i : Touches(log'[j], f)
             /\ \A j \in 1..i :
                  (Touches(log'[j], f) /\ \A k \in (j + 1)..i : ~Touches(log'[k], f)) =>
                    /\ Current(After(i)', f).val = Shown(log'[j].kind)
                    /\ Current(After(i)', f).tx = log'[j].tx
  <2>1. CASE i = n + 1
    <3>1. After(i)' = offers'
      BY <1>1, <2>1 DEF After
    <3> QED BY <1>5, <2>1, <3>1
  <2>2. CASE i # n + 1
    <3>1. i \in 0..n /\ After(i)' = After(i) /\ \A j \in 1..i : j \in 1..n
      BY <1>1, <2>2
    <3>2. \A j \in 1..i : log'[j] = log[j]
      BY <1>1, <3>1
    <3>3. \A j \in 1..i : \A k \in (j + 1)..i : log'[k] = log[k]
      BY <1>1, <3>1, <3>2
    <3>4. /\ Exists(After(i), f) <=> \E j \in 1..i : Touches(log[j], f)
          /\ \A j \in 1..i : LastTouch(f, j, i) =>
               /\ Current(After(i), f).val = Shown(log[j].kind)
               /\ Current(After(i), f).tx = log[j].tx
      BY <3>1 DEF OffersReplayed
    <3> QED BY <3>1, <3>2, <3>3, <3>4 DEF LastTouch
  <2> QED BY <2>1, <2>2
<1> QED BY <1>1, <1>6 DEF OffersReplayed, LastTouch

(***************************************************************************)
(* Those of a shorter log are.                                             *)
(***************************************************************************)
LEMMA ShortenedReplay ==
  ASSUME OffersReplayed, LogShortened
  PROVE  OffersReplayed'
<1> DEFINE n == Len(log)
<1>1. /\ n \in Nat \ {0} /\ Len(log') = n - 1
      /\ \A i \in 1..(n - 1) : log'[i] = log[i]
      /\ \A i \in 0..(n - 1) : After(i)' = After(i)
  BY DEF LogShortened
<1>2. ASSUME NEW i \in 0..(n - 1), NEW f \in Offers
      PROVE  /\ Exists(After(i)', f) <=> \E j \in 1..i : Touches(log'[j], f)
             /\ \A j \in 1..i :
                  (Touches(log'[j], f) /\ \A k \in (j + 1)..i : ~Touches(log'[k], f)) =>
                    /\ Current(After(i)', f).val = Shown(log'[j].kind)
                    /\ Current(After(i)', f).tx = log'[j].tx
  <2>1. i \in 0..n /\ After(i)' = After(i) /\ \A j \in 1..i : j \in 1..(n - 1)
    BY <1>1
  <2>2. \A j \in 1..i : log'[j] = log[j]
    BY <1>1, <2>1
  <2>3. \A j \in 1..i : \A k \in (j + 1)..i : log'[k] = log[k]
    BY <1>1, <2>1, <2>2
  <2>4. /\ Exists(After(i), f) <=> \E j \in 1..i : Touches(log[j], f)
        /\ \A j \in 1..i : LastTouch(f, j, i) =>
             /\ Current(After(i), f).val = Shown(log[j].kind)
             /\ Current(After(i), f).tx = log[j].tx
    BY <2>1 DEF OffersReplayed
  <2> QED BY <2>1, <2>2, <2>3, <2>4 DEF LastTouch
<1> QED BY <1>1, <1>2 DEF OffersReplayed, LastTouch

(***************************************************************************)
(* The entries of orders.                                                  *)
(***************************************************************************)
LEMMA ExtendedCompleted ==
  ASSUME NEW e, LogExtended(e)
  PROVE  /\ Completed' = IF e.kind = "completed" THEN Completed \cup {Len(log) + 1}
                         ELSE Completed
         /\ \A i \in Completed : log'[i] = log[i] /\ i # Len(log) + 1
<1> DEFINE n == Len(log)
<1>1. /\ n \in Nat /\ Len(log') = n + 1 /\ log'[n + 1] = e
      /\ \A i \in 1..n : log'[i] = log[i]
  BY DEF LogExtended
<1>2. Completed = {i \in 1..n : log[i].kind = "completed"}
  BY DEF Completed
<1>3. Completed' = {i \in 1..(n + 1) : log'[i].kind = "completed"}
  BY <1>1 DEF Completed
<1>4. \A i : i \in 1..(n + 1) <=> i \in 1..n \/ i = n + 1
  BY <1>1
<1>5. \A i \in 1..n : i # n + 1
  BY <1>1
<1> HIDE DEF n
<1>6. Completed' = IF e.kind = "completed" THEN Completed \cup {n + 1} ELSE Completed
  <2>1. \A i : i \in Completed' <=> i \in Completed \/ (i = n + 1 /\ e.kind = "completed")
    BY <1>1, <1>2, <1>3, <1>4, <1>5
  <2> QED BY <2>1
<1> QED BY <1>1, <1>2, <1>5, <1>6 DEF n

(***************************************************************************)
(* The entries of orders in a shorter log.                                 *)
(***************************************************************************)
LEMMA ShortenedCompleted ==
  ASSUME LogShortened
  PROVE  /\ Completed' = Completed \ {Len(log)}
         /\ LatestEvent.kind = "completed" <=> Len(log) \in Completed
         /\ log[Len(log)] = LatestEvent
         /\ \A i \in Completed' : log'[i] = log[i]
<1> DEFINE n == Len(log)
<1>1. /\ n \in Nat \ {0} /\ Len(log') = n - 1 /\ log[n] = LatestEvent
      /\ \A i \in 1..(n - 1) : log'[i] = log[i]
  BY DEF LogShortened
<1>2. Completed = {i \in 1..n : log[i].kind = "completed"}
  BY DEF Completed
<1>3. Completed' = {i \in 1..(n - 1) : log'[i].kind = "completed"}
  BY <1>1 DEF Completed
<1>4. /\ \A i : i \in 1..(n - 1) <=> i \in 1..n /\ i # n
      /\ n \in 1..n
  BY <1>1
<1> HIDE DEF n
<1> QED BY <1>1, <1>2, <1>3, <1>4 DEF n

(***************************************************************************)
(* Orders take offers that are in the book.                                *)
(***************************************************************************)
LEMMA ExtendedTakenFromBook ==
  ASSUME TakenFromBook, NEW e, LogExtended(e),
         e.kind = "completed" =>
           \A f \in ToSet(e.offers) : Exists(offers, f) /\ ~Current(offers, f).val.deleted
  PROVE  TakenFromBook'
<1>1. /\ e.before = offers /\ log'[Len(log) + 1] = e
      /\ Completed' = IF e.kind = "completed" THEN Completed \cup {Len(log) + 1} ELSE Completed
      /\ \A i \in Completed : log'[i] = log[i]
  BY ExtendedCompleted DEF LogExtended
<1>2. ASSUME NEW i \in Completed', NEW f \in ToSet(log'[i].offers)
      PROVE  Exists(log'[i].before, f) /\ ~Current(log'[i].before, f).val.deleted
  <2>1. CASE i \in Completed
    <3>1. f \in Undone(log[i]) /\ log'[i] = log[i]
      BY <1>1, <1>2, <2>1 DEF Undone
    <3> QED BY <2>1, <3>1 DEF TakenFromBook
  <2>2. CASE i \notin Completed
    <3>1. log'[i] = e /\ e.kind = "completed"
      BY <1>1, <2>2
    <3> QED BY <1>1, <1>2, <3>1
  <2> QED BY <2>1, <2>2
<1> QED BY <1>2 DEF TakenFromBook, Undone

(***************************************************************************)
(* So do the orders of a shorter log.                                      *)
(***************************************************************************)
LEMMA ShortenedTakenFromBook ==
  ASSUME TakenFromBook, LogShortened
  PROVE  TakenFromBook'
<1>1. \A i \in Completed' : i \in Completed /\ log'[i] = log[i]
  BY ShortenedCompleted
<1>2. ASSUME NEW i \in Completed', NEW f \in ToSet(log'[i].offers)
      PROVE  Exists(log'[i].before, f) /\ ~Current(log'[i].before, f).val.deleted
  BY <1>1, <1>2 DEF TakenFromBook, Undone
<1> QED BY <1>2 DEF TakenFromBook, Undone

\* What the event e does to the tables of orders and of taken offers.
OrderMade(e) ==
  IF e.kind = "completed"
  THEN /\ e.order \notin orders
       /\ orders' = orders \cup {e.order}
       /\ takenOffers' = takenOffers \cup {mapTakenOffer(e.order, f) : f \in ToSet(e.offers)}
  ELSE orders' = orders /\ takenOffers' = takenOffers

(***************************************************************************)
(* The orders are the replay of the entries.                               *)
(***************************************************************************)
LEMMA ExtendedOrders ==
  ASSUME OrdersReplayed, TakenReplayed, NEW e, LogExtended(e), OrderMade(e)
  PROVE  OrdersReplayed' /\ TakenReplayed'
<1> DEFINE N == Len(log) + 1
<1>1. /\ e.before = offers /\ log'[N] = e
      /\ Completed' = IF e.kind = "completed" THEN Completed \cup {N} ELSE Completed
      /\ \A i \in Completed : log'[i] = log[i] /\ i # N
  BY ExtendedCompleted DEF LogExtended
<1>2. /\ orders = {log[i].order : i \in Completed}
      /\ \A i, j \in Completed : log[i].order = log[j].order => i = j
  BY DEF OrdersReplayed
<1>3. \A i \in Completed : TakenBy(i)' = TakenBy(i)
  BY <1>1 DEF TakenBy, Undone
<1> HIDE DEF N
<1>4. CASE e.kind = "completed"
  <2>1. /\ e.order \notin orders
        /\ orders' = orders \cup {e.order}
        /\ takenOffers' = takenOffers \cup {mapTakenOffer(e.order, f) : f \in ToSet(e.offers)}
    BY <1>4 DEF OrderMade
  <2>2. Completed' = Completed \cup {N}
    BY <1>1, <1>4
  <2>3. orders' = {log'[i].order : i \in Completed'}
    BY <1>1, <1>2, <2>1, <2>2
  <2>4. \A i, j \in Completed' : log'[i].order = log'[j].order => i = j
    BY <1>1, <1>2, <2>1, <2>2
  <2>5. \A i : i = N => TakenBy(i)' = {mapTakenOffer(e.order, f) : f \in ToSet(e.offers)}
    BY <1>1 DEF TakenBy, mapTakenOffer, Undone
  <2>6. takenOffers' = UNION {TakenBy(i)' : i \in Completed'}
    <3> DEFINE New == {mapTakenOffer(e.order, f) : f \in ToSet(e.offers)}
    <3>1. \A i \in Completed' : TakenBy(i)' = IF i \in Completed THEN TakenBy(i) ELSE New
      BY <1>3, <2>2, <2>5
    <3>2. takenOffers = UNION {TakenBy(i) : i \in Completed}
      BY DEF TakenReplayed
    <3>3. N \in Completed' /\ N \notin Completed
      BY <1>1, <2>2
    <3>4. takenOffers' = takenOffers \cup New
      BY <2>1
    <3> HIDE DEF New
    <3>5. \A t : t \in takenOffers' <=> \E i \in Completed' : t \in TakenBy(i)'
      BY <2>2, <3>1, <3>2, <3>3, <3>4
    <3> QED BY <3>5
  <2> QED BY <2>3, <2>4, <2>6 DEF OrdersReplayed, TakenReplayed
<1>5. CASE e.kind # "completed"
  <2>1. orders' = orders /\ takenOffers' = takenOffers /\ Completed' = Completed
    BY <1>1, <1>5 DEF OrderMade
  <2>2. OrdersReplayed'
    BY <1>1, <1>2, <2>1 DEF OrdersReplayed
  <2>3. TakenReplayed'
    BY <1>3, <2>1 DEF TakenReplayed
  <2> QED BY <2>2, <2>3
<1> QED BY <1>4, <1>5

(***************************************************************************)
(* When an order is undone, it and its taken offers go, and no others.     *)
(***************************************************************************)
LEMMA ShortenedOrders ==
  ASSUME TypeOK, OrdersReplayed, TakenReplayed, LogShortened,
         orders' = orders \ {LatestEvent.order}, takenOffers' = OfOtherOrders(takenOffers)
  PROVE  OrdersReplayed' /\ TakenReplayed'
<1> DEFINE n == Len(log)
           o == LatestEvent.order
<1>1. /\ Completed' = Completed \ {n} /\ log[n] = LatestEvent
      /\ LatestEvent.kind = "completed" <=> n \in Completed
      /\ \A i \in Completed' : log'[i] = log[i]
  BY ShortenedCompleted
<1>2. /\ orders = {log[i].order : i \in Completed}
      /\ \A i, j \in Completed : log[i].order = log[j].order => i = j
  BY DEF OrdersReplayed
<1>3. ASSUME NEW i \in Completed, i # n
      PROVE  log[i].order # o
  <2>1. CASE LatestEvent.kind = "completed"
    BY <1>1, <1>2, <1>3, <2>1
  <2>2. CASE LatestEvent.kind # "completed"
    <3>1. LatestEvent \in Event /\ log[i] \in Event /\ log[i].kind = "completed"
      BY DEF LogShortened, Completed, TypeOK
    <3>2. o = NoOrder /\ log[i].order \in Orders
      BY <2>2, <3>1 DEF Event
    <3> QED BY <3>2, BookAssumption
  <2> QED BY <2>1, <2>2
<1>4. \A i \in Completed' : TakenBy(i)' = TakenBy(i)
  BY <1>1 DEF TakenBy, Undone
<1>5. \A i : \A t \in TakenBy(i) : t.order = log[i].order
  BY DEF TakenBy
<1>6. takenOffers' = {t \in takenOffers : t.order # o}
  BY DEF OfOtherOrders
<1>7. log[n].order = o
  BY <1>1
<1> HIDE DEF n, o
<1>8. orders' = {log'[i].order : i \in Completed'}
  <2>1. orders' = orders \ {o}
    BY DEF o
  <2> QED BY <1>1, <1>2, <1>3, <1>7, <2>1
<1>9. \A i, j \in Completed' : log'[i].order = log'[j].order => i = j
  BY <1>1, <1>2
<1>10. takenOffers' = UNION {TakenBy(i)' : i \in Completed'}
  <2>1. takenOffers = UNION {TakenBy(i) : i \in Completed}
    BY DEF TakenReplayed
  <2>2. \A t : t \in takenOffers' <=> \E i \in Completed' : t \in TakenBy(i)
    BY <1>1, <1>3, <1>5, <1>6, <1>7, <2>1
  <2> QED BY <1>4, <2>2
<1> QED BY <1>8, <1>9, <1>10 DEF OrdersReplayed, TakenReplayed

-----------------------------------------------------------------------------
(***************************************************************************)
(* The rest of the invariant, table by table: types, chains of versions    *)
(* and what the rows refer to.                                             *)
(***************************************************************************)
OfferPart ==
  /\ offers \in Tables(Offers, Rows(OfferVal))
  /\ events \subseteq [offer : Offers, n : Number]
  /\ \A f \in Offers : Chained(offers, f)
  /\ \A f \in Offers, n \in Number :
       offers.version[f][n] # NoRow => offers.version[f][n].tx \in transactions
  /\ \A f \in Offers : Exists(offers, f) => MakerOf[f] \in accounts
  /\ \A e \in events : offers.version[e.offer][e.n] # NoRow

OrderPart ==
  /\ orders \subseteq Orders
  /\ takenOffers \subseteq [order : Orders, offer : Offers, n : Number]
  /\ \A o \in orders : TakerOf[o] \in accounts
  /\ \A t \in takenOffers : t.order \in orders

BalancePart ==
  /\ balances \in Tables(BalanceId, Rows(BalanceVal))
  /\ balanceEvents \subseteq [order : Orders, offer : Offers, id : BalanceId, n : Number]
  /\ \A id \in BalanceId : Chained(balances, id)
  /\ \A id \in BalanceId : Exists(balances, id) => id[1] \in accounts
  /\ \A b \in balanceEvents :
       /\ balances.version[b.id][b.n] # NoRow
       /\ \E t \in takenOffers : t.order = b.order /\ t.offer = b.offer

SummaryPart ==
  /\ mangroveOrders \in Tables(MangroveOrders, Rows(Dates))
  /\ expiryEvents \subseteq [order : MangroveOrders, n : Number]
  /\ \A m \in MangroveOrders : Chained(mangroveOrders, m)
  /\ \A m \in MangroveOrders, n \in Number :
       mangroveOrders.version[m][n] # NoRow => mangroveOrders.version[m][n].tx \in transactions
  /\ \A e \in expiryEvents : mangroveOrders.version[e.order][e.n] # NoRow

LogPart ==
  /\ accounts \subseteq Accounts /\ transactions \subseteq Tx
  /\ log \in Seq(Event) /\ stratLog \in Seq(StratEvent)

AllParts == OfferPart /\ OrderPart /\ BalancePart /\ SummaryPart /\ LogPart

(***************************************************************************)
(* Together they say what the three properties say.                        *)
(***************************************************************************)
LEMMA PartsMeanProperties == AllParts <=> TypeOK /\ VersionsChained /\ ReferencesResolve
<1>1. AllParts => TypeOK /\ VersionsChained /\ ReferencesResolve
  <2> SUFFICES ASSUME AllParts
               PROVE  TypeOK /\ VersionsChained /\ ReferencesResolve
    OBVIOUS
  <2>1. TypeOK
    BY DEF AllParts, OfferPart, OrderPart, BalancePart, SummaryPart, LogPart, TypeOK
  <2>2. VersionsChained
    BY DEF AllParts, OfferPart, BalancePart, SummaryPart, VersionsChained
  <2>3. ReferencesResolve
    BY DEF AllParts, OfferPart, OrderPart, BalancePart, SummaryPart, ReferencesResolve
  <2> QED BY <2>1, <2>2, <2>3
<1>2. TypeOK /\ VersionsChained /\ ReferencesResolve => AllParts
  <2> SUFFICES ASSUME TypeOK, VersionsChained, ReferencesResolve
               PROVE  AllParts
    OBVIOUS
  <2>1. OfferPart
    BY DEF TypeOK, VersionsChained, ReferencesResolve, OfferPart
  <2>2. OrderPart
    BY DEF TypeOK, ReferencesResolve, OrderPart
  <2>3. BalancePart
    BY DEF TypeOK, VersionsChained, ReferencesResolve, BalancePart
  <2>4. SummaryPart
    BY DEF TypeOK, VersionsChained, ReferencesResolve, SummaryPart
  <2>5. LogPart
    BY DEF TypeOK, LogPart
  <2> QED BY <2>1, <2>2, <2>3, <2>4, <2>5 DEF AllParts
<1> QED BY <1>1, <1>2

(***************************************************************************)
(* A table that an event leaves alone: accounts and transactions stay.     *)
(***************************************************************************)
LEMMA PartsKept ==
  ASSUME accounts \subseteq accounts', transactions \subseteq transactions'
  PROVE  /\ OfferPart /\ UNCHANGED <<offers, events>> => OfferPart'
         /\ OrderPart /\ UNCHANGED <<orders, takenOffers>> => OrderPart'
         /\ BalancePart /\ UNCHANGED <<balances, balanceEvents, takenOffers>> => BalancePart'
         /\ SummaryPart /\ UNCHANGED <<mangroveOrders, expiryEvents>> => SummaryPart'
<1>1. ASSUME OfferPart, UNCHANGED <<offers, events>>
      PROVE  OfferPart'
  BY <1>1 DEF OfferPart
<1>2. ASSUME OrderPart, UNCHANGED <<orders, takenOffers>>
      PROVE  OrderPart'
  BY <1>2 DEF OrderPart
<1>3. ASSUME BalancePart, UNCHANGED <<balances, balanceEvents, takenOffers>>
      PROVE  BalancePart'
  BY <1>3 DEF BalancePart
<1>4. ASSUME SummaryPart, UNCHANGED <<mangroveOrders, expiryEvents>>
      PROVE  SummaryPart'
  BY <1>4 DEF SummaryPart
<1> QED BY <1>1, <1>2, <1>3, <1>4

(***************************************************************************)
(* The offers after an event: the versions that its rows name are there.   *)
(***************************************************************************)
LEMMA ExtendedOffers ==
  ASSUME OfferPart, TypeOK, NEW S, NEW tx \in Tx, NEW kind, OffersExtended(S, tx, kind),
         \A f \in Offers : Chained(offers', f),
         accounts \subseteq accounts', transactions' = transactions \cup {tx},
         \A f \in S : MakerOf[f] \in accounts',
         events' \subseteq events \cup {NewVersion(f) : f \in S}
  PROVE  OfferPart'
<1>1. /\ S \subseteq Offers /\ offers' \in Tables(Offers, Rows(OfferVal))
      /\ \A f \in Offers :
           offers'.current[f] = IF f \in S THEN offers.current[f] + 1 ELSE offers.current[f]
      /\ \A f \in Offers, n \in Number :
           offers'.version[f][n] =
             IF f \in S /\ n = offers.current[f] + 1 THEN NewOfferRow(f, tx, kind)
             ELSE offers.version[f][n]
      /\ \A f \in S : offers.current[f] + 1 \in Number /\ offers.version[f][offers.current[f] + 1] = NoRow
  BY DEF OffersExtended, CanAddVersion
<1>2. /\ events \subseteq [offer : Offers, n : Number]
      /\ \A f \in Offers, n \in Number :
           offers.version[f][n] # NoRow => offers.version[f][n].tx \in transactions
      /\ \A f \in Offers : Exists(offers, f) => MakerOf[f] \in accounts
      /\ \A e \in events : offers.version[e.offer][e.n] # NoRow
  BY DEF OfferPart
<1>3. \A f \in Offers : NewOfferRow(f, tx, kind) # NoRow /\ NewOfferRow(f, tx, kind).tx = tx
  BY NewOfferRowType DEF NewOfferRow, TypeOK
<1>4. \A f \in Offers, n \in Number :
        offers'.version[f][n] # NoRow => offers'.version[f][n].tx \in transactions'
  BY <1>1, <1>2, <1>3
<1>5. \A f \in Offers : Exists(offers', f) => MakerOf[f] \in accounts'
  BY <1>1, <1>2 DEF Exists
<1>6. \A e \in events' : /\ e \in [offer : Offers, n : Number]
                         /\ offers'.version[e.offer][e.n] # NoRow
  <2> SUFFICES ASSUME NEW e \in events'
               PROVE  e \in [offer : Offers, n : Number] /\ offers'.version[e.offer][e.n] # NoRow
    OBVIOUS
  <2>1. CASE e \in events
    <3>1. e.offer \in Offers /\ e.n \in Number /\ e \in [offer : Offers, n : Number]
      BY <1>2, <2>1
    <3> QED BY <1>1, <1>2, <1>3, <2>1, <3>1
  <2>2. CASE e \notin events
    <3>1. PICK f \in S : e = [offer |-> f, n |-> offers.current[f] + 1]
      BY <2>2 DEF NewVersion
    <3>2. e.offer = f /\ e.n = offers.current[f] + 1 /\ f \in Offers
          /\ e.n \in Number /\ e \in [offer : Offers, n : Number]
      BY <1>1, <3>1
    <3> QED BY <1>1, <1>3, <3>1, <3>2
  <2> QED BY <2>1, <2>2
<1> QED BY <1>1, <1>4, <1>5, <1>6 DEF OfferPart

(***************************************************************************)
(* And after an undo, which keeps away from the versions of the rows.      *)
(***************************************************************************)
LEMMA ShortenedOffers ==
  ASSUME OfferPart, NEW S, DeletedEach(offers', offers, Offers, Rows(OfferVal), S),
         \A f \in S : Latest(f) \notin events,
         accounts \subseteq accounts', transactions \subseteq transactions', events' = events
  PROVE  OfferPart'
<1>1. /\ offers' \in Tables(Offers, Rows(OfferVal))
      /\ \A f \in Offers : Chained(offers', f)
      /\ \A f \in Offers :
           offers'.current[f] = IF f \in S THEN offers.current[f] - 1 ELSE offers.current[f]
      /\ \A f \in Offers, n \in Number :
           offers'.version[f][n] = IF f \in S /\ n = offers.current[f] THEN NoRow
                                   ELSE offers.version[f][n]
  BY DEF DeletedEach
<1>2. /\ events \subseteq [offer : Offers, n : Number]
      /\ \A f \in Offers, n \in Number :
           offers.version[f][n] # NoRow => offers.version[f][n].tx \in transactions
      /\ \A f \in Offers : Exists(offers, f) => MakerOf[f] \in accounts
      /\ \A e \in events : offers.version[e.offer][e.n] # NoRow
      /\ offers \in Tables(Offers, Rows(OfferVal))
  BY DEF OfferPart
<1>3. \A f \in Offers : Exists(offers', f) => Exists(offers, f)
  <2> TAKE f \in Offers
  <2>1. offers.current[f] \in Number \cup {Null} /\ offers'.current[f] \in Number \cup {Null}
    BY <1>1, <1>2 DEF Tables
  <2> QED BY <1>1, <2>1 DEF Exists, Number, Null
<1>4. \A f \in Offers, n \in Number :
        offers'.version[f][n] # NoRow => offers'.version[f][n].tx \in transactions'
  BY <1>1, <1>2
<1>5. \A f \in Offers : Exists(offers', f) => MakerOf[f] \in accounts'
  BY <1>2, <1>3
<1>6. ASSUME NEW e \in events
      PROVE  offers'.version[e.offer][e.n] # NoRow
  <2>1. e.offer \in Offers /\ e.n \in Number /\ e = [offer |-> e.offer, n |-> e.n]
    BY <1>2
  <2>2. ~(e.offer \in S /\ e.n = offers.current[e.offer])
    BY <2>1 DEF Latest
  <2> QED BY <1>1, <1>2, <2>1, <2>2
<1> QED BY <1>1, <1>2, <1>4, <1>5, <1>6 DEF OfferPart

(***************************************************************************)
(* The MangroveOrders after one got a version.                             *)
(***************************************************************************)
LEMMA SummaryAdded ==
  ASSUME SummaryPart, NEW m \in MangroveOrders, NEW tx \in Tx, NEW date \in Dates,
         addMangroveOrderVersion(m, tx, date),
         transactions' = transactions \cup {tx},
         expiryEvents' \subseteq expiryEvents \cup
           {[order |-> m, n |-> mangroveOrders.current[m] + 1]}
  PROVE  SummaryPart'
<1> DEFINE d == mangroveOrders
           R == Rows(Dates)
           c == d.current[m] + 1
           row == [prev |-> d.current[m], tx |-> tx, val |-> date]
<1>1. /\ d \in Tables(MangroveOrders, R) /\ \A j \in MangroveOrders : Chained(d, j)
      /\ expiryEvents \subseteq [order : MangroveOrders, n : Number]
      /\ \A j \in MangroveOrders, n \in Number :
           d.version[j][n] # NoRow => d.version[j][n].tx \in transactions
      /\ \A e \in expiryEvents : d.version[e.order][e.n] # NoRow
  BY DEF SummaryPart
<1>2. d' = AddVersion(d, m, tx, date) /\ CanAddVersion(d, m) /\ c \in Number
  BY DEF addMangroveOrderVersion, CanAddVersion
<1>3. row \in R
  BY <1>1 DEF Tables, Rows
<1>4. NoRow \notin R
  BY MarkersAssumption
<1> DEFINE e == AddVersion(d, m, tx, date)
<1> HIDE DEF d, R
<1>5. /\ e \in Tables(MangroveOrders, R)
      /\ \A j \in MangroveOrders, n \in Number :
           e.version[j][n] = IF j = m /\ n = c THEN row ELSE d.version[j][n]
  BY <1>1, <1>2, <1>3, AddVersionType
<1>6. \A j \in MangroveOrders : Chained(e, j)
  BY <1>1, <1>2, <1>3, <1>4, AddVersionChained
<1>7. row # NoRow /\ row.tx = tx
  BY <1>3, <1>4
<1> HIDE DEF row, e
<1>8. \A j \in MangroveOrders, n \in Number :
        e.version[j][n] # NoRow => e.version[j][n].tx \in transactions'
  BY <1>1, <1>5, <1>7
<1>9. ASSUME NEW x \in expiryEvents'
      PROVE  x \in [order : MangroveOrders, n : Number] /\ e.version[x.order][x.n] # NoRow
  <2>1. CASE x \in expiryEvents
    <3>1. x.order \in MangroveOrders /\ x.n \in Number /\ x \in [order : MangroveOrders, n : Number]
      BY <1>1, <2>1
    <3> QED BY <1>1, <1>5, <1>7, <2>1, <3>1
  <2>2. CASE x \notin expiryEvents
    <3>1. x = [order |-> m, n |-> c]
      BY <2>2 DEF d
    <3>2. x.order = m /\ x.n = c /\ x \in [order : MangroveOrders, n : Number]
      BY <1>2, <3>1
    <3> QED BY <1>2, <1>5, <1>7, <3>2
  <2> QED BY <2>1, <2>2
<1>10. mangroveOrders' = e
  BY <1>2 DEF d, e
<1> QED BY <1>5, <1>6, <1>8, <1>9, <1>10 DEF SummaryPart, R

(***************************************************************************)
(* And after several lost their latest one.                                *)
(***************************************************************************)
LEMMA SummaryDeleted ==
  ASSUME SummaryPart, NEW S \in SUBSET MangroveOrders,
         deleteLatestVersionOfMangroveOrders(S), transactions \subseteq transactions'
  PROVE  SummaryPart'
<1> DEFINE d == mangroveOrders
           R == Rows(Dates)
           e == OnEach(DeleteLatest, d, S)
<1>1. /\ d \in Tables(MangroveOrders, R) /\ \A j \in MangroveOrders : Chained(d, j)
      /\ expiryEvents \subseteq [order : MangroveOrders, n : Number]
      /\ \A j \in MangroveOrders, n \in Number :
           d.version[j][n] # NoRow => d.version[j][n].tx \in transactions
      /\ \A x \in expiryEvents : d.version[x.order][x.n] # NoRow
  BY DEF SummaryPart
<1>2. /\ \A m \in S : Exists(d, m)
      /\ d' = e
      /\ expiryEvents' = {x \in expiryEvents : ~(x.order \in S /\ x.n = d.current[x.order])}
  BY DEF deleteLatestVersionOfMangroveOrders, CanDeleteLatest
<1> HIDE DEF R
<1>3. DeletedEach(e, d, MangroveOrders, R, S)
  BY <1>1, <1>2, DeleteEach
<1> HIDE DEF e
<1>4. /\ e \in Tables(MangroveOrders, R)
      /\ \A j \in MangroveOrders : Chained(e, j)
      /\ \A j \in MangroveOrders, n \in Number :
           e.version[j][n] = IF j \in S /\ n = d.current[j] THEN NoRow ELSE d.version[j][n]
  BY <1>3 DEF DeletedEach
<1> HIDE DEF d
<1>5. \A j \in MangroveOrders, n \in Number :
        e.version[j][n] # NoRow => e.version[j][n].tx \in transactions'
  BY <1>1, <1>4
<1>6. ASSUME NEW x \in expiryEvents'
      PROVE  x \in [order : MangroveOrders, n : Number] /\ e.version[x.order][x.n] # NoRow
  <2>1. x \in expiryEvents /\ ~(x.order \in S /\ x.n = d.current[x.order])
    BY <1>2
  <2>2. x.order \in MangroveOrders /\ x.n \in Number /\ x \in [order : MangroveOrders, n : Number]
    BY <1>1, <2>1
  <2> QED BY <1>1, <1>4, <2>1, <2>2
<1>7. mangroveOrders' = e
  BY <1>2 DEF d
<1> QED BY <1>4, <1>5, <1>6, <1>7 DEF SummaryPart, R

(***************************************************************************)
(* And after an expiry was set.                                            *)
(***************************************************************************)
LEMMA ExpirySet ==
  ASSUME SummaryPart, accounts \subseteq accounts', NEW f, NEW date \in Dates, NEW tx \in Tx,
         setExpiry(f, date, tx), transactions' = transactions \cup {tx}
  PROVE  SummaryPart'
<1>1. CASE UNCHANGED stratTables
  BY <1>1, PartsKept DEF stratTables
<1>2. ASSUME NEW m \in RestingOn({f}), addMangroveOrderVersion(m, tx, date),
             expiryEvents' = expiryEvents \cup
               {[order |-> m, n |-> mangroveOrders.current[m] + 1]}
      PROVE  SummaryPart'
  <2>1. m \in MangroveOrders
    BY DEF RestingOn
  <2> QED BY <1>2, <2>1, SummaryAdded
<1> QED BY <1>1, <1>2 DEF setExpiry

(***************************************************************************)
(* The balances after an order.                                            *)
(***************************************************************************)
LEMMA BalancesBooked ==
  ASSUME BalancePart, NEW o \in Orders, NEW taken \in Seq(Offers), NEW tx \in Tx,
         addBalances(o, tx, Bookings(taken)),
         accounts \subseteq accounts',
         \A b \in ToSet(Bookings(taken)) : b.id[1] \in accounts',
         takenOffers' = takenOffers \cup {mapTakenOffer(o, f) : f \in ToSet(taken)}
  PROVE  BalancePart'
<1> DEFINE B == Bookings(taken)
           n == Len(B)
           S == ToSet(taken)
           d == FoldLeft(LAMBDA c, b : AddVersion(c, b.id, tx, NewBalance(c, b)), balances, B)
<1>1. B \in Seq(BookingOf(S)) /\ S \subseteq Offers
  BY BookingsType DEF ToSet
<1>2. /\ balances \in Tables(BalanceId, Rows(BalanceVal))
      /\ balanceEvents \subseteq [order : Orders, offer : Offers, id : BalanceId, n : Number]
      /\ \A id \in BalanceId : Chained(balances, id)
      /\ \A id \in BalanceId : Exists(balances, id) => id[1] \in accounts
      /\ \A b \in balanceEvents :
           /\ balances.version[b.id][b.n] # NoRow
           /\ \E t \in takenOffers : t.order = b.order /\ t.offer = b.offer
  BY DEF BalancePart
<1>3. Start(balances)
  BY <1>2 DEF Start, Tables, Number, Null
<1>4. \A i \in 1..n : BookedVersion(B, i) \in Number
  BY DEF addBalances
<1>5. /\ balances' = d
      /\ balanceEvents' = balanceEvents \cup
           {[order |-> o, offer |-> B[i].offer, id |-> B[i].id,
             n |-> BookedVersion(B, i)] : i \in 1..n}
  BY DEF addBalances
<1>6. /\ n \in Nat
      /\ \A i \in 1..n : /\ B[i].id \in BalanceId /\ B[i].offer \in S
                         /\ B[i] \in ToSet(B)
  <2> DEFINE Q == BookingOf(S)
  <2>1. (\A b \in Q : b.id \in BalanceId /\ b.offer \in S) /\ B \in Seq(Q)
    BY <1>1 DEF BookingOf
  <2> HIDE DEF Q, B
  <2> QED BY <2>1 DEF ToSet
<1> HIDE DEF B, S
<1>7. BookedUpTo(d, B, n)
  BY <1>1, <1>3, <1>4, BalancesAdded
<1>8. BookedUpTo(balances', B, n)
  BY <1>5, <1>7
<1> HIDE DEF n, d
<1>9. /\ balances' \in Tables(BalanceId, Rows(BalanceVal))
      /\ \A id \in BalanceId : Chained(balances', id)
      /\ \A id \in BalanceId :
           balances'.current[id] = balances.current[id] + Cardinality(BookingsOf(B, id, n))
      /\ \A id \in BalanceId, k \in Number :
           balances.version[id][k] # NoRow => balances'.version[id][k] # NoRow
      /\ \A j \in 1..n : balances'.version[B[j].id][BookedVersion(B, j)] # NoRow
  BY <1>8 DEF BookedUpTo
<1>10. ASSUME NEW id \in BalanceId, Exists(balances', id)
       PROVE  id[1] \in accounts'
  <2>1. CASE Exists(balances, id)
    BY <1>2, <2>1
  <2>2. CASE ~Exists(balances, id)
    <3>1. BookingsOf(B, id, n) # {}
      <4> SUFFICES ASSUME BookingsOf(B, id, n) = {}
                   PROVE  FALSE
        OBVIOUS
      <4>1. Cardinality(BookingsOf(B, id, n)) = 0
        BY FS_EmptySet
      <4>2. balances.current[id] = Null /\ balances'.current[id] = Null + 0
        BY <1>9, <2>2, <4>1 DEF Exists
      <4> QED BY <1>10, <4>2 DEF Exists, Null
    <3>2. PICK i \in 1..n : B[i].id = id
      BY <3>1 DEF BookingsOf
    <3> QED BY <1>6, <3>2 DEF B
  <2> QED BY <2>1, <2>2
<1>11. ASSUME NEW b \in balanceEvents'
       PROVE  /\ b \in [order : Orders, offer : Offers, id : BalanceId, n : Number]
              /\ balances'.version[b.id][b.n] # NoRow
              /\ \E t \in takenOffers' : t.order = b.order /\ t.offer = b.offer
  <2>1. CASE b \in balanceEvents
    <3>1. /\ b \in [order : Orders, offer : Offers, id : BalanceId, n : Number]
          /\ b.id \in BalanceId /\ b.n \in Number
      BY <1>2, <2>1
    <3>2. \E t \in takenOffers' : t.order = b.order /\ t.offer = b.offer
      BY <1>2, <2>1
    <3> QED BY <1>2, <1>9, <2>1, <3>1, <3>2
  <2>2. CASE b \notin balanceEvents
    <3>1. PICK i \in 1..n : b = [order |-> o, offer |-> B[i].offer, id |-> B[i].id,
                                 n |-> BookedVersion(B, i)]
      BY <1>5, <2>2
    <3>2. /\ B[i].offer \in S /\ B[i].offer \in Offers /\ B[i].id \in BalanceId
          /\ BookedVersion(B, i) \in Number
      BY <1>1, <1>4, <1>6 DEF n
    <3>3. /\ b \in [order : Orders, offer : Offers, id : BalanceId, n : Number]
          /\ b.order = o /\ b.offer = B[i].offer /\ b.id = B[i].id /\ b.n = BookedVersion(B, i)
      BY <3>1, <3>2
    <3>4. mapTakenOffer(o, B[i].offer) \in takenOffers'
      BY <3>2 DEF S
    <3>5. /\ mapTakenOffer(o, B[i].offer).order = o
          /\ mapTakenOffer(o, B[i].offer).offer = B[i].offer
      BY DEF mapTakenOffer
    <3> QED BY <1>9, <3>3, <3>4, <3>5
  <2> QED BY <2>1, <2>2
<1> QED BY <1>9, <1>10, <1>11 DEF BalancePart

-----------------------------------------------------------------------------
(***************************************************************************)
(* The events of the mangrove stream.                                      *)
(***************************************************************************)

\* What of the invariant depends on the log.
LogInv ==
  /\ BooksChained /\ LogUndoable /\ RowsStay /\ OffersReplayed
  /\ TakenFromBook /\ OrdersReplayed /\ TakenReplayed

(***************************************************************************)
(* The invariant is that and the parts above.                              *)
(***************************************************************************)
LEMMA IInvParts == IInv <=> AllParts /\ LogInv
  BY PartsMeanProperties DEF IInv, LogInv

(***************************************************************************)
(* It looks at the log, the offers and the orders only.                    *)
(***************************************************************************)
LEMMA LogKept ==
  ASSUME LogInv, UNCHANGED <<offers, orders, takenOffers, log>>
  PROVE  LogInv'
<1>1. \A i : After(i)' = After(i)
  BY DEF After
<1>2. Completed' = Completed
  BY DEF Completed
<1>3. \A i : TakenBy(i)' = TakenBy(i)
  BY DEF TakenBy, Undone
<1>4. BooksChained' /\ RowsStay'
  BY <1>1 DEF LogInv, BooksChained, RowsStay
<1>5. LogUndoable'
  BY <1>1 DEF LogInv, LogUndoable, Undone
<1>6. OffersReplayed'
  BY <1>1 DEF LogInv, OffersReplayed, LastTouch, Touches
<1>7. TakenFromBook'
  BY <1>2 DEF LogInv, TakenFromBook, Undone
<1>8. OrdersReplayed'
  BY <1>2 DEF LogInv, OrdersReplayed
<1>9. TakenReplayed'
  BY <1>2, <1>3 DEF LogInv, TakenReplayed
<1> QED BY <1>4, <1>5, <1>6, <1>7, <1>8, <1>9 DEF LogInv

(***************************************************************************)
(* A new entry.                                                            *)
(***************************************************************************)
LEMMA LogInvExtended ==
  ASSUME TypeOK, LogInv, NEW e, LogExtended(e), OrderMade(e),
         e.kind = "completed" =>
           \A f \in ToSet(e.offers) : Exists(offers, f) /\ ~Current(offers, f).val.deleted
  PROVE  LogInv' /\ \A f \in Offers : Chained(offers', f)
<1>1. BooksChained' /\ LogUndoable' /\ \A f \in Offers : Chained(offers', f)
  BY ExtendedChained DEF LogInv
<1>2. RowsStay' /\ OffersReplayed'
  BY ExtendedRows, ExtendedReplay DEF LogInv
<1>3. TakenFromBook'
  <2>1. TakenFromBook
    BY DEF LogInv
  <2> QED BY <2>1, ExtendedTakenFromBook
<1>4. OrdersReplayed' /\ TakenReplayed'
  BY ExtendedOrders DEF LogInv
<1> QED BY <1>1, <1>2, <1>3, <1>4 DEF LogInv

(***************************************************************************)
(* The last surviving event on an offer that has one.                      *)
(***************************************************************************)
LEMMA LastOnTouches ==
  ASSUME TypeOK, NEW f, Created(f)
  PROVE  \E i \in 1..Len(log) : LastTouch(f, i, Len(log)) /\ LastOn(f) = log[i]
<1> DEFINE n == Len(log)
           T == {i \in 1..n : Touches(log[i], f)}
           P(i) == i \in 1..n /\ Touches(log[i], f) /\ \A j \in (i + 1)..n : ~Touches(log[j], f)
<1>1. n \in Nat
  BY DEF TypeOK
<1>2. T \subseteq 1..n /\ T # {}
  BY DEF Created
<1>3. Max(T) \in T /\ \A y \in T : Max(T) >= y
  <2> HIDE DEF T, n
  <2> QED BY <1>1, <1>2, MaxOfSubset
<1> DEFINE m == Max(T)
<1>4. P(m)
  <2>1. m \in T /\ \A y \in T : m >= y
    BY <1>3
  <2> HIDE DEF m
  <2>2. ASSUME NEW j \in (m + 1)..n
        PROVE  j \notin T /\ j \in 1..n
    <3>1. m \in 1..n
      BY <1>2, <2>1
    <3>2. j \in 1..n /\ ~(m >= j)
      BY <1>1, <3>1
    <3> QED BY <2>1, <3>2
  <2> QED BY <2>1, <2>2
<1> DEFINE k == CHOOSE i \in 1..n : Touches(log[i], f) /\ \A j \in (i + 1)..n : ~Touches(log[j], f)
<1> HIDE DEF m, T
<1>5. P(k)
  BY <1>4
<1>6. LastOn(f) = log[k]
  BY DEF LastOn
<1> HIDE DEF k
<1> QED BY <1>5, <1>6 DEF LastTouch

(***************************************************************************)
(* An offer is shown as the last surviving event on it left it.            *)
(***************************************************************************)
LEMMA ShownAsLast ==
  ASSUME TypeOK, OffersReplayed, NEW f \in Offers
  PROVE  /\ Exists(offers, f) <=> Created(f)
         /\ Created(f) => /\ LastOn(f) \in Event
                          /\ Current(offers, f).val = Shown(LastOn(f).kind)
                          /\ Current(offers, f).tx = LastOn(f).tx
<1> DEFINE n == Len(log)
<1>1. n \in 0..n /\ After(n) = offers /\ log \in Seq(Event) /\ \A i \in 1..n : log[i] \in Event
  BY DEF TypeOK, After
<1>2. /\ Exists(After(n), f) <=> \E j \in 1..n : Touches(log[j], f)
      /\ \A j \in 1..n : LastTouch(f, j, n) =>
           /\ Current(After(n), f).val = Shown(log[j].kind)
           /\ Current(After(n), f).tx = log[j].tx
  BY <1>1 DEF OffersReplayed
<1>3. Exists(offers, f) <=> Created(f)
  BY <1>1, <1>2 DEF Created
<1>4. ASSUME Created(f)
      PROVE  /\ LastOn(f) \in Event
             /\ Current(offers, f).val = Shown(LastOn(f).kind)
             /\ Current(offers, f).tx = LastOn(f).tx
  <2>1. PICK i \in 1..n : LastTouch(f, i, n) /\ LastOn(f) = log[i]
    BY <1>4, LastOnTouches
  <2> QED BY <1>1, <1>2, <2>1
<1> QED BY <1>3, <1>4

(***************************************************************************)
(* OfferWritten and OfferRetracted.                                        *)
(***************************************************************************)
LEMMA OfferEventStep ==
  ASSUME IInv, NEW f \in Offers, NEW tx \in Tx, NEW kind \in {"written", "retracted"},
         CanAddVersion(offers, f), offers' = AddVersion(offers, f, tx, Shown(kind)),
         events' = events \cup {NewVersion(f)}, Handled(kind, NoOrder, <<f>>, tx),
         accounts \subseteq accounts', accounts' \subseteq Accounts, MakerOf[f] \in accounts',
         UNCHANGED <<orderTables, stratTables, stratLog>>
  PROVE  IInv'
<1> DEFINE e == Entry(kind, NoOrder, <<f>>, tx)
           S == {f}
<1>1. AllParts /\ LogInv /\ TypeOK
  BY IInvParts DEF IInv
<1>2. /\ ToSet(<<f>>) = S /\ <<f>> \in Seq(Offers)
  BY DEF ToSet
<1>3. OffersExtended(S, tx, kind)
  <2>1. offers \in Tables(Offers, Rows(OfferVal))
    BY <1>1 DEF TypeOK
  <2> QED BY <2>1, OneOfferExtended
<1>4. LogExtended(e)
  <2> DEFINE fs == <<f>>
  <2>1. OffersExtended(ToSet(fs), tx, kind)
    BY <1>2, <1>3
  <2>2. fs \in Seq(Offers) /\ Handled(kind, NoOrder, fs, tx)
    BY <1>2
  <2> HIDE DEF fs
  <2>3. LogExtended(Entry(kind, NoOrder, fs, tx))
    BY <1>1, <2>1, <2>2, HandledLog
  <2> QED BY <2>3 DEF fs
<1>5. e.kind = kind /\ kind # "completed"
  BY DEF Entry
<1>6. /\ orders' = orders /\ takenOffers' = takenOffers /\ balances' = balances
      /\ balanceEvents' = balanceEvents /\ mangroveOrders' = mangroveOrders
      /\ expiryEvents' = expiryEvents /\ stratLog' = stratLog
      /\ transactions' = transactions \cup {tx}
  BY DEF orderTables, stratTables, Handled, ensureTransaction
<1>7. OrderMade(e)
  BY <1>5, <1>6 DEF OrderMade
<1> HIDE DEF e
<1>8. LogInv' /\ \A g \in Offers : Chained(offers', g)
  BY <1>1, <1>4, <1>5, <1>7, LogInvExtended
<1>9. OfferPart'
  <2>1. events' \subseteq events \cup {NewVersion(g) : g \in S}
    OBVIOUS
  <2>2. \A g \in S : MakerOf[g] \in accounts'
    OBVIOUS
  <2>3. OfferPart
    BY <1>1 DEF AllParts
  <2> HIDE DEF S
  <2> QED BY <1>1, <1>3, <1>6, <1>8, <2>1, <2>2, <2>3, ExtendedOffers
<1>10. OrderPart' /\ BalancePart' /\ SummaryPart'
  <2>1. transactions \subseteq transactions'
    BY <1>6
  <2>2. OrderPart /\ BalancePart /\ SummaryPart
    BY <1>1 DEF AllParts
  <2> QED BY <1>6, <2>1, <2>2, PartsKept
<1>11. LogPart'
  BY <1>1, <1>4, <1>6 DEF AllParts, LogPart, LogExtended
<1> QED BY <1>8, <1>9, <1>10, <1>11, PartsMeanProperties, PTL DEF AllParts, IInv, LogInv

(***************************************************************************)
(* Writing an offer.                                                       *)
(***************************************************************************)
LEMMA OfferWrittenStep ==
  ASSUME IInv, NEW f \in Offers, NEW tx \in Tx, OfferWritten(f, tx)
  PROVE  IInv'
<1>1. Shown("written") = WrittenVal
  BY DEF Shown
<1>2. MakerOf[f] \in Accounts /\ accounts \subseteq Accounts
  BY BookAssumption DEF IInv, TypeOK
<1>3. accounts \subseteq accounts' /\ accounts' \subseteq Accounts /\ MakerOf[f] \in accounts'
  BY <1>2 DEF OfferWritten
<1> QED BY <1>1, <1>3, OfferEventStep DEF OfferWritten

(***************************************************************************)
(* Retracting an offer, which is in the index with its maker.              *)
(***************************************************************************)
LEMMA OfferRetractedStep ==
  ASSUME IInv, NEW f \in Offers, NEW tx \in Tx, OfferRetracted(f, tx)
  PROVE  IInv'
<1>1. Shown("retracted") = RetractedVal
  BY DEF Shown
<1>2. accounts \subseteq Accounts /\ MakerOf[f] \in accounts /\ accounts' = accounts
  BY DEF IInv, TypeOK, ReferencesResolve, OfferRetracted
<1> QED BY <1>1, <1>2, OfferEventStep DEF OfferRetracted

\* The offers of S get the version that createOrder gives them.
OffersTaken(S, tx) ==
  LET Take(d, f) == AddVersion(d, f, tx, TakenVal(f))
  IN  offers' = OnEach(Take, offers, S)

(***************************************************************************)
(* The offers an order takes are in the book; each gets a version that     *)
(* says that it is gone.                                                   *)
(***************************************************************************)
LEMMA TakenExtended ==
  ASSUME TypeOK, OffersReplayed, NEW S \in SUBSET Offers, NEW tx \in Tx,
         \A f \in S : InBook(f) /\ CanAddVersion(offers, f), OffersTaken(S, tx)
  PROVE  /\ OffersExtended(S, tx, "completed")
         /\ \A f \in S : Exists(offers, f) /\ ~Current(offers, f).val.deleted
<1> DEFINE d == offers
           R == Rows(OfferVal)
           e(f) == AddVersion(d, f, tx, TakenVal(f))
           c == [f \in Offers |-> IF f \in S THEN e(f).current[f] ELSE d.current[f]]
           v == [f \in Offers |-> IF f \in S THEN e(f).version[f] ELSE d.version[f]]
<1>1. /\ d \in Tables(Offers, R)
      /\ d.current \in [Offers -> Number \cup {Null}]
      /\ d.version \in [Offers -> [Number -> R \cup {NoRow}]]
      /\ DOMAIN d.current = Offers /\ DOMAIN d.version = Offers
  BY DEF TypeOK, Tables
<1>2. offers' = [current |-> c, version |-> v]
  BY <1>1 DEF OnEach, OffersTaken
<1>3. ASSUME NEW f \in S
      PROVE  /\ Exists(d, f) /\ ~Current(d, f).val.deleted
             /\ TakenVal(f) = Shown("completed")
  <2>1. f \in Offers /\ Created(f) /\ LastOn(f).kind = "written"
    BY DEF InBook
  <2>2. Exists(d, f) /\ Current(d, f).val = WrittenVal
    BY <2>1, ShownAsLast DEF Shown
  <2>3. WrittenVal.deleted = FALSE
    BY DEF WrittenVal
  <2> QED BY <2>2, <2>3 DEF TakenVal, Shown
<1>4. ASSUME NEW f \in S
      PROVE  /\ e(f) \in Tables(Offers, R)
             /\ e(f).current[f] = d.current[f] + 1
             /\ \A n \in Number :
                  e(f).version[f][n] =
                    IF n = d.current[f] + 1 THEN NewOfferRow(f, tx, "completed")
                    ELSE d.version[f][n]
  <2>1. NewOfferRow(f, tx, "completed") \in R
    BY <1>1, NewOfferRowType
  <2>2. e(f) = AddVersion(d, f, tx, Shown("completed")) /\ CanAddVersion(d, f) /\ f \in Offers
    BY <1>3
  <2>3. [prev |-> d.current[f], tx |-> tx, val |-> Shown("completed")]
          = NewOfferRow(f, tx, "completed")
    BY DEF NewOfferRow
  <2> HIDE DEF e, d, R
  <2> QED BY <1>1, <2>1, <2>2, <2>3, AddVersionType
<1> HIDE DEF e
<1>5. \A f \in S : /\ e(f).current[f] \in Number \cup {Null}
                   /\ e(f).version[f] \in [Number -> R \cup {NoRow}]
  BY <1>4 DEF Tables
<1>6. c \in [Offers -> Number \cup {Null}] /\ v \in [Offers -> [Number -> R \cup {NoRow}]]
  BY <1>1, <1>5
<1>7. offers' \in Tables(Offers, R)
  <2> HIDE DEF c, v, R
  <2> QED BY <1>2, <1>6 DEF Tables
<1>8. /\ \A f \in Offers :
           offers'.current[f] = IF f \in S THEN d.current[f] + 1 ELSE d.current[f]
      /\ \A f \in Offers, n \in Number :
           offers'.version[f][n] =
             IF f \in S /\ n = d.current[f] + 1 THEN NewOfferRow(f, tx, "completed")
             ELSE d.version[f][n]
  <2>1. offers'.current = c /\ offers'.version = v
    BY <1>2
  <2> QED BY <1>4, <2>1
<1>9. OffersExtended(S, tx, "completed")
  BY <1>7, <1>8 DEF OffersExtended
<1> QED BY <1>3, <1>9

(***************************************************************************)
(* Completing an order.                                                    *)
(***************************************************************************)
LEMMA OrderCompletedStep ==
  ASSUME IInv, NEW o \in Orders, NEW taken \in Seq(Offers), NEW tx \in Tx,
         OrderCompleted(o, taken, tx)
  PROVE  IInv'
<1> DEFINE e == Entry("completed", o, taken, tx)
           S == ToSet(taken)
<1>1. AllParts /\ LogInv /\ TypeOK /\ OffersReplayed
  BY IInvParts DEF IInv
<1>2. S \in SUBSET Offers
  BY DEF ToSet
<1>3. /\ \A f \in S : InBook(f) /\ CanAddVersion(offers, f)
      /\ o \notin orders /\ orders' = orders \cup {o}
      /\ takenOffers' = takenOffers \cup {mapTakenOffer(o, f) : f \in S}
      /\ addBalances(o, tx, Bookings(taken))
      /\ accounts' = accounts \cup {TakerOf[o]} \cup {b.id[1] : b \in ToSet(Bookings(taken))}
      /\ Handled("completed", o, taken, tx)
      /\ events' = events /\ stratLog' = stratLog
      /\ mangroveOrders' = mangroveOrders /\ expiryEvents' = expiryEvents
      /\ transactions' = transactions \cup {tx}
  BY DEF OrderCompleted, createOrder, stratTables, Handled, ensureTransaction
<1>4. /\ OffersExtended(S, tx, "completed")
      /\ \A f \in S : Exists(offers, f) /\ ~Current(offers, f).val.deleted
  <2>1. OffersTaken(S, tx)
    BY DEF OrderCompleted, createOrder, OffersTaken
  <2> HIDE DEF S
  <2> QED BY <1>1, <1>2, <1>3, <2>1, TakenExtended
<1>5. LogExtended(e)
  BY <1>1, <1>3, <1>4, HandledLog
<1>6. e.kind = "completed" /\ e.order = o /\ e.offers = taken
  BY DEF Entry
<1>7. OrderMade(e)
  BY <1>3, <1>6 DEF OrderMade
<1> HIDE DEF e
<1>8. LogInv' /\ \A g \in Offers : Chained(offers', g)
  BY <1>1, <1>4, <1>5, <1>6, <1>7, LogInvExtended
<1>9. accounts \subseteq accounts' /\ accounts' \subseteq Accounts
  <2>1. Bookings(taken) \in Seq(BookingOf(S))
    BY BookingsType
  <2>2. \A b \in ToSet(Bookings(taken)) : b.id[1] \in Accounts
    <3> DEFINE Q == BookingOf(S)
               B == Bookings(taken)
    <3>1. (\A b \in Q : b.id[1] \in Accounts) /\ B \in Seq(Q)
      BY <2>1 DEF BookingOf, BalanceId
    <3> HIDE DEF Q, B
    <3>2. \A b \in ToSet(B) : b \in Q
      BY <3>1 DEF ToSet
    <3> QED BY <3>1, <3>2 DEF B
  <2>3. TakerOf[o] \in Accounts /\ accounts \subseteq Accounts
    BY <1>1, BookAssumption DEF TypeOK
  <2> QED BY <1>3, <2>2, <2>3
<1>10. OfferPart'
  <2>1. \A f \in S : MakerOf[f] \in accounts'
    BY <1>1, <1>2, <1>4, <1>9 DEF AllParts, OfferPart
  <2>2. OfferPart /\ events' \subseteq events \cup {NewVersion(f) : f \in S}
    BY <1>1, <1>3 DEF AllParts
  <2> HIDE DEF S
  <2> QED BY <1>1, <1>3, <1>4, <1>8, <1>9, <2>1, <2>2, ExtendedOffers
<1>11. BalancePart'
  <2>1. \A b \in ToSet(Bookings(taken)) : b.id[1] \in accounts'
    BY <1>3
  <2>2. BalancePart
    BY <1>1 DEF AllParts
  <2> QED BY <1>3, <1>9, <2>1, <2>2, BalancesBooked
<1>12. SummaryPart'
  <2>1. transactions \subseteq transactions' /\ SummaryPart
    BY <1>1, <1>3 DEF AllParts
  <2> QED BY <1>3, <1>9, <2>1, PartsKept
<1>13. OrderPart'
  <2>1. OrderPart
    BY <1>1 DEF AllParts
  <2>2. \A f \in S : /\ mapTakenOffer(o, f) \in [order : Orders, offer : Offers, n : Number]
                     /\ mapTakenOffer(o, f).order = o
    BY <1>2, <1>3 DEF mapTakenOffer, CanAddVersion
  <2>3. \A t \in takenOffers' : /\ t \in [order : Orders, offer : Offers, n : Number]
                                /\ t.order \in orders'
    BY <1>3, <2>1, <2>2 DEF OrderPart
  <2>4. orders' \subseteq Orders /\ \A p \in orders' : TakerOf[p] \in accounts'
    BY <1>3, <1>9, <2>1 DEF OrderPart
  <2> QED BY <2>3, <2>4 DEF OrderPart
<1>14. LogPart'
  BY <1>1, <1>3, <1>5, <1>9 DEF AllParts, LogPart, LogExtended
<1> QED BY <1>8, <1>10, <1>11, <1>12, <1>13, <1>14, PartsMeanProperties, PTL
        DEF AllParts, IInv, LogInv

(***************************************************************************)
(* Undoing the latest event.                                               *)
(***************************************************************************)
LEMMA UndoStep ==
  ASSUME IInv, UndoMangroveEvent
  PROVE  IInv'
<1> DEFINE o == LatestEvent.order
<1>1. AllParts /\ LogInv /\ TypeOK /\ VersionsChained
  BY IInvParts DEF IInv
<1>2. LogShortened
  BY <1>1, UndoneLog DEF LogInv
<1>3. /\ \A f \in ToSet(LatestEvent.offers) : Latest(f) \notin events
      /\ orders' = orders \ {o}
      /\ takenOffers' = OfOtherOrders(takenOffers)
      /\ balanceEvents' = OfOtherOrders(balanceEvents)
      /\ events' = events /\ balances' = balances /\ accounts' = accounts
      /\ stratLog' = stratLog
      /\ transactions' = transactions \cup {LatestEvent.tx}
  BY DEF UndoMangroveEvent, UndoAccepted, canDeleteLatestOfferVersion, ensureTransaction
<1>4. LogInv'
  <2>1. BooksChained' /\ LogUndoable'
    BY <1>1, <1>2, ShortenedChained DEF LogInv
  <2>2. RowsStay' /\ OffersReplayed'
    BY <1>1, <1>2, ShortenedRows, ShortenedReplay DEF LogInv
  <2>3. TakenFromBook'
    BY <1>1, <1>2, ShortenedTakenFromBook DEF LogInv
  <2>4. OrdersReplayed' /\ TakenReplayed'
    BY <1>1, <1>2, <1>3, ShortenedOrders DEF LogInv
  <2> QED BY <2>1, <2>2, <2>3, <2>4 DEF LogInv
<1>5. OfferPart'
  <2>1. OfferPart
    BY <1>1 DEF AllParts
  <2>2. DeletedEach(offers', offers, Offers, Rows(OfferVal), ToSet(LatestEvent.offers))
    BY <1>2 DEF LogShortened
  <2> QED BY <1>3, <2>1, <2>2, ShortenedOffers
<1>6. OrderPart'
  BY <1>1, <1>3 DEF AllParts, OrderPart, OfOtherOrders
<1>7. BalancePart'
  <2>1. BalancePart
    BY <1>1 DEF AllParts
  <2>2. balanceEvents' = {b \in balanceEvents : b.order # o}
        /\ takenOffers' = {t \in takenOffers : t.order # o}
    BY <1>3 DEF OfOtherOrders
  <2> HIDE DEF o
  <2>3. ASSUME NEW b \in balanceEvents'
        PROVE  /\ b \in balanceEvents
               /\ balances'.version[b.id][b.n] # NoRow
               /\ \E t \in takenOffers' : t.order = b.order /\ t.offer = b.offer
    BY <1>3, <2>1, <2>2 DEF BalancePart
  <2> QED BY <1>3, <2>1, <2>3 DEF BalancePart
<1>8. SummaryPart'
  <2> DEFINE S == IF LatestEvent.kind = "written" THEN {} ELSE RestingOn(Undone(LatestEvent))
  <2>1. S \in SUBSET MangroveOrders
    BY DEF RestingOn
  <2>2. deleteLatestVersionOfMangroveOrders(S)
    BY DEF UndoMangroveEvent
  <2>3. SummaryPart /\ transactions \subseteq transactions'
    BY <1>1, <1>3 DEF AllParts
  <2> HIDE DEF S
  <2> QED BY <2>1, <2>2, <2>3, SummaryDeleted
<1>9. LogPart'
  <2>1. LatestEvent.tx \in Tx
    BY <1>2 DEF LogShortened, Event
  <2> QED BY <1>1, <1>2, <1>3, <2>1 DEF AllParts, LogPart, LogShortened
<1> QED BY <1>4, <1>5, <1>6, <1>7, <1>8, <1>9, PartsMeanProperties, PTL
        DEF AllParts, IInv, LogInv

-----------------------------------------------------------------------------
(***************************************************************************)
(* The events of the strats stream.                                        *)
(***************************************************************************)

(***************************************************************************)
(* They leave offers, orders and balances alone.                           *)
(***************************************************************************)
LEMMA StratStep ==
  ASSUME IInv, NEW tx \in Tx, SummaryPart', transactions' = transactions \cup {tx},
         stratLog' \in Seq(StratEvent), UNCHANGED <<offers, events, orderTables, accounts, log>>
  PROVE  IInv'
<1>1. AllParts /\ LogInv
  BY IInvParts
<1>2. /\ offers' = offers /\ events' = events /\ orders' = orders
      /\ takenOffers' = takenOffers /\ balances' = balances /\ balanceEvents' = balanceEvents
      /\ accounts' = accounts /\ log' = log
  BY DEF orderTables
<1>3. LogInv'
  BY <1>1, <1>2, LogKept
<1>4. OfferPart' /\ OrderPart' /\ BalancePart'
  BY <1>1, <1>2, PartsKept DEF AllParts
<1>5. LogPart'
  BY <1>1, <1>2 DEF AllParts, LogPart
<1> QED BY <1>3, <1>4, <1>5, PartsMeanProperties, PTL DEF AllParts, IInv, LogInv

(***************************************************************************)
(* The summary of an order.                                                *)
(***************************************************************************)
LEMMA OrderSummaryStep ==
  ASSUME IInv, NEW m \in MangroveOrders, NEW date \in Dates, NEW tx \in Tx,
         OrderSummary(m, date, tx)
  PROVE  IInv'
<1>1. AllParts
  BY IInvParts
<1>2. /\ addMangroveOrderVersion(m, tx, date) /\ expiryEvents' = expiryEvents
      /\ transactions' = transactions \cup {tx}
      /\ UNCHANGED <<offers, events, orderTables, accounts, log>>
  BY DEF OrderSummary, StratHandled, ensureTransaction
<1>3. SummaryPart'
  BY <1>1, <1>2, SummaryAdded DEF AllParts
<1>4. stratLog' \in Seq(StratEvent)
  <2> DEFINE e == [kind |-> "summary", id |-> m, date |-> date]
  <2>1. e \in StratEvent
    BY DEF StratEvent
  <2>2. stratLog' = Append(stratLog, e) /\ stratLog \in Seq(StratEvent)
    BY <1>1 DEF OrderSummary, StratHandled, AllParts, LogPart
  <2> HIDE DEF e
  <2> QED BY <2>1, <2>2
<1> QED BY <1>2, <1>3, <1>4, StratStep

(***************************************************************************)
(* The expiry of an offer.                                                 *)
(***************************************************************************)
LEMMA SetExpiryStep ==
  ASSUME IInv, NEW f \in Resting, NEW date \in Dates, NEW tx \in Tx,
         SetExpiry(f, date, tx)
  PROVE  IInv'
<1>1. AllParts
  BY IInvParts
<1>2. /\ setExpiry(f, date, tx) /\ transactions' = transactions \cup {tx}
      /\ UNCHANGED <<offers, events, orderTables, accounts, log>>
  BY DEF SetExpiry, StratHandled, ensureTransaction
<1>3. SummaryPart'
  BY <1>1, <1>2, ExpirySet DEF AllParts
<1>4. stratLog' \in Seq(StratEvent)
  <2> DEFINE e == [kind |-> "expiry", id |-> f, date |-> date]
  <2>1. e \in StratEvent
    BY DEF StratEvent
  <2>2. stratLog' = Append(stratLog, e) /\ stratLog \in Seq(StratEvent)
    BY <1>1 DEF SetExpiry, StratHandled, AllParts, LogPart
  <2> HIDE DEF e
  <2> QED BY <2>1, <2>2
<1> QED BY <1>2, <1>3, <1>4, StratStep

(***************************************************************************)
(* The undo of either.                                                     *)
(***************************************************************************)
LEMMA UndoStratStep ==
  ASSUME IInv, NEW tx \in Tx, UndoStratEvent(tx)
  PROVE  IInv'
<1>1. AllParts /\ SummaryPart
  BY IInvParts DEF AllParts
<1>2. /\ transactions' = transactions \cup {tx}
      /\ UNCHANGED <<offers, events, orderTables, accounts, log>>
      /\ stratLog # <<>> /\ stratLog' = SubSeq(stratLog, 1, Len(stratLog) - 1)
  BY DEF UndoStratEvent, ensureTransaction, Front
<1>3. stratLog \in Seq(StratEvent) /\ Len(stratLog) \in Nat \ {0}
  BY <1>1, <1>2 DEF AllParts, LogPart
<1>4. stratLog' \in Seq(StratEvent)
  <2>1. Len(stratLog) - 1 \in 0..Len(stratLog)
    BY <1>3
  <2> QED BY <1>2, <1>3, <2>1, PrefixProperties
<1>5. LatestStrat \in StratEvent
  BY <1>3 DEF LatestStrat
<1>6. SummaryPart'
  <2>1. CASE /\ LatestStrat.kind = "summary"
             /\ deleteLatestVersionOfMangroveOrders({LatestStrat.id})
    <3> DEFINE S == {LatestStrat.id}
    <3>1. S \in SUBSET MangroveOrders
      BY <1>5, <2>1 DEF StratEvent
    <3>2. deleteLatestVersionOfMangroveOrders(S) /\ transactions \subseteq transactions'
      BY <1>2, <2>1
    <3> HIDE DEF S
    <3> QED BY <1>1, <3>1, <3>2, SummaryDeleted
  <2>2. CASE /\ LatestStrat.kind = "expiry"
             /\ setExpiry(LatestStrat.id, LatestStrat.date, tx)
    <3>1. LatestStrat.date \in Dates /\ accounts \subseteq accounts'
      BY <1>2, <1>5 DEF StratEvent
    <3> QED BY <1>1, <1>2, <2>2, <3>1, ExpirySet
  <2> QED BY <2>1, <2>2 DEF UndoStratEvent
<1> QED BY <1>2, <1>4, <1>6, StratStep

-----------------------------------------------------------------------------
(***************************************************************************)
(* The empty index.                                                        *)
(***************************************************************************)
LEMMA InitIInv == Init => IInv
<1> SUFFICES ASSUME Init
             PROVE  IInv
  OBVIOUS
<1>1. /\ offers = [current |-> [f \in Offers |-> Null],
                   version |-> [f \in Offers |-> [n \in Number |-> NoRow]]]
      /\ balances = [current |-> [id \in BalanceId |-> Null],
                     version |-> [id \in BalanceId |-> [n \in Number |-> NoRow]]]
      /\ mangroveOrders = [current |-> [m \in MangroveOrders |-> Null],
                           version |-> [m \in MangroveOrders |-> [n \in Number |-> NoRow]]]
      /\ events = {} /\ orders = {} /\ takenOffers = {} /\ balanceEvents = {}
      /\ expiryEvents = {} /\ accounts = {} /\ transactions = {}
      /\ log = <<>> /\ stratLog = <<>> /\ Len(log) = 0
  BY DEF Init, EmptyTables
<1>2. OfferPart
  <2>1. offers \in Tables(Offers, Rows(OfferVal))
    BY <1>1 DEF Tables
  <2>2. /\ \A f \in Offers : offers.current[f] = Null /\ ~Exists(offers, f)
        /\ \A f \in Offers, n \in Number : offers.version[f][n] = NoRow
    BY <1>1 DEF Exists
  <2>3. \A f \in Offers : Chained(offers, f)
    BY <2>2 DEF Chained, Null, Number
  <2> QED BY <1>1, <2>1, <2>2, <2>3 DEF OfferPart
<1>3. BalancePart
  <2>1. balances \in Tables(BalanceId, Rows(BalanceVal))
    BY <1>1 DEF Tables
  <2>2. /\ \A id \in BalanceId : balances.current[id] = Null /\ ~Exists(balances, id)
        /\ \A id \in BalanceId, n \in Number : balances.version[id][n] = NoRow
    BY <1>1 DEF Exists
  <2>3. \A id \in BalanceId : Chained(balances, id)
    BY <2>2 DEF Chained, Null, Number
  <2> QED BY <1>1, <2>1, <2>2, <2>3 DEF BalancePart
<1>4. SummaryPart
  <2>1. mangroveOrders \in Tables(MangroveOrders, Rows(Dates))
    BY <1>1 DEF Tables
  <2>2. /\ \A m \in MangroveOrders : mangroveOrders.current[m] = Null
        /\ \A m \in MangroveOrders, n \in Number : mangroveOrders.version[m][n] = NoRow
    BY <1>1
  <2>3. \A m \in MangroveOrders : Chained(mangroveOrders, m)
    BY <2>2 DEF Chained, Null, Number
  <2> QED BY <1>1, <2>1, <2>2, <2>3 DEF SummaryPart
<1>5. OrderPart /\ LogPart
  BY <1>1 DEF OrderPart, LogPart
<1>6. \A i \in 0..Len(log) : i = 0 /\ After(i) = offers
  BY <1>1 DEF After
<1>7. \A i : i \in 1..0 <=> FALSE
  OBVIOUS
<1>8. BooksChained
  BY <1>2, <1>6 DEF BooksChained, OfferPart
<1>9. LogUndoable
  BY <1>1, <1>7 DEF LogUndoable
<1>10. RowsStay
  <2>1. \A i \in 0..Len(log) : \A j \in i..Len(log) : i = 0 /\ j = 0
    BY <1>1
  <2> QED BY <1>6, <2>1 DEF RowsStay
<1>11. OffersReplayed
  <2>1. \A f \in Offers : ~Exists(offers, f)
    BY <1>1 DEF Exists
  <2> QED BY <1>6, <1>7, <2>1 DEF OffersReplayed
<1>12. Completed = {}
  BY <1>1, <1>7 DEF Completed
<1>13. TakenFromBook /\ OrdersReplayed /\ TakenReplayed
  BY <1>1, <1>12 DEF TakenFromBook, OrdersReplayed, TakenReplayed
<1> QED BY <1>2, <1>3, <1>4, <1>5, <1>8, <1>9, <1>10, <1>11, <1>13, IInvParts
        DEF AllParts, LogInv

(***************************************************************************)
(* The offers an order takes come one after another.                       *)
(***************************************************************************)
LEMMA TakesType ==
  ASSUME NEW taken \in Takes
  PROVE  taken \in Seq(Offers)
<1>1. PICK m \in 0..Cardinality(Offers) : taken \in [1..m -> Offers]
  BY DEF Takes, SeqOf
<1>2. m \in Nat
  OBVIOUS
<1> QED BY <1>1, <1>2

(***************************************************************************)
(* The invariant is inductive: one case per event, and the undo.           *)
(***************************************************************************)
LEMMA NextIInv == IInv /\ [Next]_vars => IInv'
<1> SUFFICES ASSUME IInv, [Next]_vars
             PROVE  IInv'
  OBVIOUS
<1>1. ASSUME NEW tx \in Tx, NEW f \in Offers, OfferWritten(f, tx)
      PROVE  IInv'
  BY <1>1, OfferWrittenStep
<1>2. ASSUME NEW tx \in Tx, NEW f \in Offers, OfferRetracted(f, tx)
      PROVE  IInv'
  BY <1>2, OfferRetractedStep
<1>3. ASSUME NEW tx \in Tx, NEW o \in Orders, NEW taken \in Takes, OrderCompleted(o, taken, tx)
      PROVE  IInv'
  BY <1>3, TakesType, OrderCompletedStep
<1>4. ASSUME NEW tx \in Tx, NEW m \in MangroveOrders, NEW date \in Dates,
             OrderSummary(m, date, tx)
      PROVE  IInv'
  BY <1>4, OrderSummaryStep
<1>5. ASSUME NEW tx \in Tx, NEW f \in Resting, NEW date \in Dates, SetExpiry(f, date, tx)
      PROVE  IInv'
  BY <1>5, SetExpiryStep
<1>6. ASSUME NEW tx \in Tx, UndoStratEvent(tx)
      PROVE  IInv'
  BY <1>6, UndoStratStep
<1>7. CASE UndoMangroveEvent
  BY <1>7, UndoStep
<1>8. CASE UNCHANGED vars
  <2>1. AllParts /\ LogInv
    BY IInvParts
  <2>2. /\ UNCHANGED <<offers, orders, takenOffers, log>>
        /\ UNCHANGED <<offers, events>> /\ UNCHANGED <<orders, takenOffers>>
        /\ UNCHANGED <<balances, balanceEvents, takenOffers>>
        /\ UNCHANGED <<mangroveOrders, expiryEvents>>
        /\ accounts' = accounts /\ transactions' = transactions /\ stratLog' = stratLog
    BY <1>8 DEF vars, orderTables, stratTables
  <2>3. LogInv'
    BY <2>1, <2>2, LogKept
  <2>4. OfferPart' /\ OrderPart' /\ BalancePart' /\ SummaryPart'
    BY <2>1, <2>2, PartsKept DEF AllParts
  <2>5. LogPart'
    BY <2>1, <2>2 DEF AllParts, LogPart
  <2> QED BY <2>3, <2>4, <2>5, PartsMeanProperties, PTL DEF AllParts, IInv, LogInv
<1> QED BY <1>1, <1>2, <1>3, <1>4, <1>5, <1>6, <1>7, <1>8 DEF Next

-----------------------------------------------------------------------------
(***************************************************************************)
(* The inductive invariant holds in every state that the two streams       *)
(* reach, in whatever order their events and undos are handled.            *)
(***************************************************************************)
THEOREM Invariance == Spec => []IInv
<1> QED BY InitIInv, NextIInv, PTL DEF Spec

(***************************************************************************)
(* Every handler of the two streams and every undo keeps the types of the  *)
(* tables: no version number runs over the ones there are.                 *)
(***************************************************************************)
THEOREM TypeCorrect == Spec => []TypeOK
<1>1. IInv => TypeOK
  BY DEF IInv
<1> QED BY <1>1, Invariance, PTL

(***************************************************************************)
(* The versions of offers, MangroveOrders and balances are numbered        *)
(* without a gap and linked, although createOrder adds versions of many    *)
(* entities, some more than one, and the streams undo independently.       *)
(***************************************************************************)
THEOREM ChainsOfVersions == Spec => []VersionsChained
<1>1. IInv => VersionsChained
  BY DEF IInv
<1> QED BY <1>1, Invariance, PTL

(***************************************************************************)
(* The book in the index is the book on the chain: each offer is shown as  *)
(* the last surviving event on it left it, whatever was undone on the way. *)
(***************************************************************************)
THEOREM BookReplayed == Spec => []BookIsReplay
<1>1. ASSUME IInv
      PROVE  BookIsReplay
  <2>1. TypeOK /\ OffersReplayed
    BY <1>1 DEF IInv
  <2>2. ASSUME NEW f \in Offers, Created(f)
        PROVE  /\ Current(offers, f).val.deleted <=> ~InBook(f)
               /\ Current(offers, f).val.isRetracted <=> LastOn(f).kind = "retracted"
               /\ Current(offers, f).tx = LastOn(f).tx
    <3>1. /\ LastOn(f) \in Event
          /\ Current(offers, f).val = Shown(LastOn(f).kind)
          /\ Current(offers, f).tx = LastOn(f).tx
      BY <2>1, <2>2, ShownAsLast
    <3>2. LastOn(f).kind \in {"written", "retracted", "completed"}
      BY <3>1 DEF Event
    <3> QED BY <2>2, <3>1, <3>2 DEF Shown, WrittenVal, RetractedVal, InBook
  <2> QED BY <2>1, <2>2, ShownAsLast DEF BookIsReplay
<1> QED BY <1>1, Invariance, PTL

(***************************************************************************)
(* The taken offers are those of the surviving orders, and each names the  *)
(* version the order gave the offer, which says that it is gone and comes  *)
(* after one that says that it is not: also when the offer was written     *)
(* and taken again since, or orders in between were undone.                *)
(***************************************************************************)
THEOREM TakenOffersReplayed == Spec => []TakenOffersOfOrders
<1>1. ASSUME IInv
      PROVE  TakenOffersOfOrders
  <2> DEFINE n == Len(log)
  <2>1. /\ TypeOK /\ BooksChained /\ LogUndoable /\ RowsStay /\ OffersReplayed
        /\ TakenFromBook /\ TakenReplayed
    BY <1>1 DEF IInv
  <2>2. n \in Nat /\ After(n) = offers /\ \A i \in 1..n : log[i] \in Event
    BY <2>1 DEF TypeOK, After
  <2>3. takenOffers = UNION {TakenBy(i) : i \in Completed}
    BY <2>1 DEF TakenReplayed
  <2>4. {<<t.order, t.offer>> : t \in takenOffers} =
          UNION {{<<log[i].order, f>> : f \in ToSet(log[i].offers)} :
                   i \in {j \in 1..Len(log) : log[j].kind = "completed"}}
    <3>1. ASSUME NEW i
          PROVE  /\ \A t \in TakenBy(i) :
                      t.order = log[i].order /\ t.offer \in ToSet(log[i].offers)
                 /\ \A f \in ToSet(log[i].offers) :
                      \E t \in TakenBy(i) : t.order = log[i].order /\ t.offer = f
      <4> DEFINE S == ToSet(log[i].offers)
                 o == log[i].order
                 T(f) == [order |-> o, offer |-> f, n |-> log[i].before.current[f] + 1]
      <4>1. TakenBy(i) = {T(f) : f \in S}
        BY DEF TakenBy, Undone
      <4>2. \A f : T(f).order = o /\ T(f).offer = f
        OBVIOUS
      <4> HIDE DEF S, o, T
      <4>3. \A t \in TakenBy(i) : t.order = o /\ t.offer \in S
        BY <4>1, <4>2
      <4>4. \A f \in S : \E t \in TakenBy(i) : t.order = o /\ t.offer = f
        BY <4>1, <4>2
      <4> QED BY <4>3, <4>4 DEF S, o
    <3>2. Completed = {j \in 1..Len(log) : log[j].kind = "completed"}
      BY DEF Completed
    <3> DEFINE Pairs == {<<t.order, t.offer>> : t \in takenOffers}
               PairsOf(i) == {<<log[i].order, f>> : f \in ToSet(log[i].offers)}
    <3>3. \A p : p \in Pairs <=> \E i \in Completed : p \in PairsOf(i)
      <4>1. ASSUME NEW p \in Pairs
            PROVE  \E i \in Completed : p \in PairsOf(i)
        <5>1. PICK t \in takenOffers : p = <<t.order, t.offer>>
          OBVIOUS
        <5>2. PICK i \in Completed : t \in TakenBy(i)
          BY <2>3
        <5>3. t.order = log[i].order /\ t.offer \in ToSet(log[i].offers)
          BY <3>1, <5>2
        <5>4. p \in PairsOf(i)
          BY <5>1, <5>3
        <5> QED BY <5>4
      <4>2. ASSUME NEW i \in Completed, NEW p \in PairsOf(i)
            PROVE  p \in Pairs
        <5>1. PICK f \in ToSet(log[i].offers) : p = <<log[i].order, f>>
          OBVIOUS
        <5>2. PICK t \in TakenBy(i) : t.order = log[i].order /\ t.offer = f
          BY <3>1
        <5>3. t \in takenOffers /\ p = <<t.order, t.offer>>
          BY <2>3, <5>1, <5>2
        <5> QED BY <5>3
      <4> HIDE DEF Pairs, PairsOf
      <4> QED BY <4>1, <4>2
    <3>4. Pairs = UNION {PairsOf(i) : i \in Completed}
      <4> HIDE DEF Pairs, PairsOf
      <4> QED BY <3>3
    <3> QED BY <3>2, <3>4
  <2>5. ASSUME NEW t \in takenOffers
        PROVE  /\ t.n > 0
               /\ offers.version[t.offer][t.n] # NoRow
               /\ offers.version[t.offer][t.n].val.deleted
               /\ offers.version[t.offer][t.n - 1] # NoRow
               /\ ~offers.version[t.offer][t.n - 1].val.deleted
    <3>1. PICK i \in Completed : t \in TakenBy(i)
      BY <2>3
    <3>2. PICK f \in Undone(log[i]) :
            t = [order |-> log[i].order, offer |-> f, n |-> log[i].before.current[f] + 1]
      BY <3>1 DEF TakenBy
    <3> DEFINE b == log[i].before
               a == After(i)
               c == b.current[f]
    <3>3. /\ i \in 1..n /\ i - 1 \in 0..n /\ i \in 0..n /\ n \in (i - 1)..n /\ n \in i..n
          /\ log[i].kind = "completed" /\ log[i] \in Event
          /\ After(i - 1) = b
      BY <2>2 DEF Completed, After
    <3>4. f \in Offers /\ b \in Tables(Offers, Rows(OfferVal))
      <4>1. log[i].offers \in Seq(Offers) /\ log[i].before \in Tables(Offers, Rows(OfferVal))
        BY <3>3 DEF Event
      <4> QED BY <4>1 DEF Undone, ToSet
    <3>5. c \in Number /\ ~b.version[f][c].val.deleted
      <4>1. Exists(b, f) /\ ~Current(b, f).val.deleted
        BY <2>1 DEF TakenFromBook
      <4>2. b.current[f] \in Number \cup {Null}
        BY <3>4 DEF Tables
      <4> QED BY <4>1, <4>2 DEF Exists, Current
    <3>6. b.version[f][c] # NoRow
      <4>1. Chained(After(i - 1), f)
        BY <2>1, <3>3, <3>4 DEF BooksChained
      <4>2. Chained(b, f) /\ c <= c
        BY <3>3, <3>5, <4>1 DEF Number
      <4> QED BY <3>5, <4>2 DEF Chained
    <3>7. a.current[f] = c + 1 /\ c + 1 \in Number
      <4>1. Exists(a, f) /\ a.current[f] = c + 1
        BY <2>1, <3>3 DEF LogUndoable
      <4>2. a \in Tables(Offers, Rows(OfferVal))
        <5>1. CASE i = n
          BY <2>1, <5>1 DEF After, TypeOK
        <5>2. CASE i # n
          <6>1. i + 1 \in 1..n /\ a = log[i + 1].before
            BY <2>2, <3>3, <5>2 DEF After
          <6> QED BY <2>2, <6>1 DEF Event
        <5> QED BY <5>1, <5>2
      <4>3. a.current[f] \in Number \cup {Null}
        BY <3>4, <4>2 DEF Tables
      <4> QED BY <4>1, <4>3 DEF Exists
    <3>8. a.version[f][c + 1] # NoRow /\ a.version[f][c + 1].val.deleted
      <4>1. Chained(a, f)
        BY <2>1, <3>3, <3>4 DEF BooksChained
      <4>2. c + 1 <= a.current[f]
        BY <3>5, <3>7 DEF Number
      <4>3. LastTouch(f, i, i)
        <5>1. (i + 1)..i = {}
          BY <3>3
        <5>2. Touches(log[i], f)
          BY DEF Touches, Undone
        <5> QED BY <5>1, <5>2 DEF LastTouch
      <4>4. Current(a, f).val = Shown("completed")
        <5>1. i \in 1..i
          BY <3>3
        <5> QED BY <2>1, <3>3, <3>4, <4>3, <5>1 DEF OffersReplayed
      <4>5. Shown("completed").deleted
        BY DEF Shown, WrittenVal
      <4> QED BY <3>7, <4>1, <4>2, <4>4, <4>5 DEF Chained, Current
    <3>9. /\ offers.version[f][c] = b.version[f][c]
          /\ offers.version[f][c + 1] = a.version[f][c + 1]
      <4>1. \A g \in Offers, k \in Number :
              After(i - 1).version[g][k] # NoRow =>
                After(n).version[g][k] = After(i - 1).version[g][k]
        BY <2>1, <3>3 DEF RowsStay
      <4>2. \A g \in Offers, k \in Number :
              After(i).version[g][k] # NoRow => After(n).version[g][k] = After(i).version[g][k]
        BY <2>1, <3>3 DEF RowsStay
      <4>3. \A g \in Offers, k \in Number :
              b.version[g][k] # NoRow => offers.version[g][k] = b.version[g][k]
        BY <2>2, <3>3, <4>1
      <4>4. \A g \in Offers, k \in Number :
              a.version[g][k] # NoRow => offers.version[g][k] = a.version[g][k]
        BY <2>2, <4>2
      <4> HIDE DEF a, b, c, n
      <4> QED BY <3>4, <3>5, <3>6, <3>7, <3>8, <4>3, <4>4
    <3>10. t.offer = f /\ t.n = c + 1 /\ t.n - 1 = c /\ t.n > 0
      BY <3>2, <3>5 DEF Number
    <3> HIDE DEF a, b, c
    <3> QED BY <3>5, <3>6, <3>8, <3>9, <3>10
  <2> QED BY <2>4, <2>5 DEF TakenOffersOfOrders
<1> QED BY <1>1, Invariance, PTL

(***************************************************************************)
(* What a row names is there, although nothing in the database checks it.  *)
(***************************************************************************)
THEOREM NoDanglingReferences == Spec => []ReferencesResolve
<1>1. IInv => ReferencesResolve
  BY DEF IInv
<1> QED BY <1>1, Invariance, PTL

(***************************************************************************)
(* Only an undo of the mangrove stream shortens its log.                   *)
(***************************************************************************)
LEMMA OnlyUndoShortens ==
  ASSUME IInv, [Next]_vars, Len(log') < Len(log)
  PROVE  UndoMangroveEvent
<1>1. log \in Seq(Event) /\ Len(log) \in Nat
  BY DEF IInv, TypeOK
<1>2. ASSUME NEW kind, NEW o, NEW fs, NEW tx, Handled(kind, o, fs, tx)
      PROVE  FALSE
  <2>1. PICK e : log' = Append(log, e)
    BY <1>2 DEF Handled
  <2>2. Len(log') = Len(log) + 1
    BY <1>1, <2>1
  <2> QED BY <1>1, <2>2
<1>3. log' # log
  BY <1>1
<1>4. ASSUME NEW tx \in Tx
      PROVE  /\ \A f : ~OfferWritten(f, tx) /\ ~OfferRetracted(f, tx)
             /\ \A o, taken : ~OrderCompleted(o, taken, tx)
             /\ \A m, date : ~OrderSummary(m, date, tx) /\ ~SetExpiry(m, date, tx)
             /\ ~UndoStratEvent(tx)
  <2>1. \A f : ~OfferWritten(f, tx) /\ ~OfferRetracted(f, tx)
    BY <1>2, Zenon DEF OfferWritten, OfferRetracted
  <2>2. \A o, taken : ~OrderCompleted(o, taken, tx)
    BY <1>2, Zenon DEF OrderCompleted
  <2>3. /\ \A m, date : ~OrderSummary(m, date, tx) /\ ~SetExpiry(m, date, tx)
        /\ ~UndoStratEvent(tx)
    BY <1>3 DEF OrderSummary, SetExpiry, UndoStratEvent
  <2> QED BY <2>1, <2>2, <2>3
<1>5. ~UNCHANGED vars
  BY <1>3 DEF vars
<1> QED BY <1>4, <1>5 DEF Next

(***************************************************************************)
(* Undoing an order puts every offer that it took back to what it was,     *)
(* row for row, however many it took and whatever was undone before.       *)
(***************************************************************************)
THEOREM UndoRestoresBook == Spec => UndoRestoresOffers
<1>1. ASSUME IInv, [Next]_vars, Len(log') < Len(log)
      PROVE  offers' = LatestEvent.before
  <2>1. LogShortened
    BY <1>1, OnlyUndoShortens, UndoneLog DEF IInv
  <2> QED BY <2>1 DEF LogShortened
<1>2. IInv /\ [Next]_vars => [Len(log') < Len(log) => offers' = LatestEvent.before]_vars
  BY <1>1
<1> QED BY <1>2, Invariance, PTL DEF Spec, UndoRestoresOffers

=============================================================================
