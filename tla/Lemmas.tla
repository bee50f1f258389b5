------------------------------- MODULE Lemmas -------------------------------
(***************************************************************************)
(* What the proofs about the components have in common.  First induction   *)
(* over the natural numbers, for sets instead of predicates, and what it   *)
(* gives for a fold over a sequence: the recursive function in the         *)
(* definition of FoldLeft exists, so a fold can be taken step by step.     *)
(* Then the prefixes of a sequence and what FlattenSeq returns; the chains *)
(* of Reorgs; and the operations of Versioning, for any entities, rows and *)
(* bound on version numbers: they keep the types and the chain of          *)
(* versions, and deleting the latest version is the inverse of adding one. *)
(***************************************************************************)
EXTENDS Versioning, Reorgs, SequenceTheorems, FiniteSetTheorems, WellFoundedInduction, TLAPS

(***************************************************************************)
(* A set of natural numbers that has an element has a least one.           *)
(***************************************************************************)
LEMMA LeastNatural ==
  ASSUME NEW T, T \subseteq Nat, T # {}
  PROVE  \E m \in T : \A k \in T : m <= k
<1> DEFINE R == {ss \in Nat \X Nat : ss[1] < ss[2]}
<1>1. IsWellFoundedOn(OpToRel(<, Nat), Nat)
  BY NatLessThanWellFounded
<1>2. IsWellFoundedOn(R, Nat)
  BY <1>1 DEF OpToRel
<1> HIDE DEF R
<1>3. PICK x \in T : \A y \in T : ~(<<y, x>> \in R)
  BY <1>2, WFMin
<1>4. ASSUME NEW k \in T
      PROVE  x <= k
  <2>1. x \in Nat /\ k \in Nat /\ <<k, x>> \notin R
    BY <1>3
  <2> QED BY <2>1 DEF R
<1> QED BY <1>4

(***************************************************************************)
(* Induction up to n: a set that has 0, and with each number the next one, *)
(* has all of them.                                                        *)
(***************************************************************************)
LEMMA CountUp ==
  ASSUME NEW n \in Nat, NEW T, 0 \in T,
         \A k \in 1..n : k - 1 \in T => k \in T
  PROVE  \A k \in 0..n : k \in T
<1> DEFINE U == {k \in 0..n : k \notin T}
<1>1. SUFFICES ASSUME U # {}
               PROVE  FALSE
  OBVIOUS
<1>2. PICK m \in U : \A k \in U : m <= k
  <2>1. U \subseteq Nat
    OBVIOUS
  <2> HIDE DEF U
  <2> QED BY <1>1, <2>1, LeastNatural
<1>3. m \in 1..n /\ m - 1 \in 0..n
  BY <1>2
<1>4. m - 1 \in T
  BY <1>2, <1>3
<1> QED BY <1>2, <1>3, <1>4

(***************************************************************************)
(* The greatest number of an interval, and the interval without it.        *)
(***************************************************************************)
LEMMA MaxInterval ==
  ASSUME NEW n \in Nat, NEW k \in 1..n
  PROVE  Max(1..k) = k /\ (1..k) \ {k} = 1..(k - 1) /\ 1..k # {}
<1>1. /\ k \in 1..k /\ \A y \in 1..k : k >= y
      /\ \A x \in 1..k : (\A y \in 1..k : x >= y) => x = k
  OBVIOUS
<1>2. Max(1..k) = k
  BY <1>1 DEF Max
<1> QED BY <1>1, <1>2

(***************************************************************************)
(* The greatest number of a set of numbers up to n.                        *)
(***************************************************************************)
LEMMA MaxOfSubset ==
  ASSUME NEW n \in Nat, NEW s, s \subseteq 1..n, s # {}
  PROVE  Max(s) \in s /\ \A y \in s : Max(s) >= y
<1> DEFINE U == {m \in Nat : \A y \in s : y <= m}
<1>1. U \subseteq Nat /\ n \in U
  OBVIOUS
<1>2. PICK m \in U : \A k \in U : m <= k
  <2> HIDE DEF U
  <2> QED BY <1>1, LeastNatural
<1>3. m \in s
  <2>1. SUFFICES ASSUME m \notin s
                 PROVE  FALSE
    OBVIOUS
  <2>2. \A y \in s : y \in Nat /\ y <= m - 1
    BY <1>2, <2>1
  <2>3. m - 1 \in Nat
    <3>1. PICK y \in s : TRUE
      OBVIOUS
    <3>2. y \in 1..n /\ y <= m - 1 /\ m \in Nat
      BY <1>2, <2>2
    <3> QED BY <3>2
  <2>4. m - 1 \in U
    BY <2>2, <2>3
  <2> QED BY <1>2, <2>4
<1>4. \E x \in s : \A y \in s : x >= y
  BY <1>2, <1>3
<1> QED BY <1>4 DEF Max

(***************************************************************************)
(* The value that F steps to from v with number k.                         *)
(***************************************************************************)
Stepped(F, v, k) == F[<<v, k>>]

(***************************************************************************)
(* A function that folds the subsets of 1..n, greatest number last, exists *)
(* for every step function F.                                              *)
(***************************************************************************)
FoldsSubsets(g, n, V, base, F) ==
  /\ g \in [SUBSET (1..n) -> V]
  /\ \A s \in SUBSET (1..n) :
       g[s] = IF s = {} THEN base ELSE Stepped(F, g[s \ {Max(s)}], Max(s))

LEMMA FoldExists ==
  ASSUME NEW n \in Nat, NEW V, NEW base \in V, NEW F \in [V \X (1..n) -> V]
  PROVE  \E g : FoldsSubsets(g, n, V, base, F)
<1> DEFINE Folds(k, g) == \A s \in SUBSET (1..k) :
             g[s] = IF s = {} THEN base ELSE Stepped(F, g[s \ {Max(s)}], Max(s))
           T == {k \in 0..n : \E g \in [SUBSET (1..k) -> V] : Folds(k, g)}
<1>1. 0 \in T
  <2> DEFINE g == [s \in SUBSET (1..0) |-> base]
  <2>1. g \in [SUBSET (1..0) -> V]
    OBVIOUS
  <2>2. \A s \in SUBSET (1..0) : s = {} /\ g[s] = base
    OBVIOUS
  <2>3. Folds(0, g)
    BY <2>2
  <2>4. 0 \in 0..n
    OBVIOUS
  <2> HIDE DEF g, Folds
  <2> QED BY <2>1, <2>3, <2>4
<1>2. ASSUME NEW k \in 1..n, k - 1 \in T
      PROVE  k \in T
  <2>1. PICK g \in [SUBSET (1..(k - 1)) -> V] : Folds(k - 1, g)
    BY <1>2
  <2> DEFINE h == [s \in SUBSET (1..k) |->
                     IF k \in s THEN Stepped(F, g[s \ {k}], k) ELSE g[s]]
  <2>2. ASSUME NEW s \in SUBSET (1..k)
        PROVE  /\ s \ {k} \in SUBSET (1..(k - 1))
               /\ k \in s => Max(s) = k
               /\ k \notin s => s \in SUBSET (1..(k - 1))
    <3>1. s \ {k} \in SUBSET (1..(k - 1))
      OBVIOUS
    <3>2. ASSUME k \in s
          PROVE  Max(s) = k
      <4>1. k \in Nat /\ s \subseteq 1..k /\ s # {}
        BY <3>2
      <4>2. Max(s) \in s /\ Max(s) >= k
        BY <3>2, <4>1, MaxOfSubset
      <4>3. Max(s) \in 1..k
        BY <4>1, <4>2
      <4> QED BY <4>1, <4>2, <4>3
    <3> QED BY <3>1, <3>2
  <2>3. h \in [SUBSET (1..k) -> V]
    <3> SUFFICES ASSUME NEW s \in SUBSET (1..k)
                 PROVE  h[s] \in V
      OBVIOUS
    <3>1. CASE k \in s
      <4>1. g[s \ {k}] \in V
        BY <2>2
      <4> QED BY <3>1, <4>1 DEF Stepped
    <3>2. CASE k \notin s
      BY <3>2, <2>2
    <3> QED BY <3>1, <3>2
  <2>4. Folds(k, h)
    <3> SUFFICES ASSUME NEW s \in SUBSET (1..k)
                 PROVE  h[s] = IF s = {} THEN base ELSE Stepped(F, h[s \ {Max(s)}], Max(s))
      OBVIOUS
    <3>1. CASE k \in s
      <4>1. Max(s) = k /\ s \ {k} \in SUBSET (1..(k - 1)) /\ s \ {k} \in SUBSET (1..k)
        BY <2>2, <3>1
      <4>2. h[s \ {k}] = g[s \ {k}]
        BY <4>1
      <4>3. h[s] = Stepped(F, g[s \ {k}], k)
        BY <3>1
      <4> HIDE DEF h
      <4> QED BY <3>1, <4>1, <4>2, <4>3
    <3>2. CASE k \notin s
      <4>1. s \in SUBSET (1..(k - 1)) /\ h[s] = g[s]
        BY <2>2, <3>2
      <4>2. s = {} => h[s] = base
        BY <4>1, <2>1
      <4>3. ASSUME s # {}
            PROVE  h[s] = Stepped(F, h[s \ {Max(s)}], Max(s))
        <5>1. s \ {Max(s)} \in SUBSET (1..k) /\ k \notin s \ {Max(s)}
          BY <3>2
        <5>2. h[s \ {Max(s)}] = g[s \ {Max(s)}]
          BY <5>1
        <5> QED BY <4>1, <4>3, <5>2, <2>1
      <4> QED BY <4>2, <4>3
    <3> QED BY <3>1, <3>2
  <2> HIDE DEF h, Folds
  <2> QED BY <2>3, <2>4
<1>3. n \in T
  <2> HIDE DEF T
  <2>1. \A k \in 0..n : k \in T
    BY <1>1, <1>2, CountUp
  <2> QED BY <2>1
<1> QED BY <1>3 DEF FoldsSubsets

(***************************************************************************)
(* The values g[0], ..., g[n] are reached from base by the steps of F.     *)
(***************************************************************************)
IsTrace(g, n, V, base, F) ==
  /\ g \in [0..n -> V] /\ g[0] = base
  /\ \A k \in 1..n : g[k] = Stepped(F, g[k - 1], k)

(***************************************************************************)
(* A function that takes the steps of F on the initial intervals takes n   *)
(* values, one after another.                                              *)
(***************************************************************************)
LEMMA FoldTrace ==
  ASSUME NEW n \in Nat, NEW V, NEW base \in V, NEW F \in [V \X (1..n) -> V],
         NEW f, f[{}] = base,
         \A k \in 1..n : f[1..(k - 1)] \in V => f[1..k] = Stepped(F, f[1..(k - 1)], k)
  PROVE  IsTrace([k \in 0..n |-> f[1..k]], n, V, base, F)
<1> DEFINE T == {k \in 0..n : f[1..k] \in V}
           g == [k \in 0..n |-> f[1..k]]
<1>1. 0 \in T
  <2>1. 1..0 = {}
    OBVIOUS
  <2> QED BY <2>1
<1>2. ASSUME NEW k \in 1..n, k - 1 \in T
      PROVE  k \in T
  <2>1. f[1..(k - 1)] \in V
    BY <1>2
  <2>2. f[1..k] = Stepped(F, f[1..(k - 1)], k)
    BY <2>1
  <2>3. Stepped(F, f[1..(k - 1)], k) \in V
    BY <2>1 DEF Stepped
  <2> QED BY <2>2, <2>3
<1>3. \A k \in 0..n : k \in T
  <2> HIDE DEF T
  <2> QED BY <1>1, <1>2, CountUp
<1>4. g \in [0..n -> V]
  BY <1>3
<1>5. g[0] = base
  <2>1. 1..0 = {} /\ 0 \in 0..n
    OBVIOUS
  <2>2. g[0] = f[1..0]
    BY <2>1
  <2> QED BY <2>1, <2>2
<1>6. ASSUME NEW k \in 1..n
      PROVE  g[k] = Stepped(F, g[k - 1], k)
  <2>1. k - 1 \in 0..n /\ k \in 0..n
    OBVIOUS
  <2>2. f[1..(k - 1)] \in V
    BY <1>3, <2>1
  <2> QED BY <2>1, <2>2
<1> HIDE DEF g
<1>7. IsTrace(g, n, V, base, F)
  BY <1>4, <1>5, <1>6 DEF IsTrace
<1> QED BY <1>7 DEF g

(***************************************************************************)
(* A trace of one more step, that takes the same steps before, takes its   *)
(* last step from the last value of the other.                             *)
(***************************************************************************)
LEMMA TraceAppend ==
  ASSUME NEW n \in Nat, NEW V, NEW base, NEW F, NEW G, NEW g, NEW h,
         IsTrace(g, n, V, base, F), IsTrace(h, n + 1, V, base, G),
         \A v \in V : \A k \in 1..n : Stepped(F, v, k) = Stepped(G, v, k)
  PROVE  g[n] \in V /\ h[n + 1] = Stepped(G, g[n], n + 1)
<1> DEFINE T == {k \in 0..n : g[k] = h[k]}
<1>1. 0 \in T
  BY DEF IsTrace
<1>2. ASSUME NEW k \in 1..n, k - 1 \in T
      PROVE  k \in T
  <2>1. k - 1 \in 0..n /\ k \in 0..n /\ k \in 1..(n + 1)
    OBVIOUS
  <2>2. g[k] = Stepped(F, g[k - 1], k) /\ h[k] = Stepped(G, h[k - 1], k) /\ g[k - 1] \in V
    BY <2>1 DEF IsTrace
  <2>3. Stepped(F, g[k - 1], k) = Stepped(G, g[k - 1], k)
    BY <2>2
  <2> QED BY <1>2, <2>1, <2>2, <2>3
<1>3. \A k \in 0..n : k \in T
  <2> HIDE DEF T
  <2> QED BY <1>1, <1>2, CountUp
<1>4. n \in 0..n /\ n + 1 \in 1..(n + 1) /\ (n + 1) - 1 = n
  OBVIOUS
<1>5. h[n + 1] = Stepped(G, h[(n + 1) - 1], n + 1) /\ g[n] \in V
  BY <1>4 DEF IsTrace
<1>6. h[n] = g[n]
  BY <1>3, <1>4
<1> QED BY <1>4, <1>5, <1>6

-----------------------------------------------------------------------------
(***************************************************************************)
(* A prefix of a sequence has its elements, and prefixes of its own.       *)
(***************************************************************************)
LEMMA PrefixProperties ==
  ASSUME NEW S, NEW s \in Seq(S), NEW n \in 0..Len(s)
  PROVE  /\ SubSeq(s, 1, n) \in Seq(S)
         /\ Len(SubSeq(s, 1, n)) = n
         /\ \A i \in 1..n : SubSeq(s, 1, n)[i] = s[i]
<1>1. Len(s) \in Nat /\ n \in Nat /\ 1 \in Int /\ n \in Int
  OBVIOUS
<1>2. \A i \in 1..n : s[i] \in S
  BY <1>1
<1>3. /\ SubSeq(s, 1, n) \in Seq(S)
      /\ Len(SubSeq(s, 1, n)) = IF 1 <= n THEN n - 1 + 1 ELSE 0
      /\ \A i \in 1..(n - 1 + 1) : SubSeq(s, 1, n)[i] = s[1 + i - 1]
  BY <1>1, <1>2, SubSeqProperties
<1>4. Len(SubSeq(s, 1, n)) = n /\ \A i \in 1..n : SubSeq(s, 1, n)[i] = s[i]
  BY <1>1, <1>3
<1> QED BY <1>3, <1>4

(***************************************************************************)
(* The longest prefix is the sequence, and a prefix of a prefix is one.    *)
(***************************************************************************)
LEMMA PrefixOfPrefix ==
  ASSUME NEW S, NEW s \in Seq(S)
  PROVE  /\ SubSeq(s, 1, Len(s)) = s
         /\ \A n \in 0..Len(s) : \A m \in 0..n :
              SubSeq(SubSeq(s, 1, n), 1, m) = SubSeq(s, 1, m)
<1>1. Len(s) \in Nat
  OBVIOUS
<1>2. SubSeq(s, 1, Len(s)) = s
  <2>1. Len(s) \in 0..Len(s)
    BY <1>1
  <2> DEFINE t == SubSeq(s, 1, Len(s))
  <2>2. t \in Seq(S) /\ Len(t) = Len(s) /\ \A i \in 1..Len(s) : t[i] = s[i]
    BY <2>1, PrefixProperties
  <2> HIDE DEF t
  <2>3. t = s
    BY <2>2, SeqEqual
  <2> QED BY <2>3 DEF t
<1>3. ASSUME NEW n \in 0..Len(s), NEW m \in 0..n
      PROVE  SubSeq(SubSeq(s, 1, n), 1, m) = SubSeq(s, 1, m)
  <2> DEFINE t == SubSeq(s, 1, n)
             u == SubSeq(t, 1, m)
             v == SubSeq(s, 1, m)
  <2>1. t \in Seq(S) /\ Len(t) = n /\ \A i \in 1..n : t[i] = s[i]
    BY PrefixProperties
  <2>2. m \in 0..Len(s)
    BY <1>1
  <2>3. v \in Seq(S) /\ Len(v) = m /\ \A i \in 1..m : v[i] = s[i]
    BY <2>2, PrefixProperties
  <2> HIDE DEF t, v
  <2>4. u \in Seq(S) /\ Len(u) = m /\ \A i \in 1..m : u[i] = t[i]
    <3>1. m \in 0..Len(t)
      BY <2>1
    <3> QED BY <2>1, <3>1, PrefixProperties
  <2> HIDE DEF u
  <2>5. \A i \in 1..Len(u) : u[i] = v[i]
    BY <1>1, <2>1, <2>3, <2>4
  <2>6. u = v
    BY <2>3, <2>4, <2>5, SeqEqual
  <2> QED BY <2>6 DEF u, v, t
<1> QED BY <1>2, <1>3

(***************************************************************************)
(* Appending an element keeps the prefixes.                                *)
(***************************************************************************)
LEMMA PrefixOfAppend ==
  ASSUME NEW S, NEW s \in Seq(S), NEW e \in S, NEW n \in 0..Len(s)
  PROVE  SubSeq(Append(s, e), 1, n) = SubSeq(s, 1, n)
<1> DEFINE t == Append(s, e)
           u == SubSeq(t, 1, n)
           v == SubSeq(s, 1, n)
<1>1. t \in Seq(S) /\ Len(t) = Len(s) + 1 /\ \A i \in 1..Len(s) : t[i] = s[i]
  BY AppendProperties
<1>2. v \in Seq(S) /\ Len(v) = n /\ \A i \in 1..n : v[i] = s[i]
  BY PrefixProperties
<1>3. Len(s) \in Nat
  OBVIOUS
<1> HIDE DEF t, v
<1>4. u \in Seq(S) /\ Len(u) = n /\ \A i \in 1..n : u[i] = t[i]
  <2>1. n \in 0..Len(t)
    BY <1>1, <1>3
  <2> QED BY <1>1, <2>1, PrefixProperties
<1> HIDE DEF u
<1>5. \A i \in 1..Len(u) : u[i] = v[i]
  BY <1>1, <1>2, <1>3, <1>4
<1>6. u = v
  BY <1>2, <1>4, <1>5, SeqEqual
<1> QED BY <1>6 DEF u, v, t

(***************************************************************************)
(* A sequence that is not empty is all but its last element, and that.     *)
(***************************************************************************)
LEMMA FrontLast ==
  ASSUME NEW S, NEW s \in Seq(S), s # <<>>
  PROVE  /\ Front(s) \in Seq(S) /\ Last(s) \in S
         /\ Len(Front(s)) = Len(s) - 1 /\ Len(s) \in Nat \ {0}
         /\ \A i \in 1..(Len(s) - 1) : Front(s)[i] = s[i]
         /\ s = Append(Front(s), Last(s))
<1> DEFINE n == Len(s) - 1
           t == Front(s)
           u == Append(t, Last(s))
<1>1. Len(s) \in Nat \ {0} /\ n \in 0..Len(s) /\ n \in Nat
  OBVIOUS
<1>2. t \in Seq(S) /\ Len(t) = n /\ \A i \in 1..n : t[i] = s[i]
  BY <1>1, PrefixProperties DEF Front
<1>3. Last(s) \in S /\ Last(s) = s[Len(s)]
  BY <1>1 DEF Last
<1> HIDE DEF t
<1>4. u \in Seq(S) /\ Len(u) = n + 1 /\ u[n + 1] = Last(s) /\ \A i \in 1..n : u[i] = t[i]
  BY <1>2, <1>3, AppendProperties
<1> HIDE DEF u
<1>5. \A i \in 1..Len(u) : u[i] = s[i]
  BY <1>1, <1>2, <1>3, <1>4
<1>6. u = s
  <2>1. Len(u) = Len(s)
    BY <1>1, <1>4
  <2> QED BY <1>4, <1>5, <2>1, SeqEqual
<1> QED BY <1>1, <1>2, <1>3, <1>6 DEF t, u

(***************************************************************************)
(* All but the last of no elements are none.                               *)
(***************************************************************************)
LEMMA FrontType ==
  ASSUME NEW S, NEW s \in Seq(S)
  PROVE  Front(s) \in Seq(S)
<1>1. CASE s = <<>>
  <2>1. Front(s) \in Seq(S)
    BY <1>1 DEF Front
  <2> QED BY <2>1
<1>2. CASE s # <<>>
  BY <1>2, FrontLast
<1> QED BY <1>1, <1>2

(***************************************************************************)
(* What was appended is last, and what it was appended to is in front.     *)
(***************************************************************************)
LEMMA FrontOfAppend ==
  ASSUME NEW S, NEW s \in Seq(S), NEW e \in S
  PROVE  Front(Append(s, e)) = s /\ Last(Append(s, e)) = e
<1> DEFINE t == Append(s, e)
<1>1. /\ t \in Seq(S) /\ Len(t) = Len(s) + 1 /\ Len(s) \in Nat /\ t[Len(s) + 1] = e
      /\ \A i \in 1..Len(s) : t[i] = s[i]
  BY AppendProperties
<1> HIDE DEF t
<1>2. t # <<>>
  BY <1>1
<1>3. Front(t) \in Seq(S) /\ Len(Front(t)) = Len(s) /\ \A i \in 1..Len(s) : Front(t)[i] = s[i]
  BY <1>1, <1>2, FrontLast
<1>4. Front(t) = s
  BY <1>3, SeqEqual
<1>5. Last(t) = e
  BY <1>1 DEF Last
<1> QED BY <1>4, <1>5 DEF t

(***************************************************************************)
(* A prefix is the one before and an element.                              *)
(***************************************************************************)
LEMMA PrefixStep ==
  ASSUME NEW S, NEW s \in Seq(S), NEW k \in 1..Len(s)
  PROVE  /\ SubSeq(s, 1, k - 1) \in Seq(S) /\ s[k] \in S
         /\ SubSeq(s, 1, k) = Append(SubSeq(s, 1, k - 1), s[k])
<1> DEFINE t == SubSeq(s, 1, k)
<1>1. Len(s) \in Nat /\ k \in 0..Len(s) /\ k - 1 \in 0..Len(s) /\ k - 1 \in 0..k /\ s[k] \in S
  OBVIOUS
<1>2. t \in Seq(S) /\ Len(t) = k /\ \A i \in 1..k : t[i] = s[i]
  BY <1>1, PrefixProperties
<1>3. SubSeq(s, 1, k - 1) \in Seq(S)
  BY <1>1, PrefixProperties
<1>4. SubSeq(t, 1, k - 1) = SubSeq(s, 1, k - 1)
  BY <1>1, PrefixOfPrefix
<1> HIDE DEF t
<1>5. t # <<>>
  BY <1>2
<1>6. t = Append(Front(t), Last(t))
  BY <1>2, <1>5, FrontLast
<1>7. Front(t) = SubSeq(s, 1, k - 1) /\ Last(t) = s[k]
  BY <1>1, <1>2, <1>4 DEF Front, Last
<1> QED BY <1>1, <1>3, <1>6, <1>7 DEF t

-----------------------------------------------------------------------------
(***************************************************************************)
(* The first k of the sequences seqs, one behind the other.                *)
(***************************************************************************)
Flattens(g, seqs, k) ==
  \A i \in 1..k : g[i] = IF i = 1 THEN seqs[i] ELSE g[i - 1] \o seqs[i]

(***************************************************************************)
(* The sequence of all elements is made of one sequence after another, and *)
(* has their elements.                                                     *)
(***************************************************************************)
IsPrefixes(g, seqs) ==
  /\ g[0] = <<>> /\ \A i \in 1..Len(seqs) : g[i] = g[i - 1] \o seqs[i]
  /\ g[Len(seqs)] = FlattenSeq(seqs)

LEMMA FlattenPrefixes ==
  ASSUME NEW S, NEW seqs \in Seq(Seq(S))
  PROVE  \E g \in [0..Len(seqs) -> Seq(S)] : IsPrefixes(g, seqs)
<1> DEFINE n == Len(seqs)
           Q == Seq(S)
           P(h) == h = [i \in 1..n |-> IF i = 1 THEN seqs[i] ELSE h[i - 1] \o seqs[i]]
           f == CHOOSE h : P(h)
<1>1. /\ n \in Nat /\ \A i \in 1..n : seqs[i] \in Q
      /\ \A s, t \in Q : s \o t \in Q
  OBVIOUS
<1>2. CASE n = 0
  <2>1. seqs = <<>>
    BY <1>2
  <2>2. FlattenSeq(seqs) = <<>>
    BY <2>1 DEF FlattenSeq
  <2> DEFINE g == [i \in 0..n |-> <<>>]
  <2>3. g \in [0..n -> Q] /\ g[0] = <<>>
    BY <1>2
  <2> HIDE DEF g
  <2>4. IsPrefixes(g, seqs)
    BY <1>2, <2>2, <2>3 DEF IsPrefixes
  <2> QED BY <2>3, <2>4
<1>3. CASE n # 0
  <2> DEFINE T == {k \in 0..n : \E g \in [1..k -> Q] : Flattens(g, seqs, k)}
  <2> HIDE DEF Q, n, f
  <2>1. 0 \in T
    <3> DEFINE g == [i \in 1..0 |-> <<>>]
    <3>1. g \in [1..0 -> Q] /\ 0 \in 0..n
      BY <1>1
    <3>2. Flattens(g, seqs, 0)
      BY DEF Flattens
    <3> HIDE DEF g
    <3> QED BY <3>1, <3>2
  <2>2. ASSUME NEW k \in 1..n, k - 1 \in T
        PROVE  k \in T
    <3>1. PICK g \in [1..(k - 1) -> Q] : Flattens(g, seqs, k - 1)
      BY <2>2
    <3> DEFINE next == IF k = 1 THEN seqs[k] ELSE g[k - 1] \o seqs[k]
               h == [i \in 1..k |-> IF i = k THEN next ELSE g[i]]
    <3>2. next \in Q
      <4>1. CASE k = 1
        BY <1>1, <4>1
      <4>2. CASE k # 1
        <5>1. k - 1 \in 1..(k - 1)
          BY <1>1, <4>2
        <5>2. g[k - 1] \in Q
          BY <5>1
        <5> QED BY <1>1, <4>2, <5>2
      <4> QED BY <4>1, <4>2
    <3>3. \A i \in 1..(k - 1) : i \in 1..k /\ i # k /\ h[i] = g[i]
      <4>1. \A i \in 1..(k - 1) : i \in 1..k /\ i # k
        BY <1>1
      <4> HIDE DEF next
      <4> QED BY <4>1
    <3>4. h[k] = next
      BY <1>1
    <3>5. h \in [1..k -> Q]
      <4>1. \A i \in 1..k : i # k => i \in 1..(k - 1)
        BY <1>1
      <4>2. \A i \in 1..k : i # k => g[i] \in Q
        BY <4>1
      <4> HIDE DEF next
      <4> QED BY <3>2, <4>2
    <3> HIDE DEF h
    <3>6. ASSUME NEW i \in 1..k
          PROVE  h[i] = IF i = 1 THEN seqs[i] ELSE h[i - 1] \o seqs[i]
      <4>1. CASE i = k
        <5>1. k # 1 => h[k - 1] = g[k - 1]
          BY <1>1, <3>3
        <5> QED BY <3>4, <4>1, <5>1
      <4>2. CASE i # k
        <5>1. i \in 1..(k - 1) /\ h[i] = g[i]
          BY <1>1, <3>3, <4>2
        <5>2. i # 1 => h[i - 1] = g[i - 1]
          BY <1>1, <3>3, <5>1
        <5> QED BY <3>1, <5>1, <5>2 DEF Flattens
      <4> QED BY <4>1, <4>2
    <3>7. Flattens(h, seqs, k)
      BY <3>6 DEF Flattens
    <3>8. k \in 0..n
      BY <1>1
    <3> QED BY <3>5, <3>7, <3>8
  <2>3. \A k \in 0..n : k \in T
    <3> HIDE DEF T
    <3> QED BY <1>1, <2>1, <2>2, CountUp
  <2>4. PICK h \in [1..n -> Q] : Flattens(h, seqs, n)
    <3>1. n \in 0..n
      BY <1>1
    <3>2. n \in T
      BY <2>3, <3>1
    <3> HIDE DEF n, Q
    <3> QED BY <3>2
  <2>5. P(h)
    <3>1. \A i \in 1..n : h[i] = IF i = 1 THEN seqs[i] ELSE h[i - 1] \o seqs[i]
      BY <2>4 DEF Flattens
    <3> QED BY <3>1
  <2>6. P(f)
    <3> HIDE DEF P
    <3> QED BY <2>5 DEF f
  <2>7. FlattenSeq(seqs) = f[n]
    BY <1>3 DEF FlattenSeq, n, f
  <2> DEFINE U == {i \in 0..n : i = 0 \/ f[i] \in Q}
  <2>8. \A i \in 0..n : i \in U
    <3>1. 0 \in U
      BY <1>1
    <3>2. ASSUME NEW i \in 1..n, i - 1 \in U
          PROVE  i \in U
      <4>1. f[i] = IF i = 1 THEN seqs[i] ELSE f[i - 1] \o seqs[i]
        BY <2>6
      <4> HIDE DEF P
      <4>2. i = 1 \/ f[i - 1] \in Q
        BY <1>1, <3>2
      <4>3. f[i] \in Q
        BY <1>1, <4>1, <4>2
      <4> QED BY <1>1, <4>3
    <3> HIDE DEF U, P
    <3> QED BY <1>1, <3>1, <3>2, CountUp
  <2>9. \A i \in 1..n : /\ f[i] \in Q
                        /\ f[i] = IF i = 1 THEN seqs[i] ELSE f[i - 1] \o seqs[i]
    <3>1. \A i \in 1..n : f[i] \in Q
      BY <1>1, <2>8
    <3>2. \A i \in 1..n : f[i] = IF i = 1 THEN seqs[i] ELSE f[i - 1] \o seqs[i]
      BY <2>6
    <3> HIDE DEF U, P
    <3> QED BY <3>1, <3>2
  <2> HIDE DEF U, P
  <2> DEFINE g == [i \in 0..n |-> IF i = 0 THEN <<>> ELSE f[i]]
  <2>10. g \in [0..n -> Q]
    <3>1. \A i \in 0..n : i # 0 => i \in 1..n
      BY <1>1
    <3>2. <<>> \in Q
      BY DEF Q
    <3> QED BY <2>9, <3>1, <3>2
  <2>11. g[0] = <<>> /\ \A i \in 1..n : g[i] = f[i]
    BY <1>1
  <2> HIDE DEF g
  <2>12. ASSUME NEW i \in 1..n
         PROVE  g[i] = g[i - 1] \o seqs[i]
    <3>1. CASE i = 1
      <4>1. <<>> \o seqs[i] = seqs[i]
        <5>1. seqs[i] \in Seq(S)
          BY <1>1 DEF Q
        <5> QED BY <5>1, ConcatEmptySeq
      <4>2. g[i] = seqs[i]
        BY <2>9, <2>11, <3>1
      <4>3. g[i - 1] = <<>>
        BY <2>11, <3>1
      <4> QED BY <4>1, <4>2, <4>3
    <3>2. CASE i # 1
      <4>1. i - 1 \in 1..n
        BY <1>1, <3>2
      <4> QED BY <2>9, <2>11, <3>2, <4>1
    <3> QED BY <3>1, <3>2
  <2>13. g[n] = FlattenSeq(seqs)
    <3>1. n \in 1..n
      BY <1>1, <1>3
    <3> QED BY <2>7, <2>11, <3>1
  <2>14. IsPrefixes(g, seqs)
    BY <2>11, <2>12, <2>13 DEF IsPrefixes, n
  <2> QED BY <2>10, <2>14 DEF n, Q
<1> QED BY <1>2, <1>3

\* Putting sequences together gives a sequence of the same elements.
LEMMA FlattenType ==
  ASSUME NEW S, NEW seqs \in Seq(Seq(S))
  PROVE  FlattenSeq(seqs) \in Seq(S)
<1>1. PICK g \in [0..Len(seqs) -> Seq(S)] : IsPrefixes(g, seqs)
  BY FlattenPrefixes
<1>2. Len(seqs) \in 0..Len(seqs)
  OBVIOUS
<1> QED BY <1>1, <1>2 DEF IsPrefixes

-----------------------------------------------------------------------------
(***************************************************************************)
(* Sums over finite sets, as FoldSet makes them: f has the sum of the      *)
(* weights w over every subset of S.                                       *)
(***************************************************************************)
Pick(s) == CHOOSE x \in s : TRUE

Adds(f, S, w) ==
  \A s \in SUBSET S : f[s] = IF s = {} THEN 0 ELSE f[s \ {Pick(s)}] + w[Pick(s)]

IsSum(f, S, w) == f \in [SUBSET S -> Int] /\ Adds(f, S, w)

(***************************************************************************)
(* A property of all subsets of a finite set, by induction on their size.  *)
(***************************************************************************)
LEMMA BySize ==
  ASSUME NEW S, IsFiniteSet(S), NEW P, {} \in P,
         \A s \in SUBSET S : s # {} /\ (\A x \in s : s \ {x} \in P) => s \in P
  PROVE  \A s \in SUBSET S : s \in P
<1> DEFINE n == Cardinality(S)
           T == {k \in 0..n : \A s \in SUBSET S : Cardinality(s) = k => s \in P}
<1>1. n \in Nat
  BY FS_CardinalityType
<1>2. \A s \in SUBSET S : IsFiniteSet(s) /\ Cardinality(s) \in 0..n
  <2> SUFFICES ASSUME NEW s \in SUBSET S
               PROVE  IsFiniteSet(s) /\ Cardinality(s) \in 0..n
    OBVIOUS
  <2>1. IsFiniteSet(s) /\ Cardinality(s) <= n
    BY FS_Subset
  <2>2. Cardinality(s) \in Nat
    BY <2>1, FS_CardinalityType
  <2> QED BY <1>1, <2>1, <2>2
<1> HIDE DEF n
<1>3. 0 \in T
  <2>1. \A s \in SUBSET S : Cardinality(s) = 0 => s = {}
    BY <1>2, FS_EmptySet
  <2>2. \A s \in SUBSET S : Cardinality(s) = 0 => s \in P
    BY <2>1
  <2>3. 0 \in 0..n
    BY <1>1
  <2> QED BY <2>2, <2>3
<1>4. ASSUME NEW k \in 1..n, k - 1 \in T
      PROVE  k \in T
  <2>1. ASSUME NEW s \in SUBSET S, Cardinality(s) = k
        PROVE  s \in P
    <3>1. s # {}
      <4>1. Cardinality({}) = 0 /\ k # 0
        BY <1>1, FS_EmptySet
      <4> QED BY <2>1, <4>1
    <3>2. ASSUME NEW x \in s
          PROVE  s \ {x} \in P
      <4>1. IsFiniteSet(s)
        BY <1>2
      <4>2. Cardinality(s \ {x}) = Cardinality(s) - 1
        BY <4>1, FS_RemoveElement
      <4>3. \A t \in SUBSET S : Cardinality(t) = k - 1 => t \in P
        BY <1>4
      <4> QED BY <2>1, <4>2, <4>3
    <3> QED BY <3>1, <3>2
  <2>2. k \in 0..n
    BY <1>1
  <2> QED BY <2>1, <2>2
<1>5. \A k \in 0..n : k \in T
  <2> HIDE DEF T
  <2> QED BY <1>1, <1>3, <1>4, CountUp
<1> QED BY <1>2, <1>5

(***************************************************************************)
(* What adds up subset by subset is a number for each of them.             *)
(***************************************************************************)
LEMMA SumType ==
  ASSUME NEW S, IsFiniteSet(S), NEW w, \A x \in S : w[x] \in Int,
         NEW f, Adds(f, S, w)
  PROVE  \A s \in SUBSET S : f[s] \in Int
<1> DEFINE P == {s \in SUBSET S : f[s] \in Int}
<1>1. {} \in P
  BY DEF Adds
<1>2. ASSUME NEW s \in SUBSET S, s # {}, \A x \in s : s \ {x} \in P
      PROVE  s \in P
  <2>1. Pick(s) \in s
    BY <1>2 DEF Pick
  <2>2. f[s] = f[s \ {Pick(s)}] + w[Pick(s)]
    BY <1>2 DEF Adds
  <2>3. f[s \ {Pick(s)}] \in Int /\ w[Pick(s)] \in Int
    BY <1>2, <2>1
  <2>4. f[s] \in Int
    BY <2>2, <2>3
  <2> QED BY <2>4
<1> HIDE DEF P
<1>3. \A s \in SUBSET S : s \in P
  BY <1>1, <1>2, BySize
<1> QED BY <1>3 DEF P

(***************************************************************************)
(* Which element is taken first makes no difference.                       *)
(***************************************************************************)
LEMMA SumTake ==
  ASSUME NEW S, IsFiniteSet(S), NEW w, \A x \in S : w[x] \in Int,
         NEW f, IsSum(f, S, w)
  PROVE  \A s \in SUBSET S : \A x \in s : f[s] = f[s \ {x}] + w[x]
<1> DEFINE P == {s \in SUBSET S : \A x \in s : f[s] = f[s \ {x}] + w[x]}
<1>1. {} \in P
  OBVIOUS
<1>2. ASSUME NEW s \in SUBSET S, s # {}, \A x \in s : s \ {x} \in P
      PROVE  s \in P
  <2> DEFINE y == Pick(s)
  <2>1. y \in s
    BY <1>2 DEF Pick
  <2>2. f[s] = f[s \ {y}] + w[y]
    BY <1>2 DEF IsSum, Adds
  <2> HIDE DEF y
  <2>3. ASSUME NEW x \in s, x # y
        PROVE  f[s] = f[s \ {x}] + w[x]
    <3>1. x \in s \ {y} /\ y \in s \ {x}
      BY <2>1, <2>3
    <3>2. f[s \ {y}] = f[(s \ {y}) \ {x}] + w[x]
      BY <1>2, <2>1, <3>1
    <3>3. f[s \ {x}] = f[(s \ {x}) \ {y}] + w[y]
      BY <1>2, <2>1, <3>1
    <3>4. (s \ {y}) \ {x} = (s \ {x}) \ {y}
      OBVIOUS
    <3>5. f[(s \ {x}) \ {y}] \in Int /\ w[x] \in Int /\ w[y] \in Int
      BY <2>1 DEF IsSum
    <3> DEFINE a == f[(s \ {x}) \ {y}]
               b == w[x]
               c == w[y]
    <3>6. f[s] = (a + b) + c /\ f[s \ {x}] = a + c /\ a \in Int /\ b \in Int /\ c \in Int
      BY <2>2, <3>2, <3>3, <3>4, <3>5
    <3> HIDE DEF a
    <3> QED BY <3>6
  <2> QED BY <2>2, <2>3
<1> HIDE DEF P
<1>3. \A s \in SUBSET S : s \in P
  BY <1>1, <1>2, BySize
<1> QED BY <1>3 DEF P

(***************************************************************************)
(* The sum depends only on the weights of the elements.                    *)
(***************************************************************************)
LEMMA SumSame ==
  ASSUME NEW S, IsFiniteSet(S), NEW w, NEW f, Adds(f, S, w),
         NEW R, NEW v, NEW g, Adds(g, R, v),
         S \subseteq R, \A x \in S : w[x] = v[x]
  PROVE  f[S] = g[S]
<1> DEFINE P == {s \in SUBSET S : f[s] = g[s]}
<1>1. {} \in P
  BY DEF Adds
<1>2. ASSUME NEW s \in SUBSET S, s # {}, \A x \in s : s \ {x} \in P
      PROVE  s \in P
  <2>1. Pick(s) \in s
    BY <1>2 DEF Pick
  <2>2. f[s] = f[s \ {Pick(s)}] + w[Pick(s)]
    BY <1>2 DEF Adds
  <2>3. g[s] = g[s \ {Pick(s)}] + v[Pick(s)]
    BY <1>2 DEF Adds
  <2> QED BY <1>2, <2>1, <2>2, <2>3
<1> HIDE DEF P
<1>3. \A s \in SUBSET S : s \in P
  BY <1>1, <1>2, BySize
<1> QED BY <1>3 DEF P

(***************************************************************************)
(* A function with the sums exists.                                        *)
(***************************************************************************)
LEMMA SumExists ==
  ASSUME NEW S, IsFiniteSet(S), NEW w, \A x \in S : w[x] \in Int
  PROVE  \E f : IsSum(f, S, w)
<1> DEFINE n == Cardinality(S)
           Sub(k) == {s \in SUBSET S : Cardinality(s) <= k}
           Sums(k, f) == \A s \in Sub(k) :
             f[s] = IF s = {} THEN 0 ELSE f[s \ {Pick(s)}] + w[Pick(s)]
           T == {k \in 0..n : \E f \in [Sub(k) -> Int] : Sums(k, f)}
<1>1. n \in Nat
  BY FS_CardinalityType
<1>2. \A s \in SUBSET S : IsFiniteSet(s) /\ Cardinality(s) \in 0..n
  <2> SUFFICES ASSUME NEW s \in SUBSET S
               PROVE  IsFiniteSet(s) /\ Cardinality(s) \in 0..n
    OBVIOUS
  <2>1. IsFiniteSet(s) /\ Cardinality(s) <= n
    BY FS_Subset
  <2>2. Cardinality(s) \in Nat
    BY <2>1, FS_CardinalityType
  <2> QED BY <1>1, <2>1, <2>2
<1>3. \A s \in SUBSET S : s # {} =>
        Pick(s) \in s /\ Cardinality(s \ {Pick(s)}) = Cardinality(s) - 1
  <2> SUFFICES ASSUME NEW s \in SUBSET S, s # {}
               PROVE  Pick(s) \in s /\ Cardinality(s \ {Pick(s)}) = Cardinality(s) - 1
    OBVIOUS
  <2>1. Pick(s) \in s
    BY DEF Pick
  <2> QED BY <1>2, <2>1, FS_RemoveElement
<1> HIDE DEF n
<1>4. 0 \in T
  <2> DEFINE f == [s \in Sub(0) |-> 0]
  <2>1. \A s \in Sub(0) : s = {}
    <3>1. \A s \in SUBSET S : Cardinality(s) <= 0 => Cardinality(s) = 0
      BY <1>1, <1>2
    <3> QED BY <1>2, <3>1, FS_EmptySet
  <2>2. f \in [Sub(0) -> Int] /\ Sums(0, f)
    BY <2>1
  <2>3. 0 \in 0..n
    BY <1>1
  <2> HIDE DEF f, Sums, Sub
  <2> QED BY <2>2, <2>3
<1>5. ASSUME NEW k \in 1..n, k - 1 \in T
      PROVE  k \in T
  <2>1. PICK f \in [Sub(k - 1) -> Int] : Sums(k - 1, f)
    BY <1>5
  <2> DEFINE g == [s \in Sub(k) |->
                     IF Cardinality(s) = k THEN f[s \ {Pick(s)}] + w[Pick(s)] ELSE f[s]]
  <2>2. \A s \in Sub(k) : s \in SUBSET S /\ Cardinality(s) \in 0..n
    BY <1>2
  <2>3. ASSUME NEW s \in Sub(k), s # {}
        PROVE  /\ Pick(s) \in s /\ w[Pick(s)] \in Int
               /\ s \ {Pick(s)} \in Sub(k - 1) /\ s \ {Pick(s)} \in Sub(k)
               /\ Cardinality(s \ {Pick(s)}) # k
    <3>1. Pick(s) \in s /\ Cardinality(s \ {Pick(s)}) = Cardinality(s) - 1
      BY <1>3, <2>3
    <3>2. Cardinality(s) \in Nat /\ Cardinality(s) <= k /\ s \in SUBSET S
      BY <1>1, <2>2
    <3> QED BY <1>1, <3>1, <3>2
  <2>4. \A s \in Sub(k) : Cardinality(s) # k => s \in Sub(k - 1)
    BY <1>1, <2>2
  <2>5. \A s \in Sub(k) : Cardinality(s) = k => s # {}
    BY <1>1, FS_EmptySet
  <2> HIDE DEF Sub
  <2>6. g \in [Sub(k) -> Int]
    <3>1. \A s \in Sub(k) : Cardinality(s) = k => f[s \ {Pick(s)}] + w[Pick(s)] \in Int
      <4> SUFFICES ASSUME NEW s \in Sub(k), Cardinality(s) = k
                   PROVE  f[s \ {Pick(s)}] + w[Pick(s)] \in Int
        OBVIOUS
      <4>1. s \ {Pick(s)} \in Sub(k - 1) /\ w[Pick(s)] \in Int
        BY <2>3, <2>5
      <4>2. f[s \ {Pick(s)}] \in Int
        BY <2>1, <4>1
      <4> QED BY <4>1, <4>2
    <3>2. \A s \in Sub(k) : Cardinality(s) # k => f[s] \in Int
      BY <2>1, <2>4
    <3> QED BY <3>1, <3>2
  <2>7. ASSUME NEW s \in Sub(k)
        PROVE  g[s] = IF s = {} THEN 0 ELSE g[s \ {Pick(s)}] + w[Pick(s)]
    <3>1. s # {} => g[s \ {Pick(s)}] = f[s \ {Pick(s)}]
      BY <2>3
    <3>2. CASE Cardinality(s) = k
      BY <2>5, <3>1, <3>2
    <3>3. CASE Cardinality(s) # k
      <4>1. f[s] = IF s = {} THEN 0 ELSE f[s \ {Pick(s)}] + w[Pick(s)]
        BY <2>1, <2>4, <3>3
      <4> QED BY <3>1, <3>3, <4>1
    <3> QED BY <3>2, <3>3
  <2> HIDE DEF g
  <2>8. Sums(k, g)
    BY <2>7
  <2> HIDE DEF Sums
  <2>9. k \in 0..n
    BY <1>1
  <2> QED BY <2>6, <2>8, <2>9
<1>6. n \in T
  <2> HIDE DEF T
  <2>1. \A k \in 0..n : k \in T
    BY <1>1, <1>4, <1>5, CountUp
  <2> QED BY <1>1, <2>1
<1>7. PICK f \in [Sub(n) -> Int] : Sums(n, f)
  BY <1>6
<1>8. Sub(n) = SUBSET S
  BY <1>1, <1>2
<1>9. f \in [SUBSET S -> Int]
  BY <1>7, <1>8
<1>10. Adds(f, S, w)
  BY <1>7, <1>8 DEF Adds
<1> QED BY <1>9, <1>10 DEF IsSum

-----------------------------------------------------------------------------
(***************************************************************************)
(* What Surviving makes of one more entry.                                 *)
(***************************************************************************)
Shorter(chain, e) == IF e.undo THEN Front(chain) ELSE Append(chain, e)

(***************************************************************************)
(* The chain is reached step by step.                                      *)
(***************************************************************************)
LEMMA SurvivingTrace ==
  ASSUME NEW S, NEW s \in Seq(S)
  PROVE  \E g : /\ IsTrace(g, Len(s), Seq(S), <<>>,
                           [p \in Seq(S) \X (1..Len(s)) |-> Shorter(p[1], s[p[2]])])
                /\ g[Len(s)] = Surviving(s)
<1> DEFINE n == Len(s)
           V == Seq(S)
           F == [p \in V \X (1..n) |-> Shorter(p[1], s[p[2]])]
           P(h) == h = [T \in SUBSET DOMAIN s |->
                         IF T = {} THEN <<>>
                         ELSE Shorter(h[T \ {Max(T)}], s[Max(T)])]
           f == CHOOSE h : P(h)
           g == [i \in 0..n |-> f[1..i]]
<1> HIDE DEF f
<1>1. n \in Nat /\ DOMAIN s = 1..n /\ (\A i \in 1..n : s[i] \in S) /\ <<>> \in V
  OBVIOUS
<1>2. F \in [V \X (1..n) -> V]
  <2> SUFFICES ASSUME NEW p \in V \X (1..n)
               PROVE  Shorter(p[1], s[p[2]]) \in V
    OBVIOUS
  <2>1. p[1] \in V /\ s[p[2]] \in S
    BY <1>1
  <2>2. Front(p[1]) \in V
    BY <2>1, FrontType
  <2>3. Append(p[1], s[p[2]]) \in V
    BY <2>1
  <2> QED BY <2>2, <2>3 DEF Shorter
<1> HIDE DEF V
<1>3. PICK h : FoldsSubsets(h, n, V, <<>>, F)
  <2> HIDE DEF n, F, P
  <2> QED BY <1>1, <1>2, FoldExists
<1>4. P(h)
  <2> USE DEF FoldsSubsets
  <2>1. ASSUME NEW T \in SUBSET (1..n), T # {}
        PROVE  h[T] = Shorter(h[T \ {Max(T)}], s[Max(T)])
    <3>1. Max(T) \in 1..n
      BY <1>1, <2>1, MaxOfSubset
    <3>2. h[T \ {Max(T)}] \in V
      BY <1>3
    <3>3. Stepped(F, h[T \ {Max(T)}], Max(T)) = Shorter(h[T \ {Max(T)}], s[Max(T)])
      BY <3>1, <3>2 DEF Stepped
    <3> HIDE DEF F
    <3> QED BY <1>3, <2>1, <3>3
  <2> QED BY <1>1, <1>3, <2>1
<1>5. P(f)
  <2> HIDE DEF P
  <2> QED BY <1>4 DEF f
<1>6. Surviving(s) = f[1..n]
  BY <1>1 DEF Surviving, FoldLeft, MapThenFoldSet, f, Shorter
<1>7. ASSUME NEW i \in 1..n, f[1..(i - 1)] \in V
      PROVE  f[1..i] = Stepped(F, f[1..(i - 1)], i)
  <2>1. 1..i \in SUBSET (1..n) /\ Max(1..i) = i /\ (1..i) \ {i} = 1..(i - 1)
        /\ 1..i # {}
    BY <1>1, MaxInterval
  <2>2. f[1..i] = Shorter(f[1..(i - 1)], s[i])
    BY <1>1, <1>5, <2>1
  <2> QED BY <2>2, <1>7 DEF Stepped
<1>8. f[{}] = <<>>
  BY <1>5
<1>9. IsTrace(g, n, V, <<>>, F)
  <2> HIDE DEF n, F, P
  <2> QED BY <1>1, <1>2, <1>7, <1>8, FoldTrace
<1>10. g[n] = Surviving(s)
  BY <1>1, <1>6
<1> QED BY <1>9, <1>10 DEF V

(***************************************************************************)
(* So one more entry takes one more step.                                  *)
(***************************************************************************)
LEMMA SurvivingAppend ==
  ASSUME NEW S, NEW s \in Seq(S), NEW e \in S
  PROVE  /\ Surviving(s) \in Seq(S)
         /\ Surviving(Append(s, e)) = Shorter(Surviving(s), e)
<1> DEFINE t == Append(s, e)
           n == Len(s)
           V == Seq(S)
           F == [p \in V \X (1..Len(s)) |-> Shorter(p[1], s[p[2]])]
           G == [p \in V \X (1..Len(t)) |-> Shorter(p[1], t[p[2]])]
<1>1. /\ t \in Seq(S) /\ n \in Nat /\ Len(t) = n + 1
      /\ t[n + 1] = e /\ \A i \in 1..n : t[i] = s[i]
  BY AppendProperties
<1>2. PICK g : IsTrace(g, n, V, <<>>, F) /\ g[n] = Surviving(s)
  BY SurvivingTrace
<1> HIDE DEF t
<1>3. PICK h : IsTrace(h, n + 1, V, <<>>, G) /\ h[n + 1] = Surviving(t)
  BY <1>1, SurvivingTrace
<1>4. \A v \in V : \A k \in 1..n : Stepped(F, v, k) = Stepped(G, v, k)
  BY <1>1 DEF Stepped
<1>5. \A v \in V : Stepped(G, v, n + 1) = Shorter(v, e)
  BY <1>1 DEF Stepped
<1> HIDE DEF n, V, F, G
<1>6. g[n] \in V /\ h[n + 1] = Stepped(G, g[n], n + 1)
  BY <1>1, <1>2, <1>3, <1>4, TraceAppend
<1> QED BY <1>2, <1>3, <1>5, <1>6 DEF t, V

(***************************************************************************)
(* Without entries there is no chain.                                      *)
(***************************************************************************)
LEMMA SurvivingNone == Surviving(<<>>) = <<>>
<1>1. <<>> \in Seq({}) /\ Len(<<>>) = 0
  OBVIOUS
<1>2. PICK g : /\ IsTrace(g, Len(<<>>), Seq({}), <<>>,
                          [p \in Seq({}) \X (1..Len(<<>>)) |-> Shorter(p[1], (<<>>)[p[2]])])
               /\ g[Len(<<>>)] = Surviving(<<>>)
  BY <1>1, SurvivingTrace
<1> QED BY <1>1, <1>2 DEF IsTrace

(***************************************************************************)
(* It starts without any entry, and ends with the chain that there is.     *)
(***************************************************************************)
LEMMA ChainAtEnds ==
  ASSUME NEW S, NEW l \in Seq(S)
  PROVE  ChainAt(l, 0) = <<>> /\ ChainAt(l, Len(l)) = Surviving(l)
<1>1. SubSeq(l, 1, 0) = <<>>
  <2>1. 0 \in 0..Len(l)
    OBVIOUS
  <2>2. SubSeq(l, 1, 0) \in Seq(S) /\ Len(SubSeq(l, 1, 0)) = 0
    BY <2>1, PrefixProperties
  <2> QED BY <2>2
<1>2. SubSeq(l, 1, Len(l)) = l
  BY PrefixOfPrefix
<1> QED BY <1>1, <1>2, SurvivingNone DEF ChainAt

(***************************************************************************)
(* One entry makes the chain longer or shorter.                            *)
(***************************************************************************)
LEMMA ChainAtStep ==
  ASSUME NEW S, NEW l \in Seq(S), NEW k \in 1..Len(l)
  PROVE  /\ ChainAt(l, k - 1) \in Seq(S) /\ ChainAt(l, k) \in Seq(S)
         /\ ChainAt(l, k) = Shorter(ChainAt(l, k - 1), l[k])
<1> DEFINE t == SubSeq(l, 1, k - 1)
<1>1. t \in Seq(S) /\ l[k] \in S /\ SubSeq(l, 1, k) = Append(t, l[k])
  BY PrefixStep
<1> HIDE DEF t
<1>2. Surviving(t) \in Seq(S) /\ Surviving(Append(t, l[k])) = Shorter(Surviving(t), l[k])
  BY <1>1, SurvivingAppend
<1>3. Shorter(Surviving(t), l[k]) \in Seq(S)
  <2>1. Front(Surviving(t)) \in Seq(S)
    BY <1>2, FrontType
  <2>2. Append(Surviving(t), l[k]) \in Seq(S)
    BY <1>1, <1>2
  <2> QED BY <2>1, <2>2 DEF Shorter
<1> QED BY <1>1, <1>2, <1>3 DEF ChainAt, t

(***************************************************************************)
(* At every point it is a sequence of entries.                             *)
(***************************************************************************)
LEMMA ChainAtType ==
  ASSUME NEW S, NEW l \in Seq(S), NEW k \in 0..Len(l)
  PROVE  ChainAt(l, k) \in Seq(S)
<1>1. CASE k = 0
  <2>1. ChainAt(l, 0) = <<>> /\ <<>> \in Seq(S)
    BY ChainAtEnds
  <2> QED BY <1>1, <2>1
<1>2. CASE k # 0
  <2>1. k \in 1..Len(l)
    BY <1>2
  <2> QED BY <2>1, ChainAtStep
<1> QED BY <1>1, <1>2

(***************************************************************************)
(* One more entry at the end changes nothing of what was before.           *)
(***************************************************************************)
LEMMA ChainAtAppend ==
  ASSUME NEW S, NEW l \in Seq(S), NEW e \in S, NEW k \in 0..Len(l)
  PROVE  ChainAt(Append(l, e), k) = ChainAt(l, k)
<1>1. SubSeq(Append(l, e), 1, k) = SubSeq(l, 1, k)
  BY PrefixOfAppend
<1> QED BY <1>1 DEF ChainAt

-----------------------------------------------------------------------------
(***************************************************************************)
(* Replacing both tables.                                                  *)
(***************************************************************************)
LEMMA ReplaceTables ==
  ASSUME NEW C, NEW V, NEW d \in [current : C, version : V], NEW c, NEW v
  PROVE  [d EXCEPT !.current = c, !.version = v] = [current |-> c, version |-> v]
<1>1. [d EXCEPT !.current = c] = [current |-> c, version |-> d.version]
  OBVIOUS
<1>2. [[current |-> c, version |-> d.version] EXCEPT !.version = v]
        = [current |-> c, version |-> v]
  OBVIOUS
<1>3. [d EXCEPT !.current = c, !.version = v]
        = [[d EXCEPT !.current = c] EXCEPT !.version = v]
  OBVIOUS
<1> QED BY <1>1, <1>2, <1>3

(***************************************************************************)
(* The tables after AddVersion.                                            *)
(***************************************************************************)
LEMMA AddVersionTables ==
  ASSUME NEW Ids, NEW Rows, NEW d \in Tables(Ids, Rows), NEW id \in Ids,
         NEW tx, NEW val
  PROVE  AddVersion(d, id, tx, val) =
           [current |-> [d.current EXCEPT ![id] = d.current[id] + 1],
            version |-> Put(d.version, id, d.current[id] + 1,
                          [prev |-> d.current[id], tx |-> tx, val |-> val])]
<1> DEFINE c == [d.current EXCEPT ![id] = d.current[id] + 1]
           v == Put(d.version, id, d.current[id] + 1,
                  [prev |-> d.current[id], tx |-> tx, val |-> val])
<1>1. [d EXCEPT !.current = c, !.version = v] = [current |-> c, version |-> v]
  <2> HIDE DEF c, v
  <2> QED BY ReplaceTables DEF Tables
<1> QED BY <1>1 DEF AddVersion

(***************************************************************************)
(* The tables after DeleteLatest.                                          *)
(***************************************************************************)
LEMMA DeleteLatestTables ==
  ASSUME NEW Ids, NEW Rows, NEW d \in Tables(Ids, Rows), NEW id \in Ids
  PROVE  DeleteLatest(d, id) =
           [current |-> [d.current EXCEPT ![id] = Current(d, id).prev],
            version |-> Put(d.version, id, d.current[id], NoRow)]
<1> DEFINE c == [d.current EXCEPT ![id] = Current(d, id).prev]
           v == Put(d.version, id, d.current[id], NoRow)
<1>1. [d EXCEPT !.current = c, !.version = v] = [current |-> c, version |-> v]
  <2> HIDE DEF c, v
  <2> QED BY ReplaceTables DEF Tables
<1> QED BY <1>1 DEF DeleteLatest

-----------------------------------------------------------------------------
(***************************************************************************)
(* A new version of the right type keeps the tables of the right type,     *)
(* becomes current, and changes nothing else.                              *)
(***************************************************************************)
LEMMA AddVersionType ==
  ASSUME NEW Ids, NEW Rows, NEW d \in Tables(Ids, Rows), NEW id \in Ids,
         NEW tx, NEW val, CanAddVersion(d, id),
         [prev |-> d.current[id], tx |-> tx, val |-> val] \in Rows
  PROVE  LET e == AddVersion(d, id, tx, val)
             n == d.current[id] + 1
         IN  /\ e \in Tables(Ids, Rows)
             /\ \A j \in Ids : e.current[j] = IF j = id THEN n ELSE d.current[j]
             /\ \A j \in Ids, k \in Number :
                  e.version[j][k] =
                    IF j = id /\ k = n
                    THEN [prev |-> d.current[id], tx |-> tx, val |-> val]
                    ELSE d.version[j][k]
<1> DEFINE n == d.current[id] + 1
           row == [prev |-> d.current[id], tx |-> tx, val |-> val]
           c == [d.current EXCEPT ![id] = n]
           v == Put(d.version, id, n, row)
<1>1. /\ d.current \in [Ids -> Number \cup {Null}]
      /\ d.version \in [Ids -> [Number -> Rows \cup {NoRow}]]
      /\ n \in Number
  BY DEF Tables, CanAddVersion
<1>2. /\ c \in [Ids -> Number \cup {Null}]
      /\ \A j \in Ids : c[j] = IF j = id THEN n ELSE d.current[j]
  BY <1>1
<1>3. /\ v \in [Ids -> [Number -> Rows \cup {NoRow}]]
      /\ \A j \in Ids, k \in Number :
           v[j][k] = IF j = id /\ k = n THEN row ELSE d.version[j][k]
  <2> HIDE DEF n, row
  <2>1. row \in Rows \cup {NoRow}
    BY DEF row
  <2> QED BY <1>1, <2>1 DEF Put
<1>4. AddVersion(d, id, tx, val) = [current |-> c, version |-> v]
  BY AddVersionTables
<1> HIDE DEF c, v
<1> QED BY <1>2, <1>3, <1>4 DEF Tables

(***************************************************************************)
(* A new version extends the chain of its entity and leaves the others.    *)
(***************************************************************************)
LEMMA AddVersionChained ==
  ASSUME NEW Ids, NEW Rows, NEW d \in Tables(Ids, Rows), NEW id \in Ids,
         NEW tx, NEW val, CanAddVersion(d, id), NoRow \notin Rows,
         [prev |-> d.current[id], tx |-> tx, val |-> val] \in Rows,
         \A j \in Ids : Chained(d, j)
  PROVE  \A j \in Ids : Chained(AddVersion(d, id, tx, val), j)
<1> DEFINE n == d.current[id] + 1
           row == [prev |-> d.current[id], tx |-> tx, val |-> val]
           e == AddVersion(d, id, tx, val)
<1>1. /\ d.current \in [Ids -> Number \cup {Null}]
      /\ n \in Number
      /\ row # NoRow /\ row.prev = n - 1
  BY DEF Tables, CanAddVersion, Number, Null
<1>2. /\ \A j \in Ids : e.current[j] = IF j = id THEN n ELSE d.current[j]
      /\ \A j \in Ids, k \in Number :
           e.version[j][k] = IF j = id /\ k = n THEN row ELSE d.version[j][k]
  BY AddVersionType
<1> HIDE DEF e, row
<1> SUFFICES ASSUME NEW j \in Ids, NEW k \in Number
             PROVE  /\ (e.version[j][k] # NoRow) <=> (k <= e.current[j])
                    /\ e.version[j][k] # NoRow => e.version[j][k].prev = k - 1
  BY DEF Chained, e
<1>3. /\ (d.version[j][k] # NoRow) <=> (k <= d.current[j])
      /\ d.version[j][k] # NoRow => d.version[j][k].prev = k - 1
  BY DEF Chained
<1>4. CASE j = id /\ k = n
  BY <1>1, <1>2, <1>4 DEF Number
<1>5. CASE j = id /\ k # n
  BY <1>1, <1>2, <1>3, <1>5 DEF Number, Null
<1>6. CASE j # id
  BY <1>2, <1>3, <1>6
<1> QED BY <1>4, <1>5, <1>6

(***************************************************************************)
(* The latest version of an entity whose versions are chained can always   *)
(* be deleted: its row is found, and no other row is in the way.           *)
(***************************************************************************)
LEMMA ChainedCanDelete ==
  ASSUME NEW Ids, NEW Rows, NEW d \in Tables(Ids, Rows), NEW id \in Ids,
         Exists(d, id), Chained(d, id)
  PROVE  /\ CanDeleteLatest(d, id)
         /\ d.current[id] \in Number
         /\ Current(d, id).prev = d.current[id] - 1
<1>1. d.current[id] \in Number
  BY DEF Tables, Exists
<1>2. Current(d, id) # NoRow /\ Current(d, id).prev = d.current[id] - 1
  BY <1>1 DEF Chained, Current, Number
<1>3. ASSUME NEW n \in Number, d.version[id][n] # NoRow, n # d.current[id]
      PROVE  d.version[id][n].prev # d.current[id] /\ Current(d, id).prev # Null
  <2>1. n <= d.current[id] /\ d.version[id][n].prev = n - 1
    BY <1>3 DEF Chained
  <2> QED BY <1>1, <1>2, <1>3, <2>1 DEF Number, Null
<1> QED BY <1>1, <1>2, <1>3 DEF CanDeleteLatest

(***************************************************************************)
(* Deleting the latest version keeps the types, steps back by one, and     *)
(* changes nothing else.                                                   *)
(***************************************************************************)
LEMMA DeleteLatestType ==
  ASSUME NEW Ids, NEW Rows, NEW d \in Tables(Ids, Rows), NEW id \in Ids,
         Exists(d, id), Chained(d, id)
  PROVE  LET e == DeleteLatest(d, id)
             c == d.current[id]
         IN  /\ e \in Tables(Ids, Rows)
             /\ \A j \in Ids : e.current[j] = IF j = id THEN c - 1 ELSE d.current[j]
             /\ \A j \in Ids, k \in Number :
                  e.version[j][k] =
                    IF j = id /\ k = c THEN NoRow ELSE d.version[j][k]
<1> DEFINE n == d.current[id]
           c == [d.current EXCEPT ![id] = Current(d, id).prev]
           v == Put(d.version, id, n, NoRow)
<1>1. /\ d.current \in [Ids -> Number \cup {Null}]
      /\ d.version \in [Ids -> [Number -> Rows \cup {NoRow}]]
      /\ n \in Number /\ n - 1 \in Number \cup {Null}
      /\ Current(d, id).prev = n - 1
  <2>1. n \in Number /\ Current(d, id).prev = n - 1
    BY ChainedCanDelete
  <2>2. n - 1 \in Number \cup {Null}
    BY <2>1, MaxVersionAssumption DEF Number, Null
  <2> QED BY <2>1, <2>2 DEF Tables
<1>2. /\ c \in [Ids -> Number \cup {Null}]
      /\ \A j \in Ids : c[j] = IF j = id THEN n - 1 ELSE d.current[j]
  BY <1>1
<1>3. /\ v \in [Ids -> [Number -> Rows \cup {NoRow}]]
      /\ \A j \in Ids, k \in Number :
           v[j][k] = IF j = id /\ k = n THEN NoRow ELSE d.version[j][k]
  <2> HIDE DEF n
  <2>1. NoRow \in Rows \cup {NoRow}
    OBVIOUS
  <2> QED BY <1>1, <2>1 DEF Put
<1>4. DeleteLatest(d, id) = [current |-> c, version |-> v]
  BY DeleteLatestTables
<1> HIDE DEF c, v
<1> QED BY <1>2, <1>3, <1>4 DEF Tables

(***************************************************************************)
(* Deleting the latest version keeps every chain.                          *)
(***************************************************************************)
LEMMA DeleteLatestChained ==
  ASSUME NEW Ids, NEW Rows, NEW d \in Tables(Ids, Rows), NEW id \in Ids,
         Exists(d, id), \A j \in Ids : Chained(d, j)
  PROVE  \A j \in Ids : Chained(DeleteLatest(d, id), j)
<1> DEFINE c == d.current[id]
           e == DeleteLatest(d, id)
<1>1. /\ d.current \in [Ids -> Number \cup {Null}]
      /\ c \in Number
      /\ \A j \in Ids : e.current[j] = IF j = id THEN c - 1 ELSE d.current[j]
      /\ \A j \in Ids, k \in Number :
           e.version[j][k] = IF j = id /\ k = c THEN NoRow ELSE d.version[j][k]
  <2>1. c \in Number
    BY ChainedCanDelete
  <2>2. d.current \in [Ids -> Number \cup {Null}]
    BY DEF Tables
  <2> QED BY <2>1, <2>2, DeleteLatestType
<1> HIDE DEF e
<1> SUFFICES ASSUME NEW j \in Ids, NEW k \in Number
             PROVE  /\ (e.version[j][k] # NoRow) <=> (k <= e.current[j])
                    /\ e.version[j][k] # NoRow => e.version[j][k].prev = k - 1
  BY DEF Chained, e
<1>2. /\ (d.version[j][k] # NoRow) <=> (k <= d.current[j])
      /\ d.version[j][k] # NoRow => d.version[j][k].prev = k - 1
  BY DEF Chained
<1>3. CASE j = id
  BY <1>1, <1>2, <1>3 DEF Number
<1>4. CASE j # id
  BY <1>1, <1>2, <1>4
<1> QED BY <1>3, <1>4

(***************************************************************************)
(* Undo: deleting the latest version takes back exactly what AddVersion    *)
(* did, whatever the version held.                                         *)
(***************************************************************************)
THEOREM DeleteInvertsAdd ==
  ASSUME NEW Ids, NEW Rows, NEW d \in Tables(Ids, Rows), NEW id \in Ids,
         NEW tx, NEW val, CanAddVersion(d, id),
         [prev |-> d.current[id], tx |-> tx, val |-> val] \in Rows
  PROVE  /\ DeleteLatest(AddVersion(d, id, tx, val), id) = d
         /\ Exists(AddVersion(d, id, tx, val), id)
<1> DEFINE n == d.current[id] + 1
           row == [prev |-> d.current[id], tx |-> tx, val |-> val]
           e == AddVersion(d, id, tx, val)
           c == [e.current EXCEPT ![id] = Current(e, id).prev]
           v == Put(e.version, id, e.current[id], NoRow)
<1>1. /\ d.current \in [Ids -> Number \cup {Null}]
      /\ d.version \in [Ids -> [Number -> Rows \cup {NoRow}]]
      /\ d = [current |-> d.current, version |-> d.version]
      /\ n \in Number /\ d.version[id][n] = NoRow
  BY DEF Tables, CanAddVersion
<1>2. /\ e \in Tables(Ids, Rows)
      /\ \A j \in Ids : e.current[j] = IF j = id THEN n ELSE d.current[j]
      /\ \A j \in Ids, k \in Number :
           e.version[j][k] = IF j = id /\ k = n THEN row ELSE d.version[j][k]
  BY AddVersionType
<1>3. DeleteLatest(e, id) = [current |-> c, version |-> v]
  BY <1>2, DeleteLatestTables
<1>4. e.current[id] = n /\ Current(e, id).prev = d.current[id]
  BY <1>1, <1>2 DEF Current
<1>5. e.current \in [Ids -> Number \cup {Null}]
      /\ e.version \in [Ids -> [Number -> Rows \cup {NoRow}]]
  BY <1>2 DEF Tables
<1> HIDE DEF e, row, n
<1>6. c = d.current
  BY <1>1, <1>2, <1>4, <1>5
<1>7. v = d.version
  <2>1. /\ v \in [Ids -> [Number -> Rows \cup {NoRow}]]
        /\ \A j \in Ids, k \in Number :
             v[j][k] = IF j = id /\ k = n THEN NoRow ELSE e.version[j][k]
    <3>1. NoRow \in Rows \cup {NoRow}
      OBVIOUS
    <3> QED BY <1>1, <1>4, <1>5, <3>1 DEF Put
  <2>2. \A j \in Ids, k \in Number : v[j][k] = d.version[j][k]
    BY <1>1, <1>2, <2>1
  <2>3. \A j \in Ids : v[j] = d.version[j]
    <3> HIDE DEF v
    <3> TAKE j \in Ids
    <3>1. v[j] \in [Number -> Rows \cup {NoRow}]
          /\ d.version[j] \in [Number -> Rows \cup {NoRow}]
      BY <1>1, <2>1
    <3> QED BY <2>2, <3>1
  <2> HIDE DEF v
  <2> QED BY <1>1, <2>1, <2>3
<1>8. Exists(e, id)
  BY <1>1, <1>4 DEF Exists, Number, Null
<1> QED BY <1>1, <1>3, <1>6, <1>7, <1>8 DEF e

-----------------------------------------------------------------------------
(***************************************************************************)
(* The tables after an operation on each of several entities.              *)
(***************************************************************************)

\* The tables e are those of d without the latest version of each id of S.
DeletedEach(e, d, Ids, Rows, S) ==
  /\ e \in Tables(Ids, Rows)
  /\ \A j \in Ids : Chained(e, j)
  /\ \A j \in Ids : e.current[j] = IF j \in S THEN d.current[j] - 1 ELSE d.current[j]
  /\ \A j \in Ids, k \in Number :
       e.version[j][k] = IF j \in S /\ k = d.current[j] THEN NoRow ELSE d.version[j][k]

(***************************************************************************)
(* Deleting the latest version of several entities.                        *)
(***************************************************************************)
LEMMA DeleteEach ==
  ASSUME NEW Ids, NEW Rows, NEW d \in Tables(Ids, Rows), NEW S \in SUBSET Ids,
         \A j \in Ids : Chained(d, j), \A j \in S : Exists(d, j)
  PROVE  DeletedEach(OnEach(DeleteLatest, d, S), d, Ids, Rows, S)
<1> DEFINE e == OnEach(DeleteLatest, d, S)
           c == [j \in Ids |-> IF j \in S THEN DeleteLatest(d, j).current[j] ELSE d.current[j]]
           v == [j \in Ids |-> IF j \in S THEN DeleteLatest(d, j).version[j] ELSE d.version[j]]
<1>1. /\ d.current \in [Ids -> Number \cup {Null}]
      /\ d.version \in [Ids -> [Number -> Rows \cup {NoRow}]]
      /\ DOMAIN d.current = Ids /\ DOMAIN d.version = Ids
  BY DEF Tables
<1>2. e = [current |-> c, version |-> v]
  BY <1>1 DEF OnEach
<1>3. ASSUME NEW j \in S
      PROVE  /\ DeleteLatest(d, j) \in Tables(Ids, Rows)
             /\ DeleteLatest(d, j).current[j] = d.current[j] - 1
             /\ \A k \in Number :
                  DeleteLatest(d, j).version[j][k] =
                    IF k = d.current[j] THEN NoRow ELSE d.version[j][k]
  <2>1. j \in Ids /\ Exists(d, j) /\ Chained(d, j)
    OBVIOUS
  <2> QED BY <2>1, DeleteLatestType
<1>4. \A j \in S : /\ DeleteLatest(d, j).current[j] \in Number \cup {Null}
                   /\ DeleteLatest(d, j).version[j] \in [Number -> Rows \cup {NoRow}]
  BY <1>3 DEF Tables
<1>5. c \in [Ids -> Number \cup {Null}] /\ v \in [Ids -> [Number -> Rows \cup {NoRow}]]
  BY <1>1, <1>4
<1>6. e \in Tables(Ids, Rows)
  <2> HIDE DEF e, c, v
  <2> QED BY <1>2, <1>5 DEF Tables
<1>7. \A j \in Ids : e.current[j] = IF j \in S THEN d.current[j] - 1 ELSE d.current[j]
  <2> HIDE DEF e
  <2> QED BY <1>2, <1>3
<1>8. \A j \in Ids, k \in Number :
        e.version[j][k] = IF j \in S /\ k = d.current[j] THEN NoRow ELSE d.version[j][k]
  <2> HIDE DEF e
  <2> QED BY <1>2, <1>3
<1> HIDE DEF e, c, v
<1>9. ASSUME NEW j \in Ids, NEW k \in Number
      PROVE  /\ (e.version[j][k] # NoRow) <=> (k <= e.current[j])
             /\ e.version[j][k] # NoRow => e.version[j][k].prev = k - 1
  <2>1. /\ (d.version[j][k] # NoRow) <=> (k <= d.current[j])
        /\ d.version[j][k] # NoRow => d.version[j][k].prev = k - 1
    BY DEF Chained
  <2>2. d.current[j] \in Int /\ k \in Int
    BY <1>1 DEF Number, Null
  <2> QED BY <1>7, <1>8, <2>1, <2>2
<1>10. \A j \in Ids : Chained(e, j)
  BY <1>9 DEF Chained
<1> QED BY <1>6, <1>7, <1>8, <1>10 DEF DeletedEach, e

\* The tables e are those of d with one more version of each id of S.
AddedEach(e, d, Ids, Rows, S, tx, val) ==
  /\ e \in Tables(Ids, Rows)
  /\ \A j \in Ids : Chained(e, j)
  /\ \A j \in Ids : e.current[j] = IF j \in S THEN d.current[j] + 1 ELSE d.current[j]
  /\ \A j \in Ids, k \in Number :
       e.version[j][k] =
         IF j \in S /\ k = d.current[j] + 1
         THEN [prev |-> d.current[j], tx |-> tx, val |-> val] ELSE d.version[j][k]

(***************************************************************************)
(* Adding a version to several entities.                                   *)
(***************************************************************************)
LEMMA AddEach ==
  ASSUME NEW Ids, NEW Rows, NEW d \in Tables(Ids, Rows), NEW S \in SUBSET Ids,
         NEW tx, NEW val, NoRow \notin Rows,
         \A j \in Ids : Chained(d, j), \A j \in S : CanAddVersion(d, j),
         \A n \in Number \cup {Null} : [prev |-> n, tx |-> tx, val |-> val] \in Rows
  PROVE  AddedEach(OnEach(LAMBDA x, j : AddVersion(x, j, tx, val), d, S),
                   d, Ids, Rows, S, tx, val)
<1> DEFINE Add(j) == AddVersion(d, j, tx, val)
           e == OnEach(LAMBDA x, j : AddVersion(x, j, tx, val), d, S)
           c == [j \in Ids |-> IF j \in S THEN Add(j).current[j] ELSE d.current[j]]
           v == [j \in Ids |-> IF j \in S THEN Add(j).version[j] ELSE d.version[j]]
           row(j) == [prev |-> d.current[j], tx |-> tx, val |-> val]
<1>1. /\ d.current \in [Ids -> Number \cup {Null}]
      /\ d.version \in [Ids -> [Number -> Rows \cup {NoRow}]]
      /\ DOMAIN d.current = Ids /\ DOMAIN d.version = Ids
  BY DEF Tables
<1>2. e = [current |-> c, version |-> v]
  BY <1>1 DEF OnEach
<1>3. ASSUME NEW j \in S
      PROVE  /\ Add(j) \in Tables(Ids, Rows)
             /\ Add(j).current[j] = d.current[j] + 1
             /\ \A k \in Number :
                  Add(j).version[j][k] =
                    IF k = d.current[j] + 1 THEN row(j) ELSE d.version[j][k]
             /\ row(j) \in Rows
  <2>1. j \in Ids /\ CanAddVersion(d, j) /\ row(j) \in Rows
    BY <1>1
  <2> QED BY <2>1, AddVersionType
<1> HIDE DEF Add, row
<1>4. \A j \in S : /\ Add(j).current[j] \in Number \cup {Null}
                   /\ Add(j).version[j] \in [Number -> Rows \cup {NoRow}]
  BY <1>3 DEF Tables
<1>5. c \in [Ids -> Number \cup {Null}] /\ v \in [Ids -> [Number -> Rows \cup {NoRow}]]
  BY <1>1, <1>4
<1>6. e \in Tables(Ids, Rows)
  <2> HIDE DEF e, c, v
  <2> QED BY <1>2, <1>5 DEF Tables
<1>7. \A j \in Ids : e.current[j] = IF j \in S THEN d.current[j] + 1 ELSE d.current[j]
  <2> HIDE DEF e
  <2> QED BY <1>2, <1>3
<1>8. \A j \in Ids, k \in Number :
        e.version[j][k] = IF j \in S /\ k = d.current[j] + 1 THEN row(j) ELSE d.version[j][k]
  <2> HIDE DEF e
  <2> QED BY <1>2, <1>3
<1> HIDE DEF e, c, v
<1>9. ASSUME NEW j \in Ids, NEW k \in Number
      PROVE  /\ (e.version[j][k] # NoRow) <=> (k <= e.current[j])
             /\ e.version[j][k] # NoRow => e.version[j][k].prev = k - 1
  <2>1. /\ (d.version[j][k] # NoRow) <=> (k <= d.current[j])
        /\ d.version[j][k] # NoRow => d.version[j][k].prev = k - 1
    BY DEF Chained
  <2>2. d.current[j] \in Int /\ k \in Int
    BY <1>1 DEF Number, Null
  <2>3. j \in S => row(j) # NoRow
    BY <1>3
  <2>4. row(j).prev = d.current[j]
    BY DEF row
  <2> QED BY <1>7, <1>8, <2>1, <2>2, <2>3, <2>4
<1>10. \A j \in Ids : Chained(e, j)
  BY <1>9 DEF Chained
<1> QED BY <1>6, <1>7, <1>8, <1>10 DEF AddedEach, e, row

=============================================================================
