----------------------------- MODULE DataLemmas ------------------------------
(***************************************************************************)
(* What the proofs need to know of data.  Sequences as queues: what is     *)
(* left when an entry is taken out, and what is there when one is put in   *)
(* or some are moved.  Loops, which the models write as recursive          *)
(* functions: that they have their states and keep their invariants.       *)
(***************************************************************************)
EXTENDS Integers, Sequences, FiniteSets, SequencesExt, SequenceTheorems,
        WellFoundedInduction, TLAPS

\* A function on 1..n is a sequence.
LEMMA FunctionSeq ==
  ASSUME NEW S, NEW n \in Nat, NEW f \in [1..n -> S]
  PROVE  f \in Seq(S) /\ Len(f) = n
<1>1. f \in Seq(S)
  BY SeqDef
<1>2. Len(f) \in Nat /\ 1..Len(f) = 1..n
  BY <1>1, LenProperties
<1> QED BY <1>1, <1>2

\* A queue without its entry at m, place by place.
LEMMA RemoveAtSeq ==
  ASSUME NEW S, NEW t \in Seq(S), NEW m \in 1..Len(t)
  PROVE  /\ RemoveAt(t, m) \in Seq(S)
         /\ Len(RemoveAt(t, m)) = Len(t) - 1
         /\ \A j \in 1..(Len(t) - 1) :
              RemoveAt(t, m)[j] = IF j < m THEN t[j] ELSE t[j + 1]
<1> DEFINE a == SubSeq(t, 1, m - 1)
           b == SubSeq(t, m + 1, Len(t))
<1>1. /\ a \in Seq(S) /\ Len(a) = m - 1
      /\ \A j \in 1..(m - 1) : a[j] = t[j]
  BY SubSeqProperties
<1>2. /\ b \in Seq(S) /\ Len(b) = Len(t) - m
      /\ \A j \in 1..(Len(t) - m) : b[j] = t[m + j]
  BY SubSeqProperties
<1> HIDE DEF a, b
<1>3. a \o b \in Seq(S) /\ Len(a \o b) = Len(t) - 1
  <2>1. a \o b \in Seq(S) /\ Len(a \o b) = Len(a) + Len(b)
    BY <1>1, <1>2, ConcatProperties
  <2>2. Len(t) \in Nat
    BY LenProperties
  <2> QED BY <2>1, <2>2, <1>1, <1>2
<1>4. \A j \in 1..(Len(t) - 1) : (a \o b)[j] = IF j < m THEN t[j] ELSE t[j + 1]
  BY <1>1, <1>2
<1>5. RemoveAt(t, m) = a \o b
  BY DEF RemoveAt, a, b
<1> QED BY <1>3, <1>4, <1>5

\* r has every entry of t but the one at m, and different entries of r are
\* different entries of t.
AllBut(r, t, m) ==
  /\ \A i \in DOMAIN r : \E k \in DOMAIN t \ {m} : r[i] = t[k]
  /\ \A i, j \in DOMAIN r : i # j =>
       \E k, l \in DOMAIN t \ {m} : k # l /\ r[i] = t[k] /\ r[j] = t[l]
  /\ \A k \in DOMAIN t \ {m} : \E i \in DOMAIN r : r[i] = t[k]

\* What ngx_queue_remove leaves in a queue.
LEMMA RemoveAtEntries ==
  ASSUME NEW S, NEW t \in Seq(S), NEW m \in 1..Len(t)
  PROVE  AllBut(RemoveAt(t, m), t, m)
<1> DEFINE r == RemoveAt(t, m)
           Old(i) == IF i < m THEN i ELSE i + 1
           New(k) == IF k < m THEN k ELSE k - 1
<1>1. /\ r \in Seq(S) /\ Len(r) = Len(t) - 1
      /\ \A j \in 1..(Len(t) - 1) : r[j] = IF j < m THEN t[j] ELSE t[j + 1]
  BY RemoveAtSeq
<1>2. Len(t) \in Nat /\ DOMAIN t = 1..Len(t) /\ DOMAIN r = 1..(Len(t) - 1)
  BY <1>1, LenProperties
<1> HIDE DEF r
<1>3. \A i \in DOMAIN r : Old(i) \in DOMAIN t \ {m} /\ r[i] = t[Old(i)]
  BY <1>1, <1>2
<1>4. \A i, j \in DOMAIN r : i # j => Old(i) # Old(j)
  BY <1>2
<1>5. \A k \in DOMAIN t \ {m} : New(k) \in DOMAIN r /\ r[New(k)] = t[k]
  BY <1>1, <1>2
<1> HIDE DEF Old, New
<1>6. AllBut(r, t, m)
  BY <1>3, <1>4, <1>5 DEF AllBut
<1> QED BY <1>6 DEF r

\* An entry put in at the head.
LEMMA ConsSeq ==
  ASSUME NEW S, NEW t \in Seq(S), NEW x \in S
  PROVE  /\ <<x>> \o t \in Seq(S)
         /\ Len(<<x>> \o t) = Len(t) + 1
         /\ (<<x>> \o t)[1] = x
         /\ \A i \in 1..Len(t) : (<<x>> \o t)[i + 1] = t[i]
         /\ \A i \in 1..(Len(t) + 1) : i # 1 => (<<x>> \o t)[i] = t[i - 1]
         /\ ToSet(<<x>> \o t) = ToSet(t) \cup {x}
         /\ IsInjective(t) /\ x \notin ToSet(t) => IsInjective(<<x>> \o t)
<1> DEFINE r == <<x>> \o t
<1>1. /\ r \in Seq(S) /\ Len(r) = Len(t) + 1 /\ r[1] = x
      /\ \A i \in 1..(Len(t) + 1) : i # 1 => r[i] = t[i - 1]
  BY ConcatProperties
<1>2. Len(t) \in Nat /\ DOMAIN t = 1..Len(t) /\ DOMAIN r = 1..(Len(t) + 1)
  BY <1>1, LenProperties
<1> HIDE DEF r
<1>3. \A i \in 1..Len(t) : r[i + 1] = t[i]
  BY <1>1, <1>2
<1>4. ToSet(r) = ToSet(t) \cup {x}
  <2>1. ASSUME NEW y \in ToSet(r) PROVE y \in ToSet(t) \cup {x}
    <3>1. PICK i \in 1..(Len(t) + 1) : y = r[i]
      BY <1>2 DEF ToSet
    <3>2. CASE i # 1
      <4>1. i - 1 \in DOMAIN t /\ y = t[i - 1]
        BY <1>1, <1>2, <3>1, <3>2
      <4> QED BY <4>1 DEF ToSet
    <3> QED BY <1>1, <3>1, <3>2
  <2>2. x \in ToSet(r)
    <3>1. 1 \in DOMAIN r
      BY <1>2
    <3> QED BY <1>1, <3>1 DEF ToSet
  <2>3. ASSUME NEW y \in ToSet(t) PROVE y \in ToSet(r)
    <3>1. PICK i \in 1..Len(t) : y = t[i]
      BY <1>2 DEF ToSet
    <3>2. i + 1 \in DOMAIN r /\ r[i + 1] = y
      BY <1>2, <1>3, <3>1
    <3> QED BY <3>2 DEF ToSet
  <2> QED BY <2>1, <2>2, <2>3
<1>5. ASSUME IsInjective(t), x \notin ToSet(t) PROVE IsInjective(r)
  <2> SUFFICES ASSUME NEW i \in DOMAIN r, NEW j \in DOMAIN r, r[i] = r[j] PROVE i = j
    BY DEF IsInjective
  <2>1. \A k \in DOMAIN t : t[k] # x
    BY <1>5 DEF ToSet
  <2>2. CASE i = 1 \/ j = 1
    BY <1>1, <1>2, <2>1, <2>2, SMTT(60)
  <2>3. CASE i # 1 /\ j # 1
    <3>1. i - 1 \in DOMAIN t /\ j - 1 \in DOMAIN t /\ t[i - 1] = t[j - 1]
      BY <1>1, <1>2, <2>3
    <3>2. i - 1 = j - 1
      BY <1>5, <3>1 DEF IsInjective
    <3> QED BY <1>2, <3>2
  <2> QED BY <2>2, <2>3
<1> QED BY <1>1, <1>3, <1>4, <1>5 DEF r

\* The head of a queue is taken out.
LEMMA TailSeq ==
  ASSUME NEW S, NEW t \in Seq(S), t # <<>>
  PROVE  /\ Tail(t) \in Seq(S) /\ Head(t) \in S /\ Head(t) = t[1]
         /\ Len(t) \in Nat \ {0} /\ Len(Tail(t)) = Len(t) - 1
         /\ \A i \in 1..(Len(t) - 1) : Tail(t)[i] = t[i + 1]
         /\ Head(t) \in ToSet(t)
         /\ IsInjective(t) => /\ IsInjective(Tail(t))
                              /\ ToSet(Tail(t)) = ToSet(t) \ {Head(t)}
<1> DEFINE r == Tail(t)
<1>1. /\ r \in Seq(S) /\ Len(r) = Len(t) - 1
      /\ \A n \in 1..(Len(t) - 1) : r[n] = t[n + 1]
      /\ Len(t) \in Nat \ {0} /\ Head(t) = t[1]
      /\ DOMAIN t = 1..Len(t) /\ DOMAIN r = 1..(Len(t) - 1)
  BY HeadTailProperties, LenProperties, EmptySeq
<1> HIDE DEF r
<1>2. Head(t) \in ToSet(t) /\ Head(t) \in S
  BY <1>1, ElementOfSeq DEF ToSet
<1>3. ASSUME IsInjective(t) PROVE IsInjective(r)
  <2> SUFFICES ASSUME NEW i \in DOMAIN r, NEW j \in DOMAIN r, r[i] = r[j] PROVE i = j
    BY DEF IsInjective
  <2>1. i + 1 \in DOMAIN t /\ j + 1 \in DOMAIN t /\ t[i + 1] = t[j + 1]
    BY <1>1
  <2>2. i + 1 = j + 1
    BY <1>3, <2>1 DEF IsInjective
  <2> QED BY <1>1, <2>2
<1>4. ASSUME IsInjective(t) PROVE ToSet(r) = ToSet(t) \ {Head(t)}
  <2>1. ASSUME NEW x \in ToSet(r) PROVE x \in ToSet(t) \ {Head(t)}
    <3>1. PICK n \in 1..(Len(t) - 1) : x = r[n]
      BY <1>1 DEF ToSet
    <3>2. x = t[n + 1] /\ n + 1 \in DOMAIN t /\ n + 1 # 1 /\ 1 \in DOMAIN t
      BY <1>1, <3>1
    <3> QED BY <1>1, <1>4, <3>2 DEF ToSet, IsInjective
  <2>2. ASSUME NEW x \in ToSet(t) \ {Head(t)} PROVE x \in ToSet(r)
    <3>1. PICK n \in 1..Len(t) : x = t[n]
      BY DEF ToSet
    <3>2. n - 1 \in DOMAIN r /\ r[n - 1] = x
      BY <1>1, <3>1
    <3> QED BY <3>2 DEF ToSet
  <2> QED BY <2>1, <2>2
<1> QED BY <1>1, <1>2, <1>3, <1>4 DEF r

\* An entry is taken out of a queue that has each entry once.
LEMMA RemoveAtSet ==
  ASSUME NEW S, NEW t \in Seq(S), IsInjective(t), NEW m \in 1..Len(t)
  PROVE  /\ RemoveAt(t, m) \in Seq(S) /\ IsInjective(RemoveAt(t, m))
         /\ ToSet(RemoveAt(t, m)) = ToSet(t) \ {t[m]}
<1> DEFINE r == RemoveAt(t, m)
<1>1. r \in Seq(S) /\ AllBut(r, t, m)
  BY RemoveAtSeq, RemoveAtEntries
<1>2. m \in DOMAIN t
  BY LenProperties
<1> HIDE DEF r
<1>3. IsInjective(r)
  BY <1>1 DEF IsInjective, AllBut
<1>4. ToSet(r) \subseteq ToSet(t) \ {t[m]}
  BY <1>1, <1>2 DEF ToSet, IsInjective, AllBut
<1>5. ToSet(t) \ {t[m]} \subseteq ToSet(r)
  BY <1>1 DEF ToSet, AllBut
<1> QED BY <1>1, <1>3, <1>4, <1>5 DEF r

\* The entries after the first k are moved to the head.
LEMMA RotateSeq ==
  ASSUME NEW S, NEW t \in Seq(S), IsInjective(t), NEW k \in 0..Len(t)
  PROVE  LET a == SubSeq(t, 1, k)
             b == SubSeq(t, k + 1, Len(t))
         IN  /\ b \o a \in Seq(S) /\ IsInjective(b \o a)
             /\ ToSet(b \o a) = ToSet(t)
             /\ a # <<>> => Last(a) \in ToSet(t)
<1> DEFINE a == SubSeq(t, 1, k)
           b == SubSeq(t, k + 1, Len(t))
           r == b \o a
           j == Len(t) - k
           Old(i) == IF i <= j THEN i + k ELSE i - j
           New(i) == IF i > k THEN i - k ELSE i + j
<1>1. /\ Len(t) \in Nat /\ DOMAIN t = 1..Len(t) /\ k \in Nat /\ j \in Nat
      /\ j + k = Len(t)
  BY LenProperties
<1>2. a \in Seq(S) /\ Len(a) = k /\ \A i \in 1..k : a[i] = t[i]
  BY SubSeqProperties
<1>3. b \in Seq(S) /\ Len(b) = j /\ \A i \in 1..j : b[i] = t[k + i]
  BY SubSeqProperties
<1> HIDE DEF a, b, j
<1>4. /\ r \in Seq(S) /\ Len(r) = j + k
      /\ \A i \in 1..(j + k) : r[i] = IF i <= j THEN b[i] ELSE a[i - j]
  BY <1>1, <1>2, <1>3, ConcatProperties
<1>5. DOMAIN r = 1..Len(t)
  BY <1>1, <1>4, LenProperties
<1> HIDE DEF r
<1>6. \A i \in 1..Len(t) : Old(i) \in 1..Len(t) /\ r[i] = t[Old(i)]
  <2> TAKE i \in 1..Len(t)
  <2>1. CASE i <= j
    BY <1>1, <1>3, <1>4, <2>1
  <2>2. CASE ~(i <= j)
    <3>1. i - j \in 1..k /\ i \in 1..(j + k)
      BY <1>1, <2>2
    <3> QED BY <1>1, <1>2, <1>4, <2>2, <3>1
  <2> QED BY <2>1, <2>2
<1>7. \A i, l \in 1..Len(t) : Old(i) = Old(l) => i = l
  BY <1>1
<1>8. \A i \in 1..Len(t) : New(i) \in 1..Len(t) /\ r[New(i)] = t[i]
  <2> TAKE i \in 1..Len(t)
  <2>1. New(i) \in 1..Len(t) /\ Old(New(i)) = i
    BY <1>1
  <2> QED BY <1>6, <2>1, SMTT(60)
<1>9. a # <<>> => Last(a) \in ToSet(t)
  <2> SUFFICES ASSUME a # <<>> PROVE Last(a) \in ToSet(t)
    OBVIOUS
  <2>1. k \in 1..Len(t)
    BY <1>1, <1>2, EmptySeq
  <2>2. Last(a) = t[k]
    BY <1>2, <2>1 DEF Last
  <2> QED BY <1>1, <2>1, <2>2 DEF ToSet
<1> HIDE DEF Old, New
<1>10. IsInjective(r)
  <2> SUFFICES ASSUME NEW i \in 1..Len(t), NEW l \in 1..Len(t), r[i] = r[l] PROVE i = l
    BY <1>5 DEF IsInjective
  <2>1. Old(i) = Old(l)
    BY <1>1, <1>6 DEF IsInjective
  <2> QED BY <1>7, <2>1
<1>11. ToSet(r) = ToSet(t)
  <2>1. ToSet(r) = {r[i] : i \in 1..Len(t)} /\ ToSet(t) = {t[i] : i \in 1..Len(t)}
    BY <1>1, <1>5 DEF ToSet
  <2> QED BY <1>6, <1>8, <2>1, ZenonT(60)
<1> QED BY <1>4, <1>9, <1>10, <1>11 DEF r, a, b

------------------------------------------------------------------------------
(* Loops                                                                   *)

\* A set of numbers that is not empty has a minimal one ...
LEMMA MinimalOf ==
  ASSUME NEW R, IsWellFoundedOn(R, Nat), NEW T, T \subseteq Nat, T # {}
  PROVE  \E x \in T : \A y \in T : ~ (<<y, x>> \in R)
BY WFMin, ZenonT(60)

\* ... and a smallest one, by a relation that
\* is well founded and contains "less than" ...
LEMMA MinOf ==
  ASSUME NEW R, IsWellFoundedOn(R, Nat), \A x, y \in Nat : x < y => <<x, y>> \in R,
         NEW T, T \subseteq Nat, T # {}
  PROVE  \E n \in T : \A m \in T : n <= m
<1>1. \E x \in T : \A y \in T : ~ (<<y, x>> \in R)  BY MinimalOf, ZenonT(60)
<1>2. PICK n \in T : \A m \in T : ~ (<<m, n>> \in R)  BY <1>1, Zenon
<1>3. ASSUME NEW m \in T PROVE n <= m
  <2>1. ~(m < n)  BY <1>2, Zenon
  <2>2. m \in Nat /\ n \in Nat  BY Zenon
  <2> QED BY <2>1, <2>2
<1> QED BY <1>3

\* ... of which there is one.
LEMMA LessThan == \E R : IsWellFoundedOn(R, Nat) /\ \A x, y \in Nat : x < y => <<x, y>> \in R
<1> DEFINE R == OpToRel(<, Nat)
<1>1. IsWellFoundedOn(R, Nat)  BY NatLessThanWellFounded, Zenon
<1>2. \A x, y \in Nat : x < y => <<x, y>> \in R  BY DEF OpToRel
<1> QED BY <1>1, <1>2, Zenon

\* The smallest member.
LEMMA SmallestOf ==
  ASSUME NEW T, T \subseteq Nat, T # {}
  PROVE  \E n \in T : \A m \in T : n <= m
BY LessThan, MinOf, Zenon

\* A set of numbers that has 0 and the successor of each member has them all.
LEMMA SetInduction ==
  ASSUME NEW S, 0 \in S, \A n \in Nat : n \in S => n + 1 \in S
  PROVE  Nat \subseteq S
<1> DEFINE T == Nat \ S
<1>1. SUFFICES ASSUME T # {} PROVE FALSE  OBVIOUS
<1>2. PICK n \in T : \A m \in T : n <= m
  <2>1. T \subseteq Nat  OBVIOUS
  <2> HIDE DEF T
  <2> QED BY <1>1, <2>1, SmallestOf
<1>3. n \in Nat /\ n # 0  BY <1>2
<1>4. n - 1 \in Nat /\ n - 1 \notin T  BY <1>2, <1>3
<1>5. n - 1 + 1 \in S  BY <1>4
<1> QED BY <1>3, <1>2, <1>5

\* What holds of the state before a loop, and after each turn if it did before
\* the turn, holds all the way.
LEMMA LoopInvariant ==
  ASSUME NEW N \in Nat, NEW f, NEW T, f[0] \in T[0],
         \A n \in 1..N : f[n-1] \in T[n-1] => f[n] \in T[n]
  PROVE  \A n \in 0..N : f[n] \in T[n]
<1> DEFINE S == {n \in Nat : n <= N => f[n] \in T[n]}
<1>1. 0 \in S  OBVIOUS
<1>2. ASSUME NEW n \in Nat, n \in S PROVE n + 1 \in S
  <2>1. CASE n + 1 \in 1..N
    <3>1. f[(n+1)-1] \in T[(n+1)-1]  BY <1>2, <2>1
    <3> QED BY <3>1, <2>1
  <2> QED BY <2>1
<1> HIDE DEF S
<1>3. Nat \subseteq S  BY <1>1, <1>2, SetInduction
<1> QED BY <1>3 DEF S

\* f is the sequence of the states of a loop of N turns within the set S.
IsLoop(f, N, S, a, g) ==
  f \in [0..N -> S] /\ f[0] = a /\ \A n \in 1..N : f[n] = g[n][f[n - 1]]

\* A loop whose turns stay within a set has its states.
LEMMA LoopExists ==
  ASSUME NEW N \in Nat, NEW S, NEW a \in S, NEW g \in [1..N -> [S -> S]]
  PROVE  \E f : IsLoop(f, N, S, a, g)
<1> DEFINE Upto(f, k) == /\ f \in [0..k -> S] /\ f[0] = a
                         /\ \A n \in 1..k : f[n] = g[n][f[n-1]]
           T == {k \in Nat : k <= N => \E f : Upto(f, k)}
<1>1. 0 \in T
  <2>1. Upto([n \in 0..0 |-> a], 0)  OBVIOUS
  <2> QED BY <2>1
<1>2. ASSUME NEW k \in Nat, k \in T PROVE k + 1 \in T
  <2>1. SUFFICES ASSUME k + 1 <= N PROVE \E f : Upto(f, k + 1)  OBVIOUS
  <2>2. PICK f : Upto(f, k)  BY <1>2, <2>1
  <2> DEFINE h == [n \in 0..(k+1) |-> IF n = k + 1 THEN g[k+1][f[k]] ELSE f[n]]
  <2>3. f[k] \in S /\ k + 1 \in 1..N  BY <2>1, <2>2
  <2>4. g[k+1][f[k]] \in S  BY <2>3
  <2>5. h \in [0..(k+1) -> S]  BY <2>2, <2>4
  <2>6. h[0] = a  BY <2>2
  <2>7. ASSUME NEW n \in 1..(k+1) PROVE h[n] = g[n][h[n-1]]
    <3>1. CASE n = k + 1
      <4>1. h[n-1] = f[k]  BY <3>1
      <4>2. h[n] = g[k+1][f[k]]  BY <3>1
      <4> QED BY <3>1, <4>1, <4>2
    <3>2. CASE n # k + 1
      <4>1. h[n] = f[n] /\ h[n-1] = f[n-1]  BY <3>2
      <4> QED BY <3>2, <4>1, <2>2
    <3> QED BY <3>1, <3>2
  <2> HIDE DEF h
  <2>8. Upto(h, k + 1)  BY <2>5, <2>6, <2>7
  <2> QED BY <2>8
<1> HIDE DEF T
<1>3. N \in T  BY <1>1, <1>2, SetInduction
<1>4. PICK f : Upto(f, N)  BY <1>3 DEF T
<1>5. IsLoop(f, N, S, a, g)  BY <1>4 DEF IsLoop
<1> QED BY <1>5
==============================================================================
