----------------------------- MODULE TimersProofs ----------------------------
(***************************************************************************)
(* Proofs about the timers for any number of events, any width of          *)
(* ngx_msec_t, any lazy delay and any set of timeouts that, with the lazy  *)
(* delay and the longest turn of the loop, stay below half the range.      *)
(***************************************************************************)
EXTENDS Timers, DataLemmas

(***************************************************************************)
(* The inductive invariant.  A key is read back to the time it stands for  *)
(* (KeyTime), the one within reach of when the event asked to be woken.    *)
(* While no comparison has overflowed, the times of all keys lie in a      *)
(* window of less than half the range around the present (Window), so that *)
(* the comparisons of the code are those of the times, and the tree is in  *)
(* the order of the times (Sorted).  Once the expired timers have been     *)
(* run, and until the next wait is over, no time is past (NonePast).       *)
(***************************************************************************)
Offset(e)  == Signed(Wrap(key[e] - Wrap(due[e])))
KeyTime(e) == due[e] + Offset(e)

KeysNear == \A e \in TimerSet : AbsDiff(key[e], Wrap(due[e])) < LazyDelay

Window ==
  ~ub => \A e \in TimerSet : /\ time - MaxStep <= KeyTime(e)
                             /\ KeyTime(e) + LazyDelay + MaxStep < time + Half

Sorted ==
  ~ub => \A i, j \in DOMAIN tree : i < j => KeyTime(tree[i]) <= KeyTime(tree[j])

NonePast ==
  ~ub /\ pc \in {"posted", "find", "wait"} =>
    \A e \in TimerSet : time <= KeyTime(e)

IInv ==
  TypeOK /\ KeysNear /\ Window /\ Sorted /\ NonePast /\ NotEarly /\ NotOverslept

-----------------------------------------------------------------------------
(* Arithmetic modulo the range of ngx_msec_t.                              *)

\* A multiple of m that is less than m away from 0 is 0.
LEMMA MultipleInside ==
  ASSUME NEW m \in Nat \ {0}, NEW q \in Int, -m < m * q, m * q < m
  PROVE  q = 0
<1>1. CASE q >= 1
  <2>1. m * q >= m
    BY <1>1
  <2> QED BY <2>1
<1>2. CASE q <= -1
  <2>1. m * q <= -m
    BY <1>2
  <2> QED BY <2>1
<1> QED BY <1>1, <1>2

\* The range of ngx_msec_t.
LEMMA ModulusType == Modulus \in Nat \ {0} /\ Modulus = 2 * Half /\ Half \in Nat \ {0}
  BY TimersAssumption DEF Modulus

\* Multiples of the range.
LEMMA Multiples ==
  ASSUME NEW p \in Int, NEW q \in Int
  PROVE  /\ Modulus * p \in Int /\ Modulus * (p - q) = Modulus * p - Modulus * q
         /\ Modulus * (p + q) = Modulus * p + Modulus * q
  BY ModulusType

\* What the wrap of an unsigned number does.
LEMMA WrapDef ==
  ASSUME NEW n \in Int
  PROVE  /\ Wrap(n) \in Int /\ Wrap(n) \in 0..(Modulus - 1)
         /\ \E q \in Int : n = Wrap(n) + Modulus * q
<1>1. Modulus \in Nat \ {0}
  BY ModulusType
<1>2. /\ n % Modulus \in 0..(Modulus - 1)
      /\ n = Modulus * (n \div Modulus) + (n % Modulus)
      /\ n \div Modulus \in Int
  BY <1>1
<1>3. n = Wrap(n) + Modulus * (n \div Modulus)
  BY <1>1, <1>2 DEF Wrap
<1> QED BY <1>2, <1>3 DEF Wrap

\* Two numbers less than Modulus apart that differ by a multiple of it.
LEMMA Unique ==
  ASSUME NEW a \in Int, NEW b \in Int, NEW q \in Int, a = b + Modulus * q,
         -Modulus < a - b, a - b < Modulus
  PROVE  a = b
<1>1. Modulus * q \in Int /\ Modulus * q = a - b
  BY ModulusType
<1>2. q = 0
  BY <1>1, MultipleInside, ModulusType
<1> QED BY <1>2, ModulusType

\* A number has one wrapped form.
LEMMA WrapUnique ==
  ASSUME NEW n \in Int, NEW k \in 0..(Modulus - 1), NEW q \in Int, n = k + Modulus * q
  PROVE  Wrap(n) = k
<1>1. PICK p \in Int : n = Wrap(n) + Modulus * p
  BY WrapDef
<1>2. Wrap(n) \in 0..(Modulus - 1)
  BY WrapDef
<1>3. k = Wrap(n) + Modulus * (p - q)
  <2> DEFINE x == Modulus * p
             y == Modulus * q
  <2>1. Modulus * (p - q) = x - y /\ x \in Int /\ y \in Int
    BY Multiples
  <2>2. n = Wrap(n) + x /\ n = k + y
    BY <1>1
  <2> HIDE DEF x, y
  <2> QED BY <2>1, <2>2, <1>2, ModulusType
<1> QED BY <1>2, <1>3, Unique, ModulusType

\* What the conversion to ngx_msec_int_t does.
LEMMA SignedDef ==
  ASSUME NEW k \in 0..(Modulus - 1)
  PROVE  /\ Signed(k) \in (-Half)..(Half - 1)
         /\ \E q \in Int : Signed(k) = k + Modulus * q
<1>1. CASE k >= Half
  BY <1>1, ModulusType DEF Signed
<1>2. CASE k < Half
  BY <1>2, ModulusType DEF Signed
<1> QED BY <1>1, <1>2, ModulusType

\* The wrapped difference, read as signed, is the difference of what the keys stand for.
LEMMA SignedDifference ==
  ASSUME NEW u \in Int, NEW v \in Int, -Half <= u - v, u - v < Half
  PROVE  Signed(Wrap(Wrap(u) - Wrap(v))) = u - v
<1> DEFINE w == Wrap(u) - Wrap(v)
<1>1. Wrap(u) \in Int /\ Wrap(v) \in Int /\ w \in Int /\ Wrap(w) \in 0..(Modulus - 1)
  <2>1. Wrap(u) \in Int /\ Wrap(v) \in Int
    BY WrapDef, ModulusType
  <2> QED BY <2>1, WrapDef
<1>2. PICK qu \in Int : u = Wrap(u) + Modulus * qu
  BY WrapDef
<1>3. PICK qv \in Int : v = Wrap(v) + Modulus * qv
  BY WrapDef
<1>4. PICK qw \in Int : w = Wrap(w) + Modulus * qw
  BY <1>1, WrapDef
<1>5. PICK qs \in Int : Signed(Wrap(w)) = Wrap(w) + Modulus * qs
  BY <1>1, SignedDef
<1>6. Signed(Wrap(w)) \in (-Half)..(Half - 1)
  BY <1>1, SignedDef
<1> HIDE DEF w
<1>7. u - v = Signed(Wrap(w)) + Modulus * (qu - qv + qw - qs)
  <2> DEFINE a == Modulus * qu
             b == Modulus * qv
             c == Modulus * qw
             d == Modulus * qs
  <2>1. /\ Modulus * (qu - qv + qw - qs) = a - b + c - d
        /\ a \in Int /\ b \in Int /\ c \in Int /\ d \in Int
    <3>1. a \in Int /\ b \in Int /\ c \in Int /\ d \in Int /\ Modulus * (qu - qv) = a - b
      BY Multiples
    <3>2. Modulus * ((qu - qv) + qw) = Modulus * (qu - qv) + c
      BY Multiples
    <3>3. Modulus * (((qu - qv) + qw) - qs) = Modulus * ((qu - qv) + qw) - d
      BY Multiples
    <3> QED BY <3>1, <3>2, <3>3
  <2>2. u = Wrap(u) + a /\ v = Wrap(v) + b /\ w = Wrap(w) + c
        /\ Signed(Wrap(w)) = Wrap(w) + d
    BY <1>2, <1>3, <1>4, <1>5
  <2>3. w = Wrap(u) - Wrap(v) /\ w \in Int /\ Wrap(u) \in Int /\ Wrap(v) \in Int
    BY <1>1 DEF w
  <2> HIDE DEF a, b, c, d
  <2>4. Signed(Wrap(w)) \in Int /\ Wrap(w) \in Int
    BY <1>1, <1>6, ModulusType
  <2> QED BY <2>1, <2>2, <2>3, <2>4
<1>8. -Modulus < (u - v) - Signed(Wrap(w)) /\ (u - v) - Signed(Wrap(w)) < Modulus
  BY <1>6, ModulusType
<1>9. u - v = Signed(Wrap(w))
  <2>1. u - v \in Int /\ Signed(Wrap(w)) \in Int /\ qu - qv + qw - qs \in Int
    BY <1>6, ModulusType
  <2> QED BY <2>1, <1>7, <1>8, Unique
<1> QED BY <1>9 DEF w

\* The comparison of two keys, when it does not overflow, is the difference of
\* what they stand for.
LEMMA DifferencesExact ==
  ASSUME NEW u \in Int, NEW v \in Int, -Half <= u - v, u - v < Half,
         ~Overflows(Wrap(u), Wrap(v))
  PROVE  Differences(Wrap(u), Wrap(v)) = {u - v}
<1> DEFINE su == Signed(Wrap(u))
           sv == Signed(Wrap(v))
<1>1. /\ Wrap(u) \in Int /\ Wrap(u) \in 0..(Modulus - 1)
      /\ Wrap(v) \in Int /\ Wrap(v) \in 0..(Modulus - 1)
  BY WrapDef
<1>2. PICK qu \in Int : u = Wrap(u) + Modulus * qu
  BY WrapDef
<1>3. PICK qv \in Int : v = Wrap(v) + Modulus * qv
  BY WrapDef
<1>4. PICK ru \in Int : su = Wrap(u) + Modulus * ru
  BY <1>1, SignedDef
<1>5. PICK rv \in Int : sv = Wrap(v) + Modulus * rv
  BY <1>1, SignedDef
<1>6. su \in Int /\ sv \in Int
  BY <1>1, SignedDef, ModulusType
<1>7. su - sv \in (-Half)..(Half - 1)
  BY DEF Overflows
<1> HIDE DEF su, sv
<1>8. u - v = (su - sv) + Modulus * ((qu - qv) - (ru - rv))
  <2> DEFINE a == Modulus * qu
             b == Modulus * qv
             c == Modulus * ru
             d == Modulus * rv
  <2>1. /\ Modulus * ((qu - qv) - (ru - rv)) = (a - b) - (c - d)
        /\ a \in Int /\ b \in Int /\ c \in Int /\ d \in Int
    <3>1. /\ a \in Int /\ b \in Int /\ c \in Int /\ d \in Int
          /\ Modulus * (qu - qv) = a - b /\ Modulus * (ru - rv) = c - d
      BY Multiples
    <3>2. Modulus * ((qu - qv) - (ru - rv)) = Modulus * (qu - qv) - Modulus * (ru - rv)
      BY Multiples
    <3> QED BY <3>1, <3>2
  <2>2. u = Wrap(u) + a /\ v = Wrap(v) + b /\ su = Wrap(u) + c /\ sv = Wrap(v) + d
    BY <1>2, <1>3, <1>4, <1>5
  <2> HIDE DEF a, b, c, d
  <2> QED BY <2>1, <2>2, <1>1, <1>6
<1>9. u - v = su - sv
  <2>1. u - v \in Int /\ su - sv \in Int /\ (qu - qv) - (ru - rv) \in Int
    BY <1>6
  <2>2. -Modulus < (u - v) - (su - sv) /\ (u - v) - (su - sv) < Modulus
    BY <1>6, <1>7, ModulusType
  <2> QED BY <2>1, <2>2, <1>8, Unique
<1> QED BY <1>9 DEF Differences, su, sv

\* A number n shifted by the signed difference of a key and n has that key.
LEMMA WrapShift ==
  ASSUME NEW n \in Int, NEW k \in 0..(Modulus - 1)
  PROVE  /\ Signed(Wrap(k - Wrap(n))) \in (-Half)..(Half - 1)
         /\ Wrap(n + Signed(Wrap(k - Wrap(n)))) = k
<1> DEFINE w == k - Wrap(n)
           s == Signed(Wrap(w))
<1>1. Wrap(n) \in Int /\ k \in Int /\ w \in Int
  BY WrapDef, ModulusType
<1>2. Wrap(w) \in Int /\ Wrap(w) \in 0..(Modulus - 1)
  BY <1>1, WrapDef
<1>3. PICK qn \in Int : n = Wrap(n) + Modulus * qn
  BY WrapDef
<1>4. PICK qw \in Int : w = Wrap(w) + Modulus * qw
  BY <1>1, WrapDef
<1>5. PICK qs \in Int : s = Wrap(w) + Modulus * qs
  BY <1>2, SignedDef
<1>6. s \in (-Half)..(Half - 1)
  BY <1>2, SignedDef
<1> HIDE DEF s
<1>7. n + s = k + Modulus * ((qn - qw) + qs)
  <2> DEFINE a == Modulus * qn
             b == Modulus * qw
             c == Modulus * qs
  <2>1. /\ Modulus * ((qn - qw) + qs) = (a - b) + c
        /\ a \in Int /\ b \in Int /\ c \in Int
    <3>1. /\ a \in Int /\ b \in Int /\ c \in Int /\ Modulus * (qn - qw) = a - b
      BY Multiples
    <3>2. Modulus * ((qn - qw) + qs) = Modulus * (qn - qw) + c
      BY Multiples
    <3> QED BY <3>1, <3>2
  <2>2. n = Wrap(n) + a /\ w = Wrap(w) + b /\ s = Wrap(w) + c /\ w = k - Wrap(n)
    BY <1>3, <1>4, <1>5
  <2> HIDE DEF a, b, c, w
  <2>3. s \in Int
    BY <1>6, ModulusType
  <2> QED BY <2>1, <2>2, <2>3, <1>1, <1>2
<1>8. n + s \in Int /\ (qn - qw) + qs \in Int
  BY <1>6, ModulusType
<1>9. Wrap(n + s) = k
  BY <1>7, <1>8, WrapUnique
<1> QED BY <1>6, <1>9 DEF s

\* Adding to a wrapped number.
LEMMA WrapAdd ==
  ASSUME NEW n \in Int, NEW d \in Int
  PROVE  Wrap(Wrap(n) + d) = Wrap(n + d)
<1>1. Wrap(n) \in 0..(Modulus - 1) /\ Wrap(n + d) \in 0..(Modulus - 1)
  BY WrapDef
<1>2. PICK p \in Int : n = Wrap(n) + Modulus * p
  BY WrapDef
<1>3. PICK q \in Int : n + d = Wrap(n + d) + Modulus * q
  BY WrapDef
<1>4. Wrap(n) + d = Wrap(n + d) + Modulus * (q - p)
  <2> DEFINE a == Modulus * p
             b == Modulus * q
  <2>1. Modulus * (q - p) = b - a /\ a \in Int /\ b \in Int
    BY Multiples
  <2>2. n = Wrap(n) + a /\ n + d = Wrap(n + d) + b
    BY <1>2, <1>3
  <2> HIDE DEF a, b
  <2> QED BY <2>1, <2>2, <1>1, ModulusType
<1> QED BY <1>1, <1>4, WrapUnique, ModulusType

\* The distance of two keys does not depend on their order.
LEMMA AbsDiffSymmetric ==
  ASSUME NEW a \in 0..(Modulus - 1), NEW b \in 0..(Modulus - 1)
  PROVE  AbsDiff(a, b) = AbsDiff(b, a) /\ AbsDiff(a, b) \in Nat
<1> DEFINE x == Signed(Wrap(a - b))
           y == Signed(Wrap(b - a))
<1>0. a - b \in Int /\ b - a \in Int
  BY ModulusType
<1>1. Wrap(a - b) \in 0..(Modulus - 1) /\ Wrap(b - a) \in 0..(Modulus - 1)
  BY <1>0, WrapDef
<1>2. x \in (-Half)..(Half - 1) /\ y \in (-Half)..(Half - 1)
  BY <1>1, SignedDef
<1>3. PICK p \in Int : a - b = Wrap(a - b) + Modulus * p
  BY <1>0, WrapDef
<1>4. PICK q \in Int : b - a = Wrap(b - a) + Modulus * q
  BY <1>0, WrapDef
<1>5. PICK r \in Int : x = Wrap(a - b) + Modulus * r
  BY <1>1, SignedDef
<1>6. PICK s \in Int : y = Wrap(b - a) + Modulus * s
  BY <1>1, SignedDef
<1> HIDE DEF x, y
<1>7. x = -y + Modulus * ((r - p) + (s - q))
  <2> DEFINE e == Modulus * p
             f == Modulus * q
             g == Modulus * r
             h == Modulus * s
  <2>1. /\ Modulus * ((r - p) + (s - q)) = (g - e) + (h - f)
        /\ e \in Int /\ f \in Int /\ g \in Int /\ h \in Int
    <3>1. /\ e \in Int /\ f \in Int /\ g \in Int /\ h \in Int
          /\ Modulus * (r - p) = g - e /\ Modulus * (s - q) = h - f
      BY Multiples
    <3>2. Modulus * ((r - p) + (s - q)) = Modulus * (r - p) + Modulus * (s - q)
      BY Multiples
    <3> QED BY <3>1, <3>2
  <2>2. /\ a - b = Wrap(a - b) + e /\ b - a = Wrap(b - a) + f
        /\ x = Wrap(a - b) + g /\ y = Wrap(b - a) + h
    BY <1>3, <1>4, <1>5, <1>6
  <2> HIDE DEF e, f, g, h
  <2> QED BY <2>1, <2>2, <1>1, <1>2, ModulusType
<1>8. CASE x = -Half /\ y = -Half
  BY <1>8, ModulusType DEF AbsDiff, x, y
<1>9. CASE ~(x = -Half /\ y = -Half)
  <2>1. x \in Int /\ -y \in Int /\ (r - p) + (s - q) \in Int
    BY <1>2, ModulusType
  <2>2. -Modulus < x - (-y) /\ x - (-y) < Modulus
    BY <1>2, <1>9, ModulusType
  <2>3. x = -y
    BY <2>1, <2>2, <1>7, Unique
  <2> QED BY <2>3, <1>2, ModulusType DEF AbsDiff, x, y
<1> QED BY <1>8, <1>9
-----------------------------------------------------------------------------
(* The tree as a sequence.                                                 *)

\* The sequence with a node put in after place m, place by place.
LEMMA InsertAtSeq ==
  ASSUME NEW t \in Seq(Events), NEW e \in Events, NEW m \in 0..Len(t)
  PROVE  /\ InsertAt(t, m + 1, e) \in Seq(Events)
         /\ Len(InsertAt(t, m + 1, e)) = Len(t) + 1
         /\ \A j \in 1..(Len(t) + 1) :
              InsertAt(t, m + 1, e)[j] =
                IF j <= m THEN t[j] ELSE IF j = m + 1 THEN e ELSE t[j - 1]
<1> DEFINE a == SubSeq(t, 1, (m + 1) - 1)
           b == SubSeq(t, m + 1, Len(t))
<1>1. /\ a \in Seq(Events) /\ Len(a) = m
      /\ \A j \in 1..m : a[j] = t[j]
  BY SubSeqProperties
<1>2. /\ b \in Seq(Events) /\ Len(b) = Len(t) - m
      /\ \A j \in 1..(Len(t) - m) : b[j] = t[m + j]
  BY SubSeqProperties
<1> HIDE DEF a, b
<1> DEFINE c == a \o <<e>>
<1>3. /\ c \in Seq(Events) /\ Len(c) = m + 1
      /\ \A j \in 1..(m + 1) : c[j] = IF j <= m THEN t[j] ELSE e
  BY <1>1
<1> HIDE DEF c
<1>4. c \o b \in Seq(Events) /\ Len(c \o b) = Len(t) + 1
  BY <1>2, <1>3, ConcatProperties
<1>5. \A j \in 1..(Len(t) + 1) :
        (c \o b)[j] = IF j <= m THEN t[j] ELSE IF j = m + 1 THEN e ELSE t[j - 1]
  <2> SUFFICES ASSUME NEW j \in 1..(Len(t) + 1)
               PROVE  (c \o b)[j] = IF j <= m THEN t[j]
                                    ELSE IF j = m + 1 THEN e ELSE t[j - 1]
    OBVIOUS
  <2>1. (c \o b)[j] = IF j <= m + 1 THEN c[j] ELSE b[j - (m + 1)]
    BY <1>2, <1>3, ConcatProperties
  <2>2. CASE j <= m + 1
    BY <2>1, <2>2, <1>3
  <2>3. CASE j > m + 1
    <3>1. j - (m + 1) \in 1..(Len(t) - m) /\ m + (j - (m + 1)) = j - 1
      BY <2>3
    <3> QED BY <2>1, <2>3, <3>1, <1>2
  <2>4. j <= m + 1 \/ j > m + 1
    BY LenProperties
  <2> QED BY <2>2, <2>3, <2>4
<1>6. InsertAt(t, m + 1, e) = c \o b
  BY DEF InsertAt, a, b, c
<1> DEFINE r == c \o b
<1>7. /\ r \in Seq(Events) /\ Len(r) = Len(t) + 1 /\ InsertAt(t, m + 1, e) = r
      /\ \A j \in 1..(Len(t) + 1) :
           r[j] = IF j <= m THEN t[j] ELSE IF j = m + 1 THEN e ELSE t[j - 1]
  BY <1>4, <1>5, <1>6
<1> HIDE DEF r
<1> QED BY <1>7

\* ngx_rbtree_delete() takes out one event and keeps the order.
LEMMA DeleteSeq ==
  ASSUME NEW t \in Seq(Events), IsInjective(t), NEW e \in Events
  PROVE  /\ Delete(t, e) \in Seq(Events) /\ IsInjective(Delete(t, e))
         /\ ToSet(Delete(t, e)) = ToSet(t) \ {e}
         /\ \A i, j \in DOMAIN Delete(t, e) : i < j =>
              \E k, l \in DOMAIN t : /\ k < l /\ Delete(t, e)[i] = t[k]
                                     /\ Delete(t, e)[j] = t[l]
<1>1. CASE e \notin ToSet(t)
  BY <1>1 DEF Delete
<1>2. CASE e \in ToSet(t)
  <2> DEFINE m == CHOOSE i \in DOMAIN t : t[i] = e
             r == RemoveAt(t, m)
  <2>1. m \in 1..Len(t) /\ t[m] = e
    BY <1>2 DEF ToSet
  <2>2. Delete(t, e) = r
    BY <1>2 DEF Delete
  <2> HIDE DEF m
  <2>3. /\ r \in Seq(Events) /\ Len(r) = Len(t) - 1
        /\ \A j \in 1..(Len(t) - 1) : r[j] = IF j < m THEN t[j] ELSE t[j + 1]
    BY <2>1, RemoveAtSeq
  <2> HIDE DEF r
  <2>4. \A i, j \in DOMAIN r : i < j => \E k, l \in DOMAIN t : k < l /\ r[i] = t[k] /\ r[j] = t[l]
    <3> SUFFICES ASSUME NEW i \in DOMAIN r, NEW j \in DOMAIN r, i < j
                 PROVE  \E k, l \in DOMAIN t : k < l /\ r[i] = t[k] /\ r[j] = t[l]
      OBVIOUS
    <3> DEFINE k == IF i < m THEN i ELSE i + 1
               l == IF j < m THEN j ELSE j + 1
    <3>1. k \in DOMAIN t /\ l \in DOMAIN t /\ k < l /\ r[i] = t[k] /\ r[j] = t[l]
      BY <2>1, <2>3, SMTT(60)
    <3> QED BY <3>1
  <2>5. IsInjective(r)
    BY <2>1, <2>3, SMTT(60) DEF IsInjective
  <2>6. ToSet(r) = ToSet(t) \ {e}
    <3>1. ASSUME NEW x \in ToSet(r) PROVE x \in ToSet(t) \ {e}
      <4>1. PICK j \in 1..(Len(t) - 1) : x = r[j]
        BY <2>3 DEF ToSet
      <4>2. CASE j < m
        BY <4>1, <4>2, <2>1, <2>3, SMTT(60) DEF ToSet, IsInjective
      <4>3. CASE j >= m
        BY <4>1, <4>3, <2>1, <2>3, SMTT(60) DEF ToSet, IsInjective
      <4> QED BY <4>2, <4>3, <2>1
    <3>2. ASSUME NEW x \in ToSet(t) \ {e} PROVE x \in ToSet(r)
      <4>1. PICK j \in 1..Len(t) : x = t[j]
        BY DEF ToSet
      <4>2. CASE j < m
        <5>1. j \in 1..(Len(t) - 1) /\ r[j] = x
          BY <4>1, <4>2, <2>1, <2>3
        <5> QED BY <5>1, <2>3 DEF ToSet
      <4>3. CASE j > m
        <5>1. j - 1 \in 1..(Len(t) - 1) /\ r[j - 1] = x
          BY <4>1, <4>3, <2>1, <2>3
        <5> QED BY <5>1, <2>3 DEF ToSet
      <4>4. j # m
        BY <4>1, <2>1
      <4> QED BY <4>2, <4>3, <4>4, <2>1
    <3> QED BY <3>1, <3>2
  <2> QED BY <2>2, <2>3, <2>4, <2>5, <2>6
<1> QED BY <1>1, <1>2

\* An insertion adds one event, once.
LEMMA InsertSeq ==
  ASSUME NEW t \in Seq(Events), IsInjective(t), NEW e \in Events, e \notin ToSet(t),
         NEW m \in 0..Len(t)
  PROVE  /\ IsInjective(InsertAt(t, m + 1, e))
         /\ ToSet(InsertAt(t, m + 1, e)) = ToSet(t) \cup {e}
<1> DEFINE r == InsertAt(t, m + 1, e)
<1>1. /\ r \in Seq(Events) /\ Len(r) = Len(t) + 1
      /\ \A j \in 1..(Len(t) + 1) :
           r[j] = IF j <= m THEN t[j] ELSE IF j = m + 1 THEN e ELSE t[j - 1]
  BY InsertAtSeq
<1> HIDE DEF r
<1>2. \A j \in 1..Len(t) : t[j] # e
  BY DEF ToSet
<1>3. IsInjective(r)
  <2> SUFFICES ASSUME NEW i \in 1..(Len(t) + 1), NEW j \in 1..(Len(t) + 1), r[i] = r[j]
               PROVE  i = j
    BY <1>1 DEF IsInjective
  <2> DEFINE At(n) == IF n <= m THEN n ELSE n - 1
  <2>0. \A n \in 1..(Len(t) + 1) : r[n] = e => n = m + 1
    <3> SUFFICES ASSUME NEW n \in 1..(Len(t) + 1), n # m + 1 PROVE r[n] # e
      OBVIOUS
    <3>1. At(n) \in 1..Len(t) /\ r[n] = t[At(n)]
      BY <1>1
    <3> QED BY <3>1, <1>2
  <2>1. CASE i = m + 1
    <3>1. r[j] = e
      BY <2>1, <1>1
    <3> QED BY <3>1, <2>0, <2>1
  <2>2. CASE j = m + 1
    <3>1. r[i] = e
      BY <2>2, <1>1
    <3> QED BY <3>1, <2>0, <2>2
  <2>3. CASE i # m + 1 /\ j # m + 1
    <3>1. At(i) \in DOMAIN t /\ At(j) \in DOMAIN t /\ t[At(i)] = t[At(j)]
      BY <2>3, <1>1
    <3>2. At(i) = At(j)
      BY <3>1 DEF IsInjective
    <3> QED BY <2>3, <3>2
  <2> QED BY <2>1, <2>2, <2>3
<1>4. ToSet(r) = ToSet(t) \cup {e}
  <2>1. ASSUME NEW x \in ToSet(r) PROVE x \in ToSet(t) \cup {e}
    BY <1>1 DEF ToSet
  <2>2. r[m + 1] = e /\ m + 1 \in DOMAIN r
    BY <1>1
  <2>3. ASSUME NEW x \in ToSet(t) PROVE x \in ToSet(r)
    <3>1. PICK j \in 1..Len(t) : x = t[j]
      BY DEF ToSet
    <3>2. CASE j <= m
      <4>1. j \in DOMAIN r /\ r[j] = x
        BY <3>1, <3>2, <1>1
      <4> QED BY <4>1 DEF ToSet
    <3>3. CASE j > m
      <4>1. j + 1 \in DOMAIN r /\ r[j + 1] = x
        BY <3>1, <3>3, <1>1
      <4> QED BY <4>1 DEF ToSet
    <3> QED BY <3>2, <3>3
  <2> QED BY <2>1, <2>2, <2>3 DEF ToSet
<1> QED BY <1>3, <1>4 DEF r
\* Inserting an event between what is not after it and what is not before it
\* keeps a sequence in order.
LEMMA InsertSorted ==
  ASSUME NEW t \in Seq(Events), NEW e \in Events, NEW m \in 0..Len(t),
         NEW f \in [Events -> Int],
         \A i, j \in DOMAIN t : i < j => f[t[i]] <= f[t[j]],
         m > 0 => f[t[m]] <= f[e],
         m < Len(t) => f[e] <= f[t[m + 1]],
         NEW i \in 1..(Len(t) + 1), NEW j \in 1..(Len(t) + 1), i < j
  PROVE  f[InsertAt(t, m + 1, e)[i]] <= f[InsertAt(t, m + 1, e)[j]]
<1> DEFINE r == InsertAt(t, m + 1, e)
<1>1. \A n \in 1..(Len(t) + 1) :
        r[n] = IF n <= m THEN t[n] ELSE IF n = m + 1 THEN e ELSE t[n - 1]
  BY InsertAtSeq
<1> SUFFICES f[r[i]] <= f[r[j]]
  OBVIOUS
<1> HIDE DEF r
<1>2. Len(t) \in Nat /\ DOMAIN t = 1..Len(t) /\ \A n \in 1..Len(t) : t[n] \in Events
  BY LenProperties, ElementOfSeq
<1>3. \A n \in 1..Len(t) : f[t[n]] \in Int
  BY <1>2
<1>4. \A n \in 1..m : f[t[n]] <= f[e]
  BY <1>2, <1>3, SMTT(60)
<1>5. \A n \in (m + 1)..Len(t) : f[e] <= f[t[n]]
  <2> SUFFICES ASSUME NEW n \in (m + 1)..Len(t) PROVE f[e] <= f[t[n]]
    OBVIOUS
  <2>1. m + 1 \in DOMAIN t /\ n \in DOMAIN t /\ f[e] <= f[t[m + 1]]
    BY <1>2
  <2>2. f[t[m + 1]] <= f[t[n]]
    <3>1. CASE n = m + 1
      BY <1>2, <1>3, <2>1, <3>1
    <3>2. CASE m + 1 < n
      BY <2>1, <3>2
    <3> QED BY <1>2, <3>1, <3>2
  <2> QED BY <1>2, <1>3, <2>1, <2>2
<1>6. CASE j <= m
  <2>1. /\ i \in DOMAIN t /\ j \in DOMAIN t /\ r[i] = t[i] /\ r[j] = t[j]
    BY <1>1, <1>2, <1>6
  <2> QED BY <2>1
<1>7. CASE j = m + 1
  <2>1. r[j] = e /\ i \in 1..m /\ r[i] = t[i]
    BY <1>1, <1>2, <1>7, SMTT(60)
  <2> QED BY <2>1, <1>4
<1>8. CASE j > m + 1 /\ i = m + 1
  <2>1. r[i] = e /\ j - 1 \in (m + 1)..Len(t) /\ r[j] = t[j - 1]
    BY <1>1, <1>2, <1>8, SMTT(60)
  <2> QED BY <2>1, <1>5
<1>9. CASE j > m + 1 /\ i > m + 1
  <2>1. /\ i - 1 \in DOMAIN t /\ j - 1 \in DOMAIN t /\ i - 1 < j - 1
        /\ r[i] = t[i - 1] /\ r[j] = t[j - 1]
    BY <1>1, <1>2, <1>9
  <2> QED BY <2>1
<1>10. CASE j > m + 1 /\ i <= m
  <2>1. /\ i \in 1..m /\ r[i] = t[i] /\ i \in 1..Len(t)
        /\ j - 1 \in (m + 1)..Len(t) /\ r[j] = t[j - 1] /\ j - 1 \in 1..Len(t)
    BY <1>1, <1>2, <1>10
  <2>2. f[t[i]] <= f[e] /\ f[e] <= f[t[j - 1]]
    BY <2>1, <1>4, <1>5
  <2> QED BY <2>1, <2>2, <1>3, SMTT(60)
<1>11. i \in Int /\ j \in Int /\ m \in Int
  BY <1>2
<1> QED BY <1>6, <1>7, <1>8, <1>9, <1>10, <1>11

\* The leftmost node leaves the tree.
LEMMA LeftmostLeaves ==
  ASSUME NEW t \in Seq(Events), IsInjective(t), t # <<>>
  PROVE  /\ Tail(t) \in Seq(Events) /\ IsInjective(Tail(t))
         /\ ToSet(Tail(t)) = ToSet(t) \ {Head(t)}
         /\ Head(t) \in ToSet(t)
         /\ \A i, j \in DOMAIN Tail(t) : i < j =>
              \E k, l \in DOMAIN t : /\ k < l /\ Tail(t)[i] = t[k]
                                     /\ Tail(t)[j] = t[l]
<1> DEFINE r == Tail(t)
<1>1. /\ r \in Seq(Events) /\ Len(r) = Len(t) - 1
      /\ \A n \in 1..(Len(t) - 1) : r[n] = t[n + 1]
      /\ Len(t) \in Nat \ {0}
      /\ Head(t) \in ToSet(t) /\ IsInjective(r) /\ ToSet(r) = ToSet(t) \ {Head(t)}
  BY TailSeq
<1> HIDE DEF r
<1>2. \A i, j \in DOMAIN r : i < j =>
        \E k, l \in DOMAIN t : k < l /\ r[i] = t[k] /\ r[j] = t[l]
  <2> SUFFICES ASSUME NEW i \in DOMAIN r, NEW j \in DOMAIN r, i < j
               PROVE  \E k, l \in DOMAIN t : k < l /\ r[i] = t[k] /\ r[j] = t[l]
    OBVIOUS
  <2>1. /\ i + 1 \in DOMAIN t /\ j + 1 \in DOMAIN t /\ i + 1 < j + 1
        /\ r[i] = t[i + 1] /\ r[j] = t[j + 1]
    BY <1>1
  <2> QED BY <2>1
<1> QED BY <1>1, <1>2 DEF r

-----------------------------------------------------------------------------
(* Keys and the times they stand for.                                      *)

\* A key stands for a time within the lazy delay of when its event asked to
\* be woken.
LEMMA KeyTimeNear ==
  ASSUME TypeOK, KeysNear, NEW e \in TimerSet
  PROVE  /\ e \in Events /\ due[e] \in Nat /\ key[e] \in 0..(Modulus - 1)
         /\ KeyTime(e) \in Int /\ Wrap(KeyTime(e)) = key[e]
         /\ due[e] - LazyDelay < KeyTime(e) /\ KeyTime(e) < due[e] + LazyDelay
<1>1. e \in Events
  BY DEF TimerSet, ToSet, TypeOK
<1>2. due[e] \in Nat /\ key[e] \in 0..(Modulus - 1)
  BY <1>1 DEF TypeOK
<1>3. Offset(e) \in (-Half)..(Half - 1) /\ Wrap(KeyTime(e)) = key[e]
  BY <1>2, WrapShift DEF KeyTime, Offset
<1>4. AbsDiff(key[e], Wrap(due[e])) = IF Offset(e) < 0 THEN -Offset(e) ELSE Offset(e)
  BY DEF AbsDiff, Offset
<1>5. AbsDiff(key[e], Wrap(due[e])) < LazyDelay
  BY DEF KeysNear
<1>6. Offset(e) \in Int
  BY <1>3, ModulusType
<1>7. KeyTime(e) = due[e] + Offset(e)
  BY DEF KeyTime
<1> QED BY <1>1, <1>2, <1>3, <1>4, <1>5, <1>6, <1>7, TimersAssumption

\* While nothing has overflowed, the leftmost node has the earliest time.
LEMMA HeadFirst ==
  ASSUME TypeOK, KeysNear, Sorted, ~ub, tree # <<>>, NEW e \in TimerSet
  PROVE  Head(tree) \in TimerSet /\ KeyTime(Head(tree)) <= KeyTime(e)
<1>1. Head(tree) \in TimerSet
  BY LeftmostLeaves DEF TypeOK, TimerSet
<1>2. PICK n \in 1..Len(tree) : e = tree[n]
  BY DEF TypeOK, TimerSet, ToSet
<1>3. Head(tree) = tree[1] /\ Len(tree) \in Nat
  BY HeadTailProperties, LenProperties DEF TypeOK
<1>4. KeyTime(e) \in Int
  BY KeyTimeNear
<1>5. CASE n = 1
  BY <1>1, <1>2, <1>3, <1>4, <1>5
<1>6. CASE n > 1
  BY <1>1, <1>2, <1>3, <1>6 DEF Sorted, TypeOK
<1> QED BY <1>2, <1>3, <1>5, <1>6

\* A comparison of a key with ngx_current_msec that does not overflow compares
\* the times.
LEMMA CompareNow ==
  ASSUME TypeOK, KeysNear, Window, ~ub, NEW e \in TimerSet,
         ~Overflows(key[e], Msec)
  PROVE  Differences(key[e], Msec) = {KeyTime(e) - time}
<1>1. KeyTime(e) \in Int /\ Wrap(KeyTime(e)) = key[e] /\ time \in Int
  BY KeyTimeNear DEF TypeOK
<1>2. -Half <= KeyTime(e) - time /\ KeyTime(e) - time < Half
  BY <1>1, TimersAssumption DEF Window
<1> QED BY <1>1, <1>2, DifferencesExact DEF Msec

\* Taking events out of the tree, and nothing else.
LEMMA Fewer ==
  ASSUME TypeOK, KeysNear, Window, Sorted,
         time' = time, ~ub' => ~ub, TimerSet' \subseteq TimerSet,
         \A x \in TimerSet' : key'[x] = key[x] /\ due'[x] = due[x],
         \A i, j \in DOMAIN tree' : i < j =>
           \E k, l \in DOMAIN tree : k < l /\ tree'[i] = tree[k] /\ tree'[j] = tree[l]
  PROVE  /\ \A x \in TimerSet' : KeyTime(x)' = KeyTime(x)
         /\ KeysNear' /\ Window' /\ Sorted'
<1>1. \A x \in TimerSet' : KeyTime(x)' = KeyTime(x)
  BY DEF KeyTime, Offset
<1>2. KeysNear'
  BY DEF KeysNear
<1>3. Window'
  BY <1>1 DEF Window
<1>4. Sorted'
  <2> SUFFICES ASSUME ~ub', NEW i \in DOMAIN tree', NEW j \in DOMAIN tree', i < j
               PROVE  KeyTime(tree[i])' <= KeyTime(tree[j])'
    BY DEF Sorted
  <2>1. tree'[i] \in TimerSet' /\ tree'[j] \in TimerSet'
    BY DEF TimerSet, ToSet
  <2>2. PICK k, l \in DOMAIN tree : k < l /\ tree'[i] = tree[k] /\ tree'[j] = tree[l]
    OBVIOUS
  <2>3. KeyTime(tree[k]) <= KeyTime(tree[l])
    BY <2>2 DEF Sorted
  <2> QED BY <1>1, <2>1, <2>2, <2>3
<1> QED BY <1>1, <1>2, <1>3, <1>4

-----------------------------------------------------------------------------
(* The steps.                                                              *)

\* An event asks again, close enough to its old time: the tree keeps the key,
\* and the key still stands for the same time.
LEMMA KeepStep ==
  ASSUME IInv, NEW e \in Events, NEW d \in Delays, AddTimer(e, d),
         KeepsOld(e, Wrap(Msec + d))
  PROVE  IInv'
<1>1. /\ due' = [due EXCEPT ![e] = time + d] /\ UNCHANGED <<tree, key, ub>>
      /\ UNCHANGED <<time, start, timer, pc, fired>>
      /\ pc \in {"handler", "posted"}
  BY DEF AddTimer
<1>2. e \in TimerSet /\ AbsDiff(Wrap(Msec + d), key[e]) < LazyDelay
  BY DEF KeepsOld
<1>3. d \in Nat /\ d + LazyDelay + MaxStep < Half /\ time \in Nat /\ time + d \in Nat
  BY TimersAssumption DEF IInv, TypeOK
<1>4. Wrap(Msec + d) = Wrap(time + d)
  BY <1>3, WrapAdd DEF Msec
<1>5. due'[e] = time + d /\ \A x \in Events \ {e} : due'[x] = due[x]
  BY <1>1 DEF IInv, TypeOK
<1>6. TypeOK'
  BY <1>1, <1>3 DEF IInv, TypeOK
<1>7. KeysNear'
  <2>1. AbsDiff(key[e], Wrap(time + d)) < LazyDelay
    <3>1. Wrap(time + d) \in 0..(Modulus - 1) /\ key[e] \in 0..(Modulus - 1)
      <4>1. Wrap(time + d) \in 0..(Modulus - 1)
        BY <1>3, WrapDef
      <4> QED BY <4>1 DEF IInv, TypeOK
    <3> QED BY <1>2, <1>4, <3>1, AbsDiffSymmetric
  <2>2. \A x \in TimerSet : x \in Events
    BY DEF IInv, TypeOK, TimerSet, ToSet
  <2> QED BY <1>1, <1>5, <2>1, <2>2 DEF IInv, KeysNear, TimerSet
<1>8. ASSUME ~ub, NEW x \in TimerSet PROVE KeyTime(x)' = KeyTime(x)
  <2>1. x \in Events /\ KeyTime(x) \in Int /\ Wrap(KeyTime(x)) = key[x]
    BY KeyTimeNear DEF IInv
  <2>2. CASE x # e
    BY <1>1, <1>5, <2>1, <2>2 DEF KeyTime, Offset
  <2>3. CASE x = e
    <3>1. -Half <= KeyTime(e) - (time + d) /\ KeyTime(e) - (time + d) < Half
      BY <1>2, <1>3, <1>8, <2>1, <2>3, TimersAssumption DEF IInv, Window
    <3>2. Signed(Wrap(key[e] - Wrap(time + d))) = KeyTime(e) - (time + d)
      BY <1>3, <2>1, <2>3, <3>1, SignedDifference
    <3>3. KeyTime(e)' = (time + d) + Signed(Wrap(key[e] - Wrap(time + d)))
      BY <1>1, <1>5 DEF KeyTime, Offset
    <3> QED BY <1>3, <2>1, <2>3, <3>2, <3>3
  <2> QED BY <2>2, <2>3
<1>9. Window' /\ NonePast'
  BY <1>1, <1>8 DEF IInv, Window, NonePast, TimerSet
<1>10. Sorted'
  <2> SUFFICES ASSUME ~ub', NEW i \in DOMAIN tree', NEW j \in DOMAIN tree', i < j
               PROVE  KeyTime(tree[i])' <= KeyTime(tree[j])'
    BY DEF Sorted
  <2>1. tree[i] \in TimerSet /\ tree[j] \in TimerSet
    BY <1>1 DEF TimerSet, ToSet
  <2>2. KeyTime(tree[i])' = KeyTime(tree[i]) /\ KeyTime(tree[j])' = KeyTime(tree[j])
    BY <1>1, <1>8, <2>1
  <2> QED BY <1>1, <2>2 DEF IInv, Sorted
<1>11. NotEarly' /\ NotOverslept'
  BY <1>1 DEF IInv, NotEarly, NotOverslept
<1> QED BY <1>6, <1>7, <1>9, <1>10, <1>11 DEF IInv

\* An event asks for a time of its own: its key stands for exactly that time,
\* and it is put where the comparisons with its neighbours say.
LEMMA InsertStep ==
  ASSUME IInv, NEW e \in Events, NEW d \in Delays, AddTimer(e, d),
         ~KeepsOld(e, Wrap(Msec + d))
  PROVE  IInv'
<1> DEFINE k == Wrap(time + d)
           t == Delete(tree, e)
<1>1. d \in Nat /\ d + LazyDelay + MaxStep < Half /\ time \in Nat /\ time + d \in Nat
  BY TimersAssumption DEF IInv, TypeOK
<1>2. Wrap(Msec + d) = k
  BY <1>1, WrapAdd DEF Msec
<1>3. k \in 0..(Modulus - 1)
  BY <1>1, WrapDef
<1>4. /\ due' = [due EXCEPT ![e] = time + d] /\ key' = [key EXCEPT ![e] = k]
      /\ ub' = (ub \/ InsertOverflows(t, k))
      /\ UNCHANGED <<time, start, timer, pc, fired>>
      /\ pc \in {"handler", "posted"}
  BY <1>2 DEF AddTimer
<1>5. PICK m \in 0..Len(t) : GoesAt(t, e, k, m) /\ tree' = InsertAt(t, m + 1, e)
  BY <1>2 DEF AddTimer
<1>6. /\ t \in Seq(Events) /\ IsInjective(t) /\ ToSet(t) = TimerSet \ {e}
      /\ \A i, j \in DOMAIN t : i < j =>
           \E n, l \in DOMAIN tree : n < l /\ t[i] = tree[n] /\ t[j] = tree[l]
  BY DeleteSeq DEF IInv, TypeOK, TimerSet
<1> HIDE DEF t, k
<1>7. /\ tree' \in Seq(Events) /\ IsInjective(tree') /\ Len(tree') = Len(t) + 1
      /\ TimerSet' = (TimerSet \ {e}) \cup {e}
  BY <1>5, <1>6, InsertAtSeq, InsertSeq DEF TimerSet
<1>8. TypeOK'
  BY <1>1, <1>3, <1>4, <1>7 DEF IInv, TypeOK
<1>9. /\ due'[e] = time + d /\ key'[e] = k
      /\ \A x \in Events \ {e} : due'[x] = due[x] /\ key'[x] = key[x]
  BY <1>4 DEF IInv, TypeOK
<1>10. KeyTime(e)' = time + d
  <2>1. Signed(Wrap(k - k)) = 0
    BY <1>1, SignedDifference, ModulusType DEF k
  <2>2. KeyTime(e)' = (time + d) + Signed(Wrap(k - Wrap(time + d)))
    BY <1>9 DEF KeyTime, Offset
  <2> QED BY <1>1, <2>1, <2>2 DEF k
<1>11. \A x \in TimerSet \ {e} : x \in Events /\ KeyTime(x)' = KeyTime(x)
  BY <1>9, SMTT(60) DEF KeyTime, Offset, IInv, TypeOK, TimerSet, ToSet
<1>12. KeysNear'
  <2>1. AbsDiff(k, k) = 0
    <3>1. Signed(Wrap(k - k)) = 0
      BY <1>1, SignedDifference, ModulusType DEF k
    <3> QED BY <3>1 DEF AbsDiff
  <2>2. AbsDiff(key'[e], Wrap(due'[e])) < LazyDelay
    BY <1>9, <2>1, TimersAssumption DEF k
  <2> QED BY <1>7, <1>9, <1>11, <2>2 DEF IInv, KeysNear
<1>13. Window' /\ NonePast'
  <2>1. ~ub' => ~ub
    BY <1>4
  <2> QED BY <1>1, <1>4, <1>7, <1>10, <1>11, <2>1, TimersAssumption
          DEF IInv, Window, NonePast
<1>14. ASSUME ~ub', NEW i \in DOMAIN tree', NEW j \in DOMAIN tree', i < j
       PROVE  KeyTime(tree[i])' <= KeyTime(tree[j])'
  <2> DEFINE f == [x \in Events |-> IF x \in TimerSet' THEN KeyTime(x)' ELSE 0]
  <2>1. ~ub /\ ~InsertOverflows(t, k)
    BY <1>4, <1>14
  <2>2. \A x \in TimerSet \ {e} : KeyTime(x)' \in Int /\ x \in TimerSet' /\ x \in Events
    BY <1>7, <1>11, KeyTimeNear DEF IInv
  <2>3. f \in [Events -> Int] /\ f[e] = time + d
    BY <1>1, <1>7, <1>10, <2>2
  <2>4. \A n \in DOMAIN t : t[n] \in TimerSet \ {e} /\ f[t[n]] = KeyTime(t[n])
    <3>1. \A n \in DOMAIN t : t[n] \in TimerSet \ {e}
      BY <1>6 DEF ToSet
    <3> QED BY <3>1, <2>2, <1>11
  <2> HIDE DEF f
  <2>5. \A a, b \in DOMAIN t : a < b => f[t[a]] <= f[t[b]]
    BY <1>6, <2>1, <2>4 DEF IInv, Sorted
  <2>6. ASSUME NEW n \in DOMAIN t
        PROVE  Differences(k, key[t[n]]) = {(time + d) - KeyTime(t[n])}
    <3>1. t[n] \in TimerSet /\ KeyTime(t[n]) \in Int /\ Wrap(KeyTime(t[n])) = key[t[n]]
      BY <2>4, KeyTimeNear DEF IInv
    <3>2. -Half <= (time + d) - KeyTime(t[n]) /\ (time + d) - KeyTime(t[n]) < Half
      BY <1>1, <2>1, <3>1, TimersAssumption, SMTT(60) DEF IInv, Window
    <3>3. ~Overflows(k, key[t[n]])
      BY <2>1 DEF InsertOverflows
    <3> QED BY <1>1, <3>1, <3>2, <3>3, DifferencesExact DEF k
  <2>7. Len(t) \in Nat /\ DOMAIN t = 1..Len(t)
    BY <1>6, LenProperties
  <2>8. m > 0 => f[t[m]] <= f[e]
    <3> SUFFICES ASSUME m > 0 PROVE f[t[m]] <= f[e]
      OBVIOUS
    <3>1. m \in DOMAIN t
      BY <2>7
    <3>2. (time + d) - KeyTime(t[m]) >= 0
      BY <1>5, <2>6, <3>1 DEF GoesAt
    <3>3. KeyTime(t[m]) \in Int
      BY <2>4, <3>1, KeyTimeNear DEF IInv
    <3> QED BY <1>1, <2>3, <2>4, <3>1, <3>2, <3>3
  <2>9. m < Len(t) => f[e] <= f[t[m + 1]]
    <3> SUFFICES ASSUME m < Len(t) PROVE f[e] <= f[t[m + 1]]
      OBVIOUS
    <3>1. m + 1 \in DOMAIN t
      BY <2>7
    <3>2. (time + d) - KeyTime(t[m + 1]) < 0
      BY <1>5, <2>6, <3>1 DEF GoesAt
    <3>3. KeyTime(t[m + 1]) \in Int
      BY <2>4, <3>1, KeyTimeNear DEF IInv
    <3> QED BY <1>1, <2>3, <2>4, <3>1, <3>2, <3>3
  <2>10. f[tree'[i]] <= f[tree'[j]]
    <3>1. i \in 1..(Len(t) + 1) /\ j \in 1..(Len(t) + 1)
      BY <1>7, LenProperties
    <3> QED BY <1>5, <1>6, <1>14, <2>3, <2>5, <2>8, <2>9, <3>1, InsertSorted
  <2>11. tree'[i] \in TimerSet' /\ tree'[j] \in TimerSet' /\ TimerSet' \subseteq Events
    BY <1>7, <1>14 DEF TimerSet, ToSet
  <2> QED BY <2>10, <2>11 DEF f
<1>15. NotEarly' /\ NotOverslept'
  BY <1>4 DEF IInv, NotEarly, NotOverslept
<1> QED BY <1>8, <1>12, <1>13, <1>14, <1>15 DEF IInv, Sorted

\* An event takes back its timer.
LEMMA DelTimerStep ==
  ASSUME IInv, NEW e \in Events, DelTimer(e)
  PROVE  IInv'
<1>1. /\ tree' = Delete(tree, e) /\ UNCHANGED <<time, start, timer, pc, ub, fired>>
      /\ key' = [key EXCEPT ![e] = 0] /\ due' = [due EXCEPT ![e] = 0]
      /\ pc \in {"handler", "posted"}
  BY DEF DelTimer, Forget
<1>2. /\ tree' \in Seq(Events) /\ IsInjective(tree') /\ TimerSet' = TimerSet \ {e}
      /\ \A i, j \in DOMAIN tree' : i < j =>
           \E n, l \in DOMAIN tree : n < l /\ tree'[i] = tree[n] /\ tree'[j] = tree[l]
  <2> DEFINE r == Delete(tree, e)
  <2>1. tree \in Seq(Events) /\ IsInjective(tree)
    BY DEF IInv, TypeOK
  <2>2. /\ r \in Seq(Events) /\ IsInjective(r) /\ ToSet(r) = ToSet(tree) \ {e}
        /\ \A i, j \in DOMAIN r : i < j =>
             \E n, l \in DOMAIN tree : n < l /\ r[i] = tree[n] /\ r[j] = tree[l]
    BY <2>1, DeleteSeq
  <2>3. tree' = r
    BY <1>1
  <2> HIDE DEF r
  <2> QED BY <2>2, <2>3 DEF TimerSet
<1>3. TypeOK'
  BY <1>1, <1>2, ModulusType DEF IInv, TypeOK
<1>4. \A x \in TimerSet' : key'[x] = key[x] /\ due'[x] = due[x]
  <2>1. \A x \in TimerSet : x \in Events
    BY KeyTimeNear DEF IInv
  <2> QED BY <1>1, <1>2, <2>1 DEF IInv, TypeOK
<1>5. /\ \A x \in TimerSet' : KeyTime(x)' = KeyTime(x)
      /\ KeysNear' /\ Window' /\ Sorted'
  BY <1>1, <1>2, <1>4, Fewer DEF IInv
<1>6. NonePast' /\ NotEarly' /\ NotOverslept'
  BY <1>1, <1>2, <1>5 DEF IInv, NonePast, NotEarly, NotOverslept
<1> QED BY <1>3, <1>5, <1>6 DEF IInv

\* The wait is planned: it ends when the earliest key does, which no event
\* finds too late.
LEMMA FindTimerStep ==
  ASSUME IInv, FindTimer
  PROVE  IInv'
<1>1. /\ pc = "find" /\ pc' = "wait" /\ UNCHANGED <<time, start, tree, key, due, fired>>
  BY DEF FindTimer
<1>2. ub' \in BOOLEAN /\ (~ub' => ~ub)
  BY DEF FindTimer, IInv, TypeOK
<1>3. timer' \in Nat \cup {Infinite}
  <2>1. CASE tree = <<>>
    BY <2>1 DEF FindTimer
  <2>2. CASE tree # <<>>
    <3>1. PICK d \in Differences(MinKey, Msec) : timer' = IF d > 0 THEN d ELSE 0
      BY <2>2 DEF FindTimer
    <3>2. MinKey \in 0..(Modulus - 1) /\ Msec \in 0..(Modulus - 1)
      <4>1. Head(tree) \in Events
        BY <2>2, HeadTailProperties DEF IInv, TypeOK
      <4>2. Msec \in 0..(Modulus - 1)
        BY WrapDef DEF Msec, IInv, TypeOK
      <4> QED BY <4>1, <4>2 DEF IInv, TypeOK, MinKey
    <3>3. d \in Int
      <4>1. Signed(MinKey) \in Int /\ Signed(Msec) \in Int
        BY <3>2, SignedDef, ModulusType
      <4>2. MinKey - Msec \in Int
        BY <3>2, ModulusType
      <4>3. Signed(Wrap(MinKey - Msec)) \in Int
        BY <4>2, WrapDef, SignedDef, ModulusType
      <4> QED BY <4>1, <4>3 DEF Differences
    <3> QED BY <3>1, <3>3
  <2> QED BY <2>1, <2>2
<1>4. TypeOK'
  BY <1>1, <1>2, <1>3 DEF IInv, TypeOK
<1>5. \A x \in TimerSet' : KeyTime(x)' = KeyTime(x) /\ x \in TimerSet
  BY <1>1 DEF KeyTime, Offset, TimerSet
<1>6. KeysNear' /\ Window' /\ NonePast' /\ NotEarly'
  BY <1>1, <1>2, <1>5 DEF IInv, KeysNear, Window, NonePast, NotEarly
<1>7. Sorted'
  BY <1>1, <1>2 DEF IInv, Sorted, KeyTime, Offset
<1>8. NotOverslept'
  <2> SUFFICES ASSUME ~ub', NEW e \in TimerSet
               PROVE  /\ timer' # Infinite
                      /\ timer' = 0 \/ time + timer' < due[e] + LazyDelay
    BY <1>1 DEF NotOverslept, TimerSet
  <2>1. tree # <<>>
    BY DEF TimerSet, ToSet
  <2>2. ~ub /\ ~Overflows(MinKey, Msec)
    BY <2>1 DEF FindTimer
  <2>3. Head(tree) \in TimerSet /\ KeyTime(Head(tree)) <= KeyTime(e)
    BY <2>1, <2>2, HeadFirst DEF IInv
  <2>4. Differences(MinKey, Msec) = {KeyTime(Head(tree)) - time}
    BY <2>2, <2>3, CompareNow DEF IInv, MinKey
  <2>5. timer' = IF KeyTime(Head(tree)) - time > 0 THEN KeyTime(Head(tree)) - time ELSE 0
    BY <2>1, <2>4 DEF FindTimer
  <2>6. /\ KeyTime(Head(tree)) \in Int /\ KeyTime(e) \in Int /\ due[e] \in Nat
        /\ KeyTime(e) < due[e] + LazyDelay
    BY <2>3, KeyTimeNear DEF IInv
  <2>7. time \in Nat
    BY DEF IInv, TypeOK
  <2>8. CASE KeyTime(Head(tree)) - time > 0
    BY <2>3, <2>5, <2>6, <2>7, <2>8, TimersAssumption DEF Infinite
  <2>9. CASE ~(KeyTime(Head(tree)) - time > 0)
    BY <2>5, <2>9 DEF Infinite
  <2> QED BY <2>8, <2>9
<1> QED BY <1>4, <1>6, <1>7, <1>8 DEF IInv

\* Time passes, at most MaxStep: the window is as wide as that.
LEMMA WaitStep ==
  ASSUME IInv, NEW d \in 0..MaxStep, Wait(d)
  PROVE  IInv'
<1>1. /\ pc = "wait" /\ time' = time + d /\ timer' = Infinite
      /\ pc' = IF d = 0 THEN "posted" ELSE "expire"
      /\ UNCHANGED <<start, tree, key, due, ub, fired>>
  BY DEF Wait
<1>2. time \in Nat /\ d \in Nat /\ d <= MaxStep /\ MaxStep \in Nat
  BY TimersAssumption DEF IInv, TypeOK
<1>3. TypeOK'
  BY <1>1, <1>2 DEF IInv, TypeOK
<1>4. \A x \in TimerSet' : KeyTime(x)' = KeyTime(x) /\ x \in TimerSet /\ KeyTime(x) \in Int
  <2>1. TimerSet' = TimerSet
    BY <1>1 DEF TimerSet
  <2>2. \A x \in TimerSet : KeyTime(x) \in Int
    BY KeyTimeNear DEF IInv
  <2> QED BY <1>1, <2>1, <2>2 DEF KeyTime, Offset
<1>5. KeysNear' /\ Sorted' /\ NotEarly' /\ NotOverslept'
  BY <1>1
     DEF IInv, KeysNear, Sorted, NotEarly, NotOverslept, KeyTime, Offset,
         TimerSet
<1>6. Window'
  <2> SUFFICES ASSUME ~ub, NEW x \in TimerSet'
               PROVE  /\ time' - MaxStep <= KeyTime(x)
                      /\ KeyTime(x) + LazyDelay + MaxStep < time' + Half
    BY <1>1, <1>4 DEF Window
  <2>1. time <= KeyTime(x) /\ KeyTime(x) + LazyDelay + MaxStep < time + Half
    BY <1>1, <1>4 DEF IInv, NonePast, Window
  <2> QED BY <1>1, <1>2, <1>4, <2>1, TimersAssumption
<1>7. NonePast'
  BY <1>1, <1>2, <1>4 DEF IInv, NonePast
<1> QED BY <1>3, <1>5, <1>6, <1>7 DEF IInv

\* The leftmost timer is over: no more than the lazy delay before its event
\* asked to be woken.
LEMMA ExpireStep ==
  ASSUME IInv, Expire
  PROVE  IInv'
<1>1. /\ pc = "expire" /\ tree # <<>> /\ tree' = Tail(tree) /\ pc' = "handler"
      /\ TRUE \in Expired(Head(tree))
      /\ fired' = time - due[Head(tree)]
      /\ ub' = (ub \/ Overflows(key[Head(tree)], Msec))
      /\ key' = [key EXCEPT ![Head(tree)] = 0]
      /\ due' = [due EXCEPT ![Head(tree)] = 0]
      /\ UNCHANGED <<time, start, timer>>
  BY DEF Expire, Forget
<1>2. /\ tree' \in Seq(Events) /\ IsInjective(tree') /\ TimerSet' = TimerSet \ {Head(tree)}
      /\ Head(tree) \in TimerSet
      /\ \A i, j \in DOMAIN tree' : i < j =>
           \E n, l \in DOMAIN tree : n < l /\ tree'[i] = tree[n] /\ tree'[j] = tree[l]
  <2> DEFINE r == Tail(tree)
  <2>1. tree \in Seq(Events) /\ IsInjective(tree)
    BY DEF IInv, TypeOK
  <2>2. /\ r \in Seq(Events) /\ IsInjective(r) /\ ToSet(r) = ToSet(tree) \ {Head(tree)}
        /\ Head(tree) \in ToSet(tree)
        /\ \A i, j \in DOMAIN r : i < j =>
             \E n, l \in DOMAIN tree : n < l /\ r[i] = tree[n] /\ r[j] = tree[l]
    BY <1>1, <2>1, LeftmostLeaves
  <2>3. tree' = r
    BY <1>1
  <2> HIDE DEF r
  <2> QED BY <2>2, <2>3 DEF TimerSet
<1>3. /\ Head(tree) \in Events /\ due[Head(tree)] \in Nat
      /\ KeyTime(Head(tree)) \in Int
      /\ KeyTime(Head(tree)) > due[Head(tree)] - LazyDelay
  BY <1>2, KeyTimeNear, TimersAssumption DEF IInv
<1>4. TypeOK'
  BY <1>1, <1>2, <1>3, ModulusType, SMTT(60) DEF IInv, TypeOK
<1>5. \A x \in TimerSet' : key'[x] = key[x] /\ due'[x] = due[x]
  <2>1. \A x \in TimerSet : x \in Events
    BY KeyTimeNear DEF IInv
  <2> QED BY <1>1, <1>2, <2>1 DEF IInv, TypeOK
<1>6. KeysNear' /\ Window' /\ Sorted'
  BY <1>1, <1>2, <1>5, Fewer DEF IInv
<1>7. NonePast' /\ NotOverslept'
  BY <1>1 DEF NonePast, NotOverslept
<1>8. NotEarly'
  <2> SUFFICES ASSUME ~ub' PROVE fired' > -LazyDelay
    BY DEF NotEarly
  <2>1. ~ub /\ ~Overflows(key[Head(tree)], Msec)
    BY <1>1
  <2>2. Differences(key[Head(tree)], Msec) = {KeyTime(Head(tree)) - time}
    BY <1>2, <2>1, CompareNow DEF IInv
  <2>3. KeyTime(Head(tree)) - time <= 0
    BY <1>1, <2>2 DEF Expired
  <2>4. time \in Nat
    BY DEF IInv, TypeOK
  <2> QED BY <1>1, <1>3, <2>3, <2>4, TimersAssumption, SMTT(60)
<1> QED BY <1>4, <1>6, <1>7, <1>8 DEF IInv

\* The leftmost timer is not over, so none is.
LEMMA ExpireDoneStep ==
  ASSUME IInv, ExpireDone
  PROVE  /\ IInv'
         /\ ~ub' => \A e \in TimerSet : time < KeyTime(e)
<1>1. /\ pc = "expire" /\ pc' = "posted"
      /\ tree # <<>> => FALSE \in Expired(Head(tree))
      /\ ub' = (ub \/ (tree # <<>> /\ Overflows(key[Head(tree)], Msec)))
      /\ UNCHANGED <<time, start, tree, key, due, timer, fired>>
  BY DEF ExpireDone
<1>2. ASSUME ~ub', NEW e \in TimerSet PROVE time < KeyTime(e)
  <2>1. tree # <<>>
    BY DEF TimerSet, ToSet
  <2>2. ~ub /\ ~Overflows(key[Head(tree)], Msec)
    BY <1>1, <1>2, <2>1
  <2>3. Head(tree) \in TimerSet /\ KeyTime(Head(tree)) <= KeyTime(e)
    BY <2>1, <2>2, HeadFirst DEF IInv
  <2>4. Differences(key[Head(tree)], Msec) = {KeyTime(Head(tree)) - time}
    BY <2>2, <2>3, CompareNow DEF IInv
  <2>5. ~(KeyTime(Head(tree)) - time <= 0)
    BY <1>1, <2>1, <2>4 DEF Expired
  <2>6. KeyTime(Head(tree)) \in Int /\ KeyTime(e) \in Int /\ time \in Nat
    BY <2>3, KeyTimeNear DEF IInv, TypeOK
  <2> QED BY <2>3, <2>5, <2>6
<1>3. TypeOK'
  BY <1>1 DEF IInv, TypeOK
<1>4. \A x \in TimerSet' : KeyTime(x)' = KeyTime(x) /\ x \in TimerSet /\ KeyTime(x) \in Int
  <2>1. TimerSet' = TimerSet
    BY <1>1 DEF TimerSet
  <2>2. \A x \in TimerSet : KeyTime(x) \in Int
    BY KeyTimeNear DEF IInv
  <2> QED BY <1>1, <2>1, <2>2 DEF KeyTime, Offset
<1>5. ~ub' => ~ub
  BY <1>1
<1>6. KeysNear' /\ Window' /\ NotEarly' /\ NotOverslept'
  BY <1>1, <1>4, <1>5 DEF IInv, KeysNear, Window, NotEarly, NotOverslept
<1>7. Sorted'
  BY <1>1, <1>5 DEF IInv, Sorted, KeyTime, Offset
<1>8. NonePast'
  <2>1. time \in Nat
    BY DEF IInv, TypeOK
  <2> QED BY <1>1, <1>2, <1>4, <2>1 DEF NonePast
<1> QED BY <1>2, <1>3, <1>6, <1>7, <1>8 DEF IInv

-----------------------------------------------------------------------------
\* The invariant holds when the worker starts.
LEMMA InitIInv == Init => IInv
<1> SUFFICES ASSUME Init PROVE IInv
  OBVIOUS
<1>1. tree = <<>> /\ TimerSet = {} /\ DOMAIN tree = {}
  BY DEF Init, TimerSet, ToSet
<1>2. TypeOK
  <2>1. tree \in Seq(Events) /\ IsInjective(tree)
    BY <1>1 DEF IsInjective
  <2>2. key \in [Events -> 0..(Modulus - 1)] /\ due \in [Events -> Nat]
    BY ModulusType DEF Init
  <2>3. time \in Nat /\ start \in Starts /\ fired \in Int
    BY TimersAssumption DEF Init
  <2> QED BY <2>1, <2>2, <2>3 DEF Init, TypeOK
<1>3. KeysNear /\ Window /\ Sorted /\ NonePast /\ NotEarly /\ NotOverslept
  BY <1>1, TimersAssumption
     DEF Init, KeysNear, Window, Sorted, NonePast, NotEarly, NotOverslept
<1> QED BY <1>2, <1>3 DEF IInv

\* Every step keeps it.
LEMMA NextIInv == IInv /\ [Next]_vars => IInv'
<1> SUFFICES ASSUME IInv, [Next]_vars PROVE IInv'
  OBVIOUS
<1>1. ASSUME NEW e \in Events, NEW d \in Delays, AddTimer(e, d) PROVE IInv'
  BY <1>1, KeepStep, InsertStep
<1>2. CASE HandlerReturn
  BY <1>2, TimersAssumption
     DEF HandlerReturn, IInv, TypeOK, KeysNear, Window, Sorted, NonePast,
     NotEarly, NotOverslept, KeyTime, Offset, TimerSet
<1>3. CASE PostedDone
  BY <1>3 DEF PostedDone, IInv, TypeOK, KeysNear, Window, Sorted, NonePast,
     NotEarly, NotOverslept, KeyTime, Offset, TimerSet
<1>4. CASE UNCHANGED vars
  BY <1>4 DEF vars, IInv, TypeOK, KeysNear, Window, Sorted, NonePast,
     NotEarly, NotOverslept, KeyTime, Offset, TimerSet, Msec
<1> QED BY <1>1, <1>2, <1>3, <1>4, DelTimerStep, FindTimerStep, WaitStep,
           ExpireStep, ExpireDoneStep DEF Next

\* The invariant holds throughout.
LEMMA SpecIInv == Spec => []IInv
  BY InitIInv, NextIInv, PTL DEF Spec

\* Timers are on time, for every width of the millisecond counter and across
\* its wrap: keys stay near what was asked for, the tree is led by the event
\* due first, no event fires early, and the wait never lasts past a timer
\* (ngx_event_add_timer, ngx_rbtree_insert_timer_value, ngx_event_find_timer,
\* ngx_event_expire_timers).
THEOREM TimersAreOnTime == Spec => []TimersOnTime
<1>1. IInv => TimersOnTime
  <2> SUFFICES ASSUME IInv PROVE TimersOnTime
    OBVIOUS
  <2>1. KeyNearDue
    BY DEF IInv, KeyNearDue, KeysNear
  <2>2. FirstIsEarliest
    <3> SUFFICES ASSUME ~ub, tree # <<>>, NEW e \in TimerSet
                 PROVE  due[Head(tree)] < due[e] + 2 * LazyDelay - 1
      BY DEF FirstIsEarliest
    <3>1. Head(tree) \in TimerSet /\ KeyTime(Head(tree)) <= KeyTime(e)
      BY HeadFirst DEF IInv
    <3>2. /\ due[e] \in Nat /\ KeyTime(e) \in Int
          /\ KeyTime(e) < due[e] + LazyDelay
      BY KeyTimeNear DEF IInv
    <3>3. /\ due[Head(tree)] \in Nat /\ KeyTime(Head(tree)) \in Int
          /\ due[Head(tree)] - LazyDelay < KeyTime(Head(tree))
      BY <3>1, KeyTimeNear DEF IInv
    <3> QED BY <3>1, <3>2, <3>3, TimersAssumption
  <2> QED BY <2>1, <2>2 DEF IInv, TimersOnTime
<1> QED BY SpecIInv, <1>1, PTL

\* When ngx_event_expire_timers() returns, no overdue timer is left behind.
THEOREM NoTimerLeftOverdue == Spec => NoneOverdue
<1> DEFINE Left == pc = "expire" /\ pc' = "posted" /\ ~ub' =>
                     \A e \in TimerSet : due[e] + LazyDelay > time + 1
<1>1. ASSUME IInv, [Next]_vars PROVE Left
  <2> SUFFICES ASSUME pc = "expire", pc' = "posted", ~ub', NEW e \in TimerSet
               PROVE  due[e] + LazyDelay > time + 1
    OBVIOUS
  <2>1. ExpireDone
    BY <1>1
       DEF Next, vars, AddTimer, DelTimer, FindTimer, Wait, Expire,
           HandlerReturn, PostedDone
  <2>2. time < KeyTime(e)
    BY <1>1, <2>1, ExpireDoneStep
  <2>3. due[e] \in Nat /\ KeyTime(e) \in Int /\ KeyTime(e) < due[e] + LazyDelay /\ time \in Nat
    BY <1>1, KeyTimeNear DEF IInv, TypeOK
  <2> QED BY <2>2, <2>3, TimersAssumption
<1>2. IInv /\ [Next]_vars => [Left]_vars
  BY <1>1
<1> QED BY SpecIInv, <1>2, PTL DEF Spec, NoneOverdue
==============================================================================
