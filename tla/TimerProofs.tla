----------------------------- MODULE TimerProofs ----------------------------
(***************************************************************************)
(* Proofs about the timers, for any timers, any width of the tick counter  *)
(* and any times below half of its range.                                  *)
(***************************************************************************)
EXTENDS Timer, SequenceTheorems, WellFoundedInduction, TLAPS

(***************************************************************************)
(* Lists.  Only three things matter of a list: what is in it, that nothing *)
(* is in it twice, and what comes before what.                             *)
(***************************************************************************)
Elements(s) == {s[k] : k \in 1..Len(s)}
Distinct(s) == \A j, k \in 1..Len(s) : s[j] = s[k] => j = k
Before(s, u, v) == \E a, b \in 1..Len(s) : a < b /\ s[a] = u /\ s[b] = v

(* A set of numbers that is not empty has a least one. *)
LEMMA Least ==
    ASSUME NEW S \in SUBSET Nat, S # {}
    PROVE  \E k \in S : \A j \in S : k <= j
<1> DEFINE R == OpToRel(<, Nat)
<1>1. \E x \in S : \A y \in S : ~(<<y, x>> \in R)
  <2> HIDE DEF R
  <2>1. IsWellFoundedOn(R, Nat)
    BY NatLessThanWellFounded DEF R
  <2> QED BY <2>1, WFMin
<1>2. \A x, y \in Nat : <<y, x>> \in R <=> y < x
  BY DEF OpToRel
<1> HIDE DEF R
<1>3. PICK x \in S : \A y \in S : ~(<<y, x>> \in R)
  BY <1>1
<1>4. ASSUME NEW y \in S PROVE x <= y
  <2>1. x \in Nat /\ y \in Nat
    OBVIOUS
  <2>2. ~(y < x)
    BY <1>2, <1>3, <2>1
  <2> QED BY <2>1, <2>2
<1> QED BY <1>4

LEMMA InsertAtFacts ==
    ASSUME NEW T, NEW s \in Seq(T), NEW p \in 1..(Len(s) + 1), NEW t \in T
    PROVE  /\ InsertAt(s, p, t) \in Seq(T) /\ Len(InsertAt(s, p, t)) = Len(s) + 1
           /\ \A i \in 1..(Len(s) + 1) :
                 InsertAt(s, p, t)[i] = IF i < p THEN s[i] ELSE IF i = p THEN t ELSE s[i - 1]
<1> DEFINE a == SubSeq(s, 1, p - 1)
           b == SubSeq(s, p, Len(s))
<1>1. a \in Seq(T) /\ Len(a) = p - 1 /\ \A i \in 1..(p - 1) : a[i] = s[i]
  OBVIOUS
<1>2. /\ b \in Seq(T) /\ Len(b) = Len(s) - p + 1
      /\ \A i \in 1..(Len(s) - p + 1) : b[i] = s[p + i - 1]
  OBVIOUS
<1> HIDE DEF a, b
<1>3. InsertAt(s, p, t) = (a \o <<t>>) \o b
  BY DEF InsertAt, a, b
<1> DEFINE c == a \o <<t>>
<1>4. c \in Seq(T) /\ Len(c) = p /\ \A i \in 1..p : c[i] = IF i < p THEN s[i] ELSE t
  BY <1>1
<1> HIDE DEF c
<1>5. c \o b \in Seq(T) /\ Len(c \o b) = Len(s) + 1
  <2>1. c \o b \in Seq(T) /\ Len(c \o b) = Len(c) + Len(b)
    BY <1>2, <1>4, ConcatProperties, Zenon
  <2> QED BY <2>1, <1>2, <1>4
<1>6. \A i \in 1..(Len(s) + 1) : (c \o b)[i] = IF i <= p THEN c[i] ELSE b[i - p]
  BY <1>2, <1>4
<1>7. ASSUME NEW i \in 1..(Len(s) + 1)
      PROVE  (c \o b)[i] = IF i < p THEN s[i] ELSE IF i = p THEN t ELSE s[i - 1]
  BY <1>2, <1>4, <1>6
<1> QED BY <1>3, <1>5, <1>7 DEF c

LEMMA RemoveAtFacts ==
    ASSUME NEW T, NEW s \in Seq(T), NEW p \in 1..Len(s)
    PROVE  /\ RemoveAt(s, p) \in Seq(T) /\ Len(RemoveAt(s, p)) = Len(s) - 1
           /\ \A i \in 1..(Len(s) - 1) : RemoveAt(s, p)[i] = IF i < p THEN s[i] ELSE s[i + 1]
<1> DEFINE a == SubSeq(s, 1, p - 1)
           b == SubSeq(s, p + 1, Len(s))
<1>1. a \in Seq(T) /\ Len(a) = p - 1 /\ \A i \in 1..(p - 1) : a[i] = s[i]
  OBVIOUS
<1>2. b \in Seq(T) /\ Len(b) = Len(s) - p /\ \A i \in 1..(Len(s) - p) : b[i] = s[p + i]
  OBVIOUS
<1> HIDE DEF a, b
<1>3. RemoveAt(s, p) = a \o b
  BY DEF RemoveAt, a, b
<1>4. a \o b \in Seq(T) /\ Len(a \o b) = Len(s) - 1
  <2>1. a \o b \in Seq(T) /\ Len(a \o b) = Len(a) + Len(b)
    BY <1>1, <1>2, ConcatProperties, Zenon
  <2> QED BY <2>1, <1>1, <1>2
<1>5. \A i \in 1..(Len(s) - 1) : (a \o b)[i] = IF i < p THEN a[i] ELSE b[i - p + 1]
  BY <1>1, <1>2
<1>6. ASSUME NEW i \in 1..(Len(s) - 1) PROVE (a \o b)[i] = IF i < p THEN s[i] ELSE s[i + 1]
  BY <1>1, <1>2, <1>5
<1> QED BY <1>3, <1>4, <1>6

(* Without t, the rest keeps its order. *)
LEMMA WithoutList ==
    ASSUME NEW T, NEW s \in Seq(T), Distinct(s), NEW t
    PROVE  /\ Without(s, t) \in Seq(T) /\ Distinct(Without(s, t))
           /\ Elements(Without(s, t)) = Elements(s) \ {t}
           /\ \A u, v : Before(Without(s, t), u, v) <=> Before(s, u, v) /\ u # t /\ v # t
<1> DEFINE w == Without(s, t)
<1>1. CASE ~ \E k \in 1..Len(s) : s[k] = t
  <2>1. w = s
    BY <1>1 DEF Without
  <2> QED BY <1>1, <2>1 DEF Elements, Before
<1>2. CASE \E k \in 1..Len(s) : s[k] = t
  <2> DEFINE p == CHOOSE k \in 1..Len(s) : s[k] = t
  <2>1. p \in 1..Len(s) /\ s[p] = t
    BY <1>2
  <2> HIDE DEF p
  <2>2. w = RemoveAt(s, p)
    BY <1>2 DEF Without, p
  <2>3. /\ w \in Seq(T) /\ Len(w) = Len(s) - 1 /\ Len(s) \in Nat
        /\ \A i \in 1..(Len(s) - 1) : w[i] = IF i < p THEN s[i] ELSE s[i + 1]
    <3>1. Len(s) \in Nat
      OBVIOUS
    <3> HIDE DEF w
    <3> QED BY <2>1, <2>2, <3>1, RemoveAtFacts, Zenon
  <2> HIDE DEF w
  <2>4. Distinct(w)
    BY <2>1, <2>3 DEF Distinct
  <2>5. ASSUME NEW i \in 1..Len(s), i # p
        PROVE  /\ (IF i < p THEN i ELSE i - 1) \in 1..Len(w)
               /\ w[IF i < p THEN i ELSE i - 1] = s[i] /\ s[i] # t
    BY <2>1, <2>3, <2>5 DEF Distinct
  <2>6. ASSUME NEW i \in 1..Len(w)
        PROVE  /\ (IF i < p THEN i ELSE i + 1) \in 1..Len(s)
               /\ s[IF i < p THEN i ELSE i + 1] = w[i] /\ w[i] # t
    BY <2>1, <2>3 DEF Distinct
  <2>7. Elements(w) = Elements(s) \ {t}
    <3>1. ASSUME NEW x \in Elements(w) PROVE x \in Elements(s) \ {t}
      BY <2>6 DEF Elements
    <3>2. ASSUME NEW x \in Elements(s), x # t PROVE x \in Elements(w)
      <4>1. PICK i \in 1..Len(s) : x = s[i]
        BY DEF Elements
      <4> QED BY <4>1, <3>2, <2>1, <2>5 DEF Elements
    <3> QED BY <3>1, <3>2
  <2>8. ASSUME NEW u, NEW v, Before(w, u, v) PROVE Before(s, u, v) /\ u # t /\ v # t
    <3>1. PICK a \in 1..Len(w), b \in 1..Len(w) : a < b /\ w[a] = u /\ w[b] = v
      BY <2>8 DEF Before
    <3> DEFINE c == IF a < p THEN a ELSE a + 1
               d == IF b < p THEN b ELSE b + 1
    <3>2. c \in 1..Len(s) /\ d \in 1..Len(s) /\ s[c] = u /\ s[d] = v /\ u # t /\ v # t
      BY <2>6, <3>1
    <3>3. c < d
      BY <3>1, <2>1, <2>3
    <3> QED BY <3>2, <3>3 DEF Before
  <2>9. ASSUME NEW u, NEW v, Before(s, u, v), u # t, v # t PROVE Before(w, u, v)
    <3>1. PICK a \in 1..Len(s), b \in 1..Len(s) : a < b /\ s[a] = u /\ s[b] = v
      BY <2>9 DEF Before
    <3> DEFINE c == IF a < p THEN a ELSE a - 1
               d == IF b < p THEN b ELSE b - 1
    <3>2. a # p /\ b # p
      BY <3>1, <2>1, <2>9
    <3>3. c \in 1..Len(w) /\ d \in 1..Len(w) /\ w[c] = u /\ w[d] = v
      BY <2>5, <3>1, <3>2
    <3>4. c < d
      BY <3>1, <3>2, <2>1, <2>3
    <3> QED BY <3>3, <3>4 DEF Before
  <2> QED BY <2>3, <2>4, <2>7, <2>8, <2>9 DEF w
<1> QED BY <1>1, <1>2

(* A timer that is inserted comes after those before its place, and before *)
(* the others.                                                             *)
LEMMA InsertList ==
    ASSUME NEW T, NEW s \in Seq(T), Distinct(s), NEW t \in T, t \notin Elements(s),
           NEW p \in 1..(Len(s) + 1)
    PROVE  /\ InsertAt(s, p, t) \in Seq(T) /\ Distinct(InsertAt(s, p, t))
           /\ Elements(InsertAt(s, p, t)) = Elements(s) \cup {t}
           /\ \A u, v : Before(InsertAt(s, p, t), u, v) =>
                 \/ Before(s, u, v)
                 \/ u = t /\ \E i \in 1..Len(s) : i >= p /\ s[i] = v
                 \/ v = t /\ \E i \in 1..Len(s) : i < p /\ s[i] = u
<1> DEFINE w == InsertAt(s, p, t)
<1>1. /\ w \in Seq(T) /\ Len(w) = Len(s) + 1 /\ Len(s) \in Nat
      /\ \A i \in 1..(Len(s) + 1) : w[i] = IF i < p THEN s[i] ELSE IF i = p THEN t ELSE s[i - 1]
  <2>1. Len(s) \in Nat
    OBVIOUS
  <2>2. w = InsertAt(s, p, t)
    OBVIOUS
  <2> HIDE DEF w
  <2>3. w \in Seq(T) /\ Len(w) = Len(s) + 1
    BY <2>2, InsertAtFacts, SMTT(30)
  <2>4. \A i \in 1..(Len(s) + 1) : w[i] = IF i < p THEN s[i] ELSE IF i = p THEN t ELSE s[i - 1]
    BY <2>2, InsertAtFacts, SMTT(30)
  <2> QED BY <2>1, <2>3, <2>4, Zenon
<1> HIDE DEF w
<1>2. \A i \in 1..Len(s) : s[i] # t
  BY DEF Elements
<1>3. ASSUME NEW i \in 1..Len(w), i # p
      PROVE  /\ (IF i < p THEN i ELSE i - 1) \in 1..Len(s)
             /\ s[IF i < p THEN i ELSE i - 1] = w[i] /\ w[i] # t
  BY <1>1, <1>2, <1>3
<1>4. p \in 1..Len(w) /\ w[p] = t
  BY <1>1
<1>5. Distinct(w)
  <2> SUFFICES ASSUME NEW a \in 1..Len(w), NEW b \in 1..Len(w), w[a] = w[b] PROVE a = b
    BY DEF Distinct
  <2>1. CASE a = p \/ b = p
    BY <2>1, <1>3, <1>4
  <2>2. CASE a # p /\ b # p
    <3>1. (IF a < p THEN a ELSE a - 1) = (IF b < p THEN b ELSE b - 1)
      BY <2>2, <1>3 DEF Distinct
    <3> QED BY <3>1, <2>2, <1>1
  <2> QED BY <2>1, <2>2
<1>6. Elements(w) = Elements(s) \cup {t}
  <2>1. ASSUME NEW x \in Elements(w) PROVE x \in Elements(s) \cup {t}
    <3>1. PICK i \in 1..Len(w) : x = w[i]
      BY DEF Elements
    <3> QED BY <3>1, <1>3, <1>4 DEF Elements
  <2>2. ASSUME NEW x \in Elements(s) PROVE x \in Elements(w)
    <3>1. PICK i \in 1..Len(s) : x = s[i]
      BY DEF Elements
    <3>2. CASE i < p
      <4>1. i \in 1..Len(w) /\ w[i] = x
        BY <1>1, <3>1, <3>2
      <4> QED BY <4>1 DEF Elements
    <3>3. CASE ~(i < p)
      <4>1. i + 1 \in 1..Len(w) /\ w[i + 1] = x
        BY <1>1, <3>1, <3>3
      <4> QED BY <4>1 DEF Elements
    <3> QED BY <3>2, <3>3
  <2>3. t \in Elements(w)
    BY <1>4 DEF Elements
  <2> QED BY <2>1, <2>2, <2>3
<1>7. ASSUME NEW u, NEW v, Before(w, u, v)
      PROVE  \/ Before(s, u, v)
             \/ u = t /\ \E i \in 1..Len(s) : i >= p /\ s[i] = v
             \/ v = t /\ \E i \in 1..Len(s) : i < p /\ s[i] = u
  <2>1. PICK a \in 1..Len(w), b \in 1..Len(w) : a < b /\ w[a] = u /\ w[b] = v
    BY <1>7 DEF Before
  <2>2. CASE a = p
    <3>1. b - 1 \in 1..Len(s) /\ b - 1 >= p /\ s[b - 1] = v
      BY <1>1, <1>3, <2>1, <2>2
    <3> QED BY <3>1, <2>1, <2>2, <1>4
  <2>3. CASE b = p
    <3>1. a \in 1..Len(s) /\ a < p /\ s[a] = u
      BY <1>1, <1>3, <2>1, <2>3
    <3> QED BY <3>1, <2>1, <2>3, <1>4
  <2>4. CASE a # p /\ b # p
    <3> DEFINE c == IF a < p THEN a ELSE a - 1
               d == IF b < p THEN b ELSE b - 1
    <3>1. c \in 1..Len(s) /\ d \in 1..Len(s) /\ s[c] = u /\ s[d] = v
      BY <2>1, <2>4, <1>3
    <3>2. c < d
      BY <2>1, <2>4, <1>1
    <3> QED BY <3>1, <3>2 DEF Before
  <2> QED BY <2>2, <2>3, <2>4
<1> QED BY <1>1, <1>5, <1>6, <1>7 DEF w

LEMMA AppendList ==
    ASSUME NEW T, NEW s \in Seq(T), Distinct(s), NEW t \in T, t \notin Elements(s)
    PROVE  /\ Append(s, t) \in Seq(T) /\ Distinct(Append(s, t))
           /\ Elements(Append(s, t)) = Elements(s) \cup {t}
           /\ \A u, v : Before(s, u, v) => Before(Append(s, t), u, v)
           /\ \A u \in Elements(s) : Before(Append(s, t), u, t)
<1> DEFINE w == Append(s, t)
<1>1. /\ w \in Seq(T) /\ Len(w) = Len(s) + 1 /\ Len(s) \in Nat
      /\ \A i \in 1..Len(s) : w[i] = s[i]
      /\ w[Len(s) + 1] = t
  OBVIOUS
<1> HIDE DEF w
<1>2. \A i \in 1..Len(s) : s[i] # t
  BY DEF Elements
<1>3. \A i \in 1..Len(w) : i \in 1..Len(s) \/ i = Len(s) + 1
  BY <1>1
<1>4. \A i \in 1..Len(s) : i \in 1..Len(w) /\ i < Len(s) + 1
  BY <1>1
<1>5. Len(s) + 1 \in 1..Len(w)
  BY <1>1
<1>6. Distinct(w)
  BY <1>1, <1>2, <1>3 DEF Distinct
<1>7. Elements(w) = Elements(s) \cup {t}
  <2>1. ASSUME NEW x \in Elements(w) PROVE x \in Elements(s) \cup {t}
    BY <1>1, <1>3 DEF Elements
  <2>2. ASSUME NEW x \in Elements(s) \cup {t} PROVE x \in Elements(w)
    BY <1>1, <1>4, <1>5 DEF Elements
  <2> QED BY <2>1, <2>2
<1>8. ASSUME NEW u, NEW v, Before(s, u, v) PROVE Before(w, u, v)
  BY <1>1, <1>4, <1>8 DEF Before
<1>9. ASSUME NEW u \in Elements(s) PROVE Before(w, u, t)
  <2>1. PICK i \in 1..Len(s) : u = s[i]
    BY DEF Elements
  <2> QED BY <2>1, <1>1, <1>4, <1>5 DEF Before
<1> QED BY <1>1, <1>6, <1>7, <1>8, <1>9 DEF w

LEMMA TailList ==
    ASSUME NEW T, NEW s \in Seq(T), Distinct(s), s # <<>>
    PROVE  /\ Head(s) \in Elements(s) /\ Head(s) \in T
           /\ Tail(s) \in Seq(T) /\ Distinct(Tail(s))
           /\ Elements(Tail(s)) = Elements(s) \ {Head(s)}
           /\ \A u, v : Before(Tail(s), u, v) => Before(s, u, v) /\ u # Head(s) /\ v # Head(s)
           /\ \A v \in Elements(s) \ {Head(s)} : Before(s, Head(s), v)
<1> DEFINE w == Tail(s)
           h == Head(s)
<1>1. /\ w \in Seq(T) /\ Len(s) \in Nat /\ Len(s) >= 1 /\ Len(w) = Len(s) - 1 /\ h = s[1] /\ h \in T
      /\ \A i \in 1..Len(w) : w[i] = s[i + 1]
  OBVIOUS
<1> HIDE DEF w, h
<1>2. \A i \in 1..Len(w) : i + 1 \in 1..Len(s) /\ w[i] # h
  BY <1>1 DEF Distinct
<1>3. 1 \in 1..Len(s)
  BY <1>1
<1>4. Distinct(w)
  <2> SUFFICES ASSUME NEW a \in 1..Len(w), NEW b \in 1..Len(w), w[a] = w[b] PROVE a = b
    BY DEF Distinct
  <2>1. a + 1 = b + 1
    BY <1>1, <1>2 DEF Distinct
  <2> QED BY <2>1
<1>5. ASSUME NEW i \in 1..Len(s), s[i] # h PROVE i - 1 \in 1..Len(w) /\ w[i - 1] = s[i] /\ 1 < i
  BY <1>1, <1>5
<1>6. Elements(w) = Elements(s) \ {h}
  <2>1. ASSUME NEW x \in Elements(w) PROVE x \in Elements(s) \ {h}
    BY <1>1, <1>2 DEF Elements
  <2>2. ASSUME NEW x \in Elements(s), x # h PROVE x \in Elements(w)
    <3>1. PICK i \in 1..Len(s) : x = s[i]
      BY DEF Elements
    <3> QED BY <3>1, <2>2, <1>5 DEF Elements
  <2> QED BY <2>1, <2>2
<1>7. ASSUME NEW u, NEW v, Before(w, u, v) PROVE Before(s, u, v) /\ u # h /\ v # h
  <2>1. PICK a \in 1..Len(w), b \in 1..Len(w) : a < b /\ w[a] = u /\ w[b] = v
    BY <1>7 DEF Before
  <2>2. /\ a + 1 \in 1..Len(s) /\ b + 1 \in 1..Len(s) /\ a + 1 < b + 1
        /\ s[a + 1] = u /\ s[b + 1] = v /\ u # h /\ v # h
    BY <2>1, <1>1, <1>2
  <2> QED BY <2>2 DEF Before
<1>8. ASSUME NEW v \in Elements(s), v # h PROVE Before(s, h, v)
  <2>1. PICK i \in 1..Len(s) : v = s[i]
    BY DEF Elements
  <2> QED BY <2>1, <1>1, <1>3, <1>5, <1>8 DEF Before
<1>9. h \in Elements(s)
  BY <1>1, <1>3 DEF Elements
<1> QED BY <1>1, <1>4, <1>6, <1>7, <1>8, <1>9 DEF w, h

-----------------------------------------------------------------------------
(***************************************************************************)
(* The tick counter.  At(x) is the tick x ticks from now.                  *)
(***************************************************************************)
M == TickMax + 1
Mod(n, m) == n % m
At(x) == Mod(tick + x, M)

LEMMA ModValue ==
    ASSUME NEW m \in Nat \ {0}, NEW n \in 0..(2 * m - 1)
    PROVE  Mod(n, m) = IF n < m THEN n ELSE n - m
<1> USE DEF Mod
<1>1. CASE n < m
  BY <1>1
<1>2. CASE n >= m
  <2>1. ASSUME NEW d \in 0..(m - 1) PROVE (m * 1 + d) % m = d
    OBVIOUS
  <2>2. n - m \in 0..(m - 1) /\ n = m * 1 + (n - m)
    BY <1>2
  <2> QED BY <1>2, <2>1, <2>2
<1> QED BY <1>1, <1>2

LEMMA TickRange ==
    /\ M \in Nat \ {0} /\ Half \in Nat /\ 2 * Half < M /\ Tick = 0..(M - 1)
    /\ \A n \in Time : n \in Nat /\ n > 0 /\ n < Half
BY TimerAssumption DEF M, Half, Tick

LEMMA AtValue ==
    ASSUME tick \in Tick, NEW x \in 0..Half
    PROVE  At(x) = (IF tick + x < M THEN tick + x ELSE (tick + x) - M) /\ At(x) \in Tick
<1>1. tick + x \in 0..(2 * M - 1)
  BY TickRange
<1>2. At(x) = IF tick + x < M THEN tick + x ELSE (tick + x) - M
  <2>1. M \in Nat \ {0}
    BY TickRange
  <2> DEFINE n == tick + x
  <2>2. At(x) = Mod(n, M) /\ n \in 0..(2 * M - 1)
    BY <1>1 DEF At
  <2>3. ASSUME NEW k \in 0..(2 * M - 1) PROVE Mod(k, M) = IF k < M THEN k ELSE k - M
    BY <2>1, ModValue
  <2> HIDE DEF n
  <2>4. Mod(n, M) = IF n < M THEN n ELSE n - M
    BY <2>2, <2>3
  <2> QED BY <2>2, <2>4, Zenon DEF n
<1> QED BY <1>1, <1>2, TickRange

(* The difference of two ticks that are both near, as rt_tick_t has it. *)
LEMMA SubValue ==
    ASSUME tick \in Tick, NEW x \in 0..Half, NEW y \in 0..Half
    PROVE  Sub(At(x), At(y)) = IF x >= y THEN x - y ELSE M + x - y
<1> DEFINE a == At(x)
           b == At(y)
<1>r. M \in Nat \ {0} /\ Half \in Nat /\ 2 * Half < M /\ tick \in 0..(M - 1)
  BY TickRange
<1>1. /\ a = (IF tick + x < M THEN tick + x ELSE (tick + x) - M) /\ a \in 0..(M - 1)
      /\ b = (IF tick + y < M THEN tick + y ELSE tick + y - M) /\ b \in 0..(M - 1)
  BY AtValue, TickRange
<1> HIDE DEF a, b
<1>2. a + M - b \in 0..(2 * M - 1)
  BY <1>1, <1>r
<1>3. Mod(a + M - b, M) = IF a + M - b < M THEN a + M - b ELSE (a + M - b) - M
  <2> DEFINE n == a + M - b
  <2>1. n \in 0..(2 * M - 1)
    BY <1>2
  <2> HIDE DEF n
  <2>2. Mod(n, M) = IF n < M THEN n ELSE n - M
    BY <2>1, <1>r, ModValue
  <2> QED BY <2>2, Zenon DEF n
<1>4. Sub(a, b) = Mod(a + M - b, M)
  BY DEF Sub, M, Mod
<1> QED BY <1>1, <1>3, <1>4, <1>r DEF a, b

(* The first timer is due when nothing is left of its time, and a timer    *)
(* comes later when more is left of its time.                              *)
LEMMA DueTest ==
    ASSUME tick \in Tick, NEW x \in 0..(Half - 1)
    PROVE  Sub(tick, At(x)) < Half <=> x = 0
<1>r. M \in Nat \ {0} /\ Half \in Nat /\ 2 * Half < M /\ tick \in 0..(M - 1)
  BY TickRange
<1>1. At(0) = tick
  <2>1. 0 \in 0..Half
    BY <1>r
  <2> QED BY <2>1, <1>r, AtValue
<1>2. Sub(At(0), At(x)) = IF 0 >= x THEN 0 - x ELSE M + 0 - x
  BY <1>r, SubValue
<1> QED BY <1>1, <1>2, <1>r

LEMMA LaterTest ==
    ASSUME tick \in Tick, NEW x \in 0..(Half - 1), NEW y \in 0..(Half - 1)
    PROVE  Sub(At(x), At(y)) # 0 /\ Sub(At(x), At(y)) < Half <=> y < x
<1>r. M \in Nat \ {0} /\ Half \in Nat /\ 2 * Half < M
  BY TickRange
<1>1. Sub(At(x), At(y)) = IF x >= y THEN x - y ELSE M + x - y
  BY <1>r, SubValue
<1> QED BY <1>1, <1>r

(* A tick later, what was x ticks away is x - 1 ticks away. *)
LEMMA NextTick ==
    ASSUME tick \in Tick, tick' = Mod(tick + 1, M), NEW x \in 1..Half
    PROVE  tick' \in Tick /\ Mod(tick' + (x - 1), M) = At(x)
<1>r. M \in Nat \ {0} /\ Half \in Nat /\ 2 * Half < M /\ Tick = 0..(M - 1)
  BY TickRange
<1>1. tick' = IF tick + 1 < M THEN tick + 1 ELSE tick + 1 - M
  <2>1. tick + 1 \in 0..(2 * M - 1)
    BY <1>r
  <2> QED BY <2>1, <1>r, ModValue
<1>2. tick' + (x - 1) \in 0..(2 * M - 1)
  BY <1>1, <1>r
<1>3. Mod(tick' + (x - 1), M) = IF tick' + (x - 1) < M THEN tick' + (x - 1) ELSE tick' + (x - 1) - M
  BY <1>2, <1>r, ModValue
<1>4. At(x) = IF tick + x < M THEN tick + x ELSE (tick + x) - M
  BY <1>r, AtValue
<1> QED BY <1>1, <1>3, <1>4, <1>r

-----------------------------------------------------------------------------
(***************************************************************************)
(* The inductive invariant.                                                *)
(***************************************************************************)

(* The history knows the timers that run. *)
ListInv == Distinct(list) /\ Distinct(started) /\ Elements(started) = Running

(* What the tick counter and timeout_tick say is what is left of the time: *)
(* less than half of the range, so that a difference is never mistaken.    *)
DueInv == \A t \in Running :
              asked[t] \in Time /\ age[t] <= asked[t] /\ timeout_tick[t] = At(Left(t))

(* A thread never sees a timer that is due. *)
OverdueInv == isr = "none" => \A t \in Running : age[t] < asked[t]

FiredInv == fired # NoTimer =>
                isr = "callback" /\ fired \notin Running /\ age[fired] = asked[fired]

OrderInv == \A u, v \in Timer : Before(list, u, v) =>
                \/ Left(u) < Left(v)
                \/ Left(u) = Left(v) /\ Before(started, u, v)

FlagInv == /\ activated = Running \cup (IF fired \in Periodic THEN {fired} ELSE {})
           /\ activated \subseteq attached

TimerInv == TypeOK /\ ListInv /\ DueInv /\ OverdueInv /\ FiredInv /\ OrderInv /\ FlagInv

LEMMA InitInv == Init => TimerInv
<1> SUFFICES ASSUME Init PROVE TimerInv
  OBVIOUS
<1> USE DEF Init
<1>1. Len(list) = 0 /\ Len(started) = 0
  OBVIOUS
<1>2. Running = {} /\ Elements(started) = {}
  BY <1>1 DEF Running, Elements
<1>3. Distinct(list) /\ Distinct(started) /\ \A u, v : ~Before(list, u, v)
  BY <1>1 DEF Distinct, Before
<1>4. 0 \in Tick /\ NoTimer \notin Periodic
  BY TickRange, TimerAssumption
<1>5. TypeOK
  <2>1. (CHOOSE n \in Time : TRUE) \in Time
    BY TimerAssumption
  <2>2. init_tick \in [Timer -> Time]
    BY <2>1
  <2> QED BY <1>4, <2>2 DEF TypeOK
<1> QED
  BY <1>2, <1>3, <1>4, <1>5
  DEF TimerInv, ListInv, DueInv, OverdueInv, FiredInv, OrderInv, FlagInv

(* What is left of the time of a timer that runs is below half the range. *)
LEMMA RunningLeft ==
    ASSUME TimerInv, NEW t \in Running
    PROVE  /\ t \in Timer /\ age[t] \in Nat /\ asked[t] \in Nat
           /\ Left(t) \in 0..(Half - 1) /\ timeout_tick[t] = At(Left(t))
<1>1. t \in Timer
  BY DEF TimerInv, TypeOK, Running
<1>2. age[t] \in Nat /\ asked[t] \in Time /\ age[t] <= asked[t] /\ timeout_tick[t] = At(Left(t))
  BY <1>1 DEF TimerInv, TypeOK, DueInv
<1> QED BY <1>1, <1>2, TickRange DEF Left

(* To stop or detach a timer takes it away, and nothing else changes. *)
LEMMA StopStep ==
    ASSUME TimerInv, NEW t \in Timer, Stop(t), init_tick' = init_tick,
           attached' = attached \/ attached' = attached \ {t}
    PROVE  TimerInv'
<1>0. TypeOK /\ ListInv /\ DueInv /\ OverdueInv /\ FiredInv /\ OrderInv /\ FlagInv
  BY DEF TimerInv
<1>1. /\ list' \in Seq(Timer) /\ Distinct(list') /\ Running' = Running \ {t}
      /\ \A u, v : Before(list', u, v) <=> Before(list, u, v) /\ u # t /\ v # t
  <2>1. list' = Without(list, t) /\ list \in Seq(Timer) /\ Distinct(list)
    BY <1>0 DEF Stop, Removed, TypeOK, ListInv
  <2>2. Running = Elements(list) /\ Running' = Elements(list')
    BY DEF Running, Elements
  <2> QED BY <2>1, <2>2, WithoutList
<1>2. /\ started' \in Seq(Timer) /\ Distinct(started') /\ Elements(started') = Elements(started) \ {t}
      /\ \A u, v : Before(started', u, v) <=> Before(started, u, v) /\ u # t /\ v # t
  <2>1. started' = Without(started, t) /\ started \in Seq(Timer) /\ Distinct(started)
    BY <1>0 DEF Stop, Forgotten, TypeOK, ListInv
  <2> QED BY <2>1, WithoutList
<1>3. /\ tick' = tick /\ isr' = isr /\ activated' = activated \ {t}
      /\ fired' = IF fired = t THEN NoTimer ELSE fired
      /\ timeout_tick' = [timeout_tick EXCEPT ![t] = 0]
      /\ age' = [age EXCEPT ![t] = 0] /\ asked' = [asked EXCEPT ![t] = 0]
  BY DEF Stop, Forgotten
<1>4. TypeOK'
  <2>1. 0 \in Tick
    BY TickRange
  <2> QED BY <1>0, <1>1, <1>2, <1>3, <2>1 DEF TypeOK
<1>5. \A u \in Timer : u # t =>
        age'[u] = age[u] /\ asked'[u] = asked[u] /\ timeout_tick'[u] = timeout_tick[u]
  BY <1>0, <1>3 DEF TypeOK
<1>6. \A u \in Running' : u \in Running /\ u \in Timer /\ u # t
  <2>1. Running \subseteq Timer
    BY <1>0 DEF Running, TypeOK
  <2> QED BY <1>1, <2>1
<1>7. ListInv'
  BY <1>0, <1>1, <1>2 DEF ListInv
<1>8. DueInv' /\ OverdueInv'
  <2>1. \A x : At(x)' = At(x)
    BY <1>3 DEF At
  <2> QED BY <1>0, <1>3, <1>5, <1>6, <2>1 DEF DueInv, OverdueInv, Left
<1>9. FiredInv'
  BY <1>0, <1>1, <1>3, <1>5 DEF FiredInv, TypeOK
<1>10. OrderInv'
  <2> SUFFICES ASSUME NEW u \in Timer, NEW v \in Timer, Before(list', u, v)
               PROVE  \/ Left(u)' < Left(v)'
                      \/ Left(u)' = Left(v)' /\ Before(started', u, v)
    BY DEF OrderInv, Before
  <2>1. Before(list, u, v) /\ u # t /\ v # t
    BY <1>1
  <2>2. Left(u)' = Left(u) /\ Left(v)' = Left(v)
    BY <1>5, <2>1 DEF Left
  <2>3. Before(started, u, v) => Before(started', u, v)
    BY <1>2, <2>1
  <2> QED BY <1>0, <2>1, <2>2, <2>3 DEF OrderInv
<1>11. FlagInv'
  <2>1. NoTimer \notin Periodic
    BY TimerAssumption
  <2> QED BY <1>0, <1>1, <1>3, <2>1 DEF FlagInv, FiredInv
<1> QED BY <1>4, <1>7, <1>8, <1>9, <1>10, <1>11 DEF TimerInv

(* The loop of rt_timer_start finds a place, and it is the right one. *)
LEMMA PlaceFound ==
    ASSUME NEW l \in Seq(Timer), NEW when
    PROVE  /\ Place(l, when) \in 1..(Len(l) + 1)
           /\ Place(l, when) \in 1..Len(l) => Later(l[Place(l, when)], when)
           /\ \A j \in 1..(Place(l, when) - 1) : ~Later(l[j], when)
<1> DEFINE S == {k \in 1..(Len(l) + 1) : k \in 1..Len(l) => Later(l[k], when)}
<1>1. S \in SUBSET Nat /\ Len(l) + 1 \in S
  OBVIOUS
<1> HIDE DEF S
<1>2. PICK k \in S : \A j \in S : k <= j
  BY <1>1, Least
<1>3. k \in 1..(Len(l) + 1) /\ (k \in 1..Len(l) => Later(l[k], when))
  BY DEF S
<1>4. ASSUME NEW j \in 1..(k - 1) PROVE ~Later(l[j], when)
  <2>1. j \in 1..(Len(l) + 1) /\ ~(k <= j) /\ j \in 1..Len(l)
    BY <1>3
  <2>2. j \notin S
    BY <1>2, <2>1
  <2> QED BY <2>1, <2>2 DEF S
<1> QED BY <1>3, <1>4, Zenon DEF Place

(* A timer that is started joins the list in its turn. *)
LEMMA StartStep ==
    ASSUME TimerInv, NEW t \in Timer, t \in attached, Start(t),
           fired' = IF fired = t THEN NoTimer ELSE fired,
           isr' = isr \/ (fired' = NoTimer /\ isr' = "check")
    PROVE  TimerInv'
<1>0. TypeOK /\ ListInv /\ DueInv /\ OverdueInv /\ FiredInv /\ OrderInv /\ FlagInv
  BY DEF TimerInv
<1> DEFINE others == Without(list, t)
           n == init_tick[t]
           when == Due(t)
           p == Place(others, when)
           rest == Without(started, t)
<1>1. /\ tick' = tick /\ attached' = attached /\ init_tick' = init_tick
      /\ timeout_tick' = [timeout_tick EXCEPT ![t] = when]
      /\ list' = InsertAt(others, p, t) /\ activated' = activated \cup {t}
      /\ age' = [age EXCEPT ![t] = 0] /\ asked' = [asked EXCEPT ![t] = n]
      /\ started' = Append(rest, t)
  BY DEF Start, Removed
<1>2. n \in Time /\ n \in 1..(Half - 1) /\ when = At(n) /\ when \in Tick
  <2>1. n \in Time
    BY <1>0 DEF TypeOK
  <2>2. n \in 1..(Half - 1) /\ n \in 0..Half
    BY <2>1, TickRange
  <2>3. when = At(n)
    BY DEF Due, At, Mod, M
  <2> QED BY <1>0, <2>1, <2>2, <2>3, AtValue DEF TypeOK
<1>3. /\ others \in Seq(Timer) /\ Distinct(others) /\ Elements(others) = Running \ {t}
      /\ \A u, v : Before(others, u, v) <=> Before(list, u, v) /\ u # t /\ v # t
  <2>1. list \in Seq(Timer) /\ Distinct(list) /\ Running = Elements(list)
    BY <1>0 DEF TypeOK, ListInv, Running, Elements
  <2> QED BY <2>1, WithoutList
<1>4. /\ rest \in Seq(Timer) /\ Distinct(rest) /\ Elements(rest) = Running \ {t}
      /\ \A u, v : Before(rest, u, v) <=> Before(started, u, v) /\ u # t /\ v # t
  <2>1. started \in Seq(Timer) /\ Distinct(started) /\ Running = Elements(started)
    BY <1>0 DEF TypeOK, ListInv
  <2> QED BY <2>1, WithoutList
<1> HIDE DEF others, n, when, rest
<1>5. /\ p \in 1..(Len(others) + 1) /\ Len(others) \in Nat
      /\ p \in 1..Len(others) => Later(others[p], when)
      /\ \A j \in 1..(p - 1) : ~Later(others[j], when)
  <2>1. Len(others) \in Nat
    BY <1>3
  <2> QED BY <1>3, <2>1, PlaceFound
<1> HIDE DEF p
<1>6. /\ list' \in Seq(Timer) /\ Distinct(list') /\ Running' = Running \cup {t}
      /\ \A u, v : Before(list', u, v) =>
            \/ Before(others, u, v)
            \/ u = t /\ \E i \in 1..Len(others) : i >= p /\ others[i] = v
            \/ v = t /\ \E i \in 1..Len(others) : i < p /\ others[i] = u
  <2>1. t \notin Elements(others)
    BY <1>3
  <2> DEFINE w == InsertAt(others, p, t)
  <2>2. /\ w \in Seq(Timer) /\ Distinct(w) /\ Elements(w) = Elements(others) \cup {t}
        /\ \A u, v : Before(w, u, v) =>
              \/ Before(others, u, v)
              \/ u = t /\ \E i \in 1..Len(others) : i >= p /\ others[i] = v
              \/ v = t /\ \E i \in 1..Len(others) : i < p /\ others[i] = u
    BY <1>3, <1>5, <2>1, InsertList
  <2>3. Running' = Elements(list') /\ list' = w
    BY <1>1 DEF Running, Elements
  <2> HIDE DEF w
  <2> QED BY <1>3, <2>2, <2>3
<1>7. /\ started' \in Seq(Timer) /\ Distinct(started') /\ Elements(started') = Running'
      /\ \A u, v : Before(rest, u, v) => Before(started', u, v)
      /\ \A u \in Running \ {t} : Before(started', u, t)
  <2>1. t \notin Elements(rest)
    BY <1>4
  <2> QED BY <1>1, <1>4, <1>6, <2>1, AppendList
<1>8. TypeOK'
  <2>1. n \in Nat /\ 0 \in Nat
    BY <1>2, TickRange
  <2>2. isr' \in {"none", "check", "callback"} /\ fired' \in Timer \cup {NoTimer}
    BY <1>0 DEF TypeOK
  <2> QED BY <1>0, <1>1, <1>2, <1>6, <1>7, <2>1, <2>2 DEF TypeOK
<1>9. /\ age'[t] = 0 /\ asked'[t] = n /\ timeout_tick'[t] = when /\ Left(t)' = n
      /\ \A u \in Timer : u # t => /\ age'[u] = age[u] /\ asked'[u] = asked[u]
                                  /\ timeout_tick'[u] = timeout_tick[u] /\ Left(u)' = Left(u)
  BY <1>0, <1>1, <1>2 DEF TypeOK, Left
<1>10. Running \subseteq Timer
  BY <1>0 DEF Running, TypeOK
<1>11. ListInv'
  BY <1>6, <1>7 DEF ListInv
<1>12. DueInv' /\ OverdueInv'
  <2>2. ASSUME NEW u \in Running', u # t
        PROVE  /\ asked'[u] \in Time /\ age'[u] <= asked'[u] /\ timeout_tick'[u] = At(Left(u))
               /\ isr' = "none" => age'[u] < asked'[u]
    BY <1>0, <1>6, <1>9, <1>10, <2>2 DEF DueInv, OverdueInv
  <2>3. /\ asked'[t] \in Time /\ age'[t] <= asked'[t] /\ timeout_tick'[t] = At(Left(t)')
        /\ age'[t] < asked'[t]
    BY <1>2, <1>9
  <2>4. \A u \in Running' : timeout_tick'[u] = At(Left(u))'
    <3> SUFFICES ASSUME NEW u \in Running' PROVE timeout_tick'[u] = At(Left(u))'
      OBVIOUS
    <3>1. At(Left(u))' = At(Left(u)')
      BY <1>1 DEF At
    <3>2. CASE u = t
      BY <2>3, <3>1, <3>2
    <3>3. CASE u # t
      <4>1. Left(u)' = Left(u)
        BY <3>3, <1>6, <1>9, <1>10
      <4> QED BY <2>2, <3>1, <3>3, <4>1
    <3> QED BY <3>2, <3>3
  <2> QED BY <2>2, <2>3, <2>4 DEF DueInv, OverdueInv
<1>13. FiredInv'
  BY <1>0, <1>6, <1>9 DEF FiredInv, TypeOK
<1>14. OrderInv'
  <2>1. ASSUME NEW i \in 1..Len(others)
        PROVE  /\ others[i] \in Running \ {t} /\ others[i] \in Timer
               /\ Left(others[i]) \in 0..(Half - 1)
               /\ Later(others[i], when) <=> n < Left(others[i])
    <3>1. others[i] \in Running \ {t}
      BY <1>3 DEF Elements
    <3>2. /\ others[i] \in Timer /\ Left(others[i]) \in 0..(Half - 1)
          /\ timeout_tick[others[i]] = At(Left(others[i]))
      BY <3>1, RunningLeft
    <3>3. n \in 0..(Half - 1) /\ tick \in Tick
      BY <1>0, <1>2 DEF TypeOK
    <3> QED BY <1>2, <3>1, <3>2, <3>3, LaterTest DEF Later
  <2>2. ASSUME NEW i \in 1..Len(others), i < p PROVE Left(others[i]) <= n
    <3>1. i \in 1..(p - 1)
      BY <2>2, <1>5
    <3> QED BY <3>1, <2>1, <1>2, <1>5
  <2>3. ASSUME NEW i \in 1..Len(others), i >= p PROVE n < Left(others[i])
    <3>1. p \in 1..Len(others)
      BY <2>3, <1>5
    <3>2. n < Left(others[p])
      BY <3>1, <2>1, <1>5
    <3>3. CASE i = p
      BY <3>2, <3>3
    <3>4. CASE i > p
      <4>1. Before(others, others[p], others[i])
        BY <3>1, <3>4 DEF Before
      <4>2. Before(list, others[p], others[i])
        BY <4>1, <1>3
      <4>3. Left(others[p]) <= Left(others[i])
        BY <4>2, <1>0, <2>1, <3>1 DEF OrderInv
      <4> QED BY <4>3, <3>2, <2>1, <3>1, <1>2
    <3> QED BY <2>3, <3>3, <3>4, <1>5
  <2> SUFFICES ASSUME NEW u \in Timer, NEW v \in Timer, Before(list', u, v)
               PROVE  \/ Left(u)' < Left(v)'
                      \/ Left(u)' = Left(v)' /\ Before(started', u, v)
    BY DEF OrderInv, Before
  <2>4. CASE Before(others, u, v)
    <3>1. Before(list, u, v) /\ u # t /\ v # t
      BY <2>4, <1>3
    <3>2. Left(u)' = Left(u) /\ Left(v)' = Left(v)
      BY <1>9, <3>1
    <3>3. Before(started, u, v) => Before(started', u, v)
      BY <1>4, <1>7, <3>1
    <3> QED BY <1>0, <3>1, <3>2, <3>3 DEF OrderInv
  <2>5. CASE u = t /\ \E i \in 1..Len(others) : i >= p /\ others[i] = v
    <3>1. n < Left(v) /\ v # t
      BY <2>1, <2>3, <2>5
    <3> QED BY <1>9, <2>5, <3>1
  <2>6. CASE v = t /\ \E i \in 1..Len(others) : i < p /\ others[i] = u
    <3>1. Left(u) <= n /\ u \in Running \ {t} /\ Left(u) \in 0..(Half - 1)
      BY <2>1, <2>2, <2>6
    <3> QED BY <1>2, <1>7, <1>9, <2>6, <3>1
  <2> QED BY <1>6, <2>4, <2>5, <2>6
<1>15. FlagInv'
  <2>1. NoTimer \notin Periodic
    BY TimerAssumption
  <2> QED BY <1>0, <1>1, <1>6, <2>1 DEF FlagInv
<1> QED BY <1>8, <1>11, <1>12, <1>13, <1>14, <1>15 DEF TimerInv

LEMMA TickStep ==
    ASSUME TimerInv, rt_tick_increase
    PROVE  TimerInv'
<1>0. TypeOK /\ ListInv /\ DueInv /\ OverdueInv /\ FiredInv /\ OrderInv /\ FlagInv
  BY DEF TimerInv
<1>1. /\ isr = "none" /\ tick' = Mod(tick + 1, M) /\ isr' = "check"
      /\ age' = [t \in Timer |-> IF t \in Running THEN age[t] + 1 ELSE age[t]]
      /\ UNCHANGED <<list, activated, timeout_tick, attached, init_tick, fired, asked, started>>
  BY DEF rt_tick_increase, objects, Mod, M
<1>2. Running' = Running /\ Running \subseteq Timer /\ fired = NoTimer
  BY <1>0, <1>1 DEF Running, TypeOK, FiredInv
<1>3. ASSUME NEW t \in Running
      PROVE  /\ age'[t] = age[t] + 1 /\ Left(t)' = Left(t) - 1 /\ Left(t) \in 1..Half
             /\ asked[t] \in Time /\ age'[t] <= asked[t]
  <2>1. /\ t \in Timer /\ age[t] \in Nat /\ asked[t] \in Nat /\ Left(t) \in 0..(Half - 1)
        /\ age[t] < asked[t] /\ asked[t] \in Time
    BY <1>0, <1>1, RunningLeft DEF OverdueInv, DueInv
  <2> QED BY <1>1, <2>1, TickRange DEF Left
<1>4. tick' \in Tick
  <2>1. 1 \in 1..Half
    <3>1. PICK x \in Time : TRUE
      BY TimerAssumption
    <3> QED BY <3>1, TickRange
  <2> QED BY <1>0, <1>1, <2>1, NextTick DEF TypeOK
<1>5. TypeOK'
  BY <1>0, <1>1, <1>4 DEF TypeOK
<1>6. ListInv' /\ FlagInv' /\ FiredInv' /\ OverdueInv'
  BY <1>0, <1>1, <1>2 DEF ListInv, FlagInv, FiredInv, OverdueInv
<1>7. DueInv'
  <2> SUFFICES ASSUME NEW t \in Running
               PROVE  (asked[t] \in Time /\ age[t] <= asked[t] /\ timeout_tick[t] = At(Left(t)))'
    BY <1>2 DEF DueInv
  <2>1. At(Left(t))' = Mod(tick' + (Left(t) - 1), M)
    BY <1>3 DEF At
  <2>2. Mod(tick' + (Left(t) - 1), M) = At(Left(t))
    BY <1>0, <1>1, <1>3, NextTick DEF TypeOK
  <2> QED BY <1>0, <1>1, <1>3, <2>1, <2>2 DEF DueInv
<1>8. OrderInv'
  <2> SUFFICES ASSUME NEW u \in Timer, NEW v \in Timer, Before(list, u, v)
               PROVE  \/ Left(u)' < Left(v)'
                      \/ Left(u)' = Left(v)' /\ Before(started, u, v)
    BY <1>1 DEF OrderInv, Before
  <2>1. u \in Running /\ v \in Running
    BY DEF Before, Running
  <2> QED BY <1>0, <1>3, <2>1 DEF OrderInv
<1> QED BY <1>5, <1>6, <1>7, <1>8 DEF TimerInv

(* Nothing is left of the time of the timer whose function is called. *)
LEMMA FirstStep ==
    ASSUME TimerInv, CheckFirst
    PROVE  TimerInv'
<1>0. TypeOK /\ ListInv /\ DueInv /\ OverdueInv /\ FiredInv /\ OrderInv /\ FlagInv
  BY DEF TimerInv
<1> DEFINE h == Head(list)
<1>1. /\ isr = "check" /\ isr' = "callback" /\ list # <<>> /\ list' = Tail(list)
      /\ Sub(tick, timeout_tick[h]) < Half
      /\ activated' = IF h \in Periodic THEN activated ELSE activated \ {h}
      /\ fired' = h /\ started' = Without(started, h)
      /\ timeout_tick' = [timeout_tick EXCEPT ![h] = 0]
      /\ UNCHANGED <<tick, attached, init_tick, age, asked>>
  BY DEF CheckFirst, Expire, objects
<1>2. /\ h \in Running /\ h \in Timer /\ list' \in Seq(Timer) /\ Distinct(list')
      /\ Running' = Running \ {h}
      /\ \A u, v : Before(list', u, v) => Before(list, u, v) /\ u # h /\ v # h
  <2>1. list \in Seq(Timer) /\ Distinct(list) /\ list # <<>>
    BY <1>0, <1>1 DEF TypeOK, ListInv
  <2>2. Running = Elements(list) /\ Running' = Elements(list')
    BY DEF Running, Elements
  <2> QED BY <1>1, <2>1, <2>2, TailList
<1>3. /\ started' \in Seq(Timer) /\ Distinct(started') /\ Elements(started') = Running'
      /\ \A u, v : Before(started', u, v) <=> Before(started, u, v) /\ u # h /\ v # h
  <2>1. started \in Seq(Timer) /\ Distinct(started) /\ Elements(started) = Running
    BY <1>0 DEF TypeOK, ListInv
  <2> QED BY <1>1, <1>2, <2>1, WithoutList
<1> HIDE DEF h
<1>4. age[h] = asked[h]
  <2>1. /\ age[h] \in Nat /\ asked[h] \in Nat /\ Left(h) \in 0..(Half - 1)
        /\ timeout_tick[h] = At(Left(h))
    BY <1>2, RunningLeft
  <2>2. Left(h) = 0
    BY <1>0, <1>1, <2>1, DueTest DEF TypeOK
  <2> QED BY <2>1, <2>2 DEF Left
<1>5. TypeOK'
  <2>1. 0 \in Tick
    BY TickRange
  <2> QED BY <1>0, <1>1, <1>2, <1>3, <2>1 DEF TypeOK
<1>6. ListInv' /\ OverdueInv' /\ FiredInv'
  BY <1>1, <1>2, <1>3, <1>4 DEF ListInv, OverdueInv, FiredInv
<1>7. DueInv'
  <2> SUFFICES ASSUME NEW u \in Running'
               PROVE  (asked[u] \in Time /\ age[u] <= asked[u] /\ timeout_tick[u] = At(Left(u)))'
    BY DEF DueInv
  <2>1. u \in Running /\ u # h
    BY <1>2
  <2>2. At(Left(u))' = At(Left(u))
    BY <1>1 DEF At, Left
  <2>3. timeout_tick'[u] = timeout_tick[u]
    BY <1>0, <1>1, <2>1, RunningLeft DEF TypeOK
  <2> QED BY <1>0, <1>1, <2>1, <2>2, <2>3 DEF DueInv
<1>8. OrderInv'
  <2> SUFFICES ASSUME NEW u \in Timer, NEW v \in Timer, Before(list', u, v)
               PROVE  \/ Left(u)' < Left(v)'
                      \/ Left(u)' = Left(v)' /\ Before(started', u, v)
    BY DEF OrderInv, Before
  <2>1. Left(u)' = Left(u) /\ Left(v)' = Left(v)
    BY <1>1 DEF Left
  <2> QED BY <1>0, <1>2, <1>3, <2>1 DEF OrderInv
<1>9. FlagInv'
  <2>1. activated = Running
    <3>1. fired = NoTimer /\ NoTimer \notin Periodic
      BY <1>0, <1>1, TimerAssumption DEF FiredInv
    <3> QED BY <1>0, <3>1 DEF FlagInv
  <2> QED BY <1>0, <1>1, <1>2, <2>1 DEF FlagInv
<1> QED BY <1>5, <1>6, <1>7, <1>8, <1>9 DEF TimerInv

(* The first timer is not due, so no timer is. *)
LEMMA EndStep ==
    ASSUME TimerInv, CheckEnd
    PROVE  TimerInv'
<1>0. TypeOK /\ ListInv /\ DueInv /\ OverdueInv /\ FiredInv /\ OrderInv /\ FlagInv
  BY DEF TimerInv
<1>1. /\ isr = "check" /\ isr' = "none"
      /\ list # <<>> => ~(Sub(tick, timeout_tick[Head(list)]) < Half)
      /\ UNCHANGED <<tick, list, activated, timeout_tick, attached, init_tick, fired,
                     age, asked, started>>
  <2>1. list # <<>> => Sub(tick, timeout_tick[Head(list)]) >= Half
    BY DEF CheckEnd
  <2>2. list # <<>> => Sub(tick, timeout_tick[Head(list)]) \in Int
    <3> SUFFICES ASSUME list # <<>> PROVE Sub(tick, timeout_tick[Head(list)]) \in Int
      OBVIOUS
    <3>1. tick \in Int /\ timeout_tick[Head(list)] \in Int /\ M \in Nat \ {0}
      BY <1>0, TickRange DEF TypeOK
    <3>2. ASSUME NEW n \in Int, NEW m \in Nat \ {0} PROVE n % m \in Int
      OBVIOUS
    <3> QED BY <3>1, <3>2 DEF Sub, M
  <2> QED BY <2>1, <2>2, TickRange DEF CheckEnd, objects, history
<1>2. ASSUME NEW t \in Running PROVE age[t] < asked[t]
  <2>1. list # <<>> /\ list \in Seq(Timer) /\ Distinct(list) /\ Running = Elements(list)
    BY <1>0 DEF TypeOK, ListInv, Running, Elements
  <2> DEFINE h == Head(list)
  <2>2. h \in Running /\ (t # h => Before(list, h, t))
    BY <2>1, TailList
  <2> HIDE DEF h
  <2>3. /\ h \in Timer /\ Left(h) \in 0..(Half - 1) /\ timeout_tick[h] = At(Left(h))
        /\ t \in Timer /\ Left(t) \in 0..(Half - 1) /\ age[t] \in Nat /\ asked[t] \in Nat
    BY <2>2, RunningLeft
  <2>4. Left(h) > 0
    <3>1. ~(Sub(tick, At(Left(h))) < Half)
      BY <1>1, <2>1, <2>3 DEF h
    <3> QED BY <1>0, <2>3, <3>1, DueTest DEF TypeOK
  <2>5. Left(t) > 0
    BY <1>0, <2>2, <2>3, <2>4 DEF OrderInv
  <2> QED BY <2>3, <2>5 DEF Left
<1>3. Running' = Running /\ \A t \in Timer : Left(t)' = Left(t)
  BY <1>1 DEF Running, Left
<1>4. OverdueInv'
  BY <1>1, <1>2, <1>3 DEF OverdueInv
<1>5. TypeOK' /\ ListInv' /\ FlagInv' /\ FiredInv'
  BY <1>0, <1>1, <1>3 DEF TypeOK, ListInv, FlagInv, FiredInv
<1>6. DueInv' /\ OrderInv'
  BY <1>0, <1>1, <1>3 DEF DueInv, OrderInv, At, Left, Before
<1> QED BY <1>4, <1>5, <1>6 DEF TimerInv

(* The timeout function returns. *)
LEMMA ReturnStep ==
    ASSUME TimerInv, CallbackReturn
    PROVE  TimerInv'
<1>0. TypeOK /\ ListInv /\ DueInv /\ OverdueInv /\ FiredInv /\ OrderInv /\ FlagInv
  BY DEF TimerInv
<1>1. /\ isr = "callback" /\ isr' = "check" /\ fired' = NoTimer /\ NoTimer \notin Timer
      /\ NoTimer \notin Periodic
  BY TimerAssumption DEF CallbackReturn
<1>2. CASE fired = NoTimer
  <2>1. UNCHANGED <<tick, list, activated, timeout_tick, objects, history>>
    <3>1. ~(fired \in Periodic \cap activated)
      BY <1>1, <1>2
    <3> QED BY <1>2, <3>1 DEF CallbackReturn
  <2>2. UNCHANGED <<tick, list, activated, timeout_tick, attached, init_tick, age, asked, started>>
    BY <2>1 DEF objects, history
  <2>3. Running' = Running
    BY <2>2 DEF Running
  <2>4. TypeOK' /\ ListInv' /\ FlagInv' /\ FiredInv' /\ OverdueInv'
    BY <1>0, <1>1, <1>2, <2>2, <2>3 DEF TypeOK, ListInv, FlagInv, FiredInv, OverdueInv
  <2>5. DueInv' /\ OrderInv'
    BY <1>0, <2>2, <2>3 DEF DueInv, OrderInv, At, Left, Before
  <2> QED BY <2>4, <2>5 DEF TimerInv
<1>3. CASE fired # NoTimer /\ fired \in Periodic \cap activated
  <2>1. Start(fired)
    BY <1>3 DEF CallbackReturn
  <2>2. fired \in Timer /\ fired \in attached
    BY <1>0, <1>3 DEF TypeOK, FlagInv
  <2> QED BY <1>1, <2>1, <2>2, StartStep
<1>4. CASE fired # NoTimer /\ ~(fired \in Periodic \cap activated)
  <2>1. /\ Forgotten(fired) /\ UNCHANGED <<tick, list, activated, attached, init_tick>>
    BY <1>4 DEF CallbackReturn, objects
  <2>2. fired \in Timer /\ fired \notin Running /\ fired \notin Periodic
    BY <1>0, <1>4 DEF TypeOK, FiredInv, FlagInv
  <2>3. Without(list, fired) = list
    BY <2>2 DEF Without, Running
  <2>4. activated \ {fired} = activated
    BY <1>0, <2>2 DEF FlagInv
  <2>5. /\ Running' = Running /\ Running \subseteq Timer
        /\ timeout_tick' = [timeout_tick EXCEPT ![fired] = 0]
        /\ age' = [age EXCEPT ![fired] = 0] /\ asked' = [asked EXCEPT ![fired] = 0]
    BY <1>0, <2>1 DEF Running, Forgotten, TypeOK
  <2>6. /\ started' \in Seq(Timer) /\ Distinct(started') /\ Elements(started') = Running
        /\ \A u, v : Before(started', u, v) <=> Before(started, u, v) /\ u # fired /\ v # fired
    <3>1. /\ started' = Without(started, fired) /\ started \in Seq(Timer) /\ Distinct(started)
          /\ Elements(started) = Running
      BY <1>0, <2>1 DEF Forgotten, TypeOK, ListInv
    <3>2. Running \ {fired} = Running
      BY <2>2
    <3> QED BY <3>1, <3>2, WithoutList
  <2>7. \A u \in Running : /\ age'[u] = age[u] /\ asked'[u] = asked[u]
                            /\ timeout_tick'[u] = timeout_tick[u] /\ Left(u)' = Left(u)
    BY <1>0, <2>2, <2>5 DEF TypeOK, Left
  <2>8. TypeOK'
    <3>1. 0 \in Tick
      BY TickRange
    <3> QED BY <1>0, <1>1, <2>1, <2>5, <2>6, <3>1 DEF TypeOK
  <2>9. ListInv' /\ FlagInv' /\ FiredInv' /\ OverdueInv'
    BY <1>0, <1>1, <2>1, <2>2, <2>5, <2>6 DEF ListInv, FlagInv, FiredInv, OverdueInv
  <2>10. DueInv'
    <3> SUFFICES ASSUME NEW u \in Running
                 PROVE  (asked[u] \in Time /\ age[u] <= asked[u] /\ timeout_tick[u] = At(Left(u)))'
      BY <2>5 DEF DueInv
    <3>1. At(Left(u))' = At(Left(u))
      BY <2>1, <2>7 DEF At
    <3> QED BY <1>0, <2>7, <3>1 DEF DueInv
  <2>11. OrderInv'
    <3> SUFFICES ASSUME NEW u \in Timer, NEW v \in Timer, Before(list, u, v)
                 PROVE  \/ Left(u)' < Left(v)'
                        \/ Left(u)' = Left(v)' /\ Before(started', u, v)
      BY <2>1 DEF OrderInv, Before
    <3>1. u \in Running /\ v \in Running
      BY DEF Before, Running
    <3> QED BY <1>0, <2>2, <2>6, <2>7, <3>1 DEF OrderInv
  <2> QED BY <2>8, <2>9, <2>10, <2>11 DEF TimerInv
<1> QED BY <1>2, <1>3, <1>4

(* Neither a new timer, nor a new time, touches a timer that runs. *)
LEMMA ObjectStep ==
    ASSUME TimerInv, NEW t \in Timer, NEW n \in Time,
           rt_timer_init(t, n) \/ rt_timer_control(t, n)
    PROVE  TimerInv'
<1>0. TypeOK /\ ListInv /\ DueInv /\ OverdueInv /\ FiredInv /\ OrderInv /\ FlagInv
  BY DEF TimerInv
<1>1. /\ UNCHANGED <<tick, list, timeout_tick, isr, fired, age, asked, started>>
      /\ init_tick' = [init_tick EXCEPT ![t] = n]
      /\ \/ activated' = activated /\ attached' = attached
         \/ t \notin attached /\ activated' = activated \ {t} /\ attached' = attached \cup {t}
  BY DEF rt_timer_init, rt_timer_control, history
<1>2. activated' = activated
  BY <1>0, <1>1 DEF FlagInv
<1>3. Running' = Running
  BY <1>1 DEF Running
<1>4. TypeOK' /\ ListInv' /\ FlagInv' /\ FiredInv' /\ OverdueInv'
  BY <1>0, <1>1, <1>2, <1>3 DEF TypeOK, ListInv, FlagInv, FiredInv, OverdueInv
<1>5. DueInv' /\ OrderInv'
  BY <1>0, <1>1, <1>3 DEF DueInv, OrderInv, At, Left, Before
<1> QED BY <1>4, <1>5 DEF TimerInv

LEMMA NextInv == TimerInv /\ [Next]_vars => TimerInv'
<1> SUFFICES ASSUME TimerInv, [Next]_vars PROVE TimerInv'
  OBVIOUS
<1>1. CASE UNCHANGED vars
  <2>1. UNCHANGED <<tick, list, timeout_tick, isr, fired, age, asked, started,
                    attached, activated, init_tick>>
    BY <1>1 DEF vars, objects, history
  <2> QED
    BY <2>1
    DEF TimerInv, TypeOK, ListInv, DueInv, OverdueInv, FiredInv, OrderInv, FlagInv,
        Running, At, Left, Before
<1>2. ASSUME NEW t \in Timer, rt_timer_start(t) PROVE TimerInv'
  <2>1. /\ t \in attached /\ Start(t) /\ isr' = isr
        /\ fired' = IF fired = t THEN NoTimer ELSE fired
    BY <1>2 DEF rt_timer_start
  <2> QED BY <2>1, StartStep
<1>3. ASSUME NEW t \in Timer, rt_timer_stop(t) \/ rt_timer_detach(t) PROVE TimerInv'
  <2>1. /\ Stop(t) /\ init_tick' = init_tick
        /\ attached' = attached \/ attached' = attached \ {t}
    BY <1>3 DEF rt_timer_stop, rt_timer_detach, objects
  <2> QED BY <2>1, StopStep
<1>4. ASSUME NEW t \in Timer, NEW n \in Time, rt_timer_init(t, n) \/ rt_timer_control(t, n)
      PROVE  TimerInv'
  BY <1>4, ObjectStep
<1> QED
  BY <1>1, <1>2, <1>3, <1>4, TickStep, FirstStep, ReturnStep, EndStep DEF Next, Call, Interrupt

LEMMA TimerSafe == Spec => []TimerInv
BY InitInv, NextInv, PTL DEF Spec

-----------------------------------------------------------------------------
(* A timer fires exactly when it was asked to, for any width of the tick   *)
(* counter: the single comparison of rt_timer_check is never mistaken by   *)
(* the wrap, and the first timer stands for all.                           *)
THEOREM PunctualCorrect == Spec => []Punctual
<1>1. TimerInv => Punctual
  BY DEF TimerInv, DueInv, OverdueInv, FiredInv, Punctual
<1> QED BY <1>1, TimerSafe, PTL

(* The list of rt_timer_start is ordered by the time that is left, and     *)
(* among equals by the order of the calls, as its comment says.            *)
THEOREM EarlyCorrect == Spec => []EarlyFirst
<1>1. TimerInv => EarlyFirst
  <2> SUFFICES ASSUME TimerInv, NEW a \in 1..Len(list), NEW b \in 1..Len(list), a < b
               PROVE  \/ Left(list[a]) < Left(list[b])
                      \/ Left(list[a]) = Left(list[b]) /\ StartedBefore(list[a], list[b])
    BY DEF EarlyFirst
  <2>1. Before(list, list[a], list[b]) /\ list[a] \in Timer /\ list[b] \in Timer
    BY DEF Before, TimerInv, TypeOK
  <2>2. Before(started, list[a], list[b]) => StartedBefore(list[a], list[b])
    BY DEF Before, StartedBefore
  <2> QED BY <2>1, <2>2 DEF TimerInv, OrderInv
<1> QED BY <1>1, TimerSafe, PTL

(* RT_TIMER_FLAG_ACTIVATED tells the truth, whatever a timeout function    *)
(* does to its own timer or to others while rt_timer_check holds it.       *)
THEOREM FlagCorrect == Spec => []FlagTrue
<1>1. TimerInv => FlagTrue
  <2> SUFFICES ASSUME TimerInv PROVE FlagTrue
    OBVIOUS
  <2>1. NoTimer \notin Running
    BY TimerAssumption DEF TimerInv, TypeOK, Running
  <2> QED BY <2>1 DEF TimerInv, ListInv, Distinct, FiredInv, FlagInv, FlagTrue
<1> QED BY <1>1, TimerSafe, PTL
=============================================================================
