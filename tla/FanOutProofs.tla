----------------------------- MODULE FanOutProofs -----------------------------
(***************************************************************************)
(* That a RootLogger hands a message on completely: every console behind   *)
(* the logger that is called writes it once for each way it is registered  *)
(* on, however deep the roots are nested.                                  *)
(*                                                                         *)
(* The number of ways is a recursive function.  That it is defined at all  *)
(* takes an induction, which rests on the well-founded order of Nat: it is *)
(* stated for a set of numbers, so that no operator is left to instantiate.*)
(***************************************************************************)
EXTENDS LoggingProofs, FiniteSetTheorems, SequenceTheorems

(* A set of natural numbers has a least element. *)
LEMMA LeastNumber ==
  ASSUME NEW T \in SUBSET Nat, T # {}
  PROVE  \E x \in T : \A y \in T : x <= y
<1> DEFINE R == {ss \in Nat \X Nat : ss[1] < ss[2]}
<1>1. IsWellFoundedOn(R, Nat)
  BY NatLessThanWellFounded DEF OpToRel
<1>2. \A x, y \in Nat : x < y => <<x, y>> \in R
  OBVIOUS
<1> HIDE DEF R
<1>3. PICK x \in T : \A y \in T : ~(<<y, x>> \in R)
  BY <1>1, WFMin
<1>4. ASSUME NEW y \in T
      PROVE  x <= y
  <2>1. x \in Nat /\ y \in Nat
    OBVIOUS
  <2>2. ~(y < x)
    BY <1>2, <1>3, <2>1, Zenon
  <2> QED
    BY <2>1, <2>2
<1> QED
  BY <1>4

(* Induction: S holds all natural numbers. *)
LEMMA NumbersByInduction ==
  ASSUME NEW S, 0 \in S, \A n \in Nat : n \in S => n + 1 \in S
  PROVE  Nat \subseteq S
<1> DEFINE T == Nat \ S
<1>1. CASE T = {}
  BY <1>1
<1>2. CASE T # {}
  <2>1. PICK x \in T : \A y \in T : x <= y
    BY <1>2, LeastNumber
  <2>2. x # 0 /\ x \in Nat /\ x - 1 \in Nat
    BY <2>1
  <2>3. x - 1 \in S
    BY <2>1, <2>2
  <2> QED
    BY <2>1, <2>2, <2>3
<1> QED
  BY <1>1, <1>2

------------------------------------------------------------------------------
(* What is registered, and the ways from one logger to another.             *)

Places == (Loggers \cup {null}) \X (1..Slots + 1)

(* The place has names to go on with. *)
Inner(p) == p[1] \in Roots /\ p[2] <= Slots

(* What may be registered. *)
Maps == {maps \in [Roots -> [1..Slots -> Loggers \cup {null}]] :
           \A r \in Roots, n \in 1..Slots : maps[r][n] \in Registrable[r] \cup {null}}

LEMMA PlacesAhead ==
  ASSUME NEW maps \in Maps, NEW p \in Places, Inner(p)
  PROVE  /\ p[1] \in Roots /\ p[2] \in 1..Slots
         /\ maps[p[1]][p[2]] \in Registrable[p[1]] \cup {null}
         /\ maps[p[1]][p[2]] \in Loggers \cup {null}
         /\ <<maps[p[1]][p[2]], 1>> \in Places
         /\ <<p[1], p[2] + 1>> \in Places
<1>1. p[1] \in Roots /\ p[2] \in 1..Slots
  BY ConstantsAssumption DEF Places, Inner
<1>2. /\ maps[p[1]][p[2]] \in Registrable[p[1]] \cup {null}
      /\ maps[p[1]][p[2]] \in Loggers \cup {null}
  BY <1>1 DEF Maps
<1>3. 1 \in 1..Slots + 1 /\ p[2] + 1 \in 1..Slots + 1
  BY <1>1, ConstantsAssumption
<1> QED
  BY <1>1, <1>2, <1>3 DEF Places, Loggers

LEMMA Products ==
  ASSUME NEW a \in Nat, NEW b \in Nat, NEW k \in Nat, a < b
  PROVE  a * k \in Nat /\ b * k \in Nat /\ a * k + k <= b * k
<1>1. PICK d \in Nat : b = a + 1 + d
  <2>1. b - a - 1 \in Nat /\ b = a + 1 + (b - a - 1)
    OBVIOUS
  <2> QED
    BY <2>1
<1>2. a * k \in Nat /\ b * k \in Nat /\ d * k \in Nat
  OBVIOUS
<1>3. b * k = a * k + k + d * k
  BY <1>1
<1> QED
  BY <1>2, <1>3

(* From every place on, the way through the maps comes to an end. *)
LEMMA Measure ==
  ASSUME NEW maps \in Maps
  PROVE  \E m \in [Places -> Nat], top \in Nat :
           /\ \A p \in Places : m[p] < top
           /\ \A p \in Places : Inner(p) =>
                m[<<maps[p[1]][p[2]], 1>>] < m[p] /\ m[<<p[1], p[2] + 1>>] < m[p]
<1>1. PICK rank \in [Roots -> 0..Cardinality(Roots)] :
        \A r \in Roots : \A o \in Registrable[r] \cap Roots : rank[o] < rank[r]
  BY NestingAssumption
<1> DEFINE N     == Cardinality(Roots)
           K     == Slots + 1
           r(o)  == IF o \in Roots THEN rank[o] + 1 ELSE 0
           m     == [p \in Places |-> r(p[1]) * K + (K - p[2])]
<1>2. N \in Nat /\ K \in Nat
  BY NestingAssumption, ConstantsAssumption, FS_CardinalityType
<1>3. \A o : r(o) \in Nat /\ r(o) < N + 2
  <2> SUFFICES ASSUME NEW o
               PROVE  r(o) \in Nat /\ r(o) < N + 2
    OBVIOUS
  <2>1. CASE o \in Roots
    <3>1. rank[o] \in 0..N
      BY <1>1, <2>1
    <3> QED
      BY <1>2, <2>1, <3>1
  <2>2. CASE o \notin Roots
    BY <1>2, <2>2
  <2> QED
    BY <2>1, <2>2
<1>4. ASSUME NEW p \in Places
      PROVE  /\ p[1] \in Loggers \cup {null} /\ p[2] \in 1..K
             /\ m[p] = r(p[1]) * K + (K - p[2])
             /\ m[p] \in Nat /\ m[p] < (N + 2) * K
  <2>1. p[1] \in Loggers \cup {null} /\ p[2] \in 1..K
    BY DEF Places
  <2>2. m[p] = r(p[1]) * K + (K - p[2])
    OBVIOUS
  <2> HIDE DEF m, r, N, K
  <2>3. r(p[1]) \in Nat /\ r(p[1]) < N + 2
    BY <1>3
  <2>4. /\ r(p[1]) * K \in Nat /\ (N + 2) * K \in Nat
        /\ r(p[1]) * K + K <= (N + 2) * K
    BY <1>2, <2>3, Products
  <2> QED
    BY <1>2, <2>1, <2>2, <2>4
<1>5. ASSUME NEW p \in Places, Inner(p)
      PROVE  m[<<maps[p[1]][p[2]], 1>>] < m[p] /\ m[<<p[1], p[2] + 1>>] < m[p]
  <2> DEFINE o == maps[p[1]][p[2]]
             q == <<o, 1>>
             s == <<p[1], p[2] + 1>>
  <2>1. /\ p[1] \in Roots /\ p[2] \in 1..Slots /\ o \in Registrable[p[1]] \cup {null}
        /\ q \in Places /\ s \in Places
    BY <1>5, PlacesAhead
  <2>2. r(o) < r(p[1])
    <3>1. rank[p[1]] \in Nat
      BY <1>1, <1>2, <2>1
    <3>2. CASE o \in Roots
      <4>1. o \in Registrable[p[1]]
        BY <2>1, <3>2, ConstantsAssumption DEF Loggers
      <4>2. rank[o] < rank[p[1]] /\ rank[o] \in Nat
        BY <1>1, <1>2, <2>1, <3>2, <4>1
      <4> QED
        BY <2>1, <3>1, <3>2, <4>2
    <3>3. CASE o \notin Roots
      BY <2>1, <3>1, <3>3
    <3> QED
      BY <3>2, <3>3
  <2>3. m[q] = r(o) * K + (K - 1) /\ m[s] = r(p[1]) * K + (K - (p[2] + 1))
    BY <1>4, <2>1
  <2>4. m[p] = r(p[1]) * K + (K - p[2]) /\ p[2] \in 1..K - 1
    BY <1>4, <2>1, ConstantsAssumption
  <2> HIDE DEF m, r, N, K
  <2>5. r(o) \in Nat /\ r(p[1]) \in Nat
    BY <1>3
  <2>6. r(o) * K \in Nat /\ r(p[1]) * K \in Nat /\ r(o) * K + K <= r(p[1]) * K
    BY <1>2, <2>2, <2>5, Products
  <2> QED
    BY <1>2, <2>3, <2>4, <2>6
<1>6. m \in [Places -> Nat] /\ (N + 2) * K \in Nat
  <2> HIDE DEF N, K, r
  <2>1. \A p \in Places : m[p] \in Nat
    BY <1>4
  <2> QED
    BY <1>2, <2>1
<1> HIDE DEF m, N, K, r
<1> QED
  BY <1>4, <1>5, <1>6

(* What the equation of WaysIn says of the place p, if f is the rest. *)
Onward(maps, c, f, p) ==
  IF p[1] = c THEN 1
  ELSE IF p[1] \notin Roots \/ p[2] > Slots THEN 0
  ELSE f[<<maps[p[1]][p[2]], 1>>] + f[<<p[1], p[2] + 1>>]

(* Two functions that agree ahead of p give the same. *)
LEMMA OnwardSame ==
  ASSUME NEW maps \in Maps, NEW c, NEW f, NEW g, NEW p \in Places,
         Inner(p) => /\ f[<<maps[p[1]][p[2]], 1>>] = g[<<maps[p[1]][p[2]], 1>>]
                     /\ f[<<p[1], p[2] + 1>>] = g[<<p[1], p[2] + 1>>]
  PROVE  Onward(maps, c, f, p) = Onward(maps, c, g, p)
<1>1. CASE Inner(p)
  BY <1>1 DEF Onward
<1>2. CASE ~Inner(p)
  <2>1. p[2] \in 1..Slots + 1
    BY DEF Places
  <2>2. p[1] \notin Roots \/ p[2] > Slots
    BY <1>2, <2>1, ConstantsAssumption DEF Inner
  <2> QED
    BY <2>2 DEF Onward
<1> QED
  BY <1>1, <1>2

LEMMA OnwardNumber ==
  ASSUME NEW maps \in Maps, NEW c, NEW f, NEW p \in Places,
         Inner(p) => /\ f[<<maps[p[1]][p[2]], 1>>] \in Nat
                     /\ f[<<p[1], p[2] + 1>>] \in Nat
  PROVE  Onward(maps, c, f, p) \in Nat
<1>1. CASE Inner(p)
  BY <1>1 DEF Onward
<1>2. CASE ~Inner(p)
  <2>1. p[2] \in 1..Slots + 1
    BY DEF Places
  <2>2. p[1] \notin Roots \/ p[2] > Slots
    BY <1>2, <2>1, ConstantsAssumption DEF Inner
  <2> QED
    BY <2>2 DEF Onward
<1> QED
  BY <1>1, <1>2

(* The recursion has a solution: one that is right for the places of a      *)
(* measure below k can be made right for the next.                          *)
LEMMA WaysExist ==
  ASSUME NEW maps \in Maps, NEW c
  PROVE  \E f : f = [p \in Places |-> Onward(maps, c, f, p)]
<1>1. PICK m \in [Places -> Nat], top \in Nat :
        /\ \A p \in Places : m[p] < top
        /\ \A p \in Places : Inner(p) =>
             m[<<maps[p[1]][p[2]], 1>>] < m[p] /\ m[<<p[1], p[2] + 1>>] < m[p]
  BY Measure
<1> DEFINE Right(f, k) == \A p \in Places : m[p] < k => f[p] = Onward(maps, c, f, p)
           S == {k \in Nat : \E f : f = [p \in Places |-> f[p]] /\ Right(f, k)}
<1>2. 0 \in S
  <2> DEFINE f == [p \in Places |-> 0]
  <2>1. f = [p \in Places |-> f[p]]
    OBVIOUS
  <2>2. Right(f, 0)
    BY <1>1
  <2> HIDE DEF f, Right
  <2> QED
    BY <2>1, <2>2
<1>3. ASSUME NEW k \in Nat, k \in S
      PROVE  k + 1 \in S
  <2>1. PICK f : Right(f, k)
    BY <1>3
  <2> DEFINE g == [p \in Places |-> IF m[p] < k THEN f[p] ELSE Onward(maps, c, f, p)]
  <2>2. g = [p \in Places |-> g[p]]
    OBVIOUS
  <2>3. \A p \in Places : m[p] < k => g[p] = f[p]
    OBVIOUS
  <2>4. \A p \in Places : m[p] < k + 1 => g[p] = Onward(maps, c, f, p)
    BY <2>1
  <2> HIDE DEF g
  <2>5. ASSUME NEW p \in Places, m[p] < k + 1
        PROVE  g[p] = Onward(maps, c, g, p)
    <3>1. ASSUME Inner(p)
          PROVE  /\ f[<<maps[p[1]][p[2]], 1>>] = g[<<maps[p[1]][p[2]], 1>>]
                 /\ f[<<p[1], p[2] + 1>>] = g[<<p[1], p[2] + 1>>]
      <4> DEFINE q == <<maps[p[1]][p[2]], 1>>
                 r == <<p[1], p[2] + 1>>
      <4>1. q \in Places /\ r \in Places
        BY <3>1, PlacesAhead
      <4>2. m[q] < m[p] /\ m[r] < m[p]
        BY <1>1, <3>1
      <4> HIDE DEF q, r
      <4>3. m[q] < k /\ m[r] < k
        BY <2>5, <4>1, <4>2
      <4>4. f[q] = g[q] /\ f[r] = g[r]
        BY <2>3, <4>1, <4>3
      <4> QED
        BY <4>4 DEF q, r
    <3>2. Onward(maps, c, f, p) = Onward(maps, c, g, p)
      BY <3>1, OnwardSame
    <3> QED
      BY <2>4, <2>5, <3>2
  <2>6. Right(g, k + 1)
    BY <2>5
  <2> HIDE DEF Right
  <2> QED
    BY <2>2, <2>6
<1>4. top \in S
  <2> HIDE DEF S
  <2> QED
    BY <1>2, <1>3, NumbersByInduction
<1>5. PICK f : f = [p \in Places |-> f[p]] /\ Right(f, top)
  BY <1>4
<1>6. \A p \in Places : f[p] = Onward(maps, c, f, p)
  BY <1>1, <1>5
<1> QED
  BY <1>5, <1>6, Zenon

(* The equation of WaysIn holds. *)
LEMMA WaysEquation ==
  ASSUME NEW maps \in Maps, NEW c, NEW p \in Places
  PROVE  WaysIn(maps, c)[p] = Onward(maps, c, WaysIn(maps, c), p)
<1> DEFINE w == CHOOSE f : f = [q \in Places |-> Onward(maps, c, f, q)]
<1>1. WaysIn(maps, c) = w
  BY Zenon DEF WaysIn, Onward, Places
<1>2. w = [q \in Places |-> Onward(maps, c, w, q)]
  BY WaysExist, Zenon
<1> HIDE DEF w
<1>3. w[p] = Onward(maps, c, w, p)
  BY <1>2
<1> QED
  BY <1>1, <1>3

(* ... and it is about numbers. *)
LEMMA WaysType ==
  ASSUME NEW maps \in Maps, NEW c
  PROVE  \A p \in Places : WaysIn(maps, c)[p] \in Nat
<1> DEFINE w == WaysIn(maps, c)
<1>1. PICK m \in [Places -> Nat], top \in Nat :
        /\ \A p \in Places : m[p] < top
        /\ \A p \in Places : Inner(p) =>
             m[<<maps[p[1]][p[2]], 1>>] < m[p] /\ m[<<p[1], p[2] + 1>>] < m[p]
  BY Measure
<1> DEFINE S == {k \in Nat : \A p \in Places : m[p] < k => w[p] \in Nat}
<1>2. 0 \in S
  BY <1>1
<1>3. ASSUME NEW k \in Nat, k \in S
      PROVE  k + 1 \in S
  <2>1. ASSUME NEW p \in Places, m[p] < k + 1
        PROVE  w[p] \in Nat
    <3>1. ASSUME Inner(p)
          PROVE  /\ w[<<maps[p[1]][p[2]], 1>>] \in Nat
                 /\ w[<<p[1], p[2] + 1>>] \in Nat
      <4> DEFINE q == <<maps[p[1]][p[2]], 1>>
                 r == <<p[1], p[2] + 1>>
      <4>1. q \in Places /\ r \in Places
        BY <3>1, PlacesAhead
      <4>2. m[q] < m[p] /\ m[r] < m[p]
        BY <1>1, <3>1
      <4> HIDE DEF q, r, w
      <4>3. m[q] < k /\ m[r] < k
        BY <2>1, <4>1, <4>2
      <4>4. w[q] \in Nat /\ w[r] \in Nat
        BY <1>3, <4>1, <4>3
      <4> QED
        BY <4>4 DEF q, r
    <3>2. w[p] = Onward(maps, c, w, p)
      BY WaysEquation
    <3> HIDE DEF w
    <3> QED
      BY <3>1, <3>2, OnwardNumber
  <2> HIDE DEF w
  <2> QED
    BY <2>1
<1>4. top \in S
  <2> HIDE DEF S
  <2> QED
    BY <1>2, <1>3, NumbersByInduction
<1> QED
  BY <1>1, <1>4

(* The equation, case by case. *)
LEMMA WaysOfLeaf ==
  ASSUME NEW maps \in Maps, NEW c \in Consoles, NEW o \in Consoles \cup {null}
  PROVE  WaysIn(maps, c)[<<o, 1>>] = IF o = c THEN 1 ELSE 0
<1> DEFINE p == <<o, 1>>
<1>1. p \in Places /\ p[1] = o /\ o \notin Roots
  BY ConstantsAssumption DEF Places, Loggers
<1>2. WaysIn(maps, c)[p] = Onward(maps, c, WaysIn(maps, c), p)
  BY <1>1, WaysEquation
<1> HIDE DEF p
<1>3. WaysIn(maps, c)[p] = IF o = c THEN 1 ELSE 0
  BY <1>1, <1>2 DEF Onward
<1> QED
  BY <1>3 DEF p

LEMMA WaysOfRoot ==
  ASSUME NEW maps \in Maps, NEW c \in Consoles, NEW r \in Roots, NEW n \in 1..Slots
  PROVE  WaysIn(maps, c)[<<r, n>>] =
           WaysIn(maps, c)[<<maps[r][n], 1>>] + WaysIn(maps, c)[<<r, n + 1>>]
<1> DEFINE p == <<r, n>>
<1>1. p \in Places /\ p[1] = r /\ p[2] = n /\ r # c /\ ~(n > Slots)
  BY ConstantsAssumption DEF Places, Loggers
<1>2. WaysIn(maps, c)[p] = Onward(maps, c, WaysIn(maps, c), p)
  BY <1>1, WaysEquation
<1> HIDE DEF p
<1>3. WaysIn(maps, c)[p] =
        WaysIn(maps, c)[<<maps[r][n], 1>>] + WaysIn(maps, c)[<<r, n + 1>>]
  BY <1>1, <1>2 DEF Onward
<1> QED
  BY <1>3 DEF p

LEMMA WaysOfEnd ==
  ASSUME NEW maps \in Maps, NEW c \in Consoles, NEW r \in Roots
  PROVE  WaysIn(maps, c)[<<r, Slots + 1>>] = 0
<1> DEFINE p == <<r, Slots + 1>>
<1>1. p \in Places /\ p[1] = r /\ p[2] = Slots + 1 /\ r # c /\ Slots + 1 > Slots
  BY ConstantsAssumption DEF Places, Loggers
<1>2. WaysIn(maps, c)[p] = Onward(maps, c, WaysIn(maps, c), p)
  BY <1>1, WaysEquation
<1> HIDE DEF p
<1>3. WaysIn(maps, c)[p] = 0
  BY <1>1, <1>2 DEF Onward
<1> QED
  BY <1>3 DEF p

LEMMA WaysNumber ==
  ASSUME NEW maps \in Maps, NEW c, NEW o \in Loggers \cup {null}, NEW n \in 1..Slots + 1
  PROVE  WaysIn(maps, c)[<<o, n>>] \in Nat
<1>1. <<o, n>> \in Places
  BY DEF Places
<1> QED
  BY <1>1, WaysType

------------------------------------------------------------------------------
(* What the loops of a thread have still to hand on.                        *)

(* The sum of w over the places the loops fs are at is s. *)
Due(fs, w, s) ==
  \E d \in [0..Len(fs) -> Nat] :
    /\ d[0] = 0 /\ d[Len(fs)] = s
    /\ \A i \in 1..Len(fs) : d[i] = d[i - 1] + w[<<fs[i].root, fs[i].next>>]

LEMMA DueNothing ==
  ASSUME NEW w, NEW s
  PROVE  Due(<<>>, w, s) <=> s = 0
<1> DEFINE d == [i \in 0..0 |-> 0]
<1>1. /\ d \in [0..Len(<<>>) -> Nat] /\ d[0] = 0
      /\ \A i \in 1..Len(<<>>) : d[i] = d[i - 1] + w[<<(<<>>)[i].root, (<<>>)[i].next>>]
  OBVIOUS
<1>2. Due(<<>>, w, 0)
  <2> HIDE DEF d
  <2> QED
    BY <1>1 DEF Due
<1> QED
  BY <1>2 DEF Due

LEMMA DueMore ==
  ASSUME NEW fs \in Seq(Frames), NEW f \in Frames, NEW w, NEW s \in Nat, Due(fs, w, s),
         w[<<f.root, f.next>>] \in Nat
  PROVE  Due(Append(fs, f), w, s + w[<<f.root, f.next>>])
<1> DEFINE gs == Append(fs, f)
           k  == Len(fs)
           x  == w[<<f.root, f.next>>]
<1>1. PICK d \in [0..k -> Nat] :
        /\ d[0] = 0 /\ d[k] = s
        /\ \A i \in 1..k : d[i] = d[i - 1] + w[<<fs[i].root, fs[i].next>>]
  BY DEF Due
<1> DEFINE e == [i \in 0..k + 1 |-> IF i <= k THEN d[i] ELSE s + x]
<1>2. k \in Nat /\ Len(gs) = k + 1 /\ gs[k + 1] = f /\ \A i \in 1..k : gs[i] = fs[i]
  OBVIOUS
<1>3. e \in [0..k + 1 -> Nat] /\ e[0] = 0 /\ e[k + 1] = s + x
  BY <1>1, <1>2
<1>4. ASSUME NEW i \in 1..k + 1
      PROVE  e[i] = e[i - 1] + w[<<gs[i].root, gs[i].next>>]
  <2>1. CASE i = k + 1
    <3>1. e[i] = s + x /\ e[i - 1] = d[k] /\ gs[i] = f
      BY <1>2, <2>1
    <3> QED
      BY <1>1, <3>1
  <2>2. CASE i # k + 1
    <3>1. i \in 1..k /\ i - 1 \in 0..k
      BY <1>2, <2>2
    <3>2. e[i] = d[i] /\ e[i - 1] = d[i - 1] /\ gs[i] = fs[i]
      BY <1>2, <3>1
    <3> QED
      BY <1>1, <3>1, <3>2
  <2> QED
    BY <2>1, <2>2
<1> HIDE DEF e, gs, k, x
<1>5. Due(gs, w, s + x)
  BY <1>2, <1>3, <1>4 DEF Due
<1> QED
  BY <1>5 DEF gs, x

LEMMA DueLess ==
  ASSUME NEW fs \in Seq(Frames), fs # <<>>, NEW w, NEW s, Due(fs, w, s)
  PROVE  \E r \in Nat : /\ Due(Front(fs), w, r)
                        /\ s = r + w[<<Last(fs).root, Last(fs).next>>]
<1> DEFINE gs == Front(fs)
           k  == Len(fs)
<1>1. PICK d \in [0..k -> Nat] :
        /\ d[0] = 0 /\ d[k] = s
        /\ \A i \in 1..k : d[i] = d[i - 1] + w[<<fs[i].root, fs[i].next>>]
  BY DEF Due
<1>2. k \in Nat \ {0}
  OBVIOUS
<1>3. gs \in Seq(Frames) /\ Len(gs) = k - 1 /\ (\A i \in 1..k - 1 : gs[i] = fs[i]) /\ Last(fs) = fs[k]
  <2>1. gs = SubSeq(fs, 1, k - 1) /\ Last(fs) = fs[k]
    BY DEF Front, Last
  <2>2. gs \in Seq(Frames)
    BY LastFrame
  <2>3. Len(gs) = k - 1 /\ \A i \in 1..k - 1 : gs[i] = fs[i]
    <3>1. \A i \in 1..k - 1 : fs[i] \in Frames
      BY <1>2
    <3>2. /\ Len(SubSeq(fs, 1, k - 1)) = IF 1 <= k - 1 THEN (k - 1) - 1 + 1 ELSE 0
          /\ \A i \in 1..(k - 1) - 1 + 1 : SubSeq(fs, 1, k - 1)[i] = fs[1 + i - 1]
      BY <1>2, <3>1, SubSeqProperties
    <3> HIDE DEF gs, k
    <3> QED
      BY <1>2, <2>1, <3>2
  <2> QED
    BY <2>1, <2>2, <2>3
<1> DEFINE e == [i \in 0..k - 1 |-> d[i]]
<1>4. e \in [0..k - 1 -> Nat] /\ e[0] = 0 /\ e[k - 1] = d[k - 1] /\ d[k - 1] \in Nat
  BY <1>1, <1>2
<1>5. ASSUME NEW i \in 1..k - 1
      PROVE  e[i] = e[i - 1] + w[<<gs[i].root, gs[i].next>>]
  <2>1. i \in 1..k /\ i - 1 \in 0..k - 1 /\ i \in 0..k - 1
    BY <1>2
  <2>2. e[i] = d[i] /\ e[i - 1] = d[i - 1] /\ gs[i] = fs[i]
    BY <1>3, <2>1
  <2> QED
    BY <1>1, <2>1, <2>2
<1>6. s = d[k - 1] + w[<<Last(fs).root, Last(fs).next>>]
  BY <1>1, <1>2, <1>3
<1> HIDE DEF e, gs, k
<1>7. Due(gs, w, d[k - 1])
  BY <1>3, <1>4, <1>5 DEF Due
<1> QED
  BY <1>4, <1>6, <1>7 DEF gs

------------------------------------------------------------------------------
(* The accounts of a call.                                                  *)

(* What the console c has written, what the logger o in hand will bring it, *)
(* and what the loops fs will bring it make up the ways to it; a console    *)
(* that filters the message writes nothing.                                 *)
Accounted(cl, wr, o, fs) ==
  \A c \in Consoles :
    IF Enabled(c, cl.level)
    THEN \E s \in Nat :
           /\ Due(fs, WaysIn(loggers, c), s)
           /\ wr[c] + WaysIn(loggers, c)[<<o, 1>>] + s = WaysIn(loggers, c)[<<cl.entry, 1>>]
    ELSE wr[c] = 0

(* A call begins with the logger that is called. *)
LEMMA AccountsOpen ==
  ASSUME loggers \in Maps, NEW cl \in Calls, cl.entry \in Loggers
  PROVE  Accounted(cl, NoLines, cl.entry, <<>>)
<1> SUFFICES ASSUME NEW c \in Consoles
             PROVE  /\ NoLines[c] = 0
                    /\ Due(<<>>, WaysIn(loggers, c), 0)
                    /\ WaysIn(loggers, c)[<<cl.entry, 1>>] \in Nat
  BY DEF Accounted
<1>1. 1 \in 1..Slots + 1
  BY ConstantsAssumption
<1> QED
  BY <1>1, DueNothing, WaysNumber DEF NoLines

(* A root in hand becomes a loop at its first name. *)
LEMMA AccountsRoot ==
  ASSUME loggers \in Maps, NEW cl, NEW wr \in [Consoles -> Nat], NEW r \in Roots,
         NEW fs \in Seq(Frames), Accounted(cl, wr, r, fs)
  PROVE  Accounted(cl, wr, null, Append(fs, [root |-> r, next |-> 1]))
<1> DEFINE f == [root |-> r, next |-> 1]
<1>1. f \in Frames /\ 1 \in 1..Slots + 1
  BY ConstantsAssumption DEF Frames
<1> SUFFICES ASSUME NEW c \in Consoles, Enabled(c, cl.level)
             PROVE  \E s \in Nat :
                      /\ Due(Append(fs, f), WaysIn(loggers, c), s)
                      /\ wr[c] + WaysIn(loggers, c)[<<null, 1>>] + s =
                           WaysIn(loggers, c)[<<cl.entry, 1>>]
  BY DEF Accounted
<1> DEFINE w == WaysIn(loggers, c)
<1>2. PICK s \in Nat : Due(fs, w, s) /\ wr[c] + w[<<r, 1>>] + s = w[<<cl.entry, 1>>]
  BY DEF Accounted
<1>3. w[<<r, 1>>] \in Nat /\ w[<<null, 1>>] = 0
  BY <1>1, WaysNumber, WaysOfLeaf, ConstantsAssumption DEF Loggers
<1>4. Due(Append(fs, f), w, s + w[<<r, 1>>])
  <2> HIDE DEF w
  <2>1. w[<<f.root, f.next>>] = w[<<r, 1>>]
    OBVIOUS
  <2> HIDE DEF f
  <2> QED
    BY <1>1, <1>2, <1>3, <2>1, DueMore
<1> HIDE DEF w, f
<1>5. wr[c] + w[<<null, 1>>] + (s + w[<<r, 1>>]) = w[<<cl.entry, 1>>] /\ s + w[<<r, 1>>] \in Nat
  BY <1>2, <1>3, wr[c] \in Nat, \A x, y, z \in Nat : x + 0 + (z + y) = x + y + z /\ z + y \in Nat
<1> QED
  BY <1>4, <1>5 DEF w

(* A console in hand that ignores the message is done with. *)
LEMMA AccountsIgnored ==
  ASSUME loggers \in Maps, NEW cl, NEW wr \in [Consoles -> Nat], NEW o \in Consoles \cup {null},
         NEW fs, Accounted(cl, wr, o, fs), o \in Consoles => ~Enabled(o, cl.level)
  PROVE  Accounted(cl, wr, null, fs)
<1> SUFFICES ASSUME NEW c \in Consoles, Enabled(c, cl.level)
             PROVE  WaysIn(loggers, c)[<<o, 1>>] = WaysIn(loggers, c)[<<null, 1>>]
  BY DEF Accounted
<1>1. o # c /\ null # c
  BY ConstantsAssumption DEF Loggers
<1> QED
  BY <1>1, WaysOfLeaf

(* A console in hand has written. *)
LEMMA AccountsWritten ==
  ASSUME loggers \in Maps, NEW cl, NEW wr \in [Consoles -> Nat], NEW o \in Consoles,
         NEW fs, Accounted(cl, wr, o, fs), Enabled(o, cl.level)
  PROVE  Accounted(cl, [wr EXCEPT ![o] = @ + 1], null, fs)
<1> DEFINE v == [wr EXCEPT ![o] = @ + 1]
<1> SUFFICES ASSUME NEW c \in Consoles
             PROVE  /\ ~Enabled(c, cl.level) => v[c] = wr[c]
                    /\ v[c] + WaysIn(loggers, c)[<<null, 1>>] = wr[c] + WaysIn(loggers, c)[<<o, 1>>]
  BY DEF Accounted
<1>1. WaysIn(loggers, c)[<<null, 1>>] = 0
  BY WaysOfLeaf, ConstantsAssumption DEF Loggers
<1>2. WaysIn(loggers, c)[<<o, 1>>] = IF o = c THEN 1 ELSE 0
  BY WaysOfLeaf
<1>3. v[c] = IF o = c THEN wr[c] + 1 ELSE wr[c]
  OBVIOUS
<1> HIDE DEF v
<1> QED
  BY <1>1, <1>2, <1>3

(* A loop goes on to its next name, with the logger of this one in hand ... *)
LEMMA AccountsNext ==
  ASSUME loggers \in Maps, NEW cl, NEW wr \in [Consoles -> Nat], NEW fs \in Seq(Frames), fs # <<>>,
         Accounted(cl, wr, null, fs), NEW f, f = Last(fs), f.next \in 1..Slots
  PROVE  Accounted(cl, wr, loggers[f.root][f.next], Append(Front(fs), [f EXCEPT !.next = @ + 1]))
<1> DEFINE o == loggers[f.root][f.next]
           g == [f EXCEPT !.next = @ + 1]
           gs == Append(Front(fs), g)
<1>1. f \in Frames /\ Front(fs) \in Seq(Frames)
  BY LastFrame
<1>2. f.root \in Roots /\ g \in Frames /\ g.root = f.root /\ g.next = f.next + 1
      /\ f.next + 1 \in 1..Slots + 1 /\ 1 \in 1..Slots + 1
  <2>1. Slots \in Nat
    BY ConstantsAssumption
  <2>2. g \in Frames
    BY <1>1, NextFrame
  <2> QED
    BY <1>1, <2>1, <2>2 DEF Frames
<1>3. o \in Loggers \cup {null} /\ f.root \in Loggers
  <2> DEFINE r == f.root
             n == f.next
  <2>1. r \in Roots /\ n \in 1..Slots
    BY <1>2
  <2> HIDE DEF r, n
  <2>2. loggers[r][n] \in Loggers \cup {null}
    BY <2>1 DEF Maps
  <2> QED
    BY <2>1, <2>2 DEF r, n, Loggers
<1> SUFFICES ASSUME NEW c \in Consoles, Enabled(c, cl.level)
             PROVE  \E s \in Nat :
                      /\ Due(gs, WaysIn(loggers, c), s)
                      /\ wr[c] + WaysIn(loggers, c)[<<o, 1>>] + s =
                           WaysIn(loggers, c)[<<cl.entry, 1>>]
  BY DEF Accounted
<1> DEFINE w == WaysIn(loggers, c)
<1>4. PICK s \in Nat : Due(fs, w, s) /\ wr[c] + w[<<null, 1>>] + s = w[<<cl.entry, 1>>]
  BY DEF Accounted
<1>5. PICK r \in Nat : Due(Front(fs), w, r) /\ s = r + w[<<f.root, f.next>>]
  BY <1>4, DueLess
<1>6. w[<<f.root, f.next>>] = w[<<o, 1>>] + w[<<f.root, f.next + 1>>]
  BY <1>2, WaysOfRoot
<1>7. w[<<null, 1>>] = 0 /\ w[<<o, 1>>] \in Nat /\ w[<<f.root, f.next + 1>>] \in Nat
  BY <1>2, <1>3, WaysOfLeaf, WaysNumber, ConstantsAssumption DEF Loggers
<1> HIDE DEF w, o, g
<1>8. Due(gs, w, r + w[<<f.root, f.next + 1>>])
  BY <1>1, <1>2, <1>5, <1>7, DueMore
<1>9. wr[c] + w[<<o, 1>>] + (r + w[<<f.root, f.next + 1>>]) = w[<<cl.entry, 1>>]
      /\ r + w[<<f.root, f.next + 1>>] \in Nat
  BY <1>4, <1>5, <1>6, <1>7, wr[c] \in Nat,
     \A a, x, y, z \in Nat : a + x + (z + y) = a + 0 + (z + (x + y)) /\ z + y \in Nat
<1> HIDE DEF gs
<1> QED
  BY <1>8, <1>9 DEF w, o

(* ... and is left after the last one. *)
LEMMA AccountsEnd ==
  ASSUME loggers \in Maps, NEW cl, NEW wr \in [Consoles -> Nat], NEW fs \in Seq(Frames), fs # <<>>,
         Accounted(cl, wr, null, fs), NEW f, f = Last(fs), f.next > Slots
  PROVE  Accounted(cl, wr, null, Front(fs))
<1>1. f \in Frames
  BY LastFrame
<1>2. f.root \in Roots /\ f.next = Slots + 1
  BY <1>1, ConstantsAssumption DEF Frames
<1> SUFFICES ASSUME NEW c \in Consoles, Enabled(c, cl.level)
             PROVE  \E s \in Nat :
                      /\ Due(Front(fs), WaysIn(loggers, c), s)
                      /\ wr[c] + WaysIn(loggers, c)[<<null, 1>>] + s =
                           WaysIn(loggers, c)[<<cl.entry, 1>>]
  BY DEF Accounted
<1> DEFINE w == WaysIn(loggers, c)
<1>3. PICK s \in Nat : Due(fs, w, s) /\ wr[c] + w[<<null, 1>>] + s = w[<<cl.entry, 1>>]
  BY DEF Accounted
<1>4. PICK r \in Nat : Due(Front(fs), w, r) /\ s = r + w[<<f.root, f.next>>]
  BY <1>3, DueLess
<1>5. w[<<f.root, f.next>>] = 0
  BY <1>2, WaysOfEnd
<1> HIDE DEF w
<1>6. s = r
  BY <1>4, <1>5
<1> QED
  BY <1>3, <1>4, <1>6 DEF w

------------------------------------------------------------------------------
(* The invariant.                                                           *)

(* Only what is registrable is registered. *)
MapsInv == loggers \in Maps

CallInv(t) ==
  /\ phase[t] = "idle" => call[t] = NoCall
  /\ phase[t] # "idle" => call[t].entry \in Loggers
  /\ phase[t] \in {"lock", "write"} => call[t].kind = "text" /\ Enabled(console[t], call[t].level)
  /\ phase[t] \notin {"lock", "write"} => console[t] = null
  /\ phase[t] \in {"idle", "returned", "threw"} => frames[t] = <<>>
  /\ phase[t] # "idle" /\ ~Passes(call[t]) => phase[t] = "returned" /\ written[t] = NoLines
  /\ call[t].bad => written[t] = NoLines
  /\ phase[t] \notin {"idle", "threw"} /\ call[t].kind = "text" /\ Passes(call[t]) =>
       Accounted(call[t], written[t], console[t], frames[t])
  /\ phase[t] = "threw" =>
       /\ call[t].kind = "text" /\ call[t].bad
       /\ \E c \in Consoles : /\ WaysIn(loggers, c)[<<call[t].entry, 1>>] > 0
                              /\ Enabled(c, call[t].level)

FanOutInv == IndInv /\ MapsInv /\ \A t \in Threads : CallInv(t)

(* What a step of the thread t leaves alone. *)
OthersRest(t) ==
  \A u \in Threads \ {t} :
    /\ phase'[u] = phase[u] /\ call'[u] = call[u] /\ console'[u] = console[u]
    /\ frames'[u] = frames[u] /\ written'[u] = written[u]

LEMMA OthersKeep ==
  ASSUME NEW t \in Threads, OthersRest(t), UNCHANGED config, NEW u \in Threads \ {t}, CallInv(u)
  PROVE  CallInv(u)'
BY DEF OthersRest, CallInv, Accounted, Passes, Enabled, config

(* The call cl of t has passed on a message, and written wr by then. *)
Passed(t, cl, wr) ==
  /\ phase'[t] \in {"fanOut", "returned", "lock"}
  /\ phase'[t] = "lock" => cl.kind = "text" /\ Enabled(console'[t], cl.level)
  /\ phase'[t] # "lock" => console'[t] = null
  /\ phase'[t] = "returned" => frames'[t] = <<>>
  /\ cl.kind = "text" => Accounted(cl, wr, console'[t], frames'[t])

LEMMA ResumePassed ==
  ASSUME TypeOK, NEW t \in Threads, NEW cl, NEW wr, NEW fs \in Seq(Frames),
         Resume(t, fs), console'[t] = null, cl.kind = "text" => Accounted(cl, wr, null, fs)
  PROVE  Passed(t, cl, wr)
<1>1. frames'[t] = fs
  BY ResumeStep DEF TypeOK
<1>2. phase'[t] = IF fs = <<>> THEN "returned" ELSE "fanOut"
  BY DEF Resume, TypeOK
<1> QED
  BY <1>1, <1>2 DEF Passed

LEMMA EnterPassed ==
  ASSUME TypeOK, loggers \in Maps, NEW t \in Threads, console[t] = null, NEW o \in Loggers,
         NEW cl \in Calls, NEW wr \in [Consoles -> Nat], NEW fs \in Seq(Frames),
         Enter(t, o, cl, fs), cl.kind = "text" => Accounted(cl, wr, o, fs)
  PROVE  Passed(t, cl, wr)
<1>1. CASE o \in Roots
  <2> DEFINE f == [root |-> o, next |-> 1]
  <2>1. Resume(t, Append(fs, f)) /\ console' = console
    BY <1>1 DEF Enter
  <2>2. f \in Frames
    BY <1>1, ConstantsAssumption DEF Frames
  <2>3. Append(fs, f) \in Seq(Frames)
    BY <2>2, MoreFrames
  <2>4. cl.kind = "text" => Accounted(cl, wr, null, Append(fs, f))
    BY <1>1, AccountsRoot
  <2> HIDE DEF f
  <2> QED
    BY <2>1, <2>3, <2>4, ResumePassed
<1>2. CASE o \notin Roots /\ cl.kind = "text" /\ Enabled(o, cl.level)
  <2>1. phase'[t] = "lock" /\ console'[t] = o /\ frames'[t] = fs
    BY <1>2 DEF Enter, TypeOK
  <2> QED
    BY <1>2, <2>1 DEF Passed
<1>3. CASE o \notin Roots /\ ~(cl.kind = "text" /\ Enabled(o, cl.level))
  <2>1. Resume(t, fs) /\ console' = console
    BY <1>3 DEF Enter
  <2>2. cl.kind = "text" => Accounted(cl, wr, null, fs)
    BY <1>3, AccountsIgnored DEF Loggers
  <2> QED
    BY <2>1, <2>2, ResumePassed
<1> QED
  BY <1>1, <1>2, <1>3

LEMMA PassedKeeps ==
  ASSUME NEW t \in Threads, Passed(t, call'[t], written'[t]), UNCHANGED config,
         call'[t].entry \in Loggers, Passes(call'[t]), call'[t].bad => written'[t] = NoLines
  PROVE  CallInv(t)'
<1>1. Passes(call[t])' = Passes(call'[t])
  BY DEF Passes, Enabled, config
<1>2. Enabled(console[t], call[t].level)' = Enabled(console'[t], call'[t].level)
  BY DEF Enabled, config
<1>3. Accounted(call[t], written[t], console[t], frames[t])'
        = Accounted(call'[t], written'[t], console'[t], frames'[t])
  BY DEF Accounted, Enabled, config
<1> QED
  BY <1>1, <1>2, <1>3 DEF CallInv, Passed

------------------------------------------------------------------------------
(* Every step preserves the invariant.                                      *)

LEMMA FanOutInit == Init => FanOutInv
<1> SUFFICES ASSUME Init
             PROVE  FanOutInv
  OBVIOUS
<1>1. MapsInv
  BY DEF Init, MapsInv, Maps
<1>2. ASSUME NEW t \in Threads
      PROVE  CallInv(t)
  BY DEF Init, CallInv, NoCall
<1> QED
  BY <1>1, <1>2, InitInv DEF FanOutInv

(* The configuration changes while nobody logs. *)
LEMMA FanOutConfigure ==
  ASSUME FanOutInv, Configure, NEW t \in Threads
  PROVE  CallInv(t)'
<1>1. phase[t] = "idle" /\ CallInv(t)
  BY DEF Configure, FanOutInv
<1>2. /\ phase'[t] = "idle" /\ call'[t] = NoCall /\ console'[t] = null
      /\ frames'[t] = <<>> /\ written'[t] = written[t]
  BY <1>1 DEF Configure, progress, CallInv
<1> QED
  BY <1>2 DEF CallInv, NoCall, Passes

LEMMA MapsReconfigure ==
  ASSUME MapsInv, Reconfigure
  PROVE  MapsInv'
<1> USE DEF MapsInv, Maps
<1>1. ASSUME NEW o \in Loggers, NEW l \in Levels, SetLevel(o, l)
      PROVE  MapsInv'
  BY <1>1 DEF SetLevel
<1>2. ASSUME NEW r \in Roots, RemoveAll(r)
      PROVE  MapsInv'
  BY <1>2 DEF RemoveAll
<1>3. ASSUME NEW r \in Roots, NEW n \in 1..Slots, RemoveLogger(r, n)
      PROVE  MapsInv'
  BY <1>3 DEF RemoveLogger
<1>4. ASSUME NEW r \in Roots, NEW n \in 1..Slots, NEW o \in Registrable[r],
             AddLogger(r, n, o) \/ SetLogger(r, n, o)
      PROVE  MapsInv'
  <2>1. o \in Loggers
    BY ConstantsAssumption
  <2>2. loggers' = [loggers EXCEPT ![r][n] = o]
    BY <1>4 DEF AddLogger, SetLogger, Register
  <2> QED
    BY <2>1, <2>2
<1> QED
  BY <1>1, <1>2, <1>3, <1>4 DEF Reconfigure

LEMMA FanOutBegin ==
  ASSUME FanOutInv, NEW t \in Threads, NEW c \in Calls, c.entry \in Loggers, Begin(t, c)
  PROVE  \A u \in Threads : CallInv(u)'
<1>0. TypeOK /\ CallInv(t) /\ loggers \in Maps
  BY DEF FanOutInv, IndInv, MapsInv
<1>1. /\ call'[t] = c /\ written'[t] = NoLines /\ UNCHANGED config /\ console[t] = null
      /\ \A u \in Threads \ {t} : call'[u] = call[u] /\ written'[u] = written[u]
  BY <1>0 DEF Begin, TypeOK, CallInv
<1>2. <<>> \in Seq(Frames) /\ NoLines \in [Consoles -> Nat]
  BY DEF NoLines
<1>3. Goes(t)
  <2>1. CASE Passes(c)
    BY <1>0, <1>2, <2>1, EnterGoes DEF Begin
  <2>2. CASE ~Passes(c)
    BY <1>0, <1>2, <2>2, ResumeGoes DEF Begin
  <2> QED
    BY <2>1, <2>2
<1>4. OthersRest(t)
  BY <1>0, <1>1, <1>3 DEF Goes, OthersRest, TypeOK
<1>5. CallInv(t)'
  <2>1. CASE Passes(c)
    <3>1. Accounted(c, NoLines, c.entry, <<>>)
      BY <1>0, AccountsOpen
    <3>2. Passed(t, c, NoLines)
      BY <1>0, <1>1, <1>2, <2>1, <3>1, EnterPassed DEF Begin
    <3> QED
      BY <1>1, <2>1, <3>2, PassedKeeps
  <2>2. CASE ~Passes(c)
    <3>1. phase'[t] = "returned" /\ frames'[t] = <<>> /\ console'[t] = null
      BY <1>0, <1>1, <2>2 DEF Begin, Resume, TypeOK
    <3>2. ~Passes(call[t])'
      BY <1>1, <2>2 DEF Passes, Enabled, config
    <3> QED
      BY <1>1, <3>1, <3>2 DEF CallInv
  <2> QED
    BY <2>1, <2>2
<1> QED
  BY <1>1, <1>4, <1>5, OthersKeep DEF FanOutInv

LEMMA FanOutMessage ==
  ASSUME FanOutInv, NEW t \in Threads, Message(t)
  PROVE  (\A u \in Threads : CallInv(u)') /\ UNCHANGED loggers
<1>1. \E c \in Calls : c.entry \in Loggers /\ Begin(t, c)
  <2>1. ASSUME NEW o \in Loggers, NEW l \in Levels, NEW bad \in BOOLEAN, Log(t, o, l, bad)
        PROVE  \E c \in Calls : c.entry \in Loggers /\ Begin(t, c)
    <3> DEFINE c == [entry |-> o, level |-> l, kind |-> "text", bad |-> bad, checked |-> TRUE]
    <3>1. c \in Calls /\ c.entry \in Loggers /\ Begin(t, c)
      BY <2>1, ConstantsAssumption DEF Calls, off, fatal, Log
    <3> QED
      BY <3>1
  <2>2. ASSUME NEW o \in Loggers, NEW l \in Levels, NEW checked \in BOOLEAN,
               LogException(t, o, l, checked)
        PROVE  \E c \in Calls : c.entry \in Loggers /\ Begin(t, c)
    <3> DEFINE c == [entry |-> o, level |-> l, kind |-> "exception", bad |-> FALSE,
                     checked |-> checked]
    <3>1. c \in Calls /\ c.entry \in Loggers /\ Begin(t, c)
      BY <2>2, ConstantsAssumption DEF Calls, off, fatal, LogException
    <3> QED
      BY <3>1
  <2>3. ASSUME NEW a \in Adapters, NEW l \in UaLevels, NEW bad \in BOOLEAN,
             SdkLog(t, a, l, bad)
        PROVE  \E c \in Calls : c.entry \in Loggers /\ Begin(t, c)
    <3> DEFINE c == [entry |-> ImplOf[a], level |-> ToLevel(l), kind |-> "text", bad |-> bad,
                     checked |-> FALSE]
    <3>1. ToLevel(l) \in off..fatal
      BY DEF ToLevel, off, trace, debug, info, warn, error, fatal
    <3>2. c \in Calls /\ c.entry \in Loggers /\ Begin(t, c)
      BY <2>3, <3>1, ConstantsAssumption DEF Calls, SdkLog
    <3> QED
      BY <3>2
  <2> QED
    BY <2>1, <2>2, <2>3 DEF Message
<1> QED
  BY <1>1, FanOutBegin DEF Begin, config

LEMMA FanOutGoes ==
  ASSUME FanOutInv, NEW t \in Threads, FanOut(t)
  PROVE  \A u \in Threads : CallInv(u)'
<1> DEFINE f    == Last(frames[t])
           rest == Front(frames[t])
           fs   == Append(rest, [f EXCEPT !.next = @ + 1])
           o    == loggers[f.root][f.next]
           cl   == call[t]
           wr   == written[t]
<1>0. TypeOK /\ CallInv(t) /\ loggers \in Maps
  BY DEF FanOutInv, IndInv, MapsInv
<1>1. /\ frames[t] \in Seq(Frames) /\ frames[t] # <<>> /\ console[t] = null
      /\ cl \in Calls /\ wr \in [Consoles -> Nat]
  BY <1>0 DEF FanOut, FanOutInv, IndInv, PhaseInv, TypeOK, CallInv
<1>2. f \in Frames /\ rest \in Seq(Frames)
  BY <1>1, LastFrame
<1>3. UNCHANGED <<config, call, written>>
  BY DEF FanOut
<1>4. Passes(cl) /\ cl.entry \in Loggers /\ (cl.bad => wr = NoLines)
      /\ (cl.kind = "text" => Accounted(cl, wr, null, frames[t]))
  BY <1>0, <1>1 DEF FanOut, CallInv
<1>5. CASE f.next > Slots
  <2>1. Resume(t, rest) /\ console' = console
    BY <1>5 DEF FanOut
  <2>2. cl.kind = "text" => Accounted(cl, wr, null, rest)
    BY <1>0, <1>1, <1>4, <1>5, AccountsEnd
  <2> HIDE DEF f, rest, fs, o, cl, wr
  <2>3. Goes(t)
    BY <1>0, <1>2, <2>1, ResumeGoes
  <2>4. Passed(t, cl, wr)
    BY <1>0, <1>1, <1>2, <2>1, <2>2, ResumePassed
  <2> QED
    BY <1>0, <1>3, <1>4, <2>3, <2>4, PassedKeeps, OthersKeep
       DEF Goes, OthersRest, TypeOK, FanOutInv, cl, wr
<1>6. CASE ~(f.next > Slots)
  <2>1. f.next \in 1..Slots
    BY <1>2, <1>6, ConstantsAssumption DEF Frames
  <2>2. cl.kind = "text" => Accounted(cl, wr, o, fs)
    BY <1>0, <1>1, <1>4, <2>1, AccountsNext
  <2>3. fs \in Seq(Frames)
    <3>1. [f EXCEPT !.next = @ + 1] \in Frames
      BY <1>2, <2>1, NextFrame
    <3> QED
      BY <1>2, <3>1, MoreFrames
  <2>4. o \in Loggers \cup {null}
    <3> DEFINE r == f.root
               n == f.next
    <3>1. r \in Roots /\ n \in 1..Slots
      BY <1>2, <2>1 DEF Frames
    <3> HIDE DEF r, n
    <3>2. loggers[r][n] \in Loggers \cup {null}
      BY <1>0, <3>1 DEF Maps
    <3> QED
      BY <3>2 DEF r, n
  <2>5. IF o = null THEN Resume(t, fs) /\ console' = console ELSE Enter(t, o, cl, fs)
    BY <1>6 DEF FanOut
  <2> HIDE DEF f, rest, fs, o, cl, wr
  <2>6. Goes(t) /\ Passed(t, cl, wr)
    <3>1. CASE o = null
      BY <1>0, <1>1, <2>2, <2>3, <2>5, <3>1, ResumeGoes, ResumePassed
    <3>2. CASE o # null
      BY <1>0, <1>1, <2>2, <2>3, <2>4, <2>5, <3>2, EnterGoes, EnterPassed
    <3> QED
      BY <3>1, <3>2
  <2> QED
    BY <1>0, <1>3, <1>4, <2>6, PassedKeeps, OthersKeep
       DEF Goes, OthersRest, TypeOK, FanOutInv, cl, wr
<1> QED
  BY <1>5, <1>6

LEMMA FanOutLock ==
  ASSUME FanOutInv, NEW t \in Threads, Lock(t)
  PROVE  \A u \in Threads : CallInv(u)'
<1> SUFFICES ASSUME NEW u \in Threads
             PROVE  CallInv(u)'
  OBVIOUS
<1>1. CallInv(u) /\ TypeOK
  BY DEF FanOutInv, IndInv
<1>2. /\ UNCHANGED <<config, call, frames, console, written>>
      /\ phase' = [phase EXCEPT ![t] = "write"] /\ phase[t] = "lock"
  BY DEF Lock, progress
<1>3. /\ Enabled(console[u], call[u].level)' = Enabled(console[u], call[u].level)
      /\ Passes(call[u])' = Passes(call[u])
      /\ Accounted(call[u], written[u], console[u], frames[u])'
           = Accounted(call[u], written[u], console[u], frames[u])
      /\ \A c \in Consoles : Enabled(c, call[u].level)' = Enabled(c, call[u].level)
      /\ UNCHANGED loggers
  BY <1>2 DEF Passes, Accounted, Enabled, config
<1>4. CASE u = t
  <2>1. phase[u] = "lock" /\ phase'[u] = "write"
    BY <1>1, <1>2, <1>4 DEF TypeOK
  <2> QED
    BY <1>1, <1>2, <1>3, <2>1 DEF CallInv
<1>5. CASE u # t
  <2>1. phase'[u] = phase[u]
    BY <1>1, <1>2, <1>5 DEF TypeOK
  <2> QED
    BY <1>1, <1>2, <1>3, <2>1 DEF CallInv
<1> QED
  BY <1>4, <1>5

LEMMA FanOutWrite ==
  ASSUME FanOutInv, NEW t \in Threads, Write(t)
  PROVE  \A u \in Threads : CallInv(u)'
<1> DEFINE o  == console[t]
           wr == [written[t] EXCEPT ![o] = @ + 1]
<1>0. TypeOK /\ CallInv(t) /\ loggers \in Maps /\ o \in Consoles
  BY DEF FanOutInv, IndInv, MapsInv, PhaseInv, Write
<1>1. /\ frames[t] \in Seq(Frames) /\ written[t] \in [Consoles -> Nat]
      /\ Resume(t, frames[t]) /\ console'[t] = null /\ UNCHANGED <<config, call>>
      /\ written'[t] = wr
  BY <1>0 DEF TypeOK, Write
<1>2. /\ call[t].kind = "text" /\ Enabled(o, call[t].level) /\ Passes(call[t])
      /\ ~call[t].bad /\ call[t].entry \in Loggers
      /\ Accounted(call[t], written[t], o, frames[t])
  BY <1>0 DEF CallInv, Write
<1>3. Accounted(call[t], wr, null, frames[t])
  BY <1>0, <1>1, <1>2, AccountsWritten
<1>4. OthersRest(t)
  BY <1>0, <1>1 DEF Write, Resume, TypeOK, OthersRest
<1> HIDE DEF wr, o
<1>5. Passed(t, call[t], wr)
  BY <1>0, <1>1, <1>3, ResumePassed
<1>6. CallInv(t)'
  BY <1>1, <1>2, <1>5, PassedKeeps
<1> QED
  BY <1>1, <1>4, <1>6, OthersKeep DEF FanOutInv

LEMMA FanOutThrow ==
  ASSUME FanOutInv, NEW t \in Threads, Throw(t)
  PROVE  \A u \in Threads : CallInv(u)'
<1> DEFINE o == console[t]
           w == WaysIn(loggers, o)
<1>0. TypeOK /\ CallInv(t) /\ loggers \in Maps /\ o \in Consoles
  BY DEF FanOutInv, IndInv, MapsInv, PhaseInv, Throw
<1>1. /\ UNCHANGED <<config, call, written>> /\ call[t].bad
      /\ phase'[t] = "threw" /\ console'[t] = null /\ frames'[t] = <<>>
  BY <1>0 DEF Throw, TypeOK
<1>2. /\ call[t].kind = "text" /\ Enabled(o, call[t].level) /\ Passes(call[t])
      /\ call[t].entry \in Loggers /\ written[t] = NoLines
      /\ Accounted(call[t], written[t], o, frames[t])
  BY <1>0 DEF CallInv, Throw
<1>3. w[<<call[t].entry, 1>>] > 0
  <2>1. PICK s \in Nat : written[t][o] + w[<<o, 1>>] + s = w[<<call[t].entry, 1>>]
    BY <1>0, <1>2 DEF Accounted
  <2>2. w[<<o, 1>>] = 1 /\ written[t][o] = 0
    BY <1>0, <1>2, WaysOfLeaf DEF NoLines
  <2> HIDE DEF w, o
  <2> QED
    BY <2>1, <2>2
<1>4. OthersRest(t)
  BY <1>0, <1>1 DEF Throw, TypeOK, OthersRest
<1>5. CallInv(t)'
  <2>1. /\ Passes(call[t])' /\ UNCHANGED <<loggers, call>>
        /\ \A c \in Consoles : Enabled(c, call[t].level)' = Enabled(c, call[t].level)
    BY <1>1, <1>2 DEF Passes, Enabled, config
  <2>2. (\E c \in Consoles : /\ WaysIn(loggers, c)[<<call[t].entry, 1>>] > 0
                             /\ Enabled(c, call[t].level))'
    BY <1>0, <1>2, <1>3, <2>1
  <2> QED
    BY <1>1, <1>2, <2>1, <2>2 DEF CallInv
<1> QED
  BY <1>1, <1>4, <1>5, OthersKeep DEF FanOutInv

LEMMA FanOutGoOn ==
  ASSUME FanOutInv, NEW t \in Threads, GoOn(t)
  PROVE  \A u \in Threads : CallInv(u)'
<1>0. TypeOK /\ CallInv(t)
  BY DEF FanOutInv, IndInv
<1>1. /\ phase'[t] = "idle" /\ call'[t] = NoCall /\ console'[t] = null
      /\ frames'[t] = <<>> /\ UNCHANGED config
      /\ written'[t] = NoLines
  BY <1>0 DEF GoOn, TypeOK, CallInv
<1>2. OthersRest(t)
  BY <1>0 DEF GoOn, TypeOK, OthersRest
<1>3. CallInv(t)'
  BY <1>1 DEF CallInv, NoCall, Passes
<1> QED
  BY <1>1, <1>2, <1>3, OthersKeep DEF FanOutInv

LEMMA FanOutStays == FanOutInv /\ [Next]_vars => FanOutInv'
<1> SUFFICES ASSUME FanOutInv, [Next]_vars
             PROVE  FanOutInv'
  OBVIOUS
<1>0. IndInv'
  BY IndStep DEF FanOutInv
<1>1. CASE Reconfigure
  <2>1. Configure
    BY <1>1 DEF Reconfigure, SetLevel, RemoveAll, RemoveLogger, AddLogger, SetLogger
  <2> QED
    BY <1>0, <1>1, <2>1, FanOutConfigure, MapsReconfigure DEF FanOutInv
<1>2. ASSUME NEW t \in Threads, Message(t)
      PROVE  FanOutInv'
  BY <1>0, <1>2, FanOutMessage DEF FanOutInv, MapsInv
<1>3. ASSUME NEW t \in Threads, Proceed(t) \/ Lock(t)
      PROVE  FanOutInv'
  <2>1. UNCHANGED loggers
    BY <1>3 DEF Proceed, FanOut, Write, Throw, GoOn, Lock, config
  <2>2. \A u \in Threads : CallInv(u)'
    BY <1>3, FanOutGoes, FanOutWrite, FanOutThrow, FanOutGoOn, FanOutLock DEF Proceed
  <2> QED
    BY <1>0, <2>1, <2>2 DEF FanOutInv, MapsInv
<1>4. CASE UNCHANGED vars
  <2>1. UNCHANGED <<level, loggers, call, phase, frames, console, written>>
    BY <1>4 DEF vars, config, progress
  <2>2. \A u \in Threads : CallInv(u)'
    BY <2>1 DEF FanOutInv, CallInv, Accounted, Passes, Enabled
  <2> QED
    BY <1>0, <2>1, <2>2 DEF FanOutInv, MapsInv
<1> QED
  BY <1>1, <1>2, <1>3, <1>4 DEF Next

THEOREM FanOutInvariance == Spec => []FanOutInv
BY FanOutInit, FanOutStays, PTL DEF Spec

(* However deep the roots are nested and however many threads log, a call   *)
(* of Logger::log or UaLogger::vlog that returns has made every console     *)
(* that is enabled for its level write it exactly once for each way it is   *)
(* registered on, and no other; it throws only out of such a console.       *)
THEOREM EveryConsoleServed == Spec => []FanOutComplete
<1>1. FanOutInv => FanOutComplete
  <2> SUFFICES ASSUME FanOutInv, NEW t \in Threads, call[t].kind = "text"
               PROVE  /\ phase[t] = "returned" /\ Passes(call[t]) =>
                           \A c \in Consoles :
                             written[t][c] = IF Enabled(c, call[t].level)
                                             THEN Ways(c)[call[t].entry] ELSE 0
                      /\ phase[t] = "threw" =>
                           call[t].bad /\ \E c \in Consoles :
                             Reaches(call[t].entry, c) /\ Enabled(c, call[t].level)
    BY DEF FanOutComplete
  <2>1. CallInv(t) /\ TypeOK /\ loggers \in Maps
    BY DEF FanOutInv, IndInv, MapsInv
  <2>2. ASSUME phase[t] # "idle", NEW c \in Consoles
        PROVE  Ways(c)[call[t].entry] = WaysIn(loggers, c)[<<call[t].entry, 1>>]
    BY <2>1, <2>2 DEF CallInv, Ways
  <2>3. ASSUME phase[t] = "returned", Passes(call[t]), NEW c \in Consoles
        PROVE  written[t][c] = IF Enabled(c, call[t].level) THEN Ways(c)[call[t].entry] ELSE 0
    <3>1. Accounted(call[t], written[t], null, <<>>) /\ written[t][c] \in Nat
      BY <2>1, <2>3 DEF CallInv, TypeOK
    <3>2. CASE Enabled(c, call[t].level)
      <4> DEFINE w == WaysIn(loggers, c)
      <4>1. PICK s \in Nat : Due(<<>>, w, s) /\
              written[t][c] + w[<<null, 1>>] + s = w[<<call[t].entry, 1>>]
        BY <3>1, <3>2 DEF Accounted
      <4>2. s = 0 /\ w[<<null, 1>>] = 0
        BY <2>1, <4>1, DueNothing, WaysOfLeaf, ConstantsAssumption DEF Loggers
      <4> HIDE DEF w
      <4>3. written[t][c] = w[<<call[t].entry, 1>>]
        BY <3>1, <4>1, <4>2
      <4> QED
        BY <2>2, <2>3, <3>2, <4>3 DEF w
    <3>3. CASE ~Enabled(c, call[t].level)
      BY <3>1, <3>3 DEF Accounted
    <3> QED
      BY <3>2, <3>3
  <2>4. ASSUME phase[t] = "threw"
        PROVE  call[t].bad /\ \E c \in Consoles :
                 Reaches(call[t].entry, c) /\ Enabled(c, call[t].level)
    BY <2>1, <2>2, <2>4 DEF CallInv, Reaches
  <2> QED
    BY <2>3, <2>4
<1> QED
  BY <1>1, FanOutInvariance, PTL

------------------------------------------------------------------------------
(* The level of a logger and that of the consoles that follow it.           *)

FollowsInv == \A o \in Loggers, r \in Loggers : <<o, r>> \in follows => level[o] = level[r]

(* Who follows whom is forgotten when either level is set, and a logger     *)
(* that is registered follows the root and all the root follows.            *)
LEMMA FollowsStays ==
  ASSUME TypeOK, FollowsInv, [Next]_vars
  PROVE  FollowsInv'
<1>1. ASSUME NEW o \in Loggers, NEW l \in Levels, SetLevel(o, l)
      PROVE  FollowsInv'
  <2> SUFFICES ASSUME NEW p \in Loggers, NEW q \in Loggers, <<p, q>> \in follows'
               PROVE  level'[p] = level'[q]
    BY DEF FollowsInv
  <2>1. <<p, q>> \in follows /\ p # o /\ q # o
    BY <1>1 DEF SetLevel, Without
  <2> QED
    BY <1>1, <2>1 DEF SetLevel, FollowsInv, TypeOK
<1>2. ASSUME NEW r \in Roots, NEW n \in 1..Slots, NEW o \in Registrable[r],
             AddLogger(r, n, o) \/ SetLogger(r, n, o)
      PROVE  FollowsInv'
  <2>1. o \in Loggers /\ r \in Loggers
    BY ConstantsAssumption DEF Loggers
  <2>2. level' = [level EXCEPT ![o] = level[r]] /\ follows' = Follow(o, r)
    BY <1>2 DEF AddLogger, SetLogger, Register
  <2>3. level'[o] = level[r] /\ \A q \in Loggers \ {o} : level'[q] = level[q]
    BY <2>1, <2>2 DEF TypeOK
  <2>4. \A p, q \in Loggers :
          <<p, q>> \in Without(o) => p # o /\ q # o /\ level[p] = level[q]
    BY DEF Without, FollowsInv
  <2> SUFFICES ASSUME NEW p \in Loggers, NEW q \in Loggers, <<p, q>> \in Follow(o, r)
               PROVE  level'[p] = level'[q]
    BY <2>2 DEF FollowsInv
  <2>5. \/ <<p, q>> \in Without(o)
        \/ p = o /\ (q = r \/ <<r, q>> \in Without(o))
    BY DEF Follow
  <2>6. CASE <<p, q>> \in Without(o)
    BY <2>3, <2>4, <2>6
  <2>7. CASE p = o /\ q = r
    BY <2>1, <2>3, <2>7
  <2>8. CASE p = o /\ <<r, q>> \in Without(o)
    BY <2>1, <2>3, <2>4, <2>8
  <2> QED
    BY <2>5, <2>6, <2>7, <2>8
<1>3. CASE UNCHANGED <<level, follows>>
  BY <1>3 DEF FollowsInv
<1>4. ASSUME NEW t \in Threads, Message(t) \/ Proceed(t) \/ Lock(t)
      PROVE  UNCHANGED <<level, follows>>
  <2>1. ASSUME NEW c, Begin(t, c)
        PROVE  UNCHANGED <<level, follows>>
    BY <2>1 DEF Begin, config
  <2>2. CASE Message(t)
    BY <2>1, <2>2 DEF Message, Log, LogException, SdkLog
  <2>3. CASE Proceed(t) \/ Lock(t)
    BY <2>3 DEF Proceed, FanOut, Write, Throw, GoOn, Lock, config
  <2> QED
    BY <1>4, <2>2, <2>3
<1>5. CASE Reconfigure
  BY <1>1, <1>2, <1>3, <1>5 DEF Reconfigure, RemoveAll, RemoveLogger
<1>6. CASE UNCHANGED vars
  BY <1>3, <1>6 DEF vars, config
<1> QED
  BY <1>3, <1>4, <1>5, <1>6 DEF Next

(* A logger that is enabled for a level has it written by all consoles that *)
(* got their level from it, and one that is not by none of them, for the    *)
(* messages of the SDK as well: through any nesting, whatever maps the      *)
(* roots are constructed with, and however loggers are registered again,    *)
(* removed and given levels of their own.                                   *)
THEOREM EnabledTellsTheTruth == Spec => []EnabledMeansWritten
<1>1. Init => FollowsInv
  BY DEF Init, FollowsInv
<1>2. FanOutInv /\ FollowsInv /\ [Next]_vars => FollowsInv'
  BY FollowsStays DEF FanOutInv, IndInv
<1>3. FanOutInv /\ FollowsInv /\ FanOutComplete => EnabledMeansWritten
  <2> SUFFICES ASSUME FanOutInv, FollowsInv, FanOutComplete,
                      NEW t \in Threads, phase[t] = "returned", call[t].kind = "text",
                      NEW c \in Consoles, Reaches(call[t].entry, c),
                      c = call[t].entry \/ <<c, call[t].entry>> \in follows
               PROVE  written[t][c] > 0 <=>
                        Enabled(call[t].entry, call[t].level) /\ ~call[t].bad
    BY DEF EnabledMeansWritten
  <2> DEFINE e == call[t].entry
  <2>1. CallInv(t) /\ TypeOK /\ e \in Loggers /\ c \in Loggers
    BY DEF FanOutInv, IndInv, CallInv, Loggers
  <2>2. Ways(c)[e] > 0
    BY DEF Reaches
  <2>3. level[e] = level[c]
    BY <2>1 DEF FollowsInv
  <2>4. Enabled(c, call[t].level) <=> Enabled(e, call[t].level)
    BY <2>3 DEF Enabled
  <2>5. CASE Passes(call[t])
    <3>1. written[t][c] = IF Enabled(c, call[t].level) THEN Ways(c)[e] ELSE 0
      BY <2>5 DEF FanOutComplete
    <3>2. call[t].bad => written[t][c] = 0
      BY <2>1 DEF CallInv, NoLines
    <3> HIDE DEF e
    <3>3. written[t][c] > 0 <=> Enabled(c, call[t].level)
      BY <2>2, <3>1
    <3>4. call[t].bad => ~Enabled(c, call[t].level)
      BY <3>2, <3>3
    <3> QED
      BY <2>4, <3>3, <3>4 DEF e
  <2>6. CASE ~Passes(call[t])
    <3>1. written[t][c] = 0
      BY <2>1, <2>6 DEF CallInv, NoLines
    <3>2. ~Enabled(e, call[t].level)
      BY <2>6 DEF Passes
    <3> QED
      BY <3>1, <3>2
  <2> QED
    BY <2>5, <2>6
<1>4. Spec => []FollowsInv
  BY <1>1, <1>2, FanOutInvariance, PTL DEF Spec
<1> QED
  BY <1>3, <1>4, FanOutInvariance, EveryConsoleServed, PTL
===============================================================================
