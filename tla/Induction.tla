----------------------------- MODULE Induction -----------------------------
(***************************************************************************)
(* Induction and recursion over the natural numbers in a form that needs   *)
(* no operator as a parameter: a property is the set of the numbers that   *)
(* have it, the step of a recursion is a function.  From these, facts about*)
(* the sums and the searches the modules define.                           *)
(***************************************************************************)
EXTENDS Sums, Lists, SequencesExt, TLAPS, WellFoundedInduction

(* A set of naturals that is not empty has a least element *)
LEMMA LeastElement ==
  ASSUME NEW T, T \subseteq Nat, T # {}
  PROVE  \E x \in T : \A y \in T : x <= y
<1> DEFINE R == OpToRel(<, Nat)
<1>1. IsWellFoundedOn(R, Nat)
  BY NatLessThanWellFounded
<1>2. PICK x \in T : \A y \in T : ~ (<<y, x>> \in R)
  <2> HIDE DEF R
  <2> QED BY <1>1, WFMin
<1>3. \A y \in T : ~(y < x)
  BY <1>2 DEF OpToRel
<1> HIDE DEF R
<1>4. QED
  BY <1>3

(* A set that holds 0 and is closed under the successor holds every number *)
LEMMA NatSetInduction ==
  ASSUME NEW S, 0 \in S, \A n \in Nat : n \in S => n + 1 \in S
  PROVE  \A n \in Nat : n \in S
<1> DEFINE T == {n \in Nat : n \notin S}
<1> SUFFICES ASSUME T # {} PROVE FALSE
  OBVIOUS
<1>1. PICK x \in T : \A y \in T : x <= y
  <2>1. T \subseteq Nat
    OBVIOUS
  <2> HIDE DEF T
  <2> QED
    BY <2>1, LeastElement
<1>2. x \in Nat /\ x # 0
  OBVIOUS
<1>3. x - 1 \in Nat /\ x - 1 + 1 = x /\ ~(x <= x - 1)
  BY <1>2
<1>4. x - 1 \notin T
  BY <1>1, <1>3
<1> QED
  BY <1>3, <1>4


(* f begins with c, and G gives each of its values from the one before *)
Runs(f, n, S, c, G) ==
    f \in [0..n -> S] /\ f[0] = c /\ \A i \in 1..n : f[i] = G[<<f[i-1], i>>]

(* Such a function exists *)
LEMMA Recursion ==
  ASSUME NEW n \in Nat, NEW S, NEW c \in S, NEW G \in [S \X (1..n) -> S]
  PROVE  \E f : Runs(f, n, S, c, G)
<1> DEFINE A(m) == {g \in [0..m -> S] : g[0] = c /\ \A i \in 1..m : g[i] = G[<<g[i-1], i>>]}
           P == {m \in Nat : m <= n => A(m) # {}}
<1>1. 0 \in P
  <2> DEFINE g == [i \in 0..0 |-> c]
  <2>1. g \in [0..0 -> S] /\ g[0] = c /\ 1..0 = {}
    OBVIOUS
  <2> HIDE DEF g
  <2>2. g \in A(0)
    BY <2>1
  <2> HIDE DEF A
  <2> QED
    BY <2>2
<1>2. ASSUME NEW m \in Nat, m \in P
      PROVE  m + 1 \in P
  <2> SUFFICES ASSUME m + 1 <= n PROVE A(m + 1) # {}
    OBVIOUS
  <2>1. PICK g : g \in A(m)
    <3> HIDE DEF A
    <3> QED BY <1>2
  <2> DEFINE v == G[<<g[m], m + 1>>]
             h == [i \in 0..(m + 1) |-> IF i <= m THEN g[i] ELSE v]
  <2>2. g \in [0..m -> S] /\ g[0] = c /\ \A i \in 1..m : g[i] = G[<<g[i-1], i>>]
    BY <2>1
  <2>3. v \in S
    <3>1. g[m] \in S /\ m + 1 \in 1..n
      BY <2>2
    <3> QED BY <3>1
  <2>4. h[m + 1] = v /\ \A i \in 0..m : h[i] = g[i]
    <3> HIDE DEF v
    <3> QED OBVIOUS
  <2>5. h \in [0..(m + 1) -> S]
    <3> HIDE DEF v
    <3> QED BY <2>2, <2>3
  <2>6. ASSUME NEW i \in 1..(m + 1) PROVE h[i] = G[<<h[i-1], i>>]
    <3> HIDE DEF h
    <3>1. CASE i = m + 1
      <4>1. h[i - 1] = g[m]
        BY <3>1, <2>4
      <4> QED BY <4>1, <3>1, <2>4
    <3>2. CASE i \in 1..m
      <4>1. h[i] = g[i] /\ h[i - 1] = g[i - 1]
        BY <3>2, <2>4
      <4> QED BY <4>1, <3>2, <2>2
    <3> QED BY <3>1, <3>2
  <2>7. h[0] = c
    BY <2>4, <2>2
  <2>8. h \in A(m + 1)
    <3> HIDE DEF h
    <3> QED BY <2>5, <2>6, <2>7
  <2> HIDE DEF A
  <2> QED BY <2>8
<1>3. n \in P
  <2> HIDE DEF P
  <2> QED BY <1>1, <1>2, NatSetInduction
<1>4. PICK f : f \in A(n)
  <2> HIDE DEF A
  <2> QED BY <1>3
<1>5. f \in [0..n -> S] /\ f[0] = c /\ \A i \in 1..n : f[i] = G[<<f[i-1], i>>]
  BY <1>4
<1> QED BY <1>5 DEF Runs


------------------------------------------------------------------------------
(* Sums                                                                    *)

UpTo(s) == CHOOSE upTo : upTo = [i \in 0 .. Len(s) |-> IF i = 0 THEN 0 ELSE upTo[i - 1] + s[i]]

LEMMA UpToFacts ==
  ASSUME NEW s \in Seq(Int)
  PROVE  /\ UpTo(s) \in [0..Len(s) -> Int] /\ UpTo(s)[0] = 0
         /\ \A i \in 1..Len(s) : UpTo(s)[i] = UpTo(s)[i - 1] + s[i]
         /\ Total(s) = UpTo(s)[Len(s)]
<1> DEFINE G == [p \in Int \X (1..Len(s)) |-> p[1] + s[p[2]]]
<1>1. G \in [Int \X (1..Len(s)) -> Int]
  OBVIOUS
<1>2. PICK f : Runs(f, Len(s), Int, 0, G)
  <2> HIDE DEF G
  <2>1. Len(s) \in Nat /\ 0 \in Int
    OBVIOUS
  <2> QED BY <1>1, <2>1, Recursion
<1>3. ASSUME NEW i \in 1..Len(s) PROVE f[i] = f[i - 1] + s[i]
  <2>1. i - 1 \in 0..Len(s) /\ f \in [0..Len(s) -> Int]
    BY <1>2 DEF Runs
  <2>2. <<f[i - 1], i>> \in Int \X (1..Len(s))
    <3> HIDE DEF G
    <3> QED BY <2>1
  <2>3. f[i] = G[<<f[i - 1], i>>]
    <3> HIDE DEF G
    <3> QED BY <1>2 DEF Runs
  <2> QED BY <2>2, <2>3
<1> HIDE DEF G
<1>4. f = [i \in 0..Len(s) |-> IF i = 0 THEN 0 ELSE f[i - 1] + s[i]]
  BY <1>2, <1>3 DEF Runs
<1>5. UpTo(s) = [i \in 0..Len(s) |-> IF i = 0 THEN 0 ELSE UpTo(s)[i - 1] + s[i]]
  BY <1>4 DEF UpTo
<1>6. UpTo(s)[0] = 0 /\ \A i \in 1..Len(s) : UpTo(s)[i] = UpTo(s)[i - 1] + s[i]
  <2> DEFINE u == UpTo(s)
  <2>1. u = [i \in 0..Len(s) |-> IF i = 0 THEN 0 ELSE u[i - 1] + s[i]]
    BY <1>5
  <2> HIDE DEF u
  <2>2. 0 \in 0..Len(s) /\ \A i \in 1..Len(s) : i \in 0..Len(s) /\ i # 0
    OBVIOUS
  <2>3. u[0] = 0
    BY <2>1, <2>2
  <2>4. \A i \in 1..Len(s) : u[i] = u[i - 1] + s[i]
    BY <2>1, <2>2
  <2> QED BY <2>3, <2>4 DEF u
<1>7. Total(s) = UpTo(s)[Len(s)]
  BY DEF Total, UpTo
<1>8. UpTo(s) \in [0..Len(s) -> Int]
  <2> DEFINE P == {i \in Nat : i <= Len(s) => UpTo(s)[i] \in Int}
  <2>1. 0 \in P
    BY <1>6
  <2>2. ASSUME NEW i \in Nat, i \in P PROVE i + 1 \in P
    <3> SUFFICES ASSUME i + 1 <= Len(s) PROVE UpTo(s)[i + 1] \in Int
      OBVIOUS
    <3>1. i + 1 \in 1..Len(s) /\ (i + 1) - 1 = i
      OBVIOUS
    <3>2. UpTo(s)[i + 1] = UpTo(s)[i] + s[i + 1]
      BY <3>1, <1>6
    <3> QED BY <2>2, <3>1, <3>2
  <2>3. \A i \in Nat : i \in P
    <3> HIDE DEF P
    <3> QED BY <2>1, <2>2, NatSetInduction
  <2>4. \A i \in 0..Len(s) : UpTo(s)[i] \in Int
    BY <2>3
  <2> QED BY <1>5, <2>4
<1> QED BY <1>6, <1>7, <1>8

LEMMA TotalAppend ==
  ASSUME NEW s \in Seq(Int), NEW x \in Int
  PROVE  /\ Total(s) \in Int /\ Total(<<>>) = 0 /\ Total(<<x>>) = x
         /\ Total(Append(s, x)) = Total(s) + x
<1>1. ASSUME NEW t \in Seq(Int) PROVE Total(t) \in Int /\ (t = <<>> => Total(t) = 0)
  <2>1. Total(t) = UpTo(t)[Len(t)]
    BY UpToFacts
  <2>2. UpTo(t) \in [0..Len(t) -> Int] /\ UpTo(t)[0] = 0
    BY UpToFacts
  <2>3. Len(t) \in 0..Len(t) /\ (t = <<>> => Len(t) = 0)
    OBVIOUS
  <2> QED BY <2>1, <2>2, <2>3
<1>2. ASSUME NEW t \in Seq(Int), NEW y \in Int PROVE Total(Append(t, y)) = Total(t) + y
  <2> DEFINE a == Append(t, y)
             P == {i \in Nat : i <= Len(t) => UpTo(a)[i] = UpTo(t)[i]}
  <2>1. a \in Seq(Int) /\ Len(a) = Len(t) + 1 /\ a[Len(t) + 1] = y /\ \A i \in 1..Len(t) : a[i] = t[i]
    OBVIOUS
  <2> HIDE DEF a
  <2>2. 0 \in P
    BY <2>1, UpToFacts
  <2>3. ASSUME NEW i \in Nat, i \in P PROVE i + 1 \in P
    <3> SUFFICES ASSUME i + 1 <= Len(t) PROVE UpTo(a)[i + 1] = UpTo(t)[i + 1]
      OBVIOUS
    <3>1. i + 1 \in 1..Len(t) /\ i + 1 \in 1..Len(a) /\ (i + 1) - 1 = i
      BY <2>1
    <3>2. UpTo(t)[i + 1] = UpTo(t)[i] + t[i + 1]
      BY <3>1, UpToFacts
    <3>3. UpTo(a)[i + 1] = UpTo(a)[i] + a[i + 1]
      BY <3>1, <2>1, UpToFacts
    <3> QED BY <2>1, <2>3, <3>1, <3>2, <3>3
  <2>4. \A i \in Nat : i \in P
    <3> HIDE DEF P
    <3> QED BY <2>2, <2>3, NatSetInduction
  <2>5. UpTo(a)[Len(t)] = UpTo(t)[Len(t)]
    BY <2>4
  <2>6. UpTo(a)[Len(t) + 1] = UpTo(a)[Len(t)] + y
    <3>1. Len(t) + 1 \in 1..Len(a) /\ (Len(t) + 1) - 1 = Len(t)
      BY <2>1
    <3> QED BY <3>1, <2>1, UpToFacts
  <2>7. Total(a) = UpTo(a)[Len(a)] /\ Total(t) = UpTo(t)[Len(t)]
    BY <2>1, UpToFacts
  <2>8. Total(a) = Total(t) + y
    BY <2>1, <2>5, <2>6, <2>7
  <2> QED BY <2>8 DEF a
<1>3. <<>> \in Seq(Int) /\ <<x>> = Append(<<>>, x)
  OBVIOUS
<1>4. Total(<<>>) = 0 /\ Total(Append(<<>>, x)) = Total(<<>>) + x
  BY <1>1, <1>2, <1>3
<1>5. Total(<<x>>) = x
  BY <1>3, <1>4
<1> QED BY <1>1, <1>2, <1>4, <1>5

LEMMA ConcatAppend ==
  ASSUME NEW S, NEW s \in Seq(S), NEW t \in Seq(S), NEW x \in S
  PROVE  s \o Append(t, x) = Append(s \o t, x)
  OBVIOUS

LEMMA ConcatAssoc ==
  ASSUME NEW S, NEW s \in Seq(S), NEW t \in Seq(S), NEW u \in Seq(S)
  PROVE  (s \o t) \o u = s \o (t \o u)
  OBVIOUS

LEMMA TotalConcat ==
  ASSUME NEW s \in Seq(Int), NEW t \in Seq(Int)
  PROVE  Total(s \o t) = Total(s) + Total(t)
<1> DEFINE f(i) == SubSeq(t, 1, i)
           P == {i \in Nat : i <= Len(t) => Total(s \o f(i)) = Total(s) + Total(f(i))}
<1>1. 0 \in P
  <2>1. f(0) = <<>> /\ s \o <<>> = s
    OBVIOUS
  <2>2. Total(<<>>) = 0 /\ Total(s) \in Int
    <3>1. 0 \in Int
      OBVIOUS
    <3> QED BY <3>1, TotalAppend
  <2> HIDE DEF f
  <2>3. Total(s \o f(0)) = Total(s) + Total(f(0))
    <3>1. Total(s \o f(0)) = Total(s) /\ Total(f(0)) = 0
      BY <2>1, <2>2, Zenon
    <3> QED BY <2>2, <3>1
  <2> QED BY <2>3
<1>2. ASSUME NEW i \in Nat, i \in P PROVE i + 1 \in P
  <2> SUFFICES ASSUME i + 1 <= Len(t) PROVE Total(s \o f(i + 1)) = Total(s) + Total(f(i + 1))
    OBVIOUS
  <2> DEFINE x == t[i + 1]
             u == s \o f(i)
  <2>1. x \in Int /\ f(i) \in Seq(Int) /\ u \in Seq(Int)
    OBVIOUS
  <2>2. f(i + 1) = Append(f(i), x)
    OBVIOUS
  <2>3. s \o f(i + 1) = Append(u, x)
    <3>1. s \o Append(f(i), x) = Append(s \o f(i), x)
      <4> HIDE DEF f, x
      <4> QED BY <2>1, ConcatAppend
    <3> QED BY <2>2, <3>1
  <2>4. Total(u) = Total(s) + Total(f(i))
    BY <1>2
  <2> HIDE DEF f, x, u
  <2>5. Total(Append(u, x)) = Total(u) + x /\ Total(Append(f(i), x)) = Total(f(i)) + x
        /\ Total(f(i)) \in Int /\ Total(s) \in Int
    BY <2>1, TotalAppend
  <2>6. Total(s \o f(i + 1)) = Total(u) + x
    BY <2>3, <2>5
  <2>7. Total(f(i + 1)) = Total(f(i)) + x
    BY <2>2, <2>5
  <2> QED BY <2>1, <2>4, <2>5, <2>6, <2>7
<1>3. Len(t) \in P
  <2>1. \A i \in Nat : i \in P
    <3> HIDE DEF P
    <3> QED BY <1>1, <1>2, NatSetInduction
  <2> HIDE DEF P
  <2> QED BY <2>1
<1>4. f(Len(t)) = t
  OBVIOUS
<1> HIDE DEF f
<1> QED BY <1>3, <1>4


LEMMA TotalTail ==
  ASSUME NEW s \in Seq(Int), s # <<>>
  PROVE  Total(s) = Head(s) + Total(Tail(s))
<1> DEFINE h == <<Head(s)>>
           t == Tail(s)
<1>1. h \in Seq(Int) /\ t \in Seq(Int) /\ s = h \o t /\ Head(s) \in Int
  OBVIOUS
<1>2. Total(h) = Head(s)
  <2>1. <<>> \in Seq(Int)
    OBVIOUS
  <2> QED BY <1>1, <2>1, TotalAppend
<1> HIDE DEF h, t
<1>3. Total(h \o t) = Total(h) + Total(t)
  BY <1>1, TotalConcat
<1>4. Total(s) = Total(h \o t)
  BY <1>1
<1> QED BY <1>2, <1>3, <1>4 DEF t

LEMMA TotalNat ==
  ASSUME NEW s \in Seq(Nat)
  PROVE  Total(s) \in Nat
<1> DEFINE f(i) == SubSeq(s, 1, i)
           P == {i \in Nat : i <= Len(s) => Total(f(i)) \in Nat}
<1>1. 0 \in P
  <2>1. f(0) = <<>> /\ <<>> \in Seq(Int) /\ 0 \in Int
    OBVIOUS
  <2> HIDE DEF f
  <2>2. Total(f(0)) = 0
    BY <2>1, TotalAppend, Zenon
  <2> QED BY <2>2
<1>2. ASSUME NEW i \in Nat, i \in P PROVE i + 1 \in P
  <2> SUFFICES ASSUME i + 1 <= Len(s) PROVE Total(f(i + 1)) \in Nat
    OBVIOUS
  <2> DEFINE x == s[i + 1]
  <2>1. x \in Nat /\ f(i) \in Seq(Int) /\ f(i + 1) = Append(f(i), x)
    OBVIOUS
  <2>2. Total(f(i)) \in Nat
    BY <1>2
  <2> HIDE DEF f, x
  <2>3. x \in Int
    BY <2>1
  <2>4. Total(f(i + 1)) = Total(f(i)) + x
    BY <2>1, <2>3, TotalAppend
  <2> QED BY <2>1, <2>2, <2>4
<1>3. Len(s) \in P
  <2>1. \A i \in Nat : i \in P
    <3> HIDE DEF P
    <3> QED BY <1>1, <1>2, NatSetInduction
  <2> HIDE DEF P
  <2> QED BY <2>1
<1>4. f(Len(s)) = s
  OBVIOUS
<1> HIDE DEF f
<1> QED BY <1>3, <1>4

LEMMA TotalConst ==
  ASSUME NEW s \in Seq(Int), NEW c \in {0, 1}, \A i \in 1..Len(s) : s[i] = c
  PROVE  Total(s) = IF c = 0 THEN 0 ELSE Len(s)
<1> DEFINE P == {i \in Nat : i <= Len(s) => UpTo(s)[i] = IF c = 0 THEN 0 ELSE i}
<1>1. 0 \in P
  BY UpToFacts
<1>2. ASSUME NEW i \in Nat, i \in P PROVE i + 1 \in P
  <2> SUFFICES ASSUME i + 1 <= Len(s) PROVE UpTo(s)[i + 1] = IF c = 0 THEN 0 ELSE i + 1
    OBVIOUS
  <2>1. i + 1 \in 1..Len(s) /\ i <= Len(s) /\ (i + 1) - 1 = i
    OBVIOUS
  <2>2. UpTo(s)[i + 1] = UpTo(s)[i] + s[i + 1]
    BY <2>1, UpToFacts
  <2> QED BY <1>2, <2>1, <2>2
<1>3. Len(s) \in P
  <2>1. \A i \in Nat : i \in P
    <3> HIDE DEF P
    <3> QED BY <1>1, <1>2, NatSetInduction
  <2> HIDE DEF P
  <2> QED BY <2>1
<1>4. Total(s) = UpTo(s)[Len(s)]
  BY UpToFacts
<1> QED BY <1>3, <1>4

------------------------------------------------------------------------------
(* Searches                                                                *)

LEMMA MaxFacts ==
  ASSUME NEW n \in Nat, NEW T, T \subseteq 0..n, T # {}
  PROVE  Max(T) \in T /\ \A y \in T : y <= Max(T)
<1> DEFINE U == {k \in Nat : k <= n /\ n - k \in T}
<1>1. U # {}
  <2>1. PICK x \in T : TRUE
    OBVIOUS
  <2>2. x \in 0..n /\ n - x \in Nat /\ n - x <= n /\ n - (n - x) = x
    BY <2>1
  <2>3. n - x \in U
    BY <2>1, <2>2
  <2> QED BY <2>3
<1>2. PICK k \in U : \A y \in U : k <= y
  <2>1. U \subseteq Nat
    OBVIOUS
  <2> HIDE DEF U
  <2> QED BY <1>1, <2>1, LeastElement
<1>3. n - k \in T /\ k \in Nat
  BY <1>2
<1>4. ASSUME NEW y \in T PROVE n - k >= y
  <2>1. y \in 0..n /\ n - y \in Nat /\ n - y <= n /\ n - (n - y) = y
    OBVIOUS
  <2>2. n - y \in U
    BY <2>1
  <2>3. k <= n - y
    BY <1>2, <2>2
  <2> QED BY <1>3, <2>1, <2>3
<1>5. \E x \in T : \A y \in T : x >= y
  BY <1>3, <1>4
<1>6. Max(T) \in T /\ \A y \in T : Max(T) >= y
  BY <1>5 DEF Max
<1> QED BY <1>6

------------------------------------------------------------------------------
(* Lists                                                                   *)

Distinct(s) == \A i, j \in 1..Len(s) : s[i] = s[j] => i = j

Kept(s, S) == CHOOSE kept : kept = [i \in 0 .. Len(s) |->
                  IF i = 0 THEN <<>>
                  ELSE IF s[i] \in S THEN Append(kept[i - 1], s[i]) ELSE kept[i - 1]]

LEMMA KeptFacts ==
  ASSUME NEW T, NEW s \in Seq(T), NEW S
  PROVE  /\ Kept(s, S)[0] = <<>>
         /\ \A i \in 1..Len(s) : Kept(s, S)[i] = IF s[i] \in S THEN Append(Kept(s, S)[i - 1], s[i])
                                                 ELSE Kept(s, S)[i - 1]
         /\ Keep(s, S) = Kept(s, S)[Len(s)]
<1> DEFINE G == [p \in Seq(T) \X (1..Len(s)) |-> IF s[p[2]] \in S THEN Append(p[1], s[p[2]]) ELSE p[1]]
<1>1. G \in [Seq(T) \X (1..Len(s)) -> Seq(T)]
  OBVIOUS
<1>2. PICK f : Runs(f, Len(s), Seq(T), <<>>, G)
  <2> HIDE DEF G
  <2>1. Len(s) \in Nat /\ <<>> \in Seq(T)
    OBVIOUS
  <2> QED BY <1>1, <2>1, Recursion
<1>3. ASSUME NEW i \in 1..Len(s) PROVE f[i] = IF s[i] \in S THEN Append(f[i - 1], s[i]) ELSE f[i - 1]
  <2>1. i - 1 \in 0..Len(s) /\ f \in [0..Len(s) -> Seq(T)]
    BY <1>2 DEF Runs
  <2>2. <<f[i - 1], i>> \in Seq(T) \X (1..Len(s))
    <3> HIDE DEF G
    <3> QED BY <2>1
  <2>3. f[i] = G[<<f[i - 1], i>>]
    <3> HIDE DEF G
    <3> QED BY <1>2 DEF Runs
  <2> QED BY <2>2, <2>3
<1> HIDE DEF G
<1>4. f = [i \in 0..Len(s) |-> IF i = 0 THEN <<>>
                               ELSE IF s[i] \in S THEN Append(f[i - 1], s[i]) ELSE f[i - 1]]
  <2>1. f \in [0..Len(s) -> Seq(T)] /\ f[0] = <<>>
    BY <1>2 DEF Runs
  <2>2. ASSUME NEW i \in 0..Len(s)
        PROVE  f[i] = IF i = 0 THEN <<>>
                      ELSE IF s[i] \in S THEN Append(f[i - 1], s[i]) ELSE f[i - 1]
    <3>1. CASE i = 0
      BY <2>1, <3>1
    <3>2. CASE i # 0
      <4>1. i \in 1..Len(s)
        BY <3>2
      <4> QED BY <4>1, <1>3, <3>2
    <3> QED BY <3>1, <3>2
  <2> QED BY <2>1, <2>2
<1> DEFINE u == Kept(s, S)
<1>5. u = [i \in 0..Len(s) |-> IF i = 0 THEN <<>>
                               ELSE IF s[i] \in S THEN Append(u[i - 1], s[i]) ELSE u[i - 1]]
  BY <1>4 DEF Kept
<1>6. Keep(s, S) = u[Len(s)]
  BY DEF Keep, Kept
<1> HIDE DEF u
<1>7. 0 \in 0..Len(s) /\ \A i \in 1..Len(s) : i \in 0..Len(s) /\ i # 0
  OBVIOUS
<1>8. u[0] = <<>>
  BY <1>5, <1>7
<1>9. \A i \in 1..Len(s) : u[i] = IF s[i] \in S THEN Append(u[i - 1], s[i]) ELSE u[i - 1]
  BY <1>5, <1>7
<1> QED BY <1>6, <1>8, <1>9 DEF u

(* What Append does to the elements of a list *)
LEMMA AppendElements ==
  ASSUME NEW T, NEW s \in Seq(T), NEW x \in T
  PROVE  /\ Append(s, x) \in Seq(T)
         /\ ToSet(Append(s, x)) = ToSet(s) \cup {x}
         /\ Distinct(s) /\ x \notin ToSet(s) => Distinct(Append(s, x))
<1> DEFINE t == Append(s, x)
<1>1. t \in Seq(T) /\ Len(t) = Len(s) + 1 /\ Len(s) \in Nat /\ DOMAIN t = 1..Len(t) /\ DOMAIN s = 1..Len(s)
  OBVIOUS
<1>2. t[Len(s) + 1] = x /\ \A i \in 1..Len(s) : t[i] = s[i]
  OBVIOUS
<1> HIDE DEF t
<1>3. \A i \in 1..Len(t) : i \in 1..Len(s) \/ i = Len(s) + 1
  BY <1>1
<1>4. Len(s) + 1 \in 1..Len(t) /\ \A i \in 1..Len(s) : i \in 1..Len(t)
  BY <1>1
<1>5. ToSet(t) = ToSet(s) \cup {x}
  <2>1. ASSUME NEW y \in ToSet(t) PROVE y \in ToSet(s) \cup {x}
    <3>1. PICK i \in 1..Len(t) : t[i] = y
      BY <1>1 DEF ToSet
    <3>2. CASE i \in 1..Len(s)
      BY <1>1, <1>2, <3>1, <3>2 DEF ToSet
    <3>3. CASE i = Len(s) + 1
      BY <1>2, <3>1, <3>3
    <3> QED BY <1>3, <3>2, <3>3
  <2>2. x \in ToSet(t)
    BY <1>1, <1>2, <1>4 DEF ToSet
  <2>3. \A y \in ToSet(s) : y \in ToSet(t)
    BY <1>1, <1>2, <1>4 DEF ToSet
  <2> QED BY <2>1, <2>2, <2>3
<1>6. ASSUME Distinct(s), x \notin ToSet(s) PROVE Distinct(t)
  <2> SUFFICES ASSUME NEW i \in 1..Len(t), NEW j \in 1..Len(t), t[i] = t[j] PROVE i = j
    BY DEF Distinct
  <2>1. \A k \in 1..Len(s) : s[k] # x
    BY <1>6, <1>1 DEF ToSet
  <2>2. CASE i \in 1..Len(s) /\ j \in 1..Len(s)
    BY <1>6, <1>2, <2>2 DEF Distinct
  <2>3. CASE i = Len(s) + 1 /\ j \in 1..Len(s)
    BY <1>2, <2>1, <2>3
  <2>4. CASE j = Len(s) + 1 /\ i \in 1..Len(s)
    BY <1>2, <2>1, <2>4
  <2>5. CASE i = Len(s) + 1 /\ j = Len(s) + 1
    BY <2>5
  <2> QED BY <1>3, <2>2, <2>3, <2>4, <2>5
<1> QED BY <1>1, <1>5, <1>6 DEF t

(* The elements a filtered list has *)
LEMMA KeepElements ==
  ASSUME NEW T, NEW s \in Seq(T), NEW S
  PROVE  /\ Keep(s, S) \in Seq(T)
         /\ ToSet(Keep(s, S)) = ToSet(s) \cap S
         /\ Distinct(s) => Distinct(Keep(s, S))
<1> DEFINE u == Kept(s, S)
           E(n) == {s[i] : i \in 1..n} \cap S
           P == {n \in Nat : n <= Len(s) => /\ u[n] \in Seq(T) /\ ToSet(u[n]) = E(n)
                                            /\ Distinct(s) => Distinct(u[n])}
<1>1. u[0] = <<>> /\ Keep(s, S) = u[Len(s)]
  BY KeptFacts
<1>2. \A i \in 1..Len(s) : u[i] = IF s[i] \in S THEN Append(u[i - 1], s[i]) ELSE u[i - 1]
  BY KeptFacts
<1> HIDE DEF u
<1>3. 0 \in P
  <2>1. u[0] \in Seq(T) /\ DOMAIN u[0] = {} /\ Len(u[0]) = 0 /\ 1..0 = {}
    BY <1>1
  <2>2. ToSet(u[0]) = E(0)
    BY <2>1 DEF ToSet
  <2>3. Distinct(u[0])
    BY <2>1 DEF Distinct
  <2> HIDE DEF E
  <2> QED BY <2>1, <2>2, <2>3
<1>4. ASSUME NEW n \in Nat, n \in P PROVE n + 1 \in P
  <2> SUFFICES ASSUME n + 1 <= Len(s)
               PROVE  /\ u[n + 1] \in Seq(T) /\ ToSet(u[n + 1]) = E(n + 1)
                      /\ Distinct(s) => Distinct(u[n + 1])
    OBVIOUS
  <2>0. n <= Len(s) /\ n + 1 \in 1..Len(s) /\ (n + 1) - 1 = n /\ s[n + 1] \in T
    OBVIOUS
  <2>1. u[n] \in Seq(T) /\ ToSet(u[n]) = E(n) /\ (Distinct(s) => Distinct(u[n]))
    BY <1>4, <2>0
  <2>2. u[n + 1] = IF s[n + 1] \in S THEN Append(u[n], s[n + 1]) ELSE u[n]
    BY <1>2, <2>0
  <2>3. E(n + 1) = E(n) \cup ({s[n + 1]} \cap S)
    <3>1. 1..(n + 1) = (1..n) \cup {n + 1}
      OBVIOUS
    <3> QED BY <3>1
  <2>4. CASE s[n + 1] \notin S
    <3> HIDE DEF E
    <3>1. u[n + 1] = u[n] /\ E(n + 1) = E(n)
      BY <2>2, <2>3, <2>4
    <3> QED BY <2>1, <3>1
  <2>5. CASE s[n + 1] \in S
    <3>1. Distinct(s) => s[n + 1] \notin E(n)
      <4> SUFFICES ASSUME Distinct(s), NEW i \in 1..n, s[i] = s[n + 1] PROVE FALSE
        OBVIOUS
      <4>1. i \in 1..Len(s) /\ i # n + 1
        BY <2>0
      <4> QED BY <4>1, <2>0 DEF Distinct
    <3> HIDE DEF E
    <3>2. u[n + 1] = Append(u[n], s[n + 1]) /\ E(n + 1) = E(n) \cup {s[n + 1]}
      BY <2>2, <2>3, <2>5
    <3> DEFINE x == s[n + 1]
    <3>3. /\ Append(u[n], x) \in Seq(T)
          /\ ToSet(Append(u[n], x)) = ToSet(u[n]) \cup {x}
          /\ Distinct(u[n]) /\ x \notin ToSet(u[n]) => Distinct(Append(u[n], x))
      <4>1. x \in T /\ u[n] \in Seq(T)
        BY <2>0, <2>1
      <4> HIDE DEF x
      <4> QED BY <4>1, AppendElements
    <3> QED BY <2>1, <3>1, <3>2, <3>3
  <2> QED BY <2>4, <2>5
<1>5. Len(s) \in P
  <2>1. \A n \in Nat : n \in P
    <3> HIDE DEF P
    <3> QED BY <1>3, <1>4, NatSetInduction
  <2> HIDE DEF P
  <2> QED BY <2>1
<1>6. E(Len(s)) = ToSet(s) \cap S
  BY DEF ToSet
<1> HIDE DEF E
<1> QED BY <1>1, <1>5, <1>6

(* The elements behind the first *)
LEMMA TailElements ==
  ASSUME NEW T, NEW s \in Seq(T), s # <<>>
  PROVE  /\ Tail(s) \in Seq(T) /\ Head(s) \in T
         /\ ToSet(s) = ToSet(Tail(s)) \cup {Head(s)}
         /\ Distinct(s) => Distinct(Tail(s)) /\ Head(s) \notin ToSet(Tail(s))
<1> DEFINE t == Tail(s)
<1>1. t \in Seq(T) /\ Len(t) = Len(s) - 1 /\ Len(s) \in Nat /\ Len(s) >= 1 /\ Len(t) \in Nat
  OBVIOUS
<1>2. DOMAIN t = 1..Len(t) /\ DOMAIN s = 1..Len(s)
  BY <1>1
<1>3. Head(s) = s[1] /\ \A i \in 1..Len(t) : t[i] = s[i + 1]
  OBVIOUS
<1> HIDE DEF t
<1>4. 1 \in 1..Len(s) /\ \A i \in 1..Len(t) : i + 1 \in 1..Len(s) /\ i + 1 # 1
  BY <1>1
<1>5. ASSUME NEW i \in 1..Len(s) PROVE i = 1 \/ (i - 1 \in 1..Len(t) /\ (i - 1) + 1 = i)
  BY <1>1
<1>6. ToSet(s) = ToSet(t) \cup {s[1]}
  <2>1. ASSUME NEW y \in ToSet(s) PROVE y \in ToSet(t) \cup {s[1]}
    <3>1. PICK i \in 1..Len(s) : s[i] = y
      BY <1>2 DEF ToSet
    <3>2. CASE i = 1
      BY <3>1, <3>2
    <3>3. CASE i - 1 \in 1..Len(t) /\ (i - 1) + 1 = i
      <4>1. t[i - 1] = y
        BY <1>3, <3>1, <3>3
      <4> QED BY <4>1, <3>3, <1>2 DEF ToSet
    <3> QED BY <1>5, <3>2, <3>3
  <2>2. s[1] \in ToSet(s)
    BY <1>2, <1>4 DEF ToSet
  <2>3. ASSUME NEW y \in ToSet(t) PROVE y \in ToSet(s)
    <3>1. PICK i \in 1..Len(t) : t[i] = y
      BY <1>2 DEF ToSet
    <3>2. s[i + 1] = y /\ i + 1 \in 1..Len(s)
      BY <1>3, <1>4, <3>1
    <3> QED BY <3>2, <1>2 DEF ToSet
  <2> QED BY <2>1, <2>2, <2>3
<1>7. ASSUME Distinct(s) PROVE Distinct(t) /\ s[1] \notin ToSet(t)
  <2>1. ASSUME NEW i \in 1..Len(t), NEW j \in 1..Len(t), t[i] = t[j] PROVE i = j
    <3>1. s[i + 1] = s[j + 1] /\ i + 1 \in 1..Len(s) /\ j + 1 \in 1..Len(s)
      BY <1>3, <1>4, <2>1
    <3>2. i + 1 = j + 1
      BY <1>7, <3>1 DEF Distinct
    <3> QED BY <3>2
  <2>2. ASSUME s[1] \in ToSet(t) PROVE FALSE
    <3>1. PICK i \in 1..Len(t) : t[i] = s[1]
      BY <1>2, <2>2 DEF ToSet
    <3>2. s[i + 1] = s[1] /\ i + 1 \in 1..Len(s) /\ i + 1 # 1
      BY <1>3, <1>4, <3>1
    <3> QED BY <1>4, <1>7, <3>2 DEF Distinct
  <2> QED BY <2>1, <2>2 DEF Distinct
<1> QED BY <1>1, <1>3, <1>4, <1>6, <1>7 DEF t

(* The first position of some *)
LEMMA MinFacts ==
  ASSUME NEW n \in Nat, NEW T, T \subseteq 1..n, T # {}
  PROVE  Min(T) \in T /\ \A y \in T : Min(T) <= y
<1>1. T \subseteq Nat
  OBVIOUS
<1>2. \E x \in T : \A y \in T : x <= y
  BY <1>1, LeastElement
<1> QED BY <1>2 DEF Min

(* A list without the element at one position *)
LEMMA RemoveAtFacts ==
  ASSUME NEW T, NEW s \in Seq(T), NEW at \in 1..Len(s)
  PROVE  /\ RemoveAt(s, at) \in Seq(T)
         /\ Len(RemoveAt(s, at)) = Len(s) - 1
         /\ \A i \in 1..(Len(s) - 1) : RemoveAt(s, at)[i] = IF i < at THEN s[i] ELSE s[i + 1]
<1> DEFINE u == SubSeq(s, 1, at - 1)
           v == SubSeq(s, at + 1, Len(s))
<1>1. u \in Seq(T) /\ Len(u) = at - 1 /\ \A i \in 1..(at - 1) : u[i] = s[i]
  OBVIOUS
<1>2. v \in Seq(T) /\ Len(v) = Len(s) - at /\ \A i \in 1..(Len(s) - at) : v[i] = s[i + at]
  OBVIOUS
<1>3. RemoveAt(s, at) = u \o v
  BY DEF RemoveAt
<1> HIDE DEF u, v
<1>4. u \o v \in Seq(T) /\ Len(u \o v) = Len(u) + Len(v)
  <2>1. u \in Seq(T) /\ v \in Seq(T)
    BY <1>1, <1>2
  <2>2. u \o v \in Seq(T)
    BY <2>1
  <2>3. Len(u \o v) = Len(u) + Len(v)
    BY <2>1
  <2> QED BY <2>2, <2>3
<1>5. Len(u \o v) = Len(s) - 1
  BY <1>1, <1>2, <1>4
<1>6. ASSUME NEW i \in 1..(Len(s) - 1) PROVE (u \o v)[i] = IF i < at THEN s[i] ELSE s[i + 1]
  <2>1. CASE i < at
    <3>1. (u \o v)[i] = u[i] /\ i \in 1..(at - 1)
      BY <1>1, <1>2, <2>1
    <3> QED BY <3>1, <2>1, <1>1
  <2>2. CASE ~(i < at)
    <3> DEFINE j == i - (at - 1)
    <3>1. j \in 1..(Len(s) - at) /\ j + at = i + 1
      BY <2>2
    <3>2. (u \o v)[i] = v[j]
      BY <1>1, <1>2, <2>2, <3>1
    <3>3. v[j] = s[j + at]
      <4> HIDE DEF j
      <4> QED BY <1>2, <3>1
    <3> QED BY <3>1, <3>2, <3>3, <2>2
  <2> QED BY <2>1, <2>2
<1> QED BY <1>3, <1>4, <1>5, <1>6

(* Every element but one *)
LEMMA RemoveAtElements ==
  ASSUME NEW T, NEW s \in Seq(T), NEW at \in 1..Len(s), Distinct(s)
  PROVE  Distinct(RemoveAt(s, at)) /\ ToSet(RemoveAt(s, at)) = ToSet(s) \ {s[at]}
<1> DEFINE t == RemoveAt(s, at)
           o(i) == IF i < at THEN i ELSE i + 1
<1>1. t \in Seq(T) /\ Len(t) = Len(s) - 1 /\ \A i \in 1..Len(t) : t[i] = s[o(i)]
  <2>1. t \in Seq(T) /\ Len(t) = Len(s) - 1
        /\ \A i \in 1..(Len(s) - 1) : t[i] = IF i < at THEN s[i] ELSE s[i + 1]
    BY RemoveAtFacts
  <2> QED BY <2>1
<1> HIDE DEF t
<1>2. DOMAIN t = 1..Len(t) /\ DOMAIN s = 1..Len(s)
  BY <1>1
<1>3. \A i \in 1..Len(t) : o(i) \in 1..Len(s) /\ o(i) # at
  BY <1>1
<1>4. \A i, j \in 1..Len(t) : o(i) = o(j) => i = j
  OBVIOUS
<1>5. ASSUME NEW k \in 1..Len(s), k # at PROVE \E i \in 1..Len(t) : o(i) = k
  <2>1. CASE k < at
    <3>1. k \in 1..Len(t) /\ o(k) = k
      BY <1>1, <2>1
    <3> QED BY <3>1
  <2>2. CASE k > at
    <3>1. k - 1 \in 1..Len(t) /\ o(k - 1) = k
      BY <1>1, <2>2
    <3> QED BY <3>1
  <2> QED BY <1>5, <2>1, <2>2
<1> HIDE DEF o
<1>6. Distinct(t)
  <2> SUFFICES ASSUME NEW i \in 1..Len(t), NEW j \in 1..Len(t), t[i] = t[j] PROVE i = j
    BY DEF Distinct
  <2>1. s[o(i)] = s[o(j)] /\ o(i) \in 1..Len(s) /\ o(j) \in 1..Len(s)
    BY <1>1, <1>3
  <2>2. o(i) = o(j)
    BY <2>1 DEF Distinct
  <2> QED BY <1>4, <2>2
<1>7. ASSUME NEW y \in ToSet(t) PROVE y \in ToSet(s) \ {s[at]}
  <2>1. PICK i \in 1..Len(t) : t[i] = y
    BY <1>2 DEF ToSet
  <2>2. y = s[o(i)] /\ o(i) \in 1..Len(s) /\ o(i) # at
    BY <1>1, <1>3, <2>1
  <2>3. y # s[at]
    BY <2>2 DEF Distinct
  <2> QED BY <1>2, <2>2, <2>3 DEF ToSet
<1>8. ASSUME NEW y \in ToSet(s) \ {s[at]} PROVE y \in ToSet(t)
  <2>1. PICK k \in 1..Len(s) : s[k] = y
    BY <1>2 DEF ToSet
  <2>2. PICK i \in 1..Len(t) : o(i) = k
    BY <1>5, <2>1
  <2>3. t[i] = y
    BY <1>1, <2>1, <2>2
  <2> QED BY <1>2, <2>3 DEF ToSet
<1> QED BY <1>6, <1>7, <1>8 DEF t


LEMMA ReverseElements ==
  ASSUME NEW T, NEW s \in Seq(T)
  PROVE  Reverse(s) \in Seq(T) /\ ToSet(Reverse(s)) = ToSet(s)
<1> DEFINE t == Reverse(s)
<1>1. Len(s) \in Nat /\ DOMAIN s = 1..Len(s) /\ \A i \in 1..Len(s) : s[i] \in T
  OBVIOUS
<1>2. t = [i \in 1..Len(s) |-> s[(Len(s) - i) + 1]]
  BY DEF Reverse
<1>3. \A i \in 1..Len(s) : (Len(s) - i) + 1 \in 1..Len(s) /\ (Len(s) - ((Len(s) - i) + 1)) + 1 = i
  BY <1>1
<1> HIDE DEF t
<1>4. t \in [1..Len(s) -> T] /\ DOMAIN t = 1..Len(s)
  BY <1>1, <1>2, <1>3
<1>5. t \in Seq(T)
  BY <1>1, <1>4
<1>6. \A i \in 1..Len(s) : t[i] = s[(Len(s) - i) + 1] /\ s[i] = t[(Len(s) - i) + 1]
  BY <1>2, <1>3
<1>7. ToSet(t) = ToSet(s)
  BY <1>1, <1>3, <1>4, <1>6 DEF ToSet
<1> QED BY <1>5, <1>7 DEF t

LEMMA ConcatElements ==
  ASSUME NEW T, NEW s \in Seq(T), NEW t \in Seq(T)
  PROVE  s \o t \in Seq(T) /\ ToSet(s \o t) = ToSet(s) \cup ToSet(t)
<1> DEFINE u == s \o t
<1>1. /\ u \in Seq(T) /\ Len(u) = Len(s) + Len(t) /\ Len(s) \in Nat /\ Len(t) \in Nat
      /\ DOMAIN s = 1..Len(s) /\ DOMAIN t = 1..Len(t) /\ DOMAIN u = 1..Len(u)
  OBVIOUS
<1>2. \A i \in 1..Len(s) : i \in 1..Len(u) /\ u[i] = s[i]
  BY <1>1
<1>3. \A i \in 1..Len(t) : i + Len(s) \in 1..Len(u) /\ u[i + Len(s)] = t[i]
  BY <1>1
<1>4. \A i \in 1..Len(u) : \/ i \in 1..Len(s)
                           \/ i - Len(s) \in 1..Len(t) /\ i = (i - Len(s)) + Len(s)
  BY <1>1
<1> HIDE DEF u
<1>5. ToSet(u) \subseteq ToSet(s) \cup ToSet(t)
  <2> SUFFICES ASSUME NEW i \in 1..Len(u) PROVE u[i] \in ToSet(s) \cup ToSet(t)
    BY <1>1 DEF ToSet
  <2>1. CASE i \in 1..Len(s)
    BY <1>1, <1>2, <2>1 DEF ToSet
  <2>2. CASE i - Len(s) \in 1..Len(t) /\ i = (i - Len(s)) + Len(s)
    <3>1. u[i] = t[i - Len(s)]
      BY <1>3, <2>2
    <3> QED BY <1>1, <2>2, <3>1 DEF ToSet
  <2> QED BY <1>4, <2>1, <2>2
<1>6. ToSet(s) \subseteq ToSet(u)
  BY <1>1, <1>2 DEF ToSet
<1>7. ToSet(t) \subseteq ToSet(u)
  <2> SUFFICES ASSUME NEW i \in 1..Len(t) PROVE t[i] \in ToSet(u)
    BY <1>1 DEF ToSet
  <2>1. i + Len(s) \in DOMAIN u /\ u[i + Len(s)] = t[i]
    BY <1>1, <1>3
  <2> QED BY <2>1 DEF ToSet
<1> QED BY <1>1, <1>5, <1>6, <1>7 DEF u
==============================================================================
