--------------------------- MODULE TLSLayerProofs ---------------------------
(***************************************************************************)
(* The plaintext accounting of a TLS session (LayerTracker driven by TLS,  *)
(* module TLSLayer) is exact, for every value of the constants.            *)
(***************************************************************************)
EXTENDS TLSLayer, TLSProofs, Induction

(* to_net_encoded, and so the plaintext of an item, may be negative *)
Items == [plain : Int, encoded : Nat]

PlainOf(s) == Total(Plains(s))
NetworkOf(s) == Total(Networks(s))

------------------------------------------------------------------------------
(* Sums over items                                                         *)

LEMMA ColumnFacts ==
  ASSUME NEW s \in Seq(Items), NEW t \in Seq(Items), NEW x \in Items
  PROVE  /\ Plains(s) \in Seq(Int) /\ Networks(s) \in Seq(Nat) /\ Networks(s) \in Seq(Int)
         /\ Plains(<<>>) = <<>> /\ Networks(<<>>) = <<>>
         /\ Plains(<<x>>) = <<x.plain>> /\ Networks(<<x>>) = <<x.encoded>>
         /\ Plains(s \o t) = Plains(s) \o Plains(t)
         /\ Networks(s \o t) = Networks(s) \o Networks(t)
<1>1. \A i \in 1..Len(s) : s[i] \in Items
  OBVIOUS
<1>2. Plains(s) \in Seq(Int) /\ Networks(s) \in Seq(Nat) /\ Networks(s) \in Seq(Int)
  BY <1>1 DEF Plains, Networks, Items
<1>3. Plains(<<>>) = <<>> /\ Networks(<<>>) = <<>>
  BY DEF Plains, Networks
<1>4. Plains(<<x>>) = <<x.plain>> /\ Networks(<<x>>) = <<x.encoded>>
  BY DEF Plains, Networks
<1>5. Plains(s \o t) = Plains(s) \o Plains(t)
  BY DEF Plains
<1>6. Networks(s \o t) = Networks(s) \o Networks(t)
  BY DEF Networks
<1> QED BY <1>2, <1>3, <1>4, <1>5, <1>6

LEMMA SumFacts ==
  ASSUME NEW s \in Seq(Items), NEW t \in Seq(Items), NEW x \in Items
  PROVE  /\ PlainOf(s) \in Int /\ NetworkOf(s) \in Nat
         /\ PlainOf(<<>>) = 0 /\ NetworkOf(<<>>) = 0
         /\ PlainOf(<<x>>) = x.plain /\ NetworkOf(<<x>>) = x.encoded
         /\ PlainOf(s \o t) = PlainOf(s) + PlainOf(t)
         /\ NetworkOf(s \o t) = NetworkOf(s) + NetworkOf(t)
<1> DEFINE ps == Plains(s)
           pt == Plains(t)
           ns == Networks(s)
           nt == Networks(t)
<1>1. /\ ps \in Seq(Int) /\ pt \in Seq(Int) /\ ns \in Seq(Int) /\ nt \in Seq(Int) /\ ns \in Seq(Nat)
  BY ColumnFacts
<1>2. x.plain \in Int /\ x.encoded \in Int
  BY DEF Items
<1>3. Plains(<<>>) = <<>> /\ Networks(<<>>) = <<>>
      /\ Plains(<<x>>) = <<x.plain>> /\ Networks(<<x>>) = <<x.encoded>>
  BY ColumnFacts
<1>4. Plains(s \o t) = ps \o pt /\ Networks(s \o t) = ns \o nt
  BY ColumnFacts
<1> HIDE DEF ps, pt, ns, nt
<1>5. Total(ps) \in Int /\ Total(ns) \in Nat
  BY <1>1, <1>2, TotalAppend, TotalNat
<1>6. Total(<<>>) = 0 /\ Total(<<x.plain>>) = x.plain /\ Total(<<x.encoded>>) = x.encoded
  BY <1>1, <1>2, TotalAppend
<1>7. Total(ps \o pt) = Total(ps) + Total(pt) /\ Total(ns \o nt) = Total(ns) + Total(nt)
  BY <1>1, TotalConcat
<1>8. PlainOf(s) = Total(ps) /\ NetworkOf(s) = Total(ns)
      /\ PlainOf(t) = Total(pt) /\ NetworkOf(t) = Total(nt)
  BY DEF PlainOf, NetworkOf, ps, pt, ns, nt
<1>9. PlainOf(<<>>) = 0 /\ NetworkOf(<<>>) = 0
      /\ PlainOf(<<x>>) = x.plain /\ NetworkOf(<<x>>) = x.encoded
  BY <1>3, <1>6 DEF PlainOf, NetworkOf
<1>10. PlainOf(s \o t) = PlainOf(s) + PlainOf(t) /\ NetworkOf(s \o t) = NetworkOf(s) + NetworkOf(t)
  BY <1>4, <1>7, <1>8 DEF PlainOf, NetworkOf
<1> QED BY <1>5, <1>8, <1>9, <1>10

LEMMA ConcatSums ==
  ASSUME NEW s \in Seq(Items), NEW t \in Seq(Items)
  PROVE  NetworkOf(s \o t) = NetworkOf(s) + NetworkOf(t) /\ PlainOf(s \o t) = PlainOf(s) + PlainOf(t)
<1>1. [plain |-> 0, encoded |-> 0] \in Items
  BY DEF Items
<1> QED BY <1>1, SumFacts

(* the empty sequence and a sequence that begins with an item *)
LEMMA SequenceFacts ==
  ASSUME NEW s \in Seq(Items)
  PROVE  /\ <<>> \in Seq(Items) /\ s \o <<>> = s /\ <<>> \o s = s
         /\ s # <<>> => /\ Head(s) \in Items /\ Tail(s) \in Seq(Items)
                        /\ s = <<Head(s)>> \o Tail(s)
         /\ \A x \in Items : /\ <<x>> \in Seq(Items) /\ <<x>> \o s \in Seq(Items)
                             /\ <<x>> \o s # <<>> /\ Head(<<x>> \o s) = x /\ Tail(<<x>> \o s) = s
         /\ \A x \in Items : Append(s, x) = s \o <<x>> /\ Append(s, x) \in Seq(Items)
                             /\ Last(Append(s, x)) = x
<1>1. <<>> \in Seq(Items) /\ s \o <<>> = s /\ <<>> \o s = s
  OBVIOUS
<1>2. s # <<>> => Head(s) \in Items /\ Tail(s) \in Seq(Items) /\ s = <<Head(s)>> \o Tail(s)
  OBVIOUS
<1>3. ASSUME NEW x \in Items
      PROVE  /\ <<x>> \in Seq(Items) /\ <<x>> \o s \in Seq(Items)
             /\ <<x>> \o s # <<>> /\ Head(<<x>> \o s) = x /\ Tail(<<x>> \o s) = s
  OBVIOUS
<1>4. ASSUME NEW x \in Items
      PROVE  Append(s, x) = s \o <<x>> /\ Append(s, x) \in Seq(Items) /\ Last(Append(s, x)) = x
  BY DEF Last
<1> QED BY <1>1, <1>2, <1>3, <1>4


------------------------------------------------------------------------------
(* The loop of finished()                                                  *)

Frames == [encoded : Nat, plain : Int, list : Seq(Items)]

(* the loop has nothing left to do *)
Stuck(f) == f.list = <<>> \/ f.encoded < Head(f.list).encoded

(* g is what the loop has taken from the items, when bytes were acknowledged *)
TakenOff(items, bytes, f, g) ==
    /\ g \in Seq(Items) /\ items = g \o f.list
    /\ f.encoded + NetworkOf(g) = bytes /\ f.plain = PlainOf(g)

LEMMA FrameFacts ==
  ASSUME NEW f \in Frames
  PROVE  /\ f.encoded \in Nat /\ f.plain \in Int /\ f.list \in Seq(Items)
         /\ erase(f) \in Frames
         /\ Stuck(f) => erase(f) = f
         /\ ~Stuck(f) => /\ f.list # <<>> /\ Head(f.list).encoded <= f.encoded
                         /\ Head(f.list) \in Items
                         /\ Head(f.list).plain \in Int /\ Head(f.list).encoded \in Nat
                         /\ erase(f).list = Tail(f.list)
                         /\ erase(f).plain = f.plain + Head(f.list).plain
                         /\ erase(f).encoded = f.encoded - Head(f.list).encoded
<1>1. f.encoded \in Nat /\ f.plain \in Int /\ f.list \in Seq(Items)
  BY DEF Frames
<1>2. CASE Stuck(f)
  <2>1. erase(f) = f
    BY <1>2 DEF erase, Stuck
  <2> QED BY <1>1, <1>2, <2>1
<1>3. CASE ~Stuck(f)
  <2> DEFINE h == Head(f.list)
             u == f.encoded - h.encoded
             v == f.plain + h.plain
             t == Tail(f.list)
  <2>1. f.list # <<>> /\ ~(f.encoded < h.encoded)
    BY <1>3 DEF Stuck
  <2>2. h \in Items /\ t \in Seq(Items)
    BY <1>1, <2>1
  <2>3. h.plain \in Int /\ h.encoded \in Nat
    BY <2>2 DEF Items
  <2>4. h.encoded <= f.encoded /\ u \in Nat /\ v \in Int
    BY <1>1, <2>1, <2>3
  <2>5. erase(f) = [encoded |-> u, plain |-> v, list |-> t]
    BY <2>1 DEF erase
  <2>6. u = f.encoded - h.encoded /\ v = f.plain + h.plain
    OBVIOUS
  <2> HIDE DEF u, v, t, h
  <2>7. erase(f) \in Frames /\ erase(f).list = t /\ erase(f).plain = v /\ erase(f).encoded = u
    BY <2>2, <2>4, <2>5 DEF Frames
  <2> QED BY <1>1, <1>3, <2>1, <2>2, <2>3, <2>4, <2>6, <2>7 DEF h, t
<1> QED BY <1>2, <1>3

LEMMA EraseTakes ==
  ASSUME NEW items \in Seq(Items), NEW bytes \in Nat, NEW k \in Nat, NEW f \in Frames, NEW g,
         TakenOff(items, bytes, f, g), Stuck(f) \/ Len(g) >= k
  PROVE  \E h : TakenOff(items, bytes, erase(f), h) /\ (Stuck(erase(f)) \/ Len(h) >= k + 1)
<1>1. CASE Stuck(f)
  BY <1>1, FrameFacts
<1>2. CASE ~Stuck(f)
  <2> DEFINE a == Head(f.list)
             t == Tail(f.list)
             h == g \o <<a>>
             n == erase(f)
  <2>1. /\ f.encoded \in Nat /\ f.plain \in Int /\ f.list \in Seq(Items) /\ f.list # <<>>
        /\ a \in Items /\ a.plain \in Int /\ a.encoded \in Nat
        /\ n.list = t /\ n.plain = f.plain + a.plain /\ n.encoded = f.encoded - a.encoded
    BY <1>2, FrameFacts
  <2>2. g \in Seq(Items) /\ items = g \o f.list /\ f.encoded + NetworkOf(g) = bytes
        /\ f.plain = PlainOf(g) /\ Len(g) >= k
    BY <1>2 DEF TakenOff
  <2> HIDE DEF n
  <2>3. f.list = <<a>> \o t /\ t \in Seq(Items)
    BY <2>1
  <2> HIDE DEF a, t
  <2>4. <<a>> \in Seq(Items) /\ h \in Seq(Items) /\ Len(h) = Len(g) + 1 /\ Len(g) \in Nat
    BY <2>1, <2>2
  <2>5. items = h \o t
    <3>1. (g \o <<a>>) \o t = g \o (<<a>> \o t)
      BY <2>2, <2>3, <2>4, ConcatAssoc
    <3> QED BY <2>2, <2>3, <3>1, Zenon
  <2>6. NetworkOf(h) = NetworkOf(g) + a.encoded /\ PlainOf(h) = PlainOf(g) + a.plain
        /\ NetworkOf(g) \in Nat /\ PlainOf(g) \in Int
    <3>1. /\ NetworkOf(h) = NetworkOf(g) + NetworkOf(<<a>>) /\ PlainOf(h) = PlainOf(g) + PlainOf(<<a>>)
          /\ NetworkOf(<<a>>) = a.encoded /\ PlainOf(<<a>>) = a.plain
          /\ NetworkOf(g) \in Nat /\ PlainOf(g) \in Int
      BY <2>1, <2>2, <2>4, SumFacts
    <3> QED BY <3>1
  <2> HIDE DEF h
  <2>7. n.encoded + NetworkOf(h) = bytes /\ n.plain = PlainOf(h) /\ Len(h) >= k + 1
    BY <2>1, <2>2, <2>4, <2>6
  <2>8. TakenOff(items, bytes, n, h)
    BY <2>1, <2>4, <2>5, <2>7 DEF TakenOff
  <2> QED BY <2>7, <2>8 DEF n
<1> QED BY <1>1, <1>2

Loop(items, bytes) ==
    CHOOSE loop : loop = [i \in 0 .. Len(items) |->
                             IF i = 0 THEN [encoded |-> bytes, plain |-> 0, list |-> items]
                             ELSE erase(loop[i - 1])]

LEMMA LoopFacts ==
  ASSUME NEW items \in Seq(Items), NEW bytes \in Nat
  PROVE  /\ Loop(items, bytes)[0] = [encoded |-> bytes, plain |-> 0, list |-> items]
         /\ \A i \in 1..Len(items) : Loop(items, bytes)[i] = erase(Loop(items, bytes)[i - 1])
         /\ finishedLoop(items, bytes) = Loop(items, bytes)[Len(items)]
<1> DEFINE z == [encoded |-> bytes, plain |-> 0, list |-> items]
           n == Len(items)
           G == [p \in Frames \X (1..n) |-> erase(p[1])]
<1>1. z \in Frames /\ n \in Nat
  BY DEF Frames
<1>2. \A f \in Frames : erase(f) \in Frames
  BY FrameFacts
<1>3. G \in [Frames \X (1..n) -> Frames]
  BY <1>2
<1>4. PICK f : Runs(f, n, Frames, z, G)
  <2> HIDE DEF G, z, n
  <2> QED BY <1>1, <1>3, Recursion
<1>5. ASSUME NEW i \in 1..n PROVE f[i] = erase(f[i - 1])
  <2> HIDE DEF z
  <2>1. i - 1 \in 0..n /\ f \in [0..n -> Frames]
    BY <1>4 DEF Runs
  <2>2. <<f[i - 1], i>> \in Frames \X (1..n)
    <3> HIDE DEF G, n
    <3> QED BY <2>1
  <2>3. f[i] = G[<<f[i - 1], i>>]
    <3> HIDE DEF G, n
    <3> QED BY <1>4 DEF Runs
  <2> QED BY <2>2, <2>3
<1> HIDE DEF G
<1>6. f = [i \in 0..n |-> IF i = 0 THEN z ELSE erase(f[i - 1])]
  <2> HIDE DEF z, n
  <2> QED BY <1>1, <1>4, <1>5 DEF Runs
<1>7. Loop(items, bytes) = [i \in 0..n |-> IF i = 0 THEN z ELSE erase(Loop(items, bytes)[i - 1])]
  BY <1>6 DEF Loop
<1>8. Loop(items, bytes)[0] = z /\ \A i \in 1..n : Loop(items, bytes)[i] = erase(Loop(items, bytes)[i - 1])
  <2> DEFINE u == Loop(items, bytes)
  <2>1. u = [i \in 0..n |-> IF i = 0 THEN z ELSE erase(u[i - 1])]
    BY <1>7
  <2> HIDE DEF u, z
  <2>2. 0 \in 0..n /\ \A i \in 1..n : i \in 0..n /\ i # 0
    BY <1>1
  <2> HIDE DEF n
  <2>3. u[0] = z
    BY <2>1, <2>2
  <2>4. \A i \in 1..n : u[i] = erase(u[i - 1])
    BY <2>1, <2>2
  <2> QED BY <2>3, <2>4 DEF u
<1>9. finishedLoop(items, bytes) = Loop(items, bytes)[n]
  BY DEF finishedLoop, Loop
<1> QED BY <1>8, <1>9

LEMMA LoopEnds ==
  ASSUME NEW items \in Seq(Items), NEW bytes \in Nat
  PROVE  /\ finishedLoop(items, bytes) \in Frames /\ Stuck(finishedLoop(items, bytes))
         /\ \E g : TakenOff(items, bytes, finishedLoop(items, bytes), g)
<1> DEFINE L == Loop(items, bytes)
           n == Len(items)
           Good(i) == L[i] \in Frames /\ \E g : TakenOff(items, bytes, L[i], g) /\ (Stuck(L[i]) \/ Len(g) >= i)
           P == {i \in Nat : i <= n => Good(i)}
<1>1. n \in Nat /\ L[0] = [encoded |-> bytes, plain |-> 0, list |-> items]
      /\ (\A i \in 1..n : L[i] = erase(L[i - 1])) /\ finishedLoop(items, bytes) = L[n]
  BY LoopFacts
<1> HIDE DEF L
<1>2. Good(0)
  <2>1. L[0] \in Frames /\ L[0].encoded = bytes /\ L[0].plain = 0 /\ L[0].list = items
    BY <1>1 DEF Frames
  <2>2. <<>> \in Seq(Items) /\ <<>> \o items = items
    OBVIOUS
  <2>3. NetworkOf(<<>>) = 0 /\ PlainOf(<<>>) = 0
    <3>1. [plain |-> 0, encoded |-> 0] \in Items
      BY DEF Items
    <3> QED BY <2>2, <3>1, SumFacts
  <2>4. TakenOff(items, bytes, L[0], <<>>)
    BY <2>1, <2>2, <2>3 DEF TakenOff
  <2>5. Len(<<>>) >= 0
    OBVIOUS
  <2> QED BY <2>1, <2>4, <2>5
<1>3. ASSUME NEW i \in Nat, i \in P PROVE i + 1 \in P
  <2> SUFFICES ASSUME i + 1 <= n PROVE Good(i + 1)
    OBVIOUS
  <2>1. Good(i)
    BY <1>1, <1>3
  <2>2. L[i + 1] = erase(L[i])
    <3>1. i + 1 \in 1..n /\ (i + 1) - 1 = i
      BY <1>1
    <3> QED BY <1>1, <3>1
  <2>3. L[i + 1] \in Frames
    BY <2>1, <2>2, FrameFacts
  <2> QED BY <2>1, <2>2, <2>3, EraseTakes
<1>4. Good(n)
  <2>1. \A i \in Nat : i \in P
    <3>1. 0 \in P
      BY <1>2
    <3> HIDE DEF P
    <3> QED BY <1>3, <3>1, NatSetInduction
  <2>2. n \in P
    <3> HIDE DEF P
    <3> QED BY <1>1, <2>1
  <2> QED BY <1>1, <2>2
<1>5. PICK g : TakenOff(items, bytes, L[n], g) /\ (Stuck(L[n]) \/ Len(g) >= n)
  BY <1>4
<1>6. Len(g) >= n => L[n].list = <<>>
  <2>1. g \in Seq(Items) /\ items = g \o L[n].list /\ L[n].list \in Seq(Items)
    BY <1>4, <1>5 DEF TakenOff, Frames
  <2>2. Len(items) = Len(g) + Len(L[n].list) /\ Len(g) \in Nat /\ Len(L[n].list) \in Nat
    BY <2>1
  <2>3. Len(g) >= n => Len(L[n].list) = 0
    BY <2>2
  <2> QED BY <2>1, <2>3
<1>7. Stuck(L[n])
  BY <1>5, <1>6 DEF Stuck
<1> QED BY <1>1, <1>4, <1>5, <1>7


------------------------------------------------------------------------------
(* The invariant: the items specified are those reported, then the one     *)
(* that is acknowledged in part, then those not yet begun                  *)

(* nothing waits *)
Settled(items, list, told, bytes) ==
    /\ list = <<>> /\ items \in Seq(Items)
    /\ told = PlainOf(items) /\ bytes = NetworkOf(items)

(* y is what is left of item x *)
Partial(items, list, told, bytes, e, x, y, t) ==
    /\ e \in Seq(Items) /\ t \in Seq(Items) /\ x \in Items /\ y \in Items
    /\ items = (e \o <<x>>) \o t /\ list = <<y>> \o t
    /\ y.plain = x.plain /\ y.encoded <= x.encoded /\ (y.encoded > 0 \/ x.encoded = 0)
    /\ told = PlainOf(e) /\ bytes = NetworkOf(e) + (x.encoded - y.encoded)

Accounted(items, list, told, bytes) ==
    \/ Settled(items, list, told, bytes)
    \/ \E e, x, y, t : Partial(items, list, told, bytes, e, x, y, t)

LayerInv ==
    /\ layer \in [p : Nat, list : Seq(Items)]
    /\ Accounted(specified, layer.list, reported, acked)
    /\ layer.p + PlainOf(layer.list) + reported = added

LEMMA AccountedFacts ==
  ASSUME NEW items, NEW list, NEW told, NEW bytes, Accounted(items, list, told, bytes)
  PROVE  /\ items \in Seq(Items) /\ list \in Seq(Items) /\ told \in Int /\ bytes \in Nat
         /\ bytes + NetworkOf(list) = NetworkOf(items) /\ told + PlainOf(list) = PlainOf(items)
<1>0. [plain |-> 0, encoded |-> 0] \in Items /\ <<>> \in Seq(Items)
  BY DEF Items
<1>1. CASE Settled(items, list, told, bytes)
  <2>1. items \in Seq(Items) /\ list = <<>> /\ told = PlainOf(items) /\ bytes = NetworkOf(items)
    BY <1>1 DEF Settled
  <2>2. PlainOf(items) \in Int /\ NetworkOf(items) \in Nat /\ NetworkOf(<<>>) = 0 /\ PlainOf(<<>>) = 0
    BY <1>0, <2>1, SumFacts
  <2> QED BY <1>0, <2>1, <2>2
<1>2. ASSUME NEW e, NEW x, NEW y, NEW t, Partial(items, list, told, bytes, e, x, y, t)
      PROVE  /\ items \in Seq(Items) /\ list \in Seq(Items) /\ told \in Int /\ bytes \in Nat
             /\ bytes + NetworkOf(list) = NetworkOf(items) /\ told + PlainOf(list) = PlainOf(items)
  <2>1. e \in Seq(Items) /\ t \in Seq(Items) /\ x \in Items /\ y \in Items
    BY <1>2 DEF Partial
  <2>2. <<x>> \in Seq(Items) /\ <<y>> \in Seq(Items) /\ e \o <<x>> \in Seq(Items)
        /\ (e \o <<x>>) \o t \in Seq(Items) /\ <<y>> \o t \in Seq(Items)
    BY <2>1
  <2>3. x.encoded \in Nat /\ y.encoded \in Nat /\ x.plain \in Int /\ y.plain \in Int
    BY <2>1 DEF Items
  <2>4. NetworkOf(e) \in Nat /\ NetworkOf(t) \in Nat /\ PlainOf(e) \in Int /\ PlainOf(t) \in Int
    BY <2>1, SumFacts
  <2>5. NetworkOf(<<x>>) = x.encoded /\ NetworkOf(<<y>>) = y.encoded
        /\ PlainOf(<<x>>) = x.plain /\ PlainOf(<<y>>) = y.plain
    BY <2>1, SumFacts
  <2>6. NetworkOf(e \o <<x>>) = NetworkOf(e) + NetworkOf(<<x>>) /\ PlainOf(e \o <<x>>) = PlainOf(e) + PlainOf(<<x>>)
    BY <2>1, <2>2, SumFacts
  <2>7. NetworkOf((e \o <<x>>) \o t) = NetworkOf(e \o <<x>>) + NetworkOf(t)
        /\ PlainOf((e \o <<x>>) \o t) = PlainOf(e \o <<x>>) + PlainOf(t)
    BY <2>1, <2>2, SumFacts
  <2>8. NetworkOf(<<y>> \o t) = NetworkOf(<<y>>) + NetworkOf(t) /\ PlainOf(<<y>> \o t) = PlainOf(<<y>>) + PlainOf(t)
    BY <2>1, <2>2, SumFacts
  <2>9. items = (e \o <<x>>) \o t /\ list = <<y>> \o t
    BY <1>2 DEF Partial
  <2>10. y.encoded <= x.encoded /\ bytes = NetworkOf(e) + (x.encoded - y.encoded)
         /\ told = PlainOf(e) /\ y.plain = x.plain
    BY <1>2 DEF Partial
  <2>11. bytes \in Nat
    BY <2>3, <2>4, <2>10
  <2>12. NetworkOf(list) = y.encoded + NetworkOf(t) /\ PlainOf(list) = y.plain + PlainOf(t)
    BY <2>5, <2>8, <2>9
  <2>13. NetworkOf(items) = (NetworkOf(e) + x.encoded) + NetworkOf(t)
         /\ PlainOf(items) = (PlainOf(e) + x.plain) + PlainOf(t)
    BY <2>5, <2>6, <2>7, <2>9
  <2>14. bytes + NetworkOf(list) = NetworkOf(items)
    BY <2>3, <2>4, <2>10, <2>12, <2>13
  <2>15. told + PlainOf(list) = PlainOf(items)
    BY <2>3, <2>4, <2>10, <2>12, <2>13
  <2>16. items \in Seq(Items) /\ list \in Seq(Items)
    BY <2>2, <2>9
  <2> QED BY <2>4, <2>10, <2>11, <2>14, <2>15, <2>16
<1> QED BY <1>1, <1>2 DEF Accounted

(* specifyEncoded() *)
LEMMA SpecifyAccounted ==
  ASSUME NEW items, NEW list, NEW told, NEW bytes, Accounted(items, list, told, bytes), NEW i \in Items
  PROVE  Accounted(Append(items, i), Append(list, i), told, bytes)
<1>0. i.plain = i.plain /\ i.encoded \in Nat
  BY DEF Items
<1>1. CASE Settled(items, list, told, bytes)
  <2>1. items \in Seq(Items) /\ list = <<>> /\ told = PlainOf(items) /\ bytes = NetworkOf(items)
    BY <1>1 DEF Settled
  <2>2. Append(items, i) = (items \o <<i>>) \o <<>> /\ Append(list, i) = <<i>> \o <<>>
        /\ <<>> \in Seq(Items)
    BY <2>1
  <2>3. NetworkOf(items) \in Nat
    BY <2>1, SumFacts
  <2>4. bytes = NetworkOf(items) + (i.encoded - i.encoded)
    BY <1>0, <2>1, <2>3
  <2>5. i.encoded <= i.encoded /\ (i.encoded > 0 \/ i.encoded = 0)
    BY <1>0
  <2>6. Partial(Append(items, i), Append(list, i), told, bytes, items, i, i, <<>>)
    BY <2>1, <2>2, <2>4, <2>5 DEF Partial
  <2> QED BY <2>6 DEF Accounted
<1>2. ASSUME NEW e, NEW x, NEW y, NEW t, Partial(items, list, told, bytes, e, x, y, t)
      PROVE  Accounted(Append(items, i), Append(list, i), told, bytes)
  <2>1. /\ e \in Seq(Items) /\ t \in Seq(Items) /\ x \in Items /\ y \in Items
        /\ items = (e \o <<x>>) \o t /\ list = <<y>> \o t
    BY <1>2 DEF Partial
  <2>2. e \o <<x>> \in Seq(Items) /\ <<y>> \in Seq(Items) /\ Append(t, i) \in Seq(Items)
    BY <2>1
  <2>3. (e \o <<x>>) \o Append(t, i) = Append((e \o <<x>>) \o t, i)
    BY <2>1, <2>2, ConcatAppend
  <2>4. <<y>> \o Append(t, i) = Append(<<y>> \o t, i)
    BY <2>1, <2>2, ConcatAppend
  <2>5. Append(items, i) = (e \o <<x>>) \o Append(t, i) /\ Append(list, i) = <<y>> \o Append(t, i)
    BY <2>1, <2>3, <2>4
  <2>6. Partial(Append(items, i), Append(list, i), told, bytes, e, x, y, Append(t, i))
    BY <1>2, <2>2, <2>5 DEF Partial
  <2> QED BY <2>6 DEF Accounted
<1> QED BY <1>1, <1>2 DEF Accounted


LEMMA ItemsAssoc ==
  ASSUME NEW u \in Seq(Items), NEW v \in Seq(Items), NEW w \in Seq(Items)
  PROVE  (u \o v) \o w = u \o (v \o w)
  BY ConcatAssoc

(* finished(), when it takes items *)
LEMMA TakingAccounted ==
  ASSUME NEW items, NEW list, NEW told, NEW bytes, NEW e, NEW x, NEW y, NEW t,
         Partial(items, list, told, bytes, e, x, y, t),
         NEW n \in Nat, NEW f \in Frames, NEW g, TakenOff(list, n, f, g), g # <<>>,
         NEW z \in Items, NEW w \in Items, NEW r \in Seq(Items),
         f.list = <<z>> \o r, w.plain = z.plain, w.encoded = z.encoded - f.encoded, w.encoded > 0
  PROVE  Accounted(items, <<w>> \o r, told + f.plain, bytes + n)
<1> DEFINE h == Tail(g)
           a == e \o <<x>>
           q == a \o h
<1>1. /\ e \in Seq(Items) /\ t \in Seq(Items) /\ x \in Items /\ y \in Items
      /\ items = a \o t /\ list = <<y>> \o t
  BY DEF Partial
<1>2. y.plain = x.plain /\ told = PlainOf(e) /\ bytes = NetworkOf(e) + (x.encoded - y.encoded)
  BY DEF Partial
<1>3. g \in Seq(Items) /\ list = g \o f.list
  BY DEF TakenOff
<1>4. f.encoded + NetworkOf(g) = n /\ f.plain = PlainOf(g)
  BY DEF TakenOff
<1>5. f.encoded \in Nat /\ f.plain \in Int /\ f.list \in Seq(Items)
  BY FrameFacts
<1>6. h \in Seq(Items) /\ Head(g) = y /\ g = <<y>> \o h /\ t = h \o f.list
  <2>1. h \in Seq(Items) /\ Head(g) \in Items /\ g = <<Head(g)>> \o h
    BY <1>3
  <2>2. Head(list) = Head(g) /\ Tail(list) = h \o f.list
    BY <1>3, <1>5
  <2>3. Head(list) = y /\ Tail(list) = t
    <3>1. list = <<y>> \o t /\ t \in Seq(Items) /\ y \in Items
      BY <1>1
    <3> QED BY <3>1, SequenceFacts
  <2> QED BY <2>1, <2>2, <2>3
<1> HIDE DEF h
<1>7. <<x>> \in Seq(Items) /\ <<y>> \in Seq(Items) /\ <<z>> \in Seq(Items) /\ a \in Seq(Items)
  BY <1>1
<1>8. q \in Seq(Items)
  <2> HIDE DEF a
  <2> QED BY <1>6, <1>7
<1>9. items = (q \o <<z>>) \o r
  <2> HIDE DEF a
  <2>1. (a \o h) \o f.list = a \o (h \o f.list)
    <3>1. a \in Seq(Items) /\ h \in Seq(Items) /\ f.list \in Seq(Items)
      BY <1>5, <1>6, <1>7
    <3> QED BY <3>1, ItemsAssoc, Zenon
  <2>2. items = q \o f.list
    BY <1>1, <1>6, <2>1
  <2> HIDE DEF q
  <2>3. (q \o <<z>>) \o r = q \o (<<z>> \o r)
    BY <1>7, <1>8, ConcatAssoc
  <2> QED BY <2>2, <2>3
<1>10. x.encoded \in Nat /\ y.encoded \in Nat /\ x.plain \in Int /\ y.plain \in Int
       /\ z.encoded \in Nat /\ w.encoded \in Nat
  BY <1>1 DEF Items
<1>11. NetworkOf(e) \in Nat /\ NetworkOf(h) \in Nat /\ PlainOf(e) \in Int /\ PlainOf(h) \in Int
  BY <1>1, <1>6, SumFacts
<1>12. NetworkOf(a) = NetworkOf(e) + x.encoded /\ PlainOf(a) = PlainOf(e) + x.plain
  <2>1. NetworkOf(a) = NetworkOf(e) + NetworkOf(<<x>>) /\ PlainOf(a) = PlainOf(e) + PlainOf(<<x>>)
    BY <1>1, <1>7, SumFacts
  <2>2. NetworkOf(<<x>>) = x.encoded /\ PlainOf(<<x>>) = x.plain
    BY <1>1, SumFacts
  <2> QED BY <2>1, <2>2
<1> HIDE DEF a
<1>13. NetworkOf(q) = NetworkOf(a) + NetworkOf(h) /\ PlainOf(q) = PlainOf(a) + PlainOf(h)
  BY <1>1, <1>6, <1>7, SumFacts
<1>14. NetworkOf(g) = y.encoded + NetworkOf(h) /\ PlainOf(g) = y.plain + PlainOf(h)
  <2>1. NetworkOf(<<y>> \o h) = NetworkOf(<<y>>) + NetworkOf(h) /\ PlainOf(<<y>> \o h) = PlainOf(<<y>>) + PlainOf(h)
    <3>1. <<y>> \in Seq(Items) /\ h \in Seq(Items) /\ y \in Items
      BY <1>1, <1>6, <1>7
    <3> QED BY <3>1, ConcatSums, Zenon
  <2>2. NetworkOf(<<y>>) = y.encoded /\ PlainOf(<<y>>) = y.plain
    BY <1>1, SumFacts
  <2> QED BY <1>6, <2>1, <2>2
<1> HIDE DEF q
<1>15. told + f.plain = PlainOf(q)
  BY <1>2, <1>4, <1>10, <1>11, <1>12, <1>13, <1>14
<1>16. bytes + n = NetworkOf(q) + (z.encoded - w.encoded)
  <2> DEFINE i == NetworkOf(e)
             j == x.encoded
             m == y.encoded
             v == NetworkOf(h)
             u == f.encoded
             o == z.encoded
             c0 == w.encoded
             k == NetworkOf(q)
  <2>1. i \in Nat /\ j \in Nat /\ m \in Nat /\ v \in Nat /\ u \in Nat /\ o \in Nat /\ c0 = o - u
    BY <1>5, <1>10, <1>11
  <2>2. k = (i + j) + v
    BY <1>12, <1>13
  <2>3. n = u + (m + v)
    BY <1>4, <1>14
  <2>4. bytes = i + (j - m)
    BY <1>2
  <2>5. bytes + n = k + (o - c0)
    <3> HIDE DEF i, j, m, v, u, o, c0, k
    <3> QED BY <2>1, <2>2, <2>3, <2>4
  <2> QED BY <2>5
<1>17. w.encoded <= z.encoded
  BY <1>5, <1>10
<1>18. Partial(items, <<w>> \o r, told + f.plain, bytes + n, q, z, w, r)
  BY <1>8, <1>9, <1>15, <1>16, <1>17 DEF Partial
<1> QED BY <1>18 DEF Accounted

(* finished(), when the first item stays *)
LEMMA StayingAccounted ==
  ASSUME NEW items, NEW list, NEW told, NEW bytes, NEW e, NEW x, NEW y, NEW t,
         Partial(items, list, told, bytes, e, x, y, t),
         NEW n \in Nat, NEW z \in Items, NEW w \in Items, NEW r \in Seq(Items),
         list = <<z>> \o r, w.plain = z.plain, w.encoded = z.encoded - n, w.encoded > 0
  PROVE  Accounted(items, <<w>> \o r, told, bytes + n)
<1>1. /\ e \in Seq(Items) /\ t \in Seq(Items) /\ x \in Items /\ y \in Items
      /\ items = (e \o <<x>>) \o t /\ list = <<y>> \o t
  BY DEF Partial
<1>2. y.plain = x.plain /\ told = PlainOf(e) /\ bytes = NetworkOf(e) + (x.encoded - y.encoded)
      /\ y.encoded <= x.encoded
  BY DEF Partial
<1>3. y = z /\ t = r
  <2>1. Head(list) = y /\ Tail(list) = t
    BY <1>1
  <2>2. Head(list) = z /\ Tail(list) = r
    OBVIOUS
  <2> QED BY <2>1, <2>2
<1>4. x.encoded \in Nat /\ y.encoded \in Nat /\ w.encoded \in Nat /\ NetworkOf(e) \in Nat
  BY <1>1, SumFacts DEF Items
<1>5. bytes + n = NetworkOf(e) + (x.encoded - w.encoded) /\ w.encoded <= x.encoded
  <2> DEFINE i == NetworkOf(e)
             j == x.encoded
             m == y.encoded
             v == w.encoded
  <2>1. i \in Nat /\ j \in Nat /\ m \in Nat /\ v \in Nat
    BY <1>4
  <2>2. v = m - n
    BY <1>3
  <2>3. bytes = i + (j - m) /\ m <= j
    BY <1>2
  <2>4. bytes + n = i + (j - v) /\ v <= j
    <3> HIDE DEF i, j, m, v
    <3> QED BY <2>1, <2>2, <2>3
  <2> QED BY <2>4
<1>6. Partial(items, <<w>> \o r, told, bytes + n, e, x, w, r)
  BY <1>1, <1>2, <1>3, <1>5 DEF Partial
<1> QED BY <1>6 DEF Accounted

LEMMA FinishedAccounted ==
  ASSUME NEW items, NEW l, NEW told, NEW bytes, Accounted(items, l.list, told, bytes),
         NEW n \in Nat, bytes + n <= NetworkOf(items)
  PROVE  LET f == finished(l, n)
         IN  /\ Accounted(items, f.list, told + f.plain, bytes + n) /\ f.plain \in Int
             /\ f.plain + PlainOf(f.list) = PlainOf(l.list)
<1> DEFINE list == l.list
           f == finishedLoop(list, n)
           k == finished(l, n)
<1>1. /\ items \in Seq(Items) /\ list \in Seq(Items) /\ told \in Int /\ bytes \in Nat
      /\ bytes + NetworkOf(list) = NetworkOf(items) /\ told + PlainOf(list) = PlainOf(items)
  BY AccountedFacts
<1>2. f \in Frames /\ Stuck(f) /\ \E g : TakenOff(list, n, f, g)
  BY <1>1, LoopEnds
<1>3. k.plain = f.plain /\ k.list = IF f.list = <<>> THEN f.list
                 ELSE <<[Head(f.list) EXCEPT !.encoded = @ - f.encoded]>> \o Tail(f.list)
  BY DEF finished
<1> HIDE DEF k, f
<1>4. PICK g : TakenOff(list, n, f, g)
  BY <1>2
<1>5. g \in Seq(Items) /\ list = g \o f.list /\ f.encoded + NetworkOf(g) = n /\ f.plain = PlainOf(g)
  BY <1>4 DEF TakenOff
<1>6. f.encoded \in Nat /\ f.plain \in Int /\ f.list \in Seq(Items)
  BY <1>2, FrameFacts
<1>7. PlainOf(g) \in Int /\ NetworkOf(g) \in Nat
  <2>1. [plain |-> 0, encoded |-> 0] \in Items
    BY DEF Items
  <2> QED BY <1>5, <2>1, SumFacts
<1>8. CASE f.list = <<>>
  <2>1. list = g /\ k.list = <<>>
    BY <1>3, <1>5, <1>8
  <2>2. f.encoded = 0
    BY <1>1, <1>5, <1>6, <1>7, <2>1
  <2>3. bytes + n = NetworkOf(items) /\ told + k.plain = PlainOf(items)
    BY <1>1, <1>3, <1>5, <1>7, <2>1, <2>2
  <2>4. Settled(items, k.list, told + k.plain, bytes + n)
    BY <1>1, <2>1, <2>3 DEF Settled
  <2>5. k.plain + PlainOf(k.list) = PlainOf(list)
    <3>1. [plain |-> 0, encoded |-> 0] \in Items
      BY DEF Items
    <3>2. PlainOf(<<>>) = 0
      BY <1>1, <3>1, SumFacts
    <3> QED BY <1>3, <1>5, <1>7, <2>1, <3>2
  <2> QED BY <1>3, <1>6, <2>4, <2>5 DEF Accounted, k
<1>9. CASE f.list # <<>>
  <2> DEFINE z == Head(f.list)
             r == Tail(f.list)
             b == z.encoded - f.encoded
             w == [z EXCEPT !.encoded = b]
  <2>1. z \in Items /\ r \in Seq(Items) /\ f.list = <<z>> \o r
    BY <1>6, <1>9
  <2>2. k.list = <<w>> \o r /\ f.encoded < z.encoded
    BY <1>2, <1>3, <1>9 DEF Stuck
  <2> HIDE DEF z, r
  <2>3. z.encoded \in Nat /\ z.plain \in Int /\ z = [plain |-> z.plain, encoded |-> z.encoded]
    BY <2>1 DEF Items
  <2>4. b \in Nat /\ b > 0 /\ b = z.encoded - f.encoded
    BY <1>6, <2>2, <2>3
  <2> HIDE DEF b
  <2>5. w \in Items /\ w.plain = z.plain /\ w.encoded = b
    BY <2>1, <2>3, <2>4 DEF Items
  <2> HIDE DEF w
  <2>6. w.encoded = z.encoded - f.encoded /\ w.encoded > 0
    BY <2>4, <2>5
  <2>7. list # <<>>
    BY <1>5, <1>6, <1>9
  <2>8. PICK e, x, y, t : Partial(items, list, told, bytes, e, x, y, t)
    BY <2>7 DEF Accounted, Settled
  <2>9. Accounted(items, k.list, told + k.plain, bytes + n)
    <3>1. CASE g # <<>>
      <4>1. Accounted(items, <<w>> \o r, told + f.plain, bytes + n)
        BY <1>2, <1>4, <2>1, <2>5, <2>6, <2>8, <3>1, TakingAccounted
      <4> QED BY <1>3, <2>2, <4>1
    <3>2. CASE g = <<>>
      <4>1. PlainOf(<<>>) = 0 /\ NetworkOf(<<>>) = 0
        BY <1>1, <2>1, SumFacts
      <4>2. list = <<z>> \o r
        BY <1>5, <1>6, <2>1, <3>2
      <4>3. f.plain = 0 /\ f.encoded = n
        BY <1>5, <1>6, <3>2, <4>1
      <4>4. Accounted(items, <<w>> \o r, told, bytes + n)
        <5>1. w.encoded = z.encoded - n
          BY <2>6, <4>3
        <5> HIDE DEF list
        <5> QED BY <2>1, <2>5, <2>6, <2>8, <4>2, <5>1, StayingAccounted
      <4>5. told + k.plain = told
        BY <1>1, <1>3, <4>3
      <4> QED BY <2>2, <4>4, <4>5
    <3> QED BY <3>1, <3>2
  <2>10. k.plain + PlainOf(k.list) = PlainOf(list)
    <3>0. <<w>> \in Seq(Items) /\ <<z>> \in Seq(Items)
      BY <2>1, <2>5
    <3>1. PlainOf(<<w>> \o r) = PlainOf(<<w>>) + PlainOf(r) /\ PlainOf(<<z>> \o r) = PlainOf(<<z>>) + PlainOf(r)
      BY <2>1, <3>0, SumFacts
    <3>2. PlainOf(<<w>>) = w.plain /\ PlainOf(<<z>>) = z.plain
      BY <2>1, <2>5, SumFacts
    <3>3. PlainOf(g \o f.list) = PlainOf(g) + PlainOf(f.list)
      BY <1>5, <1>6, <2>1, SumFacts
    <3>4. PlainOf(k.list) = PlainOf(f.list)
      BY <2>1, <2>2, <2>5, <3>1, <3>2
    <3> QED BY <1>3, <1>5, <3>3, <3>4
  <2> QED BY <1>3, <1>6, <2>9, <2>10 DEF k
<1> QED BY <1>8, <1>9


------------------------------------------------------------------------------
(* The session with its tracker                                            *)

LEMMA LayerTyped == LayerSpec => []TypeOK
<1>1. LayerInit => TypeOK
  BY InitTyped DEF LayerInit
<1>2. TypeOK /\ [LayerNext]_layerVars => TypeOK'
  <2> SUFFICES ASSUME TypeOK, [LayerNext]_layerVars PROVE TypeOK'
    OBVIOUS
  <2>1. CASE \E n \in Sizes \ {0} : convertBytesWritten(n)
    BY <2>1 DEF convertBytesWritten, TypeOK, Sigs
  <2>2. CASE UNCHANGED layerVars
    BY <2>2 DEF layerVars, TypeOK
  <2>3. CASE LayerStart \/ LayerWrite \/ LayerReadOutgoing \/ LayerOther
    <3>1. Next
      BY <2>3 DEF LayerStart, LayerWrite, LayerReadOutgoing, LayerOther, Next
    <3> QED BY <3>1, StepTyped
  <2> QED BY <2>1, <2>2, <2>3 DEF LayerNext
<1> QED BY <1>1, <1>2, PTL DEF LayerSpec

LEMMA Fresh ==
  /\ NoLayer \in [p : Nat, list : Seq(Items)]
  /\ Accounted(<<>>, NoLayer.list, 0, 0)
  /\ NoLayer.p + PlainOf(NoLayer.list) + 0 = 0
<1>1. <<>> \in Seq(Items) /\ [plain |-> 0, encoded |-> 0] \in Items
  BY DEF Items
<1>2. PlainOf(<<>>) = 0 /\ NetworkOf(<<>>) = 0
  BY <1>1, SumFacts
<1>3. NoLayer \in [p : Nat, list : Seq(Items)] /\ NoLayer.p = 0 /\ NoLayer.list = <<>>
  BY <1>1 DEF NoLayer
<1>4. Settled(<<>>, NoLayer.list, 0, 0)
  BY <1>1, <1>2, <1>3 DEF Settled
<1> QED BY <1>2, <1>3, <1>4 DEF Accounted

LEMMA LayerFacts ==
  ASSUME LayerInv
  PROVE  /\ layer.p \in Nat /\ layer.list \in Seq(Items) /\ specified \in Seq(Items)
         /\ reported \in Int /\ acked \in Nat /\ PlainOf(layer.list) \in Int /\ added \in Int
<1>1. layer.p \in Nat /\ layer.list \in Seq(Items)
  BY DEF LayerInv
<1>2. specified \in Seq(Items) /\ reported \in Int /\ acked \in Nat
  BY AccountedFacts DEF LayerInv
<1>3. PlainOf(layer.list) \in Int
  <2>1. [plain |-> 0, encoded |-> 0] \in Items
    BY DEF Items
  <2> QED BY <1>1, <2>1, SumFacts
<1>4. added = layer.p + PlainOf(layer.list) + reported
  BY DEF LayerInv
<1> QED BY <1>1, <1>2, <1>3, <1>4

LEMMA SpecifyKeeps ==
  ASSUME LayerInv, NEW encoded \in Nat, NEW plain \in Int, SpecifyEncoded(encoded, plain)
  PROVE  LayerInv'
<1> DEFINE q == IF plain > layer.p THEN layer.p ELSE plain
           i == [plain |-> q, encoded |-> encoded]
           u == layer.p - q
           v == Append(layer.list, i)
<1>1. layer.p \in Nat /\ layer.list \in Seq(Items) /\ reported \in Int /\ PlainOf(layer.list) \in Int
      /\ added \in Int
  BY LayerFacts
<1>2. q \in Int /\ q <= layer.p
  BY <1>1
<1>3. layer' = [p |-> u, list |-> v] /\ specified' = Append(specified, Last(layer'.list))
      /\ added' = added /\ acked' = acked /\ reported' = reported
  BY DEF SpecifyEncoded, specifyEncoded
<1> HIDE DEF q
<1>4. i \in Items /\ i.plain = q
  BY <1>2 DEF Items
<1>5. u \in Nat /\ u + q = layer.p
  BY <1>1, <1>2
<1> HIDE DEF i
<1>6. v \in Seq(Items) /\ Last(v) = i /\ v = layer.list \o <<i>> /\ <<i>> \in Seq(Items)
  BY <1>1, <1>4, SequenceFacts
<1> HIDE DEF u, v
<1>7. layer' \in [p : Nat, list : Seq(Items)] /\ layer'.p = u /\ layer'.list = v
  BY <1>3, <1>5, <1>6
<1>8. specified' = Append(specified, i)
  BY <1>3, <1>6, <1>7
<1>9. Accounted(Append(specified, i), Append(layer.list, i), reported, acked)
  BY <1>4, SpecifyAccounted DEF LayerInv
<1>10. Accounted(specified', layer'.list, reported', acked')
  <2>1. layer'.list = Append(layer.list, i)
    BY <1>7 DEF v
  <2> QED BY <1>3, <1>8, <1>9, <2>1
<1>11. PlainOf(v) = PlainOf(layer.list) + q
  <2>1. PlainOf(layer.list \o <<i>>) = PlainOf(layer.list) + PlainOf(<<i>>)
    BY <1>1, <1>4, <1>6, SumFacts
  <2>2. PlainOf(<<i>>) = i.plain
    BY <1>1, <1>4, SumFacts
  <2> QED BY <1>4, <1>6, <2>1, <2>2
<1>12. layer'.p + PlainOf(layer'.list) + reported' = added'
  <2>1. layer.p + PlainOf(layer.list) + reported = added
    BY DEF LayerInv
  <2>2. u + PlainOf(v) + reported = added
    <3> DEFINE a == PlainOf(layer.list)
               b == PlainOf(v)
               c0 == layer.p
    <3>1. b = a + q /\ a \in Int /\ c0 \in Int /\ u + q = c0 /\ c0 + a + reported = added
      BY <1>1, <1>5, <1>11, <2>1
    <3>2. u + b + reported = added
      <4> HIDE DEF a, b, c0
      <4> QED BY <1>1, <1>2, <1>5, <3>1
    <3> QED BY <3>2
  <2> QED BY <1>3, <1>7, <2>2
<1> QED BY <1>7, <1>10, <1>12 DEF LayerInv

LEMMA FinishedKeeps ==
  ASSUME LayerInv, NEW n \in Nat, Finished(n)
  PROVE  LayerInv'
<1> DEFINE k == finished(layer, n)
<1>1. layer \in [p : Nat, list : Seq(Items)] /\ Accounted(specified, layer.list, reported, acked)
      /\ layer.p + PlainOf(layer.list) + reported = added
  BY DEF LayerInv
<1>2. acked + n <= NetworkOf(specified) /\ acked' = acked + n /\ reported' = reported + k.plain
      /\ layer' = [layer EXCEPT !.list = k.list] /\ added' = added /\ specified' = specified
  BY DEF Finished, NetworkOf
<1>3. Accounted(specified, k.list, reported + k.plain, acked + n) /\ k.plain \in Int
      /\ k.plain + PlainOf(k.list) = PlainOf(layer.list)
  BY <1>1, <1>2, FinishedAccounted
<1> HIDE DEF k
<1>4. k.list \in Seq(Items)
  BY <1>3, AccountedFacts
<1>5. layer' \in [p : Nat, list : Seq(Items)] /\ layer'.p = layer.p /\ layer'.list = k.list
  BY <1>1, <1>2, <1>4
<1>6. Accounted(specified', layer'.list, reported', acked')
  BY <1>2, <1>3, <1>5
<1>7. layer'.p + PlainOf(layer'.list) + reported' = added'
  <2> DEFINE a == PlainOf(layer.list)
             b == PlainOf(k.list)
             c0 == layer.p
             o == k.plain
  <2>1. reported \in Int /\ c0 \in Int /\ o \in Int /\ o + b = a /\ c0 + a + reported = added
    BY <1>1, <1>3, LayerFacts
  <2>2. b \in Int
    <3>1. [plain |-> 0, encoded |-> 0] \in Items
      BY DEF Items
    <3> QED BY <1>4, <3>1, SumFacts
  <2>3. c0 + b + (reported + o) = added
    <3> HIDE DEF a, b, c0, o
    <3> QED BY <2>1, <2>2
  <2> QED BY <1>2, <1>5, <2>3
<1> QED BY <1>5, <1>6, <1>7 DEF LayerInv

LEMMA LayerIsKept == LayerSpec => []LayerInv
<1>1. LayerInit => LayerInv
  BY Fresh DEF LayerInit, TrackerInit, LayerInv
<1>2. TypeOK /\ LayerInv /\ [LayerNext]_layerVars => LayerInv'
  <2> SUFFICES ASSUME TypeOK, LayerInv, [LayerNext]_layerVars PROVE LayerInv'
    OBVIOUS
  <2>1. CASE LayerStart
    BY <2>1, Fresh DEF LayerStart, LayerInv
  <2>2. CASE LayerWrite
    <3>1. layer' = [layer EXCEPT !.p = @ + 1] /\ added' = added + 1
          /\ specified' = specified /\ acked' = acked /\ reported' = reported
      BY <2>2 DEF LayerWrite, AddPlain, addPlain
    <3>2. layer.p \in Nat /\ reported \in Int /\ PlainOf(layer.list) \in Int /\ added \in Int
      BY LayerFacts
    <3>3. layer' \in [p : Nat, list : Seq(Items)] /\ layer'.p = layer.p + 1 /\ layer'.list = layer.list
      BY <3>1, <3>2 DEF LayerInv
    <3>4. layer.p + PlainOf(layer.list) + reported = added
      BY DEF LayerInv
    <3>5. layer'.p + PlainOf(layer'.list) + reported' = added'
      BY <3>1, <3>2, <3>3, <3>4
    <3> QED BY <3>1, <3>3, <3>5 DEF LayerInv
  <2>3. CASE LayerReadOutgoing
    <3>1. io.to_net \in Nat /\ io.to_net_encoded \in Int
      BY DEF TypeOK, Buffers
    <3> QED BY <2>3, <3>1, SpecifyKeeps DEF LayerReadOutgoing
  <2>4. ASSUME NEW n \in Sizes \ {0}, convertBytesWritten(n) PROVE LayerInv'
    <3>1. n \in Nat
      BY LayerAssumption
    <3> QED BY <2>4, <3>1, FinishedKeeps DEF convertBytesWritten
  <2>5. CASE LayerOther \/ UNCHANGED layerVars
    <3>1. layer' = layer /\ added' = added /\ specified' = specified /\ acked' = acked
          /\ reported' = reported
      BY <2>5 DEF LayerOther, trackerVars, layerVars
    <3> QED BY <3>1 DEF LayerInv
  <2> QED BY <2>1, <2>2, <2>3, <2>4, <2>5 DEF LayerNext
<1> QED BY <1>1, <1>2, LayerTyped, PTL DEF LayerSpec

(* What a session hands to the tracker is neither lost nor invented: the   *)
(* plaintext that write() accepted is reported as written, waits in an     *)
(* item, or is not yet encoded, also when to_net_encoded, the count        *)
(* readOutgoing() passes on, is wrong.                                     *)
THEOREM PlaintextIsConserved == LayerSpec => []PlainConserved
<1>1. LayerInv => PlainConserved
  <2> SUFFICES ASSUME LayerInv PROVE PlainConserved
    OBVIOUS
  <2>1. layer.p \in Nat
    BY LayerFacts
  <2>2. layer.p + PlainOf(layer.list) + reported = added
    BY DEF LayerInv
  <2> QED BY <2>1, <2>2 DEF PlainConserved, PlainOf
<1> QED BY <1>1, LayerIsKept, PTL

(* However the transport splits its acknowledgements, convertBytesWritten()*)
(* has reported exactly the plaintext of the items that are wholly         *)
(* acknowledged, each once and in order.                                   *)
THEOREM ReportsAreExact == LayerSpec => []ReportExact
<1>1. LayerInv => ReportExact
  <2> SUFFICES ASSUME LayerInv PROVE ReportExact
    OBVIOUS
  <2> DEFINE done == Len(specified) - Len(layer.list)
             pre == SubSeq(specified, 1, done)
  <2> SUFFICES /\ reported = PlainOf(pre) /\ NetworkOf(pre) <= acked
               /\ done < Len(specified) =>
                     \/ NetworkOf(SubSeq(specified, 1, done + 1)) > acked
                     \/ specified[done + 1].encoded = 0
    BY DEF ReportExact, PlainOf, NetworkOf
  <2>1. specified \in Seq(Items) /\ layer.list \in Seq(Items) /\ acked \in Nat
    BY LayerFacts
  <2>2. CASE Settled(specified, layer.list, reported, acked)
    <3>1. layer.list = <<>> /\ reported = PlainOf(specified) /\ acked = NetworkOf(specified)
      BY <2>2 DEF Settled
    <3>2. done = Len(specified) /\ pre = specified /\ ~(done < Len(specified))
      BY <2>1, <3>1
    <3> HIDE DEF done, pre
    <3> QED BY <2>1, <3>1, <3>2
  <2>3. ASSUME NEW e, NEW x, NEW y, NEW t, Partial(specified, layer.list, reported, acked, e, x, y, t)
        PROVE  /\ reported = PlainOf(pre) /\ NetworkOf(pre) <= acked
               /\ done < Len(specified) =>
                     \/ NetworkOf(SubSeq(specified, 1, done + 1)) > acked
                     \/ specified[done + 1].encoded = 0
    <3>1. e \in Seq(Items) /\ t \in Seq(Items) /\ x \in Items /\ y \in Items
          /\ specified = (e \o <<x>>) \o t /\ layer.list = <<y>> \o t
      BY <2>3 DEF Partial
    <3>2. y.encoded <= x.encoded /\ (y.encoded > 0 \/ x.encoded = 0)
          /\ reported = PlainOf(e) /\ acked = NetworkOf(e) + (x.encoded - y.encoded)
      BY <2>3 DEF Partial
    <3>3. Len(specified) = Len(e) + 1 + Len(t) /\ Len(layer.list) = 1 + Len(t)
          /\ Len(e) \in Nat /\ Len(t) \in Nat
      BY <3>1
    <3>4. done = Len(e)
      BY <3>3
    <3> HIDE DEF done
    <3>5. pre = e /\ SubSeq(specified, 1, done + 1) = e \o <<x>> /\ specified[done + 1] = x
      <4>1. e \o <<x>> \in Seq(Items) /\ Len(e \o <<x>>) = done + 1 /\ (e \o <<x>>)[done + 1] = x
        BY <3>1, <3>4
      <4>2. SubSeq(specified, 1, done + 1) = e \o <<x>>
        <5> DEFINE a == e \o <<x>>
        <5>1. a \in Seq(Items) /\ Len(a) = done + 1 /\ specified = a \o t
          BY <3>1, <4>1
        <5> HIDE DEF a
        <5>2. SubSeq(a \o t, 1, Len(a)) = a
          BY <3>1, <5>1
        <5>3. SubSeq(specified, 1, done + 1) = a
          BY <5>1, <5>2
        <5> QED BY <5>3 DEF a
      <4>3. pre = e
        <5>1. SubSeq((e \o <<x>>) \o t, 1, Len(e)) = e
          BY <3>1
        <5> QED BY <3>1, <3>4, <5>1
      <4>4. specified[done + 1] = x
        <5>1. ((e \o <<x>>) \o t)[Len(e) + 1] = x
          BY <3>1
        <5> QED BY <3>1, <3>4, <5>1
      <4> QED BY <4>2, <4>3, <4>4
    <3>6. x.encoded \in Nat /\ y.encoded \in Nat
      BY <3>1 DEF Items
    <3>7. NetworkOf(e) \in Nat /\ NetworkOf(e \o <<x>>) = NetworkOf(e) + x.encoded
      <4>1. <<x>> \in Seq(Items)
        BY <3>1
      <4>2. NetworkOf(e \o <<x>>) = NetworkOf(e) + NetworkOf(<<x>>)
        BY <3>1, <4>1, SumFacts
      <4>3. NetworkOf(e) \in Nat /\ NetworkOf(<<x>>) = x.encoded
        BY <3>1, SumFacts
      <4> QED BY <4>2, <4>3
    <3>8. NetworkOf(e) <= acked /\ (NetworkOf(e \o <<x>>) > acked \/ x.encoded = 0)
      <4> DEFINE i == NetworkOf(e)
                 j == x.encoded
                 m == y.encoded
                 o == NetworkOf(e \o <<x>>)
      <4>1. i \in Nat /\ j \in Nat /\ m \in Nat /\ o = i + j /\ m <= j /\ (m > 0 \/ j = 0)
            /\ acked = i + (j - m)
        BY <3>2, <3>6, <3>7
      <4>2. i <= acked /\ (o > acked \/ j = 0)
        <5> HIDE DEF i, j, m, o
        <5> QED BY <4>1
      <4> QED BY <4>2
    <3> HIDE DEF pre
    <3> QED BY <3>2, <3>5, <3>8
  <2> QED BY <2>2, <2>3 DEF LayerInv, Accounted
<1> QED BY <1>1, LayerIsKept, PTL
==============================================================================
