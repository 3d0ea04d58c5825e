-------------------------- MODULE EventBrokerProofs --------------------------
(***************************************************************************)
(* Proofs about module EventBroker, for every value of its constants.      *)
(*                                                                         *)
(* The invariant is stated on a view of the broker in which lists of ids   *)
(* are sets: n handlers, hd[k] the handler at position k, held[k] the ids  *)
(* it is responsible for, box[h] the ids posted or shown to handler h, X   *)
(* the asker items, N the next id, w the askers.  O holds the ids that are *)
(* on their way: their item is listed, but no handler is responsible.  It  *)
(* is empty between two steps.                                             *)
(***************************************************************************)
EXTENDS EventBroker, Induction

Items == [a : Askers, id : Nat, pos : Nat, tried : SUBSET Handlers]

Shape(n, hd, held, X, N, box, w) ==
    /\ n \in Nat /\ hd \in [1..n -> Handlers] /\ held \in [1..n -> SUBSET Nat]
    /\ X \subseteq Items /\ N \in Nat
    /\ box \in [Handlers -> SUBSET Nat] /\ w \in [Askers -> AskerStates]

(* a handler is listed once *)
Listed(n, hd) == \A k, l \in 1..n : hd[k] = hd[l] => k = l

(* an id is given once *)
Numbered(n, X, N) ==
    /\ \A x \in X : x.id < N /\ x.pos <= n
    /\ \A x, y \in X : x.id = y.id => x = y

(* the item of an id leads to the handler that is responsible *)
Routed(n, held, X) == \A k \in 1..n : \A id \in held[k] : \E x \in X : x.id = id /\ x.pos = k

(* a handler has been given what it is responsible for ... *)
Delivered(n, hd, held, box) == \A k \in 1..n : held[k] \subseteq box[hd[k]]

(* ... and what it was given and has a listed item is its responsibility *)
Known(n, hd, held, X, N, box) ==
    \A k \in 1..n : \A id \in box[hd[k]] :
        id < N /\ \A x \in X : x.id = id => id \in held[k]

(* the handlers up to the one an item leads to were asked *)
Passed(n, hd, X) == \A x \in X : \A k \in 1..n : k <= x.pos => hd[k] \in x.tried

OnTheWay(n, held, X, O) ==
    \A id \in O : (\E x \in X : x.id = id) /\ \A k \in 1..n : id \notin held[k]

(* an open question is some handler's responsibility *)
InHands(n, held, X, w, O) ==
    \A a \in Askers :
        ~w[a].done /\ ~w[a].cancelled =>
           \E x \in X : /\ x.a = a /\ x.id = w[a].id
                        /\ x.id \in O \/ \E k \in 1..n : x.id \in held[k]

(* without an item of an earlier question, the items of an asker are those *)
(* of its question, and a cancelled one has none                           *)
Own(X, w) ==
    \A a \in Askers :
        /\ w[a].accepted => w[a].done
        /\ w[a].cancelled /\ w[a].accepted => w[a].again
        /\ ~w[a].again => \A x \in X : x.a = a => x.id = w[a].id /\ ~w[a].cancelled

Sound(n, hd, held, X, N, box, w, O) ==
    /\ Shape(n, hd, held, X, N, box, w)
    /\ Listed(n, hd) /\ Numbered(n, X, N)
    /\ Routed(n, held, X) /\ Delivered(n, hd, held, box) /\ Known(n, hd, held, X, N, box)
    /\ Passed(n, hd, X) /\ OnTheWay(n, held, X, O)
    /\ InHands(n, held, X, w, O) /\ Own(X, w)

------------------------------------------------------------------------------
(* The view of a state                                                     *)

Hd(s) == [k \in 1..Len(s.g.handlers) |-> s.g.handlers[k].h]
Held(s) == [k \in 1..Len(s.g.handlers) |-> ToSet(s.g.handlers[k].ids)]
Box(s) == [h \in Handlers |-> ToSet(s.hs[h].inbox) \cup ToSet(s.hs[h].activeIds)]

States == [g : Globals, hs : [Handlers -> HandlerStates], as : [Askers -> AskerStates]]

(* no list has an element twice *)
Once(s) ==
    /\ \A i, j \in 1..Len(s.g.askers) : s.g.askers[i].id = s.g.askers[j].id => i = j
    /\ \A k \in 1..Len(s.g.handlers) :
          LET x == s.hs[s.g.handlers[k].h]
          IN /\ Distinct(s.g.handlers[k].ids)
             /\ Distinct(x.inbox) /\ Distinct(x.activeIds)
             /\ ToSet(x.inbox) \cap ToSet(x.activeIds) = {}

Good(s, O) ==
    /\ s \in States
    /\ Sound(Len(s.g.handlers), Hd(s), Held(s), ToSet(s.g.askers), s.g.next_id, Box(s), s.as, O)
    /\ Once(s)

(* the handlers that exist are the listed ones *)
Registered(s) ==
    /\ s.g.on <=> s.g.handlers # <<>>
    /\ ~s.g.on => s.g = NoGlobal
    /\ \A h \in Handlers :
          /\ s.hs[h].phase # "off" <=> \E k \in 1..Len(s.g.handlers) : s.g.handlers[k].h = h
          /\ s.hs[h].phase = "off" => s.hs[h].inbox = <<>> /\ s.hs[h].activeIds = <<>>

IInv ==
    /\ Good(Now, {}) /\ Registered(Now)
    /\ starts \in 0 .. MaxStarts /\ asked \in 0 .. MaxQuestions

------------------------------------------------------------------------------
(* The steps of the view                                                   *)

(* ask(): handler p becomes responsible for an item that was on its way *)
AskStep(n, hd, held, X, box, O, x, p, y, held2, box2, X2) ==
    /\ x \in X /\ x.id \in O /\ p \in 1..n
    /\ \A k \in 1..n : k < p => hd[k] \in x.tried
    /\ y \in Items /\ y.a = x.a /\ y.id = x.id /\ y.pos = p
    /\ y.tried = x.tried \cup {hd[p]} /\ held2 \in [1..n -> SUBSET Nat]
    /\ box2 \in [Handlers -> SUBSET Nat]
    /\ \A k \in 1..n : held2[k] = IF k = p THEN held[k] \cup {x.id} ELSE held[k]
    /\ \A h \in Handlers : box2[h] = IF h = hd[p] THEN box[h] \cup {x.id} ELSE box[h]
    /\ X2 = (X \ {x}) \cup {y}

LEMMA ViewAsk ==
  ASSUME NEW n, NEW hd, NEW held, NEW X, NEW N, NEW box, NEW w, NEW O, NEW x, NEW p, NEW y, NEW held2, NEW box2, NEW X2,
         Sound(n, hd, held, X, N, box, w, O), AskStep(n, hd, held, X, box, O, x, p, y, held2, box2, X2)
  PROVE  /\ Sound(n, hd, held2, X2, N, box2, w, O \ {x.id})
         /\ x.id \notin held[p] /\ x.id \notin box[hd[p]]
<1> USE DEF AskStep
<1>1. Shape(n, hd, held, X, N, box, w)
  BY DEF Sound
<1>2. n \in Nat /\ hd \in [1..n -> Handlers] /\ held \in [1..n -> SUBSET Nat] /\ X \subseteq Items
      /\ N \in Nat /\ box \in [Handlers -> SUBSET Nat] /\ w \in [Askers -> AskerStates]
  BY <1>1 DEF Shape
<1>3. x.id \in Nat /\ x.pos \in Nat /\ x.tried \subseteq Handlers /\ hd[p] \in Handlers
  BY <1>2 DEF Items
<1>4. \A z \in X : z.id \in Nat /\ z.pos \in Nat
  BY <1>2 DEF Items
<1>5. \A k \in 1..n : x.id \notin held[k]
  BY DEF Sound, OnTheWay
<1>6. \A z \in X2 : z = y \/ (z \in X /\ z # x)
  BY SMT
<1>7. y \in X2 /\ \A z \in X : z # x => z \in X2
  BY SMT
<1>8. Shape(n, hd, held2, X2, N, box2, w)
  BY <1>2 DEF Shape
<1>9. Listed(n, hd)
  BY DEF Sound
<1>10. Numbered(n, X2, N)
  <2>1. \A z, u \in X : z.id = u.id => z = u
    BY DEF Sound, Numbered
  <2>2. \A z \in X : z.id < N /\ z.pos <= n
    BY DEF Sound, Numbered
  <2>3. ASSUME NEW z \in X2 PROVE z.id < N /\ z.pos <= n
    BY <1>6, <2>2, <1>2
  <2>4. ASSUME NEW z \in X2, NEW u \in X2, z.id = u.id PROVE z = u
    BY <1>6, <2>1, <2>4
  <2> QED BY <2>3, <2>4 DEF Numbered
<1>11. Routed(n, held2, X2)
  <2> SUFFICES ASSUME NEW k \in 1..n, NEW id \in held2[k] PROVE \E z \in X2 : z.id = id /\ z.pos = k
    BY DEF Routed
  <2>1. CASE k = p /\ id = x.id
    BY <1>7, <2>1
  <2>2. CASE ~(k = p /\ id = x.id)
    <3>1. id \in held[k]
      BY <2>2
    <3>2. PICK z \in X : z.id = id /\ z.pos = k
      BY <3>1 DEF Sound, Routed
    <3>3. z # x
      BY <1>5, <3>1, <3>2
    <3> QED BY <1>7, <3>2, <3>3
  <2> QED BY <2>1, <2>2
<1>12. Delivered(n, hd, held2, box2)
  <2> SUFFICES ASSUME NEW k \in 1..n, NEW id \in held2[k] PROVE id \in box2[hd[k]]
    BY DEF Delivered
  <2>1. hd[k] \in Handlers
    BY <1>2
  <2>2. CASE k = p /\ id = x.id
    BY <2>1, <2>2
  <2>3. CASE ~(k = p /\ id = x.id)
    <3>1. id \in held[k]
      BY <2>3
    <3>2. id \in box[hd[k]]
      BY <3>1 DEF Sound, Delivered
    <3> QED BY <2>1, <3>2
  <2> QED BY <2>2, <2>3
<1>13. Known(n, hd, held2, X2, N, box2)
  <2> SUFFICES ASSUME NEW k \in 1..n, NEW id \in box2[hd[k]]
               PROVE  id < N /\ \A z \in X2 : z.id = id => id \in held2[k]
    BY DEF Known
  <2>1. hd[k] \in Handlers /\ (hd[k] = hd[p] => k = p)
    BY <1>2, <1>9 DEF Listed
  <2>2. x.id < N
    BY DEF Sound, Numbered
  <2>3. CASE id = x.id /\ k = p
    BY <2>2, <2>3
  <2>4. CASE ~(id = x.id /\ k = p)
    <3>1. id \in box[hd[k]]
      BY <2>1, <2>4
    <3>2. id < N /\ \A z \in X : z.id = id => id \in held[k]
      BY <3>1 DEF Sound, Known
    <3>3. ASSUME NEW z \in X2, z.id = id PROVE id \in held2[k]
      <4>1. z = y => x.id = id
        BY <3>3
      <4>2. id \in held[k]
        BY <4>1, <3>2, <3>3, <1>6
      <4> QED BY <4>2
    <3> QED BY <3>2, <3>3
  <2> QED BY <2>3, <2>4
<1>14. Passed(n, hd, X2)
  <2> SUFFICES ASSUME NEW z \in X2, NEW k \in 1..n, k <= z.pos PROVE hd[k] \in z.tried
    BY DEF Passed
  <2>1. CASE z = y
    BY <2>1, <1>2
  <2>2. CASE z \in X
    BY <2>2 DEF Sound, Passed
  <2> QED BY <1>6, <2>1, <2>2
<1>15. OnTheWay(n, held2, X2, O \ {x.id})
  <2> SUFFICES ASSUME NEW id \in O, id # x.id
               PROVE  (\E z \in X2 : z.id = id) /\ \A k \in 1..n : id \notin held2[k]
    BY DEF OnTheWay
  <2>1. PICK z \in X : z.id = id
    BY DEF Sound, OnTheWay
  <2>2. \A k \in 1..n : id \notin held[k]
    BY DEF Sound, OnTheWay
  <2>3. z \in X2
    BY <1>7, <2>1
  <2>4. \A k \in 1..n : id \notin held2[k]
    BY <2>2
  <2> QED BY <2>1, <2>3, <2>4
<1>16. InHands(n, held2, X2, w, O \ {x.id})
  <2> SUFFICES ASSUME NEW a \in Askers, ~w[a].done, ~w[a].cancelled
               PROVE  \E z \in X2 : /\ z.a = a /\ z.id = w[a].id
                                    /\ z.id \in O \ {x.id} \/ \E k \in 1..n : z.id \in held2[k]
    BY DEF InHands
  <2>1. PICK z \in X : /\ z.a = a /\ z.id = w[a].id
                       /\ z.id \in O \/ \E k \in 1..n : z.id \in held[k]
    BY DEF Sound, InHands
  <2>2. CASE z = x
    <3>1. y.id \in held2[p]
      BY SMT
    <3> QED BY <2>1, <2>2, <3>1, <1>7
  <2>3. CASE z # x
    <3>1. z \in X2
      BY <1>7, <2>3
    <3>2. z.id # x.id
      BY <2>3 DEF Sound, Numbered
    <3>3. z.id \in O \ {x.id} \/ \E k \in 1..n : z.id \in held2[k]
      <4>1. CASE z.id \in O
        BY <4>1, <3>2
      <4>2. CASE \E k \in 1..n : z.id \in held[k]
        BY <4>2
      <4> QED BY <2>1, <4>1, <4>2
    <3> QED BY <2>1, <3>1, <3>3
  <2> QED BY <2>2, <2>3
<1>17. Own(X2, w)
  <2> SUFFICES ASSUME NEW a \in Askers
               PROVE  /\ w[a].accepted => w[a].done
                      /\ w[a].cancelled /\ w[a].accepted => w[a].again
                      /\ ~w[a].again => \A z \in X2 : z.a = a => z.id = w[a].id /\ ~w[a].cancelled
    BY DEF Own
  <2>1. /\ w[a].accepted => w[a].done
        /\ w[a].cancelled /\ w[a].accepted => w[a].again
        /\ ~w[a].again => \A z \in X : z.a = a => z.id = w[a].id /\ ~w[a].cancelled
    BY Zenon DEF Sound, Own
  <2>2. ASSUME ~w[a].again, NEW z \in X2, z.a = a PROVE z.id = w[a].id /\ ~w[a].cancelled
    <3>1. CASE z = y
      BY <2>1, <2>2, <3>1, Zenon
    <3>2. CASE z \in X
      BY <2>1, <2>2, <3>2, Zenon
    <3> QED BY <1>6, <3>1, <3>2
  <2> QED BY <2>1, <2>2
<1>18. x.id \notin box[hd[p]]
  BY <1>5 DEF Sound, Known
<1>19. Sound(n, hd, held2, X2, N, box2, w, O \ {x.id})
  BY <1>8, <1>9, <1>10, <1>11, <1>12, <1>13, <1>14, <1>15, <1>16, <1>17 DEF Sound
<1> QED BY <1>5, <1>18, <1>19

(* An item leaves the list, its asker has its answer: the official reject *)
RejectStep(X, w, O, x, w2) ==
    /\ x \in X /\ x.id \in O /\ w2 \in [Askers -> AskerStates]
    /\ \A a \in Askers : a # x.a => w2[a] = w[a]
    /\ w2[x.a].done /\ w2[x.a].accepted = w[x.a].accepted
    /\ w2[x.a].cancelled = w[x.a].cancelled /\ w2[x.a].again = w[x.a].again
    /\ w2[x.a].id = w[x.a].id

LEMMA ViewReject ==
  ASSUME NEW n, NEW hd, NEW held, NEW X, NEW N, NEW box, NEW w, NEW O, NEW x, NEW w2,
         Sound(n, hd, held, X, N, box, w, O), RejectStep(X, w, O, x, w2)
  PROVE  Sound(n, hd, held, X \ {x}, N, box, w2, O \ {x.id})
<1> USE DEF RejectStep
<1> DEFINE X2 == X \ {x}
<1>0. \A z \in X2 : z \in X /\ z # x
  OBVIOUS
<1>00. \A z \in X : z # x => z \in X2
  OBVIOUS
<1>000. X2 \subseteq X
  OBVIOUS
<1> HIDE DEF X2
<1>1. Shape(n, hd, held, X, N, box, w)
  BY DEF Sound
<1>2. X \subseteq Items
  BY <1>1 DEF Shape
<1>5. \A k \in 1..n : x.id \notin held[k]
  BY DEF Sound, OnTheWay
<1>8. Shape(n, hd, held, X2, N, box, w2)
  BY <1>1, <1>000 DEF Shape
<1>9. Listed(n, hd) /\ Delivered(n, hd, held, box)
  BY DEF Sound
<1>10. Numbered(n, X2, N)
  BY <1>0 DEF Sound, Numbered
<1>11. Routed(n, held, X2)
  <2> SUFFICES ASSUME NEW k \in 1..n, NEW id \in held[k] PROVE \E z \in X2 : z.id = id /\ z.pos = k
    BY DEF Routed
  <2>2. PICK z \in X : z.id = id /\ z.pos = k
    BY DEF Sound, Routed
  <2>3. z # x
    BY <1>5, <2>2
  <2> QED BY <1>00, <2>2, <2>3
<1>13. Known(n, hd, held, X2, N, box)
  BY <1>0 DEF Sound, Known
<1>14. Passed(n, hd, X2)
  BY <1>0 DEF Sound, Passed
<1>15. OnTheWay(n, held, X2, O \ {x.id})
  <2> SUFFICES ASSUME NEW id \in O, id # x.id
               PROVE  (\E z \in X2 : z.id = id) /\ \A k \in 1..n : id \notin held[k]
    BY DEF OnTheWay
  <2>1. PICK z \in X : z.id = id
    BY DEF Sound, OnTheWay
  <2>2. \A k \in 1..n : id \notin held[k]
    BY DEF Sound, OnTheWay
  <2>3. z \in X2
    BY <1>00, <2>1
  <2> QED BY <2>1, <2>2, <2>3
<1>16. InHands(n, held, X2, w2, O \ {x.id})
  <2> SUFFICES ASSUME NEW a \in Askers, ~w2[a].done, ~w2[a].cancelled
               PROVE  \E z \in X2 : /\ z.a = a /\ z.id = w2[a].id
                                    /\ z.id \in O \ {x.id} \/ \E k \in 1..n : z.id \in held[k]
    BY DEF InHands
  <2>0. a # x.a /\ w2[a] = w[a]
    BY SMT
  <2>1. PICK z \in X : /\ z.a = a /\ z.id = w[a].id
                       /\ z.id \in O \/ \E k \in 1..n : z.id \in held[k]
    BY <2>0 DEF Sound, InHands
  <2>2. z # x /\ z \in X2
    BY <1>00, <2>0, <2>1
  <2>3. z.id # x.id
    BY <2>2 DEF Sound, Numbered
  <2> QED BY <2>0, <2>1, <2>2, <2>3
<1>17. Own(X2, w2)
  <2> SUFFICES ASSUME NEW a \in Askers
               PROVE  /\ w2[a].accepted => w2[a].done
                      /\ w2[a].cancelled /\ w2[a].accepted => w2[a].again
                      /\ ~w2[a].again => \A z \in X2 : z.a = a => z.id = w2[a].id /\ ~w2[a].cancelled
    BY DEF Own
  <2>1. /\ w[a].accepted => w[a].done
        /\ w[a].cancelled /\ w[a].accepted => w[a].again
        /\ ~w[a].again => \A z \in X : z.a = a => z.id = w[a].id /\ ~w[a].cancelled
    BY Zenon DEF Sound, Own
  <2>2. CASE a # x.a
    <3>1. w2[a] = w[a]
      BY <2>2
    <3> QED BY <1>0, <2>1, <3>1, Zenon
  <2>3. CASE a = x.a
    <3>1. w2[a].done /\ w2[a].accepted = w[a].accepted /\ w2[a].cancelled = w[a].cancelled
          /\ w2[a].again = w[a].again /\ w2[a].id = w[a].id
      BY <2>3
    <3> QED BY <1>0, <2>1, <3>1, Zenon
  <2> QED BY <2>2, <2>3
<1>19. Sound(n, hd, held, X2, N, box, w2, O \ {x.id})
  BY <1>8, <1>9, <1>10, <1>11, <1>13, <1>14, <1>15, <1>16, <1>17 DEF Sound
<1> QED BY <1>19 DEF X2

(* A handler gives an id back *)
TakeStep(n, hd, held, X, box, p, id, held2, box2, O) ==
    /\ p \in 1..n /\ id \in box[hd[p]] /\ held2 \in [1..n -> SUBSET Nat]
    /\ box2 \in [Handlers -> SUBSET Nat]
    /\ \A k \in 1..n : held2[k] = IF k = p THEN held[k] \ {id} ELSE held[k]
    /\ \A h \in Handlers : box2[h] = IF h = hd[p] THEN box[h] \ {id} ELSE box[h]
    /\ O = {id} \cap {x.id : x \in X}

LEMMA ViewTake ==
  ASSUME NEW n, NEW hd, NEW held, NEW X, NEW N, NEW box, NEW w, NEW p, NEW id, NEW held2, NEW box2, NEW O,
         Sound(n, hd, held, X, N, box, w, {}), TakeStep(n, hd, held, X, box, p, id, held2, box2, O)
  PROVE  Sound(n, hd, held2, X, N, box2, w, O)
<1> USE DEF TakeStep
<1>1. Shape(n, hd, held, X, N, box, w)
  BY DEF Sound
<1>2. X \subseteq Items /\ hd \in [1..n -> Handlers]
  BY <1>1 DEF Shape
<1>8. Shape(n, hd, held2, X, N, box2, w)
  BY <1>1 DEF Shape
<1>9. Listed(n, hd) /\ Numbered(n, X, N) /\ Passed(n, hd, X) /\ Own(X, w)
  BY DEF Sound
<1>10. ASSUME NEW k \in 1..n PROVE hd[k] \in Handlers /\ (hd[k] = hd[p] => k = p) /\ held2[k] \subseteq held[k]
  BY <1>2, <1>9 DEF Listed
<1>11. Routed(n, held2, X)
  <2> SUFFICES ASSUME NEW k \in 1..n, NEW i \in held2[k] PROVE \E z \in X : z.id = i /\ z.pos = k
    BY DEF Routed
  <2>1. i \in held[k]
    BY <1>10
  <2> QED BY <2>1 DEF Sound, Routed
<1>12. Delivered(n, hd, held2, box2)
  <2> SUFFICES ASSUME NEW k \in 1..n, NEW i \in held2[k] PROVE i \in box2[hd[k]]
    BY DEF Delivered
  <2>1. i \in held[k] /\ (k = p => i # id) /\ hd[k] \in Handlers /\ (hd[k] = hd[p] => k = p)
    BY <1>10
  <2>2. i \in box[hd[k]]
    BY <2>1 DEF Sound, Delivered
  <2> QED BY <2>1, <2>2
<1>13. Known(n, hd, held2, X, N, box2)
  <2> SUFFICES ASSUME NEW k \in 1..n, NEW i \in box2[hd[k]]
               PROVE  i < N /\ \A z \in X : z.id = i => i \in held2[k]
    BY DEF Known
  <2>1. hd[k] \in Handlers /\ (hd[k] = hd[p] => k = p)
    BY <1>10
  <2>2. i \in box[hd[k]] /\ (k = p => i # id)
    BY <2>1
  <2>3. i < N /\ \A z \in X : z.id = i => i \in held[k]
    BY <2>2 DEF Sound, Known
  <2>4. i \in held[k] => i \in held2[k]
    BY <2>2
  <2> QED BY <2>3, <2>4
<1>15. OnTheWay(n, held2, X, O)
  <2> SUFFICES ASSUME NEW i \in O
               PROVE  (\E z \in X : z.id = i) /\ \A k \in 1..n : i \notin held2[k]
    BY DEF OnTheWay
  <2>1. i = id
    OBVIOUS
  <2>2. PICK z \in X : z.id = id
    BY <2>1
  <2>3. ASSUME NEW k \in 1..n, id \in held2[k] PROVE FALSE
    <3>1. k # p /\ id \in held[k]
      BY <2>3
    <3>2. PICK u \in X : u.id = id /\ u.pos = k
      BY <3>1 DEF Sound, Routed
    <3>3. id \in held[p]
      BY <2>2 DEF Sound, Known
    <3>4. PICK v \in X : v.id = id /\ v.pos = p
      BY <3>3 DEF Sound, Routed
    <3>5. u = v
      BY <1>9, <3>2, <3>4 DEF Numbered
    <3> QED BY <3>1, <3>2, <3>4, <3>5
  <2> QED BY <2>1, <2>2, <2>3
<1>16. InHands(n, held2, X, w, O)
  <2> SUFFICES ASSUME NEW a \in Askers, ~w[a].done, ~w[a].cancelled
               PROVE  \E z \in X : /\ z.a = a /\ z.id = w[a].id
                                   /\ z.id \in O \/ \E k \in 1..n : z.id \in held2[k]
    BY DEF InHands
  <2>1. PICK z \in X : /\ z.a = a /\ z.id = w[a].id
                       /\ z.id \in {} \/ \E k \in 1..n : z.id \in held[k]
    BY DEF Sound, InHands
  <2>2. PICK k \in 1..n : z.id \in held[k]
    BY <2>1
  <2>3. z.id \in O \/ z.id \in held2[k]
    BY <2>2
  <2> QED BY <2>1, <2>3
<1> QED BY <1>8, <1>9, <1>11, <1>12, <1>13, <1>15, <1>16 DEF Sound

(* An answer: the item stays *)
AcceptStep(X, w, x, w2) ==
    /\ x \in X /\ w2 \in [Askers -> AskerStates]
    /\ \A a \in Askers : a # x.a => w2[a] = w[a]
    /\ w2[x.a].done /\ w2[x.a].cancelled = w[x.a].cancelled
    /\ w2[x.a].again = w[x.a].again /\ w2[x.a].id = w[x.a].id

LEMMA ViewAccept ==
  ASSUME NEW n, NEW hd, NEW held, NEW X, NEW N, NEW box, NEW w, NEW x, NEW w2,
         Sound(n, hd, held, X, N, box, w, {x.id}), AcceptStep(X, w, x, w2)
  PROVE  Sound(n, hd, held, X, N, box, w2, {})
<1> USE DEF AcceptStep
<1>1. Shape(n, hd, held, X, N, box, w)
  BY DEF Sound
<1>8. Shape(n, hd, held, X, N, box, w2)
  BY <1>1 DEF Shape
<1>9. /\ Listed(n, hd) /\ Numbered(n, X, N) /\ Routed(n, held, X) /\ Delivered(n, hd, held, box)
      /\ Known(n, hd, held, X, N, box) /\ Passed(n, hd, X)
  BY DEF Sound
<1>15. OnTheWay(n, held, X, {})
  BY DEF OnTheWay
<1>16. InHands(n, held, X, w2, {})
  <2> SUFFICES ASSUME NEW a \in Askers, ~w2[a].done, ~w2[a].cancelled
               PROVE  \E z \in X : /\ z.a = a /\ z.id = w2[a].id
                                   /\ z.id \in {} \/ \E k \in 1..n : z.id \in held[k]
    BY DEF InHands
  <2>0. a # x.a /\ w2[a] = w[a]
    BY SMT
  <2>1. PICK z \in X : /\ z.a = a /\ z.id = w[a].id
                       /\ z.id \in {x.id} \/ \E k \in 1..n : z.id \in held[k]
    BY <2>0 DEF Sound, InHands
  <2>2. z.id # x.id
    BY <1>9, <2>0, <2>1 DEF Numbered
  <2> QED BY <2>0, <2>1, <2>2
<1>17. Own(X, w2)
  <2> SUFFICES ASSUME NEW a \in Askers
               PROVE  /\ w2[a].accepted => w2[a].done
                      /\ w2[a].cancelled /\ w2[a].accepted => w2[a].again
                      /\ ~w2[a].again => \A z \in X : z.a = a => z.id = w2[a].id /\ ~w2[a].cancelled
    BY DEF Own
  <2>1. /\ w[a].accepted => w[a].done
        /\ w[a].cancelled /\ w[a].accepted => w[a].again
        /\ ~w[a].again => \A z \in X : z.a = a => z.id = w[a].id /\ ~w[a].cancelled
    BY Zenon DEF Sound, Own
  <2>2. CASE a # x.a
    <3>1. w2[a] = w[a]
      BY <2>2
    <3> QED BY <2>1, <3>1, Zenon
  <2>3. CASE a = x.a
    <3>1. w2[a].done /\ w2[a].cancelled = w[a].cancelled
          /\ w2[a].again = w[a].again /\ w2[a].id = w[a].id
      BY <2>3
    <3> QED BY <2>1, <2>3, <3>1, Zenon
  <2> QED BY <2>2, <2>3
<1> QED BY <1>8, <1>9, <1>15, <1>16, <1>17 DEF Sound

(* A handler enters at the end of the list *)
AddStep(n, hd, held, box, h, hd2, held2) ==
    /\ h \in Handlers
    /\ \A k \in 1..n : hd[k] # h
    /\ box[h] = {} /\ hd2 \in [1..(n + 1) -> Handlers]
    /\ held2 \in [1..(n + 1) -> SUBSET Nat]
    /\ \A k \in 1..n : hd2[k] = hd[k] /\ held2[k] = held[k]
    /\ hd2[n + 1] = h /\ held2[n + 1] = {}

LEMMA ViewAdd ==
  ASSUME NEW n, NEW hd, NEW held, NEW X, NEW N, NEW box, NEW w, NEW h, NEW hd2, NEW held2,
         Sound(n, hd, held, X, N, box, w, {}), AddStep(n, hd, held, box, h, hd2, held2)
  PROVE  Sound(n + 1, hd2, held2, X, N, box, w, {})
<1> USE DEF AddStep
<1>1. Shape(n, hd, held, X, N, box, w)
  BY DEF Sound
<1>2. n \in Nat /\ X \subseteq Items
  BY <1>1 DEF Shape
<1>3. \A k \in 1..(n + 1) : k \in 1..n \/ k = n + 1
  BY <1>2
<1>4. \A x \in X : x.pos \in Nat /\ x.pos <= n
  BY <1>2 DEF Items, Sound, Numbered
<1>5. 1..n \subseteq 1..(n + 1)
  BY <1>2
<1>8. Shape(n + 1, hd2, held2, X, N, box, w)
  BY <1>1, <1>2 DEF Shape
<1>9. Listed(n + 1, hd2)
  <2> SUFFICES ASSUME NEW k \in 1..(n + 1), NEW l \in 1..(n + 1), hd2[k] = hd2[l] PROVE k = l
    BY DEF Listed
  <2>1. \A i, j \in 1..n : hd[i] = hd[j] => i = j
    BY DEF Sound, Listed
  <2> QED BY <1>3, <2>1
<1>10. Numbered(n + 1, X, N)
  <2>1. \A x \in X : x.pos <= n + 1
    BY <1>2, <1>4
  <2> QED BY <2>1 DEF Sound, Numbered
<1>11. Routed(n + 1, held2, X)
  <2> SUFFICES ASSUME NEW k \in 1..(n + 1), NEW id \in held2[k] PROVE \E x \in X : x.id = id /\ x.pos = k
    BY DEF Routed
  <2>1. k \in 1..n /\ id \in held[k]
    BY <1>3
  <2> QED BY <2>1 DEF Sound, Routed
<1>12. Delivered(n + 1, hd2, held2, box)
  <2> SUFFICES ASSUME NEW k \in 1..(n + 1), NEW id \in held2[k] PROVE id \in box[hd2[k]]
    BY DEF Delivered
  <2>1. k \in 1..n /\ id \in held[k] /\ hd2[k] = hd[k]
    BY <1>3
  <2> QED BY <2>1 DEF Sound, Delivered
<1>13. Known(n + 1, hd2, held2, X, N, box)
  <2> SUFFICES ASSUME NEW k \in 1..(n + 1), NEW id \in box[hd2[k]]
               PROVE  id < N /\ \A x \in X : x.id = id => id \in held2[k]
    BY DEF Known
  <2>1. k \in 1..n /\ held2[k] = held[k] /\ hd2[k] = hd[k]
    BY <1>3
  <2>2. id < N /\ \A x \in X : x.id = id => id \in held[k]
    BY <2>1 DEF Sound, Known
  <2> QED BY <2>1, <2>2
<1>14. Passed(n + 1, hd2, X)
  <2> SUFFICES ASSUME NEW x \in X, NEW k \in 1..(n + 1), k <= x.pos PROVE hd2[k] \in x.tried
    BY DEF Passed
  <2>1. k \in 1..n /\ hd2[k] = hd[k]
    BY <1>2, <1>4
  <2> QED BY <2>1 DEF Sound, Passed
<1>15. OnTheWay(n + 1, held2, X, {})
  BY DEF OnTheWay
<1>16. InHands(n + 1, held2, X, w, {})
  <2> SUFFICES ASSUME NEW a \in Askers, ~w[a].done, ~w[a].cancelled
               PROVE  \E z \in X : /\ z.a = a /\ z.id = w[a].id
                                   /\ z.id \in {} \/ \E k \in 1..(n + 1) : z.id \in held2[k]
    BY DEF InHands
  <2>1. PICK z \in X : /\ z.a = a /\ z.id = w[a].id
                       /\ z.id \in {} \/ \E k \in 1..n : z.id \in held[k]
    BY DEF Sound, InHands
  <2>2. PICK k \in 1..n : z.id \in held[k]
    BY <2>1
  <2>3. k \in 1..(n + 1) /\ z.id \in held2[k]
    BY <2>2, <1>5
  <2> QED BY <2>1, <2>3
<1>17. Own(X, w)
  BY DEF Sound
<1> QED BY <1>8, <1>9, <1>10, <1>11, <1>12, <1>13, <1>14, <1>15, <1>16, <1>17 DEF Sound

(* A handler leaves the list: what it held is on its way *)
RemoveStep(n, hd, held, X, p, hd2, held2, X2) ==
    /\ p \in 1..n /\ hd2 \in [1..(n - 1) -> Handlers]
    /\ held2 \in [1..(n - 1) -> SUBSET Nat]
    /\ \A k \in 1..(n - 1) : hd2[k] = (IF k < p THEN hd[k] ELSE hd[k + 1])
    /\ \A k \in 1..(n - 1) : held2[k] = (IF k < p THEN held[k] ELSE held[k + 1])
    /\ X2 = {Shifted(x, p, hd[p]) : x \in X}

LEMMA ViewRemove ==
  ASSUME NEW n, NEW hd, NEW held, NEW X, NEW N, NEW box, NEW w, NEW p, NEW hd2, NEW held2, NEW X2,
         Sound(n, hd, held, X, N, box, w, {}), RemoveStep(n, hd, held, X, p, hd2, held2, X2)
  PROVE  Sound(n - 1, hd2, held2, X2, N, box, w, held[p])
<1> USE DEF RemoveStep
<1>1. Shape(n, hd, held, X, N, box, w)
  BY DEF Sound
<1>2. n \in Nat /\ X \subseteq Items /\ held \in [1..n -> SUBSET Nat]
  BY <1>1 DEF Shape
<1>2a. N \in Nat
  BY <1>1 DEF Shape
<1> DEFINE o(k) == IF k < p THEN k ELSE k + 1
           S(x) == Shifted(x, p, hd[p])
<1>3. ASSUME NEW x \in X
      PROVE  /\ S(x) \in Items /\ S(x).a = x.a /\ S(x).id = x.id /\ S(x).tried = x.tried \ {hd[p]}
             /\ S(x).pos = IF x.pos >= p THEN x.pos - 1 ELSE x.pos
             /\ x.pos \in Nat /\ x.pos <= n /\ x.id \in Nat /\ x.id < N
  <2>1. x \in Items /\ x.pos <= n /\ x.id < N
    BY <1>2 DEF Sound, Numbered
  <2>2. x.pos \in Nat /\ x.id \in Nat
    BY <2>1 DEF Items
  <2>3. (IF x.pos >= p THEN x.pos - 1 ELSE x.pos) \in Nat
    BY <2>2, <1>2
  <2>4. S(x).a = x.a /\ S(x).id = x.id /\ S(x).tried = x.tried \ {hd[p]}
             /\ S(x).pos = IF x.pos >= p THEN x.pos - 1 ELSE x.pos
    BY <2>1 DEF Items, Shifted
  <2>5. S(x) \in Items
    BY <2>1, <2>3 DEF Items, Shifted
  <2> QED BY <2>1, <2>2, <2>4, <2>5
<1>4. X2 = {S(x) : x \in X}
  OBVIOUS
<1>5. \A k \in 1..(n - 1) : o(k) \in 1..n /\ o(k) # p /\ hd2[k] = hd[o(k)] /\ held2[k] = held[o(k)]
  BY <1>2
<1>6. ASSUME NEW k \in 1..n, k # p
      PROVE  \E l \in 1..(n - 1) : o(l) = k
  <2>1. CASE k < p
    <3>1. k \in 1..(n - 1) /\ o(k) = k
      BY <1>2, <2>1
    <3> QED BY <3>1
  <2>2. CASE k > p
    <3>1. k - 1 \in 1..(n - 1) /\ o(k - 1) = k
      BY <1>2, <2>2
    <3> QED BY <3>1
  <2> QED BY <1>6, <1>2, <2>1, <2>2
<1>7. \A k, l \in 1..(n - 1) : o(k) = o(l) => k = l
  BY <1>2
<1>7a. ASSUME NEW k \in 1..(n - 1), NEW x \in X
       PROVE  /\ x.pos = o(k) => S(x).pos = k
              /\ k <= S(x).pos => o(k) <= x.pos
  BY <1>2, <1>3, SMTT(30)
<1> HIDE DEF o, S
<1>8. Shape(n - 1, hd2, held2, X2, N, box, w)
  <2>1. n - 1 \in Nat
    BY <1>2
  <2>2. X2 \subseteq Items
    BY <1>3, <1>4
  <2> QED BY <1>1, <2>1, <2>2 DEF Shape
<1>9. Listed(n - 1, hd2)
  BY <1>5, <1>7 DEF Sound, Listed
<1>10. Numbered(n - 1, X2, N)
  <2>1. ASSUME NEW x \in X PROVE S(x).id < N /\ S(x).pos <= n - 1
    BY <1>2, <1>3
  <2>2. ASSUME NEW x \in X, NEW y \in X, S(x).id = S(y).id PROVE S(x) = S(y)
    <3>1. x.id = y.id
      BY <1>3, <2>2
    <3>2. x = y
      BY <3>1 DEF Sound, Numbered
    <3> QED BY <3>2
  <2>3. \A x \in X2 : x.id < N /\ x.pos <= n - 1
    BY <2>1, <1>4
  <2>4. \A x, y \in X2 : x.id = y.id => x = y
    BY <2>2, <1>4
  <2> QED BY <2>3, <2>4 DEF Numbered
<1>11. Routed(n - 1, held2, X2)
  <2> SUFFICES ASSUME NEW k \in 1..(n - 1), NEW id \in held2[k] PROVE \E x \in X2 : x.id = id /\ x.pos = k
    BY DEF Routed
  <2>1. id \in held[o(k)] /\ o(k) \in 1..n
    BY <1>5
  <2>2. PICK x \in X : x.id = id /\ x.pos = o(k)
    BY <2>1 DEF Sound, Routed
  <2>3. S(x).id = id /\ S(x).pos = k /\ S(x) \in X2
    BY <1>3, <1>4, <1>7a, <2>2
  <2> QED BY <2>3
<1>12. Delivered(n - 1, hd2, held2, box)
  BY <1>5 DEF Sound, Delivered
<1>13. Known(n - 1, hd2, held2, X2, N, box)
  <2> SUFFICES ASSUME NEW k \in 1..(n - 1), NEW id \in box[hd2[k]]
               PROVE  id < N /\ \A x \in X2 : x.id = id => id \in held2[k]
    BY DEF Known
  <2>1. id \in box[hd[o(k)]] /\ o(k) \in 1..n /\ held2[k] = held[o(k)]
    BY <1>5
  <2>2. id < N /\ \A x \in X : x.id = id => id \in held[o(k)]
    BY <2>1 DEF Sound, Known
  <2>3. ASSUME NEW x \in X, S(x).id = id PROVE id \in held2[k]
    BY <1>3, <2>1, <2>2, <2>3
  <2> QED BY <1>4, <2>2, <2>3
<1>14. Passed(n - 1, hd2, X2)
  <2>1. ASSUME NEW x \in X, NEW k \in 1..(n - 1), k <= S(x).pos PROVE hd2[k] \in S(x).tried
    <3>1. o(k) <= x.pos /\ o(k) \in 1..n /\ o(k) # p /\ hd2[k] = hd[o(k)]
      BY <1>5, <1>7a, <2>1
    <3>2. hd[o(k)] \in x.tried
      BY <3>1 DEF Sound, Passed
    <3>3. hd[o(k)] # hd[p]
      BY <3>1 DEF Sound, Listed
    <3> QED BY <1>3, <3>1, <3>2, <3>3
  <2> QED BY <1>4, <2>1 DEF Passed
<1>15. OnTheWay(n - 1, held2, X2, held[p])
  <2> SUFFICES ASSUME NEW id \in held[p]
               PROVE  (\E z \in X2 : z.id = id) /\ \A k \in 1..(n - 1) : id \notin held2[k]
    BY DEF OnTheWay
  <2>1. PICK x \in X : x.id = id /\ x.pos = p
    BY DEF Sound, Routed
  <2>2. S(x) \in X2 /\ S(x).id = id
    BY <1>3, <1>4, <2>1
  <2>3. ASSUME NEW k \in 1..(n - 1), id \in held2[k] PROVE FALSE
    <3>1. id \in held[o(k)] /\ o(k) \in 1..n /\ o(k) # p
      BY <1>5, <2>3
    <3>2. PICK y \in X : y.id = id /\ y.pos = o(k)
      BY <3>1 DEF Sound, Routed
    <3>3. x = y
      BY <2>1, <3>2 DEF Sound, Numbered
    <3> QED BY <2>1, <3>1, <3>2, <3>3
  <2> QED BY <2>2, <2>3
<1>16. InHands(n - 1, held2, X2, w, held[p])
  <2> SUFFICES ASSUME NEW a \in Askers, ~w[a].done, ~w[a].cancelled
               PROVE  \E z \in X2 : /\ z.a = a /\ z.id = w[a].id
                                    /\ z.id \in held[p] \/ \E k \in 1..(n - 1) : z.id \in held2[k]
    BY DEF InHands
  <2>1. PICK z \in X : /\ z.a = a /\ z.id = w[a].id
                       /\ z.id \in {} \/ \E k \in 1..n : z.id \in held[k]
    BY DEF Sound, InHands
  <2>2. PICK k \in 1..n : z.id \in held[k]
    BY <2>1
  <2>3. S(z).id = z.id /\ S(z).a = z.a /\ S(z) \in X2
    BY <1>3, <1>4
  <2>4. z.id \in held[p] \/ \E l \in 1..(n - 1) : z.id \in held2[l]
    <3>1. CASE k = p
      BY <2>2, <3>1
    <3>2. CASE k # p
      <4>1. PICK l \in 1..(n - 1) : o(l) = k
        BY <1>6, <3>2
      <4> QED BY <1>5, <2>2, <4>1
    <3> QED BY <3>1, <3>2
  <2> QED BY <2>1, <2>3, <2>4
<1>17. Own(X2, w)
  <2> SUFFICES ASSUME NEW a \in Askers
               PROVE  /\ w[a].accepted => w[a].done
                      /\ w[a].cancelled /\ w[a].accepted => w[a].again
                      /\ ~w[a].again => \A z \in X2 : z.a = a => z.id = w[a].id /\ ~w[a].cancelled
    BY DEF Own
  <2>1. /\ w[a].accepted => w[a].done
        /\ w[a].cancelled /\ w[a].accepted => w[a].again
        /\ ~w[a].again => \A z \in X : z.a = a => z.id = w[a].id /\ ~w[a].cancelled
    BY Zenon DEF Sound, Own
  <2>2. ASSUME ~w[a].again, NEW x \in X, S(x).a = a PROVE S(x).id = w[a].id /\ ~w[a].cancelled
    <3>1. S(x).a = x.a /\ S(x).id = x.id
      BY <1>3
    <3>2. x.a = a
      BY <2>2, <3>1, Zenon
    <3>3. x.id = w[a].id /\ ~w[a].cancelled
      BY <2>1, <2>2, <3>2, Zenon
    <3> QED BY <3>1, <3>3, Zenon
  <2>3. ~w[a].again => \A z \in X2 : z.a = a => z.id = w[a].id /\ ~w[a].cancelled
    BY <1>4, <2>2
  <2> QED BY <2>1, <2>3, Zenon
<1> QED BY <1>8, <1>9, <1>10, <1>11, <1>12, <1>13, <1>14, <1>15, <1>16, <1>17 DEF Sound

(* A question gets an item; nobody was asked yet *)
QuestionStep(X, N, w, a, y, w2) ==
    /\ a \in Askers /\ y \in Items /\ y.a = a /\ y.id = N /\ y.pos = 0 /\ y.tried = {}
    /\ w2 \in [Askers -> AskerStates]
    /\ \A b \in Askers : b # a => w2[b] = w[b]
    /\ ~w2[a].done /\ ~w2[a].accepted /\ ~w2[a].cancelled /\ w2[a].id = N
    /\ ~w2[a].again => \A x \in X : x.a # a

LEMMA ViewQuestion ==
  ASSUME NEW n, NEW hd, NEW held, NEW X, NEW N, NEW box, NEW w, NEW a, NEW y, NEW w2,
         Sound(n, hd, held, X, N, box, w, {}), QuestionStep(X, N, w, a, y, w2)
  PROVE  Sound(n, hd, held, X \cup {y}, N + 1, box, w2, {N}) /\ y \notin X
<1> USE DEF QuestionStep
<1> DEFINE X2 == X \cup {y}
<1>0. y \in X2 /\ \A x \in X : x \in X2
  OBVIOUS
<1>0a. \A x \in X2 : x \in X \/ x = y
  OBVIOUS
<1>0b. X \subseteq Items => X2 \subseteq Items
  OBVIOUS
<1> HIDE DEF X2
<1>1. Shape(n, hd, held, X, N, box, w)
  BY DEF Sound
<1>2. n \in Nat /\ N \in Nat /\ X \subseteq Items
  BY <1>1 DEF Shape
<1>3. ASSUME NEW x \in X PROVE x.id \in Nat /\ x.id < N /\ x.pos <= n /\ x.pos \in Nat
  BY <1>2 DEF Items, Sound, Numbered
<1>4. y \notin X
  BY <1>2, <1>3
<1>5. \A k \in 1..n : N \notin held[k]
  <2> SUFFICES ASSUME NEW k \in 1..n, N \in held[k] PROVE FALSE
    OBVIOUS
  <2>1. PICK x \in X : x.id = N
    BY DEF Sound, Routed
  <2> QED BY <1>2, <1>3, <2>1
<1>8. Shape(n, hd, held, X2, N + 1, box, w2)
  <2>1. N + 1 \in Nat
    BY <1>2
  <2> QED BY <1>0b, <1>1, <2>1 DEF Shape
<1>9. Listed(n, hd) /\ Delivered(n, hd, held, box)
  BY DEF Sound
<1>10. Numbered(n, X2, N + 1)
  <2>1. ASSUME NEW x \in X2 PROVE x.id < N + 1 /\ x.pos <= n
    BY <1>0a, <1>2, <1>3
  <2>2. ASSUME NEW x \in X2, NEW z \in X2, x.id = z.id PROVE x = z
    <3>1. \A u, v \in X : u.id = v.id => u = v
      BY DEF Sound, Numbered
    <3>2. \A u \in X : u.id # N
      BY <1>2, <1>3
    <3> QED BY <1>0a, <2>2, <3>1, <3>2
  <2> QED BY <2>1, <2>2 DEF Numbered
<1>11. Routed(n, held, X2)
  BY <1>0 DEF Sound, Routed
<1>13. Known(n, hd, held, X2, N + 1, box)
  <2> SUFFICES ASSUME NEW k \in 1..n, NEW id \in box[hd[k]]
               PROVE  id < N + 1 /\ \A x \in X2 : x.id = id => id \in held[k]
    BY DEF Known
  <2>1. id < N /\ \A x \in X : x.id = id => id \in held[k]
    BY DEF Sound, Known
  <2>2. id \in Nat
    BY <1>1 DEF Shape
  <2>3. id # N /\ id < N + 1
    BY <1>2, <2>1, <2>2
  <2> QED BY <1>0a, <2>1, <2>3
<1>14. Passed(n, hd, X2)
  <2> SUFFICES ASSUME NEW x \in X2, NEW k \in 1..n, k <= x.pos PROVE hd[k] \in x.tried
    BY DEF Passed
  <2>1. x # y
    BY <1>2
  <2>2. x \in X
    BY <1>0a, <2>1
  <2> QED BY <2>2 DEF Sound, Passed
<1>15. OnTheWay(n, held, X2, {N})
  BY <1>0, <1>5 DEF OnTheWay
<1>16. InHands(n, held, X2, w2, {N})
  <2> SUFFICES ASSUME NEW b \in Askers, ~w2[b].done, ~w2[b].cancelled
               PROVE  \E z \in X2 : /\ z.a = b /\ z.id = w2[b].id
                                    /\ z.id \in {N} \/ \E k \in 1..n : z.id \in held[k]
    BY DEF InHands
  <2>1. CASE b = a
    BY <1>0, <2>1
  <2>2. CASE b # a
    <3>1. w2[b] = w[b]
      BY <2>2
    <3>2. PICK z \in X : /\ z.a = b /\ z.id = w[b].id
                         /\ z.id \in {} \/ \E k \in 1..n : z.id \in held[k]
      BY <3>1 DEF Sound, InHands
    <3> QED BY <1>0, <3>1, <3>2
  <2> QED BY <2>1, <2>2
<1>17. Own(X2, w2)
  <2> SUFFICES ASSUME NEW b \in Askers
               PROVE  /\ w2[b].accepted => w2[b].done
                      /\ w2[b].cancelled /\ w2[b].accepted => w2[b].again
                      /\ ~w2[b].again => \A z \in X2 : z.a = b => z.id = w2[b].id /\ ~w2[b].cancelled
    BY DEF Own
  <2>1. CASE b # a
    <3>1. w2[b] = w[b]
      BY <2>1
    <3>2. /\ w[b].accepted => w[b].done
          /\ w[b].cancelled /\ w[b].accepted => w[b].again
          /\ ~w[b].again => \A z \in X : z.a = b => z.id = w[b].id /\ ~w[b].cancelled
      BY Zenon DEF Sound, Own
    <3>3. ASSUME NEW z \in X2, z.a = b PROVE z \in X
      BY <1>0a, <2>1, <3>3
    <3> QED BY <3>1, <3>2, <3>3, Zenon
  <2>2. CASE b = a
    <3>1. ASSUME ~w2[a].again, NEW z \in X2, z.a = a PROVE z.id = w2[a].id
      BY <1>0a, <3>1
    <3> QED BY <2>2, <3>1
  <2> QED BY <2>1, <2>2
<1>18. Sound(n, hd, held, X2, N + 1, box, w2, {N})
  BY <1>8, <1>9, <1>10, <1>11, <1>13, <1>14, <1>15, <1>16, <1>17 DEF Sound
<1> QED BY <1>4, <1>18 DEF X2

(* asker_cancel() removes an item and the id from whoever has it *)
CancelStep(n, held, X, w, x, w2, held2) ==
    /\ x \in X /\ w2 \in [Askers -> AskerStates]
    /\ \A b \in Askers : b # x.a => w2[b] = w[b]
    /\ w2[x.a].done = w[x.a].done /\ w2[x.a].accepted = w[x.a].accepted
    /\ w2[x.a].cancelled = ~w[x.a].done /\ w2[x.a].again = w[x.a].again
    /\ w2[x.a].id = w[x.a].id /\ held2 \in [1..n -> SUBSET Nat]
    /\ \A k \in 1..n : held2[k] = held[k] \ {x.id}

LEMMA ViewCancel ==
  ASSUME NEW n, NEW hd, NEW held, NEW X, NEW N, NEW box, NEW w, NEW x, NEW w2, NEW held2,
         Sound(n, hd, held, X, N, box, w, {}), CancelStep(n, held, X, w, x, w2, held2)
  PROVE  Sound(n, hd, held2, X \ {x}, N, box, w2, {})
<1> USE DEF CancelStep
<1> DEFINE X2 == X \ {x}
<1>0. \A z \in X2 : z \in X /\ z # x
  OBVIOUS
<1>0a. \A z \in X : z # x => z \in X2
  OBVIOUS
<1>0b. X2 \subseteq X
  OBVIOUS
<1> HIDE DEF X2
<1>1. Shape(n, hd, held, X, N, box, w)
  BY DEF Sound
<1>2. \A z \in X : z # x => z.id # x.id
  BY DEF Sound, Numbered
<1>8. Shape(n, hd, held2, X2, N, box, w2)
  BY <1>0b, <1>1 DEF Shape
<1>9. Listed(n, hd)
  BY DEF Sound
<1>10. Numbered(n, X2, N)
  BY <1>0 DEF Sound, Numbered
<1>11. Routed(n, held2, X2)
  <2> SUFFICES ASSUME NEW k \in 1..n, NEW id \in held2[k] PROVE \E z \in X2 : z.id = id /\ z.pos = k
    BY DEF Routed
  <2>1. id \in held[k] /\ id # x.id
    OBVIOUS
  <2>2. PICK z \in X : z.id = id /\ z.pos = k
    BY <2>1 DEF Sound, Routed
  <2>3. z \in X2
    BY <1>0a, <2>1, <2>2
  <2> QED BY <2>2, <2>3
<1>12. Delivered(n, hd, held2, box)
  <2>1. \A k \in 1..n : held2[k] \subseteq held[k]
    OBVIOUS
  <2> QED BY <2>1 DEF Sound, Delivered
<1>13. Known(n, hd, held2, X2, N, box)
  <2> SUFFICES ASSUME NEW k \in 1..n, NEW id \in box[hd[k]]
               PROVE  id < N /\ \A z \in X2 : z.id = id => id \in held2[k]
    BY DEF Known
  <2>1. id < N /\ \A z \in X : z.id = id => id \in held[k]
    BY DEF Sound, Known
  <2>2. ASSUME NEW z \in X2, z.id = id PROVE id \in held2[k]
    <3>1. z \in X /\ z.id # x.id
      BY <1>0, <1>2
    <3>2. id \in held[k] /\ id # x.id
      BY <2>1, <2>2, <3>1
    <3> QED BY <3>2
  <2> QED BY <2>1, <2>2
<1>14. Passed(n, hd, X2)
  BY <1>0 DEF Sound, Passed
<1>15. OnTheWay(n, held2, X2, {})
  BY DEF OnTheWay
<1>16. InHands(n, held2, X2, w2, {})
  <2> SUFFICES ASSUME NEW a \in Askers, ~w2[a].done, ~w2[a].cancelled
               PROVE  \E z \in X2 : /\ z.a = a /\ z.id = w2[a].id
                                    /\ z.id \in {} \/ \E k \in 1..n : z.id \in held2[k]
    BY DEF InHands
  <2>0. a # x.a
    OBVIOUS
  <2>1. w2[a] = w[a]
    BY <2>0
  <2>2. PICK z \in X : /\ z.a = a /\ z.id = w[a].id
                       /\ z.id \in {} \/ \E k \in 1..n : z.id \in held[k]
    BY <2>1 DEF Sound, InHands
  <2>3. z # x /\ z \in X2 /\ z.id # x.id
    BY <1>0a, <1>2, <2>0, <2>2
  <2>4. PICK k \in 1..n : z.id \in held[k]
    BY <2>2
  <2>5. z.id \in held2[k]
    BY <2>3, <2>4
  <2> QED BY <2>1, <2>2, <2>3, <2>5
<1>17. Own(X2, w2)
  <2> SUFFICES ASSUME NEW a \in Askers
               PROVE  /\ w2[a].accepted => w2[a].done
                      /\ w2[a].cancelled /\ w2[a].accepted => w2[a].again
                      /\ ~w2[a].again => \A z \in X2 : z.a = a => z.id = w2[a].id /\ ~w2[a].cancelled
    BY DEF Own
  <2>1. /\ w[a].accepted => w[a].done
        /\ w[a].cancelled /\ w[a].accepted => w[a].again
        /\ ~w[a].again => \A z \in X : z.a = a => z.id = w[a].id /\ ~w[a].cancelled
    BY Zenon DEF Sound, Own
  <2>2. CASE a # x.a
    <3>1. w2[a] = w[a]
      BY <2>2
    <3> QED BY <1>0, <2>1, <3>1, Zenon
  <2>3. CASE a = x.a
    <3>1. w2[a].done = w[a].done /\ w2[a].accepted = w[a].accepted /\ w2[a].cancelled = ~w[a].done
          /\ w2[a].again = w[a].again /\ w2[a].id = w[a].id
      BY <2>3
    <3>2. ASSUME ~w[a].again, NEW z \in X2, z.a = a PROVE FALSE
      <4>1. z \in X /\ z # x
        BY <1>0
      <4>2. z.id = w[a].id /\ x.id = w[a].id
        BY <2>1, <2>3, <3>2, <4>1, Zenon
      <4> QED BY <1>2, <4>1, <4>2, Zenon
    <3> QED BY <2>1, <3>1, <3>2, Zenon
  <2> QED BY <2>2, <2>3
<1>18. Sound(n, hd, held2, X2, N, box, w2, {})
  BY <1>8, <1>9, <1>10, <1>11, <1>12, <1>13, <1>14, <1>15, <1>16, <1>17 DEF Sound
<1> QED BY <1>18 DEF X2

(* One asker changes, and has no item that would matter *)
AskerStep(X, w, a, w2) ==
    /\ a \in Askers /\ w2 \in [Askers -> AskerStates]
    /\ \A b \in Askers : b # a => w2[b] = w[b]
    /\ w2[a].accepted => w2[a].done
    /\ w2[a].cancelled => ~w2[a].accepted \/ w2[a].again
    /\ \/ /\ w2[a].done = w[a].done /\ w2[a].cancelled = w[a].cancelled
          /\ w2[a].again = w[a].again /\ w2[a].id = w[a].id
       \/ /\ w2[a].done \/ w2[a].cancelled
          /\ \A x \in X : x.a # a

LEMMA ViewAsker ==
  ASSUME NEW n, NEW hd, NEW held, NEW X, NEW N, NEW box, NEW w, NEW a, NEW w2,
         Sound(n, hd, held, X, N, box, w, {}), AskerStep(X, w, a, w2)
  PROVE  Sound(n, hd, held, X, N, box, w2, {})
<1> USE DEF AskerStep
<1>1. Shape(n, hd, held, X, N, box, w)
  BY DEF Sound
<1>2. Shape(n, hd, held, X, N, box, w2)
  BY <1>1 DEF Shape
<1>3. /\ Listed(n, hd) /\ Numbered(n, X, N) /\ Routed(n, held, X) /\ Delivered(n, hd, held, box)
      /\ Known(n, hd, held, X, N, box) /\ Passed(n, hd, X) /\ OnTheWay(n, held, X, {})
  BY DEF Sound
<1>4. InHands(n, held, X, w2, {})
  <2> SUFFICES ASSUME NEW b \in Askers, ~w2[b].done, ~w2[b].cancelled
               PROVE  \E z \in X : /\ z.a = b /\ z.id = w2[b].id
                                   /\ z.id \in {} \/ \E k \in 1..n : z.id \in held[k]
    BY DEF InHands
  <2>1. ~w[b].done /\ ~w[b].cancelled /\ w2[b].id = w[b].id
    <3>1. CASE b = a
      BY <3>1
    <3>2. CASE b # a
      <4>1. w2[b] = w[b]
        BY <3>2
      <4> QED BY <4>1
    <3> QED BY <3>1, <3>2
  <2>2. PICK z \in X : /\ z.a = b /\ z.id = w[b].id
                       /\ z.id \in {} \/ \E k \in 1..n : z.id \in held[k]
    BY <2>1 DEF Sound, InHands
  <2> QED BY <2>1, <2>2
<1>5. Own(X, w2)
  <2> SUFFICES ASSUME NEW b \in Askers
               PROVE  /\ w2[b].accepted => w2[b].done
                      /\ w2[b].cancelled /\ w2[b].accepted => w2[b].again
                      /\ ~w2[b].again => \A z \in X : z.a = b => z.id = w2[b].id /\ ~w2[b].cancelled
    BY DEF Own
  <2>1. /\ w[b].accepted => w[b].done
        /\ w[b].cancelled /\ w[b].accepted => w[b].again
        /\ ~w[b].again => \A z \in X : z.a = b => z.id = w[b].id /\ ~w[b].cancelled
    BY Zenon DEF Sound, Own
  <2>2. CASE b # a
    <3>1. w2[b] = w[b]
      BY <2>2
    <3> QED BY <2>1, <3>1, Zenon
  <2>3. CASE b = a
    BY <2>1, <2>3, Zenon
  <2> QED BY <2>2, <2>3
<1> QED BY <1>2, <1>3, <1>4, <1>5 DEF Sound

(* What a handler that is not listed was given does not matter *)
BoxStep(n, hd, box, box2) ==
    /\ box2 \in [Handlers -> SUBSET Nat]
    /\ \A k \in 1..n : box2[hd[k]] = box[hd[k]]

LEMMA ViewBox ==
  ASSUME NEW n, NEW hd, NEW held, NEW X, NEW N, NEW box, NEW w, NEW O, NEW box2,
         Sound(n, hd, held, X, N, box, w, O), BoxStep(n, hd, box, box2)
  PROVE  Sound(n, hd, held, X, N, box2, w, O)
<1> USE DEF BoxStep
<1>1. Shape(n, hd, held, X, N, box2, w)
  BY DEF Sound, Shape
<1>2. Delivered(n, hd, held, box2)
  BY DEF Sound, Delivered
<1>3. Known(n, hd, held, X, N, box2)
  BY DEF Sound, Known
<1> QED BY <1>1, <1>2, <1>3 DEF Sound

(* When the last handler has left, no question is open: g_event goes *)
LEMMA ViewReset ==
  ASSUME NEW hd, NEW held, NEW X, NEW N, NEW box, NEW w,
         Sound(0, hd, held, X, N, box, w, {})
  PROVE  Sound(0, hd, held, {}, 0, box, w, {})
<1>1. 1..0 = {}
  OBVIOUS
<1>2. Shape(0, hd, held, {}, 0, box, w)
  BY DEF Sound, Shape
<1>3. Listed(0, hd) /\ Numbered(0, {}, 0) /\ Passed(0, hd, {}) /\ OnTheWay(0, held, {}, {})
  BY <1>1 DEF Listed, Numbered, Passed, OnTheWay
<1>4. Routed(0, held, {}) /\ Delivered(0, hd, held, box) /\ Known(0, hd, held, {}, 0, box)
  BY <1>1 DEF Routed, Delivered, Known
<1>5. InHands(0, held, {}, w, {})
  BY <1>1 DEF InHands, Sound
<1>6. Own({}, w)
  BY DEF Own, Sound
<1> QED BY <1>2, <1>3, <1>4, <1>5, <1>6 DEF Sound

------------------------------------------------------------------------------
(* The fields of a state                                                   *)

HandlerItems == [h : Handlers, ids : Seq(Nat)]

LEMMA StateFacts ==
  ASSUME NEW s \in States
  PROVE  /\ s.g.on \in BOOLEAN /\ s.g.handlers \in Seq(HandlerItems) /\ s.g.askers \in Seq(Items)
         /\ s.g.next_id \in Nat
         /\ s.hs \in [Handlers -> HandlerStates] /\ s.as \in [Askers -> AskerStates]
         /\ s.g \in Globals
  BY DEF States, Globals, HandlerItems, Items

(* updates, one field at a time *)
IdLists == Seq(Nat)

SetG(s, x) == [s EXCEPT !.g = x]
SetH(s, H) == [s EXCEPT !.g.handlers = H]
SetA(s, A) == [s EXCEPT !.g.askers = A]
SetN(s, N) == [s EXCEPT !.g.next_id = N]
SetHs(s, hh) == [s EXCEPT !.hs = hh]
SetAs(s, w) == [s EXCEPT !.as = w]
SetIds(H, p, ids) == [H EXCEPT ![p].ids = ids]
SetTried(A, i, T) == [A EXCEPT ![i].tried = T]
SetPos(A, i, p) == [A EXCEPT ![i].pos = p]
SetInbox(hh, h, b) == [hh EXCEPT ![h].inbox = b]
SetActive(hh, h, b) == [hh EXCEPT ![h].activeIds = b]

LEMMA Setters ==
  ASSUME NEW s \in States
  PROVE  /\ \A x \in Globals :
               SetG(s, x) \in States /\ SetG(s, x).g = x /\ SetG(s, x).hs = s.hs /\ SetG(s, x).as = s.as
         /\ \A H \in Seq(HandlerItems) :
               /\ SetH(s, H) \in States /\ SetH(s, H).g.handlers = H /\ SetH(s, H).g.askers = s.g.askers
               /\ SetH(s, H).g.on = s.g.on /\ SetH(s, H).g.next_id = s.g.next_id
               /\ SetH(s, H).hs = s.hs /\ SetH(s, H).as = s.as
         /\ \A A \in Seq(Items) :
               /\ SetA(s, A) \in States /\ SetA(s, A).g.handlers = s.g.handlers /\ SetA(s, A).g.askers = A
               /\ SetA(s, A).g.on = s.g.on /\ SetA(s, A).g.next_id = s.g.next_id
               /\ SetA(s, A).hs = s.hs /\ SetA(s, A).as = s.as
         /\ \A N \in Nat :
               /\ SetN(s, N) \in States /\ SetN(s, N).g.handlers = s.g.handlers
               /\ SetN(s, N).g.askers = s.g.askers
               /\ SetN(s, N).g.on = s.g.on /\ SetN(s, N).g.next_id = N
               /\ SetN(s, N).hs = s.hs /\ SetN(s, N).as = s.as
         /\ \A hh \in [Handlers -> HandlerStates] :
               SetHs(s, hh) \in States /\ SetHs(s, hh).g = s.g /\ SetHs(s, hh).hs = hh /\ SetHs(s, hh).as = s.as
         /\ \A w \in [Askers -> AskerStates] :
               SetAs(s, w) \in States /\ SetAs(s, w).g = s.g /\ SetAs(s, w).hs = s.hs /\ SetAs(s, w).as = w
<1> DEFINE U == [g : [on : BOOLEAN, handlers : Seq(HandlerItems), askers : Seq(Items), next_id : Nat],
                 hs : [Handlers -> HandlerStates], as : [Askers -> AskerStates]]
<1>1. States = U /\ s \in U
  BY DEF States, Globals, HandlerItems, Items
<1>2. ASSUME NEW x \in Globals
      PROVE  SetG(s, x) \in States /\ SetG(s, x).g = x /\ SetG(s, x).hs = s.hs /\ SetG(s, x).as = s.as
  BY DEF SetG, States
<1>3. ASSUME NEW H \in Seq(HandlerItems)
      PROVE  /\ SetH(s, H) \in States
             /\ SetH(s, H).g.handlers = H /\ SetH(s, H).g.askers = s.g.askers /\ SetH(s, H).g.on = s.g.on /\ SetH(s, H).g.next_id = s.g.next_id
             /\ SetH(s, H).hs = s.hs /\ SetH(s, H).as = s.as
  <2>1. SetH(s, H) \in U
    BY <1>1 DEF SetH
  <2>2. SetH(s, H).g.handlers = H /\ SetH(s, H).g.askers = s.g.askers /\ SetH(s, H).g.on = s.g.on /\ SetH(s, H).g.next_id = s.g.next_id
        /\ SetH(s, H).hs = s.hs /\ SetH(s, H).as = s.as
    BY <1>1 DEF SetH
  <2> QED BY <1>1, <2>1, <2>2
<1>4. ASSUME NEW A \in Seq(Items)
      PROVE  /\ SetA(s, A) \in States
             /\ SetA(s, A).g.handlers = s.g.handlers /\ SetA(s, A).g.askers = A /\ SetA(s, A).g.on = s.g.on /\ SetA(s, A).g.next_id = s.g.next_id
             /\ SetA(s, A).hs = s.hs /\ SetA(s, A).as = s.as
  <2>1. SetA(s, A) \in U
    BY <1>1 DEF SetA
  <2>2. SetA(s, A).g.handlers = s.g.handlers /\ SetA(s, A).g.askers = A /\ SetA(s, A).g.on = s.g.on /\ SetA(s, A).g.next_id = s.g.next_id
        /\ SetA(s, A).hs = s.hs /\ SetA(s, A).as = s.as
    BY <1>1 DEF SetA
  <2> QED BY <1>1, <2>1, <2>2
<1>5. ASSUME NEW N \in Nat
      PROVE  /\ SetN(s, N) \in States
             /\ SetN(s, N).g.handlers = s.g.handlers /\ SetN(s, N).g.askers = s.g.askers /\ SetN(s, N).g.on = s.g.on /\ SetN(s, N).g.next_id = N
             /\ SetN(s, N).hs = s.hs /\ SetN(s, N).as = s.as
  <2>1. SetN(s, N) \in U
    BY <1>1 DEF SetN
  <2>2. SetN(s, N).g.handlers = s.g.handlers /\ SetN(s, N).g.askers = s.g.askers /\ SetN(s, N).g.on = s.g.on /\ SetN(s, N).g.next_id = N
        /\ SetN(s, N).hs = s.hs /\ SetN(s, N).as = s.as
    BY <1>1 DEF SetN
  <2> QED BY <1>1, <2>1, <2>2
<1>6. ASSUME NEW hh \in [Handlers -> HandlerStates]
      PROVE  SetHs(s, hh) \in States /\ SetHs(s, hh).g = s.g /\ SetHs(s, hh).hs = hh /\ SetHs(s, hh).as = s.as
  BY DEF SetHs, States
<1>7. ASSUME NEW w \in [Askers -> AskerStates]
      PROVE  SetAs(s, w) \in States /\ SetAs(s, w).g = s.g /\ SetAs(s, w).hs = s.hs /\ SetAs(s, w).as = w
  BY DEF SetAs, States
<1> HIDE DEF U
<1> QED BY <1>2, <1>3, <1>4, <1>5, <1>6, <1>7

(* one element of a list, or one handler, is replaced *)
LEMMA IdsReplaced ==
  ASSUME NEW H \in Seq(HandlerItems), NEW p \in 1..Len(H), NEW ids \in IdLists
  PROVE  /\ SetIds(H, p, ids) \in Seq(HandlerItems)
         /\ Len(SetIds(H, p, ids)) = Len(H)
         /\ \A k \in 1..Len(H) : /\ SetIds(H, p, ids)[k].h = H[k].h
                                 /\ SetIds(H, p, ids)[k].ids = IF k = p THEN ids ELSE H[k].ids
<1> DEFINE r == [H[p] EXCEPT !.ids = ids]
           L == [H EXCEPT ![p] = r]
<1>1. H[p] \in HandlerItems
  OBVIOUS
<1>2. r \in HandlerItems /\ r.h = H[p].h /\ r.ids = ids
  BY <1>1 DEF HandlerItems, IdLists
<1> HIDE DEF r
<1>3. L \in Seq(HandlerItems) /\ Len(L) = Len(H)
  BY <1>2
<1>4. \A k \in 1..Len(H) : L[k] = IF k = p THEN r ELSE H[k]
  BY <1>2
<1>5. SetIds(H, p, ids) = L
  BY DEF r, SetIds
<1> HIDE DEF L
<1>6. \A k \in 1..Len(H) : L[k].h = H[k].h /\ L[k].ids = IF k = p THEN ids ELSE H[k].ids
  BY <1>2, <1>4
<1> QED BY <1>3, <1>5, <1>6

LEMMA TriedReplaced ==
  ASSUME NEW A \in Seq(Items), NEW i \in 1..Len(A), NEW T \in SUBSET Handlers
  PROVE  /\ SetTried(A, i, T) \in Seq(Items)
         /\ Len(SetTried(A, i, T)) = Len(A)
         /\ \A j \in 1..Len(A) : j # i => SetTried(A, i, T)[j] = A[j]
         /\ SetTried(A, i, T)[i].a = A[i].a
         /\ SetTried(A, i, T)[i].id = A[i].id
         /\ SetTried(A, i, T)[i].pos = A[i].pos
         /\ SetTried(A, i, T)[i].tried = T
<1> DEFINE r == [A[i] EXCEPT !.tried = T]
           L == [A EXCEPT ![i] = r]
<1>1. A[i] \in Items
  OBVIOUS
<1>2. r \in Items /\ r.a = A[i].a /\ r.id = A[i].id /\ r.pos = A[i].pos /\ r.tried = T
  BY <1>1 DEF Items
<1> HIDE DEF r
<1>3. L \in Seq(Items) /\ Len(L) = Len(A)
  BY <1>2
<1>4. \A j \in 1..Len(A) : L[j] = IF j = i THEN r ELSE A[j]
  BY <1>2
<1>5. SetTried(A, i, T) = L
  BY DEF r, SetTried
<1> HIDE DEF L
<1> QED BY <1>2, <1>3, <1>4, <1>5

LEMMA PosReplaced ==
  ASSUME NEW A \in Seq(Items), NEW i \in 1..Len(A), NEW p \in Nat
  PROVE  /\ SetPos(A, i, p) \in Seq(Items)
         /\ Len(SetPos(A, i, p)) = Len(A)
         /\ \A j \in 1..Len(A) : j # i => SetPos(A, i, p)[j] = A[j]
         /\ SetPos(A, i, p)[i].a = A[i].a
         /\ SetPos(A, i, p)[i].id = A[i].id
         /\ SetPos(A, i, p)[i].pos = p
         /\ SetPos(A, i, p)[i].tried = A[i].tried
<1> DEFINE r == [A[i] EXCEPT !.pos = p]
           L == [A EXCEPT ![i] = r]
<1>1. A[i] \in Items
  OBVIOUS
<1>2. r \in Items /\ r.a = A[i].a /\ r.id = A[i].id /\ r.pos = p /\ r.tried = A[i].tried
  BY <1>1 DEF Items
<1> HIDE DEF r
<1>3. L \in Seq(Items) /\ Len(L) = Len(A)
  BY <1>2
<1>4. \A j \in 1..Len(A) : L[j] = IF j = i THEN r ELSE A[j]
  BY <1>2
<1>5. SetPos(A, i, p) = L
  BY DEF r, SetPos
<1> HIDE DEF L
<1> QED BY <1>2, <1>3, <1>4, <1>5

LEMMA InboxReplaced ==
  ASSUME NEW hh \in [Handlers -> HandlerStates], NEW h \in Handlers, NEW b \in IdLists
  PROVE  /\ SetInbox(hh, h, b) \in [Handlers -> HandlerStates]
         /\ \A m \in Handlers : m # h => SetInbox(hh, h, b)[m] = hh[m]
         /\ SetInbox(hh, h, b)[h].inbox = b
         /\ SetInbox(hh, h, b)[h].activeIds = hh[h].activeIds
         /\ SetInbox(hh, h, b)[h].phase = hh[h].phase
<1> DEFINE r == [hh[h] EXCEPT !.inbox = b]
           L == [hh EXCEPT ![h] = r]
<1>1. hh[h] \in HandlerStates
  OBVIOUS
<1>2. r \in HandlerStates /\ r.inbox = b /\ r.activeIds = hh[h].activeIds /\ r.phase = hh[h].phase
  BY <1>1 DEF HandlerStates, IdLists
<1> HIDE DEF r
<1>3. L \in [Handlers -> HandlerStates] /\ \A m \in Handlers : L[m] = IF m = h THEN r ELSE hh[m]
  BY <1>2
<1>4. SetInbox(hh, h, b) = L
  BY DEF r, SetInbox
<1> HIDE DEF L
<1> QED BY <1>2, <1>3, <1>4

LEMMA ActiveReplaced ==
  ASSUME NEW hh \in [Handlers -> HandlerStates], NEW h \in Handlers, NEW b \in IdLists
  PROVE  /\ SetActive(hh, h, b) \in [Handlers -> HandlerStates]
         /\ \A m \in Handlers : m # h => SetActive(hh, h, b)[m] = hh[m]
         /\ SetActive(hh, h, b)[h].inbox = hh[h].inbox
         /\ SetActive(hh, h, b)[h].activeIds = b
         /\ SetActive(hh, h, b)[h].phase = hh[h].phase
<1> DEFINE r == [hh[h] EXCEPT !.activeIds = b]
           L == [hh EXCEPT ![h] = r]
<1>1. hh[h] \in HandlerStates
  OBVIOUS
<1>2. r \in HandlerStates /\ r.inbox = hh[h].inbox /\ r.activeIds = b /\ r.phase = hh[h].phase
  BY <1>1 DEF HandlerStates, IdLists
<1> HIDE DEF r
<1>3. L \in [Handlers -> HandlerStates] /\ \A m \in Handlers : L[m] = IF m = h THEN r ELSE hh[m]
  BY <1>2
<1>4. SetActive(hh, h, b) = L
  BY DEF r, SetActive
<1> HIDE DEF L
<1> QED BY <1>2, <1>3, <1>4

(* an equation that is not to be used for rewriting *)
Same(x, y) == x = y

(* what ask() does for item i, which leads to position p *)
Asked(s, t, i, p) ==
    LET id == s.g.askers[i].id
        h == s.g.handlers[p].h
    IN /\ t \in States /\ t.as = s.as /\ t.g.on = s.g.on /\ t.g.next_id = s.g.next_id
       /\ Len(t.g.handlers) = Len(s.g.handlers)
       /\ \A k \in 1..Len(s.g.handlers) :
             /\ t.g.handlers[k].h = s.g.handlers[k].h
             /\ t.g.handlers[k].ids = IF k = p THEN Append(s.g.handlers[p].ids, id)
                                      ELSE s.g.handlers[k].ids
       /\ Len(t.g.askers) = Len(s.g.askers)
       /\ \A j \in 1..Len(s.g.askers) : j # i => t.g.askers[j] = s.g.askers[j]
       /\ t.g.askers[i].a = s.g.askers[i].a /\ t.g.askers[i].id = id
       /\ t.g.askers[i].pos = p /\ t.g.askers[i].tried = s.g.askers[i].tried \cup {h}
       /\ \A m \in Handlers : m # h => t.hs[m] = s.hs[m]
       /\ t.hs[h].inbox = Append(s.hs[h].inbox, id)
       /\ t.hs[h].activeIds = s.hs[h].activeIds
       /\ t.hs[h].phase = s.hs[h].phase

LEMMA AskFacts ==
  ASSUME NEW s \in States, NEW i \in 1..Len(s.g.askers), NEW p \in 1..Len(s.g.handlers),
         Same(p, s.g.askers[i].pos), NEW id, Same(id, s.g.askers[i].id),
         NEW h, Same(h, s.g.handlers[p].h)
  PROVE  Asked(s, ask(s, i), i, p)
<1> DEFINE ids == Append(s.g.handlers[p].ids, id)
           T == s.g.askers[i].tried \cup {h}
           b == Append(s.hs[h].inbox, id)
           H == SetIds(s.g.handlers, p, ids)
           A == SetTried(s.g.askers, i, T)
           hh == SetInbox(s.hs, h, b)
           t == SetHs(SetA(SetH(s, H), A), hh)
<1>1. ask(s, i) = t
  BY ZenonT(40) DEF Same, ask, SetHs, SetA, SetH, SetIds, SetTried, SetInbox
<1>2. s.g.handlers \in Seq(HandlerItems) /\ s.g.askers \in Seq(Items) /\ s.hs \in [Handlers -> HandlerStates]
  BY StateFacts
<1>3. s.g.askers[i] \in Items /\ s.g.handlers[p] \in HandlerItems
  BY <1>2
<1>4. id \in Nat /\ h \in Handlers /\ s.g.askers[i].tried \subseteq Handlers /\ s.g.handlers[p].ids \in Seq(Nat)
  BY <1>3 DEF Same, Items, HandlerItems
<1>5. s.hs[h] \in HandlerStates
  BY <1>2, <1>4
<1>6. s.hs[h].inbox \in Seq(Nat)
  BY <1>5 DEF HandlerStates
<1>7. ids \in Seq(Nat) /\ T \in SUBSET Handlers /\ b \in Seq(Nat)
  BY <1>4, <1>6, AppendElements
<1> HIDE DEF ids, T, b
<1>9. /\ H \in Seq(HandlerItems) /\ Len(H) = Len(s.g.handlers)
      /\ \A k \in 1..Len(s.g.handlers) : /\ H[k].h = s.g.handlers[k].h
                                         /\ H[k].ids = IF k = p THEN ids ELSE s.g.handlers[k].ids
  <2>1. s.g.handlers \in Seq(HandlerItems)
    BY <1>2
  <2>2. ids \in IdLists
    BY <1>7 DEF IdLists
  <2> QED BY <2>1, <2>2, IdsReplaced, SMTT(30)
<1>10. /\ A \in Seq(Items) /\ Len(A) = Len(s.g.askers)
       /\ \A j \in 1..Len(s.g.askers) : j # i => A[j] = s.g.askers[j]
       /\ A[i].a = s.g.askers[i].a /\ A[i].id = s.g.askers[i].id /\ A[i].pos = s.g.askers[i].pos
       /\ A[i].tried = T
  BY <1>2, <1>7, TriedReplaced
<1>11. /\ hh \in [Handlers -> HandlerStates]
       /\ \A m \in Handlers : m # h => hh[m] = s.hs[m]
       /\ hh[h].inbox = b /\ hh[h].activeIds = s.hs[h].activeIds /\ hh[h].phase = s.hs[h].phase
  <2>1. s.hs \in [Handlers -> HandlerStates]
    BY <1>2
  <2>2. b \in IdLists
    BY <1>7 DEF IdLists
  <2>3. h \in Handlers
    BY <1>4
  <2> QED BY <2>1, <2>2, <2>3, InboxReplaced
<1> HIDE DEF H, A, hh
<1>13. /\ t \in States /\ t.g.handlers = H /\ t.g.askers = A /\ t.hs = hh /\ t.as = s.as
       /\ t.g.on = s.g.on /\ t.g.next_id = s.g.next_id
  <2> DEFINE u == SetH(s, H)
             v == SetA(u, A)
  <2>1. H \in Seq(HandlerItems)
    BY <1>9
  <2>2. A \in Seq(Items)
    BY <1>10
  <2>3. hh \in [Handlers -> HandlerStates]
    BY <1>11
  <2>4. /\ u \in States /\ u.g.handlers = H /\ u.hs = s.hs /\ u.as = s.as
        /\ u.g.on = s.g.on /\ u.g.next_id = s.g.next_id
    BY <2>1, Setters
  <2> HIDE DEF u
  <2>5. /\ v \in States /\ v.g.handlers = u.g.handlers /\ v.g.askers = A /\ v.hs = u.hs /\ v.as = u.as
        /\ v.g.on = u.g.on /\ v.g.next_id = u.g.next_id
    BY <2>2, <2>4, Setters
  <2> HIDE DEF v
  <2>6. t = SetHs(v, hh)
    BY DEF u, v
  <2>7. SetHs(v, hh) \in States /\ SetHs(v, hh).g = v.g /\ SetHs(v, hh).hs = hh /\ SetHs(v, hh).as = v.as
    BY <2>3, <2>5, Setters
  <2> HIDE DEF t
  <2> QED BY <2>4, <2>5, <2>6, <2>7
<1> HIDE DEF t
<1>14. Asked(s, t, i, p)
  <2>1. id = s.g.askers[i].id /\ h = s.g.handlers[p].h /\ p = s.g.askers[i].pos
    BY DEF Same
  <2> QED BY <1>9, <1>10, <1>11, <1>13, <2>1 DEF ids, T, b, Asked
<1> QED BY <1>1, <1>14, Zenon

LEMMA ViewFacts ==
  ASSUME NEW s \in States
  PROVE  /\ Len(s.g.handlers) \in Nat
         /\ Hd(s) \in [1..Len(s.g.handlers) -> Handlers]
         /\ Held(s) \in [1..Len(s.g.handlers) -> SUBSET Nat]
         /\ \A k \in 1..Len(s.g.handlers) : /\ Hd(s)[k] = s.g.handlers[k].h
                                            /\ Held(s)[k] = ToSet(s.g.handlers[k].ids)
                                            /\ s.g.handlers[k].h \in Handlers
                                            /\ s.g.handlers[k].ids \in Seq(Nat)
         /\ Box(s) \in [Handlers -> SUBSET Nat]
         /\ \A h \in Handlers : /\ Box(s)[h] = ToSet(s.hs[h].inbox) \cup ToSet(s.hs[h].activeIds)
                                /\ s.hs[h].inbox \in Seq(Nat) /\ s.hs[h].activeIds \in Seq(Nat)
         /\ ToSet(s.g.askers) \subseteq Items /\ Len(s.g.askers) \in Nat
         /\ \A i \in 1..Len(s.g.askers) : s.g.askers[i] \in Items /\ s.g.askers[i] \in ToSet(s.g.askers)
         /\ \A x \in ToSet(s.g.askers) : \E i \in 1..Len(s.g.askers) : s.g.askers[i] = x
<1>1. s.g.handlers \in Seq(HandlerItems) /\ s.g.askers \in Seq(Items) /\ s.hs \in [Handlers -> HandlerStates]
  BY StateFacts
<1>2. \A q \in Seq(Nat) : ToSet(q) \subseteq Nat
  BY DEF ToSet
<1>3. ASSUME NEW k \in 1..Len(s.g.handlers)
      PROVE  s.g.handlers[k].h \in Handlers /\ s.g.handlers[k].ids \in Seq(Nat)
  <2>1. s.g.handlers[k] \in HandlerItems
    BY <1>1
  <2> QED BY <2>1 DEF HandlerItems
<1>4. ASSUME NEW h \in Handlers PROVE s.hs[h].inbox \in Seq(Nat) /\ s.hs[h].activeIds \in Seq(Nat)
  <2>1. s.hs[h] \in HandlerStates
    BY <1>1
  <2> QED BY <2>1 DEF HandlerStates
<1>5. Len(s.g.handlers) \in Nat /\ Len(s.g.askers) \in Nat /\ DOMAIN s.g.askers = 1..Len(s.g.askers)
  BY <1>1
<1>6. \A i \in 1..Len(s.g.askers) : s.g.askers[i] \in Items
  BY <1>1
<1>7. /\ \A i \in 1..Len(s.g.askers) : s.g.askers[i] \in ToSet(s.g.askers)
      /\ \A x \in ToSet(s.g.askers) : \E i \in 1..Len(s.g.askers) : s.g.askers[i] = x
  BY <1>5 DEF ToSet
<1>8. ToSet(s.g.askers) \subseteq Items
  BY <1>6, <1>7
<1>9. Hd(s) \in [1..Len(s.g.handlers) -> Handlers] /\ \A k \in 1..Len(s.g.handlers) : Hd(s)[k] = s.g.handlers[k].h
  BY <1>3 DEF Hd
<1>10. /\ Held(s) \in [1..Len(s.g.handlers) -> SUBSET Nat]
       /\ \A k \in 1..Len(s.g.handlers) : Held(s)[k] = ToSet(s.g.handlers[k].ids)
  <2>1. \A k \in 1..Len(s.g.handlers) : ToSet(s.g.handlers[k].ids) \subseteq Nat
    BY <1>2, <1>3
  <2> QED BY <2>1 DEF Held
<1>11. /\ Box(s) \in [Handlers -> SUBSET Nat]
       /\ \A h \in Handlers : Box(s)[h] = ToSet(s.hs[h].inbox) \cup ToSet(s.hs[h].activeIds)
  <2>1. \A h \in Handlers : ToSet(s.hs[h].inbox) \cup ToSet(s.hs[h].activeIds) \subseteq Nat
    BY <1>2, <1>4
  <2> QED BY <2>1 DEF Box
<1> QED BY <1>3, <1>4, <1>5, <1>6, <1>7, <1>8, <1>9, <1>10, <1>11

(* A list with one element replaced *)
Replaced(s, t, i) == Len(t) = Len(s) /\ \A j \in 1..Len(s) : j # i => t[j] = s[j]

LEMMA ReplacedElements ==
  ASSUME NEW T, NEW s \in Seq(T), NEW t \in Seq(T), NEW i \in 1..Len(s), Replaced(s, t, i), Distinct(s)
  PROVE  ToSet(t) = (ToSet(s) \ {s[i]}) \cup {t[i]}
<1> USE DEF Replaced
<1>1. DOMAIN t = 1..Len(s) /\ DOMAIN s = 1..Len(s)
  OBVIOUS
<1>2. ASSUME NEW y \in ToSet(t) PROVE y \in (ToSet(s) \ {s[i]}) \cup {t[i]}
  <2>1. PICK j \in 1..Len(s) : t[j] = y
    BY <1>1 DEF ToSet
  <2>2. CASE j = i
    BY <2>1, <2>2
  <2>3. CASE j # i
    <3>1. y = s[j] /\ s[j] # s[i]
      BY <2>1, <2>3 DEF Distinct
    <3> QED BY <3>1, <1>1 DEF ToSet
  <2> QED BY <2>2, <2>3
<1>3. t[i] \in ToSet(t)
  BY <1>1 DEF ToSet
<1>4. ASSUME NEW y \in ToSet(s), y # s[i] PROVE y \in ToSet(t)
  <2>1. PICK j \in 1..Len(s) : s[j] = y
    BY <1>1 DEF ToSet
  <2>2. j # i /\ t[j] = y
    BY <1>4, <2>1
  <2> QED BY <2>2, <1>1 DEF ToSet
<1> QED BY <1>2, <1>3, <1>4

LEMMA OnceFacts ==
  ASSUME NEW s \in States, Once(s)
  PROVE  /\ Distinct(s.g.askers)
         /\ \A i \in 1..Len(s.g.askers) : \A x \in ToSet(s.g.askers) :
               x.id = s.g.askers[i].id => x = s.g.askers[i]
<1>1. \A i, j \in 1..Len(s.g.askers) : s.g.askers[i].id = s.g.askers[j].id => i = j
  BY DEF Once
<1>2. Distinct(s.g.askers)
  BY <1>1 DEF Distinct
<1>3. \A x \in ToSet(s.g.askers) : \E i \in 1..Len(s.g.askers) : s.g.askers[i] = x
  BY ViewFacts
<1> QED BY <1>1, <1>2, <1>3

(* what rejecting and asking leave alone: the handlers that are listed,    *)
(* and all of a handler that is not                                        *)
Frame(s, t) ==
    /\ t.g.on = s.g.on /\ t.g.next_id = s.g.next_id /\ Len(t.g.handlers) = Len(s.g.handlers)
    /\ \A k \in 1..Len(s.g.handlers) : t.g.handlers[k].h = s.g.handlers[k].h
    /\ \A h \in Handlers : t.hs[h].phase = s.hs[h].phase
    /\ \A h \in Handlers : (\A k \in 1..Len(s.g.handlers) : s.g.handlers[k].h # h) => t.hs[h] = s.hs[h]

(* u is s, but item i leads to position p *)
Moved(s, u, i, p) ==
    /\ u.g.on = s.g.on /\ u.g.next_id = s.g.next_id /\ u.g.handlers = s.g.handlers
    /\ u.hs = s.hs /\ u.as = s.as /\ Len(u.g.askers) = Len(s.g.askers)
    /\ \A j \in 1..Len(s.g.askers) : j # i => u.g.askers[j] = s.g.askers[j]
    /\ u.g.askers[i].a = s.g.askers[i].a /\ u.g.askers[i].id = s.g.askers[i].id
    /\ u.g.askers[i].tried = s.g.askers[i].tried /\ u.g.askers[i].pos = p

LEMMA MovedAsked ==
  ASSUME NEW s \in States, NEW u \in States, NEW i \in 1..Len(s.g.askers),
         NEW p \in 1..Len(s.g.handlers), Moved(s, u, i, p)
  PROVE  Asked(s, ask(u, i), i, p)
<1> DEFINE id == u.g.askers[i].id
           h == u.g.handlers[p].h
           t == ask(u, i)
<1>1. i \in 1..Len(u.g.askers) /\ p \in 1..Len(u.g.handlers)
  BY DEF Moved
<1>2. Same(p, u.g.askers[i].pos) /\ Same(id, u.g.askers[i].id) /\ Same(h, u.g.handlers[p].h)
  BY DEF Moved, Same
<1>3. id = s.g.askers[i].id /\ h = s.g.handlers[p].h
  BY DEF Moved
<1> HIDE DEF id, h
<1>4. Asked(u, t, i, p)
  BY <1>1, <1>2, AskFacts
<1> HIDE DEF t
<1>5. u.g.on = s.g.on /\ u.g.next_id = s.g.next_id /\ u.g.handlers = s.g.handlers
      /\ u.hs = s.hs /\ u.as = s.as /\ Len(u.g.askers) = Len(s.g.askers)
  BY DEF Moved
<1>6. /\ \A j \in 1..Len(s.g.askers) : j # i => u.g.askers[j] = s.g.askers[j]
      /\ u.g.askers[i].a = s.g.askers[i].a /\ u.g.askers[i].tried = s.g.askers[i].tried
      /\ u.g.askers[i].id = s.g.askers[i].id
  BY DEF Moved
<1>7. Asked(s, t, i, p)
  <2>1. \A j \in 1..Len(s.g.askers) : j # i => t.g.askers[j] = s.g.askers[j]
    <3>1. \A j \in 1..Len(u.g.askers) : j # i => t.g.askers[j] = u.g.askers[j]
      BY <1>4 DEF Asked
    <3> QED BY <3>1, <1>5, <1>6
  <2>2. t.g.askers[i].a = s.g.askers[i].a /\ t.g.askers[i].id = s.g.askers[i].id
        /\ t.g.askers[i].pos = p /\ t.g.askers[i].tried = s.g.askers[i].tried \cup {s.g.handlers[p].h}
    <3>1. t.g.askers[i].a = u.g.askers[i].a /\ t.g.askers[i].id = u.g.askers[i].id
        /\ t.g.askers[i].pos = p /\ t.g.askers[i].tried = u.g.askers[i].tried \cup {u.g.handlers[p].h}
      BY <1>4 DEF Asked
    <3> QED BY <3>1, <1>5, <1>6
  <2> QED BY <1>4, <1>5, <1>6, <2>1, <2>2, ZenonT(40) DEF Asked
<1> QED BY <1>7 DEF t

LEMMA GoodAsk ==
  ASSUME NEW s, NEW O, Good(s, O), NEW i \in 1..Len(s.g.askers), s.g.askers[i].id \in O,
         NEW p \in 1..Len(s.g.handlers),
         \A k \in 1..Len(s.g.handlers) : k < p => s.g.handlers[k].h \in s.g.askers[i].tried,
         NEW t, Asked(s, t, i, p)
  PROVE  Good(t, O \ {s.g.askers[i].id}) /\ Frame(s, t)
<1> DEFINE n == Len(s.g.handlers)
           x == s.g.askers[i]
           y == t.g.askers[i]
           h == s.g.handlers[p].h
           X == ToSet(s.g.askers)
           X2 == ToSet(t.g.askers)
<1>1. s \in States /\ Once(s)
      /\ Sound(n, Hd(s), Held(s), X, s.g.next_id, Box(s), s.as, O)
  BY DEF Good
<1>2. t \in States /\ t.as = s.as /\ t.g.on = s.g.on /\ t.g.next_id = s.g.next_id
      /\ Len(t.g.handlers) = n /\ Len(t.g.askers) = Len(s.g.askers)
  BY DEF Asked
<1>3. \A k \in 1..n : /\ t.g.handlers[k].h = s.g.handlers[k].h
                      /\ t.g.handlers[k].ids = IF k = p THEN Append(s.g.handlers[p].ids, x.id)
                                               ELSE s.g.handlers[k].ids
  BY DEF Asked
<1>4. /\ \A j \in 1..Len(s.g.askers) : j # i => t.g.askers[j] = s.g.askers[j]
      /\ y.a = x.a /\ y.id = x.id /\ y.pos = p /\ y.tried = x.tried \cup {h}
  BY DEF Asked
<1>5. /\ \A m \in Handlers : m # h => t.hs[m] = s.hs[m]
      /\ t.hs[h].inbox = Append(s.hs[h].inbox, x.id)
      /\ t.hs[h].activeIds = s.hs[h].activeIds
      /\ t.hs[h].phase = s.hs[h].phase
  BY DEF Asked
<1>6. /\ \A k \in 1..n : /\ Hd(s)[k] = s.g.handlers[k].h
                         /\ Held(s)[k] = ToSet(s.g.handlers[k].ids)
                         /\ s.g.handlers[k].h \in Handlers
                         /\ s.g.handlers[k].ids \in Seq(Nat)
      /\ Hd(s) \in [1..n -> Handlers]
  BY <1>1, ViewFacts
<1>7. /\ \A m \in Handlers : /\ Box(s)[m] = ToSet(s.hs[m].inbox) \cup ToSet(s.hs[m].activeIds)
                             /\ s.hs[m].inbox \in Seq(Nat) /\ s.hs[m].activeIds \in Seq(Nat)
  BY <1>1, ViewFacts
<1>8. /\ Held(t) \in [1..n -> SUBSET Nat] /\ Hd(t) \in [1..n -> Handlers]
      /\ \A k \in 1..n : Hd(t)[k] = t.g.handlers[k].h /\ Held(t)[k] = ToSet(t.g.handlers[k].ids)
  BY <1>2, ViewFacts
<1>9. /\ Box(t) \in [Handlers -> SUBSET Nat]
      /\ \A m \in Handlers : Box(t)[m] = ToSet(t.hs[m].inbox) \cup ToSet(t.hs[m].activeIds)
  BY <1>2, ViewFacts
<1>10. x \in X /\ x \in Items /\ y \in Items
  <2>1. x \in X /\ x \in Items
    BY <1>1, ViewFacts
  <2>2. i \in 1..Len(t.g.askers)
    BY <1>2
  <2>3. y \in Items
    BY <1>2, <2>2, ViewFacts
  <2> QED BY <2>1, <2>3
<1>11. x.id \in Nat
  BY <1>10 DEF Items
<1>12. X2 = (X \ {x}) \cup {y}
  <2>1. s.g.askers \in Seq(Items) /\ t.g.askers \in Seq(Items)
    BY <1>1, <1>2, StateFacts
  <2>2. Distinct(s.g.askers)
    BY <1>1, OnceFacts
  <2> DEFINE L == s.g.askers
             M == t.g.askers
  <2>3. L \in Seq(Items) /\ M \in Seq(Items) /\ i \in 1..Len(L) /\ Distinct(L)
    BY <2>1, <2>2
  <2>4. Replaced(L, M, i)
    BY <1>2, <1>4 DEF Replaced
  <2> HIDE DEF L, M
  <2>5. ToSet(M) = (ToSet(L) \ {L[i]}) \cup {M[i]}
    BY <2>3, <2>4, ReplacedElements
  <2> QED BY <2>5 DEF L, M
<1>13. Hd(t) = Hd(s)
  BY <1>3, <1>6, <1>8, SMTT(30)
<1>14. h \in Handlers /\ Hd(s)[p] = h
  BY <1>6
<1>15. \A k \in 1..n : Held(t)[k] = IF k = p THEN Held(s)[k] \cup {x.id} ELSE Held(s)[k]
  <2>1. ASSUME NEW q \in Seq(Nat) PROVE ToSet(Append(q, x.id)) = ToSet(q) \cup {x.id}
    BY <1>11, AppendElements
  <2>2. ASSUME NEW k \in 1..n PROVE Held(t)[k] = IF k = p THEN Held(s)[k] \cup {x.id} ELSE Held(s)[k]
    <3>1. Held(t)[k] = ToSet(t.g.handlers[k].ids) /\ Held(s)[k] = ToSet(s.g.handlers[k].ids)
          /\ s.g.handlers[k].ids \in Seq(Nat)
      BY <1>6, <1>8
    <3>2. CASE k = p
      <4>1. t.g.handlers[k].ids = Append(s.g.handlers[k].ids, x.id)
        BY <1>3, <3>2
      <4>2. ToSet(Append(s.g.handlers[k].ids, x.id)) = ToSet(s.g.handlers[k].ids) \cup {x.id}
        BY <2>1, <3>1
      <4> QED BY <3>1, <3>2, <4>1, <4>2, Zenon
    <3>3. CASE k # p
      BY <1>3, <3>1, <3>3
    <3> QED BY <3>2, <3>3
  <2> QED BY <2>2
<1>16. \A m \in Handlers : Box(t)[m] = IF m = Hd(s)[p] THEN Box(s)[m] \cup {x.id} ELSE Box(s)[m]
  <2>1. ASSUME NEW q \in Seq(Nat) PROVE ToSet(Append(q, x.id)) = ToSet(q) \cup {x.id}
    BY <1>11, AppendElements
  <2>2. ToSet(t.hs[h].inbox) = ToSet(s.hs[h].inbox) \cup {x.id}
    BY <1>5, <1>7, <1>14, <2>1
  <2>3. Box(t)[h] = Box(s)[h] \cup {x.id}
    BY <1>5, <1>7, <1>9, <1>14, <2>2
  <2>4. \A m \in Handlers : m # h => Box(t)[m] = Box(s)[m]
    BY <1>5, <1>7, <1>9
  <2> QED BY <1>14, <2>3, <2>4
<1>17. \A k \in 1..n : k < p => Hd(s)[k] \in x.tried
  BY <1>6
<1>18. y.tried = x.tried \cup {Hd(s)[p]}
  BY <1>4, <1>14
<1>19. x.id \in O /\ p \in 1..n
  OBVIOUS
<1>20. Sound(n, Hd(s), Held(t), X2, s.g.next_id, Box(t), s.as, O \ {x.id})
       /\ x.id \notin Held(s)[p] /\ x.id \notin Box(s)[Hd(s)[p]]
  <2> HIDE DEF x, y, X, X2, n, h
  <2>1. y.a = x.a /\ y.id = x.id /\ y.pos = p
    BY <1>4
  <2>2. x \in X /\ y \in Items
    BY <1>10
  <2>3. Sound(n, Hd(s), Held(s), X, s.g.next_id, Box(s), s.as, O)
    BY <1>1
  <2>4. Held(t) \in [1..n -> SUBSET Nat] /\ Box(t) \in [Handlers -> SUBSET Nat]
    BY <1>8, <1>9
  <2>5. AskStep(n, Hd(s), Held(s), X, Box(s), O, x, p, y, Held(t), Box(t), X2)
    BY <2>1, <2>2, <2>4, <1>12, <1>15, <1>16, <1>17, <1>18, <1>19 DEF AskStep
  <2> QED BY <2>3, <2>5, ViewAsk
<1>21. Sound(Len(t.g.handlers), Hd(t), Held(t), ToSet(t.g.askers), t.g.next_id, Box(t), t.as, O \ {x.id})
  BY <1>2, <1>13, <1>20
<1>22. Once(t)
  <2>1. ASSUME NEW j \in 1..Len(t.g.askers), NEW l \in 1..Len(t.g.askers), t.g.askers[j].id = t.g.askers[l].id
        PROVE  j = l
    <3>1. \A m \in 1..Len(s.g.askers) : t.g.askers[m].id = s.g.askers[m].id
      BY <1>4
    <3>2. \A j1, l1 \in 1..Len(s.g.askers) : s.g.askers[j1].id = s.g.askers[l1].id => j1 = l1
      BY <1>1 DEF Once
    <3> QED BY <1>2, <2>1, <3>1, <3>2
  <2>2. ASSUME NEW k \in 1..n
        PROVE  /\ Distinct(t.g.handlers[k].ids)
               /\ Distinct(t.hs[t.g.handlers[k].h].inbox) /\ Distinct(t.hs[t.g.handlers[k].h].activeIds)
               /\ ToSet(t.hs[t.g.handlers[k].h].inbox) \cap ToSet(t.hs[t.g.handlers[k].h].activeIds) = {}
    <3>1. /\ Distinct(s.g.handlers[k].ids)
          /\ Distinct(s.hs[s.g.handlers[k].h].inbox) /\ Distinct(s.hs[s.g.handlers[k].h].activeIds)
          /\ ToSet(s.hs[s.g.handlers[k].h].inbox) \cap ToSet(s.hs[s.g.handlers[k].h].activeIds) = {}
      BY <1>1 DEF Once
    <3>2. \A q \in Seq(Nat) : /\ ToSet(Append(q, x.id)) = ToSet(q) \cup {x.id}
                              /\ Distinct(q) /\ x.id \notin ToSet(q) => Distinct(Append(q, x.id))
      BY <1>11, AppendElements, SMTT(30)
    <3>3. Distinct(t.g.handlers[k].ids)
      <4>1. CASE k = p
        BY <4>1, <1>3, <1>6, <1>20, <3>1, <3>2
      <4>2. CASE k # p
        BY <4>2, <1>3, <3>1
      <4> QED BY <4>1, <4>2
    <3>4. CASE s.g.handlers[k].h # h
      <4>1. t.hs[t.g.handlers[k].h] = s.hs[s.g.handlers[k].h]
        BY <1>3, <1>5, <1>6, <3>4
      <4> QED BY <3>1, <3>3, <4>1
    <3>5. CASE s.g.handlers[k].h = h
      <4>1. t.g.handlers[k].h = h
        BY <1>3, <3>5
      <4>2. s.hs[h].inbox \in Seq(Nat) /\ x.id \notin ToSet(s.hs[h].inbox) /\ x.id \notin ToSet(s.hs[h].activeIds)
        BY <1>7, <1>14, <1>20
      <4>3. Distinct(s.hs[h].inbox) /\ Distinct(s.hs[h].activeIds)
            /\ ToSet(s.hs[h].inbox) \cap ToSet(s.hs[h].activeIds) = {}
        BY <3>1, <3>5
      <4>4. Distinct(t.hs[h].inbox) /\ ToSet(t.hs[h].inbox) = ToSet(s.hs[h].inbox) \cup {x.id}
        BY <1>5, <3>2, <4>2, <4>3
      <4> QED BY <1>5, <3>3, <4>1, <4>2, <4>3, <4>4
    <3> QED BY <3>4, <3>5
  <2> QED BY <1>2, <2>1, <2>2 DEF Once
<1>23. Frame(s, t)
  <2>1. \A m \in Handlers : t.hs[m].phase = s.hs[m].phase
    BY <1>5
  <2>2. \A m \in Handlers : (\A k \in 1..n : s.g.handlers[k].h # m) => t.hs[m] = s.hs[m]
    BY <1>5
  <2> QED BY <1>2, <1>3, <2>1, <2>2 DEF Frame
<1> QED BY <1>2, <1>21, <1>22, <1>23 DEF Good

LEMMA RespondFacts ==
  ASSUME NEW x \in AskerStates, NEW ok \in BOOLEAN
  PROVE  /\ Respond(x, ok) \in AskerStates
         /\ Respond(x, ok).done /\ (Respond(x, ok).accepted <=> x.accepted \/ ok)
         /\ Respond(x, ok).cancelled = x.cancelled /\ Respond(x, ok).again = x.again
         /\ Respond(x, ok).id = x.id
<1> DEFINE b == x.accepted \/ ok
           pc == IF waiting(x) THEN "woken" ELSE x.pc
           m == IF waiting(x) THEN x.posted ELSE x.posted + 1
           r == [x EXCEPT !.accepted = b, !.done = TRUE, !.pc = pc, !.posted = m]
<1>1. x.posted \in Nat /\ x.pc \in {"idle", "cancelling", "waiting", "woken"}
  BY DEF AskerStates
<1>2. b \in BOOLEAN
  OBVIOUS
<1>3. pc \in {"idle", "cancelling", "waiting", "woken"}
  BY <1>1
<1>4. m \in Nat
  BY <1>1
<1>5. Respond(x, ok) = r
  BY Zenon DEF Respond
<1>6. b <=> x.accepted \/ ok
  OBVIOUS
<1> HIDE DEF b, pc, m
<1>7. r \in AskerStates
  BY <1>2, <1>3, <1>4 DEF AskerStates
<1>8. r.done /\ r.accepted = b /\ r.cancelled = x.cancelled /\ r.again = x.again /\ r.id = x.id
  BY <1>2 DEF AskerStates
<1> HIDE DEF r
<1> QED BY <1>5, <1>6, <1>7, <1>8, Zenon

Answer(w, a, ok) == [w EXCEPT ![a] = Respond(@, ok)]

LEMMA RespondTo ==
  ASSUME NEW w \in [Askers -> AskerStates], NEW a \in Askers, NEW ok \in BOOLEAN
  PROVE  /\ Answer(w, a, ok) \in [Askers -> AskerStates]
         /\ \A b \in Askers : b # a => Answer(w, a, ok)[b] = w[b]
         /\ Answer(w, a, ok)[a].done /\ (Answer(w, a, ok)[a].accepted <=> w[a].accepted \/ ok)
         /\ Answer(w, a, ok)[a].cancelled = w[a].cancelled /\ Answer(w, a, ok)[a].again = w[a].again
         /\ Answer(w, a, ok)[a].id = w[a].id
<1> DEFINE r == Respond(w[a], ok)
<1>1. w[a] \in AskerStates
  OBVIOUS
<1>2. /\ r \in AskerStates /\ r.done /\ (r.accepted <=> w[a].accepted \/ ok)
      /\ r.cancelled = w[a].cancelled /\ r.again = w[a].again /\ r.id = w[a].id
  BY <1>1, RespondFacts, Zenon
<1> HIDE DEF r
<1>3. Answer(w, a, ok) = [w EXCEPT ![a] = r]
  BY Zenon DEF r, Answer
<1> DEFINE v == Answer(w, a, ok)
<1>4. v \in [Askers -> AskerStates] /\ v[a] = r /\ \A b \in Askers : b # a => v[b] = w[b]
  BY <1>2, <1>3
<1> HIDE DEF v
<1>5. v[a].done /\ (v[a].accepted <=> w[a].accepted \/ ok)
      /\ v[a].cancelled = w[a].cancelled /\ v[a].again = w[a].again /\ v[a].id = w[a].id
  BY <1>2, <1>4, Zenon
<1> QED BY <1>4, <1>5, Zenon DEF v

(* what an item tells *)
LEMMA ItemFacts ==
  ASSUME NEW s, NEW O, Good(s, O), NEW i \in 1..Len(s.g.askers)
  PROVE  /\ s.g.askers[i] \in Items /\ s.g.askers[i] \in ToSet(s.g.askers)
         /\ s.g.askers[i].a \in Askers /\ s.g.askers[i].id \in Nat /\ s.g.askers[i].pos \in Nat
         /\ s.g.askers[i].pos <= Len(s.g.handlers) /\ s.g.askers[i].id < s.g.next_id
         /\ \A k \in 1..Len(s.g.handlers) : k <= s.g.askers[i].pos => s.g.handlers[k].h \in s.g.askers[i].tried
         /\ \A x \in ToSet(s.g.askers) : x.id = s.g.askers[i].id => x = s.g.askers[i]
<1> DEFINE n == Len(s.g.handlers)
           x == s.g.askers[i]
           X == ToSet(s.g.askers)
<1>1. s \in States /\ Once(s) /\ Sound(n, Hd(s), Held(s), X, s.g.next_id, Box(s), s.as, O)
  BY DEF Good
<1>2. x \in X /\ x \in Items
  BY <1>1, ViewFacts
<1>3. x.a \in Askers /\ x.id \in Nat /\ x.pos \in Nat
  BY <1>2 DEF Items
<1>4. x.pos <= n /\ x.id < s.g.next_id
  <2> HIDE DEF X, x
  <2> QED BY <1>1, <1>2 DEF Sound, Numbered
<1>5. \A k \in 1..n : Hd(s)[k] = s.g.handlers[k].h
  BY <1>1, ViewFacts
<1>6. \A k \in 1..n : k <= x.pos => Hd(s)[k] \in x.tried
  <2> HIDE DEF X, x, n
  <2> QED BY <1>1, <1>2 DEF Sound, Passed
<1>7. \A z \in X : z.id = x.id => z = x
  BY <1>1, OnceFacts
<1> QED BY <1>2, <1>3, <1>4, <1>5, <1>6, <1>7

(* the other items stay as they are; this one goes when all were asked *)
OthersStay(s, t, i) ==
    /\ \A x \in ToSet(s.g.askers) : x.id # s.g.askers[i].id => x \in ToSet(t.g.askers)
    /\ \/ \E y \in ToSet(t.g.askers) : y.id = s.g.askers[i].id
       \/ \A k \in 1..Len(s.g.handlers) : s.g.handlers[k].h \in s.g.askers[i].tried

LEMMA AskedOthers ==
  ASSUME NEW s, NEW O, Good(s, O), NEW i \in 1..Len(s.g.askers),
         NEW p, NEW t, Asked(s, t, i, p)
  PROVE  OthersStay(s, t, i)
<1>1. s \in States /\ t \in States /\ Len(t.g.askers) = Len(s.g.askers)
  BY DEF Good, Asked
<1>2. \A j \in 1..Len(s.g.askers) : s.g.askers[j].id # s.g.askers[i].id => t.g.askers[j] = s.g.askers[j]
  BY DEF Asked
<1>3. \A x \in ToSet(s.g.askers) : \E j \in 1..Len(s.g.askers) : s.g.askers[j] = x
  BY <1>1, ViewFacts
<1>4. \A j \in 1..Len(s.g.askers) : t.g.askers[j] \in ToSet(t.g.askers)
  BY <1>1, ViewFacts
<1>5. ASSUME NEW x \in ToSet(s.g.askers), x.id # s.g.askers[i].id PROVE x \in ToSet(t.g.askers)
  <2>1. PICK j \in 1..Len(s.g.askers) : s.g.askers[j] = x
    BY <1>3
  <2>2. t.g.askers[j] = x
    BY <1>2, <1>5, <2>1
  <2> QED BY <1>4, <2>2
<1>6. t.g.askers[i].id = s.g.askers[i].id
  BY DEF Asked
<1> QED BY <1>4, <1>5, <1>6 DEF OthersStay

LEMMA GoodReject ==
  ASSUME NEW s, NEW O, Good(s, O), NEW i \in 1..Len(s.g.askers), s.g.askers[i].id \in O
  PROVE  /\ Good(reject(s, i), O \ {s.g.askers[i].id})
         /\ Frame(s, reject(s, i)) /\ OthersStay(s, reject(s, i), i)
<1> DEFINE n == Len(s.g.handlers)
           A == s.g.askers
           x == A[i]
           t == reject(s, i)
<1>1. s \in States /\ Once(s) /\ Sound(n, Hd(s), Held(s), ToSet(A), s.g.next_id, Box(s), s.as, O)
  BY DEF Good
<1>2. /\ x \in Items /\ x \in ToSet(A) /\ x.a \in Askers /\ x.id \in Nat /\ x.pos \in Nat /\ x.pos <= n
      /\ \A k \in 1..n : k <= x.pos => s.g.handlers[k].h \in x.tried
      /\ \A z \in ToSet(A) : z.id = x.id => z = x
  BY ItemFacts
<1>3. A \in Seq(Items) /\ n \in Nat /\ s.as \in [Askers -> AskerStates]
  BY <1>1, StateFacts
<1>4. CASE x.pos < n
  <2> DEFINE p == x.pos + 1
             L == SetPos(A, i, p)
             u == SetA(s, L)
  <2>1. p \in 1..n /\ p \in Nat
    BY <1>2, <1>3, <1>4
  <2>2. t = ask(u, i)
    <3>1. t = ask([s EXCEPT !.g.askers[i].pos = @ + 1], i)
      BY <1>4 DEF reject
    <3> QED BY <3>1, Zenon DEF SetA, SetPos
  <2> HIDE DEF p
  <2>3. /\ L \in Seq(Items) /\ Len(L) = Len(A) /\ \A j \in 1..Len(A) : j # i => L[j] = A[j]
        /\ L[i].a = x.a /\ L[i].id = x.id /\ L[i].pos = p /\ L[i].tried = x.tried
    BY <1>3, <2>1, PosReplaced, ZenonT(40)
  <2> HIDE DEF L
  <2>4. /\ u \in States /\ u.g.handlers = s.g.handlers /\ u.g.askers = L
        /\ u.g.on = s.g.on /\ u.g.next_id = s.g.next_id /\ u.hs = s.hs /\ u.as = s.as
    BY <1>1, <2>3, Setters
  <2> HIDE DEF u, t
  <2>5. Moved(s, u, i, p)
    BY <2>3, <2>4 DEF Moved
  <2>6. Asked(s, t, i, p)
    BY <1>1, <2>1, <2>2, <2>4, <2>5, MovedAsked
  <2>7. \A k \in 1..n : k < p => s.g.handlers[k].h \in x.tried
    <3>1. \A k \in 1..n : k < p => k <= x.pos
      BY <1>2, <1>3 DEF p
    <3> QED BY <1>2, <3>1
  <2>8. Good(t, O \ {x.id}) /\ Frame(s, t)
    BY <2>1, <2>6, <2>7, GoodAsk
  <2>9. OthersStay(s, t, i)
    BY <2>6, AskedOthers
  <2> QED BY <2>8, <2>9 DEF t
<1>5. CASE ~(x.pos < n)
  <2> DEFINE L == RemoveAt(A, i)
             w2 == Answer(s.as, x.a, FALSE)
             u == SetA(s, L)
  <2>1. t = SetAs(u, w2)
    <3>1. t = [s EXCEPT !.g.askers = RemoveAt(@, i), !.as[x.a] = Respond(@, FALSE)]
      BY <1>5 DEF reject
    <3> QED BY <3>1, Zenon DEF SetA, SetAs, Answer
  <2>2. /\ L \in Seq(Items) /\ Len(L) = Len(A) - 1
        /\ \A j \in 1..(Len(A) - 1) : L[j] = IF j < i THEN A[j] ELSE A[j + 1]
    BY <1>3, RemoveAtFacts
  <2>3. ToSet(L) = ToSet(A) \ {x}
    <3>1. Distinct(A)
      BY <1>1, OnceFacts
    <3> QED BY <1>3, <3>1, RemoveAtElements
  <2>4. /\ w2 \in [Askers -> AskerStates] /\ \A b \in Askers : b # x.a => w2[b] = s.as[b]
        /\ w2[x.a].done /\ (w2[x.a].accepted <=> s.as[x.a].accepted \/ FALSE)
        /\ w2[x.a].cancelled = s.as[x.a].cancelled /\ w2[x.a].again = s.as[x.a].again
        /\ w2[x.a].id = s.as[x.a].id
    <3>1. s.as \in [Askers -> AskerStates] /\ x.a \in Askers
      BY <1>2, <1>3
    <3> QED BY <3>1, RespondTo, Zenon
  <2>5. w2[x.a].accepted = s.as[x.a].accepted
    <3>1. s.as[x.a] \in AskerStates /\ w2[x.a] \in AskerStates
      BY <1>2, <1>3, <2>4
    <3>2. s.as[x.a].accepted \in BOOLEAN /\ w2[x.a].accepted \in BOOLEAN
      BY <3>1 DEF AskerStates
    <3> HIDE DEF w2, x
    <3> QED BY <2>4, <3>2, Zenon
  <2> HIDE DEF L, w2
  <2>6. /\ u \in States /\ u.g.handlers = s.g.handlers /\ u.g.askers = L
        /\ u.g.on = s.g.on /\ u.g.next_id = s.g.next_id /\ u.hs = s.hs /\ u.as = s.as
    BY <1>1, <2>2, Setters
  <2> HIDE DEF u, t
  <2>7. t \in States /\ t.g = u.g /\ t.hs = u.hs /\ t.as = w2
    BY <2>1, <2>4, <2>6, Setters
  <2>8. /\ t.g.handlers = s.g.handlers /\ t.g.askers = L /\ t.g.on = s.g.on
        /\ t.g.next_id = s.g.next_id /\ t.hs = s.hs
    BY <2>6, <2>7
  <2>9. RejectStep(ToSet(A), s.as, O, x, w2)
    BY <1>2, <2>4, <2>5 DEF RejectStep
  <2>10. Sound(n, Hd(s), Held(s), ToSet(A) \ {x}, s.g.next_id, Box(s), w2, O \ {x.id})
    BY <1>1, <2>9, ViewReject
  <2>11. Hd(t) = Hd(s) /\ Held(t) = Held(s) /\ Box(t) = Box(s)
    BY <2>8 DEF Hd, Held, Box
  <2>12. Sound(Len(t.g.handlers), Hd(t), Held(t), ToSet(t.g.askers), t.g.next_id, Box(t), t.as, O \ {x.id})
    BY <2>3, <2>7, <2>8, <2>10, <2>11
  <2>13. Once(t)
    <3> DEFINE o(j) == IF j < i THEN j ELSE j + 1
    <3>1. \A j \in 1..Len(L) : L[j] = A[o(j)] /\ o(j) \in 1..Len(A)
      BY <1>3, <2>2
    <3>2. \A j, l \in 1..Len(L) : o(j) = o(l) => j = l
      BY <2>2
    <3> HIDE DEF o
    <3>3. \A j, l \in 1..Len(A) : A[j].id = A[l].id => j = l
      BY <1>1 DEF Once
    <3>4. \A j, l \in 1..Len(L) : L[j].id = L[l].id => j = l
      <4> SUFFICES ASSUME NEW j \in 1..Len(L), NEW l \in 1..Len(L), L[j].id = L[l].id
                   PROVE  j = l
        OBVIOUS
      <4>1. A[o(j)].id = A[o(l)].id /\ o(j) \in 1..Len(A) /\ o(l) \in 1..Len(A)
        BY <3>1, Zenon
      <4>2. o(j) = o(l)
        BY <3>3, <4>1, Zenon
      <4> QED BY <3>2, <4>2, Zenon
    <3> QED BY <1>1, <2>8, <3>4 DEF Once
  <2>14. Frame(s, t)
    BY <2>8 DEF Frame
  <2>15. OthersStay(s, t, i)
    <3>1. \A k \in 1..n : s.g.handlers[k].h \in x.tried
      <4>1. \A k \in 1..n : k <= x.pos
        BY <1>2, <1>3, <1>5
      <4> QED BY <1>2, <4>1
    <3> QED BY <2>3, <2>8, <3>1 DEF OthersStay
  <2> QED BY <2>7, <2>12, <2>13, <2>14, <2>15 DEF Good, t
<1> QED BY <1>4, <1>5

------------------------------------------------------------------------------
(* Searches                                                                *)

LEMMA FindItemById ==
  ASSUME NEW s \in States, NEW id
  PROVE  \/ /\ findAskerItemById(s, id) = 0 /\ \A j \in 1..Len(s.g.askers) : s.g.askers[j].id # id
         \/ /\ findAskerItemById(s, id) \in 1..Len(s.g.askers)
            /\ s.g.askers[findAskerItemById(s, id)].id = id
<1> DEFINE I == {j \in 1..Len(s.g.askers) : s.g.askers[j].id = id}
<1>1. findAskerItemById(s, id) = IF I # {} THEN Min(I) ELSE 0
  BY DEF findAskerItemById, SelectInSeq
<1>2. Len(s.g.askers) \in Nat
  BY ViewFacts
<1>3. I # {} => Min(I) \in I
  <2>1. I \subseteq 1..Len(s.g.askers)
    OBVIOUS
  <2> HIDE DEF I
  <2> QED BY <1>2, <2>1, MinFacts
<1> QED BY <1>1, <1>3

LEMMA FindItem ==
  ASSUME NEW s \in States, NEW a
  PROVE  \/ /\ findAskerItem(s, a) = 0 /\ \A j \in 1..Len(s.g.askers) : s.g.askers[j].a # a
         \/ /\ findAskerItem(s, a) \in 1..Len(s.g.askers)
            /\ s.g.askers[findAskerItem(s, a)].a = a
<1> DEFINE I == {j \in 1..Len(s.g.askers) : s.g.askers[j].a = a}
<1>1. findAskerItem(s, a) = IF I # {} THEN Min(I) ELSE 0
  BY DEF findAskerItem, SelectInSeq
<1>2. Len(s.g.askers) \in Nat
  BY ViewFacts
<1>3. I # {} => Min(I) \in I
  <2>1. I \subseteq 1..Len(s.g.askers)
    OBVIOUS
  <2> HIDE DEF I
  <2> QED BY <1>2, <2>1, MinFacts
<1> QED BY <1>1, <1>3

LEMMA FindHandler ==
  ASSUME NEW s \in States, NEW h, NEW k \in 1..Len(s.g.handlers), s.g.handlers[k].h = h
  PROVE  findHandlerItem(s, h) \in 1..Len(s.g.handlers) /\ s.g.handlers[findHandlerItem(s, h)].h = h
<1> DEFINE I == {j \in 1..Len(s.g.handlers) : s.g.handlers[j].h = h}
<1>1. findHandlerItem(s, h) = IF I # {} THEN Min(I) ELSE 0
  BY DEF findHandlerItem, SelectInSeq
<1>2. Len(s.g.handlers) \in Nat
  BY ViewFacts
<1>3. Min(I) \in I
  <2>1. I \subseteq 1..Len(s.g.handlers) /\ k \in I
    OBVIOUS
  <2> HIDE DEF I
  <2> QED BY <1>2, <2>1, MinFacts
<1>4. I # {}
  OBVIOUS
<1> QED BY <1>1, <1>3, <1>4

------------------------------------------------------------------------------
(* The loop of handler_remove()                                            *)

LEMMA FrameTransitive ==
  ASSUME NEW s, NEW t, NEW u, Frame(s, t), Frame(t, u)
  PROVE  Frame(s, u)
  BY DEF Frame

Rest(ids, n) == {ids[j] : j \in (n + 1)..Len(ids)}

(* after n of the ids *)
Looped(s, t, ids, n) ==
    /\ Good(t, Rest(ids, n)) /\ Frame(s, t)
    /\ \A x \in ToSet(s.g.askers) :
          /\ x.id \in Rest(ids, n) => x \in ToSet(t.g.askers)
          /\ \/ \E y \in ToSet(t.g.askers) : y.id = x.id
             \/ \A k \in 1..Len(s.g.handlers) : s.g.handlers[k].h \in x.tried

Step(t, id) == reject(t, findAskerItemById(t, id))

LEMMA LoopStep ==
  ASSUME NEW s, NEW t, NEW ids \in Seq(Nat), Distinct(ids), NEW n \in 1..Len(ids),
         Looped(s, t, ids, n - 1)
  PROVE  Looped(s, Step(t, ids[n]), ids, n)
<1> DEFINE id == ids[n]
           i == findAskerItemById(t, id)
           u == reject(t, i)
           P == Rest(ids, n - 1)
           Q == Rest(ids, n)
<1>1. id \in P /\ Q = P \ {id} /\ Q \subseteq P
  <2>1. n \in (n - 1 + 1)..Len(ids) /\ \A j \in (n + 1)..Len(ids) : j \in (n - 1 + 1)..Len(ids) /\ j \in 1..Len(ids) /\ j # n
    OBVIOUS
  <2>2. \A j \in (n - 1 + 1)..Len(ids) : j = n \/ j \in (n + 1)..Len(ids)
    OBVIOUS
  <2>3. id \in P
    BY <2>1 DEF Rest
  <2>4. \A y \in Q : y \in P /\ y # id
    BY <2>1 DEF Rest, Distinct
  <2>5. \A y \in P : y = id \/ y \in Q
    BY <2>2 DEF Rest
  <2> HIDE DEF id, P, Q
  <2> QED BY <2>3, <2>4, <2>5
<1>2. Good(t, P) /\ Frame(s, t)
  BY DEF Looped
<1>3. /\ \A x \in ToSet(s.g.askers) : x.id \in P => x \in ToSet(t.g.askers)
      /\ \A x \in ToSet(s.g.askers) : \/ \E y \in ToSet(t.g.askers) : y.id = x.id
                                      \/ \A k \in 1..Len(s.g.handlers) : s.g.handlers[k].h \in x.tried
  BY DEF Looped
<1> HIDE DEF P, Q, id
<1>4. t \in States
  BY <1>2 DEF Good
<1>5. i \in 1..Len(t.g.askers) /\ t.g.askers[i].id = id
  <2>1. \E x \in ToSet(t.g.askers) : x.id = id
    BY <1>1, <1>2 DEF Good, Sound, OnTheWay
  <2>2. \E j \in 1..Len(t.g.askers) : t.g.askers[j].id = id
    <3>1. PICK x \in ToSet(t.g.askers) : x.id = id
      BY <2>1
    <3>2. \A z \in ToSet(t.g.askers) : \E j \in 1..Len(t.g.askers) : t.g.askers[j] = z
      BY <1>4, ViewFacts
    <3> QED BY <3>1, <3>2
  <2> QED BY <1>4, <2>2, FindItemById
<1> HIDE DEF i
<1>6. Good(u, P \ {id}) /\ Frame(t, u) /\ OthersStay(t, u, i)
  BY <1>1, <1>2, <1>5, GoodReject
<1> HIDE DEF u
<1>7. Frame(s, u)
  BY <1>2, <1>6, FrameTransitive
<1>8. ASSUME NEW x \in ToSet(s.g.askers), x.id \in Q PROVE x \in ToSet(u.g.askers)
  <2>1. x \in ToSet(t.g.askers) /\ x.id # id
    BY <1>1, <1>3, <1>8
  <2> QED BY <1>5, <1>6, <2>1 DEF OthersStay
<1>9. ASSUME NEW x \in ToSet(s.g.askers)
      PROVE  \/ \E y \in ToSet(u.g.askers) : y.id = x.id
             \/ \A k \in 1..Len(s.g.handlers) : s.g.handlers[k].h \in x.tried
  <2>1. CASE \A k \in 1..Len(s.g.handlers) : s.g.handlers[k].h \in x.tried
    BY <2>1
  <2>2. CASE x.id = id
    <3>1. x \in ToSet(t.g.askers)
      BY <1>1, <1>3, <2>2
    <3>2. x = t.g.askers[i]
      BY <1>2, <1>5, <2>2, <3>1, ItemFacts
    <3>3. \/ \E y \in ToSet(u.g.askers) : y.id = id
          \/ \A k \in 1..Len(t.g.handlers) : t.g.handlers[k].h \in x.tried
      BY <1>5, <1>6, <3>2 DEF OthersStay
    <3>4. Len(t.g.handlers) = Len(s.g.handlers) /\ \A k \in 1..Len(s.g.handlers) : t.g.handlers[k].h = s.g.handlers[k].h
      BY <1>2 DEF Frame
    <3> QED BY <2>2, <3>3, <3>4
  <2>3. CASE x.id # id /\ \E y \in ToSet(t.g.askers) : y.id = x.id
    <3>1. PICK y \in ToSet(t.g.askers) : y.id = x.id
      BY <2>3
    <3>2. y \in ToSet(u.g.askers)
      BY <1>5, <1>6, <2>3, <3>1 DEF OthersStay
    <3> QED BY <3>1, <3>2
  <2> QED BY <1>3, <2>1, <2>2, <2>3
<1>10. Looped(s, u, ids, n)
  <2>1. Good(u, Q)
    BY <1>1, <1>6
  <2> QED BY <1>7, <1>8, <1>9, <2>1 DEF Looped, Q
<1> QED BY <1>10 DEF Step, u, i, id

(* any run of the loop *)
LEMMA LoopRuns ==
  ASSUME NEW s, NEW ids \in Seq(Nat), Distinct(ids), Good(s, ToSet(ids)),
         NEW f, f[0] = s, \A n \in 1..Len(ids) : Step(f[n - 1], ids[n]) \in States => f[n] = Step(f[n - 1], ids[n])
  PROVE  \A n \in 0..Len(ids) : Looped(s, f[n], ids, n)
<1> DEFINE P == {n \in Nat : n <= Len(ids) => Looped(s, f[n], ids, n)}
<1>1. 0 \in P
  <2>1. Rest(ids, 0) = ToSet(ids)
    BY DEF Rest, ToSet
  <2>2. Frame(s, s)
    BY DEF Frame
  <2>3. Looped(s, s, ids, 0)
    BY <2>1, <2>2 DEF Looped
  <2> QED BY <2>3
<1>2. ASSUME NEW n \in Nat, n \in P PROVE n + 1 \in P
  <2> SUFFICES ASSUME n + 1 <= Len(ids) PROVE Looped(s, f[n + 1], ids, n + 1)
    OBVIOUS
  <2>1. n + 1 \in 1..Len(ids) /\ (n + 1) - 1 = n /\ n <= Len(ids)
    OBVIOUS
  <2>2. Looped(s, f[n], ids, n)
    BY <1>2, <2>1
  <2>3. Looped(s, Step(f[n], ids[n + 1]), ids, n + 1)
    <3> DEFINE m == n + 1
    <3>1. Looped(s, f[n], ids, m - 1) /\ m \in 1..Len(ids)
      BY <2>1, <2>2
    <3> HIDE DEF m
    <3>2. Looped(s, Step(f[n], ids[m]), ids, m)
      BY <3>1, LoopStep
    <3> QED BY <3>2 DEF m
  <2>4. Step(f[n], ids[n + 1]) \in States
    BY <2>3 DEF Looped, Good
  <2>5. f[n + 1] = Step(f[n], ids[n + 1])
    BY <2>1, <2>4
  <2> QED BY <2>3, <2>5
<1>3. \A n \in Nat : n \in P
  <2> HIDE DEF P
  <2> QED BY <1>1, <1>2, NatSetInduction
<1>4. \A n \in 0..Len(ids) : n \in Nat /\ n <= Len(ids)
  OBVIOUS
<1> QED BY <1>3, <1>4

After(s, ids) == CHOOSE after : after = [n \in 0 .. Len(ids) |->
                     IF n = 0 THEN s
                     ELSE reject(after[n - 1], findAskerItemById(after[n - 1], ids[n]))]

LEMMA LoopEnds ==
  ASSUME NEW s, NEW ids \in Seq(Nat), Distinct(ids), Good(s, ToSet(ids))
  PROVE  Looped(s, RejectAll(s, ids), ids, Len(ids))
<1> DEFINE L == Len(ids)
           G == [q \in States \X (1..L) |-> IF Step(q[1], ids[q[2]]) \in States THEN Step(q[1], ids[q[2]]) ELSE q[1]]
<1>0. L \in Nat /\ s \in States
  BY DEF Good
<1>1. G \in [States \X (1..L) -> States]
  OBVIOUS
<1>2. PICK f : Runs(f, L, States, s, G)
  <2> HIDE DEF G, L
  <2> QED BY <1>0, <1>1, Recursion
<1>3. f \in [0..L -> States] /\ f[0] = s
  BY <1>2 DEF Runs
<1>4. ASSUME NEW n \in 1..L, Step(f[n - 1], ids[n]) \in States PROVE f[n] = Step(f[n - 1], ids[n])
  <2>1. n - 1 \in 0..L
    BY <1>0
  <2>2. <<f[n - 1], n>> \in States \X (1..L)
    <3> HIDE DEF G
    <3> QED BY <1>3, <2>1
  <2>3. f[n] = G[<<f[n - 1], n>>]
    <3> HIDE DEF G
    <3> QED BY <1>2 DEF Runs
  <2> QED BY <1>4, <2>2, <2>3
<1> HIDE DEF G
<1>5. \A n \in 0..L : Looped(s, f[n], ids, n)
  BY <1>3, <1>4, LoopRuns
<1>6. \A n \in 1..L : f[n] = Step(f[n - 1], ids[n])
  <2> SUFFICES ASSUME NEW n \in 1..L PROVE f[n] = Step(f[n - 1], ids[n])
    OBVIOUS
  <2>1. n - 1 \in 0..L
    BY <1>0
  <2>2. Looped(s, f[n - 1], ids, n - 1)
    BY <1>5, <2>1
  <2>3. Looped(s, Step(f[n - 1], ids[n]), ids, n)
    BY <2>2, LoopStep
  <2>4. Step(f[n - 1], ids[n]) \in States
    BY <2>3 DEF Looped, Good
  <2> QED BY <1>4, <2>4
<1>7. f = [n \in 0 .. L |-> IF n = 0 THEN s ELSE reject(f[n - 1], findAskerItemById(f[n - 1], ids[n]))]
  <2>1. ASSUME NEW n \in 0..L
        PROVE  f[n] = IF n = 0 THEN s ELSE reject(f[n - 1], findAskerItemById(f[n - 1], ids[n]))
    <3>1. CASE n = 0
      BY <1>3, <3>1
    <3>2. CASE n # 0
      <4>1. n \in 1..L
        BY <1>0, <3>2
      <4> QED BY <1>6, <3>2, <4>1 DEF Step
    <3> QED BY <3>1, <3>2
  <2> QED BY <1>3, <2>1
<1> DEFINE u == After(s, ids)
<1>8. u = [n \in 0 .. L |-> IF n = 0 THEN s ELSE reject(u[n - 1], findAskerItemById(u[n - 1], ids[n]))]
  BY <1>7 DEF After
<1>9. RejectAll(s, ids) = u[L]
  BY DEF RejectAll, After
<1> HIDE DEF u
<1>10. u[0] = s
  BY <1>0, <1>8
<1>11. ASSUME NEW n \in 1..L PROVE u[n] = Step(u[n - 1], ids[n])
  <2>1. n \in 0..L /\ n # 0
    OBVIOUS
  <2> QED BY <1>8, <2>1 DEF Step
<1>12. \A n \in 0..L : Looped(s, u[n], ids, n)
  BY <1>10, <1>11, LoopRuns
<1> QED BY <1>0, <1>9, <1>12

------------------------------------------------------------------------------
(* The answers                                                             *)

LEMMA StillRegistered ==
  ASSUME NEW s \in States, NEW t \in States, Registered(s), Frame(s, t), s.g.handlers # <<>>
  PROVE  Registered(t)
<1>1. s.g.handlers \in Seq(HandlerItems) /\ t.g.handlers \in Seq(HandlerItems)
  BY StateFacts
<1>2. t.g.handlers # <<>> /\ s.g.on /\ t.g.on
  <2>1. Len(s.g.handlers) # 0 /\ Len(t.g.handlers) = Len(s.g.handlers)
    BY <1>1 DEF Frame
  <2>2. s.g.on /\ t.g.on = s.g.on
    BY DEF Frame, Registered
  <2> QED BY <1>1, <2>1, <2>2
<1>3. ASSUME NEW h \in Handlers
      PROVE  /\ t.hs[h].phase # "off" <=> \E k \in 1..Len(t.g.handlers) : t.g.handlers[k].h = h
             /\ t.hs[h].phase = "off" => t.hs[h].inbox = <<>> /\ t.hs[h].activeIds = <<>>
  <2>1. t.hs[h].phase = s.hs[h].phase /\ Len(t.g.handlers) = Len(s.g.handlers)
        /\ \A k \in 1..Len(s.g.handlers) : t.g.handlers[k].h = s.g.handlers[k].h
    BY DEF Frame
  <2>2. (\A k \in 1..Len(s.g.handlers) : s.g.handlers[k].h # h) => t.hs[h] = s.hs[h]
    BY DEF Frame
  <2>3. /\ s.hs[h].phase # "off" <=> \E k \in 1..Len(s.g.handlers) : s.g.handlers[k].h = h
        /\ s.hs[h].phase = "off" => s.hs[h].inbox = <<>> /\ s.hs[h].activeIds = <<>>
    BY DEF Registered
  <2>4. t.hs[h].phase # "off" <=> \E k \in 1..Len(t.g.handlers) : t.g.handlers[k].h = h
    BY <2>1, <2>3
  <2>5. ASSUME t.hs[h].phase = "off" PROVE t.hs[h].inbox = <<>> /\ t.hs[h].activeIds = <<>>
    <3>1. s.hs[h].phase = "off" /\ ~\E k \in 1..Len(s.g.handlers) : s.g.handlers[k].h = h
      BY <2>1, <2>3, <2>5
    <3>2. t.hs[h] = s.hs[h]
      BY <2>2, <3>1
    <3> QED BY <2>3, <3>1, <3>2
  <2> QED BY <2>4, <2>5
<1> QED BY <1>2, <1>3 DEF Registered

(* handler h at position p has taken id off its lists *)
Taken(s, u, h, p, id) ==
    /\ u \in States /\ u.as = s.as /\ u.g.on = s.g.on /\ u.g.next_id = s.g.next_id
    /\ u.g.askers = s.g.askers
    /\ Len(u.g.handlers) = Len(s.g.handlers)
    /\ \A k \in 1..Len(s.g.handlers) :
          /\ u.g.handlers[k].h = s.g.handlers[k].h
          /\ Distinct(u.g.handlers[k].ids)
          /\ ToSet(u.g.handlers[k].ids) = IF k = p THEN ToSet(s.g.handlers[k].ids) \ {id}
                                          ELSE ToSet(s.g.handlers[k].ids)
    /\ \A m \in Handlers : m # h => u.hs[m] = s.hs[m]
    /\ u.hs[h].phase = s.hs[h].phase /\ u.hs[h].inbox = s.hs[h].inbox
    /\ Distinct(u.hs[h].activeIds)
    /\ ToSet(u.hs[h].activeIds) = ToSet(s.hs[h].activeIds) \ {id}

LEMMA GoodTaken ==
  ASSUME NEW s, Good(s, {}), NEW p \in 1..Len(s.g.handlers), NEW h, Same(h, s.g.handlers[p].h),
         NEW id \in ToSet(s.hs[h].activeIds), NEW u, Taken(s, u, h, p, id)
  PROVE  /\ Good(u, {id} \cap {x.id : x \in ToSet(s.g.askers)})
         /\ Frame(s, u)
<1> DEFINE n == Len(s.g.handlers)
           X == ToSet(s.g.askers)
           O == {id} \cap {x.id : x \in X}
<1>1. s \in States /\ Once(s) /\ Sound(n, Hd(s), Held(s), X, s.g.next_id, Box(s), s.as, {})
  BY DEF Good
<1>2. u \in States /\ u.as = s.as /\ u.g.on = s.g.on /\ u.g.next_id = s.g.next_id
      /\ u.g.askers = s.g.askers /\ Len(u.g.handlers) = n
  BY DEF Taken
<1>3. \A k \in 1..n :
          /\ u.g.handlers[k].h = s.g.handlers[k].h
          /\ Distinct(u.g.handlers[k].ids)
          /\ ToSet(u.g.handlers[k].ids) = IF k = p THEN ToSet(s.g.handlers[k].ids) \ {id}
                                          ELSE ToSet(s.g.handlers[k].ids)
  BY DEF Taken
<1>4. /\ \A m \in Handlers : m # h => u.hs[m] = s.hs[m]
      /\ u.hs[h].phase = s.hs[h].phase /\ u.hs[h].inbox = s.hs[h].inbox
      /\ Distinct(u.hs[h].activeIds)
      /\ ToSet(u.hs[h].activeIds) = ToSet(s.hs[h].activeIds) \ {id}
  BY DEF Taken
<1>5. /\ \A k \in 1..n : /\ Hd(s)[k] = s.g.handlers[k].h
                         /\ Held(s)[k] = ToSet(s.g.handlers[k].ids)
                         /\ s.g.handlers[k].h \in Handlers
      /\ Hd(s) \in [1..n -> Handlers]
  BY <1>1, ViewFacts
<1>5a. \A m \in Handlers : Box(s)[m] = ToSet(s.hs[m].inbox) \cup ToSet(s.hs[m].activeIds)
  BY <1>1, ViewFacts
<1>6. /\ Held(u) \in [1..n -> SUBSET Nat] /\ Hd(u) \in [1..n -> Handlers]
      /\ \A k \in 1..n : Hd(u)[k] = u.g.handlers[k].h /\ Held(u)[k] = ToSet(u.g.handlers[k].ids)
  BY <1>2, ViewFacts
<1>6a. /\ Box(u) \in [Handlers -> SUBSET Nat]
       /\ \A m \in Handlers : Box(u)[m] = ToSet(u.hs[m].inbox) \cup ToSet(u.hs[m].activeIds)
  BY <1>2, ViewFacts
<1>7. Hd(u) = Hd(s)
  <2>1. \A k \in 1..n : Hd(u)[k] = Hd(s)[k]
    BY <1>3, <1>5, <1>6
  <2>2. Hd(u) \in [1..n -> Handlers] /\ Hd(s) \in [1..n -> Handlers]
    BY <1>5, <1>6
  <2> QED BY <2>1, <2>2
<1>8. h \in Handlers /\ Hd(s)[p] = h
  BY <1>5 DEF Same
<1>9. /\ Distinct(s.hs[h].inbox) /\ Distinct(s.hs[h].activeIds)
      /\ ToSet(s.hs[h].inbox) \cap ToSet(s.hs[h].activeIds) = {}
  BY <1>1 DEF Once, Same
<1>10. id \in Box(s)[Hd(s)[p]]
  BY <1>5a, <1>8
<1>11. \A k \in 1..n : Held(u)[k] = IF k = p THEN Held(s)[k] \ {id} ELSE Held(s)[k]
  BY <1>3, <1>5, <1>6
<1>12. \A m \in Handlers : Box(u)[m] = IF m = Hd(s)[p] THEN Box(s)[m] \ {id} ELSE Box(s)[m]
  <2>1. Box(u)[h] = Box(s)[h] \ {id}
    <3>1. id \notin ToSet(s.hs[h].inbox)
      BY <1>9
    <3>2. Box(u)[h] = ToSet(u.hs[h].inbox) \cup ToSet(u.hs[h].activeIds)
      BY <1>6a, <1>8
    <3>3. Box(s)[h] = ToSet(s.hs[h].inbox) \cup ToSet(s.hs[h].activeIds)
      BY <1>5a, <1>8
    <3> QED BY <1>4, <3>1, <3>2, <3>3
  <2>2. ASSUME NEW m \in Handlers, m # h PROVE Box(u)[m] = Box(s)[m]
    <3>1. u.hs[m] = s.hs[m]
      BY <1>4, <2>2
    <3>2. Box(u)[m] = ToSet(u.hs[m].inbox) \cup ToSet(u.hs[m].activeIds)
      BY <1>6a
    <3>3. Box(s)[m] = ToSet(s.hs[m].inbox) \cup ToSet(s.hs[m].activeIds)
      BY <1>5a
    <3> QED BY <3>1, <3>2, <3>3
  <2> QED BY <1>8, <2>1, <2>2
<1>13. TakeStep(n, Hd(s), Held(s), X, Box(s), p, id, Held(u), Box(u), O)
  <2>1. O = {id} \cap {x.id : x \in X}
    OBVIOUS
  <2> HIDE DEF O, X
  <2> QED BY <1>6, <1>6a, <1>10, <1>11, <1>12, <2>1 DEF TakeStep
<1>14. Sound(n, Hd(s), Held(u), X, s.g.next_id, Box(u), s.as, O)
  <2> HIDE DEF O, X
  <2> QED BY <1>1, <1>13, ViewTake
<1>15. Sound(Len(u.g.handlers), Hd(u), Held(u), ToSet(u.g.askers), u.g.next_id, Box(u), u.as, O)
  BY <1>2, <1>7, <1>14
<1>16. Once(u)
  <2>1. ASSUME NEW k \in 1..n
        PROVE  /\ Distinct(u.g.handlers[k].ids)
               /\ Distinct(u.hs[u.g.handlers[k].h].inbox) /\ Distinct(u.hs[u.g.handlers[k].h].activeIds)
               /\ ToSet(u.hs[u.g.handlers[k].h].inbox) \cap ToSet(u.hs[u.g.handlers[k].h].activeIds) = {}
    <3>1. u.g.handlers[k].h = s.g.handlers[k].h /\ s.g.handlers[k].h \in Handlers /\ Distinct(u.g.handlers[k].ids)
      BY <1>3, <1>5
    <3>2. CASE s.g.handlers[k].h = h
      <4>1. ToSet(u.hs[h].inbox) \cap ToSet(u.hs[h].activeIds) = {}
        BY <1>4, <1>9
      <4> QED BY <1>4, <1>9, <3>1, <3>2, <4>1
    <3>3. CASE s.g.handlers[k].h # h
      <4>1. u.hs[u.g.handlers[k].h] = s.hs[s.g.handlers[k].h]
        BY <1>4, <3>1, <3>3
      <4>2. /\ Distinct(s.hs[s.g.handlers[k].h].inbox) /\ Distinct(s.hs[s.g.handlers[k].h].activeIds)
            /\ ToSet(s.hs[s.g.handlers[k].h].inbox) \cap ToSet(s.hs[s.g.handlers[k].h].activeIds) = {}
        BY <1>1 DEF Once
      <4> QED BY <3>1, <4>1, <4>2
    <3> QED BY <3>2, <3>3
  <2>2. \A i, j \in 1..Len(s.g.askers) : s.g.askers[i].id = s.g.askers[j].id => i = j
    BY <1>1 DEF Once
  <2> QED BY <1>2, <2>1, <2>2 DEF Once
<1>17. Frame(s, u)
  <2>1. \A m \in Handlers : u.hs[m].phase = s.hs[m].phase
    BY <1>4
  <2>2. \A m \in Handlers : (\A k \in 1..n : s.g.handlers[k].h # m) => u.hs[m] = s.hs[m]
    BY <1>4 DEF Same
  <2> QED BY <1>2, <1>3, <2>1, <2>2 DEF Frame
<1> QED BY <1>2, <1>15, <1>16, <1>17 DEF Good


(* an item leaves the list only when every handler that is then listed was asked *)
Follows(s, t) ==
    \A x \in ToSet(s.g.askers) :
        \/ \E y \in ToSet(t.g.askers) : y.id = x.id
        \/ \A k \in 1..Len(t.g.handlers) : t.g.handlers[k].h \in x.tried

LEMMA FollowsSame ==
  ASSUME NEW s, NEW t, Same(t.g.askers, s.g.askers)
  PROVE  Follows(s, t)
  BY DEF Follows, Same

LEMMA WithoutFacts ==
  ASSUME NEW ids \in IdLists, NEW id
  PROVE  /\ Without(ids, id) \in IdLists
         /\ ToSet(Without(ids, id)) = ToSet(ids) \ {id}
         /\ Distinct(ids) => Distinct(Without(ids, id))
<1> DEFINE S == ToSet(ids) \ {id}
<1>1. Without(ids, id) = Keep(ids, S)
  BY DEF Without
<1>2. ids \in Seq(Nat)
  BY DEF IdLists
<1>3. ToSet(ids) \cap S = S
  OBVIOUS
<1> HIDE DEF S
<1>4. Keep(ids, S) \in Seq(Nat) /\ ToSet(Keep(ids, S)) = ToSet(ids) \cap S
      /\ (Distinct(ids) => Distinct(Keep(ids, S)))
  BY <1>2, KeepElements
<1> QED BY <1>1, <1>3, <1>4 DEF IdLists, S

(* handler h has taken id off activeIds, EventGlobal does not know yet *)
OffList(s, v, h, id) ==
    /\ v \in States /\ v.g = s.g /\ v.as = s.as
    /\ \A m \in Handlers : m # h => v.hs[m] = s.hs[m]
    /\ v.hs[h].phase = s.hs[h].phase /\ v.hs[h].inbox = s.hs[h].inbox
    /\ Distinct(v.hs[h].activeIds)
    /\ ToSet(v.hs[h].activeIds) = ToSet(s.hs[h].activeIds) \ {id}

(* EventGlobal takes it off as well *)
Off(v, at, id) == SetH(v, SetIds(v.g.handlers, at, Without(v.g.handlers[at].ids, id)))

LEMMA OffTaken ==
  ASSUME NEW s, Good(s, {}), Registered(s), NEW h \in Handlers, s.hs[h].phase # "off",
         NEW id, NEW v, OffList(s, v, h, id), NEW at, Same(at, findHandlerItem(v, h))
  PROVE  /\ at \in 1..Len(s.g.handlers) /\ Same(h, s.g.handlers[at].h) /\ s.g.handlers # <<>>
         /\ Taken(s, Off(v, at, id), h, at, id)
         /\ (\A x \in ToSet(s.g.askers) : x.id # id) => Taken(s, v, h, at, id)
<1> DEFINE n == Len(s.g.handlers)
           ids == s.g.handlers[at].ids
           b == Without(ids, id)
           H == SetIds(s.g.handlers, at, b)
           u == SetH(v, H)
<1>1. s \in States /\ Once(s)
      /\ Sound(n, Hd(s), Held(s), ToSet(s.g.askers), s.g.next_id, Box(s), s.as, {})
  BY DEF Good
<1>2. v \in States /\ v.g = s.g /\ v.as = s.as
  BY DEF OffList
<1>3. PICK k \in 1..n : s.g.handlers[k].h = h
  BY DEF Registered
<1>4. at \in 1..n /\ s.g.handlers[at].h = h
  <2>1. k \in 1..Len(v.g.handlers) /\ v.g.handlers[k].h = h
    BY <1>2, <1>3
  <2>2. findHandlerItem(v, h) \in 1..Len(v.g.handlers) /\ v.g.handlers[findHandlerItem(v, h)].h = h
    BY <1>2, <2>1, FindHandler
  <2> QED BY <1>2, <2>2 DEF Same
<1>5. s.g.handlers \in Seq(HandlerItems) /\ n \in Nat
  BY <1>1, StateFacts
<1>6. s.g.handlers # <<>>
  BY <1>4, <1>5
<1>7. \A l \in 1..n : /\ Held(s)[l] = ToSet(s.g.handlers[l].ids)
                      /\ s.g.handlers[l].ids \in Seq(Nat)
  BY <1>1, ViewFacts
<1>8. ids \in IdLists
  BY <1>4, <1>7 DEF IdLists
<1>9. \A l \in 1..n : Distinct(s.g.handlers[l].ids)
  BY <1>1 DEF Once
<1>10. b \in IdLists /\ ToSet(b) = ToSet(ids) \ {id} /\ Distinct(b)
  <2>1. Distinct(ids)
    BY <1>4, <1>9
  <2> HIDE DEF ids
  <2> QED BY <1>8, <2>1, WithoutFacts
<1> HIDE DEF b
<1>11. /\ H \in Seq(HandlerItems) /\ Len(H) = n
       /\ \A l \in 1..n : H[l].h = s.g.handlers[l].h /\ H[l].ids = IF l = at THEN b ELSE s.g.handlers[l].ids
  <2>1. s.g.handlers \in Seq(HandlerItems) /\ at \in 1..Len(s.g.handlers)
    BY <1>4, <1>5
  <2>2. b \in IdLists
    BY <1>10
  <2> QED BY <2>1, <2>2, IdsReplaced, SMTT(30)
<1> HIDE DEF H
<1>12. /\ u \in States /\ u.g.handlers = H /\ u.g.askers = v.g.askers /\ u.g.on = v.g.on
       /\ u.g.next_id = v.g.next_id /\ u.hs = v.hs /\ u.as = v.as
  BY <1>2, <1>11, Setters
<1> HIDE DEF u
<1>13. \A m \in Handlers : m # h => v.hs[m] = s.hs[m]
  BY DEF OffList
<1>14. /\ v.hs[h].phase = s.hs[h].phase /\ v.hs[h].inbox = s.hs[h].inbox
       /\ Distinct(v.hs[h].activeIds)
       /\ ToSet(v.hs[h].activeIds) = ToSet(s.hs[h].activeIds) \ {id}
  BY DEF OffList
<1>15. Taken(s, u, h, at, id)
  <2>1. u \in States /\ u.as = s.as /\ u.g.on = s.g.on /\ u.g.next_id = s.g.next_id
        /\ u.g.askers = s.g.askers /\ Len(u.g.handlers) = Len(s.g.handlers)
    BY <1>2, <1>11, <1>12
  <2>2. ASSUME NEW l \in 1..n
        PROVE  /\ u.g.handlers[l].h = s.g.handlers[l].h
               /\ Distinct(u.g.handlers[l].ids)
               /\ ToSet(u.g.handlers[l].ids) = IF l = at THEN ToSet(s.g.handlers[l].ids) \ {id}
                                               ELSE ToSet(s.g.handlers[l].ids)
    <3>1. u.g.handlers[l].h = s.g.handlers[l].h /\ u.g.handlers[l].ids = IF l = at THEN b ELSE s.g.handlers[l].ids
      BY <1>11, <1>12
    <3> QED BY <1>9, <1>10, <3>1
  <2> QED BY <1>12, <1>13, <1>14, <2>1, <2>2 DEF Taken
<1>16. u = Off(v, at, id)
  BY <1>2, Zenon DEF u, H, b, Off
<1>17. ASSUME \A x \in ToSet(s.g.askers) : x.id # id PROVE Taken(s, v, h, at, id)
  <2>1. \A l \in 1..n : id \notin Held(s)[l]
    BY <1>1, <1>17 DEF Sound, Routed
  <2>2. \A l \in 1..n : ToSet(s.g.handlers[l].ids) = IF l = at THEN ToSet(s.g.handlers[l].ids) \ {id}
                                                     ELSE ToSet(s.g.handlers[l].ids)
    BY <1>7, <2>1
  <2> QED BY <1>2, <1>9, <1>13, <1>14, <2>2 DEF Taken
<1> QED BY <1>4, <1>6, <1>15, <1>16, <1>17 DEF Same


(* what a step of the broker keeps *)
Consistent(s) == Good(s, {}) /\ Registered(s)
Result(s, t) == Consistent(t) /\ Follows(s, t)

LEMMA GoodAnswer ==
  ASSUME NEW s, Consistent(s), NEW h \in Handlers, s.hs[h].phase # "off",
         NEW id \in ToSet(s.hs[h].activeIds), NEW v, OffList(s, v, h, id)
  PROVE  Result(s, handler_accept(v, h, id)) /\ Result(s, handler_reject(v, h, id))
<1> DEFINE at == findHandlerItem(v, h)
           i == findAskerItemById(v, id)
           u == Off(v, at, id)
           X == ToSet(s.g.askers)
           O == {id} \cap {x.id : x \in X}
           a == v.g.askers[i].a
           w == Answer(v.as, a, TRUE)
           t == SetAs(u, w)
           r == reject(u, i)
<1>1. Good(s, {}) /\ Registered(s) /\ s \in States
  BY DEF Consistent, Good
<1>2. v \in States /\ v.g = s.g /\ v.as = s.as
  BY DEF OffList
<1>3. handler_accept(v, h, id) = IF i = 0 THEN v ELSE t
  BY Zenon DEF handler_accept, Off, SetH, SetIds, SetAs, Answer
<1>4. handler_reject(v, h, id) = IF i = 0 THEN v ELSE r
  BY Zenon DEF handler_reject, Off, SetH, SetIds
<1>5. \/ i = 0 /\ \A x \in X : x.id # id
      \/ i \in 1..Len(s.g.askers) /\ s.g.askers[i].id = id
  <2>1. \/ i = 0 /\ \A j \in 1..Len(v.g.askers) : v.g.askers[j].id # id
        \/ i \in 1..Len(v.g.askers) /\ v.g.askers[i].id = id
    BY <1>2, FindItemById
  <2>2. \A x \in X : \E j \in 1..Len(s.g.askers) : s.g.askers[j] = x
    BY <1>1, ViewFacts
  <2> HIDE DEF i, X
  <2>3. ASSUME NEW x \in X, x.id = id, \A j \in 1..Len(v.g.askers) : v.g.askers[j].id # id PROVE FALSE
    <3>1. PICK j \in 1..Len(s.g.askers) : s.g.askers[j] = x
      BY <2>2
    <3> QED BY <1>2, <2>3, <3>1
  <2> QED BY <1>2, <2>1, <2>3
<1>6. /\ at \in 1..Len(s.g.handlers) /\ Same(h, s.g.handlers[at].h) /\ s.g.handlers # <<>>
      /\ Taken(s, u, h, at, id)
      /\ (\A x \in X : x.id # id) => Taken(s, v, h, at, id)
  <2>1. Same(at, findHandlerItem(v, h))
    BY DEF Same
  <2> HIDE DEF at
  <2> QED BY <1>1, <2>1, OffTaken
<1> HIDE DEF at, i, u
<1>7. CASE i = 0
  <2>1. \A x \in X : x.id # id
    BY <1>5, <1>7
  <2>2. O = {}
    BY <2>1
  <2>3. Good(v, O) /\ Frame(s, v)
    <3>1. Taken(s, v, h, at, id)
      BY <1>6, <2>1
    <3> HIDE DEF O
    <3>2. Good(v, {id} \cap {x.id : x \in ToSet(s.g.askers)}) /\ Frame(s, v)
      BY <1>1, <1>6, <3>1, GoodTaken
    <3> QED BY <3>2 DEF O
  <2>4. Registered(v)
    BY <1>1, <1>2, <1>6, <2>3, StillRegistered
  <2>5. Follows(s, v)
    <3>1. Same(v.g.askers, s.g.askers)
      BY <1>2 DEF Same
    <3> QED BY <3>1, FollowsSame
  <2>6. Result(s, v)
    BY <2>2, <2>3, <2>4, <2>5 DEF Result, Consistent
  <2> QED BY <1>3, <1>4, <1>7, <2>6
<1>8. CASE i # 0
  <2>1. i \in 1..Len(s.g.askers) /\ s.g.askers[i].id = id
    BY <1>5, <1>8
  <2>2. s.g.askers[i] \in X
    BY <1>1, <2>1, ViewFacts
  <2>3. O = {id}
    BY <2>1, <2>2
  <2>4. Good(u, {id}) /\ Frame(s, u)
    <3> HIDE DEF O
    <3>2. Good(u, {id} \cap {x.id : x \in ToSet(s.g.askers)}) /\ Frame(s, u)
      BY <1>1, <1>6, GoodTaken
    <3> QED BY <2>3, <3>2 DEF O
  <2>5. u \in States /\ u.as = s.as /\ u.g.askers = s.g.askers
    BY <1>6 DEF Taken
  <2>6. i \in 1..Len(u.g.askers) /\ u.g.askers[i].id = id
    BY <2>1, <2>5
  <2>7. Result(s, r)
    <3>1. u.g.askers[i].id \in {id}
      BY <2>6
    <3>2. Good(r, {id} \ {u.g.askers[i].id}) /\ Frame(u, r) /\ OthersStay(u, r, i)
      BY <2>4, <2>6, <3>1, GoodReject
    <3> HIDE DEF r
    <3>3. Good(r, {})
      <4>1. {id} \ {u.g.askers[i].id} = {}
        BY <2>6
      <4> QED BY <3>2, <4>1
    <3>4. Frame(s, r) /\ r \in States
      BY <2>4, <3>2, FrameTransitive DEF Good
    <3>5. Registered(r)
      BY <1>1, <1>6, <3>4, StillRegistered
    <3>6. Follows(s, r)
      <4> SUFFICES ASSUME NEW x \in ToSet(s.g.askers)
                   PROVE  \/ \E y \in ToSet(r.g.askers) : y.id = x.id
                          \/ \A k \in 1..Len(r.g.handlers) : r.g.handlers[k].h \in x.tried
        BY DEF Follows
      <4>1. x \in ToSet(u.g.askers)
        BY <2>5
      <4>2. CASE x.id # u.g.askers[i].id
        BY <3>2, <4>1, <4>2 DEF OthersStay
      <4>3. CASE x.id = u.g.askers[i].id
        <5>1. x = u.g.askers[i]
          BY <2>4, <2>6, <4>1, <4>3, ItemFacts
        <5>2. Len(r.g.handlers) = Len(u.g.handlers) /\ \A k \in 1..Len(u.g.handlers) : r.g.handlers[k].h = u.g.handlers[k].h
          BY <3>2 DEF Frame
        <5> QED BY <3>2, <5>1, <5>2 DEF OthersStay
      <4> QED BY <4>2, <4>3
    <3> QED BY <3>3, <3>5, <3>6 DEF Result, Consistent
  <2>8. Result(s, t)
    <3> DEFINE n == Len(u.g.handlers)
               x == u.g.askers[i]
               U == ToSet(u.g.askers)
    <3>0. x.a = a /\ u.as = v.as
      BY <1>2, <2>5
    <3>1. x \in U /\ x.a \in Askers /\ x.id = id
      BY <2>4, <2>6, ItemFacts
    <3>2. u.as \in [Askers -> AskerStates]
      BY <2>5, StateFacts
    <3>3. /\ w \in [Askers -> AskerStates] /\ \A c \in Askers : c # a => w[c] = u.as[c]
          /\ w[a].done /\ w[a].cancelled = u.as[a].cancelled
          /\ w[a].again = u.as[a].again /\ w[a].id = u.as[a].id
      <4>1. v.as \in [Askers -> AskerStates] /\ a \in Askers /\ TRUE \in BOOLEAN
        BY <3>0, <3>1, <3>2
      <4> HIDE DEF a
      <4>2. /\ w \in [Askers -> AskerStates] /\ \A c \in Askers : c # a => w[c] = v.as[c]
            /\ w[a].done /\ w[a].cancelled = v.as[a].cancelled
            /\ w[a].again = v.as[a].again /\ w[a].id = v.as[a].id
        BY <4>1, RespondTo, Zenon
      <4> HIDE DEF w
      <4> QED BY <3>0, <4>2
    <3> HIDE DEF a, w
    <3>4. t \in States /\ t.g = u.g /\ t.hs = u.hs /\ t.as = w
      BY <2>5, <3>3, Setters
    <3> HIDE DEF t
    <3>5. Sound(n, Hd(u), Held(u), U, u.g.next_id, Box(u), u.as, {x.id})
      BY <2>4, <3>1 DEF Good
    <3>6. AcceptStep(U, u.as, x, w)
      <4> HIDE DEF x, U
      <4> QED BY <3>0, <3>1, <3>3 DEF AcceptStep
    <3>7. Sound(n, Hd(u), Held(u), U, u.g.next_id, Box(u), w, {})
      <4> HIDE DEF x, U, n
      <4> QED BY <3>5, <3>6, ViewAccept
    <3>8. Hd(t) = Hd(u) /\ Held(t) = Held(u) /\ Box(t) = Box(u)
      BY <3>4 DEF Hd, Held, Box
    <3>9. Once(t)
      BY <2>4, <3>4 DEF Good, Once
    <3>10. Good(t, {})
      BY <3>4, <3>7, <3>8, <3>9 DEF Good
    <3>11. Frame(s, t)
      BY <2>4, <3>4 DEF Frame
    <3>12. Registered(t)
      BY <1>1, <1>6, <3>4, <3>11, StillRegistered
    <3>13. Follows(s, t)
      <4>1. Same(t.g.askers, s.g.askers)
        BY <2>5, <3>4 DEF Same
      <4> QED BY <4>1, FollowsSame
    <3> QED BY <3>10, <3>12, <3>13 DEF Result, Consistent
  <2> QED BY <1>3, <1>4, <1>8, <2>7, <2>8
<1> QED BY <1>7, <1>8


------------------------------------------------------------------------------
(* The steps of a handler                                                  *)

SetPhase(hh, h, ph) == [hh EXCEPT ![h].phase = ph]

LEMMA PhaseReplaced ==
  ASSUME NEW hh \in [Handlers -> HandlerStates], NEW h \in Handlers, NEW ph \in {"off", "started", "dying"}
  PROVE  /\ SetPhase(hh, h, ph) \in [Handlers -> HandlerStates]
         /\ \A m \in Handlers : m # h => SetPhase(hh, h, ph)[m] = hh[m]
         /\ SetPhase(hh, h, ph)[h].inbox = hh[h].inbox
         /\ SetPhase(hh, h, ph)[h].activeIds = hh[h].activeIds
         /\ SetPhase(hh, h, ph)[h].phase = ph
<1> DEFINE r == [hh[h] EXCEPT !.phase = ph]
           L == [hh EXCEPT ![h] = r]
<1>1. hh[h] \in HandlerStates
  OBVIOUS
<1>2. r \in HandlerStates /\ r.inbox = hh[h].inbox /\ r.activeIds = hh[h].activeIds /\ r.phase = ph
  BY <1>1 DEF HandlerStates
<1> HIDE DEF r
<1>3. L \in [Handlers -> HandlerStates] /\ \A m \in Handlers : L[m] = IF m = h THEN r ELSE hh[m]
  BY <1>2
<1>4. SetPhase(hh, h, ph) = L
  BY DEF r, SetPhase
<1> HIDE DEF L
<1> QED BY <1>2, <1>3, <1>4

(* every handler has been given the same *)
SameBoxes(s, t) ==
    \A m \in Handlers : ToSet(t.hs[m].inbox) \cup ToSet(t.hs[m].activeIds) = ToSet(s.hs[m].inbox) \cup ToSet(s.hs[m].activeIds)

LEMMA SameView ==
  ASSUME NEW s \in States, NEW t \in States, SameBoxes(s, t)
  PROVE  Box(t) = Box(s)
<1>1. Box(s) \in [Handlers -> SUBSET Nat] /\ Box(t) \in [Handlers -> SUBSET Nat]
  BY ViewFacts
<1>2. \A m \in Handlers : Box(s)[m] = ToSet(s.hs[m].inbox) \cup ToSet(s.hs[m].activeIds)
  BY ViewFacts
<1>3. \A m \in Handlers : Box(t)[m] = ToSet(t.hs[m].inbox) \cup ToSet(t.hs[m].activeIds)
  BY ViewFacts
<1>4. \A m \in Handlers : Box(t)[m] = Box(s)[m]
  BY <1>2, <1>3 DEF SameBoxes
<1> QED BY <1>1, <1>4

(* a handler moves ids between its lists, or begins to go *)
Rearranged(s, t, h) ==
    /\ t \in States /\ t.g = s.g /\ t.as = s.as
    /\ \A m \in Handlers : m # h => t.hs[m] = s.hs[m]
    /\ t.hs[h].phase # "off"
    /\ Distinct(t.hs[h].inbox) /\ Distinct(t.hs[h].activeIds)
    /\ ToSet(t.hs[h].inbox) \cap ToSet(t.hs[h].activeIds) = {}
    /\ ToSet(t.hs[h].inbox) \cup ToSet(t.hs[h].activeIds) = ToSet(s.hs[h].inbox) \cup ToSet(s.hs[h].activeIds)

LEMMA GoodRearranged ==
  ASSUME NEW s, Consistent(s), NEW h \in Handlers, s.hs[h].phase # "off", NEW t, Rearranged(s, t, h)
  PROVE  Result(s, t)
<1> USE DEF Rearranged
<1>1. Good(s, {}) /\ Registered(s) /\ s \in States
  BY DEF Consistent, Good
<1>2. \A m \in Handlers : m # h => t.hs[m] = s.hs[m]
  OBVIOUS
<1>3. SameBoxes(s, t)
  BY <1>2 DEF SameBoxes
<1>4. Box(t) = Box(s)
  BY <1>1, <1>3, SameView
<1>5. Hd(t) = Hd(s) /\ Held(t) = Held(s)
  BY DEF Hd, Held
<1>6. Once(t)
  <2>1. Once(s)
    BY <1>1 DEF Good
  <2>2. ASSUME NEW k \in 1..Len(s.g.handlers)
        PROVE  /\ Distinct(s.g.handlers[k].ids)
               /\ Distinct(t.hs[s.g.handlers[k].h].inbox) /\ Distinct(t.hs[s.g.handlers[k].h].activeIds)
               /\ ToSet(t.hs[s.g.handlers[k].h].inbox) \cap ToSet(t.hs[s.g.handlers[k].h].activeIds) = {}
    <3>1. /\ Distinct(s.g.handlers[k].ids)
          /\ Distinct(s.hs[s.g.handlers[k].h].inbox) /\ Distinct(s.hs[s.g.handlers[k].h].activeIds)
          /\ ToSet(s.hs[s.g.handlers[k].h].inbox) \cap ToSet(s.hs[s.g.handlers[k].h].activeIds) = {}
      BY <2>1 DEF Once
    <3>2. s.g.handlers[k].h \in Handlers
      BY <1>1, ViewFacts
    <3>3. CASE s.g.handlers[k].h = h
      BY <3>1, <3>3
    <3>4. CASE s.g.handlers[k].h # h
      <4>1. t.hs[s.g.handlers[k].h] = s.hs[s.g.handlers[k].h]
        BY <3>2, <3>4
      <4> QED BY <3>1, <4>1
    <3> QED BY <3>3, <3>4
  <2>3. \A i, j \in 1..Len(s.g.askers) : s.g.askers[i].id = s.g.askers[j].id => i = j
    BY <2>1 DEF Once
  <2> QED BY <2>2, <2>3 DEF Once
<1>7. Good(t, {})
  BY <1>1, <1>4, <1>5, <1>6 DEF Good
<1>8. Registered(t)
  <2>1. ASSUME NEW m \in Handlers
        PROVE  /\ t.hs[m].phase # "off" <=> \E k \in 1..Len(s.g.handlers) : s.g.handlers[k].h = m
               /\ t.hs[m].phase = "off" => t.hs[m].inbox = <<>> /\ t.hs[m].activeIds = <<>>
    <3>1. /\ s.hs[m].phase # "off" <=> \E k \in 1..Len(s.g.handlers) : s.g.handlers[k].h = m
          /\ s.hs[m].phase = "off" => s.hs[m].inbox = <<>> /\ s.hs[m].activeIds = <<>>
      BY <1>1 DEF Registered
    <3>2. CASE m = h
      BY <3>1, <3>2
    <3>3. CASE m # h
      <4>1. t.hs[m] = s.hs[m]
        BY <3>3
      <4> QED BY <3>1, <4>1
    <3> QED BY <3>2, <3>3
  <2>2. (s.g.on <=> s.g.handlers # <<>>) /\ (~s.g.on => s.g = NoGlobal)
    BY <1>1 DEF Registered
  <2>3. t.g = s.g
    OBVIOUS
  <2>4. (t.g.on <=> t.g.handlers # <<>>) /\ (~t.g.on => t.g = NoGlobal)
    BY <2>2, <2>3, Zenon
  <2>5. \A m \in Handlers :
           /\ t.hs[m].phase # "off" <=> \E k \in 1..Len(t.g.handlers) : t.g.handlers[k].h = m
           /\ t.hs[m].phase = "off" => t.hs[m].inbox = <<>> /\ t.hs[m].activeIds = <<>>
    BY <2>1, <2>3
  <2> HIDE DEF Rearranged
  <2> QED BY <2>4, <2>5, Zenon DEF Registered
<1>9. Follows(s, t)
  <2>1. Same(t.g.askers, s.g.askers)
    BY DEF Same
  <2> QED BY <2>1, FollowsSame
<1> QED BY <1>7, <1>8, <1>9 DEF Result, Consistent

LEMMA HandlerDestroyed ==
  ASSUME NEW s, Consistent(s), NEW h \in Handlers, s.hs[h].phase # "off"
  PROVE  Result(s, SetHs(s, SetPhase(s.hs, h, "dying")))
<1> DEFINE hh == SetPhase(s.hs, h, "dying")
           t == SetHs(s, hh)
<1>1. Good(s, {}) /\ Registered(s) /\ s \in States
  BY DEF Consistent, Good
<1>2. s.hs \in [Handlers -> HandlerStates]
  BY <1>1, StateFacts
<1>3. /\ hh \in [Handlers -> HandlerStates] /\ \A m \in Handlers : m # h => hh[m] = s.hs[m]
      /\ hh[h].inbox = s.hs[h].inbox /\ hh[h].activeIds = s.hs[h].activeIds /\ hh[h].phase = "dying"
  <2>1. "dying" \in {"off", "started", "dying"}
    OBVIOUS
  <2> QED BY <1>2, <2>1, PhaseReplaced
<1> HIDE DEF hh
<1>4. t \in States /\ t.g = s.g /\ t.hs = hh /\ t.as = s.as
  BY <1>1, <1>3, Setters
<1> HIDE DEF t
<1>5. PICK k \in 1..Len(s.g.handlers) : s.g.handlers[k].h = h
  BY <1>1 DEF Registered
<1>6. /\ Distinct(s.hs[h].inbox) /\ Distinct(s.hs[h].activeIds)
      /\ ToSet(s.hs[h].inbox) \cap ToSet(s.hs[h].activeIds) = {}
  BY <1>1, <1>5 DEF Good, Once
<1>7. Rearranged(s, t, h)
  BY <1>3, <1>4, <1>6 DEF Rearranged
<1>8. Result(s, t)
  BY <1>7, GoodRearranged
<1> QED BY <1>8 DEF t, hh

LEMMA QuestionShown ==
  ASSUME NEW s, Consistent(s), NEW h \in Handlers, s.hs[h].phase # "off", s.hs[h].inbox # <<>>
  PROVE  Result(s, SetHs(s, SetActive(SetInbox(s.hs, h, Tail(s.hs[h].inbox)), h,
                                      Append(s.hs[h].activeIds, Head(s.hs[h].inbox)))))
<1> DEFINE q == s.hs[h].inbox
           c == s.hs[h].activeIds
           b == Tail(q)
           d == Append(c, Head(q))
           h1 == SetInbox(s.hs, h, b)
           h2 == SetActive(h1, h, d)
           t == SetHs(s, h2)
<1>1. Good(s, {}) /\ Registered(s) /\ s \in States
  BY DEF Consistent, Good
<1>2. s.hs \in [Handlers -> HandlerStates]
  BY <1>1, StateFacts
<1>3. q \in Seq(Nat) /\ c \in Seq(Nat)
  BY <1>1, ViewFacts
<1>4. PICK k \in 1..Len(s.g.handlers) : s.g.handlers[k].h = h
  BY <1>1 DEF Registered
<1>5. Distinct(q) /\ Distinct(c) /\ ToSet(q) \cap ToSet(c) = {}
  BY <1>1, <1>4 DEF Good, Once
<1>6. q # <<>>
  OBVIOUS
<1> HIDE DEF q, c
<1>7. /\ b \in Seq(Nat) /\ Head(q) \in Nat /\ ToSet(q) = ToSet(b) \cup {Head(q)}
      /\ Distinct(b) /\ Head(q) \notin ToSet(b)
  BY <1>3, <1>5, <1>6, TailElements
<1>8. d \in Seq(Nat) /\ ToSet(d) = ToSet(c) \cup {Head(q)} /\ Distinct(d)
  <2>1. Head(q) \notin ToSet(c)
    BY <1>5, <1>7
  <2> QED BY <1>3, <1>5, <1>7, <2>1, AppendElements
<1> HIDE DEF b, d
<1>9. /\ h1 \in [Handlers -> HandlerStates] /\ \A m \in Handlers : m # h => h1[m] = s.hs[m]
      /\ h1[h].inbox = b /\ h1[h].phase = s.hs[h].phase
  <2>1. b \in IdLists
    BY <1>7 DEF IdLists
  <2> QED BY <1>2, <2>1, InboxReplaced
<1> HIDE DEF h1
<1>10. /\ h2 \in [Handlers -> HandlerStates] /\ \A m \in Handlers : m # h => h2[m] = h1[m]
       /\ h2[h].inbox = h1[h].inbox /\ h2[h].activeIds = d /\ h2[h].phase = h1[h].phase
  <2>1. d \in IdLists /\ h1 \in [Handlers -> HandlerStates]
    BY <1>8, <1>9 DEF IdLists
  <2> QED BY <2>1, ActiveReplaced
<1> HIDE DEF h2
<1>11. t \in States /\ t.g = s.g /\ t.hs = h2 /\ t.as = s.as
  BY <1>1, <1>10, Setters
<1> HIDE DEF t
<1>12. Rearranged(s, t, h)
  <2>1. \A m \in Handlers : m # h => t.hs[m] = s.hs[m]
    BY <1>9, <1>10, <1>11
  <2>2. t.hs[h].phase # "off" /\ t.hs[h].inbox = b /\ t.hs[h].activeIds = d
    BY <1>9, <1>10, <1>11
  <2>3. ToSet(b) \cap ToSet(d) = {} /\ ToSet(b) \cup ToSet(d) = ToSet(q) \cup ToSet(c)
    BY <1>5, <1>7, <1>8
  <2> QED BY <1>7, <1>8, <1>11, <2>1, <2>2, <2>3 DEF Rearranged, q, c
<1>13. Result(s, t)
  BY <1>12, GoodRearranged
<1> QED BY <1>13 DEF t, h2, h1, b, d, q, c


(* the first handler finds no EventGlobal *)
Opened == [NoGlobal EXCEPT !.on = TRUE]

LEMMA GlobalFacts ==
  /\ NoGlobal \in Globals /\ ~NoGlobal.on /\ NoGlobal.handlers = <<>> /\ NoGlobal.askers = <<>>
  /\ NoGlobal.next_id = 0
  /\ Opened \in Globals /\ Opened.on /\ Opened.handlers = <<>> /\ Opened.askers = <<>>
  /\ Opened.next_id = 0
<1>1. NoGlobal \in Globals
  BY DEF NoGlobal, Globals
<1>2. ~NoGlobal.on /\ NoGlobal.handlers = <<>> /\ NoGlobal.askers = <<>> /\ NoGlobal.next_id = 0
  BY DEF NoGlobal
<1>3. Opened \in Globals
  BY <1>1 DEF Globals, Opened
<1>4. Opened.on /\ Opened.handlers = <<>> /\ Opened.askers = <<>> /\ Opened.next_id = 0
  BY <1>2 DEF Opened, NoGlobal
<1> QED BY <1>1, <1>2, <1>3, <1>4

(* handler h is registered at the end *)
Added(s, t, h) ==
    /\ t \in States /\ t.as = s.as /\ t.g.on /\ t.g.next_id = s.g.next_id
    /\ t.g.askers = s.g.askers
    /\ Len(t.g.handlers) = Len(s.g.handlers) + 1
    /\ \A k \in 1..Len(s.g.handlers) : t.g.handlers[k] = s.g.handlers[k]
    /\ t.g.handlers[Len(s.g.handlers) + 1].h = h
    /\ t.g.handlers[Len(s.g.handlers) + 1].ids = <<>>
    /\ \A m \in Handlers : m # h => t.hs[m] = s.hs[m]
    /\ t.hs[h].phase = "started" /\ t.hs[h].inbox = s.hs[h].inbox /\ t.hs[h].activeIds = s.hs[h].activeIds

LEMMA HandlerStarted ==
  ASSUME NEW s, Consistent(s), NEW h \in Handlers, s.hs[h].phase = "off"
  PROVE  Added(s, handler_add(SetHs(s, SetPhase(s.hs, h, "started")), h), h)
<1> DEFINE hh == SetPhase(s.hs, h, "started")
           v == SetHs(s, hh)
           u == IF v.g.on THEN v ELSE SetG(v, Opened)
           x == [h |-> h, ids |-> <<>>]
           H == Append(u.g.handlers, x)
           t == SetH(u, H)
<1>1. Good(s, {}) /\ Registered(s) /\ s \in States
  BY DEF Consistent, Good
<1>2. s.hs \in [Handlers -> HandlerStates] /\ s.g \in Globals /\ s.g.handlers \in Seq(HandlerItems)
  BY <1>1, StateFacts
<1>3. /\ hh \in [Handlers -> HandlerStates] /\ \A m \in Handlers : m # h => hh[m] = s.hs[m]
      /\ hh[h].inbox = s.hs[h].inbox /\ hh[h].activeIds = s.hs[h].activeIds /\ hh[h].phase = "started"
  <2>1. "started" \in {"off", "started", "dying"}
    OBVIOUS
  <2> QED BY <1>2, <2>1, PhaseReplaced
<1> HIDE DEF hh
<1>4. v \in States /\ v.g = s.g /\ v.hs = hh /\ v.as = s.as
  BY <1>1, <1>3, Setters
<1>5. handler_add(v, h) = t
  BY Zenon DEF handler_add, SetG, SetH, Opened
<1> HIDE DEF v
<1>6. /\ u \in States /\ u.g.on /\ u.g.handlers = s.g.handlers /\ u.g.askers = s.g.askers
      /\ u.g.next_id = s.g.next_id /\ u.hs = v.hs /\ u.as = v.as
  <2>1. CASE s.g.on
    BY <1>2, <1>4, <2>1
  <2>2. CASE ~s.g.on
    <3>1. s.g = NoGlobal
      BY <1>1, <2>2, Zenon DEF Registered
    <3>2. u = SetG(v, Opened)
      BY <1>4, <2>2
    <3>3. Opened \in Globals
      BY GlobalFacts
    <3>4. u \in States /\ u.g = Opened /\ u.hs = v.hs /\ u.as = v.as
      BY <1>4, <3>2, <3>3, Setters
    <3> HIDE DEF u
    <3> QED BY <3>1, <3>4, GlobalFacts
  <2> QED BY <2>1, <2>2
<1> HIDE DEF u
<1>8. x \in HandlerItems /\ x.h = h /\ x.ids = <<>>
  BY DEF HandlerItems
<1> HIDE DEF x
<1>9. /\ H \in Seq(HandlerItems) /\ Len(H) = Len(s.g.handlers) + 1
      /\ \A k \in 1..Len(s.g.handlers) : H[k] = s.g.handlers[k]
      /\ H[Len(s.g.handlers) + 1] = x
  <2>1. u.g.handlers = s.g.handlers
    BY <1>6
  <2> QED BY <1>2, <1>8, <2>1
<1> HIDE DEF H
<1>10. /\ t \in States /\ t.g.handlers = H /\ t.g.askers = u.g.askers /\ t.g.on = u.g.on
       /\ t.g.next_id = u.g.next_id /\ t.hs = u.hs /\ t.as = u.as
  BY <1>6, <1>9, Setters
<1> HIDE DEF t
<1>11. t.g.on /\ t.g.next_id = s.g.next_id /\ t.g.askers = s.g.askers /\ t.as = s.as /\ t.hs = hh
  BY <1>4, <1>6, <1>10
<1>12. Added(s, t, h)
  BY <1>3, <1>8, <1>9, <1>10, <1>11 DEF Added
<1> QED BY <1>5, <1>12, Zenon DEF v, hh

LEMMA GoodAdded ==
  ASSUME NEW s, Consistent(s), NEW h \in Handlers, s.hs[h].phase = "off", NEW t, Added(s, t, h)
  PROVE  Result(s, t)
<1> DEFINE n == Len(s.g.handlers)
           X == ToSet(s.g.askers)
<1>1. Good(s, {}) /\ Registered(s) /\ s \in States
  BY DEF Consistent, Good
<1>2. Once(s) /\ Sound(n, Hd(s), Held(s), X, s.g.next_id, Box(s), s.as, {})
  BY <1>1 DEF Good
<1>3. t \in States /\ t.as = s.as /\ t.g.on /\ t.g.next_id = s.g.next_id /\ t.g.askers = s.g.askers
      /\ Len(t.g.handlers) = n + 1
  BY DEF Added
<1>4. /\ \A k \in 1..n : t.g.handlers[k] = s.g.handlers[k]
      /\ t.g.handlers[n + 1].h = h /\ t.g.handlers[n + 1].ids = <<>>
  BY DEF Added
<1>5. /\ \A m \in Handlers : m # h => t.hs[m] = s.hs[m]
      /\ t.hs[h].phase = "started" /\ t.hs[h].inbox = s.hs[h].inbox /\ t.hs[h].activeIds = s.hs[h].activeIds
  BY DEF Added
<1>6. /\ ~\E k \in 1..n : s.g.handlers[k].h = h
      /\ s.hs[h].inbox = <<>> /\ s.hs[h].activeIds = <<>>
  BY <1>1 DEF Registered
<1>7. SameBoxes(s, t)
  BY <1>5 DEF SameBoxes
<1>8. Box(t) = Box(s)
  BY <1>1, <1>3, <1>7, SameView
<1>9. n \in Nat /\ \A k \in 1..n : /\ Hd(s)[k] = s.g.handlers[k].h
                                   /\ Held(s)[k] = ToSet(s.g.handlers[k].ids)
  BY <1>1, ViewFacts
<1>10. /\ Hd(t) \in [1..(n + 1) -> Handlers] /\ Held(t) \in [1..(n + 1) -> SUBSET Nat]
       /\ \A k \in 1..(n + 1) : Hd(t)[k] = t.g.handlers[k].h /\ Held(t)[k] = ToSet(t.g.handlers[k].ids)
  BY <1>3, ViewFacts
<1>11. ToSet(<<>>) = {} /\ Distinct(<<>>)
  BY DEF ToSet, Distinct
<1>12. Box(s)[h] = {}
  <2>1. Box(s)[h] = ToSet(s.hs[h].inbox) \cup ToSet(s.hs[h].activeIds)
    BY <1>1, ViewFacts
  <2> QED BY <1>6, <1>11, <2>1
<1>13. \A k \in 1..n : k \in 1..(n + 1)
  BY <1>9
<1>14. n + 1 \in 1..(n + 1) /\ n + 1 \in Nat
  BY <1>9
<1>15. AddStep(n, Hd(s), Held(s), Box(s), h, Hd(t), Held(t))
  <2>1. \A k \in 1..n : Hd(t)[k] = Hd(s)[k] /\ Held(t)[k] = Held(s)[k]
    BY <1>4, <1>9, <1>10, <1>13
  <2>2. Hd(t)[n + 1] = h /\ Held(t)[n + 1] = {}
    BY <1>4, <1>10, <1>11, <1>14
  <2>3. \A k \in 1..n : Hd(s)[k] # h
    BY <1>6, <1>9
  <2> QED BY <1>10, <1>12, <2>1, <2>2, <2>3 DEF AddStep
<1>16. Sound(n + 1, Hd(t), Held(t), X, s.g.next_id, Box(s), s.as, {})
  BY <1>2, <1>15, ViewAdd
<1>17. Once(t)
  <2>1. ASSUME NEW k \in 1..(n + 1)
        PROVE  /\ Distinct(t.g.handlers[k].ids)
               /\ Distinct(t.hs[t.g.handlers[k].h].inbox) /\ Distinct(t.hs[t.g.handlers[k].h].activeIds)
               /\ ToSet(t.hs[t.g.handlers[k].h].inbox) \cap ToSet(t.hs[t.g.handlers[k].h].activeIds) = {}
    <3>1. CASE k = n + 1
      BY <1>4, <1>5, <1>6, <1>11, <3>1
    <3>2. CASE k # n + 1
      <4>1. k \in 1..n
        BY <1>9, <3>2
      <4>2. /\ Distinct(s.g.handlers[k].ids)
            /\ Distinct(s.hs[s.g.handlers[k].h].inbox) /\ Distinct(s.hs[s.g.handlers[k].h].activeIds)
            /\ ToSet(s.hs[s.g.handlers[k].h].inbox) \cap ToSet(s.hs[s.g.handlers[k].h].activeIds) = {}
        BY <1>2, <4>1 DEF Once
      <4>3. s.g.handlers[k].h \in Handlers
        BY <1>1, <4>1, ViewFacts
      <4>4. t.g.handlers[k] = s.g.handlers[k] /\ t.hs[s.g.handlers[k].h] = s.hs[s.g.handlers[k].h]
        BY <1>4, <1>5, <1>6, <4>1, <4>3
      <4> QED BY <4>2, <4>4
    <3> QED BY <3>1, <3>2
  <2>2. \A i, j \in 1..Len(s.g.askers) : s.g.askers[i].id = s.g.askers[j].id => i = j
    BY <1>2 DEF Once
  <2> QED BY <1>3, <2>1, <2>2 DEF Once
<1>18. Good(t, {})
  BY <1>3, <1>8, <1>16, <1>17 DEF Good
<1>19. Registered(t)
  <2>1. t.g.handlers # <<>>
    BY <1>3, <1>9
  <2>2. ASSUME NEW m \in Handlers
        PROVE  /\ t.hs[m].phase # "off" <=> \E k \in 1..Len(t.g.handlers) : t.g.handlers[k].h = m
               /\ t.hs[m].phase = "off" => t.hs[m].inbox = <<>> /\ t.hs[m].activeIds = <<>>
    <3>1. /\ s.hs[m].phase # "off" <=> \E k \in 1..n : s.g.handlers[k].h = m
          /\ s.hs[m].phase = "off" => s.hs[m].inbox = <<>> /\ s.hs[m].activeIds = <<>>
      BY <1>1 DEF Registered
    <3>2. CASE m = h
      BY <1>3, <1>4, <1>5, <1>14, <3>2
    <3>3. CASE m # h
      <4>1. t.hs[m] = s.hs[m]
        BY <1>5, <3>3
      <4>2. (\E k \in 1..n : s.g.handlers[k].h = m) => \E k \in 1..(n + 1) : t.g.handlers[k].h = m
        BY <1>4, <1>13
      <4>3. ASSUME NEW k \in 1..(n + 1), t.g.handlers[k].h = m PROVE \E l \in 1..n : s.g.handlers[l].h = m
        <5>0. k # n + 1
          BY <1>4, <3>3, <4>3
        <5>1. k \in 1..n
          BY <1>9, <5>0
        <5> QED BY <1>4, <4>3, <5>1
      <4> QED BY <1>3, <3>1, <4>1, <4>2, <4>3
    <3> QED BY <3>2, <3>3
  <2> QED BY <1>3, <2>1, <2>2 DEF Registered
<1>20. Follows(s, t)
  <2>1. Same(t.g.askers, s.g.askers)
    BY <1>3 DEF Same
  <2> QED BY <2>1, FollowsSame
<1> QED BY <1>18, <1>19, <1>20 DEF Result, Consistent


------------------------------------------------------------------------------
(* The steps of an asker                                                   *)

LEMMA GoodAsker ==
  ASSUME NEW s, Consistent(s), NEW a, NEW w, AskerStep(ToSet(s.g.askers), s.as, a, w)
  PROVE  Result(s, SetAs(s, w))
<1> DEFINE t == SetAs(s, w)
           n == Len(s.g.handlers)
           X == ToSet(s.g.askers)
<1>1. Good(s, {}) /\ Registered(s) /\ s \in States
  BY DEF Consistent, Good
<1>2. Once(s) /\ Sound(n, Hd(s), Held(s), X, s.g.next_id, Box(s), s.as, {})
  BY <1>1 DEF Good
<1>3. w \in [Askers -> AskerStates]
  BY DEF AskerStep
<1>4. t \in States /\ t.g = s.g /\ t.hs = s.hs /\ t.as = w
  BY <1>1, <1>3, Setters
<1> HIDE DEF t
<1>5. Sound(n, Hd(s), Held(s), X, s.g.next_id, Box(s), w, {})
  BY <1>2, ViewAsker
<1>6. Hd(t) = Hd(s) /\ Held(t) = Held(s) /\ Box(t) = Box(s)
  BY <1>4 DEF Hd, Held, Box
<1>7. Once(t)
  BY <1>2, <1>4 DEF Once
<1>8. Good(t, {})
  BY <1>4, <1>5, <1>6, <1>7 DEF Good
<1>9. Registered(t)
  <2>1. (s.g.on <=> s.g.handlers # <<>>) /\ (~s.g.on => s.g = NoGlobal)
    BY <1>1 DEF Registered
  <2>2. \A m \in Handlers :
           /\ s.hs[m].phase # "off" <=> \E k \in 1..Len(s.g.handlers) : s.g.handlers[k].h = m
           /\ s.hs[m].phase = "off" => s.hs[m].inbox = <<>> /\ s.hs[m].activeIds = <<>>
    BY <1>1 DEF Registered
  <2>3. (t.g.on <=> t.g.handlers # <<>>) /\ (~t.g.on => t.g = NoGlobal)
    BY <1>4, <2>1, Zenon
  <2>4. \A m \in Handlers :
           /\ t.hs[m].phase # "off" <=> \E k \in 1..Len(t.g.handlers) : t.g.handlers[k].h = m
           /\ t.hs[m].phase = "off" => t.hs[m].inbox = <<>> /\ t.hs[m].activeIds = <<>>
    BY <1>4, <2>2
  <2> QED BY <2>3, <2>4, Zenon DEF Registered
<1>10. Follows(s, t)
  <2>1. Same(t.g.askers, s.g.askers)
    BY <1>4 DEF Same
  <2> QED BY <2>1, FollowsSame
<1> QED BY <1>8, <1>9, <1>10 DEF Result, Consistent, t

LEMMA WholeSequence ==
  ASSUME NEW T, NEW n \in Nat, NEW f \in [1..n -> T]
  PROVE  SubSeq(f, 1, n) \in Seq(T) /\ Len(SubSeq(f, 1, n)) = n /\ \A k \in 1..n : SubSeq(f, 1, n)[k] = f[k]
<1>1. f \in Seq(T) /\ Len(f) = n
  OBVIOUS
<1> QED BY <1>1

(* all handlers forget an id *)
Dropped(H, id) == SubSeq([k \in DOMAIN H |-> [H[k] EXCEPT !.ids = Without(@, id)]], 1, Len(H))

LEMMA DroppedFacts ==
  ASSUME NEW H \in Seq(HandlerItems), NEW id
  PROVE  /\ Dropped(H, id) \in Seq(HandlerItems) /\ Len(Dropped(H, id)) = Len(H)
         /\ \A k \in 1..Len(H) : /\ Dropped(H, id)[k].h = H[k].h
                                 /\ ToSet(Dropped(H, id)[k].ids) = ToSet(H[k].ids) \ {id}
                                 /\ Distinct(H[k].ids) => Distinct(Dropped(H, id)[k].ids)
<1> DEFINE r(x) == [x EXCEPT !.ids = Without(@, id)]
           n == Len(H)
           f == [k \in 1..n |-> r(H[k])]
           D == Dropped(H, id)
<1>1. n \in Nat /\ DOMAIN H = 1..n /\ \A k \in 1..n : H[k] \in HandlerItems
  OBVIOUS
<1>2. ASSUME NEW x \in HandlerItems
      PROVE  /\ r(x) \in HandlerItems /\ r(x).h = x.h
             /\ ToSet(r(x).ids) = ToSet(x.ids) \ {id} /\ (Distinct(x.ids) => Distinct(r(x).ids))
  <2> DEFINE b == Without(x.ids, id)
  <2>1. x.ids \in IdLists
    BY DEF HandlerItems, IdLists
  <2>2. b \in IdLists /\ ToSet(b) = ToSet(x.ids) \ {id} /\ (Distinct(x.ids) => Distinct(b))
    BY <2>1, WithoutFacts
  <2>3. r(x) = [x EXCEPT !.ids = b]
    BY Zenon
  <2> HIDE DEF b, r
  <2>4. r(x) \in HandlerItems /\ r(x).h = x.h /\ r(x).ids = b
    BY <2>2, <2>3 DEF HandlerItems, IdLists
  <2> QED BY <2>2, <2>4
<1>3. D = SubSeq(f, 1, n)
  BY <1>1, Zenon DEF Dropped
<1> HIDE DEF r
<1>4. f \in [1..n -> HandlerItems] /\ \A k \in 1..n : f[k] = r(H[k])
  BY <1>1, <1>2
<1> HIDE DEF f, D
<1>5. D \in Seq(HandlerItems) /\ Len(D) = n /\ \A k \in 1..n : D[k] = f[k]
  <2> HIDE DEF n
  <2> QED BY <1>1, <1>3, <1>4, WholeSequence
<1>6. ASSUME NEW k \in 1..n
      PROVE  /\ D[k].h = H[k].h /\ ToSet(D[k].ids) = ToSet(H[k].ids) \ {id}
             /\ Distinct(H[k].ids) => Distinct(D[k].ids)
  <2>1. D[k] = r(H[k]) /\ H[k] \in HandlerItems
    BY <1>1, <1>4, <1>5
  <2> QED BY <1>2, <2>1
<1> QED BY <1>5, <1>6 DEF D

(* asker_cancel() in a list that has an item of the asker *)
Cancelled(s, t, i, w) ==
    /\ t \in States /\ t.as = w /\ t.hs = s.hs /\ t.g.on = s.g.on /\ t.g.next_id = s.g.next_id
    /\ t.g.askers = RemoveAt(s.g.askers, i)
    /\ Len(t.g.handlers) = Len(s.g.handlers)
    /\ \A k \in 1..Len(s.g.handlers) :
          /\ t.g.handlers[k].h = s.g.handlers[k].h
          /\ ToSet(t.g.handlers[k].ids) = ToSet(s.g.handlers[k].ids) \ {s.g.askers[i].id}
          /\ Distinct(s.g.handlers[k].ids) => Distinct(t.g.handlers[k].ids)

(* the asker's own part of it *)
CancelledAsker(w, w2, a) ==
    /\ w2 \in [Askers -> AskerStates] /\ \A b \in Askers : b # a => w2[b] = w[b]
    /\ w2[a].done = w[a].done /\ w2[a].accepted = w[a].accepted /\ w2[a].cancelled = ~w[a].done
    /\ w2[a].again = w[a].again /\ w2[a].id = w[a].id /\ w2[a].pc = "idle"

LEMMA GoodCancelled ==
  ASSUME NEW s, Consistent(s), NEW i \in 1..Len(s.g.askers), NEW w, CancelledAsker(s.as, w, s.g.askers[i].a),
         NEW t, Cancelled(s, t, i, w)
  PROVE  /\ Consistent(t)
         /\ \A x \in ToSet(s.g.askers) : x.a # s.g.askers[i].a => x \in ToSet(t.g.askers)
<1> DEFINE n == Len(s.g.handlers)
           A == s.g.askers
           x == A[i]
           X == ToSet(A)
<1>1. Good(s, {}) /\ Registered(s) /\ s \in States
  BY DEF Consistent, Good
<1>2. Once(s) /\ Sound(n, Hd(s), Held(s), X, s.g.next_id, Box(s), s.as, {})
  BY <1>1 DEF Good
<1>3. t \in States /\ t.as = w /\ t.hs = s.hs /\ t.g.on = s.g.on /\ t.g.next_id = s.g.next_id
      /\ t.g.askers = RemoveAt(A, i) /\ Len(t.g.handlers) = n
  BY DEF Cancelled
<1>4. \A k \in 1..n : /\ t.g.handlers[k].h = s.g.handlers[k].h
                      /\ ToSet(t.g.handlers[k].ids) = ToSet(s.g.handlers[k].ids) \ {x.id}
                      /\ Distinct(s.g.handlers[k].ids) => Distinct(t.g.handlers[k].ids)
  BY DEF Cancelled
<1>5. x \in X /\ x.a \in Askers
  BY <1>1, ItemFacts
<1>6. A \in Seq(Items) /\ n \in Nat /\ s.g.handlers \in Seq(HandlerItems)
  BY <1>1, StateFacts
<1> DEFINE L == RemoveAt(A, i)
<1>7. ToSet(L) = X \ {x}
  <2>1. Distinct(A)
    BY <1>1, <1>2, OnceFacts
  <2> QED BY <1>6, <2>1, RemoveAtElements
<1>8. Len(L) = Len(A) - 1 /\ \A j \in 1..(Len(A) - 1) : L[j] = IF j < i THEN A[j] ELSE A[j + 1]
  BY <1>6, RemoveAtFacts
<1> HIDE DEF L
<1>9. Hd(s) \in [1..n -> Handlers] /\ \A k \in 1..n : Hd(s)[k] = s.g.handlers[k].h /\ Held(s)[k] = ToSet(s.g.handlers[k].ids)
  BY <1>1, ViewFacts
<1>10. /\ Hd(t) \in [1..n -> Handlers] /\ Held(t) \in [1..n -> SUBSET Nat]
       /\ \A k \in 1..n : Hd(t)[k] = t.g.handlers[k].h /\ Held(t)[k] = ToSet(t.g.handlers[k].ids)
  BY <1>3, ViewFacts
<1>11. Hd(t) = Hd(s)
  <2>1. \A k \in 1..n : Hd(t)[k] = Hd(s)[k]
    BY <1>4, <1>9, <1>10
  <2>2. Hd(t) \in [1..n -> Handlers] /\ Hd(s) \in [1..n -> Handlers]
    BY <1>9, <1>10
  <2> QED BY <2>1, <2>2
<1>12. \A k \in 1..n : Held(t)[k] = Held(s)[k] \ {x.id}
  BY <1>4, <1>9, <1>10
<1>13. Box(t) = Box(s)
  BY <1>3 DEF Box
<1>14. CancelStep(n, Held(s), X, s.as, x, w, Held(t))
  <2>1. /\ w \in [Askers -> AskerStates] /\ \A b \in Askers : b # x.a => w[b] = s.as[b]
        /\ w[x.a].done = s.as[x.a].done /\ w[x.a].accepted = s.as[x.a].accepted /\ w[x.a].cancelled = ~s.as[x.a].done
        /\ w[x.a].again = s.as[x.a].again /\ w[x.a].id = s.as[x.a].id
    BY DEF CancelledAsker
  <2> HIDE DEF x, X
  <2> QED BY <1>5, <1>10, <1>12, <2>1 DEF CancelStep
<1>15. Sound(n, Hd(s), Held(t), X \ {x}, s.g.next_id, Box(s), w, {})
  <2> HIDE DEF x, X
  <2> QED BY <1>2, <1>14, ViewCancel
<1>16. Once(t)
  <2> DEFINE o(j) == IF j < i THEN j ELSE j + 1
  <2>1. \A j \in 1..Len(L) : L[j] = A[o(j)] /\ o(j) \in 1..Len(A)
    BY <1>6, <1>8
  <2>2. \A j, l \in 1..Len(L) : o(j) = o(l) => j = l
    BY <1>8
  <2> HIDE DEF o
  <2>3. \A j, l \in 1..Len(A) : A[j].id = A[l].id => j = l
    BY <1>2 DEF Once
  <2>4. \A j, l \in 1..Len(t.g.askers) : t.g.askers[j].id = t.g.askers[l].id => j = l
    <3>1. \A j, l \in 1..Len(L) : L[j].id = L[l].id => j = l
      <4> SUFFICES ASSUME NEW j \in 1..Len(L), NEW l \in 1..Len(L), L[j].id = L[l].id
                   PROVE  j = l
        OBVIOUS
      <4>1. A[o(j)].id = A[o(l)].id /\ o(j) \in 1..Len(A) /\ o(l) \in 1..Len(A)
        BY <2>1, Zenon
      <4>2. o(j) = o(l)
        BY <2>3, <4>1, Zenon
      <4> QED BY <2>2, <4>2, Zenon
    <3>2. t.g.askers = L
      BY <1>3 DEF L
    <3> QED BY <3>1, <3>2
  <2>5. ASSUME NEW k \in 1..n
        PROVE  /\ Distinct(t.g.handlers[k].ids)
               /\ Distinct(t.hs[t.g.handlers[k].h].inbox) /\ Distinct(t.hs[t.g.handlers[k].h].activeIds)
               /\ ToSet(t.hs[t.g.handlers[k].h].inbox) \cap ToSet(t.hs[t.g.handlers[k].h].activeIds) = {}
    <3>1. /\ Distinct(s.g.handlers[k].ids)
          /\ Distinct(s.hs[s.g.handlers[k].h].inbox) /\ Distinct(s.hs[s.g.handlers[k].h].activeIds)
          /\ ToSet(s.hs[s.g.handlers[k].h].inbox) \cap ToSet(s.hs[s.g.handlers[k].h].activeIds) = {}
      BY <1>2 DEF Once
    <3> QED BY <1>3, <1>4, <3>1
  <2> QED BY <1>3, <2>4, <2>5 DEF Once
<1>17. Good(t, {})
  BY <1>3, <1>7, <1>11, <1>13, <1>15, <1>16 DEF Good, L
<1>18. Registered(t)
  <2>1. s.g.handlers # <<>>
    <3>1. s.g.on
      <4>1. A # <<>>
        BY <1>6
      <4>2. ~s.g.on => s.g = NoGlobal
        BY <1>1, Zenon DEF Registered
      <4> QED BY <4>1, <4>2, GlobalFacts
    <3> QED BY <1>1, <3>1 DEF Registered
  <2>2. Frame(s, t)
    BY <1>3, <1>4 DEF Frame
  <2> QED BY <1>1, <1>3, <2>1, <2>2, StillRegistered
<1>19. \A z \in X : z.a # x.a => z \in ToSet(t.g.askers)
  BY <1>3, <1>7 DEF L
<1> QED BY <1>17, <1>18, <1>19 DEF Consistent


(* cancelLocked(): where the asker's thread is, and whether its question   *)
(* was open                                                                *)
SetCancelled(w, a) == [w EXCEPT ![a].pc = "idle", ![a].cancelled = ~w[a].done]

LEMMA CancelledFacts ==
  ASSUME NEW w \in [Askers -> AskerStates], NEW a \in Askers
  PROVE  CancelledAsker(w, SetCancelled(w, a), a)
<1> DEFINE c == ~w[a].done
           r == [w[a] EXCEPT !.pc = "idle", !.cancelled = c]
           v == [w EXCEPT ![a] = r]
<1>1. w[a] \in AskerStates /\ c \in BOOLEAN
  OBVIOUS
<1>2. c <=> ~w[a].done
  OBVIOUS
<1>3. w[a].done \in BOOLEAN
  BY <1>1 DEF AskerStates
<1> HIDE DEF c
<1>4. r \in AskerStates
  BY <1>1 DEF AskerStates
<1>5. r.done = w[a].done /\ r.accepted = w[a].accepted /\ r.cancelled = c
      /\ r.again = w[a].again /\ r.id = w[a].id /\ r.pc = "idle"
  BY <1>1 DEF AskerStates
<1>6. SetCancelled(w, a) = v
  BY DEF SetCancelled, c
<1> HIDE DEF r
<1>7. v \in [Askers -> AskerStates] /\ v[a] = r /\ \A b \in Askers : b # a => v[b] = w[b]
  BY <1>4
<1> HIDE DEF v
<1>8. v[a].cancelled = ~w[a].done
  BY <1>5, <1>7 DEF c
<1>9. CancelledAsker(w, v, a)
  BY <1>5, <1>7, <1>8, Zenon DEF CancelledAsker
<1> QED BY <1>6, <1>9

LEMMA QuestionCancelled ==
  ASSUME NEW s, Consistent(s), NEW a \in Askers
  PROVE  /\ Consistent(asker_cancel(SetAs(s, SetCancelled(s.as, a)), a))
         /\ asker_cancel(SetAs(s, SetCancelled(s.as, a)), a).as[a].pc = "idle"
         /\ \A x \in ToSet(s.g.askers) :
               x.a # a => x \in ToSet(asker_cancel(SetAs(s, SetCancelled(s.as, a)), a).g.askers)
<1> DEFINE w == SetCancelled(s.as, a)
           v == SetAs(s, w)
           i == findAskerItem(v, a)
           H == Dropped(v.g.handlers, v.g.askers[i].id)
           L == RemoveAt(v.g.askers, i)
           u == SetH(v, H)
           t == SetA(u, L)
<1>1. Good(s, {}) /\ s \in States
  BY DEF Consistent, Good
<1>2. s.as \in [Askers -> AskerStates] /\ s.g.handlers \in Seq(HandlerItems) /\ s.g.askers \in Seq(Items)
  BY <1>1, StateFacts
<1>3. CancelledAsker(s.as, w, a)
  BY <1>2, CancelledFacts
<1> HIDE DEF w
<1>4. w \in [Askers -> AskerStates]
  BY <1>3 DEF CancelledAsker
<1>5. v \in States /\ v.g = s.g /\ v.hs = s.hs /\ v.as = w
  BY <1>1, <1>4, Setters
<1>5a. w[a].pc = "idle"
  BY <1>3 DEF CancelledAsker
<1>6. asker_cancel(v, a) = IF i = 0 THEN v ELSE t
  BY Zenon DEF asker_cancel, Each, SetA, SetH, Dropped
<1>7. \/ i = 0 /\ \A j \in 1..Len(v.g.askers) : v.g.askers[j].a # a
      \/ i \in 1..Len(v.g.askers) /\ v.g.askers[i].a = a
  BY <1>5, FindItem
<1> HIDE DEF i
<1>8. CASE i = 0
  <2>1. \A x \in ToSet(s.g.askers) : x.a # a
    <3>1. \A x \in ToSet(s.g.askers) : \E j \in 1..Len(s.g.askers) : s.g.askers[j] = x
      BY <1>1, ViewFacts
    <3>2. \A j \in 1..Len(s.g.askers) : s.g.askers[j].a # a
      BY <1>5, <1>7, <1>8
    <3> QED BY <3>1, <3>2
  <2>2. /\ \A b \in Askers : b # a => w[b] = s.as[b]
        /\ w[a].accepted = s.as[a].accepted /\ w[a].cancelled = ~s.as[a].done /\ w[a].done = s.as[a].done
    BY <1>3 DEF CancelledAsker
  <2>3. s.as[a].accepted => s.as[a].done
    <3>1. Own(ToSet(s.g.askers), s.as)
      BY <1>1 DEF Good, Sound
    <3> QED BY <3>1, Zenon DEF Own
  <2>4. AskerStep(ToSet(s.g.askers), s.as, a, w)
    <3>1. w[a].accepted => w[a].done
      BY <2>2, <2>3, Zenon
    <3>2. w[a].cancelled => ~w[a].accepted \/ w[a].again
      BY <2>2, <2>3, Zenon
    <3>3. w[a].done \/ w[a].cancelled
      BY <2>2, Zenon
    <3> QED BY <1>4, <2>1, <2>2, <3>1, <3>2, <3>3 DEF AskerStep
  <2>5. Result(s, v)
    BY <2>4, GoodAsker
  <2>6. Consistent(v)
    BY <2>5 DEF Result
  <2>7. asker_cancel(v, a) = v
    BY <1>6, <1>8
  <2>8. \A x \in ToSet(s.g.askers) : x.a # a => x \in ToSet(v.g.askers)
    BY <1>5
  <2> HIDE DEF v
  <2>9. Consistent(asker_cancel(v, a)) /\ asker_cancel(v, a).as[a].pc = "idle"
        /\ \A x \in ToSet(s.g.askers) : x.a # a => x \in ToSet(asker_cancel(v, a).g.askers)
    BY <1>5, <1>5a, <2>6, <2>7, <2>8
  <2> QED BY <2>9 DEF v, w
<1>9. CASE i # 0
  <2>1. i \in 1..Len(s.g.askers) /\ s.g.askers[i].a = a
    BY <1>5, <1>7, <1>9
  <2> HIDE DEF v
  <2>2. H = Dropped(s.g.handlers, s.g.askers[i].id) /\ L = RemoveAt(s.g.askers, i)
    BY <1>5
  <2> HIDE DEF H, L
  <2>3. /\ H \in Seq(HandlerItems) /\ Len(H) = Len(s.g.handlers)
        /\ \A k \in 1..Len(s.g.handlers) : /\ H[k].h = s.g.handlers[k].h
                                           /\ ToSet(H[k].ids) = ToSet(s.g.handlers[k].ids) \ {s.g.askers[i].id}
                                           /\ Distinct(s.g.handlers[k].ids) => Distinct(H[k].ids)
    <3> DEFINE id == s.g.askers[i].id
               D == Dropped(s.g.handlers, id)
    <3>1. s.g.handlers \in Seq(HandlerItems)
      BY <1>2
    <3>2. H = D
      BY <2>2
    <3> HIDE DEF id
    <3>3. /\ D \in Seq(HandlerItems) /\ Len(D) = Len(s.g.handlers)
          /\ \A k \in 1..Len(s.g.handlers) : /\ D[k].h = s.g.handlers[k].h
                                             /\ ToSet(D[k].ids) = ToSet(s.g.handlers[k].ids) \ {id}
                                             /\ Distinct(s.g.handlers[k].ids) => Distinct(D[k].ids)
      BY <3>1, DroppedFacts
    <3> HIDE DEF D
    <3> QED BY <3>2, <3>3 DEF id
  <2>4. L \in Seq(Items)
    BY <1>2, <2>1, <2>2, RemoveAtFacts
  <2>5. /\ u \in States /\ u.g.handlers = H /\ u.g.on = v.g.on
        /\ u.g.next_id = v.g.next_id /\ u.hs = v.hs /\ u.as = v.as
    BY <1>5, <2>3, Setters
  <2> HIDE DEF u
  <2>6. /\ t \in States /\ t.g.handlers = u.g.handlers /\ t.g.askers = L /\ t.g.on = u.g.on
        /\ t.g.next_id = u.g.next_id /\ t.hs = u.hs /\ t.as = u.as
    BY <2>4, <2>5, Setters
  <2> HIDE DEF t
  <2>7. Cancelled(s, t, i, w)
    <3>1. t.as = w /\ t.hs = s.hs /\ t.g.on = s.g.on /\ t.g.next_id = s.g.next_id /\ t.g.handlers = H
      BY <1>5, <2>5, <2>6
    <3> QED BY <2>2, <2>3, <2>6, <3>1 DEF Cancelled
  <2>8. Consistent(t) /\ \A x \in ToSet(s.g.askers) : x.a # s.g.askers[i].a => x \in ToSet(t.g.askers)
    <3>1. CancelledAsker(s.as, w, s.g.askers[i].a)
      BY <1>3, <2>1
    <3> QED BY <2>1, <2>7, <3>1, GoodCancelled
  <2>9. asker_cancel(v, a) = t
    BY <1>6, <1>9
  <2>10. Consistent(asker_cancel(v, a)) /\ asker_cancel(v, a).as[a].pc = "idle"
         /\ \A x \in ToSet(s.g.askers) : x.a # a => x \in ToSet(asker_cancel(v, a).g.askers)
    BY <1>5a, <2>1, <2>7, <2>8, <2>9 DEF Cancelled
  <2> QED BY <2>10 DEF v, w
<1> QED BY <1>8, <1>9


(* askQuestion(): the asker's own part of it *)
Fresh(x, on, N, again) ==
    [x EXCEPT !.accepted = FALSE, !.done = ~on, !.id = N, !.posted = IF on THEN @ ELSE @ + 1,
              !.cancelled = FALSE, !.again = again]
SetFresh(w, a, on, N, again) == [w EXCEPT ![a] = Fresh(w[a], on, N, again)]

FreshAsker(w, v, a, on, N, again) ==
    /\ v \in [Askers -> AskerStates] /\ \A b \in Askers : b # a => v[b] = w[b]
    /\ ~v[a].accepted /\ ~v[a].cancelled /\ (v[a].done <=> ~on) /\ v[a].id = N
    /\ (v[a].again <=> again)

LEMMA FreshFacts ==
  ASSUME NEW w \in [Askers -> AskerStates], NEW a \in Askers, NEW on \in BOOLEAN, NEW N \in Nat,
         NEW again \in BOOLEAN
  PROVE  FreshAsker(w, SetFresh(w, a, on, N, again), a, on, N, again)
<1> DEFINE d == ~on
           m == IF on THEN w[a].posted ELSE w[a].posted + 1
           r == [w[a] EXCEPT !.accepted = FALSE, !.done = d, !.id = N, !.posted = m,
                             !.cancelled = FALSE, !.again = again]
           v == [w EXCEPT ![a] = r]
<1>1. w[a] \in AskerStates
  OBVIOUS
<1>2. w[a].posted \in Nat
  BY <1>1 DEF AskerStates
<1>3. d \in BOOLEAN /\ (d <=> ~on)
  OBVIOUS
<1>4. m \in Nat
  BY <1>2
<1>5. SetFresh(w, a, on, N, again) = v
  BY Zenon DEF SetFresh, Fresh
<1> HIDE DEF d, m
<1>6. r \in AskerStates
  BY <1>1, <1>3, <1>4 DEF AskerStates
<1>7. ~r.accepted /\ ~r.cancelled /\ r.done = d /\ r.id = N /\ r.again = again
  BY <1>1 DEF AskerStates
<1> HIDE DEF r
<1>8. v \in [Askers -> AskerStates] /\ v[a] = r /\ \A b \in Askers : b # a => v[b] = w[b]
  BY <1>6
<1> HIDE DEF v
<1>9. ~v[a].accepted /\ ~v[a].cancelled /\ (v[a].done <=> ~on) /\ v[a].id = N /\ (v[a].again <=> again)
  BY <1>3, <1>7, <1>8, Zenon
<1>10. FreshAsker(w, v, a, on, N, again)
  BY <1>8, <1>9, Zenon DEF FreshAsker
<1> QED BY <1>5, <1>10, Zenon

(* a question is listed: by the code with position 1, in the view with     *)
(* position 0 until the first handler is asked                             *)
Item(a, N, p) == [a |-> a, id |-> N, pos |-> p, tried |-> {}]
Listing(v, a, p) == SetN(SetA(v, Append(v.g.askers, Item(a, v.g.next_id, p))), v.g.next_id + 1)

ListedAs(v, t, y, a, p) ==
    /\ t \in States /\ t.g.handlers = v.g.handlers /\ t.g.on = v.g.on
    /\ t.g.next_id = v.g.next_id + 1 /\ t.hs = v.hs /\ t.as = v.as
    /\ Len(t.g.askers) = Len(v.g.askers) + 1
    /\ \A j \in 1..Len(v.g.askers) : t.g.askers[j] = v.g.askers[j]
    /\ t.g.askers[Len(v.g.askers) + 1] = y
    /\ ToSet(t.g.askers) = ToSet(v.g.askers) \cup {y}
    /\ y \in Items /\ y.a = a /\ y.id = v.g.next_id /\ y.pos = p /\ y.tried = {}

LEMMA ListingFacts ==
  ASSUME NEW v \in States, NEW a \in Askers, NEW p \in Nat
  PROVE  ListedAs(v, Listing(v, a, p), Item(a, v.g.next_id, p), a, p)
<1> DEFINE N == v.g.next_id
           A == v.g.askers
           y == Item(a, N, p)
           L == Append(A, y)
           u == SetA(v, L)
           M == N + 1
           t == SetN(u, M)
<1>1. N \in Nat /\ A \in Seq(Items)
  BY StateFacts
<1>2. y \in Items /\ y.a = a /\ y.id = N /\ y.pos = p /\ y.tried = {}
  BY <1>1 DEF Item, Items
<1> HIDE DEF y
<1>3. L \in Seq(Items) /\ ToSet(L) = ToSet(A) \cup {y}
  BY <1>1, <1>2, AppendElements
<1>4. Len(L) = Len(A) + 1 /\ L[Len(A) + 1] = y /\ \A j \in 1..Len(A) : L[j] = A[j]
  BY <1>1, <1>2
<1>5. M \in Nat
  BY <1>1
<1> HIDE DEF L, M
<1>6. /\ u \in States /\ u.g.handlers = v.g.handlers /\ u.g.askers = L
      /\ u.g.on = v.g.on /\ u.hs = v.hs /\ u.as = v.as
  BY <1>3, Setters
<1> HIDE DEF u
<1>7. /\ t \in States /\ t.g.handlers = u.g.handlers /\ t.g.askers = u.g.askers
      /\ t.g.on = u.g.on /\ t.g.next_id = M /\ t.hs = u.hs /\ t.as = u.as
  BY <1>5, <1>6, Setters
<1>8. t = Listing(v, a, p)
  BY Zenon DEF Listing, u, L, M, y
<1> HIDE DEF t
<1>9. ListedAs(v, t, y, a, p)
  BY <1>2, <1>3, <1>4, <1>6, <1>7 DEF ListedAs, M
<1> QED BY <1>8, <1>9 DEF y

LEMMA QuestionAsked ==
  ASSUME NEW s, Consistent(s), NEW a \in Askers, NEW again \in BOOLEAN,
         again <=> findAskerItem(s, a) # 0
  PROVE  Result(s, IF s.g.on THEN asker_ask(SetAs(s, SetFresh(s.as, a, s.g.on, s.g.next_id, again)), a)
                   ELSE SetAs(s, SetFresh(s.as, a, s.g.on, s.g.next_id, again)))
<1> DEFINE N == s.g.next_id
           n == Len(s.g.handlers)
           X == ToSet(s.g.askers)
           w == SetFresh(s.as, a, s.g.on, N, again)
           v == SetAs(s, w)
           i == Len(s.g.askers) + 1
           y == Item(a, N, 0)
           u0 == Listing(v, a, 0)
           u1 == Listing(v, a, 1)
           t == ask(u1, i)
<1>1. Good(s, {}) /\ Registered(s) /\ s \in States /\ Once(s)
      /\ Sound(n, Hd(s), Held(s), X, N, Box(s), s.as, {})
  BY DEF Consistent, Good
<1>2. s.g.on \in BOOLEAN /\ N \in Nat /\ s.as \in [Askers -> AskerStates] /\ s.g.handlers \in Seq(HandlerItems)
      /\ s.g.askers \in Seq(Items)
  BY <1>1, StateFacts
<1>3. /\ w \in [Askers -> AskerStates] /\ \A b \in Askers : b # a => w[b] = s.as[b]
      /\ ~w[a].accepted /\ ~w[a].cancelled /\ (w[a].done <=> ~s.g.on) /\ w[a].id = N /\ (w[a].again <=> again)
  <2>1. s.as \in [Askers -> AskerStates] /\ s.g.on \in BOOLEAN /\ N \in Nat
    BY <1>2
  <2> HIDE DEF N
  <2>2. FreshAsker(s.as, w, a, s.g.on, N, again)
    BY <2>1, FreshFacts
  <2> HIDE DEF w
  <2> QED BY <2>2, Zenon DEF FreshAsker
<1> HIDE DEF w
<1>4. v \in States /\ v.g = s.g /\ v.hs = s.hs /\ v.as = w
  BY <1>1, <1>3, Setters
<1>5. ~again => \A x \in X : x.a # a
  <2>1. ~again => \A j \in 1..Len(s.g.askers) : s.g.askers[j].a # a
    BY <1>1, FindItem
  <2>2. \A x \in X : \E j \in 1..Len(s.g.askers) : s.g.askers[j] = x
    BY <1>1, ViewFacts
  <2> QED BY <2>1, <2>2
<1>6. CASE ~s.g.on
  <2>1. X = {}
    <3>1. s.g = NoGlobal
      BY <1>1, <1>6, Zenon DEF Registered
    <3>2. s.g.askers = <<>>
      BY <3>1, GlobalFacts
    <3> QED BY <3>2 DEF ToSet
  <2>2. AskerStep(X, s.as, a, w)
    BY <1>3, <1>6, <2>1 DEF AskerStep
  <2>3. Result(s, v)
    BY <2>2, GoodAsker
  <2> QED BY <1>6, <2>3 DEF v, w
<1>7. CASE s.g.on
  <2>1. asker_ask(v, a) = t
    <3>1. Len(v.g.askers) + 1 = i
      BY <1>4
    <3>2. asker_ask(v, a) = ask(u1, Len(v.g.askers) + 1)
      BY Zenon DEF asker_ask, Listing, SetN, SetA, Item
    <3> QED BY <3>1, <3>2, Zenon
  <2> HIDE DEF v
  <2>2. /\ u0 \in States /\ u0.g.handlers = s.g.handlers /\ u0.g.on = s.g.on /\ u0.g.next_id = N + 1
        /\ u0.hs = s.hs /\ u0.as = w /\ Len(u0.g.askers) = i
        /\ \A j \in 1..Len(s.g.askers) : u0.g.askers[j] = s.g.askers[j]
        /\ u0.g.askers[i] = y /\ ToSet(u0.g.askers) = X \cup {y}
        /\ y \in Items /\ y.a = a /\ y.id = N /\ y.pos = 0 /\ y.tried = {}
    <3> DEFINE z == Item(a, v.g.next_id, 0)
    <3>1. ListedAs(v, u0, z, a, 0)
      BY <1>4, ListingFacts
    <3>2. y = z
      BY <1>4, Zenon
    <3> HIDE DEF u0, z, y
    <3> QED BY <1>4, <3>1, <3>2 DEF ListedAs
  <2>3. Moved(u0, u1, i, 1) /\ u1 \in States
    <3> DEFINE z == Item(a, v.g.next_id, 1)
    <3>1. ListedAs(v, u1, z, a, 1)
      BY <1>4, ListingFacts
    <3> HIDE DEF u0, u1, y, z
    <3>3. /\ u1.g.handlers = s.g.handlers /\ u1.g.on = s.g.on /\ u1.g.next_id = N + 1
          /\ u1.hs = s.hs /\ u1.as = w /\ Len(u1.g.askers) = i /\ u1 \in States
          /\ \A j \in 1..Len(s.g.askers) : u1.g.askers[j] = s.g.askers[j]
          /\ u1.g.askers[i] = z /\ z.a = a /\ z.id = N /\ z.pos = 1 /\ z.tried = {}
      BY <1>4, <3>1 DEF ListedAs
    <3>4. \A j \in 1..i : j # i => j \in 1..Len(s.g.askers)
      BY <1>2
    <3>5. \A j \in 1..Len(u0.g.askers) : j # i => u1.g.askers[j] = u0.g.askers[j]
      BY <2>2, <3>3, <3>4
    <3> QED BY <2>2, <3>3, <3>5 DEF Moved
  <2>4. i \in 1..Len(u0.g.askers) /\ i \in Nat /\ Len(s.g.askers) \in Nat
    BY <1>2, <2>2
  <2> HIDE DEF i
  <2>5. n \in Nat /\ 1 \in 1..n
    <3>1. s.g.handlers # <<>>
      BY <1>1, <1>7 DEF Registered
    <3> QED BY <1>2, <3>1
  <2>6. Asked(u0, t, i, 1)
    <3>1. 1 \in 1..Len(u0.g.handlers)
      BY <2>2, <2>5
    <3> HIDE DEF u0, u1
    <3> QED BY <2>2, <2>3, <2>4, <3>1, MovedAsked
  <2> HIDE DEF u0, u1, t, y
  <2>7. QuestionStep(X, N, s.as, a, y, w)
    <3> HIDE DEF X, N
    <3> QED BY <1>3, <1>5, <1>7, <2>2 DEF QuestionStep
  <2>8. Sound(n, Hd(s), Held(s), X \cup {y}, N + 1, Box(s), w, {N})
    <3> HIDE DEF X, N, n
    <3> QED BY <1>1, <2>7, ViewQuestion
  <2>9. Hd(u0) = Hd(s) /\ Held(u0) = Held(s) /\ Box(u0) = Box(s)
    BY <2>2 DEF Hd, Held, Box
  <2>10. \A x \in X : x.id \in Nat /\ x.id < N
    <3>1. X \subseteq Items
      BY <1>1, ViewFacts
    <3>2. \A x \in X : x.id < N
      <4> HIDE DEF X, N, n
      <4> QED BY <1>1 DEF Sound, Numbered
    <3> QED BY <3>1, <3>2 DEF Items
  <2>11. Once(u0)
    <3>1. ASSUME NEW j \in 1..i, NEW l \in 1..i, u0.g.askers[j].id = u0.g.askers[l].id PROVE j = l
      <4>1. \A m \in 1..i : m = i \/ m \in 1..Len(s.g.askers)
        BY <2>4 DEF i
      <4>2. \A m \in 1..Len(s.g.askers) : s.g.askers[m] \in X
        BY <1>1, ViewFacts
      <4>3. \A m \in 1..Len(s.g.askers) : u0.g.askers[m].id < N /\ u0.g.askers[m].id \in Nat
        <5> HIDE DEF X
        <5> QED BY <2>2, <2>10, <4>2
      <4>4. u0.g.askers[i].id = N
        BY <2>2
      <4>5. \A j1, l1 \in 1..Len(s.g.askers) : s.g.askers[j1].id = s.g.askers[l1].id => j1 = l1
        BY <1>1 DEF Once
      <4>6. CASE j = i \/ l = i
        <5> HIDE DEF N
        <5> QED BY <1>2, <3>1, <4>1, <4>3, <4>4, <4>6
      <4>7. CASE j # i /\ l # i
        <5>1. j \in 1..Len(s.g.askers) /\ l \in 1..Len(s.g.askers)
          BY <4>1, <4>7
        <5> QED BY <2>2, <3>1, <4>5, <5>1
      <4> QED BY <4>6, <4>7
    <3>2. \A k \in 1..n : /\ Distinct(s.g.handlers[k].ids)
               /\ Distinct(s.hs[s.g.handlers[k].h].inbox) /\ Distinct(s.hs[s.g.handlers[k].h].activeIds)
               /\ ToSet(s.hs[s.g.handlers[k].h].inbox) \cap ToSet(s.hs[s.g.handlers[k].h].activeIds) = {}
      BY <1>1 DEF Once
    <3> QED BY <2>2, <3>1, <3>2 DEF Once
  <2>12. Good(u0, {N})
    BY <2>2, <2>8, <2>9, <2>11 DEF Good
  <2>13. Good(t, {N} \ {u0.g.askers[i].id}) /\ Frame(u0, t)
    <3>1. u0.g.askers[i].id \in {N} /\ 1 \in 1..Len(u0.g.handlers)
      BY <2>2, <2>5
    <3>2. \A k \in 1..Len(u0.g.handlers) : k < 1 => u0.g.handlers[k].h \in u0.g.askers[i].tried
      BY <2>2, <2>5
    <3> HIDE DEF N
    <3> QED BY <2>4, <2>6, <2>12, <3>1, <3>2, GoodAsk
  <2>14. Good(t, {})
    <3>1. {N} \ {u0.g.askers[i].id} = {}
      BY <2>2
    <3> QED BY <2>13, <3>1
  <2>15. t \in States
    BY <2>14 DEF Good
  <2>16. Registered(t)
    <3>2. s.g.handlers # <<>>
      BY <1>1, <1>7 DEF Registered
    <3>3. Registered(u0)
      <4>1. \A m \in Handlers :
               /\ s.hs[m].phase # "off" <=> \E k \in 1..Len(s.g.handlers) : s.g.handlers[k].h = m
               /\ s.hs[m].phase = "off" => s.hs[m].inbox = <<>> /\ s.hs[m].activeIds = <<>>
        BY <1>1 DEF Registered
      <4>2. u0.g.on /\ u0.g.handlers # <<>>
        BY <1>7, <2>2, <3>2
      <4> QED BY <2>2, <4>1, <4>2 DEF Registered
    <3>4. u0.g.handlers # <<>> /\ u0 \in States
      BY <2>2, <3>2
    <3> QED BY <2>13, <2>15, <3>3, <3>4, StillRegistered
  <2>17. Follows(s, t)
    <3>1. OthersStay(u0, t, i)
      BY <2>4, <2>6, <2>12, AskedOthers
    <3>2. ASSUME NEW x \in X PROVE x \in ToSet(t.g.askers)
      <4>1. x \in ToSet(u0.g.askers)
        BY <2>2
      <4>2. x.id # u0.g.askers[i].id
        <5> HIDE DEF X, N
        <5> QED BY <1>2, <2>2, <2>10
      <4> QED BY <3>1, <4>1, <4>2 DEF OthersStay
    <3> QED BY <3>2 DEF Follows
  <2>18. Result(s, t)
    BY <2>14, <2>16, <2>17 DEF Result, Consistent
  <2>19. Result(s, asker_ask(v, a))
    BY <2>1, <2>18, Zenon
  <2> QED BY <1>7, <2>19 DEF v, w
<1> QED BY <1>6, <1>7


------------------------------------------------------------------------------
(* The end of a handler                                                    *)

LEMMA ShiftedFacts ==
  ASSUME NEW x \in Items, NEW at \in Nat, at >= 1, NEW h
  PROVE  /\ Shifted(x, at, h) \in Items /\ Shifted(x, at, h).id = x.id
         /\ Shifted(x, at, h).tried = x.tried \ {h}
<1> DEFINE p == IF x.pos >= at THEN x.pos - 1 ELSE x.pos
           T == x.tried \ {h}
           r == [x EXCEPT !.pos = p, !.tried = T]
<1>1. x.pos \in Nat /\ x.tried \subseteq Handlers
  BY DEF Items
<1>2. p \in Nat /\ T \subseteq Handlers
  BY <1>1
<1>3. Shifted(x, at, h) = r
  BY Zenon DEF Shifted
<1> HIDE DEF p, T
<1>4. r \in Items /\ r.id = x.id /\ r.tried = T
  BY <1>2 DEF Items
<1> HIDE DEF r
<1> QED BY <1>3, <1>4 DEF T

ShiftedItems(A, at, h) == SubSeq([j \in DOMAIN A |-> Shifted(A[j], at, h)], 1, Len(A))

LEMMA ShiftedItemsFacts ==
  ASSUME NEW A \in Seq(Items), NEW at \in Nat, at >= 1, NEW h
  PROVE  /\ ShiftedItems(A, at, h) \in Seq(Items) /\ Len(ShiftedItems(A, at, h)) = Len(A)
         /\ \A j \in 1..Len(A) : ShiftedItems(A, at, h)[j] = Shifted(A[j], at, h)
         /\ ToSet(ShiftedItems(A, at, h)) = {Shifted(x, at, h) : x \in ToSet(A)}
<1> DEFINE n == Len(A)
           f == [j \in 1..n |-> Shifted(A[j], at, h)]
           D == ShiftedItems(A, at, h)
<1>1. n \in Nat /\ DOMAIN A = 1..n /\ \A j \in 1..n : A[j] \in Items
  OBVIOUS
<1>2. D = SubSeq(f, 1, n)
  BY <1>1, Zenon DEF ShiftedItems
<1>3. f \in [1..n -> Items] /\ \A j \in 1..n : f[j] = Shifted(A[j], at, h)
  <2>1. \A j \in 1..n : Shifted(A[j], at, h) \in Items
    BY <1>1, ShiftedFacts
  <2> QED BY <2>1
<1> HIDE DEF f, D
<1>4. D \in Seq(Items) /\ Len(D) = n /\ \A j \in 1..n : D[j] = f[j]
  <2> HIDE DEF n
  <2> QED BY <1>1, <1>2, <1>3, WholeSequence
<1>5. \A j \in 1..n : D[j] = Shifted(A[j], at, h)
  BY <1>3, <1>4
<1>6. ToSet(A) = {A[j] : j \in 1..n}
  BY <1>1 DEF ToSet
<1>7. ToSet(D) = {D[j] : j \in 1..n}
  <2>1. DOMAIN D = 1..n
    BY <1>4
  <2> QED BY <2>1 DEF ToSet
<1>8. ToSet(D) = {Shifted(x, at, h) : x \in ToSet(A)}
  BY <1>5, <1>6, <1>7
<1> QED BY <1>4, <1>5, <1>8 DEF D

(* without handler h, which is at position at *)
Removed(s, at, h) == SetA(SetH(s, RemoveAt(s.g.handlers, at)), ShiftedItems(s.g.askers, at, h))

RemovedFrom(s, t, h) ==
    /\ t \in States /\ t.hs = s.hs /\ t.as = s.as /\ t.g.on = s.g.on
    /\ \A k \in 1..Len(t.g.handlers) : t.g.handlers[k].h # h
    /\ \A m \in Handlers : m # h => ((\E k \in 1..Len(s.g.handlers) : s.g.handlers[k].h = m)
                                       <=> \E k \in 1..Len(t.g.handlers) : t.g.handlers[k].h = m)
    /\ \A x \in ToSet(s.g.askers) : \E y \in ToSet(t.g.askers) : y.id = x.id /\ y.tried \subseteq x.tried

LEMMA GoodRemoved ==
  ASSUME NEW s, Good(s, {}), NEW at \in 1..Len(s.g.handlers), NEW h, Same(h, s.g.handlers[at].h)
  PROVE  Good(Removed(s, at, h), ToSet(s.g.handlers[at].ids)) /\ RemovedFrom(s, Removed(s, at, h), h)
<1> DEFINE n == Len(s.g.handlers)
           A == s.g.askers
           X == ToSet(A)
           H == RemoveAt(s.g.handlers, at)
           D == ShiftedItems(A, at, h)
           u == SetH(s, H)
           t == SetA(u, D)
           o(k) == IF k < at THEN k ELSE k + 1
<1>1. s \in States /\ Once(s) /\ Sound(n, Hd(s), Held(s), X, s.g.next_id, Box(s), s.as, {})
  BY DEF Good
<1>2. s.g.handlers \in Seq(HandlerItems) /\ A \in Seq(Items) /\ n \in Nat
  BY <1>1, StateFacts
<1>3. at \in Nat /\ at >= 1 /\ at <= n
  BY <1>2
<1>4. H \in Seq(HandlerItems) /\ Len(H) = n - 1
      /\ \A k \in 1..(n - 1) : H[k] = IF k < at THEN s.g.handlers[k] ELSE s.g.handlers[k + 1]
  BY <1>2, RemoveAtFacts
<1>5. /\ D \in Seq(Items) /\ Len(D) = Len(A) /\ \A j \in 1..Len(A) : D[j] = Shifted(A[j], at, h)
      /\ ToSet(D) = {Shifted(x, at, h) : x \in X}
  BY <1>2, <1>3, ShiftedItemsFacts
<1>6. t = Removed(s, at, h)
  BY DEF Removed
<1> HIDE DEF H, D
<1>7. /\ u \in States /\ u.g.handlers = H /\ u.g.askers = s.g.askers /\ u.g.on = s.g.on
      /\ u.g.next_id = s.g.next_id /\ u.hs = s.hs /\ u.as = s.as
  BY <1>1, <1>4, Setters
<1> HIDE DEF u
<1>8. /\ t \in States /\ t.g.handlers = H /\ t.g.askers = D /\ t.g.on = s.g.on
      /\ t.g.next_id = s.g.next_id /\ t.hs = s.hs /\ t.as = s.as
  BY <1>5, <1>7, Setters
<1> HIDE DEF t
<1>9. \A k \in 1..(n - 1) : H[k] = s.g.handlers[o(k)] /\ o(k) \in 1..n /\ o(k) # at
  BY <1>2, <1>3, <1>4
<1>10. \A k \in 1..n : k # at => \E l \in 1..(n - 1) : o(l) = k
  <2> SUFFICES ASSUME NEW k \in 1..n, k # at PROVE \E l \in 1..(n - 1) : o(l) = k
    OBVIOUS
  <2>1. CASE k < at
    <3>1. k \in 1..(n - 1) /\ o(k) = k
      BY <1>2, <1>3, <2>1
    <3> QED BY <3>1
  <2>2. CASE k > at
    <3>1. k - 1 \in 1..(n - 1) /\ o(k - 1) = k
      BY <1>2, <1>3, <2>2
    <3> QED BY <3>1
  <2> QED BY <1>2, <1>3, <2>1, <2>2
<1>11. /\ \A k \in 1..n : /\ Hd(s)[k] = s.g.handlers[k].h
                          /\ Held(s)[k] = ToSet(s.g.handlers[k].ids)
                          /\ s.g.handlers[k].h \in Handlers
  BY <1>1, ViewFacts
<1>12. /\ Hd(t) \in [1..(n - 1) -> Handlers] /\ Held(t) \in [1..(n - 1) -> SUBSET Nat]
       /\ \A k \in 1..(n - 1) : Hd(t)[k] = H[k].h /\ Held(t)[k] = ToSet(H[k].ids)
  <2>1. Len(t.g.handlers) = n - 1
    BY <1>4, <1>8
  <2>2. /\ Hd(t) \in [1..Len(t.g.handlers) -> Handlers] /\ Held(t) \in [1..Len(t.g.handlers) -> SUBSET Nat]
        /\ \A k \in 1..Len(t.g.handlers) : Hd(t)[k] = t.g.handlers[k].h /\ Held(t)[k] = ToSet(t.g.handlers[k].ids)
    BY <1>8, ViewFacts
  <2> QED BY <1>8, <2>1, <2>2
<1>13. Hd(s)[at] = h
  BY <1>11 DEF Same
<1>14. RemoveStep(n, Hd(s), Held(s), X, at, Hd(t), Held(t), ToSet(D))
  <2>1. \A k \in 1..(n - 1) : k + 1 \in 1..n /\ k \in 1..n
    BY <1>2
  <2>2. \A k \in 1..(n - 1) : Hd(t)[k] = IF k < at THEN Hd(s)[k] ELSE Hd(s)[k + 1]
    BY <1>4, <1>11, <1>12, <2>1
  <2>3. \A k \in 1..(n - 1) : Held(t)[k] = IF k < at THEN Held(s)[k] ELSE Held(s)[k + 1]
    BY <1>4, <1>11, <1>12, <2>1
  <2>4. ToSet(D) = {Shifted(x, at, Hd(s)[at]) : x \in X}
    BY <1>5, <1>13
  <2> HIDE DEF X, n
  <2> QED BY <1>12, <2>2, <2>3, <2>4 DEF RemoveStep, n
<1>15. Sound(n - 1, Hd(t), Held(t), ToSet(D), s.g.next_id, Box(s), s.as, Held(s)[at])
  <2> HIDE DEF X, n
  <2> QED BY <1>1, <1>14, ViewRemove
<1>16. Box(t) = Box(s)
  BY <1>8 DEF Box
<1> HIDE DEF o
<1>17. Once(t)
  <2>1. \A j \in 1..Len(A) : D[j].id = A[j].id
    <3>1. \A j \in 1..Len(A) : A[j] \in Items
      BY <1>2
    <3>2. \A j \in 1..Len(A) : Shifted(A[j], at, h).id = A[j].id
      BY <1>3, <3>1, ShiftedFacts
    <3> QED BY <1>5, <3>2
  <2>2. \A i, j \in 1..Len(A) : A[i].id = A[j].id => i = j
    BY <1>1 DEF Once
  <2>3. \A i, j \in 1..Len(t.g.askers) : t.g.askers[i].id = t.g.askers[j].id => i = j
    BY <1>5, <1>8, <2>1, <2>2
  <2>4. ASSUME NEW k \in 1..Len(t.g.handlers)
        PROVE  /\ Distinct(t.g.handlers[k].ids)
               /\ Distinct(t.hs[t.g.handlers[k].h].inbox) /\ Distinct(t.hs[t.g.handlers[k].h].activeIds)
               /\ ToSet(t.hs[t.g.handlers[k].h].inbox) \cap ToSet(t.hs[t.g.handlers[k].h].activeIds) = {}
    <3>1. t.g.handlers[k] = s.g.handlers[o(k)] /\ o(k) \in 1..n
      BY <1>4, <1>8, <1>9
    <3>2. \A l \in 1..n :
               /\ Distinct(s.g.handlers[l].ids)
               /\ Distinct(s.hs[s.g.handlers[l].h].inbox) /\ Distinct(s.hs[s.g.handlers[l].h].activeIds)
               /\ ToSet(s.hs[s.g.handlers[l].h].inbox) \cap ToSet(s.hs[s.g.handlers[l].h].activeIds) = {}
      BY <1>1 DEF Once
    <3> QED BY <1>8, <3>1, <3>2
  <2> QED BY <2>3, <2>4 DEF Once
<1>18. Good(t, ToSet(s.g.handlers[at].ids))
  <2>1. Held(s)[at] = ToSet(s.g.handlers[at].ids) /\ Len(t.g.handlers) = n - 1
    BY <1>4, <1>8, <1>11
  <2> QED BY <1>8, <1>15, <1>16, <1>17, <2>1 DEF Good
<1>19. RemovedFrom(s, t, h)
  <2>1. Listed(n, Hd(s))
    BY <1>1 DEF Sound
  <2>2. \A k \in 1..n : s.g.handlers[k].h = h => k = at
    BY <1>11, <1>13, <2>1 DEF Listed
  <2>3. Len(t.g.handlers) = n - 1 /\ t.g.handlers = H
    BY <1>4, <1>8
  <2>4. ASSUME NEW k \in 1..(n - 1) PROVE H[k].h # h
    BY <1>9, <2>2
  <2>5. ASSUME NEW m \in Handlers, m # h
        PROVE  (\E k \in 1..n : s.g.handlers[k].h = m) <=> \E k \in 1..(n - 1) : H[k].h = m
    <3>1. ASSUME NEW k \in 1..n, s.g.handlers[k].h = m PROVE \E l \in 1..(n - 1) : H[l].h = m
      <4>1. k # at
        BY <2>5, <3>1 DEF Same
      <4>2. PICK l \in 1..(n - 1) : o(l) = k
        BY <1>10, <4>1
      <4> QED BY <1>9, <3>1, <4>2
    <3>2. ASSUME NEW k \in 1..(n - 1), H[k].h = m PROVE \E l \in 1..n : s.g.handlers[l].h = m
      BY <1>9, <3>2
    <3> QED BY <3>1, <3>2
  <2>6. ASSUME NEW x \in X PROVE \E y \in ToSet(D) : y.id = x.id /\ y.tried \subseteq x.tried
    <3>1. x \in Items
      <4>1. X \subseteq Items
        BY <1>1, ViewFacts
      <4> QED BY <4>1
    <3>2. Shifted(x, at, h).id = x.id /\ Shifted(x, at, h).tried \subseteq x.tried
      BY <1>3, <3>1, ShiftedFacts
    <3>3. Shifted(x, at, h) \in ToSet(D)
      BY <1>5
    <3> QED BY <3>2, <3>3
  <2> QED BY <1>8, <2>3, <2>4, <2>5, <2>6 DEF RemovedFrom
<1> QED BY <1>6, <1>18, <1>19


(* g_event goes with the last handler *)
Closed(t) == IF t.g.handlers = <<>> THEN SetG(t, NoGlobal) ELSE t

LEMMA GoodClosed ==
  ASSUME NEW t, Good(t, {}), t.g.on
  PROVE  /\ Good(Closed(t), {}) /\ Closed(t).hs = t.hs
         /\ Closed(t).g.handlers = t.g.handlers
         /\ Closed(t).g.on <=> Closed(t).g.handlers # <<>>
         /\ ~Closed(t).g.on => Closed(t).g = NoGlobal
         /\ t.g.handlers # <<>> => Closed(t).g.askers = t.g.askers
<1>1. t \in States /\ Once(t)
      /\ Sound(Len(t.g.handlers), Hd(t), Held(t), ToSet(t.g.askers), t.g.next_id, Box(t), t.as, {})
  BY DEF Good
<1>2. CASE t.g.handlers # <<>>
  <2>1. Closed(t) = t
    BY <1>2 DEF Closed
  <2> QED BY <1>2, <2>1
<1>3. CASE t.g.handlers = <<>>
  <2> DEFINE u == SetG(t, NoGlobal)
  <2>1. Closed(t) = u
    BY <1>3 DEF Closed
  <2>2. NoGlobal \in Globals /\ ~NoGlobal.on /\ NoGlobal.handlers = <<>> /\ NoGlobal.askers = <<>>
        /\ NoGlobal.next_id = 0
    BY GlobalFacts
  <2>3. u \in States /\ u.g = NoGlobal /\ u.hs = t.hs /\ u.as = t.as
    BY <1>1, <2>2, Setters
  <2> HIDE DEF u
  <2>4. Len(t.g.handlers) = 0 /\ Len(u.g.handlers) = 0
    BY <1>3, <2>2, <2>3
  <2>5. 1..0 = {}
    OBVIOUS
  <2>6. Hd(u) = Hd(t) /\ Held(u) = Held(t)
    BY <2>4, <2>5 DEF Hd, Held
  <2>7. Box(u) = Box(t)
    BY <2>3 DEF Box
  <2>8. Sound(0, Hd(t), Held(t), {}, 0, Box(t), t.as, {})
    BY <1>1, <2>4, ViewReset
  <2>9. ToSet(u.g.askers) = {} /\ u.g.next_id = 0 /\ Len(u.g.askers) = 0
    BY <2>2, <2>3 DEF ToSet
  <2>10. Once(u)
    BY <2>4, <2>5, <2>9 DEF Once
  <2>11. Good(u, {})
    BY <2>3, <2>4, <2>6, <2>7, <2>8, <2>9, <2>10 DEF Good
  <2>12. u.g.handlers = t.g.handlers /\ ~u.g.on
    BY <1>3, <2>2, <2>3
  <2> QED BY <1>3, <2>1, <2>3, <2>11, <2>12
<1> QED BY <1>2, <1>3

SetHandler(hh, h, x) == [hh EXCEPT ![h] = x]

LEMMA HandlerGone ==
  ASSUME NEW s, Consistent(s), NEW h \in Handlers, s.hs[h].phase # "off"
  PROVE  Result(s, SetHs(handler_remove(s, h), SetHandler(handler_remove(s, h).hs, h, NewHandler)))
<1> DEFINE at == findHandlerItem(s, h)
           ids == s.g.handlers[at].ids
           r == Removed(s, at, h)
           l == RejectAll(r, ids)
           u == Closed(l)
           hh == SetHandler(u.hs, h, NewHandler)
           t == SetHs(u, hh)
<1>1. Good(s, {}) /\ Registered(s) /\ s \in States
  BY DEF Consistent, Good
<1>2. handler_remove(s, h) = u
  BY Zenon DEF handler_remove, Each, Removed, ShiftedItems, SetA, SetH, Closed, SetG
<1>3. at \in 1..Len(s.g.handlers) /\ s.g.handlers[at].h = h
  <2>1. PICK k \in 1..Len(s.g.handlers) : s.g.handlers[k].h = h
    BY <1>1 DEF Registered
  <2> QED BY <1>1, <2>1, FindHandler
<1> HIDE DEF at
<1>4. ids \in Seq(Nat) /\ Distinct(ids)
  <2>1. ids \in Seq(Nat)
    BY <1>1, <1>3, ViewFacts
  <2> QED BY <1>1, <1>3, <2>1 DEF Good, Once
<1>5. Good(r, ToSet(ids)) /\ RemovedFrom(s, r, h)
  <2>1. Same(h, s.g.handlers[at].h)
    BY <1>3 DEF Same
  <2> QED BY <1>1, <1>3, <2>1, GoodRemoved
<1> HIDE DEF r, ids
<1>6. Looped(r, l, ids, Len(ids))
  BY <1>4, <1>5, LoopEnds
<1> HIDE DEF l
<1>7. Good(l, {}) /\ Frame(r, l)
  <2>1. Rest(ids, Len(ids)) = {}
    <3>1. (Len(ids) + 1)..Len(ids) = {}
      BY <1>4
    <3> QED BY <3>1 DEF Rest
  <2> QED BY <1>6, <2>1 DEF Looped
<1>8. /\ r \in States /\ r.hs = s.hs /\ r.g.on = s.g.on
      /\ \A k \in 1..Len(r.g.handlers) : r.g.handlers[k].h # h
  BY <1>5 DEF RemovedFrom
<1>9. \A m \in Handlers : m # h => ((\E k \in 1..Len(s.g.handlers) : s.g.handlers[k].h = m)
                                       <=> \E k \in 1..Len(r.g.handlers) : r.g.handlers[k].h = m)
  BY <1>5 DEF RemovedFrom
<1>10. /\ l.g.on = r.g.on /\ Len(l.g.handlers) = Len(r.g.handlers)
       /\ \A k \in 1..Len(r.g.handlers) : l.g.handlers[k].h = r.g.handlers[k].h
       /\ \A m \in Handlers : l.hs[m].phase = r.hs[m].phase
       /\ \A m \in Handlers : (\A k \in 1..Len(r.g.handlers) : r.g.handlers[k].h # m) => l.hs[m] = r.hs[m]
  BY <1>7 DEF Frame
<1>11. l.g.on
  <2>1. s.g.handlers # <<>>
    <3>1. s.g.handlers \in Seq(HandlerItems)
      BY <1>1, StateFacts
    <3> QED BY <1>3, <3>1
  <2>2. s.g.on <=> s.g.handlers # <<>>
    BY <1>1 DEF Registered
  <2> QED BY <1>8, <1>10, <2>1, <2>2, Zenon
<1>12. /\ Good(u, {}) /\ u.hs = l.hs /\ u.g.handlers = l.g.handlers
       /\ (u.g.on <=> u.g.handlers # <<>>) /\ (~u.g.on => u.g = NoGlobal)
       /\ (l.g.handlers # <<>> => u.g.askers = l.g.askers)
  BY <1>7, <1>11, GoodClosed, Zenon
<1> HIDE DEF u
<1>13. u \in States /\ Once(u)
       /\ Sound(Len(u.g.handlers), Hd(u), Held(u), ToSet(u.g.askers), u.g.next_id, Box(u), u.as, {})
  BY <1>12 DEF Good
<1>14. u.hs \in [Handlers -> HandlerStates]
  BY <1>13, StateFacts
<1>15. NewHandler \in HandlerStates /\ NewHandler.phase = "off" /\ NewHandler.inbox = <<>> /\ NewHandler.activeIds = <<>>
  BY DEF NewHandler, HandlerStates
<1>16. hh \in [Handlers -> HandlerStates] /\ hh[h] = NewHandler /\ \A m \in Handlers : m # h => hh[m] = u.hs[m]
  BY <1>14, <1>15 DEF SetHandler
<1> HIDE DEF hh
<1>17. t \in States /\ t.g = u.g /\ t.hs = hh /\ t.as = u.as
  BY <1>13, <1>16, Setters
<1> HIDE DEF t
<1>18. \A k \in 1..Len(u.g.handlers) : u.g.handlers[k].h = r.g.handlers[k].h /\ u.g.handlers[k].h # h
  BY <1>8, <1>10, <1>12
<1>19. Len(u.g.handlers) = Len(r.g.handlers)
  BY <1>10, <1>12
<1>20. Hd(t) = Hd(u) /\ Held(t) = Held(u)
  BY <1>17 DEF Hd, Held
<1>21. \A k \in 1..Len(u.g.handlers) : u.g.handlers[k].h \in Handlers /\ Hd(u)[k] = u.g.handlers[k].h
  BY <1>13, ViewFacts
<1>22. \A k \in 1..Len(u.g.handlers) : t.hs[u.g.handlers[k].h] = u.hs[u.g.handlers[k].h]
  BY <1>16, <1>17, <1>18, <1>21
<1>23. Good(t, {})
  <2>1. Box(t) \in [Handlers -> SUBSET Nat] /\ \A m \in Handlers : Box(t)[m] = ToSet(t.hs[m].inbox) \cup ToSet(t.hs[m].activeIds)
    BY <1>17, ViewFacts
  <2>2. \A m \in Handlers : Box(u)[m] = ToSet(u.hs[m].inbox) \cup ToSet(u.hs[m].activeIds)
    BY <1>13, ViewFacts
  <2>3. \A k \in 1..Len(u.g.handlers) : Box(t)[Hd(u)[k]] = Box(u)[Hd(u)[k]]
    <3> SUFFICES ASSUME NEW k \in 1..Len(u.g.handlers) PROVE Box(t)[Hd(u)[k]] = Box(u)[Hd(u)[k]]
      OBVIOUS
    <3> DEFINE m == u.g.handlers[k].h
    <3>1. m \in Handlers /\ Hd(u)[k] = m /\ t.hs[m] = u.hs[m]
      BY <1>21, <1>22
    <3> HIDE DEF m
    <3>2. Box(t)[m] = ToSet(t.hs[m].inbox) \cup ToSet(t.hs[m].activeIds)
      BY <2>1, <3>1
    <3>3. Box(u)[m] = ToSet(u.hs[m].inbox) \cup ToSet(u.hs[m].activeIds)
      BY <2>2, <3>1
    <3> QED BY <3>1, <3>2, <3>3
  <2>4. BoxStep(Len(u.g.handlers), Hd(u), Box(u), Box(t))
    BY <2>1, <2>3 DEF BoxStep
  <2>5. Sound(Len(u.g.handlers), Hd(u), Held(u), ToSet(u.g.askers), u.g.next_id, Box(t), u.as, {})
    BY <1>13, <2>4, ViewBox
  <2>6. Once(t)
    <3>1. \A i, j \in 1..Len(u.g.askers) : u.g.askers[i].id = u.g.askers[j].id => i = j
      BY <1>13 DEF Once
    <3>2. ASSUME NEW k \in 1..Len(u.g.handlers)
          PROVE  /\ Distinct(u.g.handlers[k].ids)
                 /\ Distinct(t.hs[u.g.handlers[k].h].inbox) /\ Distinct(t.hs[u.g.handlers[k].h].activeIds)
                 /\ ToSet(t.hs[u.g.handlers[k].h].inbox) \cap ToSet(t.hs[u.g.handlers[k].h].activeIds) = {}
      <4>1. /\ Distinct(u.g.handlers[k].ids)
            /\ Distinct(u.hs[u.g.handlers[k].h].inbox) /\ Distinct(u.hs[u.g.handlers[k].h].activeIds)
            /\ ToSet(u.hs[u.g.handlers[k].h].inbox) \cap ToSet(u.hs[u.g.handlers[k].h].activeIds) = {}
        BY <1>13 DEF Once
      <4> QED BY <1>22, <4>1
    <3> QED BY <1>17, <3>1, <3>2 DEF Once
  <2> QED BY <1>17, <1>20, <2>5, <2>6 DEF Good
<1>24. Registered(t)
  <2>1. (t.g.on <=> t.g.handlers # <<>>) /\ (~t.g.on => t.g = NoGlobal)
    BY <1>12, <1>17, Zenon
  <2>2. ASSUME NEW m \in Handlers
        PROVE  /\ t.hs[m].phase # "off" <=> \E k \in 1..Len(t.g.handlers) : t.g.handlers[k].h = m
               /\ t.hs[m].phase = "off" => t.hs[m].inbox = <<>> /\ t.hs[m].activeIds = <<>>
    <3>1. t.g.handlers = u.g.handlers
      BY <1>17
    <3>2. CASE m = h
      <4>1. t.hs[m] = NewHandler
        BY <1>16, <1>17, <3>2
      <4>2. ~\E k \in 1..Len(t.g.handlers) : t.g.handlers[k].h = m
        BY <1>18, <3>1, <3>2
      <4> QED BY <1>15, <4>1, <4>2
    <3>3. CASE m # h
      <4>1. t.hs[m] = l.hs[m]
        BY <1>12, <1>16, <1>17, <3>3
      <4>2. t.hs[m].phase = s.hs[m].phase
        BY <1>8, <1>10, <4>1
      <4>3. /\ s.hs[m].phase # "off" <=> \E k \in 1..Len(s.g.handlers) : s.g.handlers[k].h = m
            /\ s.hs[m].phase = "off" => s.hs[m].inbox = <<>> /\ s.hs[m].activeIds = <<>>
        BY <1>1 DEF Registered
      <4>4. (\E k \in 1..Len(t.g.handlers) : t.g.handlers[k].h = m) <=> \E k \in 1..Len(r.g.handlers) : r.g.handlers[k].h = m
        BY <1>18, <1>19, <3>1
      <4>5. (\E k \in 1..Len(s.g.handlers) : s.g.handlers[k].h = m) <=> \E k \in 1..Len(r.g.handlers) : r.g.handlers[k].h = m
        BY <1>9, <3>3
      <4>6. t.hs[m].phase # "off" <=> \E k \in 1..Len(t.g.handlers) : t.g.handlers[k].h = m
        BY <4>2, <4>3, <4>4, <4>5
      <4>7. ASSUME t.hs[m].phase = "off" PROVE t.hs[m].inbox = <<>> /\ t.hs[m].activeIds = <<>>
        <5>1. s.hs[m].phase = "off" /\ ~\E k \in 1..Len(r.g.handlers) : r.g.handlers[k].h = m
          BY <4>2, <4>4, <4>6, <4>7
        <5>2. t.hs[m] = s.hs[m]
          BY <1>8, <1>10, <4>1, <5>1
        <5> QED BY <4>3, <5>1, <5>2
      <4> QED BY <4>6, <4>7
    <3> QED BY <3>2, <3>3
  <2> QED BY <2>1, <2>2, Zenon DEF Registered
<1>25. Follows(s, t)
  <2> SUFFICES ASSUME NEW x \in ToSet(s.g.askers)
               PROVE  \/ \E y \in ToSet(t.g.askers) : y.id = x.id
                      \/ \A k \in 1..Len(t.g.handlers) : t.g.handlers[k].h \in x.tried
    BY DEF Follows
  <2>1. PICK z \in ToSet(r.g.askers) : z.id = x.id /\ z.tried \subseteq x.tried
    BY <1>5 DEF RemovedFrom
  <2>2. \/ \E y \in ToSet(l.g.askers) : y.id = z.id
        \/ \A k \in 1..Len(r.g.handlers) : r.g.handlers[k].h \in z.tried
    BY <1>6 DEF Looped
  <2>3. CASE \A k \in 1..Len(r.g.handlers) : r.g.handlers[k].h \in z.tried
    BY <1>17, <1>18, <1>19, <2>1, <2>3
  <2>4. CASE l.g.handlers = <<>>
    <3>1. Len(t.g.handlers) = 0
      BY <1>12, <1>17, <2>4
    <3> QED BY <3>1
  <2>5. CASE l.g.handlers # <<>> /\ \E y \in ToSet(l.g.askers) : y.id = z.id
    BY <1>12, <1>17, <2>1, <2>5
  <2> QED BY <2>2, <2>3, <2>4, <2>5
<1>26. Result(s, t)
  BY <1>23, <1>24, <1>25 DEF Result, Consistent
<1>27. t = SetHs(handler_remove(s, h), SetHandler(handler_remove(s, h).hs, h, NewHandler))
  BY <1>2, Zenon DEF t, hh
<1> QED BY <1>26, <1>27


------------------------------------------------------------------------------
(* The invariant                                                           *)

LEMMA NowFacts ==
  Now.g = g /\ Now.hs = hs /\ Now.as = as
  BY DEF Now

LEMMA Becomes ==
  ASSUME NEW t \in States, Become(t)
  PROVE  Now' = t
<1>1. Now' = [g |-> t.g, hs |-> t.hs, as |-> t.as]
  BY DEF Now, Become
<1>2. t = [g |-> t.g, hs |-> t.hs, as |-> t.as]
  BY DEF States
<1> QED BY <1>1, <1>2

LEMMA ResultStates ==
  ASSUME NEW s, NEW t, Result(s, t)
  PROVE  t \in States
  BY DEF Result, Consistent, Good

(* what a step does, seen from EventGlobal: it keeps the invariant, and an *)
(* item that leaves was cancelled or refused by every handler              *)
Moves ==
    /\ Consistent(Now')
    /\ \A x \in ToSet(g.askers) :
          \/ \E y \in ToSet(g'.askers) : y.id = x.id
          \/ as[x.a].pc = "cancelling" /\ as'[x.a].pc = "idle"
          \/ \A k \in 1..Len(g'.handlers) : g'.handlers[k].h \in x.tried

LEMMA ResultMoves ==
  ASSUME NEW t, Result(Now, t), Become(t)
  PROVE  Moves
<1>1. Now' = t
  BY ResultStates, Becomes
<1>2. Consistent(Now')
  BY <1>1 DEF Result
<1>3. Follows(Now, t) /\ g' = t.g /\ Now.g = g
  BY NowFacts DEF Result, Become
<1> QED BY <1>2, <1>3 DEF Follows, Moves

LEMMA StartMoves ==
  ASSUME Consistent(Now), NEW h \in Handlers, start(h)
  PROVE  Moves
<1> DEFINE v == SetHs(Now, SetPhase(Now.hs, h, "started"))
           t == handler_add(v, h)
<1>1. Now.hs[h].phase = "off"
  BY NowFacts DEF start
<1>2. Added(Now, t, h)
  BY <1>1, HandlerStarted
<1>3. Become(t)
  BY Zenon DEF start, SetHs, SetPhase
<1> HIDE DEF t
<1>4. Result(Now, t)
  BY <1>1, <1>2, GoodAdded
<1> QED BY <1>3, <1>4, ResultMoves

LEMMA DestroyMoves ==
  ASSUME Consistent(Now), NEW h \in Handlers, destroy(h)
  PROVE  Moves
<1> DEFINE t == SetHs(Now, SetPhase(Now.hs, h, "dying"))
<1>1. Now.hs[h].phase # "off"
  BY NowFacts DEF destroy
<1>2. Result(Now, t)
  BY <1>1, HandlerDestroyed
<1>3. Become(t)
  <2>1. SetPhase(Now.hs, h, "dying") = hs' /\ g' = g /\ as' = as
    BY NowFacts, Zenon DEF destroy, SetPhase
  <2>2. t = SetHs(Now, hs')
    BY <2>1, Zenon
  <2>3. SetHs(Now, hs').g = g /\ SetHs(Now, hs').hs = hs' /\ SetHs(Now, hs').as = as
    BY DEF SetHs, Now
  <2> HIDE DEF t
  <2> QED BY <2>1, <2>2, <2>3 DEF Become
<1> HIDE DEF t
<1> QED BY <1>2, <1>3, ResultMoves

LEMMA ShowMoves ==
  ASSUME Consistent(Now), NEW h \in Handlers, eventReady(h)
  PROVE  Moves
<1> DEFINE hh == SetActive(SetInbox(Now.hs, h, Tail(Now.hs[h].inbox)), h,
                           Append(Now.hs[h].activeIds, Head(Now.hs[h].inbox)))
           t == SetHs(Now, hh)
<1>1. Now.hs[h].phase # "off" /\ Now.hs[h].inbox # <<>>
  BY NowFacts DEF eventReady
<1>2. Result(Now, t)
  BY <1>1, QuestionShown
<1>3. Become(t)
  <2>1. g' = g /\ as' = as
    BY DEF eventReady
  <2>2. Now.hs \in [Handlers -> HandlerStates]
    <3>1. Now \in States
      BY DEF Consistent, Good
    <3> QED BY <3>1, StateFacts
  <2>3. hs' = hh
    BY <2>2, NowFacts DEF eventReady, SetActive, SetInbox, HandlerStates
  <2>4. t = SetHs(Now, hs')
    BY <2>3, Zenon
  <2>5. SetHs(Now, hs').g = g /\ SetHs(Now, hs').hs = hs' /\ SetHs(Now, hs').as = as
    BY DEF SetHs, Now
  <2> HIDE DEF t
  <2> QED BY <2>1, <2>4, <2>5 DEF Become
<1> HIDE DEF t
<1> QED BY <1>2, <1>3, ResultMoves

(* submit(), decline() and destroyReject() begin by taking the id off *)
LEMMA TakesOff ==
  ASSUME NEW s, Consistent(s), NEW h \in Handlers, s.hs[h].phase # "off", NEW id, NEW b \in IdLists,
         Distinct(b), ToSet(b) = ToSet(s.hs[h].activeIds) \ {id}
  PROVE  OffList(s, SetHs(s, SetActive(s.hs, h, b)), h, id)
<1> DEFINE hh == SetActive(s.hs, h, b)
           v == SetHs(s, hh)
<1>1. s \in States
  BY DEF Consistent, Good
<1>2. s.hs \in [Handlers -> HandlerStates]
  BY <1>1, StateFacts
<1>3. /\ hh \in [Handlers -> HandlerStates] /\ \A m \in Handlers : m # h => hh[m] = s.hs[m]
      /\ hh[h].inbox = s.hs[h].inbox /\ hh[h].activeIds = b /\ hh[h].phase = s.hs[h].phase
  BY <1>2, ActiveReplaced
<1> HIDE DEF hh
<1>4. v \in States /\ v.g = s.g /\ v.hs = hh /\ v.as = s.as
  BY <1>1, <1>3, Setters
<1> HIDE DEF v
<1>5. OffList(s, v, h, id)
  BY <1>3, <1>4 DEF OffList
<1> QED BY <1>5 DEF v, hh

LEMMA ActiveFacts ==
  ASSUME NEW s, Consistent(s), NEW h \in Handlers, s.hs[h].phase # "off"
  PROVE  s.hs[h].activeIds \in IdLists /\ Distinct(s.hs[h].activeIds)
<1>1. s \in States /\ Once(s) /\ Registered(s)
  BY DEF Consistent, Good
<1>2. s.hs[h].activeIds \in Seq(Nat)
  BY <1>1, ViewFacts
<1>3. PICK k \in 1..Len(s.g.handlers) : s.g.handlers[k].h = h
  BY <1>1 DEF Registered
<1>4. Distinct(s.hs[h].activeIds)
  BY <1>1, <1>3 DEF Once
<1> QED BY <1>2, <1>4 DEF IdLists

LEMMA AnswerMoves ==
  ASSUME Consistent(Now), NEW h \in Handlers, NEW id, submit(h, id) \/ decline(h, id)
  PROVE  Moves
<1> DEFINE c == Now.hs[h].activeIds
           b == Without(c, id)
           v == SetHs(Now, SetActive(Now.hs, h, b))
           t == handler_accept(v, h, id)
           u == handler_reject(v, h, id)
<1>1. Now.hs[h].phase # "off" /\ Contains(c, id)
  BY NowFacts DEF submit, decline
<1>2. c \in IdLists /\ Distinct(c)
  BY <1>1, ActiveFacts
<1>3. id \in ToSet(c)
  BY <1>1, <1>2 DEF Contains, ToSet, IdLists
<1>4. b \in IdLists /\ ToSet(b) = ToSet(c) \ {id} /\ Distinct(b)
  <2> HIDE DEF c
  <2> QED BY <1>2, WithoutFacts
<1>5. submit(h, id) => Become(t)
  BY Zenon DEF submit, SetHs, SetActive
<1>6. decline(h, id) => Become(u)
  BY Zenon DEF decline, SetHs, SetActive
<1> HIDE DEF b, t, u
<1>7. OffList(Now, v, h, id)
  BY <1>1, <1>4, TakesOff
<1> HIDE DEF v
<1>8. Result(Now, t) /\ Result(Now, u)
  BY <1>1, <1>3, <1>7, GoodAnswer DEF t, u
<1>9. CASE submit(h, id)
  BY <1>5, <1>8, <1>9, ResultMoves
<1>10. CASE decline(h, id)
  BY <1>6, <1>8, <1>10, ResultMoves
<1> QED BY <1>9, <1>10

LEMMA DestroyRejectMoves ==
  ASSUME Consistent(Now), NEW h \in Handlers, destroyReject(h)
  PROVE  Moves
<1> DEFINE c == Now.hs[h].activeIds
           id == Head(c)
           b == Tail(c)
           v == SetHs(Now, SetActive(Now.hs, h, b))
           u == handler_reject(v, h, id)
<1>1. Now.hs[h].phase # "off" /\ c # <<>>
  BY NowFacts DEF destroyReject
<1>2. c \in IdLists /\ Distinct(c)
  BY <1>1, ActiveFacts
<1>3. Become(u)
  <2>1. id = Head(hs[h].activeIds)
    BY NowFacts
  <2>2. Become(handler_reject(v, h, Head(hs[h].activeIds)))
    BY Zenon DEF destroyReject, SetHs, SetActive
  <2> QED BY <2>1, <2>2, Zenon
<1>4. /\ b \in IdLists /\ ToSet(c) = ToSet(b) \cup {id} /\ Distinct(b) /\ id \notin ToSet(b)
  <2> HIDE DEF c
  <2> QED BY <1>1, <1>2, TailElements DEF IdLists
<1> HIDE DEF b, u, id
<1>5. ToSet(b) = ToSet(c) \ {id} /\ id \in ToSet(c)
  BY <1>4
<1>6. OffList(Now, v, h, id)
  BY <1>1, <1>4, <1>5, TakesOff
<1> HIDE DEF v
<1>7. Result(Now, u)
  BY <1>1, <1>5, <1>6, GoodAnswer DEF u
<1> QED BY <1>3, <1>7, ResultMoves

LEMMA DestroyRemoveMoves ==
  ASSUME Consistent(Now), NEW h \in Handlers, destroyRemove(h)
  PROVE  Moves
<1> DEFINE u == handler_remove(Now, h)
           t == SetHs(u, SetHandler(u.hs, h, NewHandler))
<1>1. Now.hs[h].phase # "off"
  BY NowFacts DEF destroyRemove
<1>2. Result(Now, t)
  BY <1>1, HandlerGone
<1>3. Become(t)
  BY Zenon DEF destroyRemove, SetHs, SetHandler
<1> HIDE DEF t
<1> QED BY <1>2, <1>3, ResultMoves


(* one member of an asker that no other part looks at *)
LEMMA ThreadMoves ==
  ASSUME Consistent(Now), NEW a \in Askers, NEW p \in {"idle", "cancelling", "waiting", "woken"}, NEW m \in Nat,
         as' = [as EXCEPT ![a].pc = p, ![a].posted = m], g' = g, hs' = hs
  PROVE  Moves
<1> DEFINE r == [as[a] EXCEPT !.pc = p, !.posted = m]
           w == [as EXCEPT ![a] = r]
           t == SetAs(Now, as')
<1>1. Now \in States
  BY DEF Consistent, Good
<1>2. as \in [Askers -> AskerStates]
  <2>1. Now.as \in [Askers -> AskerStates]
    BY <1>1, StateFacts
  <2> QED BY <2>1, NowFacts
<1>3. as[a] \in AskerStates
  BY <1>2
<1>4. r \in AskerStates
  BY <1>3 DEF AskerStates
<1>5. r.done = as[a].done /\ r.accepted = as[a].accepted /\ r.cancelled = as[a].cancelled
      /\ r.again = as[a].again /\ r.id = as[a].id
  BY <1>3 DEF AskerStates
<1>6. as' = w
  BY Zenon
<1> HIDE DEF r
<1>7. w \in [Askers -> AskerStates] /\ w[a] = r /\ \A b \in Askers : b # a => w[b] = as[b]
  BY <1>2, <1>4
<1> HIDE DEF w
<1>8. Own(ToSet(g.askers), as)
  <2>1. Own(ToSet(Now.g.askers), Now.as)
    BY DEF Consistent, Good, Sound
  <2> QED BY <2>1, NowFacts
<1>9. (as[a].accepted => as[a].done) /\ (as[a].cancelled /\ as[a].accepted => as[a].again)
  BY <1>8, Zenon DEF Own
<1>10. AskerStep(ToSet(g.askers), as, a, w)
  <2>1. w[a].accepted => w[a].done
    BY <1>5, <1>7, <1>9, Zenon
  <2>2. w[a].cancelled => ~w[a].accepted \/ w[a].again
    BY <1>5, <1>7, <1>9, Zenon
  <2>3. w[a].done = as[a].done /\ w[a].cancelled = as[a].cancelled /\ w[a].again = as[a].again /\ w[a].id = as[a].id
    BY <1>5, <1>7
  <2> QED BY <1>7, <2>1, <2>2, <2>3 DEF AskerStep
<1>11. AskerStep(ToSet(Now.g.askers), Now.as, a, w)
  BY <1>10, NowFacts
<1>12. Result(Now, SetAs(Now, w))
  BY <1>11, GoodAsker
<1>13. Become(SetAs(Now, w))
  <2>1. SetAs(Now, w).g = g /\ SetAs(Now, w).hs = hs /\ SetAs(Now, w).as = w
    BY DEF SetAs, Now
  <2> QED BY <1>6, <2>1, Zenon DEF Become
<1> QED BY <1>12, <1>13, ResultMoves

LEMMA AskerMoves ==
  ASSUME Consistent(Now), NEW a \in Askers,
         cancel(a) \/ waitForResponse(a) \/ wake(a) \/ emitResponseReady(a)
  PROVE  Moves
<1>1. as \in [Askers -> AskerStates]
  <2>1. Now \in States
    BY DEF Consistent, Good
  <2>2. Now.as \in [Askers -> AskerStates]
    BY <2>1, StateFacts
  <2> QED BY <2>2, NowFacts
<1>2. as[a] \in AskerStates
  BY <1>1
<1>3. as[a].posted \in Nat /\ as[a].pc \in {"idle", "cancelling", "waiting", "woken"}
  BY <1>2 DEF AskerStates
<1>4. ASSUME NEW p, as' = [as EXCEPT ![a].pc = p] PROVE as' = [as EXCEPT ![a].pc = p, ![a].posted = as[a].posted]
  BY <1>1, <1>4 DEF AskerStates
<1>5. ASSUME NEW m, as' = [as EXCEPT ![a].posted = m] PROVE as' = [as EXCEPT ![a].pc = as[a].pc, ![a].posted = m]
  BY <1>1, <1>5 DEF AskerStates
<1>6. CASE cancel(a)
  <2>1. as' = [as EXCEPT ![a].pc = "cancelling"] /\ g' = g /\ hs' = hs
    BY <1>6 DEF cancel
  <2>2. as' = [as EXCEPT ![a].pc = "cancelling", ![a].posted = as[a].posted]
    BY <1>4, <2>1
  <2> QED BY <1>3, <2>1, <2>2, ThreadMoves
<1>7. CASE waitForResponse(a)
  <2>1. as' = [as EXCEPT ![a].pc = "waiting"] /\ g' = g /\ hs' = hs
    BY <1>7 DEF waitForResponse
  <2>2. as' = [as EXCEPT ![a].pc = "waiting", ![a].posted = as[a].posted]
    BY <1>4, <2>1
  <2> QED BY <1>3, <2>1, <2>2, ThreadMoves
<1>8. CASE wake(a)
  <2>1. as' = [as EXCEPT ![a].pc = "idle"] /\ g' = g /\ hs' = hs
    BY <1>8 DEF wake
  <2>2. as' = [as EXCEPT ![a].pc = "idle", ![a].posted = as[a].posted]
    BY <1>4, <2>1
  <2> QED BY <1>3, <2>1, <2>2, ThreadMoves
<1>9. CASE emitResponseReady(a)
  <2> DEFINE m == as[a].posted - 1
  <2>1. as' = [as EXCEPT ![a].posted = m] /\ g' = g /\ hs' = hs /\ as[a].posted > 0
    BY <1>9 DEF emitResponseReady
  <2>2. m \in Nat
    <3> DEFINE q == as[a].posted
    <3>1. q \in Nat /\ q > 0
      BY <1>3, <2>1
    <3>2. m = q - 1
      OBVIOUS
    <3> HIDE DEF q, m
    <3> QED BY <3>1, <3>2
  <2> HIDE DEF m
  <2>3. as' = [as EXCEPT ![a].pc = as[a].pc, ![a].posted = m]
    BY <1>5, <2>1
  <2> QED BY <1>3, <2>1, <2>2, <2>3, ThreadMoves
<1> QED BY <1>6, <1>7, <1>8, <1>9

LEMMA AskMoves ==
  ASSUME Consistent(Now), NEW a \in Askers, askQuestion(a)
  PROVE  Moves
<1> DEFINE again == findAskerItem(Now, a) # 0
           f == Fresh(Now.as[a], Now.g.on, Now.g.next_id, again)
           v == SetAs(Now, SetFresh(Now.as, a, Now.g.on, Now.g.next_id, again))
           t == IF Now.g.on THEN asker_ask(v, a) ELSE v
<1>1. again \in BOOLEAN /\ (again <=> findAskerItem(Now, a) # 0)
  OBVIOUS
<1>2. Become(t)
  <2>1. f = [as[a] EXCEPT !.accepted = FALSE, !.done = ~g.on, !.id = g.next_id,
                          !.posted = IF g.on THEN @ ELSE @ + 1,
                          !.cancelled = FALSE, !.again = findAskerItem(Now, a) # 0]
    BY NowFacts, Zenon DEF Fresh
  <2>2. v = [Now EXCEPT !.as[a] = f]
    BY Zenon DEF SetAs, SetFresh
  <2> HIDE DEF f, v
  <2>3. Become(IF g.on THEN asker_ask([Now EXCEPT !.as[a] = f], a) ELSE [Now EXCEPT !.as[a] = f])
    BY <2>1, Zenon DEF askQuestion
  <2> QED BY <2>2, <2>3, NowFacts, Zenon
<1> HIDE DEF again
<1>3. Result(Now, t)
  BY <1>1, QuestionAsked
<1> HIDE DEF t
<1> QED BY <1>2, <1>3, ResultMoves

LEMMA CancelMoves ==
  ASSUME Consistent(Now), NEW a \in Askers, cancelLocked(a)
  PROVE  Moves
<1> DEFINE v == SetAs(Now, SetCancelled(Now.as, a))
           t == asker_cancel(v, a)
<1>1. Become(t)
  <2>1. v = [Now EXCEPT !.as[a].pc = "idle", !.as[a].cancelled = ~Now.as[a].done]
    BY Zenon DEF SetAs, SetCancelled
  <2>2. Now.as[a].done = as[a].done
    BY NowFacts
  <2> HIDE DEF v
  <2> QED BY <2>1, <2>2, Zenon DEF cancelLocked
<1>2. /\ Consistent(t) /\ t.as[a].pc = "idle"
      /\ \A x \in ToSet(Now.g.askers) : x.a # a => x \in ToSet(t.g.askers)
  BY QuestionCancelled
<1> HIDE DEF t
<1>3. t \in States
  BY <1>2 DEF Consistent, Good
<1>4. Now' = t /\ g' = t.g /\ as' = t.as
  BY <1>1, <1>3, Becomes DEF Become
<1>5. as[a].pc = "cancelling"
  BY DEF cancelLocked
<1> QED BY <1>2, <1>4, <1>5, NowFacts DEF Moves


(* every action keeps what RejectedByAll says and leads to a consistent    *)
(* state                                                                   *)
LEMMA NextMoves ==
  ASSUME Consistent(Now), Next
  PROVE  Moves
<1>1. ASSUME NEW h \in Handlers, start(h) PROVE Moves
  BY <1>1, StartMoves
<1>2. ASSUME NEW h \in Handlers, destroy(h) PROVE Moves
  BY <1>2, DestroyMoves
<1>3. ASSUME NEW h \in Handlers, handlerThread(h) PROVE Moves
  <2>1. CASE eventReady(h)
    BY <2>1, ShowMoves
  <2>2. CASE destroyReject(h)
    BY <2>2, DestroyRejectMoves
  <2>3. CASE destroyRemove(h)
    BY <2>3, DestroyRemoveMoves
  <2>4. ASSUME NEW id \in 0 .. MaxQuestions, submit(h, id) \/ decline(h, id) PROVE Moves
    BY <2>4, AnswerMoves
  <2> QED BY <1>3, <2>1, <2>2, <2>3, <2>4 DEF handlerThread
<1>4. ASSUME NEW a \in Askers, askQuestion(a) PROVE Moves
  BY <1>4, AskMoves
<1>5. ASSUME NEW a \in Askers, cancelLocked(a) PROVE Moves
  BY <1>5, CancelMoves
<1>6. ASSUME NEW a \in Askers, cancel(a) \/ waitForResponse(a) \/ wake(a) \/ emitResponseReady(a) PROVE Moves
  BY <1>6, AskerMoves
<1> QED BY <1>1, <1>2, <1>3, <1>4, <1>5, <1>6 DEF Next

LEMMA BoundsKept ==
  ASSUME starts \in 0 .. MaxStarts, asked \in 0 .. MaxQuestions, [Next]_vars
  PROVE  starts' \in 0 .. MaxStarts /\ asked' \in 0 .. MaxQuestions
<1>0. MaxStarts \in Nat /\ MaxQuestions \in Nat
  BY BrokerAssumption
<1>1. ASSUME NEW h \in Handlers, start(h) PROVE starts' \in 0 .. MaxStarts /\ asked' \in 0 .. MaxQuestions
  <2>1. starts < MaxStarts /\ starts' = starts + 1 /\ asked' = asked
    BY <1>1 DEF start
  <2> QED BY <1>0, <2>1
<1>2. ASSUME NEW a \in Askers, askQuestion(a) PROVE starts' \in 0 .. MaxStarts /\ asked' \in 0 .. MaxQuestions
  <2>1. asked < MaxQuestions /\ asked' = asked + 1 /\ starts' = starts
    BY <1>2 DEF askQuestion
  <2> QED BY <1>0, <2>1
<1>3. ASSUME NEW h \in Handlers, destroy(h) \/ handlerThread(h) PROVE starts' = starts /\ asked' = asked
  BY <1>3, Zenon DEF destroy, handlerThread, eventReady, destroyReject, destroyRemove, submit, decline
<1>4. ASSUME NEW a \in Askers, cancel(a) \/ cancelLocked(a) \/ waitForResponse(a) \/ wake(a) \/ emitResponseReady(a)
      PROVE  starts' = starts /\ asked' = asked
  BY <1>4, Zenon DEF cancel, cancelLocked, waitForResponse, wake, emitResponseReady
<1>5. CASE UNCHANGED vars
  BY <1>5 DEF vars
<1>6. CASE Next
  BY <1>1, <1>2, <1>3, <1>4, <1>6 DEF Next
<1> QED BY <1>5, <1>6

LEMMA InitIInv ==
  ASSUME Init
  PROVE  IInv
<1> DEFINE s == Now
           w == [a \in Askers |-> NewAsker]
           hh == [h \in Handlers |-> NewHandler]
<1>1. NewAsker \in AskerStates /\ NewAsker.done /\ ~NewAsker.accepted /\ ~NewAsker.cancelled
  BY DEF NewAsker, AskerStates
<1>2. NewHandler \in HandlerStates /\ NewHandler.phase = "off" /\ NewHandler.inbox = <<>> /\ NewHandler.activeIds = <<>>
  BY DEF NewHandler, HandlerStates
<1>3. NoGlobal \in Globals /\ ~NoGlobal.on /\ NoGlobal.handlers = <<>> /\ NoGlobal.askers = <<>>
      /\ NoGlobal.next_id = 0
  BY GlobalFacts
<1>4. s.g = NoGlobal /\ s.hs = hh /\ s.as = w
  BY NowFacts DEF Init
<1>5. hh \in [Handlers -> HandlerStates] /\ \A h \in Handlers : hh[h] = NewHandler
  BY <1>2
<1>6. w \in [Askers -> AskerStates] /\ \A a \in Askers : w[a] = NewAsker
  BY <1>1
<1> HIDE DEF w, hh
<1>7. s \in States
  <2>1. s = [g |-> NoGlobal, hs |-> hh, as |-> w]
    BY <1>4, NowFacts DEF Now
  <2> HIDE DEF s
  <2> QED BY <1>3, <1>5, <1>6, <2>1 DEF States
<1> HIDE DEF s
<1>8. Len(s.g.handlers) = 0 /\ ToSet(s.g.askers) = {} /\ s.g.next_id = 0 /\ Len(s.g.askers) = 0
  BY <1>3, <1>4 DEF ToSet
<1>9. Hd(s) \in [1..0 -> Handlers] /\ Held(s) \in [1..0 -> SUBSET Nat]
  BY <1>7, <1>8, ViewFacts
<1>9a. Box(s) \in [Handlers -> SUBSET Nat]
  BY <1>7, ViewFacts
<1>10. 1..0 = {}
  OBVIOUS
<1>11. Sound(0, Hd(s), Held(s), {}, 0, Box(s), w, {})
  <2>1. Shape(0, Hd(s), Held(s), {}, 0, Box(s), w)
    BY <1>6, <1>9, <1>9a DEF Shape
  <2>2. Listed(0, Hd(s)) /\ Numbered(0, {}, 0) /\ Passed(0, Hd(s), {}) /\ OnTheWay(0, Held(s), {}, {})
    BY <1>10 DEF Listed, Numbered, Passed, OnTheWay
  <2>3. Routed(0, Held(s), {}) /\ Delivered(0, Hd(s), Held(s), Box(s)) /\ Known(0, Hd(s), Held(s), {}, 0, Box(s))
    BY <1>10 DEF Routed, Delivered, Known
  <2>4. InHands(0, Held(s), {}, w, {}) /\ Own({}, w)
    BY <1>1, <1>6 DEF InHands, Own
  <2> QED BY <2>1, <2>2, <2>3, <2>4 DEF Sound
<1>12. Once(s)
  BY <1>8, <1>10 DEF Once
<1>13. Good(s, {})
  BY <1>4, <1>7, <1>8, <1>11, <1>12 DEF Good
<1>14. Registered(s)
  <2>1. (s.g.on <=> s.g.handlers # <<>>) /\ (~s.g.on => s.g = NoGlobal)
    BY <1>3, <1>4
  <2>2. ASSUME NEW h \in Handlers
        PROVE  /\ s.hs[h].phase # "off" <=> \E k \in 1..Len(s.g.handlers) : s.g.handlers[k].h = h
               /\ s.hs[h].phase = "off" => s.hs[h].inbox = <<>> /\ s.hs[h].activeIds = <<>>
    BY <1>2, <1>4, <1>5, <1>8, <1>10
  <2> QED BY <2>1, <2>2, Zenon DEF Registered
<1>15. starts \in 0 .. MaxStarts /\ asked \in 0 .. MaxQuestions
  BY BrokerAssumption DEF Init
<1> QED BY <1>13, <1>14, <1>15 DEF IInv, s

LEMMA StepIInv ==
  ASSUME IInv, [Next]_vars
  PROVE  IInv'
<1>1. Consistent(Now) /\ starts \in 0 .. MaxStarts /\ asked \in 0 .. MaxQuestions
  BY DEF IInv, Consistent
<1>2. starts' \in 0 .. MaxStarts /\ asked' \in 0 .. MaxQuestions
  BY <1>1, BoundsKept
<1>3. Consistent(Now')
  <2>1. CASE Next
    BY <1>1, <2>1, NextMoves DEF Moves
  <2>2. CASE UNCHANGED vars
    <3>1. Now' = Now
      BY <2>2 DEF vars, Now
    <3> QED BY <1>1, <3>1
  <2> QED BY <2>1, <2>2
<1> QED BY <1>2, <1>3 DEF IInv, Consistent, Good, Registered

(* The inductive invariant holds in every reachable state. *)
THEOREM BrokerInvariant == Spec => []IInv
<1>1. Init => IInv
  BY InitIInv
<1>2. IInv /\ [Next]_vars => IInv'
  BY StepIInv
<1> QED BY <1>1, <1>2, PTL DEF Spec


(* The members have the types of their declarations in every reachable     *)
(* state.                                                                  *)
THEOREM BrokerTypes == Spec => []TypeOK
<1>1. IInv => TypeOK
  <2> SUFFICES ASSUME IInv PROVE TypeOK
    OBVIOUS
  <2>1. Now \in States
    BY DEF IInv, Good
  <2>2. Now.g \in Globals /\ Now.hs \in [Handlers -> HandlerStates] /\ Now.as \in [Askers -> AskerStates]
    BY <2>1, StateFacts
  <2> QED BY <2>2, NowFacts DEF IInv, TypeOK
<1> QED BY <1>1, BrokerInvariant, PTL

(* what IInv says of the lists themselves *)
LEMMA ListFacts ==
  ASSUME IInv
  PROVE  /\ Now \in States /\ Once(Now)
         /\ Sound(Len(g.handlers), Hd(Now), Held(Now), ToSet(g.askers), g.next_id, Box(Now), as, {})
         /\ g.handlers \in Seq(HandlerItems) /\ g.askers \in Seq(Items)
         /\ \A k \in 1..Len(g.handlers) : /\ Hd(Now)[k] = g.handlers[k].h
                                          /\ Held(Now)[k] = ToSet(g.handlers[k].ids)
                                          /\ g.handlers[k].h \in Handlers
                                          /\ g.handlers[k].ids \in Seq(Nat)
         /\ \A h \in Handlers : /\ Box(Now)[h] = ToSet(hs[h].inbox) \cup ToSet(hs[h].activeIds)
                                /\ hs[h].inbox \in Seq(Nat) /\ hs[h].activeIds \in Seq(Nat)
         /\ \A x \in ToSet(g.askers) : \E i \in 1..Len(g.askers) : g.askers[i] = x
<1> DEFINE s == Now
<1>1. Good(s, {})
  BY DEF IInv
<1>2. s.g = g /\ s.hs = hs /\ s.as = as
  BY NowFacts
<1> HIDE DEF s
<1>3. s \in States /\ Once(s)
      /\ Sound(Len(s.g.handlers), Hd(s), Held(s), ToSet(s.g.askers), s.g.next_id, Box(s), s.as, {})
  BY <1>1 DEF Good
<1>4. s.g.handlers \in Seq(HandlerItems) /\ s.g.askers \in Seq(Items)
  BY <1>3, StateFacts
<1>5. \A k \in 1..Len(s.g.handlers) : /\ Hd(s)[k] = s.g.handlers[k].h
                                      /\ Held(s)[k] = ToSet(s.g.handlers[k].ids)
                                      /\ s.g.handlers[k].h \in Handlers
                                      /\ s.g.handlers[k].ids \in Seq(Nat)
  BY <1>3, ViewFacts
<1>6. \A h \in Handlers : /\ Box(s)[h] = ToSet(s.hs[h].inbox) \cup ToSet(s.hs[h].activeIds)
                          /\ s.hs[h].inbox \in Seq(Nat) /\ s.hs[h].activeIds \in Seq(Nat)
  BY <1>3, ViewFacts
<1>7. \A x \in ToSet(s.g.askers) : \E i \in 1..Len(s.g.askers) : s.g.askers[i] = x
  BY <1>3, ViewFacts
<1> QED BY <1>2, <1>3, <1>4, <1>5, <1>6, <1>7 DEF s

(* The assertions asker_at != -1 of handler_remove() hold: every id a      *)
(* handler is responsible for has one asker item, which leads back to it.  *)
THEOREM RoutesAlwaysAgree == Spec => []RoutesAgree
<1>1. IInv => RoutesAgree
  <2> SUFFICES ASSUME IInv PROVE RoutesAgree
    OBVIOUS
  <2>1. Once(Now) /\ Sound(Len(g.handlers), Hd(Now), Held(Now), ToSet(g.askers), g.next_id, Box(Now), as, {})
    BY ListFacts
  <2>2. g.handlers \in Seq(HandlerItems) /\ g.askers \in Seq(Items)
    BY ListFacts
  <2>3. DOMAIN g.handlers = 1..Len(g.handlers) /\ DOMAIN g.askers = 1..Len(g.askers)
    BY <2>2
  <2>4. \A i, j \in DOMAIN g.askers : g.askers[i].id = g.askers[j].id => i = j
    <3>1. \A i, j \in 1..Len(Now.g.askers) : Now.g.askers[i].id = Now.g.askers[j].id => i = j
      BY <2>1 DEF Once
    <3> QED BY <2>3, <3>1, NowFacts
  <2>5. ASSUME NEW k \in DOMAIN g.handlers, NEW n \in DOMAIN g.handlers[k].ids
        PROVE  \E i \in DOMAIN g.askers : g.askers[i].id = g.handlers[k].ids[n] /\ g.askers[i].pos = k
    <3> DEFINE id == g.handlers[k].ids[n]
    <3>1. k \in 1..Len(g.handlers)
      BY <2>3
    <3>2. Held(Now)[k] = ToSet(g.handlers[k].ids)
      BY <3>1, ListFacts
    <3>3. id \in Held(Now)[k]
      BY <3>2 DEF ToSet
    <3> HIDE DEF id
    <3>4. PICK x \in ToSet(g.askers) : x.id = id /\ x.pos = k
      BY <2>1, <3>1, <3>3 DEF Sound, Routed
    <3>5. PICK i \in 1..Len(g.askers) : g.askers[i] = x
      BY ListFacts
    <3> QED BY <2>3, <3>4, <3>5 DEF id
  <2> QED BY <2>4, <2>5 DEF RoutesAgree
<1> QED BY <1>1, BrokerInvariant, PTL

(* a member of a list is one of its elements *)
LEMMA ContainsMember ==
  ASSUME NEW e, NEW q \in Seq(Nat), e \in ToSet(q)
  PROVE  Contains(q, e)
<1>1. DOMAIN q = 1..Len(q)
  OBVIOUS
<1>2. PICK j \in DOMAIN q : q[j] = e
  BY DEF ToSet
<1> QED BY <1>1, <1>2 DEF Contains

(* A question that is neither answered nor cancelled is in the hands of a  *)
(* handler: posted to it or shown by it, and listed as its responsibility. *)
THEOREM NoQuestionLost == Spec => []NoLostQuestion
<1>1. IInv => NoLostQuestion
  <2> SUFFICES ASSUME IInv, NEW a \in Askers, ~as[a].done, ~as[a].cancelled
               PROVE  \E k \in DOMAIN g.handlers :
                         /\ Holds(k, as[a].id)
                         /\ \/ Contains(hs[g.handlers[k].h].inbox, as[a].id)
                            \/ Contains(hs[g.handlers[k].h].activeIds, as[a].id)
    BY DEF NoLostQuestion
  <2>1. Sound(Len(g.handlers), Hd(Now), Held(Now), ToSet(g.askers), g.next_id, Box(Now), as, {})
    BY ListFacts
  <2>2. PICK x \in ToSet(g.askers) : /\ x.a = a /\ x.id = as[a].id
                                     /\ x.id \in {} \/ \E k \in 1..Len(g.handlers) : x.id \in Held(Now)[k]
    BY <2>1 DEF Sound, InHands
  <2>3. PICK k \in 1..Len(g.handlers) : as[a].id \in Held(Now)[k]
    BY <2>2
  <2>4. as[a].id \in Box(Now)[Hd(Now)[k]]
    BY <2>1, <2>3 DEF Sound, Delivered
  <2> DEFINE h == g.handlers[k].h
             id == as[a].id
  <2>5. Held(Now)[k] = ToSet(g.handlers[k].ids) /\ h \in Handlers /\ Hd(Now)[k] = h /\ g.handlers[k].ids \in Seq(Nat)
    BY ListFacts
  <2>6. Box(Now)[h] = ToSet(hs[h].inbox) \cup ToSet(hs[h].activeIds)
        /\ hs[h].inbox \in Seq(Nat) /\ hs[h].activeIds \in Seq(Nat)
    BY <2>5, ListFacts
  <2>7. \A q \in Seq(Nat) : id \in ToSet(q) => Contains(q, id)
    BY ContainsMember
  <2>8. id \in ToSet(g.handlers[k].ids) /\ (id \in ToSet(hs[h].inbox) \/ id \in ToSet(hs[h].activeIds))
    BY <2>3, <2>4, <2>5, <2>6
  <2>9. Contains(g.handlers[k].ids, id)
    BY <2>5, <2>7, <2>8
  <2>10. Contains(hs[h].inbox, id) \/ Contains(hs[h].activeIds, id)
    BY <2>6, <2>7, <2>8
  <2>11. k \in DOMAIN g.handlers
    <3>1. g.handlers \in Seq(HandlerItems)
      BY ListFacts
    <3> QED BY <3>1
  <2> QED BY <2>9, <2>10, <2>11 DEF Holds
<1> QED BY <1>1, BrokerInvariant, PTL

(* A cancelled question is accepted only where the list still had the item *)
(* of an earlier question of the asker when this one was asked.            *)
THEOREM CancelledNeverAccepted == Spec => []CancelledNotAccepted
<1>1. IInv => CancelledNotAccepted
  <2> SUFFICES ASSUME IInv PROVE CancelledNotAccepted
    OBVIOUS
  <2>1. Sound(Len(g.handlers), Hd(Now), Held(Now), ToSet(g.askers), g.next_id, Box(Now), as, {})
    BY ListFacts
  <2>2. Own(ToSet(g.askers), as)
    BY <2>1 DEF Sound
  <2> QED BY <2>2, Zenon DEF Own, CancelledNotAccepted
<1> QED BY <1>1, BrokerInvariant, PTL

(* A question that is not cancelled leaves the list only when every        *)
(* handler that is then registered was asked.                              *)
THEOREM AlwaysRejectedByAll == Spec => RejectedByAll
<1> DEFINE A == \A x \in ToSet(g.askers) :
                    \/ \E y \in ToSet(g'.askers) : y.id = x.id
                    \/ as[x.a].pc = "cancelling" /\ as'[x.a].pc = "idle"
                    \/ {y.h : y \in ToSet(g'.handlers)} \subseteq x.tried
<1>1. ASSUME IInv, [Next]_vars PROVE [A]_vars
  <2>1. CASE Next
    <3>1. Moves
      BY <1>1, <2>1, NextMoves DEF IInv, Consistent
    <3>2. g'.handlers \in Seq(HandlerItems)
      <4>1. Now' \in States
        BY <3>1 DEF Moves, Consistent, Good
      <4>2. Now'.g = g'
        BY DEF Now
      <4>3. Now'.g.handlers \in Seq(HandlerItems)
        BY <4>1, StateFacts
      <4> QED BY <4>2, <4>3
    <3>3. \A y \in ToSet(g'.handlers) : \E k \in 1..Len(g'.handlers) : g'.handlers[k] = y
      BY <3>2 DEF ToSet
    <3>4. ASSUME NEW x \in ToSet(g.askers), \A k \in 1..Len(g'.handlers) : g'.handlers[k].h \in x.tried
          PROVE  {y.h : y \in ToSet(g'.handlers)} \subseteq x.tried
      BY <3>3, <3>4
    <3> QED BY <3>1, <3>4 DEF Moves
  <2>2. CASE UNCHANGED vars
    BY <2>2
  <2> QED BY <1>1, <2>1, <2>2
<1> HIDE DEF A
<1>2. Spec => [][A]_vars
  BY <1>1, BrokerInvariant, PTL DEF Spec
<1> QED BY <1>2 DEF A, RejectedByAll
==============================================================================
