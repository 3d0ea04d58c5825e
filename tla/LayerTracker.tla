----------------------------- MODULE LayerTracker -----------------------------
(***************************************************************************)
(* class LayerTracker (qca_securelayer.cpp): how many plaintext bytes a    *)
(* number of acknowledged network bytes stands for.  The three calls are   *)
(* operators; the actions add the totals a caller sees as history, and     *)
(* module TLSLayer drives them from a session.                             *)
(***************************************************************************)
EXTENDS Sums, SequencesExt

CONSTANTS Sizes,      \* the byte counts a caller uses
          MaxPlain,   \* bound: plaintext bytes
          MaxItems    \* bound: calls of specifyEncoded

ASSUME LayerAssumption == Sizes \subseteq Nat /\ MaxPlain \in Nat /\ MaxItems \in Nat

VARIABLES layer,      \* [p, list]: the members of the tracker
          added,      \* history: plaintext handed to addPlain
          specified,  \* history: the items specified, whole
          acked,      \* history: network bytes acknowledged
          reported    \* history: what finished() has returned in all

trackerVars == <<layer, added, specified, acked, reported>>

NoLayer == [p |-> 0, list |-> <<>>]

addPlain(l, plain) == [l EXCEPT !.p = @ + plain]

specifyEncoded_NoLimit(l, encoded, plain) ==
    [p |-> l.p - plain, list |-> Append(l.list, [plain |-> plain, encoded |-> encoded])]

(* can't specify more bytes than we have *)
specifyEncoded(l, encoded, plain) ==
    LET q == IF plain > l.p THEN l.p ELSE plain
    IN [p |-> l.p - q, list |-> Append(l.list, [plain |-> q, encoded |-> encoded])]

(* one turn of the loop of finished(): the first item goes when all its    *)
(* network bytes are acknowledged, and else nothing does                   *)
erase(f) ==
    IF f.list = <<>> \/ f.encoded < Head(f.list).encoded THEN f
    ELSE [encoded |-> f.encoded - Head(f.list).encoded,
          plain |-> f.plain + Head(f.list).plain,
          list |-> Tail(f.list)]

(* the loop, which has no more turns to take than there are items *)
finishedLoop(items, bytes) ==
    LET loop[i \in 0 .. Len(items)] ==
            IF i = 0 THEN [encoded |-> bytes, plain |-> 0, list |-> items]
            ELSE erase(loop[i - 1])
    IN  loop[Len(items)]

finished_ForgetsPart(l, encoded) ==
    LET f == finishedLoop(l.list, encoded)
    IN [plain |-> f.plain, list |-> f.list]

(* the item the loop stops at keeps the bytes that are not acknowledged *)
finished(l, encoded) ==
    LET f == finishedLoop(l.list, encoded)
    IN [plain |-> f.plain,
        list |-> IF f.list = <<>> THEN f.list
                 ELSE <<[Head(f.list) EXCEPT !.encoded = @ - f.encoded]>> \o Tail(f.list)]

------------------------------------------------------------------------------
Plains(items) == [i \in 1 .. Len(items) |-> items[i].plain]
Networks(items) == [i \in 1 .. Len(items) |-> items[i].encoded]

TrackerInit ==
    /\ layer = NoLayer
    /\ added = 0 /\ specified = <<>> /\ acked = 0 /\ reported = 0

AddPlain(n) ==
    /\ added < MaxPlain
    /\ layer' = addPlain(layer, n)
    /\ added' = added + n
    /\ UNCHANGED <<specified, acked, reported>>

SpecifyEncoded(encoded, plain) ==
    /\ Len(specified) < MaxItems
    /\ layer' = specifyEncoded(layer, encoded, plain)
    /\ specified' = Append(specified, Last(layer'.list))
    /\ UNCHANGED <<added, acked, reported>>

(* a caller acknowledges bytes it was given *)
Finished(n) ==
    /\ acked + n <= Total(Networks(specified))
    /\ acked' = acked + n
    /\ LET f == finished(layer, n)
       IN reported' = reported + f.plain /\ layer' = [layer EXCEPT !.list = f.list]
    /\ UNCHANGED <<added, specified>>

(* Whatever the sizes of the acknowledgements, finished() has reported the *)
(* plaintext of exactly the items whose network bytes are all              *)
(* acknowledged, and none of it twice.  An item of no network bytes is     *)
(* reported by the first call that reaches it.                             *)
ReportExact ==
    LET through(k) == Total(Networks(SubSeq(specified, 1, k)))
        done == Len(specified) - Len(layer.list)
    IN /\ reported = Total(Plains(SubSeq(specified, 1, done)))
       /\ through(done) <= acked
       /\ done < Len(specified) =>
             \/ through(done + 1) > acked
             \/ specified[done + 1].encoded = 0

(* No plaintext is invented or dropped: what is not reported is still in   *)
(* the tracker, and the tracker owes nothing it was not given.             *)
PlainConserved ==
    /\ layer.p >= 0
    /\ layer.p + Total(Plains(layer.list)) + reported = added
==============================================================================
