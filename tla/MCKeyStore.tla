------------------------------ MODULE MCKeyStore ------------------------------
(* KeyStore for the model checker: two plugins and no object, one plugin   *)
(* and an object that also writes, or one plugin and two readers           *)
EXTENDS KeyStore, TLC

MCCallers == KS \X {"list", "write"}

One(S) == {{x} : x \in S}

MCWorlds ==
    [plugins : {Sources}, objects : {{}}, writers : {{}}]
    \cup {[plugins |-> p, objects |-> k, writers |-> k] : p \in One(Sources), k \in One(KS)}
    \cup [plugins : One(Sources), objects : {KS}, writers : {{}}]

Same == Permutations(Sources) \cup Permutations(KS)
==============================================================================
