SPECIFICATION Spec
CONSTANTS
    Sources = {s1, s2}
    KS = {k1, k2}
    Worlds <- MCWorlds
    Callers <- MCCallers
    MaxIds = 2
    MaxVersion = 1
    MaxUpdates = 1
SYMMETRY Same
INVARIANTS OwnAnswer CopyOnItsWay GoneIsTold ListFresh WakeOnItsWay CallOnItsWay
