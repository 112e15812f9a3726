---------------------------- MODULE MCSpawnPool ----------------------------
(* Small instances of SpawnPool for TLC.                                   *)
EXTENDS SpawnPool, TLC

CONSTANTS n1, n2, n3, n4, u, a, f, g

MCNodes    == {n1, n2, n3, n4}
MCSymmetry == Permutations(MCNodes)
MCThreads  == {u, a, f, g}

Does(allocators, freers) == [allocators |-> allocators, freers |-> freers]

(* One thread uses the pool; main spawns and two workers took the index; a *)
(* spawn spawns next to main; and both.                                    *)
MCPrograms == {Does({u}, {u}), Does({u}, {f, g}), Does({u, a}, {f}), Does({u, a}, {f, g})}

(* Main spawns and the worker runs.                                        *)
MCPlainPrograms == {Does({u}, {f})}
=============================================================================
