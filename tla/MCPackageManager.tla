-------------------------- MODULE MCPackageManager --------------------------
(***************************************************************************)
(* Three packages.  a and b need each other, b needs c.  A project may     *)
(* want a, or two versions of c by ranges.  The address of b is long, and  *)
(* its name begins with the name a.                                        *)
(***************************************************************************)
EXTENDS PackageManager

CONSTANTS a, b, c, srcA, srcB, srcC

At(n, s) == [name |-> n, req |-> [op |-> "at", of |-> s]]
Range3(n, o, v) == [name |-> n, req |-> [op |-> o, of |-> v]]

MCManifest == [s \in Sources |->
  CASE s = srcA -> <<At(b, srcB)>>
    [] s = srcB -> <<At(a, srcA), At(c, srcC)>>
    [] OTHER -> <<>>]

MCStarts == [n \in Names |-> IF n = b THEN {a} ELSE {}]

\* Not explored is what comes after the removal of a second name, and after a
\* removal whose path was ~/.wyn: no name is left then that was not struck.
Explored == Cardinality(removed) <= 1 /\ RegistryFile \notin struck

MCProjects == {<<At(a, srcA)>>,
               <<Range3(c, "^", <<1, 0>>), Range3(c, "=", <<1, 1, 0>>)>>}
=============================================================================
