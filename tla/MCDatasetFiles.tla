---------------------------- MODULE MCDatasetFiles ----------------------------
(* Small instances of DatasetFiles for TLC.                                  *)
EXTENDS DatasetFiles, TLC

CONSTANTS bad, good, a, b, n, g

(* Class bad has the test cases a, b, and n below b; class good has g.  The  *)
(* name of good is taken to start with that of bad, as CWE121 with CWE12.    *)
TwoClasses == <<bad, good>>
InClass    == a :> bad @@ b :> bad @@ n :> bad @@ g :> good
OwnPrefix  == {<<InClass[c], c>> : c \in DOMAIN InClass}
ByPrefix   == OwnPrefix \union {<<bad, g>>}
Nested     == {<<n, b>>}
SomeFiles  == a :> {"c", "h"} @@ b :> {"cpp"} @@ n :> {"interproc"} @@ g :> {"cpp"}
===============================================================================
