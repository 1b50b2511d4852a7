----------------------------- MODULE MCUpdateTool -----------------------------
(* Values for the constants of UpdateTool. *)
EXTENDS UpdateTool, TLC

CONSTANTS f1, f2, m1, m2  \* files and mirrors; a system location has f1

\* No system location.
NoSystem == EmptyList

\* A system location with the first version of f1.
OldSystem == [EmptyList EXCEPT ![f1] = Version(f1, 1, FALSE)]

\* Where no file is ever empty.
NoneEmpty == {}

\* f1 is empty in its second version, which a third one may follow.
EmptyInBetween == {<<f1, 2>>}

\* f2 is empty when it is published first.
EmptyFirst == {<<f2, 1>>}

\* Mirrors that start out alike are interchangeable.
Symmetry == Permutations(Mirror)
====
