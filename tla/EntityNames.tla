---------------------------- MODULE EntityNames ----------------------------
(***************************************************************************)
(* Names of entities.  Some functions look for a name by Python's `in`,    *)
(* which also holds for a part of a name: `web' is in `web@db'.            *)
(***************************************************************************)
CONSTANT
    Within   \* the pairs <<x, y>> of different names with x a part of y

NamedIn(x, y) == x = y \/ <<x, y>> \in Within
=============================================================================
