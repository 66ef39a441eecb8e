--------------------------- MODULE MCHostAdoption ---------------------------
(***************************************************************************)
(* Instances of HostAdoption: what each plan installs, and where.          *)
(***************************************************************************)
EXTENDS HostAdoption

CONSTANTS p1, p2, v1, v2

\* p1 adopts v1 in every file, p2 puts v2 into the first file only, every further plan installs
\* v1 there again.
PayloadOf == [t \in Plans |-> IF t = p2 THEN v2 ELSE v1]
TouchesOf == [t \in Plans |-> IF t = p1 THEN Files ELSE {1}]
============================================================================
