--------------------------- MODULE MCApplications ---------------------------
(***************************************************************************)
(* Applications for TLC: one required application and another, and a mask  *)
(* that is free at first.                                                  *)
(***************************************************************************)
EXTENDS Applications, TLC

CONSTANTS kiq, app, m1, m2, m3, c1, c2

SomeInstalled ==
  [m \in Masks |-> CASE m = m1 -> kiq [] m = m2 -> app [] OTHER -> None]

SomeRequests == {<<kiq, m1>>, <<app, m2>>, <<app, m3>>}
=============================================================================
