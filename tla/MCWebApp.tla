------------------------------- MODULE MCWebApp -------------------------------
(***************************************************************************)
(* Instances of WebApp for TLC: three stored estimates of two days, which  *)
(* the cache reads out of order, two to a page.                            *)
(***************************************************************************)
EXTENDS WebApp

Row(d, e) == [day |-> d, estimate |-> e]
OutOfOrder == {<<Row(2, "a"), Row(1, "b"), Row(2, "c")>>}
=============================================================================
