------------------------- MODULE MCDashboardSession -------------------------
(***************************************************************************)
(* Instances of DashboardSession for TLC.                                  *)
(***************************************************************************)
EXTENDS DashboardSession, TLC

\* No property tells the tabs or the users apart.
TabUserSymmetry == Permutations(Tabs) \cup Permutations(Users)
=============================================================================
