------------------------ MODULE MCBrowserExtension ------------------------
(***************************************************************************)
(* Instances of BrowserExtension for TLC.                                  *)
(***************************************************************************)
EXTENDS BrowserExtension, TLC

\* No property of extension_overlaps tells the slots apart.
SlotSymmetry == Permutations(Handlers)
=============================================================================
