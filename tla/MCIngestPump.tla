--------------------------- MODULE MCIngestPump ---------------------------
(***************************************************************************)
(* Instances of IngestPump for TLC.                                        *)
(***************************************************************************)
EXTENDS IngestPump, TLC

\* The backend and the agent treat all tokens alike.
TokenSymmetry == Permutations(Tokens)
=============================================================================
