--------------------------- MODULE MCIngressDrain ---------------------------
(***************************************************************************)
(* IngressDrain for TLC.  Jobs and drains are model values; no symmetry,   *)
(* for the run checks liveness and a drain's name is chosen.               *)
(***************************************************************************)
EXTENDS IngressDrain, TLC
=============================================================================
