---------------------------- MODULE MCMaterials -----------------------------
(* Small instances of Materials for TLC.                                   *)
EXTENDS Materials, TLC
=============================================================================
