--------------------------- MODULE MCImportQueue ---------------------------
(* Two slices, two workers of which one or both run, one death. No         *)
(* symmetry: the run checks liveness.                                      *)
EXTENDS ImportQueueReading

=============================================================================
