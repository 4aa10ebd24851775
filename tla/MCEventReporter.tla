--------------------------- MODULE MCEventReporter ---------------------------
(***************************************************************************)
(* Instances of EventReporter.                                             *)
(***************************************************************************)
EXTENDS EventReporter

(* Against MaxBatchBytes = 4: two small events fit one batch, a small and  *)
(* a large one do not, and an oversized event is a batch of its own.       *)
EventSizes == {1, 4, 5}

OneSize == {1}
=============================================================================
