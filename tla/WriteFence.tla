----------------------------- MODULE WriteFence -----------------------------
(***************************************************************************)
(* sync-fence.ts, the guard every page write passes.  A page presents the   *)
(* hash of the record it showed; inside the transaction, under the row      *)
(* locks, that hash is compared with the hash of the record as it now is.   *)
(* A hash is modelled by what it is computed from: equal hashes stand for   *)
(* equal sets of rows.  A cycle's data lock excludes every such transaction *)
(* and they exclude each other by the owner lock, so each one is one step,  *)
(* except where LinkedRecords takes it apart into its statements.           *)
(***************************************************************************)

EXTENDS Naturals

CONSTANT NoHash     \* the page presents none

\* No hash, the JSON null or a missing field, is not taken for the hash of a row.
ASSUME FenceAssumption == NoHash \notin Nat

VARIABLE fenced     \* the binding's phase is bootstrap, linked or publication_unknown

Presented(hash, actual) == IF hash = NoHash THEN ~fenced ELSE hash = actual

\* The user links a device or unlinks it.
ToggleFence == fenced' = ~fenced
=============================================================================
