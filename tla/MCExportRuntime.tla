--------------------------- MODULE MCExportRuntime ---------------------------
(***************************************************************************)
(* Two requests of one account for one slot.                               *)
(***************************************************************************)
EXTENDS ExportRuntime

OneAccount == [r \in Request |-> Owner]
=============================================================================
