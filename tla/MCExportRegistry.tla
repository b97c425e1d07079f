-------------------------- MODULE MCExportRegistry --------------------------
(* The registry on two devices. *)
EXTENDS ExportRegistry

CONSTANTS b1, b2

MCBusIds == {b1, b2}
=============================================================================
