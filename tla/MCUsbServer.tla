---------------------------- MODULE MCUsbServer ----------------------------
(* The server with small sets of clients, devices and binding API calls. *)
EXTENDS UsbServer

CONSTANTS b1, c1, c2, k1, k2

OneBus == {b1}
TwoClients == {c1, c2}
OneBinder == {k1}
TwoBinders == {k1, k2}
=============================================================================
