-------------------------- MODULE MCFirmwareUpdate --------------------------
(* A sound and a broken image beside the factory's, of two blocks each.    *)
EXTENDS FirmwareUpdate
=============================================================================
