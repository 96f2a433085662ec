----------------------------- MODULE MCDeviceTable -----------------------------
(***************************************************************************)
(* Instance of DeviceTable alone for TLC.                                  *)
(***************************************************************************)
EXTENDS DeviceTable

\* A table is opened from the menu, without search parameters.
MCLinks == {FirstQuery}
=============================================================================
