--------------------------- MODULE MCUsbEmulation ---------------------------
(***************************************************************************)
(* Instances of UsbEmulation for TLC: a two-track PC image (mode 0) and a  *)
(* one-track Shugart image (mode 7, without a change signal).              *)
(***************************************************************************)
EXTENDS UsbEmulation, TLC

CONSTANTS l1, pcImage, cpcImage

MCLoaders == {l1}
MCImages == {pcImage, cpcImage}
MCTracksOf == (pcImage :> 2) @@ (cpcImage :> 1)
MCOneTrackOf == (pcImage :> 1) @@ (cpcImage :> 1)
MCModeOf == (pcImage :> 0) @@ (cpcImage :> 7)
MCModes == {0, 7}
MCHold == (0 :> 1) @@ (7 :> 0)
=============================================================================
