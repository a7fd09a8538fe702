-------------------------- MODULE MCFirmwareUpdate --------------------------
(* A small instance of FirmwareUpdate: three builds of different sizes; the  *)
(* second has a higher minor but a lower patch number than the third.       *)
EXTENDS FirmwareUpdate, TLC

CONSTANTS v1, v2, v3

MCSize == v1 :> 2 @@ v2 :> 1 @@ v3 :> 2
MCVersion == v1 :> <<1, 0, 0>> @@ v2 :> <<1, 1, 0>> @@ v3 :> <<1, 0, 1>>
=============================================================================
