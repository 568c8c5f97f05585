------------------------- MODULE MCWasapiRenderLoop -------------------------
(* A ring of two slots, packets of a few frames, and an endpoint that      *)
(* keeps the host clock's rate only on average, or runs far ahead of it,   *)
(* so that packets come too late. Three units make two frames: going back  *)
(* by one unit is going back by a frame or staying in it.                  *)
EXTENDS WasapiRenderLoop

MCUneven == {0, 4}
MCBurst  == {0, 8}

MCOnTime == {0}
MCLate   == {0, 1}
MCOld    == {0, 3}

MCEarlyTimes == {1}
MCLateTimes  == {2, 3}
=============================================================================
