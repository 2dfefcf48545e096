--------------------------- MODULE MCDevicePage ---------------------------
(***************************************************************************)
(* Two devices of the backend, both with telemetry, and one it does not    *)
(* know; a sweep finds the latter and the second.                          *)
(***************************************************************************)
EXTENDS DevicePage

CONSTANTS d1, d2, d3

MCDevices == {d1, d2, d3}
MCKnown   == {d1, d2}
MCFound   == {d2, d3}
=============================================================================
