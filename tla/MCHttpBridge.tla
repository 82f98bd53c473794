---------------------------- MODULE MCHttpBridge ----------------------------
(* Model-checking instances of HttpBridge.                                   *)
EXTENDS HttpBridge

CONSTANTS r1, r2, none
=============================================================================
