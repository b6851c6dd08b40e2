-------------------------- MODULE MCAndroidRunner --------------------------
(***************************************************************************)
(* AndroidRunner on a small instance.  Two worker identities are enough:   *)
(* a third thread could only exist if OneServerAtATime failed, which two   *)
(* already show.  Port 0 is the port no loopback connection is made to.    *)
(***************************************************************************)
EXTENDS AndroidRunner

CONSTANTS w1, w2

=============================================================================
