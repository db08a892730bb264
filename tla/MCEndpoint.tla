----------------------------- MODULE MCEndpoint -----------------------------
(***************************************************************************)
(* Instances of Endpoint for TLC.                                          *)
(***************************************************************************)
EXTENDS Endpoint

CONSTANTS f0, f1

(* The peers' fingerprint differs from the transport's.                    *)
PeerFps == [a \in Addrs |-> f1]

StunMsgs == {[local |-> Own, remote |-> f1]}
=============================================================================
