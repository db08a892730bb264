------------------------------ MODULE MCUdpMux ------------------------------
(***************************************************************************)
(* Instances of UdpMux for TLC.                                            *)
(***************************************************************************)
EXTENDS UdpMux, TLC

CONSTANTS u1, u2

(* A STUN message for the ufrag l, from a peer whose ufrag is r.           *)
StunMsg(l, r) == [local |-> l, remote |-> r]

OneStun == {StunMsg(u1, u2)}
OneUfragStun == {StunMsg(u1, u1)}
AnyDatagram == {StunMsg(u1, u1), Data, Short}

ConnSymmetry == Permutations(Conns)
=============================================================================
