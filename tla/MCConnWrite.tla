---------------------------- MODULE MCConnWrite ----------------------------
(* Instances of ConnWrite for TLC.                                         *)
EXTENDS ConnWrite, TLC

CONSTANTS s1, s2, b1, c1, k1

Everybody == {Goroutines}

(* Two senders compete for the ConnWriter, or a sender, a broadcast and a  *)
(* ping for writeLock, each with the closes that their failures begin.     *)
OneFrameEach == {{s1, s2}, {s1, b1, c1}}

Symmetry == Permutations(Senders)
=============================================================================
