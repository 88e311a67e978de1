---------------------------- MODULE MCGarageLink ----------------------------
EXTENDS GarageLink

(* Two starts of the sender: upper halves that differ in one byte. *)
MCTops == {[i \in 0 .. 7 |-> 0], [i \in 0 .. 7 |-> IF i = 7 THEN 1 ELSE 0]}

(* One start of the sender. *)
MCTop == {[i \in 0 .. 7 |-> 1]}

ZeroIv == [i \in 0 .. 15 |-> 0]

(* A frame of another user of the band, with the packet's header. *)
MCForeign ==
  {[bytes |-> [i \in 0 .. 16 |-> 1], payload |-> Encrypt("garbage", ZeroIv)]}
=============================================================================
