--------------------------------- MODULE MCCodec ---------------------------------
(***************************************************************************)
(* A small instance of Codec.  The addresses and the transaction ids have   *)
(* bits in common in every byte; the texts leave a message of 88, 252 and   *)
(* 256 bytes, the last in letters and in zeros.                             *)
(***************************************************************************)
EXTENDS Codec

TwoIps    == {<<192, 168, 0, 14>>, <<69, 0, 208, 255>>}
TwoPorts  == {3479, 65280}
TwoTicks  == {305419896}
SomeRands == {0, 32767}

Text(n, letter) == [i \in 1 .. n |-> letter]
Texts           == {Text(16, 86), Text(180, 46), Text(184, 46), Text(184, 0)}
==================================================================================
