------------------------------- MODULE MCCodec -------------------------------
(* Strings of one or two runs around the 2^16 boundary of the length       *)
(* prefix, both tag extremes (NOTAG is 65535), and two Qids.               *)
EXTENDS Codec

A(n) == <<[b |-> 97, n |-> n]>>     \* n bytes 'a'
B(n) == <<[b |-> 98, n |-> n]>>     \* n bytes 'b'

MCStrs == {<<>>, A(1), Cat(A(1), B(1)), B(65535), A(65536)}

MCQids == {[type |-> 0, vers |-> 0, path |-> 1],
           [type |-> 128, vers |-> 3, path |-> 65536]}
=============================================================================
