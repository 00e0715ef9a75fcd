----------------------------- MODULE MCPermCheck -----------------------------
(* Instantiates PermCheck with every 9-bit permission value, the four      *)
(* access modes, None and the flagged modes mount9p's convertFlag sends.   *)
EXTENDS PermCheck

MCModes == 0..511

MCOModes == {Oread, Owrite, Ordwr, Oexec, None,
             Owrite + Otrunc, Ordwr + Otrunc, Oread + Orclose}
=============================================================================
