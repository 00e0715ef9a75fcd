------------------------------ MODULE MCFsTree ------------------------------
(* Instantiates FsTree: names, users and fids as model values, a single   *)
(* create permission (0755) and the read and write open modes.            *)
EXTENDS FsTree

MCPerms == {493}                 \* 0755
MCOpenModes == {Oread, Owrite}
=============================================================================
