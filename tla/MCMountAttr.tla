----------------------------- MODULE MCMountAttr -----------------------------
(* Two concurrent callbacks on one file; two permission values, lengths 0..2. *)
EXTENDS MountAttr

MCModes == {0, 420}
====
