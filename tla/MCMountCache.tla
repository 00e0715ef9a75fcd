---------------------------- MODULE MCMountCache ----------------------------
(* Two concurrent FUSE callbacks on one directory of two names. *)
EXTENDS MountCache
====
