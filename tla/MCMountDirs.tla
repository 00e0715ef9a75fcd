----------------------------- MODULE MCMountDirs -----------------------------
(* Two names in the root, one file name, three Dir objects and three server *)
(* directories: enough for mkdir, rename onto a removed name and re-mkdir.  *)
EXTENDS MountDirs
====
