------------------------------ MODULE QidCounter ------------------------------
(***************************************************************************)
(* What fs.go's NewQid promises ("generates a new, unique proto.Qid"),    *)
(* stated as one atomic step: the counter's value is handed out and the   *)
(* counter advances by one.  NewFS has already given the root Qid 0.       *)
(***************************************************************************)
EXTENDS Naturals

VARIABLES
    next,       \* the Qid.Uid the next call hands out
    issued      \* every Qid.Uid handed out so far

vars == <<next, issued>>

Init == next = 1 /\ issued = {0}

Issue ==
    /\ issued' = issued \cup {next}
    /\ next' = next + 1

Spec == Init /\ [][Issue]_vars

=============================================================================
