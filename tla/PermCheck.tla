------------------------------ MODULE PermCheck ------------------------------
(***************************************************************************)
(* The permission engine as a component: its one operation is a call of   *)
(* openPermission(user, file, omode) with the caller's inputs, and its     *)
(* state is the last call and the answer it gave.  The checks compare the *)
(* answers of perm.go with the rule of the specification (section 4.2).   *)
(***************************************************************************)
EXTENDS Perm

CONSTANTS
    Users,      \* user and group names (model values)
    Modes,      \* Stat.Mode values a file may carry
    OModes,     \* open modes a client may send
    NoCall      \* the state before the first call

VARIABLES call, granted

vars == <<call, granted>>

Stat == [uid : Users, gid : Users, mode : Modes]
Call == [user : Users, stat : Stat, omode : OModes]

TypeOK ==
    /\ call \in Call \cup {NoCall}
    /\ granted \in BOOLEAN

Init ==
    /\ call = NoCall
    /\ granted = FALSE

\* One call of openPermission by the dispatcher.
CanOpen(c) ==
    /\ call = NoCall
    /\ call' = c
    /\ granted' = openPermission(c.user, c.stat, c.omode)

\* The call returns; the engine keeps nothing between calls.
Return ==
    /\ call # NoCall
    /\ call' = NoCall
    /\ granted' = FALSE

Next == (\E c \in Call : CanOpen(c)) \/ Return

Spec == Init /\ [][Next]_vars

(***************************************************************************)
(* The rule of the specification: the required bits of each access mode,  *)
(* all of which must be present in the selected segment.                   *)
(***************************************************************************)
RequiredBits == [m \in {Oread, Owrite, Ordwr, Oexec} |->
                    CASE m = Oread -> 4 [] m = Owrite -> 2
                      [] m = Ordwr -> 6 [] m = Oexec  -> 1]

SpecSegment(user, stat) ==
    LET shift == IF user = stat.uid THEN 6
                 ELSE IF user = stat.gid THEN 3 ELSE 0
    IN  (stat.mode \div 2^shift) % 8

SpecCanOpen(user, stat, omode) ==
    /\ omode \in DOMAIN RequiredBits
    /\ SpecSegment(user, stat) & RequiredBits[omode] = RequiredBits[omode]

\* Owner precedence (userRelation, then the shift by 6 in openPermission):
\* the owner is judged by the owner bits alone for every single-bit access
\* mode, so an owner whose owner segment lacks the bit is refused even when
\* the group or other segment has it, and granted when only the owner
\* segment has it.
OwnerJudgedByOwnerBits ==
    call # NoCall /\ call.user = call.stat.uid /\ call.omode \in {Oread, Owrite, Oexec} =>
        (granted <=> (shiftR(call.stat.mode, 6) & RequiredBits[call.omode]) # 0)

\* Truncation is independent of access (spec 6: the open mode is the access
\* in the low bits "plus an independent truncate flag"; mount9p's
\* convertFlag sets Otrunc for O_TRUNC): openPermission answers an access
\* mode with Otrunc or-ed in exactly as it answers the access mode alone.
TruncIndependent ==
    call # NoCall /\ call.omode \in {a + Otrunc : a \in {Oread, Owrite, Ordwr, Oexec}} =>
        (granted <=> openPermission(call.user, call.stat, call.omode - Otrunc))

\* openPermission answers every call exactly as the rule of section 4.2:
\* Read needs 0x4, Write 0x2, ReadWrite both bits 0x6, Execute 0x1, and
\* every other mode is denied.
OpenPermissionMatchesSpec ==
    call # NoCall => (granted <=> SpecCanOpen(call.user, call.stat, call.omode))

=============================================================================
