-------------------------------- MODULE Perm --------------------------------
(***************************************************************************)
(* The permission engine of perm.go: classify the requesting user against *)
(* a node's owner and group, select the 3-bit segment of the node's mode   *)
(* and test the bits the requested open mode needs.  Pure operators; the   *)
(* harness that checks them is PermCheck, the dispatcher that calls them   *)
(* is FsTree.                                                              *)
(***************************************************************************)
EXTENDS Naturals, Bitwise

\* The three relations a user can have to a file (ugo_user, ugo_group,
\* ugo_other are iota constants 0, 1, 2).
ugo_user  == 0
ugo_group == 1
ugo_other == 2

\* 9P open modes (proto.Mode): the low two bits select the access, Otrunc
\* and Orclose are flags that may be or-ed in; None is the explicit "no
\* access" mode.
Oread   == 0
Owrite  == 1
Ordwr   == 2
Oexec   == 3
None    == 4
Otrunc  == 16
Orclose == 64

\* Groups and users are the same name space: a user is in a group only
\* when the two names are equal.
userInGroup(user, group) == user = group

\* Mutant: the group is tested before the owner.
userRelationGroupFirst(user, stat) ==
    IF userInGroup(user, stat.gid) THEN ugo_group
    ELSE IF user = stat.uid THEN ugo_user
    ELSE ugo_other

userRelation(user, stat) ==
    IF user = stat.uid THEN ugo_user
    ELSE IF userInGroup(user, stat.gid) THEN ugo_group
    ELSE ugo_other

\* The switch of omodePermits: each recognised mode tests its bits, every
\* other value (None, or a mode with a flag or-ed in) is refused.
omodePermits(perm, omode) ==
    CASE omode = Oread  -> (perm & 4) # 0
      [] omode = Owrite -> (perm & 2) # 0
      [] omode = Ordwr  -> (perm & 6) # 0
      [] omode = Oexec  -> (perm & 1) # 0
      [] OTHER          -> FALSE

\* The mode is shifted by 6, 3 or 0 bits for owner, group or other and
\* truncated to its low three bits.  A stat's "mode" here is the low nine
\* bits of the 32-bit Stat.Mode: the bits above them (DMDIR is bit 31,
\* beyond TLC's integers) never reach the segment, and a node's DMDIR bit
\* is kept as a separate "dir" field where a module needs it.
SegmentShift == [r \in {ugo_user, ugo_group, ugo_other} |->
                    IF r = ugo_user THEN 6 ELSE IF r = ugo_group THEN 3 ELSE 0]

openPermission(user, stat, omode) ==
    omodePermits(shiftR(stat.mode, SegmentShift[userRelation(user, stat)]) & 7,
                 omode)

=============================================================================
