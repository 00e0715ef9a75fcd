------------------------------- MODULE FsTree -------------------------------
(***************************************************************************)
(* The virtual filesystem tree of fs/fs.go (FS, NewFS, NewQid, NewStat,   *)
(* BaseFile, RMFile) served to one connection's fids by the dispatcher.   *)
(*                                                                         *)
(* The dispatcher (Attach, Walk, Open, Create, Clunk, Remove), StaticDir's *)
(* AddChild/DeleteChild and the create hook are not in this source tree;  *)
(* they follow the contracts of the specification (sections 4.3, 4.4).    *)
(*                                                                         *)
(* Requests on different fids run concurrently.  Every handler is one     *)
(* atomic step except two.  Remove with the RMFile hook reads the node's   *)
(* parent and name and only later calls parent.DeleteChild(name).  Create *)
(* calls NewStat, whose NewQid takes FS's lock, reads fs.uid, increments  *)
(* it and unlocks, each a step, before the hook adds the node.             *)
(***************************************************************************)
EXTENDS Naturals, FiniteSets, Perm

CONSTANTS
    Names,      \* names a client may create or walk to (model values)
    Users,      \* user names; groups are user names (userInGroup)
    Fids,       \* fid numbers of the connection
    NodeIds,    \* FSNode objects the program can allocate
    RootNode,   \* the root StaticDir built by NewFS
    RootName,   \* its name "/"
    RootUser,   \* NewFS rootUser = rootGroup
    RootPerms,  \* NewFS rootPerms (low nine bits)
    Perms,      \* permission bits a Create request may carry
    OpenModes,  \* open modes a client may send
    MaxQid,     \* bound on FS.uid: creates stop when it is reached
    NoNode,     \* the nil FSNode / Dir
    NotOpen,    \* the omode of a fid that is bound but not opened
    Idle        \* no Remove in flight on a fid

ASSUME RootNode \in NodeIds /\ NoNode \notin NodeIds
ASSUME MaxQid \in Nat

VARIABLES
    uid,        \* FS.uid, the next Qid.Uid NewQid hands out
    nodes,      \* the FSNode objects allocated so far
    stat,       \* node -> its Stat (qid, low mode bits, dir bit, names)
    parent,     \* node -> BaseFile.parent / StaticDir parent, or NoNode
    children,   \* dir -> name -> child, or NoNode (StaticDir.children)
    fid,        \* fid -> [node, user, omode]: the dispatcher's fid table
    rm,         \* fid -> the (parent, name, target) RMFile has read, or Idle
    cr,         \* fid -> the Create in flight (its step and inputs), or Idle
    lock,       \* the fid whose NewQid holds FS's lock, or Idle
    handed,     \* history: every Qid.Uid NewQid has returned
    panicked    \* a handler dereferenced a nil parent: the process died

vars == <<uid, nodes, stat, parent, children, fid, rm, cr, lock, handed, panicked>>

StatRec == [qid : Nat, mode : 0..511, dir : BOOLEAN,
            name : Names \cup {RootName}, uid : Users, gid : Users]
FidRec  == [node : NodeIds \cup {NoNode}, user : Users,
            omode : OpenModes \cup {NotOpen}]
RmRec   == [parent : NodeIds, name : Names \cup {RootName}, target : NodeIds]
CrRec   == [step : {"lock", "read", "incr", "add"}, node : NodeIds, name : Names,
            perm : Perms, dir : BOOLEAN, omode : OpenModes, qid : Nat]

TypeOK ==
    /\ uid \in 0..MaxQid
    /\ nodes \subseteq NodeIds
    /\ stat \in [NodeIds -> StatRec]
    /\ parent \in [NodeIds -> NodeIds \cup {NoNode}]
    /\ children \in [NodeIds -> [Names -> NodeIds \cup {NoNode}]]
    /\ fid \in [Fids -> FidRec]
    /\ rm \in [Fids -> RmRec \cup {Idle}]
    /\ cr \in [Fids -> CrRec \cup {Idle}]
    /\ lock \in Fids \cup {Idle}
    /\ handed \subseteq Nat
    /\ panicked \in BOOLEAN

-----------------------------------------------------------------------------
(* fs.go *)

\* NewStat: a fresh Stat around the Qid.Uid q that NewQid returned.
NewStat(q, name, u, g, mode, isDir) ==
    [qid |-> q, mode |-> mode, dir |-> isDir, name |-> name, uid |-> u, gid |-> g]

\* NewFS: the root StaticDir, made with NewStat("/", rootUser, rootGroup,
\* rootPerms|DMDIR); no fid is bound yet.
EmptyDir == [n \in Names |-> NoNode]
Unbound  == [node |-> NoNode, user |-> RootUser, omode |-> NotOpen]

Init ==
    /\ uid = 1
    /\ nodes = {RootNode}
    /\ stat = [n \in NodeIds |->
                 [qid |-> 0, mode |-> RootPerms, dir |-> TRUE,
                  name |-> RootName, uid |-> RootUser, gid |-> RootUser]]
    /\ parent = [n \in NodeIds |-> NoNode]
    /\ children = [n \in NodeIds |-> EmptyDir]
    /\ fid = [f \in Fids |-> Unbound]
    /\ rm = [f \in Fids |-> Idle]
    /\ cr = [f \in Fids |-> Idle]
    /\ lock = Idle
    /\ handed = {0}
    /\ panicked = FALSE

-----------------------------------------------------------------------------
(* StaticDir (specification 4.3): both mutators change the map and the   *)
(* child's parent link together under the directory's lock.              *)

\* AddChild(n): fails with NameConflict when the name is taken.
AddChild(d, n, name) ==
    /\ children[d][name] = NoNode
    /\ children' = [children EXCEPT ![d][name] = n]
    /\ parent' = [parent EXCEPT ![n] = d]

\* DeleteChild(name): fails with NotFound when the name is absent.
DeleteChild(d, name) ==
    /\ children[d][name] # NoNode
    /\ children' = [children EXCEPT ![d][name] = NoNode]
    /\ parent' = [parent EXCEPT ![children[d][name]] = NoNode]

-----------------------------------------------------------------------------
(* Dispatcher (specification 4.4).  A fid with a Remove in flight sends  *)
(* nothing else until it is answered.                                     *)

Ready(f) == ~panicked /\ rm[f] = Idle /\ cr[f] = Idle

IsDir(n) == stat[n].dir

\* Attach: bind an unused fid to the root for user u.
Attach(f, u) ==
    /\ Ready(f)
    /\ fid[f].node = NoNode
    /\ fid' = [fid EXCEPT ![f] = [node |-> RootNode, user |-> u, omode |-> NotOpen]]
    /\ UNCHANGED <<uid, nodes, stat, parent, children, rm, cr, lock, handed, panicked>>

\* Walk of one name from a bound, unopened directory fid to newfid (a new
\* fid or the fid itself).  A miss (no WalkFail hook) answers an error and
\* leaves newfid as it was; a walk of no names clones the fid.
Walk(f, nf, name) ==
    LET d == fid[f].node IN
    /\ Ready(f) /\ Ready(nf)
    /\ d # NoNode /\ fid[f].omode = NotOpen
    /\ nf = f \/ fid[nf].node = NoNode
    /\ IsDir(d)
    /\ children[d][name] # NoNode
    /\ fid' = [fid EXCEPT ![nf] = [fid[f] EXCEPT !.node = children[d][name]]]
    /\ UNCHANGED <<uid, nodes, stat, parent, children, rm, cr, lock, handed, panicked>>

Clone(f, nf) ==
    /\ Ready(f) /\ Ready(nf)
    /\ fid[f].node # NoNode /\ fid[f].omode = NotOpen
    /\ fid[nf].node = NoNode
    /\ fid' = [fid EXCEPT ![nf] = [fid[f] EXCEPT !.omode = NotOpen]]
    /\ UNCHANGED <<uid, nodes, stat, parent, children, rm, cr, lock, handed, panicked>>

\* Open: openPermission must grant the mode; BaseFile.Open then succeeds.
Open(f, m) ==
    LET n == fid[f].node IN
    /\ Ready(f)
    /\ n # NoNode /\ fid[f].omode = NotOpen
    /\ openPermission(fid[f].user, stat[n], m)
    /\ fid' = [fid EXCEPT ![f].omode = m]
    /\ UNCHANGED <<uid, nodes, stat, parent, children, rm, cr, lock, handed, panicked>>

\* The nodes allocated by Creates in flight.
Reserved == {cr[g].node : g \in {h \in Fids : cr[h] # Idle}}

\* Create, first step: the dispatcher checks write permission on the
\* directory and calls the CreateFile or CreateDir hook, which allocates
\* the node and calls fs.NewStat.  MaxQid bounds the Qids handed out.
CreateStart(f, name, perm, isDir, m) ==
    LET d == fid[f].node IN
    /\ Ready(f)
    /\ d # NoNode /\ fid[f].omode = NotOpen /\ IsDir(d)
    /\ openPermission(fid[f].user, stat[d], Owrite)
    /\ uid + Cardinality(Reserved) < MaxQid
    /\ nodes \cup Reserved # NodeIds
    /\ cr' = [cr EXCEPT ![f] =
                 [step |-> "lock", node |-> CHOOSE x \in NodeIds \ (nodes \cup Reserved) : TRUE,
                  name |-> name, perm |-> perm, dir |-> isDir, omode |-> m, qid |-> 0]]
    /\ UNCHANGED <<uid, nodes, stat, parent, children, fid, rm, lock, handed, panicked>>

At(f, st) == cr[f] # Idle /\ cr[f].step = st

\* Mutant: NewQid runs without FS's lock.
NewQidLockNone(f) ==
    /\ At(f, "lock")
    /\ cr' = [cr EXCEPT ![f].step = "read"]
    /\ UNCHANGED <<uid, nodes, stat, parent, children, fid, rm, lock, handed, panicked>>

\* NewQid: fs.Lock() (the deferred Unlock runs when it returns).
NewQidLock(f) ==
    /\ At(f, "lock")
    /\ lock = Idle
    /\ lock' = f
    /\ cr' = [cr EXCEPT ![f].step = "read"]
    /\ UNCHANGED <<uid, nodes, stat, parent, children, fid, rm, handed, panicked>>

\* uid := fs.uid
NewQidRead(f) ==
    /\ At(f, "read")
    /\ cr' = [cr EXCEPT ![f].step = "incr", ![f].qid = uid]
    /\ UNCHANGED <<uid, nodes, stat, parent, children, fid, rm, lock, handed, panicked>>

\* fs.uid = fs.uid + 1; return the Qid with uid; fs.Unlock().
NewQidIncr(f) ==
    /\ At(f, "incr")
    /\ uid' = uid + 1
    /\ handed' = handed \cup {cr[f].qid}
    /\ lock' = IF lock = f THEN Idle ELSE lock
    /\ cr' = [cr EXCEPT ![f].step = "add"]
    /\ UNCHANGED <<nodes, stat, parent, children, fid, rm, panicked>>

\* The hook makes the node with the Stat NewStat built and adds it to the
\* parent.  NewStat has taken a Qid even when AddChild then fails with
\* NameConflict; the fid then stays as it was.  On success the fid moves
\* to the new node, opened in mode m.
CreateFinish(f) ==
    LET c == cr[f]
        d == fid[f].node
        u == fid[f].user
    IN
    /\ At(f, "add")
    /\ nodes' = nodes \cup {c.node}
    /\ stat' = [stat EXCEPT ![c.node] = NewStat(c.qid, c.name, u, u, c.perm, c.dir)]
    /\ \/ /\ AddChild(d, c.node, c.name)
          /\ fid' = [fid EXCEPT ![f] = [node |-> c.node, user |-> u, omode |-> c.omode]]
       \/ /\ children[d][c.name] # NoNode
          /\ UNCHANGED <<parent, children, fid>>
    /\ cr' = [cr EXCEPT ![f] = Idle]
    /\ UNCHANGED <<uid, rm, lock, handed, panicked>>

\* Clunk: the fid is released (an open file is closed); the node stays.
Clunk(f) ==
    /\ Ready(f)
    /\ fid[f].node # NoNode
    /\ fid' = [fid EXCEPT ![f] = Unbound]
    /\ UNCHANGED <<uid, nodes, stat, parent, children, rm, cr, lock, handed, panicked>>

\* Remove with the RMFile hook, first half: parent := f.Parent() and the
\* name f.Stat().Name.  A nil parent (the root, or a node another Remove
\* has already detached) makes parent.DeleteChild a nil dereference.
RemoveStart(f) ==
    LET n == fid[f].node IN
    /\ Ready(f)
    /\ n # NoNode
    /\ IF parent[n] = NoNode
         THEN /\ panicked' = TRUE
              /\ UNCHANGED rm
         ELSE /\ rm' = [rm EXCEPT ![f] = [parent |-> parent[n],
                                          name |-> stat[n].name, target |-> n]]
              /\ UNCHANGED panicked
    /\ UNCHANGED <<uid, nodes, stat, parent, children, fid, cr, lock, handed>>

\* Second half: parent.DeleteChild(name), whose error RMFile drops before
\* returning nil; the dispatcher then clunks the fid and answers success.
RemoveFinish(f) ==
    LET r == rm[f] IN
    /\ ~panicked
    /\ r # Idle
    /\ \/ DeleteChild(r.parent, r.name)
       \/ /\ children[r.parent][r.name] = NoNode
          /\ UNCHANGED <<parent, children>>
    /\ rm' = [rm EXCEPT ![f] = Idle]
    /\ fid' = [fid EXCEPT ![f] = Unbound]
    /\ UNCHANGED <<uid, nodes, stat, cr, lock, handed, panicked>>

Next ==
    \/ \E f \in Fids, u \in Users : Attach(f, u)
    \/ \E f, nf \in Fids, name \in Names : Walk(f, nf, name)
    \/ \E f, nf \in Fids : Clone(f, nf)
    \/ \E f \in Fids, m \in OpenModes : Open(f, m)
    \/ \E f \in Fids, name \in Names, p \in Perms, isDir \in BOOLEAN,
          m \in OpenModes : CreateStart(f, name, p, isDir, m)
    \/ \E f \in Fids : NewQidLock(f) \/ NewQidRead(f) \/ NewQidIncr(f) \/ CreateFinish(f)
    \/ \E f \in Fids : Clunk(f)
    \/ \E f \in Fids : RemoveStart(f)
    \/ \E f \in Fids : RemoveFinish(f)

Spec == Init /\ [][Next]_vars

-----------------------------------------------------------------------------
(* Properties *)

\* Qid uniqueness (NewQid under FS's lock): no two nodes ever allocated,
\* attached, detached or never linked, carry the same Qid.Uid.
QidUnique ==
    \A a, b \in nodes : a # b => stat[a].qid # stat[b].qid

\* A Remove answered with success (RMFile always returns nil) detached the
\* node its fid was bound to, in its own DeleteChild, and no other node.
RemoveDetachesOwnTarget ==
    [][\A f \in Fids :
         rm[f] # Idle /\ rm'[f] = Idle =>
            /\ parent[rm[f].target] # NoNode
            /\ parent'[rm[f].target] = NoNode]_vars

-----------------------------------------------------------------------------
(* Refinement: NewQid, taken apart into its lock, read, increment and    *)
(* unlock, is the atomic counter of QidCounter.                           *)

QC == INSTANCE QidCounter WITH next <- uid, issued <- handed

\* NewQid is atomic (FS's lock around the read and the increment of
\* fs.uid): each call, however Creates on other fids interleave, hands out
\* the counter's current value and advances it by exactly one.
QidCounterSpec == QC!Spec

=============================================================================
