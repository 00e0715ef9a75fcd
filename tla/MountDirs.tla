------------------------------ MODULE MountDirs ------------------------------
(***************************************************************************)
(* The directories under a mount9p mount's root and the Dir objects that   *)
(* stand for them: Mkdir, Rmdir and Rename in the root, Lookup of a        *)
(* directory through the global path -> *Dir map (dirGet/dirPut), and      *)
(* Readdir and Create inside a directory through its Dir object, which     *)
(* addresses the server by the path it was made with.                      *)
(*                                                                         *)
(* The server's directories have identities (SrvIds) so that a rename     *)
(* moves one.  The kernel's dentries of the root are kdent: a dentry names *)
(* the Dir object it got and the server directory it means.  Forget is    *)
(* the kernel dropping a dentry once EntryValid (ncTTL) has passed.  Each  *)
(* handler is one step here; the fill/invalidation race inside one Dir is *)
(* MountCache's.                                                            *)
(***************************************************************************)
EXTENDS FiniteSets

CONSTANTS
    Names,      \* names in the root (directories)
    Files,      \* file names inside a directory
    Objs,       \* Dir objects the bridge can allocate
    SrvIds,     \* directories the server can allocate
    None,       \* no entry / no dentry / no object
    NoCache     \* a Dir whose dirCache is nil

VARIABLES
    srvRoot,    \* server: root name -> directory, or None
    srvFiles,   \* server: directory -> its file names
    srvUsed,    \* server directories made so far
    objPath,    \* Dir object -> its path field (a root name), or None if unmade
    dirMap,     \* the global dirCache map: path -> Dir object, or None
    cache,      \* Dir object -> its dirCache (file names) or NoCache
    fresh,      \* Dir object -> its dirTTL has not passed
    kdent,      \* kernel: root name -> [obj, sid] or None
    madeFor     \* history: Dir object -> the server directory it was made for

vars == <<srvRoot, srvFiles, srvUsed, objPath, dirMap, cache, fresh, kdent, madeFor>>

TypeOK ==
    /\ srvRoot \in [Names -> SrvIds \cup {None}]
    /\ srvFiles \in [SrvIds -> SUBSET Files]
    /\ srvUsed \subseteq SrvIds
    /\ objPath \in [Objs -> Names \cup {None}]
    /\ dirMap \in [Names -> Objs \cup {None}]
    /\ cache \in [Objs -> SUBSET Files \cup {NoCache}]
    /\ fresh \in [Objs -> BOOLEAN]
    /\ kdent \in [Names -> [obj : Objs, sid : SrvIds] \cup {None}]
    /\ madeFor \in [Objs -> SrvIds \cup {None}]

\* The root holds no directory yet; main has put only "/" in the map.
Init ==
    /\ srvRoot = [x \in Names |-> None]
    /\ srvFiles = [s \in SrvIds |-> {}]
    /\ srvUsed = {}
    /\ objPath = [o \in Objs |-> None]
    /\ dirMap = [x \in Names |-> None]
    /\ cache = [o \in Objs |-> NoCache]
    /\ fresh = [o \in Objs |-> FALSE]
    /\ kdent = [x \in Names |-> None]
    /\ madeFor = [o \in Objs |-> None]

FreeObjs == {o \in Objs : objPath[o] = None}

\* dirGet(path): under dirCacheLock's read lock.
dirGet(x) == dirMap[x]

\* dirPut(path, d): under dirCacheLock's write lock.
dirPut(x, o) == dirMap' = [dirMap EXCEPT ![x] = o]

\* &Dir{client, path}: a new object with a nil cache, made for the
\* server directory s.
NewDir(o, x, s) ==
    /\ objPath' = [objPath EXCEPT ![o] = x]
    /\ madeFor' = [madeFor EXCEPT ![o] = s]
    /\ cache' = [cache EXCEPT ![o] = NoCache]
    /\ fresh' = [fresh EXCEPT ![o] = FALSE]

-----------------------------------------------------------------------------

\* Dir.Mkdir in the root: client.Create(path, mode|DMDIR); on success a new
\* Dir for the path, put in the map, and the kernel's dentry on it.
Mkdir(x) ==
    /\ srvRoot[x] = None
    /\ \E s \in SrvIds \ srvUsed, o \in FreeObjs :
          /\ srvRoot' = [srvRoot EXCEPT ![x] = s]
          /\ srvUsed' = srvUsed \cup {s}
          /\ NewDir(o, x, s)
          /\ dirPut(x, o)
          /\ kdent' = [kdent EXCEPT ![x] = [obj |-> o, sid |-> s]]
    /\ UNCHANGED <<srvFiles>>

\* Dir.Rmdir: client.Remove(path); the map entry is left in place.
Rmdir(x) ==
    /\ kdent[x] # None
    /\ srvRoot[x] # None
    /\ srvRoot' = [srvRoot EXCEPT ![x] = None]
    /\ kdent' = [kdent EXCEPT ![x] = None]
    /\ UNCHANGED <<srvFiles, srvUsed, objPath, dirMap, cache, fresh, madeFor>>

\* Dir.Rename in the root: client.WStat(old path, Name: newName); the
\* server refuses a missing source or a taken name (ENOENT).  On success
\* the kernel moves its dentry; the Dir keeps its path and map entry.
Rename(x, y) ==
    /\ x # y
    /\ kdent[x] # None
    /\ srvRoot[x] # None /\ srvRoot[y] = None
    /\ srvRoot' = [srvRoot EXCEPT ![y] = srvRoot[x], ![x] = None]
    /\ kdent' = [kdent EXCEPT ![y] = kdent[x], ![x] = None]
    /\ UNCHANGED <<srvFiles, srvUsed, objPath, dirMap, cache, fresh, madeFor>>

\* Dir.Lookup of a directory entry: the Dir from dirGet, or a new Dir put
\* in the map.
LookupDir(x) ==
    /\ kdent[x] = None
    /\ srvRoot[x] # None
    /\ IF dirGet(x) # None
         THEN /\ kdent' = [kdent EXCEPT ![x] = [obj |-> dirGet(x), sid |-> srvRoot[x]]]
              /\ UNCHANGED <<objPath, dirMap, cache, fresh, madeFor>>
         ELSE \E o \in FreeObjs :
              /\ NewDir(o, x, srvRoot[x])
              /\ dirPut(x, o)
              /\ kdent' = [kdent EXCEPT ![x] = [obj |-> o, sid |-> srvRoot[x]]]
    /\ UNCHANGED <<srvRoot, srvFiles, srvUsed>>

\* The kernel drops a dentry (EntryValid passed, or memory pressure).
Forget(x) ==
    /\ kdent[x] # None
    /\ kdent' = [kdent EXCEPT ![x] = None]
    /\ UNCHANGED <<srvRoot, srvFiles, srvUsed, objPath, dirMap, cache, fresh, madeFor>>

\* Dir.Readdir on the dentry's Dir: with a nil or expired cache,
\* client.Readdir(r.path) fills it (EPIPE when the path is gone).
Readdir(x) ==
    LET o == kdent[x].obj
        s == srvRoot[objPath[o]]
    IN
    /\ kdent[x] # None
    /\ cache[o] = NoCache \/ ~fresh[o]
    /\ s # None
    /\ cache' = [cache EXCEPT ![o] = srvFiles[s]]
    /\ fresh' = [fresh EXCEPT ![o] = TRUE]
    /\ UNCHANGED <<srvRoot, srvFiles, srvUsed, objPath, dirMap, kdent, madeFor>>

\* Dir.Create inside the dentry's Dir: client.Create(path.Join(r.path,
\* name)); on success dirTTL is reset and the entry appended.
Create(x, f) ==
    LET o == kdent[x].obj
        s == srvRoot[objPath[o]]
    IN
    /\ kdent[x] # None
    /\ s # None
    /\ f \notin srvFiles[s]
    /\ srvFiles' = [srvFiles EXCEPT ![s] = @ \cup {f}]
    /\ fresh' = [fresh EXCEPT ![o] = FALSE]
    /\ cache' = [cache EXCEPT ![o] = IF @ = NoCache THEN {f} ELSE @ \cup {f}]
    /\ UNCHANGED <<srvRoot, srvUsed, objPath, dirMap, kdent, madeFor>>

\* A Dir's DefaultTTL passes.
Expire(o) ==
    /\ fresh[o]
    /\ fresh' = [fresh EXCEPT ![o] = FALSE]
    /\ UNCHANGED <<srvRoot, srvFiles, srvUsed, objPath, dirMap, cache, kdent, madeFor>>

Next ==
    \/ \E x \in Names : Mkdir(x) \/ Rmdir(x) \/ LookupDir(x) \/ Forget(x) \/ Readdir(x)
    \/ \E x, y \in Names : Rename(x, y)
    \/ \E x \in Names, f \in Files : Create(x, f)
    \/ \E o \in Objs : Expire(o)

Spec == Init /\ [][Next]_vars

-----------------------------------------------------------------------------
(* Properties *)

\* A Dir the kernel reaches through a dentry is the Dir of the directory
\* that dentry means: it was made for that directory (Lookup's dirGet
\* hands out whatever Dir was put for the path, and Rmdir never takes it
\* out), and its path field still names it at the server (Readdir and
\* Create address the server by that path, and Rename never updates it).
DirMatchesDentry ==
    \A x \in Names :
        LET o == kdent[x].obj IN
        kdent[x] # None =>
            /\ madeFor[o] = kdent[x].sid
            /\ srvRoot[objPath[o]] = kdent[x].sid

=============================================================================
