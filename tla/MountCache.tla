----------------------------- MODULE MountCache -----------------------------
(***************************************************************************)
(* The directory-listing cache of mount9p's Dir (cmd/mount9p): dirCache   *)
(* and dirTTL, read and written by the FUSE callbacks of one directory     *)
(* with no lock.  go-fuse runs callbacks concurrently, so each callback is *)
(* a goroutine whose RPC and whose writes to the Dir are separate steps.   *)
(*                                                                         *)
(* The server side is one directory's set of names, changed only through  *)
(* this mount (other clients of the server are left out: against them the *)
(* cache is stale for up to DefaultTTL by design).  The clock is the       *)
(* Expire action: dirTTL passing is the only thing time does here.         *)
(***************************************************************************)
EXTENDS FiniteSets

CONSTANTS
    Threads,    \* concurrent FUSE callbacks
    Names,      \* entry names (model values)
    Idle,       \* a callback goroutine not in a handler
    NoCache     \* dirCache == nil, the Dir has never listed

VARIABLES
    server,     \* the names the 9P server's directory holds
    dirCache,   \* Dir.dirCache: the names of the cached listing, or NoCache
    fresh,      \* ~time.Now().After(Dir.dirTTL)
    statCache,  \* name -> the child Dir's statCache holds a Stat (not nil)
    statFresh,  \* name -> ~time.Now().After(the child Dir's statTTL)
    op          \* goroutine -> Idle or the handler it is in, with what it read

vars == <<server, dirCache, fresh, statCache, statFresh, op>>

stats == <<statCache, statFresh>>

Mutations == {"create", "mkdir", "appendread", "append", "unlink", "rmdir", "rename"}
Kinds == {"lookup", "readdir", "getattr", "stat", "statfill"} \cup Mutations
OpRec == [kind : Kinds, name : Names, to : Names, snap : SUBSET Names]

TypeOK ==
    /\ server \subseteq Names
    /\ dirCache \in SUBSET Names \cup {NoCache}
    /\ fresh \in BOOLEAN
    /\ statCache \in [Names -> BOOLEAN]
    /\ statFresh \in [Names -> BOOLEAN]
    /\ op \in [Threads -> OpRec \cup {Idle}]

Init ==
    /\ server \in SUBSET Names
    /\ dirCache = NoCache
    /\ fresh = FALSE
    /\ statCache = [n \in Names |-> FALSE]
    /\ statFresh = [n \in Names |-> FALSE]
    /\ op = [t \in Threads |-> Idle]

Begin(t, k, n, m, s) ==
    op' = [op EXCEPT ![t] = [kind |-> k, name |-> n, to |-> m, snap |-> s]]

End(t) == op' = [op EXCEPT ![t] = Idle]

-----------------------------------------------------------------------------
(* Lookup and Readdir: the test of the cache, the Readdir RPC (the server *)
(* answers with its listing at that moment) and the fill of the cache.     *)

\* The negation of `r.dirCache == nil || time.Now().After(r.dirTTL)`.
CacheUsable == dirCache # NoCache /\ fresh

\* What a Lookup of n called now answers: from the cache when it is
\* usable, otherwise from the listing it fetches.
Answer(n) == IF CacheUsable THEN n \in dirCache ELSE n \in server

\* The cache is stale or nil: client.Readdir(r.path) is answered.
Fetch(t, k, n) ==
    /\ op[t] = Idle
    /\ ~CacheUsable
    /\ Begin(t, k, n, n, server)
    /\ UNCHANGED <<stats, server, dirCache, fresh>>

\* Readdir failed: EPIPE, the cache is left as it is.
FetchFail(t) ==
    /\ op[t] # Idle
    /\ op[t].kind \in {"lookup", "readdir", "getattr"}
    /\ End(t)
    /\ UNCHANGED <<stats, server, dirCache, fresh>>

\* r.dirCache = stats; r.dirTTL = time.Now().Add(DefaultTTL); the search
\* of the listing that follows writes nothing.
Fill(t) ==
    /\ dirCache' = op[t].snap
    /\ fresh' = TRUE
    /\ End(t)
    /\ UNCHANGED <<stats, server>>

LookupFetch(t, n) == Fetch(t, "lookup", n)

LookupFill(t) == op[t] # Idle /\ op[t].kind = "lookup" /\ Fill(t)

ReaddirFetch(t) == \E n \in Names : Fetch(t, "readdir", n)

ReaddirFill(t) == op[t] # Idle /\ op[t].kind = "readdir" /\ Fill(t)

-----------------------------------------------------------------------------
(* Dir.Getattr of the child directory n: this Dir's Readdir (the same     *)
(* fetch and fill), the search of its listing for n, and when n is not    *)
(* listed the child's oldGetattr: its own statCache, or a Stat RPC.        *)
(* A path of the handler that writes nothing is not a step.               *)

\* The negation of `r.statCache == nil || time.Now().After(r.statTTL)`.
StatUsable(n) == statCache[n] /\ statFresh[n]

\* The listing holds no entry named n: oldGetattr, which answers from a
\* usable statCache or goes on to client.Stat(r.path).
OldGetattr(t, n, listing) ==
    /\ n \notin listing
    /\ ~StatUsable(n)
    /\ Begin(t, "stat", n, n, {})

\* Whether Getattr of n called now reports the directory: found in the
\* listing (cached, or fetched from the server), else from the statCache,
\* else from the Stat of the server.
GetattrAnswer(n) ==
    \/ IF CacheUsable THEN n \in dirCache ELSE n \in server
    \/ StatUsable(n)
    \/ n \in server

\* The listing is usable: the search of dirCache finds no n.
GetattrCached(t, n) ==
    /\ op[t] = Idle
    /\ CacheUsable
    /\ OldGetattr(t, n, dirCache)
    /\ UNCHANGED <<stats, server, dirCache, fresh>>

GetattrFetch(t, n) == Fetch(t, "getattr", n)

\* Readdir's fill, then the search of the listing just installed.
GetattrFill(t) ==
    /\ op[t] # Idle
    /\ op[t].kind = "getattr"
    /\ dirCache' = op[t].snap
    /\ fresh' = TRUE
    /\ IF op[t].name \in op[t].snap THEN End(t) ELSE OldGetattr(t, op[t].name, op[t].snap)
    /\ UNCHANGED <<stats, server>>

\* client.Stat(r.path): an error is ENOENT and writes nothing.
StatRPC(t) ==
    /\ op[t] # Idle
    /\ op[t].kind = "stat"
    /\ IF op[t].name \in server THEN Begin(t, "statfill", op[t].name, op[t].name, {})
                                 ELSE End(t)
    /\ UNCHANGED <<stats, server, dirCache, fresh>>

\* r.statCache = stat; r.statTTL = time.Now().Add(DefaultTTL).
StatFill(t) ==
    /\ op[t] # Idle
    /\ op[t].kind = "statfill"
    /\ statCache' = [statCache EXCEPT ![op[t].name] = TRUE]
    /\ statFresh' = [statFresh EXCEPT ![op[t].name] = TRUE]
    /\ End(t)
    /\ UNCHANGED <<server, dirCache, fresh>>

-----------------------------------------------------------------------------
(* Create, Mkdir, Unlink, Rmdir and Rename: the RPC, then the writes to   *)
(* the Dir.  A directory is an entry of the listing like a file.           *)

\* client.Create(path.Join(r.path, name), mode), with DMDIR for Mkdir; a
\* name that exists is refused (EINVAL) and changes nothing.
AddRPC(t, k, n) ==
    /\ op[t] = Idle
    /\ n \notin server
    /\ server' = server \cup {n}
    /\ Begin(t, k, n, n, {})
    /\ UNCHANGED <<stats, dirCache, fresh>>

CreateRPC(t, n) == AddRPC(t, "create", n)

MkdirRPC(t, n) == AddRPC(t, "mkdir", n)

\* r.dirTTL = time.Time{} ...
AddInvalidate(t, k) ==
    /\ op[t] # Idle
    /\ op[t].kind = k
    /\ fresh' = FALSE
    /\ Begin(t, "appendread", op[t].name, op[t].name, {})
    /\ UNCHANGED <<stats, server, dirCache>>

CreateInvalidate(t) == AddInvalidate(t, "create")

MkdirInvalidate(t) == AddInvalidate(t, "mkdir")

\* ... then append(r.dirCache, entry) reads r.dirCache (append to a nil
\* slice makes a listing of the one new entry) ...
AddRead(t) ==
    /\ op[t] # Idle
    /\ op[t].kind = "appendread"
    /\ Begin(t, "append", op[t].name, op[t].name,
             IF dirCache = NoCache THEN {op[t].name} ELSE dirCache \cup {op[t].name})
    /\ UNCHANGED <<stats, server, dirCache, fresh>>

\* ... and the assignment writes it back with the new entry appended.
CreateAppend(t) ==
    /\ op[t] # Idle
    /\ op[t].kind = "append"
    /\ dirCache' = op[t].snap
    /\ End(t)
    /\ UNCHANGED <<stats, server, fresh>>

\* client.Remove(path.Join(r.path, name)), for Unlink and Rmdir alike; a
\* missing name is EINVAL.
RemoveRPC(t, k, n) ==
    /\ op[t] = Idle
    /\ n \in server
    /\ server' = server \ {n}
    /\ Begin(t, k, n, n, {})
    /\ UNCHANGED <<stats, dirCache, fresh>>

UnlinkRPC(t, n) == RemoveRPC(t, "unlink", n)

RmdirRPC(t, n) == RemoveRPC(t, "rmdir", n)

\* client.WStat(old path, Stat{Name: newName, rest sentinels}).  The
\* server refuses a name that is missing or a new name that exists.
RenameRPC(t, n, m) ==
    /\ op[t] = Idle
    /\ n \in server
    /\ m \notin server
    /\ server' = (server \ {n}) \cup {m}
    /\ Begin(t, "rename", n, m, {})
    /\ UNCHANGED <<stats, dirCache, fresh>>

\* Unlink, Rmdir and Rename, after their RPC succeeded:
\* r.dirTTL = time.Time{}.
Invalidate(t, k) ==
    /\ op[t] # Idle
    /\ op[t].kind = k
    /\ fresh' = FALSE
    /\ End(t)
    /\ UNCHANGED <<stats, server, dirCache>>

UnlinkInvalidate(t) == Invalidate(t, "unlink")

RmdirInvalidate(t) == Invalidate(t, "rmdir")

RenameInvalidate(t) == Invalidate(t, "rename")

\* DefaultTTL elapses: time.Now() passes dirTTL.
Expire ==
    /\ fresh
    /\ fresh' = FALSE
    /\ UNCHANGED <<stats, server, dirCache, op>>

\* DefaultTTL elapses for the child Dir n: time.Now() passes its statTTL.
ExpireStat(n) ==
    /\ statFresh[n]
    /\ statFresh' = [statFresh EXCEPT ![n] = FALSE]
    /\ UNCHANGED <<statCache, server, dirCache, fresh, op>>

Next ==
    \/ \E t \in Threads :
        \/ \E n \in Names : LookupFetch(t, n) \/ CreateRPC(t, n) \/ UnlinkRPC(t, n)
                              \/ MkdirRPC(t, n) \/ RmdirRPC(t, n)
                              \/ GetattrCached(t, n) \/ GetattrFetch(t, n)
        \/ \E n, m \in Names : RenameRPC(t, n, m)
        \/ ReaddirFetch(t) \/ FetchFail(t)
        \/ LookupFill(t) \/ ReaddirFill(t) \/ GetattrFill(t)
        \/ StatRPC(t) \/ StatFill(t)
        \/ CreateInvalidate(t) \/ MkdirInvalidate(t) \/ AddRead(t) \/ CreateAppend(t)
        \/ UnlinkInvalidate(t) \/ RmdirInvalidate(t) \/ RenameInvalidate(t)
    \/ Expire
    \/ \E n \in Names : ExpireStat(n)

Spec == Init /\ [][Next]_vars

-----------------------------------------------------------------------------
(* Properties *)

Mutating == \E t \in Threads : op[t] # Idle /\ op[t].kind \in Mutations

\* Invalidation keeps the caches coherent with this mount's own changes
\* (every mutating handler resets dirTTL after its RPC): when no Create,
\* Mkdir, Unlink, Rmdir or Rename of this mount is in progress, a usable
\* listing holds exactly the names the server holds, and Getattr of a
\* child directory (listing, then the child's statCache) reports it
\* exactly when the server has it.
ListingCoherent ==
    ~Mutating =>
        /\ CacheUsable => dirCache = server
        /\ \A n \in Names : GetattrAnswer(n) = (n \in server)

=============================================================================
