# TLA+ models of go9p

This directory holds TLA+ models of the 9P library in `src/`, with the TLC
configurations that check them. `src/auth.go` is four Go files joined into one,
and every line number below refers to it:

| lines    | original file        | contents                                                     |
|----------|----------------------|--------------------------------------------------------------|
| 1-93     | `auth.go`            | `TAuth`/`RAuth` message: Parse, Compose, Reply               |
| 94-698   | `cmd/mount9p/main.go`| FUSE bridge: `Dir`, `FileNode`, `File`, TTL caches, `main`   |
| 699-761  | `perm.go`            | permission engine: `userRelation`, `omodePermits`, `openPermission` |
| 762-1017 | `fs/fs.go`           | tree contracts, `BaseFile`, `FS`, `NewQid`, `NewStat`, `RMFile`, hooks |

The server dispatcher, `StaticDir`, the client multiplexer and the codec
helpers (`fcParse`, `toString`, ...) are not in `src/`. Where a model needs
them, they are written from `spec.md` and marked `spec_modelled` in
`PROJECT.json`.

## Inventory

### Components and their state

* **Wire codec** (lines 1-93 for Tauth/Rauth; everything else is outside `src/`).
  It keeps no state. `Compose` computes the frame length and writes the
  size, type, tag and fields. `Parse` reads them back. `TAuth.Reply` always
  answers `Rerror "Not Enabled."` with the request's tag.
* **Permission engine** (`perm.go`). It keeps no state. `openPermission(user, file, omode)`
  classifies the user as owner, group or other. Groups are the same names as
  users. It then selects the 3-bit segment of `Stat.Mode` and tests the bits
  of the open mode.
* **Filesystem tree** (`fs/fs.go`). Its state is `FS.uid` (the Qid
  counter, under `FS`'s RWMutex), the root `Dir`, and the four optional hooks
  (`CreateFile`, `CreateDir`, `WalkFail`, `RemoveFile`). Each `BaseFile`
  keeps `fStat` and `parent` under its own RWMutex. Each `StaticDir`
  (outside `src/`) keeps a name-to-node map. The operations are
  `NewFS`, `NewQid`, `NewStat`, `RMFile`, and BaseFile `Stat`, `WriteStat`,
  `SetParent`, `Parent`, `Open`, `Read`, `Write` and `Close`.
* **Dispatcher** (outside `src/`, spec 4.4). It keeps the per-connection fid
  table, where each fid is bound to a node, carries a user and may be open in
  a mode. It turns Tattach, Twalk, Topen, Tcreate, Tclunk, Tremove, Tstat and
  Twstat into calls on the tree and the permission engine. Requests on
  different tags run concurrently.
* **Client multiplexer** (outside `src/`, spec 4.5). It keeps the tag pool and
  the table of waiters by tag. One receive goroutine demultiplexes replies.
* **mount9p FUSE bridge** (lines 94-698). Its state is the global
  `dirCache` map from path to `*Dir`, under `dirCacheLock`. Each `Dir` keeps
  `statCache`/`statTTL` and `dirCache`/`dirTTL`, with no lock. Each node keeps
  its `path`, and each open `File` keeps a `client.File`. The operations are
  the FUSE callbacks Lookup, Readdir, Getattr, Setattr, Create, Mkdir,
  Unlink, Rmdir, Rename, Open, Read, Write, Release and Fsync. go-fuse runs
  them concurrently.

### How they interact

The FUSE kernel calls the bridge. The bridge calls the client, which sends
tagged requests over one connection. The server dispatcher runs each
request on its own goroutine. It calls `openPermission` before Open and
Create, and the tree's hooks for Create and Remove (`RMFile` for Remove).
The tree's directories are shared by all of those goroutines.

### What is hard

* **Concurrency inside a handler.** `RMFile` reads `Parent()` and `Stat().Name`, and only
  later deletes by name. Concurrent Removes and Creates of the same name run
  in between.
* **Unsynchronised reads.** `BaseFile.Stat` reads `fStat` without the lock that
  `WriteStat` holds. `Dir.dirCache`/`dirTTL` in mount9p have no lock at all.
* **Caches with TTLs** in the bridge. A cache fill races with invalidation, and path
  fields go stale after Rename and Rmdir.
* **Sentinel encoding of partial WStat.** Every field has an "unchanged"
  sentinel. `BaseFile.WriteStat` copies the whole record, and the bridge's
  Setattr reports sentinels back as attributes.
* **Bit-level rules**: the permission segments and the open-mode flags.

### Properties that make each component correct

* **Permission engine.** The answers match spec 4.2: RW needs both bits, the
  truncate flag does not change the answer, and an owner is judged by the
  owner bits.
* **Tree.** Directory maps and parent links agree, Qids are unique and never
  reused, a Remove detaches exactly its own node, and no handler
  dereferences a nil parent.
* **Dispatcher.** Every request is answered once. A failed walk leaves the fid
  as it was, and an open fid was permitted.
* **Multiplexer.** Each waiter receives the reply with its own tag, no tag is
  used twice at once, and every waiter is answered or failed when the
  connection closes.
* **Bridge.** A successful Create is visible to the next Lookup. Setattr
  changes only the fields marked valid and never undoes a concurrent change,
  and reported attributes are never sentinels.

## Plan

Modules are ordered by importance, and the server tree comes first:

1. **Perm** (operators) and **PermCheck** (the engine as a component). *Done.*
2. **FsTree**: the tree, Qid allocation under FS's lock, create hooks, the
   two-step RMFile, and the dispatcher's Attach/Walk/Open/Create/Clunk/Remove.
   *Done.*
3. **FsStat**: BaseFile Stat/WriteStat with the lock discipline of the code
   (the writer copies fields under the lock, the reader takes none) and
   Twstat shaped like mount9p's requests. *Done.*
4. **MountCache**: one Dir's listing cache. Lookup and Readdir are split into
   a fetch step and a fill step. Create and Mkdir, and Unlink, Rmdir and
   Rename, are split into their RPC and their writes to the Dir. *Done for one directory.*
   **MountDirs** adds Mkdir/Rmdir/Rename in the root, the global map of
   Dir objects, and Dir path freshness after Rename. *Done.* Dir.Getattr
   with the child's statCache is in MountCache.
5. **MountAttr**: Setattr (three variants), FileNode.Open followed by stat,
   Getattr through the parent's listing, and fid leaks. Properties: only
   requested fields change, and every opened fid has an owner. *Done* (FileNode.Setattr only; File.Setattr is
   unreachable, see below).
6. **ClientMux**: *dropped*. Nothing of it is in `src/`, so a model would
   have no code for a mutant to change (see "Not modelled").
7. **Codec**: the Tauth/Rauth Compose/Parse round trip, with the 2-byte
   length prefix at its boundary. *Done.*
8. **QidCounter**, the atomic counter NewQid promises, with FsTree's
   locked NewQid shown to implement it. *Done.*

## Modules

### Perm, PermCheck (perm.go, lines 699-761)

`Perm` defines `userInGroup`, `userRelation`, `omodePermits` and
`openPermission` as operators. `omodePermits` is the Go switch written as
a CASE, with None and every other value in the deny branch. A stat's `mode`
holds only the low nine bits of `Stat.Mode`: DMDIR is bit 31, which is beyond
TLC's integers and never reaches a segment. The open-mode constants
(Oread 0, Owrite 1, Ordwr 2, Oexec 3, Otrunc 0x10, Orclose 0x40) come from
the 9P protocol. `None` is 4, which is an assumed value because the constant
is outside `src/`; only its being distinct from the others matters.

`PermCheck` is the engine as a component. `CanOpen(c)` is one call with
inputs `c`, and `Return` ends it. `TruncIndependent` compares the answer
for an access mode with Otrunc or-ed in against the engine's own answer for
the access mode alone, so it isolates the truncate flag from the Ordwr
defect. `MCPermCheck` enumerates two users (so
owner, group and other all occur), all 512 permission values, and the open
modes Oread, Owrite, Ordwr, Oexec, None, Owrite|Otrunc, Ordwr|Otrunc and
Oread|Orclose.

### FsTree (fs/fs.go lines 806-1017, with dispatch from spec 4.4)

The variables are `uid` (FS.uid), `nodes` (allocated FSNode objects), `stat`,
`parent`, `children` (StaticDir maps), `fid` (the fid table), `rm` (what
`RMFile` has read for a Remove in flight), `cr` (the step and inputs of a
Create in flight), `lock` (FS's mutex: the fid whose NewQid holds it),
`handed` (history: every Qid.Uid NewQid returned) and `panicked`.

* `Init` is `NewFS`: the root comes from `NewStat` with Qid 0, so `uid` is 1.
* Create is five steps. `CreateStart` is the dispatcher's write-permission
  check and the CreateFile/CreateDir hook allocating its node, as
  `WithCreateFile` documents them (spec-modelled: neither is in `src/`).
  The hook's `NewStat` calls `NewQid` (lines 929-939), taken apart into
  `NewQidLock` (`fs.Lock()`), `NewQidRead` (`uid := fs.uid`) and
  `NewQidIncr` (`fs.uid = fs.uid + 1`, the return, and the deferred
  Unlock). `CreateFinish` builds the Stat and calls `AddChild`; on
  NameConflict the Qid is spent and nothing is linked.
* `RemoveStart` and `RemoveFinish` are the two halves of `RMFile`:
  `parent := f.Parent()` together with `f.Stat().Name`, and then
  `parent.DeleteChild(name)` with its error dropped. A nil parent sets
  `panicked`, and the process stops. This is why `fstree_*.cfg` say
  `CHECK_DEADLOCK FALSE`: a panicked server really stops.
* `Attach`, `Walk` (one name; a miss with no WalkFail hook is an error that
  changes nothing), `Clone`, `Open` and `Clunk` follow spec 4.4.

No fairness is assumed: the runs check safety only.

**Bounds** (`fstree_*.cfg`): names {a, b}, users {u1, u2} (root owned by u1
with 0755, so u2 is refused Create in the root), fids {f1, f2}, three node
objects and `MaxQid` = 3 (root plus two creates, which may be in flight
at once, so both can race for FS's lock). Two fids are enough for every
race the model has. Both fids can be bound to one node, both can start
a Remove, and a fid whose Remove has finished can re-attach and create the
same name before the other finishes. A third fid takes the state space past
5 minutes.

### FsStat (fs/fs.go lines 842-855, requests from mount9p)

The variables are `fStat` and `lock` for each file, `job` (the WriteStat
each goroutine is copying) and `last` (the Stat the last finished WriteStat
wrote, a history variable).

* `WriteStatLock`, `WriteStatCopy` and `WriteStatUnlock` are `f.Lock()`,
  `f.fStat = *s` and the deferred unlock. A struct assignment is not atomic
  for other goroutines, so the copy takes one step per field, in any order.
* `Stat(f)` is `return f.fStat` with no lock. It writes nothing and may run
  at any moment, so it is an operator over the current state.
* The requests are the WStats mount9p sends: chmod and truncate from
  Setattr, and rename from Rename. In each, every other field carries its
  "unchanged" sentinel.

Bounds: two files, two goroutines, two names, one chmod mode. That gives
every pair of concurrent WStats, on one file or on two.

### MountCache (cmd/mount9p lines 117-402)

The variables are `server` (the names the server's directory holds),
`dirCache` (the names of `Dir.dirCache`, or `NoCache` for nil), `fresh`
(dirTTL not yet passed) and `op` (the handler each FUSE goroutine is in,
with what it has read).

* `LookupFetch`/`ReaddirFetch` test `r.dirCache == nil ||
  time.Now().After(r.dirTTL)` and take the server's listing (the Readdir
  RPC). `FetchFail` is its EPIPE path. `LookupFill`/`ReaddirFill` write
  `r.dirCache` and `r.dirTTL`. Lookup's search of the listing writes
  nothing, and `Answer(n)` is what it would return now.
* `CreateRPC`, then `CreateInvalidate` (`dirTTL = time.Time{}`, line 328),
  then `AddRead` (the read of `r.dirCache` for the append, line 330), then
  `CreateAppend` (the write back). A fill may land between any two of
  them. Mkdir (lines 213-239) has the same steps: `MkdirRPC` (Create with
  DMDIR) and `MkdirInvalidate`, sharing `AddRPC`/`AddInvalidate` with
  Create, then `AddRead` and `CreateAppend`. Its dirPut of the new Dir is
  MountDirs'.
* `UnlinkRPC`/`UnlinkInvalidate`, `RmdirRPC`/`RmdirInvalidate` and
  `RenameRPC`/`RenameInvalidate` are the Remove or WStat RPC followed by the
  reset of dirTTL (`RemoveRPC` and `Invalidate` are the shared steps). An RPC that fails
  changes nothing and is not a step.
* Dir.Getattr of a child directory n (lines 241-282): `GetattrCached`
  (this Dir's listing is usable and lacks n) or `GetattrFetch`/
  `GetattrFill` (its Readdir, then the search of the new listing). When n
  is not listed, `OldGetattr` tests the child's `statCache`/`statTTL`
  (`StatUsable`) and goes on to `StatRPC` (client.Stat; an error is
  ENOENT) and `StatFill` (`r.statCache = stat`, statTTL renewed). Paths of
  the handler that write nothing are not steps; `GetattrAnswer(n)` is
  whether Getattr called now reports n. Only presence is modelled, not the
  directory's mode or size.
* `Expire` is the clock passing dirTTL; `ExpireStat(n)` passes child n's
  statTTL.

The server changes only through this mount. Against other clients, the
cache is stale for up to DefaultTTL by design. Rename assumes the server
refuses a new name that exists; the server's rename is outside `src/`.

No fairness is assumed: the only run is a safety violation. A liveness
property that stale answers end would hold only because an expired TTL
makes every answer come from the server; it would restate the TTL tests
at lines 242, 349 and 384 and show nothing about the handlers.

Bounds: two goroutines (enough for a fill racing an invalidation) and two
names (so that Rename has a target).

### MountDirs (cmd/mount9p lines 117-402, 691-692)

The directories of the mount's root and their `Dir` objects. The variables
are the server's root (`srvRoot`: name to directory identity), each server
directory's files (`srvFiles`), the bridge's `Dir` objects (`objPath`: the
`path` field, `cache`/`fresh`: dirCache and dirTTL), the global map
(`dirMap`, read by `dirGet` and written by `dirPut`), and the kernel's
dentries of the root (`kdent`: which Dir object a name resolves to, and
which server directory it meant when it was resolved).
`madeFor` is a history variable: the server directory each Dir was made for.

* `Init` is `main`'s `dirPut("/", root)`: the root is the mount, and the
  map holds nothing under the root's names.
* `Mkdir` is the Create RPC with DMDIR, a new `Dir` put in the map, and the
  kernel's dentry. `Rmdir` is the Remove RPC; the map entry stays.
* `Rename` is the WStat RPC. On success the kernel moves its dentry, and the
  `Dir` keeps its old `path` and its old map entry, as the code does.
* `LookupDir` reuses `dirGet(fullPath)` when the map has a Dir for the
  path, and otherwise makes one and puts it.
* `Readdir` and `Create` inside a directory address the server by the Dir's
  `path`. Each handler is one step here; the fill/invalidation race inside
  one Dir is MountCache's. `Expire` is a Dir's TTL passing.
* `Forget` is the kernel dropping a dentry (EntryValid passed, or memory
  pressure). It is kernel behaviour, not code of `src/`, and is not mapped.

Bounds: two root names (a rename needs a target), one file name, three Dir
objects and three server directories. That allows mkdir, rename, a second
mkdir under the old name, and one more mkdir or lookup. Allocation is
finite, so the run says `CHECK_DEADLOCK FALSE`: a state with every object
used may have no step. TLC finds the violation within three steps.

### MountAttr (cmd/mount9p lines 193-615)

One file and its attributes and handles. The variables are the server's
file (`exists`, mode, length; mtime is kept at 0, and only whether a reply
carries it or the sentinel matters), the client's open fids on it, the
kernel's file handles, the attributes the last reply gave the kernel, and
`pc` for an Open between its two RPCs. `applied` is a history variable: the
fields the last step was asked to change.

* `Setattr` is FileNode.Setattr: an all-sentinel Stat with Mode and Length
  set from the Valid mask, a WStat if either is set, and the reply copied
  from that Stat. The server applies a WStat as spec 4.3 says (`ApplyWStat`,
  spec-modelled).
* `Getattr` is FileNode.Getattr. `dirGet(path.Dir(f.path))` always finds
  the root Dir, so Getattr first runs the root's Readdir. That refills the
  listing when it is nil or past its dirTTL (`ListingUsable`, `Listed`).
  Getattr then answers with the file's entry in the listing. When the file
  is not listed, it falls back to oldGetattr's Stat RPC, whose failure is
  ENOENT. `dent` and `dfresh` are the file's entry in the root's dirCache
  and the root's dirTTL. The fill/invalidation race inside one listing is
  MountCache's, so Readdir is one step here.
* `Create` resets the root's dirTTL and appends an entry: the requested
  mode, length 0. `Unlink` resets the dirTTL. `Setattr` and `Write` leave
  the listing alone, as the code does. `Expire` is DefaultTTL passing.
* `OpenRPC` and `OpenStat` are FileNode.Open's two RPCs, so an `Unlink`
  can come between them. `Write`, `Release`, `Create` and `Unlink` are one
  step each.

No fairness is assumed: the runs check safety only. Bounds: two goroutines, modes {0, 0644},
lengths 0..2, at most two fids. That is enough for a truncate, a chmod or
an extending write between two Getattrs. About 31k distinct states.

### Codec (auth.go lines 1-93)

The Tauth and Rauth messages. `TAuthCompose`, `TAuthParse`, `Reply`,
`RAuthCompose` and `RAuthParse` translate the five methods.

A byte buffer is a sequence of runs `[b, n]` (byte `b` repeated `n` times),
kept normal: no two adjacent runs have the same byte. `Cat`, `Drop` and
`Take` are Go's `append` and slicing on that form. A 65536-byte string is
then a single run, and the 16-bit length prefix can be driven past its
limit without enumerating bytes.

The helpers auth.go calls (`toLittleE16/32`, `fromLittleE16/32`,
`toString`, `fromString`, `fcParse`, Qid `Compose`/`Parse`) are not in
`src/`. They are written from the wire format of spec 4.1 and 6, and
`toString` writes `uint16(len(s))`.

The component is a harness of exchanges: `ExchangeTauth` composes a Tauth,
parses it as the server does and computes the Reply. `ExchangeRauth`
composes and parses an Rauth, and `Done` clears the exchange.

Bounds: strings of 0, 1, 2 (two runs), 65535 and 65536 bytes, tags 0 and
NOTAG (65535), two afids and two Qids. Every boundary of the prefix is
there.

### QidCounter, and FsTree's refinement of it

`QidCounter` is what NewQid's comment promises ("generates a new, unique
proto.Qid"), as one atomic step: `Issue` hands out `next` and advances it
by one, and `issued` is every value handed out (NewFS's root has 0).
`FsTree` instantiates it with `next <- uid` and `issued <- handed`, and
`fstree_safety` checks `QidCounterSpec == QC!Spec`. `NewQidIncr` is the
abstract `Issue`; every other FsTree step leaves both unchanged. The
refinement holds only if nothing changes `fs.uid` between a call's read
and its increment, which is what FS's lock gives; without it two calls
read one value and the counter skips the next.

## Runs

| run | expect | what it shows |
|-----|--------|---------------|
| `perm_rules` | pass | `OwnerJudgedByOwnerBits`: over all 512 modes, both users and eight open modes, `openPermission` judges an owner by the owner bits alone for Oread, Owrite and Oexec. |
| `perm_rdwr` | violation | `OpenPermissionMatchesSpec`: an owner with mode 0200 is granted Ordwr. Line 730 tests `perm&0x06 != 0` (either bit), while spec 4.2 requires both. |
| `perm_trunc` | violation | `TruncIndependent`: an owner with mode 0200 is refused Owrite\|Otrunc although Owrite is granted. The switch at line 722 is on the whole open mode, so the truncate flag sends it to the deny branch (line 738). |
| `fstree_safety` | pass | Under concurrent create/remove/walk/clunk, with two Creates able to race inside NewQid, `QidUnique` holds (no two nodes share a Qid.Uid) and `QidCounterSpec`: FsTree implements QidCounter (see above). About 132k distinct states. |
| `fstree_remove_target` | violation | `RemoveDetachesOwnTarget`: two concurrent Removes of one node both read its parent. The second gets NotFound, which RMFile drops, and is answered with success. With a Create in between, it deletes the new node of the same name. |
| `fsstat_safety` | pass | `StatWholeAtRest`: with concurrent WStats copying field by field, a file whose lock is free holds exactly the last Stat written. About 211k distinct states. |
| `fsstat_torn` | violation | `StatNotTorn`: Stat reads fStat without the lock and can return half of the old Stat and half of the new one. |
| `mountcache_coherent` | violation | `ListingCoherent`: a Lookup whose Readdir was answered before a concurrent Unlink fills the cache afterwards and marks it valid. The property also covers Getattr of a child directory, whose statCache the same race fills and Rmdir never clears. |
| `mountattr_safety` | pass | `OnlyRequestedChanges`: no step changes the file's mode or length unless the request asked for that field. About 31k distinct states. |
| `mountattr_fidleak` | violation | `FidsAccounted`: an Unlink between Open's Open and Stat RPCs leaves the opened fid with no owner. |
| `codec_uname` | violation | `RoundTrip`: a Tauth with a 65536-byte aname is composed with string prefix 0. The server parses an empty aname, leaves 65536 bytes behind, and still replies. |
| `mountdirs_stale` | violation | `DirMatchesDentry`: after mkdir x; mv x y, the dentry y resolves to the Dir whose `path` is still /x, which the server no longer has. Readdir and Create in y then address /x, or a new x made later. |

Each property of a passing run has a mutant in `PROJECT.json`: a plausible bug
in the mapped code that TLC then finds.

## Findings

Each finding below is shown by a violation run.

1. `omodePermits` (line 730) grants read-write when only one of the two bits
   is set. A user with write-only permission can therefore open for reading
   (`perm_rdwr`).
2. `RMFile` (lines 964-967) is not atomic and drops `DeleteChild`'s
   error. Concurrent removes both report success, and one can delete a node
   created since under the same name (`fstree_remove_target`).
3. `BaseFile.Stat` (line 847) reads `fStat` without the lock that
   `WriteStat` holds, and can return a torn record (`fsstat_torn`).
4. mount9p's Lookup and Readdir (lines 355-356 and 388-389) fill the cache
   with a listing fetched before a concurrent Unlink, Rename or Create, and
   mark it valid. The mount then serves its own removed name, or hides its
   own new name, for DefaultTTL (`mountcache_coherent`).
5. FileNode.Open (lines 456-466) returns ENOENT when the Stat after a
   successful Open fails, without closing the opened file. The server fid
   leaks; an Unlink between the two RPCs is enough (`mountattr_fidleak`).
6. Dir objects are bound to paths, not to directories (`mountdirs_stale`).
   Dir.Rename (lines 160-191) leaves the renamed Dir's `path` and map
   entry at the old path, so after `mkdir y; mv y x; mkdir y` a file
   created in `x` is created in the new `y`. Dir.Rmdir (lines 203-211)
   never removes a Dir from the global map, and Lookup (line 370) reuses
   whatever `dirGet` returns. A directory renamed onto a removed name can
   therefore be given the removed directory's Dir, and its listing cache if
   that is still within its TTL.

7. `omodePermits` (lines 721-743) switches on the whole open mode, so a
   mode carrying Otrunc is always denied, although spec 6 makes truncate an
   independent flag and mount9p's convertFlag (lines 438-440) sets it for
   every O_TRUNC open. An owner with write permission cannot open for
   writing with truncation (`perm_trunc`).

8. TAuth.Compose (lines 31-47) counts the full length of `Uname` and
   `Aname` in the frame size, but writes each string behind a 2-byte
   length, and nothing refuses a string of 65536 bytes or more. Parse then
   reads a different message than was sent (`codec_uname`). Spec 4.1 says
   parse is the inverse of compose.

The models also contain three sequential defects that a unit test reaches
with one or two calls. No run is spent on them; they are listed as hazards
in `PROJECT.json`:

* `RMFile` dereferences a nil parent for the root or for an already
  removed node. FsTree's `panicked` records this; whether it can happen
  depends on the dispatcher, which is not in `src/`.
* `BaseFile.WriteStat` (line 853) copies the whole WStat record, sentinels
  included, while spec 4.3 applies only non-sentinel fields. After a chmod
  the file's Qid is the sentinel, so two chmodded files share an inode
  number.
* FileNode.Setattr (lines 554-557) answers the kernel with the Stat it sent,
  so a size-only truncate reports mode 0xFFFFFFFF and mtime 0xFFFFFFFF.

## Not modelled

See the components in `PROJECT.json`.

* **Client multiplexer.** No line of it is in `src/`. A model written from
  spec 4.5 alone would have no mapped code for a mutant to change, so it
  could show nothing about this repository.
* **File.Setattr** (lines 588-606). go-fuse v2 calls a node's Setattr
  before a file handle's, and FileNode implements Setattr, so this method
  is never reached.
* **The other message types of the codec.** Their parsers and composers are
  not in `src/`.
* Left out on purpose: `main` and `ReadWriteCloser` (I/O wiring), `FullPath`
  (string assembly for printing), File.Read and Fsync (they change no
  state), and every log line.
