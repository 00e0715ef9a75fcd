------------------------------ MODULE MountAttr ------------------------------
(***************************************************************************)
(* One file of a mount9p mount, seen through the FileNode and File        *)
(* callbacks that read or change its attributes and its open handles:     *)
(* Setattr, Getattr (the Stat path), Open, Write, Release, and the Dir    *)
(* Create and Unlink that make and remove it.  The 9P server applies a    *)
(* WStat as spec 4.3 says (non-sentinel fields only); the client's         *)
(* per-call RPCs are atomic steps.  Open is two RPCs (Open, then Stat) and *)
(* so two steps: an Unlink may come between them.                          *)
(*                                                                         *)
(* Getattr answers from the parent directory's listing (the root Dir's   *)
(* dirCache, refilled by its Readdir when nil or past dirTTL) and falls   *)
(* back to a Stat RPC only when the file is not listed.  Only this file's *)
(* entry of that listing is kept; the fill/invalidation race inside the   *)
(* listing is MountCache's, so a Readdir is one step here.                *)
(*                                                                         *)
(* The mtime value is abstracted away (writes keep it 0); what matters is  *)
(* whether a reply reports it or the sentinel.                              *)
(***************************************************************************)
EXTENDS Naturals, FiniteSets

CONSTANTS
    Threads,    \* concurrent FUSE callbacks
    Modes,      \* permission values a chmod or create may carry
    MaxLen,     \* file lengths are 0..MaxLen
    MaxFids,    \* bound on the file's open fids
    Idle,
    NoAttr,     \* the kernel has no attributes of the file yet
    NoCache,    \* the parent's dirCache is nil
    NoEntry     \* the parent's listing has no entry for the file

\* The WStat "unchanged" value of mode, length and mtime (0xFFFFFFFF and
\* 0xFFFFFFFFFFFFFFFF), one value above every real one in the model.
NoChange == 99

Fields == {"mode", "size", "mtime"}     \* FATTR_MODE, FATTR_SIZE, FATTR_MTIME

VARIABLES
    file,       \* the server's file: [exists, mode, length, mtime]
    fids,       \* fids of this client open on the file at the server
    handles,    \* File handles the kernel holds
    kattr,      \* attributes the last reply gave the kernel
    applied,    \* history: the fields the last step was asked to change
    pc,         \* goroutine -> Idle or "opened" (between Open's two RPCs)
    dent,       \* the file's entry in the parent's dirCache: attributes, NoEntry or NoCache
    dfresh      \* the parent's dirTTL has not passed

vars == <<file, fids, handles, kattr, applied, pc, dent, dfresh>>

Lens == 0..MaxLen
Attr(m, l, t) == [mode |-> m, length |-> l, mtime |-> t]

TypeOK ==
    /\ file \in [exists : BOOLEAN, mode : Modes, length : Lens, mtime : {0}]
    /\ fids \in 0..MaxFids /\ handles \in 0..MaxFids
    /\ kattr \in [mode : Modes \cup {NoChange}, length : Lens \cup {NoChange},
                  mtime : {0, NoChange}] \cup {NoAttr}
    /\ applied \subseteq {"mode", "length"}
    /\ pc \in [Threads -> {Idle, "opened"}]
    /\ dent \in [mode : Modes, length : Lens, mtime : {0}] \cup {NoEntry, NoCache}
    /\ dfresh \in BOOLEAN

Init ==
    /\ \E m \in Modes : file = [exists |-> TRUE, mode |-> m, length |-> 0, mtime |-> 0]
    /\ fids = 0 /\ handles = 0
    /\ kattr = NoAttr
    /\ applied = {}
    /\ pc = [t \in Threads |-> Idle]
    /\ dent = NoCache /\ dfresh = FALSE

\* The server's WStat: a field carrying the sentinel is left unchanged.
ApplyWStat(s) ==
    [file EXCEPT !.mode   = IF s.mode = NoChange THEN @ ELSE s.mode,
                 !.length = IF s.length = NoChange THEN @ ELSE s.length]

-----------------------------------------------------------------------------

\* Mutant: the size is taken from the request whether FATTR_SIZE is set
\* or not (the kernel zeroes the fields it does not set).
SetattrStatSizeAlways(valid, m, l) ==
    Attr(IF "mode" \in valid THEN m ELSE NoChange, IF "size" \in valid THEN l ELSE 0,
         NoChange)

\* FileNode.Setattr builds an all-sentinel Stat and sets Mode and Length
\* from the fields the request marks valid.
SetattrStat(valid, m, l) ==
    Attr(IF "mode" \in valid THEN m ELSE NoChange,
         IF "size" \in valid THEN l ELSE NoChange, NoChange)

\* FileNode.Setattr: a WStat when a field was set (ENOENT when it fails),
\* then out.Mode, out.Size and out.Mtime copied from that Stat.
Setattr(t, valid, m, l) ==
    LET s == SetattrStat(valid, m, l)
        send == {"mode", "size"} \cap valid # {}
    IN
    /\ pc[t] = Idle
    /\ \/ /\ send /\ file.exists
          /\ file' = ApplyWStat(s)
          /\ applied' = ({"mode"} \cap valid) \cup
                         (IF "size" \in valid THEN {"length"} ELSE {})
          /\ kattr' = s
       \/ /\ ~send
          /\ kattr' = s
          /\ applied' = {}
          /\ UNCHANGED file
       \/ /\ send /\ ~file.exists          \* WStat fails: ENOENT
          /\ UNCHANGED <<file, applied, kattr>>
    /\ UNCHANGED <<fids, handles, pc, dent, dfresh>>

\* The negation of Dir.Readdir's `r.dirCache == nil || time.Now().After(r.dirTTL)`.
ListingUsable == dent # NoCache /\ dfresh

\* The file's entry in what the parent's Readdir lists now: the cache when
\* usable, else the server's directory as a new fill would list it.
Listed == IF ListingUsable THEN dent
          ELSE IF file.exists THEN Attr(file.mode, file.length, file.mtime) ELSE NoEntry

\* What Getattr would give the kernel now: the listed entry, else
\* oldGetattr's Stat RPC (NoAttr: ENOENT).
GetattrAnswer == IF Listed # NoEntry THEN Listed
                 ELSE IF file.exists THEN Attr(file.mode, file.length, file.mtime)
                 ELSE NoAttr

\* FileNode.Getattr: dir.Readdir on the parent (dirGet of the root always
\* finds it), which fills the cache when it is not usable; the entry of
\* the file's base name if listed, else oldGetattr; ENOENT changes nothing.
Getattr(t) ==
    /\ pc[t] = Idle
    /\ dent' = Listed
    /\ dfresh' = TRUE
    /\ kattr' = IF GetattrAnswer = NoAttr THEN kattr ELSE GetattrAnswer
    /\ applied' = {}
    /\ UNCHANGED <<file, fids, handles, pc>>

\* FileNode.Open, first RPC: client.Open(path, convertFlag(flags)); an
\* O_TRUNC open carries Otrunc and the server truncates.
OpenRPC(t, trunc) ==
    /\ pc[t] = Idle
    /\ file.exists
    /\ fids < MaxFids
    /\ fids' = fids + 1
    /\ file' = IF trunc THEN [file EXCEPT !.length = 0] ELSE file
    /\ applied' = IF trunc THEN {"length"} ELSE {}
    /\ pc' = [pc EXCEPT ![t] = "opened"]
    /\ UNCHANGED <<handles, kattr, dent, dfresh>>

\* Second RPC: client.Stat(path).  On success the kernel gets a File
\* handle; on failure Open returns ENOENT and the opened client.File is
\* dropped without Close.
OpenStat(t) ==
    /\ pc[t] = "opened"
    /\ handles' = IF file.exists THEN handles + 1 ELSE handles
    /\ pc' = [pc EXCEPT ![t] = Idle]
    /\ applied' = {}
    /\ UNCHANGED <<file, fids, kattr, dent, dfresh>>

\* File.Write: WriteAt through the handle's fid extends the file.
Write(t, off) ==
    /\ pc[t] = Idle
    /\ handles > 0
    /\ off + 1 <= MaxLen
    /\ file' = [file EXCEPT !.length = IF off + 1 > @ THEN off + 1 ELSE @]
    /\ applied' = {"length"}
    /\ UNCHANGED <<fids, handles, kattr, pc, dent, dfresh>>

\* File.Release: f.file.Close() clunks the handle's fid.
Release(t) ==
    /\ pc[t] = Idle
    /\ handles > 0
    /\ handles' = handles - 1
    /\ fids' = fids - 1
    /\ applied' = {}
    /\ UNCHANGED <<file, kattr, pc, dent, dfresh>>

\* Dir.Create: client.Create makes the file and returns it open; the
\* kernel gets a File handle on it.  The parent's dirTTL is reset and an
\* entry with the requested mode and length 0 appended (a stale entry of
\* the same name, listed first, is the one a search finds).
Create(t, m) ==
    /\ pc[t] = Idle
    /\ ~file.exists
    /\ fids < MaxFids
    /\ file' = [exists |-> TRUE, mode |-> m, length |-> 0, mtime |-> 0]
    /\ fids' = fids + 1 /\ handles' = handles + 1
    /\ applied' = {"mode", "length"}
    /\ dfresh' = FALSE
    /\ dent' = IF dent \in {NoCache, NoEntry} THEN Attr(m, 0, 0) ELSE dent
    /\ UNCHANGED <<kattr, pc>>

\* Dir.Unlink: client.Remove of the path, then the parent's dirTTL is
\* reset.  Open fids stay open.
Unlink(t) ==
    /\ pc[t] = Idle
    /\ file.exists
    /\ file' = [file EXCEPT !.exists = FALSE]
    /\ applied' = {}
    /\ dfresh' = FALSE
    /\ UNCHANGED <<fids, handles, kattr, pc, dent>>

\* The parent's DefaultTTL passes.
Expire ==
    /\ dfresh
    /\ dfresh' = FALSE
    /\ UNCHANGED <<file, fids, handles, kattr, applied, pc, dent>>

Next ==
    \E t \in Threads :
        \/ \E valid \in SUBSET Fields, m \in Modes, l \in Lens : Setattr(t, valid, m, l)
        \/ Getattr(t) \/ OpenStat(t) \/ Release(t) \/ Unlink(t)
        \/ \E trunc \in BOOLEAN : OpenRPC(t, trunc)
        \/ \E off \in Lens : Write(t, off)
        \/ \E m \in Modes : Create(t, m)
    \/ Expire

Spec == Init /\ [][Next]_vars

-----------------------------------------------------------------------------
(* Properties *)

\* Setattr changes only what the kernel asked for: a step that changes
\* the file's mode or length was asked to change that field (by the
\* Valid mask of a Setattr, or by a write, truncating open or create).
OnlyRequestedChanges ==
    [][\A f \in {"mode", "length"} : file'[f] # file[f] => f \in applied']_vars

\* Every fid this client opens at the server is either held by a kernel
\* handle or in an Open still running: none is left open with no owner.
FidsAccounted ==
    fids = handles + Cardinality({t \in Threads : pc[t] = "opened"})

=============================================================================
