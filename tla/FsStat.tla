------------------------------- MODULE FsStat -------------------------------
(***************************************************************************)
(* BaseFile's Stat record and its lock discipline (fs/fs.go): WriteStat   *)
(* replaces the whole fStat under the file's RWMutex, Stat returns fStat  *)
(* without taking the lock.  A Go struct assignment is a copy of several  *)
(* words that other goroutines can observe half done, so WriteStat is a   *)
(* lock step, one step per field and an unlock step; Stat reads whatever  *)
(* the fields hold at that moment.                                         *)
(*                                                                         *)
(* The WStat requests are the ones mount9p sends: chmod and truncate from *)
(* Setattr and rename from Rename, each a Stat whose other fields carry   *)
(* the "unchanged" sentinels.  The dispatcher (outside src/) hands the    *)
(* decoded Stat to node.WriteStat, whose contract (spec 4.3) is to apply  *)
(* only the fields that are not sentinels.                                 *)
(***************************************************************************)
EXTENDS Naturals, FiniteSets

CONSTANTS
    Files,      \* BaseFile objects
    Threads,    \* dispatcher goroutines handling Twstat
    Names,      \* names (model values); the empty string is NoName
    Modes,      \* permission values a chmod may set
    Sentinel,   \* the WStat "unchanged" value of a numeric field
    NoName,     \* "", the WStat "unchanged" value of a string field
    NoThread    \* an unlocked RWMutex

Fields == {"qid", "name", "mode", "length"}

VARIABLES
    fStat,      \* file -> its BaseFile.fStat
    lock,       \* file -> goroutine holding its write lock, or NoThread
    job,        \* goroutine -> the WriteStat it is copying, or NoJob
    last        \* file -> the Stat the last finished WriteStat wrote (history)

vars == <<fStat, lock, job, last>>

NoJob  == [file |-> NoThread, src |-> NoThread, left |-> {}]

-----------------------------------------------------------------------------
(* The Stat values: NewBaseFile gives each file a distinct Qid and name.  *)

\* A file's initial Stat, from fs.NewStat: Qid.Uid from the counter, length 0.
InitialStat(f, i, n) == [qid |-> i, name |-> n, mode |-> 420, length |-> 0]

\* mount9p Setattr (mode only): every field the sentinel but Mode.
ChmodReq(m) == [qid |-> Sentinel, name |-> NoName, mode |-> m, length |-> Sentinel]

\* mount9p Setattr (size only): every field the sentinel but Length.
TruncateReq == [qid |-> Sentinel, name |-> NoName, mode |-> Sentinel, length |-> 0]

\* mount9p Rename: every field the sentinel but Name.
RenameReq(n) == [qid |-> Sentinel, name |-> n, mode |-> Sentinel, length |-> Sentinel]

Requests == {ChmodReq(m) : m \in Modes} \cup {TruncateReq}
              \cup {RenameReq(n) : n \in Names}

-----------------------------------------------------------------------------

\* NewBaseFile for each file, with the Qid and name fs.NewStat gave it.
Init ==
    LET order == CHOOSE g \in [Files -> 1..Cardinality(Files)] :
                     \A a, b \in Files : a # b => g[a] # g[b]
        nameOf == CHOOSE g \in [Files -> Names] :
                     \A a, b \in Files : a # b => g[a] # g[b]
        init   == [f \in Files |-> InitialStat(f, order[f], nameOf[f])]
    IN
    /\ fStat = init
    /\ lock = [f \in Files |-> NoThread]
    /\ job = [t \in Threads |-> NoJob]
    /\ last = init

\* Mutant: WriteStat copies without waiting for the lock.
WriteStatLockIgnored(t, f, s) ==
    /\ job[t] = NoJob
    /\ lock' = [lock EXCEPT ![f] = t]
    /\ job' = [job EXCEPT ![t] = [file |-> f, src |-> s, left |-> Fields]]
    /\ UNCHANGED <<fStat, last>>

\* WriteStat(s), first step: f.Lock().
WriteStatLock(t, f, s) ==
    /\ job[t] = NoJob
    /\ lock[f] = NoThread
    /\ lock' = [lock EXCEPT ![f] = t]
    /\ job' = [job EXCEPT ![t] = [file |-> f, src |-> s, left |-> Fields]]
    /\ UNCHANGED <<fStat, last>>

\* f.fStat = *s, one field at a time in whatever order the copy takes.
WriteStatCopy(t, fld) ==
    LET j == job[t] IN
    /\ fld \in j.left
    /\ fStat' = [fStat EXCEPT ![j.file][fld] = j.src[fld]]
    /\ job' = [job EXCEPT ![t].left = j.left \ {fld}]
    /\ UNCHANGED <<lock, last>>

\* The deferred f.Unlock(); WriteStat returns nil.
WriteStatUnlock(t) ==
    LET j == job[t] IN
    /\ j # NoJob
    /\ j.left = {}
    /\ lock' = [lock EXCEPT ![j.file] = NoThread]
    /\ job' = [job EXCEPT ![t] = NoJob]
    /\ last' = [last EXCEPT ![j.file] = j.src]
    /\ UNCHANGED fStat

\* Stat(): return f.fStat, with no lock.  It changes nothing and may run
\* at any moment, so what it returns is the file's fStat in any state.
Stat(f) == fStat[f]

Next ==
    \/ \E t \in Threads, f \in Files, s \in Requests : WriteStatLock(t, f, s)
    \/ \E t \in Threads, fld \in Fields : WriteStatCopy(t, fld)
    \/ \E t \in Threads : WriteStatUnlock(t)

Spec == Init /\ [][Next]_vars

-----------------------------------------------------------------------------
(* Properties *)

\* WriteStat's lock serialises writers: whenever no WriteStat holds a
\* file's lock, its fStat is exactly the Stat the last WriteStat to
\* finish wrote, never a mix of two concurrent WStats.
StatWholeAtRest ==
    \A f \in Files : lock[f] = NoThread => fStat[f] = last[f]

\* Stat() never returns a torn record: at every moment, what an unlocked
\* Stat() call would return is either the Stat before the WriteStat in
\* progress or the Stat that WriteStat is writing, never a mix.
StatNotTorn ==
    \A f \in Files :
        \/ Stat(f) = last[f]
        \/ \E t \in Threads : job[t].file = f /\ Stat(f) = job[t].src

=============================================================================
