-------------------------------- MODULE Codec --------------------------------
(***************************************************************************)
(* The Tauth and Rauth messages of auth.go: Compose, Parse and the        *)
(* server's Reply to a Tauth.  The byte buffer is run-length encoded: a   *)
(* run is one byte value repeated n times, so a string of 65536 equal     *)
(* bytes is one run and the 16-bit boundary of a string's length prefix   *)
(* is within reach.  Buffers are kept normal (no two adjacent runs of the *)
(* same byte), so two buffers are equal exactly when their bytes are.     *)
(*                                                                         *)
(* The helpers that auth.go calls but that live elsewhere in the package  *)
(* (toLittleE16/32, fromLittleE16/32, toString, fromString, fcParse and   *)
(* Qid's Compose/Parse) follow the wire format of spec 4.1 and 6.         *)
(***************************************************************************)
EXTENDS Naturals, Sequences

CONSTANTS
    Strs,       \* strings a client may put in uname/aname (normal buffers)
    Tags,       \* tag values
    Fids,       \* afid values
    Qids,       \* [type, vers, path] records an Rauth may carry
    Fail,       \* a parse that cannot read a field in full
    None        \* no message yet

Ttauth == 102   \* message type codes of the 9P2000 protocol
Trauth == 103
Trerror == 107

-----------------------------------------------------------------------------
(* Byte buffers.                                                           *)

Run == [b : 0..255, n : Nat \ {0}]

RECURSIVE Size(_)
Size(buf) == IF buf = <<>> THEN 0 ELSE Head(buf).n + Size(Tail(buf))

\* buf1 followed by buf2, merging the runs where they meet.
Cat(buf1, buf2) ==
    IF buf1 # <<>> /\ buf2 # <<>> /\ buf1[Len(buf1)].b = Head(buf2).b
    THEN SubSeq(buf1, 1, Len(buf1) - 1)
           \o <<[b |-> Head(buf2).b, n |-> buf1[Len(buf1)].n + Head(buf2).n]>>
           \o Tail(buf2)
    ELSE buf1 \o buf2

\* buff[k:] and buff[:k] of a buffer holding at least k bytes.
RECURSIVE Drop(_, _)
Drop(buf, k) ==
    IF k = 0 THEN buf
    ELSE IF Head(buf).n <= k THEN Drop(Tail(buf), k - Head(buf).n)
    ELSE <<[Head(buf) EXCEPT !.n = @ - k]>> \o Tail(buf)

RECURSIVE Take(_, _)
Take(buf, k) ==
    IF k = 0 THEN <<>>
    ELSE IF Head(buf).n >= k THEN <<[Head(buf) EXCEPT !.n = k]>>
    ELSE <<Head(buf)>> \o Take(Tail(buf), k - Head(buf).n)

Byte(v) == <<[b |-> v, n |-> 1]>>

-----------------------------------------------------------------------------
(* The package's encoding helpers (spec 4.1: little-endian integers, and  *)
(* strings as a 2-byte length and the raw bytes).                          *)

\* toLittleE16/toLittleE32: the low k bytes of v, least significant first.
RECURSIVE toLittleE(_, _)
toLittleE(v, k) ==
    IF k = 0 THEN <<>> ELSE Cat(Byte(v % 256), toLittleE(v \div 256, k - 1))

\* fromLittleE16/fromLittleE32 of a buffer holding at least k bytes.
RECURSIVE fromLittleE(_, _)
fromLittleE(buf, k) ==
    IF k = 0 THEN 0 ELSE Head(buf).b + 256 * fromLittleE(Drop(buf, 1), k - 1)

\* toString: the length as a uint16, which keeps len(s) modulo 2^16, then
\* every byte of s.
toString(s) == Cat(toLittleE(Size(s) % 65536, 2), s)

\* fromString: <<string, rest>>, or Fail when the buffer is too short for
\* the length or for the bytes it announces.
fromString(buf) ==
    IF Size(buf) < 2 THEN Fail
    ELSE LET n == fromLittleE(buf, 2) IN
         IF Size(buf) < 2 + n THEN Fail
         ELSE <<Take(Drop(buf, 2), n), Drop(buf, 2 + n)>>

\* fcParse: size[4] type[1] tag[2]; a declared size beyond the buffer fails.
fcParse(buf) ==
    IF Size(buf) < 7 \/ fromLittleE(buf, 4) > Size(buf) THEN Fail
    ELSE [size |-> fromLittleE(buf, 4), ctype |-> Head(Drop(buf, 4)).b,
          tag |-> fromLittleE(Drop(buf, 5), 2), rest |-> Drop(buf, 7)]

\* Qid.Compose and Qid.Parse: type[1] vers[4] path[8].
QidCompose(q) == Cat(Cat(Byte(q.type), toLittleE(q.vers, 4)), toLittleE(q.path, 8))

QidParse(buf) ==
    IF Size(buf) < 13 THEN Fail
    ELSE <<[type |-> Head(buf).b, vers |-> fromLittleE(Drop(buf, 1), 4),
            path |-> fromLittleE(Drop(buf, 5), 8)], Drop(buf, 13)>>

-----------------------------------------------------------------------------
(* auth.go.                                                                *)

TAuthMsg == [ctype : {Ttauth}, tag : Tags, afid : Fids, uname : Strs, aname : Strs]
RAuthMsg == [ctype : {Trauth}, tag : Tags, aqid : Qids]

\* TAuth.Compose: size[4] Tauth tag[2] afid[4] uname[s] aname[s], the size
\* computed as a uint32 from the full lengths of the two strings (it wraps
\* only past 2^32 bytes, beyond every string here).
TAuthCompose(m) ==
    LET length == 4 + 1 + 2 + 4 + (2 + Size(m.uname)) + (2 + Size(m.aname))
    IN  Cat(Cat(Cat(Cat(Cat(toLittleE(length, 4), Byte(m.ctype)), toLittleE(m.tag, 2)),
                    toLittleE(m.afid, 4)), toString(m.uname)), toString(m.aname))

\* TAuth.Parse: fcParse, then afid, uname and aname in order; the
\* returned buffer is what follows aname.
TAuthParse(buf) ==
    LET fc == fcParse(buf) IN
    IF fc = Fail \/ Size(fc.rest) < 4 THEN Fail
    ELSE LET u == fromString(Drop(fc.rest, 4)) IN
         IF u = Fail THEN Fail
         ELSE LET a == fromString(u[2]) IN
              IF a = Fail THEN Fail
              ELSE <<[ctype |-> fc.ctype, tag |-> fc.tag,
                      afid |-> fromLittleE(fc.rest, 4), uname |-> u[1], aname |-> a[1]],
                     a[2]>>

\* TAuth.Reply: authentication is not enabled; the answer is an Rerror
\* with the request's tag.
Reply(m) == [ctype |-> Trerror, tag |-> m.tag, ename |-> "Not Enabled."]

\* RAuth.Compose: size[4] Rauth tag[2] aqid[13], size fixed at 20.
RAuthCompose(m) ==
    Cat(Cat(Cat(toLittleE(20, 4), Byte(m.ctype)), toLittleE(m.tag, 2)), QidCompose(m.aqid))

\* RAuth.Parse: fcParse, then the Qid.
RAuthParse(buf) ==
    LET fc == fcParse(buf) IN
    IF fc = Fail THEN Fail
    ELSE LET q == QidParse(fc.rest) IN
         IF q = Fail THEN Fail
         ELSE <<[ctype |-> fc.ctype, tag |-> fc.tag, aqid |-> q[1]], q[2]>>

-----------------------------------------------------------------------------
(* One exchange at a time: a peer composes a message onto the wire and    *)
(* the other end parses it (and, for a Tauth, the server replies).         *)

VARIABLES
    sent,       \* the message composed, or None
    wire,       \* the frame as written
    got,        \* what Parse returned: <<message, rest>>, or Fail
    reply       \* the server's reply to a Tauth it parsed, or None

vars == <<sent, wire, got, reply>>

TypeOK ==
    /\ sent \in TAuthMsg \cup RAuthMsg \cup {None}
    /\ wire \in Seq(Run)
    /\ reply \in [ctype : {Trerror}, tag : Tags, ename : {"Not Enabled."}] \cup {None}

Init ==
    /\ sent = None /\ wire = <<>> /\ got = None /\ reply = None

\* A client composes a Tauth; the server parses it and replies.
ExchangeTauth(m) ==
    /\ sent = None
    /\ sent' = m
    /\ wire' = TAuthCompose(m)
    /\ got' = TAuthParse(wire')
    /\ reply' = IF got' = Fail THEN None ELSE Reply(got'[1])

\* A server composes an Rauth; the client parses it.
ExchangeRauth(m) ==
    /\ sent = None
    /\ sent' = m
    /\ wire' = RAuthCompose(m)
    /\ got' = RAuthParse(wire')
    /\ reply' = None

\* The connection is ready for the next exchange.
Done ==
    /\ sent # None
    /\ sent' = None /\ wire' = <<>> /\ got' = None /\ reply' = None

Next ==
    \/ \E m \in TAuthMsg : ExchangeTauth(m)
    \/ \E m \in RAuthMsg : ExchangeRauth(m)
    \/ Done

Spec == Init /\ [][Next]_vars

-----------------------------------------------------------------------------
(* Properties *)

\* Parse inverts Compose (spec 4.1): the other end reads back exactly the
\* message that was composed, and the frame leaves nothing behind.
RoundTrip ==
    sent # None => got # Fail /\ got = <<sent, <<>>>>

=============================================================================
