----------------------------- MODULE FrameReader -----------------------------
(***************************************************************************)
(* How one session's reader (_CollectorConnection._read_loop in              *)
(* collector/transport/connections.py) cuts the collector's byte stream into  *)
(* records: EyeBond frames, AT responses, and what is thrown away -- Modbus    *)
(* RTU replies outside any frame, replies that were cut off, and leftover     *)
(* bytes where a header was expected.                                        *)
(*                                                                         *)
(* The bytes are real where the reader looks at them: header fields, the      *)
(* shape of an RTU reply, the AT terminator.  The collector sends pieces of    *)
(* a catalogue, each in one burst; pieces that arrive before the reader's      *)
(* next step are glued.  The CRC is ideal: it verifies the replies of the      *)
(* catalogue and no other bytes.  Every await of the loop is one step; a       *)
(* timeout may come whenever the bytes it waits for are not there.             *)
(*                                                                         *)
(* Left out: the auxiliary channel (auxiliary.enabled reads with the other     *)
(* decoder), what a frame means to its request (CollectorConnection has        *)
(* that), the 4096-byte cap of an AT response, and the cancellation of the     *)
(* reader, which like PeerCloses ends the loop.                               *)
(***************************************************************************)
EXTENDS Integers, Sequences

CONSTANTS
    Catalogue,      \* the pieces a collector sends: [kind, bytes]
    MaxPieces,      \* bound on the pieces that arrive
    ResyncLimit     \* _HEADER_RESYNC_LIMIT

Byte == 0..255
HeaderSize == 8
PrefixSize == 3
WireLenOffset == 6
MaxPayload == 4096
RuntimeFcodes == {1, 2, 3, 4, 17, 18, 19}
RtuReadFcodes == {3, 4}
MaxByteCount == 252
AT == <<65, 84, 43>>
CR == 13
LF == 10
TAB == 9

\* frame: a whole EyeBond frame; reply: a whole RTU reply; text: an AT response
\* with its CR LF, bare: one without; cut: the first bytes of an RTU reply;
\* scrap: leftover bytes of one.
Kinds == {"frame", "reply", "text", "bare", "cut", "scrap"}
Sound == {"frame", "reply", "text", "bare"}

-----------------------------------------------------------------------------
(* binary_framing.py, protocol.py: what the reader makes of bytes.           *)

\* decode_header and EybondHeader.payload_len
PayloadLen(h) == 256 * h[5] + h[6] + WireLenOffset - HeaderSize

\* runtime_eybond_header_error(header) # ""
HeaderError(h) ==
    \/ PayloadLen(h) < 0
    \/ PayloadLen(h) > MaxPayload
    \/ h[8] \notin RuntimeFcodes

LooksLikeStrayReply(b) ==
    /\ b[2] \in RtuReadFcodes
    /\ b[3] \in 1..MaxByteCount

StrayReplyLength(b) ==
    IF LooksLikeStrayReply(b) /\ b[3] % 2 = 0 THEN 3 + b[3] + 2 ELSE 0

\* Variant: the shape of a reply is enough.
CrcIsAssumed(b) == StrayReplyLength(b) = Len(b)

\* modbus_rtu_crc_is_valid, idealised
CrcIsValid(b) == \E p \in Catalogue : p.kind = "reply" /\ p.bytes = b

\* Variant: the header's own length is forgotten.
TrailingPayloads(data) ==
    {o \in 1..Len(data) - HeaderSize :
        LET h == SubSeq(data, o + 1, o + HeaderSize) IN
        ~HeaderError(h) /\ o + PayloadLen(h) = Len(data)}

\* _find_trailing_eybond_frame: the offsets at which a valid header claims
\* exactly the rest of the data; the code returns the first.
TrailingFrames(data) ==
    {o \in 1..Len(data) - HeaderSize :
        LET h == SubSeq(data, o + 1, o + HeaderSize) IN
        ~HeaderError(h) /\ o + HeaderSize + PayloadLen(h) = Len(data)}

ASSUME ReaderAssumption ==
    /\ MaxPieces \in Nat
    /\ ResyncLimit \in Nat
    /\ \A p \in Catalogue :
        /\ p.kind \in Kinds
        /\ p.bytes \in Seq(Byte) /\ p.bytes # <<>>

\* Asked of the catalogue's replies: none, whole or cut off, decodes as a complete
\* frame that is no longer.  The reader does not test such bytes for a reply ("a
\* claimed frame no longer than the reply is left alone so a short genuine frame
\* is never delayed") and takes them for the frame; those replies are left out.
NotAFrame(b) ==
    \/ Len(b) < HeaderSize
    \/ HeaderError(b)
    \/ HeaderSize + PayloadLen(b) > StrayReplyLength(b)

\* What the catalogue calls a frame, a reply, an AT response and a cut-off reply
\* is one.
ASSUME CatalogueAssumption ==
    \A p \in Catalogue :
        /\ p.kind = "frame" =>
            /\ Len(p.bytes) >= HeaderSize
            /\ ~HeaderError(p.bytes)
            /\ Len(p.bytes) = HeaderSize + PayloadLen(p.bytes)
        /\ p.kind = "reply" => StrayReplyLength(p.bytes) = Len(p.bytes) /\ NotAFrame(p.bytes)
        /\ p.kind \in {"text", "bare"} =>
            Len(p.bytes) >= PrefixSize /\ SubSeq(p.bytes, 1, PrefixSize) = AT
        /\ p.kind = "cut" /\ Len(p.bytes) >= PrefixSize =>
            StrayReplyLength(p.bytes) > Len(p.bytes) /\ NotAFrame(p.bytes)

-----------------------------------------------------------------------------
VARIABLES
    sent,       \* the pieces that arrived, in order
    stream,     \* their bytes
    ends,       \* ends[i]: where in the stream piece i ends
    eof,        \* the collector closed its side
    pos,        \* bytes taken from the stream (unread moves it back)
    mode,       \* the await the loop stands at
    start,      \* where in the stream the present record begins
    held,       \* first, prefix or header_bytes
    frames,     \* _frames_this_session
    streak,     \* _header_resync_streak
    last        \* the record finished last: what it was taken for and its bytes

vars == <<sent, stream, ends, eof, pos, mode, start, held, frames, streak, last>>

Modes == {"boundary", "prefix", "at", "short", "header", "rejected",
          "accepted", "payload", "discard", "resync", "closed"}
arrived == <<sent, stream, ends>>
NoRecord == [as |-> "none", from |-> 0, upto |-> 0]

Init ==
    /\ sent = <<>> /\ stream = <<>> /\ ends = <<>> /\ eof = FALSE
    /\ pos = 0 /\ start = 0 /\ mode = "boundary" /\ held = <<>>
    /\ frames = 0 /\ streak = 0
    /\ last = NoRecord

-----------------------------------------------------------------------------
(* The collector (external).                                                *)

Arrive(p) ==
    /\ ~eof /\ mode # "closed"
    /\ Len(sent) < MaxPieces
    /\ sent' = Append(sent, p)
    /\ stream' = stream \o p.bytes
    /\ ends' = Append(ends, Len(stream'))
    /\ UNCHANGED <<eof, pos, mode, start, held, frames, streak, last>>

PeerCloses ==
    /\ ~eof /\ mode # "closed"
    /\ eof' = TRUE
    /\ UNCHANGED <<arrived, pos, mode, start, held, frames, streak, last>>

-----------------------------------------------------------------------------
(* The loop.  Ahead(n) is what readexactly(n) returns.                       *)

CanRead(n) == Len(stream) >= pos + n
Ahead(n) == SubSeq(stream, pos + 1, pos + n)

\* What the loop waits for in the present mode, as a number of bytes.
Wanted ==
    CASE mode = "boundary" -> 1
      [] mode = "prefix"   -> PrefixSize - 1
      [] mode = "short"    -> StrayReplyLength(held) - PrefixSize
      [] mode = "header"   -> HeaderSize - PrefixSize
      [] mode \in {"rejected", "accepted"} -> StrayReplyLength(held) - HeaderSize
      [] mode = "payload"  -> PayloadLen(held)
      [] OTHER             -> 0

\* Finish the record: the loop is back at the boundary with the stream at upto.
Finish(as, upto) ==
    /\ last' = [as |-> as, from |-> start, upto |-> upto]
    /\ pos' = upto
    /\ mode' = "boundary"
    /\ held' = <<>>

Continue(m, bytes, p) ==
    /\ mode' = m /\ held' = bytes /\ pos' = p
    /\ UNCHANGED last

Close == mode' = "closed" /\ UNCHANGED <<pos, held, last>>

ReadFirst ==
    /\ mode = "boundary" /\ CanRead(1)
    /\ start' = pos
    /\ Continue("prefix", Ahead(1), pos + 1)
    /\ UNCHANGED <<arrived, eof, frames, streak>>

AfterPrefix(prefix) ==
    IF prefix = AT THEN "at"
    ELSE IF StrayReplyLength(prefix) \in 1..HeaderSize THEN "short" ELSE "header"

ReadPrefix ==
    /\ mode = "prefix" /\ CanRead(Wanted)
    /\ LET prefix == held \o Ahead(Wanted) IN
       Continue(AfterPrefix(prefix), prefix, pos + Wanted)
    /\ UNCHANGED <<arrived, eof, start, frames, streak>>

\* A reply shorter than a header: skipped when the CRC verifies, else its bytes
\* are handed back and the header is read as if they had not been looked at.
ReadShort ==
    /\ mode = "short" /\ CanRead(Wanted)
    /\ IF CrcIsValid(held \o Ahead(Wanted))
       THEN Finish("reply", pos + Wanted)
       ELSE Continue("header", held, pos)
    /\ UNCHANGED <<arrived, eof, start, frames, streak>>

\* Variant: a healthy session may resynchronise for ever.
AlwaysResync == frames > 0

\* The guard of _resync_after_unrecognised_header
MayResync == frames > 0 /\ streak < ResyncLimit

ReadHeader ==
    /\ mode = "header" /\ CanRead(Wanted)
    /\ LET h == held \o Ahead(Wanted)
           rtu == StrayReplyLength(h)
           resync == HeaderError(h) /\ rtu <= HeaderSize
                     /\ ~LooksLikeStrayReply(h) /\ MayResync
       IN /\ \/ /\ HeaderError(h) /\ rtu > HeaderSize
                /\ Continue("rejected", h, pos + Wanted)
             \/ /\ resync
                /\ Continue("resync", h, pos + Wanted)
             \/ /\ HeaderError(h) /\ rtu <= HeaderSize /\ ~resync
                /\ Close
             \/ /\ ~HeaderError(h)
                /\ rtu > HeaderSize /\ HeaderSize + PayloadLen(h) > rtu
                /\ Continue("accepted", h, pos + Wanted)
             \/ /\ ~HeaderError(h)
                /\ ~(rtu > HeaderSize /\ HeaderSize + PayloadLen(h) > rtu)
                /\ Continue("payload", h, pos + Wanted)
          /\ streak' = IF resync THEN streak + 1 ELSE streak
    /\ UNCHANGED <<arrived, eof, start, frames>>

\* A longer reply whose bytes do not make a header
ReadRejected ==
    /\ mode = "rejected" /\ CanRead(Wanted)
    /\ IF CrcIsValid(held \o Ahead(Wanted))
       THEN Finish("reply", pos + Wanted)
       ELSE Close
    /\ UNCHANGED <<arrived, eof, start, frames, streak>>

\* A longer reply whose bytes also make a header that claims still more
ReadAccepted ==
    /\ mode = "accepted" /\ CanRead(Wanted)
    /\ IF CrcIsValid(held \o Ahead(Wanted))
       THEN Finish("reply", pos + Wanted)
       ELSE Continue("payload", held, pos)
    /\ UNCHANGED <<arrived, eof, start, frames, streak>>

ReadPayload ==
    /\ mode = "payload" /\ CanRead(Wanted)
    /\ Finish("frame", pos + Wanted)
    /\ frames' = frames + 1
    /\ streak' = 0
    /\ UNCHANGED <<arrived, eof, start>>

\* Variant: a cut-off reply costs the session.
TimeOutCloses ==
    /\ ~eof
    /\ mode \in {"prefix", "short", "header", "rejected", "accepted", "payload"}
    /\ ~CanRead(Wanted)
    /\ Close
    /\ UNCHANGED <<arrived, eof, start, frames, streak>>

\* Variant: the rest of a payload is awaited without a timeout.
TimeOutInHeader ==
    /\ ~eof
    /\ mode \in {"prefix", "short", "header", "rejected", "accepted"}
    /\ ~CanRead(Wanted)
    /\ IF mode \in {"rejected", "accepted"}
       THEN Continue("discard", held, pos)
       ELSE Close
    /\ UNCHANGED <<arrived, eof, start, frames, streak>>

\* The timeouts around readexactly once a record has begun.  A cut-off reply
\* is dropped; in the other modes the session is closed.
TimeOut ==
    /\ ~eof
    /\ mode \in {"prefix", "short", "header", "rejected", "accepted", "payload"}
    /\ ~CanRead(Wanted)
    /\ IF mode \in {"rejected", "accepted"}
       THEN Continue("discard", held, pos)
       ELSE Close
    /\ UNCHANGED <<arrived, eof, start, frames, streak>>

\* _skip_cut_off_stray_rtu_reply: discard_available takes what is there when
\* the wire has been quiet for its idle timeout.
DiscardAvailable ==
    /\ mode = "discard"
    /\ Finish("drop", Len(stream))
    /\ UNCHANGED <<arrived, eof, start, frames, streak>>

\* The rest of _resync_after_unrecognised_header: take_available, then unread
\* from the first trailing frame on.
Resync ==
    /\ mode = "resync"
    /\ LET junk == held \o Ahead(Len(stream) - pos)
           offsets == TrailingFrames(junk)
       IN \/ offsets = {} /\ Finish("drop", Len(stream))
          \/ \E o \in offsets :
                /\ \A q \in offsets : o <= q
                /\ Finish("drop", Len(stream) - Len(junk) + o)
    /\ UNCHANGED <<arrived, eof, start, frames, streak>>

-----------------------------------------------------------------------------
(* read_at_response, one byte at a time behind the prefix.                   *)

Text(n) == SubSeq(stream, pos + 1, pos + n)
HeaderEndsAt(n) ==
    n >= HeaderSize /\ ~HeaderError(SubSeq(Text(n), n - HeaderSize + 1, n))

\* A control byte, a line feed included, was read before the n-th byte.
BinarySuspected(n) ==
    \E i \in 1..n - 1 : LET b == Text(n)[i] IN b < 32 /\ b \notin {CR, TAB}
LineEndsAt(n) ==
    /\ n >= 2 /\ Text(n)[n - 1] = CR /\ Text(n)[n] = LF
    /\ ~BinarySuspected(n)

\* The bytes at which the loop of read_at_response returns, a plausible header
\* first: it is pushed back and the text ends in front of it.
AtStops == {n \in 1..Len(stream) - pos : HeaderEndsAt(n) \/ LineEndsAt(n)}

AtStop ==
    /\ mode = "at"
    /\ \E n \in AtStops :
        /\ \A m \in AtStops : n <= m
        /\ Finish("text", IF HeaderEndsAt(n) THEN pos + n - HeaderSize ELSE pos + n)
    /\ UNCHANGED <<arrived, eof, start, frames, streak>>

AtIdle ==
    /\ mode = "at" /\ ~eof
    /\ AtStops = {}
    /\ Finish("text", Len(stream))
    /\ UNCHANGED <<arrived, eof, start, frames, streak>>

\* IncompleteReadError leaves the loop; the two takers return at EOF instead.
EofEnds ==
    /\ eof
    /\ \/ mode = "at" /\ AtStops = {}
       \/ mode \notin {"at", "discard", "resync", "closed"} /\ ~CanRead(Wanted)
    /\ Close
    /\ UNCHANGED <<arrived, eof, start, frames, streak>>

Read ==
    \/ ReadFirst \/ ReadPrefix \/ ReadShort \/ ReadHeader
    \/ ReadRejected \/ ReadAccepted \/ ReadPayload
    \/ TimeOut \/ DiscardAvailable \/ Resync
    \/ AtStop \/ AtIdle \/ EofEnds

Next ==
    \/ \E p \in Catalogue : Arrive(p)
    \/ PeerCloses
    \/ Read

Spec == Init /\ [][Next]_vars

\* The reader is one task; every await inside a record is bounded.
FairSpec == Spec /\ WF_vars(Read)

-----------------------------------------------------------------------------
TypeOK ==
    /\ sent \in Seq(Catalogue) /\ Len(sent) <= MaxPieces
    /\ stream \in Seq(Byte) /\ ends \in Seq(Nat)
    /\ eof \in BOOLEAN
    /\ pos \in 0..Len(stream) /\ start \in 0..pos
    /\ mode \in Modes
    /\ held \in Seq(Byte) /\ Len(held) <= HeaderSize
    /\ frames \in Nat /\ streak \in 0..ResyncLimit
    /\ last \in [as : {"none", "frame", "reply", "text", "drop"}, from : Nat, upto : Nat]

From(i) == IF i = 1 THEN 0 ELSE ends[i - 1]
Upto(i) == ends[i]
Starts(i) == i \in 1..Len(sent) /\ start = From(i)

\* What a piece must be taken for, by its kind
TakenFor == [frame |-> "frame", reply |-> "reply", text |-> "text", bare |-> "text"]

\* Nothing but a frame or a quiet wire marks the end of a bare response, so
\* other bytes glued to it are its own.
Delimited(i) ==
    sent[i].kind = "bare" => i = Len(sent) \/ sent[i + 1].kind = "frame"

\* An AT response is plain: printable bytes behind the prefix, and then CR LF.
Plain(b, n) == \A j \in PrefixSize + 1..n : b[j] >= 32
PlainLine(b) ==
    /\ Len(b) >= PrefixSize + 2
    /\ Plain(b, Len(b) - 2) /\ b[Len(b) - 1] = CR /\ b[Len(b)] = LF

\* Nothing ends inside the header of frame f glued behind text b: neither a line
\* nor eight bytes, the last of the text among them, that decode as a header.
ApartFrom(b, f) ==
    \A n \in Len(b) + 1..Len(b) + HeaderSize - 1 :
        LET t == b \o f IN
        /\ ~(t[n - 1] = CR /\ t[n] = LF)
        /\ n >= PrefixSize + HeaderSize => HeaderError(SubSeq(t, n - HeaderSize + 1, n))

\* Nothing in the catalogue reads as something else.
Unambiguous ==
    \A p \in Catalogue :
        /\ p.kind = "frame" =>
            /\ SubSeq(p.bytes, 1, PrefixSize) # AT
            /\ \A q \in Catalogue : q.kind = "reply" /\ Len(q.bytes) <= Len(p.bytes) =>
                SubSeq(p.bytes, 1, Len(q.bytes)) # q.bytes
        /\ p.kind = "text" => PlainLine(p.bytes)
        /\ p.kind = "bare" =>
            /\ Plain(p.bytes, Len(p.bytes))
            /\ \A q \in Catalogue : q.kind = "frame" => ApartFrom(p.bytes, q.bytes)

\* A record that begins with a sound piece is that piece, whole and for what it
\* is, whatever it is glued to: the looks ahead for an RTU reply give back what
\* they took, no frame passes for a reply, a reply that claims a longer frame (or
\* none) passes for no frame, and an AT response leaves the frame behind it alone.
RecordsTrue ==
    \A i \in 1..Len(sent) :
        /\ last.as # "none" /\ last.from = From(i)
        /\ sent[i].kind \in Sound /\ Delimited(i)
        => last.as = TakenFor[sent[i].kind] /\ last.upto = Upto(i)

\* The reader gives a session up only on bytes that are neither a frame, nor a
\* whole reply, nor an AT response, nor a cut-off reply of a header's length or
\* more with nothing behind it.
NoFalseClose ==
    mode = "closed" /\ ~eof =>
        \A i \in 1..Len(sent) : Starts(i) =>
            /\ sent[i].kind \notin Sound
            /\ ~(sent[i].kind = "cut" /\ i = Len(sent)
                 /\ Len(sent[i].bytes) >= HeaderSize)

\* A frame that arrived last, glued behind leftover bytes, survives the
\* resynchronisation that drops them.
KeepsGluedFrame ==
    [][mode = "resync" /\ mode' = "boundary" =>
        LET n == Len(sent) IN
        sent[n].kind = "frame" /\ From(n) > start => pos' = From(n)]_vars

\* Whatever arrives, a record that was begun ends: the reader is back at a
\* boundary or has given the session up.
Settles == mode # "boundary" ~> mode \in {"boundary", "closed"}
=============================================================================
