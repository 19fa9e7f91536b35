-------------------------- MODULE FrameReaderProofs --------------------------
(***************************************************************************)
(* Proofs about FrameReader, for every catalogue of pieces, any number of    *)
(* them and any limit on resynchronisations.                                *)
(***************************************************************************)
EXTENDS FrameReader, SequenceTheorems, TLAPS

-----------------------------------------------------------------------------
(* The inductive invariant *)

\* Piece i lies in the stream where ends says, and the stream ends with the last.
Lies(i) ==
    /\ From(i) \in Nat /\ ends[i] = From(i) + Len(sent[i].bytes)
    /\ ends[i] <= Len(stream)
    /\ \A j \in 1..Len(sent[i].bytes) : stream[From(i) + j] = sent[i].bytes[j]

Layout ==
    /\ Len(ends) = Len(sent)
    /\ \A i \in 1..Len(sent) : Lies(i)
    /\ Len(stream) = From(Len(sent) + 1)

Inside == mode \notin {"boundary", "closed"}

\* Inside a record the bytes in hand are the record's first: nothing that was
\* looked at is lost.
InHand ==
    Inside =>
        /\ held # <<>> /\ pos = start + Len(held)
        /\ \A j \in 1..Len(held) : held[j] = stream[start + j]

\* What the loop knows of the bytes in hand at each await.
Knows(m, h) ==
    /\ m = "boundary" => h = <<>>
    /\ m = "prefix" => Len(h) = 1
    /\ m \in {"at", "short", "header"} => Len(h) = PrefixSize
    /\ m = "at" => h = AT
    /\ m = "short" => StrayReplyLength(h) \in 1..HeaderSize
    /\ m \in {"rejected", "accepted", "payload", "discard", "resync"} => Len(h) = HeaderSize
    /\ m \in {"rejected", "accepted"} => StrayReplyLength(h) > HeaderSize
    /\ m \in {"accepted", "payload"} => ~HeaderError(h)
    /\ m = "accepted" => HeaderSize + PayloadLen(h) > StrayReplyLength(h)

ReaderInv == TypeOK /\ Layout /\ InHand /\ Knows(mode, held)

-----------------------------------------------------------------------------
(* What the reader makes of bytes depends on the first three or eight only.  *)

LEMMA ByteIsNat == \A x \in Byte : x \in Nat
BY DEF Byte

LEMMA PieceBytes ==
    ASSUME NEW p \in Catalogue
    PROVE  p.kind \in Kinds /\ p.bytes \in Seq(Byte) /\ Len(p.bytes) \in Nat \ {0}
BY ReaderAssumption

LEMMA ReplyLengthRange ==
    ASSUME NEW b \in Seq(Byte), Len(b) >= PrefixSize
    PROVE  /\ StrayReplyLength(b) \in Nat
           /\ StrayReplyLength(b) # 0 => StrayReplyLength(b) > PrefixSize
<1>1. b[3] \in Byte
  BY DEF PrefixSize
<1>2. StrayReplyLength(b) = 0 \/ StrayReplyLength(b) = 3 + b[3] + 2
  BY DEF StrayReplyLength
<1>3. 3 + b[3] + 2 \in Nat /\ 3 + b[3] + 2 > PrefixSize
  BY <1>1, ByteIsNat DEF PrefixSize
<1> QED
  BY <1>2, <1>3

LEMMA SamePrefix ==
    ASSUME NEW b, NEW c, b[2] = c[2], b[3] = c[3]
    PROVE  /\ StrayReplyLength(b) = StrayReplyLength(c)
           /\ LooksLikeStrayReply(b) <=> LooksLikeStrayReply(c)
<1>1. LooksLikeStrayReply(b) <=> LooksLikeStrayReply(c)
  BY DEF LooksLikeStrayReply
<1> QED
  BY <1>1 DEF StrayReplyLength

LEMMA SameHeader ==
    ASSUME NEW b, NEW c, b[5] = c[5], b[6] = c[6], b[8] = c[8]
    PROVE  PayloadLen(b) = PayloadLen(c) /\ (HeaderError(b) <=> HeaderError(c))
<1>1. PayloadLen(b) = PayloadLen(c)
  BY DEF PayloadLen
<1> QED
  BY <1>1 DEF HeaderError

LEMMA PayloadLenInt ==
    ASSUME NEW b \in Seq(Byte), Len(b) >= HeaderSize
    PROVE  PayloadLen(b) \in Int /\ (~HeaderError(b) => PayloadLen(b) \in Nat)
<1>1. b[5] \in Byte /\ b[6] \in Byte
  BY DEF HeaderSize
<1>2. PayloadLen(b) \in Int
  BY <1>1, ByteIsNat DEF PayloadLen, HeaderSize, WireLenOffset
<1>3. ~HeaderError(b) => ~(PayloadLen(b) < 0)
  BY DEF HeaderError
<1> QED
  BY <1>2, <1>3

-----------------------------------------------------------------------------
(* Reading ahead *)

LEMMA Slice ==
    ASSUME NEW s \in Seq(Byte), NEW m \in Nat, NEW n \in Nat, m + n <= Len(s)
    PROVE  /\ SubSeq(s, m + 1, m + n) \in Seq(Byte)
           /\ Len(SubSeq(s, m + 1, m + n)) = n
           /\ \A j \in 1..n : SubSeq(s, m + 1, m + n)[j] = s[m + j]
<1>1. \A j \in m + 1..m + n : s[j] \in Byte
  OBVIOUS
<1>2. /\ SubSeq(s, m + 1, m + n) \in Seq(Byte)
      /\ Len(SubSeq(s, m + 1, m + n)) = IF m + 1 <= m + n THEN m + n - (m + 1) + 1 ELSE 0
      /\ \A i \in 1..m + n - (m + 1) + 1 : SubSeq(s, m + 1, m + n)[i] = s[m + 1 + i - 1]
  BY <1>1, SubSeqProperties, m + 1 \in Int, m + n \in Int
<1>3. m + n - (m + 1) + 1 = n /\ \A j \in 1..n : m + 1 + j - 1 = m + j
  OBVIOUS
<1> QED
  BY <1>2, <1>3

\* A record's bytes: those from start on.
Reads(h) ==
    /\ h \in Seq(Byte) /\ start + Len(h) <= Len(stream)
    /\ \A j \in 1..Len(h) : h[j] = stream[start + j]

LEMMA HeldReads ==
    ASSUME ReaderInv, Inside
    PROVE  Reads(held) /\ Len(held) \in Nat \ {0} /\ start \in Nat /\ pos = start + Len(held)
           /\ Len(stream) \in Nat /\ stream \in Seq(Byte) /\ pos <= Len(stream)
BY DEF ReaderInv, TypeOK, InHand, Reads

LEMMA ReadOn ==
    ASSUME ReaderInv, Inside, NEW n \in Nat, CanRead(n)
    PROVE  /\ Reads(held \o Ahead(n))
           /\ Len(held \o Ahead(n)) = Len(held) + n
           /\ start + Len(held \o Ahead(n)) = pos + n
<1>1. /\ Reads(held) /\ Len(held) \in Nat \ {0} /\ start \in Nat /\ pos = start + Len(held)
      /\ Len(stream) \in Nat /\ stream \in Seq(Byte)
  BY HeldReads
<1>2. pos \in Nat /\ pos + n <= Len(stream)
  BY <1>1 DEF CanRead
<1>3. /\ Ahead(n) \in Seq(Byte) /\ Len(Ahead(n)) = n
      /\ \A j \in 1..n : Ahead(n)[j] = stream[pos + j]
  BY <1>1, <1>2, Slice DEF Ahead
<1>4. held \in Seq(Byte)
  BY <1>1 DEF Reads
<1> DEFINE h == held \o Ahead(n)
<1>5. /\ h \in Seq(Byte) /\ Len(h) = Len(held) + n
      /\ \A i \in 1..Len(held) + n : h[i] = IF i <= Len(held) THEN held[i] ELSE Ahead(n)[i - Len(held)]
  <2>1. /\ h \in Seq(Byte) /\ Len(h) = Len(held) + Len(Ahead(n))
        /\ \A i \in 1..Len(held) + Len(Ahead(n)) :
              h[i] = IF i <= Len(held) THEN held[i] ELSE Ahead(n)[i - Len(held)]
    <3> HIDE DEF Ahead
    <3> QED
      BY <1>3, <1>4, ConcatProperties
  <2> QED
    BY <2>1, <1>3
<1>6. ASSUME NEW j \in 1..Len(h) PROVE h[j] = stream[start + j]
  <2>1. CASE j <= Len(held)
    BY <2>1, <1>1, <1>5 DEF Reads
  <2>2. CASE j > Len(held)
    <3>1. j - Len(held) \in 1..n /\ pos + (j - Len(held)) = start + j
      BY <2>2, <1>1, <1>5
    <3> QED
      BY <3>1, <2>2, <1>1, <1>3, <1>5
  <2> QED
    BY <2>1, <2>2, <1>1, <1>5
<1> QED
  BY <1>1, <1>2, <1>5, <1>6 DEF Reads

\* What is read from the start of a piece is the piece's.
LEMMA ReadsPiece ==
    ASSUME ReaderInv, NEW i, Starts(i), NEW h, Reads(h), Len(h) <= Len(sent[i].bytes)
    PROVE  /\ \A j \in 1..Len(h) : h[j] = sent[i].bytes[j]
           /\ Len(h) = Len(sent[i].bytes) => h = sent[i].bytes
           /\ h = SubSeq(sent[i].bytes, 1, Len(h))
<1>1. i \in 1..Len(sent) /\ start = From(i) /\ Lies(i)
  BY DEF Starts, ReaderInv, Layout
<1>2. sent[i] \in Catalogue
  BY <1>1 DEF ReaderInv, TypeOK
<1>3. sent[i].bytes \in Seq(Byte) /\ Len(sent[i].bytes) \in Nat
  BY <1>2, PieceBytes
<1>4. h \in Seq(Byte) /\ Len(h) \in Nat
  BY DEF Reads
<1>5. \A j \in 1..Len(h) : h[j] = sent[i].bytes[j]
  BY <1>1, <1>3, <1>4 DEF Reads, Lies
<1>6. Len(h) = Len(sent[i].bytes) => h = sent[i].bytes
  BY <1>3, <1>4, <1>5, SeqEqual
<1>7. h = SubSeq(sent[i].bytes, 1, Len(h))
  <2> DEFINE s == SubSeq(sent[i].bytes, 0 + 1, 0 + Len(h))
  <2>1. s \in Seq(Byte) /\ Len(s) = Len(h) /\ \A j \in 1..Len(h) : s[j] = sent[i].bytes[0 + j]
    BY <1>3, <1>4, Slice
  <2>2. \A j \in 1..Len(h) : h[j] = s[j]
    BY <2>1, <1>4, <1>5
  <2> HIDE DEF s
  <2>3. h = s
    BY <2>1, <2>2, <1>4, SeqEqual
  <2> QED
    BY <2>3, <1>4 DEF s
<1> QED
  BY <1>5, <1>6, <1>7

-----------------------------------------------------------------------------
(* The three ways a step of the loop ends *)

LEMMA Finished ==
    ASSUME ReaderInv, UNCHANGED <<arrived, eof, start>>,
           NEW as \in {"frame", "reply", "text", "drop"},
           NEW upto \in start..Len(stream), Finish(as, upto),
           frames' \in Nat, streak' \in 0..ResyncLimit
    PROVE  ReaderInv'
<1>1. TypeOK'
  <2>1. /\ pos' = upto /\ mode' = "boundary" /\ held' = <<>>
        /\ last' = [as |-> as, from |-> start, upto |-> upto]
    BY DEF Finish
  <2>2. upto \in Nat /\ start \in Nat /\ start <= upto /\ upto <= Len(stream)
    BY DEF ReaderInv, TypeOK
  <2>3. last' \in [as : {"none", "frame", "reply", "text", "drop"}, from : Nat, upto : Nat]
    BY <2>1, <2>2
  <2>4. held' \in Seq(Byte) /\ Len(held') <= HeaderSize
    BY <2>1 DEF HeaderSize
  <2>5. pos' \in 0..Len(stream) /\ start \in 0..pos' /\ mode' \in Modes
    BY <2>1, <2>2 DEF Modes
  <2> QED
    BY <2>3, <2>4, <2>5 DEF ReaderInv, TypeOK, arrived
<1>2. Layout'
  BY DEF ReaderInv, Layout, Lies, From, arrived
<1>3. InHand' /\ Knows(mode, held)'
  BY DEF InHand, Inside, Knows, Finish
<1> QED
  BY <1>1, <1>2, <1>3 DEF ReaderInv

LEMMA Continued ==
    ASSUME ReaderInv, UNCHANGED <<arrived, eof, frames>>, streak' \in 0..ResyncLimit,
           start' \in Nat,
           NEW m \in Modes \ {"boundary", "closed"}, NEW h \in Seq(Byte), Len(h) > 0, Len(h) <= HeaderSize,
           NEW p \in Nat, Continue(m, h, p), p <= Len(stream), p = start' + Len(h),
           \A j \in 1..Len(h) : h[j] = stream[start' + j],
           Knows(m, h)
    PROVE  ReaderInv'
<1>1. TypeOK'
  <2>1. mode' = m /\ held' = h /\ pos' = p /\ last' = last
    BY DEF Continue
  <2>2. held' \in Seq(Byte) /\ Len(held') <= HeaderSize
    BY <2>1
  <2>3. start' <= p
    OBVIOUS
  <2> QED
    BY <2>1, <2>2, <2>3 DEF ReaderInv, TypeOK, arrived
<1>2. Layout'
  BY DEF ReaderInv, Layout, Lies, From, arrived
<1>3. InHand'
  BY DEF InHand, Inside, Continue, arrived
<1>4. Knows(mode, held)'
  BY DEF Continue
<1> QED
  BY <1>1, <1>2, <1>3, <1>4 DEF ReaderInv

LEMMA Ended ==
    ASSUME ReaderInv, UNCHANGED <<arrived, eof, start, frames, streak>>, Close
    PROVE  ReaderInv'
<1>1. TypeOK'
  BY DEF ReaderInv, TypeOK, Close, arrived, Modes
<1>2. Layout'
  BY DEF ReaderInv, Layout, Lies, From, arrived
<1>3. InHand' /\ Knows(mode, held)'
  BY DEF InHand, Inside, Knows, Close
<1> QED
  BY <1>1, <1>2, <1>3 DEF ReaderInv

-----------------------------------------------------------------------------
(* Every step preserves the invariant. *)

LEMMA ReaderInit == Init => ReaderInv
<1> SUFFICES ASSUME Init PROVE ReaderInv
  OBVIOUS
<1>1. TypeOK
  <2>1. last \in [as : {"none", "frame", "reply", "text", "drop"}, from : Nat, upto : Nat]
    BY DEF Init, NoRecord
  <2>2. <<>> \in Seq(Catalogue) /\ <<>> \in Seq(Byte) /\ <<>> \in Seq(Nat) /\ Len(<<>>) = 0
    BY EmptySeq
  <2>3. 0 <= MaxPieces /\ 0 \in 0..ResyncLimit
    BY ReaderAssumption
  <2> QED
    <3>1. sent \in Seq(Catalogue) /\ Len(sent) <= MaxPieces
      BY <2>2, <2>3 DEF Init
    <3>2. stream \in Seq(Byte) /\ ends \in Seq(Nat) /\ eof \in BOOLEAN
      BY <2>2 DEF Init
    <3>3. pos \in 0..Len(stream) /\ start \in 0..pos /\ mode \in Modes
      BY <2>2 DEF Init, Modes
    <3>4. held \in Seq(Byte) /\ Len(held) <= HeaderSize
      BY <2>2 DEF Init, HeaderSize
    <3>5. frames \in Nat /\ streak \in 0..ResyncLimit
      BY <2>3 DEF Init
    <3> QED
      BY <3>1, <3>2, <3>3, <3>4, <3>5, <2>1 DEF TypeOK
<1>2. Layout
  BY DEF Init, Layout, From
<1> QED
  BY <1>1, <1>2 DEF Init, ReaderInv, InHand, Inside, Knows

LEMMA ArriveInv ==
    ASSUME ReaderInv, NEW p \in Catalogue, Arrive(p)
    PROVE  ReaderInv'
<1> SUFFICES ASSUME NEW n \in Nat, n = Len(sent) PROVE ReaderInv'
  BY DEF ReaderInv, TypeOK
<1>0. /\ sent \in Seq(Catalogue) /\ n \in Nat /\ stream \in Seq(Byte) /\ ends \in Seq(Nat)
      /\ Len(stream) \in Nat /\ p.bytes \in Seq(Byte) /\ Len(p.bytes) \in Nat
  BY PieceBytes DEF ReaderInv, TypeOK
<1>1. /\ sent' \in Seq(Catalogue) /\ Len(sent') = n + 1 /\ sent'[n + 1] = p
      /\ \A i \in 1..n : sent'[i] = sent[i]
  BY <1>0 DEF Arrive
<1>2. /\ stream' \in Seq(Byte) /\ Len(stream') = Len(stream) + Len(p.bytes)
      /\ \A i \in 1..Len(stream) + Len(p.bytes) :
            stream'[i] = IF i <= Len(stream) THEN stream[i] ELSE p.bytes[i - Len(stream)]
  BY <1>0, ConcatProperties DEF Arrive
<1>2a. \A i \in 1..Len(stream) : stream'[i] = stream[i]
  <2> TAKE i \in 1..Len(stream)
  <2>1. i \in 1..Len(stream) + Len(p.bytes) /\ i <= Len(stream)
    BY <1>0
  <2> QED
    BY <2>1, <1>2
<1>3. Len(ends) = n
  BY DEF ReaderInv, Layout
<1>4. /\ ends' \in Seq(Nat) /\ Len(ends') = n + 1 /\ ends'[n + 1] = Len(stream')
      /\ \A i \in 1..n : ends'[i] = ends[i]
  BY <1>0, <1>2, <1>3 DEF Arrive
<1>5. \A i \in 1..n + 1 : From(i)' = From(i)
  <2> TAKE i \in 1..n + 1
  <2>1. CASE i = 1
    BY <2>1 DEF From
  <2>2. CASE i # 1
    <3>1. i - 1 \in 1..n
      BY <2>2
    <3> QED
      BY <3>1, <2>2, <1>4 DEF From
  <2> QED
    BY <2>1, <2>2
<1>6. From(n + 1) = Len(stream)
  BY DEF ReaderInv, Layout
<1>7. ASSUME NEW i \in 1..n PROVE Lies(i)'
  <2>1. Lies(i)
    BY DEF ReaderInv, Layout
  <2>2. sent'[i] = sent[i] /\ ends'[i] = ends[i] /\ From(i)' = From(i)
    BY <1>0, <1>1, <1>4, <1>5
  <2>3. sent[i].bytes \in Seq(Byte) /\ Len(sent[i].bytes) \in Nat
    BY <1>0, PieceBytes
  <2>4. ASSUME NEW j \in 1..Len(sent[i].bytes)
        PROVE  stream'[From(i) + j] = sent[i].bytes[j]
    <3>1. From(i) + j \in 1..Len(stream)
      BY <2>1, <2>3, <1>0 DEF Lies
    <3> QED
      BY <3>1, <2>1, <1>2a DEF Lies
  <2> QED
    BY <2>1, <2>2, <2>3, <2>4, <1>0, <1>2 DEF Lies
<1>8. Lies(n + 1)'
  <2>1. From(n + 1)' = Len(stream)
    BY <1>0, <1>5, <1>6
  <2>2. \A j \in 1..Len(p.bytes) : stream'[Len(stream) + j] = p.bytes[j]
    <3>1. ASSUME NEW j \in 1..Len(p.bytes)
          PROVE  stream'[Len(stream) + j] = p.bytes[j]
      <4>1. Len(stream) + j \in 1..Len(stream) + Len(p.bytes)
            /\ ~(Len(stream) + j <= Len(stream)) /\ Len(stream) + j - Len(stream) = j
        BY <1>0
      <4> QED
        BY <4>1, <1>2
    <3> QED
      BY <3>1
  <2> QED
    <3>1. ends'[n + 1] = Len(stream) + Len(p.bytes) /\ ends'[n + 1] <= Len(stream')
      BY <1>0, <1>2, <1>4
    <3> QED
      BY <3>1, <2>1, <2>2, <1>0, <1>1 DEF Lies
<1>9. Layout'
  <2>1. From(n + 2)' = ends'[n + 1]
    BY <1>0 DEF From
  <2>2. \A i \in 1..n + 1 : Lies(i)'
    BY <1>0, <1>7, <1>8
  <2>3. Len(sent)' = n + 1 /\ Len(ends)' = n + 1 /\ (Len(sent) + 1)' = n + 2
    BY <1>0, <1>1, <1>4
  <2>4. Len(stream)' = From(n + 2)'
    BY <2>1, <1>4
  <2> QED
    BY <2>2, <2>3, <2>4 DEF Layout
<1>10. TypeOK'
  <2>1. /\ eof' = eof /\ pos' = pos /\ mode' = mode /\ start' = start /\ held' = held
        /\ frames' = frames /\ streak' = streak /\ last' = last /\ n < MaxPieces
    BY DEF Arrive
  <2>2. Len(sent') <= MaxPieces
    BY <2>1, <1>0, <1>1, ReaderAssumption
  <2>3. pos' \in 0..Len(stream')
    BY <2>1, <1>0, <1>2 DEF ReaderInv, TypeOK
  <2> QED
    BY <2>1, <2>2, <2>3, <1>1, <1>2, <1>4 DEF ReaderInv, TypeOK
<1>11. InHand'
  <2> SUFFICES ASSUME Inside
               PROVE  \A j \in 1..Len(held) : held[j] = stream'[start + j]
    BY DEF ReaderInv, InHand, Inside, Arrive
  <2>1. Reads(held) /\ Len(held) \in Nat /\ start \in Nat
    BY HeldReads
  <2>2. \A j \in 1..Len(held) : start + j \in 1..Len(stream)
    BY <2>1, <1>0 DEF Reads
  <2>3. ASSUME NEW j \in 1..Len(held) PROVE held[j] = stream'[start + j]
    <3>1. held[j] = stream[start + j]
      BY <2>1 DEF Reads
    <3> QED
      BY <3>1, <2>2, <1>2a
  <2> QED
    BY <2>3
<1>12. Knows(mode, held)'
  BY DEF ReaderInv, Arrive
<1> QED
  BY <1>9, <1>10, <1>11, <1>12 DEF ReaderInv

LEMMA PeerClosesInv ==
    ASSUME ReaderInv, PeerCloses
    PROVE  ReaderInv'
<1>1. TypeOK'
  BY DEF ReaderInv, TypeOK, PeerCloses, arrived
<1>2. Layout'
  BY DEF ReaderInv, PeerCloses, Layout, Lies, From, arrived
<1>3. InHand'
  BY DEF ReaderInv, PeerCloses, InHand, Inside, arrived
<1> QED
  BY <1>1, <1>2, <1>3 DEF ReaderInv, PeerCloses, Knows

LEMMA ReadFirstInv ==
    ASSUME ReaderInv, ReadFirst
    PROVE  ReaderInv'
<1>1. pos \in Nat /\ pos + 1 <= Len(stream) /\ stream \in Seq(Byte)
  BY DEF ReaderInv, TypeOK, ReadFirst, CanRead
<1>2. /\ Ahead(1) \in Seq(Byte) /\ Len(Ahead(1)) = 1
      /\ \A j \in 1..1 : Ahead(1)[j] = stream[pos + j]
  BY <1>1, Slice DEF Ahead
<1>3. /\ Continue("prefix", Ahead(1), pos + 1) /\ start' = pos
      /\ UNCHANGED <<arrived, eof, frames>> /\ streak' = streak
  BY DEF ReadFirst
<1>4. streak' \in 0..ResyncLimit
  BY <1>3 DEF ReaderInv, TypeOK
<1>5. Knows("prefix", Ahead(1)) /\ "prefix" \in Modes \ {"boundary", "closed"}
  BY <1>2 DEF Knows, Modes
<1> HIDE DEF Ahead
<1>6. Len(Ahead(1)) > 0 /\ Len(Ahead(1)) <= HeaderSize /\ pos + 1 = start' + Len(Ahead(1))
  BY <1>1, <1>2, <1>3 DEF HeaderSize
<1>7. \A j \in 1..Len(Ahead(1)) : Ahead(1)[j] = stream[start' + j]
  BY <1>2, <1>3
<1> QED
  BY <1>1, <1>2, <1>3, <1>4, <1>5, <1>6, <1>7, Continued, pos + 1 \in Nat

\* A step inside a record that goes on with what it has read.
LEMMA Goes ==
    ASSUME ReaderInv, Inside, UNCHANGED <<arrived, eof, start, frames>>,
           streak' \in 0..ResyncLimit,
           NEW m \in Modes \ {"boundary", "closed"}, NEW h, Reads(h),
           Len(h) > 0, Len(h) <= HeaderSize, NEW p, p = start + Len(h),
           Continue(m, h, p), Knows(m, h)
    PROVE  ReaderInv'
<1>1. start \in Nat /\ start' = start
  BY HeldReads
<1>2. /\ h \in Seq(Byte) /\ start + Len(h) <= Len(stream)
      /\ \A j \in 1..Len(h) : h[j] = stream[start' + j]
  BY <1>1 DEF Reads
<1>3. p \in Nat /\ p <= Len(stream) /\ p = start' + Len(h)
  BY <1>1, <1>2
<1> QED
  BY <1>1, <1>2, <1>3, Continued

LEMMA WantedSome ==
    ASSUME ReaderInv, mode \notin {"closed"}
    PROVE  /\ Wanted \in Nat
           /\ mode = "prefix" => Wanted = 2 /\ Len(held) = 1
           /\ mode = "short" => Wanted = StrayReplyLength(held) - 3 /\ Len(held) = 3
                                /\ StrayReplyLength(held) \in 4..8
           /\ mode = "header" => Wanted = 5 /\ Len(held) = 3
           /\ mode \in {"rejected", "accepted"} =>
                Wanted = StrayReplyLength(held) - 8 /\ Len(held) = 8
                /\ StrayReplyLength(held) \in Nat /\ StrayReplyLength(held) > 8
           /\ mode = "payload" => Wanted = PayloadLen(held) /\ Len(held) = 8
<1>0. held \in Seq(Byte) /\ Knows(mode, held) /\ mode \in Modes
  BY DEF ReaderInv, TypeOK
<1>1. CASE mode = "prefix"
  BY <1>0, <1>1 DEF Wanted, Knows, PrefixSize
<1>2. CASE mode = "short"
  <2>1. Len(held) = 3 /\ StrayReplyLength(held) \in 1..8 /\ Wanted = StrayReplyLength(held) - 3
    BY <1>0, <1>2 DEF Wanted, Knows, PrefixSize, HeaderSize
  <2>2. StrayReplyLength(held) > 3
    <3>1. Len(held) >= PrefixSize
      BY <2>1 DEF PrefixSize
    <3>2. StrayReplyLength(held) # 0
      BY <2>1
    <3>3. StrayReplyLength(held) > PrefixSize
      BY <3>1, <3>2, <1>0, ReplyLengthRange
    <3> QED
      BY <3>3 DEF PrefixSize
  <2> QED
    BY <2>1, <2>2, <1>2
<1>3. CASE mode = "header"
  BY <1>0, <1>3 DEF Wanted, Knows, PrefixSize, HeaderSize
<1>4. CASE mode \in {"rejected", "accepted"}
  <2>1. Len(held) = 8 /\ StrayReplyLength(held) > 8 /\ Wanted = StrayReplyLength(held) - 8
    BY <1>0, <1>4 DEF Wanted, Knows, HeaderSize
  <2>2. StrayReplyLength(held) \in Nat
    <3>1. Len(held) >= PrefixSize
      BY <2>1 DEF PrefixSize
    <3> QED
      BY <3>1, <2>1, <1>0, ReplyLengthRange
  <2> QED
    BY <2>1, <2>2, <1>4
<1>5. CASE mode = "payload"
  <2>1. Len(held) = 8 /\ ~HeaderError(held) /\ Wanted = PayloadLen(held)
    BY <1>0, <1>5 DEF Wanted, Knows, HeaderSize
  <2>2. PayloadLen(held) \in Nat
    <3>1. Len(held) >= HeaderSize
      BY <2>1 DEF HeaderSize
    <3> QED
      BY <3>1, <2>1, <1>0, PayloadLenInt
  <2> QED
    BY <2>1, <2>2, <1>5
<1>6. CASE mode \in {"boundary", "at", "discard", "resync"}
  BY <1>6 DEF Wanted
<1> QED
  BY <1>0, <1>1, <1>2, <1>3, <1>4, <1>5, <1>6 DEF Modes

\* A reply that is handed over whole leaves the stream behind it.
LEMMA TakesWanted ==
    ASSUME ReaderInv, Inside, CanRead(Wanted)
    PROVE  pos + Wanted \in start..Len(stream)
<1>1. Wanted \in Nat
  BY WantedSome DEF Inside
<1> QED
  BY <1>1 DEF CanRead, ReaderInv, TypeOK

LEMMA StreakStays ==
    ASSUME ReaderInv
    PROVE  streak \in 0..ResyncLimit /\ frames \in Nat
BY DEF ReaderInv, TypeOK

LEMMA ReadPrefixInv ==
    ASSUME ReaderInv, ReadPrefix
    PROVE  ReaderInv'
<1> DEFINE h == held \o Ahead(Wanted)
<1>1. Inside /\ mode = "prefix" /\ CanRead(Wanted)
  BY DEF ReadPrefix, Inside
<1>2. Wanted = 2 /\ Len(held) = 1 /\ Wanted \in Nat
  BY <1>1, WantedSome
<1>3. Reads(h) /\ Len(h) = Len(held) + Wanted /\ start + Len(h) = pos + Wanted
  BY <1>1, <1>2, ReadOn
<1>4. Continue(AfterPrefix(h), h, pos + Wanted) /\ UNCHANGED <<arrived, eof, start, frames, streak>>
  BY DEF ReadPrefix
<1> HIDE DEF h
<1>5. Len(h) = PrefixSize
  BY <1>2, <1>3 DEF PrefixSize
<1>6. Knows(AfterPrefix(h), h) /\ AfterPrefix(h) \in Modes \ {"boundary", "closed"}
  BY <1>5 DEF AfterPrefix, Knows, Modes
<1>7. Len(h) > 0 /\ Len(h) <= HeaderSize
  BY <1>5 DEF PrefixSize, HeaderSize
<1> QED
  BY <1>1, <1>3, <1>4, <1>6, <1>7, Goes, StreakStays

LEMMA ReadShortInv ==
    ASSUME ReaderInv, ReadShort
    PROVE  ReaderInv'
<1>1. Inside /\ mode = "short" /\ CanRead(Wanted) /\ UNCHANGED <<arrived, eof, start, frames, streak>>
  BY DEF ReadShort, Inside
<1>2. CASE Finish("reply", pos + Wanted)
  BY <1>1, <1>2, TakesWanted, StreakStays, Finished
<1>3. CASE Continue("header", held, pos)
  <2>1. Knows("header", held)
    BY <1>1 DEF ReaderInv, Knows
  <2>2. Reads(held) /\ Len(held) > 0 /\ pos = start + Len(held)
    BY <1>1, HeldReads
  <2>3. Len(held) <= HeaderSize /\ "header" \in Modes \ {"boundary", "closed"}
    BY DEF ReaderInv, TypeOK, Modes
  <2> QED
    BY <2>1, <2>2, <2>3, <1>1, <1>3, Goes, StreakStays
<1> QED
  BY <1>2, <1>3 DEF ReadShort

LEMMA ReadHeaderInv ==
    ASSUME ReaderInv, ReadHeader
    PROVE  ReaderInv'
<1> DEFINE h == held \o Ahead(Wanted)
<1>1. Inside /\ mode = "header" /\ CanRead(Wanted) /\ UNCHANGED <<arrived, eof, start, frames>>
  BY DEF ReadHeader, Inside
<1>2. Wanted = 5 /\ Len(held) = 3 /\ Wanted \in Nat
  BY <1>1, WantedSome
<1>3. Reads(h) /\ Len(h) = Len(held) + Wanted /\ start + Len(h) = pos + Wanted
  BY <1>1, <1>2, ReadOn
<1>4. Len(h) = HeaderSize /\ Len(h) > 0
  BY <1>2, <1>3 DEF HeaderSize
<1>5. /\ streak' = streak \/ (MayResync /\ streak' = streak + 1)
      /\ \/ HeaderError(h) /\ StrayReplyLength(h) > HeaderSize
            /\ Continue("rejected", h, pos + Wanted)
         \/ Continue("resync", h, pos + Wanted)
         \/ Close /\ streak' = streak
         \/ ~HeaderError(h) /\ StrayReplyLength(h) > HeaderSize
            /\ HeaderSize + PayloadLen(h) > StrayReplyLength(h)
            /\ Continue("accepted", h, pos + Wanted)
         \/ ~HeaderError(h) /\ Continue("payload", h, pos + Wanted)
  BY DEF ReadHeader
<1> HIDE DEF h
<1>6. streak' \in 0..ResyncLimit
  BY <1>5, StreakStays, ReaderAssumption DEF MayResync
<1>7. CASE Close /\ streak' = streak
  BY <1>7, <1>1, Ended
<1>8. ASSUME NEW m \in Modes \ {"boundary", "closed"}, Knows(m, h), Continue(m, h, pos + Wanted)
      PROVE  ReaderInv'
  BY <1>8, <1>1, <1>3, <1>4, <1>6, Goes
<1>9. {"rejected", "resync", "accepted", "payload"} \subseteq Modes \ {"boundary", "closed"}
  BY DEF Modes
<1>10. /\ HeaderError(h) /\ StrayReplyLength(h) > HeaderSize => Knows("rejected", h)
       /\ Knows("resync", h)
       /\ ~HeaderError(h) => Knows("payload", h)
       /\ ~HeaderError(h) /\ StrayReplyLength(h) > HeaderSize
          /\ HeaderSize + PayloadLen(h) > StrayReplyLength(h) => Knows("accepted", h)
  BY <1>4 DEF Knows
<1> QED
  BY <1>5, <1>7, <1>8, <1>9, <1>10

LEMMA ReadRejectedInv ==
    ASSUME ReaderInv, ReadRejected
    PROVE  ReaderInv'
<1>1. Inside /\ CanRead(Wanted) /\ UNCHANGED <<arrived, eof, start, frames, streak>>
  BY DEF ReadRejected, Inside
<1>2. CASE Finish("reply", pos + Wanted)
  BY <1>1, <1>2, TakesWanted, StreakStays, Finished
<1>3. CASE Close
  BY <1>1, <1>3, Ended
<1> QED
  BY <1>2, <1>3 DEF ReadRejected

\* Going on in another mode with the same bytes in hand.
LEMMA GoesSame ==
    ASSUME ReaderInv, Inside, UNCHANGED <<arrived, eof, start, frames, streak>>,
           NEW m \in Modes \ {"boundary", "closed"}, Continue(m, held, pos), Knows(m, held)
    PROVE  ReaderInv'
<1>1. Reads(held) /\ Len(held) > 0 /\ pos = start + Len(held)
  BY HeldReads
<1>2. Len(held) <= HeaderSize
  BY DEF ReaderInv, TypeOK
<1> QED
  BY <1>1, <1>2, Goes, StreakStays

LEMMA ReadAcceptedInv ==
    ASSUME ReaderInv, ReadAccepted
    PROVE  ReaderInv'
<1>1. Inside /\ mode = "accepted" /\ CanRead(Wanted) /\ UNCHANGED <<arrived, eof, start, frames, streak>>
  BY DEF ReadAccepted, Inside
<1>2. CASE Finish("reply", pos + Wanted)
  BY <1>1, <1>2, TakesWanted, StreakStays, Finished
<1>3. CASE Continue("payload", held, pos)
  <2>1. Knows("payload", held) /\ "payload" \in Modes \ {"boundary", "closed"}
    BY <1>1 DEF ReaderInv, Knows, Modes
  <2> QED
    BY <2>1, <1>1, <1>3, GoesSame
<1> QED
  BY <1>2, <1>3 DEF ReadAccepted

LEMMA ReadPayloadInv ==
    ASSUME ReaderInv, ReadPayload
    PROVE  ReaderInv'
<1>1. Inside /\ CanRead(Wanted) /\ UNCHANGED <<arrived, eof, start>>
      /\ Finish("frame", pos + Wanted)
  BY DEF ReadPayload, Inside
<1>2. frames' \in Nat /\ streak' \in 0..ResyncLimit
  BY StreakStays, ReaderAssumption DEF ReadPayload
<1> QED
  BY <1>1, <1>2, TakesWanted, Finished

LEMMA TimeOutInv ==
    ASSUME ReaderInv, TimeOut
    PROVE  ReaderInv'
<1>1. Inside /\ UNCHANGED <<arrived, eof, start, frames, streak>>
  BY DEF TimeOut, Inside
<1>2. CASE Close
  BY <1>1, <1>2, Ended
<1>3. CASE mode \in {"rejected", "accepted"} /\ Continue("discard", held, pos)
  <2>1. Knows("discard", held) /\ "discard" \in Modes \ {"boundary", "closed"}
    BY <1>3 DEF ReaderInv, Knows, Modes
  <2> QED
    BY <2>1, <1>1, <1>3, GoesSame
<1> QED
  BY <1>2, <1>3 DEF TimeOut

LEMMA DiscardInv ==
    ASSUME ReaderInv, DiscardAvailable
    PROVE  ReaderInv'
<1>1. UNCHANGED <<arrived, eof, start, frames, streak>> /\ Finish("drop", Len(stream))
  BY DEF DiscardAvailable
<1>2. Len(stream) \in start..Len(stream)
  BY DEF ReaderInv, TypeOK
<1> QED
  BY <1>1, <1>2, StreakStays, Finished

\* take_available: the record and everything behind it.
Junk == held \o Ahead(Len(stream) - pos)

LEMMA JunkIsRest ==
    ASSUME ReaderInv, Inside
    PROVE  /\ Reads(Junk) /\ start + Len(Junk) = Len(stream)
           /\ Len(Junk) \in Nat /\ start \in Nat /\ Len(stream) \in Nat
<1>1. pos \in Nat /\ Len(stream) \in Nat /\ pos <= Len(stream) /\ start \in Nat
  BY DEF ReaderInv, TypeOK
<1>2. Len(stream) - pos \in Nat /\ CanRead(Len(stream) - pos)
      /\ pos + (Len(stream) - pos) = Len(stream)
  BY <1>1 DEF CanRead
<1>3. Reads(Junk) /\ start + Len(Junk) = pos + (Len(stream) - pos)
  BY <1>2, ReadOn DEF Junk
<1>4. Len(Junk) \in Nat
  BY <1>3 DEF Reads
<1> QED
  BY <1>1, <1>2, <1>3, <1>4

LEMMA ResyncInv ==
    ASSUME ReaderInv, Resync
    PROVE  ReaderInv'
<1>1. Inside /\ UNCHANGED <<arrived, eof, start, frames, streak>>
  BY DEF Resync, Inside
<1>2. start + Len(Junk) = Len(stream) /\ Len(Junk) \in Nat /\ start \in Nat /\ Len(stream) \in Nat
  BY <1>1, JunkIsRest
<1>3. CASE Finish("drop", Len(stream))
  <2>1. Len(stream) \in start..Len(stream)
    BY <1>2
  <2> QED
    BY <2>1, <1>1, <1>3, StreakStays, Finished
<1>4. ASSUME NEW o \in TrailingFrames(Junk), Finish("drop", Len(stream) - Len(Junk) + o)
      PROVE  ReaderInv'
  <2>1. o \in 1..Len(Junk) - HeaderSize
    BY DEF TrailingFrames
  <2>2. Len(stream) - Len(Junk) + o \in start..Len(stream)
    BY <2>1, <1>2 DEF HeaderSize
  <2> QED
    BY <2>2, <1>1, <1>4, StreakStays, Finished
<1> QED
  BY <1>3, <1>4 DEF Resync, Junk

LEMMA AtStopInv ==
    ASSUME ReaderInv, AtStop
    PROVE  ReaderInv'
<1>1. UNCHANGED <<arrived, eof, start, frames, streak>>
  BY DEF AtStop
<1>2. pos \in Nat /\ start \in Nat /\ start <= pos /\ pos <= Len(stream) /\ Len(stream) \in Nat
  BY DEF ReaderInv, TypeOK
<1>3. PICK n \in AtStops :
        Finish("text", IF HeaderEndsAt(n) THEN pos + n - HeaderSize ELSE pos + n)
  BY DEF AtStop
<1>4. n \in 1..Len(stream) - pos /\ (HeaderEndsAt(n) => n >= HeaderSize)
  BY DEF AtStops, HeaderEndsAt
<1> DEFINE u == IF HeaderEndsAt(n) THEN pos + n - HeaderSize ELSE pos + n
<1>5. u \in start..Len(stream)
  BY <1>2, <1>4 DEF HeaderSize
<1>6. Finish("text", u)
  BY <1>3
<1> HIDE DEF u
<1> QED
  BY <1>1, <1>5, <1>6, StreakStays, Finished

LEMMA AtIdleInv ==
    ASSUME ReaderInv, AtIdle
    PROVE  ReaderInv'
<1>1. UNCHANGED <<arrived, eof, start, frames, streak>> /\ Finish("text", Len(stream))
  BY DEF AtIdle
<1>2. Len(stream) \in start..Len(stream)
  BY DEF ReaderInv, TypeOK
<1> QED
  BY <1>1, <1>2, StreakStays, Finished

LEMMA ReaderStep == ReaderInv /\ [Next]_vars => ReaderInv'
<1> SUFFICES ASSUME ReaderInv, [Next]_vars PROVE ReaderInv'
  OBVIOUS
<1>1. ASSUME NEW p \in Catalogue, Arrive(p) PROVE ReaderInv'
  BY <1>1, ArriveInv
<1>2. CASE PeerCloses
  BY <1>2, PeerClosesInv
<1>3. CASE ReadFirst \/ ReadPrefix \/ ReadShort \/ ReadHeader
  BY <1>3, ReadFirstInv, ReadPrefixInv, ReadShortInv, ReadHeaderInv
<1>4. CASE ReadRejected \/ ReadAccepted \/ ReadPayload
  BY <1>4, ReadRejectedInv, ReadAcceptedInv, ReadPayloadInv
<1>5. CASE TimeOut \/ DiscardAvailable \/ Resync
  BY <1>5, TimeOutInv, DiscardInv, ResyncInv
<1>6. CASE AtStop \/ AtIdle
  BY <1>6, AtStopInv, AtIdleInv
<1>7. CASE EofEnds
  BY <1>7, Ended DEF EofEnds
<1>8. CASE UNCHANGED vars
  <2>1. TypeOK'
    BY <1>8 DEF ReaderInv, TypeOK, vars
  <2>2. Layout'
    BY <1>8 DEF ReaderInv, vars, Layout, Lies, From
  <2>3. InHand' /\ Knows(mode, held)'
    BY <1>8 DEF ReaderInv, InHand, Inside, vars
  <2> QED
    BY <2>1, <2>2, <2>3 DEF ReaderInv
<1> QED
  BY <1>1, <1>2, <1>3, <1>4, <1>5, <1>6, <1>7, <1>8 DEF Next, Read

\* The inductive invariant: whatever arrives and wherever the reader stands, the
\* stream is its pieces laid end to end and the bytes in hand are the record's
\* first, as many as the await needs (_read_loop's unread gives all of them back).
THEOREM ReaderInvariant == Spec => []ReaderInv
<1>1. Spec => []ReaderInv
  BY ReaderInit, ReaderStep, PTL DEF Spec
<1> QED
  BY <1>1

\* The reader never holds more than a header, never counts more
\* resynchronisations than _HEADER_RESYNC_LIMIT and never moves outside the bytes
\* that arrived.
THEOREM ReaderTyped == Spec => []TypeOK
BY ReaderInvariant, PTL DEF ReaderInv

-----------------------------------------------------------------------------
(* The course of a record that begins with a piece                          *)

\* A cut-off reply of a header's length or more with nothing behind it.
LastCut(i) ==
    sent[i].kind = "cut" /\ i = Len(sent) /\ Len(sent[i].bytes) >= HeaderSize

\* The awaits the loop can stand at when piece i is what it is reading.
Course(i, m) ==
    /\ sent[i].kind = "frame" =>
        m \in {"prefix", "at", "short", "header", "accepted", "payload"}
    /\ sent[i].kind = "reply" =>
        /\ m \in {"prefix", "short", "header", "rejected", "accepted"}
        /\ m = "short" => Len(sent[i].bytes) <= HeaderSize
        /\ m \in {"header", "rejected", "accepted"} => Len(sent[i].bytes) > HeaderSize
    /\ sent[i].kind \in {"text", "bare"} => m \in {"prefix", "at"}
    /\ LastCut(i) => m \in {"prefix", "header", "rejected", "accepted", "discard"}

OnCourse ==
    \A i \in 1..Len(sent) :
        Starts(i) /\ mode # "boundary" /\ ~(mode = "closed" /\ eof) => Course(i, mode)

LEMMA ReplyLengthAtLeast ==
    ASSUME NEW b, StrayReplyLength(b) # 0
    PROVE  StrayReplyLength(b) \in Nat /\ StrayReplyLength(b) >= 6 /\ b[2] \in {3, 4}
<1>1. LooksLikeStrayReply(b) /\ StrayReplyLength(b) = 3 + b[3] + 2
  BY DEF StrayReplyLength
<1>2. b[2] \in {3, 4} /\ b[3] \in 1..252
  BY <1>1 DEF LooksLikeStrayReply, RtuReadFcodes, MaxByteCount
<1> QED
  BY <1>1, <1>2

LEMMA FrameShape ==
    ASSUME NEW p \in Catalogue, p.kind = "frame"
    PROVE  /\ Len(p.bytes) >= 8 /\ ~HeaderError(p.bytes)
           /\ Len(p.bytes) = 8 + PayloadLen(p.bytes)
BY CatalogueAssumption DEF HeaderSize

LEMMA ReplyShape ==
    ASSUME NEW p \in Catalogue, p.kind = "reply"
    PROVE  /\ StrayReplyLength(p.bytes) = Len(p.bytes) /\ Len(p.bytes) >= 6
           /\ p.bytes[2] \in {3, 4} /\ NotAFrame(p.bytes)
<1>1. StrayReplyLength(p.bytes) = Len(p.bytes) /\ NotAFrame(p.bytes)
  BY CatalogueAssumption
<1>2. Len(p.bytes) # 0
  BY PieceBytes
<1> QED
  BY <1>1, <1>2, ReplyLengthAtLeast

LEMMA TextShape ==
    ASSUME NEW p \in Catalogue, p.kind \in {"text", "bare"}
    PROVE  Len(p.bytes) >= 3 /\ SubSeq(p.bytes, 1, 3) = AT
BY CatalogueAssumption DEF PrefixSize

LEMMA CutShape ==
    ASSUME NEW p \in Catalogue, p.kind = "cut", Len(p.bytes) >= HeaderSize
    PROVE  /\ Len(p.bytes) >= 8 /\ StrayReplyLength(p.bytes) > Len(p.bytes)
           /\ StrayReplyLength(p.bytes) \in Nat
           /\ p.bytes[2] \in {3, 4} /\ NotAFrame(p.bytes)
<1>1. Len(p.bytes) \in Nat /\ Len(p.bytes) >= 8
  BY PieceBytes DEF HeaderSize
<1>2. Len(p.bytes) >= PrefixSize
  BY <1>1 DEF PrefixSize
<1>3. StrayReplyLength(p.bytes) > Len(p.bytes) /\ NotAFrame(p.bytes)
  BY <1>2, CatalogueAssumption
<1>4. StrayReplyLength(p.bytes) # 0
  BY <1>1, <1>3
<1> QED
  BY <1>1, <1>3, <1>4, ReplyLengthAtLeast

\* A whole piece has arrived when its first byte has.
LEMMA PieceIsThere ==
    ASSUME ReaderInv, NEW i, Starts(i)
    PROVE  /\ i \in 1..Len(sent) /\ sent[i] \in Catalogue /\ start = From(i)
           /\ start \in Nat /\ Len(sent[i].bytes) \in Nat \ {0}
           /\ sent[i].bytes \in Seq(Byte) /\ Len(stream) \in Nat
           /\ ends[i] = start + Len(sent[i].bytes)
           /\ start + Len(sent[i].bytes) <= Len(stream)
<1>1. i \in 1..Len(sent) /\ start = From(i) /\ Lies(i) /\ sent \in Seq(Catalogue)
      /\ Len(stream) \in Nat
  BY DEF Starts, ReaderInv, Layout, TypeOK
<1>2. sent[i] \in Catalogue
  BY <1>1
<1> QED
  BY <1>1, <1>2, PieceBytes DEF Lies

LEMMA PieceAffords ==
    ASSUME ReaderInv, Inside, NEW i, Starts(i), NEW w \in Nat,
           Len(held) + w <= Len(sent[i].bytes)
    PROVE  CanRead(w)
<1>1. /\ start \in Nat /\ Len(sent[i].bytes) \in Nat /\ Len(stream) \in Nat
      /\ start + Len(sent[i].bytes) <= Len(stream)
  BY PieceIsThere
<1>2. pos = start + Len(held) /\ Len(held) \in Nat
  BY HeldReads
<1> QED
  BY <1>1, <1>2 DEF CanRead

\* The last piece ends where the stream does.
LEMMA LastEnds ==
    ASSUME ReaderInv, NEW i, Starts(i), i = Len(sent)
    PROVE  Len(stream) = start + Len(sent[i].bytes)
<1>1. ends[i] = start + Len(sent[i].bytes) /\ i \in 1..Len(sent)
  BY PieceIsThere
<1>2. Len(stream) = From(i + 1) /\ i \in Nat \ {0}
  BY <1>1 DEF ReaderInv, Layout
<1>3. From(i + 1) = ends[i]
  BY <1>2 DEF From
<1> QED
  BY <1>1, <1>2, <1>3

\* Three bytes of a piece tell its reply length, eight its header.
LEMMA PieceTells ==
    ASSUME ReaderInv, NEW i, Starts(i), NEW h, Reads(h), Len(h) >= 3,
           Len(h) <= Len(sent[i].bytes)
    PROVE  /\ StrayReplyLength(h) = StrayReplyLength(sent[i].bytes)
           /\ h[2] = sent[i].bytes[2]
           /\ Len(h) >= 8 => /\ PayloadLen(h) = PayloadLen(sent[i].bytes)
                             /\ HeaderError(h) <=> HeaderError(sent[i].bytes)
<1>1. \A j \in 1..Len(h) : h[j] = sent[i].bytes[j]
  BY ReadsPiece
<1>2. Len(h) \in Nat
  BY DEF Reads
<1>3. h[2] = sent[i].bytes[2] /\ h[3] = sent[i].bytes[3]
  BY <1>1, <1>2
<1>4. Len(h) >= 8 => h[5] = sent[i].bytes[5] /\ h[6] = sent[i].bytes[6] /\ h[8] = sent[i].bytes[8]
  BY <1>1, <1>2
<1> QED
  BY <1>3, <1>4, SamePrefix, SameHeader

Goal(i) == mode' = "boundary" \/ Course(i, mode')

LEMMA PrefixCourse ==
    ASSUME ReaderInv, ReadPrefix, NEW i, Starts(i), Course(i, mode)
    PROVE  Goal(i)
<1> DEFINE h == held \o Ahead(Wanted)
<1>1. Inside /\ mode = "prefix" /\ CanRead(Wanted) /\ mode' = AfterPrefix(h)
  BY DEF ReadPrefix, Inside, Continue
<1>2. Wanted = 2 /\ Len(held) = 1 /\ Wanted \in Nat
  BY <1>1, WantedSome
<1>3. Reads(h) /\ Len(h) = 3
  BY <1>1, <1>2, ReadOn
<1> HIDE DEF h
<1>4. sent[i] \in Catalogue /\ Len(sent[i].bytes) \in Nat
  BY PieceIsThere
<1>5. mode' \in {"at", "short", "header"}
  BY <1>1 DEF AfterPrefix
<1>6. ASSUME h[2] \in {3, 4}
      PROVE  mode' = IF StrayReplyLength(h) \in 1..HeaderSize THEN "short" ELSE "header"
  <2>1. h # AT
    BY <1>6 DEF AT
  <2> QED
    BY <2>1, <1>1 DEF AfterPrefix
<1>7. CASE sent[i].kind = "frame"
  BY <1>5, <1>7 DEF Course, Goal, LastCut
<1>8. CASE sent[i].kind = "reply"
  <2>1. /\ StrayReplyLength(h) = Len(sent[i].bytes) /\ h[2] \in {3, 4}
        /\ Len(sent[i].bytes) >= 6
    <3>1. /\ StrayReplyLength(sent[i].bytes) = Len(sent[i].bytes)
          /\ Len(sent[i].bytes) >= 6 /\ sent[i].bytes[2] \in {3, 4}
      BY <1>4, <1>8, ReplyShape
    <3>2. Len(h) >= 3 /\ Len(h) <= Len(sent[i].bytes)
      BY <3>1, <1>3, <1>4
    <3> QED
      BY <3>1, <3>2, <1>3, PieceTells
  <2>2. mode' = IF Len(sent[i].bytes) <= HeaderSize THEN "short" ELSE "header"
    <3>1. StrayReplyLength(h) \in 1..HeaderSize <=> Len(sent[i].bytes) <= HeaderSize
      <4> DEFINE n == Len(sent[i].bytes)
      <4>1. n \in Nat /\ n >= 6 /\ StrayReplyLength(h) = n
        BY <2>1, <1>4
      <4> HIDE DEF n
      <4>2. n \in 1..HeaderSize <=> n <= HeaderSize
        BY <4>1 DEF HeaderSize
      <4> QED
        BY <4>1, <4>2 DEF n
    <3> QED
      BY <3>1, <2>1, <1>6
  <2> QED
    BY <2>2, <1>4, <1>8 DEF Course, Goal, LastCut, HeaderSize
<1>9. CASE sent[i].kind \in {"text", "bare"}
  <2>1. h = SubSeq(sent[i].bytes, 1, 3) /\ SubSeq(sent[i].bytes, 1, 3) = AT
    <3>1. Len(sent[i].bytes) >= 3 /\ SubSeq(sent[i].bytes, 1, 3) = AT
      BY <1>4, <1>9, TextShape
    <3>2. Len(h) <= Len(sent[i].bytes)
      BY <3>1, <1>3
    <3>3. h = SubSeq(sent[i].bytes, 1, Len(h))
      BY <3>2, <1>3, ReadsPiece
    <3> QED
      BY <3>1, <3>3, <1>3
  <2>2. mode' = "at"
    BY <2>1, <1>1 DEF AfterPrefix
  <2> QED
    BY <2>2, <1>9 DEF Course, Goal, LastCut
<1>10. CASE LastCut(i)
  <2>1. sent[i].kind = "cut" /\ Len(sent[i].bytes) >= HeaderSize
    BY <1>10 DEF LastCut
  <2>2. /\ Len(sent[i].bytes) >= 8 /\ StrayReplyLength(sent[i].bytes) > Len(sent[i].bytes)
        /\ StrayReplyLength(sent[i].bytes) \in Nat /\ sent[i].bytes[2] \in {3, 4}
    BY <2>1, <1>4, CutShape
  <2>3. StrayReplyLength(h) = StrayReplyLength(sent[i].bytes) /\ h[2] \in {3, 4}
    <3>1. Len(h) >= 3 /\ Len(h) <= Len(sent[i].bytes)
      BY <2>2, <1>3, <1>4
    <3> QED
      BY <3>1, <2>2, <1>3, PieceTells
  <2>4. mode' = "header"
    BY <2>2, <2>3, <1>4, <1>6 DEF HeaderSize
  <2> QED
    BY <2>1, <2>4 DEF Course, Goal
<1> QED
  BY <1>7, <1>8, <1>9, <1>10 DEF Course, Goal

\* Where a whole reply is looked for and one has arrived, it is found.
LEMMA ReplyIsFound ==
    ASSUME ReaderInv, Inside, mode \in {"short", "rejected", "accepted"}, CanRead(Wanted),
           NEW i, Starts(i), sent[i].kind = "reply",
           Len(held) <= Len(sent[i].bytes)
    PROVE  held \o Ahead(Wanted) = sent[i].bytes /\ CrcIsValid(held \o Ahead(Wanted))
           /\ Len(held) + Wanted = Len(sent[i].bytes)
<1>1. /\ Wanted \in Nat /\ Len(held) \in Nat /\ Len(held) >= 3
      /\ Len(held) + Wanted = StrayReplyLength(held)
  <2>1. CASE mode = "short"
    <3>1. /\ Wanted \in Nat /\ Wanted = StrayReplyLength(held) - 3 /\ Len(held) = 3
          /\ StrayReplyLength(held) \in 4..8
      BY <2>1, WantedSome
    <3> QED
      BY <3>1
  <2>2. CASE mode \in {"rejected", "accepted"}
    <3>1. /\ Wanted \in Nat /\ Wanted = StrayReplyLength(held) - 8 /\ Len(held) = 8
          /\ StrayReplyLength(held) \in Nat
      BY <2>2, WantedSome
    <3> QED
      BY <3>1
  <2> QED
    BY <2>1, <2>2
<1>2. sent[i] \in Catalogue /\ Len(sent[i].bytes) \in Nat
  BY PieceIsThere
<1>3. Reads(held)
  BY HeldReads
<1>4. StrayReplyLength(held) = Len(sent[i].bytes)
  BY <1>1, <1>2, <1>3, PieceTells, ReplyShape
<1>5. Reads(held \o Ahead(Wanted)) /\ Len(held \o Ahead(Wanted)) = Len(held) + Wanted
  BY <1>1, ReadOn
<1>6. held \o Ahead(Wanted) = sent[i].bytes
  <2>1. Len(held \o Ahead(Wanted)) = Len(sent[i].bytes)
        /\ Len(held \o Ahead(Wanted)) <= Len(sent[i].bytes)
    BY <1>1, <1>2, <1>4, <1>5
  <2> QED
    BY <2>1, <1>5, ReadsPiece
<1> QED
  BY <1>1, <1>2, <1>4, <1>6 DEF CrcIsValid

LEMMA ShortCourse ==
    ASSUME ReaderInv, ReadShort, NEW i, Starts(i), Course(i, mode)
    PROVE  Goal(i)
<1>1. Inside /\ mode = "short" /\ CanRead(Wanted)
      /\ (mode' = "boundary" \/ (~CrcIsValid(held \o Ahead(Wanted)) /\ mode' = "header"))
  BY DEF ReadShort, Inside, Continue, Finish
<1>2. sent[i].kind = "reply" => mode' = "boundary"
  <2> SUFFICES ASSUME sent[i].kind = "reply" PROVE mode' = "boundary"
    OBVIOUS
  <2>1. Len(held) = 3
    BY <1>1, WantedSome
  <2>2. Len(sent[i].bytes) >= 6 /\ Len(sent[i].bytes) \in Nat
    BY PieceIsThere, ReplyShape
  <2> QED
    BY <2>1, <2>2, <1>1, ReplyIsFound
<1> QED
  BY <1>1, <1>2 DEF Course, Goal

LEMMA HeaderCourse ==
    ASSUME ReaderInv, ReadHeader, NEW i, Starts(i), Course(i, mode)
    PROVE  Goal(i)
<1> DEFINE h == held \o Ahead(Wanted)
<1>1. Inside /\ mode = "header" /\ CanRead(Wanted)
  BY DEF ReadHeader, Inside
<1>2. Wanted = 5 /\ Len(held) = 3 /\ Wanted \in Nat
  BY <1>1, WantedSome
<1>3. Reads(h) /\ Len(h) = 8
  BY <1>1, <1>2, ReadOn
<1>4. /\ ~HeaderError(h) => mode' \in {"accepted", "payload"}
      /\ HeaderError(h) /\ StrayReplyLength(h) > HeaderSize
            => mode' = "rejected" \/ ~(StrayReplyLength(h) > HeaderSize)
               \/ StrayReplyLength(h) <= HeaderSize
      /\ ~HeaderError(h) /\ StrayReplyLength(h) > HeaderSize
         /\ HeaderSize + PayloadLen(h) > StrayReplyLength(h) => mode' = "accepted"
  BY DEF ReadHeader, Continue, Close
<1> HIDE DEF h
<1>5. sent[i] \in Catalogue /\ Len(sent[i].bytes) \in Nat
  BY PieceIsThere
<1>6. CASE sent[i].kind = "frame"
  <2>1. ~HeaderError(h)
    <3>1. Len(sent[i].bytes) >= 8 /\ ~HeaderError(sent[i].bytes)
      BY <1>5, <1>6, FrameShape
    <3>2. Len(h) >= 3 /\ Len(h) >= 8 /\ Len(h) <= Len(sent[i].bytes)
      BY <1>3, <3>1
    <3> QED
      BY <3>1, <3>2, <1>3, PieceTells
  <2> QED
    BY <2>1, <1>4, <1>6 DEF Course, Goal, LastCut
<1>7. ASSUME StrayReplyLength(sent[i].bytes) \in Nat, StrayReplyLength(sent[i].bytes) > 8,
             Len(sent[i].bytes) >= 8, NotAFrame(sent[i].bytes)
      PROVE  mode' \in {"rejected", "accepted"}
  <2>1. /\ StrayReplyLength(h) = StrayReplyLength(sent[i].bytes)
        /\ PayloadLen(h) = PayloadLen(sent[i].bytes)
        /\ HeaderError(h) <=> HeaderError(sent[i].bytes)
    <3>1. Len(h) >= 3 /\ Len(h) >= 8 /\ Len(h) <= Len(sent[i].bytes)
      BY <1>3, <1>7
    <3> QED
      BY <3>1, <1>3, PieceTells
  <2>2. HeaderError(h) \/ HeaderSize + PayloadLen(h) > StrayReplyLength(h)
    BY <2>1, <1>5, <1>7 DEF NotAFrame, HeaderSize
  <2>3. StrayReplyLength(h) > HeaderSize /\ ~(StrayReplyLength(h) <= HeaderSize)
    BY <2>1, <1>7 DEF HeaderSize
  <2> QED
    BY <2>2, <2>3, <1>4
<1>8. CASE sent[i].kind = "reply"
  <2>1. Len(sent[i].bytes) > HeaderSize
    BY <1>1, <1>8 DEF Course
  <2>2. StrayReplyLength(sent[i].bytes) = Len(sent[i].bytes) /\ NotAFrame(sent[i].bytes)
    BY <1>5, <1>8, ReplyShape
  <2>3. mode' \in {"rejected", "accepted"}
    BY <2>1, <2>2, <1>5, <1>7 DEF HeaderSize
  <2> QED
    BY <2>1, <2>3, <1>8 DEF Course, Goal, LastCut
<1>9. CASE LastCut(i)
  <2>1. sent[i].kind = "cut" /\ Len(sent[i].bytes) >= HeaderSize
    BY <1>9 DEF LastCut
  <2>2. /\ Len(sent[i].bytes) >= 8 /\ StrayReplyLength(sent[i].bytes) > Len(sent[i].bytes)
        /\ StrayReplyLength(sent[i].bytes) \in Nat /\ NotAFrame(sent[i].bytes)
    BY <2>1, <1>5, CutShape
  <2>3. mode' \in {"rejected", "accepted"}
    BY <2>2, <1>5, <1>7
  <2> QED
    BY <2>1, <2>3 DEF Course, Goal
<1> QED
  BY <1>1, <1>6, <1>8, <1>9 DEF Course, Goal

\* A cut-off reply that is the last piece is never there whole.
LEMMA CutIsNotThere ==
    ASSUME ReaderInv, Inside, mode \in {"rejected", "accepted"}, NEW i, Starts(i), LastCut(i)
    PROVE  ~CanRead(Wanted)
<1>1. /\ Wanted \in Nat /\ Len(held) = 8
      /\ Len(held) + Wanted = StrayReplyLength(held)
  <2>1. /\ Wanted \in Nat /\ Wanted = StrayReplyLength(held) - 8 /\ Len(held) = 8
        /\ StrayReplyLength(held) \in Nat
    BY WantedSome
  <2> QED
    BY <2>1
<1>2. sent[i] \in Catalogue /\ Len(sent[i].bytes) \in Nat /\ start \in Nat
  BY PieceIsThere
<1>3. /\ Len(sent[i].bytes) >= 8 /\ StrayReplyLength(sent[i].bytes) > Len(sent[i].bytes)
      /\ StrayReplyLength(sent[i].bytes) \in Nat
  BY <1>2, CutShape DEF LastCut
<1>4. Reads(held) /\ pos = start + Len(held)
  BY HeldReads
<1>5. StrayReplyLength(held) = StrayReplyLength(sent[i].bytes)
  <2>1. Len(held) >= 3 /\ Len(held) <= Len(sent[i].bytes)
    BY <1>1, <1>3
  <2> QED
    BY <2>1, <1>4, PieceTells
<1>6. Len(stream) = start + Len(sent[i].bytes)
  BY LastEnds DEF LastCut
<1> QED
  BY <1>1, <1>2, <1>3, <1>4, <1>5, <1>6 DEF CanRead

LEMMA RejectedCourse ==
    ASSUME ReaderInv, ReadRejected, NEW i, Starts(i), Course(i, mode)
    PROVE  Goal(i)
<1>1. Inside /\ mode = "rejected" /\ CanRead(Wanted)
      /\ (CrcIsValid(held \o Ahead(Wanted)) => mode' = "boundary")
  BY DEF ReadRejected, Inside, Finish
<1>2. ~LastCut(i)
  BY <1>1, CutIsNotThere
<1>3. CASE sent[i].kind = "reply"
  <2>1. Len(held) = 8 /\ Len(sent[i].bytes) \in Nat
    BY <1>1, WantedSome, PieceIsThere
  <2>2. Len(sent[i].bytes) > 8
    BY <1>1, <1>3 DEF Course, HeaderSize
  <2> QED
    BY <2>1, <2>2, <1>1, <1>3, ReplyIsFound DEF Goal
<1> QED
  BY <1>1, <1>2, <1>3 DEF Course, Goal

LEMMA AcceptedCourse ==
    ASSUME ReaderInv, ReadAccepted, NEW i, Starts(i), Course(i, mode)
    PROVE  Goal(i)
<1>1. Inside /\ mode = "accepted" /\ CanRead(Wanted)
      /\ (CrcIsValid(held \o Ahead(Wanted)) => mode' = "boundary")
      /\ mode' \in {"boundary", "payload"}
  BY DEF ReadAccepted, Inside, Finish, Continue
<1>2. ~LastCut(i)
  BY <1>1, CutIsNotThere
<1>3. CASE sent[i].kind = "reply"
  <2>1. Len(held) = 8 /\ Len(sent[i].bytes) \in Nat
    BY <1>1, WantedSome, PieceIsThere
  <2>2. Len(sent[i].bytes) > 8
    BY <1>1, <1>3 DEF Course, HeaderSize
  <2> QED
    BY <2>1, <2>2, <1>1, <1>3, ReplyIsFound DEF Goal
<1> QED
  BY <1>1, <1>2, <1>3 DEF Course, Goal

\* A timeout closes on no piece: what is waited for has arrived with it.
LEMMA TimeOutCourse ==
    ASSUME ReaderInv, TimeOut, NEW i, Starts(i), Course(i, mode)
    PROVE  Goal(i)
<1>1. /\ Inside /\ ~CanRead(Wanted)
      /\ mode \in {"prefix", "short", "header", "rejected", "accepted", "payload"}
      /\ mode \in {"rejected", "accepted"} => mode' = "discard"
  BY DEF TimeOut, Inside, Continue
<1>2. sent[i] \in Catalogue /\ Len(sent[i].bytes) \in Nat
  BY PieceIsThere
<1>3. Reads(held) /\ Len(held) \in Nat /\ Wanted \in Nat
  BY <1>1, HeldReads, WantedSome DEF Inside
<1>4. Len(held) + Wanted > Len(sent[i].bytes)
  <2>1. ~(Len(held) + Wanted <= Len(sent[i].bytes))
    BY <1>1, <1>3, PieceAffords
  <2> QED
    BY <2>1, <1>2, <1>3
<1>5. /\ mode = "prefix" => Len(sent[i].bytes) < 3
      /\ mode = "header" => Len(sent[i].bytes) < 8
  <2>1. CASE mode = "prefix"
    <3>1. Wanted = 2 /\ Len(held) = 1
      BY <2>1, WantedSome
    <3> QED
      BY <3>1, <2>1, <1>2, <1>4
  <2>2. CASE mode = "header"
    <3>1. Wanted = 5 /\ Len(held) = 3
      BY <2>2, WantedSome
    <3> QED
      BY <3>1, <2>2, <1>2, <1>4
  <2> QED
    BY <2>1, <2>2
<1>6. /\ mode = "short" => Len(sent[i].bytes) < StrayReplyLength(held)
                           /\ StrayReplyLength(held) \in 4..8 /\ Len(held) = 3
      /\ mode \in {"rejected", "accepted"} =>
            Len(sent[i].bytes) < StrayReplyLength(held) /\ Len(held) = 8
            /\ StrayReplyLength(held) \in Nat
      /\ mode = "payload" => Len(sent[i].bytes) < 8 + PayloadLen(held) /\ Len(held) = 8
  <2>1. CASE mode = "short"
    <3>1. /\ Wanted = StrayReplyLength(held) - 3 /\ Len(held) = 3
          /\ StrayReplyLength(held) \in 4..8
      BY <2>1, WantedSome
    <3> QED
      BY <3>1, <2>1, <1>2, <1>4
  <2>2. CASE mode \in {"rejected", "accepted"}
    <3>1. /\ Wanted = StrayReplyLength(held) - 8 /\ Len(held) = 8
          /\ StrayReplyLength(held) \in Nat
      BY <2>2, WantedSome
    <3> QED
      BY <3>1, <2>2, <1>2, <1>4
  <2>3. CASE mode = "payload"
    <3>1. Wanted = PayloadLen(held) /\ Len(held) = 8
      BY <2>3, WantedSome
    <3> QED
      BY <3>1, <2>3, <1>2, <1>4
  <2> QED
    BY <2>1, <2>2, <2>3
<1>7. CASE sent[i].kind = "frame"
  <2>0. /\ Len(sent[i].bytes) >= 8 /\ Len(sent[i].bytes) = 8 + PayloadLen(sent[i].bytes)
    BY <1>2, <1>7, FrameShape
  <2>1. CASE mode \in {"prefix", "header"}
    BY <2>0, <2>1, <1>2, <1>5
  <2>2. CASE mode = "short"
    <3>1. Len(sent[i].bytes) < StrayReplyLength(held) /\ StrayReplyLength(held) \in 4..8
      BY <2>2, <1>6
    <3> QED
      BY <3>1, <2>0, <1>2
  <2>3. CASE mode \in {"accepted", "payload"}
    <3>1. Len(held) = 8
      BY <2>3, <1>6
    <3>2. Len(held) >= 3 /\ Len(held) >= 8 /\ Len(held) <= Len(sent[i].bytes)
      BY <3>1, <2>0, <1>2
    <3>3. PayloadLen(held) = PayloadLen(sent[i].bytes)
      BY <3>2, <1>3, PieceTells
    <3>4. mode # "payload"
      BY <3>3, <2>0, <1>2, <1>6
    <3>5. Len(sent[i].bytes) < StrayReplyLength(held) /\ StrayReplyLength(held) \in Nat
      BY <3>4, <2>3, <1>6
    <3>6. HeaderSize + PayloadLen(held) > StrayReplyLength(held)
      BY <3>4, <2>3 DEF ReaderInv, Knows
    <3> QED
      BY <3>3, <3>5, <3>6, <2>0, <1>2 DEF HeaderSize
  <2> QED
    BY <2>1, <2>2, <2>3, <1>1, <1>7 DEF Course
<1>8. CASE sent[i].kind = "reply"
  <2>0. StrayReplyLength(sent[i].bytes) = Len(sent[i].bytes) /\ Len(sent[i].bytes) >= 6
    BY <1>2, <1>8, ReplyShape
  <2>1. CASE mode = "prefix"
    BY <2>0, <2>1, <1>2, <1>5
  <2>2. CASE mode = "header"
    <3>1. Len(sent[i].bytes) > 8
      BY <2>2, <1>8 DEF Course, HeaderSize
    <3> QED
      BY <3>1, <2>2, <1>2, <1>5
  <2>3. CASE mode \in {"short", "rejected", "accepted"}
    <3>1. Len(held) >= 3 /\ Len(held) <= Len(sent[i].bytes)
      <4>1. CASE mode = "short"
        <5>1. Len(held) = 3
          BY <4>1, <1>6
        <5> QED
          BY <5>1, <2>0, <1>2
      <4>2. CASE mode \in {"rejected", "accepted"}
        <5>1. Len(sent[i].bytes) > 8
          BY <4>2, <1>8 DEF Course, HeaderSize
        <5>2. Len(held) = 8
          BY <4>2, <1>6
        <5> QED
          BY <5>1, <5>2, <1>2
      <4> QED
        BY <4>1, <4>2, <2>3
    <3>2. StrayReplyLength(held) = Len(sent[i].bytes)
      BY <3>1, <2>0, <1>3, PieceTells
    <3>3. Len(sent[i].bytes) < StrayReplyLength(held)
      BY <2>3, <1>6
    <3> QED
      BY <3>2, <3>3, <1>2
  <2> QED
    BY <2>1, <2>2, <2>3, <1>8 DEF Course
<1>9. CASE sent[i].kind \in {"text", "bare"}
  <2>1. Len(sent[i].bytes) >= 3 /\ mode = "prefix"
    BY <1>1, <1>2, <1>9, TextShape DEF Course
  <2> QED
    BY <2>1, <1>2, <1>5
<1>10. CASE LastCut(i)
  <2>1. sent[i].kind = "cut" /\ Len(sent[i].bytes) >= 8
    BY <1>10 DEF LastCut, HeaderSize
  <2>2. mode \in {"rejected", "accepted"}
    <3>1. mode # "prefix" /\ mode # "header"
      BY <2>1, <1>2, <1>5
    <3> QED
      BY <3>1, <1>1, <1>10 DEF Course
  <2> QED
    BY <2>1, <2>2, <1>1 DEF Course, Goal
<1> QED
  BY <1>7, <1>8, <1>9, <1>10 DEF Course, Goal

LEMMA CourseInit == Init => OnCourse
BY DEF Init, OnCourse

\* A step of the loop inside a record keeps to the course.
LEMMA CourseRead ==
    ASSUME ReaderInv, Read, ~ReadFirst, ~EofEnds, NEW i, Starts(i), Course(i, mode)
    PROVE  Goal(i)
<1>1. CASE ReadPrefix \/ ReadShort \/ ReadHeader
  BY <1>1, PrefixCourse, ShortCourse, HeaderCourse
<1>2. CASE ReadRejected \/ ReadAccepted \/ TimeOut
  BY <1>2, RejectedCourse, AcceptedCourse, TimeOutCourse
<1>3. CASE ReadPayload \/ DiscardAvailable \/ Resync \/ AtStop \/ AtIdle
  BY <1>3 DEF ReadPayload, DiscardAvailable, Resync, AtStop, AtIdle, Finish, Goal
<1> QED
  BY <1>1, <1>2, <1>3 DEF Read

\* The loop moves inside a record, or begins one at a boundary.
LEMMA ReadMoves ==
    ASSUME Read
    PROVE  /\ UNCHANGED <<arrived, eof>> /\ mode # "closed"
           /\ ~ReadFirst => start' = start
           /\ ~ReadFirst /\ ~EofEnds => mode # "boundary"
           /\ EofEnds => mode' = "closed" /\ eof
           /\ ReadFirst => mode' = "prefix"
BY DEF Read, ReadFirst, ReadPrefix, ReadShort, ReadHeader, ReadRejected, ReadAccepted,
       ReadPayload, TimeOut, DiscardAvailable, Resync, AtStop, AtIdle, EofEnds, Continue, Close

\* A piece that arrives begins behind everything the reader has touched.
LEMMA ArrivesBehind ==
    ASSUME ReaderInv, NEW p \in Catalogue, Arrive(p), NEW i \in 1..Len(sent')
    PROVE  /\ i \in 1..Len(sent) => sent'[i] = sent[i] /\ From(i)' = From(i) /\ Upto(i)' = Upto(i)
                                    /\ i # Len(sent')
           /\ i \notin 1..Len(sent) => i = Len(sent) + 1 /\ From(i)' = Len(stream)
           /\ Len(sent') = Len(sent) + 1 /\ sent'[Len(sent) + 1] = p
<1> SUFFICES ASSUME NEW n \in Nat, n = Len(sent)
             PROVE  /\ i \in 1..n => sent'[i] = sent[i] /\ From(i)' = From(i) /\ Upto(i)' = Upto(i)
                                     /\ i # Len(sent')
                    /\ i \notin 1..n => i = n + 1 /\ From(i)' = Len(stream)
                    /\ Len(sent') = n + 1 /\ sent'[n + 1] = p
  BY DEF ReaderInv, TypeOK
<1>1. sent \in Seq(Catalogue) /\ ends \in Seq(Nat) /\ Len(ends) = n /\ Len(stream) = From(n + 1)
      /\ Len(stream') \in Nat
  <2>1. sent \in Seq(Catalogue) /\ ends \in Seq(Nat) /\ Len(ends) = n /\ Len(stream) = From(n + 1)
    BY DEF ReaderInv, TypeOK, Layout
  <2>2. Len(stream') \in Nat
    BY ArriveInv DEF ReaderInv, TypeOK
  <2> QED
    BY <2>1, <2>2
<1>2. Len(sent') = n + 1 /\ sent'[n + 1] = p /\ \A k \in 1..n : sent'[k] = sent[k]
  BY <1>1 DEF Arrive
<1>3. \A k \in 1..n : ends'[k] = ends[k]
  BY <1>1 DEF Arrive
<1>4. CASE i \in 1..n
  <2>1. From(i)' = From(i)
    <3>1. CASE i = 1
      BY <3>1 DEF From
    <3>2. CASE i # 1
      <4>1. i - 1 \in 1..n
        BY <3>2, <1>4
      <4> QED
        BY <4>1, <3>2, <1>3 DEF From
    <3> QED
      BY <3>1, <3>2
  <2> QED
    BY <2>1, <1>2, <1>3, <1>4 DEF Upto
<1>5. CASE i \notin 1..n
  <2>1. i = n + 1
    BY <1>2, <1>5
  <2>2. From(i)' = From(i)
    <3>1. CASE i = 1
      BY <3>1 DEF From
    <3>2. CASE i # 1
      <4>1. i - 1 \in 1..n
        BY <3>2, <2>1
      <4> QED
        BY <4>1, <3>2, <1>3 DEF From
    <3> QED
      BY <3>1, <3>2
  <2> QED
    BY <2>1, <2>2, <1>1, <1>2, <1>5
<1> QED
  BY <1>4, <1>5, <1>2

LEMMA CourseStep == ReaderInv /\ OnCourse /\ [Next]_vars => OnCourse'
<1> SUFFICES ASSUME ReaderInv, OnCourse, [Next]_vars,
                    NEW i \in 1..Len(sent'), Starts(i)', mode' # "boundary",
                    ~(mode' = "closed" /\ eof')
             PROVE  Course(i, mode)'
  BY DEF OnCourse
<1>1. ASSUME NEW p \in Catalogue, Arrive(p) PROVE Course(i, mode)'
  <2>1. mode' = mode /\ start' = start /\ mode # "closed" /\ eof' = eof
    BY <1>1 DEF Arrive
  <2>2. Inside
    BY <2>1 DEF Inside
  <2>3. start \in Nat /\ start < Len(stream)
    BY <2>2, HeldReads
  <2>4. i \in 1..Len(sent)
    <3>1. start = From(i)'
      BY <2>1 DEF Starts
    <3> QED
      BY <3>1, <2>3, <1>1, ArrivesBehind
  <2>5. sent'[i] = sent[i] /\ From(i)' = From(i) /\ i # Len(sent')
    BY <2>4, <1>1, ArrivesBehind
  <2>6. Course(i, mode)
    BY <2>1, <2>2, <2>4, <2>5 DEF OnCourse, Starts, Inside
  <2> QED
    BY <2>1, <2>5, <2>6 DEF Course, LastCut
<1>2. CASE PeerCloses
  BY <1>2 DEF PeerCloses, OnCourse, Course, LastCut, Starts, From, arrived
<1>3. CASE Read
  <2>1. UNCHANGED <<arrived, eof>> /\ mode # "closed"
    BY <1>3, ReadMoves
  <2>2. CASE ReadFirst
    BY <2>2, <1>3, ReadMoves DEF Course
  <2>3. CASE EofEnds
    BY <2>1, <2>3, <1>3, ReadMoves
  <2>4. CASE ~ReadFirst /\ ~EofEnds
    <3>1. start' = start /\ mode # "boundary"
      BY <2>4, <1>3, ReadMoves
    <3>2. Starts(i) /\ i \in 1..Len(sent)
      BY <2>1, <3>1 DEF Starts, From, arrived
    <3>3. Course(i, mode)
      BY <2>1, <3>1, <3>2 DEF OnCourse
    <3>4. Course(i, mode')
      BY <2>4, <3>2, <3>3, <1>3, CourseRead DEF Goal
    <3> QED
      BY <3>4, <2>1 DEF Course, LastCut, arrived
  <2> QED
    BY <2>2, <2>3, <2>4
<1>4. CASE UNCHANGED vars
  BY <1>4 DEF vars, OnCourse, Course, LastCut, Starts, From
<1> QED
  BY <1>1, <1>2, <1>3, <1>4 DEF Next

LEMMA CourseClosesRightly == OnCourse => NoFalseClose
BY DEF OnCourse, NoFalseClose, Course, Starts, LastCut, Sound

\* Reading a sound piece, the loop stands only at the awaits its kind leads to.
THEOREM CourseInvariant == Spec => []OnCourse
BY ReaderInvariant, CourseInit, CourseStep, PTL DEF Spec

\* The reader never closes a session on a frame, a whole reply, an AT response or
\* a cut-off reply it can recognise, whatever arrived before and behind it: every
\* timeout and every rejection in _read_loop is about other bytes.
THEOREM ClosesRightly == Spec => []NoFalseClose
BY CourseInvariant, CourseClosesRightly, PTL

-----------------------------------------------------------------------------
(* Where an AT response ends *)

\* The eight bytes of s that end at n.
LEMMA Window ==
    ASSUME NEW s \in Seq(Byte), NEW n \in Nat, n >= HeaderSize, n <= Len(s)
    PROVE  \A k \in 1..8 : SubSeq(s, n - HeaderSize + 1, n)[k] = s[n - 8 + k]
<1>1. n - 8 \in Nat /\ (n - 8) + 8 <= Len(s) /\ (n - 8) + 8 = n
      /\ n - HeaderSize + 1 = (n - 8) + 1
  BY DEF HeaderSize
<1>2. \A k \in 1..8 : SubSeq(s, (n - 8) + 1, (n - 8) + 8)[k] = s[(n - 8) + k]
  BY <1>1, Slice
<1> QED
  BY <1>1, <1>2

LEMMA TextBytes ==
    ASSUME ReaderInv, NEW n \in 1..Len(stream) - pos
    PROVE  /\ Text(n) \in Seq(Byte) /\ Len(Text(n)) = n /\ pos \in Nat
           /\ \A k \in 1..n : Text(n)[k] = stream[pos + k]
<1>1. stream \in Seq(Byte) /\ pos \in Nat /\ Len(stream) \in Nat
  BY DEF ReaderInv, TypeOK
<1>2. n \in Nat /\ pos + n <= Len(stream)
  BY <1>1
<1> QED
  BY <1>1, <1>2, Slice DEF Text

\* A header can end only in a function code of the runtime's, a line in LF.
LEMMA NoHeaderAt ==
    ASSUME ReaderInv, NEW n \in 1..Len(stream) - pos, stream[pos + n] \notin RuntimeFcodes
    PROVE  ~HeaderEndsAt(n)
<1> SUFFICES ASSUME n >= HeaderSize
             PROVE  HeaderError(SubSeq(Text(n), n - HeaderSize + 1, n))
  BY DEF HeaderEndsAt
<1>1. /\ Text(n) \in Seq(Byte) /\ Len(Text(n)) = n /\ pos \in Nat /\ n \in Nat
      /\ Text(n)[n] = stream[pos + n]
  BY TextBytes
<1> DEFINE w == SubSeq(Text(n), n - HeaderSize + 1, n)
<1>2. w[8] = Text(n)[n - 8 + 8]
  <2>1. n <= Len(Text(n))
    BY <1>1
  <2>2. \A k \in 1..8 : w[k] = Text(n)[n - 8 + k]
    BY <2>1, <1>1, Window
  <2> HIDE DEF w
  <2> QED
    BY <2>2
<1>3. n - 8 + 8 = n
  BY <1>1
<1>4. w[8] \notin RuntimeFcodes
  BY <1>1, <1>2, <1>3
<1> QED
  BY <1>4 DEF HeaderError

LEMMA NoLineAt ==
    ASSUME ReaderInv, NEW n \in 1..Len(stream) - pos,
           n >= 2 => stream[pos + n] # LF \/ stream[pos + (n - 1)] # CR
    PROVE  ~LineEndsAt(n)
<1>1. n \in Nat /\ \A k \in 1..n : Text(n)[k] = stream[pos + k]
  BY TextBytes
<1>2. CASE n >= 2
  <2>1. n - 1 \in 1..n /\ n \in 1..n
    BY <1>1, <1>2
  <2> QED
    BY <2>1, <1>1, <1>2 DEF LineEndsAt
<1>3. CASE ~(n >= 2)
  BY <1>3 DEF LineEndsAt
<1> QED
  BY <1>2, <1>3

\* A printable byte ends neither.
LEMMA NoStopAt ==
    ASSUME ReaderInv, NEW n \in 1..Len(stream) - pos,
           stream[pos + n] \in Nat, stream[pos + n] >= 32
    PROVE  n \notin AtStops
<1>1. stream[pos + n] \notin RuntimeFcodes /\ stream[pos + n] # LF
  BY DEF RuntimeFcodes, LF
<1>2. ~HeaderEndsAt(n)
  BY <1>1, NoHeaderAt
<1>3. ~LineEndsAt(n)
  BY <1>1, NoLineAt
<1> QED
  BY <1>2, <1>3 DEF AtStops

\* The loop stands behind the prefix of piece i: the text's bytes are the piece's.
LEMMA AtPiece ==
    ASSUME ReaderInv, mode = "at", NEW i, Starts(i)
    PROVE  /\ pos = start + 3 /\ pos \in Nat /\ start \in Nat /\ Len(stream) \in Nat
           /\ sent[i] \in Catalogue /\ Len(sent[i].bytes) \in Nat \ {0}
           /\ sent[i].bytes \in Seq(Byte)
           /\ Len(sent[i].bytes) - 3 <= Len(stream) - pos
           /\ \A n \in 1..Len(sent[i].bytes) - 3 : stream[pos + n] = sent[i].bytes[3 + n]
<1>1. Inside /\ Len(held) = 3
  BY DEF Inside, ReaderInv, Knows, PrefixSize
<1>2. pos = start + 3
  BY <1>1, HeldReads
<1>3. /\ sent[i] \in Catalogue /\ start = From(i) /\ start \in Nat
      /\ Len(sent[i].bytes) \in Nat \ {0} /\ sent[i].bytes \in Seq(Byte)
      /\ Len(stream) \in Nat /\ start + Len(sent[i].bytes) <= Len(stream)
      /\ i \in 1..Len(sent)
  BY PieceIsThere
<1>4. \A j \in 1..Len(sent[i].bytes) : stream[start + j] = sent[i].bytes[j]
  BY <1>3 DEF ReaderInv, Layout, Lies
<1>5. ASSUME NEW n \in 1..Len(sent[i].bytes) - 3
      PROVE  stream[pos + n] = sent[i].bytes[3 + n]
  <2>1. 3 + n \in 1..Len(sent[i].bytes) /\ pos + n = start + (3 + n)
    <3>1. Len(sent[i].bytes) \in Nat /\ start \in Nat /\ n \in Int
      BY <1>3
    <3>2. 3 + n \in 1..Len(sent[i].bytes)
      BY <3>1
    <3> QED
      BY <3>1, <3>2, <1>2
  <2> QED
    BY <2>1, <1>4
<1>6. pos \in Nat /\ Len(sent[i].bytes) - 3 <= Len(stream) - pos
  BY <1>2, <1>3
<1> QED
  BY <1>2, <1>3, <1>5, <1>6

\* The printable bytes of a response do not end it.
LEMMA PlainDoesNotStop ==
    ASSUME ReaderInv, mode = "at", NEW i, Starts(i), NEW n \in Nat,
           Plain(sent[i].bytes, n), n <= Len(sent[i].bytes)
    PROVE  \A k \in AtStops : k > n - 3
<1>1. /\ pos = start + 3 /\ pos \in Nat /\ start \in Nat /\ Len(stream) \in Nat
      /\ Len(sent[i].bytes) \in Nat /\ sent[i].bytes \in Seq(Byte)
      /\ Len(sent[i].bytes) - 3 <= Len(stream) - pos
      /\ \A k \in 1..Len(sent[i].bytes) - 3 : stream[pos + k] = sent[i].bytes[3 + k]
  BY AtPiece
<1>2. AtStops \subseteq 1..Len(stream) - pos
  BY DEF AtStops
<1>3. ASSUME NEW k \in AtStops, k <= n - 3 PROVE FALSE
  <2>1. k \in 1..Len(sent[i].bytes) - 3 /\ k \in 1..Len(stream) - pos
        /\ 3 + k \in PrefixSize + 1..n /\ 3 + k \in 1..Len(sent[i].bytes)
    <3>1. /\ k \in Int /\ 1 <= k /\ k <= n - 3 /\ k \in 1..Len(stream) - pos
          /\ Len(sent[i].bytes) \in Nat
      BY <1>1, <1>2, <1>3
    <3>2. k \in 1..Len(sent[i].bytes) - 3 /\ 3 + k \in 1..Len(sent[i].bytes)
      BY <3>1
    <3>3. 3 + k \in PrefixSize + 1..n
      BY <3>1 DEF PrefixSize
    <3> QED
      BY <3>1, <3>2, <3>3
  <2>2. stream[pos + k] = sent[i].bytes[3 + k] /\ sent[i].bytes[3 + k] >= 32
    BY <2>1, <1>1 DEF Plain
  <2>3. sent[i].bytes[3 + k] \in Nat
    BY <2>1, <1>1, ByteIsNat
  <2> QED
    BY <2>1, <2>2, <2>3, NoStopAt
<1>4. AtStops \subseteq Int
  BY <1>1, <1>2
<1> QED
  BY <1>3, <1>4

\* A plain line ends with its CR LF and nowhere before.
LEMMA LineStops ==
    ASSUME ReaderInv, mode = "at", NEW i, Starts(i), PlainLine(sent[i].bytes)
    PROVE  /\ Len(sent[i].bytes) - 3 \in AtStops
           /\ ~HeaderEndsAt(Len(sent[i].bytes) - 3)
           /\ \A k \in AtStops : k >= Len(sent[i].bytes) - 3
<1> DEFINE b == sent[i].bytes
<1> DEFINE n == Len(b) - 3
<1>1. /\ pos = start + 3 /\ pos \in Nat /\ start \in Nat /\ Len(stream) \in Nat
      /\ Len(b) \in Nat /\ b \in Seq(Byte) /\ n <= Len(stream) - pos
      /\ \A k \in 1..n : stream[pos + k] = b[3 + k]
  BY AtPiece
<1>2. Len(b) >= 5 /\ Plain(b, Len(b) - 2) /\ b[Len(b) - 1] = CR /\ b[Len(b)] = LF
  BY DEF PlainLine, PrefixSize
<1> HIDE DEF b
<1>3. n \in 1..Len(stream) - pos /\ n >= 2 /\ n - 1 \in 1..n /\ n \in 1..n
      /\ n - 1 \in 1..Len(stream) - pos
      /\ 3 + n = Len(b) /\ 3 + (n - 1) = Len(b) - 1 /\ n \in Nat
  BY <1>1, <1>2
<1>4. stream[pos + n] = LF /\ stream[pos + (n - 1)] = CR
  BY <1>1, <1>2, <1>3
<1>5. ~HeaderEndsAt(n)
  <2>1. stream[pos + n] \notin RuntimeFcodes
    BY <1>4 DEF RuntimeFcodes, LF
  <2> QED
    BY <2>1, <1>3, NoHeaderAt
<1>6. n - 1 \notin AtStops
  <2>1. stream[pos + (n - 1)] \notin RuntimeFcodes /\ stream[pos + (n - 1)] # LF
    BY <1>4 DEF RuntimeFcodes, CR, LF
  <2>2. ~HeaderEndsAt(n - 1) /\ ~LineEndsAt(n - 1)
    BY <2>1, <1>3, NoHeaderAt, NoLineAt
  <2> QED
    BY <2>2 DEF AtStops
<1>7. \A k \in 1..n : Text(n)[k] = stream[pos + k]
  BY <1>3, TextBytes
<1>8. ~BinarySuspected(n)
  <2> SUFFICES ASSUME NEW k \in 1..n - 1
               PROVE  ~(Text(n)[k] < 32 /\ Text(n)[k] \notin {CR, TAB})
    BY DEF BinarySuspected
  <2>1. k \in 1..n /\ k \in Nat
    BY <1>3
  <2>2. Text(n)[k] = b[3 + k]
    BY <2>1, <1>1, <1>7
  <2>3. CASE k = n - 1
    BY <2>2, <2>3, <1>2, <1>3
  <2>4. CASE k # n - 1
    <3>1. 3 + k \in PrefixSize + 1..Len(b) - 2 /\ 3 + k \in 1..Len(b)
      <4>1. Len(b) \in Nat /\ k \in Nat /\ k >= 1 /\ k <= Len(b) - 4 /\ k # Len(b) - 4
        BY <2>1, <2>4, <1>1
      <4> QED
        BY <4>1 DEF PrefixSize
    <3>2. b[3 + k] >= 32 /\ b[3 + k] \in Nat
      <4>1. b[3 + k] >= 32
        BY <3>1, <1>2 DEF Plain
      <4>2. b[3 + k] \in Byte
        BY <3>1, <1>1
      <4> QED
        BY <4>1, <4>2, ByteIsNat
    <3> QED
      BY <3>2, <2>2
  <2> QED
    BY <2>3, <2>4
<1>9. LineEndsAt(n)
  BY <1>3, <1>4, <1>7, <1>8 DEF LineEndsAt
<1>10. n \in AtStops
  BY <1>3, <1>9 DEF AtStops
<1>11. \A k \in AtStops : k >= n
  <2>1. Len(b) - 2 \in Nat /\ Len(b) - 2 <= Len(b)
    BY <1>1, <1>2
  <2>2. \A k \in AtStops : k > Len(b) - 2 - 3
    BY <2>1, <1>2, PlainDoesNotStop DEF b
  <2>3. AtStops \subseteq Int
    BY <1>1 DEF AtStops
  <2> QED
    BY <2>2, <2>3, <1>1, <1>3, <1>6
<1> QED
  BY <1>5, <1>10, <1>11 DEF b

\* A bare response with nothing behind it does not end.
LEMMA BareAlone ==
    ASSUME ReaderInv, mode = "at", NEW i, Starts(i), i = Len(sent),
           Plain(sent[i].bytes, Len(sent[i].bytes))
    PROVE  AtStops = {}
<1>1. /\ pos = start + 3 /\ pos \in Nat /\ start \in Nat /\ Len(stream) \in Nat
      /\ Len(sent[i].bytes) \in Nat
  BY AtPiece
<1>2. Len(stream) = start + Len(sent[i].bytes)
  BY LastEnds
<1>3. \A k \in AtStops : k > Len(sent[i].bytes) - 3
  BY <1>1, PlainDoesNotStop
<1>4. \A k \in AtStops : k \in 1..Len(sent[i].bytes) - 3
  BY <1>1, <1>2 DEF AtStops
<1> QED
  BY <1>1, <1>3, <1>4

\* A bare response ends where the header of the frame glued to it has been read.
LEMMA BareThenFrame ==
    ASSUME ReaderInv, mode = "at", NEW i, Starts(i), i # Len(sent),
           sent[i + 1].kind = "frame", Plain(sent[i].bytes, Len(sent[i].bytes)),
           Len(sent[i].bytes) >= 3, ApartFrom(sent[i].bytes, sent[i + 1].bytes)
    PROVE  /\ Len(sent[i].bytes) + 5 \in AtStops
           /\ HeaderEndsAt(Len(sent[i].bytes) + 5)
           /\ \A k \in AtStops : k >= Len(sent[i].bytes) + 5
<1> DEFINE b == sent[i].bytes
<1> DEFINE f == sent[i + 1].bytes
<1> DEFINE t == b \o f
<1>1. /\ pos = start + 3 /\ pos \in Nat /\ start \in Nat /\ Len(stream) \in Nat
      /\ Len(b) \in Nat /\ b \in Seq(Byte)
  BY AtPiece
<1>2. i + 1 \in 1..Len(sent) /\ i \in 1..Len(sent) /\ start = From(i) /\ sent \in Seq(Catalogue)
  BY DEF Starts, ReaderInv, TypeOK
<1>3. sent[i + 1] \in Catalogue /\ Lies(i) /\ Lies(i + 1)
  BY <1>2 DEF ReaderInv, Layout
<1>4. f \in Seq(Byte) /\ Len(f) \in Nat
  BY <1>3, PieceBytes
<1>5. Len(f) >= 8 /\ ~HeaderError(f)
  BY <1>3, FrameShape
<1>6. From(i + 1) = start + Len(b)
  BY <1>2, <1>3 DEF From, Lies
<1>7. start + Len(b) + Len(f) <= Len(stream)
  BY <1>1, <1>3, <1>4, <1>6 DEF Lies
<1>8. \A j \in 1..Len(f) : stream[start + Len(b) + j] = f[j]
  BY <1>3, <1>6 DEF Lies
<1>9. \A j \in 1..Len(b) : stream[start + j] = b[j]
  BY <1>2, <1>3 DEF Lies
<1>10. ApartFrom(b, f) /\ Plain(b, Len(b)) /\ Len(b) >= 3
  OBVIOUS
<1> HIDE DEF b, f
<1>11. /\ t \in Seq(Byte) /\ Len(t) = Len(b) + Len(f)
       /\ \A j \in 1..Len(b) + Len(f) : t[j] = IF j <= Len(b) THEN b[j] ELSE f[j - Len(b)]
  BY <1>1, <1>4, ConcatProperties
<1>12. ASSUME NEW j \in 1..Len(b) + Len(f) PROVE t[j] = stream[start + j]
  <2>1. CASE j <= Len(b)
    BY <2>1, <1>1, <1>9, <1>11
  <2>2. CASE ~(j <= Len(b))
    <3>1. j - Len(b) \in 1..Len(f) /\ start + Len(b) + (j - Len(b)) = start + j
      BY <2>2, <1>1, <1>4
    <3>2. t[j] = f[j - Len(b)]
      BY <2>2, <1>11
    <3> QED
      BY <3>1, <3>2, <1>8
  <2> QED
    BY <2>1, <2>2
<1> HIDE DEF t
<1>13. ASSUME NEW n \in AtStops, n < Len(b) + 5 PROVE FALSE
  <2>1. n \in 1..Len(stream) - pos /\ n \in Nat
    BY <1>1 DEF AtStops
  <2>2. n > Len(b) - 3
    BY <1>1, <1>10, PlainDoesNotStop DEF b
  <2>3. n + 3 \in Len(b) + 1..Len(b) + HeaderSize - 1
    BY <2>1, <2>2, <1>1, <1>13 DEF HeaderSize
  <2>4. /\ ~(t[(n + 3) - 1] = CR /\ t[n + 3] = LF)
        /\ n + 3 >= PrefixSize + HeaderSize =>
              HeaderError(SubSeq(t, (n + 3) - HeaderSize + 1, n + 3))
    BY <2>3, <1>10 DEF ApartFrom, t
  <2>5. /\ n + 3 \in 1..Len(b) + Len(f) /\ (n + 3) - 1 \in 1..Len(b) + Len(f)
        /\ start + (n + 3) = pos + n /\ start + ((n + 3) - 1) = pos + (n - 1)
    BY <2>1, <2>2, <1>1, <1>4, <1>5, <1>10, <1>13
  <2>6. ~LineEndsAt(n)
    <3>1. ~(stream[pos + (n - 1)] = CR /\ stream[pos + n] = LF)
      BY <2>4, <2>5, <1>12
    <3> QED
      BY <3>1, <2>1, NoLineAt
  <2>7. ~HeaderEndsAt(n)
    <3> SUFFICES ASSUME n >= HeaderSize
                 PROVE  HeaderError(SubSeq(Text(n), n - HeaderSize + 1, n))
      BY DEF HeaderEndsAt
    <3> DEFINE w == SubSeq(Text(n), n - HeaderSize + 1, n)
    <3> DEFINE v == SubSeq(t, (n + 3) - HeaderSize + 1, n + 3)
    <3>1. HeaderError(v)
      <4>1. n + 3 >= PrefixSize + HeaderSize
        BY <2>1 DEF PrefixSize, HeaderSize
      <4> QED
        BY <4>1, <2>4
    <3>2. /\ Text(n) \in Seq(Byte) /\ Len(Text(n)) = n
          /\ \A k \in 1..n : Text(n)[k] = stream[pos + k]
      BY <2>1, TextBytes
    <3>3. \A k \in 1..8 : w[k] = Text(n)[n - 8 + k]
      <4>1. n <= Len(Text(n))
        BY <2>1, <3>2
      <4> QED
        BY <4>1, <3>2, <2>1, Window
    <3>4. \A k \in 1..8 : v[k] = t[(n + 3) - 8 + k]
      <4>1. n + 3 \in Nat /\ n + 3 >= HeaderSize /\ n + 3 <= Len(t)
        BY <2>1, <2>5, <1>11 DEF HeaderSize
      <4> QED
        BY <4>1, <1>11, Window
    <3> HIDE DEF w, v
    <3>5. ASSUME NEW k \in 1..8 PROVE w[k] = v[k]
      <4>1. /\ n - 8 + k \in 1..n /\ (n + 3) - 8 + k \in 1..Len(b) + Len(f)
            /\ start + ((n + 3) - 8 + k) = pos + (n - 8 + k)
        BY <2>1, <2>5, <1>1, <1>4 DEF HeaderSize
      <4>2. w[k] = stream[pos + (n - 8 + k)]
        BY <4>1, <3>2, <3>3
      <4>3. v[k] = stream[start + ((n + 3) - 8 + k)]
        BY <4>1, <3>4, <1>12
      <4> QED
        BY <4>1, <4>2, <4>3
    <3>6. w[5] = v[5] /\ w[6] = v[6] /\ w[8] = v[8]
      BY <3>5
    <3>7. HeaderError(w)
      BY <3>1, <3>6, SameHeader
    <3> QED
      BY <3>7 DEF w
  <2> QED
    BY <2>6, <2>7 DEF AtStops
<1>14. HeaderEndsAt(Len(b) + 5) /\ Len(b) + 5 \in AtStops
  <2> DEFINE n == Len(b) + 5
  <2>1. n \in 1..Len(stream) - pos /\ n \in Nat /\ n >= HeaderSize
    BY <1>1, <1>4, <1>5, <1>7, <1>10 DEF HeaderSize
  <2> DEFINE w == SubSeq(Text(n), n - HeaderSize + 1, n)
  <2>2. /\ Text(n) \in Seq(Byte) /\ Len(Text(n)) = n
        /\ \A k \in 1..n : Text(n)[k] = stream[pos + k]
    BY <2>1, TextBytes
  <2>3. \A k \in 1..8 : w[k] = Text(n)[n - 8 + k]
    <3>1. n <= Len(Text(n))
      BY <2>1, <2>2
    <3> HIDE DEF n
    <3> QED
      BY <3>1, <2>1, <2>2, Window
  <2> HIDE DEF w
  <2>4. ASSUME NEW k \in 1..8 PROVE w[k] = f[k]
    <3>1. n - 8 + k \in 1..n /\ pos + (n - 8 + k) = start + Len(b) + k /\ k \in 1..Len(f)
      BY <1>1, <1>4, <1>5, <1>10
    <3>2. w[k] = stream[pos + (n - 8 + k)]
      BY <3>1, <2>2, <2>3
    <3> QED
      BY <3>1, <3>2, <1>8
  <2>5. w[5] = f[5] /\ w[6] = f[6] /\ w[8] = f[8]
    BY <2>4
  <2>6. ~HeaderError(w)
    BY <2>5, <1>5, SameHeader
  <2>7. HeaderEndsAt(n)
    BY <2>1, <2>6 DEF HeaderEndsAt, w
  <2> QED
    BY <2>1, <2>7 DEF AtStops
<1>15. \A k \in AtStops : k >= Len(b) + 5
  <2>1. AtStops \subseteq Int
    BY <1>1 DEF AtStops
  <2> QED
    BY <2>1, <1>1, <1>13
<1> QED
  BY <1>14, <1>15 DEF b

-----------------------------------------------------------------------------
(* Every record is what arrived *)

\* A record was made of bytes that are there, so nothing that arrives later
\* begins where it did.
LastIsOld == last.as # "none" => last.from < Len(stream)

Right(i, as, upto) == as = TakenFor[sent[i].kind] /\ upto = Upto(i)

LEMMA ReplyTakenRightly ==
    ASSUME Unambiguous, ReaderInv, Inside, mode \in {"short", "rejected", "accepted"},
           CanRead(Wanted), CrcIsValid(held \o Ahead(Wanted)),
           NEW i, Starts(i), sent[i].kind \in Sound, Course(i, mode)
    PROVE  Right(i, "reply", pos + Wanted)
<1>1. /\ sent[i] \in Catalogue /\ Len(sent[i].bytes) \in Nat /\ start \in Nat
      /\ ends[i] = start + Len(sent[i].bytes) /\ sent[i].bytes \in Seq(Byte)
  BY PieceIsThere
<1>2. /\ Wanted \in Nat /\ Len(held) \in Nat /\ pos = start + Len(held) /\ Reads(held)
  BY WantedSome, HeldReads
<1>3. /\ mode = "short" => Len(held) = 3 /\ Wanted = StrayReplyLength(held) - 3
                           /\ StrayReplyLength(held) \in 4..8
      /\ mode \in {"rejected", "accepted"} =>
            Len(held) = 8 /\ Wanted = StrayReplyLength(held) - 8
            /\ StrayReplyLength(held) \in Nat
  BY WantedSome
<1>4. CASE sent[i].kind = "reply"
  <2>1. Len(held) <= Len(sent[i].bytes)
    <3>1. CASE mode = "short"
      <4>1. Len(held) = 3 /\ Len(sent[i].bytes) >= 6
        BY <3>1, <1>1, <1>3, <1>4, ReplyShape
      <4> QED
        BY <4>1, <1>1
    <3>2. CASE mode \in {"rejected", "accepted"}
      <4>1. Len(held) = 8 /\ Len(sent[i].bytes) > 8
        BY <3>2, <1>3, <1>4 DEF Course, HeaderSize
      <4> QED
        BY <4>1, <1>1
    <3> QED
      BY <3>1, <3>2
  <2>2. Len(held) + Wanted = Len(sent[i].bytes)
    BY <2>1, <1>4, ReplyIsFound
  <2>3. pos + Wanted = ends[i]
    BY <2>2, <1>1, <1>2
  <2> QED
    BY <2>3, <1>4 DEF Right, TakenFor, Upto
<1>5. CASE sent[i].kind = "frame"
  <2> DEFINE h == held \o Ahead(Wanted)
  <2>0. /\ Len(sent[i].bytes) >= 8 /\ Len(sent[i].bytes) = 8 + PayloadLen(sent[i].bytes)
    BY <1>1, <1>5, FrameShape
  <2>1. Reads(h) /\ Len(h) = Len(held) + Wanted
    BY <1>2, ReadOn
  <2>2. Len(h) \in 1..Len(sent[i].bytes)
    <3>1. CASE mode = "short"
      <4>1. Len(h) = StrayReplyLength(held) /\ StrayReplyLength(held) \in 4..8
        <5>1. Len(held) = 3 /\ Wanted = StrayReplyLength(held) - 3
              /\ StrayReplyLength(held) \in 4..8
          BY <3>1, <1>3
        <5> HIDE DEF h
        <5> QED
          BY <5>1, <2>1
      <4> QED
        BY <4>1, <2>0, <1>1
    <3>2. CASE mode = "accepted"
      <4>1. Len(h) = StrayReplyLength(held) /\ StrayReplyLength(held) \in Nat
            /\ Len(held) = 8
        <5>1. Len(held) = 8 /\ Wanted = StrayReplyLength(held) - 8
              /\ StrayReplyLength(held) \in Nat
          BY <3>2, <1>3
        <5> HIDE DEF h
        <5> QED
          BY <5>1, <2>1
      <4>2. Len(held) >= 3 /\ Len(held) >= 8 /\ Len(held) <= Len(sent[i].bytes)
        BY <4>1, <2>0, <1>1
      <4>3. PayloadLen(held) = PayloadLen(sent[i].bytes)
        BY <4>2, <1>2, PieceTells
      <4>4. 8 + PayloadLen(held) > StrayReplyLength(held) /\ StrayReplyLength(held) > 8
        BY <3>2 DEF ReaderInv, Knows, HeaderSize
      <4> QED
        BY <4>1, <4>3, <4>4, <2>0, <1>1
    <3> QED
      BY <3>1, <3>2, <1>5 DEF Course
  <2>3. h = SubSeq(sent[i].bytes, 1, Len(h))
    <3>1. Len(h) <= Len(sent[i].bytes)
      BY <2>2, <1>1
    <3> QED
      BY <3>1, <2>1, ReadsPiece
  <2>4. PICK q \in Catalogue : q.kind = "reply" /\ q.bytes = h
    BY DEF CrcIsValid
  <2> HIDE DEF h
  <2>5. Len(q.bytes) <= Len(sent[i].bytes)
    BY <2>2, <2>4, <1>1
  <2>6. SubSeq(sent[i].bytes, 1, Len(q.bytes)) # q.bytes
    BY <2>4, <2>5, <1>1, <1>5 DEF Unambiguous
  <2> QED
    BY <2>3, <2>4, <2>6
<1> QED
  BY <1>4, <1>5 DEF Course, Sound

LEMMA FrameTakenRightly ==
    ASSUME ReaderInv, Inside, mode = "payload",
           NEW i, Starts(i), sent[i].kind \in Sound, Course(i, mode)
    PROVE  Right(i, "frame", pos + Wanted)
<1>1. sent[i].kind = "frame"
  BY DEF Course, Sound
<1>2. /\ sent[i] \in Catalogue /\ Len(sent[i].bytes) \in Nat /\ start \in Nat
      /\ ends[i] = start + Len(sent[i].bytes)
  BY PieceIsThere
<1>3. Wanted = PayloadLen(held) /\ Wanted \in Nat /\ Len(held) = 8
      /\ pos = start + Len(held) /\ Reads(held)
  BY WantedSome, HeldReads
<1>4. /\ Len(sent[i].bytes) >= 8 /\ Len(sent[i].bytes) = 8 + PayloadLen(sent[i].bytes)
  BY <1>1, <1>2, FrameShape
<1>5. Len(held) >= 3 /\ Len(held) >= 8 /\ Len(held) <= Len(sent[i].bytes)
  BY <1>2, <1>3, <1>4
<1>6. PayloadLen(held) = PayloadLen(sent[i].bytes)
  BY <1>3, <1>5, PieceTells
<1>7. pos + Wanted = ends[i]
  BY <1>2, <1>3, <1>4, <1>6
<1> QED
  BY <1>1, <1>7 DEF Right, TakenFor, Upto

\* At an AT prefix that begins a sound piece stands an AT response.
LEMMA AtIsText ==
    ASSUME Unambiguous, ReaderInv, mode = "at",
           NEW i, Starts(i), sent[i].kind \in Sound, Course(i, mode)
    PROVE  sent[i].kind \in {"text", "bare"}
<1> SUFFICES ASSUME sent[i].kind = "frame" PROVE FALSE
  BY DEF Course, Sound
<1>1. sent[i] \in Catalogue /\ Len(sent[i].bytes) \in Nat
  BY PieceIsThere
<1>2. Inside /\ held = AT /\ Len(held) = 3
  BY DEF Inside, ReaderInv, Knows, PrefixSize
<1>3. Reads(held)
  BY <1>2, HeldReads
<1>4. Len(held) <= Len(sent[i].bytes)
  <2>1. Len(sent[i].bytes) >= 8
    BY <1>1, FrameShape
  <2> QED
    BY <2>1, <1>1, <1>2
<1>5. held = SubSeq(sent[i].bytes, 1, 3)
  <2>1. held = SubSeq(sent[i].bytes, 1, Len(held))
    BY <1>3, <1>4, ReadsPiece
  <2> QED
    BY <2>1, <1>2
<1>6. SubSeq(sent[i].bytes, 1, 3) # AT
  BY <1>1 DEF Unambiguous, PrefixSize
<1> QED
  BY <1>2, <1>5, <1>6

\* What the code's loop stops at when the response is the catalogue's.
LEMMA TextStops ==
    ASSUME Unambiguous, ReaderInv, mode = "at", NEW i, Starts(i),
           sent[i].kind \in {"text", "bare"}, Delimited(i)
    PROVE  \/ AtStops = {} /\ Len(stream) = Upto(i)
           \/ \E n \in AtStops :
                /\ \A k \in AtStops : k >= n
                /\ (IF HeaderEndsAt(n) THEN pos + n - HeaderSize ELSE pos + n) = Upto(i)
<1>1. /\ sent[i] \in Catalogue /\ Len(sent[i].bytes) \in Nat /\ start \in Nat
      /\ Upto(i) = start + Len(sent[i].bytes) /\ i \in 1..Len(sent)
  BY PieceIsThere DEF Upto
<1>2. pos = start + 3
  BY AtPiece
<1>2a. ASSUME NEW L \in Nat, L = Len(sent[i].bytes)
      PROVE  pos + (L - 3) = Upto(i) /\ pos + (L + 5) - 8 = Upto(i)
  <2>1. Upto(i) = start + L /\ start \in Nat /\ pos = start + 3
    BY <1>1, <1>2, <1>2a
  <2>2. start + 3 + (L - 3) = start + L /\ start + 3 + (L + 5) - 8 = start + L
    BY <2>1
  <2> QED
    BY <2>1, <2>2
<1>3. CASE sent[i].kind = "text"
  <2> DEFINE n == Len(sent[i].bytes) - 3
  <2>1. PlainLine(sent[i].bytes)
    BY <1>1, <1>3 DEF Unambiguous
  <2>2. n \in AtStops /\ ~HeaderEndsAt(n) /\ \A k \in AtStops : k >= n
    BY <2>1, LineStops
  <2>3. pos + n = Upto(i)
    BY <1>1, <1>2a
  <2> HIDE DEF n
  <2> QED
    BY <2>2, <2>3
<1>4. CASE sent[i].kind = "bare"
  <2>1. Plain(sent[i].bytes, Len(sent[i].bytes))
        /\ \A q \in Catalogue : q.kind = "frame" => ApartFrom(sent[i].bytes, q.bytes)
    BY <1>1, <1>4 DEF Unambiguous
  <2>2. CASE i = Len(sent)
    BY <2>1, <2>2, <1>1, BareAlone, LastEnds
  <2>3. CASE i # Len(sent)
    <3> DEFINE n == Len(sent[i].bytes) + 5
    <3>1. sent[i + 1].kind = "frame"
      BY <2>3, <1>4 DEF Delimited
    <3>2. sent[i + 1] \in Catalogue
      <4>1. i + 1 \in 1..Len(sent) /\ sent \in Seq(Catalogue)
        BY <2>3, <1>1 DEF ReaderInv, TypeOK
      <4> QED
        BY <4>1
    <3>3. Len(sent[i].bytes) >= 3
      BY <1>1, <1>4, TextShape
    <3>4. n \in AtStops /\ HeaderEndsAt(n) /\ \A k \in AtStops : k >= n
      BY <2>1, <2>3, <3>1, <3>2, <3>3, BareThenFrame
    <3>5. pos + n - HeaderSize = Upto(i)
      BY <1>1, <1>2a DEF HeaderSize
    <3> HIDE DEF n
    <3> QED
      BY <3>4, <3>5
  <2> QED
    BY <2>2, <2>3
<1> QED
  BY <1>3, <1>4

LEMMA AtStopTakenRightly ==
    ASSUME Unambiguous, ReaderInv, AtStop, NEW i, Starts(i),
           sent[i].kind \in {"text", "bare"}, Delimited(i)
    PROVE  Right(i, last'.as, last'.upto)
<1>1. mode = "at"
  BY DEF AtStop
<1>2. PICK m \in AtStops :
        /\ \A k \in AtStops : m <= k
        /\ Finish("text", IF HeaderEndsAt(m) THEN pos + m - HeaderSize ELSE pos + m)
  BY DEF AtStop
<1>3. PICK n \in AtStops :
        /\ \A k \in AtStops : k >= n
        /\ (IF HeaderEndsAt(n) THEN pos + n - HeaderSize ELSE pos + n) = Upto(i)
  BY <1>1, <1>2, TextStops
<1>4. m = n
  <2>1. m \in Int /\ n \in Int /\ m <= n /\ m >= n
    <3>1. Len(stream) - pos \in Int
      BY DEF ReaderInv, TypeOK
    <3> QED
      BY <3>1, <1>2, <1>3 DEF AtStops
  <2> QED
    BY <2>1
<1>5. last'.as = "text" /\ last'.upto = Upto(i)
  BY <1>2, <1>3, <1>4 DEF Finish
<1> QED
  BY <1>5 DEF Right, TakenFor

LEMMA AtIdleTakenRightly ==
    ASSUME Unambiguous, ReaderInv, AtIdle, NEW i, Starts(i),
           sent[i].kind \in {"text", "bare"}, Delimited(i)
    PROVE  Right(i, last'.as, last'.upto)
<1>1. mode = "at" /\ AtStops = {} /\ last'.as = "text" /\ last'.upto = Len(stream)
  BY DEF AtIdle, Finish
<1>2. Len(stream) = Upto(i)
  BY <1>1, TextStops
<1> QED
  BY <1>1, <1>2 DEF Right, TakenFor

\* Whatever ends a record that begins with a sound piece takes the whole piece
\* for what it is.
LEMMA TakenRightly ==
    ASSUME Unambiguous, ReaderInv, OnCourse, Read, last' # last,
           NEW i, Starts(i), sent[i].kind \in Sound, Delimited(i)
    PROVE  Right(i, last'.as, last'.upto)
<1>1. mode # "closed" /\ ~EofEnds /\ ~ReadFirst
  BY ReadMoves DEF EofEnds, Close, ReadFirst, Continue
<1>2. Inside /\ mode # "boundary"
  BY <1>1, ReadMoves DEF Inside
<1>3. Course(i, mode)
  BY <1>1, <1>2 DEF OnCourse, Starts
<1>4. CASE ReadShort \/ ReadRejected \/ ReadAccepted
  <2>1. /\ mode \in {"short", "rejected", "accepted"}
        /\ CanRead(Wanted) /\ CrcIsValid(held \o Ahead(Wanted))
        /\ last' = [as |-> "reply", from |-> start, upto |-> pos + Wanted]
    BY <1>4 DEF ReadShort, ReadRejected, ReadAccepted, Finish, Continue, Close
  <2>2. Right(i, "reply", pos + Wanted)
    BY <2>1, <1>2, <1>3, ReplyTakenRightly
  <2> QED
    BY <2>1, <2>2
<1>5. CASE ReadPayload
  <2>1. mode = "payload" /\ last' = [as |-> "frame", from |-> start, upto |-> pos + Wanted]
    BY <1>5 DEF ReadPayload, Finish
  <2>2. Right(i, "frame", pos + Wanted)
    BY <2>1, <1>2, <1>3, FrameTakenRightly
  <2> QED
    BY <2>1, <2>2
<1>6. CASE DiscardAvailable \/ Resync
  <2>1. mode \in {"discard", "resync"}
    BY <1>6 DEF DiscardAvailable, Resync
  <2> QED
    BY <2>1, <1>3 DEF Course, Sound
<1>7. CASE AtStop \/ AtIdle
  <2>1. mode = "at"
    BY <1>7 DEF AtStop, AtIdle
  <2>2. sent[i].kind \in {"text", "bare"}
    BY <2>1, <1>3, AtIsText
  <2> QED
    BY <2>2, <1>7, AtStopTakenRightly, AtIdleTakenRightly
<1>8. CASE ReadPrefix \/ ReadHeader \/ TimeOut
  BY <1>8 DEF ReadPrefix, ReadHeader, TimeOut, Continue, Close
<1> QED
  BY <1>1, <1>4, <1>5, <1>6, <1>7, <1>8 DEF Read

\* A record begins where the loop's start says.
LEMMA RecordsBegin ==
    ASSUME Read
    PROVE  last' = last \/ (last'.from = start /\ ~ReadFirst /\ ~EofEnds)
BY DEF Read, ReadFirst, ReadPrefix, ReadShort, ReadHeader, ReadRejected, ReadAccepted,
       ReadPayload, TimeOut, DiscardAvailable, Resync, AtStop, AtIdle, EofEnds,
       Continue, Close, Finish

RecordsInv == RecordsTrue /\ LastIsOld

LEMMA RecordsInit == Init => RecordsInv
BY DEF Init, RecordsInv, RecordsTrue, LastIsOld, NoRecord

LEMMA RecordsArrive ==
    ASSUME ReaderInv, RecordsInv, NEW p \in Catalogue, Arrive(p)
    PROVE  RecordsInv'
<1>1. last' = last /\ last \in [as : {"none", "frame", "reply", "text", "drop"}, from : Nat, upto : Nat]
  BY DEF Arrive, ReaderInv, TypeOK
<1>2. Len(stream') >= Len(stream) /\ Len(stream') \in Nat /\ Len(stream) \in Nat
  <2>1. stream \in Seq(Byte) /\ p.bytes \in Seq(Byte)
    BY PieceBytes DEF ReaderInv, TypeOK
  <2>2. Len(stream') = Len(stream) + Len(p.bytes)
    BY <2>1, ConcatProperties DEF Arrive
  <2> QED
    BY <2>1, <2>2
<1>3. LastIsOld'
  <2>1. last.from \in Nat
    BY <1>1
  <2>2. last.as # "none" => last.from < Len(stream)
    BY DEF RecordsInv, LastIsOld
  <2> QED
    BY <2>1, <2>2, <1>1, <1>2 DEF LastIsOld
<1>4. ASSUME NEW i \in 1..Len(sent'), last'.as # "none", last'.from = From(i)',
             sent'[i].kind \in Sound, Delimited(i)'
      PROVE  last'.as = TakenFor[sent'[i].kind] /\ last'.upto = Upto(i)'
  <2>1. last.from < Len(stream) /\ last.from \in Nat
    BY <1>1, <1>4 DEF RecordsInv, LastIsOld
  <2>2. i \in 1..Len(sent)
    <3>1. last.from = From(i)'
      BY <1>1, <1>4
    <3> QED
      BY <3>1, <2>1, <1>2, ArrivesBehind
  <2>3. sent'[i] = sent[i] /\ From(i)' = From(i) /\ Upto(i)' = Upto(i) /\ i # Len(sent')
    BY <2>2, ArrivesBehind
  <2>4. Delimited(i)
    <3> SUFFICES ASSUME sent[i].kind = "bare", i # Len(sent) PROVE sent[i + 1].kind = "frame"
      BY DEF Delimited
    <3>1. sent'[i + 1].kind = "frame"
      BY <2>3, <1>4 DEF Delimited
    <3>2. i + 1 \in 1..Len(sent) /\ i + 1 \in 1..Len(sent')
      <4>1. Len(sent) \in Nat /\ Len(sent') = Len(sent) + 1
        BY ArrivesBehind DEF ReaderInv, TypeOK
      <4> QED
        BY <4>1, <2>2
    <3> QED
      BY <3>1, <3>2, ArrivesBehind
  <2> QED
    BY <2>2, <2>3, <2>4, <1>1, <1>4 DEF RecordsInv, RecordsTrue
<1>5. RecordsTrue'
  BY <1>4 DEF RecordsTrue
<1> QED
  BY <1>3, <1>5 DEF RecordsInv

LEMMA RecordsRead ==
    ASSUME Unambiguous, ReaderInv, OnCourse, RecordsInv, Read
    PROVE  RecordsInv'
<1>0. sent' = sent /\ stream' = stream /\ ends' = ends
  BY ReadMoves DEF arrived
<1>1. CASE last' = last
  BY <1>0, <1>1 DEF RecordsInv, RecordsTrue, LastIsOld, Delimited, From, Upto
<1>2. CASE last' # last
  <2>1. last'.from = start /\ ~ReadFirst /\ ~EofEnds
    BY <1>2, RecordsBegin
  <2>2. Inside
    BY <2>1, ReadMoves DEF Inside
  <2>3. start < Len(stream)
    BY <2>2, HeldReads
  <2>4. ASSUME NEW i \in 1..Len(sent), start = From(i), sent[i].kind \in Sound, Delimited(i)
        PROVE  last'.as = TakenFor[sent[i].kind] /\ last'.upto = Upto(i)
    BY <2>4, <1>2, TakenRightly DEF Starts, Right
  <2>5. RecordsTrue'
    BY <2>1, <2>4, <1>0 DEF RecordsTrue, Delimited, From, Upto
  <2> QED
    BY <2>1, <2>3, <2>5, <1>0 DEF RecordsInv, LastIsOld
<1> QED
  BY <1>1, <1>2

LEMMA RecordsStep ==
    ASSUME Unambiguous
    PROVE  ReaderInv /\ OnCourse /\ RecordsInv /\ [Next]_vars => RecordsInv'
<1> SUFFICES ASSUME ReaderInv, OnCourse, RecordsInv, [Next]_vars PROVE RecordsInv'
  OBVIOUS
<1>1. ASSUME NEW p \in Catalogue, Arrive(p) PROVE RecordsInv'
  BY <1>1, RecordsArrive
<1>2. CASE PeerCloses
  BY <1>2 DEF PeerCloses, RecordsInv, RecordsTrue, LastIsOld, Delimited, From, Upto, arrived
<1>3. CASE Read
  BY <1>3, RecordsRead
<1>4. CASE UNCHANGED vars
  BY <1>4 DEF vars, RecordsInv, RecordsTrue, LastIsOld, Delimited, From, Upto
<1> QED
  BY <1>1, <1>2, <1>3, <1>4 DEF Next

\* Where nothing in the catalogue reads as something else, the reader takes every
\* frame, whole reply and AT response for exactly what it is, from its first byte
\* to its last, however the pieces were glued together.
THEOREM RecordsAreTrue ==
    ASSUME Unambiguous
    PROVE  Spec => []RecordsTrue
<1>1. ReaderInv /\ OnCourse /\ RecordsInv /\ [Next]_vars => RecordsInv'
  BY RecordsStep
<1>2. RecordsInv => RecordsTrue
  BY DEF RecordsInv
<1> QED
  BY <1>1, <1>2, RecordsInit, ReaderInvariant, CourseInvariant, PTL DEF Spec

-----------------------------------------------------------------------------
(* Resynchronisation *)

\* The drop of a resynchronisation stops at or before a frame that arrived last:
\* take_available may have taken the frame, but unread gives all of it back.
GivesFrameBack ==
    mode = "resync" /\ mode' = "boundary" =>
        LET n == Len(sent) IN
        n > 0 /\ sent[n].kind = "frame" /\ From(n) > start => pos' > start /\ pos' <= From(n)

LEMMA ResyncGivesBack ==
    ASSUME ReaderInv, Resync, NEW n, n = Len(sent), n > 0, sent[n].kind = "frame",
           From(n) > start
    PROVE  pos' > start /\ pos' <= From(n)
<1>1. Inside
  BY DEF Resync, Inside
<1>2. /\ Reads(Junk) /\ start + Len(Junk) = Len(stream)
      /\ Len(Junk) \in Nat /\ start \in Nat /\ Len(stream) \in Nat
  BY <1>1, JunkIsRest
<1>3. n \in 1..Len(sent) /\ n \in Nat \ {0} /\ sent \in Seq(Catalogue)
  BY DEF ReaderInv, TypeOK
<1>4. sent[n] \in Catalogue /\ Lies(n) /\ Len(stream) = From(n + 1)
  BY <1>3 DEF ReaderInv, Layout
<1> DEFINE f == sent[n].bytes
<1>5. f \in Seq(Byte) /\ Len(f) \in Nat
  BY <1>4, PieceBytes
<1>6. Len(f) >= 8 /\ ~HeaderError(f) /\ Len(f) = 8 + PayloadLen(f)
  BY <1>4, FrameShape
<1>7. /\ Len(stream) = From(n) + Len(f) /\ From(n) \in Nat
      /\ \A j \in 1..Len(f) : stream[From(n) + j] = f[j]
  <2>1. From(n + 1) = ends[n]
    BY <1>3 DEF From
  <2> QED
    BY <2>1, <1>4 DEF Lies
<1> HIDE DEF f
<1> DEFINE o == From(n) - start
<1>8. o \in 1..Len(Junk) - HeaderSize /\ o \in Nat /\ o + Len(f) = Len(Junk)
  BY <1>2, <1>5, <1>6, <1>7 DEF HeaderSize
<1> DEFINE w == SubSeq(Junk, o + 1, o + HeaderSize)
<1>9. ASSUME NEW k \in 1..8 PROVE w[k] = f[k]
  <2>1. Junk \in Seq(Byte) /\ \A j \in 1..Len(Junk) : Junk[j] = stream[start + j]
    BY <1>2 DEF Reads
  <2>2. o + 8 <= Len(Junk) /\ o + k \in 1..Len(Junk) /\ start + (o + k) = From(n) + k
        /\ k \in 1..Len(f)
    <3>1. k \in Int /\ 1 <= k /\ k <= 8 /\ k \in 1..Len(f)
      BY <1>5, <1>6
    <3>2. start + o = From(n)
      BY <1>2, <1>7
    <3> HIDE DEF o
    <3>3. o + 8 <= Len(Junk) /\ o + k \in 1..Len(Junk)
      BY <3>1, <1>2, <1>8 DEF HeaderSize
    <3>4. start + (o + k) = From(n) + k
      BY <3>1, <3>2, <1>2, <1>8
    <3> QED
      BY <3>1, <3>3, <3>4
  <2> HIDE DEF o
  <2>3. \A j \in 1..8 : SubSeq(Junk, o + 1, o + 8)[j] = Junk[o + j]
    BY <2>1, <2>2, <1>8, Slice
  <2>4. w[k] = Junk[o + k]
    BY <2>3 DEF HeaderSize
  <2>5. Junk[o + k] = f[k]
    BY <2>1, <2>2, <1>7
  <2> QED
    BY <2>4, <2>5
<1> HIDE DEF w, o
<1>10. PayloadLen(w) = PayloadLen(f) /\ ~HeaderError(w)
  <2>1. w[5] = f[5] /\ w[6] = f[6] /\ w[8] = f[8]
    BY <1>9
  <2> QED
    BY <2>1, <1>6, SameHeader
<1>11. o \in TrailingFrames(Junk)
  <2>1. o + HeaderSize + PayloadLen(w) = Len(Junk)
    <3>1. PayloadLen(f) \in Int
      <4>1. Len(f) >= HeaderSize
        BY <1>6 DEF HeaderSize
      <4> QED
        BY <4>1, <1>5, PayloadLenInt
    <3> QED
      BY <3>1, <1>6, <1>8, <1>10 DEF HeaderSize
  <2> QED
    BY <2>1, <1>8, <1>10 DEF TrailingFrames, w
<1>12. PICK q \in TrailingFrames(Junk) :
         /\ \A r \in TrailingFrames(Junk) : q <= r
         /\ Finish("drop", Len(stream) - Len(Junk) + q)
  BY <1>11 DEF Resync, Junk
<1>13. q \in 1..Len(Junk) - HeaderSize /\ q <= o
  BY <1>11, <1>12 DEF TrailingFrames
<1>14. pos' = start + q
  BY <1>2, <1>12, <1>13 DEF Finish, HeaderSize
<1> QED
  BY <1>2, <1>7, <1>13, <1>14 DEF o, HeaderSize

LEMMA OnlyResyncLeaves ==
    ASSUME [Next]_vars, mode = "resync", mode' = "boundary"
    PROVE  Resync
BY DEF Next, Read, Arrive, PeerCloses, ReadFirst, ReadPrefix, ReadShort, ReadHeader,
       ReadRejected, ReadAccepted, ReadPayload, TimeOut, DiscardAvailable, AtStop,
       AtIdle, EofEnds, Close, vars

\* For every catalogue: no resynchronisation drops a byte of the frame that
\* arrived last, and none fails to move on.
THEOREM ResyncKeepsFrame == Spec => [][GivesFrameBack]_vars
<1>1. ReaderInv /\ [Next]_vars => GivesFrameBack
  <2> SUFFICES ASSUME ReaderInv, [Next]_vars PROVE GivesFrameBack
    OBVIOUS
  <2>1. Len(sent) \in Nat
    BY DEF ReaderInv, TypeOK
  <2> QED
    BY <2>1, OnlyResyncLeaves, ResyncGivesBack DEF GivesFrameBack
<1> QED
  BY <1>1, ReaderInvariant, PTL DEF Spec

=============================================================================
