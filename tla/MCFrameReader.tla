---------------------------- MODULE MCFrameReader ----------------------------
EXTENDS FrameReader

P(kind, bytes) == [kind |-> kind, bytes |-> bytes]

\* Replies carry their CRC.  The two frames begin like a short and a long reply;
\* the second long reply decodes as a header.
ShortAlike == P("frame", <<0, 3, 2, 148, 0, 5, 1, 4, 7, 7, 7>>)
LongAlike == P("frame", <<0, 3, 4, 148, 0, 5, 1, 4, 7, 7, 7>>)
ShortReply == P("reply", <<1, 3, 2, 18, 52, 181, 51>>)
LongReply == P("reply", <<1, 3, 6, 0, 255, 0, 0, 0, 0, 53, 97>>)
HeaderReply == P("reply", <<1, 3, 6, 0, 0, 20, 0, 4, 0, 38, 69>>)
CutReply == P("cut", <<1, 3, 6, 0, 255, 0, 0, 0, 0>>)
CutHeader == P("cut", <<1, 3, 6, 0, 0, 20, 0, 4, 0>>)
Leftover == P("scrap", <<0, 0, 0, 0, 0, 0, 0, 108>>)
ShortLeftover == P("scrap", <<0, 0, 108>>)
TextLine == P("text", AT \o <<88, 58, 49, CR, LF>>)
BareText == P("bare", AT \o <<88, 58, 49>>)

\* A frame with one byte of payload: its length field reads as a function code.
TinyFrame == P("frame", <<0, 5, 9, 148, 0, 3, 1, 4, 7>>)

Mixed == {ShortAlike, LongAlike, ShortReply, LongReply, HeaderReply, CutReply,
          CutHeader, Leftover, ShortLeftover, TextLine, BareText}
TextThenTiny == {BareText, TinyFrame}

\* The hypothesis of RecordsAreTrue holds of the one and not of the other.
ASSUME Unambiguity ==
    /\ Catalogue = Mixed => Unambiguous
    /\ Catalogue = TextThenTiny => ~Unambiguous
=============================================================================
