---------------------------- MODULE BenchmarkWire ----------------------------
(***************************************************************************)
(* The benchmark protocol's wire codec (the protocol.go part of            *)
(* src/internal/benchmark/client_test.go): WriteMessage frames a message   *)
(* as type:u8 | length:u32 | payload, ReadMessage takes one frame off a    *)
(* byte stream, and each message type has an Encode and a Decode of its    *)
(* payload with encoding/binary in big-endian order.  Strings are          *)
(* length:u16 | bytes.                                                     *)
(*                                                                         *)
(* A decoded message is the record the session model works with:          *)
(* [type, seq, n, dir] plus ok, false when Decode returns an error.  n is  *)
(* Start.Size, Ack.Accepted (1 or 0), the length of Data.Data, or          *)
(* Complete.BytesTransferred.  Timestamps and durations, which the session *)
(* model does not track, are written as 0; the bytes of Data.Data as 0;    *)
(* strings are spelled in ASCII.                                           *)
(***************************************************************************)
EXTENDS Integers, Sequences

LOCAL INSTANCE SequencesExt

(* The message type bytes.                                                 *)
Code == [Start |-> 48, Ack |-> 49, Data |-> 50, Complete |-> 51,
         Ping |-> 52, Pong |-> 53, Error |-> 63]

(* The text an Ack carries when the server rejects a Start.                *)
RejectText == "rejected"

(* The bytes of the strings the protocol carries.                          *)
Text ==
  [s \in {"", "upload", "download", "bogus", RejectText} |->
     CASE s = ""         -> << >>
       [] s = "upload"   -> <<117, 112, 108, 111, 97, 100>>
       [] s = "download" -> <<100, 111, 119, 110, 108, 111, 97, 100>>
       [] s = "bogus"    -> <<98, 111, 103, 117, 115>>
       [] OTHER          -> <<114, 101, 106, 101, 99, 116, 101, 100>>]

(* string(data) for bytes that spell none of these strings.               *)
OtherText == "?"

TextOf(bs) ==
  IF \E s \in DOMAIN Text : Text[s] = bs
  THEN CHOOSE s \in DOMAIN Text : Text[s] = bs
  ELSE OtherText

-----------------------------------------------------------------------------
(* Fixed-width integers                                                    *)

(* The byte j places from the right of v in two's complement (floor        *)
(* division keeps the sign bits of a negative v).                          *)
RECURSIVE ByteOf(_, _)
ByteOf(v, j) == IF j = 0 THEN v % 256 ELSE ByteOf(v \div 256, j - 1)

(* binary.Write(w, binary.BigEndian, v) of a k-byte integer: v modulo      *)
(* 2^(8k), most significant byte first.                                    *)
BigEndian(v, k) == [i \in 1..k |-> ByteOf(v, k - i)]

(* binary.Read of an unsigned integer, and of a signed one.               *)
Unsigned(bs) == FoldLeft(LAMBDA acc, b : acc * 256 + b, 0, bs)
Signed(bs) ==
  FoldLeft(LAMBDA acc, b : acc * 256 + b, IF bs[1] >= 128 THEN -1 ELSE 0, bs)

Zeros(n) == [i \in 1..n |-> 0]

(* The bytes of d from position i on.                                      *)
From(d, i) == SubSeq(d, i, Len(d))

-----------------------------------------------------------------------------
(* Encode                                                                  *)

(* Variant of writeString that writes the length in a single byte.        *)
WriteStringShort(s) == BigEndian(Len(Text[s]) % 256, 1) \o Text[s]

(* writeString: uint16(len(s)), then the bytes.                            *)
WriteString(s) == BigEndian(Len(Text[s]) % 65536, 2) \o Text[s]

(* The payload each message type's Encode writes.                          *)
Encode(m) ==
  CASE m.type = "Start" -> BigEndian(m.n, 8) \o WriteString(m.dir)
    [] m.type = "Ack" ->
         <<IF m.n = 1 THEN 1 ELSE 0>>
           \o WriteString(IF m.n = 1 THEN "" ELSE RejectText)
    [] m.type = "Data" -> BigEndian(m.seq, 4) \o BigEndian(m.n, 4) \o Zeros(m.n)
    [] m.type \in {"Ping", "Pong"} -> BigEndian(m.seq, 4) \o BigEndian(0, 8)
    [] m.type = "Complete" -> BigEndian(m.n, 8) \o BigEndian(0, 8)

(* WriteMessage: Encode into a buffer, then the type byte, the uint32      *)
(* length of the buffer and the buffer.                                    *)
WriteMessage(m) ==
  LET p == Encode(m) IN <<Code[m.type]>> \o BigEndian(Len(p), 4) \o p

-----------------------------------------------------------------------------
(* Decode                                                                  *)

Decoded(t, s, n, d) == [type |-> t, seq |-> s, n |-> n, dir |-> d, ok |-> TRUE]
Failed(t) == [type |-> t, seq |-> 0, n |-> 0, dir |-> "", ok |-> FALSE]

(* readString over the bytes d: the string, or OtherText when the bytes    *)
(* run out (io.ReadFull fails).                                            *)
ReadStringOk(d) ==
  Len(d) >= 2 /\ Len(d) >= 2 + Unsigned(SubSeq(d, 1, 2))
ReadString(d) == TextOf(SubSeq(d, 3, 2 + Unsigned(SubSeq(d, 1, 2))))

(* The Decode of the message type t over the payload d, which reads what   *)
(* it needs from the front of d; what follows is not looked at.            *)
Decode(t, d) ==
  CASE t = "Start" ->
         IF Len(d) >= 8 /\ ReadStringOk(From(d, 9))
         THEN Decoded(t, 0, Signed(SubSeq(d, 1, 8)), ReadString(From(d, 9)))
         ELSE Failed(t)
    [] t = "Ack" ->
         IF Len(d) >= 1 /\ ReadStringOk(From(d, 2))
         THEN Decoded(t, 0, IF d[1] /= 0 THEN 1 ELSE 0, "")
         ELSE Failed(t)
    [] t = "Data" ->
         IF Len(d) >= 8 /\ Len(d) >= 8 + Unsigned(SubSeq(d, 5, 8))
         THEN Decoded(t, Unsigned(SubSeq(d, 1, 4)), Unsigned(SubSeq(d, 5, 8)), "")
         ELSE Failed(t)
    [] t \in {"Ping", "Pong"} ->
         IF Len(d) >= 12 THEN Decoded(t, Unsigned(SubSeq(d, 1, 4)), 0, "")
         ELSE Failed(t)
    [] t = "Complete" ->
         IF Len(d) >= 16 THEN Decoded(t, 0, Signed(SubSeq(d, 1, 8)), "")
         ELSE Failed(t)
    [] OTHER -> Failed(t)

(* ReadMessage over the byte stream ch: a whole frame has arrived (it      *)
(* blocks until then), its length, and the stream after it.               *)
HasFrame(ch) == Len(ch) >= 5 /\ Len(ch) >= 5 + Unsigned(SubSeq(ch, 2, 5))
FrameEnd(ch) == 5 + Unsigned(SubSeq(ch, 2, 5))
AfterFrame(ch) == From(ch, FrameEnd(ch) + 1)

(* The type of the first frame's type byte; "Unknown" for any other byte.  *)
TypeOf(b) ==
  IF \E t \in DOMAIN Code : Code[t] = b
  THEN CHOOSE t \in DOMAIN Code : Code[t] = b
  ELSE "Unknown"

(* ReadMessage, then the Decode of the type it returned.                  *)
ReadMessage(ch) == Decode(TypeOf(ch[1]), SubSeq(ch, 6, FrameEnd(ch)))

=============================================================================
