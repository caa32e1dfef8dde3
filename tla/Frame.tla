-------------------------------- MODULE Frame --------------------------------
(***************************************************************************)
(* ParseFrame and EncodeFrame (src/server/ws/frame.cpp): the header of a   *)
(* WebSocket frame, and how much of the buffer a frame takes.  Bytes are   *)
(* numbers; a buffer is a function from 0, of which the first `size' bytes *)
(* have arrived.  What the payload says, and its mask, are left out.       *)
(*                                                                         *)
(* The state machine hands ParseFrame one frame of a client, byte by byte  *)
(* or in any larger pieces.                                                *)
(***************************************************************************)
EXTENDS Naturals, Sequences

CONSTANTS
  WideBytes,    \* bytes of the long length: 8 in the code
  MaxPayload,   \* kMaxFramePayload
  Lengths,      \* the payload lengths the client may choose
  Beyond        \* bound: bytes that arrive after the frame's

\* What a byte counts that n others follow: 256 to the n.
Weight[n \in Nat] == IF n = 0 THEN 1 ELSE 256 * Weight[n - 1]

\* The long form holds every length.
ASSUME FrameAssumption ==
  /\ WideBytes \in Nat /\ WideBytes >= 3
  /\ MaxPayload \in Nat
  /\ Lengths \subseteq 0 .. Weight[WideBytes] - 1
  /\ Beyond \in Nat

Byte == 0 .. 255

-----------------------------------------------------------------------------
(* RFC 6455, section 5.2: the frames a client may write. *)

\* How the payload length is written: in the second byte itself, in two bytes
\* or in WideBytes.  The shortest is prescribed; others are possible.
Forms == {"short", "two", "wide"}
Fits(len, form) ==
  \/ form = "short" /\ len < 126
  \/ form = "two" /\ len < 65536
  \/ form = "wide"
Shortest(len) ==
  IF len < 126 THEN "short" ELSE IF len < 65536 THEN "two" ELSE "wide"

FrameShapes ==
  {f \in [fin : BOOLEAN, rsv : {0, 1}, opcode : {0, 1, 8}, masked : BOOLEAN,
          len : Lengths, form : Forms] : Fits(f.len, f.form)}

\* The n bytes of a length, most significant first.
BigEndian(len, n) == [i \in 1 .. n |-> (len \div Weight[n - i]) % 256]

WrittenLength(f) ==
  CASE f.form = "short" -> <<f.len>>
    [] f.form = "two"   -> <<126>> \o BigEndian(f.len, 2)
    [] f.form = "wide"  -> <<127>> \o BigEndian(f.len, WideBytes)

\* The bytes before the mask and the payload.
Header(f) ==
  LET length == WrittenLength(f)
      mask   == IF f.masked THEN 128 ELSE 0
      first  == (IF f.fin THEN 128 ELSE 0) + 16 * f.rsv + f.opcode
  IN  <<first, mask + Head(length)>> \o Tail(length)

FrameSize(f) == Len(Header(f)) + (IF f.masked THEN 4 ELSE 0) + f.len

-----------------------------------------------------------------------------
(* frame.cpp. *)

NeedMore == [result |-> "NeedMore"]
Bad      == [result |-> "Bad"]
Got(fin, opcode, len, total) ==
  [result |-> "Got", fin |-> fin, opcode |-> opcode, len |-> len, total |-> total]

\* A variant: the first byte of a long header is enough.
HeaderOfTwo(len7) == 2

\* header_len, by the length field of the second byte.
HeaderLen(len7) ==
  IF len7 = 126 THEN 4 ELSE IF len7 = 127 THEN 2 + WideBytes ELSE 2

\* payload_len, once the header is there.
PayloadLen(p, len7) ==
  IF len7 = 126 THEN p[2] * 256 + p[3]
  ELSE IF len7 = 127
  THEN LET value[i \in 0 .. WideBytes] ==
             IF i = 0 THEN 0 ELSE value[i - 1] * 256 + p[1 + i]
       IN  value[WideBytes]
  ELSE len7

\* A variant: the mask key is not counted.
ParseUnmasked(p, n) ==
  LET len7   == p[1] % 128
      header == HeaderLen(len7)
      len    == PayloadLen(p, len7)
      total  == header + len
  IN  IF n < 2 THEN NeedMore
      ELSE IF (p[0] \div 16) % 8 # 0 \/ p[1] < 128 THEN Bad
      ELSE IF n < header THEN NeedMore
      ELSE IF len > MaxPayload THEN Bad
      ELSE IF n < total THEN NeedMore
      ELSE Got(p[0] >= 128, p[0] % 16, len, total)

\* ParseFrame, in the order of its tests.
ParseFrame(p, n) ==
  LET len7   == p[1] % 128
      header == HeaderLen(len7)
      len    == PayloadLen(p, len7)
      total  == header + 4 + len
  IN  IF n < 2 THEN NeedMore
      ELSE IF (p[0] \div 16) % 8 # 0 \/ p[1] < 128 THEN Bad
      ELSE IF n < header THEN NeedMore
      ELSE IF len > MaxPayload THEN Bad
      ELSE IF n < total THEN NeedMore
      ELSE Got(p[0] >= 128, p[0] % 16, len, total)

\* A variant: 126 is written in the second byte.
EncodeOffByOne(opcode, len) ==
  <<128 + opcode>> \o
    (IF len <= 126 THEN <<len>>
     ELSE IF len < 65536 THEN <<126, (len \div 256) % 256, len % 256>>
     ELSE <<127>> \o BigEndian(len, WideBytes))

\* EncodeFrame's header.
EncodeFrame(opcode, len) ==
  <<128 + opcode>> \o
    (IF len < 126 THEN <<len>>
     ELSE IF len < 65536 THEN <<126, (len \div 256) % 256, len % 256>>
     ELSE <<127>> \o BigEndian(len, WideBytes))

-----------------------------------------------------------------------------
(* A frame arrives. *)

VARIABLES
  frame,   \* the frame the client wrote
  size     \* the bytes of it, and then of what follows, in the buffer

vars == <<frame, size>>

\* The buffer, all that is not the header being equal to filler.
Buffer(filler) ==
  [i \in 0 .. 1 + WideBytes |->
     IF i < Len(Header(frame)) THEN Header(frame)[i + 1] ELSE filler]

\* The same, with filler for what has not arrived either.
Arrived(filler) ==
  [i \in 0 .. 1 + WideBytes |-> IF i < size THEN Buffer(0)[i] ELSE filler]

Parse == ParseFrame(Buffer(0), size)

\* Where cutting the stream matters: in and right after the header, and at the
\* end of the frame.
Cuts ==
  0 .. Len(Header(frame)) + 5
    \union {FrameSize(frame) - 1 + i : i \in 0 .. Beyond}

Init ==
  /\ frame \in FrameShapes
  /\ size = 0

Arrive ==
  /\ \E n \in Cuts : n > size /\ size' = n
  /\ UNCHANGED frame

Next == Arrive

Spec == Init /\ [][Next]_vars

-----------------------------------------------------------------------------
(* Properties. *)

\* ParseFrame looks at no byte that has not arrived: whatever lies behind the
\* end of the buffer, the result is the same.
NothingReadAhead ==
  \A filler \in {127, 254, 255} : ParseFrame(Arrived(filler), size) = Parse

\* What it returns is what the client wrote: a frame that breaks a rule or is
\* too long is refused as soon as its header shows it, before any payload is
\* waited for; any other is returned exactly when it is complete, in whatever
\* form its length is written, and takes its own bytes only.
ParsesTheFrame ==
  Parse =
    IF size < 2 THEN NeedMore
    ELSE IF frame.rsv # 0 \/ ~ frame.masked THEN Bad
    ELSE IF frame.len > MaxPayload /\ size >= Len(Header(frame)) THEN Bad
    ELSE IF frame.len > MaxPayload \/ size < FrameSize(frame) THEN NeedMore
    ELSE Got(frame.fin, frame.opcode, frame.len, FrameSize(frame))

\* What the server writes is the shortest unmasked final frame of that length.
EncodesTheShortest ==
  EncodeFrame(frame.opcode, frame.len) =
    Header([frame EXCEPT !.fin = TRUE, !.rsv = 0, !.masked = FALSE,
                         !.form = Shortest(frame.len)])

=============================================================================
