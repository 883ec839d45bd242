------------------------------ MODULE Framing ------------------------------
(***************************************************************************)
(* The two resynchronising stream decoders: EspFrameParser with the        *)
(* receive loop of the drive's serial link (protocol.py, transport.py) and *)
(* RtcmDecoder of the NTRIP stream (ntrip_protocol.py).  Bytes arrive in   *)
(* reads of any size, with noise and damaged frames among them.            *)
(*                                                                         *)
(* Frames are scaled down: a serial frame is a header, one byte of data    *)
(* and a checksum; an RTCM frame is a preamble, its length (0 or 1), that  *)
(* many bytes and a checksum.  The checksum is a sum, which like a short   *)
(* CRC is also right by accident.                                          *)
(***************************************************************************)
EXTENDS Integers, Sequences, SequencesExt

CONSTANT MaxStream      \* bound: bytes of the stream

Byte == 0 .. 2
ESP_HEADER == 1
BATTERY_HEADER == 2
VALID_RX_HEADERS == {ESP_HEADER, BATTERY_HEADER}
ESP_FRAME_SIZE == 3
RTCM_PREAMBLE == 2
RTCM_OVERHEAD == 3      \* preamble, length and checksum

Checksum(s) == FoldLeft(LAMBDA a, b : a + b, 0, s) % 3

VARIABLES
    stream,     \* history: every byte that has arrived
    esp,        \* the parser's _buffer, the frames it gave out
    rtcm,       \* the decoder's buffer, the frames it gave out
    latest      \* _latest_telemetry and _latest_battery_telemetry

framingVars == <<stream, esp, rtcm, latest>>

FramingInit ==
    /\ stream = <<>>
    /\ esp = [buffer |-> <<>>, frames |-> <<>>]
    /\ rtcm = [buffer |-> <<>>, frames |-> <<>>]
    /\ latest = [h \in VALID_RX_HEADERS |-> <<>>]

-----------------------------------------------------------------------------
Prefix(s, n) == SubSeq(s, 1, n)
Rest(s, n) == SubSeq(s, n + 1, Len(s))

SerialFrame(s) ==
    /\ Len(s) = ESP_FRAME_SIZE
    /\ s[1] \in VALID_RX_HEADERS
    /\ s[ESP_FRAME_SIZE] = Checksum(Prefix(s, ESP_FRAME_SIZE - 1))

(* Broken variant: a damaged frame is dropped as a whole.                  *)
AfterDamageWhole(i) == i + ESP_FRAME_SIZE

(* One byte is dropped: the frame may begin inside the damaged one.        *)
AfterDamage(i) == i + 1

(* The result of a decoder that has found a frame before the others.       *)
Found(frame, others) == [others EXCEPT !.frames = <<frame>> \o @]

(* The loop of EspFrameParser.feed over what it has in its buffer: at[i]   *)
(* is what it makes of the bytes from i on.                                *)
EspFeed(s) ==
    LET at[i \in 1 .. Len(s) + 1] ==
            LET b == Rest(s, i - 1)
                header == SelectInSeq(b, LAMBDA x : x \in VALID_RX_HEADERS)
                c == Rest(b, header - 1)
                frame == Prefix(c, ESP_FRAME_SIZE)
                k == i + header - 1
            IN  IF Len(b) < ESP_FRAME_SIZE THEN [buffer |-> b, frames |-> <<>>]
                ELSE IF header = 0 THEN [buffer |-> <<>>, frames |-> <<>>]
                ELSE IF Len(c) < ESP_FRAME_SIZE THEN [buffer |-> c, frames |-> <<>>]
                ELSE IF SerialFrame(frame) THEN Found(frame, at[k + ESP_FRAME_SIZE])
                ELSE at[AfterDamage(k)]
    IN  at[1]

(* validate_rtcm3_frame *)
RtcmFrame(s) ==
    /\ Len(s) >= RTCM_OVERHEAD
    /\ s[1] = RTCM_PREAMBLE
    /\ s[2] \in 0 .. 1 /\ Len(s) = s[2] + RTCM_OVERHEAD
    /\ s[Len(s)] = Checksum(Prefix(s, Len(s) - 1))

(* The loop of RtcmDecoder.feed, likewise.                                 *)
RtcmFeed(s) ==
    LET at[i \in 1 .. Len(s) + 1] ==
            LET b == Rest(s, i - 1)
                frame == Prefix(b, b[2] + RTCM_OVERHEAD)
            IN  IF Len(b) < RTCM_OVERHEAD THEN [buffer |-> b, frames |-> <<>>]
                ELSE IF b[1] # RTCM_PREAMBLE \/ b[2] > 1 THEN at[i + 1]
                ELSE IF Len(b) < b[2] + RTCM_OVERHEAD THEN [buffer |-> b, frames |-> <<>>]
                ELSE IF RtcmFrame(frame) THEN Found(frame, at[i + Len(frame)])
                ELSE at[i + 1]
    IN  at[1]

(* _rx_loop, and a pass of the NTRIP read loop: one read from the stream.  *)
(* The latest frame of each kind is kept.                                  *)
Kept(h, frames) == SelectInSeq(Reverse(frames), LAMBDA f : f[1] = h)

Read(chunk) ==
    LET fed == EspFeed(esp.buffer \o chunk)
        got == RtcmFeed(rtcm.buffer \o chunk)
    IN  /\ Len(stream) + Len(chunk) <= MaxStream
        /\ stream' = stream \o chunk
        /\ esp' = [buffer |-> fed.buffer, frames |-> esp.frames \o fed.frames]
        /\ rtcm' = [buffer |-> got.buffer, frames |-> rtcm.frames \o got.frames]
        /\ latest' = [h \in VALID_RX_HEADERS |->
                        IF Kept(h, fed.frames) = 0 THEN latest[h]
                        ELSE Reverse(fed.frames)[Kept(h, fed.frames)]]

(* Reads of one to four bytes.                                             *)
FramingNext == \E n \in 1 .. 4 : \E chunk \in [1 .. n -> Byte] : Read(chunk)

-----------------------------------------------------------------------------
(* Where frames begin in a stream, with no decoder: wherever a valid one   *)
(* does and no earlier one reaches.                                        *)
FrameAt(s, i, Valid(_), size) ==
    i + size - 1 <= Len(s) /\ Valid(SubSeq(s, i, i + size - 1))

SerialStarts(s) ==
    LET begins[i \in 1 .. Len(s)] ==
            /\ FrameAt(s, i, SerialFrame, ESP_FRAME_SIZE)
            /\ \A j \in 1 .. i - 1 : begins[j] => j + ESP_FRAME_SIZE <= i
    IN  SelectSeq([i \in 1 .. Len(s) |-> i], LAMBDA i : begins[i])

RtcmSize(s, i) == IF i < Len(s) THEN s[i + 1] + RTCM_OVERHEAD ELSE Len(s) + 1
RtcmStarts(s) ==
    LET begins[i \in 1 .. Len(s)] ==
            /\ FrameAt(s, i, RtcmFrame, RtcmSize(s, i))
            /\ \A j \in 1 .. i - 1 : begins[j] => j + RtcmSize(s, j) <= i
    IN  SelectSeq([i \in 1 .. Len(s) |-> i], LAMBDA i : begins[i])

SerialReference ==
    LET at == SerialStarts(stream)
    IN  [k \in DOMAIN at |-> SubSeq(stream, at[k], at[k] + ESP_FRAME_SIZE - 1)]
RtcmReference ==
    LET at == RtcmStarts(stream)
    IN  [k \in DOMAIN at |-> SubSeq(stream, at[k], at[k] + RtcmSize(stream, at[k]) - 1)]

FramingTypeOK ==
    /\ stream \in Seq(Byte) /\ Len(stream) <= MaxStream
    /\ Len(esp.buffer) < ESP_FRAME_SIZE
    /\ \A k \in DOMAIN rtcm.frames : RtcmFrame(rtcm.frames[k])

(* However the reads cut the stream, the serial parser finds exactly the   *)
(* frames that are in it, and the controller holds the last one of each    *)
(* kind; the RTCM decoder finds them in order, late at most by the ones a  *)
(* preamble without its bytes still holds back.  Noise, damaged frames and *)
(* headers inside the data cost nothing but themselves.                    *)
NoFrameLost ==
    /\ esp.frames = SerialReference
    /\ \A h \in VALID_RX_HEADERS :
         LET mine == SelectSeq(SerialReference, LAMBDA f : f[1] = h)
         IN  latest[h] = IF mine = <<>> THEN <<>> ELSE Last(mine)
    /\ IsPrefix(rtcm.frames, RtcmReference)
    /\ Len(rtcm.buffer) < RTCM_OVERHEAD => rtcm.frames = RtcmReference
=============================================================================
