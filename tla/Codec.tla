-------------------------------- MODULE Codec --------------------------------
(***************************************************************************)
(* The ALRD wire format (rdp/protocol.rs): validation, encoding, and the   *)
(* decoders, the incremental one with its bounded buffer and the one that  *)
(* reads a frame at a time from a byte stream.                             *)
(*                                                                         *)
(* The wire carries symbols, one per field of fixed width, so the header   *)
(* has six.  A frame is [ty, stream, v] where v is a sequence of sequences *)
(* of symbols: HELLO has one with all its numbers, RESOLVE the port and    *)
(* the name, RESOLVE_OK one for every address, OPEN_ERROR the code and the *)
(* text.  An address is <<1, port, ip>> or <<2, port, ip, scope>>; the     *)
(* IPv6 addresses from Mapped on wrap an IPv4 address.                     *)
(***************************************************************************)
EXTENDS Naturals, Sequences, SequencesExt, FiniteSets

CONSTANTS MAX_FRAME_PAYLOAD, MAX_DATA_PAYLOAD, MAX_HOSTNAME_LEN, MAX_DIAGNOSTIC_LEN,
          MAX_RESOLVE_ADDRESSES, INITIAL_WINDOW, MAX_STREAMS,
          Letter,   \* symbols that may stand in a name or a diagnostic
          Mapped

MAGIC == 9
VERSION == 1
HEADER_LEN == 6
MAX_DECODER_BUFFERED == 2 * (HEADER_LEN + MAX_FRAME_PAYLOAD)

Hello == 1
Resolve == 2
ResolveOk == 3
Open == 4
OpenOk == 5
OpenError == 6
Data == 7
ShutdownWrite == 8
Close == 9
WindowUpdate == 10
Ping == 11
Pong == 12

is_session(ty) == ty \in {Hello, Ping, Pong}
Roles == {1, 2}
OpenErrorCodes == 1 .. 8
CloseReasons == 0 .. 4

VARIABLES
    sent,       \* the frames that the peer was asked to send
    given,   \* the bytes that came of it
    wire,       \* what the transport has yet to deliver
    input,      \* the rest of the chunk that push was called with
    buffer,     \* FrameDecoder.buffer
    start,      \* FrameDecoder.start
    frames,     \* decoded in the current call of push
    delivered,  \* returned by earlier calls
    state       \* "idle", "pushing", or the error that push returned

-----------------------------------------------------------------------------
(* Addresses.                                                              *)

IPV4_ADDRESS_LEN == 3
IPV6_ADDRESS_LEN == 4

canonicalize_address(a) ==
    IF a[1] = 2 /\ a[3] >= Mapped THEN <<1, a[2], a[3] - Mapped>> ELSE a

\* The address at the head of p and the rest, {} when there is none.
decode_address(p) ==
    LET needed == CASE p[1] = 1 -> IPV4_ADDRESS_LEN [] p[1] = 2 -> IPV6_ADDRESS_LEN
    IN  IF p = <<>> THEN {}
        ELSE IF p[1] \notin {1, 2} THEN {}
        ELSE IF Len(p) < needed THEN {}
        ELSE {[address |-> canonicalize_address(SubSeq(p, 1, needed)),
               rest |-> SubSeq(p, needed + 1, Len(p))]}

-----------------------------------------------------------------------------
(* Validation.                                                             *)

validate_stream_id(ty, stream) == is_session(ty) <=> stream = 0

\* Hello::validate, of <<role, min, max, data, window, streams, nonce>>.
validate_hello(h) ==
    /\ h[2] # 0 /\ h[2] <= h[3] /\ VERSION \in h[2] .. h[3]
    /\ h[4] \in 1 .. MAX_DATA_PAYLOAD
    /\ h[5] \in 1 .. INITIAL_WINDOW
    /\ h[6] \in 1 .. MAX_STREAMS

validate_hostname(name) == Len(name) \in 1 .. MAX_HOSTNAME_LEN /\ ToSet(name) \subseteq Letter

validate_address_list(list) ==
    /\ Len(list) <= MAX_RESOLVE_ADDRESSES
    /\ \A i \in DOMAIN list : list[i][2] # 0
    /\ IsInjective([i \in DOMAIN list |-> canonicalize_address(list[i])])

\* Frame::validate.
validate(f) ==
    /\ validate_stream_id(f.ty, f.stream)
    /\ f.ty = Hello => validate_hello(f.v[1])
    /\ f.ty = Resolve => f.v[1][1] # 0 /\ validate_hostname(f.v[2])
    /\ f.ty = ResolveOk => validate_address_list(f.v)
    /\ f.ty \in {Open, OpenOk} => f.v[1][2] # 0
    /\ f.ty = OpenError => Len(f.v[2]) <= MAX_DIAGNOSTIC_LEN /\ ToSet(f.v[2]) \subseteq Letter
    /\ f.ty = Data => Len(f.v[1]) \in 1 .. MAX_DATA_PAYLOAD
    /\ f.ty = WindowUpdate => f.v[1][1] # 0

-----------------------------------------------------------------------------
(* Encoding.                                                               *)

encode_payload(f) ==
    CASE f.ty = Hello -> SubSeq(f.v[1], 1, 3) \o <<0>> \o SubSeq(f.v[1], 4, 7)
      [] f.ty = ResolveOk ->
           <<Len(f.v)>> \o FlattenSeq([i \in DOMAIN f.v |-> canonicalize_address(f.v[i])])
      [] f.ty \in {Open, OpenOk} -> canonicalize_address(f.v[1])
      [] f.ty \in {Resolve, OpenError} -> f.v[1] \o <<Len(f.v[2])>> \o f.v[2]
      [] OTHER -> FlattenSeq(f.v)

\* Frame::encode_into: an invalid frame, or one that is too long, leaves nothing.
encode(f) ==
    LET payload == encode_payload(f)
    IN  IF validate(f) /\ Len(payload) <= MAX_FRAME_PAYLOAD
        THEN <<MAGIC, VERSION, f.ty, 0, f.stream, Len(payload)>> \o payload
        ELSE <<>>

-----------------------------------------------------------------------------
(* Decoding.  A result is {} or the one thing that was decoded.            *)

\* Header::decode.
decode_header(h) ==
    IF /\ h[1] = MAGIC /\ h[2] = VERSION /\ h[3] \in Hello .. Pong /\ h[4] = 0
       /\ validate_stream_id(h[3], h[5]) /\ h[6] <= MAX_FRAME_PAYLOAD
    THEN {[ty |-> h[3], stream |-> h[5], payload_len |-> h[6]]} ELSE {}

\* The addresses of a RESOLVE_OK, one after the other.
decode_addresses(p, count) ==
    LET none == [ok |-> FALSE, list |-> <<>>, rest |-> <<>>]
        upto[i \in 0 .. count] ==
          IF i = 0 THEN [ok |-> TRUE, list |-> <<>>, rest |-> p]
          ELSE IF ~upto[i - 1].ok \/ decode_address(upto[i - 1].rest) = {} THEN none
          ELSE LET got == CHOOSE d \in decode_address(upto[i - 1].rest) : TRUE
               IN  [ok |-> got.address \notin ToSet(upto[i - 1].list),
                    list |-> Append(upto[i - 1].list, got.address), rest |-> got.rest]
    IN  upto[count]

\* Text of the declared length: what is left must be there and belongs to nobody else.
decode_text(p, limit) ==
    IF Len(p) >= 2 /\ p[2] <= limit /\ Len(p) - 2 >= p[2]
    THEN {[first |-> <<p[1]>>, text |-> SubSeq(p, 3, 2 + p[2]), rest |-> SubSeq(p, 3 + p[2], Len(p))]}
    ELSE {}

\* The fields of a payload as [v, rest]; rest is what the cursor has not read.
decode_fields(ty, p) ==
    LET exactly(n) == IF Len(p) = n THEN {[v |-> <<p>>, rest |-> <<>>]} ELSE {}
    IN  CASE ty = Hello ->
               IF Len(p) = 8 /\ p[1] \in Roles /\ p[4] = 0
               THEN {[v |-> <<SubSeq(p, 1, 3) \o SubSeq(p, 5, 8)>>, rest |-> <<>>]} ELSE {}
          [] ty = Resolve ->
               {[v |-> <<t.first, t.text>>, rest |-> t.rest] : t \in decode_text(p, MAX_HOSTNAME_LEN)}
          [] ty = OpenError ->
               {[v |-> <<t.first, t.text>>, rest |-> t.rest] :
                  t \in {t \in decode_text(p, MAX_DIAGNOSTIC_LEN) : t.first[1] \in OpenErrorCodes}}
          [] ty = ResolveOk ->
               IF p = <<>> \/ p[1] > MAX_RESOLVE_ADDRESSES THEN {}
               ELSE LET d == decode_addresses(Tail(p), p[1])
                    IN  IF d.ok THEN {[v |-> d.list, rest |-> d.rest]} ELSE {}
          [] ty \in {Open, OpenOk} ->
               {[v |-> <<d.address>>, rest |-> d.rest] : d \in decode_address(p)}
          [] ty = Data -> IF p = <<>> THEN {} ELSE {[v |-> <<p>>, rest |-> <<>>]}
          [] ty = ShutdownWrite -> IF p = <<>> THEN {[v |-> <<>>, rest |-> <<>>]} ELSE {}
          [] ty = Close -> {d \in exactly(1) : p[1] \in CloseReasons}
          [] ty \in {WindowUpdate, Ping, Pong} -> exactly(1)

\* Faulty: what is left of the payload is ignored.
decode_payload_Trailing(h, p) ==
    {f \in {[ty |-> h.ty, stream |-> h.stream, v |-> d.v] : d \in decode_fields(h.ty, p)} : validate(f)}

decode_payload(h, p) ==
    {f \in {[ty |-> h.ty, stream |-> h.stream, v |-> d.v] :
              d \in {d \in decode_fields(h.ty, p) : d.rest = <<>>}} : validate(f)}

\* Frame::decode_exact: one frame and nothing after it.
decode_exact(bytes) ==
    IF Len(bytes) < HEADER_LEN THEN {}
    ELSE UNION {IF Len(bytes) = HEADER_LEN + h.payload_len
                THEN decode_payload(h, SubSeq(bytes, HEADER_LEN + 1, Len(bytes))) ELSE {} :
                  h \in decode_header(bytes)}

-----------------------------------------------------------------------------
(* FrameDecoder.                                                           *)

\* The complete frames from start on, how far they reach, and whether one is bad: a
\* header as soon as it is there.
decode_available(b, from) ==
    LET run[s \in 0 .. Len(b)] ==
          LET rest == SubSeq(b, s + 1, Len(b))
              stop == [frames |-> <<>>, start |-> s, error |-> FALSE]
          IN  IF Len(rest) < HEADER_LEN THEN stop
              ELSE IF decode_header(rest) = {} THEN [stop EXCEPT !.error = TRUE]
              ELSE LET len == HEADER_LEN + rest[6]
                       got == decode_exact(SubSeq(rest, 1, len))
                   IN  IF Len(rest) < len THEN stop
                       ELSE IF got = {} THEN [stop EXCEPT !.error = TRUE]
                       ELSE [run[s + len] EXCEPT !.frames = SetToSeq(got) \o @]
    IN  run[from]

buffered_len == Len(buffer) - start
compact == SubSeq(buffer, start + 1, Len(buffer))

\* push is called with the next n symbols of the wire.  What the last call left is
\* looked at first: the beginning of a frame, or the frame that was refused, which is
\* refused again.
Push(n) ==
    /\ state # "pushing" /\ n <= Len(wire)
    /\ wire' = SubSeq(wire, n + 1, Len(wire))
    /\ LET first == decode_available(buffer, start) IN
       IF first.error THEN state' = "invalid" /\ UNCHANGED <<input, frames, start>>
       ELSE /\ state' = "pushing" /\ input' = SubSeq(wire, 1, n)
            /\ frames' = first.frames /\ start' = first.start
    /\ UNCHANGED <<sent, given, buffer, delivered>>

\* One turn of push's loop.  An error loses the frames of the call.
Slice ==
    /\ state = "pushing" /\ input # <<>>
    /\ LET available == MAX_DECODER_BUFFERED - buffered_len
           take == IF available < Len(input) THEN available ELSE Len(input)
           grown == compact \o SubSeq(input, 1, take)
           found == decode_available(grown, 0)
       IN  IF available = 0
           THEN /\ state' = "limit" /\ input' = <<>> /\ frames' = <<>>
                /\ buffer' = compact /\ start' = 0
           ELSE /\ buffer' = grown /\ start' = found.start
                /\ IF found.error
                   THEN state' = "invalid" /\ input' = <<>> /\ frames' = <<>>
                   ELSE /\ input' = SubSeq(input, take + 1, Len(input))
                        /\ frames' = frames \o found.frames /\ UNCHANGED state
    /\ UNCHANGED <<sent, given, wire, delivered>>

\* push returns, with compact_if_worthwhile.
Return ==
    /\ state = "pushing" /\ input = <<>>
    /\ delivered' = delivered \o frames /\ frames' = <<>>
    /\ IF start = Len(buffer) \/ start >= HEADER_LEN + MAX_FRAME_PAYLOAD
       THEN buffer' = compact /\ start' = 0 ELSE UNCHANGED <<buffer, start>>
    /\ state' = "idle"
    /\ UNCHANGED <<sent, given, wire, input>>

\* finish: the stream ended on a frame boundary.
finish == buffered_len = 0

DecoderInit(asked, bytes) ==
    /\ sent = asked /\ given = bytes /\ wire = bytes /\ input = <<>> /\ buffer = <<>> /\ start = 0
    /\ frames = <<>> /\ delivered = <<>> /\ state = "idle"

-----------------------------------------------------------------------------
\* read_frame, again and again: what a reader that takes a header and then its payload
\* gets from the same bytes.
read_frames(bytes) ==
    LET run[s \in 0 .. Len(bytes)] ==
          LET rest == SubSeq(bytes, s + 1, Len(bytes))
          IN  IF Len(rest) < HEADER_LEN THEN <<>>
              ELSE IF decode_header(rest) = {} THEN <<>>
              ELSE LET len == HEADER_LEN + rest[6]
                   IN  IF Len(rest) < len THEN <<>>
                       ELSE LET got == decode_exact(SubSeq(rest, 1, len))
                            IN  IF got = {} THEN <<>> ELSE SetToSeq(got) \o run[s + len]
    IN  run[0]

Canonical(f) ==
    IF f.ty \in {ResolveOk, Open, OpenOk}
    THEN [f EXCEPT !.v = [i \in DOMAIN f.v |-> canonicalize_address(f.v[i])]] ELSE f

Bytes(list) == FlattenSeq([i \in DOMAIN list |-> encode(list[i])])
HasIpv4(f) == f.ty \in {ResolveOk, Open, OpenOk} /\ \E i \in DOMAIN f.v : f.v[i][1] = 1
Decoded == delivered \o frames

(***************************************************************************)
(* However the transport cuts and joins the bytes, the decoder returns the *)
(* frames that a reader of one frame at a time would, in order; they       *)
(* survive being encoded again, and the bytes it accepts are that encoding *)
(* with nothing skipped (an IPv4 address may also have come wrapped in an  *)
(* IPv6 one); what a peer of this version encodes it never refuses; a bad  *)
(* header is refused before its payload has come; and it never holds more  *)
(* than its limit, nor reports having reached it.                          *)
(***************************************************************************)
FramesExact ==
    /\ state # "limit" /\ buffered_len <= MAX_DECODER_BUFFERED
    /\ IsPrefix(Decoded, read_frames(given))
    /\ read_frames(Bytes(Decoded)) = Decoded
    /\ IsPrefix(Bytes(Decoded), given) \/ \E f \in ToSet(Decoded) : HasIpv4(f)
    /\ state = "invalid" => given # Bytes(sent)
    /\ state = "idle" /\ buffered_len >= HEADER_LEN => decode_header(compact) # {}
    /\ state = "idle" /\ wire = <<>> => delivered = read_frames(given)
    /\ state = "idle" /\ wire = <<>> /\ given = Bytes(sent) =>
         /\ finish
         /\ LET valid == SelectSeq(sent, validate)
            IN  delivered = [i \in DOMAIN valid |-> Canonical(valid[i])]
=============================================================================
