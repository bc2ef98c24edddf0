------------------------------- MODULE Splitter -------------------------------
(* The packet splitter of an upload to Telegram's own WebSocket (splitter.rs,     *)
(* as bridge_ws uses it): bytes come in reads of any size and have to leave as    *)
(* messages of exactly one MTProto packet.  The keystream does not change where   *)
(* a packet ends and is left out; a byte of a payload is its packet's number, so   *)
(* that it would pass for a length if it were taken for a header.                 *)
EXTENDS Integers, Sequences

Seqs == INSTANCE SequencesExt

CONSTANTS Proto,        \* transport: "abridged" or "intermediate" (padded or not)
          MaxPackets,   \* packets in a stream
          Lengths,      \* lengths of their payloads
          MaxTail       \* bytes of a stream that is no MTProto

VARIABLES
  proto,     \* the transport of the session
  packets,   \* what the client sends, packet by packet
  pos,       \* bytes read so far
  split,     \* the splitter
  messages,  \* what has been sent to Telegram
  upEnd      \* "no", "refused", or "flushed" at the end of the client's stream

splitVars == <<proto, packets, pos, split, messages, upEnd>>

MAX_PACKET_LEN == 16 * 1024 * 1024
WordBytes == 4

ASSUME SplitterAssumption ==
  /\ Proto \subseteq {"abridged", "intermediate"}
  /\ MaxPackets \in Nat /\ MaxTail \in Nat
  /\ Lengths \subseteq 1..MAX_PACKET_LEN

New == [packet |-> <<>>, header |-> <<>>, len |-> 0, disabled |-> FALSE,
        rest |-> FALSE, parts |-> <<>>, error |-> FALSE]

Extended(byte) == byte \in {127, 255}
Number(low, middle, high) == low + 256 * (middle + 256 * high)

\* required_header_len.
HeaderLen(header) ==
  IF proto = "abridged" /\ (header = <<>> \/ ~Extended(header[1])) THEN 1 ELSE 4

\* Mutant: the request for an acknowledgement counts as part of the length.
PayloadLenUnmasked(header) ==
  IF proto # "abridged"
  THEN Number(header[1], header[2], Number(header[3], header[4], 0))
  ELSE WordBytes * (IF Extended(header[1]) THEN Number(header[2], header[3], header[4])
                                            ELSE header[1])

\* parsed_packet_len of a complete header: the length of the payload.
PayloadLen(header) ==
  IF proto # "abridged"
  THEN Number(header[1], header[2], Number(header[3], header[4] % 128, 0))
  ELSE WordBytes * (IF Extended(header[1]) THEN Number(header[2], header[3], header[4])
                                            ELSE header[1] % 128)

\* One byte of the loop of split_and_encrypt.
HeaderByte(s, byte) ==
  LET header == Append(s.header, byte)
      packet == Append(s.packet, byte)
      length == PayloadLen(header)
  IN  IF Len(header) < HeaderLen(header) THEN [s EXCEPT !.header = header, !.packet = packet]
      ELSE IF length = 0 THEN [s EXCEPT !.packet = packet, !.rest = TRUE, !.header = <<>>]
      ELSE IF length > MAX_PACKET_LEN THEN [s EXCEPT !.error = TRUE]
      ELSE [s EXCEPT !.header = header, !.packet = packet, !.len = length + Len(header)]

PayloadByte(s, byte) ==
  LET packet == Append(s.packet, byte)
  IN  IF Len(packet) = s.len
      THEN [s EXCEPT !.packet = <<>>, !.header = <<>>, !.len = 0, !.parts = Append(s.parts, packet)]
      ELSE [s EXCEPT !.packet = packet]

TakeByte(s, byte) ==
  IF s.error THEN s
  ELSE IF s.rest THEN [s EXCEPT !.packet = Append(s.packet, byte)]
  ELSE IF s.len = 0 THEN HeaderByte(s, byte) ELSE PayloadByte(s, byte)

\* The splitter after each byte of a read.
Taken(s, chunk) ==
  LET taken[n \in 0..Len(chunk)] ==
        IF n = 0 THEN s ELSE TakeByte(taken[n - 1], chunk[n])
  IN  taken

\* split_and_encrypt.  A length of zero is no MTProto: the rest of the read joins
\* the header, and from then on reads are passed through.
SplitRead(s, chunk) ==
  IF s.disabled THEN [s EXCEPT !.parts = <<chunk>>]
  ELSE LET t == Taken(s, chunk)[Len(chunk)]
       IN  IF t.rest
           THEN [t EXCEPT !.parts = Append(t.parts, t.packet), !.packet = <<>>,
                          !.rest = FALSE, !.disabled = TRUE]
           ELSE t

Stream == Seqs!FlattenSeq(packets)

\* A read of the client: its messages are sent one by one; on an error none of the
\* read's packets is, and the upload ends.
ReadsChunk(n) ==
  /\ upEnd = "no" /\ pos + n <= Len(Stream)
  /\ pos' = pos + n
  /\ LET t == SplitRead(split, SubSeq(Stream, pos + 1, pos + n))
     IN  IF t.error
         THEN upEnd' = "refused" /\ UNCHANGED <<split, messages>>
         ELSE /\ split' = [t EXCEPT !.parts = <<>>]
              /\ messages' = messages \o t.parts
              /\ UNCHANGED upEnd
  /\ UNCHANGED <<proto, packets>>

\* The client's end, anywhere: flush sends what is left of a packet.
FlushesUpload ==
  /\ upEnd = "no"
  /\ upEnd' = "flushed"
  /\ messages' = IF split.packet = <<>> THEN messages ELSE Append(messages, split.packet)
  /\ split' = [split EXCEPT !.packet = <<>>, !.header = <<>>, !.len = 0]
  /\ UNCHANGED <<proto, packets, pos>>

----------------------------------------------------------------------------
(* Streams.                                                                   *)

Payload(i, n) == [j \in 1..n |-> i]

\* Bytes of a number, the lowest first.
Byte(n)  == n % 256
Above(n) == n \div 256

\* The headers that announce a payload of this length: short and long form, with
\* and without the request for an acknowledgement.
Headers(length) ==
  LET words == length \div WordBytes
      high  == Above(length)
  IN  IF proto = "abridged"
      THEN {<<first, Byte(words), Byte(Above(words)), Above(Above(words))>> : first \in {127, 255}}
             \cup (IF words < 127 THEN {<<words>>, <<128 + words>>} ELSE {})
      ELSE {<<Byte(length), Byte(high), Byte(Above(high)), Above(Above(high)) + ack>> : ack \in {0, 128}}

\* Packets of the lengths that the transport can announce.
Packets(i) ==
  UNION {{h \o Payload(i, n) : h \in Headers(n)} :
           n \in {m \in Lengths : proto = "abridged" => m % WordBytes = 0}}

\* More than any packet may have; a length of zero and what follows it.
TooLong == Headers(MAX_PACKET_LEN + WordBytes)
Foreign == {h \o Payload(9, n) : h \in Headers(0), n \in 0..MaxTail}

SplitInit ==
  /\ proto \in Proto
  /\ \E n \in 0..MaxPackets, last \in {<<>>} \cup {<<p>> : p \in TooLong \cup Foreign} :
       \E whole \in [1..n -> UNION {Packets(i) : i \in 1..n}] :
         /\ \A i \in 1..n : whole[i] \in Packets(i)
         /\ packets = whole \o last
  /\ pos = 0 /\ split = New /\ messages = <<>> /\ upEnd = "no"

SplitNext == FlushesUpload \/ \E n \in 1..Len(Stream) : ReadsChunk(n)

SplitSpec == SplitInit /\ [][SplitNext]_splitVars

----------------------------------------------------------------------------

SplitTypeOK ==
  /\ pos \in 0..Len(Stream) /\ upEnd \in {"no", "refused", "flushed"}
  /\ split.parts = <<>> /\ ~split.rest /\ ~split.error

\* However the stream is cut into reads, what leaves is cut into its packets: until
\* a header says that this is no MTProto each message is one packet of the client,
\* sent with the read that completes it, and no byte that was read is lost, doubled
\* or out of its order, except with a stream that is refused (split_and_encrypt,
\* flush).
PacketsWhole ==
  LET sent == Seqs!FlattenSeq(messages)
  IN  /\ upEnd # "refused" => sent \o split.packet = SubSeq(Stream, 1, pos)
      /\ upEnd = "refused" => Seqs!IsPrefix(sent, Stream)
      /\ ~split.disabled /\ upEnd = "no" =>
           /\ Seqs!IsPrefix(messages, packets)
           /\ LET next == Len(messages) + 1
              IN  next \in DOMAIN packets => Len(split.packet) < Len(packets[next])
=============================================================================
