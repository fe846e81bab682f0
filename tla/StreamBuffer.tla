---------------------------- MODULE StreamBuffer ----------------------------
(***************************************************************************)
(* How messages are cut out of a stream (snmplib/snmp_api.c, _sess_read    *)
(* for a transport with NETSNMP_TRANSPORT_FLAG_STREAM, and                 *)
(* asn_check_packet): a read brings any part of what was sent, and what is *)
(* incomplete waits in isp->packet for the next one.                       *)
(*                                                                         *)
(* A byte is [msg, at]: its message and its place in it.  The length of a  *)
(* message is known from its header, of two bytes or more.                 *)
(***************************************************************************)
EXTENDS Integers, Sequences

CONSTANTS Streams,      \* sequences of messages a peer may send: [header, size, wrong]
          RxBuf,        \* bytes a fresh buffer has room for (65536)
          MaxPacket     \* MAXIMUM_PACKET_SIZE

ASSUME StreamBufferAssumption ==
    /\ RxBuf \in Nat \ {0} /\ MaxPacket \in Nat
    /\ \A s \in Streams :
         /\ s \in Seq([header : Nat, size : Nat, wrong : BOOLEAN])
         /\ \A i \in DOMAIN s : 2 <= s[i].header /\ s[i].header <= s[i].size

VARIABLES stream,       \* what the peer sends (never changes)
          wire,         \* bytes sent and not received
          received,     \* history: number of bytes received
          packet,       \* isp->packet, its first isp->packet_len bytes
          room,         \* isp->packet_size; 0 when there is no packet
          processed,    \* messages given to _sess_process_packet
          open          \* the connection is open

streamVars == <<stream, wire, received, packet, room, processed, open>>

BytesOf(s, m) == [k \in 1 .. s[m].size |-> [msg |-> m, at |-> k]]

\* The bytes of the first m messages, and of all of them.
Upto(s) ==
    LET upto[m \in 0 .. Len(s)] == IF m = 0 THEN <<>> ELSE upto[m - 1] \o BytesOf(s, m)
    IN  upto

Bytes(s) == Upto(s)[Len(s)]

StreamInit ==
    /\ stream \in Streams
    /\ wire = Bytes(stream)
    /\ received = 0
    /\ packet = <<>> /\ room = 0
    /\ processed = <<>>
    /\ open = TRUE

\* asn_check_packet: 0 while the header is incomplete, -1, as a length too long
\* for any packet, for what does not begin as a message.
Wrong == -1

CheckPacket(bytes) ==
    LET m == stream[bytes[1].msg]
    IN  IF Len(bytes) < 2 THEN 0
        ELSE IF m.wrong \/ bytes[1].at # 1 THEN Wrong
        ELSE IF Len(bytes) < m.header THEN 0
        ELSE m.size

\* One turn of the loop over a buffer: [done: the packets processed, at: where
\* pptr is, why: "more", or why the loop has ended].
Turn(bytes, loop) ==
    LET rest == SubSeq(bytes, loop.at + 1, Len(bytes))
        pdulen == CheckPacket(rest)
    IN  IF loop.why # "more" THEN loop
        ELSE IF rest = <<>> THEN [loop EXCEPT !.why = "empty"]
        ELSE IF pdulen = Wrong THEN [loop EXCEPT !.why = "broken"]
        ELSE IF pdulen = 0 \/ Len(rest) < pdulen THEN [loop EXCEPT !.why = "partial"]
        ELSE [loop EXCEPT !.done = Append(@, SubSeq(rest, 1, pdulen)), !.at = @ + pdulen]

\* A turn takes a byte at least.
Processing(bytes) ==
    LET loop[i \in 0 .. Len(bytes) + 1] ==
            IF i = 0 THEN [done |-> <<>>, at |-> 0, why |-> "more"]
            ELSE Turn(bytes, loop[i - 1])
    IN  loop[Len(bytes) + 1]

\* Where a read puts its bytes: behind the partial packet, with room for a
\* whole buffer unless there is some left.
Room ==
    IF packet = <<>> THEN RxBuf
    ELSE IF room < Len(packet) + RxBuf THEN RxBuf
    ELSE room - Len(packet)

NewSize ==
    IF packet # <<>> /\ room >= Len(packet) + RxBuf THEN room ELSE Len(packet) + RxBuf

\* Mutant: the partial packet is not moved to the start of the buffer.
LeftUnmoved(bytes, at) == SubSeq(bytes, 1, Len(bytes) - at)

Left(bytes, at) == SubSeq(bytes, at + 1, Len(bytes))

ReceiveBytes(n) ==
    LET bytes == packet \o SubSeq(wire, 1, n)
        p == Processing(bytes)
        left == Len(bytes) - p.at
    IN  /\ open
        /\ n <= Room
        /\ wire' = SubSeq(wire, n + 1, Len(wire))
        /\ received' = received + n
        /\ processed' = processed \o p.done
        /\ CASE p.why = "empty" ->
                  packet' = <<>> /\ room' = 0 /\ UNCHANGED open
             [] p.why = "broken" ->
                  packet' = bytes /\ room' = NewSize /\ open' = FALSE
             [] p.why = "partial" /\ p.at = 0 ->
                  packet' = bytes /\ room' = NewSize /\ UNCHANGED open
             [] OTHER ->
                  /\ packet' = Left(bytes, p.at)
                  /\ room' = IF left >= MaxPacket THEN NewSize ELSE left
                  /\ open' = (left < MaxPacket)
        /\ UNCHANGED stream

\* Nothing more is received: a callback with DISCONNECT.
Disconnect ==
    /\ open
    /\ open' = FALSE
    /\ packet' = <<>>
    /\ UNCHANGED <<stream, wire, received, room, processed>>

StreamNext == (\E n \in 1 .. Len(wire) : ReceiveBytes(n)) \/ Disconnect

StreamSpec == StreamInit /\ [][StreamNext]_streamVars

-----------------------------------------------------------------------------
(* Properties.                                                             *)

\* The messages whose last byte was received, up to one that is wrong.
Whole ==
    {m \in DOMAIN stream :
        /\ \A k \in 1 .. m : ~stream[k].wrong
        /\ \E b \in 1 .. received : Bytes(stream)[b] = [msg |-> m, at |-> stream[m].size]}

\* However reads cut the stream, the messages that were received whole have
\* been processed, each once, in order and with exactly its own bytes, and what
\* is kept for the next read are exactly the bytes received of other messages.
DeliversTheStream ==
    /\ processed = [m \in Whole |-> BytesOf(stream, m)]
    /\ open => \E kept \in 0 .. received :
                 /\ packet = SubSeq(Bytes(stream), kept + 1, received)
                 /\ \A b \in 1 .. received : Bytes(stream)[b].msg \in Whole <=> b <= kept

=============================================================================
