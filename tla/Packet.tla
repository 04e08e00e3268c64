------------------------------- MODULE Packet -------------------------------
(***************************************************************************)
(* The packets of the Elero protocol, byte by byte (components/elero/      *)
(* elero_packet.cpp, elero_packet.h, elero_protocol.h), from the command   *)
(* in the hub that sends to the RfPacketInfo in the hub that listens       *)
(* (elero.cpp build_tx_packet_, decode_fifo_packets_, decode_packet).      *)
(*                                                                         *)
(* A buffer is a sequence, so that index i of the code is i + 1 here.      *)
(* TLC evaluates no index outside of it: a read past the end of what was   *)
(* received would end a run with an error.                                 *)
(***************************************************************************)
EXTENDS Integers, Sequences, SequencesExt, FiniteSets, Bitwise

CONSTANTS
  Packets,     \* the EleroCommands that are sent
  StatusTypes, \* message types of the status packets a drive sends
  Unread,      \* how many of the received bytes a drain may leave out
  MaxFrames    \* bound: frames on the air

CONSTANT LQI  \* the status bytes that a receiver appends: <<RSSI, LQI>>

FIFO_LENGTH == 64
MAX_PACKET_SIZE == 57
MAX_DESTINATIONS == 20
BUTTON == 68             \* msg_type, 0x44
COMMANDS == {106, 105}   \* 0x6a, 0x69
STATUSES == {202, 201}   \* 0xca, 0xc9

Byte == 0 .. 255
High(b) == b \div 16
Low(b) == b % 16

----------------------------------------------------------------------------
(* elero_protocol.h: the scrambling of the eight bytes that carry the code *)
(* of the counter, the command and the state.                              *)
ENCODE_TABLE == <<8, 2, 13, 1, 15, 14, 7, 5, 9, 12, 0, 10, 3, 4, 11, 6>>
DECODE_TABLE == <<10, 3, 1, 12, 13, 7, 15, 6, 0, 8, 11, 14, 9, 2, 5, 4>>

Nibbles(table, b) == 16 * table[High(b) + 1] + table[Low(b) + 1]

R20(k) == (254 - 34 * (k - 1)) % 256  \* at the k-th byte
AddR20(b, r20) == 16 * ((High(b) + High(r20)) % 16) + ((Low(b) + Low(r20)) % 16)
SubR20(b, r20) == 16 * ((High(b) - High(r20)) % 16) + ((Low(b) - Low(r20)) % 16)

CountBits(b) == Cardinality({i \in 0 .. 7 : (b \div 2 ^ i) % 2 = 1}) % 2

(* calc_parity: the parities of the four pairs, in bits 7 to 4.            *)
Parity(msg) ==
  FoldLeft(LAMBDA p, i : p + 2 ^ (8 - i) * ((CountBits(msg[2 * i - 1]) + CountBits(msg[2 * i])) % 2),
           0, <<1, 2, 3, 4>>)

XorOf(msg, k) == msg[2 - (k % 2)]  \* the byte that the k-th one is xored with

MsgEncode(msg) ==
  LET whole == [msg EXCEPT ![8] = Parity(msg)]
      added(k) == AddR20(whole[k], R20(k))
  IN [k \in 1 .. 8 |-> Nibbles(ENCODE_TABLE,
                               IF k <= 2 THEN added(k) ELSE added(k) ^^ XorOf(msg, k))]

(* The first two bytes are xored with themselves.                          *)
MsgDecode(msg) ==
  LET plain == [k \in 1 .. 8 |-> Nibbles(DECODE_TABLE, msg[k])]
      xor == [k \in 1 .. 2 |-> SubR20(plain[k], R20(k))]
  IN [k \in 1 .. 8 |-> IF k <= 2 THEN 0 ELSE SubR20(plain[k] ^^ XorOf(xor, k), R20(k))]

----------------------------------------------------------------------------
(* elero_packet.h, .cpp: building.                                         *)
WriteAddr(a) == <<a \div 65536, (a \div 256) % 256, a % 256>>
ExtractAddr(raw, i) == 65536 * raw[i + 1] + 256 * raw[i + 2] + raw[i + 3]

(* calc_crypto_code, and the encrypted section around it.                  *)
Section(counter, command, state) ==
  LET code == (-(counter * 28815)) % 65536 IN
  MsgEncode(<<code \div 256, code % 256, command, 0, 0, 0, state, 0>>)

(* Bytes 0 to 16, which all packets share; "dests" is their number.        *)
Header(length, cmd, channel, dests) ==
  <<length, cmd.counter, cmd.type, cmd.type2, cmd.hop, 1, channel>>
    \o WriteAddr(cmd.src) \o WriteAddr(cmd.src) \o WriteAddr(cmd.src) \o <<dests>>

BuildTxPacket(cmd) ==
  Header(29, cmd, cmd.channel, 1) \o WriteAddr(cmd.dst)
    \o cmd.payload \o Section(cmd.counter, cmd.command, 0)

BuildButtonPacket(cmd) ==
  Header(27, cmd, cmd.channel, 1) \o <<cmd.channel, 0, 3>> \o Section(cmd.counter, cmd.command, 0)

(* The empty packet stands for the result 0.                               *)
BuildGroupButtonPacket(cmd) ==
  LET n == Len(cmd.dests) IN
  IF 26 + n + 1 > FIFO_LENGTH THEN <<>>
  ELSE Header(26 + n, cmd, 0, n) \o cmd.dests \o <<0, 4>> \o Section(cmd.counter, cmd.command, 0)

(* build_tx_packet_: a result of 0 leaves msg_tx_ as it was.               *)
MsgTx(old, cmd) ==
  LET group == BuildGroupButtonPacket(cmd) IN
  CASE cmd.type = BUTTON /\ Len(cmd.dests) > 1  -> IF group # <<>> THEN group ELSE old
    [] cmd.type = BUTTON /\ Len(cmd.dests) <= 1 -> BuildButtonPacket(cmd)
    [] cmd.type # BUTTON                        -> BuildTxPacket(cmd)

(* What a drive answers with: the layout of a targeted packet, its state   *)
(* in the place that parse_packet reads it from.                           *)
StatusFrame(cmd) ==
  Header(29, cmd, cmd.channel, 1) \o WriteAddr(cmd.dst)
    \o cmd.payload \o Section(cmd.counter, 0, cmd.command)

----------------------------------------------------------------------------
(* parse_packet: the reason of the rejection, or "" for a packet.          *)
DestsLen(raw) == IF raw[3] > 96 THEN 3 * raw[17] ELSE raw[17]
PayloadStart(raw) == 19 + DestsLen(raw)

RejectReason(raw) ==
  CASE Len(raw) < 4              -> "too_short"
    [] raw[1] > MAX_PACKET_SIZE  -> "too_long"
    [] Len(raw) < 17             -> "truncated_header"
    [] raw[17] > MAX_DESTINATIONS -> "too_many_dests"
    [] PayloadStart(raw) + 7 > raw[1] \/ PayloadStart(raw) + 7 >= FIFO_LENGTH -> "dests_len_too_long"
    [] PayloadStart(raw) + 10 > Len(raw) -> "truncated_payload"
    [] raw[1] + 2 >= Len(raw)    -> "rssi_oob"
    [] OTHER                     -> ""

(* parse_packet of an accepted packet; the first "at" bytes are skipped    *)
(* when the payload is decoded.                                            *)
ParsePacket(raw) ==
  LET at == PayloadStart(raw) IN
  [type |-> raw[3], counter |-> raw[2], channel |-> raw[7], src |-> ExtractAddr(raw, 7),
   dst |-> IF raw[3] > 96 THEN ExtractAddr(raw, 17) ELSE raw[18],
   payload |-> MsgDecode(SubSeq(raw, at + 1, at + 8)),
   quality |-> SubSeq(raw, raw[1] + 2, raw[1] + 3)]

(* The RfPacketInfo, as a sequence of no or one packet.                    *)
DecodePacket(raw) ==
  LET r == ParsePacket(raw)
      command == IF r.type \in COMMANDS \cup {BUTTON} THEN r.payload[3] ELSE 0
      state == IF r.type \in STATUSES THEN r.payload[7] ELSE 0
  IN IF RejectReason(raw) # "" THEN <<>>
     ELSE <<[type |-> r.type, counter |-> r.counter, channel |-> r.channel, src |-> r.src,
             dst |-> r.dst, command |-> command, state |-> state, quality |-> r.quality]>>

\* mutant: the status bytes are forgotten when the next packet is located
DecodeFifoPacketsClose(buf) ==
  LET from[offset \in 0 .. Len(buf) + 300] ==
        IF offset + 3 > Len(buf) \/ offset + buf[offset + 1] + 3 > Len(buf) THEN <<>>
        ELSE DecodePacket(SubSeq(buf, offset + 1, Len(buf))) \o from[offset + buf[offset + 1] + 1]
  IN from[0]

(* decode_fifo_packets_: one packet after the other, up to an incomplete   *)
(* one.  (The queue to the main loop is RadioHub's.)                       *)
DecodeFifoPackets(buf) ==
  LET from[offset \in 0 .. Len(buf)] ==
        IF offset + 3 > Len(buf) \/ offset + buf[offset + 1] + 3 > Len(buf) THEN <<>>
        ELSE DecodePacket(SubSeq(buf, offset + 1, Len(buf))) \o from[offset + buf[offset + 1] + 3]
  IN from[0]

----------------------------------------------------------------------------
VARIABLES
  msg_tx,   \* msg_tx_ of the hub that sends, up to the packet's length
  fifo,     \* the receive FIFO of the hub that listens
  received, \* the packets that fifo holds, or held when it was last drained:
            \* what was sent, and where its last byte is
  decoded,  \* the packets of the last drain
  frames    \* what is left of MaxFrames

packetVars == <<msg_tx, fifo, received, decoded, frames>>

PacketInit == msg_tx = <<>> /\ fifo = <<>> /\ received = <<>> /\ decoded = <<>> /\ frames = MaxFrames

OnAir(cmd, frame) ==
  /\ frames > 0 /\ frames' = frames - 1
  /\ Len(fifo) + Len(frame) + 2 <= FIFO_LENGTH
  /\ fifo' = fifo \o frame \o LQI
  /\ received' = Append(IF fifo = <<>> THEN <<>> ELSE received, [cmd |-> cmd, end |-> Len(fifo')])
  /\ UNCHANGED decoded

Send(cmd) == msg_tx' = MsgTx(msg_tx, cmd) /\ OnAir(cmd, msg_tx')

Answer(cmd, type) ==
  LET status == [cmd EXCEPT !.type = type] IN
  OnAir(status, StatusFrame(status)) /\ UNCHANGED msg_tx

(* The FIFO is read; the last packet may still be coming in.               *)
DrainPackets(unread) ==
  /\ fifo # <<>> /\ unread < Len(fifo)
  /\ LET count == Len(fifo) - unread IN
       /\ decoded' = DecodeFifoPackets(SubSeq(fifo, 1, count))
       /\ received' = SelectSeq(received, LAMBDA r : r.end <= count)
  /\ fifo' = <<>>
  /\ UNCHANGED <<msg_tx, frames>>

PacketNext ==
  \/ \E cmd \in Packets :
       Send(cmd) \/ (cmd.type \in COMMANDS /\ \E type \in StatusTypes : Answer(cmd, type))
  \/ \E unread \in Unread : DrainPackets(unread)

PacketSpec == PacketInit /\ [][PacketNext]_packetVars

----------------------------------------------------------------------------
(* What is heard is what was sent: every complete packet of a drain is     *)
(* decoded, in order, to the type, addresses, counter, command or state it *)
(* was built from, and nothing else is; only a group of more than          *)
(* MAX_DESTINATIONS channels, which can be sent, cannot be heard           *)
(* (elero.cpp decode_fifo_packets_; elero_packet.cpp parse_packet; every   *)
(* size check of which the packets that are built meet exactly).           *)
Heard(cmd) ==
  LET group == cmd.type = BUTTON /\ Len(cmd.dests) > 1 IN
  [type |-> cmd.type, counter |-> cmd.counter, src |-> cmd.src, quality |-> LQI,
   channel |-> IF group THEN 0 ELSE cmd.channel,
   dst |-> CASE group -> cmd.dests[1]
             [] ~group /\ cmd.type = BUTTON -> cmd.channel
             [] cmd.type # BUTTON -> cmd.dst,
   command |-> IF cmd.type \in STATUSES THEN 0 ELSE cmd.command,
   state |-> IF cmd.type \in STATUSES THEN cmd.command ELSE 0]
Hearable(cmd) == cmd.type # BUTTON \/ Len(cmd.dests) <= MAX_DESTINATIONS
HeardAsSent ==
  LET sent == [k \in DOMAIN received |-> received[k].cmd]
      hearable == SelectSeq(sent, Hearable)
  IN fifo = <<>> => decoded = [k \in DOMAIN hearable |-> Heard(hearable[k])]
=============================================================================
