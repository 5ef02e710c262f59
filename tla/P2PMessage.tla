----------------------------- MODULE P2PMessage -----------------------------
(***************************************************************************)
(* The format of the messages between gateways (P2PMessage.cpp): a header  *)
(* of fixed length that starts with the length of the whole message,       *)
(* options for some packet types, and the payload.                         *)
(*                                                                         *)
(* Integers are written in network order, with bytes of the given Radix    *)
(* (256 in the code).  A small Radix keeps every limit that depends on the *)
(* width of a field within reach: an identifier fills its two-byte length  *)
(* field with Radix^2 - 1 bytes, and Radix - 1 receivers fill the counter. *)
(***************************************************************************)
EXTENDS Integers, Sequences, SequencesExt

CONSTANTS
    Radix,        \* values of a byte
    OptionTypes   \* PeerToPeerMessage and BroadcastMessage

ASSUME RadixAssumption == Radix \in Nat /\ Radix >= 2

Byte == 0..(Radix - 1)
UInt16 == 0..(Radix * Radix - 1)
UInt32 == 0..(Radix * Radix * (Radix * Radix) - 1)

Short(n) == <<(n \div Radix) % Radix, n % Radix>>
Long(n) == Short(n \div (Radix * Radix)) \o Short(n)
ShortAt(b, offset) == Radix * b[offset + 1] + b[offset + 2]
LongAt(b, offset) == Radix * Radix * ShortAt(b, offset) + ShortAt(b, offset + 2)

MESSAGE_HEADER_LENGTH == 14
OPTIONS_MIN_LENGTH == 5
MAX_GROUPID_LENGTH == Radix * Radix - 1
MAX_NODEID_LENGTH == Radix * Radix - 1
MAX_DST_NODEID_COUNT == Radix - 1

MESSAGE_ERROR == -1
MESSAGE_INCOMPLETE == 0

\* The fields of MessageExtFieldFlag::Response.
isRespPacket(m) == m.ext % 2 = 1

hasOptions(m) == m.packetType \in OptionTypes

Options == [groupID : Seq(Byte), srcNodeID : Seq(Byte), dstNodeIDs : Seq(Seq(Byte))]
NoOptions == [groupID |-> << >>, srcNodeID |-> << >>, dstNodeIDs |-> << >>]

-----------------------------------------------------------------------------
(* Encoding. *)

\* The parameters check of P2PMessageOptions::encode.
Encodable(options) ==
    LET ValidNodeID(id) == id # << >> /\ Len(id) <= MAX_NODEID_LENGTH IN
    /\ Len(options.groupID) <= MAX_GROUPID_LENGTH
    /\ ValidNodeID(options.srcNodeID)
    /\ Len(options.dstNodeIDs) <= MAX_DST_NODEID_COUNT
    /\ \A i \in 1..Len(options.dstNodeIDs) : ValidNodeID(options.dstNodeIDs[i])

encodeOptions(options) ==
    Short(Len(options.groupID)) \o options.groupID
    \o Short(Len(options.srcNodeID)) \o options.srcNodeID
    \o <<Len(options.dstNodeIDs) % Radix>> \o FlattenSeq(options.dstNodeIDs)

\* What follows the length field in the header.
encodeFields(m) == Short(m.version) \o Short(m.packetType) \o Long(m.seq) \o Short(m.ext)

canEncode(m) == hasOptions(m) => Encodable(m.options)

\* The buffer P2PMessage::encode leaves.  When the options cannot be encoded it
\* returns false, and the buffer holds a header whose length is still zero.
encode(m) ==
    LET body == encodeFields(m)
                \o (IF hasOptions(m) THEN encodeOptions(m.options) ELSE << >>)
                \o m.payload
    IN  IF canEncode(m) THEN Long(Len(body) + 4) \o body ELSE Long(0) \o encodeFields(m)

\* A message whose fields fit: the options are there only when the packet type asks
\* for them, all node IDs have the length of the source, and the length of the whole
\* can be written.
WellFormed(m) ==
    /\ m \in [version : UInt16, packetType : UInt16, seq : UInt32, ext : UInt16,
              options : Options, payload : Seq(Byte)]
    /\ ~hasOptions(m) => m.options = NoOptions
    /\ \A i \in 1..Len(m.options.dstNodeIDs) :
          Len(m.options.dstNodeIDs[i]) = Len(m.options.srcNodeID)
    /\ Len(encode(m)) \in UInt32

-----------------------------------------------------------------------------
(* Decoding. *)

Cropped(b, offset) == SubSeq(b, offset + 1, Len(b))

Failed == [offset |-> MESSAGE_ERROR, options |-> NoOptions]

\* Mutant: the receivers are not counted in the length that must be there.
decodeOptionsUnchecked(b) ==
    LET groupIDLength == ShortAt(b, 0)
        src == 2 + groupIDLength
        nodeIDLength == ShortAt(b, src)
        count == src + 2 + nodeIDLength
        dstNodeCount == b[count + 1]
        dst(i) == SubSeq(b, count + 2 + (i - 1) * nodeIDLength, count + 1 + i * nodeIDLength)
    IN  IF OPTIONS_MIN_LENGTH > Len(b) \/ src + 2 > Len(b) \/ count + 1 > Len(b)
        THEN Failed
        ELSE [offset |-> count + 1,
              options |-> [groupID |-> SubSeq(b, 3, src),
                           srcNodeID |-> SubSeq(b, src + 3, count),
                           dstNodeIDs |-> [i \in 1..dstNodeCount |-> dst(i)]]]

\* P2PMessageOptions::decode: each part is looked at only when it is known to be
\* within the buffer.  Every receiver is as long as the source.
decodeOptions(b) ==
    LET groupIDLength == ShortAt(b, 0)
        src == 2 + groupIDLength               \* offset of the nodeID length
        nodeIDLength == ShortAt(b, src)
        count == src + 2 + nodeIDLength        \* offset of the counter
        dstNodeCount == b[count + 1]
        end == count + 1 + dstNodeCount * nodeIDLength
        dst(i) == SubSeq(b, count + 2 + (i - 1) * nodeIDLength, count + 1 + i * nodeIDLength)
    IN  IF OPTIONS_MIN_LENGTH > Len(b) \/ src + 2 > Len(b)
           \/ count + 1 > Len(b) \/ end > Len(b)
        THEN Failed
        ELSE [offset |-> end,
              options |-> [groupID |-> SubSeq(b, 3, src),
                           srcNodeID |-> SubSeq(b, src + 3, count),
                           dstNodeIDs |-> [i \in 1..dstNodeCount |-> dst(i)]]]

decodeHeader(b) ==
    [version |-> ShortAt(b, 4), packetType |-> ShortAt(b, 6), seq |-> LongAt(b, 8),
     ext |-> ShortAt(b, 12), options |-> NoOptions, payload |-> << >>]

Undecoded == [version |-> 0, packetType |-> 0, seq |-> 0, ext |-> 0,
              options |-> NoOptions, payload |-> << >>]

\* Mutant: the header alone is waited for, and the payload is what is there.
decodeEagerly(b) ==
    IF Len(b) < MESSAGE_HEADER_LENGTH
    THEN [result |-> MESSAGE_INCOMPLETE, message |-> Undecoded]
    ELSE LET header == decodeHeader(b)
             length == LongAt(b, 0)
             opts == IF hasOptions(header) THEN decodeOptions(Cropped(b, MESSAGE_HEADER_LENGTH))
                     ELSE [offset |-> 0, options |-> NoOptions]
             offset == MESSAGE_HEADER_LENGTH + opts.offset
         IN  IF opts.offset < 0 THEN [result |-> MESSAGE_ERROR, message |-> header]
             ELSE [result |-> length,
                   message |-> [header EXCEPT !.options = opts.options,
                                              !.payload = Cropped(b, offset)]]

\* P2PMessage::decode: the message at the front of the buffer and its length, or why
\* there is none.  The options are read from all that follows the header; they end
\* within the message because all node IDs have one length.
decode(b) ==
    LET header == decodeHeader(b)
        length == LongAt(b, 0)
        opts == IF hasOptions(header) THEN decodeOptions(Cropped(b, MESSAGE_HEADER_LENGTH))
                ELSE [offset |-> 0, options |-> NoOptions]
        offset == MESSAGE_HEADER_LENGTH + opts.offset
    IN  IF Len(b) < MESSAGE_HEADER_LENGTH
        THEN [result |-> MESSAGE_INCOMPLETE, message |-> Undecoded]
        ELSE IF Len(b) < length THEN [result |-> MESSAGE_INCOMPLETE, message |-> header]
        ELSE IF opts.offset < 0 THEN [result |-> MESSAGE_ERROR, message |-> header]
        ELSE [result |-> length,
              message |-> [header EXCEPT !.options = opts.options,
                                         !.payload = SubSeq(b, offset + 1, length)]]
=============================================================================
