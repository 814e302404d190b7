------------------------------ MODULE RpcCodec ------------------------------
(***************************************************************************)
(* The RPC argument and reply codecs of src/twinleaf/src/tio/util.rs: the  *)
(* TioRpcRequestable and TioRpcReplyable implementations for (), the       *)
(* fixed-width integers, strings and pairs.  A type is described by a      *)
(* record: Ty("unit"), Ty("string"), Ty of an integer type name, or        *)
(* Pair(A, B) of two descriptors.                                          *)
(*                                                                         *)
(* The state machine is one exchange: a value of a type is encoded as the  *)
(* device encodes its reply (little-endian, as to_request does); the reply *)
(* may be cut short or carry extra bytes (a device whose reply layout      *)
(* differs); then from_reply decodes it.                                   *)
(***************************************************************************)
EXTENDS Integers, Sequences, SequencesExt

CONSTANTS
    Types,       \* type descriptors to exchange
    IntValues,   \* integer type name -> the values of it to exchange
    StrValues,   \* strings to exchange, as the bytes of their UTF-8 encoding
    PadBytes,    \* bytes a mismatched reply may carry in excess
    MaxEdits     \* bound on the bytes cut from or added to one reply

Ty(k) == [kind |-> k]
Pair(a, b) == [kind |-> "pair", fst |-> a, snd |-> b]
IsPair(t) == t.kind = "pair"

Width(t) == CASE t.kind \in {"u8", "i8"} -> 1 [] t.kind \in {"u16", "i16"} -> 2
              [] t.kind \in {"u32", "i32"} -> 4 [] t.kind \in {"u64", "i64"} -> 8
Signed(t) == t.kind \in {"i8", "i16", "i32", "i64"}

Ok(v, rest) == [ok |-> TRUE, val |-> v, rest |-> rest]
Err == [ok |-> FALSE, val |-> <<>>, rest |-> <<>>]

\* TioRpcReplyableFixedSize: (), the integers, and pairs of fixed-size types.
RECURSIVE FixedSize(_)
FixedSize(t) == IF IsPair(t) THEN FixedSize(t.fst) /\ FixedSize(t.snd) ELSE t.kind # "string"

\* The pair impl of TioRpcReplyable requires a fixed-size first component.
RECURSIVE Replyable(_)
Replyable(t) == IsPair(t) => FixedSize(t.fst) /\ Replyable(t.snd)

ASSUME \A t \in Types : Replyable(t)

-----------------------------------------------------------------------------
(* Encoding *)

\* $primitive::to_request: to_le_bytes, the two's complement of a negative
\* value taken modulo 2^(8 * width).
PrimToRequest(t, v) ==
    LET u == IF v < 0 THEN v + 2^(8 * Width(t)) ELSE v
    IN [i \in 1..Width(t) |-> (u \div 2^(8 * (i - 1))) % 256]

\* &str, String and &String to_request: as_bytes.
StrToRequest(v) == v

\* to_request: () is empty, a pair is its first component's bytes followed
\* by its second's.
RECURSIVE ToRequest(_, _)
ToRequest(t, v) ==
    CASE t.kind = "unit"   -> <<>>
      [] t.kind = "string" -> StrToRequest(v)
      [] IsPair(t)         -> ToRequest(t.fst, v[1]) \o ToRequest(t.snd, v[2])
      [] OTHER             -> PrimToRequest(t, v)

-----------------------------------------------------------------------------
(* Decoding *)

\* $primitive::from_le_bytes: the bytes as a little-endian number, read as
\* two's complement for a signed type.
FromLeBytes(t, bs) ==
    LET u == FoldRight(LAMBDA b, acc : b + 256 * acc, bs, 0)
    IN IF Signed(t) /\ u >= 2^(8 * Width(t) - 1) THEN u - 2^(8 * Width(t)) ELSE u

\* $primitive::from_reply_prefix: too short a reply is an error; otherwise
\* the first size_of bytes are the value and the rest is returned.
PrimFromReplyPrefix(t, bs) ==
    IF Len(bs) < Width(t) THEN Err
    ELSE Ok(FromLeBytes(t, SubSeq(bs, 1, Width(t))), SubSeq(bs, Width(t) + 1, Len(bs)))

\* String::from_reply_prefix: String::from_utf8_lossy of the whole rest.
\* Each byte that cannot start a UTF-8 sequence here (every byte >= 0x80
\* on the replies this model builds, whose string parts are ASCII and pad
\* bytes) becomes U+FFFD, encoded EF BF BD.
StrFromReplyPrefix(bs) ==
    LET Char(b) == IF b < 128 THEN <<b>> ELSE <<239, 191, 189>>
    IN Ok(FoldRight(LAMBDA b, acc : Char(b) \o acc, bs, <<>>), <<>>)

\* Mutant: the pair decodes its second component from the whole reply
\* instead of from what the first left.
RECURSIVE FromReplyPrefixSndFromStart(_, _)
FromReplyPrefixSndFromStart(t, bs) ==
    CASE t.kind = "unit"   -> Ok(<<>>, bs)
      [] t.kind = "string" -> StrFromReplyPrefix(bs)
      [] IsPair(t)         -> LET a == FromReplyPrefixSndFromStart(t.fst, bs)
                                  b == FromReplyPrefixSndFromStart(t.snd, bs)
                              IN IF a.ok /\ b.ok THEN Ok(<<a.val, b.val>>, b.rest) ELSE Err
      [] OTHER             -> PrimFromReplyPrefix(t, bs)

\* from_reply_prefix: () takes nothing; a pair decodes its first component
\* and then its second from what remains, and fails if either does.
RECURSIVE FromReplyPrefix(_, _)
FromReplyPrefix(t, bs) ==
    CASE t.kind = "unit"   -> Ok(<<>>, bs)
      [] t.kind = "string" -> StrFromReplyPrefix(bs)
      [] IsPair(t)         -> LET a == FromReplyPrefix(t.fst, bs)
                                  b == FromReplyPrefix(t.snd, a.rest)
                              IN IF a.ok /\ b.ok THEN Ok(<<a.val, b.val>>, b.rest) ELSE Err
      [] OTHER             -> PrimFromReplyPrefix(t, bs)

\* Mutant: trailing bytes after the value are ignored.
FromReplyIgnoringRest(t, bs) == FromReplyPrefix(t, bs)

\* TioRpcReplyable::from_reply: the prefix decode, and nothing may be left.
FromReply(t, bs) ==
    LET r == FromReplyPrefix(t, bs)
    IN IF r.ok /\ r.rest = <<>> THEN r ELSE Err

-----------------------------------------------------------------------------
(* One exchange *)

RECURSIVE ValuesOf(_)
ValuesOf(t) ==
    CASE t.kind = "unit"   -> {<<>>}
      [] t.kind = "string" -> StrValues
      [] IsPair(t)         -> {<<x, y>> : x \in ValuesOf(t.fst), y \in ValuesOf(t.snd)}
      [] OTHER             -> IntValues[t.kind]

VARIABLES ty, val, reply, edits, decoded, result
vars == <<ty, val, reply, edits, decoded, result>>

Init ==
    /\ ty \in Types /\ val \in ValuesOf(ty)
    /\ reply = ToRequest(ty, val)
    /\ edits = 0 /\ decoded = FALSE /\ result = Err

\* The reply arrives a byte short, or with an extra byte.
Truncate ==
    /\ ~decoded /\ edits < MaxEdits /\ reply # <<>>
    /\ reply' = Front(reply) /\ edits' = edits + 1
    /\ UNCHANGED <<ty, val, decoded, result>>

Extend ==
    /\ ~decoded /\ edits < MaxEdits
    /\ \E b \in PadBytes : reply' = Append(reply, b)
    /\ edits' = edits + 1
    /\ UNCHANGED <<ty, val, decoded, result>>

Decode ==
    /\ ~decoded /\ decoded' = TRUE
    /\ result' = FromReply(ty, reply)
    /\ UNCHANGED <<ty, val, reply, edits>>

Next == Truncate \/ Extend \/ Decode

Spec == Init /\ [][Next]_vars

-----------------------------------------------------------------------------
(* Properties *)

\* The range of values of a type.
RECURSIVE InRange(_, _)
InRange(t, v) ==
    CASE t.kind = "unit"   -> v = <<>>
      [] t.kind = "string" -> TRUE
      [] IsPair(t)         -> InRange(t.fst, v[1]) /\ InRange(t.snd, v[2])
      [] OTHER             -> IF Signed(t) THEN -(2^(8 * Width(t) - 1)) <= v /\ v < 2^(8 * Width(t) - 1)
                                           ELSE 0 <= v /\ v < 2^(8 * Width(t))

\* from_reply inverts to_request: a reply that is exactly the encoding of a
\* value (of any type, integer widths, signs and pairs included) decodes to
\* that value.
RoundTrip ==
    (decoded /\ reply = ToRequest(ty, val)) => result.ok /\ result.val = val

\* A fixed-size reply is accepted only when it is the encoding of a value
\* in range of its type: a reply too short, or with bytes left after the
\* value, is an error, and the value read re-encodes to the very reply.
AcceptsOnlyEncodings ==
    (decoded /\ result.ok /\ FixedSize(ty)) =>
        InRange(ty, result.val) /\ ToRequest(ty, result.val) = reply

=============================================================================
