----------------------------- MODULE MCRpcCodec -----------------------------
(* Model-checking instance of RpcCodec: every 8-bit value, the 16-bit      *)
(* values at the byte and sign boundaries, short ASCII strings, and pairs  *)
(* nesting each of them.  Widths of 32 bits and more are left out: TLC's   *)
(* integers are 32-bit, and every width is the same macro instance.        *)
EXTENDS RpcCodec

MCTypes == {Ty("unit"), Ty("u8"), Ty("i8"), Ty("u16"), Ty("i16"), Ty("string"),
            Pair(Ty("u8"), Ty("i16")), Pair(Ty("i8"), Ty("string")),
            Pair(Ty("u16"), Pair(Ty("i8"), Ty("unit")))}
MCIntValues ==
    [t \in {"u8", "i8", "u16", "i16"} |->
        CASE t = "u8"  -> 0..255
          [] t = "i8"  -> -128..127
          [] t = "u16" -> {0, 1, 255, 256, 32767, 32768, 65534, 65535}
          [] t = "i16" -> {-32768, -32767, -256, -129, -128, -1, 0, 1, 127, 128, 255, 256, 32767}]
MCStrValues == {<<>>, <<65>>, <<104, 105>>}
\* A zero byte, and 0xFF, which is never valid UTF-8.
MCPadBytes == {0, 255}
MCMaxEdits == 2
=============================================================================
