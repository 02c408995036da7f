------------------------------ MODULE MCCodec -------------------------------
EXTENDS Codec

(* With Radix 4: 0, 5 and the least value of int16_t, -8. *)
MCWords == {<<0, 0>>, <<1, 1>>, <<2, 0>>}

(* int has the values -128..127. *)
MCPressures == {-1000, -5, 0, 108, 127, 128, 255, 1000}
=============================================================================
