------------------------------- MODULE MCPrg ---------------------------------
(* Prg on bytes of three bits, with as many executions as keep keys apart,  *)
(* and lengths around the last block index, the last usize and a block's    *)
(* end.                                                                     *)
EXTENDS Prg

Bit(a, k) == (a \div k) % 2
MCXor(a, b) ==
  LET x(k) == k * ((Bit(a, k) + Bit(b, k)) % 2) IN x(1) + x(2) + x(4)

MCZeroSalt == <<0, 0, 0>>
MCSalt == {MCZeroSalt, <<5, 3, 6>>}
MCLength == {0, 1, 4, 5, 127, 128, 129, 255}
=============================================================================
