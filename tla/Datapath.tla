------------------------------ MODULE Datapath ------------------------------
(***************************************************************************)
(* The shifts, masks and carry chains with which proj1 (and, but for the   *)
(* error checks, proj3) computes what Instructions defines by value.       *)
(***************************************************************************)
EXTENDS Instructions

\* sign_C of an instruction, a signed int.
SignC(i) == Signed(SignExtend(i.imm))

\* x << n on 32 bits.
ShiftLeft(x, n) == (x * 2 ^ n) % WordSize

\* 0xFF.. with the given number of low bits.
Mask(n) == 2 ^ n - 1

\* 0xFF..00..: the mask without its low bits.
HighMask(n) == WordSize - 2 ^ n

ExecSRA(v, n) ==
  LET sign_exten_bit == ShiftLeft(Mask(Bits), Bits - n)
  IN  (v \div 2 ^ n + (IF Bit(v, Bits - 1) = 1 THEN sign_exten_bit ELSE 0)) % WordSize

ExecR(op, a, b) == IF op = "SRA" THEN ExecSRA(b, a) ELSE RegisterALU(op, a, b)

\* The word shifted right until the byte, or the half-word, at a is lowest.
ByteDown(w, a) == w \div 2 ^ (3 * ByteBits - ByteBits * (a % 4))
HalfDown(w, a) == w \div 2 ^ (2 * ByteBits - ByteBits * (a % 4))

\* exec_lb .. exec_lhu on the word that holds address a.
ExecLoad(op, w, a) ==
  LET byte == And(ByteDown(w, a), Mask(ByteBits))
      half == And(HalfDown(w, a), Mask(2 * ByteBits))
  IN  CASE op = "LW"  -> w
        [] op = "LBU" -> byte
        [] op = "LB"  -> byte + (IF Bit(ByteDown(w, a), ByteBits - 1) = 1
                                 THEN HighMask(ByteBits) ELSE 0)
        [] op = "LHU" -> half
        [] op = "LH"  -> half + (IF Bit(HalfDown(w, a), 2 * ByteBits - 1) = 1
                                 THEN HighMask(2 * ByteBits) ELSE 0)

\* Slip: the bytes left of the last one are forgotten.
TopBit_NotForLast(s) ==
  HighMask(3 * ByteBits) * ((s * (2 - s) * (3 - s)) \div 2)
    + HighMask(2 * ByteBits) * ((s * (s - 1) * (3 - s)) \div 2)

\* top_bit of exec_sb: the mask of the bytes left of byte s.
TopBit(s) ==
  HighMask(3 * ByteBits) * ((s * (2 - s) * (3 - s)) \div 2)
    + HighMask(2 * ByteBits) * ((s * (s - 1) * (3 - s)) \div 2)
    + HighMask(ByteBits) * ((s * (s - 1) * (s - 2)) \div 6)

\* bit_save: the bytes to be stored, in their place in a word.
BitSave(op, a, v) ==
  LET shift == ByteBits * (a % 4)
  IN  CASE op = "SB" -> ShiftLeft(And(v, Mask(ByteBits)), 3 * ByteBits - shift)
        [] op = "SH" -> ShiftLeft(And(v, Mask(2 * ByteBits)), 2 * ByteBits - shift)
        [] op = "SW" -> v

\* bit_reserve: the bytes of w that stay.
BitReserve(op, a, w) ==
  LET shift == ByteBits * (a % 4)
  IN  CASE op = "SB" -> And(w, Mask(3 * ByteBits) \div 2 ^ shift + TopBit(a % 4))
        [] op = "SH" -> And(w, ShiftLeft(Mask(2 * ByteBits), shift))
        [] op = "SW" -> 0

\* What a store of v at address a leaves where w was.
ExecStore(op, w, a, v) == BitSave(op, a, v) + BitReserve(op, a, w)
-----------------------------------------------------------------------------
(* The overflow checks.                                                    *)

\* The carry out of the n low bits of a + b, bit by bit.
Carry(a, b, n) ==
  LET carry[i \in 0 .. n] ==
        IF i = 0 THEN 0
        ELSE LET x == Bit(a, i - 1)
                 y == Bit(b, i - 1)
             IN  IF x = y THEN x ELSE carry[i - 1]
  IN  carry[n]

\* The same for a - b, that is a + ~b; the code starts it with a carry of one
\* for signed numbers, and of zero for unsigned ones.
Borrow(a, b, n, first) ==
  LET carry[i \in 0 .. n] ==
        IF i = 0 THEN first
        ELSE LET x == Bit(a, i - 1)
                 y == 1 - Bit(b, i - 1)
             IN  IF x = y THEN x ELSE carry[i - 1]
  IN  carry[n]

Negative(w) == Signed(w) < 0

\* Slip: the carry out of the sign bit.
check_num_OF_add_LastCarry(a, b) ==
  \/ ~Negative(a) /\ ~Negative(b) /\ Carry(a, b, Bits) = 1
  \/ Negative(a) /\ Negative(b) /\ Carry(a, b, Bits) = 0

check_num_OF_add(a, b) ==
  \/ ~Negative(a) /\ ~Negative(b) /\ Carry(a, b, Bits - 1) = 1
  \/ Negative(a) /\ Negative(b) /\ Carry(a, b, Bits - 1) = 0

check_num_OF_sub(a, b) ==
  \/ ~Negative(a) /\ Negative(b) /\ Borrow(a, b, Bits - 1, 1) = 1
  \/ Negative(a) /\ ~Negative(b) /\ Borrow(a, b, Bits - 1, 1) = 0

check_num_OF_addu(a, b) == Carry(a, b, Bits) = 1

check_num_OF_subu(a, b) == a < b /\ Borrow(a, b, Bits, 0) = 0

\* The overflow check simu_r makes before it executes, if any.
NumOverflow(op, a, b) ==
  CASE op = "ADD"  -> check_num_OF_add(a, b)
    [] op = "ADDU" -> check_num_OF_addu(a, b)
    [] op = "SUB"  -> check_num_OF_sub(a, b)
    [] op = "SUBU" -> check_num_OF_subu(a, b)
    [] OTHER       -> FALSE
-----------------------------------------------------------------------------
(* The address checks, in ints.                                            *)

AsInt(x) == Signed(x % WordSize)

\* Bytes after the first one of an access.
Further(op) == CASE op \in {"LW", "SW"}        -> 3
                 [] op \in {"LH", "LHU", "SH"} -> 1
                 [] op \in {"LB", "LBU", "SB"} -> 0

\* size is the number of bytes of memory, 1024 in the code.
check_mem_OF(op, index, offset, size) ==
  LET first == AsInt(index + offset)
      check == AsInt(index + offset + Further(op))
  IN  first < 0 \/ check > size - 1 \/ check < 0

\* The code takes % in ints, whose result is not zero for the same addresses.
check_data_mis(op, index, offset) ==
  CASE op \in {"SH", "LH", "LHU"} -> AsInt(index + offset) % 2 # 0
    [] op \in {"SW", "LW"}        -> AsInt(index + offset) % 4 # 0
    [] OTHER                      -> FALSE
=============================================================================
