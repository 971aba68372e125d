-------------------------------- MODULE Crc16 --------------------------------
(***************************************************************************)
(* genCRC16(): the CRC at the end of every packet and every data group.    *)
(*                                                                         *)
(* The code takes a byte at a time and has folded the eight steps of the   *)
(* polynomial division that a byte stands for into three shifts and some   *)
(* exclusive ors.  Element is one turn of its loop; Division is the        *)
(* definition it must agree with, one bit at a time, for the polynomial    *)
(* x^16 + x^12 + x^5 + 1 of crc16.h.  Verifies is what a receiver checks,  *)
(* by division alone.                                                      *)
(*                                                                         *)
(* A byte and a register are the sets of the bits that are one; bit 0 is   *)
(* the least significant.                                                  *)
(***************************************************************************)
EXTENDS Integers, Sequences

Byte == SUBSET (0 .. 7)
Word == SUBSET (0 .. 15)

Xor(a, b) == (a \ b) \cup (b \ a)

(* init >> 8, as the std::uint8_t it is assigned to.                        *)
HighByte(w) == {i \in 0 .. 7 : i + 8 \in w}
LowByte(w)  == {i \in 0 .. 7 : i \in w}

ShiftRight(b, k) == {i \in 0 .. 7 : i + k \in b}

(* << by k in 16 bits; what leaves at the top is lost.                     *)
ShiftLeft(w, k) == {i \in 0 .. 15 : i - k \in w}

-----------------------------------------------------------------------------
(* x, and init once the element has gone in.                               *)
Mixed_Unfolded(init, element) == Xor(HighByte(init), element)

Mixed(init, element) ==
  LET x == Xor(HighByte(init), element)
  IN  Xor(x, ShiftRight(x, 4))

Element(init, element) ==
  LET x == Mixed(init, element)
  IN  Xor(Xor(Xor(ShiftLeft(init, 8), ShiftLeft(x, 12)), ShiftLeft(x, 5)), x)

Initial == 0 .. 15

Complement(w) == (0 .. 15) \ w

(* init after each turn of the loop over the input.                        *)
Turns(input) ==
  LET turn == [n \in 1 .. Len(input) |-> [init \in Word |-> Element(init, input[n])]]
      init[n \in 0 .. Len(input)] == IF n = 0 THEN Initial ELSE turn[n][init[n - 1]]
  IN  init

Register(input) == Turns(input)[Len(input)]

(* What genCRC16() returns, the upper byte first.                          *)
Crc(input) ==
  LET init == Complement(Register(input))
  IN  <<HighByte(init), LowByte(init)>>

-----------------------------------------------------------------------------
(* The definition.  A bit of the message enters at the top of the          *)
(* register; when it differs from the bit that leaves there the polynomial *)
(* is subtracted.                                                          *)
Polynomial == {0, 5, 12}

Divided(w, bit) ==
  IF 15 \in w <=> bit THEN ShiftLeft(w, 1) ELSE Xor(ShiftLeft(w, 1), Polynomial)

(* The eight bits of a byte, the most significant first.                   *)
Division(w, b) ==
  Divided(Divided(Divided(Divided(Divided(Divided(Divided(Divided(
    w, 7 \in b), 6 \in b), 5 \in b), 4 \in b), 3 \in b), 2 \in b), 1 \in b), 0 \in b)

(* The remainders of a message, byte by byte, starting from sixteen ones.  *)
Remainders(input) ==
  LET divide == [n \in 1 .. Len(input) |-> [w \in Word |-> Division(w, input[n])]]
      remainder[n \in 0 .. Len(input)] == IF n = 0 THEN Initial ELSE divide[n][remainder[n - 1]]
  IN  remainder

(* A message ends in the complement of the remainder of what precedes, the *)
(* upper byte first.                                                       *)
Verifies(input) ==
  LET n == Len(input) - 2
  IN  {8 + k : k \in input[n + 1]} \cup input[n + 2] = (0 .. 15) \ Remainders(input)[n]
=============================================================================
