----------------------------- MODULE Arithmetic -----------------------------
(***************************************************************************)
(* The instructions that compile_binary, compile_compare and compile_unary *)
(* emit for integers (compile.c), on words of ValueBits + 6 bits where the *)
(* machine has 58 + 6.  An integer is its value shifted by the six bits of *)
(* the tag, which is 0 (mask_integer).                                     *)
(***************************************************************************)
EXTENDS Integers, Bitwise

CONSTANT ValueBits

Unit  == 64                          \* mask_integer(1)
Words == Unit * 2 ^ ValueBits
Word(n) == (n * Unit) % Words
Signed(w) == IF w < Words \div 2 THEN w ELSE w - Words
Integer(w) == Signed(w) \div Unit

(* The left operand is in its slot, the right one in RAX. *)
Faults(op, left, rax) ==
  \/ op = "OP_DIV" /\ rax = 0
  \/ op = "OP_MOD" /\ rax \div Unit = 0

(* The low word of the product: the words of integers are multiples of     *)
(* Unit, and TLC has no room for the product of two words.                 *)
LowProduct(left, rax) ==
  Unit * Unit * (((left \div Unit) * (rax \div Unit)) % (Words \div (Unit * Unit)))

(* mul, div and the shifts take words for unsigned; mul keeps the low word *)
(* of the product.                                                         *)
Emitted(op, left, rax) ==
  CASE op = "OP_ADD" -> (rax + left) % Words
    [] op = "OP_SUB" -> (rax - left) % Words
    [] op = "OP_MUL" -> LowProduct(left, rax) \div Unit
    [] op = "OP_DIV" -> ((left \div rax) * Unit) % Words
    [] op = "OP_MOD" -> (((left \div Unit) % (rax \div Unit)) * Unit) % Words
    [] op = "BITAND" -> rax & left
    [] op = "BITLOR" -> rax | left
    [] op = "BITXOR" -> rax ^^ left

(* compile_compare: sub and cmp, then a jump over the truth. *)
Jumps(op, difference) ==
  CASE op = "CMP_GT" -> difference > 0
    [] op = "CMP_GE" -> difference >= 0
    [] op = "CMP_LE" -> difference <= 0
    [] op = "CMP_LT" -> difference < 0
Compared(op, left, rax) == ~Jumps(op, Signed((rax - left) % Words))

(* neg, then cmovl: back to the operand when the negation is below 0, but  *)
(* not when it overflows.                                                  *)
EmittedUnary(op, rax) ==
  LET neg == (-rax) % Words
  IN  CASE op = "OP_ABS" -> IF Signed(neg) < 0 /\ neg # rax THEN rax ELSE neg
        [] op = "OP_NEG" -> neg
        [] op = "OP_INC" -> (rax + Unit) % Words
        [] op = "OP_DEC" -> (rax - Unit) % Words
=============================================================================
