-------------------------- MODULE MCSymbolicValues --------------------------
(* SymbolicValues for TLC, with the bitwise operations and the forms of    *)
(* instructions the translator makes: operands of the same bits, a value   *)
(* by a flag, a comparison, a register by a count of a byte.               *)
EXTENDS SymbolicValues

LOCAL INSTANCE Bitwise

MCAnd(l, r) == l & r
MCOr(l, r)  == l | r
MCXor(l, r) == l ^^ r

Form(left, right, dst) == [left |-> left, right |-> right, dst |-> dst]
MCForms == {Form(1, 1, 1), Form(W8, W8, W8), Form(W8, 1, W8),
            Form(W8, W8, 1), Form(W16, W8, W8)}
=============================================================================
