-------------------------------- MODULE Field --------------------------------
(* Numbers on their way between the program and the database: the type a     *)
(* parameter is bound with and the conversions of a Field's getters, by the  *)
(* rules of C++ for conversions and comparisons.                             *)
EXTENDS Integers

CONSTANTS
  Widths,   \* the widths of the integer types, in bits
  IntBits   \* that of int

(* No integer type has more bits. *)
MaxWidth == 64

ASSUME FieldAssumption == Widths \subseteq 1 .. MaxWidth /\ IntBits \in Widths

(* How many values n bits have. *)
Pow2[n \in 0 .. MaxWidth] == IF n = 0 THEN 1 ELSE 2 * Pow2[n - 1]

Types == [bits : Widths, signed : BOOLEAN]

Values(t) == IF t.signed THEN -Pow2[t.bits - 1] .. Pow2[t.bits - 1] - 1
                         ELSE 0 .. Pow2[t.bits] - 1

(* Conversion to t: the value of t that is the same modulo 2^bits. *)
Wrap(v, t) ==
  LET m == v % Pow2[t.bits]
  IN  IF t.signed /\ m >= Pow2[t.bits - 1] THEN m - Pow2[t.bits] ELSE m

(* The type two operands of a comparison are converted to: what is narrower  *)
(* than int becomes int, then the wider type wins, and of two of the same    *)
(* width the unsigned one.                                                   *)
Promote(t) == IF t.bits < IntBits THEN [bits |-> IntBits, signed |-> TRUE] ELSE t

CommonType(a, b) ==
  CHOOSE c \in {Promote(a), Promote(b)} : \A d \in {Promote(a), Promote(b)} :
    \/ c.bits > d.bits
    \/ c.bits = d.bits /\ (c.signed => d.signed)

(* result != srcVal lets the value pass. *)
Equal(a, t, b, u) == LET c == CommonType(t, u) IN Wrap(a, c) = Wrap(b, c)

(* Mutant: the conversion is not checked. *)
Trusts(v, u, t) == TRUE

(* CheckType finds the value v of a column of type u to be one of type t. *)
Accepts(v, u, t) == Equal(Wrap(v, t), t, v, u)

(* SetParameter derives is_unsigned from a reference type, which is never    *)
(* signed: the server reads every parameter as a signed number.              *)
Received(v, t) == Wrap(v, [t EXCEPT !.signed = TRUE])
=============================================================================
