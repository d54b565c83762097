--------------------------- MODULE NotificationCount ---------------------------
(***************************************************************************)
(* getNextCount of pkg/manager/manager.go: the value every notifier writes *)
(* into the deployment-manager/notifications annotation.                   *)
(*                                                                         *)
(* An annotation value is text.  It is abstracted to what strconv.Atoi and *)
(* strconv.Itoa tell apart: the empty string, text that is no decimal      *)
(* numeral at all ("junk"), and numerals, which carry the integer they     *)
(* denote and whether they are in the canonical form Itoa produces ("7")   *)
(* or another form Atoi also accepts ("+7", "007", "-0").  A numeral may   *)
(* denote an integer outside the range of Go's int, which Atoi rejects.    *)
(* Every value is a record of the same shape, so that TLC compares any two *)
(* of them.                                                                *)
(***************************************************************************)
EXTENDS Integers

CONSTANT IntWidth   \* bits of Go's int: 64 on the platforms the manager is built for

ASSUME IntWidthAssumption == IntWidth \in Nat \ {0}

\* 2^IntWidth, the modulus of int arithmetic, is a positive integer, twice
\* 2^(IntWidth-1) (facts of arithmetic the provers cannot derive without
\* induction on IntWidth).
ASSUME ModulusAssumption ==
    /\ 2 ^ IntWidth \in Nat \ {0}
    /\ 2 ^ (IntWidth - 1) \in Nat \ {0}
    /\ 2 ^ IntWidth = 2 * 2 ^ (IntWidth - 1)

MinInt == -(2 ^ (IntWidth - 1))
MaxInt == 2 ^ (IntWidth - 1) - 1

\* Go's signed integer arithmetic wraps around at the width of int.
WrapInt(n) == ((n - MinInt) % (2 ^ IntWidth)) + MinInt

TextForms == {"empty", "junk", "canonical", "noncanonical"}

Text == [form : TextForms, num : Int]

EmptyText == [form |-> "empty", num |-> 0]
JunkText  == [form |-> "junk", num |-> 0]

Numeral(t) == t.form \in {"canonical", "noncanonical"}

(***************************************************************************)
(* strconv.Atoi: the integer a numeral denotes if it fits in an int, an    *)
(* error (ok = FALSE) otherwise.                                           *)
(***************************************************************************)
Atoi(t) == IF Numeral(t) /\ t.num \in MinInt .. MaxInt
             THEN [ok |-> TRUE, val |-> t.num]
             ELSE [ok |-> FALSE, val |-> 0]

\* strconv.Itoa: the canonical decimal numeral of an integer.
Itoa(n) == [form |-> "canonical", num |-> n]

\* Variant with a bug: a value Atoi rejects is returned as it is.
getNextCountKeepsJunk(value) ==
    IF value # EmptyText /\ ~Atoi(value).ok THEN value
    ELSE Itoa(WrapInt(IF value = EmptyText THEN 1 ELSE Atoi(value).val + 1))

(***************************************************************************)
(* getNextCount (manager.go 134-147): an empty value counts as 0, a value  *)
(* Atoi rejects is logged and counts as 0, and the result is the numeral   *)
(* of count + 1 computed in int arithmetic.                                *)
(***************************************************************************)
getNextCount(value) ==
    LET count == IF value = EmptyText \/ ~Atoi(value).ok THEN 0
                 ELSE Atoi(value).val
    IN  Itoa(WrapInt(count + 1))

=============================================================================
