------------------------------ MODULE MCLayout ------------------------------
(***************************************************************************)
(* The instance of Layout that TLC checks.                                 *)
(***************************************************************************)
EXTENDS Layout

Ints(offset, size, n, ptrs) == [float |-> FALSE, offset |-> offset, size |-> size, n |-> n, ptrs |-> ptrs]
Floats(size, n) == [float |-> TRUE, offset |-> 0, size |-> size, n |-> n, ptrs |-> {}]

Type(size, align, array, ptrs, parts) ==
  [size |-> size, align |-> align, array |-> array, ptrs |-> ptrs, parts |-> parts]

Byte == Type(1, 1, FALSE, {}, <<Ints(0, 1, 1, {})>>)
Pointer == Type(8, 8, FALSE, {0}, <<Ints(0, 8, 1, {0})>>)
String == Type(16, 8, FALSE, {0}, <<Ints(0, 8, 2, {0})>>)
Interface == Type(16, 8, FALSE, {0, 8}, <<Ints(0, 8, 2, {1})>>)
Slice == Type(24, 8, FALSE, {0}, <<Ints(0, 8, 3, {0})>>)
Complex == Type(16, 8, FALSE, {}, <<Floats(8, 2)>>)

\* [0]int64
Zero == Type(0, 8, FALSE, {}, <<>>)

\* struct{ b byte; p *T }
Tagged == Type(16, 8, FALSE, {8}, <<Ints(0, 1, 1, {}), Ints(8, 8, 1, {0})>>)

\* struct{ s string; a [2]*T }: regAssign gives up at the array
Pair == Type(32, 8, TRUE, {0, 16, 24}, <<Ints(0, 8, 2, {0})>>)

MCTypes == {Byte, Pointer, String, Interface, Slice, Complex, Zero, Tagged, Pair}
=============================================================================
