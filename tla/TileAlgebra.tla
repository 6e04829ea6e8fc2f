----------------------------- MODULE TileAlgebra -----------------------------
(***************************************************************************)
(* Symbolic values for the float buffers of host_code.                     *)
(*                                                                         *)
(* A float that the program computes is abstracted to the polynomial it    *)
(* denotes over named operand elements: a bag of monomials, a monomial     *)
(* being a bag of atoms.  An operand element A[i] is Atom(<<"A", n, i>>).  *)
(* Two buffers are then equal exactly when they hold the same sums of the  *)
(* same products, so a wrong index, a missing or doubled partial sum, a    *)
(* stale tile or a non-zero pad are all visible, while float rounding and  *)
(* the order of additions (which the code's 1% tolerance absorbs) are not. *)
(*                                                                         *)
(* Garbage is an indeterminate value: an uninitialised stack buffer or a   *)
(* device word nobody wrote.  Its bit pattern may be a NaN, so it absorbs  *)
(* every sum and product it enters, 0.0f * NaN included.                   *)
(***************************************************************************)
EXTENDS Naturals, Bags, FiniteSetsExt, Functions

CONSTANT Garbage

\* 0.0f: the empty sum.
Zero == EmptyBag

\* The operand element named a, as a value.
Atom(a) == SetToBag({SetToBag({a})})

\* Float addition.
Add(x, y) == IF x = Garbage \/ y = Garbage THEN Garbage ELSE x (+) y

\* Float multiplication: the product of two sums of monomials.
Mul(x, y) ==
  IF x = Garbage \/ y = Garbage THEN Garbage
  ELSE LET pairs == (DOMAIN x) \X (DOMAIN y)
           Mono(p) == p[1] (+) p[2]
       IN [m \in {Mono(p) : p \in pairs} |->
             MapThenSumSet(LAMBDA p : x[p[1]] * y[p[2]],
                           {p \in pairs : Mono(p) = m})]

\* The sum of f[i] for i in I, in any order.
SumOver(f, I) == FoldFunctionOnSet(Add, Zero, f, I)

\* A C array of n floats is a function from 0..n-1.
Indices(n) == 0 .. (n - 1)

\* A length-n array holding the named atoms <<name, n, i>>.
Operand(name, call, n) == [i \in Indices(n) |-> Atom(<<name, call, i>>)]

(***************************************************************************)
(* Reference CPU code of utils.c.                                          *)
(***************************************************************************)

\* mat_transpose_naive: out[j*num_row + i] = in[i*num_col + j].
MatTransposeNaive(in, numRow, numCol) ==
  [p \in Indices(numRow * numCol) |-> in[(p % numRow) * numCol + p \div numRow]]

\* cpu_innerproduct accumulates into *out, which it never zeroes.
CpuInnerProduct(v1, v2, out0, size) ==
  Add(out0, SumOver([i \in Indices(size) |-> Mul(v1[i], v2[i])], Indices(size)))

\* cpu_matvec: out_vector zeroed, then out[i] += m[num_col*i + j] * v[j].
CpuMatVec(m, v, numRow, numCol) ==
  [i \in Indices(numRow) |->
     SumOver([j \in Indices(numCol) |-> Mul(m[numCol * i + j], v[j])],
             Indices(numCol))]

\* cpu_matmul: out zeroed, then out[i*B + j] += m1[i*A + k] * m2[k*B + j].
CpuMatMul(m1, m2, numRowA, numColA, numColB) ==
  [p \in Indices(numRowA * numColB) |->
     LET i == p \div numColB
         j == p % numColB
     IN SumOver([k \in Indices(numColA) |->
                   Mul(m1[i * numColA + k], m2[k * numColB + j])],
                Indices(numColA))]

=============================================================================
