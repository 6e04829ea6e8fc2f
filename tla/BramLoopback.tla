----------------------------- MODULE BramLoopback -----------------------------
(***************************************************************************)
(* bram_readwrite_test of fpga_offload.c: test_size random floats are      *)
(* written to BRAM_ADDR, read back from it and compared one by one.  The   *)
(* inputs are (rand()%10000 + 1) * 0.001f, never 0.0f, so they are atoms   *)
(* of TileAlgebra.                                                         *)
(*                                                                         *)
(* write_to_channel frees its buffer just before read_from_channel asks    *)
(* posix_memalign for one of the same size, so the read buffer may be the  *)
(* same memory, still holding the input.                                   *)
(***************************************************************************)
EXTENDS Channel

CONSTANT TestSize   \* test_size

VARIABLES
  bram,         \* device memory at BRAM_ADDR
  output,       \* the output array
  delivered,    \* floats the read() really moved (rc / 4)
  j,            \* the comparison loop index
  testSuccess,  \* test_success
  pc

vars == <<bram, output, delivered, j, testSuccess, pc>>

Input == Operand("input", 0, TestSize)

\* What BRAM holds when the program starts: never written, or left by an
\* earlier run of the program with other random floats.
InitialBram == {[a \in Indices(TestSize) |-> Garbage], Operand("earlier", 0, TestSize)}

\* What the buffer posix_memalign returns to read_from_channel holds.
StaleBuffers == {Input, [i \in Indices(TestSize) |-> Garbage]}

Init ==
  /\ bram \in InitialBram
  /\ output = [i \in Indices(TestSize) |-> Garbage]
  /\ delivered = 0
  /\ j = 0
  /\ testSuccess = 1
  /\ pc = "write"

\* write_to_channel(..., BRAM_ADDR, 4 * test_size, input).
Write ==
  /\ pc = "write"
  /\ bram' = WriteChannel(bram, 0, Input)
  /\ pc' = "read"
  /\ UNCHANGED <<output, delivered, j, testSuccess>>

\* read_from_channel(..., BRAM_ADDR, 4 * test_size, output): read() moves
\* any number of the floats, none when it fails.
Read ==
  /\ pc = "read"
  /\ \E d \in 0 .. TestSize, buf \in StaleBuffers :
       /\ output' = ReadChannel(bram, 0, TestSize, d, buf)
       /\ delivered' = d
  /\ pc' = "compare"
  /\ UNCHANGED <<bram, j, testSuccess>>

\* if (input[j] != output[j]) test_success = 0.
Compare ==
  /\ pc = "compare"
  /\ j < TestSize
  /\ testSuccess' = IF Input[j] # output[j] THEN 0 ELSE testSuccess
  /\ j' = j + 1
  /\ UNCHANGED <<bram, output, delivered, pc>>

\* "BRAM Read/Write Test Passed!" is printed only if test_success.
Report ==
  /\ pc = "compare"
  /\ j = TestSize
  /\ pc' = IF testSuccess = 1 THEN "passed" ELSE "failed"
  /\ UNCHANGED <<bram, output, delivered, j, testSuccess>>

Done == pc \in {"passed", "failed"} /\ UNCHANGED vars

Next == Write \/ Read \/ Compare \/ Report \/ Done

Spec == Init /\ [][Next]_vars /\ WF_vars(Next)

TypeOK ==
  /\ DOMAIN bram = Indices(TestSize) /\ DOMAIN output = Indices(TestSize)
  /\ delivered \in 0 .. TestSize
  /\ j \in 0 .. TestSize
  /\ testSuccess \in {0, 1}
  /\ pc \in {"write", "read", "compare", "passed", "failed"}

\* The test passes only if the round trip really happened: every float
\* was read back from the device, none of it is what the reused read
\* buffer held or what BRAM held before the write.
PassedMeansRoundTrip ==
  pc = "passed" => delivered = TestSize /\ output = Input

=============================================================================
