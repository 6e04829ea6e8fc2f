------------------------------- MODULE Channel -------------------------------
(***************************************************************************)
(* The XDMA channel transfers of channel_readwrite.c over device memory    *)
(* mem, a function from float offsets to values.                           *)
(*                                                                         *)
(* write_to_channel copies data into an aligned buffer and writes it; the  *)
(* assert(rc == transferSize) aborts on anything short, so a write that    *)
(* returns has moved every float.  read_from_channel reads into a freshly  *)
(* allocated buffer and copies the whole buffer out whatever read()        *)
(* returned: a short read is only printed, a failed one (rc <= 0) not even *)
(* that.                                                                   *)
(***************************************************************************)
EXTENDS TileAlgebra

\* write_to_channel: the whole buffer lands at addr.
WriteChannel(mem, addr, data) ==
  [a \in DOMAIN mem |-> IF a - addr \in DOMAIN data THEN data[a - addr] ELSE mem[a]]

\* Mutant: the buffer handed to read() without the memset.
BufferNoMemset(buf) == buf

\* memset(buffer, 0x00, transferSize): whatever posix_memalign returned,
\* the buffer starts as zeros.
BufferInit(buf) == [i \in DOMAIN buf |-> Zero]

\* read_from_channel of n floats at addr when read() delivers the first d
\* of them into the n-float buffer buf that posix_memalign returned; the
\* memcpy hands all n floats to the caller.
ReadChannel(mem, addr, n, d, buf) ==
  [i \in Indices(n) |-> IF i < d THEN mem[addr + i] ELSE BufferInit(buf)[i]]

=============================================================================
