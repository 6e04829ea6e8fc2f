----------------------------- MODULE Accelerator -----------------------------
(***************************************************************************)
(* The accelerator invocation protocol of fpga_offload.c: the host thread  *)
(* running fpga_matvec, fpga_matvec_verbose, fpga_matmul and               *)
(* fpga_innerproduct over the XDMA channels of channel_readwrite.c, and    *)
(* the FPGA that runs concurrently with it.                                *)
(*                                                                         *)
(* Device memory is BRAM (float-indexed from BRAM_ADDR) and the 32-bit     *)
(* register at IP_ADDR.  The host writes operands, writes the op code      *)
(* 0x5555 to the register, reads the register until it differs from        *)
(* 0x5555 and then reads the result from BRAM.  Every write_to_channel or  *)
(* read_from_channel is one atomic step; the FPGA's computation is another *)
(* step that may fall between any two of them.                             *)
(***************************************************************************)
EXTENDS Channel

CONSTANTS
  S,              \* SIZE
  MaxCalls,       \* number of fpga_* calls main makes
  Ops,            \* the fpga_* entry points called
  Bitstreams,     \* the designs the FPGA may be programmed with
  DoneCodes,      \* values the FPGA leaves in the register when it finishes
  MaxReadFaults   \* number of reads that may return fewer bytes than asked

Sentinel == 21845   \* op_code = 0x5555
FailedRead == 0     \* read_from_channel memsets its buffer to 0x00

\* Float offsets from BRAM_ADDR.
VecSlot == 0                  \* BRAM_ADDR
MatSlot == S                  \* BRAM_ADDR + 0x0004*SIZE
SinglePESlot == S + S * S     \* BRAM_ADDR + 0x0004*(SIZE + SIZE*SIZE)
BramSize == 2 * S + S * S

VARIABLES
  bram,     \* device memory at BRAM_ADDR
  ipReg,    \* the register at IP_ADDR
  pc,       \* where the host thread is
  call,     \* the arguments of the current fpga_* call
  k,        \* the row loop index of fpga_matmul
  opCode,   \* the host's local op_code
  out,      \* the caller's output buffer
  result,   \* the output buffer of the last call that returned
  calls,    \* calls returned so far
  faults,   \* reads so far that fell short
  running,  \* the FPGA has started and not yet finished
  bitstream \* the design loaded on the FPGA for the whole run

vars == <<bram, ipReg, pc, call, k, opCode, out, result, calls, faults, running, bitstream>>

Abs == INSTANCE AcceleratorCall WITH busy <- (pc # "idle")

OutLen(op) ==
  CASE op = "matmul" -> S * S [] op = "innerproduct" -> 1 [] OTHER -> S

\* Mutant: fpga_innerproduct reads 0x0004*SIZE bytes, as fpga_matvec does.
ReadLenAsMatVec(op) == S

\* The floats one result read asks for.
ReadLen(op) == IF op = "innerproduct" THEN 1 ELSE S

\* Mutant: the result read from the single-PE slot (the commented-out
\* read of fpga_matvec).
ResultAddrSinglePE(op) == SinglePESlot

\* Where the result is read from.
ResultAddr(op) == IF op = "matvec_verbose" THEN SinglePESlot ELSE VecSlot

\* What goes to the vector slot and to the matrix slot.
VectorOperand ==
  CASE call.op = "innerproduct" -> call.x
    [] call.op = "matmul" -> [i \in Indices(S) |-> call.x[S * k + i]]
    [] OTHER -> call.y
MatrixOperand ==
  CASE call.op = "innerproduct" -> call.y
    [] call.op = "matmul" -> MatTransposeNaive(call.y, S, S)
    [] OTHER -> call.x

(***************************************************************************)
(* channel_readwrite.c, as Channel models it, on the BRAM.                 *)
(***************************************************************************)

WriteBram(addr, data) == WriteChannel(bram, addr, data)

\* How many of n floats a read_from_channel delivers: all of them, or,
\* while faults remain, any fewer (rc <= 0 or a short read).
Delivered(n) == IF faults < MaxReadFaults THEN 0 .. n ELSE {n}

\* The buffer posix_memalign returns holds whatever was there before.
ReadBram(addr, n, d) == ReadChannel(bram, addr, n, d, [i \in Indices(n) |-> Garbage])

CountFault(n, d) == faults' = faults + (IF d < n THEN 1 ELSE 0)

(***************************************************************************)
(* The host thread.                                                        *)
(***************************************************************************)

\* Entry to an fpga_* function: op_code = 0x5555; the caller's output
\* buffer was zero-initialised by main.
Invoke(op) ==
  /\ pc = "idle"
  /\ calls < MaxCalls
  /\ call' = Abs!Call(op, calls)
  /\ k' = 0
  /\ opCode' = Sentinel
  /\ out' = [i \in Indices(OutLen(op)) |-> Zero]
  /\ pc' = IF op = "matmul" THEN "write_matrix" ELSE "write_vector"
  /\ UNCHANGED <<bram, ipReg, result, calls, faults, running, bitstream>>

WriteVector ==
  /\ pc = "write_vector"
  /\ bram' = WriteBram(VecSlot, VectorOperand)
  /\ pc' = IF call.op = "matmul" THEN "trigger" ELSE "write_matrix"
  /\ UNCHANGED <<ipReg, call, k, opCode, out, result, calls, faults, running, bitstream>>

\* fpga_matmul transposes in_matrix2 and writes it once, before its loop.
WriteMatrix ==
  /\ pc = "write_matrix"
  /\ bram' = WriteBram(MatSlot, MatrixOperand)
  /\ pc' = IF call.op = "matmul" THEN "write_vector" ELSE "trigger"
  /\ UNCHANGED <<ipReg, call, k, opCode, out, result, calls, faults, running, bitstream>>

\* Mutant: fpga_matmul without the op_code = 0x5555 before each row.
OpCodeSentNoRearm == opCode

\* The op code sent: fpga_matmul re-arms op_code before every row, the
\* others send the value op_code was declared with.
OpCodeSent == IF call.op = "matmul" THEN Sentinel ELSE opCode

Trigger ==
  /\ pc = "trigger"
  /\ opCode' = OpCodeSent
  /\ ipReg' = OpCodeSent
  /\ running' = (running \/ OpCodeSent = Sentinel)
  /\ pc' = "poll"
  /\ UNCHANGED <<bram, call, k, out, result, calls, faults, bitstream>>

\* Mutant: the register is read once instead of until it changes.
PollDoneFirstRead(code) == TRUE

\* One pass of while(1): read the register into op_code, break if it is
\* not 0x5555.
PollDone(code) == code # Sentinel

Poll ==
  /\ pc = "poll"
  /\ \E d \in Delivered(1) :
       /\ opCode' = IF d = 1 THEN ipReg ELSE FailedRead
       /\ CountFault(1, d)
  /\ pc' = IF PollDone(opCode') THEN "read_result" ELSE "poll"
  /\ UNCHANGED <<bram, ipReg, call, k, out, result, calls, running, bitstream>>

\* Mutant: the row loop runs one row too far (k <= SIZE).
RowsLeftOffByOne == call.op = "matmul" /\ k < S

\* fpga_matmul's loop: for (k = 0; k < SIZE; k++).
RowsLeft == call.op = "matmul" /\ k + 1 < S

\* Read the result into out (row k of it for fpga_matmul); the last read
\* returns from the fpga_* function.  A memcpy past the end of out grows
\* it, which TypeOK flags.
ReadResult ==
  /\ pc = "read_result"
  /\ \E d \in Delivered(ReadLen(call.op)) :
       LET data == ReadBram(ResultAddr(call.op), ReadLen(call.op), d)
           base == IF call.op = "matmul" THEN S * k ELSE 0
       IN /\ out' = [i \in DOMAIN out \cup {base + e : e \in DOMAIN data} |->
                       IF i - base \in DOMAIN data THEN data[i - base] ELSE out[i]]
          /\ CountFault(ReadLen(call.op), d)
  /\ IF RowsLeft
       THEN /\ k' = k + 1
            /\ pc' = "write_vector"
            /\ UNCHANGED <<result, calls>>
       ELSE /\ pc' = "idle"
            /\ result' = out'
            /\ calls' = calls + 1
            /\ UNCHANGED k
  /\ UNCHANGED <<bram, ipReg, call, opCode, running, bitstream>>

\* main returns after its last call.
Finished ==
  /\ pc = "idle"
  /\ calls = MaxCalls
  /\ UNCHANGED vars

(***************************************************************************)
(* The FPGA.  It starts when 0x5555 is written to its register, computes *)
(* from the operand slots, writes the result to BRAM_ADDR (the multi-PE    *)
(* design that fpga_matvec and fpga_matmul read from) and leaves one of    *)
(* DoneCodes in the register.  Nothing in the host code keeps DoneCodes    *)
(* from holding 0x5555 itself (spec section 3).                            *)
(***************************************************************************)

DeviceResult ==
  IF bitstream = "innerproduct"
    THEN [i \in Indices(1) |->
            SumOver([c \in Indices(S) |-> Mul(bram[VecSlot + c], bram[MatSlot + c])],
                    Indices(S))]
    ELSE [n \in Indices(S) |->
            SumOver([c \in Indices(S) |-> Mul(bram[MatSlot + S * n + c], bram[VecSlot + c])],
                    Indices(S))]

DeviceCompute ==
  /\ running
  /\ bram' = WriteBram(VecSlot, DeviceResult)
  /\ ipReg' \in DoneCodes
  /\ running' = FALSE
  /\ UNCHANGED <<pc, call, k, opCode, out, result, calls, faults, bitstream>>

(***************************************************************************)

\* main calls fpga_innerproduct against the inner-product design and the
\* other entry points against the multi-PE matrix-vector design.
Serves(design, op) == (op = "innerproduct") = (design = "innerproduct")

Init ==
  /\ bram = [a \in Indices(BramSize) |-> Garbage]
  /\ ipReg \in DoneCodes
  /\ pc = "idle"
  /\ call = Abs!NoCall
  /\ k = 0
  /\ opCode = Sentinel
  /\ out = <<>>
  /\ result = <<>>
  /\ calls = 0
  /\ faults = 0
  /\ running = FALSE
  /\ bitstream \in Bitstreams

Next ==
  \/ \E op \in Ops : Serves(bitstream, op) /\ Invoke(op)
  \/ WriteVector
  \/ WriteMatrix
  \/ Trigger
  \/ Poll
  \/ ReadResult
  \/ Finished
  \/ DeviceCompute

\* The host thread runs whenever it can and the FPGA finishes what it starts.
Fairness ==
  /\ WF_vars(WriteVector) /\ WF_vars(WriteMatrix) /\ WF_vars(Trigger)
  /\ WF_vars(Poll) /\ WF_vars(ReadResult)
  /\ WF_vars(DeviceCompute)

Spec == Init /\ [][Next]_vars /\ Fairness

(***************************************************************************)
(* Properties.                                                             *)
(***************************************************************************)

IsValue(v) == v = Garbage \/ IsABag(v)

\* Besides the types: the memcpy into the caller's output buffer never
\* writes past the floats it holds.
TypeOK ==
  /\ DOMAIN bram = Indices(BramSize) /\ \A a \in DOMAIN bram : IsValue(bram[a])
  /\ ipReg \in DoneCodes \cup {Sentinel}
  /\ pc \in {"idle", "write_vector", "write_matrix", "trigger", "poll", "read_result"}
  /\ k \in Indices(S)
  /\ opCode \in DoneCodes \cup {Sentinel, FailedRead}
  /\ call # Abs!NoCall => DOMAIN out = Indices(OutLen(call.op))
  /\ \A i \in DOMAIN out : IsValue(out[i])
  /\ calls \in 0 .. MaxCalls
  /\ faults \in 0 .. MaxReadFaults
  /\ running \in BOOLEAN
  /\ bitstream \in Bitstreams

\* Every call to fpga_matvec, fpga_matmul or fpga_innerproduct returns, and
\* returns what cpu_matvec, cpu_matmul or cpu_innerproduct computes for the
\* same operands: the busy-poll protocol implements a synchronous call.
RefinesAcceleratorCall == Abs!ASpec

\* The host never writes an operand slot while the FPGA is computing
\* (register still 0x5555): what the FPGA multiplies is what was written
\* for this call or this row of fpga_matmul, never a mix with the next.
NoOperandWriteWhileBusy ==
  [][(WriteVector \/ WriteMatrix) => ipReg # Sentinel]_vars

=============================================================================
