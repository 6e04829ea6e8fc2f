----------------------------- MODULE HostStartup -----------------------------
(***************************************************************************)
(* The start of main in fpga_offload.c: device_check (device_check.c),     *)
(* check_h2c_channels and check_c2h_channels (ctrl_register_read.c), each  *)
(* of which ends the program with exit(1) when it finds nothing, and then  *)
(* bram_readwrite_test(8192), the first test, as BramLoopback models it.   *)
(*                                                                         *)
(* /proc/devices is a sequence of whitespace-separated tokens, read with   *)
(* fscanf("%s").  An XDMA identifier register is a uint32_t kept as its    *)
(* two 16-bit halves <<hi, lo>> (TLC integers are signed 32-bit); the host *)
(* is little-endian, so ltohl leaves the value as read.                    *)
(***************************************************************************)
EXTENDS Integers, FiniteSets, Bitwise, TLC

CONSTANTS
  Garbage,          \* uninitialised memory (TileAlgebra)
  TestSize,         \* test_size of bram_readwrite_test
  ProcDevices,      \* the contents /proc/devices may have
  RegisterValues    \* what a 32-bit channel identifier register may read

H2CReg == 0          \* H2C_REG 0x0000
C2HReg == 4096       \* C2H_REG 0x1000
ChannelStride == 256 \* offset += 0x0100
OffsetEnd == 1024    \* offset < 0x0400: up to 4 channels per direction

VARIABLES
  pc,          \* where main is
  target,      \* check_channels' target_addr
  offset,      \* check_channels' loop offset
  numCh,       \* check_channels' num_ch
  readResult,  \* the register values the loop has read, by offset
  numEnH2c,    \* main's num_en_h2c
  numEnC2h,    \* main's num_en_c2h
  bram, output, delivered, j, testSuccess, loopPc   \* bram_readwrite_test

loopVars == <<bram, output, delivered, j, testSuccess, loopPc>>
vars == <<pc, target, offset, numCh, readResult, numEnH2c, numEnC2h, loopVars>>

Loop == INSTANCE BramLoopback WITH pc <- loopPc

\* Mutant: the mask keeps only the first two hex digits,
\* (read_result & 0xff000000) == 0x1f000000.
EnabledTwoDigits(reg) == (reg[1] & 65280) = 7936

\* (read_result & 0xfff00000) == 0x1fc00000: the first three hex digits
\* are 1fc.  On the upper halfword: (hi & 0xfff0) == 0x1fc0.
Enabled(reg) == (reg[1] & 65520) = 8128

\* Mutant: the scan runs one slot past the last channel (offset <= 0x0400).
OffsetLeftInclusive(off) == off <= OffsetEnd

\* for (offset; offset < 0x0400; offset += 0x0100)
OffsetLeft(off) == off < OffsetEnd

Init ==
  /\ pc = "device_check"
  /\ target = H2CReg
  /\ offset = 0
  /\ numCh = 0
  /\ readResult = <<>>
  /\ numEnH2c = 0
  /\ numEnC2h = 0
  /\ Loop!Init

\* device_check: fopen("/proc/devices") may fail; otherwise fscanf reads
\* tokens until EOF or one equal to "xdma".  Either failure is exit(1).
DeviceCheck ==
  /\ pc = "device_check"
  /\ \/ pc' = "exit"
     \/ \E devs \in ProcDevices :
          pc' = IF \E t \in DOMAIN devs : devs[t] = "xdma" THEN "open" ELSE "exit"
  /\ UNCHANGED <<target, offset, numCh, readResult, numEnH2c, numEnC2h, loopVars>>

\* check_channels: open("/dev/xdma0_control") and mmap of MAP_SIZE; a
\* failure of either is FATAL.
OpenControl ==
  /\ pc = "open"
  /\ pc' \in {"exit", "read"}
  /\ offset' = 0
  /\ numCh' = 0
  /\ readResult' = <<>>
  /\ UNCHANGED <<target, numEnH2c, numEnC2h, loopVars>>

\* One iteration: read the register at map_base + target + offset and
\* count the channel if it is enabled.
ReadRegister ==
  /\ pc = "read"
  /\ OffsetLeft(offset)
  /\ \E reg \in RegisterValues :
       /\ readResult' = readResult @@ (offset :> reg)
       /\ numCh' = IF Enabled(reg) THEN numCh + 1 ELSE numCh
  /\ offset' = offset + ChannelStride
  /\ UNCHANGED <<pc, target, numEnH2c, numEnC2h, loopVars>>

\* munmap (FATAL on failure), close, return num_ch; main prints it and
\* calls exit(1) if it is 0, else goes on to the C2H check or the tests.
\* The locals of check_channels end with it.
ReturnCount ==
  /\ pc = "read"
  /\ ~OffsetLeft(offset)
  /\ \/ /\ pc' = "exit"
        /\ UNCHANGED <<target, numEnH2c, numEnC2h>>
     \/ /\ target = H2CReg
        /\ numEnH2c' = numCh
        /\ target' = C2HReg
        /\ pc' = IF numCh = 0 THEN "exit" ELSE "open"
        /\ UNCHANGED numEnC2h
     \/ /\ target = C2HReg
        /\ numEnC2h' = numCh
        /\ pc' = IF numCh = 0 THEN "exit" ELSE "bram_test"
        /\ UNCHANGED <<numEnH2c, target>>
  /\ offset' = 0
  /\ numCh' = 0
  /\ readResult' = <<>>
  /\ UNCHANGED loopVars

\* bram_readwrite_test(8192), one step of it at a time.
BramTest ==
  /\ pc = "bram_test"
  /\ Loop!Next
  /\ UNCHANGED <<pc, target, offset, numCh, readResult, numEnH2c, numEnC2h>>

\* bram_readwrite_test returns whether or not it passed; main goes on to
\* profile_transferSize (TimingProfile) and the tests.
BramTestReturn ==
  /\ pc = "bram_test"
  /\ loopPc \in {"passed", "failed"}
  /\ pc' = "tests"
  /\ UNCHANGED <<target, offset, numCh, readResult, numEnH2c, numEnC2h, loopVars>>

Stopped == pc \in {"exit", "tests"} /\ UNCHANGED vars

Next ==
  \/ DeviceCheck \/ OpenControl \/ ReadRegister \/ ReturnCount
  \/ BramTest \/ BramTestReturn \/ Stopped

\* main is a single sequential thread.
Spec == Init /\ [][Next]_vars /\ WF_vars(Next)

(***************************************************************************)
(* Properties.                                                             *)
(***************************************************************************)

\* The four channel slots of an engine: offsets 0x0000 .. 0x0300.
ChannelSlots == {c * ChannelStride : c \in 0 .. 3}

\* Reference: a register identifies a channel when bits 31:20 of the
\* 32-bit value hi * 2^16 + lo are 0x1fc.
IsChannelIdentifier(reg) == reg[1] \div 16 = 508

TypeOK ==
  /\ pc \in {"device_check", "open", "read", "exit", "bram_test", "tests"}
  /\ target \in {H2CReg, C2HReg}
  /\ offset \in 0 .. OffsetEnd
  /\ numCh \in 0 .. 4 /\ numEnH2c \in 0 .. 4 /\ numEnC2h \in 0 .. 4
  /\ DOMAIN readResult \subseteq ChannelSlots
  /\ Loop!TypeOK

\* The count check_channels returns, which main tests against 0, is the
\* number of the four channel slots whose identifier register reads 0x1fc
\* in its top twelve bits: the loop visits every slot and the mask keeps
\* exactly those bits.
ChannelCountExact ==
  [][ReturnCount =>
       /\ DOMAIN readResult = ChannelSlots
       /\ numCh = Cardinality({o \in ChannelSlots : IsChannelIdentifier(readResult[o])})]_vars

\* bram_readwrite_test, run after the checks, passes only on a real round
\* trip through BRAM.
PassedMeansRoundTrip == Loop!PassedMeansRoundTrip

=============================================================================
