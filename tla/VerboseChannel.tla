---------------------------- MODULE VerboseChannel ----------------------------
(***************************************************************************)
(* The timing of write_to_channel_verbose and read_from_channel_verbose    *)
(* (channel_readwrite.c) as profile_overhead calls them: NUM_REPEAT writes *)
(* then NUM_REPEAT reads.  Each takes CLOCK_MONOTONIC readings around its  *)
(* phases in code order, subtracts each start from its end, prints the six *)
(* intervals and returns the transfer's.  The transfer itself is what      *)
(* Channel models.                                                         *)
(*                                                                         *)
(* The timespec locals are uninitialised on entry: each holds whatever the *)
(* stack held, a value from StackGarbage.                                  *)
(***************************************************************************)
EXTENDS Timespec, Sequences, FiniteSetsExt

CONSTANTS
  NumRepeat,     \* NUM_REPEAT
  MaxSec,        \* the clock readings considered: seconds 0 .. MaxSec
  StackGarbage   \* timespecs an uninitialised local may hold

VARIABLES
  clock,      \* the last CLOCK_MONOTONIC reading
  ts,         \* the function's timespec locals
  calls,      \* calls started so far
  step,       \* the next statement of the current call
  reported,   \* the intervals the last call printed
  status      \* "idle", "busy" or "abort"

vars == <<clock, ts, calls, step, reported, status>>

Readings == {Timespec(s, n) : s \in 0 .. MaxSec, n \in 0 .. Billion - 1}
Later(t) == {r \in Readings : Units(r) >= Units(t)}

Phases == {"mem", "open", "xfer", "close", "cleanup"}
Timers == {"global_start", "global_end"} \cup
          {ph \o "_start" : ph \in Phases} \cup {ph \o "_end" : ph \in Phases}

\* Mutant: ts_global_end read before the cleanup is timed.
WriteStepsGlobalEndEarly ==
  <<"global_start", "mem_start", "mem_end", "open_start", "open_end",
    "xfer_start", "xfer_end", "close_start", "close_end", "global_end",
    "cleanup_start", "cleanup_end">>

\* The statements of write_to_channel_verbose that touch the timers.
WriteSteps ==
  <<"global_start", "mem_start", "mem_end", "open_start", "open_end",
    "xfer_start", "xfer_end", "close_start", "close_end",
    "cleanup_start", "cleanup_end", "global_end">>

\* read_from_channel_verbose: the same, and a timespec_sub of
\* ts_global_end from ts_global_start after the memcpy.
ReadSteps ==
  <<"global_start", "mem_start", "mem_end", "open_start", "open_end",
    "xfer_start", "xfer_end", "early_sub", "close_start", "close_end",
    "cleanup_start", "cleanup_end", "global_end">>

\* profile_overhead: writes first, then reads.
Steps == IF calls <= NumRepeat THEN WriteSteps ELSE ReadSteps

Init ==
  /\ clock \in Readings
  /\ ts = [t \in Timers |-> TimespecZero]
  /\ calls = 0
  /\ step = 1
  /\ reported = [ph \in Phases \cup {"global"} |-> TimespecZero]
  /\ status = "idle"

\* Mutant: one call too many in profile_overhead's loops.
CallsLeftInclusive == calls <= 2 * NumRepeat

\* for (p = 0; p < NUM_REPEAT; p++), once for writes and once for reads.
CallsLeft == calls < 2 * NumRepeat

\* Entry to a verbose function: its locals hold stack garbage.
Enter ==
  /\ status = "idle"
  /\ CallsLeft
  /\ \E g \in StackGarbage : ts' = [t \in Timers |-> g]
  /\ calls' = calls + 1
  /\ step' = 1
  /\ status' = "busy"
  /\ UNCHANGED <<clock, reported>>

\* clock_gettime(CLOCK_MONOTONIC, &ts_x).
ClockGettime ==
  /\ status = "busy"
  /\ step <= Len(Steps)
  /\ Steps[step] \in Timers
  /\ \E r \in Later(clock) :
       /\ clock' = r
       /\ ts' = [ts EXCEPT ![Steps[step]] = r]
  /\ step' = step + 1
  /\ UNCHANGED <<calls, reported, status>>

\* timespec_sub(&ts_global_end, &ts_global_start) at line 227, before
\* ts_global_end has been read from the clock.
EarlySub ==
  /\ status = "busy"
  /\ step <= Len(Steps)
  /\ Steps[step] = "early_sub"
  /\ IF SubAsserts(ts["global_end"], ts["global_start"])
       THEN /\ ts' = [ts EXCEPT !["global_end"] = TimespecSub(ts["global_end"], ts["global_start"])]
            /\ step' = step + 1
            /\ UNCHANGED status
       ELSE /\ status' = "abort"
            /\ UNCHANGED <<ts, step>>
  /\ UNCHANGED <<clock, calls, reported>>

\* The six timespec_subs, in code order, and the printout.
Interval(ph) == IF ph = "global" THEN <<"global_end", "global_start">>
                                 ELSE <<ph \o "_end", ph \o "_start">>
Report ==
  /\ status = "busy"
  /\ step = Len(Steps) + 1
  /\ IF \A ph \in DOMAIN reported : SubAsserts(ts[Interval(ph)[1]], ts[Interval(ph)[2]])
       THEN /\ reported' = [ph \in DOMAIN reported |->
                              TimespecSub(ts[Interval(ph)[1]], ts[Interval(ph)[2]])]
            /\ status' = "idle"
       ELSE /\ status' = "abort"
            /\ UNCHANGED reported
  /\ UNCHANGED <<clock, ts, calls, step>>

Stopped ==
  /\ status = "abort" \/ (status = "idle" /\ calls = 2 * NumRepeat)
  /\ UNCHANGED vars

Next == Enter \/ ClockGettime \/ EarlySub \/ Report \/ Stopped

Spec == Init /\ [][Next]_vars /\ WF_vars(Next)

(***************************************************************************)
(* Properties.                                                             *)
(***************************************************************************)

TypeOK ==
  /\ clock \in Readings
  /\ calls \in 0 .. 2 * NumRepeat
  /\ step \in 1 .. Len(ReadSteps) + 1
  /\ status \in {"idle", "busy", "abort"}

\* A verbose transfer never aborts on an assert of timespec_sub: every
\* timespec it subtracts has been read from the clock.
AssertsNeverFire == status # "abort"

\* Every interval a verbose transfer prints with %ld.%09ld is a
\* non-negative, normalized duration.
ReportsNormalized ==
  status = "idle" /\ calls > 0 =>
    \A ph \in DOMAIN reported : Normalized(reported[ph]) /\ reported[ph].sec >= 0

\* The phases printed are disjoint parts of the "total transfer time"
\* printed with them: their sum never exceeds it.
PhasesWithinTotal ==
  status = "idle" /\ calls > 0 =>
    MapThenSumSet(LAMBDA ph : Units(reported[ph]), Phases) <= Units(reported["global"])

=============================================================================
