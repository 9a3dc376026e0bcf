------------------------------- MODULE Clock --------------------------------
(***************************************************************************)
(* Reading the time on RV32 (asm/timex.h), and what rests on it: __delay   *)
(* and udelay (lib/delay.c) and the clock event device (kernel/time.c).    *)
(*                                                                         *)
(* The hardware counts cycles in two words that a hart reads one at a      *)
(* time; `unsigned long' is one word.                                      *)
(***************************************************************************)
EXTENDS Integers

CONSTANTS
  Word,        \* 2 to the bits of a word
  timebase,    \* cycles per second
  Million,     \* microseconds per second
  Requests,    \* arguments of the calls
  MaxCycles    \* bound: cycles that pass; the counter itself does not wrap

ASSUME ClockAssumption ==
  /\ {Word, timebase, Million} \subseteq Nat \ {0}
  /\ Requests \subseteq Nat /\ MaxCycles \in 0 .. Word * Word - 1

VARIABLES
  first,     \* what the counter held at the call
  passed,    \* cycles since then
  task,      \* what is asked for: the call and its argument
  cpc,       \* where the task is in get_cycles, or "idle"
  since,     \* when it called get_cycles
  hi, lo,    \* what get_cycles has read
  t0,        \* __delay's t0, or NoTime
  event      \* what the SBI's timer is set to, or NoTime

clockVars == <<first, passed, task, cpc, since, hi, lo, t0, event>>

NoTime == -1
NoTask == [call |-> "none", arg |-> 0, result |-> NoTime]

mtime == first + passed
Combined(h, l) == h * Word + l

ClockInit ==
  /\ first \in 0 .. Word * Word - 1 - MaxCycles /\ passed = 0
  /\ task = NoTask /\ cpc = "idle"
  /\ since = 0
  /\ hi = 0 /\ lo = 0 /\ t0 = NoTime /\ event = NoTime

Cycle ==
  /\ task # NoTask /\ task.result = NoTime /\ passed < MaxCycles /\ passed' = passed + 1
  /\ UNCHANGED <<first, task, cpc, since, hi, lo, t0, event>>

-----------------------------------------------------------------------------
(* __delay(cycles) is called by udelay, which takes for the cycles what    *)
(* do_div returns, the remainder; riscv_timer_set_next_event(delta) by the *)
(* generic kernel.                                                         *)
udelay_cycles(usecs) == ((usecs * timebase) % (Word * Word)) % Million

Request(call, arg) ==
  /\ cpc = "idle" /\ task = NoTask /\ passed = 0
  /\ task' = [call |-> call, arg |-> arg % Word, result |-> NoTime]
  /\ cpc' = "hi"
  /\ UNCHANGED <<first, passed, since, hi, lo, t0, event>>

udelay(usecs) == Request("__delay", udelay_cycles(usecs))
set_next_event(delta) == Request("set_next_event", delta)

(* get_cycles: rdtimeh, rdtime, rdtimeh; once more if the first and the    *)
(* last differ.                                                            *)
rdtimeh_first ==
  /\ cpc = "hi" /\ cpc' = "lo"
  /\ hi' = mtime \div Word
  /\ UNCHANGED <<first, passed, task, since, lo, t0, event>>

rdtime ==
  /\ cpc = "lo" /\ cpc' = "again"
  /\ lo' = mtime % Word
  /\ UNCHANGED <<first, passed, task, since, hi, t0, event>>

rdtimeh_differs ==
  /\ cpc = "again" /\ mtime \div Word # hi
  /\ cpc' = "hi"
  /\ UNCHANGED <<first, passed, task, since, hi, lo, t0, event>>

(* Mutant: the low word is read last. *)
M_GetCyclesTorn ==
  /\ cpc = "again" /\ cpc' = "use"
  /\ UNCHANGED <<first, passed, task, since, hi, lo, t0, event>>

rdtimeh_same ==
  /\ cpc = "again" /\ mtime \div Word = hi
  /\ cpc' = "use"
  /\ UNCHANGED <<first, passed, task, since, hi, lo, t0, event>>

get_cycles == rdtimeh_first \/ rdtime \/ rdtimeh_differs \/ rdtimeh_same

Value == Combined(hi, lo)

delay_start ==
  /\ cpc = "use" /\ task.call = "__delay" /\ t0 = NoTime
  /\ t0' = Value /\ cpc' = "hi"
  /\ since' = passed
  /\ UNCHANGED <<first, passed, task, hi, lo, event>>

(* while ((unsigned long)(get_cycles() - t0) < cycles) *)
Elapsed == (Value - t0) % Word
delay_loop ==
  /\ cpc = "use" /\ task.call = "__delay" /\ t0 # NoTime /\ Elapsed < task.arg
  /\ cpc' = "hi" /\ since' = passed
  /\ UNCHANGED <<first, passed, task, hi, lo, t0, event>>

delay_return ==
  /\ cpc = "use" /\ task.call = "__delay" /\ t0 # NoTime /\ Elapsed >= task.arg
  /\ cpc' = "idle" /\ task' = [task EXCEPT !.result = passed]
  /\ UNCHANGED <<first, passed, since, hi, lo, t0, event>>

(* sbi_set_timer(get_cycles() + delta) *)
set_timer ==
  /\ cpc = "use" /\ task.call = "set_next_event"
  /\ event' = Value + task.arg
  /\ cpc' = "idle"
  /\ UNCHANGED <<first, passed, task, since, hi, lo, t0>>

(* The SBI's timer (external) compares the counter with what it was set    *)
(* to.                                                                     *)
TimerFires ==
  /\ event # NoTime /\ mtime >= event
  /\ event' = NoTime /\ task' = [task EXCEPT !.result = passed]
  /\ UNCHANGED <<first, passed, cpc, since, hi, lo, t0>>

ClockNext ==
  \/ Cycle \/ (\E n \in Requests : udelay(n) \/ set_next_event(n))
  \/ get_cycles \/ delay_start \/ delay_loop \/ delay_return \/ set_timer \/ TimerFires

ClockSpec == ClockInit /\ [][ClockNext]_clockVars

-----------------------------------------------------------------------------
(* timex.h:20-30, delay.c:6-11, time.c:18-23: a time that was read is one  *)
(* that the counter showed during the reading; __delay does not return,    *)
(* and a timer event does not come, before as many cycles have passed as   *)
(* were asked for, although the low word wraps in between.                  *)
TimeKept ==
  /\ cpc = "use" => \E n \in since .. passed : Value = first + n
  /\ task.result # NoTime => task.result >= task.arg
=============================================================================
