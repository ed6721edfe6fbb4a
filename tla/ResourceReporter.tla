--------------------------- MODULE ResourceReporter ---------------------------
(***************************************************************************)
(* utils/rr: rr reads the CPU ticks of another process from /proc/PID/stat *)
(* and its size from /proc/PID/statm, one after the other, and prints a    *)
(* row.  The process may die at any time, also between the two.  Ticks are *)
(* unsigned and their differences are taken modulo the width of a counter. *)
(***************************************************************************)
EXTENDS Integers

CONSTANT Width  \* 2^64

ASSUME WidthAssumption == Width \in Nat \ {0, 1}

VARIABLES rr,        \* "off", "asleep", "halfway" (between stat and statm), "crashed"
          ticks,     \* utime + stime of the process, modulo Width
          previous,  \* previous_cpu_reading
          usage,     \* cpu_usage_since_last_report
          fresh,     \* the ticks that the process used since it was read last
          spent      \* ... and in the period that usage stands for

rrVars == <<rr, ticks, previous, usage, fresh, spent>>

RRTypeOK ==
    /\ rr \in {"off", "asleep", "halfway", "crashed"}
    /\ {ticks, previous, usage, fresh, spent} \subseteq 0..(Width - 1)

RRInit == rr = "off" /\ ticks = 0 /\ previous = 0 /\ usage = 0 /\ fresh = 0 /\ spent = 0

\* A new process to watch.  alive tells, here and below, whether /proc/PID is there.
NewProcess == ticks' = 0 /\ UNCHANGED <<rr, previous, usage, fresh, spent>>

\* The process uses the CPU, less than the whole counter in one period.
Work(alive) ==
    /\ alive /\ rr # "crashed" /\ fresh < Width - 1
    /\ ticks' = (ticks + 1) % Width /\ fresh' = fresh + 1
    /\ UNCHANGED <<rr, previous, usage, spent>>

\* rr_get_cpu_usage: a stat that does not open counts as 0.
Reading(alive) == IF alive THEN ticks ELSE 0

\* rr is started: rr_init.
Watch(alive) ==
    /\ rr' = "asleep" /\ previous' = Reading(alive)
    /\ fresh' = 0 /\ usage' = 0 /\ spent' = 0
    /\ UNCHANGED ticks

\* The sleep is over: rr_report reads the CPU usage.
ReadUsage(alive) ==
    /\ rr = "asleep" /\ rr' = "halfway"
    /\ usage' = (Reading(alive) - previous) % Width
    /\ previous' = Reading(alive)
    /\ spent' = fresh /\ fresh' = 0
    /\ UNCHANGED ticks

\* Definitions named Bug... are faulty variants of the definition that follows.
\* statm is tested like stat.
BugSizeIsRead(alive) == TRUE

\* rr_get_rss does not test the file it reads from: without it rr crashes.
SizeIsRead(alive) == alive

\* The size is read, and the row can be printed.
ReadSize(alive) ==
    /\ rr = "halfway" /\ SizeIsRead(alive)
    /\ rr' = "asleep"
    /\ UNCHANGED <<ticks, previous, usage, fresh, spent>>

RRCrash(alive) ==
    /\ rr = "halfway" /\ ~SizeIsRead(alive)
    /\ rr' = "crashed"
    /\ UNCHANGED <<ticks, previous, usage, fresh, spent>>

\* rr is killed.
RRStop ==
    /\ rr' = "off" /\ usage' = 0 /\ spent' = 0 /\ fresh' = 0 /\ previous' = 0 /\ ticks' = 0
=============================================================================
