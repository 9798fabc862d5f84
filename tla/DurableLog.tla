----------------------------- MODULE DurableLog -----------------------------
(***************************************************************************)
(* What a log promises to those who write to it: records numbered from 1   *)
(* in the order of their writing, of which a prefix survives the process.  *)
(* It says nothing of blocks, pages or flushing.  LogManager implements it.*)
(***************************************************************************)
EXTENDS Integers, Sequences

VARIABLES
    log,     \* the records, oldest first
    durable  \* how many of them survive a crash

vars == <<log, durable>>

Init == log = <<>> /\ durable = 0

\* One record, numbered after the last, is added.
Write ==
    /\ Len(log') = Len(log) + 1
    /\ SubSeq(log', 1, Len(log)) = log
    /\ log'[Len(log')].lsn = Len(log')
    /\ UNCHANGED durable

\* More records become durable.
Harden ==
    /\ durable' \in durable + 1 .. Len(log)
    /\ UNCHANGED log

\* The process dies, and with it the records that are not durable.
Crash ==
    /\ log' = SubSeq(log, 1, durable)
    /\ UNCHANGED durable

Next == Write \/ Harden \/ Crash

Spec == Init /\ [][Next]_vars
=============================================================================
