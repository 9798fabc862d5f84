---------------------------- MODULE MCBufferPool ----------------------------
(***************************************************************************)
(* BufferPool for TLC: constraints and symmetries that keep an instance    *)
(* small.                                                                  *)
(***************************************************************************)
EXTENDS BufferPool, TLC

\* The log's file is left out of instances about other tables.
LogUnused == disk[LogTable].state = "missing"

\* The tables of one partition are alike.
DataTables == Permutations(Tables \ ({LogTable} \union DictTables))
=============================================================================
