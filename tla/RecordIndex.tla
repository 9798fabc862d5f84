----------------------------- MODULE RecordIndex -----------------------------
(***************************************************************************)
(* What an index promises, without the tree: it has an entry for every     *)
(* record that was inserted since it was created and not deleted; a unique *)
(* index leaves out a record whose key it already has.  An insert that     *)
(* finds no block may lose entries, but never invents one.                 *)
(***************************************************************************)
EXTENDS Naturals

CONSTANTS Records, Unique

VARIABLES records, entries, ready, failures

vars == <<records, entries, ready, failures>>

\* Whether an index with the entries s takes r.
Accepts(s, r) == ~Unique \/ \A e \in s : e.key # r.key

Init == records = {} /\ entries = {} /\ ~ready /\ failures = 0

\* The index takes in the records that are there, one of each key if it is unique.
Create ==
    /\ ~ready /\ ready'
    /\ UNCHANGED <<records, failures>>
    /\ entries' \subseteq records
    /\ \A r \in records \ entries' : ~Accepts(entries', r)
    /\ \A r \in entries' : Accepts(entries' \ {r}, r)

CreateFails ==
    /\ failures' = failures + 1
    /\ UNCHANGED <<records, entries, ready>>

Insert(r) ==
    /\ records' = records \union {r}
    /\ UNCHANGED <<ready, failures>>
    /\ entries' = IF ready /\ Accepts(entries, r) THEN entries \union {r} ELSE entries

InsertFails(r) ==
    /\ records' = records \union {r}
    /\ failures' = failures + 1
    /\ UNCHANGED ready
    /\ entries' \subseteq entries \union {r}

Delete(r) ==
    /\ records' = records \ {r}
    /\ UNCHANGED <<ready, failures>>
    /\ entries' = entries \ {r}

Next ==
    \/ Create \/ CreateFails
    \/ \E r \in Records : Insert(r) \/ InsertFails(r) \/ Delete(r)

Spec == Init /\ [][Next]_vars
==============================================================================
