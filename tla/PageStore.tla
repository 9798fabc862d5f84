----------------------------- MODULE PageStore -----------------------------
(***************************************************************************)
(* What the storage layer promises to the managers above it: numbered      *)
(* pages per table, of which every caller sees the latest content, and a   *)
(* stable copy that survives the process.  It says nothing of frames,      *)
(* partitions, files or streams.  BufferPool implements it.                *)
(***************************************************************************)
EXTENDS Integers

CONSTANTS Tables, PageNums, Contents, Zero

VARIABLES
    allocated,  \* [Tables -> number of pages handed out so far]
    view,       \* what a caller that gets the page reads
    stable,     \* what the next process reads after a crash
    held        \* the pages that callers hold

vars == <<allocated, view, stable, held>>

Pages == Tables \X PageNums

\* Page p is allocated when a is the number of allocated pages per table.
Allocated(a, p) == p[2] < a[p[1]]

Init ==
    /\ allocated = [t \in Tables |-> 0]
    /\ view   = [p \in Pages |-> Zero]
    /\ stable = [p \in Pages |-> Zero]
    /\ held   = {}

\* The next page of a table is handed out; it reads as zeros.
Alloc(t) ==
    /\ allocated[t] \in PageNums
    /\ view[<<t, allocated[t]>>] = Zero
    /\ allocated' = [allocated EXCEPT ![t] = @ + 1]
    /\ UNCHANGED <<view, stable, held>>

\* A caller changes a page it holds.  Nothing else changes what a page reads
\* while the process lives.
Write(p, c) ==
    /\ p \in held
    /\ view' = [view EXCEPT ![p] = c]
    /\ UNCHANGED <<allocated, stable, held>>

\* Pages that nobody has written yet may be taken back, when the file fails or
\* the process dies before it records that they were handed out.
MayLose ==
    /\ allocated' \in [Tables -> Nat]
    /\ \A t \in Tables : allocated'[t] <= allocated[t]
    /\ \A p \in Pages :
        Allocated(allocated, p) /\ ~Allocated(allocated', p) =>
            view[p] = Zero /\ stable[p] = Zero

\* A caller gets a page, or callers release some, or none does: the store may
\* make any pages stable at any time, and no caller can tell.  A page that is
\* held is allocated, and is not taken back.
Settle ==
    /\ MayLose
    /\ stable' \in [Pages -> Contents]
    /\ \A p \in Pages : stable'[p] \in {stable[p], view[p]}
    /\ held' \subseteq Pages
    /\ \A p \in held' : Allocated(allocated', p)
    /\ \A p, q \in held' \ held : p = q
    /\ UNCHANGED view

\* The process ends: pages fall back to their stable content.
Crash ==
    /\ MayLose
    /\ view' = stable
    /\ held' = {}
    /\ UNCHANGED stable

Next ==
    \/ Settle
    \/ Crash
    \/ \E t \in Tables : Alloc(t)
    \/ \E p \in Pages, c \in Contents : Write(p, c)

Spec == Init /\ [][Next]_vars
=============================================================================
