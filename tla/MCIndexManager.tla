--------------------------- MODULE MCIndexManager ---------------------------
(***************************************************************************)
(* IndexManager for TLC: the records of the instances, and a view that     *)
(* makes states alike which differ in the numbers of their pages only.     *)
(***************************************************************************)
EXTENDS IndexManager

CONSTANTS KeyNumbers, Twice  \* a record for each key, and one more for those in Twice

TheRecords ==
    {[key |-> k, rid |-> k] : k \in KeyNumbers} \union {[key |-> k, rid |-> Cardinality(KeyNumbers) + k] : k \in Twice}

\* The pages of the tree, level by level.
Order == FlattenSeq([n \in 1 .. index.info.height |-> Level[n - 1]])

\* The tree with its pages numbered in that order.  Pages that are not in it are
\* not read any more.  A pin that is left matters for what it is decremented to.
TreeView ==
    LET order == IF Created THEN Order ELSE <<>>
        Number(p) == SelectInSeq(order, LAMBDA q : q = p)
        View(p) ==
            LET nd == index.node[p]
            IN  <<nd.kind, Number(nd.parent), Number(nd.prev), Number(nd.next),
                  Number(nd.leftMost),
                  [i \in DOMAIN nd.entries |->
                      IF nd.kind = "leaf" THEN nd.entries[i]
                      ELSE <<nd.entries[i].key, Number(nd.entries[i].child)>>],
                  IF index.pins[p] > 2 THEN 2 ELSE index.pins[p]>>
    IN  <<index.created, [i \in DOMAIN order |-> View(order[i])], records, failures>>
=============================================================================
