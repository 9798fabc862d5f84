--------------------------- MODULE MCTableManager ---------------------------
EXTENDS TableManager

\* From a state with a spoilt page, about whose records nothing is said, steps are taken
\* only while it is the only page.
SpoiltAlone == spoiled = {} \/ table.allocated = 1
=============================================================================
