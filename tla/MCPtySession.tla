--------------------------- MODULE MCPtySession ---------------------------
(* PtySession with a child that exits and one that takes over.             *)
EXTENDS PtySession

\* How much the children print: the first one more than once, so that a read
\* finds a query with something after it and a hangup leaves more than one read.
PrintsTwice == <<2, 1>>
===========================================================================
