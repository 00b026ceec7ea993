--------------------------- MODULE MCPendingLinks ---------------------------
(* Instances of PendingLinks for TLC.                                       *)
EXTENDS PendingLinks

RefersTo(f, d, x, hard) ==
  [field |-> f, target |-> d, lookup |-> x, hard |-> hard]

\* Row a refers to a unit and to a colleague, who has its own name, b insists on its
\* unit, and the unit c has the line number of a in a file of its own.
Home   == [a |-> "staff", b |-> "staff", c |-> "org"]
Line   == [a |-> 1, b |-> 2, c |-> 1]
Lookup == [a |-> "B", b |-> "B", c |-> "C"]
Needs  == [a |-> <<RefersTo("unit", "org", "C", FALSE),
                   RefersTo("deputy", "staff", "B", FALSE)>>,
           b |-> <<RefersTo("unit", "org", "C", TRUE)>>,
           c |-> <<>>]

\* One row with one reference to a colleague who is not in any file.
OneHome   == [a |-> "staff", b |-> "staff"]
OneLine   == [a |-> 1, b |-> 2]
OneLookup == [a |-> "A", b |-> "B"]
OneNeeds  == [a |-> <<RefersTo("deputy", "staff", "B", FALSE)>>, b |-> <<>>]
=============================================================================
