--------------------------- MODULE MCRunArtifacts ---------------------------
(* Instances of RunArtifacts and DailyLog for TLC.  The two share no variable, *)
(* so that what holds of each alone holds of both side by side: either is      *)
(* explored while the other has not begun.                                     *)
EXTENDS RunArtifacts, DailyLog, TLC

Init == DiskInit /\ LogInit

Next ==
    \/ DiskNext /\ LogInit /\ UNCHANGED logVars
    \/ LogNext /\ DiskInit /\ UNCHANGED diskVars

Spec == Init /\ [][Next]_<<diskVars, logVars>>

Symmetric == Permutations(Processes)
=============================================================================
