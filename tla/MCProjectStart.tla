--------------------------- MODULE MCProjectStart ---------------------------
(* Small instances of ProjectStart for TLC.                                 *)
EXTENDS ProjectStart

\* Two projects of one start block whose enums differ, one that begins later, and one
\* whose entities cannot be built.
MCManifests ==
    {[startBlock |-> 2, project |-> "a", enum |-> "old", builds |-> TRUE],
     [startBlock |-> 2, project |-> "b", enum |-> "new", builds |-> TRUE],
     [startBlock |-> 3, project |-> "c", enum |-> None, builds |-> TRUE],
     [startBlock |-> 2, project |-> "a", enum |-> "old", builds |-> FALSE]}
=============================================================================
