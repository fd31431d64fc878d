---------------------------- MODULE MCTreeIndex -----------------------------
(* Small commits, callers and workers for the indexer.                     *)
EXTENDS TreeIndex, TLC

CONSTANTS root1, root2, lib, r1, r2, w1, w2, blob

(* root1: a/ and b/, which are the same tree with a file, and a file.      *)
MCTree    == {root1, lib}
MCBlob    == {blob}
MCNode    == 1..4
MCParent  == <<root1, root1, lib, root1>>
MCTarget  == <<lib, lib, blob, blob>>
MCListed  == [t \in MCTree |-> {n \in MCNode : MCParent[n] = t}]
MCRequest   == {r1, r2}
MCSameRoot  == [r \in MCRequest |-> root1]
MCOneRequest == {r1}
MCOneRoot   == [r \in MCOneRequest |-> root1]
MCWorker    == {w1, w2}
Symmetry    == Permutations(MCRequest) \cup Permutations(MCWorker)

(* A commit in which one directory with two subdirectories occurs three    *)
(* times: five directory entries.                                          *)
WideTree    == {root1, root2, lib}
WideNode    == 1..6
WideParent  == <<root1, root1, root1, root2, root2, lib>>
WideTarget  == <<root2, root2, root2, lib, lib, blob>>
WideListed  == [t \in WideTree |-> {n \in WideNode : WideParent[n] = t}]
=============================================================================
