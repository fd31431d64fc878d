--------------------------- MODULE MCPreviewPage ----------------------------
(* Two streams, so that one preview begins while the handler of the last   *)
(* is still there; two places that differ in nothing else.                 *)
EXTENDS PreviewPage, TLC

CONSTANTS s1, s2, here, there

(* Nobody has come upon a commit: nothing is indexed, no stream has one.   *)
Unwatched ==
  /\ indexed = {}
  /\ \A c \in Commit : lastCount[c] = 0
  /\ \A s \in Stream : index[s] = NoIndexing /\ stream[s].commit = None

(* Bound: the visitor does nothing but preview when there is something to  *)
(* watch.                                                                  *)
FewActs == changes = 0 \/ Unwatched

Symmetry == Permutations(Stream) \cup Permutations(Place)
=============================================================================
