------------------------------ MODULE GitTrees ------------------------------
(***************************************************************************)
(* The content-addressed Git trees the program lists, and the table        *)
(* tree_entries in which it stores them (src/internal/cache/tree_db.go).   *)
(*                                                                         *)
(* A node is one line of a tree object: it becomes one row of tree_entries *)
(* under the key (parent_tree_sha, path).  A row's sha is either another   *)
(* tree (a directory) or a blob (a file).                                  *)
(***************************************************************************)
EXTENDS Integers, FiniteSets

CONSTANTS
  Tree,     (* shas of tree objects *)
  Blob,     (* shas of blobs *)
  Node,     (* lines of tree objects *)
  Parent,   (* Parent[n]: the tree the line n belongs to *)
  Target,   (* Target[n]: the tree or the blob the line n names *)
  Listed    (* Listed[t]: the lines Forgejo returns for t.  All of them,
               unless the response carries "truncated": true *)

Entries(t) == {n \in Node : Parent[n] = t}

ASSUME TreesAssumption ==
  /\ IsFiniteSet(Node)
  /\ Parent \in [Node -> Tree]
  /\ Target \in [Node -> Tree \cup Blob]
  /\ Listed \in [Tree -> SUBSET Node]
  /\ \A t \in Tree : Listed[t] \subseteq Entries(t)
  /\ Tree \cap Blob = {}

IsDirectory(n) == Target[n] \in Tree

Directories(t) == {n \in Listed[t] : IsDirectory(n)}

(* Every row the indexer could ever store. *)
Listing == {n \in Node : n \in Listed[Parent[n]]}

ClosedUnder(rows, S) ==
  \A n \in rows : Parent[n] \in S /\ IsDirectory(n) => Target[n] \in S

(* The trees the recursive query of Search walks, starting at root. *)
Walk(rows, root) ==
  {t \in Tree : \A S \in SUBSET Tree :
                   root \in S /\ ClosedUnder(rows, S) => t \in S}

(* Git names a tree by the hash of its content: none is below itself. *)
ASSUME TreesAreHashes ==
  \A root \in Tree, n \in Listing :
    Parent[n] \in Walk(Listing, root) => Target[n] # root

(* What Search returns: the files below root, as far as the rows tell. *)
Found(rows, root) ==
  {n \in rows : ~IsDirectory(n) /\ Parent[n] \in Walk(rows, root)}

(* Every tree reachable from root has all its returned lines stored. *)
Complete(rows, root) == \A t \in Walk(Listing, root) : Listed[t] \subseteq rows

FilesOf(root) == Found(Listing, root)
=============================================================================
