--------------------------- MODULE CommitListing ----------------------------
(***************************************************************************)
(* What the indexer promises its callers.  A request for the listing of a  *)
(* commit is pending until it ends with an error or with a set of files.   *)
(* Rows of tree_entries only accumulate, one directory at a time; a root   *)
(* tree is marked only when every directory below it is stored; and unless *)
(* the caller has gone away, an answer is the whole listing of the commit. *)
(***************************************************************************)
EXTENDS GitTrees

CONSTANTS Request, RootOf

VARIABLES
  rows,     (* lines stored so far *)
  indexed,  (* root trees marked as completely stored *)
  status,   (* "idle", "pending", "ok" or "error" *)
  gone,     (* the caller has gone away *)
  files     (* the answer *)

listingVars == <<rows, indexed, status, gone, files>>

Init ==
  /\ rows = {} /\ indexed = {}
  /\ status = [r \in Request |-> "idle"]
  /\ gone = [r \in Request |-> FALSE]
  /\ files = [r \in Request |-> {}]

Ask(r) ==
  /\ status[r] = "idle"
  /\ status' = [status EXCEPT ![r] = "pending"]
  /\ UNCHANGED <<rows, indexed, gone, files>>

Leave(r) ==
  /\ status[r] = "pending" /\ ~gone[r]
  /\ gone' = [gone EXCEPT ![r] = TRUE]
  /\ UNCHANGED <<rows, indexed, status, files>>

Store(t) ==
  /\ \E r \in Request : status[r] = "pending"
  /\ rows' = rows \cup Listed[t]
  /\ UNCHANGED <<indexed, status, gone, files>>

MarkComplete(r) ==
  /\ status[r] = "pending" /\ ~gone[r]
  /\ Complete(rows, RootOf[r])
  /\ indexed' = indexed \cup {RootOf[r]}
  /\ UNCHANGED <<rows, status, gone, files>>

Answer(r) ==
  /\ status[r] = "pending"
  /\ \E answer \in SUBSET FilesOf(RootOf[r]) :
        /\ ~gone[r] => Complete(rows, RootOf[r]) /\ answer = FilesOf(RootOf[r])
        /\ files' = [files EXCEPT ![r] = answer]
  /\ status' = [status EXCEPT ![r] = "ok"]
  /\ UNCHANGED <<rows, indexed, gone>>

Fail(r) ==
  /\ status[r] = "pending"
  /\ status' = [status EXCEPT ![r] = "error"]
  /\ UNCHANGED <<rows, indexed, gone, files>>

(* The requests are lost, the stored rows and marks are not. *)
Restart ==
  /\ status' = [r \in Request |-> "idle"]
  /\ gone' = [r \in Request |-> FALSE]
  /\ files' = [r \in Request |-> {}]
  /\ UNCHANGED <<rows, indexed>>

Next ==
  \/ \E r \in Request : \/ Ask(r) \/ Leave(r) \/ MarkComplete(r)
                        \/ Answer(r) \/ Fail(r)
  \/ \E t \in Tree : Store(t)
  \/ Restart

Spec == Init /\ [][Next]_listingVars
=============================================================================
