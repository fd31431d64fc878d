----------------------------- MODULE RepoConfig -----------------------------
(***************************************************************************)
(* The file .zip-forger.yaml in the commits of a repository                *)
(* (src/internal/config/config.go): Forgejo keeps the commits of every     *)
(* branch, and anybody may push to it.  ConfigEditing has the pages that   *)
(* change the file, Selection the visitors that download with it.          *)
(***************************************************************************)
EXTENDS Integers, Sequences, FiniteSets

CONSTANTS
  Branch,         (* the branches there are *)
  DefaultBranch,
  Config,         (* what people write into the file *)
  Tree,           (* the sets of files that a commit may have *)
  Initial,        (* the first commit's config, or None *)
  MaxCommits,     (* bound: commits of a branch *)
  TrimSpace(_),   (* a text without the blanks around it *)
  None

ASSUME RepoConfigAssumption ==
  /\ DefaultBranch \in Branch
  /\ MaxCommits \in Nat \ {0}
  /\ None \notin Config /\ None \notin Branch \X Nat
  /\ Initial \in Config \cup {None}

VARIABLE commits   (* Forgejo: the commits of every branch, oldest first *)

(* A commit is named by its branch and its place there. *)
CommitId == Branch \X (1..MaxCommits)
Tip(b) == <<b, Len(commits[b])>>
At(id) == commits[id[1]][id[2]]

(* The content of the file, or None.  Its SHA is as good as the content. *)
ConfigAt(id) == At(id).config

Default == [presets |-> <<>>, adhoc |-> TRUE, maxFiles |-> 0, maxBytes |-> 0]

Loaded(id) == IF ConfigAt(id) = None THEN Default ELSE ConfigAt(id)

(* The ids of the presets are given and differ, blanks left aside.         *)
Valid(config) ==
  LET id == [i \in DOMAIN config.presets |-> TrimSpace(config.presets[i].id)]
  IN /\ \A i \in DOMAIN id : id[i] # ""
     /\ \A i, j \in DOMAIN id : id[i] = id[j] => i = j
     /\ config.maxFiles >= 0 /\ config.maxBytes >= 0

(* A file that is not valid is an error to whoever loads it. *)
Loadable(id) == Valid(Loaded(id))

(* An empty ref is the default branch to whoever reads. *)
RefRead(ref) == IF ref = "" THEN DefaultBranch ELSE ref

CommitsTyped ==
  \A b \in Branch : \A i \in DOMAIN commits[b] :
    /\ commits[b][i].config \in Config \cup {None}
    /\ commits[b][i].files \in Tree

InitCommits ==
  \E tree \in Tree :
    commits = [b \in Branch |->
                 <<[config |-> Initial, files |-> tree, author |-> None]>>]

Push(b, config, files, author) ==
  /\ Len(commits[b]) < MaxCommits
  /\ commits' = [commits EXCEPT ![b] =
       Append(@, [config |-> config, files |-> files, author |-> author])]

(* Others push files, or change the config, for better or worse, or remove *)
(* it.                                                                     *)
PushOther(b) ==
  \E files \in Tree, config \in Config \cup {None} :
    /\ files # At(Tip(b)).files \/ config # ConfigAt(Tip(b))
    /\ Push(b, config, files, None)
=============================================================================
