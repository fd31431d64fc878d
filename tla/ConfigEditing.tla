--------------------------- MODULE ConfigEditing ----------------------------
(***************************************************************************)
(* The pages that load, edit and save a repository's config                *)
(* (src/internal/ui/index.go), and the handlers that they call             *)
(* (src/internal/app/server.go).  Loads overlap, for a change of the field *)
(* with the ref starts one whatever is under way, and others change the    *)
(* config meanwhile.  A call to Forgejo ends as ForgejoCall allows: an     *)
(* update that is reported failed may have been made, or be made later.    *)
(***************************************************************************)
EXTENDS RepoConfig

CONSTANTS
  Editor,      (* pages with an editor in front of them *)
  Field,       (* what an editor may have in the field for the ref *)
  MaxLoads,    (* bound: loads of a page at a time *)
  MaxChanges,  (* bound: how often an editor changes the field *)
  MaxSaves     (* bound: saves of a page *)

ASSUME ConfigEditingAssumption ==
  /\ MaxLoads \in Nat /\ MaxChanges \in Nat /\ MaxSaves \in Nat
  /\ None \notin Editor \X Nat

VARIABLES
  field,    (* what the field of a page says *)
  changes,  (* how often it was changed *)
  base,     (* the commit that the config in the page was loaded from *)
  loads,    (* the loads under way for a page *)
  save,     (* the last save of a page *)
  saves,    (* how many it has made *)
  late      (* updates still on their way that nobody waits for *)

pages == <<field, changes, base, loads>>
handlers == <<save, saves, late>>
vars == <<commits, pages, handlers>>

(* An empty field means "main" to a save. *)
RefSaved(e) == IF field[e] = "" THEN "main" ELSE field[e]

(* Who wrote a commit: a page, and with which of its saves *)
Author(e) == <<e, saves[e]>>

NoSave == [stage |-> "none", ref |-> None, config |-> None, base |-> None,
           sha |-> None, verdict |-> "pending", commit |-> None]

TypeOK ==
  /\ CommitsTyped
  /\ field \in [Editor -> Field]
  /\ changes \in [Editor -> 0..MaxChanges]
  /\ base \in [Editor -> CommitId \cup {None}]
  /\ saves \in [Editor -> 0..MaxSaves]
  /\ \A e \in Editor :
       /\ Cardinality(loads[e]) <= MaxLoads
       /\ \A l \in loads[e] : l.button =>
            /\ save[e].stage \in {"none", "answered"}
            /\ \A k \in loads[e] : k.button => k = l
       /\ save[e].stage \in {"none", "sha", "put", "head", "answered"}
       /\ save[e].verdict \in {"pending", "ok", "missing", "refused", "failed"}
       /\ save[e].commit \in CommitId \cup {None}

Init ==
  /\ InitCommits
  /\ field \in [Editor -> Field]
  /\ changes = [e \in Editor |-> 0]
  /\ base = [e \in Editor |-> None]
  /\ loads = [e \in Editor |-> {}]
  /\ save = [e \in Editor |-> NoSave]
  /\ saves = [e \in Editor |-> 0]
  /\ late = {}

Others ==
  /\ \E b \in Branch : PushOther(b)
  /\ UNCHANGED <<pages, handlers>>
-----------------------------------------------------------------------------
(* Loads *)

(* Variant: saves do not set the flag. *)
BusyLoading(e) == \E l \in loads[e] : l.button

(* One button at a time: state.busy *)
Busy(e) ==
  \/ save[e].stage \in {"sha", "put", "head"}
  \/ \E l \in loads[e] : l.button

StartLoad(e, load) ==
  /\ Cardinality(loads[e]) < MaxLoads
  /\ load \notin loads[e]
  /\ loads' = [loads EXCEPT ![e] = @ \cup {load}]

ClickLoad(e) ==
  /\ ~Busy(e)
  /\ StartLoad(e, [button |-> TRUE, ref |-> field[e], commit |-> None])
  /\ UNCHANGED <<commits, field, changes, base, handlers>>

(* The branches are asked for first, see onRepoChanged. *)
ChangeField(e) ==
  /\ changes[e] < MaxChanges
  /\ changes' = [changes EXCEPT ![e] = @ + 1]
  /\ \E f \in Field \ {field[e]} : field' = [field EXCEPT ![e] = f]
  /\ StartLoad(e, [button |-> FALSE, ref |-> None, commit |-> None])
  /\ UNCHANGED <<commits, base, handlers>>

Advance(e, l, next) == loads' = [loads EXCEPT ![e] = (@ \ {l}) \cup next]

(* The branches are there: loadConfig reads the field. *)
LoadChosen(e, l) ==
  /\ l.ref = None
  /\ Advance(e, l, {[l EXCEPT !.ref = field[e]]})
  /\ UNCHANGED <<commits, field, changes, base, handlers>>

(* handleConfig resolves the ref; it reads the file at the commit. *)
ResolveLoad(e, l) ==
  /\ l.ref # None /\ l.commit = None
  /\ RefRead(l.ref) \in Branch
  /\ Advance(e, l, {[l EXCEPT !.commit = Tip(RefRead(l.ref))]})
  /\ UNCHANGED <<commits, field, changes, base, handlers>>

(* The answer takes the place of what is in the page, whatever the field   *)
(* says by now.  A config that is not valid is no answer.                  *)
FinishLoad(e, l) ==
  /\ l.commit # None /\ Loadable(l.commit)
  /\ base' = [base EXCEPT ![e] = l.commit]
  /\ Advance(e, l, {})
  /\ UNCHANGED <<commits, field, changes, handlers>>

(* The page says so and keeps what it has. *)
FailLoad(e, l) ==
  /\ Advance(e, l, {})
  /\ UNCHANGED <<commits, field, changes, base, handlers>>
-----------------------------------------------------------------------------
(* handleUpdateConfig *)

Saving(e, stage) == save[e].stage = stage

(* The editor has made a config of what was loaded, or of nothing, and     *)
(* saves it.                                                               *)
ClickSave(e) ==
  /\ ~Busy(e) /\ saves[e] < MaxSaves
  /\ saves' = [saves EXCEPT ![e] = @ + 1]
  /\ \E config \in Config :
       LET new == [NoSave EXCEPT !.ref = RefSaved(e), !.config = config,
                                 !.base = base[e]]
       IN save' = [save EXCEPT ![e] =
            IF Valid(config) THEN [new EXCEPT !.stage = "sha"]
            ELSE [new EXCEPT !.stage = "answered", !.verdict = "refused"]]
  /\ UNCHANGED <<commits, pages, late>>

(* The handler returns, and the SHA it fetched is gone. *)
Answer(e, verdict, commit) ==
  save' = [save EXCEPT ![e].stage = "answered", ![e].verdict = verdict,
                       ![e].commit = commit, ![e].sha = None]

(* A call to Forgejo fails, or is refused, and has changed nothing. *)
FailSave(e) ==
  /\ Saving(e, "sha") \/ Saving(e, "put")
  /\ \E verdict \in {"refused", "failed"} : Answer(e, verdict, None)
  /\ UNCHANGED <<commits, pages, saves, late>>

(* Without a branch or a file there is no SHA. *)
FetchSHA(e) ==
  /\ Saving(e, "sha")
  /\ save' = [save EXCEPT ![e].stage = "put",
                          ![e].sha = IF save[e].ref \in Branch
                                     THEN ConfigAt(Tip(save[e].ref)) ELSE None]
  /\ UNCHANGED <<commits, pages, saves, late>>

(* The file is the one whose SHA was fetched. *)
Unchanged(e) == ConfigAt(Tip(save[e].ref)) = save[e].sha

Update(e) == [ref |-> save[e].ref, config |-> save[e].config,
              sha |-> save[e].sha, author |-> Author(e)]

(* The file is the one whose SHA the update has. *)
Fits(u) == u.ref \in Branch /\ ConfigAt(Tip(u.ref)) = u.sha

Commit(u) == Push(u.ref, u.config, At(Tip(u.ref)).files, u.author)

(* Variant: the update is sent again, with a new SHA, when its answer is   *)
(* lost.                                                                   *)
PutAgain(e) ==
  /\ Saving(e, "put") /\ Fits(Update(e))
  /\ Commit(Update(e))
  /\ \E stage \in {"head", "sha"} : save' = [save EXCEPT ![e].stage = stage]
  /\ UNCHANGED <<pages, saves, late>>

(* Forgejo makes the update, and may fail to say so. *)
Put(e) ==
  /\ Saving(e, "put") /\ Fits(Update(e))
  /\ Commit(Update(e))
  /\ \/ save' = [save EXCEPT ![e].stage = "head"]
     \/ Answer(e, "failed", None)
  /\ UNCHANGED <<pages, saves, late>>

(* The page is reloaded or its connection breaks: the handler's context    *)
(* ends, but the update may be on its way to Forgejo.                      *)
Abandon(e) ==
  /\ Saving(e, "put")
  /\ late' = late \cup {Update(e)}
  /\ Answer(e, "failed", None)
  /\ UNCHANGED <<commits, pages, saves>>

CommitLate ==
  \E u \in late :
    /\ Fits(u) /\ Commit(u)
    /\ late' = late \ {u}
    /\ UNCHANGED <<pages, save, saves>>

(* The file has been changed since: Forgejo refuses. *)
Conflict(e) ==
  /\ Saving(e, "put") /\ save[e].ref \in Branch
  /\ ~Fits(Update(e))
  /\ Answer(e, "failed", None)
  /\ UNCHANGED <<commits, pages, saves, late>>

MissBranch(e) ==
  /\ Saving(e, "put") /\ save[e].ref \notin Branch
  /\ Answer(e, "missing", None)
  /\ UNCHANGED <<commits, pages, saves, late>>

(* The answer names the branch's commit of now, unless it is not found. *)
FinishSave(e) ==
  /\ Saving(e, "head")
  /\ \E commit \in {Tip(save[e].ref), None} : Answer(e, "ok", commit)
  /\ UNCHANGED <<commits, pages, saves, late>>
-----------------------------------------------------------------------------
Load(e) ==
  \/ ClickLoad(e) \/ ChangeField(e)
  \/ \E l \in loads[e] :
       LoadChosen(e, l) \/ ResolveLoad(e, l) \/ FinishLoad(e, l) \/ FailLoad(e, l)

Save(e) ==
  \/ FetchSHA(e) \/ Put(e) \/ Conflict(e) \/ MissBranch(e) \/ FailSave(e)
  \/ Abandon(e) \/ FinishSave(e)

Next == Others \/ CommitLate \/ \E e \in Editor : Load(e) \/ ClickSave(e) \/ Save(e)

Spec == Init /\ [][Next]_vars
-----------------------------------------------------------------------------
CommitsOf(author) ==
  {id \in CommitId : id[2] <= Len(commits[id[1]]) /\ At(id).author = author}

(* A save that is acknowledged is in the history of the branch it was for, *)
(* once and with the content that was sent, at the commit of the answer or *)
(* before it; a save that is refused or misses its branch is in no         *)
(* history.  Meanwhile others save as well, answers of Forgejo are lost,   *)
(* and updates are made late.                                              *)
AcknowledgedIsCommitted ==
  \A e \in Editor : Saving(e, "answered") =>
    /\ save[e].verdict = "ok" =>
         \E id \in CommitId :
           /\ CommitsOf(Author(e)) = {id}
           /\ id[1] = save[e].ref /\ ConfigAt(id) = save[e].config
           /\ save[e].commit # None => id[2] <= save[e].commit[2]
    /\ save[e].verdict \in {"refused", "missing"} => CommitsOf(Author(e)) = {}

(* What a save replaces in a branch is what its page had loaded from it. *)
SavesReplaceLoaded ==
  \A e \in Editor : \A id \in CommitsOf(Author(e)) :
    save[e].base # None =>
      /\ save[e].base[1] = id[1]
      /\ Loaded(<<id[1], id[2] - 1>>) = Loaded(save[e].base)

(* What there is of a save for whoever sees branches and answers           *)
CallMap ==
  [e \in Editor |->
     [number |-> saves[e], ref |-> save[e].ref, config |-> save[e].config,
      verdict |-> IF Saving(e, "none") THEN "none" ELSE save[e].verdict,
      commit |-> save[e].commit]]

Plain(u) == [ref |-> u.ref, config |-> u.config, author |-> u.author]

OpenMap ==
  {Plain(u) : u \in late} \cup
  {Plain(Update(e)) : e \in {d \in Editor : Saving(d, "sha") \/ Saving(d, "put")}}

Updates == INSTANCE ConfigUpdates
  WITH Ref <- Field \cup {"main"}, history <- commits, call <- CallMap, open <- OpenMap

(* Every save, the failed and the abandoned ones included, changes the     *)
(* config of its branch at most once, to what was sent and without         *)
(* touching the files; the editor is told "ok" only afterwards, and after  *)
(* "refused" or "missing" it never happens (lines 321-390).  ConfigUpdates *)
(* says nothing of the config that is replaced: see SavesReplaceLoaded.    *)
ImplementsUpdates == Updates!Spec
=============================================================================
