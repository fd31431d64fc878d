--------------------------- MODULE ConfigUpdates ----------------------------
(***************************************************************************)
(* What the editing of configs is to whoever sees only the branches and    *)
(* the answers: a save asks for one update of the file, which is made at   *)
(* most once, on top of whatever is in the branch by then.  Only a save    *)
(* that was made is acknowledged; one that was refused is never made; of   *)
(* one that failed nobody knows, and it may be made at any later time.     *)
(***************************************************************************)
EXTENDS Integers, Sequences

CONSTANTS
  Editor,    (* who saves *)
  Branch,    (* the branches there are *)
  Ref,       (* the branches that may be asked for *)
  Config,
  Tree,      (* the sets of files that a commit may have *)
  None,
  Valid(_)   (* whether a config is accepted *)

VARIABLES
  history,   (* the commits of every branch, oldest first *)
  call,      (* the last save of an editor, and what it was told *)
  open       (* updates that were asked for and may be made *)

updateVars == <<history, call, open>>

Author(e) == <<e, call[e].number>>

Asked(e) == [ref |-> call[e].ref, config |-> call[e].config, author |-> Author(e)]

Waiting(e) == call[e].verdict = "pending"

Init ==
  /\ \E tree \in Tree, first \in Config \cup {None} :
       history = [b \in Branch |->
                    <<[config |-> first, files |-> tree, author |-> None]>>]
  /\ call = [e \in Editor |-> [number |-> 0, ref |-> None, config |-> None,
                               verdict |-> "none", commit |-> None]]
  /\ open = {}

Commit(b, config, files, author) ==
  history' = [history EXCEPT ![b] =
    Append(@, [config |-> config, files |-> files, author |-> author])]

Others ==
  /\ \E b \in Branch, config \in Config \cup {None}, files \in Tree :
       Commit(b, config, files, None)
  /\ UNCHANGED <<call, open>>

(* An editor saves, if it does not wait already. *)
Ask(e) ==
  /\ ~Waiting(e)
  /\ \E ref \in Ref, config \in Config, number \in {call[e].number + 1} :
       /\ call' = [call EXCEPT ![e] =
            [number |-> number, ref |-> ref, config |-> config,
             verdict |-> IF Valid(config) THEN "pending" ELSE "refused",
             commit |-> None]]
       /\ open' = IF Valid(config)
                  THEN open \cup {[ref |-> ref, config |-> config,
                                   author |-> <<e, number>>]}
                  ELSE open
  /\ UNCHANGED history

(* Only the config changes, whatever it was; nothing remains to be made. *)
Write(u) ==
  /\ u.ref \in Branch
  /\ Commit(u.ref, u.config, history[u.ref][Len(history[u.ref])].files, u.author)
  /\ open' = open \ {u}

Make == \E u \in open : Write(u) /\ UNCHANGED call

Tell(e, verdict, commit) ==
  /\ Waiting(e)
  /\ call' = [call EXCEPT ![e] =
       [number |-> call[e].number, ref |-> call[e].ref, config |-> call[e].config,
        verdict |-> verdict, commit |-> commit]]

(* The update is made, and nobody says so. *)
MakeUnheard(e) ==
  /\ Asked(e) \in open /\ Write(Asked(e))
  /\ Tell(e, "failed", None)

(* The commit in the answer is that of the update, or a later one. *)
Acknowledge(e) ==
  /\ call[e].ref \in Branch
  /\ \E i \in DOMAIN history[call[e].ref] :
       /\ history[call[e].ref][i].author = Author(e)
       /\ \E commit \in {<<call[e].ref, j>> : j \in i..Len(history[call[e].ref])}
                          \cup {None} : Tell(e, "ok", commit)
  /\ UNCHANGED <<history, open>>

Refuse(e) ==
  /\ Asked(e) \in open /\ open' = open \ {Asked(e)}
  /\ \/ Tell(e, "refused", None)
     \/ Tell(e, "missing", None) /\ call[e].ref \notin Branch
  /\ UNCHANGED history

Fail(e) ==
  /\ Asked(e) \in open /\ open' \in {open, open \ {Asked(e)}}
  /\ Tell(e, "failed", None)
  /\ UNCHANGED history

Next ==
  \/ Others \/ Make
  \/ \E e \in Editor : Ask(e) \/ MakeUnheard(e) \/ Acknowledge(e) \/ Refuse(e) \/ Fail(e)

Spec == Init /\ [][Next]_updateVars
=============================================================================
