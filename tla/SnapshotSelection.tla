------------------------- MODULE SnapshotSelection --------------------------
(***************************************************************************)
(* What a visitor is promised, as if config, files, filter and limits of a *)
(* commit were one thing and there were no cache: a request is answered by *)
(* one commit that was the branch's last at some moment of the request, or *)
(* fails; a link is answered by the commit that it came from, whatever has *)
(* been pushed since.  The one thing that requests have to do with each    *)
(* other is that the listing of one may be torn, for itself and for others *)
(* that ask the same of the same commit, until it is forgotten.            *)
(***************************************************************************)
EXTENDS Integers, Sequences

CONSTANTS
  Visitor, Wish, Branch, None,
  Nothing,           (* in an answer that has no files *)
  Query(_, _),       (* what a wish looks for in a commit, one query or none *)
  Answers(_, _, _),  (* what a commit may answer to a wish, torn or not *)
  Reread(_, _)       (* what becomes of a wish in a link, sealed or not *)

VARIABLES
  history,   (* the commits of every branch, oldest first *)
  request,   (* what a visitor waits for or has got *)
  links,     (* what a visitor may come back with, one link at most *)
  torn       (* listings, by commit and query, of which files are missing *)

snapshotVars == <<history, request, links, torn>>

Waiting(stage, wish, b, commit) ==
  [stage |-> stage, wish |-> wish, branch |-> b, commit |-> commit, answer |-> None]

NoRequest == Waiting("none", None, None, None)

Init ==
  /\ \A b \in Branch : Len(history[b]) = 1
  /\ request = [v \in Visitor |-> NoRequest]
  /\ links = [v \in Visitor |-> {}]
  /\ torn = {}

(* Somebody pushes a commit: a branch only grows. *)
Push(b) ==
  /\ Len(history'[b]) = Len(history[b]) + 1
  /\ history' = [history EXCEPT ![b] = Append(@, history'[b][Len(@) + 1])]
  /\ UNCHANGED <<request, links, torn>>

Stage(v, stage) == request[v].stage = stage

Ask(v) ==
  /\ Stage(v, "none") /\ links[v] = {}
  /\ \E wish \in Wish, b \in Branch :
       request' = [request EXCEPT ![v] = Waiting("asked", wish, b, None)]
  /\ UNCHANGED <<history, links, torn>>

(* The commit is settled in one moment. *)
Settle(v) ==
  /\ Stage(v, "asked")
  /\ LET b == request[v].branch
     IN request' = [request EXCEPT ![v].stage = "settled",
                                   ![v].commit = <<b, Len(history[b])>>]
  /\ UNCHANGED <<history, links, torn>>

Content(commit) == history[commit[1]][commit[2]]
Listing(r) == {<<r.commit, query>> : query \in Query(Content(r.commit), r.wish)}

(* A request that is settled and has something to look for leaves a torn   *)
(* listing; that may be mended or forgotten.                               *)
Tear(v) ==
  /\ Stage(v, "settled")
  /\ UNCHANGED <<history, request, links>>
  /\ Listing(request[v]) # {}
  /\ torn' = torn \cup Listing(request[v])

Forget == UNCHANGED <<history, request, links>> /\ torn' \subseteq torn

Answered(v, answer) ==
  /\ request' = [request EXCEPT ![v].stage = "answered", ![v].answer = answer]
  /\ UNCHANGED <<history, links>>

Answer(v) ==
  /\ Stage(v, "settled")
  /\ Answered(v, request'[v].answer)
  /\ request'[v].answer \in Answers(Content(request[v].commit), request[v].wish,
                                    Listing(request[v]) \cap torn # {})
  /\ torn' \subseteq torn

Fail(v) ==
  /\ Stage(v, "asked") \/ Stage(v, "settled")
  /\ Answered(v, <<"failed", Nothing>>)
  /\ UNCHANGED torn

GetLink(v) ==
  /\ Stage(v, "answered") /\ request[v].answer[1] = "ok" /\ links[v] = {}
  /\ \E sealed \in BOOLEAN :
       links' = [links EXCEPT ![v] =
         {[commit |-> request[v].commit, wish |-> request[v].wish, sealed |-> sealed]}]
  /\ request' = [request EXCEPT ![v] = NoRequest]
  /\ UNCHANGED <<history, torn>>

FollowLink(v) ==
  /\ Stage(v, "none") \/ Stage(v, "answered")
  /\ \E link \in links[v] :
       request' = [request EXCEPT ![v] =
                     Waiting("settled", Reread(link.wish, link.sealed), None,
                             link.commit)]
  /\ UNCHANGED <<history, links, torn>>

(* Only a sealed link ends. *)
FollowExpired(v) ==
  /\ Stage(v, "none") /\ \E link \in links[v] : link.sealed
  /\ Answered(v, <<"expired", Nothing>>)
  /\ UNCHANGED torn

Next ==
  \/ Forget
  \/ \E v \in Visitor :
       \/ Ask(v) \/ Settle(v) \/ Tear(v) \/ Answer(v) \/ Fail(v)
       \/ GetLink(v) \/ FollowLink(v) \/ FollowExpired(v)
  \/ \E b \in Branch : Push(b)

Spec == Init /\ [][Next]_snapshotVars
=============================================================================
