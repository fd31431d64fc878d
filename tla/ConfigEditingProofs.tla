------------------------ MODULE ConfigEditingProofs -------------------------
(* What a save comes to, for any number of pages, branches and saves,      *)
(* however often others push and answers are lost.                         *)
EXTENDS ConfigEditing, FiniteSetTheorems, SequenceTheorems, TLAPS

LEMMA Numbers ==
  /\ MaxCommits \in Nat \ {0} /\ MaxLoads \in Nat /\ MaxChanges \in Nat
  /\ MaxSaves \in Nat /\ Initial \in Config \cup {None} /\ DefaultBranch \in Branch
  /\ \A e \in Editor, n \in Nat : <<e, n>> # None
BY RepoConfigAssumption, ConfigEditingAssumption
   DEF RepoConfigAssumption, ConfigEditingAssumption
-----------------------------------------------------------------------------
(* The commits of the branches only grow *)

Written == [config : Config \cup {None}, files : Tree,
            author : (Editor \X Nat) \cup {None}]

CommitsInv ==
  /\ commits \in [Branch -> Seq(Written)]
  /\ \A b \in Branch : Len(commits[b]) \in 1..MaxCommits

LEMMA CommitsAreTyped == CommitsInv => CommitsTyped
<1> SUFFICES ASSUME CommitsInv, NEW b \in Branch, NEW i \in DOMAIN commits[b]
             PROVE  /\ commits[b][i].config \in Config \cup {None}
                    /\ commits[b][i].files \in Tree
  BY DEF CommitsTyped
<1>1. commits[b] \in Seq(Written)
  BY DEF CommitsInv
<1>2. commits[b][i] \in Written
  BY <1>1
<1>3. QED
  BY <1>2 DEF Written

LEMMA TipIsCommit ==
  ASSUME CommitsInv, NEW b \in Branch
  PROVE  /\ Tip(b) \in CommitId /\ At(Tip(b)) \in Written
         /\ Tip(b)[1] = b /\ Tip(b)[2] = Len(commits[b])
<1>1. commits[b] \in Seq(Written) /\ Len(commits[b]) \in 1..MaxCommits
  BY DEF CommitsInv
<1>2. Len(commits[b]) \in 1..Len(commits[b])
  BY <1>1, Numbers
<1>3. commits[b][Len(commits[b])] \in Written
  BY <1>1, <1>2
<1>4. QED
  BY <1>1, <1>3 DEF Tip, At, CommitId

(* Lemma: a push adds the one commit, and leaves what there was.           *)
LEMMA PushStep ==
  ASSUME CommitsInv, NEW b \in Branch, NEW config \in Config \cup {None},
         NEW files \in Tree, NEW author \in (Editor \X Nat) \cup {None},
         Push(b, config, files, author)
  PROVE  /\ CommitsInv'
         /\ \A a : a # author => CommitsOf(a)' = CommitsOf(a)
         /\ \E id \in CommitId :
              /\ id[1] = b /\ CommitsOf(author)' = CommitsOf(author) \cup {id}
              /\ ConfigAt(id)' = config
         /\ \A a : \A id \in CommitsOf(a) : ConfigAt(id)' = ConfigAt(id)
<1> DEFINE q == commits[b]
           new == [config |-> config, files |-> files, author |-> author]
           r == Append(q, new)
<1>1. /\ Len(q) < MaxCommits /\ commits' = [commits EXCEPT ![b] = r]
      /\ commits \in [Branch -> Seq(Written)] /\ q \in Seq(Written)
      /\ Len(q) \in 1..MaxCommits
  BY DEF Push, CommitsInv
<1>2. new \in Written
  BY DEF Written
<1>3. /\ new.config = config /\ new.author = author
  OBVIOUS
<1> HIDE DEF new
<1>4. /\ r \in Seq(Written) /\ Len(r) = Len(q) + 1 /\ r[Len(r)] = new
      /\ \A i \in 1..Len(q) : r[i] = q[i]
  <2> HIDE DEF q
  <2>1. q \in Seq(Written) /\ new \in Written
    BY <1>1, <1>2
  <2>2. QED
    BY <2>1
<1>5. /\ commits'[b] = r /\ \A c \in Branch : c # b => commits'[c] = commits[c]
      /\ commits' \in [Branch -> Seq(Written)]
  BY <1>1, <1>4
<1> HIDE DEF r
<1>6. Len(r) \in 1..MaxCommits
  BY <1>1, <1>4, Numbers
<1>7. CommitsInv'
  BY <1>5, <1>6 DEF CommitsInv
<1>8. PICK tip \in CommitId : tip = <<b, Len(r)>>
  BY <1>6 DEF CommitId
<1>8a. tip[1] = b /\ At(tip)' = new
  BY <1>4, <1>5, <1>8 DEF At
<1>9. ASSUME NEW id \in CommitId, id[2] <= Len(commits[id[1]])
      PROVE  At(id)' = At(id) /\ id[2] <= Len(commits'[id[1]])
  <2>1. id[1] \in Branch /\ id[2] \in 1..MaxCommits
    BY DEF CommitId
  <2>2. CASE id[1] = b
    <3>1. id[2] \in 1..Len(q)
      BY <1>1, <1>9, <2>1, <2>2
    <3>2. r[id[2]] = q[id[2]] /\ id[2] <= Len(r)
      BY <1>1, <1>4, <3>1
    <3>3. QED
      BY <1>5, <2>2, <3>2 DEF At
  <2>3. CASE id[1] # b
    BY <1>5, <1>9, <2>1, <2>3 DEF At
  <2>4. QED
    BY <2>2, <2>3
<1>10. ASSUME NEW id \in CommitId, id[2] <= Len(commits'[id[1]]),
              ~(id[2] <= Len(commits[id[1]]))
       PROVE  id = tip
  <2>1. id = <<id[1], id[2]>> /\ id[1] \in Branch /\ id[2] \in 1..MaxCommits
    BY DEF CommitId
  <2>2. id[1] = b
    BY <1>5, <1>10, <2>1
  <2>3. id[2] = Len(r)
    BY <1>1, <1>4, <1>5, <1>10, <2>1, <2>2
  <2>4. QED
    BY <1>8, <1>8a, <2>1, <2>2, <2>3
<1>11. ~(tip[2] <= Len(commits[b])) /\ tip[2] <= Len(commits'[b])
  BY <1>1, <1>4, <1>5, <1>6, <1>8, <1>8a
<1>12. ASSUME NEW a, NEW id \in CommitId
       PROVE  id \in CommitsOf(a)' <=>
                id \in CommitsOf(a) \/ (a = author /\ id = tip)
  <2>1. id \in CommitsOf(a) <=> id[2] <= Len(commits[id[1]]) /\ At(id).author = a
    BY DEF CommitsOf
  <2>2. id \in CommitsOf(a)' <=> id[2] <= Len(commits'[id[1]]) /\ At(id)'.author = a
    BY DEF CommitsOf
  <2>3. CASE id[2] <= Len(commits[id[1]])
    BY <1>8, <1>8a, <1>9, <1>11, <2>1, <2>2, <2>3
  <2>4. CASE ~(id[2] <= Len(commits[id[1]]))
    BY <1>3, <1>8, <1>8a, <1>10, <1>11, <2>1, <2>2, <2>4
  <2>5. QED
    BY <2>3, <2>4
<1>13. \A a : CommitsOf(a) \subseteq CommitId /\ CommitsOf(a)' \subseteq CommitId
  BY DEF CommitsOf
<1>14. /\ \A a : a # author => CommitsOf(a)' = CommitsOf(a)
       /\ CommitsOf(author)' = CommitsOf(author) \cup {tip}
  BY <1>8, <1>8a, <1>12, <1>13
<1>15. \A a : \A id \in CommitsOf(a) : ConfigAt(id)' = ConfigAt(id)
  BY <1>9 DEF CommitsOf, ConfigAt
<1>16. QED
  BY <1>3, <1>7, <1>8, <1>8a, <1>14, <1>15 DEF ConfigAt
-----------------------------------------------------------------------------
(* Saves, and the updates that nobody waits for                            *)

Request == [stage : {"none", "sha", "put", "head", "answered"},
            ref : Field \cup {"main", None}, config : Config \cup {None},
            base : CommitId \cup {None}, sha : Config \cup {None},
            verdict : {"pending", "ok", "missing", "refused", "failed"},
            commit : CommitId \cup {None}]

Sent == [ref : Field \cup {"main", None}, config : Config \cup {None},
         sha : Config \cup {None}, author : Editor \X Nat]

SavesTyped ==
  /\ field \in [Editor -> Field]
  /\ base \in [Editor -> CommitId \cup {None}]
  /\ save \in [Editor -> Request] /\ saves \in [Editor -> 0..MaxSaves]
  /\ late \subseteq Sent

(* No update of this author is in a branch, or is on its way to one        *)
Unwritten(a) == CommitsOf(a) = {} /\ \A u \in late : u.author # a

(* It is in a branch, and will not come again                              *)
WrittenAs(a, id) == CommitsOf(a) = {id} /\ \A u \in late : u.author # a

(* An author writes at most once, and not before the save puts it.         *)
SaveInv(e) ==
  /\ \/ Saving(e, "sha") \/ Saving(e, "put")
     \/ Saving(e, "answered") /\ save[e].verdict \in {"refused", "missing"}
     => Unwritten(Author(e))
  /\ Saving(e, "head") => save[e].ref \in Branch
  /\ Saving(e, "head") \/ (Saving(e, "answered") /\ save[e].verdict = "ok") =>
       \E id \in CommitId :
         /\ WrittenAs(Author(e), id)
         /\ id[1] = save[e].ref /\ ConfigAt(id) = save[e].config
         /\ Saving(e, "answered") /\ save[e].commit # None =>
              id[2] <= save[e].commit[2]

AuthorsInv ==
  /\ \A e \in Editor : SaveInv(e)
  /\ \A e \in Editor, n \in Nat : n > saves[e] => Unwritten(<<e, n>>)

HistoryInv == CommitsInv /\ SavesTyped /\ AuthorsInv

LEMMA Histories == HistoryInv => AcknowledgedIsCommitted
BY DEF HistoryInv, AuthorsInv, SaveInv, Unwritten, WrittenAs, AcknowledgedIsCommitted

LEMMA InitHistories == Init => HistoryInv
<1> SUFFICES ASSUME Init PROVE HistoryInv
  OBVIOUS
<1>1. PICK tree \in Tree :
        commits = [b \in Branch |->
                     <<[config |-> Initial, files |-> tree, author |-> None]>>]
  BY DEF Init, InitCommits
<1> DEFINE first == [config |-> Initial, files |-> tree, author |-> None]
<1>2. first \in Written /\ first.author = None
  BY Numbers DEF Written
<1> HIDE DEF first
<1> DEFINE q == <<first>>
<1>3. q \in Seq(Written) /\ Len(q) = 1 /\ q[1] = first
  BY <1>2
<1>4. \A b \in Branch : commits[b] = q
  BY <1>1 DEF first
<1>5. commits \in [Branch -> Seq(Written)]
  BY <1>1, <1>3 DEF first
<1> HIDE DEF q
<1>6. CommitsInv
  <2>1. 1 \in 1..MaxCommits
    BY Numbers
  <2>2. QED
    BY <1>3, <1>4, <1>5, <2>1 DEF CommitsInv
<1>7. ASSUME NEW a, a # None PROVE Unwritten(a)
  <2>1. late = {}
    BY DEF Init
  <2>2. \A id \in CommitId : id[2] <= Len(commits[id[1]]) => At(id).author = None
    <3>1. ASSUME NEW id \in CommitId, id[2] <= Len(commits[id[1]])
          PROVE  At(id).author = None
      <4>1. id[1] \in Branch /\ id[2] \in Nat \ {0}
        BY Numbers DEF CommitId
      <4>2. id[2] = 1
        <5>1. Len(commits[id[1]]) = 1
          BY <1>3, <1>4, <4>1
        <5>2. QED
          BY <3>1, <4>1, <5>1
      <4>3. QED
        BY <1>2, <1>3, <1>4, <4>1, <4>2 DEF At
    <3>2. QED
      BY <3>1
  <2>3. QED
    BY <1>7, <2>1, <2>2 DEF Unwritten, CommitsOf
<1>8. AuthorsInv
  BY <1>7, Numbers DEF Init, AuthorsInv, SaveInv, Saving, NoSave
<1>9. SavesTyped
  <2>1. NoSave \in Request
    BY DEF NoSave, Request
  <2>2. QED
    BY <2>1, Numbers DEF Init, SavesTyped
<1>10. QED
  BY <1>6, <1>8, <1>9 DEF HistoryInv

(* Lemma: what happens to the saves of one page does not touch those of    *)
(* another, as long as only its own update is written.                     *)
LEMMA SaveStep ==
  ASSUME HistoryInv, NEW e \in Editor, CommitsInv', SavesTyped', SaveInv(e)',
         \A d \in Editor \ {e} : save'[d] = save[d] /\ saves'[d] = saves[d],
         saves'[e] >= saves[e],
         \A a : a # <<e, saves[e]>> => CommitsOf(a)' = CommitsOf(a),
         \A a : \A id \in CommitsOf(a) : ConfigAt(id)' = ConfigAt(id),
         \A u \in late' : u \in late \/ u.author = <<e, saves[e]>>
  PROVE  HistoryInv'
<1>1. /\ saves \in [Editor -> 0..MaxSaves] /\ saves' \in [Editor -> 0..MaxSaves]
      /\ \A d \in Editor : saves[d] \in Nat /\ saves'[d] \in Nat
  BY Numbers DEF HistoryInv, SavesTyped
<1>2. ASSUME NEW a, a # <<e, saves[e]>>
      PROVE  /\ Unwritten(a) => Unwritten(a)'
             /\ \A id \in CommitId : WrittenAs(a, id) =>
                  WrittenAs(a, id)' /\ ConfigAt(id)' = ConfigAt(id)
  BY <1>2 DEF Unwritten, WrittenAs
<1>3. ASSUME NEW d \in Editor, d # e PROVE SaveInv(d)'
  <2>1. /\ save'[d] = save[d] /\ saves'[d] = saves[d] /\ SaveInv(d)
        /\ Author(d)' = Author(d) /\ Author(d) # <<e, saves[e]>>
    BY <1>3 DEF HistoryInv, AuthorsInv, Author
  <2>2. /\ Unwritten(Author(d)) => Unwritten(Author(d))'
        /\ \A id \in CommitId : WrittenAs(Author(d), id) =>
             WrittenAs(Author(d), id)' /\ ConfigAt(id)' = ConfigAt(id)
    <3> DEFINE a == <<d, saves[d]>>
    <3>1. a # <<e, saves[e]>> /\ Author(d) = a
      BY <2>1 DEF Author
    <3>2. Author(d)' = a
      BY <2>1, <3>1
    <3> HIDE DEF a
    <3>3. QED
      BY <1>2, <3>1, <3>2 DEF Unwritten, WrittenAs
  <2>3. QED
    BY <2>1, <2>2 DEF SaveInv, Saving
<1>4. ASSUME NEW d \in Editor, NEW n \in Nat, n > saves'[d]
      PROVE  Unwritten(<<d, n>>)'
  <2>1. n > saves[d]
    BY <1>1, <1>4
  <2>2. Unwritten(<<d, n>>) /\ <<d, n>> # <<e, saves[e]>>
    BY <1>1, <2>1 DEF HistoryInv, AuthorsInv
  <2>3. QED
    BY <1>2, <2>2
<1>5. QED
  BY <1>3, <1>4 DEF HistoryInv, AuthorsInv

(* Lemma: nothing is written and nothing sent.                             *)
LEMMA QuietStep ==
  ASSUME HistoryInv, UNCHANGED commits, UNCHANGED late
  PROVE  /\ CommitsInv' /\ \A a : CommitsOf(a)' = CommitsOf(a)
         /\ \A id \in CommitId : ConfigAt(id)' = ConfigAt(id)
         /\ \A a : Unwritten(a)' <=> Unwritten(a)
BY DEF HistoryInv, CommitsInv, CommitsOf, ConfigAt, At, Unwritten

(* Lemma: what the page does besides saving                                *)
LEMMA PageStep ==
  ASSUME HistoryInv, UNCHANGED <<commits, handlers>>, field' \in [Editor -> Field],
         base' \in [Editor -> CommitId \cup {None}]
  PROVE  HistoryInv'
<1>1. UNCHANGED <<commits, save, saves, late>>
  BY DEF handlers
<1>2. CommitsInv' /\ SavesTyped'
  BY <1>1 DEF HistoryInv, CommitsInv, SavesTyped
<1>3. AuthorsInv'
  BY <1>1 DEF HistoryInv, AuthorsInv, SaveInv, Saving, Author, Unwritten, WrittenAs,
              CommitsOf, ConfigAt, At
<1>4. QED
  BY <1>2, <1>3 DEF HistoryInv

(* Lemma: a save that has come to new, with nothing written meanwhile      *)
LEMMA QuietSaveStep ==
  ASSUME HistoryInv, NEW e \in Editor, NEW new \in Request,
         save' = [save EXCEPT ![e] = new], UNCHANGED <<commits, pages, saves, late>>,
         \/ Unwritten(Author(e)) /\ new.stage \in {"sha", "put"}
         \/ /\ new.stage = "answered"
            /\ new.verdict \in {"refused", "missing"} /\ Unwritten(Author(e))
         \/ new.stage = "answered" /\ new.verdict = "failed"
  PROVE  HistoryInv'
<1>1. /\ save' \in [Editor -> Request] /\ save'[e] = new
      /\ \A d \in Editor \ {e} : save'[d] = save[d]
      /\ UNCHANGED <<commits, field, base, saves, late>>
  BY DEF HistoryInv, SavesTyped, pages
<1>2. /\ CommitsInv' /\ \A a : CommitsOf(a)' = CommitsOf(a)
      /\ \A id \in CommitId : ConfigAt(id)' = ConfigAt(id)
      /\ \A a : Unwritten(a)' <=> Unwritten(a)
  BY <1>1, QuietStep
<1>3. SavesTyped'
  BY <1>1 DEF HistoryInv, SavesTyped
<1>4. Author(e)' = Author(e) /\ (Unwritten(Author(e)) => Unwritten(Author(e))')
  BY <1>1, <1>2 DEF Author, Unwritten
<1>5. SaveInv(e)'
  BY <1>1, <1>4 DEF SaveInv, Saving
<1>6. saves'[e] >= saves[e]
  BY <1>1, Numbers DEF HistoryInv, SavesTyped
<1>7. \A a : \A id \in CommitsOf(a) : ConfigAt(id)' = ConfigAt(id)
  BY <1>2 DEF CommitsOf
<1>8. QED
  BY <1>1, <1>2, <1>3, <1>5, <1>6, <1>7, SaveStep

(* Lemma: what a request is before it is answered                          *)
LEMMA SaveNow ==
  ASSUME HistoryInv, NEW e \in Editor
  PROVE  /\ save[e] \in Request /\ save \in [Editor -> Request] /\ SaveInv(e)
         /\ Author(e) = <<e, saves[e]>> /\ saves[e] \in Nat
         /\ saves \in [Editor -> 0..MaxSaves] /\ Update(e) \in Sent
         /\ Update(e).author = Author(e) /\ Update(e).ref = save[e].ref
         /\ Update(e).config = save[e].config
<1>1. /\ save[e] \in Request /\ save \in [Editor -> Request] /\ SaveInv(e)
      /\ Author(e) = <<e, saves[e]>> /\ saves[e] \in Nat
      /\ saves \in [Editor -> 0..MaxSaves]
  BY Numbers DEF HistoryInv, SavesTyped, AuthorsInv, Author
<1>2. QED
  BY <1>1 DEF Update, Sent, Request

LEMMA EarlyStep ==
  ASSUME HistoryInv, NEW e \in Editor,
         FetchSHA(e) \/ Conflict(e) \/ MissBranch(e) \/ FailSave(e)
  PROVE  HistoryInv'
<1> DEFINE now == save[e]
<1>1. /\ now \in Request /\ save \in [Editor -> Request] /\ SaveInv(e)
  BY SaveNow
<1>2. Saving(e, "sha") \/ Saving(e, "put")
  BY DEF FetchSHA, Conflict, MissBranch, FailSave
<1>3. Unwritten(Author(e))
  BY <1>1, <1>2 DEF SaveInv
<1>4. now.stage \in {"sha", "put"}
  BY <1>2 DEF Saving
<1>5. UNCHANGED <<commits, pages, saves, late>>
  BY DEF FetchSHA, Conflict, MissBranch, FailSave
<1>6. CASE FetchSHA(e)
  <2> DEFINE sha == IF now.ref \in Branch THEN ConfigAt(Tip(now.ref)) ELSE None
             new == [now EXCEPT !.stage = "put", !.sha = sha]
  <2>1. save' = [save EXCEPT ![e] = new]
    BY <1>1, <1>6 DEF FetchSHA
  <2>2. sha \in Config \cup {None}
    BY TipIsCommit DEF HistoryInv, ConfigAt, Written
  <2> HIDE DEF sha
  <2>3. new \in Request /\ new.stage = "put"
    BY <1>1, <2>2 DEF Request
  <2>4. QED
    BY <1>3, <1>5, <2>1, <2>3, QuietSaveStep
<1>7. ASSUME NEW verdict \in {"refused", "missing", "failed"}, Answer(e, verdict, None)
      PROVE  HistoryInv'
  <2> DEFINE new == [now EXCEPT !.stage = "answered", !.verdict = verdict,
                                !.commit = None, !.sha = None]
  <2>1. save' = [save EXCEPT ![e] = new]
    BY <1>1, <1>7 DEF Answer
  <2>2. new \in Request /\ new.stage = "answered" /\ new.verdict = verdict
    BY <1>1 DEF Request
  <2> HIDE DEF new
  <2>3. QED
    BY <1>3, <1>5, <2>1, <2>2, QuietSaveStep
<1>8. QED
  BY <1>6, <1>7 DEF Conflict, MissBranch, FailSave

(* Lemma: a save of what nobody has written before                         *)
LEMMA ClickSaveStep ==
  ASSUME HistoryInv, NEW e \in Editor, ClickSave(e)
  PROVE  HistoryInv'
<1>1. PICK config \in Config :
        LET new == [NoSave EXCEPT !.ref = RefSaved(e), !.config = config,
                                  !.base = base[e]]
        IN save' = [save EXCEPT ![e] =
             IF Valid(config) THEN [new EXCEPT !.stage = "sha"]
             ELSE [new EXCEPT !.stage = "answered", !.verdict = "refused"]]
  BY DEF ClickSave
<1>2. /\ saves[e] < MaxSaves /\ saves' = [saves EXCEPT ![e] = @ + 1]
      /\ UNCHANGED <<commits, field, base, late>>
  BY DEF ClickSave, pages
<1>3. /\ saves[e] \in Nat /\ saves \in [Editor -> 0..MaxSaves]
      /\ save \in [Editor -> Request]
  BY SaveNow
<1>4. /\ saves'[e] = saves[e] + 1 /\ saves' \in [Editor -> 0..MaxSaves]
      /\ \A d \in Editor \ {e} : saves'[d] = saves[d]
  <2>1. saves[e] + 1 \in 0..MaxSaves
    BY <1>2, <1>3, Numbers
  <2>2. QED
    BY <1>2, <1>3, <2>1
<1>5. PICK new \in Request :
        /\ save' = [save EXCEPT ![e] = new]
        /\ \/ new.stage = "sha"
           \/ new.stage = "answered" /\ new.verdict = "refused"
  <2> DEFINE old == [NoSave EXCEPT !.ref = RefSaved(e), !.config = config,
                                   !.base = base[e]]
             x == IF Valid(config) THEN [old EXCEPT !.stage = "sha"]
                  ELSE [old EXCEPT !.stage = "answered", !.verdict = "refused"]
  <2>1. RefSaved(e) \in Field \cup {"main"} /\ base[e] \in CommitId \cup {None}
    BY DEF RefSaved, HistoryInv, SavesTyped
  <2>2. NoSave \in Request
    BY DEF NoSave, Request
  <2>3. old \in Request
    BY <2>1, <2>2 DEF Request
  <2>4. save' = [save EXCEPT ![e] = x]
    BY <1>1
  <2> HIDE DEF old
  <2>5. /\ x \in Request
        /\ x.stage = "sha" \/ (x.stage = "answered" /\ x.verdict = "refused")
    BY <2>3 DEF Request
  <2> HIDE DEF x
  <2>6. QED
    BY <2>4, <2>5
<1>6. /\ CommitsInv' /\ \A a : CommitsOf(a)' = CommitsOf(a)
      /\ \A id \in CommitId : ConfigAt(id)' = ConfigAt(id)
      /\ \A a : Unwritten(a)' <=> Unwritten(a)
  BY <1>2, QuietStep
<1>7. /\ save' \in [Editor -> Request] /\ save'[e] = new
      /\ \A d \in Editor \ {e} : save'[d] = save[d]
  BY <1>3, <1>5
<1>8. SavesTyped'
  BY <1>2, <1>4, <1>7 DEF HistoryInv, SavesTyped
<1>9. Unwritten(Author(e))'
  <2> DEFINE a == <<e, saves[e] + 1>>
  <2>1. Unwritten(a)
    BY <1>3 DEF HistoryInv, AuthorsInv
  <2>2. Author(e)' = a
    BY <1>4 DEF Author
  <2> HIDE DEF a
  <2>3. QED
    BY <1>6, <2>1, <2>2 DEF Unwritten
<1>10. SaveInv(e)'
  BY <1>5, <1>7, <1>9 DEF SaveInv, Saving
<1>11. saves'[e] >= saves[e]
  BY <1>3, <1>4
<1>12. \A a : \A id \in CommitsOf(a) : ConfigAt(id)' = ConfigAt(id)
  BY <1>6 DEF CommitsOf
<1>13. QED
  BY <1>2, <1>4, <1>6, <1>7, <1>8, <1>10, <1>11, <1>12, SaveStep

(* Lemma: the update of a save is written, once.                           *)
LEMMA PutStep ==
  ASSUME HistoryInv, NEW e \in Editor, Put(e) PROVE HistoryInv'
<1>0. PICK a \in Editor \X Nat, now \in Request : a = <<e, saves[e]>> /\ now = save[e]
  BY SaveNow
<1>1. /\ now \in Request /\ save \in [Editor -> Request] /\ SaveInv(e)
      /\ Author(e) = a /\ saves[e] \in Nat /\ Update(e) \in Sent
      /\ Update(e).author = a /\ Update(e).ref = now.ref /\ Update(e).config = now.config
  BY <1>0, SaveNow
<1>2. /\ Saving(e, "put") /\ now.ref \in Branch
      /\ Push(now.ref, now.config, At(Tip(now.ref)).files, a)
      /\ UNCHANGED <<field, base, saves, late>>
  BY <1>0, <1>1 DEF Put, Fits, Commit, pages
<1>3. Unwritten(a)
  BY <1>0, <1>1, <1>2 DEF SaveInv
<1>4. now.config \in Config \cup {None} /\ At(Tip(now.ref)).files \in Tree
  BY <1>0, <1>1, <1>2, TipIsCommit DEF Request, Written, HistoryInv
<1>5. /\ CommitsInv'
      /\ \A b : b # a => CommitsOf(b)' = CommitsOf(b)
      /\ \E id \in CommitId :
           /\ id[1] = now.ref /\ CommitsOf(a)' = CommitsOf(a) \cup {id}
           /\ ConfigAt(id)' = now.config
      /\ \A b : \A id \in CommitsOf(b) : ConfigAt(id)' = ConfigAt(id)
  <2>1. PICK files \in Tree : files = At(Tip(now.ref)).files
    BY <1>4
  <2>2. CommitsInv /\ Push(now.ref, now.config, files, a)
    BY <1>2, <2>1 DEF HistoryInv
  <2>3. QED
    BY <1>2, <1>4, <2>2, PushStep
<1>6. PICK new \in Request :
        /\ save' = [save EXCEPT ![e] = new]
        /\ new.ref = now.ref /\ new.config = now.config
        /\ \/ new.stage = "head"
           \/ new.stage = "answered" /\ new.verdict = "failed"
  <2> DEFINE x == [now EXCEPT !.stage = "head"]
             y == [now EXCEPT !.stage = "answered", !.verdict = "failed",
                              !.commit = None, !.sha = None]
  <2>1. save' = [save EXCEPT ![e] = x] \/ save' = [save EXCEPT ![e] = y]
    BY <1>0, <1>1 DEF Put, Answer
  <2>2. /\ x \in Request /\ x.stage = "head" /\ x.ref = now.ref
        /\ x.config = now.config
        /\ y \in Request /\ y.stage = "answered" /\ y.verdict = "failed"
        /\ y.ref = now.ref /\ y.config = now.config
    BY <1>1 DEF Request
  <2> HIDE DEF x, y
  <2>3. QED
    BY <2>1, <2>2
<1>7. /\ save' \in [Editor -> Request] /\ save'[e] = new
      /\ \A d \in Editor \ {e} : save'[d] = save[d]
  BY <1>1, <1>6
<1>8. SavesTyped'
  BY <1>2, <1>7 DEF HistoryInv, SavesTyped
<1>9. \E id \in CommitId : /\ WrittenAs(a, id)' /\ id[1] = now.ref
                           /\ ConfigAt(id)' = now.config
  BY <1>2, <1>3, <1>5 DEF Unwritten, WrittenAs
<1>10. Author(e)' = a
  BY <1>0, <1>2 DEF Author
<1>11. SaveInv(e)'
  <2>1. \A id \in CommitId : WrittenAs(a, id)' => WrittenAs(Author(e), id)'
    BY <1>10 DEF WrittenAs
  <2>2. QED
    BY <1>2, <1>6, <1>7, <1>9, <2>1 DEF SaveInv, Saving
<1>12. saves'[e] >= saves[e] /\ \A d \in Editor \ {e} : saves'[d] = saves[d]
  BY <1>0, <1>1, <1>2
<1>13. QED
  BY <1>0, <1>2, <1>5, <1>7, <1>8, <1>11, <1>12, SaveStep

(* Lemma: the update of a save is on its way, and the page knows nothing   *)
(* of it.                                                                  *)
LEMMA AbandonStep ==
  ASSUME HistoryInv, NEW e \in Editor, Abandon(e) PROVE HistoryInv'
<1> DEFINE now == save[e]
           new == [now EXCEPT !.stage = "answered", !.verdict = "failed",
                              !.commit = None, !.sha = None]
<1>1. /\ now \in Request /\ save \in [Editor -> Request]
      /\ Author(e) = <<e, saves[e]>> /\ saves[e] \in Nat /\ Update(e) \in Sent
      /\ Update(e).author = Author(e)
  BY SaveNow
<1>2. /\ late' = late \cup {Update(e)} /\ save' = [save EXCEPT ![e] = new]
      /\ UNCHANGED <<commits, field, base, saves>>
  BY <1>1 DEF Abandon, Answer, pages
<1>3. new \in Request /\ new.stage = "answered" /\ new.verdict = "failed"
  BY <1>1 DEF Request
<1> HIDE DEF new
<1>4. /\ save' \in [Editor -> Request] /\ save'[e] = new
      /\ \A d \in Editor \ {e} : save'[d] = save[d]
  BY <1>1, <1>2, <1>3
<1>5. CommitsInv' /\ SavesTyped'
  BY <1>1, <1>2, <1>4 DEF HistoryInv, CommitsInv, SavesTyped
<1>6. SaveInv(e)'
  BY <1>3, <1>4 DEF SaveInv, Saving
<1>7. /\ \A a : CommitsOf(a)' = CommitsOf(a)
      /\ \A a : \A id \in CommitsOf(a) : ConfigAt(id)' = ConfigAt(id)
  BY <1>2 DEF CommitsOf, ConfigAt, At
<1>8. \A u \in late' : u \in late \/ u.author = <<e, saves[e]>>
  BY <1>1, <1>2
<1>9. saves'[e] >= saves[e] /\ \A d \in Editor \ {e} : saves'[d] = saves[d]
  BY <1>1, <1>2
<1>10. QED
  BY <1>4, <1>5, <1>6, <1>7, <1>8, <1>9, SaveStep

(* Lemma: what is found at the branch by now is not before what was saved. *)
LEMMA FinishSaveStep ==
  ASSUME HistoryInv, NEW e \in Editor, FinishSave(e) PROVE HistoryInv'
<1> DEFINE now == save[e]
<1>1. /\ now \in Request /\ save \in [Editor -> Request] /\ SaveInv(e)
      /\ saves[e] \in Nat
  BY SaveNow
<1>2. PICK commit \in {Tip(now.ref), None} : Answer(e, "ok", commit)
  BY DEF FinishSave
<1>3. Saving(e, "head") /\ UNCHANGED <<commits, field, base, saves, late>>
  BY DEF FinishSave, pages
<1>4. PICK id \in CommitId : /\ WrittenAs(Author(e), id) /\ id[1] = now.ref
                             /\ ConfigAt(id) = now.config
  BY <1>1, <1>3 DEF SaveInv
<1>5. now.ref \in Branch
  BY <1>1, <1>3 DEF SaveInv
<1>6. /\ commit \in CommitId \cup {None}
      /\ commit = Tip(now.ref) => commit[2] = Len(commits[now.ref])
  BY <1>2, <1>5, TipIsCommit DEF HistoryInv
<1>7. id[2] <= Len(commits[now.ref])
  <2>1. id \in CommitsOf(Author(e))
    BY <1>4 DEF WrittenAs
  <2>2. QED
    BY <1>4, <2>1 DEF CommitsOf
<1> DEFINE new == [now EXCEPT !.stage = "answered", !.verdict = "ok",
                              !.commit = commit, !.sha = None]
<1>8. save' = [save EXCEPT ![e] = new]
  BY <1>1, <1>2 DEF Answer
<1>9. /\ new \in Request /\ new.stage = "answered" /\ new.verdict = "ok"
      /\ new.commit = commit /\ new.ref = now.ref /\ new.config = now.config
  BY <1>1, <1>6 DEF Request
<1> HIDE DEF new
<1>10. /\ save' \in [Editor -> Request] /\ save'[e] = new
       /\ \A d \in Editor \ {e} : save'[d] = save[d]
  BY <1>1, <1>8, <1>9
<1>11. CommitsInv' /\ SavesTyped'
  BY <1>3, <1>10 DEF HistoryInv, CommitsInv, SavesTyped
<1>12. WrittenAs(Author(e), id)' /\ ConfigAt(id)' = now.config
  BY <1>3, <1>4 DEF WrittenAs, CommitsOf, ConfigAt, At, Author
<1>13. SaveInv(e)'
  <2>1. save'[e].commit # None => id[2] <= save'[e].commit[2]
    BY <1>2, <1>6, <1>7, <1>9, <1>10
  <2>2. QED
    BY <1>4, <1>9, <1>10, <1>12, <2>1 DEF SaveInv, Saving
<1>14. /\ \A a : CommitsOf(a)' = CommitsOf(a)
       /\ \A a : \A i \in CommitsOf(a) : ConfigAt(i)' = ConfigAt(i)
  BY <1>3 DEF CommitsOf, ConfigAt, At
<1>15. saves'[e] >= saves[e] /\ \A d \in Editor \ {e} : saves'[d] = saves[d]
  BY <1>1, <1>3
<1>16. QED
  BY <1>3, <1>10, <1>11, <1>13, <1>14, <1>15, SaveStep

(* Lemma: a commit of an author that nobody waits for                      *)
LEMMA GrowStep ==
  ASSUME HistoryInv, CommitsInv', UNCHANGED <<field, base, save, saves>>,
         late' \subseteq late, NEW a,
         a = None \/ \E u \in late : u.author = a,
         \A b : b # a => CommitsOf(b)' = CommitsOf(b),
         \A b : \A id \in CommitsOf(b) : ConfigAt(id)' = ConfigAt(id)
  PROVE  HistoryInv'
<1>1. SavesTyped'
  BY DEF HistoryInv, SavesTyped
<1>2. ASSUME NEW b, b # None
      PROVE  /\ Unwritten(b) => Unwritten(b)'
             /\ \A id \in CommitId : WrittenAs(b, id) =>
                  WrittenAs(b, id)' /\ ConfigAt(id)' = ConfigAt(id)
  <2>1. CASE b = a
    BY <1>2, <2>1 DEF Unwritten, WrittenAs
  <2>2. CASE b # a
    BY <1>2, <2>2 DEF Unwritten, WrittenAs
  <2>3. QED
    BY <2>1, <2>2
<1>3. ASSUME NEW e \in Editor PROVE SaveInv(e)'
  <2>1. PICK b : b = <<e, saves[e]>>
    OBVIOUS
  <2>2. SaveInv(e) /\ Author(e) = b /\ Author(e)' = b /\ b # None
    BY <2>1, SaveNow, Numbers DEF Author
  <2>3. /\ Unwritten(Author(e)) <=> Unwritten(b)
        /\ Unwritten(Author(e))' <=> Unwritten(b)'
        /\ \A id \in CommitId : /\ WrittenAs(Author(e), id) <=> WrittenAs(b, id)
                                /\ WrittenAs(Author(e), id)' <=> WrittenAs(b, id)'
    BY <2>2 DEF Unwritten, WrittenAs
  <2>4. QED
    BY <1>2, <2>2, <2>3 DEF SaveInv, Saving
<1>4. \A e \in Editor, n \in Nat : n > saves'[e] => Unwritten(<<e, n>>)'
  BY <1>2, Numbers DEF HistoryInv, AuthorsInv
<1>5. QED
  BY <1>1, <1>3, <1>4 DEF HistoryInv, AuthorsInv

LEMMA CommitLateStep == HistoryInv /\ CommitLate => HistoryInv'
<1> SUFFICES ASSUME HistoryInv, CommitLate PROVE HistoryInv'
  OBVIOUS
<1>1. PICK u \in late : Fits(u) /\ Commit(u) /\ late' = late \ {u}
  BY DEF CommitLate
<1>2. UNCHANGED <<field, base, save, saves>>
  BY DEF CommitLate, pages
<1>3. /\ u \in Sent /\ u.ref \in Branch /\ u.config \in Config \cup {None}
      /\ u.author \in Editor \X Nat
  BY <1>1 DEF HistoryInv, SavesTyped, Sent, Fits
<1>4. PICK files \in Tree : files = At(Tip(u.ref)).files
  BY <1>3, TipIsCommit DEF HistoryInv, Written
<1>5. CommitsInv /\ Push(u.ref, u.config, files, u.author)
  BY <1>1, <1>4 DEF Commit, HistoryInv
<1>6. /\ CommitsInv' /\ \A b : b # u.author => CommitsOf(b)' = CommitsOf(b)
      /\ \A b : \A id \in CommitsOf(b) : ConfigAt(id)' = ConfigAt(id)
  BY <1>3, <1>5, PushStep
<1>7. QED
  BY <1>1, <1>2, <1>6, GrowStep

LEMMA OthersStep == HistoryInv /\ Others => HistoryInv'
<1> SUFFICES ASSUME HistoryInv, Others PROVE HistoryInv'
  OBVIOUS
<1>1. PICK b \in Branch, files \in Tree, config \in Config \cup {None} :
        Push(b, config, files, None)
  BY DEF Others, PushOther
<1>2. UNCHANGED <<field, base, save, saves, late>>
  BY DEF Others, pages, handlers
<1>3. /\ CommitsInv' /\ \A a : a # None => CommitsOf(a)' = CommitsOf(a)
      /\ \A a : \A id \in CommitsOf(a) : ConfigAt(id)' = ConfigAt(id)
  BY <1>1, PushStep DEF HistoryInv
<1>4. QED
  BY <1>2, <1>3, GrowStep
-----------------------------------------------------------------------------
(* Loads *)

Loading == [button : BOOLEAN, ref : Field \cup {None}, commit : CommitId \cup {None}]

LoadsInv ==
  /\ changes \in [Editor -> 0..MaxChanges]
  /\ loads \in [Editor -> SUBSET Loading]
  /\ \A e \in Editor :
       /\ IsFiniteSet(loads[e]) /\ Cardinality(loads[e]) <= MaxLoads
       /\ \A l \in loads[e] : l.button =>
            /\ save[e].stage \in {"none", "answered"}
            /\ \A k \in loads[e] : k.button => k = l

IndInv == HistoryInv /\ LoadsInv

LEMMA IndInvTyped == IndInv => TypeOK
<1> SUFFICES ASSUME IndInv PROVE TypeOK
  OBVIOUS
<1>1. CommitsTyped
  BY CommitsAreTyped DEF IndInv, HistoryInv
<1>2. QED
  BY <1>1 DEF IndInv, HistoryInv, LoadsInv, SavesTyped, Request, TypeOK

LEMMA Initially == Init => IndInv
<1> SUFFICES ASSUME Init PROVE IndInv
  OBVIOUS
<1>1. HistoryInv
  BY InitHistories
<1>2. IsFiniteSet({}) /\ Cardinality({}) = 0
  BY FS_EmptySet
<1>3. LoadsInv
  BY <1>2, Numbers DEF Init, LoadsInv
<1>4. QED
  BY <1>1, <1>3 DEF IndInv

(* Lemma: another load of a page                                           *)
LEMMA StartStep ==
  ASSUME LoadsInv, NEW e \in Editor, NEW load \in Loading, StartLoad(e, load),
         load.button => save[e].stage \in {"none", "answered"} /\ ~\E l \in loads[e] : l.button,
         UNCHANGED save, changes' \in [Editor -> 0..MaxChanges]
  PROVE  LoadsInv'
<1>1. /\ Cardinality(loads[e]) < MaxLoads /\ load \notin loads[e]
      /\ loads' = [loads EXCEPT ![e] = @ \cup {load}]
      /\ loads \in [Editor -> SUBSET Loading]
      /\ IsFiniteSet(loads[e]) /\ Cardinality(loads[e]) \in Nat
  BY FS_CardinalityType DEF StartLoad, LoadsInv
<1>2. IsFiniteSet(loads[e] \cup {load})
      /\ Cardinality(loads[e] \cup {load}) = Cardinality(loads[e]) + 1
  BY <1>1, FS_AddElement
<1>3. /\ loads' \in [Editor -> SUBSET Loading] /\ loads'[e] = loads[e] \cup {load}
      /\ \A d \in Editor \ {e} : loads'[d] = loads[d]
  BY <1>1
<1>4. Cardinality(loads'[e]) <= MaxLoads /\ IsFiniteSet(loads'[e])
  BY <1>1, <1>2, <1>3, Numbers
<1>5. \A l \in loads'[e] : l.button =>
        /\ save[e].stage \in {"none", "answered"}
        /\ \A k \in loads'[e] : k.button => k = l
  BY <1>3 DEF LoadsInv
<1>6. QED
  BY <1>3, <1>4, <1>5 DEF LoadsInv

(* Lemma: a load goes on as another, or ends.                              *)
LEMMA AdvanceStep ==
  ASSUME LoadsInv, NEW e \in Editor, NEW l \in loads[e], NEW next \in SUBSET Loading,
         \/ next = {}
         \/ \E k \in Loading : next = {k} /\ (k.button <=> l.button),
         Advance(e, l, next), UNCHANGED <<save, changes>>
  PROVE  LoadsInv'
<1>1. /\ loads' = [loads EXCEPT ![e] = (@ \ {l}) \cup next]
      /\ loads \in [Editor -> SUBSET Loading]
      /\ IsFiniteSet(loads[e]) /\ Cardinality(loads[e]) \in Nat
      /\ Cardinality(loads[e]) <= MaxLoads
  BY FS_CardinalityType DEF Advance, LoadsInv
<1> DEFINE rest == loads[e] \ {l}
<1>2. IsFiniteSet(rest) /\ Cardinality(rest) = Cardinality(loads[e]) - 1
  BY <1>1, FS_RemoveElement
<1>3. IsFiniteSet(rest \cup next) /\ Cardinality(rest \cup next) <= Cardinality(loads[e])
  <2>1. CASE next = {}
    <3>1. rest \cup next = rest
      BY <2>1
    <3>2. Cardinality(rest) <= Cardinality(loads[e])
      BY <1>1, <1>2
    <3> HIDE DEF rest
    <3>3. QED
      BY <1>2, <3>1, <3>2
  <2>2. CASE \E k \in Loading : next = {k}
    <3>1. PICK k : next = {k}
      BY <2>2
    <3>2. IsFiniteSet(rest \cup {k}) /\ Cardinality(rest \cup {k}) =
            IF k \in rest THEN Cardinality(rest) ELSE Cardinality(rest) + 1
      <4> HIDE DEF rest
      <4>1. QED
        BY <1>2, FS_AddElement
    <3>3. QED
      BY <1>1, <1>2, <3>1, <3>2
  <2>3. QED
    BY <2>1, <2>2
<1>4. /\ loads' \in [Editor -> SUBSET Loading] /\ loads'[e] = rest \cup next
      /\ \A d \in Editor \ {e} : loads'[d] = loads[d]
  BY <1>1
<1>5. \A m \in loads'[e] : m.button =>
        /\ save[e].stage \in {"none", "answered"}
        /\ \A k \in loads'[e] : k.button => k = m
  BY <1>4 DEF LoadsInv
<1>6. Cardinality(loads'[e]) <= MaxLoads
  <2>1. Cardinality(rest \cup next) \in Nat
    BY <1>3, FS_CardinalityType
  <2>2. QED
    BY <1>1, <1>3, <1>4, <2>1, Numbers
<1>7. QED
  BY <1>3, <1>4, <1>5, <1>6 DEF LoadsInv

LEMMA LoadStep ==
  ASSUME IndInv, NEW e \in Editor, Load(e) PROVE IndInv'
<1>1. HistoryInv /\ LoadsInv
  BY DEF IndInv
<1>2. /\ field \in [Editor -> Field] /\ base \in [Editor -> CommitId \cup {None}]
      /\ changes \in [Editor -> 0..MaxChanges] /\ loads \in [Editor -> SUBSET Loading]
  BY <1>1 DEF HistoryInv, SavesTyped, LoadsInv
<1>3. CASE ClickLoad(e)
  <2> DEFINE load == [button |-> TRUE, ref |-> field[e], commit |-> None]
  <2>1. /\ ~Busy(e) /\ StartLoad(e, load)
        /\ UNCHANGED <<commits, field, changes, base, handlers>>
    BY <1>3 DEF ClickLoad
  <2>2. load \in Loading
    BY <1>2 DEF Loading
  <2>3. save[e].stage \in {"none", "answered"} /\ ~\E l \in loads[e] : l.button
    BY <1>1, <2>1, SaveNow DEF Busy, Saving, Request
  <2> HIDE DEF load
  <2>4. LoadsInv'
    BY <1>1, <1>2, <2>1, <2>2, <2>3, StartStep DEF handlers
  <2>5. HistoryInv'
    BY <1>1, <1>2, <2>1, PageStep
  <2>6. QED
    BY <2>4, <2>5 DEF IndInv
<1>4. CASE ChangeField(e)
  <2> DEFINE load == [button |-> FALSE, ref |-> None, commit |-> None]
  <2>1. /\ changes[e] < MaxChanges /\ changes' = [changes EXCEPT ![e] = @ + 1]
        /\ \E f \in Field : field' = [field EXCEPT ![e] = f]
        /\ StartLoad(e, load) /\ UNCHANGED <<commits, base, handlers>>
    BY <1>4 DEF ChangeField
  <2>2. load \in Loading /\ ~load.button
    BY DEF Loading
  <2>3. changes' \in [Editor -> 0..MaxChanges]
    <3>1. changes[e] + 1 \in 0..MaxChanges
      BY <1>2, <2>1, Numbers
    <3>2. QED
      BY <1>2, <2>1, <3>1
  <2> HIDE DEF load
  <2>4. LoadsInv'
    BY <1>1, <2>1, <2>2, <2>3, StartStep DEF handlers
  <2>5. HistoryInv'
    BY <1>1, <1>2, <2>1, PageStep
  <2>6. QED
    BY <2>4, <2>5 DEF IndInv
<1>5. ASSUME NEW l \in loads[e], NEW next \in SUBSET Loading,
             \/ next = {}
             \/ \E k \in Loading : next = {k} /\ (k.button <=> l.button),
             Advance(e, l, next), UNCHANGED <<commits, field, changes, handlers>>,
             base' \in [Editor -> CommitId \cup {None}]
      PROVE  IndInv'
  <2>1. LoadsInv'
    BY <1>1, <1>5, AdvanceStep DEF handlers
  <2>2. HistoryInv'
    BY <1>1, <1>2, <1>5, PageStep
  <2>3. QED
    BY <2>1, <2>2 DEF IndInv
<1>6. ASSUME NEW l \in loads[e], LoadChosen(e, l) PROVE IndInv'
  <2> DEFINE k == [l EXCEPT !.ref = field[e]]
  <2>1. /\ Advance(e, l, {k}) /\ UNCHANGED <<commits, field, changes, base, handlers>>
    BY <1>6 DEF LoadChosen
  <2>2. k \in Loading /\ (k.button <=> l.button)
    BY <1>2 DEF Loading
  <2> HIDE DEF k
  <2>3. {k} \in SUBSET Loading
    BY <2>2
  <2>4. QED
    BY <1>2, <1>5, <2>1, <2>2, <2>3
<1>7. ASSUME NEW l \in loads[e], ResolveLoad(e, l) PROVE IndInv'
  <2> DEFINE k == [l EXCEPT !.commit = Tip(RefRead(l.ref))]
  <2>1. /\ Advance(e, l, {k}) /\ UNCHANGED <<commits, field, changes, base, handlers>>
        /\ RefRead(l.ref) \in Branch
    BY <1>7 DEF ResolveLoad
  <2>2. Tip(RefRead(l.ref)) \in CommitId
    BY <1>1, <2>1, TipIsCommit DEF HistoryInv
  <2>3. k \in Loading /\ (k.button <=> l.button)
    BY <1>2, <2>2 DEF Loading
  <2> HIDE DEF k
  <2>4. {k} \in SUBSET Loading
    BY <2>3
  <2>5. QED
    BY <1>2, <1>5, <2>1, <2>3, <2>4
<1>8. ASSUME NEW l \in loads[e], FinishLoad(e, l) PROVE IndInv'
  <2>1. /\ l.commit # None /\ base' = [base EXCEPT ![e] = l.commit]
        /\ Advance(e, l, {}) /\ UNCHANGED <<commits, field, changes, handlers>>
    BY <1>8 DEF FinishLoad
  <2>2. l.commit \in CommitId
    BY <1>2, <2>1 DEF Loading
  <2>3. base' \in [Editor -> CommitId \cup {None}]
    BY <1>2, <2>1, <2>2
  <2>4. QED
    BY <1>5, <2>1, <2>3
<1>9. ASSUME NEW l \in loads[e], FailLoad(e, l) PROVE IndInv'
  <2>1. Advance(e, l, {}) /\ UNCHANGED <<commits, field, changes, base, handlers>>
    BY <1>9 DEF FailLoad
  <2>2. QED
    BY <1>2, <1>5, <2>1
<1>10. QED
  BY <1>3, <1>4, <1>6, <1>7, <1>8, <1>9 DEF Load

(* Lemma: loads go on as they did while a page saves.                      *)
LEMMA LoadsStay ==
  ASSUME LoadsInv, UNCHANGED <<changes, loads>>, NEW e \in Editor,
         \A d \in Editor \ {e} : save'[d] = save[d],
         \/ save'[e] = save[e]
         \/ ~\E l \in loads[e] : l.button
  PROVE  LoadsInv'
BY DEF LoadsInv

LEMMA SavingStep ==
  ASSUME IndInv, NEW e \in Editor, ClickSave(e) \/ Save(e) PROVE IndInv'
<1>1. HistoryInv /\ LoadsInv
  BY DEF IndInv
<1>2. HistoryInv'
  BY <1>1, ClickSaveStep, EarlyStep, PutStep, AbandonStep, FinishSaveStep DEF Save
<1>3. /\ UNCHANGED <<changes, loads>>
      /\ \E new : save' = [save EXCEPT ![e] = new]
  <2>1. CASE ClickSave(e)
    BY <2>1 DEF ClickSave, pages
  <2>2. CASE Save(e)
    <3>1. save \in [Editor -> Request]
      BY <1>1, SaveNow
    <3>2. QED
      BY <2>2, <3>1 DEF Save, FetchSHA, Put, Conflict, MissBranch, FailSave, Abandon,
         FinishSave, Answer, pages
  <2>3. QED
    BY <2>1, <2>2
<1>4. \A d \in Editor \ {e} : save'[d] = save[d]
  BY <1>1, <1>3, SaveNow
<1>5. ~\E l \in loads[e] : l.button
  <2>1. CASE ClickSave(e)
    BY <2>1 DEF ClickSave, Busy
  <2>2. CASE Save(e)
    <3>1. save[e].stage \in {"sha", "put", "head"}
      BY <2>2 DEF Save, FetchSHA, Put, Conflict, MissBranch, FailSave, Abandon,
         FinishSave, Saving
    <3>2. QED
      BY <1>1, <3>1 DEF LoadsInv
  <2>3. QED
    BY <2>1, <2>2
<1>6. LoadsInv'
  BY <1>1, <1>3, <1>4, <1>5, LoadsStay
<1>7. QED
  BY <1>2, <1>6 DEF IndInv
-----------------------------------------------------------------------------
(* The invariant is kept by every step of the pages, of the handlers and   *)
(* of those who push.                                                      *)
THEOREM Invariance == Spec => []IndInv
<1>1. ASSUME IndInv, [Next]_vars PROVE IndInv'
  <2>1. HistoryInv /\ LoadsInv
    BY <1>1 DEF IndInv
  <2>2. CASE Others
    <3>1. HistoryInv'
      BY <2>1, <2>2, OthersStep
    <3>2. LoadsInv'
      BY <2>1, <2>2 DEF Others, pages, handlers, LoadsInv
    <3>3. QED
      BY <3>1, <3>2 DEF IndInv
  <2>3. CASE CommitLate
    <3>1. HistoryInv'
      BY <2>1, <2>3, CommitLateStep
    <3>2. LoadsInv'
      BY <2>1, <2>3 DEF CommitLate, pages, LoadsInv
    <3>3. QED
      BY <3>1, <3>2 DEF IndInv
  <2>4. CASE \E e \in Editor : Load(e) \/ ClickSave(e) \/ Save(e)
    BY <1>1, <2>4, LoadStep, SavingStep
  <2>5. CASE UNCHANGED vars
    <3>1. HistoryInv'
      BY <2>1, <2>5, PageStep DEF vars, pages, HistoryInv, SavesTyped
    <3>2. LoadsInv'
      BY <2>1, <2>5 DEF vars, pages, handlers, LoadsInv
    <3>3. QED
      BY <3>1, <3>2 DEF IndInv
  <2>6. QED
    BY <1>1, <2>2, <2>3, <2>4, <2>5 DEF Next
<1>2. QED
  BY <1>1, Initially, PTL DEF Spec

(* Page, handler and commits always have the types of TypeOK.             *)
THEOREM TypeCorrect == Spec => []TypeOK
BY Invariance, IndInvTyped, PTL

(* Whatever is pushed, lost or written late meanwhile, a save that is      *)
(* acknowledged is in its branch, once and as it was sent; one that is     *)
(* refused never gets there.                                               *)
THEOREM SavesAreCommitted == Spec => []AcknowledgedIsCommitted
<1>1. IndInv => AcknowledgedIsCommitted
  BY Histories DEF IndInv
<1>2. QED
  BY <1>1, Invariance, PTL

-----------------------------------------------------------------------------
(* Saves as ConfigUpdates has them *)

(* Who waits has got no answer, and no two updates that are on their way   *)
(* are of the same save.                                                   *)
AnswersInv ==
  /\ \A e \in Editor :
       /\ save[e].stage \in {"sha", "put", "head"} =>
            save[e].verdict = "pending" /\ save[e].commit = None
       /\ save[e].stage = "answered" => save[e].verdict # "pending"
  /\ \A u, v \in late : u.author = v.author => u = v

LEMMA InitAnswers == Init => AnswersInv
BY DEF Init, AnswersInv, NoSave

(* Lemma: what a page that saves, or is told something, does to its save   *)
LEMMA AnswersStay ==
  ASSUME HistoryInv, AnswersInv, NEW e \in Editor, NEW new,
         save' = [save EXCEPT ![e] = new],
         \/ /\ new.stage \in {"sha", "put", "head"}
            /\ new.verdict = "pending" /\ new.commit = None
         \/ new.stage = "answered" /\ new.verdict # "pending",
         \/ late' = late
         \/ Saving(e, "put") /\ late' = late \cup {Update(e)}
  PROVE  AnswersInv'
<1>1. save'[e] = new /\ \A d \in Editor \ {e} : save'[d] = save[d]
  BY SaveNow
<1>2. \A u, v \in late' : u.author = v.author => u = v
  <2>1. CASE Saving(e, "put") /\ late' = late \cup {Update(e)}
    <3>1. \A u \in late : u.author # Update(e).author
      BY <2>1, SaveNow DEF SaveInv, Unwritten
    <3>2. QED
      BY <2>1, <3>1 DEF AnswersInv
  <2>2. QED
    BY <2>1 DEF AnswersInv
<1>3. QED
  BY <1>1, <1>2 DEF AnswersInv

LEMMA AnswersStep ==
  ASSUME HistoryInv, AnswersInv, [Next]_vars
  PROVE  AnswersInv'
<1>1. CASE save' = save /\ late' \subseteq late
  BY <1>1 DEF AnswersInv
<1>2. CASE Others \/ CommitLate \/ UNCHANGED vars \/ \E e \in Editor : Load(e)
  BY <1>1, <1>2 DEF Others, CommitLate, Load, ClickLoad, ChangeField, LoadChosen,
     ResolveLoad, FinishLoad, FailLoad, vars, handlers
<1>3. ASSUME NEW e \in Editor, ClickSave(e) PROVE AnswersInv'
  <2>1. PICK config \in Config :
          LET new == [NoSave EXCEPT !.ref = RefSaved(e), !.config = config,
                                    !.base = base[e]]
          IN save' = [save EXCEPT ![e] =
               IF Valid(config) THEN [new EXCEPT !.stage = "sha"]
               ELSE [new EXCEPT !.stage = "answered", !.verdict = "refused"]]
    BY <1>3 DEF ClickSave
  <2> DEFINE new == [NoSave EXCEPT !.ref = RefSaved(e), !.config = config,
                                   !.base = base[e]]
             x == IF Valid(config) THEN [new EXCEPT !.stage = "sha"]
                  ELSE [new EXCEPT !.stage = "answered", !.verdict = "refused"]
  <2>2. save' = [save EXCEPT ![e] = x] /\ late' = late
    BY <1>3, <2>1 DEF ClickSave
  <2>3. \/ x.stage = "sha" /\ x.verdict = "pending" /\ x.commit = None
        \/ x.stage = "answered" /\ x.verdict = "refused"
    BY DEF NoSave
  <2> HIDE DEF x
  <2>4. QED
    BY <2>2, <2>3, AnswersStay
<1>4. ASSUME NEW e \in Editor, Save(e) PROVE AnswersInv'
  <2> DEFINE now == save[e]
  <2>1. now \in Request /\ save \in [Editor -> Request]
    BY SaveNow
  <2>2. ASSUME NEW verdict \in {"ok", "refused", "missing", "failed"}, NEW commit,
               Answer(e, verdict, commit),
               late' = late \/ (Saving(e, "put") /\ late' = late \cup {Update(e)})
        PROVE  AnswersInv'
    <3> DEFINE new == [now EXCEPT !.stage = "answered", !.verdict = verdict,
                                  !.commit = commit, !.sha = None]
    <3>1. save' = [save EXCEPT ![e] = new]
      BY <2>1, <2>2 DEF Answer
    <3>2. new.stage = "answered" /\ new.verdict # "pending"
      BY <2>1 DEF Request
    <3> HIDE DEF new
    <3>3. QED
      BY <2>2, <3>1, <3>2, AnswersStay
  <2>3. ASSUME NEW new, save' = [save EXCEPT ![e] = new], late' = late,
               new.stage \in {"put", "head"}, now.stage \in {"sha", "put"},
               new.verdict = now.verdict, new.commit = now.commit
        PROVE  AnswersInv'
    BY <2>3, AnswersStay DEF AnswersInv
  <2>4. CASE FetchSHA(e)
    <3> DEFINE sha == IF now.ref \in Branch THEN ConfigAt(Tip(now.ref)) ELSE None
               new == [now EXCEPT !.stage = "put", !.sha = sha]
    <3>1. save' = [save EXCEPT ![e] = new] /\ late' = late /\ now.stage = "sha"
      BY <2>1, <2>4 DEF FetchSHA, Saving
    <3>2. new.stage = "put" /\ new.verdict = now.verdict /\ new.commit = now.commit
      BY <2>1 DEF Request
    <3> HIDE DEF new
    <3>3. QED
      BY <2>3, <3>1, <3>2
  <2>5. CASE Put(e)
    <3> DEFINE new == [now EXCEPT !.stage = "head"]
    <3>1. /\ late' = late /\ now.stage = "put"
          /\ save' = [save EXCEPT ![e] = new] \/ Answer(e, "failed", None)
      BY <2>1, <2>5 DEF Put, Saving
    <3>2. new.stage = "head" /\ new.verdict = now.verdict /\ new.commit = now.commit
      BY <2>1 DEF Request
    <3> HIDE DEF new
    <3>3. QED
      BY <2>2, <2>3, <3>1, <3>2
  <2>6. CASE Conflict(e) \/ MissBranch(e) \/ FailSave(e) \/ Abandon(e) \/ FinishSave(e)
    BY <2>2, <2>6 DEF Conflict, MissBranch, FailSave, Abandon, FinishSave
  <2>7. QED
    BY <1>4, <2>4, <2>5, <2>6 DEF Save
<1>5. QED
  BY <1>2, <1>3, <1>4 DEF Next

CallOf(e) ==
  [number |-> saves[e], ref |-> save[e].ref, config |-> save[e].config,
   verdict |-> IF Saving(e, "none") THEN "none" ELSE save[e].verdict,
   commit |-> save[e].commit]

(* Its update may still be made. *)
Undecided(e) == Saving(e, "sha") \/ Saving(e, "put")

LEMMA CallMapped ==
  ASSUME NEW e \in Editor
  PROVE  /\ CallMap = [d \in Editor |-> CallOf(d)]
         /\ CallMap[e] = CallOf(e)
         /\ Updates!Author(e) = Author(e)
         /\ Updates!Asked(e) = Plain(Update(e))
BY DEF CallMap, CallOf, Updates!Author, Updates!Asked, Author, Update, Plain

(* Lemma: only the save of one page changes.                               *)
LEMMA CallChanges ==
  ASSUME NEW e \in Editor, NEW new, new = CallOf(e)',
         \A d \in Editor \ {e} : save'[d] = save[d] /\ saves'[d] = saves[d]
  PROVE  CallMap' = [CallMap EXCEPT ![e] = new]
<1>1. CallMap = [d \in Editor |-> CallOf(d)]
  BY DEF CallMap, CallOf
<1>2. CallMap' = [d \in Editor |-> CallOf(d)']
  BY DEF CallMap, CallOf
<1>3. \A d \in Editor \ {e} : CallOf(d)' = CallOf(d)
  BY DEF CallOf, Saving
<1>4. QED
  BY <1>1, <1>2, <1>3

(* Lemma: who is told something waits, and has the same save as before.    *)
LEMMA Told ==
  ASSUME HistoryInv, AnswersInv, NEW e \in Editor, NEW verdict, NEW commit,
         Saving(e, "sha") \/ Saving(e, "put") \/ Saving(e, "head"),
         Answer(e, verdict, commit), saves' = saves
  PROVE  /\ Updates!Tell(e, verdict, commit)
         /\ Saving(e, "answered")'
         /\ \A d \in Editor \ {e} : save'[d] = save[d]
<1> DEFINE now == save[e]
           new == [now EXCEPT !.stage = "answered", !.verdict = verdict,
                              !.commit = commit, !.sha = None]
<1>1. now \in Request /\ save \in [Editor -> Request]
  BY SaveNow
<1>2. save' = [save EXCEPT ![e] = new]
  BY <1>1 DEF Answer
<1>3. /\ new.stage = "answered" /\ new.verdict = verdict /\ new.commit = commit
      /\ new.ref = now.ref /\ new.config = now.config
  BY <1>1 DEF Request
<1> HIDE DEF new
<1>4. save'[e] = new /\ \A d \in Editor \ {e} : save'[d] = save[d]
  BY <1>1, <1>2
<1>5. CallOf(e).verdict = "pending"
  BY DEF AnswersInv, CallOf, Saving
<1>6. CallOf(e)' = [number |-> CallOf(e).number, ref |-> CallOf(e).ref,
                    config |-> CallOf(e).config,
                    verdict |-> verdict, commit |-> commit]
  BY <1>3, <1>4 DEF CallOf, Saving
<1>7. CallMap' = [CallMap EXCEPT ![e] =
                    [number |-> CallOf(e).number, ref |-> CallOf(e).ref,
                     config |-> CallOf(e).config,
                     verdict |-> verdict, commit |-> commit]]
  BY <1>4, <1>6, CallChanges
<1>8. Updates!Tell(e, verdict, commit)
  BY <1>5, <1>7, CallMapped DEF Updates!Tell, Updates!Waiting
<1>9. QED
  BY <1>3, <1>4, <1>8 DEF Saving

(* Lemma: the update of a page that has decided is not among those that    *)
(* may be made; the others are as before.                                  *)
LEMMA OpenCloses ==
  ASSUME HistoryInv, NEW e \in Editor, Undecided(e), ~Undecided(e)',
         \A d \in Editor \ {e} : save'[d] = save[d], saves' = saves, late' = late
  PROVE  /\ Plain(Update(e)) \in OpenMap
         /\ OpenMap' = OpenMap \ {Plain(Update(e))}
<1>1. OpenMap = {Plain(u) : u \in late} \cup
                {Plain(Update(d)) : d \in {c \in Editor : Undecided(c)}}
  BY DEF OpenMap, Undecided
<1>2. OpenMap' = {Plain(u) : u \in late'} \cup
                 {Plain(Update(d))' : d \in {c \in Editor : Undecided(c)'}}
  BY DEF OpenMap, Undecided, Plain
<1>3. \A d \in Editor \ {e} : /\ Plain(Update(d))' = Plain(Update(d))
                              /\ Undecided(d)' <=> Undecided(d)
                              /\ Plain(Update(d)) # Plain(Update(e))
  BY DEF Plain, Update, Author, Undecided, Saving
<1>4. \A u \in late : Plain(u) # Plain(Update(e))
  <2>1. Unwritten(Author(e)) /\ Update(e).author = Author(e)
    BY SaveNow DEF SaveInv, Undecided
  <2>2. QED
    BY <2>1 DEF Plain, Unwritten
<1>5. QED
  BY <1>1, <1>2, <1>3, <1>4

(* Lemma: it stays among them as long as the page has not decided.         *)
LEMMA OpenStays ==
  ASSUME HistoryInv, NEW e \in Editor, Undecided(e),
         \A d \in Editor \ {e} : save'[d] = save[d], saves' = saves,
         \/ /\ Undecided(e)' /\ late' = late
            /\ save'[e].ref = save[e].ref /\ save'[e].config = save[e].config
         \/ ~Undecided(e)' /\ late' = late \cup {Update(e)}
  PROVE  Plain(Update(e)) \in OpenMap /\ OpenMap' = OpenMap
<1>1. OpenMap = {Plain(u) : u \in late} \cup
                {Plain(Update(d)) : d \in {c \in Editor : Undecided(c)}}
  BY DEF OpenMap, Undecided
<1>2. OpenMap' = {Plain(u) : u \in late'} \cup
                 {Plain(Update(d))' : d \in {c \in Editor : Undecided(c)'}}
  BY DEF OpenMap, Undecided, Plain
<1>3. \A d \in Editor \ {e} : /\ Plain(Update(d))' = Plain(Update(d))
                              /\ Undecided(d)' <=> Undecided(d)
  BY DEF Plain, Update, Author, Undecided, Saving
<1>4. Undecided(e)' => Plain(Update(e))' = Plain(Update(e))
  BY DEF Plain, Update, Author
<1>5. QED
  BY <1>1, <1>2, <1>3, <1>4

LEMMA PushIsCommit ==
  ASSUME NEW b, NEW config, NEW files, NEW author, Push(b, config, files, author)
  PROVE  Updates!Commit(b, config, files, author)
BY DEF Push, Updates!Commit

(* Lemma: an update that Forgejo makes is made in ConfigUpdates, which has *)
(* no SHA.                                                                 *)
LEMMA CommitIsWrite ==
  ASSUME NEW u, Fits(u), Commit(u), OpenMap' = OpenMap \ {Plain(u)}
  PROVE  Updates!Write(Plain(u))
<1>1. At(Tip(u.ref)).files = commits[u.ref][Len(commits[u.ref])].files
  BY DEF At, Tip
<1>2. /\ Plain(u).ref = u.ref /\ Plain(u).config = u.config
      /\ Plain(u).author = u.author
  BY DEF Plain
<1>3. Updates!Commit(u.ref, u.config, At(Tip(u.ref)).files, u.author)
  BY PushIsCommit DEF Commit
<1>4. QED
  BY <1>1, <1>2, <1>3 DEF Updates!Write, Fits

LEMMA MappedSame ==
  ASSUME UNCHANGED <<commits, handlers>>
  PROVE  UNCHANGED <<commits, CallMap, OpenMap>>
BY DEF handlers, CallMap, OpenMap, Saving, Update, Author, Plain

LEMMA ClickMapped ==
  ASSUME HistoryInv, AnswersInv, NEW e \in Editor, ClickSave(e)
  PROVE  Updates!Ask(e)
<1>1. PICK config \in Config :
        LET new == [NoSave EXCEPT !.ref = RefSaved(e), !.config = config,
                                  !.base = base[e]]
        IN save' = [save EXCEPT ![e] =
             IF Valid(config) THEN [new EXCEPT !.stage = "sha"]
             ELSE [new EXCEPT !.stage = "answered", !.verdict = "refused"]]
  BY DEF ClickSave
<1> DEFINE ref == RefSaved(e)
           new == [NoSave EXCEPT !.ref = ref, !.config = config, !.base = base[e]]
           asked == IF Valid(config) THEN [new EXCEPT !.stage = "sha"]
                    ELSE [new EXCEPT !.stage = "answered", !.verdict = "refused"]
           number == saves[e] + 1
           call == [number |-> number, ref |-> ref, config |-> config,
                    verdict |-> IF Valid(config) THEN "pending" ELSE "refused",
                    commit |-> None]
           update == [ref |-> ref, config |-> config, author |-> <<e, number>>]
<1>2. /\ save' = [save EXCEPT ![e] = asked] /\ ~Busy(e)
      /\ saves' = [saves EXCEPT ![e] = number] /\ UNCHANGED <<commits, late>>
  BY <1>1 DEF ClickSave
<1>3. /\ asked.ref = ref /\ asked.config = config /\ asked.commit = None
      /\ Valid(config) => asked.stage = "sha" /\ asked.verdict = "pending"
      /\ ~Valid(config) => asked.stage = "answered" /\ asked.verdict = "refused"
  BY DEF NoSave
<1>4. ref \in Field \cup {"main"}
  BY DEF RefSaved, HistoryInv, SavesTyped
<1> HIDE DEF asked, ref
<1>5. /\ save'[e] = asked /\ saves'[e] = number
      /\ \A d \in Editor \ {e} : save'[d] = save[d] /\ saves'[d] = saves[d]
  BY <1>2, SaveNow
<1>6. CallOf(e)' = call
  BY <1>3, <1>5 DEF CallOf, Saving
<1>7. CallMap' = [CallMap EXCEPT ![e] = call]
  BY <1>5, <1>6, CallChanges
<1>8. CallOf(e).verdict # "pending" /\ ~Undecided(e)
  <2>1. save[e].stage \in {"none", "answered"}
    BY <1>2, SaveNow DEF Busy, Saving, Request
  <2>2. QED
    BY <2>1 DEF CallOf, Saving, AnswersInv, Undecided
<1>9. OpenMap' = IF Valid(config) THEN OpenMap \cup {update} ELSE OpenMap
  <2>1. OpenMap = {Plain(u) : u \in late} \cup
                  {Plain(Update(d)) : d \in {c \in Editor : Undecided(c)}}
    BY DEF OpenMap, Undecided
  <2>2. OpenMap' = {Plain(u) : u \in late} \cup
                   {Plain(Update(d))' : d \in {c \in Editor : Undecided(c)'}}
    BY <1>2 DEF OpenMap, Undecided, Plain
  <2>3. \A d \in Editor \ {e} : /\ Plain(Update(d))' = Plain(Update(d))
                                /\ Undecided(d)' <=> Undecided(d)
    BY <1>5 DEF Plain, Update, Author, Undecided, Saving
  <2>4. Plain(Update(e))' = update /\ (Undecided(e)' <=> Valid(config))
    BY <1>3, <1>5 DEF Plain, Update, Author, Undecided, Saving
  <2> HIDE DEF update
  <2>5. QED
    BY <1>8, <2>1, <2>2, <2>3, <2>4
<1>10. CallOf(e).number + 1 = number
  BY DEF CallOf
<1> HIDE DEF number
<1>11. QED
  BY <1>2, <1>4, <1>7, <1>8, <1>9, <1>10, CallMapped DEF Updates!Ask, Updates!Waiting

LEMMA SaveMapped ==
  ASSUME HistoryInv, AnswersInv, NEW e \in Editor, Save(e)
  PROVE  \/ Updates!Make \/ Updates!MakeUnheard(e) \/ Updates!Acknowledge(e)
         \/ Updates!Refuse(e) \/ Updates!Fail(e)
         \/ UNCHANGED <<commits, CallMap, OpenMap>>
<1> DEFINE now == save[e]
           asked == Plain(Update(e))
<1>1. /\ now \in Request /\ save \in [Editor -> Request] /\ SaveInv(e)
      /\ Updates!Asked(e) = asked /\ CallMap[e] = CallOf(e)
      /\ CallOf(e).ref = now.ref
  BY SaveNow, CallMapped DEF CallOf
<1>2. ASSUME NEW new, save' = [save EXCEPT ![e] = new],
             new.verdict = now.verdict, new.commit = now.commit, saves' = saves,
             new.ref = now.ref, new.config = now.config,
             new.stage \in {"put", "head"}, Undecided(e)
      PROVE  CallMap' = CallMap /\ \A d \in Editor \ {e} : save'[d] = save[d]
  <2>1. save'[e] = new /\ \A d \in Editor \ {e} : save'[d] = save[d]
    BY <1>1, <1>2
  <2>2. \A d \in Editor : CallOf(d)' = CallOf(d)
    BY <1>2, <2>1 DEF CallOf, Saving, Undecided
  <2>3. QED
    BY <2>1, <2>2 DEF CallMap, CallOf
<1>3. CASE FetchSHA(e)
  <2> DEFINE sha == IF now.ref \in Branch THEN ConfigAt(Tip(now.ref)) ELSE None
             new == [now EXCEPT !.stage = "put", !.sha = sha]
  <2>1. /\ save' = [save EXCEPT ![e] = new] /\ Undecided(e)
        /\ UNCHANGED <<commits, saves, late>>
    BY <1>1, <1>3 DEF FetchSHA, Undecided
  <2>2. /\ new.stage = "put" /\ new.verdict = now.verdict /\ new.commit = now.commit
        /\ new.ref = now.ref /\ new.config = now.config
    BY <1>1 DEF Request
  <2> HIDE DEF new
  <2>3. CallMap' = CallMap /\ \A d \in Editor \ {e} : save'[d] = save[d]
    BY <1>2, <2>1, <2>2
  <2>4. save'[e] = new /\ Undecided(e)'
    BY <1>1, <2>1, <2>2 DEF Undecided, Saving
  <2>5. OpenMap' = OpenMap
    BY <2>1, <2>2, <2>3, <2>4, OpenStays
  <2>6. QED
    BY <2>1, <2>3, <2>5
<1>4. CASE Put(e)
  <2> DEFINE new == [now EXCEPT !.stage = "head"]
  <2>1. /\ Fits(Update(e)) /\ Commit(Update(e)) /\ UNCHANGED <<saves, late>>
        /\ save' = [save EXCEPT ![e] = new] \/ Answer(e, "failed", None)
        /\ Saving(e, "put") /\ Undecided(e)
    BY <1>1, <1>4 DEF Put, Undecided
  <2>2. /\ new.stage = "head" /\ new.verdict = now.verdict /\ new.commit = now.commit
        /\ new.ref = now.ref /\ new.config = now.config
    BY <1>1 DEF Request
  <2> HIDE DEF new
  <2>3. CASE save' = [save EXCEPT ![e] = new]
    <3>1. CallMap' = CallMap /\ \A d \in Editor \ {e} : save'[d] = save[d]
      BY <1>2, <2>1, <2>2, <2>3
    <3>2. ~Undecided(e)'
      BY <1>1, <2>2, <2>3 DEF Undecided, Saving
    <3>3. asked \in OpenMap /\ OpenMap' = OpenMap \ {asked}
      BY <2>1, <3>1, <3>2, OpenCloses
    <3>4. QED
      BY <2>1, <3>1, <3>3, CommitIsWrite DEF Updates!Make
  <2>4. CASE Answer(e, "failed", None)
    <3>1. /\ Updates!Tell(e, "failed", None) /\ Saving(e, "answered")'
          /\ \A d \in Editor \ {e} : save'[d] = save[d]
      BY <2>1, <2>4, Told
    <3>2. asked \in OpenMap /\ OpenMap' = OpenMap \ {asked}
      BY <2>1, <3>1, OpenCloses DEF Undecided, Saving
    <3>3. QED
      BY <1>1, <2>1, <3>1, <3>2, CommitIsWrite DEF Updates!MakeUnheard
  <2>5. QED
    BY <2>1, <2>3, <2>4
<1>5. ASSUME NEW verdict \in {"refused", "missing", "failed"},
             Answer(e, verdict, None), Undecided(e),
             verdict = "missing" => now.ref \notin Branch,
             UNCHANGED <<commits, saves, late>>
      PROVE  Updates!Refuse(e) \/ Updates!Fail(e)
  <2>1. /\ Updates!Tell(e, verdict, None) /\ Saving(e, "answered")'
        /\ \A d \in Editor \ {e} : save'[d] = save[d]
    BY <1>5, Told DEF Undecided
  <2>2. asked \in OpenMap /\ OpenMap' = OpenMap \ {asked}
    BY <1>5, <2>1, OpenCloses DEF Undecided, Saving
  <2>3. QED
    BY <1>1, <1>5, <2>1, <2>2 DEF Updates!Refuse, Updates!Fail
<1>6. CASE Conflict(e) \/ MissBranch(e) \/ FailSave(e)
  BY <1>5, <1>6 DEF Conflict, MissBranch, FailSave, Undecided
<1>7. CASE Abandon(e)
  <2>1. /\ Answer(e, "failed", None) /\ Saving(e, "put") /\ Undecided(e)
        /\ late' = late \cup {Update(e)} /\ UNCHANGED <<commits, saves>>
    BY <1>7 DEF Abandon, Undecided
  <2>2. /\ Updates!Tell(e, "failed", None) /\ Saving(e, "answered")'
        /\ \A d \in Editor \ {e} : save'[d] = save[d]
    BY <2>1, Told
  <2>3. asked \in OpenMap /\ OpenMap' = OpenMap
    BY <2>1, <2>2, OpenStays DEF Undecided, Saving
  <2>4. QED
    BY <1>1, <2>1, <2>2, <2>3 DEF Updates!Fail
<1>8. CASE FinishSave(e)
  <2>1. PICK commit \in {Tip(now.ref), None} : Answer(e, "ok", commit)
    BY <1>8 DEF FinishSave
  <2>2. Saving(e, "head") /\ UNCHANGED <<commits, saves, late>>
    BY <1>8 DEF FinishSave
  <2>3. /\ Updates!Tell(e, "ok", commit) /\ Saving(e, "answered")'
        /\ \A d \in Editor \ {e} : save'[d] = save[d]
    BY <2>1, <2>2, Told
  <2>4. OpenMap' = OpenMap
    <3>1. \A d \in Editor : /\ Plain(Update(d))' = Plain(Update(d)) \/ d = e
                            /\ Undecided(d)' <=> Undecided(d)
      BY <2>2, <2>3 DEF Plain, Update, Author, Undecided, Saving
    <3>2. ~Undecided(e)
      BY <2>2 DEF Undecided, Saving
    <3>3. /\ OpenMap = {Plain(u) : u \in late} \cup
                       {Plain(Update(d)) : d \in {c \in Editor : Undecided(c)}}
          /\ OpenMap' = {Plain(u) : u \in late} \cup
                        {Plain(Update(d))' : d \in {c \in Editor : Undecided(c)'}}
      BY <2>2 DEF OpenMap, Undecided, Plain
    <3>4. QED
      BY <3>1, <3>2, <3>3
  <2>5. PICK id \in CommitId : /\ WrittenAs(Author(e), id) /\ id[1] = now.ref
    BY <1>1, <2>2 DEF SaveInv
  <2>6. now.ref \in Branch
    BY <1>1, <2>2 DEF SaveInv
  <2>7. /\ id[2] \in 1..Len(commits[now.ref])
        /\ commits[now.ref][id[2]].author = Author(e)
        /\ Len(commits[now.ref]) \in Nat
    <3>1. id \in CommitsOf(Author(e)) /\ Len(commits[now.ref]) \in Nat
      BY <2>5, <2>6, LenProperties DEF WrittenAs, HistoryInv, CommitsInv
    <3>2. id[2] \in 1..MaxCommits
      BY DEF CommitId
    <3>3. QED
      BY <2>5, <3>1, <3>2, Numbers DEF CommitsOf, At
  <2>8. commit \in {<<now.ref, j>> : j \in id[2]..Len(commits[now.ref])} \cup {None}
    BY <2>7 DEF Tip
  <2>9. id[2] \in DOMAIN commits[now.ref]
    BY <2>6, <2>7, LenProperties DEF HistoryInv, CommitsInv
  <2>10. QED
    BY <1>1, <2>2, <2>3, <2>4, <2>6, <2>7, <2>8, <2>9, CallMapped
    DEF Updates!Acknowledge
<1>9. QED
  BY <1>3, <1>4, <1>6, <1>7, <1>8 DEF Save

LEMMA LateMapped ==
  ASSUME HistoryInv, AnswersInv, CommitLate
  PROVE  Updates!Make
<1>1. PICK u \in late : /\ Fits(u) /\ Commit(u) /\ late' = late \ {u}
                        /\ UNCHANGED <<save, saves>>
  BY DEF CommitLate
<1>2. CallMap' = CallMap
  BY <1>1 DEF CallMap, Saving
<1>3. \A v \in late \ {u} : Plain(v) # Plain(u)
  BY <1>1 DEF AnswersInv, Plain
<1>4. \A d \in Editor : Undecided(d) => Plain(Update(d)) # Plain(u)
  <2>1. ASSUME NEW d \in Editor, Undecided(d) PROVE u.author # Update(d).author
    BY <1>1, <2>1, SaveNow DEF SaveInv, Undecided, Unwritten
  <2>2. QED
    BY <2>1 DEF Plain
<1>5. /\ OpenMap = {Plain(v) : v \in late} \cup
                   {Plain(Update(d)) : d \in {c \in Editor : Undecided(c)}}
      /\ OpenMap' = {Plain(v) : v \in late'} \cup
                    {Plain(Update(d)) : d \in {c \in Editor : Undecided(c)}}
  BY <1>1 DEF OpenMap, Undecided, Saving, Plain, Update, Author
<1>6. Plain(u) \in OpenMap /\ OpenMap' = OpenMap \ {Plain(u)}
  BY <1>1, <1>3, <1>4, <1>5
<1>7. QED
  BY <1>1, <1>2, <1>6, CommitIsWrite DEF Updates!Make

LEMMA InitMapped == Init => Updates!Init
<1> SUFFICES ASSUME Init PROVE Updates!Init
  OBVIOUS
<1>1. \E tree \in Tree, first \in Config \cup {None} :
        commits = [b \in Branch |->
                     <<[config |-> first, files |-> tree, author |-> None]>>]
  BY Numbers DEF Init, InitCommits
<1>2. CallMap = [e \in Editor |-> [number |-> 0, ref |-> None, config |-> None,
                                   verdict |-> "none", commit |-> None]]
  <2>1. \A e \in Editor : save[e] = NoSave /\ saves[e] = 0
    BY DEF Init
  <2>2. \A e \in Editor : CallOf(e) = [number |-> 0, ref |-> None, config |-> None,
                                       verdict |-> "none", commit |-> None]
    BY <2>1 DEF CallOf, Saving, NoSave
  <2>3. QED
    BY <2>2 DEF CallMap, CallOf
<1>3. OpenMap = {}
  BY DEF Init, OpenMap, Saving, NoSave
<1>4. QED
  BY <1>1, <1>2, <1>3 DEF Updates!Init

LEMMA OthersMapped ==
  ASSUME HistoryInv, Others
  PROVE  Updates!Others
<1>1. PICK b \in Branch, files \in Tree, config \in Config \cup {None} :
        Push(b, config, files, None)
  BY DEF Others, PushOther
<1>2. UNCHANGED <<CallMap, OpenMap>>
  BY DEF Others, handlers, CallMap, OpenMap, Saving, Update, Author, Plain
<1>3. QED
  BY <1>1, <1>2, PushIsCommit DEF Updates!Others

(* The editing of configs, with its SHAs, its lost answers and its late    *)
(* updates, is that of ConfigUpdates: whatever becomes of a save, its      *)
(* update is made at most once, as it was sent, and the editor is told the *)
(* truth or nothing.                                                       *)
THEOREM KeepsUpdates == Spec => ImplementsUpdates
<1>1. IndInv /\ AnswersInv /\ [Next]_vars => AnswersInv'
  BY AnswersStep DEF IndInv
<1>2. IndInv /\ AnswersInv /\ [Next]_vars => [Updates!Next]_Updates!updateVars
  <2> SUFFICES ASSUME HistoryInv, AnswersInv, [Next]_vars
               PROVE  Updates!Next \/ UNCHANGED <<commits, CallMap, OpenMap>>
    BY DEF IndInv, Updates!updateVars
  <2>1. CASE UNCHANGED vars \/ \E e \in Editor : Load(e)
    <3>1. UNCHANGED <<commits, handlers>>
      BY <2>1 DEF vars, Load, ClickLoad, ChangeField, LoadChosen, ResolveLoad,
                  FinishLoad, FailLoad
    <3>2. QED
      BY <3>1, MappedSame
  <2>2. CASE Others \/ CommitLate
    BY <2>2, OthersMapped, LateMapped DEF Updates!Next
  <2>3. CASE \E e \in Editor : ClickSave(e) \/ Save(e)
    BY <2>3, ClickMapped, SaveMapped DEF Updates!Next
  <2>4. QED
    BY <2>1, <2>2, <2>3 DEF Next
<1>3. QED
  BY Invariance, InitAnswers, InitMapped, <1>1, <1>2, PTL
  DEF Spec, ImplementsUpdates, Updates!Spec
=============================================================================
