-------------------------- MODULE SelectionProofs ---------------------------
(* What visitors get, for any number of visitors, branches, commits, files *)
(* and wishes.                                                             *)
EXTENDS Selection, FiniteSetTheorems, SequenceTheorems, TLAPS

LEMMA Numbers ==
  /\ MaxCommits \in Nat \ {0} /\ CacheSize \in Nat \ {0}
  /\ Initial \in Config \cup {None} /\ DefaultBranch \in Branch
  /\ None \notin CommitId /\ None \notin Branch
<1>1. /\ MaxCommits \in Nat \ {0} /\ CacheSize \in Nat \ {0}
      /\ Initial \in Config \cup {None} /\ DefaultBranch \in Branch
      /\ None \notin Branch \X Nat /\ None \notin Branch
  BY RepoConfigAssumption, SelectionAssumption
     DEF RepoConfigAssumption, SelectionAssumption
<1>2. CommitId \subseteq Branch \X Nat
  BY <1>1 DEF CommitId
<1>3. QED
  BY <1>1, <1>2

Configs == Config \cup {Default}

Named(file) == \E Name : file.extensions \in Seq(Name)

LEMMA LastIsSuffix ==
  ASSUME NEW Name, NEW s \in Seq(Name), s # <<>>
  PROVE  IsSuffix(<<Last(s)>>, s)
<1>1. Len(s) \in Nat \ {0} /\ Last(s) = s[Len(s)]
  BY DEF Last
<1> DEFINE x == s[Len(s)]
           r == [i \in 1..Len(s) |-> s[(Len(s) - i) + 1]]
<1>2. Len(<<x>>) = 1 /\ <<x>>[1] = x
  OBVIOUS
<1>3. Reverse(<<x>>) = [i \in 1..1 |-> <<x>>[(1 - i) + 1]]
  BY <1>2 DEF Reverse
<1>4. Reverse(<<x>>) = <<x>>
  BY <1>2, <1>3
<1>5. Reverse(s) = r
  BY DEF Reverse
<1>6. r \in Seq(Name) /\ Len(r) = Len(s) /\ r[1] = x
  BY <1>1
<1> HIDE DEF r, x
<1>7. ASSUME NEW S, NEW q \in Seq(S), Len(q) >= 1, q[1] = x
      PROVE  SubSeq(q, 1, 1) = <<x>>
  <2> DEFINE t == SubSeq(q, 1, 1)
  <2>1. /\ t \in Seq(S) /\ Len(t) = 1
        /\ \A i \in 1..1 - 1 + 1 : t[i] = q[1 + i - 1]
    <3>1. 1 \in Int /\ \A i \in 1..1 : q[i] \in S
      BY <1>7
    <3>2. QED
      BY <3>1, SubSeqProperties
  <2> HIDE DEF t
  <2>2. t[1] = x
    <3>1. 1 \in 1..1 - 1 + 1 /\ 1 + 1 - 1 = 1
      OBVIOUS
    <3>2. QED
      BY <1>7, <2>1, <3>1
  <2>3. x \in S
    BY <1>7
  <2>4. <<x>> \in Seq(S) /\ Len(<<x>>) = 1 /\ <<x>>[1] = x
    BY <2>3
  <2>5. \A i \in 1..Len(t) : t[i] = <<x>>[i]
    BY <2>1, <2>2, <2>4
  <2>6. t = <<x>>
    BY <2>1, <2>4, <2>5, SeqEqual
  <2>7. QED
    BY <2>6 DEF t
<1>8. SubSeq(r, 1, 1) = <<x>> /\ SubSeq(<<x>>, 1, 1) = <<x>>
  <2>1. <<x>> \in Seq({x}) /\ Len(r) >= 1 /\ Len(<<x>>) >= 1
    BY <1>1, <1>2, <1>6
  <2>2. SubSeq(r, 1, 1) = <<x>>
    BY <1>6, <1>7, <2>1
  <2>3. SubSeq(<<x>>, 1, 1) = <<x>>
    BY <1>2, <1>7, <2>1
  <2>4. QED
    BY <2>2, <2>3
<1>9. IsPrefix(<<x>>, r)
  BY <1>1, <1>2, <1>6, <1>8 DEF IsPrefix
<1>10. QED
  BY <1>1, <1>4, <1>5, <1>9 DEF IsSuffix, x

(* Theorem: the WHERE clause of TreeDB.Search loses no file that the       *)
(* compiled filter takes, whatever the criteria, if they are tidy.         *)
THEOREM NothingIsLost ==
  \A criteria, file : Tidy(criteria) /\ Named(file) /\ Match(criteria, file) =>
    Where(criteria, file)
<1> SUFFICES ASSUME NEW criteria, NEW file,
                    Tidy(criteria), Named(file), Match(criteria, file)
             PROVE  Where(criteria, file)
  OBVIOUS
<1>1. WherePrefix(criteria, file)
  <2> DEFINE given == {p \in criteria.prefixes : Literal(p) \/ TrimSlashes(p.text) # <<>>}
  <2> SUFFICES ASSUME given # {}
               PROVE  \E p \in given :
                        ~Literal(p) /\ IsPrefix(TrimSlashes(p.text), file.path)
    BY DEF WherePrefix
  <2>1. PathPrefixes(criteria) # {}
    BY DEF Tidy, PathPrefixes
  <2>2. PICK prefix \in PathPrefixes(criteria) : IsPrefix(prefix, file.path)
    BY <2>1 DEF Match
  <2>3. PICK p \in criteria.prefixes : prefix = Clean(p.text) /\ prefix # <<>>
    BY DEF PathPrefixes
  <2>4. QED
    BY <2>2, <2>3 DEF Tidy
<1>2. WhereExtension(criteria, file)
  <2> SUFFICES ASSUME criteria.extensions # {}
               PROVE  \E e \in criteria.extensions :
                        ~Literal(e) /\ e.text # <<>> /\ IsSuffix(e.text, file.extensions)
    BY DEF WhereExtension
  <2>1. Extensions(criteria) # {}
    BY DEF Tidy, Extensions
  <2>2. LastExtension(file) \in Extensions(criteria)
    BY <2>1 DEF Match
  <2>3. PICK e \in criteria.extensions : e.text = LastExtension(file)
    BY <2>2 DEF Extensions
  <2>4. ~Literal(e) /\ e.text # <<>>
    BY DEF Tidy
  <2>5. file.extensions # <<>> /\ e.text = <<Last(file.extensions)>>
    BY <2>3, <2>4 DEF LastExtension
  <2>6. IsSuffix(e.text, file.extensions)
    BY <2>5, LastIsSuffix DEF Named
  <2>7. QED
    BY <2>4, <2>6
<1>3. QED
  BY <1>1, <1>2 DEF Where

(* The files that criteria match                                           *)
Matching(criteria, files) == {f \in files : Match(criteria, f)}

LEMMA SelectMatches ==
  ASSUME NEW criteria, NEW tree \in Tree
  PROVE  /\ Select(criteria, tree) \subseteq Matching(criteria, tree)
         /\ Tidy(criteria) => Select(criteria, tree) = Matching(criteria, tree)
<1>1. \A f \in tree : Named(f)
  BY SelectionAssumption DEF SelectionAssumption, File, Named
<1>2. QED
  BY <1>1, NothingIsLost DEF Select, Matching
-----------------------------------------------------------------------------
(* The commits of the branches only grow *)

Written == [config : Config \cup {None}, files : Tree, author : {None}]

CommitsInv ==
  /\ commits \in [Branch -> Seq(Written)]
  /\ \A b \in Branch : Len(commits[b]) \in 1..MaxCommits

There(id) == id \in CommitId /\ id[2] <= Len(commits[id[1]])

LEMMA TipIsThere == ASSUME CommitsInv, NEW b \in Branch PROVE There(Tip(b))
<1>1. commits[b] \in Seq(Written) /\ Len(commits[b]) \in 1..MaxCommits
  BY DEF CommitsInv
<1>2. QED
  BY <1>1 DEF Tip, CommitId, There

LEMMA CommitTyped ==
  ASSUME CommitsInv, NEW id, There(id)
  PROVE  /\ At(id) \in Written /\ ConfigOf(At(id)) \in Configs
         /\ Loaded(id) = ConfigOf(At(id)) /\ At(id).files \in Tree
<1>1. id[1] \in Branch /\ id[2] \in 1..MaxCommits /\ id[2] <= Len(commits[id[1]])
  BY DEF There, CommitId
<1>2. commits[id[1]] \in Seq(Written) /\ Len(commits[id[1]]) \in Nat
  BY <1>1 DEF CommitsInv
<1>3. id[2] \in 1..Len(commits[id[1]])
  BY <1>1, <1>2, Numbers
<1>4. At(id) \in Written
  BY <1>2, <1>3 DEF At
<1>5. QED
  BY <1>4 DEF Written, Loaded, ConfigAt, ConfigOf, Configs

LEMMA CommitsAreTyped == CommitsInv => CommitsTyped
<1> SUFFICES ASSUME CommitsInv, NEW b \in Branch, NEW i \in DOMAIN commits[b]
             PROVE  /\ commits[b][i].config \in Config \cup {None}
                    /\ commits[b][i].files \in Tree
  BY DEF CommitsTyped
<1>1. commits[b] \in Seq(Written)
  BY DEF CommitsInv
<1>2. commits[b][i] \in Written
  BY <1>1
<1>3. QED
  BY <1>2 DEF Written

LEMMA InitCommitsInv == InitCommits => CommitsInv
<1> SUFFICES ASSUME InitCommits PROVE CommitsInv
  OBVIOUS
<1>1. PICK tree \in Tree :
        commits = [b \in Branch |->
                     <<[config |-> Initial, files |-> tree, author |-> None]>>]
  BY DEF InitCommits
<1> DEFINE first == [config |-> Initial, files |-> tree, author |-> None]
           q == <<first>>
<1>2. first \in Written
  BY Numbers DEF Written
<1> HIDE DEF first
<1>3. q \in Seq(Written) /\ Len(q) = 1
  BY <1>2
<1>4. \A b \in Branch : commits[b] = q
  BY <1>1 DEF first
<1>5. commits \in [Branch -> Seq(Written)]
  BY <1>1, <1>3 DEF first
<1> HIDE DEF q
<1>6. 1 \in 1..MaxCommits
  BY Numbers
<1>7. QED
  BY <1>3, <1>4, <1>5, <1>6 DEF CommitsInv

(* What there is stays as it is. *)
Grown == \A id : There(id) => There(id)' /\ At(id)' = At(id)

(* Lemma: what a commit has does not change when others push.              *)
LEMMA PushStep ==
  ASSUME CommitsInv, NEW b \in Branch, NEW config \in Config \cup {None},
         NEW files \in Tree, Push(b, config, files, None)
  PROVE  CommitsInv' /\ Grown
<1> DEFINE q == commits[b]
           new == [config |-> config, files |-> files, author |-> None]
           r == Append(q, new)
<1>1. /\ Len(q) < MaxCommits /\ commits' = [commits EXCEPT ![b] = r]
      /\ commits \in [Branch -> Seq(Written)] /\ q \in Seq(Written)
      /\ Len(q) \in 1..MaxCommits
  BY DEF Push, CommitsInv
<1>2. new \in Written
  BY DEF Written
<1> HIDE DEF new
<1>3. /\ r \in Seq(Written) /\ Len(r) = Len(q) + 1
      /\ \A i \in 1..Len(q) : r[i] = q[i]
  <2> HIDE DEF q
  <2>1. q \in Seq(Written) /\ new \in Written
    BY <1>1, <1>2
  <2>2. QED
    BY <2>1
<1>4. /\ commits'[b] = r /\ \A c \in Branch : c # b => commits'[c] = commits[c]
      /\ commits' \in [Branch -> Seq(Written)]
  BY <1>1, <1>3
<1> HIDE DEF r
<1>5. Len(r) \in 1..MaxCommits
  BY <1>1, <1>3, Numbers
<1>6. CommitsInv'
  BY <1>4, <1>5 DEF CommitsInv
<1>7. ASSUME NEW id, There(id) PROVE There(id)' /\ At(id)' = At(id)
  <2>1. /\ id \in CommitId /\ id[1] \in Branch /\ id[2] \in 1..MaxCommits
        /\ id[2] <= Len(commits[id[1]])
    BY <1>7 DEF There, CommitId
  <2>2. CASE id[1] = b
    <3>1. id[2] \in 1..Len(q)
      BY <1>1, <2>1, <2>2
    <3>2. r[id[2]] = q[id[2]] /\ id[2] <= Len(r)
      BY <1>1, <1>3, <3>1
    <3>3. QED
      BY <1>4, <2>1, <2>2, <3>2 DEF At, There
  <2>3. CASE id[1] # b
    BY <1>4, <2>1, <2>3 DEF At, There
  <2>4. QED
    BY <2>2, <2>3
<1>8. QED
  BY <1>6, <1>7 DEF Grown
-----------------------------------------------------------------------------
(* What becomes of wishes and listings *)

LEMMA RereadTyped ==
  ASSUME NEW wish \in Wish, NEW private \in BOOLEAN
  PROVE  Reread(wish, private) \in Wishes /\ wish \in Wishes
BY DEF Wishes

(* Lemma: a plain wish reads back from its link.                           *)
LEMMA PlainReadsBack ==
  ASSUME NEW wish \in Wish, NEW private \in BOOLEAN, Plain(wish, private)
  PROVE  Reread(wish, private) = wish
<1> DEFINE Lists == {"include", "exclude", "extensions", "prefixes"}
<1>1. wish \in [preset : STRING,
                adhoc : [include : SUBSET Value, exclude : SUBSET Value,
                         extensions : SUBSET Value, prefixes : SUBSET Value]]
  BY SelectionAssumption DEF SelectionAssumption
<1>2. /\ DOMAIN wish.adhoc = Lists
      /\ wish.adhoc = [list \in Lists |-> wish.adhoc[list]]
      /\ \A list \in Lists : wish.adhoc[list] \subseteq Value
      /\ wish = [preset |-> wish.preset, adhoc |-> wish.adhoc]
  BY <1>1
<1>3. ASSUME NEW list \in Lists
      PROVE  /\ Values(wish.adhoc[list]) = wish.adhoc[list]
             /\ ~private => UNION {Parts(v) : v \in wish.adhoc[list]} = wish.adhoc[list]
  <2> DEFINE values == wish.adhoc[list]
  <2>1. /\ values \subseteq Value
        /\ \A v \in values : ~v.blank /\ v.text # <<>> /\ (private \/ Parts(v) = {v})
    BY <1>2, <1>3 DEF Plain
  <2> HIDE DEF values
  <2>2. \A v \in values : Trimmed(v) = v
    BY <2>1 DEF Trimmed, Value
  <2>3. Values(values) = values
    BY <2>1, <2>2 DEF Values
  <2>4. ~private => UNION {Parts(v) : v \in values} = values
    BY <2>1
  <2>5. QED
    BY <2>3, <2>4 DEF values
<1> HIDE DEF Lists
<1>4. TrimSpace(wish.preset) = wish.preset
  BY DEF Plain
<1>5. Normalized(wish) = wish
  BY <1>2, <1>3, <1>4 DEF Normalized
<1>6. ASSUME ~private PROVE FromQuery(wish) = wish
  <2>1. [list \in DOMAIN wish.adhoc |-> UNION {Parts(v) : v \in wish.adhoc[list]}]
          = wish.adhoc
    BY <1>2, <1>3, <1>6
  <2>2. [wish EXCEPT !.adhoc = wish.adhoc] = wish
    BY <1>1
  <2>3. QED
    BY <1>5, <2>1, <2>2 DEF FromQuery
<1>7. QED
  BY <1>5, <1>6 DEF Reread

(* The parts of a listing, which are all of it unless it is cut *)
PartsOf(files, cut) == IF cut THEN SUBSET files ELSE {files}

LEMMA SizedTyped ==
  ASSUME NEW part \in SUBSET File, NEW known
  PROVE  Sized(part, known) \in Entries /\ DOMAIN Sized(part, known) = part
<1>1. \A f \in part : (IF f \in known THEN f.size ELSE f.listed) \in Size
  BY DEF Size
<1>2. Sized(part, known) \in [part -> Size]
  BY <1>1 DEF Sized
<1>3. QED
  BY <1>2 DEF Entries

LEMMA ListingTyped ==
  ASSUME NEW files \in SUBSET File, NEW cut \in BOOLEAN,
         NEW entries \in Listings(files, cut)
  PROVE  /\ entries \in Entries /\ DOMAIN entries \in PartsOf(files, cut)
         /\ \E part \in PartsOf(files, cut), known \in SUBSET files :
              entries = Sized(part, known)
<1>1. PICK part \in PartsOf(files, cut), known \in SUBSET files :
        entries = Sized(part, known)
  BY DEF Listings, PartsOf
<1>2. part \in SUBSET File
  BY DEF PartsOf
<1>3. QED
  BY <1>1, <1>2, SizedTyped

(* Lemma: a listing is one of more files, too, if that may be cut.         *)
LEMMA ListingsGrow ==
  ASSUME NEW files, NEW more, files \subseteq more,
         NEW cut \in BOOLEAN, NEW torn \in BOOLEAN, cut \/ files # more => torn
  PROVE  Listings(files, cut) \subseteq Listings(more, torn)
<1> SUFFICES ASSUME NEW part \in PartsOf(files, cut), NEW known \in SUBSET files
             PROVE  Sized(part, known) \in Listings(more, torn)
  BY DEF Listings, PartsOf
<1>1. part \in (IF torn THEN SUBSET more ELSE {more}) /\ known \in SUBSET more
  BY DEF PartsOf
<1>2. QED
  BY <1>1 DEF Listings

LEMMA NoEntriesTyped == NoEntries \in Entries
<1>1. NoEntries \in [{} -> Size]
  BY DEF NoEntries
<1>2. QED
  BY <1>1 DEF Entries

LEMMA ReplyIs ==
  ASSUME NEW config, NEW entries
  PROVE  \/ WithinLimits(config, entries) /\ Reply(config, entries) = <<"ok", entries>>
         \/ ~WithinLimits(config, entries) /\ Reply(config, entries) = <<"limit", NoEntries>>
BY DEF Reply

LEMMA ObjectionIs ==
  ASSUME NEW config, NEW wish
  PROVE  Objection(config, wish) \in {"ok", "preset", "adhoc"}
BY DEF Objection

(* What a commit selects for a wish *)
Found(commit, wish) == Select(Criteria(ConfigOf(commit), wish), commit.files)

LEMMA AnswersAre ==
  ASSUME NEW commit, NEW wish, NEW cut, NEW answer
  PROVE  answer \in Answers(commit, wish, cut) <=>
           /\ Valid(ConfigOf(commit))
           /\ Objection(ConfigOf(commit), wish) # "ok" =>
                answer = <<Objection(ConfigOf(commit), wish), NoEntries>>
           /\ Objection(ConfigOf(commit), wish) = "ok" =>
                \E entries \in Listings(Found(commit, wish), cut) :
                  answer = Reply(ConfigOf(commit), entries)
<1> DEFINE config == ConfigOf(commit)
           objection == Objection(config, wish)
           replies == {Reply(config, entries) :
                         entries \in Listings(Found(commit, wish), cut)}
<1>1. Answers(commit, wish, cut) =
        CASE ~Valid(config) -> {}
          [] Valid(config) /\ objection # "ok" -> {<<objection, NoEntries>>}
          [] OTHER -> replies
  BY DEF Answers, Found
<1>2. CASE ~Valid(config)
  BY <1>1, <1>2
<1>3. CASE Valid(config) /\ objection # "ok"
  BY <1>1, <1>3
<1>4. CASE Valid(config) /\ objection = "ok"
  BY <1>1, <1>4
<1>5. QED
  BY <1>2, <1>3, <1>4

(* Lemma: what may be answered if nothing is torn may be answered anyhow.  *)
LEMMA AnswersGrow ==
  ASSUME NEW commit, NEW wish, NEW cut \in BOOLEAN, NEW torn \in BOOLEAN, cut => torn
  PROVE  Answers(commit, wish, cut) \subseteq Answers(commit, wish, torn)
<1>1. Listings(Found(commit, wish), cut) \subseteq Listings(Found(commit, wish), torn)
  BY ListingsGrow
<1>2. QED
  BY <1>1, AnswersAre
-----------------------------------------------------------------------------
(* The requests, the links and the manifests *)

Stages == {"none", "resolve", "config", "list", "files", "sizes", "answered"}
Filters == {Criteria(config, wish) : config \in Configs, wish \in Wishes}

Request ==
  [stage : Stages, wish : Wishes \cup {None}, ref : Branch \cup {None},
   commit : CommitId \cup {None}, criteria : Filters \cup {None},
   status : Status, entries : Entries, cut : BOOLEAN]

Sealed == [ref : {None}, commit : CommitId, wish : Wish, private : BOOLEAN,
           entries : Entries, cut : BOOLEAN]

Stored == [key : CommitId \X Filters, entries : Entries, cut : BOOLEAN]

RequestsTyped ==
  /\ visit \in [Visitor -> Request]
  /\ link \in [Visitor -> Sealed \cup {None}]
  /\ \A v \in Visitor : (visit[v].status = "pending") <=> (visit[v].stage # "answered")

(* The request r of a link l is for the commit of the link, and for what   *)
(* becomes of its wish.                                                    *)
OfLink(r, l) ==
  IF l = None THEN r.wish \in Wish
  ELSE r.commit = l.commit /\ r.wish = Reread(l.wish, l.private)

Replied(r) == r.stage = "answered" /\ r.status \notin {"failed", "expired"}
Listing(r) == r.stage \in {"list", "files", "sizes"}
Underway(r) == r.stage = "config" \/ Listing(r) \/ Replied(r)

GoodVisit(r, l) ==
  /\ r.stage = "resolve" =>
       /\ OfLink(r, l)
       /\ r.commit # None => There(r.commit)
       /\ r.commit = None => r.ref \in Branch
  /\ Underway(r) => There(r.commit) /\ OfLink(r, l)
  /\ Listing(r) => r.criteria \in Query(At(r.commit), r.wish)
  /\ r.stage = "sizes" =>
       DOMAIN r.entries \in PartsOf(Found(At(r.commit), r.wish), r.cut)
  /\ Replied(r) => <<r.status, r.entries>> \in Answers(At(r.commit), r.wish, r.cut)
  /\ r.status = "expired" => l # None /\ l.private

GoodLink(l) ==
  l # None =>
    There(l.commit) /\ <<"ok", l.entries>> \in Answers(At(l.commit), l.wish, l.cut)

(* A manifest has what a listing of its commit comes to.                   *)
ManifestInv(m) ==
  /\ m \in Stored /\ There(m.key[1])
  /\ m.entries \in Listings(Select(m.key[2], At(m.key[1]).files), m.cut)

CacheInv ==
  /\ IsFiniteSet(manifests) /\ Cardinality(manifests) <= CacheSize
  /\ \A m \in manifests : ManifestInv(m)
  /\ \A m, n \in manifests : m.key = n.key => m = n

IndInv ==
  /\ CommitsInv /\ RequestsTyped /\ CacheInv
  /\ \A v \in Visitor : GoodVisit(visit[v], link[v]) /\ GoodLink(link[v])

LEMMA IndInvTyped == IndInv => TypeOK
<1> SUFFICES ASSUME IndInv PROVE TypeOK
  OBVIOUS
<1>1. CommitsTyped
  BY CommitsAreTyped DEF IndInv
<1>2. \A v \in Visitor : visit[v] \in Request
  BY DEF IndInv, RequestsTyped
<1>3. ASSUME NEW v \in Visitor
      PROVE  /\ visit[v].stage \in Stages /\ visit[v].wish \in Wishes \cup {None}
             /\ visit[v].commit \in CommitId \cup {None}
             /\ visit[v].status \in Status /\ visit[v].entries \in Entries
             /\ (visit[v].status = "pending") = (visit[v].stage # "answered")
  BY <1>2 DEF IndInv, RequestsTyped, Request
<1>4. /\ Cardinality(manifests) <= CacheSize
      /\ \A m, n \in manifests : m.key = n.key => m = n
  BY DEF IndInv, CacheInv
<1>5. QED
  BY <1>1, <1>3, <1>4 DEF TypeOK, Stages

LEMMA OfTheCommit == IndInv => SelectionIsOfCommit
<1> SUFFICES ASSUME IndInv, NEW v \in Visitor, Replied(visit[v])
             PROVE  LET config == Loaded(visit[v].commit)
                        objection == Objection(config, visit[v].wish)
                        criteria == Criteria(config, visit[v].wish)
                        matched == {f \in At(visit[v].commit).files : Match(criteria, f)}
                        answer == <<visit[v].status, visit[v].entries>>
                    IN /\ Loadable(visit[v].commit)
                       /\ objection # "ok" => answer = <<objection, NoEntries>>
                       /\ objection = "ok" =>
                            \E entries \in Listings(matched, visit[v].cut \/ ~Tidy(criteria)) :
                              answer = Reply(config, entries)
  BY DEF SelectionIsOfCommit, Replied, Stage
<1> DEFINE now == visit[v]
           commit == At(now.commit)
           config == ConfigOf(commit)
           criteria == Criteria(config, now.wish)
           answer == <<now.status, now.entries>>
<1>1. /\ now \in Request /\ There(now.commit) /\ CommitsInv
      /\ answer \in Answers(commit, now.wish, now.cut)
  BY DEF IndInv, RequestsTyped, GoodVisit, Underway
<1>2. Loaded(now.commit) = config /\ commit.files \in Tree
  BY <1>1, CommitTyped
<1>3. /\ Valid(config)
      /\ Objection(config, now.wish) # "ok" =>
           answer = <<Objection(config, now.wish), NoEntries>>
      /\ Objection(config, now.wish) = "ok" =>
           \E entries \in Listings(Found(commit, now.wish), now.cut) :
             answer = Reply(config, entries)
  BY <1>1, AnswersAre
<1>4. Listings(Found(commit, now.wish), now.cut)
        \subseteq Listings(Matching(criteria, commit.files), now.cut \/ ~Tidy(criteria))
  <2>1. /\ Found(commit, now.wish) \subseteq Matching(criteria, commit.files)
        /\ Tidy(criteria) => Found(commit, now.wish) = Matching(criteria, commit.files)
    BY <1>2, SelectMatches DEF Found
  <2>2. now.cut \in BOOLEAN
    BY <1>1 DEF Request
  <2>3. PICK torn \in BOOLEAN : torn <=> (now.cut \/ ~Tidy(criteria))
    OBVIOUS
  <2>4. Listings(Found(commit, now.wish), now.cut)
          \subseteq Listings(Matching(criteria, commit.files), torn)
    BY <2>1, <2>2, <2>3, ListingsGrow
  <2>5. Listings(Matching(criteria, commit.files), torn)
          = Listings(Matching(criteria, commit.files), now.cut \/ ~Tidy(criteria))
    BY <2>3 DEF Listings
  <2>6. QED
    BY <2>4, <2>5
<1>5. Matching(criteria, commit.files) = {f \in commit.files : Match(criteria, f)}
  BY DEF Matching
<1>6. Loadable(now.commit)
  BY <1>2, <1>3 DEF Loadable
<1> HIDE DEF answer, criteria, config, commit
<1>7. QED
  BY <1>2, <1>3, <1>4, <1>5, <1>6 DEF criteria, config, commit, answer

LEMMA OfTheLink == IndInv => LinkKeepsSelection
<1> SUFFICES ASSUME IndInv, NEW v \in Visitor, Stage(v, "answered"), link[v] # None,
                    Plain(link[v].wish, link[v].private), ~(visit[v].cut \/ link[v].cut)
             PROVE  \/ visit[v].status = "failed"
                    \/ visit[v].status = "expired" /\ link[v].private
                    \/ /\ visit[v].status = "ok"
                       /\ DOMAIN visit[v].entries = DOMAIN link[v].entries
                    \/ /\ visit[v].status = "limit"
                       /\ \E known \in SUBSET DOMAIN link[v].entries :
                            ~WithinLimits(Loaded(visit[v].commit),
                                          Sized(DOMAIN link[v].entries, known))
  BY DEF LinkKeepsSelection
<1> DEFINE now == visit[v]
           old == link[v]
<1>1. /\ now \in Request /\ old \in Sealed /\ CommitsInv
      /\ GoodVisit(now, old) /\ GoodLink(old)
  BY DEF IndInv, RequestsTyped
<1>2. CASE now.status \in {"failed", "expired"}
  BY <1>1, <1>2 DEF GoodVisit
<1>3. CASE now.status \notin {"failed", "expired"}
  <2>1. /\ There(now.commit) /\ now.commit = old.commit
        /\ now.wish = Reread(old.wish, old.private)
        /\ <<now.status, now.entries>> \in Answers(At(now.commit), now.wish, now.cut)
    BY <1>1, <1>3 DEF GoodVisit, Underway, Replied, OfLink, Stage
  <2>2. now.wish = old.wish
    <3>1. old.wish \in Wish /\ old.private \in BOOLEAN
      BY <1>1 DEF Sealed
    <3>2. QED
      BY <2>1, <3>1, PlainReadsBack
  <2>3. <<"ok", old.entries>> \in Answers(At(old.commit), old.wish, old.cut)
    BY <1>1 DEF GoodLink
  <2>4. now.cut \in BOOLEAN /\ ~now.cut /\ old.cut = now.cut
    BY <1>1 DEF Request, Sealed
  <2> DEFINE cut == now.cut
             commit == At(now.commit)
             config == ConfigOf(commit)
             files == Found(commit, now.wish)
  <2>5. Loaded(now.commit) = config /\ commit.files \in Tree
    BY <1>1, <2>1, CommitTyped
  <2>6. files \in SUBSET File
    BY <2>5 DEF Found, Select, File
  <2>7. /\ <<"ok", old.entries>> \in Answers(commit, now.wish, cut)
        /\ <<now.status, now.entries>> \in Answers(commit, now.wish, cut)
        /\ cut \in BOOLEAN /\ ~cut
    BY <2>1, <2>2, <2>3, <2>4
  <2> HIDE DEF now, old, commit, cut
  <2>8. Objection(config, now.wish) = "ok"
    <3>1. CASE Objection(config, now.wish) # "ok"
      <4>1. <<"ok", old.entries>> = <<Objection(config, now.wish), NoEntries>>
        BY <2>7, <3>1, AnswersAre
      <4>2. QED
        BY <3>1, <4>1
    <3>2. QED
      BY <3>1
  <2>9. PICK e1 \in Listings(files, cut) : <<"ok", old.entries>> = Reply(config, e1)
    BY <2>7, <2>8, AnswersAre
  <2>10. PICK e2 \in Listings(files, cut) :
           <<now.status, now.entries>> = Reply(config, e2)
    BY <2>7, <2>8, AnswersAre
  <2>11. old.entries = e1
    <3>1. Reply(config, e1) \in {<<"ok", e1>>, <<"limit", NoEntries>>}
      BY ReplyIs
    <3>2. QED
      BY <2>9, <3>1
  <2>12. /\ DOMAIN e1 = files /\ DOMAIN e2 = files
         /\ \E known \in SUBSET files : e2 = Sized(files, known)
    <3> HIDE DEF files
    <3>1. PartsOf(files, cut) = {files} /\ cut \in BOOLEAN
      BY <2>7 DEF PartsOf
    <3>2. QED
      BY <2>6, <3>1, ListingTyped
  <2>13. CASE WithinLimits(config, e2)
    <3>1. <<now.status, now.entries>> = <<"ok", e2>>
      BY <2>10, <2>13, ReplyIs
    <3>2. QED
      BY <2>11, <2>12, <3>1 DEF now, old
  <2>14. CASE ~WithinLimits(config, e2)
    <3>1. <<now.status, now.entries>> = <<"limit", NoEntries>>
      BY <2>10, <2>14, ReplyIs
    <3>2. \E known \in SUBSET DOMAIN old.entries :
            ~WithinLimits(Loaded(now.commit), Sized(DOMAIN old.entries, known))
      BY <2>5, <2>11, <2>12, <2>14
    <3>3. QED
      BY <3>1, <3>2 DEF now, old
  <2>15. QED
    BY <2>13, <2>14
<1>4. QED
  BY <1>2, <1>3

LEMMA NoVisitTyped == NoVisit \in Request
BY NoEntriesTyped DEF NoVisit, Request, Stages, Status

LEMMA NoVisitIsGood == ASSUME NEW l PROVE GoodVisit(NoVisit, l)
BY DEF GoodVisit, NoVisit, Underway, Listing, Replied

LEMMA Initially == Init => IndInv
<1> SUFFICES ASSUME Init PROVE IndInv
  OBVIOUS
<1>1. CommitsInv
  BY InitCommitsInv DEF Init
<1>2. RequestsTyped
  BY NoVisitTyped DEF Init, RequestsTyped, NoVisit
<1>3. CacheInv
  <2>1. IsFiniteSet({}) /\ Cardinality({}) = 0
    BY FS_EmptySet
  <2>2. QED
    BY <2>1, Numbers DEF Init, CacheInv
<1>4. \A v \in Visitor : GoodVisit(visit[v], link[v]) /\ GoodLink(link[v])
  <2>1. \A v \in Visitor : visit[v] = NoVisit /\ link[v] = None
    BY DEF Init
  <2>2. QED
    BY <2>1, NoVisitIsGood DEF GoodLink
<1>5. QED
  BY <1>1, <1>2, <1>3, <1>4 DEF IndInv
-----------------------------------------------------------------------------
(* Lemma: what is good of a request and a link stays so when commits come. *)
LEMMA GoodStays ==
  ASSUME Grown, NEW r, NEW l
  PROVE  /\ GoodVisit(r, l) => GoodVisit(r, l)'
         /\ GoodLink(l) => GoodLink(l)'
<1>1. ASSUME GoodVisit(r, l) PROVE GoodVisit(r, l)'
  <2>1. There(r.commit) => There(r.commit)' /\ At(r.commit)' = At(r.commit)
    BY DEF Grown
  <2>2. Listing(r) \/ Replied(r) => Underway(r)
    BY DEF Underway
  <2>3. r.stage = "sizes" => Listing(r)
    BY DEF Listing
  <2>4. QED
    BY <1>1, <2>1, <2>2, <2>3 DEF GoodVisit
<1>2. ASSUME GoodLink(l) PROVE GoodLink(l)'
  <2>1. There(l.commit) => There(l.commit)' /\ At(l.commit)' = At(l.commit)
    BY DEF Grown
  <2>2. QED
    BY <1>2, <2>1 DEF GoodLink
<1>3. QED
  BY <1>1, <1>2

LEMMA SameCommits == ASSUME CommitsInv, UNCHANGED commits PROVE CommitsInv' /\ Grown
BY DEF CommitsInv, Grown, There, At

(* Lemma: it is enough that the requests and links that a step leads to    *)
(* are good at the commits that there were before it.                      *)
LEMMA StateStep ==
  ASSUME CommitsInv', Grown, RequestsTyped', CacheInv',
         \A w \in Visitor : GoodVisit(visit'[w], link'[w]) /\ GoodLink(link'[w])
  PROVE  IndInv'
<1>1. ASSUME NEW w \in Visitor PROVE (GoodVisit(visit[w], link[w]) /\ GoodLink(link[w]))'
  <2>1. PICK r, l : r = visit'[w] /\ l = link'[w]
    OBVIOUS
  <2>2. GoodVisit(r, l) /\ GoodLink(l)
    BY <2>1
  <2>3. GoodVisit(r, l)' /\ GoodLink(l)'
    BY <2>2, GoodStays
  <2>4. QED
    BY <2>1, <2>3 DEF GoodVisit, GoodLink
<1>2. QED
  BY <1>1 DEF IndInv

LEMMA RequestNow ==
  ASSUME IndInv, NEW v \in Visitor
  PROVE  /\ visit[v] \in Request /\ visit \in [Visitor -> Request]
         /\ link[v] \in Sealed \cup {None} /\ link \in [Visitor -> Sealed \cup {None}]
         /\ GoodVisit(visit[v], link[v]) /\ GoodLink(link[v]) /\ CommitsInv
         /\ (visit[v].status = "pending") <=> (visit[v].stage # "answered")
BY DEF IndInv, RequestsTyped

(* Lemma: a step of one visitor that pushes nothing, with new as the       *)
(* request that comes of it                                                *)
LEMMA VisitStep ==
  ASSUME IndInv, NEW v \in Visitor, NEW new \in Request,
         visit' = [visit EXCEPT ![v] = new], UNCHANGED <<commits, link>>, CacheInv',
         (new.status = "pending") <=> (new.stage # "answered"), GoodVisit(new, link[v])
  PROVE  IndInv'
<1>1. /\ visit' \in [Visitor -> Request] /\ visit'[v] = new
      /\ \A w \in Visitor \ {v} : visit'[w] = visit[w]
  BY RequestNow
<1>2. RequestsTyped'
  BY <1>1 DEF IndInv, RequestsTyped
<1>3. CommitsInv' /\ Grown
  BY SameCommits DEF IndInv
<1>4. ASSUME NEW w \in Visitor PROVE GoodVisit(visit'[w], link'[w]) /\ GoodLink(link'[w])
  <2>1. GoodVisit(visit[w], link[w]) /\ GoodLink(link[w])
    BY DEF IndInv
  <2>2. CASE w = v
    BY <1>1, <2>1, <2>2
  <2>3. CASE w # v
    BY <1>1, <2>1, <2>3
  <2>4. QED
    BY <2>2, <2>3
<1>5. QED
  BY <1>2, <1>3, <1>4, StateStep

(* Lemma: the cache does not depend on requests.                           *)
LEMMA CacheStays ==
  ASSUME CacheInv, UNCHANGED <<commits, manifests>> PROVE CacheInv'
BY DEF CacheInv, ManifestInv, There, At

LEMMA AnswerStep ==
  ASSUME IndInv, NEW v \in Visitor, NEW status \in Status \ {"pending"},
         NEW entries \in Entries, NEW cut \in BOOLEAN,
         Answer(v, <<status, entries>>, cut), UNCHANGED <<commits, link>>, CacheInv',
         Underway(visit[v]) /\ visit[v].stage # "answered",
         status \notin {"failed", "expired"},
         <<status, entries>> \in Answers(At(visit[v].commit), visit[v].wish, cut)
  PROVE  IndInv'
<1> DEFINE now == visit[v]
           new == [now EXCEPT !.stage = "answered", !.status = status,
                              !.entries = entries, !.cut = cut]
<1>1. /\ now \in Request /\ visit \in [Visitor -> Request] /\ GoodVisit(now, link[v])
  BY RequestNow
<1>2. visit' = [visit EXCEPT ![v] = new]
  BY <1>1 DEF Answer
<1>3. /\ new \in Request /\ new.stage = "answered" /\ new.status = status
      /\ new.entries = entries /\ new.commit = now.commit /\ new.wish = now.wish
      /\ new.cut = cut
  BY <1>1 DEF Request, Stages
<1> HIDE DEF new
<1>4. There(now.commit) /\ OfLink(now, link[v])
  BY <1>1 DEF GoodVisit
<1>5. There(new.commit) /\ OfLink(new, link[v])
  BY <1>3, <1>4 DEF OfLink
<1>6. GoodVisit(new, link[v])
  BY <1>3, <1>5 DEF GoodVisit, Listing
<1>7. QED
  BY <1>2, <1>3, <1>6, VisitStep

LEMMA FailStep ==
  ASSUME IndInv, NEW v \in Visitor, Fail(v) \/ FollowExpired(v) PROVE IndInv'
<1> DEFINE now == visit[v]
<1>1. /\ now \in Request /\ visit \in [Visitor -> Request]
  BY RequestNow
<1>2. PICK status \in {"failed", "expired"} :
        /\ Answer(v, <<status, NoEntries>>, FALSE)
        /\ status = "expired" => link[v] # None /\ link[v].private
  BY DEF Fail, FollowExpired
<1> DEFINE new == [now EXCEPT !.stage = "answered", !.status = status,
                              !.entries = NoEntries, !.cut = FALSE]
<1>3. visit' = [visit EXCEPT ![v] = new] /\ UNCHANGED <<commits, link, manifests>>
  BY <1>1, <1>2 DEF Answer, Fail, FollowExpired
<1>4. new \in Request /\ new.stage = "answered" /\ new.status = status
  BY <1>1, NoEntriesTyped DEF Request, Stages, Status
<1> HIDE DEF new
<1>5. GoodVisit(new, link[v])
  BY <1>2, <1>4 DEF GoodVisit, Underway, Listing, Replied
<1>6. CacheInv'
  BY <1>3, CacheStays DEF IndInv
<1>7. QED
  BY <1>3, <1>4, <1>5, <1>6, VisitStep

LEMMA AskStep == ASSUME IndInv, NEW v \in Visitor, Ask(v) PROVE IndInv'
<1>1. PICK wish \in Wish, b \in Branch :
        visit' = [visit EXCEPT ![v] =
          [NoVisit EXCEPT !.stage = "resolve", !.wish = wish, !.ref = b]]
  BY Zenon DEF Ask
<1>2. link[v] = None /\ UNCHANGED <<commits, link, manifests>>
  BY DEF Ask
<1> DEFINE new == [NoVisit EXCEPT !.stage = "resolve", !.wish = wish, !.ref = b]
<1>3. wish \in Wishes
  BY DEF Wishes
<1>4. /\ new \in Request /\ new.stage = "resolve" /\ new.status = "pending"
      /\ new.wish = wish /\ new.ref = b /\ new.commit = None
  BY <1>3, NoEntriesTyped DEF NoVisit, Request, Stages, Status
<1>5. visit' = [visit EXCEPT ![v] = new]
  BY <1>1
<1> HIDE DEF new
<1>6. GoodVisit(new, link[v])
  BY <1>2, <1>4 DEF GoodVisit, Underway, Listing, Replied, OfLink
<1>7. CacheInv'
  BY <1>2, CacheStays DEF IndInv
<1>8. QED
  BY <1>2, <1>4, <1>5, <1>6, <1>7, VisitStep

LEMMA ResolveStep == ASSUME IndInv, NEW v \in Visitor, Resolve(v) PROVE IndInv'
<1> DEFINE now == visit[v]
           commit == IF now.commit # None THEN now.commit ELSE Tip(now.ref)
           new == [now EXCEPT !.stage = "config", !.commit = commit]
<1>1. /\ now \in Request /\ visit \in [Visitor -> Request] /\ GoodVisit(now, link[v])
      /\ CommitsInv /\ link[v] \in Sealed \cup {None}
      /\ (now.status = "pending") <=> (now.stage # "answered")
  BY RequestNow
<1>2. /\ now.stage = "resolve" /\ visit' = [visit EXCEPT ![v] = new]
      /\ UNCHANGED <<commits, link, manifests>>
  BY <1>1 DEF Resolve, Stage
<1>3. OfLink(now, link[v])
  BY <1>1, <1>2 DEF GoodVisit
<1>4. There(commit)
  <2>1. CASE now.commit # None
    BY <1>1, <1>2, <2>1 DEF GoodVisit
  <2>2. CASE now.commit = None
    <3>1. now.ref \in Branch
      BY <1>1, <1>2, <2>2 DEF GoodVisit
    <3>2. QED
      BY <1>1, <2>2, <3>1, TipIsThere
  <2>3. QED
    BY <2>1, <2>2
<1>5. link[v] # None => commit = link[v].commit
  <2>1. link[v] # None => link[v].commit # None
    BY <1>1, Numbers DEF Sealed
  <2>2. QED
    BY <1>3, <2>1 DEF OfLink
<1>6. commit \in CommitId
  BY <1>4 DEF There
<1> HIDE DEF commit
<1>7. /\ new \in Request /\ new.stage = "config" /\ new.status = now.status
      /\ new.commit = commit /\ new.wish = now.wish
  BY <1>1, <1>6 DEF Request, Stages
<1> HIDE DEF new
<1>8. now.status = "pending"
  BY <1>1, <1>2
<1>9. OfLink(new, link[v])
  BY <1>3, <1>5, <1>7 DEF OfLink
<1>10. There(new.commit)
  BY <1>4, <1>7
<1>11. GoodVisit(new, link[v])
  BY <1>7, <1>8, <1>9, <1>10 DEF GoodVisit, Listing, Replied
<1>12. CacheInv'
  BY <1>2, CacheStays DEF IndInv
<1>13. QED
  BY <1>2, <1>7, <1>8, <1>11, <1>12, VisitStep

LEMMA ReadConfigStep == ASSUME IndInv, NEW v \in Visitor, ReadConfig(v) PROVE IndInv'
<1> DEFINE now == visit[v]
           commit == At(now.commit)
           config == ConfigOf(commit)
           objection == Objection(config, now.wish)
           criteria == Criteria(config, now.wish)
<1>1. /\ now \in Request /\ visit \in [Visitor -> Request] /\ GoodVisit(now, link[v])
      /\ CommitsInv
      /\ (now.status = "pending") <=> (now.stage # "answered")
  BY RequestNow
<1>2. /\ now.stage = "config" /\ UNCHANGED <<commits, link, manifests>>
      /\ Loadable(now.commit)
  BY DEF ReadConfig, Stage
<1>3. CacheInv'
  BY <1>2, CacheStays DEF IndInv
<1>4. There(now.commit) /\ OfLink(now, link[v])
  BY <1>1, <1>2 DEF GoodVisit, Underway
<1>5. Loaded(now.commit) = config /\ config \in Configs /\ Valid(config)
  BY <1>1, <1>2, <1>4, CommitTyped DEF Loadable
<1>6. CASE objection = "ok"
  <2> DEFINE new == [now EXCEPT !.stage = "list", !.criteria = criteria]
  <2>1. visit' = [visit EXCEPT ![v] = new]
    BY <1>1, <1>5, <1>6 DEF ReadConfig
  <2>2. now.wish \in Wishes
    <3>1. CASE link[v] = None
      BY <1>4, <3>1 DEF OfLink, Wishes
    <3>2. CASE link[v] # None
      <4>1. link[v] \in Sealed
        BY <3>2, RequestNow
      <4>2. link[v].wish \in Wish /\ link[v].private \in BOOLEAN
        BY <4>1 DEF Sealed
      <4>3. QED
        BY <1>4, <3>2, <4>2, RereadTyped DEF OfLink
    <3>3. QED
      BY <3>1, <3>2
  <2>3. criteria \in Filters
    <3> HIDE DEF config
    <3>1. QED
      BY <1>5, <2>2 DEF Filters
  <2>4. criteria \in Query(commit, now.wish)
    BY <1>5, <1>6 DEF Query
  <2> HIDE DEF criteria, commit
  <2>5. /\ new \in Request /\ new.stage = "list" /\ new.status = now.status
        /\ new.commit = now.commit /\ new.wish = now.wish /\ new.criteria = criteria
    BY <1>1, <2>3 DEF Request, Stages
  <2> HIDE DEF new
  <2>6. now.status = "pending"
    BY <1>1, <1>2
  <2>7. There(new.commit) /\ OfLink(new, link[v])
    BY <1>4, <2>5 DEF OfLink
  <2>8. new.criteria \in Query(At(new.commit), new.wish)
    BY <2>4, <2>5 DEF commit
  <2>9. GoodVisit(new, link[v])
    BY <2>5, <2>6, <2>7, <2>8 DEF GoodVisit, Replied
  <2>10. QED
    BY <1>2, <1>3, <2>1, <2>5, <2>6, <2>9, VisitStep
<1>7. CASE objection # "ok"
  <2>1. Answer(v, <<objection, NoEntries>>, FALSE)
    BY <1>5, <1>7 DEF ReadConfig
  <2>2. /\ <<objection, NoEntries>> \in Answers(commit, now.wish, FALSE)
        /\ objection \in {"preset", "adhoc"}
    BY <1>5, <1>7, AnswersAre, ObjectionIs
  <2> HIDE DEF objection
  <2>3. Underway(now) /\ now.stage # "answered"
    BY <1>2 DEF Underway
  <2>4. QED
    BY <1>2, <1>3, <2>1, <2>2, <2>3, NoEntriesTyped, AnswerStep DEF Status
<1>8. QED
  BY <1>6, <1>7

(* Lemma: an answer with a listing, if the limits allow it                 *)
LEMMA LimitStep ==
  ASSUME IndInv, NEW v \in Visitor, NEW entries, NEW cut \in BOOLEAN,
         Listing(visit[v]),
         entries \in Listings(Select(visit[v].criteria, At(visit[v].commit).files), cut),
         Answer(v, ReplyTo(v, entries), cut), UNCHANGED <<commits, link>>, CacheInv'
  PROVE  IndInv'
<1> DEFINE now == visit[v]
           commit == At(now.commit)
           config == ConfigOf(commit)
<1>1. /\ GoodVisit(now, link[v]) /\ CommitsInv
  BY RequestNow
<1>2. There(now.commit) /\ now.criteria \in Query(commit, now.wish)
  BY <1>1 DEF GoodVisit, Underway
<1>3. Loaded(now.commit) = config /\ commit.files \in Tree
  BY <1>1, <1>2, CommitTyped
<1>4. /\ Valid(config) /\ Objection(config, now.wish) = "ok"
      /\ Select(now.criteria, commit.files) = Found(commit, now.wish)
  BY <1>2 DEF Query, Found
<1> DEFINE reply == Reply(config, entries)
<1>5. reply \in Answers(commit, now.wish, cut)
  BY <1>4, AnswersAre
<1>6. entries \in Entries
  <2>1. Select(now.criteria, commit.files) \in SUBSET File
    BY <1>3 DEF File, Select
  <2>2. QED
    BY <2>1, ListingTyped
<1>7. Answer(v, reply, cut)
  BY <1>3 DEF ReplyTo
<1>8. Underway(now) /\ now.stage # "answered"
  BY DEF Underway, Listing
<1> HIDE DEF config, commit
<1>9. CASE reply = <<"ok", entries>>
  <2>1. /\ Answer(v, <<"ok", entries>>, cut)
        /\ <<"ok", entries>> \in Answers(commit, now.wish, cut)
    BY <1>5, <1>7, <1>9
  <2>2. QED
    BY <1>6, <1>8, <2>1, AnswerStep DEF Status, commit
<1>10. CASE reply = <<"limit", NoEntries>>
  <2>1. /\ Answer(v, <<"limit", NoEntries>>, cut)
        /\ <<"limit", NoEntries>> \in Answers(commit, now.wish, cut)
    BY <1>5, <1>7, <1>10
  <2>2. QED
    BY <1>8, <2>1, NoEntriesTyped, AnswerStep DEF Status, commit
<1>11. QED
  BY <1>9, <1>10, ReplyIs

LEMMA HitStep == ASSUME IndInv, NEW v \in Visitor, HitManifest(v) PROVE IndInv'
<1>1. /\ Listing(visit[v]) /\ UNCHANGED <<commits, link, manifests>>
  BY DEF HitManifest, Stage, Listing
<1>2. PICK m \in manifests : m.key = CacheKey(v) /\ Answer(v, ReplyTo(v, m.entries), m.cut)
  BY DEF HitManifest, Cached
<1>3. /\ m.entries \in Listings(Select(m.key[2], At(m.key[1]).files), m.cut)
      /\ m \in Stored
  BY <1>2 DEF IndInv, CacheInv, ManifestInv
<1>4. m.entries \in Listings(Select(visit[v].criteria, At(visit[v].commit).files), m.cut)
  BY <1>2, <1>3 DEF CacheKey
<1>5. CacheInv'
  BY <1>1, CacheStays DEF IndInv
<1>6. m.cut \in BOOLEAN
  BY <1>3 DEF Stored
<1>7. QED
  BY <1>1, <1>2, <1>4, <1>5, <1>6, LimitStep

(* Lemma: the listing of a request goes on.                                *)
LEMMA ListingStep ==
  ASSUME IndInv, NEW v \in Visitor, NEW stage \in {"files", "sizes"},
         NEW entries \in Entries, NEW cut \in BOOLEAN, Listing(visit[v]),
         visit' = [visit EXCEPT ![v] = [visit[v] EXCEPT !.stage = stage,
                                          !.entries = entries, !.cut = cut]],
         UNCHANGED <<commits, link, manifests>>,
         stage = "sizes" =>
           DOMAIN entries \in PartsOf(Found(At(visit[v].commit), visit[v].wish), cut)
  PROVE  IndInv'
<1> DEFINE now == visit[v]
           new == [now EXCEPT !.stage = stage, !.entries = entries, !.cut = cut]
<1>1. /\ now \in Request /\ GoodVisit(now, link[v])
      /\ (now.status = "pending") <=> (now.stage # "answered")
  BY RequestNow
<1>2. /\ new \in Request /\ new.stage = stage /\ new.status = now.status
      /\ new.commit = now.commit /\ new.wish = now.wish
      /\ new.criteria = now.criteria /\ new.entries = entries /\ new.cut = cut
  BY <1>1 DEF Request, Stages
<1>3. visit' = [visit EXCEPT ![v] = new]
  OBVIOUS
<1> HIDE DEF new
<1>4. now.status = "pending"
  BY <1>1 DEF Listing
<1>5. CacheInv'
  BY CacheStays DEF IndInv
<1>6. /\ There(now.commit) /\ OfLink(now, link[v])
      /\ now.criteria \in Query(At(now.commit), now.wish)
  BY <1>1 DEF GoodVisit, Underway
<1>7. There(new.commit) /\ OfLink(new, link[v])
  BY <1>2, <1>6 DEF OfLink
<1>8. new.criteria \in Query(At(new.commit), new.wish)
  BY <1>2, <1>6
<1>9. GoodVisit(new, link[v])
  BY <1>2, <1>4, <1>7, <1>8 DEF GoodVisit, Replied
<1>10. QED
  BY <1>2, <1>3, <1>4, <1>5, <1>9, VisitStep

LEMMA MissStep == ASSUME IndInv, NEW v \in Visitor, MissManifest(v) PROVE IndInv'
<1> DEFINE now == visit[v]
<1>1. /\ now \in Request /\ visit \in [Visitor -> Request]
  BY RequestNow
<1>2. /\ Listing(now) /\ UNCHANGED <<commits, link, manifests>>
      /\ visit' = [visit EXCEPT ![v] = [now EXCEPT !.stage = "files"]]
  BY <1>1 DEF MissManifest, Stage, Listing
<1>3. /\ now.entries \in Entries /\ now.cut \in BOOLEAN
      /\ [now EXCEPT !.stage = "files"]
           = [now EXCEPT !.stage = "files", !.entries = now.entries, !.cut = now.cut]
  BY <1>1 DEF Request
<1>4. QED
  BY Zenon, <1>2, <1>3, ListingStep

LEMMA ListStep ==
  ASSUME IndInv, NEW v \in Visitor, ListFiles(v) \/ CutListing(v) PROVE IndInv'
<1> DEFINE now == visit[v]
           found == Found(At(now.commit), now.wish)
<1>1. /\ now \in Request /\ visit \in [Visitor -> Request] /\ GoodVisit(now, link[v])
      /\ CommitsInv
  BY RequestNow
<1>2. PICK cut \in BOOLEAN : \E part \in PartsOf(Selected(v), cut) : Listed(v, part, cut)
  BY DEF ListFiles, CutListing, PartsOf
<1>3. PICK part \in PartsOf(Selected(v), cut) : Listed(v, part, cut)
  BY <1>2
<1> DEFINE entries == Sized(part, {})
<1>4. /\ Listing(now) /\ UNCHANGED <<commits, link, manifests>>
      /\ visit' = [visit EXCEPT ![v] = [now EXCEPT !.stage = "sizes",
                                          !.entries = entries, !.cut = cut]]
  BY <1>1, <1>3 DEF Listed, Stage, Listing
<1>5. There(now.commit) /\ now.criteria \in Query(At(now.commit), now.wish)
  BY <1>1, <1>4 DEF GoodVisit, Underway
<1>6. Selected(v) = found /\ found \in SUBSET File
  <2>1. Selected(v) = found
    BY <1>5 DEF Query, Found, Selected
  <2>2. At(now.commit).files \in Tree
    BY <1>1, <1>5, CommitTyped
  <2>3. QED
    BY <2>1, <2>2 DEF Found, Select, File
<1>7. entries \in Entries /\ DOMAIN entries = part
  <2>1. part \in SUBSET File
    BY <1>6 DEF PartsOf
  <2>2. QED
    BY <2>1, SizedTyped
<1>8. DOMAIN entries \in PartsOf(found, cut)
  BY <1>6, <1>7
<1> HIDE DEF entries, found
<1>9. QED
  BY Zenon, <1>4, <1>7, <1>8, ListingStep DEF found

(* Lemma: a cache that is full makes room.                                 *)
LEMMA StoreStep ==
  ASSUME IndInv, NEW v \in Visitor, NEW entries, StoreManifest(v, entries),
         UNCHANGED commits,
         ManifestInv([key |-> CacheKey(v), entries |-> entries, cut |-> visit[v].cut])
  PROVE  CacheInv'
<1>1. PICK kept \in SUBSET manifests :
        /\ kept = manifests <=> Cardinality(manifests) < CacheSize
        /\ manifests' = {m \in kept : m.key # CacheKey(v)}
                          \cup {[key |-> CacheKey(v), entries |-> entries,
                                 cut |-> visit[v].cut]}
  BY DEF StoreManifest
<1> DEFINE rest == {m \in kept : m.key # CacheKey(v)}
           new == [key |-> CacheKey(v), entries |-> entries, cut |-> visit[v].cut]
<1>2. /\ IsFiniteSet(manifests) /\ Cardinality(manifests) <= CacheSize
      /\ \A m \in manifests : ManifestInv(m)
      /\ \A m, n \in manifests : m.key = n.key => m = n
  BY DEF IndInv, CacheInv
<1>3. /\ IsFiniteSet(kept) /\ Cardinality(kept) \in Nat /\ Cardinality(manifests) \in Nat
      /\ Cardinality(kept) <= Cardinality(manifests)
      /\ kept # manifests => Cardinality(kept) < Cardinality(manifests)
  <2>1. IsFiniteSet(kept) /\ Cardinality(kept) <= Cardinality(manifests)
    BY <1>2, FS_Subset
  <2>2. Cardinality(kept) = Cardinality(manifests) => kept = manifests
    BY <1>2, FS_Subset
  <2>3. Cardinality(kept) \in Nat /\ Cardinality(manifests) \in Nat
    BY <1>2, <2>1, FS_CardinalityType
  <2>4. QED
    BY <2>1, <2>2, <2>3
<1>4. Cardinality(kept) < CacheSize
  BY <1>1, <1>2, <1>3, Numbers
<1>5. /\ IsFiniteSet(rest) /\ Cardinality(rest) \in Nat
      /\ Cardinality(rest) <= Cardinality(kept)
  <2>1. rest \subseteq kept
    OBVIOUS
  <2> HIDE DEF rest
  <2>2. QED
    BY <1>3, <2>1, FS_Subset, FS_CardinalityType
<1>6. /\ IsFiniteSet(rest \cup {new}) /\ Cardinality(rest \cup {new}) <= CacheSize
  <2> HIDE DEF rest, new
  <2>1. IsFiniteSet(rest \cup {new}) /\ Cardinality(rest \cup {new}) =
          IF new \in rest THEN Cardinality(rest) ELSE Cardinality(rest) + 1
    BY <1>5, FS_AddElement
  <2>2. QED
    BY <1>3, <1>4, <1>5, <2>1, Numbers
<1>7. \A m \in rest \cup {new} : ManifestInv(m)
  BY <1>2
<1>8. \A m \in manifests' : ManifestInv(m)'
  BY <1>1, <1>7 DEF ManifestInv, There, At
<1>9. new.key = CacheKey(v) /\ \A m \in rest : m.key # CacheKey(v)
  OBVIOUS
<1>10. \A m, n \in rest \cup {new} : m.key = n.key => m = n
  BY <1>2, <1>9
<1>11. QED
  BY <1>1, <1>6, <1>8, <1>10 DEF CacheInv

LEMMA SizesStep == ASSUME IndInv, NEW v \in Visitor, ResolveSizes(v) PROVE IndInv'
<1> DEFINE now == visit[v]
           selected == Select(now.criteria, At(now.commit).files)
<1>1. /\ now \in Request /\ GoodVisit(now, link[v]) /\ CommitsInv
  BY RequestNow
<1>2. PICK known \in SUBSET DOMAIN now.entries :
        LET entries == Sized(DOMAIN now.entries, known)
        IN /\ Answer(v, ReplyTo(v, entries), now.cut)
           /\ IF ReplyTo(v, entries)[1] = "ok"
              THEN StoreManifest(v, entries) ELSE UNCHANGED manifests
  BY DEF ResolveSizes
<1> DEFINE entries == Sized(DOMAIN now.entries, known)
<1>3. /\ now.stage = "sizes" /\ UNCHANGED <<commits, link>>
      /\ Answer(v, ReplyTo(v, entries), now.cut)
      /\ StoreManifest(v, entries) \/ UNCHANGED manifests
  BY <1>2 DEF ResolveSizes, Stage
<1>4. /\ There(now.commit) /\ now.criteria \in Query(At(now.commit), now.wish)
      /\ DOMAIN now.entries \in PartsOf(Found(At(now.commit), now.wish), now.cut)
      /\ Listing(now)
  BY <1>1, <1>3 DEF GoodVisit, Underway, Listing
<1>5. selected = Found(At(now.commit), now.wish)
  BY <1>4 DEF Query, Found
<1>6. entries \in Listings(selected, now.cut)
  <2>1. DOMAIN now.entries \in PartsOf(selected, now.cut)
    BY <1>4, <1>5
  <2> HIDE DEF selected
  <2>2. known \in SUBSET selected
    BY <2>1 DEF PartsOf
  <2>3. QED
    BY <2>1, <2>2 DEF Listings, PartsOf
<1>7. ManifestInv([key |-> CacheKey(v), entries |-> entries, cut |-> now.cut])
  <2>1. At(now.commit).files \in Tree /\ ConfigOf(At(now.commit)) \in Configs
    BY <1>1, <1>4, CommitTyped
  <2>2. now.commit \in CommitId /\ now.cut \in BOOLEAN
    BY <1>1, <1>4 DEF Request, There
  <2>3. now.criteria \in Filters
    <3>1. now.wish \in Wishes
      <4>1. CASE link[v] = None
        BY <1>1, <1>3, <4>1 DEF GoodVisit, Underway, Listing, OfLink, Wishes
      <4>2. CASE link[v] # None
        <5>1. link[v] \in Sealed
          BY <4>2, RequestNow
        <5>2. link[v].wish \in Wish /\ link[v].private \in BOOLEAN
          BY <5>1 DEF Sealed
        <5>3. QED
          BY <1>1, <1>3, <4>2, <5>2, RereadTyped DEF GoodVisit, Underway, Listing, OfLink
      <4>3. QED
        BY <4>1, <4>2
    <3>2. QED
      BY <1>4, <2>1, <3>1 DEF Query, Filters
  <2>4. entries \in Entries
    <3>1. selected \in SUBSET File
      BY <2>1 DEF File, Select
    <3>2. QED
      BY <1>6, <2>2, <3>1, ListingTyped
  <2> HIDE DEF entries
  <2>5. QED
    BY <1>4, <1>6, <2>2, <2>3, <2>4 DEF ManifestInv, CacheKey, Stored
<1>8. CacheInv'
  <2>1. CASE StoreManifest(v, entries)
    BY <1>3, <1>7, <2>1, StoreStep
  <2>2. CASE UNCHANGED manifests
    BY <1>3, <2>2, CacheStays DEF IndInv
  <2>3. QED
    BY <1>3, <2>1, <2>2
<1>9. now.cut \in BOOLEAN
  BY <1>1 DEF Request
<1>10. QED
  BY <1>3, <1>4, <1>6, <1>8, <1>9, LimitStep

LEMMA NewLinkTyped ==
  ASSUME IndInv, NEW v \in Visitor, Replied(visit[v]), link[v] = None,
         NEW new \in {LinkTo(v), PrivateLinkTo(v)}
  PROVE  /\ new \in Sealed /\ new.commit = visit[v].commit /\ new.wish = visit[v].wish
         /\ new.entries = visit[v].entries /\ new.cut = visit[v].cut
         /\ There(visit[v].commit)
<1> DEFINE now == visit[v]
<1>1. /\ now \in Request /\ GoodVisit(now, link[v])
  BY RequestNow
<1>2. There(now.commit) /\ now.wish \in Wish
  BY <1>1 DEF GoodVisit, Underway, OfLink
<1>3. now.commit \in CommitId /\ now.entries \in Entries /\ now.cut \in BOOLEAN
  BY <1>1, <1>2 DEF Request, There
<1> DEFINE to == LinkTo(v)
<1>4. /\ to \in Sealed /\ to.commit = now.commit /\ to.wish = now.wish
      /\ to.entries = now.entries /\ to.cut = now.cut
  BY <1>2, <1>3 DEF LinkTo, Sealed
<1> HIDE DEF to
<1>5. CASE new = to
  BY <1>2, <1>4, <1>5
<1>6. CASE new = [to EXCEPT !.private = TRUE, !.ref = None, !.commit = now.commit]
  BY <1>2, <1>3, <1>4, <1>6 DEF Sealed
<1>7. QED
  BY <1>5, <1>6 DEF PrivateLinkTo, to

(* Lemma: a link is to what the preview shows.                             *)
LEMMA GetLinkStep == ASSUME IndInv, NEW v \in Visitor, GetLink(v) PROVE IndInv'
<1> DEFINE now == visit[v]
<1>1. /\ now \in Request /\ visit \in [Visitor -> Request] /\ GoodVisit(now, link[v])
      /\ link \in [Visitor -> Sealed \cup {None}] /\ CommitsInv
  BY RequestNow
<1>2. /\ now.stage = "answered" /\ now.status = "ok" /\ link[v] = None
      /\ visit' = [visit EXCEPT ![v] = NoVisit] /\ UNCHANGED <<commits, manifests>>
  BY DEF GetLink, Stage
<1>3. PICK new \in {LinkTo(v), PrivateLinkTo(v)} : link' = [link EXCEPT ![v] = new]
  BY DEF GetLink
<1>4. Replied(now)
  BY <1>2 DEF Replied
<1>5. /\ new \in Sealed /\ new.commit = now.commit /\ new.wish = now.wish
      /\ new.entries = now.entries /\ new.cut = now.cut /\ There(now.commit)
  BY <1>2, <1>4, NewLinkTyped
<1>6. GoodLink(new)
  <2>1. <<"ok", now.entries>> \in Answers(At(now.commit), now.wish, now.cut)
    BY <1>1, <1>2, <1>4 DEF GoodVisit
  <2>2. QED
    BY <1>5, <2>1 DEF GoodLink
<1>7. /\ link' \in [Visitor -> Sealed \cup {None}] /\ link'[v] = new
      /\ \A w \in Visitor \ {v} : link'[w] = link[w]
  BY <1>1, <1>3, <1>5
<1>8. /\ visit' \in [Visitor -> Request] /\ visit'[v] = NoVisit
      /\ \A w \in Visitor \ {v} : visit'[w] = visit[w]
  BY <1>1, <1>2, NoVisitTyped
<1>9. RequestsTyped'
  BY <1>7, <1>8 DEF IndInv, RequestsTyped, NoVisit
<1>10. CacheInv' /\ CommitsInv' /\ Grown
  BY <1>1, <1>2, CacheStays, SameCommits DEF IndInv
<1>11. ASSUME NEW w \in Visitor PROVE GoodVisit(visit'[w], link'[w]) /\ GoodLink(link'[w])
  <2>1. GoodVisit(visit[w], link[w]) /\ GoodLink(link[w])
    BY DEF IndInv
  <2>2. CASE w = v
    BY <1>6, <1>7, <1>8, <2>2, NoVisitIsGood
  <2>3. CASE w # v
    BY <1>7, <1>8, <2>1, <2>3
  <2>4. QED
    BY <2>2, <2>3
<1>12. QED
  BY <1>9, <1>10, <1>11, StateStep

LEMMA FollowLinkStep == ASSUME IndInv, NEW v \in Visitor, FollowLink(v) PROVE IndInv'
<1> DEFINE stage == IF link[v].private THEN "config" ELSE "resolve"
           wish == Reread(link[v].wish, link[v].private)
           new == [NoVisit EXCEPT !.stage = stage, !.wish = wish,
                                  !.ref = link[v].ref, !.commit = link[v].commit]
<1>1. /\ visit \in [Visitor -> Request] /\ GoodLink(link[v])
      /\ link[v] \in Sealed \cup {None}
  BY RequestNow
<1>2. /\ link[v] # None /\ visit' = [visit EXCEPT ![v] = new]
      /\ UNCHANGED <<commits, link, manifests>>
  BY DEF FollowLink
<1>3. There(link[v].commit) /\ link[v] \in Sealed
  BY <1>1, <1>2 DEF GoodLink
<1>4. /\ link[v].wish \in Wish /\ link[v].private \in BOOLEAN
      /\ link[v].commit \in CommitId /\ link[v].ref = None
  BY <1>3 DEF Sealed
<1>5. stage \in {"config", "resolve"} /\ wish \in Wishes
  BY <1>4, RereadTyped
<1>6. /\ new \in Request /\ new.stage = stage /\ new.status = "pending"
      /\ new.commit = link[v].commit /\ new.wish = wish
  <2> HIDE DEF stage, wish
  <2>1. QED
    BY <1>4, <1>5, NoEntriesTyped DEF NoVisit, Request, Stages, Status
<1>7. OfLink(new, link[v])
  <2> HIDE DEF new
  <2>1. QED
    BY <1>2, <1>6 DEF OfLink
<1> HIDE DEF new, stage, wish
<1>8. There(new.commit) /\ new.commit # None
  BY <1>3, <1>4, <1>6, Numbers
<1>9. GoodVisit(new, link[v])
  BY <1>5, <1>6, <1>7, <1>8 DEF GoodVisit, Listing, Replied
<1>10. CacheInv'
  BY <1>2, CacheStays DEF IndInv
<1>11. new.stage # "answered"
  BY <1>5, <1>6
<1>12. QED
  BY <1>2, <1>6, <1>9, <1>10, <1>11, VisitStep

(* Lemma: what others push is no part of any commit that a visitor knows.  *)
LEMMA OthersStep == IndInv /\ Others => IndInv'
<1> SUFFICES ASSUME IndInv, Others PROVE IndInv'
  OBVIOUS
<1>1. PICK b \in Branch, files \in Tree, config \in Config \cup {None} :
        Push(b, config, files, None)
  BY DEF Others, PushOther
<1>2. UNCHANGED <<visit, link, manifests>>
  BY DEF Others
<1>3. CommitsInv' /\ Grown
  BY <1>1, PushStep DEF IndInv
<1>4. RequestsTyped'
  BY <1>2 DEF IndInv, RequestsTyped
<1>5. CacheInv'
  <2>1. \A m \in manifests : ManifestInv(m)'
    BY <1>3 DEF Grown, IndInv, CacheInv, ManifestInv
  <2>2. QED
    BY <1>2, <2>1 DEF IndInv, CacheInv
<1>6. \A w \in Visitor : GoodVisit(visit'[w], link'[w]) /\ GoodLink(link'[w])
  BY <1>2 DEF IndInv
<1>7. QED
  BY <1>3, <1>4, <1>5, <1>6, StateStep

(* Lemma: with the requests, the links and the commits as they are         *)
LEMMA CacheStep ==
  ASSUME IndInv, UNCHANGED <<commits, visit, link>>, CacheInv' PROVE IndInv'
<1>1. CommitsInv' /\ Grown
  BY SameCommits DEF IndInv
<1>2. RequestsTyped'
  BY DEF IndInv, RequestsTyped
<1>3. \A w \in Visitor : GoodVisit(visit'[w], link'[w]) /\ GoodLink(link'[w])
  BY DEF IndInv
<1>4. QED
  BY <1>1, <1>2, <1>3, StateStep

LEMMA ExpireStep == IndInv /\ Expire => IndInv'
<1> SUFFICES ASSUME IndInv, Expire PROVE IndInv'
  OBVIOUS
<1>1. PICK m \in manifests : manifests' = manifests \ {m}
  BY DEF Expire
<1>2. UNCHANGED <<commits, visit, link>>
  BY DEF Expire
<1>3. IsFiniteSet(manifests') /\ Cardinality(manifests') <= CacheSize
  <2>1. /\ IsFiniteSet(manifests) /\ Cardinality(manifests) \in Nat
        /\ Cardinality(manifests) <= CacheSize
    BY FS_CardinalityType DEF IndInv, CacheInv
  <2>2. /\ IsFiniteSet(manifests')
        /\ Cardinality(manifests') = Cardinality(manifests) - 1
    BY <1>1, <2>1, FS_RemoveElement
  <2>3. QED
    BY <2>1, <2>2, Numbers
<1>4. CacheInv'
  BY <1>1, <1>2, <1>3 DEF IndInv, CacheInv, ManifestInv, There, At
<1>5. QED
  BY <1>2, <1>4, CacheStep
-----------------------------------------------------------------------------
(* The invariant is kept by every step of the visitors and of those who    *)
(* push.                                                                   *)
THEOREM Invariance == Spec => []IndInv
<1>1. ASSUME IndInv, [Next]_vars PROVE IndInv'
  <2>1. CASE Others
    BY <1>1, <2>1, OthersStep
  <2>2. CASE Expire
    BY <1>1, <2>2, ExpireStep
  <2>3. ASSUME NEW v \in Visitor, Visit(v) PROVE IndInv'
    BY <1>1, <2>3, AskStep, ResolveStep, ReadConfigStep, FailStep, HitStep, MissStep,
       ListStep, SizesStep, GetLinkStep, FollowLinkStep DEF Visit
  <2>4. CASE UNCHANGED vars
    <3>1. UNCHANGED <<commits, visit, link, manifests>>
      BY <2>4 DEF vars
    <3>2. CacheInv'
      BY <1>1, <3>1, CacheStays DEF IndInv
    <3>3. QED
      BY <1>1, <3>1, <3>2, CacheStep
  <2>5. QED
    BY <1>1, <2>1, <2>2, <2>3, <2>4 DEF Next
<1>2. QED
  BY <1>1, Initially, PTL DEF Spec

(* Visits and the cache always have the types of TypeOK, and the cache     *)
(* never outgrows its size.                                                *)
THEOREM TypeCorrect == Spec => []TypeOK
BY Invariance, IndInvTyped, PTL

(* Whoever asks gets what config, presets, limits and files of one commit  *)
(* make of the wish, whatever is pushed; files are missing only if a       *)
(* listing with the same criteria was cut short or the criteria are not    *)
(* tidy (buildSelection, TreeDB.Search).                                   *)
THEOREM OneCommitAnswers == Spec => []SelectionIsOfCommit
BY Invariance, OfTheCommit, PTL

(* However often it is followed, a link leads to the files that its        *)
(* preview showed, or these are too large by now: if the link has no other *)
(* way to read the wish and no listing was cut short (buildDownloadURL,    *)
(* handleDownload, handlePrivateDownload).                                 *)
THEOREM LinksKeepTheirFiles == Spec => []LinkKeepsSelection
BY Invariance, OfTheLink, PTL
-----------------------------------------------------------------------------
(* The promise of SnapshotSelection *)

SnapshotVars == <<commits, RequestMap, LinksMap, TornMap>>

LEMMA NoneIsNothing == None \notin Branch /\ None \notin Sealed /\ None \notin CommitId
BY SelectionAssumption, Numbers DEF SelectionAssumption, Sealed

(* What there is to see of a visitor changes with the visitor's request.   *)
LEMMA SeenStep ==
  ASSUME visit \in [Visitor -> Request], NEW v \in Visitor, NEW new,
         visit' = [visit EXCEPT ![v] = new]
  PROVE  RequestMap' = [RequestMap EXCEPT ![v] = Seen(new)] /\ RequestMap[v] = Seen(visit[v])
<1>1. \A w \in Visitor : visit'[w] = IF w = v THEN new ELSE visit[w]
  OBVIOUS
<1>2. RequestMap' = [w \in Visitor |-> Seen(visit'[w])]
  BY DEF RequestMap, Seen
<1>3. \A w \in Visitor : Seen(visit'[w]) = IF w = v THEN Seen(new) ELSE Seen(visit[w])
  BY <1>1
<1> HIDE DEF Seen
<1>4. QED
  BY <1>2, <1>3 DEF RequestMap

(* The torn listings, of any manifests and requests                        *)
TornOf(ms, vs) ==
  {m.key : m \in {n \in ms : n.cut}}
    \cup {<<vs[v].commit, vs[v].criteria>> :
            v \in {w \in Visitor : vs[w].stage = "sizes" /\ vs[w].cut}}

LEMMA TornNow ==
  TornMap = TornOf(manifests, visit) /\ TornMap' = TornOf(manifests', visit')
BY DEF TornMap, TornOf, CacheKey, Stage

LEMMA TornIs ==
  ASSUME NEW ms, NEW vs, NEW key
  PROVE  key \in TornOf(ms, vs) <=>
           \/ \E m \in ms : m.cut /\ m.key = key
           \/ \E w \in Visitor : /\ vs[w].stage = "sizes" /\ vs[w].cut
                                 /\ key = <<vs[w].commit, vs[w].criteria>>
BY DEF TornOf

(* Lemma: a request that has no cut listing before or after a step has no  *)
(* part in what is torn.                                                   *)
LEMMA TornStays ==
  ASSUME visit \in [Visitor -> Request], NEW v \in Visitor, NEW new,
         visit' = [visit EXCEPT ![v] = new], UNCHANGED manifests,
         visit[v].stage # "sizes", new.stage = "sizes" => ~new.cut
  PROVE  TornMap' = TornMap
<1>1. visit'[v] = new /\ \A w \in Visitor \ {v} : visit'[w] = visit[w]
  OBVIOUS
<1>2. \A w \in Visitor :
        visit'[w].stage = "sizes" /\ visit'[w].cut => visit'[w] = visit[w]
  BY <1>1
<1>3. \A w \in Visitor :
        visit[w].stage = "sizes" /\ visit[w].cut => visit'[w] = visit[w]
  BY <1>1
<1>4. ASSUME NEW key
      PROVE  key \in TornOf(manifests', visit') <=> key \in TornOf(manifests, visit)
  <2>1. ASSUME NEW w \in Visitor
        PROVE  /\ visit'[w].stage = "sizes" /\ visit'[w].cut
               /\ key = <<visit'[w].commit, visit'[w].criteria>>
               <=> /\ visit[w].stage = "sizes" /\ visit[w].cut
                   /\ key = <<visit[w].commit, visit[w].criteria>>
    BY <1>2, <1>3
  <2> DEFINE InCache(ms) == \E m \in ms : m.cut /\ m.key = key
             InUse(vs) == \E w \in Visitor : /\ vs[w].stage = "sizes" /\ vs[w].cut
                                            /\ key = <<vs[w].commit, vs[w].criteria>>
  <2>2. InUse(visit') <=> InUse(visit)
    BY <2>1
  <2>3. \A ms, vs : key \in TornOf(ms, vs) <=> InCache(ms) \/ InUse(vs)
    BY TornIs
  <2> HIDE DEF InCache, InUse
  <2>4. QED
    BY <2>2, <2>3
<1>5. QED
  BY <1>4, TornNow DEF TornOf

(* Lemma: what others do with their manifests                              *)
LEMMA TornShrinks ==
  ASSUME \A w \in Visitor : visit'[w].stage = "sizes" => visit'[w] = visit[w],
         \A m \in manifests' : m.cut => m.key \in TornMap
  PROVE  TornMap' \subseteq TornMap
<1> SUFFICES ASSUME NEW key, key \in TornOf(manifests', visit')
             PROVE  key \in TornOf(manifests, visit)
  BY TornNow
<1>1. CASE \E m \in manifests' : m.cut /\ m.key = key
  BY <1>1, TornNow
<1>2. CASE \E w \in Visitor : /\ visit'[w].stage = "sizes" /\ visit'[w].cut
                              /\ key = <<visit'[w].commit, visit'[w].criteria>>
  BY <1>2, TornIs
<1>3. QED
  BY <1>1, <1>2, TornIs

LEMMA SnapshotBegin ==
  ASSUME Init PROVE Snapshot!Init
<1>1. \A b \in Branch : Len(commits[b]) = 1
  BY DEF Init, InitCommits
<1>2. Seen(NoVisit) = Snapshot!NoRequest
  BY NoneIsNothing DEF Seen, NoVisit, Snapshot!NoRequest, Snapshot!Waiting
<1>3. RequestMap = [v \in Visitor |-> Snapshot!NoRequest]
  BY <1>2 DEF Init, RequestMap
<1>4. LinksMap = [v \in Visitor |-> {}]
  BY DEF Init, LinksMap
<1>5. TornMap = {}
  BY DEF Init, TornMap, Stage, NoVisit
<1>6. QED
  BY <1>1, <1>3, <1>4, <1>5 DEF Snapshot!Init

LEMMA SnapshotPush ==
  ASSUME IndInv, Others
  PROVE  \E b \in Branch : Snapshot!Push(b)
<1>1. PICK b \in Branch, files \in Tree, config \in Config \cup {None} :
        Push(b, config, files, None)
  BY DEF Others, PushOther
<1> DEFINE new == [config |-> config, files |-> files, author |-> None]
           q == commits[b]
<1>2. commits \in [Branch -> Seq(Written)] /\ q \in Seq(Written)
  BY DEF IndInv, CommitsInv
<1>3. new \in Written
  BY DEF Written
<1>4. commits' = [commits EXCEPT ![b] = Append(q, new)]
  BY <1>1 DEF Push
<1> HIDE DEF new, q
<1>5. Len(Append(q, new)) = Len(q) + 1 /\ Append(q, new)[Len(q) + 1] = new
  BY <1>2, <1>3
<1>6. commits'[b] = Append(q, new)
  BY <1>2, <1>4
<1>7. UNCHANGED <<RequestMap, LinksMap, TornMap>>
  BY DEF Others, RequestMap, LinksMap, Seen, TornMap, Stage, CacheKey
<1>8. QED
  BY <1>4, <1>5, <1>6, <1>7 DEF Snapshot!Push, q

LEMMA SeenAnswer ==
  ASSUME IndInv, NEW v \in Visitor, NEW status, NEW entries, NEW cut,
         Answer(v, <<status, entries>>, cut), UNCHANGED <<commits, link>>
  PROVE  /\ Snapshot!Answered(v, <<status, entries>>)
         /\ RequestMap'[v].answer = <<status, entries>>
<1> DEFINE now == visit[v]
           new == [now EXCEPT !.stage = "answered", !.status = status,
                              !.entries = entries, !.cut = cut]
<1>1. now \in Request /\ visit \in [Visitor -> Request]
  BY RequestNow
<1>2. visit' = [visit EXCEPT ![v] = new]
  BY <1>1 DEF Answer
<1>3. /\ new.stage = "answered" /\ new.wish = now.wish /\ new.ref = now.ref
      /\ new.commit = now.commit /\ new.status = status /\ new.entries = entries
  BY <1>1 DEF Request
<1> HIDE DEF new
<1>4. RequestMap' = [RequestMap EXCEPT ![v] = Seen(new)] /\ RequestMap[v] = Seen(now)
  BY <1>1, <1>2, SeenStep
<1>5. Seen(new) = [stage |-> "answered", wish |-> now.wish, branch |-> now.ref,
                   commit |-> now.commit, answer |-> <<status, entries>>]
  BY <1>3 DEF Seen
<1>6. PICK stage, answer :
        Seen(now) = [stage |-> stage, wish |-> now.wish, branch |-> now.ref,
                     commit |-> now.commit, answer |-> answer]
  BY DEF Seen
<1>7. Seen(new) = [Seen(now) EXCEPT !.stage = "answered", !.answer = <<status, entries>>]
  <2> DEFINE r == Seen(now)
             q == Seen(new)
  <2> HIDE DEF now, r, q
  <2>1. r = [stage |-> stage, wish |-> now.wish, branch |-> now.ref,
             commit |-> now.commit, answer |-> answer]
    BY <1>6 DEF r
  <2>2. q = [stage |-> "answered", wish |-> now.wish, branch |-> now.ref,
             commit |-> now.commit, answer |-> <<status, entries>>]
    BY <1>5 DEF q
  <2>3. [r EXCEPT !.stage = "answered"]
        = [stage |-> "answered", wish |-> now.wish, branch |-> now.ref,
           commit |-> now.commit, answer |-> answer]
    BY <2>1
  <2>4. [[stage |-> "answered", wish |-> now.wish, branch |-> now.ref,
          commit |-> now.commit, answer |-> answer] EXCEPT !.answer = <<status, entries>>]
        = q
    BY <2>2
  <2>5. q = [r EXCEPT !.stage = "answered", !.answer = <<status, entries>>]
    BY <2>3, <2>4
  <2>6. QED
    BY <2>5 DEF r, q
<1>8. RequestMap'[v].answer = <<status, entries>>
  <2>1. RequestMap'[v] = Seen(new)
    BY <1>4 DEF RequestMap
  <2>2. QED
    BY <1>5, <2>1
<1> HIDE DEF Seen
<1>9. RequestMap' = [RequestMap EXCEPT ![v].stage = "answered",
                                       ![v].answer = <<status, entries>>]
  BY <1>4, <1>7 DEF RequestMap
<1>10. LinksMap' = LinksMap
  BY DEF LinksMap
<1>11. QED
  BY <1>8, <1>9, <1>10 DEF Snapshot!Answered

(* Lemma: what there is to see of a request that has its commit            *)
LEMMA Settled ==
  ASSUME IndInv, NEW v \in Visitor, Underway(visit[v]), visit[v].stage # "answered"
  PROVE  /\ RequestMap[v].stage = "settled" /\ RequestMap[v].commit = visit[v].commit
         /\ RequestMap[v].wish = visit[v].wish /\ visit[v].commit # None
         /\ Snapshot!Content(visit[v].commit) = At(visit[v].commit)
         /\ Listing(visit[v]) => Snapshot!Listing(RequestMap[v]) = {CacheKey(v)}
<1> DEFINE now == visit[v]
<1>1. now \in Request /\ GoodVisit(now, link[v])
  BY RequestNow
<1>2. now.commit # None
  BY <1>1, NoneIsNothing DEF GoodVisit, There
<1>3. now.stage \notin {"none", "answered"}
  BY DEF Underway, Listing, Replied
<1>4. /\ RequestMap[v].stage = "settled" /\ RequestMap[v].commit = now.commit
      /\ RequestMap[v].wish = now.wish
  BY <1>2, <1>3 DEF RequestMap, Seen
<1>5. Snapshot!Content(now.commit) = At(now.commit)
  BY DEF Snapshot!Content, At
<1>6. ASSUME Listing(now) PROVE Snapshot!Listing(RequestMap[v]) = {CacheKey(v)}
  <2>1. now.criteria \in Query(At(now.commit), now.wish)
    BY <1>1, <1>6 DEF GoodVisit
  <2>2. Query(At(now.commit), now.wish) = {now.criteria}
    BY <2>1 DEF Query
  <2>3. Snapshot!Listing(RequestMap[v])
          = {<<now.commit, query>> : query \in Query(At(now.commit), now.wish)}
    BY <1>4, <1>5 DEF Snapshot!Listing
  <2>4. QED
    BY <2>2, <2>3 DEF CacheKey
<1>7. QED
  BY <1>2, <1>4, <1>5, <1>6

(* Lemma: a request that has its commit gets what that commit answers.     *)
LEMMA SeenPromise ==
  ASSUME IndInv, IndInv', NEW v \in Visitor, NEW status, NEW entries, NEW cut \in BOOLEAN,
         Underway(visit[v]), visit[v].stage # "answered",
         Answer(v, <<status, entries>>, cut), status \notin {"failed", "expired"},
         UNCHANGED <<commits, link>>, TornMap' \subseteq TornMap,
         cut => Listing(visit[v]) /\ CacheKey(v) \in TornMap
  PROVE  Snapshot!Answer(v)
<1> DEFINE now == visit[v]
           torn == Snapshot!Listing(RequestMap[v]) \cap TornMap # {}
<1>1. now \in Request /\ visit \in [Visitor -> Request]
  BY RequestNow
<1>2. /\ visit'[v].stage = "answered" /\ visit'[v].status = status
      /\ visit'[v].entries = entries /\ visit'[v].commit = now.commit
      /\ visit'[v].wish = now.wish /\ visit'[v].cut = cut
  BY <1>1 DEF Answer, Request
<1>3. /\ RequestMap[v].stage = "settled" /\ RequestMap[v].commit = now.commit
      /\ RequestMap[v].wish = now.wish
      /\ Snapshot!Content(now.commit) = At(now.commit)
      /\ Listing(now) => Snapshot!Listing(RequestMap[v]) = {CacheKey(v)}
  BY Settled
<1>4. <<status, entries>> \in Answers(At(now.commit), now.wish, cut)
  <2>1. GoodVisit(visit[v], link[v])'
    BY DEF IndInv
  <2>2. Replied(visit'[v])
    BY <1>2 DEF Replied
  <2>3. <<visit'[v].status, visit'[v].entries>>
          \in Answers(At(visit[v].commit)', visit'[v].wish, visit'[v].cut)
    BY <2>1, <2>2 DEF GoodVisit, Replied
  <2>4. At(visit[v].commit)' = At(now.commit)
    BY <1>2 DEF At
  <2>5. QED
    BY <1>2, <2>3, <2>4
<1>5. cut => torn
  BY <1>3
<1>6. torn \in BOOLEAN
  OBVIOUS
<1> HIDE DEF torn
<1>7. <<status, entries>> \in Answers(At(now.commit), now.wish, torn)
  BY <1>4, <1>5, <1>6, AnswersGrow
<1>8. /\ Snapshot!Answered(v, <<status, entries>>)
      /\ RequestMap'[v].answer = <<status, entries>>
  BY SeenAnswer
<1>9. Snapshot!Answered(v, RequestMap'[v].answer)
  BY <1>8
<1>10. RequestMap'[v].answer
         \in Answers(Snapshot!Content(RequestMap[v].commit), RequestMap[v].wish, torn)
  BY <1>3, <1>7, <1>8
<1>11. QED
  BY <1>3, <1>9, <1>10 DEF Snapshot!Answer, Snapshot!Stage, torn

LEMMA SnapshotFail ==
  ASSUME IndInv, NEW v \in Visitor
  PROVE  /\ Fail(v) => Snapshot!Fail(v)
         /\ FollowExpired(v) => Snapshot!FollowExpired(v)
<1> DEFINE now == visit[v]
<1>1. now \in Request /\ visit \in [Visitor -> Request]
  BY RequestNow
<1>2. ASSUME NEW status, Answer(v, <<status, NoEntries>>, FALSE),
             now.stage # "sizes", UNCHANGED <<commits, link, manifests>>
      PROVE  UNCHANGED TornMap /\ Snapshot!Answered(v, <<status, NoEntries>>)
  <2> DEFINE new == [now EXCEPT !.stage = "answered", !.status = status,
                                !.entries = NoEntries, !.cut = FALSE]
  <2>1. visit' = [visit EXCEPT ![v] = new] /\ new.stage # "sizes"
    BY <1>1, <1>2 DEF Answer, Request
  <2> HIDE DEF new
  <2>2. TornMap' = TornMap
    BY <1>1, <1>2, <2>1, TornStays
  <2>3. QED
    BY <1>2, <2>2, SeenAnswer
<1>3. ASSUME Fail(v) PROVE Snapshot!Fail(v)
  <2>1. RequestMap[v].stage \in {"asked", "settled"}
    BY <1>3 DEF Fail, RequestMap, Seen
  <2>2. UNCHANGED TornMap /\ Snapshot!Answered(v, <<"failed", NoEntries>>)
    BY <1>2, <1>3 DEF Fail
  <2>3. QED
    BY <2>1, <2>2 DEF Snapshot!Fail, Snapshot!Stage
<1>4. ASSUME FollowExpired(v) PROVE Snapshot!FollowExpired(v)
  <2>1. RequestMap[v].stage = "none"
    BY <1>4 DEF FollowExpired, RequestMap, Seen, Stage
  <2>2. \E seen \in LinksMap[v] : seen.sealed
    <3>1. link[v] \in Sealed /\ link[v].private
      BY <1>4, RequestNow DEF FollowExpired
    <3>2. LinksMap[v] = {[commit |-> link[v].commit, wish |-> link[v].wish,
                          sealed |-> link[v].private]}
      BY <1>4 DEF FollowExpired, LinksMap
    <3>3. QED
      BY <3>1, <3>2
  <2>3. UNCHANGED TornMap /\ Snapshot!Answered(v, <<"expired", NoEntries>>)
    BY <1>2, <1>4 DEF FollowExpired, Stage
  <2>4. QED
    BY <2>1, <2>2, <2>3 DEF Snapshot!FollowExpired, Snapshot!Stage
<1>5. QED
  BY <1>3, <1>4

LEMMA SnapshotAsk ==
  ASSUME IndInv, NEW v \in Visitor, Ask(v) PROVE Snapshot!Ask(v)
<1>1. PICK wish \in Wish, b \in Branch :
        visit' = [visit EXCEPT ![v] =
          [NoVisit EXCEPT !.stage = "resolve", !.wish = wish, !.ref = b]]
  BY Zenon DEF Ask
<1> DEFINE new == [NoVisit EXCEPT !.stage = "resolve", !.wish = wish, !.ref = b]
<1>2. /\ visit \in [Visitor -> Request] /\ Stage(v, "none") /\ link[v] = None
      /\ UNCHANGED <<commits, link, manifests>>
  BY RequestNow DEF Ask
<1>3. /\ new.stage = "resolve" /\ new.wish = wish /\ new.ref = b /\ new.commit = None
  BY DEF NoVisit
<1>4. visit' = [visit EXCEPT ![v] = new]
  BY <1>1
<1> HIDE DEF new
<1>5. Seen(new) = Snapshot!Waiting("asked", wish, b, None)
  BY <1>3 DEF Seen, Snapshot!Waiting
<1>6. RequestMap' = [RequestMap EXCEPT ![v] = Snapshot!Waiting("asked", wish, b, None)]
  <2>1. RequestMap' = [RequestMap EXCEPT ![v] = Seen(new)]
    BY <1>2, <1>4, SeenStep
  <2>2. QED
    BY <2>1, <1>5
<1>7. RequestMap[v].stage = "none" /\ LinksMap[v] = {} /\ LinksMap' = LinksMap
  BY <1>2 DEF RequestMap, Seen, Stage, LinksMap
<1>8. TornMap' = TornMap
  BY <1>2, <1>3, <1>4, TornStays DEF Stage
<1>9. QED
  BY <1>2, <1>6, <1>7, <1>8 DEF Snapshot!Ask, Snapshot!Stage

LEMMA SnapshotSettle ==
  ASSUME IndInv, NEW v \in Visitor, Resolve(v)
  PROVE  Snapshot!Settle(v) \/ UNCHANGED SnapshotVars
<1> DEFINE now == visit[v]
           b == now.ref
           commit == IF now.commit # None THEN now.commit ELSE Tip(b)
           new == [now EXCEPT !.stage = "config", !.commit = commit]
<1>1. /\ now \in Request /\ visit \in [Visitor -> Request] /\ GoodVisit(now, link[v])
      /\ CommitsInv
  BY RequestNow
<1>2. /\ now.stage = "resolve" /\ visit' = [visit EXCEPT ![v] = new]
      /\ UNCHANGED <<commits, link, manifests>>
  BY <1>1 DEF Resolve, Stage
<1>3. LinksMap' = LinksMap
  BY <1>2 DEF LinksMap
<1>4. /\ new.stage = "config" /\ new.wish = now.wish /\ new.ref = now.ref
      /\ new.commit = commit
  BY <1>1 DEF Request
<1> HIDE DEF new
<1>5. RequestMap' = [RequestMap EXCEPT ![v] = Seen(new)] /\ RequestMap[v] = Seen(now)
  BY <1>1, <1>2, SeenStep
<1>6. TornMap' = TornMap
  BY <1>1, <1>2, <1>4, TornStays
<1> DEFINE record(s, c) == [stage |-> s, wish |-> now.wish, branch |-> b,
                            commit |-> c, answer |-> None]
<1>7. CASE now.commit # None
  <2>1. Seen(new) = Seen(now)
    BY <1>2, <1>4, <1>7 DEF Seen
  <2>2. RequestMap' = RequestMap
    BY <1>5, <2>1 DEF RequestMap
  <2>3. QED
    BY <1>2, <1>3, <1>6, <2>2 DEF SnapshotVars
<1>8. CASE now.commit = None
  <2>1. b \in Branch
    BY <1>1, <1>2, <1>8 DEF GoodVisit
  <2>2. commit = Tip(b) /\ commit # None
    <3>1. There(Tip(b))
      BY <1>1, <2>1, TipIsThere
    <3>2. QED
      BY <1>8, <3>1, NoneIsNothing DEF There
  <2>3. Seen(now) = record("asked", None)
    BY <1>2, <1>8 DEF Seen
  <2>4. Seen(new) = record("settled", commit)
    BY <1>4, <2>2 DEF Seen
  <2> DEFINE r == Seen(now)
             q == Seen(new)
  <2> HIDE DEF now, b, r, q, commit
  <2>5. [r EXCEPT !.stage = "settled"] = record("settled", None)
    BY <2>3 DEF r
  <2>6. [record("settled", None) EXCEPT !.commit = commit] = record("settled", commit)
    OBVIOUS
  <2>7. q = [r EXCEPT !.stage = "settled", !.commit = commit]
    BY <2>4, <2>5, <2>6 DEF q
  <2>8. r.stage = "asked" /\ r.branch = b
    BY <2>3 DEF r
  <2>9. commit = <<b, Len(commits[b])>>
    BY <2>2 DEF Tip
  <2> HIDE DEF Seen
  <2>10. RequestMap' = [RequestMap EXCEPT ![v].stage = "settled",
                         ![v].commit = <<RequestMap[v].branch,
                                         Len(commits[RequestMap[v].branch])>>]
    BY <1>5, <2>7, <2>8, <2>9 DEF r, q, RequestMap
  <2>11. Snapshot!Settle(v)
    BY <1>2, <1>3, <1>5, <1>6, <2>8, <2>10 DEF r, Snapshot!Settle, Snapshot!Stage
  <2>12. QED
    BY <2>11
<1>9. QED
  BY <1>7, <1>8

(* Lemma: nothing is to be seen when a request that has its commit goes on.*)
LEMMA SeenGoesOn ==
  ASSUME IndInv, NEW v \in Visitor, Underway(visit[v]), visit[v].stage # "answered",
         NEW new, visit' = [visit EXCEPT ![v] = new], UNCHANGED link,
         new.stage \in {"list", "files", "sizes"}, new.wish = visit[v].wish,
         new.ref = visit[v].ref, new.commit = visit[v].commit
  PROVE  RequestMap' = RequestMap /\ LinksMap' = LinksMap
<1> DEFINE now == visit[v]
<1>1. visit \in [Visitor -> Request] /\ now.commit # None
  BY RequestNow, Settled
<1>2. now.stage \notin {"none", "answered"} /\ new.stage \notin {"none", "answered"}
  BY DEF Underway, Listing, Replied
<1>3. Seen(new) = Seen(now)
  BY <1>1, <1>2 DEF Seen
<1>4. RequestMap' = [RequestMap EXCEPT ![v] = Seen(new)] /\ RequestMap[v] = Seen(now)
  BY <1>1, SeenStep
<1>5. QED
  BY <1>3, <1>4 DEF RequestMap, LinksMap

LEMMA SnapshotConfig ==
  ASSUME IndInv, IndInv', NEW v \in Visitor, ReadConfig(v)
  PROVE  Snapshot!Answer(v) \/ UNCHANGED SnapshotVars
<1> DEFINE now == visit[v]
           objection == Objection(Loaded(now.commit), now.wish)
           criteria == Criteria(Loaded(now.commit), now.wish)
<1>1. /\ now \in Request /\ visit \in [Visitor -> Request]
      /\ now.stage = "config" /\ UNCHANGED <<commits, link, manifests>>
  BY RequestNow DEF ReadConfig, Stage
<1>2. Underway(now) /\ now.stage # "answered"
  BY <1>1 DEF Underway
<1>3. CASE objection = "ok"
  <2> DEFINE new == [now EXCEPT !.stage = "list", !.criteria = criteria]
  <2>1. visit' = [visit EXCEPT ![v] = new]
    BY <1>1, <1>3 DEF ReadConfig
  <2> HIDE DEF criteria
  <2>2. /\ new.stage = "list" /\ new.wish = now.wish /\ new.ref = now.ref
        /\ new.commit = now.commit
    BY <1>1 DEF Request
  <2> HIDE DEF new
  <2>3. RequestMap' = RequestMap /\ LinksMap' = LinksMap
    BY <1>1, <1>2, <2>1, <2>2, SeenGoesOn
  <2>4. TornMap' = TornMap
    BY <1>1, <2>1, <2>2, TornStays
  <2>5. QED
    BY <1>1, <2>3, <2>4 DEF SnapshotVars
<1>4. CASE objection # "ok"
  <2> DEFINE new == [now EXCEPT !.stage = "answered", !.status = objection,
                                !.entries = NoEntries, !.cut = FALSE]
  <2>1. Answer(v, <<objection, NoEntries>>, FALSE)
    BY <1>4 DEF ReadConfig
  <2>2. objection \notin {"failed", "expired"}
    BY ObjectionIs
  <2> HIDE DEF objection
  <2>3. visit' = [visit EXCEPT ![v] = new] /\ new.stage = "answered"
    BY <1>1, <2>1 DEF Answer, Request
  <2> HIDE DEF new
  <2>4. TornMap' = TornMap
    BY <1>1, <2>3, TornStays
  <2> DEFINE cut == FALSE
  <2>5. cut \in BOOLEAN /\ ~cut /\ Answer(v, <<objection, NoEntries>>, cut)
    BY <2>1
  <2> HIDE DEF cut
  <2>6. QED
    BY <1>1, <1>2, <2>2, <2>4, <2>5, SeenPromise
<1>5. QED
  BY <1>3, <1>4

(* Lemma: the answer with a listing, which is torn if it was cut short     *)
LEMMA SeenListing ==
  ASSUME IndInv, IndInv', NEW v \in Visitor, NEW entries, NEW cut \in BOOLEAN,
         Listing(visit[v]), Answer(v, ReplyTo(v, entries), cut),
         UNCHANGED <<commits, link>>, TornMap' \subseteq TornMap,
         cut => CacheKey(v) \in TornMap
  PROVE  Snapshot!Answer(v)
<1>1. Underway(visit[v]) /\ visit[v].stage # "answered"
  BY DEF Underway, Listing
<1>2. PICK status \in {"ok", "limit"} : \E some : ReplyTo(v, entries) = <<status, some>>
  BY ReplyIs DEF ReplyTo
<1>3. PICK some : ReplyTo(v, entries) = <<status, some>>
  BY <1>2
<1>4. Answer(v, <<status, some>>, cut)
  BY <1>3
<1>5. QED
  BY <1>1, <1>4, SeenPromise

LEMMA SnapshotHit ==
  ASSUME IndInv, IndInv', NEW v \in Visitor, HitManifest(v) PROVE Snapshot!Answer(v)
<1>1. /\ Listing(visit[v]) /\ UNCHANGED <<commits, link, manifests>>
      /\ visit[v].stage = "list"
  BY DEF HitManifest, Stage, Listing
<1>2. PICK m \in manifests : m.key = CacheKey(v) /\ Answer(v, ReplyTo(v, m.entries), m.cut)
  BY DEF HitManifest, Cached
<1>3. m.cut \in BOOLEAN
  BY <1>2 DEF IndInv, CacheInv, ManifestInv, Stored
<1>4. m.cut => CacheKey(v) \in TornMap
  BY <1>2, TornIs, TornNow
<1>5. TornMap' = TornMap
  <2>1. PICK reply : Answer(v, reply, m.cut)
    BY <1>2
  <2>2. visit[v] \in Request /\ visit \in [Visitor -> Request]
    BY RequestNow
  <2> DEFINE new == [visit[v] EXCEPT !.stage = "answered", !.status = reply[1],
                                     !.entries = reply[2], !.cut = m.cut]
  <2>3. visit' = [visit EXCEPT ![v] = new] /\ new.stage = "answered"
    BY <2>1, <2>2 DEF Answer, Request
  <2> HIDE DEF new
  <2>4. QED
    BY <1>1, <2>2, <2>3, TornStays
<1>6. QED
  BY <1>1, <1>2, <1>3, <1>4, <1>5, SeenListing

LEMMA SnapshotMiss ==
  ASSUME IndInv, NEW v \in Visitor, MissManifest(v) PROVE UNCHANGED SnapshotVars
<1> DEFINE now == visit[v]
           new == [now EXCEPT !.stage = "files"]
<1>1. /\ now \in Request /\ visit \in [Visitor -> Request]
      /\ Underway(now) /\ now.stage = "list"
      /\ UNCHANGED <<commits, link, manifests>> /\ visit' = [visit EXCEPT ![v] = new]
  BY RequestNow DEF MissManifest, Stage, Underway, Listing
<1>2. /\ new.stage = "files" /\ new.wish = now.wish /\ new.ref = now.ref
      /\ new.commit = now.commit
  BY <1>1 DEF Request
<1> HIDE DEF new
<1>3. RequestMap' = RequestMap /\ LinksMap' = LinksMap
  BY <1>1, <1>2, SeenGoesOn
<1>4. TornMap' = TornMap
  BY <1>1, <1>2, TornStays
<1>5. QED
  BY <1>1, <1>3, <1>4 DEF SnapshotVars

(* Lemma: a listing that is cut short is a tear.                           *)
LEMMA SnapshotList ==
  ASSUME IndInv, NEW v \in Visitor
  PROVE  /\ ListFiles(v) => UNCHANGED SnapshotVars
         /\ CutListing(v) => Snapshot!Tear(v)
<1> DEFINE now == visit[v]
<1>1. now \in Request /\ visit \in [Visitor -> Request]
  BY RequestNow
<1>2. ASSUME NEW part, NEW cut, Listed(v, part, cut)
      PROVE  \E new : /\ visit' = [visit EXCEPT ![v] = new]
                      /\ new.stage = "sizes" /\ new.cut = cut
                      /\ new.commit = now.commit /\ new.criteria = now.criteria
                      /\ RequestMap' = RequestMap /\ LinksMap' = LinksMap
                      /\ UNCHANGED <<commits, manifests>> /\ now.stage = "files"
  <2> DEFINE new == [now EXCEPT !.stage = "sizes", !.entries = Sized(part, {}),
                                !.cut = cut]
  <2>1. /\ visit' = [visit EXCEPT ![v] = new] /\ UNCHANGED <<commits, link, manifests>>
        /\ now.stage = "files"
    BY <1>1, <1>2 DEF Listed, Stage
  <2>2. /\ new.stage = "sizes" /\ new.cut = cut /\ new.wish = now.wish
        /\ new.ref = now.ref /\ new.commit = now.commit /\ new.criteria = now.criteria
    BY <1>1 DEF Request
  <2> HIDE DEF new
  <2>3. Underway(now) /\ now.stage # "answered"
    BY <2>1 DEF Underway, Listing
  <2>4. RequestMap' = RequestMap /\ LinksMap' = LinksMap
    BY <2>1, <2>2, <2>3, SeenGoesOn
  <2>5. QED
    BY <2>1, <2>2, <2>4
<1>3. ASSUME ListFiles(v) PROVE UNCHANGED SnapshotVars
  <2>1. PICK new : /\ visit' = [visit EXCEPT ![v] = new] /\ ~new.cut
                   /\ RequestMap' = RequestMap /\ LinksMap' = LinksMap
                   /\ UNCHANGED <<commits, manifests>> /\ now.stage = "files"
    BY <1>2, <1>3 DEF ListFiles
  <2>2. TornMap' = TornMap
    BY <1>1, <2>1, TornStays
  <2>3. QED
    BY <2>1, <2>2 DEF SnapshotVars
<1>4. ASSUME CutListing(v) PROVE Snapshot!Tear(v)
  <2>1. PICK part : Listed(v, part, TRUE)
    BY <1>4 DEF CutListing
  <2>2. PICK new : /\ visit' = [visit EXCEPT ![v] = new]
                   /\ new.stage = "sizes" /\ new.cut
                   /\ new.commit = now.commit /\ new.criteria = now.criteria
                   /\ RequestMap' = RequestMap /\ LinksMap' = LinksMap
                   /\ UNCHANGED <<commits, manifests>> /\ now.stage = "files"
    BY <1>2, <2>1
  <2>3. /\ visit'[v] = new /\ \A w \in Visitor \ {v} : visit'[w] = visit[w]
    BY <1>1, <2>2
  <2>4. ASSUME NEW key
        PROVE  key \in TornOf(manifests', visit') <=>
                 key \in TornOf(manifests, visit) \/ key = CacheKey(v)
    <3>1. \A w \in Visitor \ {v} :
            /\ visit'[w].stage = "sizes" /\ visit'[w].cut
            /\ key = <<visit'[w].commit, visit'[w].criteria>>
            <=> /\ visit[w].stage = "sizes" /\ visit[w].cut
                /\ key = <<visit[w].commit, visit[w].criteria>>
      BY <2>3
    <3>2. /\ visit'[v].stage = "sizes" /\ visit'[v].cut /\ visit[v].stage # "sizes"
          /\ CacheKey(v) = <<visit'[v].commit, visit'[v].criteria>>
      BY <2>2, <2>3 DEF CacheKey
    <3>3. UNCHANGED manifests
      BY <2>2
    <3>4. QED
      BY <3>1, <3>2, <3>3, TornIs
  <2>5. TornMap' = TornMap \cup {CacheKey(v)}
    BY <2>4, TornNow
  <2>6. Listing(now) /\ Underway(now) /\ now.stage # "answered"
    BY <2>2 DEF Underway, Listing
  <2>7. /\ RequestMap[v].stage = "settled"
        /\ Snapshot!Listing(RequestMap[v]) = {CacheKey(v)}
    BY <2>6, Settled
  <2>8. QED
    BY <2>2, <2>5, <2>7 DEF Snapshot!Tear, Snapshot!Stage
<1>5. QED
  BY <1>3, <1>4

(* Lemma: a listing that is stored was torn before if it is.               *)
LEMMA SnapshotSizes ==
  ASSUME IndInv, IndInv', NEW v \in Visitor, ResolveSizes(v) PROVE Snapshot!Answer(v)
<1> DEFINE now == visit[v]
<1>1. /\ now \in Request /\ visit \in [Visitor -> Request]
      /\ now.stage = "sizes" /\ UNCHANGED <<commits, link>> /\ Listing(now)
  BY RequestNow DEF ResolveSizes, Stage, Listing
<1>2. PICK entries : /\ Answer(v, ReplyTo(v, entries), now.cut)
                     /\ StoreManifest(v, entries) \/ UNCHANGED manifests
  BY DEF ResolveSizes
<1>3. now.cut \in BOOLEAN
  BY <1>1 DEF Request
<1>4. now.cut => CacheKey(v) \in TornMap
  BY <1>1, TornIs, TornNow DEF CacheKey
<1>5. \A w \in Visitor : visit'[w].stage = "sizes" => visit'[w] = visit[w]
  <2>1. PICK reply : Answer(v, reply, now.cut)
    BY <1>2
  <2>2. visit'[v].stage = "answered" /\ \A w \in Visitor \ {v} : visit'[w] = visit[w]
    BY <1>1, <2>1 DEF Answer, Request
  <2>3. QED
    BY <2>2
<1>6. \A m \in manifests : m.cut => m.key \in TornMap
  BY TornIs, TornNow
<1>7. \A m \in manifests' : m.cut => m.key \in TornMap
  <2>1. CASE UNCHANGED manifests
    BY <1>6, <2>1
  <2>2. CASE StoreManifest(v, entries)
    <3> DEFINE new == [key |-> CacheKey(v), entries |-> entries, cut |-> now.cut]
    <3>1. \A m \in manifests' : m \in manifests \/ m = new
      BY <2>2 DEF StoreManifest
    <3>2. new.key = CacheKey(v) /\ new.cut = now.cut
      OBVIOUS
    <3> HIDE DEF new
    <3>3. QED
      BY <1>4, <1>6, <3>1, <3>2
  <2>3. QED
    BY <1>2, <2>1, <2>2
<1>8. TornMap' \subseteq TornMap
  BY <1>5, <1>7, TornShrinks
<1>9. QED
  BY <1>1, <1>2, <1>3, <1>4, <1>8, SeenListing

LEMMA SnapshotExpire == ASSUME Expire PROVE Snapshot!Forget
<1>1. /\ manifests' \subseteq manifests /\ UNCHANGED <<commits, visit, link>>
  BY DEF Expire
<1>2. \A m \in manifests' : m.cut => m.key \in TornMap
  BY <1>1, TornIs, TornNow
<1>3. TornMap' \subseteq TornMap
  BY <1>1, <1>2, TornShrinks
<1>4. UNCHANGED <<RequestMap, LinksMap>>
  BY <1>1 DEF RequestMap, LinksMap, Seen
<1>5. QED
  BY <1>1, <1>3, <1>4 DEF Snapshot!Forget

LEMMA SnapshotLink ==
  ASSUME IndInv, NEW v \in Visitor
  PROVE  /\ GetLink(v) => Snapshot!GetLink(v)
         /\ FollowLink(v) => Snapshot!FollowLink(v)
<1> DEFINE now == visit[v]
<1>1. /\ now \in Request /\ visit \in [Visitor -> Request]
      /\ link \in [Visitor -> Sealed \cup {None}]
  BY RequestNow
<1>2. ASSUME GetLink(v) PROVE Snapshot!GetLink(v)
  <2>1. /\ now.stage = "answered" /\ now.status = "ok" /\ link[v] = None
        /\ visit' = [visit EXCEPT ![v] = NoVisit] /\ UNCHANGED <<commits, manifests>>
    BY <1>2 DEF GetLink, Stage
  <2>2. PICK new \in {LinkTo(v), PrivateLinkTo(v)} : link' = [link EXCEPT ![v] = new]
    BY <1>2 DEF GetLink
  <2>3. Replied(now)
    BY <2>1 DEF Replied
  <2>4. /\ new \in Sealed /\ new.commit = now.commit /\ new.wish = now.wish
    BY <2>1, <2>3, NewLinkTyped
  <2>5. Seen(NoVisit) = Snapshot!NoRequest /\ NoVisit.stage = "none"
    BY NoneIsNothing DEF Seen, NoVisit, Snapshot!NoRequest, Snapshot!Waiting
  <2>6. RequestMap' = [RequestMap EXCEPT ![v] = Snapshot!NoRequest]
    BY <1>1, <2>1, <2>5, SeenStep
  <2>7. TornMap' = TornMap
    BY <1>1, <2>1, <2>5, TornStays
  <2>8. LinksMap' = [LinksMap EXCEPT ![v] =
          {[commit |-> now.commit, wish |-> now.wish, sealed |-> new.private]}]
    <3>1. new # None
      BY <2>4, NoneIsNothing
    <3>2. \A w \in Visitor : link'[w] = IF w = v THEN new ELSE link[w]
      BY <1>1, <2>2
    <3>3. QED
      BY <2>4, <3>1, <3>2 DEF LinksMap
  <2>9. new.private \in BOOLEAN
    BY <2>4 DEF Sealed
  <2>10. /\ RequestMap[v].stage = "answered"
         /\ RequestMap[v].answer = <<"ok", now.entries>>
         /\ RequestMap[v].commit = now.commit /\ RequestMap[v].wish = now.wish
         /\ LinksMap[v] = {}
    BY <2>1 DEF RequestMap, Seen, LinksMap
  <2>11. LinksMap' = [LinksMap EXCEPT ![v] =
           {[commit |-> RequestMap[v].commit, wish |-> RequestMap[v].wish,
             sealed |-> new.private]}]
    BY <2>8, <2>10
  <2>12. RequestMap[v].answer[1] = "ok"
    BY <2>10
  <2> HIDE DEF now
  <2>13. QED
    BY <2>1, <2>6, <2>7, <2>9, <2>10, <2>11, <2>12 DEF Snapshot!GetLink, Snapshot!Stage
<1>3. ASSUME FollowLink(v) PROVE Snapshot!FollowLink(v)
  <2> DEFINE wish == Reread(link[v].wish, link[v].private)
             new == [NoVisit EXCEPT !.stage = IF link[v].private THEN "config" ELSE "resolve",
                                    !.wish = wish, !.ref = link[v].ref,
                                    !.commit = link[v].commit]
             old == [commit |-> link[v].commit, wish |-> link[v].wish,
                     sealed |-> link[v].private]
  <2>1. /\ now.stage = "none" \/ now.stage = "answered"
        /\ link[v] # None /\ visit' = [visit EXCEPT ![v] = new]
        /\ UNCHANGED <<commits, link, manifests>>
    BY <1>3 DEF FollowLink, Stage
  <2>2. link[v] \in Sealed
    BY <1>1, <2>1
  <2>3. link[v].ref = None /\ link[v].commit # None
    BY <2>2, NoneIsNothing DEF Sealed
  <2>4. wish = Reread(old.wish, old.sealed)
    OBVIOUS
  <2> HIDE DEF wish
  <2>5. /\ new.stage \in {"config", "resolve"} /\ new.wish = wish
        /\ new.ref = None /\ new.commit = link[v].commit
    BY <2>3 DEF NoVisit
  <2> HIDE DEF new
  <2>6. Seen(new) = Snapshot!Waiting("settled", wish, None, old.commit)
    BY <2>3, <2>5, NoneIsNothing DEF Seen, Snapshot!Waiting
  <2>7. LinksMap[v] = {old} /\ LinksMap' = LinksMap
    BY <2>1 DEF LinksMap
  <2>8. RequestMap[v].stage = now.stage
    BY <2>1 DEF RequestMap, Seen
  <2>9. TornMap' = TornMap
    BY <1>1, <2>1, <2>5, TornStays
  <2> HIDE DEF old
  <2>10. RequestMap' = [RequestMap EXCEPT ![v] =
                          Snapshot!Waiting("settled", Reread(old.wish, old.sealed), None,
                                           old.commit)]
    BY <1>1, <2>1, <2>4, <2>6, SeenStep
  <2>11. QED
    BY <2>1, <2>7, <2>8, <2>9, <2>10 DEF Snapshot!FollowLink, Snapshot!Stage
<1>4. QED
  BY <1>2, <1>3

LEMMA SnapshotStep == IndInv /\ IndInv' /\ [Next]_vars => [Snapshot!Next]_SnapshotVars
<1> SUFFICES ASSUME IndInv, IndInv', [Next]_vars
             PROVE  Snapshot!Next \/ UNCHANGED SnapshotVars
  OBVIOUS
<1>1. CASE UNCHANGED vars
  BY <1>1 DEF vars, SnapshotVars, RequestMap, LinksMap, Seen, TornMap, CacheKey, Stage
<1>2. CASE Expire
  BY <1>2, SnapshotExpire DEF Snapshot!Next
<1>3. CASE Others
  BY <1>3, SnapshotPush DEF Snapshot!Next
<1>4. ASSUME NEW v \in Visitor, Visit(v)
      PROVE  Snapshot!Next \/ UNCHANGED SnapshotVars
  <2>1. CASE Ask(v) \/ Resolve(v) \/ Fail(v) \/ FollowExpired(v)
    BY <2>1, SnapshotAsk, SnapshotSettle, SnapshotFail DEF Snapshot!Next
  <2>2. CASE ReadConfig(v) \/ HitManifest(v) \/ MissManifest(v)
    BY <2>2, SnapshotConfig, SnapshotHit, SnapshotMiss DEF Snapshot!Next
  <2>3. CASE ListFiles(v) \/ CutListing(v) \/ ResolveSizes(v)
    BY <2>3, SnapshotList, SnapshotSizes DEF Snapshot!Next
  <2>4. CASE GetLink(v) \/ FollowLink(v)
    BY <2>4, SnapshotLink DEF Snapshot!Next
  <2>5. QED
    BY <1>4, <2>1, <2>2, <2>3, <2>4 DEF Visit
<1>5. QED
  BY <1>1, <1>2, <1>3, <1>4 DEF Next

(* Requests, caches, the filter in SQL, sizes, limits and whoever pushes   *)
(* come together to what SnapshotSelection says: one look at one commit    *)
(* that was the last of its branch while the request was made              *)
(* (buildSelection), links that stay with their commit (buildDownloadURL,  *)
(* handleDownload), and listings that are only torn by one who left.       *)
THEOREM KeepsSnapshot == Spec => ImplementsSnapshot
BY Invariance, SnapshotBegin, SnapshotStep, PTL
DEF Spec, ImplementsSnapshot, Snapshot!Spec, Snapshot!snapshotVars, SnapshotVars
=============================================================================
