----------------------------- MODULE Selection ------------------------------
(***************************************************************************)
(* What visitors get (src/internal/app/server.go): a preview resolves the  *)
(* ref, reads the config at the commit, lists and filters its files, asks  *)
(* for their sizes, and comes with a link that is followed some time       *)
(* later.  Others push meanwhile, and the visitors share the manifest      *)
(* cache.                                                                  *)
(*                                                                         *)
(* A file has the size that the tree lists, which is that of the pointer   *)
(* if the content is in LFS, and the size of its content.                  *)
(***************************************************************************)
EXTENDS RepoConfig, Filter

CONSTANTS
  Visitor,
  Wish,        (* what a visitor may ask for: a preset and ad-hoc criteria *)
  Parts(_),    (* a value of a query, split at its commas *)
  CacheSize    (* manifests that the cache holds *)

File == UNION Tree

Size == {f.listed : f \in File} \cup {f.size : f \in File}

(* What a listing has: files, each with a size *)
Entries == UNION {[part -> Size] : part \in SUBSET File}
NoEntries == [f \in {} |-> 0]

Value == [text : Seq(STRING), blank : BOOLEAN, odd : BOOLEAN, files : SUBSET File]

ASSUME SelectionAssumption ==
  /\ CacheSize \in Nat \ {0}
  /\ Size \subseteq Nat
  /\ \A f \in File : f.extensions \in Seq(STRING)
  /\ Wish \subseteq [preset : STRING,
                     adhoc : [include : SUBSET Value, exclude : SUBSET Value,
                              extensions : SUBSET Value, prefixes : SUBSET Value]]
  /\ None \notin Branch
  /\ None \notin [ref : {None}, commit : CommitId, wish : Wish, private : BOOLEAN,
                  entries : Entries, cut : BOOLEAN]

VARIABLES
  visit,      (* the request of a visitor *)
  link,       (* the link that came with a visitor's preview *)
  manifests   (* the manifest cache *)

vars == <<commits, visit, link, manifests>>

NoVisit == [stage |-> "none", wish |-> None, ref |-> None, commit |-> None,
            criteria |-> None, status |-> "pending", entries |-> NoEntries,
            cut |-> FALSE]

Status == {"pending", "ok", "preset", "adhoc", "limit", "expired", "failed"}
-----------------------------------------------------------------------------
(* What becomes of a wish in a link *)

Trimmed(v) == [v EXCEPT !.blank = FALSE]

(* What is left of the values of a list *)
Values(list) == {v \in {Trimmed(part) : part \in list} : v.text # <<>>}

Normalized(wish) ==
  [preset |-> TrimSpace(wish.preset),
   adhoc |-> [list \in DOMAIN wish.adhoc |-> Values(wish.adhoc[list])]]

(* handleDownload splits the values, collectQueryValues. *)
FromQuery(wish) ==
  Normalized([wish EXCEPT !.adhoc =
    [list \in DOMAIN wish.adhoc |-> UNION {Parts(v) : v \in wish.adhoc[list]}]])

(* A private link has its wish in JSON, of which no value is split.        *)
Reread(wish, private) == IF private THEN Normalized(wish) ELSE FromQuery(wish)

(* Wishes that a link has no other way to read                             *)
Plain(wish, private) ==
  /\ TrimSpace(wish.preset) = wish.preset
  /\ \A list \in DOMAIN wish.adhoc : \A v \in wish.adhoc[list] :
       ~v.blank /\ v.text # <<>> /\ (private \/ Parts(v) = {v})

Wishes == Wish \cup {Reread(wish, private) : wish \in Wish, private \in BOOLEAN}
-----------------------------------------------------------------------------
TypeOK ==
  /\ CommitsTyped
  /\ \A v \in Visitor :
       /\ visit[v].stage \in {"none", "resolve", "config", "list", "files", "sizes",
                             "answered"}
       /\ visit[v].wish \in Wishes \cup {None}
       /\ visit[v].commit \in CommitId \cup {None}
       /\ visit[v].status \in Status
       /\ (visit[v].status = "pending") = (visit[v].stage # "answered")
       /\ visit[v].entries \in Entries
  /\ Cardinality(manifests) <= CacheSize
  /\ \A m, n \in manifests : m.key = n.key => m = n

Init ==
  /\ InitCommits
  /\ visit = [v \in Visitor |-> NoVisit]
  /\ link = [v \in Visitor |-> None]
  /\ manifests = {}

Others ==
  /\ \E b \in Branch : PushOther(b)
  /\ UNCHANGED <<visit, link, manifests>>
-----------------------------------------------------------------------------
(* buildSelection *)

Stage(v, stage) == visit[v].stage = stage

(* Without a ref it is the default branch, as with that for the ref. *)
Ask(v) ==
  /\ Stage(v, "none") /\ link[v] = None
  /\ \E wish \in Wish, b \in Branch :
       visit' = [visit EXCEPT ![v] =
         [NoVisit EXCEPT !.stage = "resolve", !.wish = wish, !.ref = b]]
  /\ UNCHANGED <<commits, link, manifests>>

(* cut: whether the answer comes from a listing that was cut short         *)
Answer(v, reply, cut) ==
  visit' = [visit EXCEPT ![v] = [@ EXCEPT !.stage = "answered", !.status = reply[1],
                                          !.entries = reply[2], !.cut = cut]]

(* A call to Forgejo fails, or the listing, or the config is not valid.    *)
Fail(v) ==
  /\ visit[v].stage \in {"resolve", "config", "files"}
  /\ Answer(v, <<"failed", NoEntries>>, FALSE)
  /\ UNCHANGED <<commits, link, manifests>>

(* Variant: the commit of a branch is remembered from the first request.   *)
ResolveRemembered(v) ==
  /\ Stage(v, "resolve")
  /\ visit' = [visit EXCEPT ![v].stage = "config",
       ![v].commit = IF @ # None THEN @ ELSE <<visit[v].ref, 1>>]
  /\ UNCHANGED <<commits, link, manifests>>

(* A ref that is a commit is found as such, for no branch has that name. *)
Resolve(v) ==
  /\ Stage(v, "resolve")
  /\ visit' = [visit EXCEPT ![v].stage = "config",
       ![v].commit = IF @ # None THEN @ ELSE Tip(visit[v].ref)]
  /\ UNCHANGED <<commits, link, manifests>>

Preset(config, id) == {i \in DOMAIN config.presets : config.presets[i].id = id}

PresetCriteria(config, id) ==
  IF id = "" THEN NoCriteria
  ELSE config.presets[CHOOSE i \in Preset(config, id) : TRUE].criteria

(* What is wrong with a wish under a config, or "ok" *)
Objection(config, wish) ==
  IF wish.preset # "" /\ Preset(config, wish.preset) = {} THEN "preset"
  ELSE IF ~config.adhoc /\ ~IsZero(wish.adhoc) THEN "adhoc"
  ELSE "ok"

Criteria(config, wish) == Merge(PresetCriteria(config, wish.preset), wish.adhoc)

(* Variant: the config is read at the branch's commit of now. *)
ReadConfigLatest(v) ==
  LET config == Loaded(Tip(visit[v].commit[1]))
      objection == Objection(config, visit[v].wish)
  IN /\ Stage(v, "config") /\ Loadable(visit[v].commit)
     /\ IF objection = "ok"
        THEN visit' = [visit EXCEPT ![v].stage = "list",
                         ![v].criteria = Criteria(config, visit[v].wish)]
        ELSE Answer(v, <<objection, NoEntries>>, FALSE)
     /\ UNCHANGED <<commits, link, manifests>>

ReadConfig(v) ==
  LET config == Loaded(visit[v].commit)
      objection == Objection(config, visit[v].wish)
  IN /\ Stage(v, "config") /\ Loadable(visit[v].commit)
     /\ IF objection = "ok"
        THEN visit' = [visit EXCEPT ![v].stage = "list",
                         ![v].criteria = Criteria(config, visit[v].wish)]
        ELSE Answer(v, <<objection, NoEntries>>, FALSE)
     /\ UNCHANGED <<commits, link, manifests>>

Total(entries) == FoldFunction(+, 0, entries)

(* enforceLimits *)
WithinLimits(config, entries) ==
  /\ config.maxFiles > 0 => Cardinality(DOMAIN entries) <= config.maxFiles
  /\ config.maxBytes > 0 => Total(entries) <= config.maxBytes

Reply(config, entries) ==
  IF WithinLimits(config, entries) THEN <<"ok", entries>> ELSE <<"limit", NoEntries>>

ReplyTo(v, entries) == Reply(Loaded(visit[v].commit), entries)

CacheKey(v) == <<visit[v].commit, visit[v].criteria>>

Cached(v) == {m \in manifests : m.key = CacheKey(v)}

HitManifest(v) ==
  /\ Stage(v, "list")
  /\ \E m \in Cached(v) : Answer(v, ReplyTo(v, m.entries), m.cut)
  /\ UNCHANGED <<commits, link, manifests>>

MissManifest(v) ==
  /\ Stage(v, "list") /\ Cached(v) = {}
  /\ visit' = [visit EXCEPT ![v].stage = "files"]
  /\ UNCHANGED <<commits, link, manifests>>

(* The sizes of these files are asked for and come, those of the others    *)
(* are as listed.                                                          *)
Sized(files, known) == [f \in files |-> IF f \in known THEN f.size ELSE f.listed]

Listed(v, files, cut) ==
  /\ Stage(v, "files")
  /\ visit' = [visit EXCEPT ![v].stage = "sizes", ![v].entries = Sized(files, {}),
                            ![v].cut = cut]
  /\ UNCHANGED <<commits, link, manifests>>

Selected(v) == Select(visit[v].criteria, At(visit[v].commit).files)

(* Search and the filter *)
ListFiles(v) == Listed(v, Selected(v), FALSE)

(* The rows end early when their context does, because the client has      *)
(* left, and nobody asks rows.Err().                                       *)
CutListing(v) ==
  /\ Stage(v, "files")
  /\ \E part \in SUBSET Selected(v) \ {Selected(v)} : Listed(v, part, TRUE)

(* Variant: a full cache is not made room in. *)
StoreBeyond(v, entries) ==
  manifests' = manifests \cup {[key |-> CacheKey(v), entries |-> entries,
                                cut |-> visit[v].cut]}

(* ManifestCache.Set: a cache that is full makes room, whatever is in it.  *)
StoreManifest(v, entries) ==
  \E kept \in SUBSET manifests :
    /\ Cardinality(kept) >= Cardinality(manifests) - 1
    /\ kept = manifests <=> Cardinality(manifests) < CacheSize
    /\ manifests' = {m \in kept : m.key # CacheKey(v)}
                      \cup {[key |-> CacheKey(v), entries |-> entries,
                             cut |-> visit[v].cut]}

(* ResolveEntrySizes: an error is logged and leaves all sizes as they are  *)
(* listed, and a pointer that cannot be read to its end passes for a file. *)
(* A selection beyond the limits is not stored.                            *)
ResolveSizes(v) ==
  /\ Stage(v, "sizes")
  /\ \E known \in SUBSET DOMAIN visit[v].entries :
       LET entries == Sized(DOMAIN visit[v].entries, known)
       IN /\ Answer(v, ReplyTo(v, entries), visit[v].cut)
          /\ IF ReplyTo(v, entries)[1] = "ok"
             THEN StoreManifest(v, entries) ELSE UNCHANGED manifests
  /\ UNCHANGED <<commits, link>>

Expire ==
  /\ \E m \in manifests : manifests' = manifests \ {m}
  /\ UNCHANGED <<commits, visit, link>>
-----------------------------------------------------------------------------
(* Links: buildDownloadURL, handleDownload and handlePrivateDownload *)

(* Variant: the link has the ref that was asked for. *)
LinkToRef(v) == [ref |-> visit[v].ref, commit |-> None, wish |-> visit[v].wish,
                 private |-> FALSE, entries |-> visit[v].entries,
                 cut |-> visit[v].cut]

(* The link of a preview has the commit for its ref.  What the preview     *)
(* showed is remembered with it.                                           *)
LinkTo(v) == [ref |-> None, commit |-> visit[v].commit, wish |-> visit[v].wish,
              private |-> FALSE, entries |-> visit[v].entries, cut |-> visit[v].cut]

(* A private link has it sealed, with the token. *)
PrivateLinkTo(v) == [LinkTo(v) EXCEPT !.private = TRUE, !.ref = None,
                                      !.commit = visit[v].commit]

GetLink(v) ==
  /\ Stage(v, "answered") /\ visit[v].status = "ok" /\ link[v] = None
  /\ \E new \in {LinkTo(v), PrivateLinkTo(v)} : link' = [link EXCEPT ![v] = new]
  /\ visit' = [visit EXCEPT ![v] = NoVisit]
  /\ UNCHANGED <<commits, manifests>>

(* There is nothing to resolve for a private link. *)
FollowLink(v) ==
  /\ Stage(v, "none") \/ Stage(v, "answered")
  /\ link[v] # None
  /\ visit' = [visit EXCEPT ![v] =
       [NoVisit EXCEPT !.stage = IF link[v].private THEN "config" ELSE "resolve",
          !.wish = Reread(link[v].wish, link[v].private), !.ref = link[v].ref,
          !.commit = link[v].commit]]
  /\ UNCHANGED <<commits, link, manifests>>

(* A private link is only good until it ends. *)
FollowExpired(v) ==
  /\ Stage(v, "none") /\ link[v] # None /\ link[v].private
  /\ Answer(v, <<"expired", NoEntries>>, FALSE)
  /\ UNCHANGED <<commits, link, manifests>>
-----------------------------------------------------------------------------
Visit(v) ==
  \/ Ask(v) \/ Resolve(v) \/ ReadConfig(v) \/ Fail(v)
  \/ HitManifest(v) \/ MissManifest(v) \/ ListFiles(v) \/ CutListing(v)
  \/ ResolveSizes(v)
  \/ GetLink(v) \/ FollowLink(v) \/ FollowExpired(v)

Next == Others \/ Expire \/ \E v \in Visitor : Visit(v)

Spec == Init /\ [][Next]_vars
-----------------------------------------------------------------------------
(* What a listing of these files may come to: each size known or not, and  *)
(* any part of the files if it is cut short                                *)
Listings(files, cut) ==
  {Sized(part, known) : part \in IF cut THEN SUBSET files ELSE {files},
                        known \in SUBSET files}

(* A selection is that of one commit, of its files, presets and limits,    *)
(* although config and files are read one after the other while others     *)
(* push, the files are filtered in SQL first, and the manifest may be of   *)
(* another visitor's request.  Files are missing only from a listing that  *)
(* was cut short, for this request or for one with the same criteria, and  *)
(* if the criteria are not tidy.  A config that is not valid has no        *)
(* answer.                                                                 *)
SelectionIsOfCommit ==
  \A v \in Visitor :
    LET config == Loaded(visit[v].commit)
        objection == Objection(config, visit[v].wish)
        criteria == Criteria(config, visit[v].wish)
        matched == {f \in At(visit[v].commit).files : Match(criteria, f)}
        answer == <<visit[v].status, visit[v].entries>>
    IN Stage(v, "answered") /\ visit[v].status \notin {"failed", "expired"} =>
         /\ Loadable(visit[v].commit)
         /\ objection # "ok" => answer = <<objection, NoEntries>>
         /\ objection = "ok" =>
              \E entries \in Listings(matched, visit[v].cut \/ ~Tidy(criteria)) :
                answer = Reply(config, entries)

(* The link of a preview leads to the files that the preview showed, as    *)
(* often as it is followed and whatever has been pushed or saved since.    *)
(* They may only be refused, when their sizes, which are asked for anew    *)
(* once the manifest is gone, add up to more than the commit allows.  This *)
(* is said of wishes that the link has no other way to read, and of        *)
(* listings that were not cut short.                                       *)
LinkKeepsSelection ==
  \A v \in Visitor :
    LET now == visit[v]
        old == link[v]
        files == DOMAIN old.entries
    IN Stage(v, "answered") /\ old # None /\ Plain(old.wish, old.private)
         /\ ~(now.cut \/ old.cut) =>
           \/ now.status = "failed"
           \/ now.status = "expired" /\ old.private
           \/ now.status = "ok" /\ DOMAIN now.entries = files
           \/ /\ now.status = "limit"
              /\ \E known \in SUBSET files :
                   ~WithinLimits(Loaded(now.commit), Sized(files, known))

(* What there is to see of a request *)
Seen(r) ==
  [stage |-> IF r.stage \in {"none", "answered"} THEN r.stage
             ELSE IF r.commit = None THEN "asked" ELSE "settled",
   wish |-> r.wish, branch |-> r.ref, commit |-> r.commit,
   answer |-> IF r.stage = "answered" THEN <<r.status, r.entries>> ELSE None]

RequestMap == [v \in Visitor |-> Seen(visit[v])]

LinksMap ==
  [v \in Visitor |->
     IF link[v] = None THEN {}
     ELSE {[commit |-> link[v].commit, wish |-> link[v].wish,
            sealed |-> link[v].private]}]

ConfigOf(commit) == IF commit.config = None THEN Default ELSE commit.config

(* The criteria of a wish at a commit, if it has any *)
Query(commit, wish) ==
  IF Valid(ConfigOf(commit)) /\ Objection(ConfigOf(commit), wish) = "ok"
  THEN {Criteria(ConfigOf(commit), wish)} ELSE {}

(* What a wish may be answered at a commit *)
Answers(commit, wish, cut) ==
  LET config == ConfigOf(commit)
      files == Select(Criteria(config, wish), commit.files)
  IN CASE ~Valid(config) -> {}
       [] Valid(config) /\ Objection(config, wish) # "ok" ->
            {<<Objection(config, wish), NoEntries>>}
       [] OTHER -> {Reply(config, entries) : entries \in Listings(files, cut)}

(* The listings that are cut short, cached or about to be *)
TornMap ==
  {m.key : m \in {n \in manifests : n.cut}}
    \cup {CacheKey(v) : v \in {w \in Visitor : Stage(w, "sizes") /\ visit[w].cut}}

Snapshot == INSTANCE SnapshotSelection
              WITH Nothing <- NoEntries, history <- commits, request <- RequestMap,
                   links <- LinksMap, torn <- TornMap

(* Requests for config, listing, SQL, sizes, limits and the manifests of   *)
(* others come to one look at one commit, which was the last of the branch *)
(* while the request was made, and a link to the same look at its own      *)
(* commit; a listing is only cut short if the client of a request with the *)
(* same criteria has left (buildSelection, handlePreview, handleDownload). *)
ImplementsSnapshot == Snapshot!Spec
=============================================================================
