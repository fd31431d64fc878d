# zip-forger: specification, model checking, proofs

zip-forger serves selected files of a Forgejo repository as a ZIP archive that
is never stored: sizes and offsets are computed first, so that `Content-Length`
and `Range` work, and the files are fetched while the answer is written. This
directory has TLA+ modules for the parts of it in which order, failure and
shared state matter, TLC configurations that check them on small instances, and
TLAPS proofs for every instance. Paths below are relative to the repository
(`src/`).

## Inventory

| part | source | state it keeps | operations |
|---|---|---|---|
| tree indexer | `internal/source/forgejo.go` 694-887, `internal/cache/tree_db.go` | SQLite tables `tree_entries`, `indexed_trees`; per call: channel `tasks`, `taskWG`, `seenTrees`, `firstErr` | `listFilesByTrees`, `IsIndexed`, `SaveEntries`, `MarkIndexed`, `Search` |
| virtual archive | `internal/zipstream/virtual.go` | layout of one archive, position of one stream | `NewVirtualArchive`, `StreamRange`, `buildTail` |
| downloads | `internal/app/server.go` 392-670, 843-965 | none of its own; uses the next two | `buildSelection`, `serveSelectionArchive`, `parseArchiveRange` |
| manifest cache | `internal/cache/manifest.go` | map with TTL and size limit, under a mutex | `Get`, `Set` |
| CRC cache | `internal/app/crc_cache.go` | map of CRCs, singleflight group | `Get`, `Set`, `Resolve` |
| repository config | `internal/app/server.go` 298-390, 772-837, `internal/config` | a file in the repository, guarded by its blob SHA | load, validate, save |
| progress | `internal/app/progress.go` | listener lists and last counts, under a mutex; a channel of ten per listener | `Notify`, `Finalize`, `HandleSSE` |
| sign-in, sessions | `internal/auth` | OAuth states with an end; the session is in a cookie | login, callback, logout, `Middleware` |
| selection | `internal/app/server.go` 223-297, 461-580, 671-837 | none of its own; uses config, filter, manifest cache | `buildSelection`, `enforceLimits`, `handlePreview`, `buildDownloadURL` |
| filter | `internal/filter` | none | `Merge`, `Compile`, `Match`; `Search` has a prefilter in SQL |
| Forgejo client | `internal/source/forgejo.go` | none | retries, authentication schemes, media reader, `UpsertFile` |
| web page | `internal/ui/index.go` | the page's script: preview, config, tree | previews, config editor, progress stream |
| private links | `internal/app/private_url.go` | none (sealed in the link) | `Encode`, `Decode` |
| not in use | `internal/app/artifact.go`, `internal/zipstream/zipstream.go`, LFS batch code in `forgejo.go` 433-597 | | no handler calls them |
| start, shutdown | `cmd/zip-forger/main.go` | none | wiring |

How they interact. `handlePreview` and `handleDownload` resolve the ref to a
commit, load the repository's config at that commit, compile the filter and ask
the manifest cache; on a miss the tree indexer lists the commit's files,
through Forgejo or from the database alone, and calls the progress manager
back. The manifest is made into a virtual archive, and `StreamRange` calls back
into the handler for the files (Forgejo client) and for their CRCs (CRC cache).
Every handler runs in a goroutine of its own; what they share is the database,
the two caches, the progress manager and the OAuth states. The context of a
request ends when its client leaves, and reaches every call made for it.

What is hard, and what makes each part correct:

- *Tree indexer.* A pool of workers that feeds itself through a bounded
  channel, cancellation at any `select`, failures of single workers, two
  requests for the same commit, crashes between transactions. It is correct
  when a root is marked as indexed only if all of it is stored (nobody ever
  looks again), when a call without an error returned the whole listing, when
  nobody sends on the closed channel, when no send blocks for ever, when every
  call returns.
- *Virtual archive.* The layout is announced before a byte is read, and the
  central directory is made long after. Correct when the pieces written are
  exactly the announced range, when the tail has the announced length, when
  every field of 16 or 32 bits reads back, and when a CRC is taken only from a
  file that was streamed as a whole.
- *Downloads.* Answers to several requests are put together by the client; each
  is made from caches that others fill, evict and fail to fill. Correct when
  one whole answer is consistent in itself, when a resumed one is the archive,
  when what is cached is true, and when nobody waits for ever for another's
  CRC.
- *Selection.* Ref, config and files are read one after the other while others
  push, and manifests are shared. Correct when an answer is that of one commit,
  and when a link leads back to what was previewed.
- *Config.* Editors, others who push, and calls that fail after they have
  acted. Correct when what is acknowledged is committed once, what is refused
  is not, and no saved version is lost silently.
- *Progress.* Callbacks that overtake each other, full buffers, listeners that
  come and go. Correct when a page that has got everything knows the last
  count, and when no listener stays behind.
- *Sign-in.* Callbacks that are repeated, late, or answered by a restarted
  server. Correct when a state is accepted once and only in time, when every
  session goes back to a sign-in, and when states are not kept for ever.
- *Filter.* Correct when the SQL prefilter never loses a file that the filter
  would take.
- *Forgejo client.* Correct when retries end, when the error that decides (not
  found, unauthorized) is never hidden by another, and when an update is not
  made twice.
- *Web page.* Handlers of events run between the awaits of others. Correct when
  what is shown and linked belongs to the fields shown.

The hazards, each at its line, are in `PROJECT.json` with the properties that
are about them; seven have none, and say why.

## Modules

| module | about |
|---|---|
| `GitTrees` | trees, their lines and what can be reached; the state of the database as a set of lines |
| `TreeIndex` | the tree indexer |
| `CommitListing` | what a caller of `ListFiles` may rely on; `TreeIndex` implements it |
| `VirtualArchive` | layout, range and stream, piece by piece |
| `RangeAnswer` | what an answer to a range request is; `VirtualArchive` implements it |
| `Download` | downloads by clients that resume, with manifest cache, CRC cache and flights |
| `ArchiveTransfer` | what each of the clients may rely on; `Download` implements it |
| `ForgejoClient` | one call of the Forgejo client, with attempts and forms of the token |
| `ForgejoCall` | what a handler may rely on when it makes a call; `ForgejoClient` implements it |
| `RepoConfig` | branches, commits and the config file in them; used by the next and by `Selection` |
| `ConfigEditing` | pages that load, edit and save the config |
| `ConfigUpdates` | what saves are to whoever sees the branches and the answers; `ConfigEditing` implements it |
| `Filter` | the compiled filter, and the `WHERE` clause that comes before it |
| `Selection` | previews, their links, and the manifest cache with all selections |
| `SnapshotSelection` | one look at one commit, without caches; `Selection` implements it |
| `IndexProgress` | callbacks of indexings, listeners, streams of server-sent events |
| `PreviewPage` | the page that previews; extends `IndexProgress` |
| `SignIn` | states, callbacks, the session in the cookie |
| `MC...` | instances for TLC |
| `...Proofs` | lemmas, theorems, proofs |

### TreeIndex

One process per call (`Request`), per worker, and one closer goroutine per
call. `phase` is the place of the calling goroutine, `stage[r][w]` that of a
worker; `tasks`, `taskWG`, `seen`, `failed` are the variables of
`listFilesByTrees` under their own names, `rows` and `indexed` are the two
tables. An action is what happens between two points where the code can block
or where another goroutine can see a difference: a receive, a claim under the
mutex, one HTTP request, one send, one transaction. `Cancel` closes the context
of a call; statements under a closed context fail, and a `select` with both
cases ready may take either. `Crash` loses everything but the tables.

What is abstracted: names and paths (a line of a tree is a node; a directory
that occurs twice yields its lines once, since they differ in their paths
only); lines of submodules, which are stored and never read again; the order of
lines; `path.Base` and `normalizePath` of a line's path (`forgejo.go` 813-816),
which give the name back, for a line of one tree has no slash in it;
`taskWG.Add` and the send after it are one action, so the counter and
the channel move together; the counts for the progress callbacks, which are in
`IndexProgress`. The mode without a database (`db == nil`, tests only) is not
modelled. Errors of SQLite while rows are read are abstracted to the one the
code cannot see, a context that ends (`SearchCutShort`).

### VirtualArchive

`Place`, `Measure` and `Seal` are the loop and the rest of `NewVirtualArchive`;
`Ask...` resolve a Range header (`parseArchiveRange`) and announce the length;
`Open`, `WriteHeader`, `CopyData`, `WriteDescriptor` are the body of the loop
of `StreamRange`, `WriteRecord`, `WriteEndRecords` and `WriteTail` the tail;
every one that does input or output has a failing twin. A byte is its position
in the archive and what is written is a `piece` of positions; the numbers in
headers are modelled where a width limits them (offsets, sizes, counts), the
rest of the contents is their length. `Field` and `Extra` are what the code
writes there, `ReadEnd`, `ReadSize` and `ReadOffset` what a reader makes of it
by the rules of the format, with nothing but the file: a field at its maximum
says that its value stands in the ZIP64 record, or in the extra field of the
entry. The limit of 65535 bytes on a path is left out.

### Download

The archive is here a sequence of units (a header, one byte of a file, a
descriptor, a record, the end of the directory), each with the CRC that was
written in it. `Request` is a client's first request or one for the rest of
what it has (`Range: bytes=n-`); `Select` is `buildSelectionForCommit`
behind the cache key, `Serve` is `serveSelectionArchive` with `StreamRange`,
`FindCRC` the CRC provider: own computation, cache, flight. `Expire` stands for
the TTL of the manifest and for its eviction by other selections. A client
relies on the `ETag`, which is the same for all archives of the selection
(`downloadArtifactKey`). A request that leaves the flight it leads takes all
that wait with it, as `singleflight.Do` gives all callers one result. The
constant `Troubles` says which of the troubles that break a promise of the
documentation may happen; `Leave` and `Expire` always may. Ref, config, filter
and limits are in `Selection`; the 304 answer and more than one selection are
left out here.

### ForgejoClient

One call, of one of three kinds: an endpoint that `getJSON` asks (three
attempts), a file or a SHA that is read (one), an update by `UpsertFile` (one).
`turn` is the place in the list of `authSchemes`, `attempt` that of the loop in
`getJSON`. A request is three steps, so that the caller's context can end, the
token be revoked and the repository change between them: `Send`, an answer of
Forgejo (`Refuse`, `Miss`, `Break`, `Answer`, `AnswerBroken`), and what the
client makes of it. `SendFails` is every error of `http.Client.Do`: it may come
before or after Forgejo has acted. What the statuses 401, 403, 404 and 422 mean
to each kind of call is in the `Return...` actions. Pages of `ListBranches` and
`SearchRepos` are calls one after the other and have no state beyond them.

### RepoConfig, ConfigEditing

Forgejo is the sequence of the commits of every branch, each with its files and
its config; `PushOther` is anybody else. A config is a record of what the
handlers look at: presets, whether ad-hoc criteria are allowed, the limits on
files and bytes. Its SHA is its content (equal contents have equal SHAs).
Others push valid configs and such as nobody can load (`Valid`).

In `ConfigEditing`, `field` is the input for the ref in the page, `base` the
commit of the config that the page holds, `loads` the calls of `loadConfig`
that have been started and not applied. The page guards buttons by
`state.busy`, but a change of the field starts a load at any time, so loads
overlap and may be applied in any order. `save` is the handler
`handleUpdateConfig`: `ClickSave` validates, `FetchSHA` is `GetFileSHA`, `Put`,
`Conflict`, `MissBranch` and `FailSave` are the ends of `UpsertFile`,
`FinishSave` is the last `ResolveRef`. Calls end as `ForgejoCall` allows; in
particular an update reported failed may have been made (`Put`), and one whose
caller left may be made later (`Abandon`, `CommitLate`). What the editor does
to the config between load and save is any choice of a new config.

### Filter, Selection

A path is the sequence of its segments, a glob the set of files that it
matches. A value of a list is its text and two marks: `blank`, it has blanks
around it, and `odd`, it has backslashes in it; the clause takes both
literally, the filter neither. `Clean` is what `normalizePath` does to a text,
`TrimSlashes` what the `WHERE` clause does to it, segment by segment. `Match`
and `Where` are the two predicates, and `Select` what a listing comes to.

In `Selection`, a visit goes through `Resolve` (`ResolveRef`; `Ask` chooses the
branch, for an empty ref the default one), `ReadConfig` (`loadRepoConfig`,
preset, ad-hoc criteria, `Merge`; a config that is not valid ends in `Fail`),
the manifest cache (`HitManifest`, `MissManifest`), the listing, and
`ResolveSizes`. A listing is whole (`ListFiles`) or, when the client leaves
while rows are read, a part that nobody knows to be one (`CutListing`). Sizes
are asked for file by file and their errors are only logged, so any subset of
them may come (`Sized`); after that come the limits on files and bytes, and
`Set` with its eviction. The manifest cache is keyed by commit and merged
criteria, as `selectionCacheKey` does; a hit, on whatever listing and sizes
some visitor's request has left there, is put to the limits again.

`GetLink` is `buildDownloadURL`, `FollowLink` is `handleDownload`, or
`handlePrivateDownload` for a sealed link, which needs no ref resolved.
`Reread` is what becomes of the wish on the way: the values in a query are
split at their commas (`Parts`), and those of both kinds of links are trimmed,
empty ones dropped. A later visit of the same visitor is what following the
link comes to. `cut` is a history variable of visits, links and manifests:
whether what they hold is from a listing that was cut short.

`SnapshotSelection` has neither config, listing, sizes nor cache, but a
function from commit and wish to the answers there are (`Answers`): one for
each subset of sizes that may come and, if the listing of these criteria is
`torn`, for each part of the files. `Tear` is the one thing by which a visitor
may spoil the answer of another; `Forget` is the eviction that mends it.

### IndexProgress, PreviewPage

`index[i]` is the part of `listFilesByTrees` that calls back: a worker counts a
file (`CountFile`) and calls back in a second step (`CallBack`), so counts
arrive in any order. `lastCount`, `listeners` and the queue of a stream are the
`ProgressManager` under its mutex; `stream[s]` is the handler of `HandleSSE`:
`ResolveStream`, `Register` (count and listener under one lock), `Greet`,
`Forward`, `Leave` (the deferred removal). `told` is what the page has been
sent last; `missed` is a history variable, the streams for which
`Notify` found a full buffer.

`PreviewPage` has the variables of the script: `fields`, `busy`, `source`
(`progressSource`), `preview`, the download button, the link, and the loads
under way. An action is one event handler up to its next `await`, so that
`ClickPreview`, `FinishPreview` and `FailPreview` are the pieces of
`previewSelection`, `FinishBranches` and `FinishConfig` those of
`onRepoChanged` and `loadConfig`. The repository field is edited in several
steps, which is what `typed` is for (the value that the field had before):
`TypeRepo` is an input event, which only starts a search and leaves preview,
button and link where they are; `LeaveRepo` is the change event, which takes
the preview off and loads the branches; `LeaveRepoAsItWas` is no event, for the
field says again what it did. In between loads and previews may end, and read
the field half typed. Repository, ref and ad-hoc criteria are one value
(`Place`) of which a change is one of the repository or not by its action; the
preset is apart, because loads reset it. `late` is a history variable: the
fields had `moved` while the preview was waited for, see "Known weaknesses".
Requests of previews run to their end here (`TreeIndex` has those that do not),
there is one page, and the name of the phase in an update is left out.

### SignIn

`states` is the map in `Manager`; a state is named after its sign-in, for it is
random. `BeginLogin` is `handleLogin` with the address from the request's
headers; `CheckState` takes the state out, `ExchangeCode` and `FailExchange`
are `exchangeCode` against Forgejo, which takes a code once and only with the
address it was issued for. The session is the content of the browser's cookie;
what a handler sets or clears travels in `answers` and arrives in any order, or
never. `Respond` is `Middleware` for a request that was sent with the cookie of
some earlier moment. `Restart` loses states and handlers; the sealed cookies
stay good, as the secret is kept. `age` is a history variable: how long ago the
sign-in had begun when a callback got past its state. Requests with a bearer
token pass through without a state and are left out, and so is `handleMe`,
which changes nothing (it answers 401 to a session that has ended and, unlike
the middleware, leaves the cookie). There is one browser, and a callback brings
a state together with the code of the same sign-in.

## Runs

| run | instance | checks |
|---|---|---|
| `same_commit` | two calls for one commit with a directory that occurs twice, two workers each, one crash, symmetric | types, `IndexedComplete`, `AnswersComplete`, `NoSendAfterClose`, refinement of `CommitListing` |
| `wide_commit` | one call, five directory entries for two trees, room for exactly five | `NoSendBlocks`, `PoolGoesOn`, `PoolNearsItsEnd`; under fairness `EveryCallReturns` and `CloserEnds` |
| `archive_ranges` | eleven manifests on both sides of the limits, 17 positions in every form of Range header, failures everywhere | the six properties of `VirtualArchive`, refinement of `RangeAnswer` among them |
| `download_troubled` | two clients, two requests each, an LFS file, all troubles, symmetric | types, `WholeAnswersConsistent` |
| `download_resumed` | two clients, three requests each, a file of two bytes and an empty one, no troubles, symmetric | `CachedCRCsTrue`, `FlightsAreLed`, refinement of `ArchiveTransfer` |
| `download_cut_short` | a client that leaves while files are listed | finding: `ManifestComplete` fails |
| `forgejo_client` | a call of each kind, with and without a token, three attempts | types, `FailsOnlyInTheEnd`, refinement of `ForgejoCall`; under fairness `EveryCallReturns` |
| `config_editing` | one page, two saves, two overlapping loads, three commits, an invalid config among three, which others push too; the field may be empty, which means a branch "main" that is not there | types, `AcknowledgedIsCommitted`, refinement of `ConfigUpdates` |
| `lost_update` | the same with the branch "main" | finding: `SavesReplaceLoaded` fails |
| `selection` | two visitors, two files of which one is in LFS, two commits, three configs (no ad-hoc criteria and a limit on files; a limit on bytes; not valid), two wishes (a preset, one of whose forms has blanks; a glob with a comma and a blank behind it), a cache with one place, symmetric | types, `SelectionIsOfCommit`, `LinkKeepsSelection`, refinement of `SnapshotSelection` |
| `preview_page` | previews with two streams; one commit of three files, a callback for each, two workers, a buffer of two; two places and two presets; three other acts of the visitor, when there is nothing to watch; symmetric | types, `ShowsItsSelection`, `ToldIsCurrent`, `StreamsFollowPreviews` |
| `sign_in` | two tabs, two sign-ins, each callback sent twice, two addresses, tokens with and without a life, a clock up to three, symmetric | types, `EachStateOnce`, `SessionsAreSignIns`, `StatesAreRecent` |

Bounds, and why they are enough. *TreeIndex:* two calls and two workers are the
fewest that interleave in both ways; the code has five workers, but all run the
same loop, and what one sees of the others is `seen`, the channel and the
counter. One crash at any place leaves every partial database that the calls
can make; a second one adds none. A directory that occurs twice makes
`seenTrees` matter. The capacity is the number of directory entries plus the
root in `same_commit`; in `wide_commit` it is the smallest that `NoSendBlocks`
allows. The proofs have none of these bounds. *VirtualArchive:* 16 bits hold 2
and 32 bits hold 150 here, so that three small files pass the first limit and a
hundred bytes come near the second, and four manifests have a count, a size, an
offset or a directory exactly at a limit; the positions are those of all
segment edges of one manifest and some beyond. *Download:* three requests of a
client cut an archive at any two places; two clients are enough for one to lead
a flight and the other to wait, to leave, or to find the cache changed. The
properties of resuming are not checked for more than two files.
*ForgejoClient:* the bounds are the code's own. *ConfigEditing:* three commits
are the first one, the page's and one between them or after them; two saves are
the fewest of which one can be taken for the other; two loads the fewest that
overlap. Pages share nothing but the commits, and a second one does to them
what `PushOther` does. *Selection:* with one place in the cache any second
manifest throws the first out; a commit after the first is enough to tell a
selection that mixes two. One wish has a link that reads it as it is, under a
config for which the prefilter in SQL loses a file and under one for which it
does not; the other is split and trimmed by a plain link and kept by a private
one, and what it is split into has criteria, key and manifest of its own. The
limit on bytes is passed only with the size of the file that is in LFS, so it
depends on the sizes that come, and the one on files only by both. With two
files a listing that is cut short differs from the whole one and may, or may
not, pass a limit that the whole one passes. *PreviewPage:* two streams, for
the handler of the last one may outlive its preview; three files and two
workers make callbacks that overtake each other; a buffer of two is full when
the handler is slow, and has room when it is not. Three other acts leave loads
of two under way while a third thing is typed. What the visitor does to the
fields and what streams tell meet nowhere but in `busy`, so the constraint
`FewActs` keeps them apart: with a commit to watch there are only previews, and
their ends, and the other acts come when streams and previews find none.
*SignIn:* two callbacks of one sign-in race for its state; a second sign-in
makes the sweep and the clearing of another's cookie happen. A lifetime of one,
a default of two and a clock of three let everything end.

Fairness. `FairSpec` of `TreeIndex` has weak fairness of each worker, of the
calling goroutine and of the closer: Go's scheduler runs what can run, HTTP
requests end by the client's timeout (`cmd/zip-forger/main.go:106`), statements
by the busy timeout. Weak fairness of a worker as a whole does not say that its
requests succeed, and `CloserEnds` leaves out the calls that are cancelled.
`FairSpec` of `ForgejoClient` has weak fairness of the steps of the client, for
the same timeout ends every wait and the pauses are timers; none of Forgejo,
which may never answer. Nothing is assumed of the other modules: their
properties are about safety.

Deadlock is checked where the code runs on by itself or where the module has an
action for rest (`Rest`). `ConfigEditing`, `Selection` and `SignIn` are people
in front of pages, with bounds on what they do: these may stop, and their runs
say `CHECK_DEADLOCK FALSE`.

## Proofs

All theorems hold for all constants that satisfy the modules' assumptions:
`IndexAssumption` with `TreesAssumption` (finitely many lines, a listing per
tree) and `TreesAreHashes` (no tree is below itself, as its SHA is a hash of
what is in it; only the proofs about the root's task need it),
`ArchiveAssumption` (manifests are sequences of entries, the
two limits are positive), `ForgejoClientAssumption` (at least one
attempt),
`DownloadAssumption` (an object is as long as its pointer at least, and files
of one blob have one size), `SignInAssumption` (a callback comes at least
once), and those of `IndexProgress`, `PreviewPage`, `RepoConfig`,
`ConfigEditing` and `Selection` (bounds and sizes are numbers, texts are
sequences, and `None` is none of the values that it stands for the absence of).
Those theorems about `Download` that do not hold with troubles have a premise
more; see below.

*TreeIndex.* `IndexedComplete` is not inductive: that the mark is right depends
on the pool having lost nothing. The invariant is `TypeOK /\ IndexInv /\
IndexedComplete /\ AnswersComplete`. In `IndexInv`, `CountsTasks` says that
`taskWG` is the number of queued tasks plus that of tasks in a worker's hands,
so that zero means that there is nothing left; `WorkersLeaveLast` says that
workers leave only then, unless the context ended; `NothingLost` says that,
while nothing has gone wrong, every claimed tree is being expanded or has all
its lines stored and each of its directories accounted for, as claimed, queued
or in hand. When the pool is empty the claimed trees are closed under
"subdirectory of", so all that can be reached from the root is stored:
`CompleteAfterPool`, then `IndexedComplete`. Theorem `Invariance` has one step
per action; from it follow `MarksAreComplete`, `AnswersAreComplete`,
`ClosedForGood`, `BooksAreKept` (`IndexInv` itself) and `KeepsPromise` (every
step is a step of `CommitListing` or a stutter). The first lemmas are about
what can be reached: reachability is defined as the least closed set, not by
recursion, so that it can be reasoned about.

That the pool cannot lock up is three theorems more. `SendsNeverBlock`: if the
channel has room for all directory entries below the root (line 745 makes it
for 500000), a worker with an entry to send finds a free
place. The argument counts: what is queued and what is still to be sent are
disjoint sets of entries, for no tree is expanded twice. `RoomInv` says why:
the root's task is ahead of everything else (`RootAhead`) or has been expanded
(`RootBehind`), and then every tree in a worker's hands is below the root,
claimed, and in no other worker's hands. `PoolNeverStops`: while a call runs, a
worker can go on, or the closer can, or all workers have left; this is freedom
from deadlock for any number of workers, and rests on `CountsTasks` (if all
wait with an empty channel, the counter is zero and the closer is free).
`PoolEnds`: every step of the pool makes `StepsLeft` smaller, a sum of entries
still to send, queued tasks, and what the workers have to do with the tasks in
their hands. The two are the reasons why `EveryCallReturns` holds, with all
parameters left open; what is not proved is the temporal step from them, by
fairness.

*VirtualArchive.* The invariant is `TypeOK /\ ArchiveInv /\ HashedWhole`.
`LayoutInv` says that entries follow each other without gap or overlap and
that `zip64` is set exactly when a limit is passed; `StreamInv` says that what
has been written is the part of the range below the position the loop has
reached. From it follow `KeepsPosition` (`ArchiveInv` itself), `SendsExactly`,
`HashesWholeFiles`, `DirectoryIsReadable` (the directory reads back from
exactly those archives that are not `AtLimit`) and `KeepsAnswer`.
`TailIsAsLong`
needs more: the length of the directory is added up in one loop when the
layout is sealed and a second time, long after it was announced, when the
directory is made. `TailInv` says that one function of partial sums describes
both loops, and `AddsMore` extends it by a record. No induction over the
sequence is needed: the steps of the loops are it.

*ForgejoClient.* That an answer is reported as it was given is not enough: the
reply on its way has to say whether the update was made, and the forms that
were refused before must still be refused when the last one is. `CallInv` says
both: forms offered in this attempt and passed over are not accepted (Forgejo
never accepts more than at the start), a refusal, a miss and a request not yet
answered mean that nothing was updated, and a positive answer to an update
means that it was made once. From it follow `TypeCorrect`, `FailsInTheEnd` and
`KeepsPromise`, one step per action. `LoopsEnd` shows that every step of the
client makes `StepsLeft` smaller, three for each form of each attempt that is
left and one for each pause, whatever Forgejo answers: the loops over attempts
and forms end for any number of attempts, as far as a proof without fairness
can say it.

*Download.* What an answer sends depends on what was sent before it and on what
others have left in the caches; `Inv` says for each client, in `Fits`, how its
place, its job and its units belong together, and nothing of the others, so
that a step of one client leaves what is said of another as it is. `JobFits`
says that computed CRCs are of the sizes in the manifest; `AnswerFits` that an
answer from the first unit on has computed the CRC of every file whose last
byte was sent, that its CRCs are those of its manifest, and that its units are
the beginning of the archive (`Begins`); `Untroubled` that without `Troubles`
this is the archive of all files as they are. `CRCsFit` and `ManifestFits` are
what the caches may hold, `FlightsAreLed` ties the flights together. A whole
answer asks the cache only for empty files (`Trusted`), because the bytes of a
file stand in front of whatever needs its CRC (`PlanIs`). This last fact is
about a sequence made by `FlattenSeq`, so by recursion: the first lemmas derive
induction from the pigeonhole principle (`InductiveSets`), for the theorems of
`NaturalsInduction` cannot be cited, and show from it that the recursion has a
result and what is in it (`FlattenHolds`). From `Inv` follow `TypeCorrect`,
`WholeAnswers` and `FlightsLed` whatever goes wrong. The others name the
troubles that they stand, and do not hold with the rest (see "Known
weaknesses"): `CachedCRCs` and `FirstAnswers` (an answer that is not put
together from several is the archive) stand sources that fail; `CachedCRCs`
also holds with any trouble if no object is longer than its pointer, so without
LFS; `ManifestLists` (`ManifestComplete`, which `download_cut_short` refutes)
stands everything but the client that leaves while rows are read.
`ResumedAnswers` and `KeepsTransfer` stand none. `KeepsTransfer` says more than
the end: at every moment what a client has is a beginning of the one archive,
and no step of the caches, of a flight or of another client adds to it or takes
from it. It maps a place in the handler to "busy" and every unit sent to a step
of `ArchiveTransfer`; a flight that breaks takes several clients with it in one
step, as `BreakOff` allows.

*ConfigEditing.* What makes an acknowledged save certain is that its author
writes once. `AuthorsInv` says of every save at which of its steps it is
`Unwritten` (in no branch, and no late update can bring it there) or
`WrittenAs` one commit (in one branch, and no late update can bring it there
again); of a save reported as failed it says neither. Saves to come are
unwritten, so that none is taken for another. Commits only grow (`PushStep`),
so what was written stays. From it follow `TypeCorrect` and
`SavesAreCommitted`. `LoadsInv` bounds the overlapping loads. `KeepsUpdates`
also covers the saves that failed or were abandoned: in `ConfigUpdates` every
save asks for one update, which is made at most once and as it was sent, or
taken back when the save is refused. The update of a save that is at the SHA or
at the call itself, and one that Forgejo may still make for a caller who has
gone, are both mapped to an open one, so that looking up the SHA and giving up
are stutters. `AnswersInv` adds what the mapping needs: who waits has no answer
yet, and no two late updates are of the same save. `ConfigUpdates` leaves open
which config an update replaces, because the code does (`lost_update`).

*Filter, Selection.* The theorems have no premises: what the code loses is in
what they state. `NothingIsLost` shows that the `WHERE` clause keeps every file
that the filter matches if the criteria are `Tidy` (no blanks, backslashes or
empty extensions, and prefixes that the filter cleans of nothing but slashes),
and only of tidy criteria does `SelectionIsOfCommit` ask for all files.
`GoodVisit` says of each stage of a request that it is for the commit and the
wish of its link, that its criteria are those of config and wish at that
commit, and that what it has listed, and its answer, are what the commit may
answer, by a whole listing or one cut short; `GoodLink` says the same of the
files that a preview showed, `ManifestInv` of what is stored under a key. All
three speak of a commit that is there, and commits only grow (`Grown`), so that
a push leaves them as they are: `GoodStays`, on which `StateStep` builds for
every action. `AnswersAre` lists what a wish may be answered, `AnswersGrow`
shows that a cut listing only adds to it. From `IndInv` follow `TypeCorrect`,
`OneCommitAnswers` and, with `PlainReadsBack` (a wish that is `Plain` goes into
a link and comes out of it as it was), `LinksKeepTheirFiles`. `KeepsSnapshot`
adds freshness: a commit is settled in one moment, as the last of its branch,
between the request and its answer. `TornMap` has the keys of the manifests
that were cut short and of those about to be stored; `CutListing` is a `Tear`,
an eviction a `Forget`, the reads of the config and of a whole listing and a
miss in the cache are stutters, and sizes, limits and hits are part of
`Answer`: it is one that `SnapshotSelection` allows for that commit and wish,
torn or not.

*IndexProgress, PreviewPage.* `ToldIsCurrent` speaks of handlers with nothing
left to write; `HeardInv` extends it to all: the last of what waits in the
buffer, what is to be sent first, or what was told, in this order (`Latest`),
is the last count of the commit, or an update was dropped. It also says that
the listeners are exactly the handlers between registration and return.
`StreamsInv` says that only the page's source is open, and only while a preview
waits. `ShownInv` has three parts: a preview that is waited for is of the
fields, and nobody is in the repository field, unless they have moved since
(`WaitsFor`); a link that is not plain is that of the preview shown, also of
one that came late (`Linked`); and one that was not late is of the fields, but
for the preset that a load put to none and the repository field while it is
being typed, when `typed` still has the preview's (`IsOfFields`). `LoadsInv`
counts the answers under way, whose number the acts of the visitor bound. From
these follow
`TypeCorrect`, `TheLastCountIsTold`, `PreviewsAreOfTheFields` and
`NoListenerStays`. Every bound of the run is a constant here, workers, files
and buffer among them.

*SignIn.* `LoginsInv` adds what ties states, codes and callbacks together: a
state belongs to one sign-in that has begun and has the address of its code,
and a callback comes for a code that was issued. `EachStateOnce` and
`SessionsAreSignIns` are proved in the forms `OnceEach` and `AllProper`, which
speak of single callbacks and sessions (`OnceByCallback`, `ProperByPlace`).
From the invariant follow `TypeCorrect`, `StatesAreConsumed`,
`SessionsAreEarned` and `StatesAreSwept`.

Only model-checked: `EveryCallReturns` of both modules and `CloserEnds`, for
liveness is out of the prover's reach. Every other property of a passing run
is stated by a theorem. The other way round, four definitions that theorems
state are in no run: `IndexInv` and `ArchiveInv`, of which the runs check what
they are for; `ResumedIsArchive`, which the mapping to `ArchiveTransfer`
implies; and `NearsItsEnd`, which is behind `EveryCallReturns`.

## Findings

1. `download_cut_short`: `Search` does not ask `rows.Err()` after its loop, so
   a request cancelled at that moment has part of the files and no error, and
   stores them as the manifest of the selection (`server.go:565`).
2. `lost_update`: `handleUpdateConfig` fetches the SHA that guards an update
   when it saves (`server.go:368`), not when the page loaded, so that it never
   fails on account of a change between load and save, which the comment says
   it is for.

## Known weaknesses

What the models show, or leave out for it, without a run of its own. Most are
trade-offs of the code rather than contradictions of what it says.

- After a cancellation with tasks still queued the closer goroutine waits for
  ever (`forgejo.go:860`) and keeps its channel alive; `CloserEnds` leaves out
  such calls.
- `truncated` in a tree response is decoded and never read (`forgejo.go:685`),
  though `README.md:250` promises a fallback; trees are modelled as whole.
- After a failure in mid-stream the JSON of the error is appended to the bytes
  of the archive (`server.go:419`); a client that resumes behind it has it in
  its archive. `ResumedIsArchive` holds when sources do not fail. A failure
  before the first byte is written, as that of a CRC another request was waited
  for, leaves the announced status and length with nothing behind them: to the
  client a short answer.
- When sizes are not resolved, the CRC of the first bytes of an LFS object is
  stored as the CRC of the blob (`crc_cache.go:34`). `CachedCRCsTrue` holds
  when sizes are resolved.
- The ETag says nothing of sizes (`server.go:848`): when they are resolved for
  one request and not for the next, a client resumes another layout.
- An entry of exactly 4294967295 bytes is accepted (`virtual.go:63`) and its
  size written to fields in which that number is the mark of a ZIP64 field,
  which the entry does not have: a reader cannot find out how long the file is.
  A header or a directory that begins at that number, a directory of that
  length, and a count of exactly 65535 are stored plain too (`virtual.go:75`,
  `87-89`). `DirectoryReadable` says that these archives, `AtLimit`, do not
  read back, and all others do. Many readers take such a number in the end
  record for itself when there is no ZIP64 record; none need to.
- A client's timeout of a minute covers the reading of the body as well
  (`main.go:106`), so a file that takes longer breaks off.
- The prefilter in SQL loses files when a prefix has blanks around it,
  backslashes, dots or doubled slashes in it, or an extension has blanks around
  it (`tree_db.go:190`): it takes literally what the filter cleans. A list
  whose prefixes all clean to nothing is no criterion to the filter, and
  selects nothing in SQL. The extension "tar.gz" finds candidates, all of which
  the filter drops, as `path.Ext` is the last one.
- A preview takes globs as they are, one in a line (`server.go:227`,
  `index.go:647`), but the link that comes with it splits them at their commas
  when it is followed (`server.go:1024`), and so leads to the files of other
  globs. A private link does not. `LinkKeepsSelection` leaves out wishes that a
  link may read in another way than they were meant (`Plain`);
  `ImplementsSnapshot` says what such a link leads to (`Reread`).
- A listing that is cut short (finding 1) is kept as the manifest of its
  criteria: previews and downloads of all visitors with the same criteria lack
  files until it is evicted. The criteria and not the visitor decide, so
  `SelectionIsOfCommit` asks for all files only where `cut` is false, and
  `SnapshotSelection` has `torn`.
- Sizes that do not come leave the pointers' sizes in their place
  (`server.go:545`), and so the limit on bytes may let a selection pass at one
  time, and refuse its link later: `LinkKeepsSelection` allows that refusal.
- A save without a ref goes to "main", a load without one reads the default
  branch (`server.go:340`): in a repository whose default branch has another
  name an empty field loads, and then fails to save or saves elsewhere.
- Loads of the page overlap; the last answer wins, not the last request
  (`index.go`, `onRepoChanged`).
- The answer of a preview is taken for that of the fields as they are when it
  arrives, the box for private links included (`index.go:828`). A config that
  arrives, or an edit of a preset, fills the choice of presets anew without an
  event (`index.go:858`), which also loses the preset of a shared address.
  `ShowsItsSelection` leaves out previews that came `late`, and of the presets
  it says only that they are put to none.
- While somebody types in the repository field, preview, button and link stay
  those of the last repository (`index.go:526`), and after the field is left
  the link stays until the branches have come, or for good if they do not. A
  plain link may be made in between, when a load ends, of the half-typed name;
  it stays if the name is typed back, for then no event comes.
- The count that a listing of an indexed commit reports is that of the
  selection, not that of the commit, as the comment at `forgejo.go:736` has it.
- The last updates of an indexing are dropped when a listener's buffer is full
  (`progress.go:59`); the answer of the preview hides it.
- A request that was sent with an expired session clears the cookie even if
  another tab has signed in meanwhile (`manager.go:114`).

## Not modelled

- Artifact store (`artifact.go`), sequential ZIP writer (`zipstream.go`) and
  LFS batch code (`forgejo.go` 433-597): no handler calls them.
- Start and shutdown: environment variables and wiring, no state of its own.
- Of the page: theme, tabs, the search of repositories, the banner that asks to
  sign in; these show what they get, and nothing depends on them.
- AES-GCM, JSON, YAML and the regular expressions made of globs: pure
  functions, taken to do what their packages say.
- HTTP below the handlers, and SQLite below transactions.

## Plan

Done, in this order: `GitTrees`, `TreeIndex`, `CommitListing` and their proofs;
`RangeAnswer`, `VirtualArchive` and their proofs; `Download`; `ForgejoCall`,
`ForgejoClient` and their proofs; `RepoConfig`, `ConfigEditing`; `Filter`,
`Selection`; `IndexProgress`, `PreviewPage`; `SignIn`, each of the
last four with its proofs; proofs about `Download`.

Next:

1. Two pages that watch one indexing, and an indexing whose request is
   cancelled while a page listens.
2. A promise of `PreviewPage` to the visitor, as an abstract specification of
   its own.
