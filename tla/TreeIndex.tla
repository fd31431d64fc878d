----------------------------- MODULE TreeIndex ------------------------------
(***************************************************************************)
(* listFilesByTrees (src/internal/source/forgejo.go): the indexer that     *)
(* walks the directory trees of a commit with a pool of workers, stores    *)
(* every directory in the SQLite database of src/internal/cache/tree_db.go *)
(* and marks the root tree as indexed.  Several requests run at once and   *)
(* share nothing but the database; a request's context can be cancelled,   *)
(* Forgejo and the database can fail, and the process can crash and come   *)
(* back with the database as it was committed.                             *)
(***************************************************************************)
EXTENDS GitTrees, Sequences

CONSTANTS
  Request,     (* calls of listFilesByTrees *)
  RootOf,      (* RootOf[r]: the root tree of the commit r asks for *)
  Worker,      (* the goroutines of one request's pool *)
  Capacity,    (* buffer of the channel tasks; 500000 in the code *)
  MaxCrashes,  (* bound: how often the process may crash *)
  NoTask       (* what a worker holds between two tasks *)

Task == [sha : Tree, isRoot : BOOLEAN]

ASSUME IndexAssumption ==
  /\ RootOf \in [Request -> Tree]
  /\ IsFiniteSet(Worker) /\ Worker # {}
  /\ Capacity \in Nat \ {0}
  /\ MaxCrashes \in Nat
  /\ NoTask \notin Task

VARIABLES
  rows,       (* table tree_entries *)
  indexed,    (* table indexed_trees *)
  phase,      (* where the call is *)
  cancelled,  (* ctx.Done() is closed *)
  failed,     (* firstErr # nil *)
  tasks,      (* the channel of directories still to be listed *)
  closed,     (* close(tasks) has happened *)
  taskWG,     (* the WaitGroup that counts unfinished tasks *)
  seen,       (* seenTrees *)
  stage,      (* where each worker is *)
  task,       (* the task a worker holds *)
  todo,       (* directories of that task the worker has still to queue *)
  closer,     (* the goroutine that waits for taskWG and closes tasks *)
  files,      (* the entries a call returned *)
  crashes     (* how often the process has crashed *)

dbVars   == <<rows, indexed>>
poolVars == <<failed, tasks, closed, taskWG, seen, stage, task, todo, closer>>
vars     == <<dbVars, phase, cancelled, poolVars, files, crashes>>

Phase  == {"idle", "root", "check", "run", "mark", "search", "ok", "error"}
Stage  == {"idle", "got", "fetch", "loop", "exited"}
Closer == {"off", "waiting", "done"}

Live(r)     == phase[r] \notin {"idle", "ok", "error"}
RootTask(r) == [sha |-> RootOf[r], isRoot |-> TRUE]
SubTask(n)  == [sha |-> Target[n], isRoot |-> FALSE]

TypeOK ==
  /\ rows \subseteq Node
  /\ indexed \subseteq Tree
  /\ phase \in [Request -> Phase]
  /\ cancelled \in [Request -> BOOLEAN]
  /\ failed \in [Request -> BOOLEAN]
  /\ tasks \in [Request -> Seq(Task)]
  /\ closed \in [Request -> BOOLEAN]
  /\ taskWG \in [Request -> Nat]
  /\ seen \in [Request -> SUBSET Tree]
  /\ stage \in [Request -> [Worker -> Stage]]
  /\ task \in [Request -> [Worker -> Task \cup {NoTask}]]
  /\ todo \in [Request -> [Worker -> SUBSET Node]]
  /\ closer \in [Request -> Closer]
  /\ files \in [Request -> SUBSET Node]
  /\ crashes \in 0..MaxCrashes

Init ==
  /\ rows = {} /\ indexed = {}
  /\ phase = [r \in Request |-> "idle"]
  /\ cancelled = [r \in Request |-> FALSE]
  /\ failed = [r \in Request |-> FALSE]
  /\ tasks = [r \in Request |-> <<>>]
  /\ closed = [r \in Request |-> FALSE]
  /\ taskWG = [r \in Request |-> 0]
  /\ seen = [r \in Request |-> {}]
  /\ stage = [r \in Request |-> [w \in Worker |-> "idle"]]
  /\ task = [r \in Request |-> [w \in Worker |-> NoTask]]
  /\ todo = [r \in Request |-> [w \in Worker |-> {}]]
  /\ closer = [r \in Request |-> "off"]
  /\ files = [r \in Request |-> {}]
  /\ crashes = 0
-----------------------------------------------------------------------------
(* The calling goroutine, up to the start of the pool *)

Goto(r, from, to) ==
  /\ phase[r] = from
  /\ phase' = [phase EXCEPT ![r] = to]

(* A listing is requested. *)
Ask(r) ==
  /\ Goto(r, "idle", "root")
  /\ UNCHANGED <<dbVars, cancelled, poolVars, files, crashes>>

(* getTree(commit): the root tree is fetched, which also checks access. *)
FetchRoot(r) ==
  /\ Goto(r, "root", "check")
  /\ UNCHANGED <<dbVars, cancelled, poolVars, files, crashes>>

FetchRootFails(r) ==
  /\ Goto(r, "root", "error")
  /\ UNCHANGED <<dbVars, cancelled, poolVars, files, crashes>>

(* IsIndexed says yes: the answer comes from the database alone. *)
HitIndex(r) ==
  /\ RootOf[r] \in indexed
  /\ Goto(r, "check", "search")
  /\ UNCHANGED <<dbVars, cancelled, poolVars, files, crashes>>

(* IsIndexed says no, or fails, which the code treats alike: the workers   *)
(* start, the root task is queued and the closer goroutine starts.         *)
StartPool(r) ==
  /\ Goto(r, "check", "run")
  /\ tasks' = [tasks EXCEPT ![r] = <<RootTask(r)>>]
  /\ taskWG' = [taskWG EXCEPT ![r] = 1]
  /\ closer' = [closer EXCEPT ![r] = "waiting"]
  /\ UNCHANGED <<dbVars, cancelled, failed, closed, seen, stage, task, todo,
                 files, crashes>>
-----------------------------------------------------------------------------
(* The workers *)

SetStage(r, w, s) == stage' = [stage EXCEPT ![r][w] = s]

(* defer taskWG.Done(), and the worker is back at its select. *)
TaskDone(r, w) ==
  /\ SetStage(r, w, "idle")
  /\ task' = [task EXCEPT ![r][w] = NoTask]
  /\ todo' = [todo EXCEPT ![r][w] = {}]
  /\ taskWG' = [taskWG EXCEPT ![r] = @ - 1]

(* setFirstErr: an error that is context.Canceled is dropped.  Under a     *)
(* cancelled context a call may fail with that error or with another one.  *)
SetFirstErr(r) ==
  \E ignored \in {cancelled[r], FALSE} :
     failed' = [failed EXCEPT ![r] = @ \/ ~ignored]

(* The select takes a task.  It may do so after a cancellation as well:    *)
(* Go picks among the ready cases at random.                               *)
Receive(r, w) ==
  /\ phase[r] = "run" /\ stage[r][w] = "idle" /\ tasks[r] # <<>>
  /\ task' = [task EXCEPT ![r][w] = Head(tasks[r])]
  /\ tasks' = [tasks EXCEPT ![r] = Tail(@)]
  /\ SetStage(r, w, "got")
  /\ UNCHANGED <<dbVars, phase, cancelled, failed, closed, taskWG, seen, todo,
                 closer, files, crashes>>

(* The select sees the channel closed and empty. *)
ExitOnClose(r, w) ==
  /\ phase[r] = "run" /\ stage[r][w] = "idle" /\ tasks[r] = <<>> /\ closed[r]
  /\ SetStage(r, w, "exited")
  /\ UNCHANGED <<dbVars, phase, cancelled, failed, tasks, closed, taskWG, seen,
                 task, todo, closer, files, crashes>>

(* The select sees ctx.Done(). *)
ExitOnCancel(r, w) ==
  /\ phase[r] = "run" /\ stage[r][w] = "idle" /\ cancelled[r]
  /\ SetStage(r, w, "exited")
  /\ UNCHANGED <<dbVars, phase, cancelled, failed, tasks, closed, taskWG, seen,
                 task, todo, closer, files, crashes>>

(* The root task needs no claim and no fetch: its tree is at hand. *)
ClaimRoot(r, w) ==
  /\ stage[r][w] = "got" /\ task[r][w].isRoot
  /\ SetStage(r, w, "loop")
  /\ todo' = [todo EXCEPT ![r][w] = Directories(task[r][w].sha)]
  /\ UNCHANGED <<dbVars, phase, cancelled, failed, tasks, closed, taskWG, seen,
                 task, closer, files, crashes>>

(* Variant: the tree is looked up in seenTrees but not entered. *)
ClaimNotStored(r, w) ==
  /\ stage[r][w] = "got" /\ ~task[r][w].isRoot
  /\ task[r][w].sha \notin seen[r]
  /\ SetStage(r, w, "fetch")
  /\ UNCHANGED <<dbVars, phase, cancelled, failed, tasks, closed, taskWG, seen,
                 task, todo, closer, files, crashes>>

(* seenTrees.LoadOrStore: the first to claim a tree goes on to fetch it. *)
Claim(r, w) ==
  /\ stage[r][w] = "got" /\ ~task[r][w].isRoot
  /\ task[r][w].sha \notin seen[r]
  /\ seen' = [seen EXCEPT ![r] = @ \cup {task[r][w].sha}]
  /\ SetStage(r, w, "fetch")
  /\ UNCHANGED <<dbVars, phase, cancelled, failed, tasks, closed, taskWG, task,
                 todo, closer, files, crashes>>

(* Variant: Done is called by the early return and again by the defer. *)
SkipCountedTwice(r, w) ==
  /\ stage[r][w] = "got" /\ ~task[r][w].isRoot
  /\ task[r][w].sha \in seen[r]
  /\ SetStage(r, w, "idle")
  /\ task' = [task EXCEPT ![r][w] = NoTask]
  /\ taskWG' = [taskWG EXCEPT ![r] = @ - 2]
  /\ UNCHANGED <<dbVars, phase, cancelled, failed, tasks, closed, seen, todo,
                 closer, files, crashes>>

(* The tree was claimed before: under another path, the same directory.    *)
Skip(r, w) ==
  /\ stage[r][w] = "got" /\ ~task[r][w].isRoot
  /\ task[r][w].sha \in seen[r]
  /\ TaskDone(r, w)
  /\ UNCHANGED <<dbVars, phase, cancelled, failed, tasks, closed, seen, closer,
                 files, crashes>>

(* getTree(task.sha) returns the tree's lines. *)
FetchTree(r, w) ==
  /\ stage[r][w] = "fetch"
  /\ SetStage(r, w, "loop")
  /\ todo' = [todo EXCEPT ![r][w] = Directories(task[r][w].sha)]
  /\ UNCHANGED <<dbVars, phase, cancelled, failed, tasks, closed, taskWG, seen,
                 task, closer, files, crashes>>

(* Variant: the early return misses taskWG.Done. *)
FetchTreeFailsUncounted(r, w) ==
  /\ stage[r][w] = "fetch"
  /\ SetFirstErr(r)
  /\ SetStage(r, w, "idle")
  /\ task' = [task EXCEPT ![r][w] = NoTask]
  /\ UNCHANGED <<dbVars, phase, cancelled, tasks, closed, taskWG, seen, todo,
                 closer, files, crashes>>

(* getTree fails, after its retries or its timeout of five minutes. *)
FetchTreeFails(r, w) ==
  /\ stage[r][w] = "fetch"
  /\ SetFirstErr(r)
  /\ TaskDone(r, w)
  /\ UNCHANGED <<dbVars, phase, cancelled, tasks, closed, seen, closer, files,
                 crashes>>

(* Variant: the send is not announced to the WaitGroup. *)
SendUncounted(r, w, n) ==
  /\ stage[r][w] = "loop" /\ n \in todo[r][w]
  /\ Len(tasks[r]) < Capacity
  /\ tasks' = [tasks EXCEPT ![r] = Append(@, SubTask(n))]
  /\ todo' = [todo EXCEPT ![r][w] = @ \ {n}]
  /\ UNCHANGED <<dbVars, phase, cancelled, failed, closed, taskWG, seen, stage,
                 task, closer, files, crashes>>

(* One directory of the listing is queued: taskWG.Add(1), then a send that *)
(* blocks while the channel is full and does not look at the context.      *)
Send(r, w, n) ==
  /\ stage[r][w] = "loop" /\ n \in todo[r][w]
  /\ Len(tasks[r]) < Capacity
  /\ taskWG' = [taskWG EXCEPT ![r] = @ + 1]
  /\ tasks' = [tasks EXCEPT ![r] = Append(@, SubTask(n))]
  /\ todo' = [todo EXCEPT ![r][w] = @ \ {n}]
  /\ UNCHANGED <<dbVars, phase, cancelled, failed, closed, seen, stage, task,
                 closer, files, crashes>>

(* SaveEntries: one transaction stores the lines of the directory.  A      *)
(* transaction under a cancelled context does not commit.                  *)
Save(r, w) ==
  /\ stage[r][w] = "loop" /\ todo[r][w] = {}
  /\ ~cancelled[r]
  /\ rows' = rows \cup Listed[task[r][w].sha]
  /\ TaskDone(r, w)
  /\ UNCHANGED <<indexed, phase, cancelled, failed, tasks, closed, seen, closer,
                 files, crashes>>

(* Variant: the failure of SaveEntries is only logged. *)
SaveFailsSilently(r, w) ==
  /\ stage[r][w] = "loop" /\ todo[r][w] = {}
  /\ TaskDone(r, w)
  /\ UNCHANGED <<dbVars, phase, cancelled, failed, tasks, closed, seen, closer,
                 files, crashes>>

SaveFails(r, w) ==
  /\ stage[r][w] = "loop" /\ todo[r][w] = {}
  /\ SetFirstErr(r)
  /\ TaskDone(r, w)
  /\ UNCHANGED <<dbVars, phase, cancelled, tasks, closed, seen, closer, files,
                 crashes>>

(* The closer goroutine: taskWG.Wait(), then close(tasks).  It outlives a  *)
(* call that was cancelled.                                                *)
CloseTasks(r) ==
  /\ closer[r] = "waiting" /\ taskWG[r] = 0
  /\ closed' = [closed EXCEPT ![r] = TRUE]
  /\ closer' = [closer EXCEPT ![r] = "done"]
  /\ UNCHANGED <<dbVars, phase, cancelled, failed, tasks, taskWG, seen, stage,
                 task, todo, files, crashes>>
-----------------------------------------------------------------------------
(* The calling goroutine, after the pool *)

(* Variant: the errors of the workers are not looked at. *)
FinishIgnoringErrors(r) ==
  /\ \A w \in Worker : stage[r][w] = "exited"
  /\ Goto(r, "run", "mark")
  /\ UNCHANGED <<dbVars, cancelled, poolVars, files, crashes>>

(* wg.Wait() returns; the first error, if there is one, is the answer. *)
Finish(r) ==
  /\ \A w \in Worker : stage[r][w] = "exited"
  /\ Goto(r, "run", IF failed[r] THEN "error" ELSE "mark")
  /\ UNCHANGED <<dbVars, cancelled, poolVars, files, crashes>>

(* Variant: the mark is made with a context that cannot be cancelled. *)
MarkDetached(r) ==
  /\ Goto(r, "mark", "search")
  /\ indexed' = indexed \cup {RootOf[r]}
  /\ UNCHANGED <<rows, cancelled, poolVars, files, crashes>>

(* MarkIndexed; database/sql refuses a context that is already cancelled. *)
Mark(r) ==
  /\ ~cancelled[r]
  /\ Goto(r, "mark", "search")
  /\ indexed' = indexed \cup {RootOf[r]}
  /\ UNCHANGED <<rows, cancelled, poolVars, files, crashes>>

(* The error of MarkIndexed is ignored. *)
MarkFails(r) ==
  /\ Goto(r, "mark", "search")
  /\ UNCHANGED <<dbVars, cancelled, poolVars, files, crashes>>

(* Search: the recursive query reads one snapshot of the database. *)
Search(r) ==
  /\ ~cancelled[r]
  /\ Goto(r, "search", "ok")
  /\ files' = [files EXCEPT ![r] = Found(rows, RootOf[r])]
  /\ UNCHANGED <<dbVars, cancelled, poolVars, crashes>>

(* A cancellation while the rows are read ends rows.Next() early.  The     *)
(* code never asks rows.Err(), so what was read so far is the answer.      *)
SearchCutShort(r) ==
  /\ cancelled[r]
  /\ Goto(r, "search", "ok")
  /\ \E part \in SUBSET Found(rows, RootOf[r]) :
        files' = [files EXCEPT ![r] = part]
  /\ UNCHANGED <<dbVars, cancelled, poolVars, crashes>>

SearchFails(r) ==
  /\ Goto(r, "search", "error")
  /\ UNCHANGED <<dbVars, cancelled, poolVars, files, crashes>>
-----------------------------------------------------------------------------
(* The environment *)

(* The caller goes away: the request's context is cancelled. *)
Cancel(r) ==
  /\ Live(r) /\ ~cancelled[r]
  /\ cancelled' = [cancelled EXCEPT ![r] = TRUE]
  /\ UNCHANGED <<dbVars, phase, poolVars, files, crashes>>

(* The process dies and restarts: only committed transactions survive. *)
Crash ==
  /\ crashes < MaxCrashes
  /\ crashes' = crashes + 1
  /\ phase' = [r \in Request |-> "idle"]
  /\ cancelled' = [r \in Request |-> FALSE]
  /\ failed' = [r \in Request |-> FALSE]
  /\ tasks' = [r \in Request |-> <<>>]
  /\ closed' = [r \in Request |-> FALSE]
  /\ taskWG' = [r \in Request |-> 0]
  /\ seen' = [r \in Request |-> {}]
  /\ stage' = [r \in Request |-> [w \in Worker |-> "idle"]]
  /\ task' = [r \in Request |-> [w \in Worker |-> NoTask]]
  /\ todo' = [r \in Request |-> [w \in Worker |-> {}]]
  /\ closer' = [r \in Request |-> "off"]
  /\ files' = [r \in Request |-> {}]
  /\ UNCHANGED dbVars

(* Every call has returned and nobody asks again. *)
Rest ==
  /\ \A r \in Request : phase[r] \in {"ok", "error"}
  /\ UNCHANGED vars

WorkerStep(r, w) ==
  \/ Receive(r, w) \/ ExitOnClose(r, w) \/ ExitOnCancel(r, w)
  \/ ClaimRoot(r, w) \/ Claim(r, w) \/ Skip(r, w)
  \/ FetchTree(r, w) \/ FetchTreeFails(r, w)
  \/ \E n \in Node : Send(r, w, n)
  \/ Save(r, w) \/ SaveFails(r, w)

CallStep(r) ==
  \/ FetchRoot(r) \/ FetchRootFails(r) \/ HitIndex(r) \/ StartPool(r)
  \/ Finish(r) \/ Mark(r) \/ MarkFails(r)
  \/ Search(r) \/ SearchCutShort(r) \/ SearchFails(r)

Next ==
  \/ \E r \in Request :
        \/ Ask(r) \/ Cancel(r) \/ CallStep(r) \/ CloseTasks(r)
        \/ \E w \in Worker : WorkerStep(r, w)
  \/ Crash
  \/ Rest

Spec == Init /\ [][Next]_vars

(* The Go scheduler runs every goroutine that can run; every fetch ends by *)
(* its timeout and every statement of the database by its busy timeout.    *)
Fairness ==
  \A r \in Request :
    /\ WF_vars(CallStep(r))
    /\ WF_vars(CloseTasks(r))
    /\ \A w \in Worker : WF_vars(WorkerStep(r, w))

FairSpec == Spec /\ Fairness
-----------------------------------------------------------------------------
(* Why the marks can be trusted: the inductive invariant *)

InHand(r, w)   == stage[r][w] \in {"got", "fetch", "loop"}
Busy(r)        == {w \in Worker : InHand(r, w)}
QueuedTasks(r) == {tasks[r][i] : i \in DOMAIN tasks[r]}

(* Trees that are waiting to be claimed, and trees that are being expanded *)
Waiting(r) ==
  {k.sha : k \in {j \in QueuedTasks(r) : ~j.isRoot}} \cup
  {task[r][w].sha : w \in {v \in Worker : stage[r][v] = "got"
                                           /\ ~task[r][v].isRoot}}
Expanding(r) ==
  {task[r][w].sha : w \in {v \in Worker : stage[r][v] \in {"fetch", "loop"}}}
RootPending(r) ==
  \/ \E k \in QueuedTasks(r) : k.isRoot
  \/ \E w \in Busy(r) : task[r][w].isRoot

(* A directory entry is accounted for when its tree is claimed or waits. *)
Accounted(r, n) == Target[n] \in seen[r] \cup Waiting(r)

Expanded(r, t) ==
  /\ Listed[t] \subseteq rows
  /\ \A n \in Directories(t) : Accounted(r, n)

(* taskWG counts the queued tasks and those in the hands of a worker. *)
CountsTasks ==
  \A r \in Request : taskWG[r] = Len(tasks[r]) + Cardinality(Busy(r))

OneRoot(r, k) == k.isRoot => k.sha = RootOf[r]

TasksNameTheirRoot ==
  \A r \in Request : \A k \in QueuedTasks(r) : OneRoot(r, k)

WorkersHoldTasks ==
  \A r \in Request : \A w \in Worker :
    /\ InHand(r, w) => task[r][w] \in Task /\ OneRoot(r, task[r][w])
    /\ stage[r][w] = "loop" => todo[r][w] \subseteq Directories(task[r][w].sha)
    /\ stage[r][w] # "loop" => todo[r][w] = {}

PoolOnlyWhileRunning ==
  \A r \in Request :
    /\ phase[r] \in {"idle", "root", "check"} =>
         /\ tasks[r] = <<>> /\ ~closed[r] /\ seen[r] = {} /\ ~failed[r]
         /\ closer[r] = "off"
         /\ \A w \in Worker : stage[r][w] = "idle"
    /\ phase[r] \in {"mark", "search", "ok", "error"} =>
         \A w \in Worker : ~InHand(r, w)

WorkersLeaveLast ==
  \A r \in Request :
    /\ closed[r] <=> closer[r] = "done"
    /\ closed[r] => taskWG[r] = 0
    /\ ~cancelled[r] /\ ~closed[r] =>
         \A w \in Worker : stage[r][w] # "exited"

(* As long as nothing went wrong, no directory has been lost.  *)
NothingLost ==
  \A r \in Request :
    phase[r] = "run" /\ ~failed[r] /\ ~cancelled[r] =>
      /\ \A t \in seen[r] : t \in Expanding(r) \/ Expanded(r, t)
      /\ RootPending(r) \/ Expanded(r, RootOf[r])
      /\ \A w \in Worker : stage[r][w] = "loop" =>
           \A n \in Directories(task[r][w].sha) \ todo[r][w] : Accounted(r, n)

CompleteAfterPool ==
  \A r \in Request :
    phase[r] \in {"mark", "search"} /\ ~cancelled[r] =>
      Complete(rows, RootOf[r])

IndexInv ==
  /\ rows \subseteq Listing
  /\ CountsTasks
  /\ TasksNameTheirRoot
  /\ WorkersHoldTasks
  /\ PoolOnlyWhileRunning
  /\ WorkersLeaveLast
  /\ NothingLost
  /\ CompleteAfterPool
-----------------------------------------------------------------------------
(* A root tree is marked in indexed_trees only when every directory that   *)
(* can be reached from it is stored, whatever requests were cancelled, had *)
(* errors or were cut off by a crash on the way: the mark is trusted by    *)
(* every later request (line 733) and is never taken back.                 *)
IndexedComplete == \A t \in indexed : Complete(rows, t)

(* A call that returns no error, and whose context was alive to the end,   *)
(* returns exactly the files of the commit, although it may have stored    *)
(* none of the directories itself and may have run beside other calls.     *)
AnswersComplete ==
  \A r \in Request :
    phase[r] = "ok" /\ ~cancelled[r] => files[r] = FilesOf(RootOf[r])

(* The channel is closed only after the last directory has been dealt      *)
(* with: a worker that still has something to send would panic.            *)
NoSendAfterClose ==
  \A r \in Request :
    closed[r] => /\ tasks[r] = <<>>
                 /\ \A w \in Worker : stage[r][w] \in {"idle", "exited"}

(* The directory entries below the root of r, each of which is queued once *)
BelowRoot(r) ==
  {n \in Listing : IsDirectory(n) /\ Parent[n] \in Walk(Listing, RootOf[r])}

QueuedAtMost(r) == Cardinality(BelowRoot(r))

(* The workers are the channel's only readers and its only writers, so a   *)
(* full channel would stop them all for good.  As seenTrees lets a tree be *)
(* expanded once, the channel never fills up when it has room for every    *)
(* directory entry below the root, however often a directory is repeated.  *)
NoSendBlocks ==
  \A r \in Request :
    QueuedAtMost(r) <= Capacity =>
      \A w \in Worker : todo[r][w] # {} => Len(tasks[r]) < Capacity

(* A worker waits for nobody: it has a tree to deal with, an entry to send *)
(* or to store, a task to take, or a reason to leave.                      *)
CanGoOn(r, w) ==
  \/ stage[r][w] \in {"got", "fetch"}
  \/ stage[r][w] = "loop" /\ (todo[r][w] = {} \/ Len(tasks[r]) < Capacity)
  \/ stage[r][w] = "idle" /\ (tasks[r] # <<>> \/ closed[r] \/ cancelled[r])

(* Workers wait for tasks, the closer waits for the workers, and the call  *)
(* waits for both (lines 782, 860, 865): never all of them for each other, *)
(* whatever failed or was cancelled.  The closer can go on when the counter*)
(* of tasks is back at 0, the call when every worker has left.             *)
PoolGoesOn ==
  \A r \in Request :
    phase[r] = "run" /\ QueuedAtMost(r) <= Capacity =>
      \/ \E w \in Worker : CanGoOn(r, w)
      \/ closer[r] = "waiting" /\ taskWG[r] = 0
      \/ \A w \in Worker : stage[r][w] = "exited"

(* The directories of t have been handed to a worker. *)
Opened(r, t) ==
  /\ t \in seen[r] \cup {RootOf[r]}
  /\ \A w \in Worker : stage[r][w] = "fetch" => task[r][w].sha # t

RootUnopened(r) ==
  \/ \E k \in QueuedTasks(r) : k.isRoot
  \/ \E w \in Worker : stage[r][w] = "got" /\ task[r][w].isRoot

Unsent(r) ==
  {n \in BelowRoot(r) : \/ ~Opened(r, Parent[n])
                        \/ \E w \in Worker : n \in todo[r][w]}

StillToSend(r) == IF RootUnopened(r) THEN BelowRoot(r) ELSE Unsent(r)

InStages(r, stages) == Cardinality({w \in Worker : stage[r][w] \in stages})

(* What the workers have still to do: take or leave, claim, fetch, store *)
Effort(r) ==
  InStages(r, {"got"}) + InStages(r, {"got", "fetch"})
  + InStages(r, {"got", "fetch", "loop"}) + InStages(r, Stage \ {"exited"})

(* A bound on the steps that the pool has still to take: an entry to send  *)
(* is sent and received, and then takes its worker's effort; in the end    *)
(* the channel is closed.                                                  *)
StepsLeft(r) ==
  5 * Cardinality(StillToSend(r)) + 4 * Len(tasks[r]) + Effort(r)
  + IF closer[r] = "waiting" THEN 1 ELSE 0

Pool(r) ==
  <<tasks[r], closed[r], taskWG[r], seen[r], stage[r], task[r], todo[r], closer[r]>>

(* Whatever a worker or the closer does brings the pool nearer to its end, *)
(* in whatever order they do it: no directory is expanded twice, nothing is*)
(* put back, no worker comes back (lines 775-865).                         *)
PoolNearsItsEnd ==
  [][\A r \in Request :
       phase[r] = "run" /\ phase'[r] = "run" /\ Pool(r)' # Pool(r) =>
         StepsLeft(r)' \in 0..(StepsLeft(r) - 1)]_vars

(* Every call returns: with its listing, or with an error (line 865 waits  *)
(* for workers that wait for each other).                                  *)
EveryCallReturns == \A r \in Request : Live(r) ~> ~Live(r)

(* What a caller can tell of its call *)
StatusMap == [r \in Request |-> CASE phase[r] = "idle" -> "idle"
                                  [] phase[r] \in {"ok", "error"} -> phase[r]
                                  [] OTHER -> "pending"]

Promise == INSTANCE CommitListing WITH status <- StatusMap, gone <- cancelled

(* The indexer keeps the promise of CommitListing: it stores directories,  *)
(* marks a root tree only when all of it is stored, and answers a caller   *)
(* that is still there with the whole listing (lines 723-887).             *)
ImplementsPromise == Promise!Spec

(* Unless its call is cancelled, the goroutine that waits for all tasks to *)
(* be finished gets to close the channel, however many of them fail (line  *)
(* 860); a cancelled call may leave tasks that nobody finishes.            *)
CloserEnds ==
  \A r \in Request :
    closer[r] = "waiting" ~> closer[r] # "waiting" \/ cancelled[r]
=============================================================================
