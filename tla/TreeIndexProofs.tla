-------------------------- MODULE TreeIndexProofs ---------------------------
(* The marks of indexed_trees can be trusted: proofs about TreeIndex.      *)
EXTENDS TreeIndex, FiniteSetTheorems, SequenceTheorems, TLAPS

(* What can be reached from a tree *)

(* A walk starts at its root and follows every directory row it meets.     *)
LEMMA WalkIsClosed ==
  ASSUME NEW data, NEW root \in Tree
  PROVE  /\ Walk(data, root) \subseteq Tree
         /\ root \in Walk(data, root)
         /\ ClosedUnder(data, Walk(data, root))
<1>1. root \in Walk(data, root) /\ Walk(data, root) \subseteq Tree
  BY DEF Walk
<1>2. ASSUME NEW n \in data, Parent[n] \in Walk(data, root), IsDirectory(n)
      PROVE  Target[n] \in Walk(data, root)
  <2>1. Target[n] \in Tree
    BY <1>2 DEF IsDirectory
  <2>2. ASSUME NEW S \in SUBSET Tree, root \in S, ClosedUnder(data, S)
        PROVE  Target[n] \in S
    <3>1. Parent[n] \in S
      BY <1>2, <2>2 DEF Walk
    <3>2. QED
      BY <1>2, <2>2, <3>1 DEF ClosedUnder
  <2>3. QED
    BY <2>1, <2>2 DEF Walk
<1>3. QED
  BY <1>1, <1>2 DEF ClosedUnder

(* A walk stays inside every closed set that holds its root.               *)
LEMMA WalkIsLeast ==
  ASSUME NEW data, NEW root, NEW S \in SUBSET Tree,
         root \in S, ClosedUnder(data, S)
  PROVE  Walk(data, root) \subseteq S
BY DEF Walk

(* A listing that is complete stays complete when rows are added.          *)
LEMMA CompleteMonotone ==
  ASSUME NEW data, NEW more, NEW root, data \subseteq more,
         Complete(data, root)
  PROVE  Complete(more, root)
BY DEF Complete

(* To know a listing complete it is enough to have a set of stored trees   *)
(* that holds the root and is closed under subdirectories.                 *)
LEMMA CompleteByClosedSet ==
  ASSUME NEW data, NEW root, NEW S \in SUBSET Tree, root \in S,
         \A t \in S : /\ Listed[t] \subseteq data
                      /\ \A n \in Directories(t) : Target[n] \in S
  PROVE  Complete(data, root)
<1>1. ClosedUnder(Listing, S)
  BY DEF ClosedUnder, Listing, Directories
<1>2. Walk(Listing, root) \subseteq S
  BY <1>1, WalkIsLeast
<1>3. QED
  BY <1>2 DEF Complete

(* Search on a complete listing returns exactly the files of the commit,   *)
(* whatever other commits have stored in the same table.                   *)
LEMMA SearchOnComplete ==
  ASSUME NEW data, NEW root \in Tree, data \subseteq Listing,
         Complete(data, root)
  PROVE  Found(data, root) = FilesOf(root)
<1> DEFINE full == Walk(Listing, root)
           part == Walk(data, root)
<1>1. full \subseteq Tree /\ root \in full /\ ClosedUnder(Listing, full)
  BY WalkIsClosed
<1>2. part \subseteq Tree /\ root \in part /\ ClosedUnder(data, part)
  BY WalkIsClosed
<1>3. part \subseteq full
  <2>1. ClosedUnder(data, full)
    BY <1>1 DEF ClosedUnder
  <2>2. QED
    BY <1>1, <2>1, WalkIsLeast
<1>4. \A n \in Listing : Parent[n] \in full => n \in data
  BY DEF Complete, Listing
<1>5. full \subseteq part
  <2>1. ClosedUnder(Listing, part)
    BY <1>2, <1>3, <1>4 DEF ClosedUnder
  <2>2. QED
    BY <1>2, <2>1, WalkIsLeast
<1>6. full = part
  BY <1>3, <1>5
<1>7. ASSUME NEW n
      PROVE  n \in Found(data, root) <=> n \in FilesOf(root)
  BY <1>4, <1>6 DEF Found, FilesOf
<1>8. QED
  BY <1>7 DEF Found, FilesOf

(* Search never returns a file that is not in the commit.                  *)
LEMMA SearchWithin ==
  ASSUME NEW data, NEW root \in Tree, data \subseteq Listing
  PROVE  Found(data, root) \subseteq FilesOf(root)
<1>1. ClosedUnder(data, Walk(Listing, root)) /\ root \in Walk(Listing, root)
  BY WalkIsClosed DEF ClosedUnder
<1>2. Walk(data, root) \subseteq Walk(Listing, root)
  BY <1>1, WalkIsClosed, WalkIsLeast
<1>3. QED
  BY <1>2 DEF Found, FilesOf
-----------------------------------------------------------------------------
(* The inductive invariant: the types, the accounting of every task and of *)
(* every directory, and the two results that rest on it.                   *)
IInv ==
  /\ TypeOK
  /\ IndexInv
  /\ IndexedComplete
  /\ AnswersComplete

USE TreesAssumption, IndexAssumption
-----------------------------------------------------------------------------
(* Workers and their tasks *)

LEMMA BusyFinite ==
  ASSUME NEW r \in Request
  PROVE  /\ IsFiniteSet(Busy(r))
         /\ Cardinality(Busy(r)) \in Nat
<1>1. Busy(r) \subseteq Worker
  BY DEF Busy
<1>2. QED
  BY <1>1, FS_Subset, FS_CardinalityType

(* A worker with a task in its hands is counted by taskWG, so that Done    *)
(* never makes the counter negative.                                       *)
LEMMA BusyIsCounted ==
  ASSUME TypeOK, CountsTasks, NEW r \in Request, NEW w \in Busy(r)
  PROVE  taskWG[r] > 0
<1>1. Cardinality(Busy(r)) \in Nat /\ Cardinality(Busy(r)) # 0
  BY BusyFinite, FS_EmptySet
<1>2. Len(tasks[r]) \in Nat
  BY DEF TypeOK
<1>3. QED
  BY <1>1, <1>2 DEF CountsTasks

(* Type correctness of a step. *)
LEMMA TypeStep ==
  ASSUME TypeOK, CountsTasks, WorkersHoldTasks, Next
  PROVE  TypeOK'
<1> USE DEF Goto, SetStage, dbVars, poolVars, Phase, Stage, Closer
<1>1. ASSUME NEW r \in Request, Ask(r) \/ Cancel(r) PROVE TypeOK'
  BY <1>1 DEF TypeOK, Ask, Cancel
<1>2. ASSUME NEW r \in Request, CallStep(r) PROVE TypeOK'
  <2>1. CASE FetchRoot(r) \/ FetchRootFails(r) \/ HitIndex(r)
    BY <2>1 DEF TypeOK, FetchRoot, FetchRootFails, HitIndex
  <2>2. CASE StartPool(r)
    <3>1. RootTask(r) \in Task
      BY DEF RootTask, Task
    <3>2. QED
      BY <2>2, <3>1 DEF TypeOK, StartPool
  <2>3. CASE Finish(r) \/ MarkFails(r) \/ SearchFails(r)
    BY <2>3 DEF TypeOK, Finish, MarkFails, SearchFails
  <2>4. CASE Mark(r)
    BY <2>4 DEF TypeOK, Mark
  <2>5. CASE Search(r) \/ SearchCutShort(r)
    <3>1. Found(rows, RootOf[r]) \subseteq Node
      BY DEF Found, TypeOK
    <3>2. PICK answer \in SUBSET Node : files' = [files EXCEPT ![r] = answer]
      BY <2>5, <3>1 DEF Search, SearchCutShort
    <3>3. files' \in [Request -> SUBSET Node]
      BY <3>2 DEF TypeOK
    <3>4. QED
      BY <2>5, <3>3 DEF TypeOK, Search, SearchCutShort
  <2>6. QED
    BY <1>2, <2>1, <2>2, <2>3, <2>4, <2>5 DEF CallStep
<1>3. ASSUME NEW r \in Request, CloseTasks(r) PROVE TypeOK'
  BY <1>3 DEF TypeOK, CloseTasks
<1>4. ASSUME NEW r \in Request, NEW w \in Worker, WorkerStep(r, w) PROVE TypeOK'
  <2>1. CASE Receive(r, w)
    BY <2>1 DEF TypeOK, Receive
  <2>2. CASE ExitOnClose(r, w) \/ ExitOnCancel(r, w)
    <3>1. stage' = [stage EXCEPT ![r][w] = "exited"]
      BY <2>2 DEF ExitOnClose, ExitOnCancel
    <3>2. UNCHANGED <<rows, indexed, phase, cancelled, failed, tasks, closed,
                      taskWG, seen, task, todo, closer, files, crashes>>
      BY <2>2 DEF ExitOnClose, ExitOnCancel
    <3>3. QED
      BY <3>1, <3>2 DEF TypeOK
  <2>3. CASE ClaimRoot(r, w) \/ FetchTree(r, w)
    <3>1. stage' = [stage EXCEPT ![r][w] = "loop"]
      BY <2>3 DEF ClaimRoot, FetchTree
    <3>2. PICK dirs \in SUBSET Node : todo' = [todo EXCEPT ![r][w] = dirs]
      <4>1. task[r][w] \in Task
        BY <2>3 DEF ClaimRoot, FetchTree, WorkersHoldTasks, InHand
      <4>2. Directories(task[r][w].sha) \subseteq Node
        BY <4>1 DEF Directories, Task
      <4>3. QED
        BY <2>3, <4>2 DEF ClaimRoot, FetchTree
    <3>3. UNCHANGED <<rows, indexed, phase, cancelled, failed, tasks, closed,
                      taskWG, seen, task, closer, files, crashes>>
      BY <2>3 DEF ClaimRoot, FetchTree
    <3>4. QED
      BY <3>1, <3>2, <3>3 DEF TypeOK
  <2>4. CASE Claim(r, w)
    BY <2>4 DEF TypeOK, Claim, WorkersHoldTasks, InHand, Task
  <2>5. CASE Skip(r, w) \/ FetchTreeFails(r, w) \/ Save(r, w) \/ SaveFails(r, w)
    <3>1. taskWG[r] > 0 /\ task[r][w] \in Task
      BY <2>5, BusyIsCounted
      DEF Skip, FetchTreeFails, Save, SaveFails, Busy, InHand, WorkersHoldTasks
    <3>2. TaskDone(r, w)
      BY <2>5 DEF Skip, FetchTreeFails, Save, SaveFails
    <3>3. /\ stage' \in [Request -> [Worker -> Stage]]
          /\ task' \in [Request -> [Worker -> Task \cup {NoTask}]]
          /\ todo' \in [Request -> [Worker -> SUBSET Node]]
          /\ taskWG' \in [Request -> Nat]
      BY <3>1, <3>2 DEF TypeOK, TaskDone
    <3>4. failed' \in [Request -> BOOLEAN] /\ rows' \subseteq Node
      BY <2>5, <3>1
      DEF TypeOK, Skip, FetchTreeFails, Save, SaveFails, SetFirstErr, Task
    <3>5. UNCHANGED <<indexed, phase, cancelled, tasks, closed, seen, closer,
                      files, crashes>>
      BY <2>5 DEF Skip, FetchTreeFails, Save, SaveFails
    <3>6. QED
      BY <3>3, <3>4, <3>5 DEF TypeOK
  <2>6. ASSUME NEW n \in Node, Send(r, w, n) PROVE TypeOK'
    <3>1. SubTask(n) \in Task
      BY <2>6 DEF Send, SubTask, Task, Directories, IsDirectory, WorkersHoldTasks
    <3>2. tasks' \in [Request -> Seq(Task)] /\ taskWG' \in [Request -> Nat]
      BY <2>6, <3>1 DEF TypeOK, Send
    <3>3. todo' \in [Request -> [Worker -> SUBSET Node]]
      BY <2>6 DEF TypeOK, Send
    <3>4. QED
      BY <2>6, <3>2, <3>3 DEF TypeOK, Send
  <2>7. QED
    BY <1>4, <2>1, <2>2, <2>3, <2>4, <2>5, <2>6 DEF WorkerStep
<1>5. CASE Crash
  BY <1>5 DEF TypeOK, Crash
<1>6. CASE Rest
  BY <1>6 DEF TypeOK, Rest, vars
<1>7. QED
  BY <1>1, <1>2, <1>3, <1>4, <1>5, <1>6 DEF Next
-----------------------------------------------------------------------------
(* What a step leaves alone *)

Same(q) ==
  /\ phase'[q] = phase[q]
  /\ cancelled'[q] = cancelled[q]
  /\ failed'[q] = failed[q]
  /\ tasks'[q] = tasks[q]
  /\ closed'[q] = closed[q]
  /\ taskWG'[q] = taskWG[q]
  /\ seen'[q] = seen[q]
  /\ stage'[q] = stage[q]
  /\ task'[q] = task[q]
  /\ todo'[q] = todo[q]
  /\ closer'[q] = closer[q]
  /\ files'[q] = files[q]

(* A step of one request leaves the others alone.                          *)
LEMMA OthersKeepState ==
  ASSUME TypeOK, NEW r \in Request, NEW q \in Request, q # r,
         \/ Ask(r) \/ Cancel(r) \/ CallStep(r) \/ CloseTasks(r)
         \/ \E w \in Worker : WorkerStep(r, w)
  PROVE  Same(q)
<1> USE DEF TypeOK, Same, Goto, dbVars, poolVars
<1>1. CASE Ask(r) \/ Cancel(r) \/ CloseTasks(r)
  BY <1>1 DEF Ask, Cancel, CloseTasks
<1>2. CASE CallStep(r)
  BY <1>2 DEF CallStep, FetchRoot, FetchRootFails, HitIndex, StartPool, Finish,
              Mark, MarkFails, Search, SearchCutShort, SearchFails
<1>3. ASSUME NEW w \in Worker, WorkerStep(r, w) PROVE Same(q)
  <2> USE DEF SetStage, TaskDone, SetFirstErr
  <2>1. CASE Receive(r, w) \/ ExitOnClose(r, w) \/ ExitOnCancel(r, w)
    BY <2>1 DEF Receive, ExitOnClose, ExitOnCancel
  <2>2. CASE ClaimRoot(r, w) \/ Claim(r, w) \/ FetchTree(r, w)
    BY <2>2 DEF ClaimRoot, Claim, FetchTree
  <2>3. CASE Skip(r, w) \/ FetchTreeFails(r, w) \/ Save(r, w) \/ SaveFails(r, w)
    BY <2>3 DEF Skip, FetchTreeFails, Save, SaveFails
  <2>4. CASE \E n \in Node : Send(r, w, n)
    BY <2>4 DEF Send
  <2>5. QED
    BY <1>3, <2>1, <2>2, <2>3, <2>4 DEF WorkerStep
<1>4. QED
  BY <1>1, <1>2, <1>3

(* Rows and marks are never taken back, and only a marking adds a mark.    *)
LEMMA DatabaseGrows ==
  ASSUME Next
  PROVE  /\ rows \subseteq rows'
         /\ indexed \subseteq indexed'
         /\ \A t \in indexed' \ indexed : \E r \in Request : Mark(r) /\ t = RootOf[r]
<1> USE DEF dbVars
<1>1. ASSUME NEW r \in Request, Ask(r) \/ Cancel(r) \/ CloseTasks(r)
      PROVE  UNCHANGED dbVars
  BY <1>1 DEF Ask, Cancel, CloseTasks
<1>2. ASSUME NEW r \in Request, CallStep(r)
      PROVE  \/ UNCHANGED dbVars
             \/ Mark(r)
  BY <1>2 DEF CallStep, FetchRoot, FetchRootFails, HitIndex, StartPool, Finish,
              MarkFails, Search, SearchCutShort, SearchFails
<1>3. ASSUME NEW r \in Request, NEW w \in Worker, WorkerStep(r, w)
      PROVE  rows \subseteq rows' /\ UNCHANGED indexed
  BY <1>3 DEF WorkerStep, Receive, ExitOnClose, ExitOnCancel, ClaimRoot, Claim,
              Skip, FetchTree, FetchTreeFails, Send, Save, SaveFails
<1>4. CASE Crash \/ Rest
  BY <1>4 DEF Crash, Rest, vars
<1>5. ASSUME NEW r \in Request, Mark(r)
      PROVE  UNCHANGED rows /\ indexed' = indexed \cup {RootOf[r]}
  BY <1>5 DEF Mark
<1>6. QED
  BY <1>1, <1>2, <1>3, <1>4, <1>5 DEF Next
-----------------------------------------------------------------------------
(* Counting *)

LEMMA BusyChange ==
  ASSUME TypeOK, NEW r \in Request, NEW w \in Worker, NEW s \in Stage,
         SetStage(r, w, s)
  PROVE  /\ s \in {"got", "fetch", "loop"} =>
              Cardinality(Busy(r))' = Cardinality(Busy(r))
                                        + (IF InHand(r, w) THEN 0 ELSE 1)
         /\ s \notin {"got", "fetch", "loop"} =>
              Cardinality(Busy(r))' = Cardinality(Busy(r))
                                        - (IF InHand(r, w) THEN 1 ELSE 0)
<1>1. /\ stage'[r][w] = s
      /\ \A v \in Worker \ {w} : stage'[r][v] = stage[r][v]
  BY DEF SetStage, TypeOK
<1>2. s \in {"got", "fetch", "loop"} => Busy(r)' = Busy(r) \cup {w}
  BY <1>1 DEF Busy, InHand
<1>3. s \notin {"got", "fetch", "loop"} => Busy(r)' = Busy(r) \ {w}
  BY <1>1 DEF Busy, InHand
<1>4. w \in Busy(r) <=> InHand(r, w)
  BY DEF Busy
<1>5. IsFiniteSet(Busy(r)) /\ Cardinality(Busy(r)) \in Nat
  BY BusyFinite
<1>6. /\ Cardinality(Busy(r) \cup {w}) =
           IF w \in Busy(r) THEN Cardinality(Busy(r)) ELSE Cardinality(Busy(r)) + 1
      /\ Cardinality(Busy(r) \ {w}) =
           IF w \in Busy(r) THEN Cardinality(Busy(r)) - 1 ELSE Cardinality(Busy(r))
  BY <1>5, FS_AddElement, FS_RemoveElement
<1>7. CASE s \in {"got", "fetch", "loop"}
  <2>1. Cardinality(Busy(r)') = Cardinality(Busy(r) \cup {w})
    BY <1>2, <1>7
  <2>2. QED
    BY <1>4, <1>5, <1>6, <1>7, <2>1
<1>8. CASE s \notin {"got", "fetch", "loop"}
  <2>1. Cardinality(Busy(r)') = Cardinality(Busy(r) \ {w})
    BY <1>3, <1>8
  <2>2. QED
    BY <1>4, <1>5, <1>6, <1>8, <2>1
<1>9. QED
  BY <1>7, <1>8

LEMMA CountStep ==
  ASSUME TypeOK, TypeOK', CountsTasks, WorkersHoldTasks, PoolOnlyWhileRunning, Next
  PROVE  CountsTasks'
<1> DEFINE Counted(q) == taskWG[q] = Len(tasks[q]) + Cardinality(Busy(q))
<1> USE DEF Goto, dbVars, poolVars
<1>1. ASSUME NEW q \in Request, Same(q) PROVE Counted(q)'
  <2>1. Busy(q)' = Busy(q)
    BY <1>1 DEF Same, Busy, InHand
  <2>2. QED
    BY <1>1, <2>1 DEF Same, CountsTasks
<1>2. ASSUME NEW r \in Request, UNCHANGED <<tasks, taskWG, stage>>
      PROVE  Counted(r)'
  BY <1>2 DEF CountsTasks, Busy, InHand
<1>3. ASSUME NEW r \in Request, Ask(r) \/ Cancel(r) \/ CallStep(r) \/ CloseTasks(r)
      PROVE  Counted(r)'
  <2>1. CASE StartPool(r)
    <3>1. Busy(r)' = {}
      BY <2>1 DEF StartPool, PoolOnlyWhileRunning, Busy, InHand
    <3>2. taskWG'[r] = 1 /\ Len(tasks'[r]) = 1
      BY <2>1 DEF StartPool, TypeOK
    <3>3. QED
      BY <3>1, <3>2, FS_EmptySet
  <2>2. CASE ~StartPool(r)
    BY <1>2, <1>3, <2>2
    DEF Ask, Cancel, CloseTasks, CallStep, FetchRoot, FetchRootFails, HitIndex,
        Finish, Mark, MarkFails, Search, SearchCutShort, SearchFails
  <2>3. QED
    BY <2>1, <2>2
<1>4. ASSUME NEW r \in Request, NEW w \in Worker, WorkerStep(r, w)
      PROVE  Counted(r)'
  <2>0. /\ taskWG[r] = Len(tasks[r]) + Cardinality(Busy(r))
        /\ Cardinality(Busy(r)) \in Nat /\ Len(tasks[r]) \in Nat
        /\ taskWG[r] \in Nat
    BY BusyFinite DEF CountsTasks, TypeOK
  <2>1. CASE Receive(r, w)
    <3>1. Cardinality(Busy(r))' = Cardinality(Busy(r)) + 1
      BY <2>1, BusyChange DEF Receive, InHand, Stage
    <3>2. tasks'[r] = Tail(tasks[r]) /\ taskWG'[r] = taskWG[r]
      BY <2>1 DEF Receive, TypeOK
    <3>3. Len(tasks'[r]) = Len(tasks[r]) - 1
      BY <2>1, <3>2, HeadTailProperties DEF Receive, TypeOK
    <3>4. QED
      BY <2>0, <3>1, <3>2, <3>3
  <2>2. CASE ExitOnClose(r, w) \/ ExitOnCancel(r, w)
    <3>1. Cardinality(Busy(r))' = Cardinality(Busy(r))
      BY <2>2, <2>0, BusyChange DEF ExitOnClose, ExitOnCancel, InHand, Stage
    <3>2. UNCHANGED <<tasks, taskWG>>
      BY <2>2 DEF ExitOnClose, ExitOnCancel
    <3>3. QED
      BY <2>0, <3>1, <3>2
  <2>3. CASE ClaimRoot(r, w) \/ Claim(r, w) \/ FetchTree(r, w)
    <3>1. Cardinality(Busy(r))' = Cardinality(Busy(r))
      BY <2>3, <2>0, BusyChange DEF ClaimRoot, Claim, FetchTree, InHand, Stage
    <3>2. UNCHANGED <<tasks, taskWG>>
      BY <2>3 DEF ClaimRoot, Claim, FetchTree
    <3>3. QED
      BY <2>0, <3>1, <3>2
  <2>4. CASE Skip(r, w) \/ FetchTreeFails(r, w) \/ Save(r, w) \/ SaveFails(r, w)
    <3>1. TaskDone(r, w) /\ InHand(r, w) /\ UNCHANGED tasks
      BY <2>4 DEF Skip, FetchTreeFails, Save, SaveFails, InHand
    <3>2. Cardinality(Busy(r))' = Cardinality(Busy(r)) - 1
      BY <3>1, BusyChange DEF TaskDone, Stage
    <3>3. taskWG'[r] = taskWG[r] - 1
      BY <3>1 DEF TaskDone, TypeOK
    <3>4. QED
      BY <2>0, <3>1, <3>2, <3>3
  <2>5. ASSUME NEW n \in Node, Send(r, w, n) PROVE Counted(r)'
    <3>1. SubTask(n) \in Task
      BY <2>5 DEF Send, SubTask, Task, Directories, IsDirectory, WorkersHoldTasks
    <3>2. taskWG'[r] = taskWG[r] + 1 /\ tasks'[r] = Append(tasks[r], SubTask(n))
      BY <2>5 DEF Send, TypeOK
    <3>3. Len(tasks'[r]) = Len(tasks[r]) + 1
      BY <3>1, <3>2 DEF TypeOK
    <3>4. Busy(r)' = Busy(r)
      BY <2>5 DEF Send, Busy, InHand
    <3>5. QED
      BY <2>0, <3>2, <3>3, <3>4
  <2>6. QED
    BY <1>4, <2>1, <2>2, <2>3, <2>4, <2>5 DEF WorkerStep
<1>5. ASSUME Crash, NEW q \in Request PROVE Counted(q)'
  <2>1. Busy(q)' = {}
    BY <1>5 DEF Crash, Busy, InHand
  <2>2. taskWG'[q] = 0 /\ Len(tasks'[q]) = 0
    BY <1>5 DEF Crash
  <2>3. QED
    BY <2>1, <2>2, FS_EmptySet
<1>6. CASE Rest
  BY <1>2, <1>6 DEF Rest, vars, CountsTasks
<1>7. QED
  BY <1>1, <1>3, <1>4, <1>5, <1>6, OthersKeepState DEF Next, CountsTasks
-----------------------------------------------------------------------------
(* The pool *)

LEMMA QueueTakes ==
  ASSUME NEW s \in Seq(Task), s # <<>>
  PROVE  /\ Head(s) \in Task
         /\ {s[i] : i \in DOMAIN s} =
              {Head(s)} \cup {Tail(s)[i] : i \in DOMAIN Tail(s)}
<1>1. Len(s) \in Nat \ {0} /\ DOMAIN s = 1..Len(s)
  BY EmptySeq, LenProperties
<1>2. DOMAIN Tail(s) = 1..(Len(s) - 1)
  BY <1>1, HeadTailProperties, LenProperties
<1>3. \A i \in 1..(Len(s) - 1) : Tail(s)[i] = s[i + 1]
  BY <1>1
<1>4. Head(s) = s[1]
  BY <1>1
<1>5. ASSUME NEW i \in DOMAIN s
      PROVE  s[i] \in {Head(s)} \cup {Tail(s)[j] : j \in DOMAIN Tail(s)}
  <2>1. CASE i = 1
    BY <2>1, <1>4
  <2>2. CASE i # 1
    <3>1. i - 1 \in DOMAIN Tail(s) /\ s[i] = Tail(s)[i - 1]
      BY <1>1, <1>2, <1>3, <2>2
    <3>2. QED
      BY <3>1
  <2>3. QED
    BY <2>1, <2>2
<1>6. ASSUME NEW j \in DOMAIN Tail(s)
      PROVE  Tail(s)[j] \in {s[i] : i \in DOMAIN s}
  <2>1. j + 1 \in DOMAIN s /\ Tail(s)[j] = s[j + 1]
    BY <1>1, <1>2, <1>3
  <2>2. QED
    BY <2>1
<1>7. Head(s) \in {s[i] : i \in DOMAIN s} /\ Head(s) \in Task
  BY <1>1, <1>4, ElementOfSeq
<1>8. QED
  BY <1>5, <1>6, <1>7

LEMMA QueueAppends ==
  ASSUME NEW s \in Seq(Task), NEW k \in Task
  PROVE  {Append(s, k)[i] : i \in DOMAIN Append(s, k)} =
           {s[i] : i \in DOMAIN s} \cup {k}
<1>1. Len(s) \in Nat /\ DOMAIN s = 1..Len(s)
  BY LenProperties
<1>2. /\ DOMAIN Append(s, k) = 1..(Len(s) + 1)
      /\ \A i \in 1..Len(s) : Append(s, k)[i] = s[i]
      /\ Append(s, k)[Len(s) + 1] = k
  BY <1>1
<1>3. ASSUME NEW i \in DOMAIN Append(s, k)
      PROVE  Append(s, k)[i] \in {s[j] : j \in DOMAIN s} \cup {k}
  BY <1>1, <1>2
<1>4. ASSUME NEW j \in DOMAIN s
      PROVE  s[j] \in {Append(s, k)[i] : i \in DOMAIN Append(s, k)}
  <2>1. j \in DOMAIN Append(s, k) /\ Append(s, k)[j] = s[j]
    BY <1>1, <1>2
  <2>2. QED
    BY <2>1
<1>5. k \in {Append(s, k)[i] : i \in DOMAIN Append(s, k)}
  <2>1. Len(s) + 1 \in DOMAIN Append(s, k)
    BY <1>1, <1>2
  <2>2. QED
    BY <1>2, <2>1
<1>6. QED
  BY <1>3, <1>4, <1>5

LEMMA ReceiveQueue ==
  ASSUME TypeOK, NEW r \in Request, NEW w \in Worker, Receive(r, w)
  PROVE  /\ task'[r][w] \in Task
         /\ QueuedTasks(r) = {task'[r][w]} \cup QueuedTasks(r)'
<1>1. /\ tasks[r] \in Seq(Task) /\ tasks[r] # <<>>
      /\ tasks'[r] = Tail(tasks[r]) /\ task'[r][w] = Head(tasks[r])
  BY DEF Receive, TypeOK
<1>2. QED
  BY <1>1, QueueTakes DEF QueuedTasks

LEMMA SendQueue ==
  ASSUME TypeOK, WorkersHoldTasks, NEW r \in Request, NEW w \in Worker,
         NEW n \in Node, Send(r, w, n)
  PROVE  /\ SubTask(n) \in Task
         /\ QueuedTasks(r)' = QueuedTasks(r) \cup {SubTask(n)}
<1>1. SubTask(n) \in Task
  BY DEF Send, SubTask, Task, Directories, IsDirectory, WorkersHoldTasks
<1>2. tasks[r] \in Seq(Task) /\ tasks'[r] = Append(tasks[r], SubTask(n))
  BY DEF Send, TypeOK
<1>3. /\ QueuedTasks(r) = {tasks[r][i] : i \in DOMAIN tasks[r]}
      /\ QueuedTasks(r)' = {Append(tasks[r], SubTask(n))[i] :
                              i \in DOMAIN Append(tasks[r], SubTask(n))}
  BY <1>2 DEF QueuedTasks
<1>4. {Append(tasks[r], SubTask(n))[i] : i \in DOMAIN Append(tasks[r], SubTask(n))}
        = {tasks[r][i] : i \in DOMAIN tasks[r]} \cup {SubTask(n)}
  BY <1>1, <1>2, QueueAppends
<1>5. QED
  BY <1>1, <1>3, <1>4

LEMMA RootTaskQueue ==
  ASSUME TypeOK, NEW r \in Request, StartPool(r)
  PROVE  QueuedTasks(r)' = {RootTask(r)}
<1>1. tasks'[r] = <<RootTask(r)>>
  BY DEF StartPool, TypeOK
<1>2. QED
  BY <1>1 DEF QueuedTasks

LEMMA SameQueue ==
  ASSUME NEW r \in Request, tasks'[r] = tasks[r]
  PROVE  QueuedTasks(r)' = QueuedTasks(r)
BY DEF QueuedTasks

(* What workers hold, and which tasks are root tasks. *)
LEMMA HoldStep ==
  ASSUME TypeOK, TasksNameTheirRoot, WorkersHoldTasks, PoolOnlyWhileRunning, Next
  PROVE  TasksNameTheirRoot' /\ WorkersHoldTasks'
<1> DEFINE Named(q) == \A k \in QueuedTasks(q) : OneRoot(q, k)
           Holds(q) == \A w \in Worker :
             /\ InHand(q, w) => task[q][w] \in Task /\ OneRoot(q, task[q][w])
             /\ stage[q][w] = "loop" =>
                  todo[q][w] \subseteq Directories(task[q][w].sha)
             /\ stage[q][w] # "loop" => todo[q][w] = {}
<1> USE DEF Goto, dbVars, poolVars
<1>0. \A q \in Request : Named(q) /\ Holds(q)
  BY DEF TasksNameTheirRoot, WorkersHoldTasks
<1>1. ASSUME NEW q \in Request,
             UNCHANGED <<tasks[q], stage[q], task[q], todo[q]>>
      PROVE  Named(q)' /\ Holds(q)'
  <2>1. Named(q)'
    BY <1>0, <1>1, SameQueue DEF OneRoot
  <2>2. Holds(q)'
    BY <1>0, <1>1 DEF OneRoot, InHand
  <2>3. QED
    BY <2>1, <2>2
<1>2. ASSUME NEW r \in Request, Ask(r) \/ Cancel(r) \/ CallStep(r) \/ CloseTasks(r)
      PROVE  Named(r)' /\ Holds(r)'
  <2>1. CASE StartPool(r)
    <3>1. Named(r)'
      BY <2>1, RootTaskQueue DEF RootTask, OneRoot
    <3>2. UNCHANGED <<stage[r], task[r], todo[r]>>
      BY <2>1 DEF StartPool
    <3>3. QED
      BY <1>0, <3>1, <3>2 DEF OneRoot, InHand
  <2>2. CASE ~StartPool(r)
    BY <1>1, <1>2, <2>2
    DEF Ask, Cancel, CloseTasks, CallStep, FetchRoot, FetchRootFails, HitIndex,
        Finish, Mark, MarkFails, Search, SearchCutShort, SearchFails
  <2>3. QED
    BY <2>1, <2>2
<1>3. ASSUME NEW r \in Request, NEW w \in Worker, WorkerStep(r, w)
      PROVE  Named(r)' /\ Holds(r)'
  <2> USE DEF SetStage
  <2>1. CASE Receive(r, w)
    <3>1. /\ task'[r][w] \in QueuedTasks(r) /\ task'[r][w] \in Task
          /\ QueuedTasks(r)' \subseteq QueuedTasks(r)
      BY <2>1, ReceiveQueue
    <3>2. Named(r)'
      BY <1>0, <3>1 DEF OneRoot
    <3>3. /\ stage'[r][w] = "got" /\ todo'[r] = todo[r] /\ stage[r][w] = "idle"
          /\ \A v \in Worker \ {w} : /\ stage'[r][v] = stage[r][v]
                                     /\ task'[r][v] = task[r][v]
      BY <2>1 DEF Receive, TypeOK
    <3>4. QED
      BY <1>0, <3>1, <3>2, <3>3 DEF InHand, OneRoot
  <2>2. CASE ExitOnClose(r, w) \/ ExitOnCancel(r, w) \/ Claim(r, w)
    <3>1. /\ stage'[r][w] \in {"exited", "fetch"} /\ stage[r][w] \in {"idle", "got"}
          /\ stage'[r][w] = "fetch" => stage[r][w] = "got"
          /\ todo'[r] = todo[r] /\ task'[r] = task[r] /\ tasks'[r] = tasks[r]
          /\ \A v \in Worker \ {w} : stage'[r][v] = stage[r][v]
      BY <2>2 DEF ExitOnClose, ExitOnCancel, Claim, TypeOK
    <3>2. Named(r)'
      BY <1>0, <3>1, SameQueue DEF OneRoot
    <3>3. QED
      BY <1>0, <3>1, <3>2 DEF InHand, OneRoot
  <2>3. CASE ClaimRoot(r, w) \/ FetchTree(r, w)
    <3>1. /\ stage'[r][w] = "loop" /\ InHand(r, w)
          /\ todo'[r][w] = Directories(task[r][w].sha)
          /\ task'[r] = task[r] /\ tasks'[r] = tasks[r]
          /\ \A v \in Worker \ {w} : /\ stage'[r][v] = stage[r][v]
                                     /\ todo'[r][v] = todo[r][v]
      BY <2>3 DEF ClaimRoot, FetchTree, TypeOK, InHand
    <3>2. Named(r)'
      BY <1>0, <3>1, SameQueue DEF OneRoot
    <3>3. QED
      BY <1>0, <3>1, <3>2 DEF InHand, OneRoot
  <2>4. CASE Skip(r, w) \/ FetchTreeFails(r, w) \/ Save(r, w) \/ SaveFails(r, w)
    <3>1. TaskDone(r, w) /\ tasks'[r] = tasks[r]
      BY <2>4 DEF Skip, FetchTreeFails, Save, SaveFails
    <3>2. /\ stage'[r][w] = "idle" /\ todo'[r][w] = {}
          /\ \A v \in Worker \ {w} : /\ stage'[r][v] = stage[r][v]
                                     /\ task'[r][v] = task[r][v]
                                     /\ todo'[r][v] = todo[r][v]
      BY <3>1 DEF TaskDone, TypeOK
    <3>3. Named(r)'
      BY <1>0, <3>1, SameQueue DEF OneRoot
    <3>4. QED
      BY <1>0, <3>2, <3>3 DEF InHand, OneRoot
  <2>5. ASSUME NEW n \in Node, Send(r, w, n) PROVE Named(r)' /\ Holds(r)'
    <3>1. QueuedTasks(r)' = QueuedTasks(r) \cup {SubTask(n)}
      BY <2>5, SendQueue
    <3>2. Named(r)'
      BY <1>0, <3>1 DEF OneRoot, SubTask
    <3>3. /\ stage' = stage /\ task' = task
          /\ todo'[r][w] \subseteq todo[r][w]
          /\ \A v \in Worker \ {w} : todo'[r][v] = todo[r][v]
      BY <2>5 DEF Send, TypeOK
    <3>4. QED
      BY <1>0, <3>2, <3>3 DEF InHand, OneRoot
  <2>6. QED
    BY <1>3, <2>1, <2>2, <2>3, <2>4, <2>5 DEF WorkerStep
<1>4. ASSUME Crash, NEW q \in Request PROVE Named(q)' /\ Holds(q)'
  <2>1. QueuedTasks(q)' = {}
    BY <1>4 DEF Crash, QueuedTasks
  <2>2. QED
    BY <1>4, <2>1 DEF Crash, InHand
<1>5. ASSUME Rest, NEW q \in Request PROVE Named(q)' /\ Holds(q)'
  BY <1>1, <1>5 DEF Rest, vars
<1>6. ASSUME NEW q \in Request, Same(q) PROVE Named(q)' /\ Holds(q)'
  BY <1>1, <1>6 DEF Same
<1>7. \A q \in Request : Named(q)' /\ Holds(q)'
  BY <1>2, <1>3, <1>4, <1>5, <1>6, OthersKeepState DEF Next
<1>8. QED
  BY <1>7 DEF TasksNameTheirRoot, WorkersHoldTasks

(* The pool is untouched before it starts and empty-handed after it ends.  *)
LEMMA PhaseStep ==
  ASSUME TypeOK, PoolOnlyWhileRunning, Next
  PROVE  PoolOnlyWhileRunning'
<1> DEFINE Fits(q) ==
      /\ phase[q] \in {"idle", "root", "check"} =>
           /\ tasks[q] = <<>> /\ ~closed[q] /\ seen[q] = {} /\ ~failed[q]
           /\ closer[q] = "off"
           /\ \A w \in Worker : stage[q][w] = "idle"
      /\ phase[q] \in {"mark", "search", "ok", "error"} =>
           \A w \in Worker : ~InHand(q, w)
<1> USE DEF Goto, dbVars, poolVars
<1>0. \A q \in Request : Fits(q)
  BY DEF PoolOnlyWhileRunning
<1>1. ASSUME NEW q \in Request, Same(q) PROVE Fits(q)'
  BY <1>0, <1>1 DEF Same, InHand
<1>2. ASSUME NEW r \in Request, Ask(r) \/ Cancel(r) \/ CloseTasks(r)
      PROVE  Fits(r)'
  BY <1>0, <1>2 DEF TypeOK, Ask, Cancel, CloseTasks, InHand
<1>3. ASSUME NEW r \in Request, CallStep(r) PROVE Fits(r)'
  <2>1. CASE FetchRoot(r) \/ FetchRootFails(r) \/ HitIndex(r)
    BY <1>0, <2>1 DEF TypeOK, FetchRoot, FetchRootFails, HitIndex, InHand
  <2>2. CASE StartPool(r)
    BY <1>0, <2>2 DEF TypeOK, StartPool
  <2>3. CASE Finish(r)
    <3>1. phase'[r] \in {"mark", "error"} /\ UNCHANGED stage
      BY <2>3 DEF TypeOK, Finish
    <3>2. \A w \in Worker : stage[r][w] = "exited"
      BY <2>3 DEF Finish
    <3>3. QED
      BY <3>1, <3>2 DEF InHand
  <2>4. CASE Mark(r) \/ MarkFails(r) \/ Search(r) \/ SearchCutShort(r) \/ SearchFails(r)
    <3>1. /\ phase[r] \in {"mark", "search"} /\ phase'[r] \in {"search", "ok", "error"}
          /\ UNCHANGED stage
      BY <2>4 DEF TypeOK, Mark, MarkFails, Search, SearchCutShort, SearchFails
    <3>2. QED
      BY <1>0, <3>1 DEF InHand
  <2>5. QED
    BY <1>3, <2>1, <2>2, <2>3, <2>4 DEF CallStep
<1>4. ASSUME NEW r \in Request, NEW w \in Worker, WorkerStep(r, w)
      PROVE  Fits(r)'
  <2>1. phase[r] = "run"
    <3>1. phase[r] = "run" \/ InHand(r, w)
      BY <1>4 DEF WorkerStep, Receive, ExitOnClose, ExitOnCancel, ClaimRoot, Claim,
                  Skip, FetchTree, FetchTreeFails, Send, Save, SaveFails, InHand
    <3>2. phase[r] \in Phase
      BY DEF TypeOK
    <3>3. CASE phase[r] \in {"idle", "root", "check"}
      <4>1. stage[r][w] = "idle"
        BY <1>0, <3>3
      <4>2. QED
        BY <3>1, <4>1 DEF InHand
    <3>4. CASE phase[r] \in {"mark", "search", "ok", "error"}
      <4>1. ~InHand(r, w)
        BY <1>0, <3>4
      <4>2. QED
        BY <3>1, <4>1
    <3>5. QED
      BY <3>2, <3>3, <3>4 DEF Phase
  <2>2. UNCHANGED phase
    BY <1>4 DEF WorkerStep, Receive, ExitOnClose, ExitOnCancel, ClaimRoot, Claim,
                Skip, FetchTree, FetchTreeFails, Send, Save, SaveFails
  <2>3. QED
    BY <2>1, <2>2
<1>5. ASSUME Crash, NEW q \in Request PROVE Fits(q)'
  BY <1>5 DEF Crash
<1>6. ASSUME Rest, NEW q \in Request PROVE Fits(q)'
  BY <1>0, <1>6 DEF Rest, vars, InHand
<1>7. \A q \in Request : Fits(q)'
  BY <1>1, <1>2, <1>3, <1>4, <1>5, <1>6, OthersKeepState DEF Next
<1>8. QED
  BY <1>7 DEF PoolOnlyWhileRunning

(* Workers leave only after the channel is closed or the call cancelled,   *)
(* and the channel is closed only when no task is left.                    *)
LEMMA LeaveStep ==
  ASSUME TypeOK, CountsTasks, WorkersHoldTasks, PoolOnlyWhileRunning,
         WorkersLeaveLast, Next
  PROVE  WorkersLeaveLast'
<1> DEFINE Leaves(q) ==
      /\ closed[q] <=> closer[q] = "done"
      /\ closed[q] => taskWG[q] = 0
      /\ ~cancelled[q] /\ ~closed[q] => \A w \in Worker : stage[q][w] # "exited"
<1> USE DEF Goto, dbVars, poolVars
<1>0. \A q \in Request : Leaves(q)
  BY DEF WorkersLeaveLast
<1>1. ASSUME NEW q \in Request, Same(q) PROVE Leaves(q)'
  BY <1>0, <1>1 DEF Same
<1>2. ASSUME NEW r \in Request, Ask(r) \/ Cancel(r) \/ CloseTasks(r)
      PROVE  Leaves(r)'
  BY <1>0, <1>2 DEF TypeOK, Ask, Cancel, CloseTasks
<1>3. ASSUME NEW r \in Request, CallStep(r) PROVE Leaves(r)'
  <2>1. CASE StartPool(r)
    <3>1. ~closed[r] /\ closer[r] = "off" /\ \A w \in Worker : stage[r][w] = "idle"
      BY <2>1 DEF StartPool, PoolOnlyWhileRunning
    <3>2. closer'[r] = "waiting" /\ closed' = closed /\ stage' = stage
      BY <2>1 DEF StartPool, TypeOK
    <3>3. QED
      BY <3>1, <3>2
  <2>2. CASE ~StartPool(r)
    <3>1. UNCHANGED <<closed, closer, taskWG, cancelled, stage>>
      BY <1>3, <2>2
      DEF CallStep, FetchRoot, FetchRootFails, HitIndex, Finish, Mark, MarkFails,
          Search, SearchCutShort, SearchFails
    <3>2. QED
      BY <1>0, <3>1
  <2>3. QED
    BY <2>1, <2>2
<1>4. ASSUME NEW r \in Request, NEW w \in Worker, WorkerStep(r, w)
      PROVE  Leaves(r)'
  <2>1. CASE ExitOnClose(r, w) \/ ExitOnCancel(r, w)
    <3>1. closed[r] \/ cancelled[r]
      BY <2>1 DEF ExitOnClose, ExitOnCancel
    <3>2. UNCHANGED <<closed, closer, taskWG, cancelled>>
      BY <2>1 DEF ExitOnClose, ExitOnCancel
    <3>3. QED
      BY <1>0, <3>1, <3>2
  <2>2. CASE Receive(r, w) \/ ClaimRoot(r, w) \/ Claim(r, w) \/ FetchTree(r, w)
    <3>1. /\ stage'[r][w] # "exited"
          /\ \A v \in Worker \ {w} : stage'[r][v] = stage[r][v]
          /\ UNCHANGED <<closed, closer, taskWG, cancelled>>
      BY <2>2 DEF Receive, ClaimRoot, Claim, FetchTree, SetStage, TypeOK
    <3>2. QED
      BY <1>0, <3>1
  <2>3. CASE Skip(r, w) \/ FetchTreeFails(r, w) \/ Save(r, w) \/ SaveFails(r, w)
    <3>1. TaskDone(r, w) /\ UNCHANGED <<closed, closer, cancelled>>
      BY <2>3 DEF Skip, FetchTreeFails, Save, SaveFails
    <3>2. /\ stage'[r][w] # "exited"
          /\ \A v \in Worker \ {w} : stage'[r][v] = stage[r][v]
      BY <3>1 DEF TaskDone, SetStage, TypeOK
    <3>3. w \in Busy(r)
      BY <2>3 DEF Skip, FetchTreeFails, Save, SaveFails, Busy, InHand
    <3>4. ~closed[r]
      BY <1>0, <3>3, BusyIsCounted
    <3>5. QED
      BY <1>0, <3>1, <3>2, <3>4
  <2>4. CASE \E n \in Node : Send(r, w, n)
    <3>1. w \in Busy(r) /\ UNCHANGED <<closed, closer, cancelled, stage>>
      BY <2>4 DEF Send, Busy, InHand
    <3>2. ~closed[r]
      BY <1>0, <3>1, BusyIsCounted
    <3>3. QED
      BY <1>0, <3>1, <3>2
  <2>5. QED
    BY <1>4, <2>1, <2>2, <2>3, <2>4 DEF WorkerStep
<1>5. ASSUME Crash, NEW q \in Request PROVE Leaves(q)'
  BY <1>5 DEF Crash
<1>6. ASSUME Rest, NEW q \in Request PROVE Leaves(q)'
  BY <1>0, <1>6 DEF Rest, vars
<1>7. \A q \in Request : Leaves(q)'
  BY <1>1, <1>2, <1>3, <1>4, <1>5, <1>6, OthersKeepState DEF Next
<1>8. QED
  BY <1>7 DEF WorkersLeaveLast
-----------------------------------------------------------------------------
(* No directory is lost *)

LEMMA ListedIsListing == \A t \in Tree : Listed[t] \subseteq Listing
BY DEF Listing, Entries

LEMMA RowsStep ==
  ASSUME TypeOK, WorkersHoldTasks, rows \subseteq Listing, Next
  PROVE  rows' \subseteq Listing
<1> USE DEF dbVars
<1>1. ASSUME NEW r \in Request, NEW w \in Worker, Save(r, w)
      PROVE  rows' \subseteq Listing
  <2>1. task[r][w].sha \in Tree
    BY <1>1 DEF Save, WorkersHoldTasks, InHand, Task
  <2>2. QED
    BY <1>1, <2>1, ListedIsListing DEF Save
<1>2. ASSUME NEW r \in Request, NEW w \in Worker, WorkerStep(r, w), ~Save(r, w)
      PROVE  UNCHANGED rows
  BY <1>2 DEF WorkerStep, Receive, ExitOnClose, ExitOnCancel, ClaimRoot, Claim,
              Skip, FetchTree, FetchTreeFails, Send, SaveFails
<1>3. ASSUME NEW r \in Request, Ask(r) \/ Cancel(r) \/ CallStep(r) \/ CloseTasks(r)
      PROVE  UNCHANGED rows
  BY <1>3 DEF Ask, Cancel, CloseTasks, CallStep, FetchRoot, FetchRootFails,
              HitIndex, StartPool, Finish, Mark, MarkFails, Search,
              SearchCutShort, SearchFails
<1>4. CASE Crash \/ Rest
  BY <1>4 DEF Crash, Rest, vars
<1>5. QED
  BY <1>1, <1>2, <1>3, <1>4 DEF Next

(* When every worker has left a pool in which nothing went wrong, the      *)
(* trees that were claimed, with the root, are stored and closed under     *)
(* subdirectories.                                                         *)
LEMMA PoolEndsComplete ==
  ASSUME TypeOK, CountsTasks, WorkersLeaveLast, NothingLost,
         NEW r \in Request, phase[r] = "run", ~failed[r], ~cancelled[r],
         \A w \in Worker : stage[r][w] = "exited"
  PROVE  Complete(rows, RootOf[r])
<1>1. PICK w \in Worker : TRUE
  BY DEF IndexAssumption
<1>2. closed[r] /\ taskWG[r] = 0
  BY <1>1 DEF WorkersLeaveLast
<1>3. Len(tasks[r]) = 0
  BY <1>2, BusyFinite DEF CountsTasks, TypeOK
<1>4. QueuedTasks(r) = {}
  <2>1. DOMAIN tasks[r] = {}
    BY <1>3 DEF TypeOK
  <2>2. QED
    BY <2>1 DEF QueuedTasks
<1>5. /\ Waiting(r) = {} /\ Expanding(r) = {} /\ ~RootPending(r)
  BY <1>4 DEF Waiting, Expanding, RootPending, Busy, InHand
<1> DEFINE S == seen[r] \cup {RootOf[r]}
<1>6. S \in SUBSET Tree /\ RootOf[r] \in S
  BY DEF TypeOK, IndexAssumption
<1>7. ASSUME NEW t \in S
      PROVE  /\ Listed[t] \subseteq rows
             /\ \A n \in Directories(t) : Target[n] \in S
  <2>1. Expanded(r, t)
    BY <1>5 DEF NothingLost
  <2>2. QED
    BY <1>5, <2>1 DEF Expanded, Accounted
<1>8. QED
  BY <1>6, <1>7, CompleteByClosedSet

(* The part of NothingLost that speaks of one request *)
Kept(r) ==
  /\ \A t \in seen[r] : t \in Expanding(r) \/ Expanded(r, t)
  /\ RootPending(r) \/ Expanded(r, RootOf[r])
  /\ \A w \in Worker : stage[r][w] = "loop" =>
       \A n \in Directories(task[r][w].sha) \ todo[r][w] : Accounted(r, n)

(* What is accounted for stays so, when trees that stop waiting are        *)
(* claimed and rows only grow.                                             *)
LEMMA AccountsGrow ==
  ASSUME NEW r \in Request, seen[r] \subseteq seen'[r],
         Waiting(r) \subseteq Waiting(r)' \cup seen'[r],
         rows \subseteq rows'
  PROVE  /\ \A n : Accounted(r, n) => Accounted(r, n)'
         /\ \A t : Expanded(r, t) => Expanded(r, t)'
<1>1. \A n : Accounted(r, n) => Accounted(r, n)'
  BY DEF Accounted
<1>2. QED
  BY <1>1 DEF Expanded

LEMMA KeptWhenSame ==
  ASSUME NEW r \in Request, Kept(r), rows \subseteq rows',
         UNCHANGED <<tasks[r], seen[r], stage[r], task[r], todo[r]>>
  PROVE  Kept(r)'
<1>1. QueuedTasks(r)' = QueuedTasks(r)
  BY SameQueue
<1>2. /\ Waiting(r)' = Waiting(r) /\ Expanding(r)' = Expanding(r)
      /\ RootPending(r)' = RootPending(r)
  BY <1>1 DEF Waiting, Expanding, RootPending, Busy, InHand
<1>3. /\ \A n : Accounted(r, n) => Accounted(r, n)'
      /\ \A t : Expanded(r, t) => Expanded(r, t)'
  BY <1>2, AccountsGrow
<1>4. QED
  BY <1>2, <1>3 DEF Kept

LEMMA KeptByStart ==
  ASSUME TypeOK, PoolOnlyWhileRunning, NEW r \in Request, StartPool(r)
  PROVE  Kept(r)'
<1>1. QueuedTasks(r)' = {RootTask(r)}
  BY RootTaskQueue
<1>2. RootPending(r)'
  BY <1>1 DEF RootPending, RootTask
<1>3. seen'[r] = {} /\ \A w \in Worker : stage'[r][w] = "idle"
  BY DEF StartPool, PoolOnlyWhileRunning, Goto
<1>4. QED
  BY <1>2, <1>3 DEF Kept

LEMMA KeptByWorker ==
  ASSUME TypeOK, TasksNameTheirRoot, WorkersHoldTasks,
         NEW r \in Request, NEW w \in Worker, Kept(r), WorkerStep(r, w),
         ~failed'[r], ~cancelled[r]
  PROVE  Kept(r)'
<1> USE DEF SetStage
<1>0. rows \subseteq rows'
  BY DEF WorkerStep, Receive, ExitOnClose, ExitOnCancel, ClaimRoot, Claim, Skip,
         FetchTree, FetchTreeFails, Send, Save, SaveFails, dbVars
<1>1. CASE Receive(r, w)
  <2>1. /\ QueuedTasks(r) = {task'[r][w]} \cup QueuedTasks(r)'
        /\ task'[r][w] \in Task
    BY <1>1, ReceiveQueue
  <2>2. /\ stage[r][w] = "idle" /\ stage'[r][w] = "got"
        /\ seen' = seen /\ todo' = todo
        /\ \A v \in Worker \ {w} : /\ stage'[r][v] = stage[r][v]
                                   /\ task'[r][v] = task[r][v]
    BY <1>1 DEF Receive, TypeOK
  <2>3. Waiting(r) \subseteq Waiting(r)'
    BY <2>1, <2>2 DEF Waiting
  <2>4. Expanding(r)' = Expanding(r)
    BY <2>2 DEF Expanding
  <2>5. RootPending(r) => RootPending(r)'
    BY <2>1, <2>2 DEF RootPending, Busy, InHand
  <2>6. /\ \A n : Accounted(r, n) => Accounted(r, n)'
        /\ \A t : Expanded(r, t) => Expanded(r, t)'
    BY <1>0, <2>2, <2>3, AccountsGrow
  <2>7. QED
    BY <2>2, <2>4, <2>5, <2>6 DEF Kept
<1>2. CASE ExitOnClose(r, w) \/ ExitOnCancel(r, w)
  <2>1. /\ stage[r][w] = "idle" /\ stage'[r][w] = "exited"
        /\ seen' = seen /\ todo' = todo /\ task' = task /\ tasks' = tasks
        /\ \A v \in Worker \ {w} : stage'[r][v] = stage[r][v]
    BY <1>2 DEF ExitOnClose, ExitOnCancel, TypeOK
  <2>2. QueuedTasks(r)' = QueuedTasks(r)
    BY <2>1, SameQueue
  <2>3. /\ Waiting(r)' = Waiting(r) /\ Expanding(r)' = Expanding(r)
        /\ RootPending(r) => RootPending(r)'
    BY <2>1, <2>2 DEF Waiting, Expanding, RootPending, Busy, InHand
  <2>4. /\ \A n : Accounted(r, n) => Accounted(r, n)'
        /\ \A t : Expanded(r, t) => Expanded(r, t)'
    BY <1>0, <2>1, <2>3, AccountsGrow
  <2>5. QED
    BY <2>1, <2>3, <2>4 DEF Kept
<1>3. CASE ClaimRoot(r, w) \/ FetchTree(r, w)
  <2>1. /\ stage[r][w] \in {"got", "fetch"} /\ stage'[r][w] = "loop"
        /\ stage[r][w] = "got" => task[r][w].isRoot
        /\ seen' = seen /\ task' = task /\ tasks' = tasks
        /\ todo'[r][w] = Directories(task[r][w].sha)
        /\ \A v \in Worker \ {w} : /\ stage'[r][v] = stage[r][v]
                                   /\ todo'[r][v] = todo[r][v]
    BY <1>3 DEF ClaimRoot, FetchTree, TypeOK
  <2>2. QueuedTasks(r)' = QueuedTasks(r)
    BY <2>1, SameQueue
  <2>3. /\ Waiting(r) \subseteq Waiting(r)'
        /\ Expanding(r) \subseteq Expanding(r)'
        /\ RootPending(r) => RootPending(r)'
    BY <2>1, <2>2 DEF Waiting, Expanding, RootPending, Busy, InHand
  <2>4. /\ \A n : Accounted(r, n) => Accounted(r, n)'
        /\ \A t : Expanded(r, t) => Expanded(r, t)'
    BY <1>0, <2>1, <2>3, AccountsGrow
  <2>5. QED
    BY <2>1, <2>3, <2>4 DEF Kept
<1>4. CASE Claim(r, w)
  <2>1. /\ stage[r][w] = "got" /\ stage'[r][w] = "fetch" /\ ~task[r][w].isRoot
        /\ seen'[r] = seen[r] \cup {task[r][w].sha}
        /\ todo' = todo /\ task' = task /\ tasks' = tasks
        /\ \A v \in Worker \ {w} : stage'[r][v] = stage[r][v]
    BY <1>4 DEF Claim, TypeOK
  <2>2. QueuedTasks(r)' = QueuedTasks(r)
    BY <2>1, SameQueue
  <2>3. /\ Waiting(r) \subseteq Waiting(r)' \cup seen'[r]
        /\ Expanding(r)' = Expanding(r) \cup {task[r][w].sha}
        /\ RootPending(r) => RootPending(r)'
    BY <2>1, <2>2 DEF Waiting, Expanding, RootPending, Busy, InHand
  <2>4. /\ \A n : Accounted(r, n) => Accounted(r, n)'
        /\ \A t : Expanded(r, t) => Expanded(r, t)'
    BY <1>0, <2>1, <2>3, AccountsGrow
  <2>5. QED
    BY <2>1, <2>3, <2>4 DEF Kept
<1>5. CASE Skip(r, w)
  <2>1. /\ stage[r][w] = "got" /\ stage'[r][w] = "idle" /\ ~task[r][w].isRoot
        /\ task[r][w].sha \in seen[r] /\ seen' = seen /\ tasks' = tasks
        /\ \A v \in Worker \ {w} : /\ stage'[r][v] = stage[r][v]
                                   /\ task'[r][v] = task[r][v]
                                   /\ todo'[r][v] = todo[r][v]
    BY <1>5 DEF Skip, TaskDone, TypeOK
  <2>2. QueuedTasks(r)' = QueuedTasks(r)
    BY <2>1, SameQueue
  <2>3. /\ Waiting(r) \subseteq Waiting(r)' \cup seen'[r]
        /\ Expanding(r)' = Expanding(r)
        /\ RootPending(r) => RootPending(r)'
    BY <2>1, <2>2 DEF Waiting, Expanding, RootPending, Busy, InHand
  <2>4. /\ \A n : Accounted(r, n) => Accounted(r, n)'
        /\ \A t : Expanded(r, t) => Expanded(r, t)'
    BY <1>0, <2>1, <2>3, AccountsGrow
  <2>5. QED
    BY <2>1, <2>3, <2>4 DEF Kept
<1>6. CASE FetchTreeFails(r, w) \/ SaveFails(r, w)
  <2>1. failed'[r]
    BY <1>6 DEF FetchTreeFails, SaveFails, SetFirstErr, TypeOK
  <2>2. QED
    BY <2>1
<1>7. ASSUME NEW n \in Node, Send(r, w, n) PROVE Kept(r)'
  <2>1. /\ SubTask(n) \in Task
        /\ QueuedTasks(r)' = QueuedTasks(r) \cup {SubTask(n)}
    BY <1>7, SendQueue
  <2>2. /\ seen' = seen /\ task' = task /\ stage' = stage
        /\ todo'[r][w] = todo[r][w] \ {n}
        /\ \A v \in Worker \ {w} : todo'[r][v] = todo[r][v]
    BY <1>7 DEF Send, TypeOK
  <2>3. /\ Waiting(r) \subseteq Waiting(r)' /\ Target[n] \in Waiting(r)'
        /\ Expanding(r)' = Expanding(r)
        /\ RootPending(r) => RootPending(r)'
    BY <2>1, <2>2 DEF Waiting, Expanding, RootPending, Busy, InHand, SubTask
  <2>4. /\ \A m : Accounted(r, m) => Accounted(r, m)'
        /\ \A t : Expanded(r, t) => Expanded(r, t)'
        /\ Accounted(r, n)'
    BY <1>0, <2>2, <2>3, AccountsGrow DEF Accounted
  <2>5. QED
    BY <2>2, <2>3, <2>4 DEF Kept
<1>8. CASE Save(r, w)
  <2>0. PICK t0 : t0 = task[r][w].sha
    OBVIOUS
  <2>1. /\ stage[r][w] = "loop" /\ stage'[r][w] = "idle" /\ todo[r][w] = {}
        /\ seen' = seen /\ tasks' = tasks
        /\ rows' = rows \cup Listed[t0]
        /\ \A v \in Worker \ {w} : /\ stage'[r][v] = stage[r][v]
                                   /\ task'[r][v] = task[r][v]
                                   /\ todo'[r][v] = todo[r][v]
    BY <1>8, <2>0 DEF Save, TaskDone, TypeOK
  <2>2. QueuedTasks(r)' = QueuedTasks(r)
    BY <2>1, SameQueue
  <2>3. /\ Waiting(r) \subseteq Waiting(r)'
        /\ Expanding(r) \subseteq Expanding(r)' \cup {t0}
    BY <2>0, <2>1, <2>2 DEF Waiting, Expanding
  <2>4. /\ \A n : Accounted(r, n) => Accounted(r, n)'
        /\ \A t : Expanded(r, t) => Expanded(r, t)'
    BY <1>0, <2>1, <2>3, AccountsGrow
  <2>5. Expanded(r, t0)'
    <3>1. \A n \in Directories(t0) : Accounted(r, n)
      BY <2>0, <2>1 DEF Kept
    <3>2. \A n \in Directories(t0) : Accounted(r, n)'
      BY <2>4, <3>1
    <3>3. Listed[t0] \subseteq rows'
      BY <2>1
    <3>4. QED
      BY <3>2, <3>3 DEF Expanded
  <2>6. RootPending(r) => RootPending(r)' \/ t0 = RootOf[r]
    <3>1. ASSUME NEW v \in Busy(r), v # w, task[r][v].isRoot PROVE RootPending(r)'
      BY <2>1, <3>1 DEF RootPending, Busy, InHand
    <3>2. task[r][w].isRoot => t0 = RootOf[r]
      BY <2>0, <2>1 DEF WorkersHoldTasks, InHand, OneRoot
    <3>3. QED
      BY <2>2, <3>1, <3>2 DEF RootPending
  <2>7. QED
    BY <2>1, <2>3, <2>4, <2>5, <2>6 DEF Kept
<1>9. QED
  BY <1>1, <1>2, <1>3, <1>4, <1>5, <1>6, <1>7, <1>8 DEF WorkerStep

LEMMA LostStep ==
  ASSUME TypeOK, TasksNameTheirRoot, WorkersHoldTasks, PoolOnlyWhileRunning,
         NothingLost, Next
  PROVE  NothingLost'
<1> DEFINE Good(q) == phase[q] = "run" /\ ~failed[q] /\ ~cancelled[q]
<1> USE DEF Goto, dbVars, poolVars
<1>0. \A q \in Request : Good(q) => Kept(q)
  BY DEF NothingLost, Kept
<1>1. rows \subseteq rows'
  BY DatabaseGrows
<1>2. ASSUME NEW q \in Request, Same(q), Good(q)' PROVE Kept(q)'
  BY <1>0, <1>1, <1>2, KeptWhenSame DEF Same
<1>3. ASSUME NEW r \in Request, Ask(r) \/ Cancel(r) \/ CallStep(r) \/ CloseTasks(r),
             Good(r)'
      PROVE  Kept(r)'
  <2>1. CASE StartPool(r)
    BY <2>1, KeptByStart
  <2>2. CASE ~StartPool(r)
    <3>1. /\ Good(r)
          /\ UNCHANGED <<tasks[r], seen[r], stage[r], task[r], todo[r]>>
      BY <1>3, <2>2
      DEF TypeOK, Ask, Cancel, CloseTasks, CallStep, FetchRoot, FetchRootFails,
          HitIndex, Finish, Mark, MarkFails, Search, SearchCutShort, SearchFails
    <3>2. QED
      BY <1>0, <1>1, <3>1, KeptWhenSame
  <2>3. QED
    BY <2>1, <2>2
<1>4. ASSUME NEW r \in Request, NEW w \in Worker, WorkerStep(r, w), Good(r)'
      PROVE  Kept(r)'
  <2>1. UNCHANGED <<phase, cancelled>>
    BY <1>4 DEF WorkerStep, Receive, ExitOnClose, ExitOnCancel, ClaimRoot, Claim,
                Skip, FetchTree, FetchTreeFails, Send, Save, SaveFails
  <2>2. failed[r] => failed'[r]
    BY <1>4 DEF TypeOK, WorkerStep, Receive, ExitOnClose, ExitOnCancel, ClaimRoot,
                Claim, Skip, FetchTree, FetchTreeFails, Send, Save, SaveFails,
                SetFirstErr
  <2>3. QED
    BY <1>0, <1>4, <2>1, <2>2, KeptByWorker
<1>5. ASSUME Crash, NEW q \in Request PROVE ~Good(q)'
  BY <1>5 DEF Crash
<1>6. ASSUME Rest, NEW q \in Request PROVE Same(q)
  BY <1>6 DEF Rest, vars, Same
<1>7. \A q \in Request : Good(q)' => Kept(q)'
  BY <1>2, <1>3, <1>4, <1>5, <1>6, OthersKeepState DEF Next
<1>8. QED
  BY <1>7 DEF NothingLost, Kept

(* Once the pool has ended without an error and without a cancellation,    *)
(* everything below the root is stored.                                    *)
LEMMA AfterPoolStep ==
  ASSUME TypeOK, CountsTasks, WorkersLeaveLast, NothingLost, CompleteAfterPool,
         IndexedComplete, Next
  PROVE  CompleteAfterPool'
<1> DEFINE Ready(q) == phase[q] \in {"mark", "search"} /\ ~cancelled[q]
<1> USE DEF Goto, dbVars, poolVars
<1>1. rows \subseteq rows'
  BY DatabaseGrows
<1>2. ASSUME NEW q \in Request, Ready(q)' PROVE Complete(rows, RootOf[q])
  <2>1. ASSUME Same(q) PROVE Complete(rows, RootOf[q])
    BY <1>2, <2>1 DEF Same, CompleteAfterPool
  <2>2. CASE HitIndex(q)
    BY <2>2 DEF HitIndex, IndexedComplete
  <2>3. CASE Finish(q)
    <3>1. phase[q] = "run" /\ ~failed[q] /\ ~cancelled[q]
      BY <1>2, <2>3 DEF Finish, TypeOK
    <3>2. \A w \in Worker : stage[q][w] = "exited"
      BY <2>3 DEF Finish
    <3>3. QED
      BY <3>1, <3>2, PoolEndsComplete
  <2>4. CASE \/ Ask(q) \/ Cancel(q) \/ CloseTasks(q) \/ FetchRoot(q)
             \/ FetchRootFails(q) \/ StartPool(q) \/ Mark(q) \/ MarkFails(q)
             \/ Search(q) \/ SearchCutShort(q) \/ SearchFails(q)
    <3>1. Ready(q)
      BY <1>2, <2>4 DEF TypeOK, Ask, Cancel, CloseTasks, FetchRoot, FetchRootFails,
         StartPool, Mark, MarkFails, Search, SearchCutShort, SearchFails
    <3>2. QED
      BY <3>1 DEF CompleteAfterPool
  <2>5. CASE \E w \in Worker : WorkerStep(q, w)
    <3>1. UNCHANGED <<phase, cancelled>>
      BY <2>5 DEF WorkerStep, Receive, ExitOnClose, ExitOnCancel, ClaimRoot, Claim,
                  Skip, FetchTree, FetchTreeFails, Send, Save, SaveFails
    <3>2. QED
      BY <1>2, <3>1 DEF CompleteAfterPool
  <2>6. CASE Crash
    BY <1>2, <2>6 DEF Crash
  <2>7. CASE Rest
    BY <2>1, <2>7 DEF Rest, vars, Same
  <2>8. QED
    BY <2>1, <2>2, <2>3, <2>4, <2>5, <2>6, <2>7, OthersKeepState DEF Next, CallStep
<1>3. QED
  BY <1>1, <1>2, CompleteMonotone DEF CompleteAfterPool

LEMMA MarksStep ==
  ASSUME TypeOK, CompleteAfterPool, IndexedComplete, Next
  PROVE  IndexedComplete'
<1>1. rows \subseteq rows'
  BY DatabaseGrows
<1>2. ASSUME NEW t \in indexed' PROVE Complete(rows, t)
  <2>1. CASE t \in indexed
    BY <2>1 DEF IndexedComplete
  <2>2. CASE t \notin indexed
    <3>1. PICK r \in Request : Mark(r) /\ t = RootOf[r]
      BY <2>2, DatabaseGrows
    <3>2. QED
      BY <3>1 DEF Mark, Goto, CompleteAfterPool
  <2>3. QED
    BY <2>1, <2>2
<1>3. QED
  BY <1>1, <1>2, CompleteMonotone DEF IndexedComplete

LEMMA AnswersStep ==
  ASSUME TypeOK, rows \subseteq Listing, CompleteAfterPool, AnswersComplete, Next
  PROVE  AnswersComplete'
<1> DEFINE Right(q) == phase[q] = "ok" /\ ~cancelled[q] => files[q] = FilesOf(RootOf[q])
<1> USE DEF Goto, dbVars, poolVars
<1>0. \A q \in Request : Right(q)
  BY DEF AnswersComplete
<1>1. ASSUME NEW q \in Request, Same(q) PROVE Right(q)'
  BY <1>0, <1>1 DEF Same
<1>2. ASSUME NEW r \in Request, Ask(r) \/ Cancel(r) \/ CallStep(r) \/ CloseTasks(r)
      PROVE  Right(r)'
  <2>1. CASE Search(r)
    <3>1. Complete(rows, RootOf[r])
      BY <2>1 DEF Search, CompleteAfterPool
    <3>2. Found(rows, RootOf[r]) = FilesOf(RootOf[r])
      BY <3>1, SearchOnComplete DEF IndexAssumption
    <3>3. files'[r] = Found(rows, RootOf[r])
      BY <2>1 DEF Search, TypeOK
    <3>4. QED
      BY <3>2, <3>3
  <2>2. CASE SearchCutShort(r)
    BY <2>2 DEF SearchCutShort
  <2>3. CASE ~Search(r) /\ ~SearchCutShort(r)
    <3>1. files' = files /\ phase'[r] = "ok" => phase[r] = "ok"
      BY <1>2, <2>3
      DEF TypeOK, Ask, Cancel, CloseTasks, CallStep, FetchRoot, FetchRootFails,
          HitIndex, StartPool, Finish, Mark, MarkFails, SearchFails
    <3>2. files' = files /\ (cancelled[r] => cancelled'[r])
      BY <1>2, <2>3
      DEF TypeOK, Ask, Cancel, CloseTasks, CallStep, FetchRoot, FetchRootFails,
          HitIndex, StartPool, Finish, Mark, MarkFails, SearchFails
    <3>3. QED
      BY <1>0, <3>1, <3>2
  <2>4. QED
    BY <2>1, <2>2, <2>3
<1>3. ASSUME NEW r \in Request, NEW w \in Worker, WorkerStep(r, w)
      PROVE  Right(r)'
  <2>1. UNCHANGED <<phase, cancelled, files>>
    BY <1>3 DEF WorkerStep, Receive, ExitOnClose, ExitOnCancel, ClaimRoot, Claim,
                Skip, FetchTree, FetchTreeFails, Send, Save, SaveFails
  <2>2. QED
    BY <1>0, <2>1
<1>4. ASSUME Crash, NEW q \in Request PROVE Right(q)'
  BY <1>4 DEF Crash
<1>5. ASSUME Rest, NEW q \in Request PROVE Same(q)
  BY <1>5 DEF Rest, vars, Same
<1>6. \A q \in Request : Right(q)'
  BY <1>1, <1>2, <1>3, <1>4, <1>5, OthersKeepState DEF Next
<1>7. QED
  BY <1>6 DEF AnswersComplete
-----------------------------------------------------------------------------
(* The theorems *)

LEMMA InitIInv == ASSUME Init PROVE IInv
<1> USE DEF Init
<1>1. TypeOK
  BY DEF TypeOK, Phase, Stage, Closer
<1>2. CountsTasks
  <2>1. ASSUME NEW r \in Request PROVE taskWG[r] = Len(tasks[r]) + Cardinality(Busy(r))
    <3>1. Busy(r) = {}
      BY DEF Busy, InHand
    <3>2. QED
      BY <3>1, FS_EmptySet
  <2>2. QED
    BY <2>1 DEF CountsTasks
<1>3. TasksNameTheirRoot
  BY DEF TasksNameTheirRoot, QueuedTasks
<1>4. WorkersHoldTasks /\ PoolOnlyWhileRunning /\ WorkersLeaveLast
  BY DEF WorkersHoldTasks, PoolOnlyWhileRunning, WorkersLeaveLast, InHand
<1>5. NothingLost /\ CompleteAfterPool /\ IndexedComplete /\ AnswersComplete
  BY DEF NothingLost, CompleteAfterPool, IndexedComplete, AnswersComplete
<1>6. QED
  BY <1>1, <1>2, <1>3, <1>4, <1>5 DEF IInv, IndexInv

LEMMA StepIInv == ASSUME IInv, [Next]_vars PROVE IInv'
<1>1. CASE Next
  <2>1. TypeOK'
    BY <1>1, TypeStep DEF IInv, IndexInv
  <2>2. rows' \subseteq Listing /\ CountsTasks'
    BY <1>1, <2>1, RowsStep, CountStep DEF IInv, IndexInv
  <2>3. TasksNameTheirRoot' /\ WorkersHoldTasks' /\ PoolOnlyWhileRunning'
    BY <1>1, HoldStep, PhaseStep DEF IInv, IndexInv
  <2>4. WorkersLeaveLast' /\ NothingLost'
    BY <1>1, LeaveStep, LostStep DEF IInv, IndexInv
  <2>5. CompleteAfterPool' /\ IndexedComplete' /\ AnswersComplete'
    BY <1>1, AfterPoolStep, MarksStep, AnswersStep DEF IInv, IndexInv
  <2>6. QED
    BY <2>1, <2>2, <2>3, <2>4, <2>5 DEF IInv, IndexInv
<1>2. CASE UNCHANGED vars
  <2> USE <1>2 DEF IInv, IndexInv, vars, dbVars, poolVars
  <2>1. TypeOK'
    BY DEF TypeOK
  <2>2. \A r \in Request : QueuedTasks(r)' = QueuedTasks(r) /\ Busy(r)' = Busy(r)
    BY DEF QueuedTasks, Busy, InHand
  <2>3. (rows \subseteq Listing)' /\ CountsTasks' /\ TasksNameTheirRoot'
    BY <2>2 DEF CountsTasks, TasksNameTheirRoot, OneRoot
  <2>4. WorkersHoldTasks' /\ PoolOnlyWhileRunning' /\ WorkersLeaveLast'
    BY DEF WorkersHoldTasks, PoolOnlyWhileRunning, WorkersLeaveLast, InHand, OneRoot
  <2>5. NothingLost'
    <3>1. \A r \in Request : Kept(r) => Kept(r)'
      BY KeptWhenSame
    <3>2. QED
      BY <3>1 DEF NothingLost, Kept
  <2>6. CompleteAfterPool' /\ IndexedComplete' /\ AnswersComplete'
    BY DEF CompleteAfterPool, IndexedComplete, AnswersComplete
  <2>7. QED
    BY <2>1, <2>3, <2>4, <2>5, <2>6
<1>3. QED
  BY <1>1, <1>2

(* The accounting of tasks and directories is an invariant of the indexer, *)
(* for any number of requests, workers and crashes, any trees, any channel *)
(* capacity.                                                               *)
THEOREM Invariance == Spec => []IInv
BY InitIInv, StepIInv, PTL DEF Spec

(* Every variable keeps its type; in particular the counter of taskWG,     *)
(* which Done decrements, never goes below zero, where Go panics.          *)
THEOREM TypeCorrect == Spec => []TypeOK
<1>1. IInv => TypeOK
  BY DEF IInv
<1>2. QED
  BY <1>1, Invariance, PTL

(* A root tree that is marked in indexed_trees has every listed line below *)
(* it in tree_entries (MarkIndexed, line 875, and IsIndexed, line 733).    *)
THEOREM MarksAreComplete == Spec => []IndexedComplete
<1>1. IInv => IndexedComplete
  BY DEF IInv
<1>2. QED
  BY <1>1, Invariance, PTL

(* An answer given without an error to a caller that is still there holds  *)
(* exactly the files of its commit (Search, lines 734 and 876).            *)
THEOREM AnswersAreComplete == Spec => []AnswersComplete
<1>1. IInv => AnswersComplete
  BY DEF IInv
<1>2. QED
  BY <1>1, Invariance, PTL

(* Nothing is sent on the closed channel, where Go panics (lines 839, 862) *)
THEOREM ClosedForGood == Spec => []NoSendAfterClose
<1>1. ASSUME IInv PROVE NoSendAfterClose
  <2>1. ASSUME NEW r \in Request, closed[r]
        PROVE  /\ tasks[r] = <<>>
               /\ \A w \in Worker : stage[r][w] \in {"idle", "exited"}
    <3>1. /\ Len(tasks[r]) \in Nat /\ Cardinality(Busy(r)) \in Nat
          /\ IsFiniteSet(Busy(r))
      BY <1>1, BusyFinite DEF IInv, TypeOK
    <3>2. Len(tasks[r]) + Cardinality(Busy(r)) = 0
      BY <1>1, <2>1 DEF IInv, IndexInv, CountsTasks, WorkersLeaveLast
    <3>3. Len(tasks[r]) = 0 /\ Busy(r) = {}
      BY <3>1, <3>2, FS_EmptySet
    <3>4. tasks[r] = <<>>
      BY <1>1, <3>3, EmptySeq DEF IInv, TypeOK
    <3>5. \A w \in Worker : stage[r][w] \in Stage /\ ~InHand(r, w)
      BY <1>1, <3>3 DEF IInv, TypeOK, Busy
    <3>6. QED
      BY <3>4, <3>5 DEF InHand, Stage
  <2>2. QED
    BY <2>1 DEF NoSendAfterClose
<1>2. QED
  BY <1>1, Invariance, PTL
-----------------------------------------------------------------------------
(* The promise of CommitListing *)

(* The status a caller sees *)
Status(p) ==
  CASE p = "idle" -> "idle"
    [] p \in {"ok", "error"} -> p
    [] OTHER -> "pending"

LEMMA StatusOfPhase ==
  /\ Status("idle") = "idle" /\ Status("ok") = "ok" /\ Status("error") = "error"
  /\ \A p \in {"root", "check", "run", "mark", "search"} : Status(p) = "pending"
BY DEF Status

LEMMA StatusMaps == StatusMap = [r \in Request |-> Status(phase[r])]
BY DEF StatusMap, Status

LEMMA StatusMoves ==
  ASSUME TypeOK, NEW r \in Request, NEW p \in Phase,
         phase' = [phase EXCEPT ![r] = p]
  PROVE  StatusMap' = [StatusMap EXCEPT ![r] = Status(p)]
<1>1. phase'[r] = p /\ \A q \in Request \ {r} : phase'[q] = phase[q]
  BY DEF TypeOK
<1>2. StatusMap = [q \in Request |-> Status(phase[q])]
  BY StatusMaps
<1>3. StatusMap' = [q \in Request |-> Status(phase'[q])]
  BY DEF StatusMap, Status
<1>4. QED
  BY <1>1, <1>2, <1>3

(* The promise speaks of the same trees. *)
LEMMA PromiseTrees ==
  ASSUME NEW db, NEW root
  PROVE  /\ Promise!Complete(db, root) <=> Complete(db, root)
         /\ Promise!FilesOf(root) = FilesOf(root)
<1>1. /\ Promise!Listing = Listing
      /\ \A n : Promise!IsDirectory(n) <=> IsDirectory(n)
  BY DEF Promise!Listing, Listing, Promise!IsDirectory, IsDirectory
<1>2. \A S : Promise!ClosedUnder(Listing, S) <=> ClosedUnder(Listing, S)
  BY <1>1 DEF Promise!ClosedUnder, ClosedUnder
<1>3. Promise!Walk(Listing, root) = Walk(Listing, root)
  BY <1>2 DEF Promise!Walk, Walk
<1>4. Promise!Found(Listing, root) = Found(Listing, root)
  BY <1>1, <1>3 DEF Promise!Found, Found
<1>5. QED
  BY <1>1, <1>3, <1>4
  DEF Promise!Complete, Complete, Promise!FilesOf, FilesOf

PromiseVars == <<rows, indexed, StatusMap, cancelled, files>>

LEMMA PromiseInit == Init => Promise!Init
<1>1. Init => StatusMap = [r \in Request |-> "idle"]
  BY DEF Init, StatusMap
<1>2. QED
  BY <1>1 DEF Init, Promise!Init, StatusMap

(* Every step of the indexer is a step of the promise or changes nothing   *)
(* the promise speaks of.                                                  *)
LEMMA PromiseStep ==
  ASSUME IInv, IInv', [Next]_vars
  PROVE  [Promise!Next]_(Promise!listingVars)
<1> USE DEF Goto, dbVars, poolVars
<1>0. TypeOK /\ rows \subseteq Listing /\ CompleteAfterPool /\ WorkersHoldTasks
      /\ PoolOnlyWhileRunning
  BY DEF IInv, IndexInv
<1>q. StatusMap = [r \in Request |-> Status(phase[r])]
  BY StatusMaps
<1>s. SUFFICES \/ Promise!Next
               \/ UNCHANGED PromiseVars
  BY DEF Promise!listingVars, PromiseVars, StatusMap
<1>1. ASSUME NEW r \in Request, Ask(r) PROVE Promise!Ask(r)
  <2>1. /\ StatusMap[r] = "idle"
        /\ StatusMap' = [StatusMap EXCEPT ![r] = "pending"]
    <3>1. phase[r] = "idle" /\ phase' = [phase EXCEPT ![r] = "root"] /\ "root" \in Phase
      BY <1>1 DEF Ask, Phase
    <3>2. StatusMap' = [StatusMap EXCEPT ![r] = Status("root")]
      BY <1>0, <3>1, StatusMoves
    <3>3. QED
      BY <1>q, <3>1, <3>2, StatusOfPhase
  <2>2. QED
    BY <1>1, <2>1 DEF Ask, Promise!Ask, StatusMap
<1>2. ASSUME NEW r \in Request, Cancel(r) PROVE Promise!Leave(r)
  <2>1. StatusMap[r] = "pending" /\ UNCHANGED StatusMap
    BY <1>0, <1>2 DEF Cancel, Live, StatusMap, TypeOK, Phase
  <2>2. QED
    BY <1>2, <2>1 DEF Cancel, Promise!Leave, StatusMap
<1>3. ASSUME NEW r \in Request,
             FetchRoot(r) \/ HitIndex(r) \/ StartPool(r) \/ MarkFails(r)
             \/ (Finish(r) /\ ~failed[r])
      PROVE  UNCHANGED PromiseVars
  <2>1. PICK p \in {"check", "search", "run", "mark"} :
          phase' = [phase EXCEPT ![r] = p]
    BY <1>3 DEF FetchRoot, HitIndex, StartPool, MarkFails, Finish
  <2>2. phase[r] \in {"root", "check", "mark", "run"}
    BY <1>3 DEF FetchRoot, HitIndex, StartPool, MarkFails, Finish
  <2>3. StatusMap' = [StatusMap EXCEPT ![r] = "pending"] /\ StatusMap[r] = "pending"
    <3>1. p \in Phase
      BY DEF Phase
    <3>2. StatusMap' = [StatusMap EXCEPT ![r] = Status(p)]
      BY <1>0, <2>1, <3>1, StatusMoves
    <3>3. QED
      BY <1>q, <2>2, <3>2, StatusOfPhase
  <2>4. UNCHANGED StatusMap
    BY <2>3 DEF StatusMap
  <2>5. QED
    BY <1>3, <2>4 DEF PromiseVars, FetchRoot, HitIndex, StartPool, MarkFails, Finish
<1>4. ASSUME NEW r \in Request,
             FetchRootFails(r) \/ SearchFails(r) \/ (Finish(r) /\ failed[r])
      PROVE  Promise!Fail(r)
  <2>1. phase[r] \in {"root", "search", "run"} /\ phase' = [phase EXCEPT ![r] = "error"]
    BY <1>4 DEF FetchRootFails, SearchFails, Finish
  <2>2. StatusMap' = [StatusMap EXCEPT ![r] = "error"] /\ StatusMap[r] = "pending"
    BY <1>0, <1>q, <2>1, StatusMoves, StatusOfPhase DEF Phase
  <2>3. QED
    BY <1>4, <2>2 DEF FetchRootFails, SearchFails, Finish, Promise!Fail, StatusMap
<1>5. ASSUME NEW r \in Request, Mark(r) PROVE Promise!MarkComplete(r)
  <2>1. phase[r] = "mark" /\ phase' = [phase EXCEPT ![r] = "search"]
    BY <1>5 DEF Mark
  <2>2. StatusMap' = [StatusMap EXCEPT ![r] = "pending"] /\ StatusMap[r] = "pending"
    BY <1>0, <1>q, <2>1, StatusMoves, StatusOfPhase DEF Phase
  <2>3. UNCHANGED StatusMap
    BY <2>2 DEF StatusMap
  <2>4. Complete(rows, RootOf[r])
    BY <1>0, <1>5 DEF Mark, CompleteAfterPool
  <2>5. QED
    BY <1>5, <2>2, <2>3, <2>4, PromiseTrees
    DEF Mark, Promise!MarkComplete, StatusMap
<1>6. ASSUME NEW r \in Request, Search(r) \/ SearchCutShort(r)
      PROVE  Promise!Answer(r)
  <2>1. phase[r] = "search" /\ phase' = [phase EXCEPT ![r] = "ok"]
    BY <1>6 DEF Search, SearchCutShort
  <2>2. StatusMap' = [StatusMap EXCEPT ![r] = "ok"] /\ StatusMap[r] = "pending"
    BY <1>0, <1>q, <2>1, StatusMoves, StatusOfPhase DEF Phase
  <2>3. \E answer \in SUBSET FilesOf(RootOf[r]) :
          /\ ~cancelled[r] => Complete(rows, RootOf[r]) /\ answer = FilesOf(RootOf[r])
          /\ files' = [files EXCEPT ![r] = answer]
    <3>1. CASE Search(r)
      <4>1. Complete(rows, RootOf[r])
        BY <1>0, <3>1 DEF Search, CompleteAfterPool
      <4>2. Found(rows, RootOf[r]) = FilesOf(RootOf[r])
        BY <1>0, <4>1, SearchOnComplete DEF IndexAssumption
      <4>3. QED
        BY <3>1, <4>1, <4>2 DEF Search
    <3>2. CASE SearchCutShort(r)
      <4>1. Found(rows, RootOf[r]) \subseteq FilesOf(RootOf[r])
        BY <1>0, SearchWithin DEF IndexAssumption
      <4>2. QED
        BY <3>2, <4>1 DEF SearchCutShort
    <3>3. QED
      BY <1>6, <3>1, <3>2
  <2>4. QED
    <3>1. \E answer \in SUBSET Promise!FilesOf(RootOf[r]) :
            /\ ~cancelled[r] => /\ Promise!Complete(rows, RootOf[r])
                                /\ answer = Promise!FilesOf(RootOf[r])
            /\ files' = [files EXCEPT ![r] = answer]
      BY <2>3, PromiseTrees
    <3>2. UNCHANGED <<rows, indexed, cancelled>>
      BY <1>6 DEF Search, SearchCutShort
    <3>3. QED
      BY <2>2, <3>1, <3>2 DEF Promise!Answer, StatusMap
<1>7. ASSUME NEW r \in Request, NEW w \in Worker, WorkerStep(r, w), ~Save(r, w)
      PROVE  UNCHANGED PromiseVars
  <2>1. UNCHANGED <<rows, indexed, phase, cancelled, files>>
    BY <1>7 DEF WorkerStep, Receive, ExitOnClose, ExitOnCancel, ClaimRoot, Claim,
                Skip, FetchTree, FetchTreeFails, Send, SaveFails
  <2>2. QED
    BY <2>1 DEF PromiseVars, StatusMap
<1>8. ASSUME NEW r \in Request, NEW w \in Worker, Save(r, w)
      PROVE  \E t \in Tree : Promise!Store(t)
  <2>1. task[r][w].sha \in Tree
    BY <1>0, <1>8 DEF Save, WorkersHoldTasks, InHand, Task
  <2>2. UNCHANGED <<indexed, phase, cancelled, files>>
        /\ rows' = rows \cup Listed[task[r][w].sha]
    BY <1>8 DEF Save
  <2>3. StatusMap[r] = "pending"
    <3>1. InHand(r, w)
      BY <1>8 DEF Save, InHand
    <3>2. phase[r] \in Phase /\ stage[r][w] # "idle"
      BY <1>0, <3>1 DEF TypeOK, InHand
    <3>3. phase[r] \notin {"idle", "root", "check"}
      BY <1>0, <3>2 DEF PoolOnlyWhileRunning
    <3>4. phase[r] \notin {"mark", "search", "ok", "error"}
      BY <1>0, <3>1 DEF PoolOnlyWhileRunning
    <3>5. phase[r] = "run"
      BY <3>2, <3>3, <3>4 DEF Phase
    <3>6. QED
      BY <3>5 DEF StatusMap
  <2>4. Promise!Store(task[r][w].sha)
    BY <2>2, <2>3 DEF Promise!Store, StatusMap
  <2>5. QED
    BY <2>1, <2>4
<1>9. ASSUME NEW r \in Request, CloseTasks(r) PROVE UNCHANGED PromiseVars
  BY <1>9 DEF CloseTasks, PromiseVars, StatusMap
<1>10. CASE Crash
  <2>1. StatusMap' = [r \in Request |-> "idle"]
    BY <1>10 DEF Crash, StatusMap
  <2>2. Promise!Restart
    BY <1>10, <2>1 DEF Crash, Promise!Restart, StatusMap
  <2>3. QED
    BY <2>2 DEF Promise!Next
<1>11. CASE Rest \/ UNCHANGED vars
  BY <1>11 DEF Rest, vars, PromiseVars, StatusMap
<1>12. QED
  BY <1>1, <1>2, <1>3, <1>4, <1>5, <1>6, <1>7, <1>8, <1>9, <1>10, <1>11
  DEF Next, CallStep, Promise!Next

(* The indexer keeps the promise of CommitListing: rows only accumulate, a *)
(* mark is set only on a completely stored tree, and an answer to a caller *)
(* that is still there is the whole listing of its commit.                 *)
THEOREM KeepsPromise == Spec => ImplementsPromise
BY Invariance, PromiseInit, PromiseStep, PTL
DEF Spec, ImplementsPromise, Promise!Spec
-----------------------------------------------------------------------------
(* Room in the channel.  What is still to be sent below the root of r, and *)
(* why it fits together with what is queued: a tree is claimed once, and   *)
(* only its claimant sends its directories.                                *)

(* The root task is in the channel, or in the hands of a worker. *)
RootAhead(r) ==
  /\ seen[r] = {}
  /\ \/ tasks[r] = <<RootTask(r)>> /\ Busy(r) = {}
     \/ /\ tasks[r] = <<>>
        /\ \E w \in Worker : /\ Busy(r) = {w} /\ stage[r][w] = "got"
                             /\ task[r][w].isRoot

SubTaskOf(r, k) == /\ ~k.isRoot
                   /\ k.sha \in Walk(Listing, RootOf[r]) \ {RootOf[r]}

RootBehind(r) ==
  /\ \A k \in QueuedTasks(r) : SubTaskOf(r, k)
  /\ \A w \in Worker :
       /\ stage[r][w] = "got" => SubTaskOf(r, task[r][w])
       /\ stage[r][w] = "fetch" => SubTaskOf(r, task[r][w])
                                   /\ task[r][w].sha \in seen[r]
       /\ stage[r][w] = "loop" =>
            /\ task[r][w].sha \in seen[r] \cup {RootOf[r]}
            /\ task[r][w].sha \in Walk(Listing, RootOf[r])
  /\ \A v, w \in Worker :
       /\ v # w
       /\ stage[r][v] \in {"fetch", "loop"} /\ stage[r][w] \in {"fetch", "loop"}
       => task[r][v].sha # task[r][w].sha
  /\ Len(tasks[r]) + Cardinality(Unsent(r)) <= QueuedAtMost(r)

RoomInv ==
  \A r \in Request : phase[r] = "run" => RootAhead(r) \/ RootBehind(r)

LEMMA BelowFinite ==
  ASSUME NEW r \in Request
  PROVE  IsFiniteSet(BelowRoot(r)) /\ QueuedAtMost(r) = Cardinality(BelowRoot(r))
<1>1. BelowRoot(r) \subseteq Node
  BY DEF BelowRoot, Listing
<1>2. QED
  BY <1>1, FS_Subset DEF BelowRoot, QueuedAtMost

LEMMA PartOfBelow ==
  ASSUME NEW r \in Request, NEW part \in SUBSET BelowRoot(r)
  PROVE  /\ IsFiniteSet(part)
         /\ Cardinality(part) \in Nat /\ QueuedAtMost(r) \in Nat
         /\ Cardinality(part) <= QueuedAtMost(r)
BY BelowFinite, FS_Subset, FS_CardinalityType

(* Fewer entries to send, and no more of them queued than before. *)
LEMMA LessToSend ==
  ASSUME TypeOK, TypeOK', NEW r \in Request,
         Len(tasks[r]) + Cardinality(Unsent(r)) <= QueuedAtMost(r),
         Unsent(r)' \subseteq Unsent(r), Len(tasks'[r]) <= Len(tasks[r])
  PROVE  Len(tasks'[r]) + Cardinality(Unsent(r)') <= QueuedAtMost(r)
<1>1. Unsent(r) \subseteq BelowRoot(r) /\ Unsent(r)' \subseteq BelowRoot(r)
  BY DEF Unsent, BelowRoot
<1>2. /\ Cardinality(Unsent(r)) \in Nat /\ QueuedAtMost(r) \in Nat
      /\ Cardinality(Unsent(r)') \in Nat
      /\ Cardinality(Unsent(r)') <= Cardinality(Unsent(r))
  BY <1>1, PartOfBelow, FS_Subset
<1>3. Len(tasks[r]) \in Nat /\ Len(tasks'[r]) \in Nat
  BY DEF TypeOK
<1>4. QED
  BY <1>2, <1>3

(* Before the root task is claimed, nothing else is queued or in hand.     *)
LEMMA AheadByWorker ==
  ASSUME TypeOK, TypeOK', WorkersHoldTasks, NEW r \in Request,
         NEW w \in Worker, WorkerStep(r, w), RootAhead(r)
  PROVE  RootAhead(r)' \/ RootBehind(r)'
<1> USE DEF SetStage
<1>1. CASE Receive(r, w)
  <2>1. tasks[r] = <<RootTask(r)>> /\ Busy(r) = {}
    BY <1>1 DEF Receive, RootAhead
  <2>2. /\ tasks'[r] = <<>> /\ task'[r][w] = RootTask(r) /\ seen'[r] = seen[r]
        /\ stage'[r][w] = "got"
        /\ \A v \in Worker \ {w} : stage'[r][v] = stage[r][v]
    BY <1>1, <2>1 DEF Receive, TypeOK
  <2>3. Busy(r)' = {w}
    BY <2>1, <2>2 DEF Busy, InHand
  <2>4. QED
    BY <2>2, <2>3 DEF RootAhead, RootTask
<1>2. CASE ExitOnClose(r, w) \/ ExitOnCancel(r, w)
  <2>1. /\ stage[r][w] = "idle" /\ stage'[r][w] = "exited"
        /\ \A v \in Worker \ {w} : stage'[r][v] = stage[r][v]
        /\ tasks' = tasks /\ task' = task /\ seen' = seen
    BY <1>2 DEF ExitOnClose, ExitOnCancel, TypeOK
  <2>2. Busy(r)' = Busy(r)
    BY <2>1 DEF Busy, InHand
  <2>3. QED
    BY <2>1, <2>2 DEF RootAhead, RootTask
<1>3. ASSUME InHand(r, w)
      PROVE  /\ tasks[r] = <<>> /\ Busy(r) = {w}
             /\ stage[r][w] = "got" /\ task[r][w].isRoot
  BY <1>3 DEF RootAhead, Busy
<1>4. CASE ClaimRoot(r, w)
  <2>1. /\ tasks'[r] = <<>> /\ task'[r] = task[r] /\ stage'[r][w] = "loop"
        /\ \A v \in Worker \ {w} : stage'[r][v] = stage[r][v]
        /\ \A v \in Worker \ {w} : ~InHand(r, v)
        /\ task[r][w].sha = RootOf[r]
    BY <1>3, <1>4 DEF ClaimRoot, TypeOK, WorkersHoldTasks, OneRoot, InHand, Busy
  <2>2. QueuedTasks(r)' = {}
    BY <2>1 DEF QueuedTasks
  <2>3. Unsent(r)' \subseteq BelowRoot(r)
    BY DEF Unsent, BelowRoot
  <2>4. Len(tasks'[r]) + Cardinality(Unsent(r)') <= QueuedAtMost(r)
    BY <2>1, <2>3, PartOfBelow
  <2>5. RootOf[r] \in Walk(Listing, RootOf[r])
    BY WalkIsClosed
  <2>6. \A v \in Worker \ {w} : stage'[r][v] \notin {"got", "fetch", "loop"}
    BY <2>1 DEF InHand
  <2>7. QED
    BY <2>1, <2>2, <2>4, <2>5, <2>6 DEF RootBehind, QueuedAtMost
<1>5. CASE ~Receive(r, w) /\ ~ExitOnClose(r, w) /\ ~ExitOnCancel(r, w)
           /\ ~ClaimRoot(r, w)
  BY <1>3, <1>5
  DEF WorkerStep, InHand, Claim, Skip, FetchTree, FetchTreeFails, Send, Save,
      SaveFails
<1>6. QED
  BY <1>1, <1>2, <1>4, <1>5

(* The parts of RootBehind for one worker and for two. *)
Below(r, w) ==
  /\ stage[r][w] = "got" => SubTaskOf(r, task[r][w])
  /\ stage[r][w] = "fetch" => SubTaskOf(r, task[r][w])
                              /\ task[r][w].sha \in seen[r]
  /\ stage[r][w] = "loop" =>
       /\ task[r][w].sha \in seen[r] \cup {RootOf[r]}
       /\ task[r][w].sha \in Walk(Listing, RootOf[r])

Opens(r, w) == stage[r][w] \in {"fetch", "loop"}

Apart(r) ==
  \A v, w \in Worker : v # w /\ Opens(r, v) /\ Opens(r, w)
                         => task[r][v].sha # task[r][w].sha

LEMMA BehindParts ==
  ASSUME NEW r \in Request
  PROVE  RootBehind(r) <=> /\ \A k \in QueuedTasks(r) : SubTaskOf(r, k)
                           /\ \A w \in Worker : Below(r, w)
                           /\ Apart(r)
                           /\ Len(tasks[r]) + Cardinality(Unsent(r))
                                <= QueuedAtMost(r)
BY DEF RootBehind, Below, Apart, Opens

(* A worker that takes a task leaves room for one more. *)
LEMMA BehindByReceive ==
  ASSUME TypeOK, TypeOK', NEW r \in Request, NEW w \in Worker,
         Receive(r, w), RootBehind(r)
  PROVE  RootBehind(r)' /\ Unsent(r)' \subseteq Unsent(r)
<1>1. /\ stage[r][w] = "idle" /\ stage'[r][w] = "got"
      /\ todo'[r] = todo[r] /\ seen'[r] = seen[r]
      /\ \A v \in Worker \ {w} : stage'[r][v] = stage[r][v] /\ task'[r][v] = task[r][v]
  BY DEF Receive, SetStage, TypeOK
<1>2. /\ task'[r][w] \in QueuedTasks(r)
      /\ QueuedTasks(r)' \subseteq QueuedTasks(r)
  BY ReceiveQueue
<1>3. Len(tasks'[r]) <= Len(tasks[r])
  BY HeadTailProperties DEF Receive, TypeOK
<1>4. Unsent(r)' \subseteq Unsent(r)
  BY <1>1 DEF Unsent, Opened, BelowRoot
<1>5. \A k \in QueuedTasks(r)' : SubTaskOf(r, k)'
  BY <1>2, BehindParts DEF SubTaskOf
<1>6. \A v \in Worker : Below(r, v)'
  BY <1>1, <1>2, BehindParts DEF Below, SubTaskOf
<1>7. Apart(r)'
  BY <1>1, BehindParts DEF Apart, Opens
<1>8. Len(tasks'[r]) + Cardinality(Unsent(r)') <= QueuedAtMost(r)
  BY <1>3, <1>4, BehindParts, LessToSend
<1>9. QED
  BY <1>4, <1>5, <1>6, <1>7, <1>8 DEF RootBehind, Below, Apart, Opens, SubTaskOf,
                                QueuedAtMost

(* A tree that is claimed was unopened, and is still to be opened.  *)
LEMMA BehindByClaim ==
  ASSUME TypeOK, TypeOK', NEW r \in Request, NEW w \in Worker,
         Claim(r, w), RootBehind(r)
  PROVE  RootBehind(r)' /\ Unsent(r)' \subseteq Unsent(r)
<1> DEFINE t == task[r][w].sha
<1>1. /\ stage[r][w] = "got" /\ stage'[r][w] = "fetch" /\ t \notin seen[r]
      /\ seen'[r] = seen[r] \cup {t}
      /\ task'[r] = task[r] /\ todo'[r] = todo[r] /\ tasks'[r] = tasks[r]
      /\ \A v \in Worker \ {w} : stage'[r][v] = stage[r][v]
  BY DEF Claim, SetStage, TypeOK
<1>2. SubTaskOf(r, task[r][w]) /\ t # RootOf[r]
  BY <1>1, BehindParts DEF Below, SubTaskOf
<1>3. Unsent(r)' \subseteq Unsent(r)
  BY <1>1, <1>2 DEF Unsent, Opened, BelowRoot
<1>4. \A v \in Worker : Below(r, v)'
  BY <1>1, <1>2, BehindParts DEF Below, SubTaskOf
<1>5. Apart(r)'
  <2>1. \A v \in Worker : Opens(r, v) => task[r][v].sha \in seen[r] \cup {RootOf[r]}
    BY BehindParts DEF Below, Opens
  <2>2. \A v \in Worker \ {w} : Opens(r, v)' => Opens(r, v) /\ task[r][v].sha # t
    BY <1>1, <1>2, <2>1 DEF Opens
  <2>3. QED
    BY <1>1, <2>2, BehindParts DEF Apart
<1>6. Len(tasks'[r]) + Cardinality(Unsent(r)') <= QueuedAtMost(r)
  <2>1. Len(tasks'[r]) <= Len(tasks[r])
    BY <1>1 DEF TypeOK
  <2>2. QED
    BY <2>1, <1>3, BehindParts, LessToSend
<1>7. \A k \in QueuedTasks(r)' : SubTaskOf(r, k)'
  BY <1>1, SameQueue, BehindParts DEF SubTaskOf
<1>8. QED
  BY <1>3, <1>4, <1>5, <1>6, <1>7 DEF RootBehind, Below, Apart, Opens, SubTaskOf,
                                QueuedAtMost

(* A tree that has been fetched is opened: its directories are to be sent. *)
LEMMA BehindByFetch ==
  ASSUME TypeOK, TypeOK', NEW r \in Request, NEW w \in Worker,
         FetchTree(r, w), RootBehind(r)
  PROVE  RootBehind(r)' /\ Unsent(r)' \subseteq Unsent(r)
<1> DEFINE t == task[r][w].sha
<1>1. /\ stage[r][w] = "fetch" /\ stage'[r][w] = "loop"
      /\ todo'[r][w] = Directories(t) /\ seen'[r] = seen[r]
      /\ task'[r] = task[r] /\ tasks'[r] = tasks[r]
      /\ \A v \in Worker \ {w} : stage'[r][v] = stage[r][v] /\ todo'[r][v] = todo[r][v]
  BY DEF FetchTree, SetStage, TypeOK
<1>2. SubTaskOf(r, task[r][w]) /\ t \in seen[r]
  BY <1>1, BehindParts DEF Below
<1>3. ASSUME NEW n \in Directories(t) PROVE ~Opened(r, Parent[n])
  <2>1. t \in Tree /\ Parent[n] = t
    BY <1>2, WalkIsClosed DEF SubTaskOf, Directories, Entries
  <2>2. QED
    BY <1>1, <2>1 DEF Opened
<1>4. Unsent(r)' \subseteq Unsent(r)
  BY <1>1, <1>3 DEF Unsent, Opened, BelowRoot
<1>5. \A v \in Worker : Below(r, v)'
  BY <1>1, <1>2, BehindParts DEF Below, SubTaskOf
<1>6. Apart(r)'
  BY <1>1, BehindParts DEF Apart, Opens
<1>7. Len(tasks'[r]) + Cardinality(Unsent(r)') <= QueuedAtMost(r)
  <2>1. Len(tasks'[r]) <= Len(tasks[r])
    BY <1>1 DEF TypeOK
  <2>2. QED
    BY <2>1, <1>4, BehindParts, LessToSend
<1>8. \A k \in QueuedTasks(r)' : SubTaskOf(r, k)'
  BY <1>1, SameQueue, BehindParts DEF SubTaskOf
<1>9. QED
  BY <1>4, <1>5, <1>6, <1>7, <1>8 DEF RootBehind, Below, Apart, Opens, SubTaskOf,
                                QueuedAtMost

(* A worker that is done with a task, or leaves, sends nothing any more. *)
LEMMA BehindByLeaving ==
  ASSUME TypeOK, TypeOK', NEW r \in Request, NEW w \in Worker,
         stage'[r][w] \in {"idle", "exited"}, todo'[r][w] \subseteq todo[r][w],
         \A v \in Worker \ {w} : /\ stage'[r][v] = stage[r][v]
                                 /\ task'[r][v] = task[r][v]
                                 /\ todo'[r][v] = todo[r][v],
         tasks'[r] = tasks[r], seen'[r] = seen[r], RootBehind(r)
  PROVE  RootBehind(r)' /\ Unsent(r)' \subseteq Unsent(r)
<1>1. Unsent(r)' \subseteq Unsent(r)
  BY DEF Unsent, Opened, BelowRoot
<1>2. \A v \in Worker : Below(r, v)'
  BY BehindParts DEF Below, SubTaskOf
<1>3. Apart(r)'
  BY BehindParts DEF Apart, Opens
<1>4. Len(tasks'[r]) + Cardinality(Unsent(r)') <= QueuedAtMost(r)
  <2>1. Len(tasks'[r]) <= Len(tasks[r])
    BY DEF TypeOK
  <2>2. QED
    BY <2>1, <1>1, BehindParts, LessToSend
<1>5. \A k \in QueuedTasks(r)' : SubTaskOf(r, k)'
  BY SameQueue, BehindParts DEF SubTaskOf
<1>6. QED
  BY <1>1, <1>2, <1>3, <1>4, <1>5 DEF RootBehind, Below, Apart, Opens, SubTaskOf,
                                QueuedAtMost

(* What a worker has still to send is below the root, and nobody else has  *)
(* to send it.                                                             *)
LEMMA TodoIsUnsent ==
  ASSUME TypeOK, WorkersHoldTasks, NEW r \in Request, RootBehind(r),
         NEW w \in Worker, NEW n \in todo[r][w]
  PROVE  /\ stage[r][w] = "loop" /\ Parent[n] = task[r][w].sha
         /\ n \in Unsent(r)
         /\ Opened(r, Parent[n])
         /\ \A v \in Worker \ {w} : n \notin todo[r][v]
<1>1. stage[r][w] = "loop" /\ n \in Directories(task[r][w].sha)
  BY DEF WorkersHoldTasks
<1>2. /\ task[r][w].sha \in seen[r] \cup {RootOf[r]}
      /\ task[r][w].sha \in Walk(Listing, RootOf[r])
  BY <1>1, BehindParts DEF Below
<1>3. task[r][w].sha \in Tree
  BY <1>2, WalkIsClosed
<1>4. n \in Listing /\ IsDirectory(n) /\ Parent[n] = task[r][w].sha
  BY <1>1, <1>3, ListedIsListing DEF Directories, Entries
<1>5. n \in Unsent(r)
  BY <1>2, <1>4 DEF Unsent, BelowRoot
<1>6. \A v \in Worker \ {w} : Opens(r, v) => task[r][v].sha # Parent[n]
  BY <1>1, <1>4, BehindParts DEF Apart, Opens
<1>7. Opened(r, Parent[n])
  BY <1>1, <1>2, <1>4, <1>6 DEF Opened, Opens
<1>8. ASSUME NEW v \in Worker \ {w}, n \in todo[r][v] PROVE FALSE
  <2>1. stage[r][v] = "loop" /\ n \in Directories(task[r][v].sha)
    BY <1>8 DEF WorkersHoldTasks
  <2>2. task[r][v].sha \in Tree
    BY <2>1, BehindParts, WalkIsClosed DEF Below
  <2>3. Parent[n] = task[r][v].sha
    BY <2>1, <2>2 DEF Directories, Entries
  <2>4. QED
    BY <2>1, <2>3, <1>6 DEF Opens
<1>9. QED
  BY <1>1, <1>4, <1>5, <1>7, <1>8

(* What is sent moves from the entries to send to the channel. *)
LEMMA BehindBySend ==
  ASSUME TypeOK, TypeOK', WorkersHoldTasks, NEW r \in Request, NEW w \in Worker,
         NEW n \in Node, Send(r, w, n), RootBehind(r)
  PROVE  /\ RootBehind(r)' /\ Unsent(r)' \subseteq Unsent(r)
         /\ Cardinality(Unsent(r)') <= Cardinality(Unsent(r)) - 1
<1>1. /\ stage' = stage /\ seen' = seen /\ task' = task
      /\ n \in todo[r][w] /\ todo'[r][w] = todo[r][w] \ {n}
      /\ \A v \in Worker \ {w} : todo'[r][v] = todo[r][v]
      /\ tasks[r] \in Seq(Task) /\ tasks'[r] = Append(tasks[r], SubTask(n))
  BY DEF Send, TypeOK
<1>2. /\ n \in Unsent(r) /\ Opened(r, Parent[n])
      /\ \A v \in Worker \ {w} : n \notin todo[r][v]
  BY <1>1, TodoIsUnsent
<1>3. Unsent(r)' \subseteq Unsent(r) \ {n}
  BY <1>1, <1>2 DEF Unsent, Opened, BelowRoot
<1>4. /\ Cardinality(Unsent(r)) \in Nat /\ Cardinality(Unsent(r)') \in Nat
      /\ Cardinality(Unsent(r)') <= Cardinality(Unsent(r)) - 1
  <2>1. Unsent(r) \subseteq BelowRoot(r) /\ IsFiniteSet(Unsent(r))
    BY PartOfBelow DEF Unsent
  <2>2. Cardinality(Unsent(r) \ {n}) = Cardinality(Unsent(r)) - 1
        /\ IsFiniteSet(Unsent(r) \ {n})
    BY <1>2, <2>1, FS_RemoveElement
  <2>3. QED
    BY <1>3, <2>1, <2>2, FS_Subset, FS_CardinalityType
<1>5. Len(tasks'[r]) + Cardinality(Unsent(r)') <= QueuedAtMost(r)
  <2>1. Len(tasks[r]) \in Nat /\ Len(tasks'[r]) = Len(tasks[r]) + 1
    BY <1>1, AppendProperties, SendQueue
  <2>2. QueuedAtMost(r) \in Nat
    BY PartOfBelow
  <2>3. QED
    BY <1>4, <2>1, <2>2, BehindParts
<1>6. SubTaskOf(r, SubTask(n))
  <2>1. /\ n \in Listing /\ IsDirectory(n)
        /\ Parent[n] \in Walk(Listing, RootOf[r])
    BY <1>2 DEF Unsent, BelowRoot
  <2>2. Target[n] \in Walk(Listing, RootOf[r])
    BY <2>1, WalkIsClosed DEF ClosedUnder
  <2>3. Target[n] # RootOf[r]
    BY <2>1, TreesAreHashes
  <2>4. QED
    BY <2>2, <2>3 DEF SubTaskOf, SubTask
<1>7. \A k \in QueuedTasks(r)' : SubTaskOf(r, k)'
  BY <1>6, SendQueue, BehindParts DEF SubTaskOf
<1>8. \A v \in Worker : Below(r, v)'
  BY <1>1, BehindParts DEF Below, SubTaskOf
<1>9. Apart(r)'
  BY <1>1, BehindParts DEF Apart, Opens
<1>10. QED
  BY <1>3, <1>4, <1>5, <1>7, <1>8, <1>9 DEF RootBehind, Below, Apart, Opens, SubTaskOf,
                                QueuedAtMost

LEMMA BehindByWorker ==
  ASSUME TypeOK, TypeOK', WorkersHoldTasks, NEW r \in Request,
         NEW w \in Worker, WorkerStep(r, w), RootBehind(r)
  PROVE  RootBehind(r)' /\ Unsent(r)' \subseteq Unsent(r)
<1>1. CASE Receive(r, w) \/ Claim(r, w) \/ FetchTree(r, w)
  BY <1>1, BehindByReceive, BehindByClaim, BehindByFetch
<1>2. CASE \E n \in Node : Send(r, w, n)
  BY <1>2, BehindBySend
<1>3. CASE ClaimRoot(r, w)
  <2>1. ~task[r][w].isRoot
    BY <1>3, BehindParts DEF ClaimRoot, Below, SubTaskOf
  <2>2. QED
    BY <1>3, <2>1 DEF ClaimRoot
<1>4. CASE ExitOnClose(r, w) \/ ExitOnCancel(r, w)
  <2>1. /\ stage'[r][w] = "exited" /\ todo' = todo /\ task' = task
        /\ tasks' = tasks /\ seen' = seen
        /\ \A v \in Worker \ {w} : stage'[r][v] = stage[r][v]
    BY <1>4 DEF ExitOnClose, ExitOnCancel, SetStage, TypeOK
  <2>2. QED
    BY <2>1, BehindByLeaving
<1>5. CASE Skip(r, w) \/ FetchTreeFails(r, w) \/ Save(r, w) \/ SaveFails(r, w)
  <2>1. TaskDone(r, w) /\ tasks' = tasks /\ seen' = seen
    BY <1>5 DEF Skip, FetchTreeFails, Save, SaveFails
  <2>2. /\ stage'[r][w] = "idle" /\ todo'[r][w] = {}
        /\ \A v \in Worker \ {w} : /\ stage'[r][v] = stage[r][v]
                                   /\ task'[r][v] = task[r][v]
                                   /\ todo'[r][v] = todo[r][v]
    BY <2>1 DEF TaskDone, SetStage, TypeOK
  <2>3. QED
    BY <2>1, <2>2, BehindByLeaving
<1>6. QED
  BY <1>1, <1>2, <1>3, <1>4, <1>5 DEF WorkerStep

(* What RootAhead and RootBehind say depends on the pool alone.  *)
LEMMA RoomWhenSame ==
  ASSUME NEW r \in Request, RootAhead(r) \/ RootBehind(r),
         UNCHANGED <<tasks[r], seen[r], stage[r], task[r], todo[r]>>
  PROVE  RootAhead(r)' \/ RootBehind(r)'
<1>1. QueuedTasks(r)' = QueuedTasks(r) /\ Busy(r)' = Busy(r)
  BY SameQueue DEF Busy, InHand
<1>2. Unsent(r)' = Unsent(r)
  BY DEF Unsent, Opened, BelowRoot
<1>3. CASE RootAhead(r)
  BY <1>1, <1>3 DEF RootAhead, RootTask
<1>4. CASE RootBehind(r)
  BY <1>1, <1>2, <1>4 DEF RootBehind, SubTaskOf, QueuedAtMost
<1>5. QED
  BY <1>3, <1>4

LEMMA RoomStep ==
  ASSUME TypeOK, TypeOK', WorkersHoldTasks, PoolOnlyWhileRunning, RoomInv, Next
  PROVE  RoomInv'
<1> DEFINE Room(q) == phase[q] = "run" => RootAhead(q) \/ RootBehind(q)
<1>1. \A q \in Request : Room(q)
  BY DEF RoomInv
<1>2. ASSUME NEW q \in Request, phase'[q] = phase[q],
             UNCHANGED <<tasks[q], seen[q], stage[q], task[q], todo[q]>>
      PROVE  Room(q)'
  BY <1>1, <1>2, RoomWhenSame
<1>3. ASSUME NEW r \in Request, StartPool(r) PROVE Room(r)'
  <2>1. /\ tasks'[r] = <<RootTask(r)>> /\ seen'[r] = seen[r] /\ seen[r] = {}
        /\ stage'[r] = stage[r] /\ \A w \in Worker : stage[r][w] = "idle"
    BY <1>3 DEF StartPool, Goto, TypeOK, PoolOnlyWhileRunning
  <2>2. Busy(r)' = {}
    BY <2>1 DEF Busy, InHand
  <2>3. QED
    BY <2>1, <2>2 DEF RootAhead, RootTask
<1>4. ASSUME NEW r \in Request, Cancel(r) \/ CloseTasks(r) PROVE Room(r)'
  BY <1>2, <1>4 DEF Cancel, CloseTasks, poolVars
<1>5. ASSUME NEW r \in Request, Ask(r) \/ CallStep(r), ~StartPool(r)
      PROVE  Room(r)'
  <2>1. phase'[r] # "run"
    BY <1>5 DEF Ask, CallStep, FetchRoot, FetchRootFails, HitIndex, Finish, Mark,
                MarkFails, Search, SearchCutShort, SearchFails, Goto, TypeOK
  <2>2. QED
    BY <2>1
<1>6. ASSUME NEW r \in Request, NEW w \in Worker, WorkerStep(r, w)
      PROVE  Room(r)'
  <2>1. phase' = phase
    BY <1>6 DEF WorkerStep, Receive, ExitOnClose, ExitOnCancel, ClaimRoot, Claim,
                Skip, FetchTree, FetchTreeFails, Send, Save, SaveFails
  <2>2. QED
    BY <1>1, <1>6, <2>1, AheadByWorker, BehindByWorker
<1>7. ASSUME Crash, NEW q \in Request PROVE Room(q)'
  BY <1>7 DEF Crash
<1>8. ASSUME Rest, NEW q \in Request PROVE Room(q)'
  BY <1>2, <1>8 DEF Rest, vars, poolVars
<1>9. ASSUME NEW q \in Request, Same(q) PROVE Room(q)'
  BY <1>2, <1>9 DEF Same
<1>10. \A q \in Request : Room(q)'
  BY <1>3, <1>4, <1>5, <1>6, <1>7, <1>8, <1>9, OthersKeepState DEF Next
<1>11. QED
  BY <1>10 DEF RoomInv

LEMMA RoomKept == ASSUME RoomInv, UNCHANGED vars PROVE RoomInv'
<1>1. SUFFICES ASSUME NEW q \in Request, phase[q] = "run"
               PROVE  RootAhead(q)' \/ RootBehind(q)'
  BY DEF RoomInv, vars
<1>2. QED
  BY <1>1, RoomWhenSame DEF RoomInv, vars, poolVars

(* A worker with something to send finds the channel shorter than the      *)
(* entries below the root, as its own entry is not in it.                  *)
LEMMA RoomToSend ==
  ASSUME IInv, RoomInv PROVE NoSendBlocks
<1>1. TypeOK /\ WorkersHoldTasks /\ PoolOnlyWhileRunning
  BY DEF IInv, IndexInv
<1>2. SUFFICES ASSUME NEW r \in Request, QueuedAtMost(r) <= Capacity,
                      NEW w \in Worker, NEW n \in todo[r][w]
               PROVE  Len(tasks[r]) < Capacity
  BY DEF NoSendBlocks
<1>3. stage[r][w] = "loop"
  BY <1>1 DEF WorkersHoldTasks
<1>4. phase[r] = "run"
  <2>1. phase[r] \in Phase
    BY <1>1 DEF TypeOK
  <2>2. phase[r] \notin {"mark", "search", "ok", "error"}
    BY <1>1, <1>3 DEF PoolOnlyWhileRunning, InHand
  <2>3. phase[r] \notin {"idle", "root", "check"}
    BY <1>1, <1>3 DEF PoolOnlyWhileRunning
  <2>4. QED
    BY <2>1, <2>2, <2>3 DEF Phase
<1>5. w \in Busy(r)
  BY <1>3 DEF Busy, InHand
<1>6. RootBehind(r)
  BY <1>3, <1>4, <1>5 DEF RoomInv, RootAhead
<1>7. Unsent(r) \subseteq BelowRoot(r) /\ n \in Unsent(r)
  BY <1>1, <1>6, TodoIsUnsent DEF Unsent
<1>8. Cardinality(Unsent(r)) \in Nat /\ Cardinality(Unsent(r)) # 0
  BY <1>7, PartOfBelow, FS_EmptySet
<1>9. /\ Len(tasks[r]) + Cardinality(Unsent(r)) <= QueuedAtMost(r)
      /\ QueuedAtMost(r) \in Nat /\ Len(tasks[r]) \in Nat
  <2>1. Len(tasks[r]) + Cardinality(Unsent(r)) <= QueuedAtMost(r)
    BY <1>6, BehindParts
  <2>2. QueuedAtMost(r) \in Nat
    BY <1>7, PartOfBelow
  <2>3. tasks[r] \in Seq(Task)
    BY <1>1 DEF TypeOK
  <2>4. QED
    BY <2>1, <2>2, <2>3, LenProperties
<1>10. QED
  BY <1>2, <1>8, <1>9

(* As long as the channel holds as many tasks as there are directory       *)
(* entries below the root, no worker blocks in the send of line 839, so    *)
(* the pool cannot come to a stop with every worker waiting for another to *)
(* receive.                                                                *)
THEOREM SendsNeverBlock == Spec => []NoSendBlocks
<1>1. Init => RoomInv
  BY DEF Init, RoomInv
<1>2. IInv /\ IInv' /\ RoomInv /\ [Next]_vars => RoomInv'
  BY RoomStep, RoomKept DEF IInv, IndexInv
<1>3. IInv /\ RoomInv => NoSendBlocks
  BY RoomToSend
<1>4. QED
  BY Invariance, <1>1, <1>2, <1>3, PTL DEF Spec

(* Every task is counted, every directory accounted for: the parts of the  *)
(* inductive invariant that speak of the pool and of the rows it stores.   *)
THEOREM BooksAreKept == Spec => []IndexInv
<1>1. IInv => IndexInv
  BY DEF IInv
<1>2. QED
  BY <1>1, Invariance, PTL

-----------------------------------------------------------------------------
(* The pool never comes to a stop. *)

(* The closer is there from the start of the pool on. *)
CloserRuns == \A r \in Request : phase[r] = "run" => closer[r] # "off"

LEMMA CloserStep ==
  ASSUME TypeOK, CloserRuns, Next
  PROVE  CloserRuns'
<1>1. ASSUME NEW r \in Request, StartPool(r) \/ CloseTasks(r)
      PROVE  closer'[r] # "off"
  BY <1>1 DEF StartPool, CloseTasks, TypeOK
<1>2. ASSUME NEW r \in Request, Ask(r) \/ CallStep(r), ~StartPool(r)
      PROVE  phase'[r] # "run"
  BY <1>2 DEF Ask, CallStep, FetchRoot, FetchRootFails, HitIndex, Finish, Mark,
              MarkFails, Search, SearchCutShort, SearchFails, Goto, TypeOK
<1>3. ASSUME NEW r \in Request,
             Cancel(r) \/ Rest \/ \E w \in Worker : WorkerStep(r, w)
      PROVE  phase' = phase /\ closer' = closer
  BY <1>3 DEF Cancel, Rest, vars, poolVars, WorkerStep, Receive, ExitOnClose,
              ExitOnCancel, ClaimRoot, Claim, Skip, FetchTree, FetchTreeFails,
              Send, Save, SaveFails
<1>4. ASSUME Crash, NEW q \in Request PROVE phase'[q] # "run"
  BY <1>4 DEF Crash
<1>5. ASSUME NEW q \in Request, Same(q)
      PROVE  phase'[q] = phase[q] /\ closer'[q] = closer[q]
  BY <1>5 DEF Same
<1>6. ASSUME NEW q \in Request, phase'[q] = "run" PROVE closer'[q] # "off"
  BY <1>1, <1>2, <1>3, <1>4, <1>5, <1>6, OthersKeepState DEF Next, CloserRuns
<1>7. QED
  BY <1>6 DEF CloserRuns

(* If no worker can go on, none has a task in its hands and the channel is *)
(* empty; then the counter is back at 0, and the closer can go on or has   *)
(* closed the channel, for which the workers leave.                        *)
LEMMA GoesOn ==
  ASSUME IInv, NoSendBlocks, CloserRuns PROVE PoolGoesOn
<1>1. TypeOK /\ CountsTasks /\ WorkersHoldTasks /\ WorkersLeaveLast
  BY DEF IInv, IndexInv
<1>2. SUFFICES ASSUME NEW r \in Request,
                      phase[r] = "run", QueuedAtMost(r) <= Capacity,
                      \A w \in Worker : ~CanGoOn(r, w),
                      ~(closer[r] = "waiting" /\ taskWG[r] = 0),
                      NEW w \in Worker
               PROVE  stage[r][w] = "exited"
  BY DEF PoolGoesOn
<1>3. \A v \in Worker : stage[r][v] \in {"idle", "exited"}
  <2>1. \A v \in Worker : stage[r][v] \in Stage
    BY <1>1 DEF TypeOK
  <2>2. \A v \in Worker : stage[r][v] # "loop"
    BY <1>2 DEF CanGoOn, NoSendBlocks
  <2>3. QED
    BY <1>2, <2>1, <2>2 DEF CanGoOn, Stage
<1>4. SUFFICES ASSUME stage[r][w] = "idle" PROVE FALSE
  BY <1>3
<1>5. tasks[r] = <<>> /\ ~closed[r]
  BY <1>2, <1>4 DEF CanGoOn
<1>6. taskWG[r] = 0
  <2>1. Busy(r) = {}
    BY <1>3 DEF Busy, InHand
  <2>2. Cardinality(Busy(r)) = 0 /\ Len(tasks[r]) = 0
    BY <1>5, <2>1, FS_EmptySet
  <2>3. QED
    BY <1>1, <2>2 DEF CountsTasks
<1>7. closer[r] = "done"
  <2>1. closer[r] \in Closer
    BY <1>1 DEF TypeOK
  <2>2. QED
    BY <1>2, <1>6, <2>1 DEF CloserRuns, Closer
<1>8. QED
  BY <1>1, <1>5, <1>7 DEF WorkersLeaveLast

(* While a call waits for its pool (line 865), a worker, the closer or the *)
(* call itself can go on, whatever has failed or was cancelled: they never *)
(* wait for each other in a circle, if the channel has room for every      *)
(* directory entry.                                                        *)
THEOREM PoolNeverStops == Spec => []PoolGoesOn
<1>1. Init => CloserRuns
  BY DEF Init, CloserRuns
<1>2. IInv /\ CloserRuns /\ [Next]_vars => CloserRuns'
  <2>1. CASE UNCHANGED vars
    BY <2>1 DEF CloserRuns, vars, poolVars
  <2>2. QED
    BY <2>1, CloserStep DEF IInv
<1>3. IInv /\ NoSendBlocks /\ CloserRuns => PoolGoesOn
  BY GoesOn
<1>4. QED
  BY Invariance, SendsNeverBlock, <1>1, <1>2, <1>3, PTL DEF Spec

-----------------------------------------------------------------------------
(* The pool comes to its end: what every step of it takes from StepsLeft. *)

LEMMA StagesCounted ==
  ASSUME NEW r \in Request, NEW stages
  PROVE  InStages(r, stages) \in Nat /\ InStages(r, stages)' \in Nat
<1>1. /\ {w \in Worker : stage[r][w] \in stages} \subseteq Worker
      /\ {w \in Worker : stage'[r][w] \in stages} \subseteq Worker
  OBVIOUS
<1>2. QED
  BY <1>1, FS_Subset, FS_CardinalityType DEF InStages

(* A worker that changes its stage leaves one count and enters another. *)
LEMMA StagesChange ==
  ASSUME TypeOK, NEW r \in Request, NEW w \in Worker, NEW s \in Stage,
         SetStage(r, w, s), NEW stages
  PROVE  InStages(r, stages)' = InStages(r, stages)
                                  + (IF s \in stages THEN 1 ELSE 0)
                                  - (IF stage[r][w] \in stages THEN 1 ELSE 0)
<1> DEFINE before == {v \in Worker : stage[r][v] \in stages}
           after == {v \in Worker : stage'[r][v] \in stages}
<1>1. /\ stage'[r][w] = s
      /\ \A v \in Worker \ {w} : stage'[r][v] = stage[r][v]
  BY DEF SetStage, TypeOK
<1>2. IsFiniteSet(before) /\ Cardinality(before) \in Nat
  <2>1. before \subseteq Worker
    OBVIOUS
  <2>2. QED
    BY <2>1, FS_Subset, FS_CardinalityType
<1>3. /\ Cardinality(before \cup {w}) =
           IF w \in before THEN Cardinality(before) ELSE Cardinality(before) + 1
      /\ Cardinality(before \ {w}) =
           IF w \in before THEN Cardinality(before) - 1 ELSE Cardinality(before)
  BY <1>2, FS_AddElement, FS_RemoveElement
<1>4. w \in before <=> stage[r][w] \in stages
  OBVIOUS
<1>5. IF s \in stages THEN after = before \cup {w} ELSE after = before \ {w}
  BY <1>1
<1>6. InStages(r, stages) = Cardinality(before)
      /\ InStages(r, stages)' = Cardinality(after)
  BY DEF InStages
<1>7. QED
  <2> HIDE DEF before, after
  <2>1. CASE s \in stages
    <3>1. Cardinality(after) = Cardinality(before \cup {w})
      BY <1>5, <2>1
    <3>2. QED
      BY <1>2, <1>3, <1>4, <1>6, <2>1, <3>1
  <2>2. CASE s \notin stages
    <3>1. Cardinality(after) = Cardinality(before \ {w})
      BY <1>5, <2>2
    <3>2. QED
      BY <1>2, <1>3, <1>4, <1>6, <2>2, <3>1
  <2>3. QED
    BY <2>1, <2>2

(* What a worker adds to the effort in each of its stages. *)
EffortOf == [idle |-> 1, got |-> 4, fetch |-> 3, loop |-> 2, exited |-> 0]

LEMMA EffortChange ==
  ASSUME TypeOK, NEW r \in Request, NEW w \in Worker, NEW s \in Stage,
         SetStage(r, w, s)
  PROVE  /\ Effort(r) \in Nat /\ Effort(r)' \in Nat
         /\ Effort(r)' = Effort(r) + EffortOf[s] - EffortOf[stage[r][w]]
<1> DEFINE change(stages) == (IF s \in stages THEN 1 ELSE 0)
                               - (IF stage[r][w] \in stages THEN 1 ELSE 0)
<1>1. /\ InStages(r, {"got"}) \in Nat
      /\ InStages(r, {"got", "fetch"}) \in Nat
      /\ InStages(r, {"got", "fetch", "loop"}) \in Nat
      /\ InStages(r, Stage \ {"exited"}) \in Nat
  BY StagesCounted
<1>2. /\ InStages(r, {"got"})' = InStages(r, {"got"}) + change({"got"})
      /\ InStages(r, {"got", "fetch"})' =
           InStages(r, {"got", "fetch"}) + change({"got", "fetch"})
      /\ InStages(r, {"got", "fetch", "loop"})' =
           InStages(r, {"got", "fetch", "loop"}) + change({"got", "fetch", "loop"})
      /\ InStages(r, Stage \ {"exited"})' =
           InStages(r, Stage \ {"exited"}) + change(Stage \ {"exited"})
  BY <1>1, StagesChange
<1>3. /\ InStages(r, {"got"})' \in Nat
      /\ InStages(r, {"got", "fetch"})' \in Nat
      /\ InStages(r, {"got", "fetch", "loop"})' \in Nat
      /\ InStages(r, Stage \ {"exited"})' \in Nat
  BY StagesCounted
<1>4. stage[r][w] \in Stage
  BY DEF TypeOK
<1>5. change({"got"}) + change({"got", "fetch"}) + change({"got", "fetch", "loop"})
        + change(Stage \ {"exited"}) = EffortOf[s] - EffortOf[stage[r][w]]
  BY <1>4 DEF Stage, EffortOf
<1>6. QED
  BY <1>1, <1>2, <1>3, <1>5 DEF Effort

(* While the root task is ahead it is unopened, afterwards it never is.    *)
LEMMA RootOpens ==
  ASSUME TypeOK, NEW r \in Request
  PROVE  /\ RootAhead(r) => StillToSend(r) = BelowRoot(r)
         /\ RootBehind(r) => StillToSend(r) = Unsent(r)
<1>1. ASSUME RootAhead(r) PROVE RootUnopened(r)
  <2>1. CASE tasks[r] = <<RootTask(r)>>
    <3>1. 1 \in DOMAIN tasks[r] /\ tasks[r][1] = RootTask(r)
      BY <2>1
    <3>2. QED
      BY <3>1 DEF RootUnopened, QueuedTasks, RootTask
  <2>2. QED
    BY <1>1, <2>1 DEF RootAhead, RootUnopened
<1>2. ASSUME RootBehind(r) PROVE ~RootUnopened(r)
  BY <1>2, BehindParts DEF RootUnopened, SubTaskOf, Below
<1>3. QED
  BY <1>1, <1>2 DEF StillToSend

LEMMA StillToSendCounted ==
  ASSUME NEW r \in Request
  PROVE  /\ IsFiniteSet(StillToSend(r)) /\ IsFiniteSet(StillToSend(r)')
         /\ Cardinality(StillToSend(r)) \in Nat
         /\ Cardinality(StillToSend(r)') \in Nat
<1>1. /\ StillToSend(r) \subseteq BelowRoot(r)
      /\ StillToSend(r)' \subseteq BelowRoot(r)
  BY DEF StillToSend, Unsent, BelowRoot
<1>2. QED
  BY <1>1, PartOfBelow

(* No entry comes back to those that are to be sent. *)
LEMMA StillToSendShrinks ==
  ASSUME TypeOK, TypeOK', WorkersHoldTasks, NEW r \in Request,
         RootAhead(r) \/ RootBehind(r), NEW w \in Worker, WorkerStep(r, w)
  PROVE  /\ Cardinality(StillToSend(r)') <= Cardinality(StillToSend(r))
         /\ (\E n \in Node : Send(r, w, n)) =>
              Cardinality(StillToSend(r)') <= Cardinality(StillToSend(r)) - 1
<1>1. CASE RootAhead(r)
  <2>1. StillToSend(r) = BelowRoot(r)
    BY <1>1, RootOpens
  <2>2. StillToSend(r)' \subseteq StillToSend(r)
    BY <2>1 DEF StillToSend, Unsent, BelowRoot
  <2>3. Cardinality(StillToSend(r)') <= Cardinality(StillToSend(r))
    BY <2>2, StillToSendCounted, FS_Subset
  <2>4. ~\E n \in Node : Send(r, w, n)
    BY <1>1 DEF RootAhead, Busy, InHand, Send
  <2>5. QED
    BY <2>3, <2>4
<1>2. CASE RootBehind(r)
  <2>1. RootBehind(r)' /\ Unsent(r)' \subseteq Unsent(r)
    BY <1>2, BehindByWorker
  <2>2. StillToSend(r) = Unsent(r)
    BY <1>2, RootOpens
  <2>3. StillToSend(r)' = Unsent(r)'
    <3>1. /\ \A k \in QueuedTasks(r)' : ~k.isRoot
          /\ \A v \in Worker : stage'[r][v] = "got" => ~task'[r][v].isRoot
      BY <2>1 DEF RootBehind, SubTaskOf
    <3>2. ~RootUnopened(r)'
      BY <3>1 DEF RootUnopened
    <3>3. QED
      BY <3>2 DEF StillToSend
  <2>4. Cardinality(StillToSend(r)') <= Cardinality(StillToSend(r))
    BY <2>1, <2>2, <2>3, StillToSendCounted, FS_Subset
  <2>5. ASSUME NEW n \in Node, Send(r, w, n)
        PROVE  Cardinality(StillToSend(r)') <= Cardinality(StillToSend(r)) - 1
    <3>1. Cardinality(Unsent(r)') <= Cardinality(Unsent(r)) - 1
      BY <1>2, <2>5, BehindBySend
    <3>2. QED
      BY <2>2, <2>3, <3>1
  <2>6. QED
    BY <2>4, <2>5
<1>3. QED
  BY <1>1, <1>2

(* A worker's step takes more from one part than it adds to another.       *)
LEMMA WorkerNearer ==
  ASSUME TypeOK, TypeOK', WorkersHoldTasks, NEW r \in Request,
         RootAhead(r) \/ RootBehind(r), NEW w \in Worker, WorkerStep(r, w)
  PROVE  StepsLeft(r)' \in 0..(StepsLeft(r) - 1)
<1> DEFINE send == Cardinality(StillToSend(r))
           queued == Len(tasks[r])
           close == IF closer[r] = "waiting" THEN 1 ELSE 0
<1>1. /\ send \in Nat /\ send' \in Nat /\ send' <= send
      /\ queued \in Nat /\ queued' \in Nat
  BY StillToSendCounted, StillToSendShrinks, LenProperties DEF TypeOK
<1>2. close \in Nat /\ close' = close
  BY DEF WorkerStep, Receive, ExitOnClose, ExitOnCancel, ClaimRoot, Claim, Skip,
         FetchTree, FetchTreeFails, Send, Save, SaveFails
<1>3. /\ StepsLeft(r) = 5 * send + 4 * queued + Effort(r) + close
      /\ StepsLeft(r)' = 5 * send' + 4 * queued' + Effort(r)' + close'
  BY DEF StepsLeft
<1>4. Effort(r) \in Nat /\ Effort(r)' \in Nat
  BY StagesCounted DEF Effort
<1> HIDE DEF send, queued, close
<1>5. CASE Receive(r, w)
  <2>1. queued' = queued - 1
    BY <1>5, HeadTailProperties DEF Receive, TypeOK, queued
  <2>2. Effort(r)' = Effort(r) + 3
    BY <1>4, <1>5, EffortChange DEF Receive, Stage, EffortOf
  <2>3. QED
    BY <1>1, <1>2, <1>3, <1>4, <2>1, <2>2
<1>6. CASE \E n \in Node : Send(r, w, n)
  <2>1. send' <= send - 1
    BY <1>6, StillToSendShrinks DEF send
  <2>2. queued' = queued + 1
    BY <1>6, SendQueue, AppendProperties DEF Send, TypeOK, queued
  <2>3. Effort(r)' = Effort(r)
    BY <1>6 DEF Send, Effort, InStages
  <2>4. QED
    BY <1>1, <1>2, <1>3, <1>4, <2>1, <2>2, <2>3
<1>7. CASE ~Receive(r, w) /\ ~\E n \in Node : Send(r, w, n)
  <2>1. queued' = queued
    BY <1>7 DEF WorkerStep, ExitOnClose, ExitOnCancel, ClaimRoot, Claim, Skip,
                FetchTree, FetchTreeFails, Save, SaveFails, queued
  <2>2. PICK s \in Stage : /\ SetStage(r, w, s)
                           /\ EffortOf[s] <= EffortOf[stage[r][w]] - 1
    BY <1>7 DEF WorkerStep, ExitOnClose, ExitOnCancel, ClaimRoot, Claim, Skip,
                FetchTree, FetchTreeFails, Save, SaveFails, TaskDone, Stage, EffortOf
  <2>3. Effort(r)' <= Effort(r) - 1
    <3>1. Effort(r)' = Effort(r) + EffortOf[s] - EffortOf[stage[r][w]]
      BY <2>2, EffortChange
    <3>2. EffortOf[s] \in Int /\ EffortOf[stage[r][w]] \in Int
      BY DEF TypeOK, Stage, EffortOf
    <3>3. QED
      BY <1>4, <2>2, <3>1, <3>2
  <2>4. QED
    BY <1>1, <1>2, <1>3, <1>4, <2>1, <2>3
<1>8. QED
  BY <1>5, <1>6, <1>7

LEMMA CloserNearer ==
  ASSUME TypeOK, NEW r \in Request, CloseTasks(r)
  PROVE  StepsLeft(r)' \in 0..(StepsLeft(r) - 1)
<1>1. StillToSend(r)' = StillToSend(r) /\ Effort(r)' = Effort(r)
  BY SameQueue DEF CloseTasks, StillToSend, RootUnopened, Unsent, Opened,
                   BelowRoot, Effort, InStages
<1>2. /\ Cardinality(StillToSend(r)) \in Nat /\ Len(tasks[r]) \in Nat
      /\ Effort(r) \in Nat /\ tasks' = tasks
  BY StillToSendCounted, StagesCounted, LenProperties DEF TypeOK, Effort, CloseTasks
<1>3. closer[r] = "waiting" /\ closer'[r] # "waiting"
  BY DEF CloseTasks, TypeOK
<1>4. /\ StepsLeft(r) =
           5 * Cardinality(StillToSend(r)) + 4 * Len(tasks[r]) + Effort(r) + 1
      /\ StepsLeft(r)' =
           5 * Cardinality(StillToSend(r)) + 4 * Len(tasks[r]) + Effort(r) + 0
  BY <1>1, <1>2, <1>3 DEF StepsLeft
<1>5. QED
  BY <1>2, <1>4

LEMMA PoolNearer ==
  ASSUME TypeOK, TypeOK', WorkersHoldTasks, PoolOnlyWhileRunning, RoomInv, Next,
         NEW r \in Request, phase[r] = "run", phase'[r] = "run", Pool(r)' # Pool(r)
  PROVE  StepsLeft(r)' \in 0..(StepsLeft(r) - 1)
<1>1. CASE CloseTasks(r)
  BY <1>1, CloserNearer
<1>2. CASE \E w \in Worker : WorkerStep(r, w)
  <2>1. RootAhead(r) \/ RootBehind(r)
    BY DEF RoomInv
  <2>2. QED
    BY <1>2, <2>1, WorkerNearer
<1>3. ~Ask(r) /\ ~CallStep(r)
  BY DEF Ask, CallStep, FetchRoot, FetchRootFails, HitIndex, StartPool, Finish, Mark,
         MarkFails, Search, SearchCutShort, SearchFails, Goto, TypeOK
<1>4. ~Cancel(r) /\ ~Rest /\ ~Crash
  BY DEF Cancel, Rest, Crash, vars, poolVars, Pool
<1>5. ASSUME NEW q \in Request \ {r},
             \/ Ask(q) \/ Cancel(q) \/ CallStep(q) \/ CloseTasks(q)
             \/ \E w \in Worker : WorkerStep(q, w)
      PROVE  FALSE
  BY <1>5, OthersKeepState DEF Same, Pool
<1>6. QED
  BY <1>1, <1>2, <1>3, <1>4, <1>5 DEF Next

(* The pool of a call takes at most as many steps as StepsLeft says when   *)
(* it starts, five for each directory entry, one for each worker and five  *)
(* more, in whatever order and whatever fails; as it goes on until all have*)
(* left (PoolNeverStops), the call gets past line 865.                     *)
THEOREM PoolEnds == Spec => PoolNearsItsEnd
<1> DEFINE Nearer ==
      \A r \in Request :
        phase[r] = "run" /\ phase'[r] = "run" /\ Pool(r)' # Pool(r) =>
          StepsLeft(r)' \in 0..(StepsLeft(r) - 1)
<1>1. Init => RoomInv
  BY DEF Init, RoomInv
<1>2. IInv /\ IInv' /\ RoomInv /\ [Next]_vars => RoomInv' /\ [Nearer]_vars
  <2>1. CASE UNCHANGED vars
    BY <2>1, RoomKept DEF vars
  <2>2. CASE Next
    BY <2>2, RoomStep, PoolNearer DEF IInv, IndexInv
  <2>3. QED
    BY <2>1, <2>2
<1>3. QED
  BY Invariance, <1>1, <1>2, PTL DEF Spec, PoolNearsItsEnd
=============================================================================
