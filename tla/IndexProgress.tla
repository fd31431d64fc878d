--------------------------- MODULE IndexProgress ----------------------------
(***************************************************************************)
(* How the progress of an indexing reaches the pages that watch it: the    *)
(* indexer's callbacks (listFilesByTrees in                                *)
(* src/internal/source/forgejo.go), the lists of listeners, and the        *)
(* handlers that stream to the pages (src/internal/app/progress.go).       *)
(* PreviewPage has the page.  Nothing is notified under the name of a ref, *)
(* so that only the commit that a stream was resolved to counts.           *)
(***************************************************************************)
EXTENDS Integers, Sequences, FiniteSets

CONSTANTS
  Commit,
  Stream,      (* previews, each with a stream of its own *)
  Files,       (* files of a commit *)
  Step,        (* every so many files there is a callback *)
  Workers,     (* of an indexing *)
  Buffer,      (* updates that wait for a handler *)
  None

ASSUME IndexProgressAssumption ==
  /\ {Files, Step, Workers, Buffer} \subseteq Nat \ {0}
  /\ None \notin Commit \cup Stream

VARIABLES
  index,      (* the indexing that a preview waits for *)
  indexed,    (* the commits that have been indexed *)
  lastCount,  (* ProgressManager: the last count of a commit *)
  listeners,  (* ProgressManager: the streams that listen to a commit *)
  stream,     (* the handler of a stream, and what waits for it *)
  told,       (* the last update that a handler has written *)
  missed      (* history: the streams that an update was dropped for *)

manager == <<lastCount, listeners, missed>>
progressVars == <<index, indexed, manager, stream, told>>

NoIndexing == [stage |-> "none", commit |-> None, count |-> 0, due |-> {}]
NoStream == [stage |-> "none", commit |-> None, open |-> FALSE, first |-> 0,
             queue |-> <<>>]

Count == 0..Files

Indexing ==
  [stage : {"none", "check", "count", "final", "search", "done", "failed"},
   commit : Commit \cup {None}, count : Count, due : SUBSET Count]

Handler ==
  [stage : {"none", "resolve", "register", "greet", "loop"},
   commit : Commit \cup {None}, open : BOOLEAN, first : Count, queue : Seq(Count)]

ProgressTyped ==
  /\ index \in [Stream -> Indexing]
  /\ \A i \in Stream : Cardinality(index[i].due) <= Workers
  /\ indexed \subseteq Commit
  /\ lastCount \in [Commit -> Count]
  /\ listeners \in [Commit -> SUBSET Stream]
  /\ stream \in [Stream -> Handler]
  /\ \A s \in Stream : Len(stream[s].queue) <= Buffer
  /\ told \in [Stream -> Count \cup {None}]
  /\ missed \subseteq Stream

InitProgress ==
  /\ index = [i \in Stream |-> NoIndexing]
  /\ indexed = {}
  /\ lastCount = [c \in Commit |-> 0]
  /\ listeners = [c \in Commit |-> {}]
  /\ stream = [s \in Stream |-> NoStream]
  /\ told = [s \in Stream |-> None]
  /\ missed = {}
-----------------------------------------------------------------------------
(* Notify and Finalize, without the name of the phase: an update that      *)
(* finds a full buffer is dropped.                                         *)

Full(s) == Len(stream[s].queue) = Buffer

Notify(c, count) ==
  /\ lastCount' = [lastCount EXCEPT ![c] = count]
  /\ stream' = [s \in Stream |->
       IF s \in listeners[c] /\ ~Full(s)
       THEN [stream[s] EXCEPT !.queue = Append(@, count)]
       ELSE stream[s]]
  /\ missed' = missed \cup {s \in listeners[c] : Full(s)}
  /\ UNCHANGED <<listeners, told>>

Unheard == UNCHANGED <<manager, stream, told>>
-----------------------------------------------------------------------------
(* listFilesByTrees *)

BeginIndexing(i, c) ==
  /\ index[i].stage = "none"
  /\ index' = [index EXCEPT ![i] =
       [NoIndexing EXCEPT !.stage = "check", !.commit = c]]

FindUnindexed(i) ==
  /\ index[i].stage = "check" /\ index[i].commit \notin indexed
  /\ index' = [index EXCEPT ![i].stage = "count"]
  /\ UNCHANGED indexed /\ Unheard

(* The count of a commit that is indexed already is that of the selection, *)
(* unless the search fails.                                                *)
FindIndexed(i) ==
  /\ index[i].stage = "check" /\ index[i].commit \in indexed
  /\ \/ /\ \E n \in 0..Files : Notify(index[i].commit, n)
        /\ index' = [index EXCEPT ![i].stage = "done"]
     \/ index' = [index EXCEPT ![i].stage = "failed"] /\ Unheard
  /\ UNCHANGED indexed

(* A worker counts a file, and has a callback to make every Step files. *)
CountFile(i) ==
  LET n == index[i].count + 1
  IN /\ index[i].stage = "count" /\ n <= Files
     /\ Cardinality(index[i].due) < Workers
     /\ index' = [index EXCEPT ![i].count = n,
                    ![i].due = IF n % Step = 0 THEN @ \cup {n} ELSE @]
     /\ UNCHANGED indexed /\ Unheard

(* The callbacks of the workers come in any order. *)
CallBack(i) ==
  \E n \in index[i].due :
    /\ Notify(index[i].commit, n)
    /\ index' = [index EXCEPT ![i].due = @ \ {n}]
    /\ UNCHANGED indexed

FinalizeIndexing(i) ==
  /\ index[i].stage = "count" /\ index[i].count = Files /\ index[i].due = {}
  /\ Notify(index[i].commit, Files)
  /\ index' = [index EXCEPT ![i].stage = "final"]
  /\ UNCHANGED indexed

(* Nobody looks at whether the mark was made. *)
MarkIndexed(i) ==
  /\ index[i].stage = "final"
  /\ indexed' \in {indexed, indexed \cup {index[i].commit}}
  /\ index' = [index EXCEPT ![i].stage = "search"]
  /\ Unheard

EndIndexing(i) ==
  /\ index[i].stage = "search"
  /\ Notify(index[i].commit, Files)
  /\ index' = [index EXCEPT ![i].stage = "done"]
  /\ UNCHANGED indexed

(* The search fails, or a worker; its callbacks have been made by then. *)
FailIndexing(i) ==
  /\ index[i].stage \in {"check", "count", "search"} /\ index[i].due = {}
  /\ index' = [index EXCEPT ![i].stage = "failed"]
  /\ UNCHANGED indexed /\ Unheard

Index(i) ==
  \/ FindUnindexed(i) \/ FindIndexed(i)
  \/ CountFile(i) \/ CallBack(i) \/ FinalizeIndexing(i) \/ MarkIndexed(i)
  \/ EndIndexing(i) \/ FailIndexing(i)
-----------------------------------------------------------------------------
(* handleIndexProgress and HandleSSE *)

At(s, stage) == stream[s].stage = stage
Goto(s, stage) == stream' = [stream EXCEPT ![s].stage = stage]

(* The ref is resolved at another moment than that of the preview, or not  *)
(* at all.                                                                 *)
ResolveStream(s) ==
  /\ At(s, "resolve")
  /\ \E c \in Commit \cup {None} :
       stream' = [stream EXCEPT ![s].stage = "register", ![s].commit = c]
  /\ UNCHANGED <<index, indexed, manager, told>>

Listening(s) == [c \in Commit |-> IF c = stream[s].commit
                                  THEN listeners[c] \cup {s} ELSE listeners[c]]

CountNow(s) == IF stream[s].commit = None THEN 0 ELSE lastCount[stream[s].commit]

(* Variant: the count is read before the lock is taken. *)
RegisterLate(s) ==
  /\ At(s, "register")
  /\ \E earlier \in 0..CountNow(s) :
       stream' = [stream EXCEPT ![s].stage = "greet", ![s].first = earlier]
  /\ listeners' = Listening(s)
  /\ UNCHANGED <<index, indexed, lastCount, missed, told>>

(* The count is read and the listener added under one lock. *)
Register(s) ==
  /\ At(s, "register")
  /\ stream' = [stream EXCEPT ![s].stage = "greet", ![s].first = CountNow(s)]
  /\ listeners' = Listening(s)
  /\ UNCHANGED <<index, indexed, lastCount, missed, told>>

Greet(s) ==
  /\ At(s, "greet")
  /\ told' = [told EXCEPT ![s] = stream[s].first]
  /\ stream' = [stream EXCEPT ![s].stage = "loop", ![s].first = 0]
  /\ UNCHANGED <<index, indexed, manager>>

Forward(s) ==
  /\ At(s, "loop") /\ stream[s].queue # <<>>
  /\ told' = [told EXCEPT ![s] = Head(stream[s].queue)]
  /\ stream' = [stream EXCEPT ![s].queue = Tail(@)]
  /\ UNCHANGED <<index, indexed, manager>>

(* Variant: the handler returns without taking its listener off. *)
LeaveListening(s) ==
  /\ At(s, "loop") /\ ~stream[s].open
  /\ stream' = [stream EXCEPT ![s] = NoStream]
  /\ told' = [told EXCEPT ![s] = None]
  /\ missed' = missed \ {s}
  /\ UNCHANGED <<index, indexed, lastCount, listeners>>

(* The context has ended, even if there are updates left. *)
Leave(s) ==
  /\ At(s, "loop") /\ ~stream[s].open
  /\ stream' = [stream EXCEPT ![s] = NoStream]
  /\ listeners' = [c \in Commit |-> listeners[c] \ {s}]
  /\ told' = [told EXCEPT ![s] = None]
  /\ missed' = missed \ {s}
  /\ UNCHANGED <<index, indexed, lastCount>>

Serve(s) == ResolveStream(s) \/ Register(s) \/ Greet(s) \/ Forward(s) \/ Leave(s)
-----------------------------------------------------------------------------
(* A handler that has written everything it had to has told the last count *)
(* of its commit, whatever was notified while it registered, unless its    *)
(* buffer was full once.                                                   *)
ToldIsCurrent ==
  \A s \in Stream :
    /\ At(s, "loop") /\ stream[s].queue = <<>> /\ stream[s].commit # None
    /\ s \notin missed
    => told[s] = lastCount[stream[s].commit]
=============================================================================
