------------------------- MODULE PreviewPageProofs --------------------------
(* The page, its streams and the progress they tell, for any number of     *)
(* previews, commits, files, workers and updates that wait.                *)
EXTENDS PreviewPage, FiniteSetTheorems, SequenceTheorems, TLAPS

LEMMA Numbers ==
  /\ Files \in Nat /\ Workers \in Nat \ {0} /\ Buffer \in Nat \ {0}
  /\ 0 \in Count /\ Files \in Count
  /\ None \notin Commit /\ None \notin Stream
<1>1. /\ Files \in Nat \ {0} /\ Workers \in Nat \ {0} /\ Buffer \in Nat \ {0}
      /\ None \notin Commit /\ None \notin Stream
  BY IndexProgressAssumption DEF IndexProgressAssumption
<1>2. QED
  BY <1>1 DEF Count
-----------------------------------------------------------------------------
(* Progress *)

(* The last update on its way to a page, or told to it *)
Latest(s) ==
  IF stream[s].queue # <<>> THEN stream[s].queue[Len(stream[s].queue)]
  ELSE IF At(s, "greet") THEN stream[s].first
  ELSE told[s]

Heard(s) == At(s, "greet") \/ At(s, "loop")

(* A stream without a listener has nothing waiting for it; the listeners   *)
(* are the handlers past the registration; the last update for each is the *)
(* last count, unless one was dropped.                                     *)
HeardInv ==
  /\ \A i \in Stream : IF index[i].stage = "none" THEN index[i].due = {}
                        ELSE index[i].commit \in Commit
  /\ \A s \in Stream : ~Heard(s) => stream[s].queue = <<>>
  /\ \A s \in Stream, c \in Commit :
       s \in listeners[c] <=> Heard(s) /\ stream[s].commit = c
  /\ \A s \in Stream : Heard(s) /\ stream[s].commit # None /\ s \notin missed =>
       Latest(s) = lastCount[stream[s].commit]

ProgressInv == ProgressTyped /\ HeardInv

LEMMA LoopSaysIt == HeardInv => ToldIsCurrent
BY DEF HeardInv, ToldIsCurrent, Latest, Heard, At

LEMMA InitProgressInv == InitProgress => ProgressInv
<1> SUFFICES ASSUME InitProgress PROVE ProgressInv
  OBVIOUS
<1> USE DEF InitProgress
<1>1. NoIndexing \in Indexing /\ NoStream \in Handler
  <2>1. <<>> \in Seq(Count)
    OBVIOUS
  <2>2. QED
    BY <2>1, Numbers DEF Indexing, Handler, NoIndexing, NoStream
<1>2. \A i \in Stream : Cardinality(index[i].due) <= Workers
  <2>1. \A i \in Stream : index[i].due = {}
    BY DEF NoIndexing
  <2>2. Cardinality({}) = 0
    BY FS_EmptySet
  <2>3. QED
    BY <2>1, <2>2, Numbers
<1>3. \A s \in Stream : Len(stream[s].queue) <= Buffer
  <2>1. \A s \in Stream : stream[s].queue = <<>>
    BY DEF NoStream
  <2>2. QED
    BY <2>1, Numbers
<1>4. ProgressTyped
  BY <1>1, <1>2, <1>3, Numbers DEF ProgressTyped
<1>5. HeardInv
  BY DEF HeardInv, Heard, At, NoStream, NoIndexing
<1>6. QED
  BY <1>4, <1>5 DEF ProgressInv

(* Lemma: whoever listens hears of the count or misses an update.          *)
LEMMA NotifyStep ==
  ASSUME ProgressInv, NEW c \in Commit, NEW n \in Count, Notify(c, n)
  PROVE  /\ lastCount' \in [Commit -> Count]
         /\ UNCHANGED <<listeners, told>> /\ missed' \subseteq Stream
         /\ stream' \in [Stream -> Handler]
         /\ \A s \in Stream :
              /\ Len(stream'[s].queue) <= Buffer
              /\ stream'[s].stage = stream[s].stage
              /\ stream'[s].commit = stream[s].commit
              /\ stream'[s].open = stream[s].open
              /\ ~Heard(s) => stream'[s].queue = <<>>
              /\ Heard(s) /\ stream[s].commit # None /\ s \notin missed' =>
                   Latest(s)' = lastCount'[stream[s].commit]
<1> USE DEF ProgressInv
<1>1. /\ lastCount' = [lastCount EXCEPT ![c] = n]
      /\ UNCHANGED <<listeners, told>>
      /\ missed' = missed \cup {s \in listeners[c] : Full(s)}
  BY DEF Notify
<1>2. lastCount' \in [Commit -> Count] /\ missed' \subseteq Stream
  BY <1>1 DEF ProgressTyped
<1>3. ASSUME NEW s \in Stream
      PROVE  /\ stream'[s] \in Handler
             /\ Len(stream'[s].queue) <= Buffer
             /\ stream'[s].stage = stream[s].stage
             /\ stream'[s].commit = stream[s].commit
             /\ stream'[s].open = stream[s].open
             /\ ~Heard(s) => stream'[s].queue = <<>>
             /\ Heard(s) /\ stream[s].commit # None /\ s \notin missed' =>
                  Latest(s)' = lastCount'[stream[s].commit]
  <2> DEFINE q == stream[s].queue
  <2>1. /\ stream[s] \in Handler /\ q \in Seq(Count)
        /\ Len(q) \in Nat /\ Len(q) <= Buffer
    BY DEF ProgressTyped, Handler
  <2>2. stream'[s] = IF s \in listeners[c] /\ ~Full(s)
                     THEN [stream[s] EXCEPT !.queue = Append(q, n)] ELSE stream[s]
    BY DEF Notify
  <2>3. /\ s \in listeners[c] <=> Heard(s) /\ stream[s].commit = c
        /\ ~Heard(s) => q = <<>>
    BY DEF HeardInv
  <2>4. CASE s \in listeners[c] /\ ~Full(s)
    <3> DEFINE r == Append(q, n)
    <3>1. stream'[s] = [stream[s] EXCEPT !.queue = r]
      BY <2>2, <2>4
    <3>2. /\ r \in Seq(Count) /\ r # <<>> /\ Len(r) = Len(q) + 1
          /\ r[Len(r)] = n
      <4> HIDE DEF q
      <4>1. q \in Seq(Count) /\ Len(q) \in Nat
        BY <2>1
      <4>2. QED
        BY <4>1
    <3>3. Len(q) # Buffer
      BY <2>4 DEF Full
    <3>4. Len(r) <= Buffer
      BY <2>1, <3>2, <3>3, Numbers
    <3> HIDE DEF r
    <3>5. /\ stream'[s] \in Handler /\ stream'[s].queue = r
          /\ stream'[s].stage = stream[s].stage
          /\ stream'[s].commit = stream[s].commit
          /\ stream'[s].open = stream[s].open
      BY <2>1, <3>1, <3>2 DEF Handler
    <3>6. Latest(s)' = n /\ lastCount'[c] = n
      BY <1>1, <3>2, <3>5 DEF Latest, ProgressTyped
    <3>7. QED
      BY <2>3, <2>4, <3>4, <3>5, <3>6
  <2>5. CASE s \in listeners[c] /\ Full(s)
    <3>1. stream'[s] = stream[s] /\ s \in missed'
      BY <1>1, <2>2, <2>5
    <3>2. QED
      BY <2>1, <2>3, <3>1
  <2>6. CASE s \notin listeners[c]
    <3>1. stream'[s] = stream[s]
      BY <2>2, <2>6
    <3>2. stream[s].commit # None => stream[s].commit \in Commit
      BY <2>1 DEF Handler
    <3>3. Heard(s) => stream[s].commit # c
      BY <2>3, <2>6
    <3>4. Heard(s) /\ stream[s].commit # None =>
            lastCount'[stream[s].commit] = lastCount[stream[s].commit]
      BY <1>1, <3>2, <3>3 DEF ProgressTyped
    <3>5. Latest(s)' = Latest(s)
      BY <1>1, <3>1 DEF Latest, At
    <3>6. QED
      BY <1>1, <2>1, <2>3, <3>1, <3>4, <3>5 DEF HeardInv
  <2>7. QED
    BY <2>4, <2>5, <2>6
<1>4. stream' \in [Stream -> Handler]
  <2>1. stream' = [s \in Stream |-> stream'[s]]
    BY DEF Notify
  <2>2. QED
    BY <1>3, <2>1
<1>5. QED
  BY <1>1, <1>2, <1>3, <1>4

(* What an indexing may come to, for nobody to hear or with a count        *)
Sound(new) ==
  /\ new \in Indexing
  /\ Cardinality(new.due) <= Workers
  /\ IF new.stage = "none" THEN new.due = {} ELSE new.commit \in Commit

LEMMA IndexChanges ==
  ASSUME ProgressInv, NEW i \in Stream, NEW new, Sound(new),
         index' = [index EXCEPT ![i] = new]
  PROVE  index' \in [Stream -> Indexing] /\ \A j \in Stream : Sound(index'[j])
<1>1. index \in [Stream -> Indexing] /\ new \in Indexing
  BY DEF ProgressInv, ProgressTyped, Sound
<1>2. \A j \in Stream : index'[j] = IF j = i THEN new ELSE index[j]
  BY <1>1
<1>3. index' \in [Stream -> Indexing]
  BY <1>1
<1>4. \A j \in Stream : Sound(index[j])
  BY DEF ProgressInv, ProgressTyped, HeardInv, Sound
<1>5. QED
  BY <1>2, <1>3, <1>4

LEMMA QuietStep ==
  ASSUME ProgressInv, NEW i \in Stream, NEW new, Sound(new),
         index' = [index EXCEPT ![i] = new], indexed' \subseteq Commit, Unheard
  PROVE  ProgressInv' /\ \A s \in Stream : stream'[s].open = stream[s].open
<1>0. index' \in [Stream -> Indexing] /\ \A j \in Stream : Sound(index'[j])
  BY IndexChanges
<1>1. UNCHANGED <<lastCount, listeners, missed, stream, told>>
  BY DEF Unheard, manager
<1>2. \A j \in Stream : /\ Cardinality(index'[j].due) <= Workers
                        /\ IF index'[j].stage = "none" THEN index'[j].due = {}
                           ELSE index'[j].commit \in Commit
  BY <1>0 DEF Sound
<1>3. ProgressTyped'
  BY <1>0, <1>1, <1>2 DEF ProgressInv, ProgressTyped
<1>4. HeardInv'
  BY <1>1, <1>2 DEF ProgressInv, HeardInv, Heard, Latest, At
<1>5. QED
  BY <1>1, <1>3, <1>4 DEF ProgressInv

LEMMA LoudStep ==
  ASSUME ProgressInv, NEW i \in Stream, NEW new, Sound(new),
         index' = [index EXCEPT ![i] = new], indexed' \subseteq Commit,
         NEW c \in Commit, NEW n \in Count, Notify(c, n)
  PROVE  ProgressInv' /\ \A s \in Stream : stream'[s].open = stream[s].open
<1>0. index' \in [Stream -> Indexing] /\ \A j \in Stream : Sound(index'[j])
  BY IndexChanges
<1>1. /\ lastCount' \in [Commit -> Count]
      /\ UNCHANGED <<listeners, told>> /\ missed' \subseteq Stream
      /\ stream' \in [Stream -> Handler]
      /\ \A s \in Stream :
           /\ Len(stream'[s].queue) <= Buffer
           /\ stream'[s].stage = stream[s].stage
           /\ stream'[s].commit = stream[s].commit
           /\ stream'[s].open = stream[s].open
           /\ ~Heard(s) => stream'[s].queue = <<>>
           /\ Heard(s) /\ stream[s].commit # None /\ s \notin missed' =>
                Latest(s)' = lastCount'[stream[s].commit]
  BY NotifyStep
<1>2. \A s \in Stream : Heard(s)' = Heard(s)
  BY <1>1 DEF Heard, At
<1>3. \A j \in Stream : /\ Cardinality(index'[j].due) <= Workers
                        /\ IF index'[j].stage = "none" THEN index'[j].due = {}
                           ELSE index'[j].commit \in Commit
  BY <1>0 DEF Sound
<1>4. ProgressTyped'
  BY <1>0, <1>1, <1>3 DEF ProgressInv, ProgressTyped
<1>5. HeardInv'
  BY <1>1, <1>2, <1>3 DEF ProgressInv, HeardInv
<1>6. QED
  BY <1>1, <1>4, <1>5 DEF ProgressInv

(* Lemma: the callbacks that are due are finitely many.                    *)
LEMMA DueIsFinite ==
  ASSUME NEW due \in SUBSET Count, NEW n
  PROVE  /\ Cardinality(due) \in Nat
         /\ Cardinality(due \ {n}) \in Nat
         /\ Cardinality(due \cup {n}) \in Nat
         /\ Cardinality(due \ {n}) <= Cardinality(due)
         /\ Cardinality(due \cup {n}) <= Cardinality(due) + 1
<1>1. IsFiniteSet(Count)
  BY Numbers, FS_Interval DEF Count
<1>2. IsFiniteSet(due)
  BY <1>1, FS_Subset
<1>3. Cardinality(due) \in Nat
  BY <1>2, FS_CardinalityType
<1>4. Cardinality(due \ {n}) = IF n \in due THEN Cardinality(due) - 1
                               ELSE Cardinality(due)
  BY <1>2, FS_RemoveElement
<1>5. Cardinality(due \cup {n}) = IF n \in due THEN Cardinality(due)
                                  ELSE Cardinality(due) + 1
  BY <1>2, FS_AddElement
<1>6. IsFiniteSet(due \ {n}) /\ Cardinality(due \ {n}) \in Nat
  BY <1>2, FS_RemoveElement, FS_CardinalityType
<1>7. QED
  BY <1>3, <1>4, <1>5, <1>6

LEMMA IndexStep ==
  ASSUME ProgressInv, NEW i \in Stream, Index(i)
  PROVE  ProgressInv' /\ \A s \in Stream : stream'[s].open = stream[s].open
<1> DEFINE now == index[i]
<1>1. /\ now \in Indexing /\ Cardinality(now.due) <= Workers
      /\ IF now.stage = "none" THEN now.due = {} ELSE now.commit \in Commit
      /\ now.count \in Count /\ now.due \in SUBSET Count
      /\ index \in [Stream -> Indexing] /\ indexed \subseteq Commit
  BY DEF ProgressInv, ProgressTyped, HeardInv, Indexing
<1>2. ASSUME NEW stage \in {"check", "count", "final", "search", "done", "failed"},
             now.stage # "none"
      PROVE  Sound([now EXCEPT !.stage = stage])
  BY <1>1, <1>2 DEF Sound, Indexing
<1>3. CASE FindUnindexed(i)
  <2>1. /\ now.stage # "none" /\ Unheard /\ UNCHANGED indexed
        /\ index' = [index EXCEPT ![i] = [now EXCEPT !.stage = "count"]]
    BY <1>3 DEF FindUnindexed
  <2>2. Sound([now EXCEPT !.stage = "count"])
    BY <1>2, <2>1
  <2>3. QED
    BY <1>1, <2>1, <2>2, QuietStep
<1>4. CASE FindIndexed(i)
  <2>1. now.stage # "none" /\ UNCHANGED indexed
    BY <1>4 DEF FindIndexed
  <2>2. Sound([now EXCEPT !.stage = "done"]) /\ Sound([now EXCEPT !.stage = "failed"])
    BY <1>2, <2>1
  <2>3. \/ /\ index' = [index EXCEPT ![i] = [now EXCEPT !.stage = "failed"]]
           /\ Unheard
        \/ /\ index' = [index EXCEPT ![i] = [now EXCEPT !.stage = "done"]]
           /\ \E n \in Count : Notify(now.commit, n)
    BY <1>4 DEF FindIndexed, Count
  <2>4. QED
    BY <1>1, <2>1, <2>2, <2>3, QuietStep, LoudStep
<1>5. CASE CountFile(i)
  <2> DEFINE n == now.count + 1
             due == IF n % Step = 0 THEN now.due \cup {n} ELSE now.due
             new == [now EXCEPT !.count = n, !.due = due]
  <2>1. /\ now.stage = "count" /\ n <= Files /\ Cardinality(now.due) < Workers
        /\ Unheard /\ UNCHANGED indexed
        /\ index' = [index EXCEPT ![i] = new]
    BY <1>5 DEF CountFile
  <2>2. n \in Count
    BY <1>1, <2>1, Numbers DEF Count
  <2>3. due \in SUBSET Count
    BY <1>1, <2>2
  <2>4. Cardinality(due) <= Workers
    <3>1. /\ Cardinality(now.due) \in Nat
          /\ Cardinality(now.due \cup {n}) \in Nat
          /\ Cardinality(now.due \cup {n}) <= Cardinality(now.due) + 1
      BY <1>1, DueIsFinite
    <3>2. Cardinality(now.due \cup {n}) <= Workers
      BY <2>1, <3>1, Numbers
    <3>3. QED
      BY <2>1, <3>1, <3>2, Numbers
  <2>5. Sound(new)
    <3> HIDE DEF n, due
    <3>1. QED
      BY <1>1, <2>1, <2>2, <2>3, <2>4 DEF Sound, Indexing
  <2> HIDE DEF new
  <2>6. QED
    BY <1>1, <2>1, <2>5, QuietStep
<1>6. CASE CallBack(i)
  <2>1. PICK n \in now.due :
          /\ Notify(now.commit, n)
          /\ index' = [index EXCEPT ![i] = [now EXCEPT !.due = @ \ {n}]]
          /\ UNCHANGED indexed
    BY <1>6 DEF CallBack
  <2> DEFINE new == [now EXCEPT !.due = @ \ {n}]
  <2>2. now.due \ {n} \in SUBSET Count /\ Cardinality(now.due \ {n}) <= Workers
    <3>1. /\ Cardinality(now.due) \in Nat
          /\ Cardinality(now.due \ {n}) \in Nat
          /\ Cardinality(now.due \ {n}) <= Cardinality(now.due)
      BY <1>1, DueIsFinite
    <3>2. QED
      BY <1>1, <3>1, Numbers
  <2>3. Sound(new) /\ index' = [index EXCEPT ![i] = new]
    BY <1>1, <2>1, <2>2 DEF Sound, Indexing
  <2>4. now.commit \in Commit /\ n \in Count /\ indexed' \subseteq Commit
    BY <1>1, <2>1
  <2> HIDE DEF new
  <2>5. QED
    BY <2>1, <2>3, <2>4, LoudStep
<1>7. CASE FinalizeIndexing(i)
  <2>1. /\ now.stage # "none" /\ Notify(now.commit, Files) /\ UNCHANGED indexed
        /\ index' = [index EXCEPT ![i] = [now EXCEPT !.stage = "final"]]
    BY <1>7 DEF FinalizeIndexing
  <2>2. Sound([now EXCEPT !.stage = "final"])
    BY <1>2, <2>1
  <2>3. QED
    BY <1>1, <2>1, <2>2, LoudStep, Numbers
<1>8. CASE MarkIndexed(i)
  <2>1. /\ now.stage # "none" /\ Unheard
        /\ indexed' \in {indexed, indexed \cup {now.commit}}
        /\ index' = [index EXCEPT ![i] = [now EXCEPT !.stage = "search"]]
    BY <1>8 DEF MarkIndexed
  <2>2. Sound([now EXCEPT !.stage = "search"])
    BY <1>2, <2>1
  <2>3. QED
    BY <1>1, <2>1, <2>2, QuietStep
<1>9. CASE EndIndexing(i)
  <2>1. /\ now.stage # "none" /\ Notify(now.commit, Files) /\ UNCHANGED indexed
        /\ index' = [index EXCEPT ![i] = [now EXCEPT !.stage = "done"]]
    BY <1>9 DEF EndIndexing
  <2>2. Sound([now EXCEPT !.stage = "done"])
    BY <1>2, <2>1
  <2>3. QED
    BY <1>1, <2>1, <2>2, LoudStep, Numbers
<1>10. CASE FailIndexing(i)
  <2>1. /\ now.stage # "none" /\ Unheard /\ UNCHANGED indexed
        /\ index' = [index EXCEPT ![i] = [now EXCEPT !.stage = "failed"]]
    BY <1>10 DEF FailIndexing
  <2>2. Sound([now EXCEPT !.stage = "failed"])
    BY <1>2, <2>1
  <2>3. QED
    BY <1>1, <2>1, <2>2, QuietStep
<1>11. QED
  BY <1>3, <1>4, <1>5, <1>6, <1>7, <1>8, <1>9, <1>10 DEF Index

(* A step of the handler of a stream, with new as what it knows afterwards *)
Served(s, new) ==
  /\ new \in Handler /\ stream' = [stream EXCEPT ![s] = new]
  /\ new.open = stream[s].open /\ Len(new.queue) <= Buffer
  /\ ~Heard(s)' => new.queue = <<>>
  /\ \A c \in Commit : s \in listeners'[c] <=> Heard(s)' /\ new.commit = c
  /\ listeners' \in [Commit -> SUBSET Stream]
  /\ \A t \in Stream \ {s}, c \in Commit : t \in listeners'[c] <=> t \in listeners[c]
  /\ told' \in [Stream -> Count \cup {None}]
  /\ \A t \in Stream \ {s} : told'[t] = told[t]
  /\ missed' \subseteq missed /\ missed \ {s} \subseteq missed'
  /\ Heard(s)' /\ new.commit # None /\ s \notin missed' =>
       Latest(s)' = lastCount[new.commit]
  /\ UNCHANGED <<index, indexed, lastCount>>

LEMMA HandlerStep ==
  ASSUME ProgressInv, NEW s \in Stream, NEW new, Served(s, new)
  PROVE  ProgressInv' /\ \A t \in Stream : stream'[t].open = stream[t].open
<1> USE DEF Served
<1>1. stream \in [Stream -> Handler]
  BY DEF ProgressInv, ProgressTyped
<1>2. \A t \in Stream : stream'[t] = IF t = s THEN new ELSE stream[t]
  BY <1>1
<1>3. stream' \in [Stream -> Handler]
  BY <1>1
<1>4. \A t \in Stream \ {s} : Heard(t)' = Heard(t) /\ Latest(t)' = Latest(t)
  BY <1>2 DEF Heard, Latest, At
<1>5. ProgressTyped'
  BY <1>2, <1>3 DEF ProgressInv, ProgressTyped
<1>6. HeardInv'
  <2>1. \A t \in Stream : ~Heard(t)' => stream'[t].queue = <<>>
    BY <1>2, <1>4 DEF ProgressInv, HeardInv
  <2>2. \A t \in Stream, c \in Commit :
          t \in listeners'[c] <=> Heard(t)' /\ stream'[t].commit = c
    BY <1>2, <1>4 DEF ProgressInv, HeardInv
  <2>3. \A t \in Stream : Heard(t)' /\ stream'[t].commit # None /\ t \notin missed' =>
          Latest(t)' = lastCount'[stream'[t].commit]
    BY <1>2, <1>4 DEF ProgressInv, HeardInv
  <2>4. QED
    BY <2>1, <2>2, <2>3 DEF ProgressInv, HeardInv
<1>7. \A t \in Stream : stream'[t].open = stream[t].open
  BY <1>2
<1>8. QED
  BY <1>5, <1>6, <1>7 DEF ProgressInv

LEMMA TailKeepsLast ==
  ASSUME NEW q \in Seq(Count), q # <<>>
  PROVE  /\ Tail(q) \in Seq(Count) /\ Head(q) \in Count
         /\ Len(q) \in Nat /\ Len(Tail(q)) = Len(q) - 1
         /\ IF Tail(q) = <<>> THEN Head(q) = q[Len(q)]
            ELSE Tail(q)[Len(Tail(q))] = q[Len(q)]
<1>1. /\ Len(q) \in Nat \ {0} /\ Tail(q) \in Seq(Count) /\ Head(q) = q[1]
      /\ Head(q) \in Count /\ Len(Tail(q)) = Len(q) - 1
  OBVIOUS
<1>2. CASE Len(q) = 1
  <2>1. Len(Tail(q)) = 0
    BY <1>1, <1>2
  <2>2. Tail(q) = <<>>
    BY <1>1, <2>1, EmptySeq
  <2>3. QED
    BY <1>1, <1>2, <2>2
<1>3. CASE Len(q) # 1
  <2>1. Len(Tail(q)) \in 1..(Len(q) - 1)
    BY <1>1, <1>3
  <2>2. Tail(q)[Len(Tail(q))] = q[Len(Tail(q)) + 1]
    BY <1>1, <2>1
  <2>3. Tail(q) # <<>>
    <3> DEFINE r == Tail(q)
    <3>1. Len(r) # 0
      BY <1>1, <2>1
    <3> HIDE DEF r
    <3>2. r # <<>>
      BY <3>1, EmptySeq
    <3>3. QED
      BY <3>2 DEF r
  <2>4. QED
    BY <1>1, <2>2, <2>3
<1>4. QED
  BY <1>2, <1>3

LEMMA ServeStep ==
  ASSUME ProgressInv, NEW s \in Stream, Serve(s)
  PROVE  ProgressInv' /\ \A t \in Stream : stream'[t].open = stream[t].open
<1> DEFINE now == stream[s]
<1>1. /\ stream \in [Stream -> Handler] /\ now \in Handler
      /\ now.queue \in Seq(Count) /\ Len(now.queue) <= Buffer
      /\ now.commit \in Commit \cup {None}
      /\ listeners \in [Commit -> SUBSET Stream]
      /\ lastCount \in [Commit -> Count]
      /\ told \in [Stream -> Count \cup {None}]
      /\ Len(<<>>) <= Buffer
  BY Numbers DEF ProgressInv, ProgressTyped, Handler
<1>2. /\ ~Heard(s) => now.queue = <<>>
      /\ \A c \in Commit : s \in listeners[c] <=> Heard(s) /\ now.commit = c
      /\ Heard(s) /\ now.commit # None /\ s \notin missed =>
           Latest(s) = lastCount[now.commit]
  BY DEF ProgressInv, HeardInv
<1>3. CASE ResolveStream(s)
  <2>1. PICK c \in Commit \cup {None} :
          stream' = [stream EXCEPT ![s].stage = "register", ![s].commit = c]
    BY <1>3 DEF ResolveStream
  <2> DEFINE new == [now EXCEPT !.stage = "register", !.commit = c]
  <2>2. /\ UNCHANGED <<index, indexed, lastCount, listeners, missed, told>>
        /\ now.stage = "resolve" /\ ~Heard(s)
    BY <1>3 DEF ResolveStream, manager, At, Heard
  <2>3. /\ new \in Handler /\ new.open = now.open /\ new.queue = <<>>
        /\ new.stage = "register"
    BY <1>1, <1>2, <2>2 DEF Handler
  <2>4. stream' = [stream EXCEPT ![s] = new] /\ stream'[s] = new
    BY <1>1, <2>1
  <2> HIDE DEF new
  <2>5. ~Heard(s)'
    BY <2>3, <2>4 DEF Heard, At
  <2>6. Served(s, new)
    BY <1>1, <1>2, <2>2, <2>3, <2>4, <2>5 DEF Served
  <2>7. QED
    BY <2>6, HandlerStep
<1>4. CASE Register(s)
  <2> DEFINE new == [now EXCEPT !.stage = "greet", !.first = CountNow(s)]
  <2>1. /\ UNCHANGED <<index, indexed, lastCount, missed, told>>
        /\ now.stage = "register" /\ ~Heard(s)
        /\ listeners' = Listening(s)
        /\ stream' = [stream EXCEPT ![s].stage = "greet", ![s].first = CountNow(s)]
    BY <1>4 DEF Register, At, Heard
  <2>2. CountNow(s) \in Count
    BY <1>1, Numbers DEF CountNow
  <2>3. /\ new \in Handler /\ new.open = now.open /\ new.queue = <<>>
        /\ new.stage = "greet" /\ new.commit = now.commit /\ new.first = CountNow(s)
    BY <1>1, <1>2, <2>1, <2>2 DEF Handler
  <2>4. stream' = [stream EXCEPT ![s] = new] /\ stream'[s] = new
    BY <1>1, <2>1
  <2> HIDE DEF new
  <2>5. Heard(s)' /\ Latest(s)' = CountNow(s)
    BY <2>3, <2>4 DEF Heard, At, Latest
  <2>6. /\ listeners' \in [Commit -> SUBSET Stream]
        /\ \A c \in Commit : s \in listeners'[c] <=> now.commit = c
        /\ \A t \in Stream \ {s}, c \in Commit : t \in listeners'[c] <=> t \in listeners[c]
    BY <1>1, <1>2, <2>1 DEF Listening
  <2>7. now.commit # None => CountNow(s) = lastCount[now.commit]
    BY DEF CountNow
  <2>8. /\ Len(new.queue) <= Buffer
        /\ \A c \in Commit : s \in listeners'[c] <=> Heard(s)' /\ new.commit = c
        /\ new.commit # None => Latest(s)' = lastCount[new.commit]
    BY <1>1, <2>3, <2>5, <2>6, <2>7
  <2>9. missed' = missed /\ told' = told /\ new.open = stream[s].open
    BY <2>1, <2>3
  <2>10. Served(s, new)
    BY <1>1, <2>1, <2>3, <2>4, <2>5, <2>6, <2>8, <2>9 DEF Served
  <2>11. QED
    BY <2>10, HandlerStep
<1>5. CASE Greet(s)
  <2> DEFINE new == [now EXCEPT !.stage = "loop", !.first = 0]
  <2>1. /\ UNCHANGED <<index, indexed, lastCount, listeners, missed>>
        /\ now.stage = "greet" /\ Heard(s)
        /\ told' = [told EXCEPT ![s] = now.first]
        /\ stream' = [stream EXCEPT ![s].stage = "loop", ![s].first = 0]
    BY <1>5 DEF Greet, At, Heard, manager
  <2>2. /\ new \in Handler /\ new.open = now.open /\ new.queue = now.queue
        /\ new.stage = "loop" /\ new.commit = now.commit /\ now.first \in Count
    BY <1>1, Numbers DEF Handler
  <2>3. stream' = [stream EXCEPT ![s] = new] /\ stream'[s] = new
    BY <1>1, <2>1
  <2>4. /\ told' \in [Stream -> Count \cup {None}] /\ told'[s] = now.first
        /\ \A t \in Stream \ {s} : told'[t] = told[t]
    BY <1>1, <2>1, <2>2
  <2> HIDE DEF new
  <2>5. Heard(s)' /\ Latest(s)' = Latest(s)
    BY <2>1, <2>2, <2>3, <2>4 DEF Heard, At, Latest
  <2>6. /\ Len(new.queue) <= Buffer
        /\ \A c \in Commit : s \in listeners'[c] <=> Heard(s)' /\ new.commit = c
        /\ new.commit # None /\ s \notin missed' => Latest(s)' = lastCount[new.commit]
    BY <1>1, <1>2, <2>1, <2>2, <2>5
  <2>7. missed' = missed /\ listeners' = listeners /\ new.open = stream[s].open
    BY <2>1, <2>2
  <2>8. Served(s, new)
    BY <1>1, <2>1, <2>2, <2>3, <2>4, <2>5, <2>6, <2>7 DEF Served
  <2>9. QED
    BY <2>8, HandlerStep
<1>6. CASE Forward(s)
  <2> DEFINE new == [now EXCEPT !.queue = Tail(@)]
  <2>1. /\ UNCHANGED <<index, indexed, lastCount, listeners, missed>>
        /\ now.stage = "loop" /\ Heard(s) /\ now.queue # <<>>
        /\ told' = [told EXCEPT ![s] = Head(now.queue)]
        /\ stream' = [stream EXCEPT ![s].queue = Tail(@)]
    BY <1>6 DEF Forward, At, Heard, manager
  <2>2. /\ Tail(now.queue) \in Seq(Count) /\ Head(now.queue) \in Count
        /\ Len(now.queue) \in Nat /\ Len(Tail(now.queue)) = Len(now.queue) - 1
        /\ IF Tail(now.queue) = <<>> THEN Head(now.queue) = now.queue[Len(now.queue)]
           ELSE Tail(now.queue)[Len(Tail(now.queue))] = now.queue[Len(now.queue)]
    BY <1>1, <2>1, TailKeepsLast
  <2>3. Len(Tail(now.queue)) <= Buffer
    BY <1>1, <2>2, Numbers
  <2>4. /\ new \in Handler /\ new.open = now.open /\ new.queue = Tail(now.queue)
        /\ new.stage = "loop" /\ new.commit = now.commit
    BY <1>1, <2>1, <2>2 DEF Handler
  <2>5. stream' = [stream EXCEPT ![s] = new] /\ stream'[s] = new
    BY <1>1, <2>1
  <2>6. /\ told' \in [Stream -> Count \cup {None}] /\ told'[s] = Head(now.queue)
        /\ \A t \in Stream \ {s} : told'[t] = told[t]
    BY <1>1, <2>1, <2>2
  <2> HIDE DEF new
  <2>7. Heard(s)' /\ Latest(s)' = Latest(s)
    BY <1>1, <2>1, <2>2, <2>4, <2>5, <2>6 DEF Heard, At, Latest
  <2>8. /\ Len(new.queue) <= Buffer
        /\ \A c \in Commit : s \in listeners'[c] <=> Heard(s)' /\ new.commit = c
        /\ new.commit # None /\ s \notin missed' => Latest(s)' = lastCount[new.commit]
    BY <1>1, <1>2, <2>1, <2>3, <2>4, <2>7
  <2>9. missed' = missed /\ listeners' = listeners /\ new.open = stream[s].open
    BY <2>1, <2>4
  <2>10. Served(s, new)
    BY <1>1, <2>1, <2>4, <2>5, <2>6, <2>7, <2>8, <2>9 DEF Served
  <2>11. QED
    BY <2>10, HandlerStep
<1>7. CASE Leave(s)
  <2>1. /\ UNCHANGED <<index, indexed, lastCount>>
        /\ ~now.open
        /\ stream' = [stream EXCEPT ![s] = NoStream]
        /\ listeners' = [c \in Commit |-> listeners[c] \ {s}]
        /\ told' = [told EXCEPT ![s] = None]
        /\ missed' = missed \ {s}
    BY <1>7 DEF Leave
  <2>2. /\ NoStream \in Handler /\ NoStream.open = now.open /\ NoStream.queue = <<>>
        /\ NoStream.stage = "none"
    <3>1. now.open = FALSE
      BY <1>1, <2>1 DEF Handler
    <3>2. <<>> \in Seq(Count)
      OBVIOUS
    <3>3. QED
      BY <3>1, <3>2, Numbers DEF Handler, NoStream
  <2>3. stream'[s] = NoStream
    BY <1>1, <2>1
  <2>4. ~Heard(s)'
    BY <2>2, <2>3 DEF Heard, At
  <2>5. /\ listeners' \in [Commit -> SUBSET Stream]
        /\ \A c \in Commit : s \notin listeners'[c]
        /\ \A t \in Stream \ {s}, c \in Commit : t \in listeners'[c] <=> t \in listeners[c]
    BY <1>1, <2>1
  <2>6. /\ told' \in [Stream -> Count \cup {None}]
        /\ \A t \in Stream \ {s} : told'[t] = told[t]
    BY <1>1, <2>1
  <2>7. Served(s, NoStream)
    BY <1>1, <2>1, <2>2, <2>4, <2>5, <2>6 DEF Served
  <2>8. QED
    BY <2>7, HandlerStep
<1>8. QED
  BY <1>3, <1>4, <1>5, <1>6, <1>7 DEF Serve
-----------------------------------------------------------------------------
(* The page *)

(* Every answer under way is one of the visitor's actions; so is the edit  *)
(* of the repository field.                                                *)
LoadsInv ==
  /\ loads["branches"] + loads["config"] + loads["button"] <= changes
  /\ typed # None => loads["branches"] + loads["config"] + loads["button"] < changes
  /\ loads["button"] <= 1
  /\ waiting # None => loads["button"] = 0

StreamsInv ==
  /\ source # None => waiting # None /\ waiting.stream = source
  /\ \A s \in Stream : stream[s].open <=> s = source

(* The fields have not moved under what waits, and nobody is in the        *)
(* repository field.                                                       *)
WaitsFor ==
  waiting # None /\ ~waiting.moved =>
    /\ typed = None
    /\ waiting.selection = fields.selection /\ waiting.private = fields.private

(* A link that is not plain came with the preview that is shown.           *)
Linked ==
  preview # None /\ share # None /\ share.kind # "plain" =>
    share.of = preview.selection /\ (share.kind = "private" <=> preview.sealed)

(* A preview that came in time is of the fields, but for the preset that   *)
(* was put to none and a repository that is being typed.                   *)
IsOfFields ==
  preview # None /\ ~preview.late =>
    /\ preview.sealed => preview.flag
    /\ fields.selection.preset \in {preview.selection.preset, ""}
    /\ typed \in {None, preview.selection.place}
    /\ typed = None => fields.selection.place = preview.selection.place
    /\ share # None /\ share.kind = "private" => fields.private

ShownInv == WaitsFor /\ Linked /\ IsOfFields

IndInv == TypeOK /\ HeardInv /\ LoadsInv /\ StreamsInv /\ ShownInv

PageTyped ==
  /\ fields \in [selection : Selection, private : BOOLEAN]
  /\ typed \in Place \cup {None}
  /\ waiting \in Waiting \cup {None}
  /\ source \in Stream \cup {None}
  /\ preview \in Shown \cup {None}
  /\ busy = (waiting # None \/ loads["button"] > 0)
  /\ enabled = (preview # None)
  /\ loads \in [Loads -> Nat]
  /\ changes \in 0..MaxChanges

(* Lemma: the parts of the invariant.  That the answers under way are few  *)
(* follows from the count of them all.                                     *)
LEMMA Parts ==
  IndInv <=> ProgressInv /\ PageTyped /\ LoadsInv /\ StreamsInv /\ ShownInv
<1>1. MaxChanges \in Nat
  BY PreviewPageAssumption DEF PreviewPageAssumption
<1>2. IndInv => ProgressInv /\ PageTyped /\ LoadsInv /\ StreamsInv /\ ShownInv
  BY <1>1 DEF IndInv, TypeOK, ProgressInv, PageTyped
<1>3. ASSUME ProgressInv, PageTyped, LoadsInv, StreamsInv, ShownInv PROVE IndInv
  <2>1. \A a \in Loads : loads[a] \in 0..MaxChanges
    <3>1. /\ loads["branches"] \in Nat /\ loads["config"] \in Nat
          /\ loads["button"] \in Nat /\ changes \in Nat /\ changes <= MaxChanges
          /\ loads["branches"] + loads["config"] + loads["button"] <= changes
      BY <1>1, <1>3 DEF PageTyped, LoadsInv, Loads
    <3>2. QED
      BY <1>1, <3>1 DEF Loads
  <2>2. loads \in [Loads -> 0..MaxChanges]
    BY <1>3, <2>1 DEF PageTyped
  <2>3. QED
    BY <1>3, <2>2 DEF IndInv, TypeOK, ProgressInv, PageTyped
<1>4. QED
  BY <1>2, <1>3

LEMMA PartsAfter ==
  ProgressInv' /\ PageTyped' /\ LoadsInv' /\ StreamsInv' /\ ShownInv' => IndInv'
BY Parts, PTL

LEMMA Bounds == MaxChanges \in Nat /\ "" \in Preset
BY PreviewPageAssumption DEF PreviewPageAssumption

LEMMA Nothing ==
  /\ None \notin Waiting /\ None \notin Shown /\ None \notin Link
  /\ None \notin Place
BY PreviewPageAssumption DEF PreviewPageAssumption

(* Lemma: what waits after a move is what did, or has moved as well.       *)
LEMMA MoveStep ==
  ASSUME PageTyped, NEW now, Move(now)
  PROVE  /\ fields' = now
         /\ waiting' \in Waiting \cup {None} /\ (waiting' # None <=> waiting # None)
         /\ waiting' # None => waiting'.stream = waiting.stream
         /\ waiting' # None /\ ~waiting'.moved => now = fields /\ waiting' = waiting
<1>1. /\ fields' = now /\ waiting \in Waiting \cup {None}
      /\ waiting' = IF waiting = None \/ now = fields THEN waiting
                    ELSE [waiting EXCEPT !.moved = TRUE]
  BY DEF Move, PageTyped
<1>2. CASE waiting = None \/ now = fields
  BY <1>1, <1>2
<1>3. CASE ~(waiting = None \/ now = fields)
  <2>1. /\ waiting' \in Waiting /\ waiting'.moved /\ waiting'.stream = waiting.stream
    BY <1>1, <1>3 DEF Waiting
  <2>2. QED
    BY <1>1, <1>3, <2>1, Nothing
<1>4. QED
  BY <1>2, <1>3

(* Lemma: a link that is not plain comes with the preview that is shown,   *)
(* and with a preview of these fields.                                     *)
LEMMA LinkOfPreview ==
  ASSUME NEW now, NEW shown, ShareURL(now, shown) # None,
         ShareURL(now, shown).kind # "plain"
  PROVE  /\ shown.flag = now.private /\ ShareURL(now, shown).of = shown.selection
         /\ shown.sealed \in BOOLEAN =>
              (ShareURL(now, shown).kind = "private" <=> shown.sealed)
<1>1. CASE shown # None /\ shown.key = now.selection /\ shown.flag = now.private
  <2>1. ShareURL(now, shown) = [kind |-> IF shown.sealed THEN "private" ELSE "pinned",
                                of |-> shown.selection]
    BY <1>1 DEF ShareURL
  <2>2. QED
    BY <1>1, <2>1
<1>2. CASE ~(shown # None /\ shown.key = now.selection /\ shown.flag = now.private)
  <2>1. ShareURL(now, shown) = IF now.private THEN None
                               ELSE [kind |-> "plain", of |-> now.selection]
    BY <1>2 DEF ShareURL
  <2>2. QED
    BY <2>1
<1>3. QED
  BY <1>1, <1>2

(* Lemma: a link that is made anew                                         *)
LEMMA ShareStep ==
  ASSUME PageTyped', UpdateShareURL,
         preview' # None /\ ~preview'.late /\ preview'.sealed => preview'.flag
  PROVE  /\ Linked'
         /\ preview' # None /\ ~preview'.late /\ share' # None /\ share'.kind = "private"
              => fields'.private
<1>1. share' = ShareURL(fields', preview')
  BY DEF UpdateShareURL
<1>2. preview' # None => preview'.sealed \in BOOLEAN
  BY DEF PageTyped, Shown
<1>3. QED
  BY <1>1, <1>2, LinkOfPreview DEF Linked

(* Lemma: the server does not notice what happens on the page.             *)
LEMMA ServerStays ==
  ASSUME ProgressInv, UNCHANGED <<server, stream>> PROVE ProgressInv'
BY DEF ProgressInv, ProgressTyped, HeardInv, Heard, Latest, At, server, manager

(* Lemma: a handler is sent off or called off.                             *)
LEMMA OpenStep ==
  ASSUME ProgressInv, UNCHANGED <<indexed, manager, told>>,
         index' \in [Stream -> Indexing], \A i \in Stream : Sound(index'[i]),
         stream' \in [Stream -> Handler],
         \A s \in Stream :
           /\ stream'[s].queue = stream[s].queue /\ stream'[s].first = stream[s].first
           /\ stream'[s].commit = stream[s].commit
           /\ \/ stream'[s].stage = stream[s].stage
              \/ stream[s].stage = "none" /\ stream'[s].stage = "resolve"
  PROVE  ProgressInv'
<1>1. UNCHANGED <<lastCount, listeners, missed>>
  BY DEF manager
<1>2. \A s \in Stream : Heard(s)' = Heard(s) /\ Latest(s)' = Latest(s)
  BY DEF Heard, Latest, At
<1>3. ProgressTyped'
  BY <1>1 DEF ProgressInv, ProgressTyped, Sound
<1>4. HeardInv'
  BY <1>1, <1>2 DEF ProgressInv, HeardInv, Sound
<1>5. QED
  BY <1>3, <1>4 DEF ProgressInv

LEMMA Initially == Init => IndInv
<1> SUFFICES ASSUME Init PROVE IndInv
  OBVIOUS
<1>1. ProgressInv
  BY InitProgressInv DEF Init
<1>2. PageTyped
  <2>1. fields \in [selection : Selection, private : BOOLEAN] /\ typed = None
    BY DEF Init
  <2>2. loads \in [Loads -> Nat] /\ loads["button"] = 0
    BY DEF Init, Loads
  <2>3. changes \in 0..MaxChanges
    <3>1. changes = 0 /\ MaxChanges \in Nat
      BY Bounds DEF Init
    <3>2. QED
      BY <3>1
  <2>4. /\ busy = (waiting # None \/ loads["button"] > 0)
        /\ enabled = (preview # None)
    <3>1. /\ busy = FALSE /\ waiting = None /\ enabled = FALSE /\ preview = None
      BY DEF Init
    <3>2. ~(loads["button"] > 0)
      BY <2>2
    <3>3. QED
      BY <3>1, <3>2, Zenon
  <2>5. QED
    BY <2>1, <2>2, <2>3, <2>4 DEF Init, PageTyped
<1>3. LoadsInv
  BY DEF Init, LoadsInv, Loads
<1>4. StreamsInv
  BY Numbers DEF Init, StreamsInv, InitProgress, NoStream
<1>5. ShownInv
  BY DEF Init, ShownInv, WaitsFor, Linked, IsOfFields
<1>6. QED
  BY <1>1, <1>2, <1>3, <1>4, <1>5, Parts

(* Lemma: what a change of the fields does to a preview that is waited for *)
LEMMA ChangeStep ==
  ASSUME IndInv, NEW now \in [selection : Selection, private : BOOLEAN], Change(now)
  PROVE  /\ ProgressInv' /\ StreamsInv' /\ WaitsFor'
         /\ fields' = now /\ typed = None /\ UNCHANGED <<typed, busy, source>>
         /\ waiting' \in Waiting \cup {None} /\ (waiting' # None <=> waiting # None)
         /\ changes' = changes + 1 /\ changes' \in 0..MaxChanges
<1>1. ProgressInv /\ PageTyped /\ StreamsInv /\ ShownInv
  BY Parts
<1>2. /\ typed = None /\ typed' = typed
      /\ changes < MaxChanges /\ changes' = changes + 1
      /\ Move(now) /\ UNCHANGED <<busy, source, server, stream>>
  BY DEF Change, Act, Bounded
<1>3. /\ fields' = now
      /\ waiting' \in Waiting \cup {None} /\ (waiting' # None <=> waiting # None)
      /\ waiting' # None => waiting'.stream = waiting.stream
      /\ waiting' # None /\ ~waiting'.moved => now = fields /\ waiting' = waiting
  BY <1>1, <1>2, MoveStep
<1>4. ProgressInv'
  BY <1>1, <1>2, ServerStays
<1>5. StreamsInv'
  BY <1>1, <1>2, <1>3 DEF StreamsInv
<1>6. changes' \in 0..MaxChanges
  <2>1. changes \in 0..MaxChanges
    BY <1>1 DEF PageTyped
  <2>2. changes < MaxChanges /\ changes' = changes + 1 /\ MaxChanges \in Nat
    BY <1>2, Bounds
  <2>3. QED
    BY <2>1, <2>2
<1>7. WaitsFor'
  BY <1>1, <1>2, <1>3 DEF ShownInv, WaitsFor
<1>8. QED
  BY <1>2, <1>3, <1>4, <1>5, <1>6, <1>7

(* Lemma: the fields with another selection or another wish for privacy    *)
LEMMA FieldsTyped ==
  ASSUME PageTyped
  PROVE  /\ \A now \in Selection :
              [fields EXCEPT !.selection = now] \in [selection : Selection, private : BOOLEAN]
         /\ \A place \in Place :
              [fields EXCEPT !.selection.place = place]
                \in [selection : Selection, private : BOOLEAN]
         /\ [fields EXCEPT !.private = ~@] \in [selection : Selection, private : BOOLEAN]
         /\ [fields EXCEPT !.selection.preset = ""]
              \in [selection : Selection, private : BOOLEAN]
<1>1. fields \in [selection : Selection, private : BOOLEAN]
  BY DEF PageTyped
<1>2. "" \in Preset
  BY Bounds
<1>3. \A place \in Place :
        [fields.selection EXCEPT !.place = place] \in Selection
  BY <1>1 DEF Selection
<1>4. [fields.selection EXCEPT !.preset = ""] \in Selection
  BY <1>1, <1>2 DEF Selection
<1>5. QED
  BY <1>1, <1>3, <1>4

LEMMA ChangeInputStep == IndInv /\ ChangeInput => IndInv'
<1> SUFFICES ASSUME IndInv, ChangeInput PROVE IndInv'
  OBVIOUS
<1>1. ProgressInv /\ PageTyped /\ LoadsInv /\ StreamsInv /\ ShownInv
  BY Parts
<1>2. PICK now \in Selection : Change([fields EXCEPT !.selection = now])
  BY DEF ChangeInput
<1>3. preview' = None /\ enabled' = FALSE /\ loads' = loads
  BY DEF ChangeInput, Invalidate
<1>4. [fields EXCEPT !.selection = now] \in [selection : Selection, private : BOOLEAN]
  BY <1>1, FieldsTyped
<1>5. /\ ProgressInv' /\ StreamsInv' /\ WaitsFor'
      /\ fields' \in [selection : Selection, private : BOOLEAN]
      /\ UNCHANGED <<typed, busy, source>>
      /\ waiting' \in Waiting \cup {None} /\ (waiting' # None <=> waiting # None)
      /\ typed = None /\ changes' = changes + 1 /\ changes' \in 0..MaxChanges
  BY <1>2, <1>4, ChangeStep
<1>6. PageTyped'
  BY <1>1, <1>3, <1>5 DEF PageTyped
<1>7. LoadsInv'
  BY <1>1, <1>3, <1>5 DEF LoadsInv, PageTyped, Loads
<1>8. ShownInv'
  BY <1>3, <1>5 DEF ShownInv, Linked, IsOfFields
<1>9. QED
  BY <1>5, <1>6, <1>7, <1>8, PartsAfter

(* Lemma: a change that loads the branches anew                            *)
LEMMA ChangeRefStep == IndInv /\ ChangeRef => IndInv'
<1> SUFFICES ASSUME IndInv, ChangeRef PROVE IndInv'
  OBVIOUS
<1>1. ProgressInv /\ PageTyped /\ LoadsInv /\ StreamsInv /\ ShownInv
  BY Parts
<1>2. PICK place \in Place : Change([fields EXCEPT !.selection.place = place])
  BY DEF ChangeRef
<1>3. /\ preview' = None /\ enabled' = FALSE
      /\ loads' = [loads EXCEPT !["branches"] = @ + 1]
  BY DEF ChangeRef, Invalidate, Start
<1>4. [fields EXCEPT !.selection.place = place] \in [selection : Selection, private : BOOLEAN]
  BY <1>1, FieldsTyped
<1>5. /\ ProgressInv' /\ StreamsInv' /\ WaitsFor'
      /\ fields' \in [selection : Selection, private : BOOLEAN]
      /\ UNCHANGED <<typed, busy, source>>
      /\ waiting' \in Waiting \cup {None} /\ (waiting' # None <=> waiting # None)
      /\ typed = None /\ changes' = changes + 1 /\ changes' \in 0..MaxChanges
  BY <1>2, <1>4, ChangeStep
<1>6. /\ loads' \in [Loads -> Nat] /\ loads'["branches"] = loads["branches"] + 1
      /\ loads'["config"] = loads["config"] /\ loads'["button"] = loads["button"]
  BY <1>1, <1>3 DEF PageTyped, Loads
<1>7. PageTyped'
  BY <1>1, <1>3, <1>5, <1>6 DEF PageTyped
<1>8. LoadsInv'
  BY <1>1, <1>5, <1>6 DEF LoadsInv, PageTyped, Loads
<1>9. ShownInv'
  BY <1>3, <1>5 DEF ShownInv, Linked, IsOfFields
<1>10. QED
  BY <1>5, <1>7, <1>8, <1>9, PartsAfter

LEMMA CheckPrivateStep == IndInv /\ CheckPrivate => IndInv'
<1> SUFFICES ASSUME IndInv, CheckPrivate PROVE IndInv'
  OBVIOUS
<1>1. ProgressInv /\ PageTyped /\ LoadsInv /\ StreamsInv /\ ShownInv
  BY Parts
<1>2. /\ Change([fields EXCEPT !.private = ~@])
      /\ UNCHANGED <<preview, enabled, loads>>
      /\ UpdateShareURL
  BY DEF CheckPrivate
<1>3. [fields EXCEPT !.private = ~@] \in [selection : Selection, private : BOOLEAN]
  BY <1>1, FieldsTyped
<1>4. /\ ProgressInv' /\ StreamsInv' /\ WaitsFor'
      /\ fields' = [fields EXCEPT !.private = ~@]
      /\ typed = None /\ UNCHANGED <<typed, busy, source>>
      /\ waiting' \in Waiting \cup {None} /\ (waiting' # None <=> waiting # None)
      /\ changes' = changes + 1 /\ changes' \in 0..MaxChanges
  BY <1>2, <1>3, ChangeStep
<1>5. PageTyped'
  BY <1>1, <1>2, <1>3, <1>4 DEF PageTyped
<1>6. LoadsInv'
  BY <1>1, <1>2, <1>4 DEF LoadsInv, PageTyped, Loads
<1>7. fields'.selection = fields.selection
  BY <1>1, <1>4 DEF PageTyped
<1>8. ShownInv'
  <2>1. preview' # None /\ ~preview'.late /\ preview'.sealed => preview'.flag
    BY <1>1, <1>2 DEF ShownInv, IsOfFields
  <2>2. /\ Linked'
        /\ preview' # None /\ ~preview'.late /\ share' # None /\ share'.kind = "private"
             => fields'.private
    BY <1>2, <1>5, <2>1, ShareStep
  <2>3. IsOfFields'
    BY <1>1, <1>2, <1>4, <1>7, <2>1, <2>2 DEF ShownInv, IsOfFields
  <2>4. QED
    BY <1>4, <2>2, <2>3 DEF ShownInv
<1>9. QED
  BY <1>4, <1>5, <1>6, <1>8, PartsAfter

(* Lemma: the repository field is edited.                                  *)
LEMMA TypeRepoStep == IndInv /\ TypeRepo => IndInv'
<1> SUFFICES ASSUME IndInv, TypeRepo PROVE IndInv'
  OBVIOUS
<1>1. ProgressInv /\ PageTyped /\ LoadsInv /\ StreamsInv /\ ShownInv
  BY Parts
<1>2. PICK place \in Place \ {fields.selection.place} :
        Move([fields EXCEPT !.selection.place = place])
  BY DEF TypeRepo
<1> DEFINE now == [fields EXCEPT !.selection.place = place]
<1>3. /\ \/ typed = None /\ typed' = fields.selection.place
            /\ changes < MaxChanges /\ changes' = changes + 1
         \/ typed # None /\ UNCHANGED <<typed, changes>>
      /\ UNCHANGED <<busy, source, preview, enabled, share, loads, server, stream>>
  BY DEF TypeRepo, Bounded
<1>4. /\ now \in [selection : Selection, private : BOOLEAN]
      /\ now.selection.place = place /\ now.private = fields.private
      /\ now.selection.preset = fields.selection.preset
      /\ fields.selection.place \in Place
  BY <1>1, FieldsTyped DEF PageTyped, Selection
<1>5. now # fields
  BY <1>2, <1>4
<1> HIDE DEF now
<1>6. /\ fields' = now
      /\ waiting' \in Waiting \cup {None} /\ (waiting' # None <=> waiting # None)
      /\ waiting' # None => waiting'.stream = waiting.stream /\ waiting'.moved
  BY <1>1, <1>2, <1>5, MoveStep DEF now
<1>7. ProgressInv' /\ StreamsInv'
  BY <1>1, <1>3, <1>6, ServerStays DEF StreamsInv
<1>8. changes' \in 0..MaxChanges
  <2>1. changes \in 0..MaxChanges
    BY <1>1 DEF PageTyped
  <2>2. changes' = changes \/ (changes < MaxChanges /\ changes' = changes + 1)
    BY <1>3
  <2>3. MaxChanges \in Nat
    BY Bounds
  <2>4. QED
    BY <2>1, <2>2, <2>3
<1>9. PageTyped'
  BY <1>1, <1>3, <1>4, <1>6, <1>8 DEF PageTyped
<1>10. LoadsInv'
  <2>1. /\ loads["branches"] \in Nat /\ loads["config"] \in Nat
        /\ loads["button"] \in Nat /\ changes \in Nat
    BY <1>1 DEF PageTyped, Loads
  <2>2. QED
    BY <1>1, <1>3, <1>6, <2>1 DEF LoadsInv
<1>11. IsOfFields'
  BY <1>1, <1>3, <1>4, <1>6, Nothing DEF ShownInv, IsOfFields
<1>12. WaitsFor' /\ Linked'
  BY <1>1, <1>3, <1>6 DEF ShownInv, WaitsFor, Linked
<1>13. QED
  BY <1>7, <1>9, <1>10, <1>11, <1>12, PartsAfter DEF ShownInv

(* Lemma: the repository field is left.                                    *)
LEMMA LeaveRepoStep == IndInv /\ (LeaveRepo \/ LeaveRepoAsItWas) => IndInv'
<1> SUFFICES ASSUME IndInv, LeaveRepo \/ LeaveRepoAsItWas PROVE IndInv'
  OBVIOUS
<1>1. ProgressInv /\ PageTyped /\ LoadsInv /\ StreamsInv /\ ShownInv
  BY Parts
<1>2. /\ typed' = None
      /\ UNCHANGED <<fields, busy, waiting, source, share, changes, server, stream>>
  BY DEF LeaveRepo, LeaveRepoAsItWas
<1>3. typed # None
  <2>1. fields.selection.place # None
    BY <1>1, Nothing DEF PageTyped, Selection
  <2>2. QED
    BY <2>1 DEF LeaveRepo, LeaveRepoAsItWas
<1>4. ProgressInv' /\ StreamsInv'
  BY <1>1, <1>2, ServerStays DEF StreamsInv
<1>5. WaitsFor'
  BY <1>1, <1>2 DEF ShownInv, WaitsFor
<1>6. CASE LeaveRepo
  <2>1. /\ preview' = None /\ enabled' = FALSE
        /\ loads' = [loads EXCEPT !["branches"] = @ + 1]
    BY <1>6 DEF LeaveRepo, Invalidate, Start
  <2>2. /\ loads' \in [Loads -> Nat] /\ loads'["branches"] = loads["branches"] + 1
        /\ loads'["config"] = loads["config"] /\ loads'["button"] = loads["button"]
        /\ loads["branches"] \in Nat /\ loads["config"] \in Nat
        /\ loads["button"] \in Nat /\ changes \in Nat
    BY <1>1, <2>1 DEF PageTyped, Loads
  <2>3. PageTyped'
    BY <1>1, <1>2, <2>1, <2>2 DEF PageTyped
  <2>4. LoadsInv'
    BY <1>1, <1>2, <1>3, <2>2 DEF LoadsInv
  <2>5. Linked' /\ IsOfFields'
    BY <2>1 DEF Linked, IsOfFields
  <2>6. QED
    BY <1>4, <1>5, <2>3, <2>4, <2>5, PartsAfter DEF ShownInv
<1>7. CASE LeaveRepoAsItWas
  <2>1. typed = fields.selection.place /\ UNCHANGED <<preview, enabled, loads>>
    BY <1>7 DEF LeaveRepoAsItWas
  <2>2. PageTyped' /\ LoadsInv'
    BY <1>1, <1>2, <2>1 DEF PageTyped, LoadsInv
  <2>3. Linked' /\ IsOfFields'
    BY <1>1, <1>2, <1>3, <2>1 DEF ShownInv, Linked, IsOfFields
  <2>4. QED
    BY <1>4, <1>5, <2>2, <2>3, PartsAfter DEF ShownInv
<1>8. QED
  BY <1>6, <1>7

(* Lemma: the answers under way after one of them has come                 *)
LEMMA FinishStep ==
  ASSUME PageTyped, LoadsInv, NEW a \in Loads, Finish(a), changes' \in Nat,
         changes' >= changes, typed' = typed, waiting' # None <=> waiting # None
  PROVE  LoadsInv' /\ loads' \in [Loads -> Nat]
         /\ (a = "button" => loads'["button"] = 0 /\ waiting = None)
         /\ (a # "button" => loads'["button"] = loads["button"])
<1>1. /\ loads[a] > 0 /\ loads' = [loads EXCEPT ![a] = @ - 1]
      /\ loads \in [Loads -> Nat] /\ changes \in Nat
  BY DEF Finish, PageTyped
<1>2. /\ loads["branches"] \in Nat /\ loads["config"] \in Nat /\ loads["button"] \in Nat
      /\ loads' \in [Loads -> Nat]
      /\ \A b \in Loads : loads'[b] = IF b = a THEN loads[b] - 1 ELSE loads[b]
  BY <1>1 DEF Loads
<1>3. /\ loads'["branches"] \in Nat /\ loads'["config"] \in Nat /\ loads'["button"] \in Nat
      /\ loads'["branches"] <= loads["branches"] /\ loads'["config"] <= loads["config"]
      /\ loads'["button"] <= loads["button"]
  BY <1>1, <1>2 DEF Loads
<1>4. /\ a = "button" => loads'["button"] = 0 /\ waiting = None
      /\ a # "button" => loads'["button"] = loads["button"]
  BY <1>1, <1>2 DEF Loads, LoadsInv
<1>5. LoadsInv'
  BY <1>1, <1>2, <1>3 DEF LoadsInv
<1>6. QED
  BY <1>2, <1>4, <1>5

LEMMA FinishBranchesStep == IndInv /\ FinishBranches => IndInv'
<1> SUFFICES ASSUME IndInv, FinishBranches PROVE IndInv'
  OBVIOUS
<1>1. ProgressInv /\ PageTyped /\ LoadsInv /\ StreamsInv /\ ShownInv
  BY Parts
<1>2. /\ loads["branches"] > 0
      /\ loads' = [loads EXCEPT !["branches"] = @ - 1, !["config"] = @ + 1]
      /\ UNCHANGED <<fields, typed, busy, waiting, source, preview, enabled, changes>>
      /\ UpdateShareURL
      /\ UNCHANGED <<server, stream>>
  BY DEF FinishBranches
<1>3. ProgressInv' /\ StreamsInv'
  BY <1>1, <1>2, ServerStays DEF StreamsInv
<1>4. /\ loads' \in [Loads -> Nat] /\ loads'["branches"] = loads["branches"] - 1
      /\ loads'["config"] = loads["config"] + 1 /\ loads'["button"] = loads["button"]
      /\ loads["branches"] \in Nat /\ loads["config"] \in Nat /\ loads["button"] \in Nat
  BY <1>1, <1>2 DEF PageTyped, Loads
<1>5. PageTyped'
  BY <1>1, <1>2, <1>4 DEF PageTyped
<1>6. LoadsInv'
  BY <1>1, <1>2, <1>4 DEF LoadsInv
<1>7. ShownInv'
  <2>1. preview' # None /\ ~preview'.late /\ preview'.sealed => preview'.flag
    BY <1>1, <1>2 DEF ShownInv, IsOfFields
  <2>2. /\ Linked'
        /\ preview' # None /\ ~preview'.late /\ share' # None /\ share'.kind = "private"
             => fields'.private
    BY <1>2, <1>5, <2>1, ShareStep
  <2>3. WaitsFor' /\ IsOfFields'
    BY <1>1, <1>2, <2>1, <2>2 DEF ShownInv, WaitsFor, IsOfFields
  <2>4. QED
    BY <2>2, <2>3 DEF ShownInv
<1>8. QED
  BY <1>3, <1>5, <1>6, <1>7, PartsAfter

(* Lemma: a choice that is put back moves the fields, or leaves them.      *)
LEMMA ResetStep ==
  ASSUME IndInv, ResetPreset, UNCHANGED typed
  PROVE  /\ ProgressInv' /\ StreamsInv' /\ ShownInv'
         /\ UNCHANGED <<source, preview, enabled>>
         /\ fields' \in [selection : Selection, private : BOOLEAN]
         /\ waiting' \in Waiting \cup {None} /\ (waiting' # None <=> waiting # None)
<1>1. ProgressInv /\ PageTyped /\ StreamsInv /\ ShownInv
  BY Parts
<1> DEFINE now == [fields EXCEPT !.selection.preset = ""]
<1>2. Move(now) /\ UNCHANGED <<source, preview, enabled, share, server, stream>>
  BY DEF ResetPreset
<1>3. /\ now \in [selection : Selection, private : BOOLEAN]
      /\ now.selection.preset = "" /\ now.private = fields.private
      /\ now.selection.place = fields.selection.place
  BY <1>1, FieldsTyped DEF PageTyped, Selection
<1> HIDE DEF now
<1>4. /\ fields' = now
      /\ waiting' \in Waiting \cup {None} /\ (waiting' # None <=> waiting # None)
      /\ waiting' # None => waiting'.stream = waiting.stream
      /\ waiting' # None /\ ~waiting'.moved => now = fields /\ waiting' = waiting
  BY <1>1, <1>2, MoveStep
<1>5. ProgressInv' /\ StreamsInv'
  BY <1>1, <1>2, <1>4, ServerStays DEF StreamsInv
<1>6. WaitsFor'
  BY <1>1, <1>4 DEF ShownInv, WaitsFor
<1>7. Linked' /\ IsOfFields'
  BY <1>1, <1>2, <1>3, <1>4 DEF ShownInv, Linked, IsOfFields
<1>8. QED
  BY <1>2, <1>3, <1>4, <1>5, <1>6, <1>7 DEF ShownInv

LEMMA FinishConfigStep == IndInv /\ FinishConfig => IndInv'
<1> SUFFICES ASSUME IndInv, FinishConfig PROVE IndInv'
  OBVIOUS
<1>1. PageTyped /\ LoadsInv
  BY Parts
<1>2. Finish("config") /\ ResetPreset /\ UNCHANGED <<typed, busy, changes>>
  BY DEF FinishConfig
<1>3. /\ ProgressInv' /\ StreamsInv' /\ ShownInv'
      /\ UNCHANGED <<source, preview, enabled>>
      /\ fields' \in [selection : Selection, private : BOOLEAN]
      /\ waiting' \in Waiting \cup {None} /\ (waiting' # None <=> waiting # None)
  BY <1>2, ResetStep
<1>4. changes' \in Nat /\ changes' >= changes /\ changes' \in 0..MaxChanges
  BY <1>1, <1>2 DEF PageTyped
<1>5. LoadsInv' /\ loads' \in [Loads -> Nat] /\ loads'["button"] = loads["button"]
  BY <1>1, <1>2, <1>3, <1>4, FinishStep DEF Loads
<1>6. PageTyped'
  BY <1>1, <1>2, <1>3, <1>4, <1>5 DEF PageTyped
<1>7. QED
  BY <1>3, <1>5, <1>6, PartsAfter

LEMMA FinishButtonLoadStep == IndInv /\ FinishButtonLoad => IndInv'
<1> SUFFICES ASSUME IndInv, FinishButtonLoad PROVE IndInv'
  OBVIOUS
<1>1. PageTyped /\ LoadsInv
  BY Parts
<1>2. /\ Finish("button") /\ ResetPreset /\ UNCHANGED <<typed, changes>>
      /\ busy' = FALSE
  BY DEF FinishButtonLoad
<1>3. /\ ProgressInv' /\ StreamsInv' /\ ShownInv'
      /\ UNCHANGED <<source, preview, enabled>>
      /\ fields' \in [selection : Selection, private : BOOLEAN]
      /\ waiting' \in Waiting \cup {None} /\ (waiting' # None <=> waiting # None)
  BY <1>2, ResetStep
<1>4. changes' \in Nat /\ changes' >= changes /\ changes' \in 0..MaxChanges
  BY <1>1, <1>2 DEF PageTyped
<1>5. /\ LoadsInv' /\ loads' \in [Loads -> Nat]
      /\ loads'["button"] = 0 /\ waiting = None
  BY <1>1, <1>2, <1>3, <1>4, FinishStep DEF Loads
<1>6. busy' = (waiting' # None \/ loads'["button"] > 0)
  <2>1. ~(loads'["button"] > 0)
    BY <1>5
  <2>2. ~(waiting' # None)
    BY <1>3, <1>5
  <2>3. QED
    BY <1>2, <2>1, <2>2, Zenon
<1>7. PageTyped'
  BY <1>1, <1>2, <1>3, <1>4, <1>5, <1>6 DEF PageTyped
<1>8. QED
  BY <1>3, <1>5, <1>7, PartsAfter

LEMMA EditPresetStep == IndInv /\ EditPreset => IndInv'
<1> SUFFICES ASSUME IndInv, EditPreset PROVE IndInv'
  OBVIOUS
<1>1. PageTyped /\ LoadsInv
  BY Parts
<1>2. /\ typed = None /\ typed' = typed
      /\ changes < MaxChanges /\ changes' = changes + 1
      /\ ResetPreset /\ UNCHANGED <<busy, loads>>
  BY DEF EditPreset, Act, Bounded
<1>3. /\ ProgressInv' /\ StreamsInv' /\ ShownInv'
      /\ UNCHANGED <<source, preview, enabled>>
      /\ fields' \in [selection : Selection, private : BOOLEAN]
      /\ waiting' \in Waiting \cup {None} /\ (waiting' # None <=> waiting # None)
  BY <1>2, ResetStep
<1>4. changes \in Nat /\ changes' \in 0..MaxChanges
  <2>1. changes \in 0..MaxChanges
    BY <1>1 DEF PageTyped
  <2>2. MaxChanges \in Nat
    BY Bounds
  <2>3. QED
    BY <1>2, <2>1, <2>2
<1>5. LoadsInv'
  BY <1>1, <1>2, <1>3, <1>4 DEF LoadsInv, PageTyped, Loads
<1>6. PageTyped'
  BY <1>1, <1>2, <1>3, <1>4 DEF PageTyped
<1>7. QED
  BY <1>3, <1>5, <1>6, PartsAfter

LEMMA ClickButtonStep == IndInv /\ ClickButton => IndInv'
<1> SUFFICES ASSUME IndInv, ClickButton PROVE IndInv'
  OBVIOUS
<1>1. ProgressInv /\ PageTyped /\ LoadsInv /\ StreamsInv /\ ShownInv
  BY Parts
<1>2. /\ typed = None /\ typed' = typed
      /\ ~busy /\ changes < MaxChanges /\ changes' = changes + 1 /\ busy' = TRUE
      /\ loads' = [loads EXCEPT !["button"] = @ + 1]
      /\ UNCHANGED <<fields, waiting, source, preview, enabled, share, server, stream>>
  BY DEF ClickButton, Act, Bounded, Start
<1>3. ProgressInv' /\ StreamsInv'
  BY <1>1, <1>2, ServerStays DEF StreamsInv
<1>4. ShownInv'
  BY <1>1, <1>2 DEF ShownInv, WaitsFor, Linked, IsOfFields
<1>5. waiting = None /\ ~(loads["button"] > 0)
  BY <1>1, <1>2 DEF PageTyped
<1>6. /\ loads["branches"] \in Nat /\ loads["config"] \in Nat
      /\ loads["button"] = 0 /\ loads' \in [Loads -> Nat]
      /\ loads'["branches"] = loads["branches"] /\ loads'["config"] = loads["config"]
      /\ loads'["button"] = 1
  BY <1>1, <1>2, <1>5 DEF PageTyped, Loads
<1>7. changes \in Nat /\ changes' \in 0..MaxChanges
  <2>1. changes \in 0..MaxChanges
    BY <1>1 DEF PageTyped
  <2>2. MaxChanges \in Nat
    BY Bounds
  <2>3. QED
    BY <1>2, <2>1, <2>2
<1>8. LoadsInv'
  BY <1>1, <1>2, <1>5, <1>6, <1>7 DEF LoadsInv
<1>9. busy' = (waiting' # None \/ loads'["button"] > 0)
  <2>1. loads'["button"] > 0
    BY <1>6
  <2>2. QED
    BY <1>2, <2>1, Zenon
<1>10. PageTyped'
  BY <1>1, <1>2, <1>6, <1>7, <1>9 DEF PageTyped
<1>11. QED
  BY <1>3, <1>4, <1>8, <1>10, PartsAfter

LEMMA FinishQuietlyStep == IndInv /\ FinishQuietly => IndInv'
<1> SUFFICES ASSUME IndInv, FinishQuietly PROVE IndInv'
  OBVIOUS
<1>1. ProgressInv /\ PageTyped /\ LoadsInv /\ StreamsInv /\ ShownInv
  BY Parts
<1>2. PICK a \in Loads : Finish(a) /\ busy' = (busy /\ a # "button")
  BY DEF FinishQuietly
<1>3. UNCHANGED <<fields, typed, waiting, source, preview, enabled, share, changes,
                  server, stream>>
  BY DEF FinishQuietly
<1>4. ProgressInv' /\ StreamsInv'
  BY <1>1, <1>3, ServerStays DEF StreamsInv
<1>5. ShownInv'
  BY <1>1, <1>3 DEF ShownInv, WaitsFor, Linked, IsOfFields
<1>6. changes' \in Nat /\ changes' >= changes /\ changes' \in 0..MaxChanges
  BY <1>1, <1>3 DEF PageTyped
<1>7. /\ LoadsInv' /\ loads' \in [Loads -> Nat]
      /\ (a = "button" => loads'["button"] = 0 /\ waiting = None)
      /\ (a # "button" => loads'["button"] = loads["button"])
  BY <1>1, <1>2, <1>3, <1>6, FinishStep
<1>8. busy' = (waiting' # None \/ loads'["button"] > 0)
  <2>1. waiting' = waiting /\ busy = (waiting # None \/ loads["button"] > 0)
    BY <1>1, <1>3 DEF PageTyped
  <2>2. CASE a = "button"
    <3>1. ~(loads'["button"] > 0) /\ waiting' = None
      BY <1>7, <2>1, <2>2
    <3>2. QED
      BY <1>2, <2>2, <3>1, Zenon
  <2>3. CASE a # "button"
    <3>1. loads'["button"] = loads["button"]
      BY <1>7, <2>3
    <3>2. QED
      BY <1>2, <2>1, <2>3, <3>1, Zenon
  <2>4. QED
    BY <2>2, <2>3
<1>9. PageTyped'
  BY <1>1, <1>3, <1>6, <1>7, <1>8 DEF PageTyped
<1>10. QED
  BY <1>4, <1>5, <1>7, <1>9, PartsAfter

(* Lemma: a stream that is closed, with an indexing that nobody waits for  *)
(* any more if it had one                                                  *)
LEMMA CloseStep ==
  ASSUME ProgressInv, PageTyped, StreamsInv, Close, UNCHANGED <<indexed, manager, told>>,
         \/ UNCHANGED index
         \/ \E i \in Stream : index' = [index EXCEPT ![i] = NoIndexing]
  PROVE  ProgressInv' /\ StreamsInv' /\ source' = None
<1>1. source' = None /\ stream' = [s \in Stream |-> [stream[s] EXCEPT !.open = FALSE]]
  BY DEF Close
<1>2. \A s \in Stream : stream[s] \in Handler
  BY DEF ProgressInv, ProgressTyped
<1>3. \A s \in Stream :
        /\ stream'[s] \in Handler /\ stream'[s].open = FALSE
        /\ stream'[s].queue = stream[s].queue /\ stream'[s].first = stream[s].first
        /\ stream'[s].commit = stream[s].commit /\ stream'[s].stage = stream[s].stage
  BY <1>1, <1>2 DEF Handler
<1>4. stream' \in [Stream -> Handler]
  BY <1>1, <1>3
<1>5. StreamsInv'
  BY <1>1, <1>3, Numbers DEF StreamsInv
<1>6. Sound(NoIndexing)
  <2>1. Cardinality({}) = 0
    BY FS_EmptySet
  <2>2. QED
    BY <2>1, Numbers DEF Sound, NoIndexing, Indexing
<1>7. index \in [Stream -> Indexing] /\ \A i \in Stream : Sound(index[i])
  BY DEF ProgressInv, ProgressTyped, HeardInv, Sound
<1>8. index' \in [Stream -> Indexing] /\ \A i \in Stream : Sound(index'[i])
  BY <1>6, <1>7, IndexChanges
<1>9. ProgressInv'
  BY <1>3, <1>4, <1>8, OpenStep
<1>10. QED
  BY <1>1, <1>5, <1>9

LEMMA BreakStreamStep == IndInv /\ BreakStream => IndInv'
<1> SUFFICES ASSUME IndInv, BreakStream PROVE IndInv'
  OBVIOUS
<1>1. ProgressInv /\ PageTyped /\ LoadsInv /\ StreamsInv /\ ShownInv
  BY Parts
<1>2. /\ Close /\ UNCHANGED <<fields, typed, busy, waiting, preview, enabled, share,
                              loads, changes>>
      /\ UNCHANGED <<index, indexed, manager, told>>
  BY DEF BreakStream, server
<1>3. ProgressInv' /\ StreamsInv' /\ source' = None
  BY <1>1, <1>2, CloseStep
<1>4. PageTyped' /\ LoadsInv' /\ ShownInv'
  BY <1>1, <1>2, <1>3 DEF PageTyped, LoadsInv, ShownInv, WaitsFor, Linked, IsOfFields
<1>5. QED
  BY <1>3, <1>4, PartsAfter

LEMMA ClickPreviewStep ==
  ASSUME IndInv, NEW s \in Stream, ClickPreview(s) PROVE IndInv'
<1>1. ProgressInv /\ PageTyped /\ LoadsInv /\ StreamsInv /\ ShownInv
  BY Parts
<1>2. /\ ~busy /\ typed = None /\ stream[s].stage = "none" /\ busy' = TRUE
      /\ waiting' = [selection |-> fields.selection, private |-> fields.private,
                     stream |-> s, moved |-> FALSE]
      /\ source' = s
      /\ stream' = [stream EXCEPT ![s].stage = "resolve", ![s].open = TRUE]
      /\ UNCHANGED <<fields, typed, preview, enabled, share, loads, changes>>
      /\ UNCHANGED <<index, indexed, manager, told>>
  BY DEF ClickPreview, Unused, server
<1>3. waiting = None /\ ~(loads["button"] > 0)
  BY <1>1, <1>2 DEF PageTyped
<1>4. loads["button"] = 0
  BY <1>1, <1>3 DEF PageTyped, Loads
<1>5. waiting' \in Waiting /\ waiting' # None
  <2>1. fields.selection \in Selection /\ fields.private \in BOOLEAN
    BY <1>1 DEF PageTyped
  <2>2. waiting' \in Waiting
    BY <1>2, <2>1 DEF Waiting
  <2>3. QED
    BY <2>2, Nothing
<1>6. /\ stream \in [Stream -> Handler] /\ index \in [Stream -> Indexing]
      /\ \A i \in Stream : Sound(index[i])
  BY <1>1 DEF ProgressInv, ProgressTyped, HeardInv, Sound
<1>7. \A t \in Stream :
        stream'[t] = IF t = s THEN [stream[s] EXCEPT !.stage = "resolve", !.open = TRUE]
                     ELSE stream[t]
  BY <1>2, <1>6
<1>8. \A t \in Stream :
        /\ stream'[t] \in Handler
        /\ stream'[t].queue = stream[t].queue /\ stream'[t].first = stream[t].first
        /\ stream'[t].commit = stream[t].commit
        /\ stream'[t].open <=> t = s \/ stream[t].open
        /\ \/ stream'[t].stage = stream[t].stage
           \/ stream[t].stage = "none" /\ stream'[t].stage = "resolve"
  <2>1. SUFFICES ASSUME NEW t \in Stream
                 PROVE  /\ stream'[t] \in Handler
                        /\ stream'[t].queue = stream[t].queue
                        /\ stream'[t].first = stream[t].first
                        /\ stream'[t].commit = stream[t].commit
                        /\ stream'[t].open <=> t = s \/ stream[t].open
                        /\ \/ stream'[t].stage = stream[t].stage
                           \/ stream[t].stage = "none" /\ stream'[t].stage = "resolve"
    OBVIOUS
  <2>2. stream[t] \in Handler
    BY <1>6
  <2>3. CASE t = s
    <3>1. stream'[t] = [stream[t] EXCEPT !.stage = "resolve", !.open = TRUE]
      BY <1>7, <2>3
    <3>2. /\ stream'[t] \in Handler /\ stream'[t].open = TRUE
          /\ stream'[t].queue = stream[t].queue /\ stream'[t].first = stream[t].first
          /\ stream'[t].commit = stream[t].commit /\ stream'[t].stage = "resolve"
      BY <2>2, <3>1 DEF Handler
    <3>3. QED
      BY <1>2, <2>3, <3>2
  <2>4. CASE t # s
    BY <1>7, <2>2, <2>4 DEF Handler
  <2>5. QED
    BY <2>3, <2>4
<1>9. stream' \in [Stream -> Handler]
  BY <1>2, <1>6, <1>8
<1>10. ProgressInv'
  BY <1>1, <1>2, <1>6, <1>8, <1>9, OpenStep
<1>11. StreamsInv'
  <2>1. source = None /\ s # None
    BY <1>1, <1>3, Numbers DEF StreamsInv
  <2>2. \A t \in Stream : ~stream[t].open
    BY <1>1, <2>1, Numbers DEF StreamsInv
  <2>3. \A t \in Stream : stream'[t].open <=> t = s
    BY <1>8, <2>2
  <2>4. waiting'.stream = s
    BY <1>2
  <2>5. QED
    BY <1>2, <1>5, <2>3, <2>4 DEF StreamsInv
<1>12. PageTyped'
  <2>1. busy' = (waiting' # None \/ loads'["button"] > 0)
    BY <1>2, <1>5, Zenon
  <2>2. QED
    BY <1>1, <1>2, <1>5, <2>1 DEF PageTyped
<1>13. LoadsInv'
  BY <1>1, <1>2, <1>4 DEF LoadsInv
<1>14. ShownInv'
  BY <1>1, <1>2 DEF ShownInv, WaitsFor, Linked, IsOfFields
<1>15. QED
  BY <1>10, <1>11, <1>12, <1>13, <1>14, PartsAfter

(* Lemma: the handler and the indexings go on while the page waits.        *)
LEMMA PageStays ==
  ASSUME IndInv, UNCHANGED page, ProgressInv',
         \A s \in Stream : stream'[s].open = stream[s].open
  PROVE  IndInv'
<1>1. PageTyped /\ LoadsInv /\ StreamsInv /\ ShownInv
  BY Parts
<1>2. UNCHANGED <<fields, typed, busy, waiting, source, preview, enabled, share, loads,
                  changes>>
  BY DEF page
<1>3. PageTyped' /\ LoadsInv' /\ StreamsInv' /\ ShownInv'
  BY <1>1, <1>2
     DEF PageTyped, LoadsInv, StreamsInv, ShownInv, WaitsFor, Linked, IsOfFields
<1>4. QED
  BY <1>3, PartsAfter

LEMMA BeginPreviewStep == IndInv /\ BeginPreview => IndInv'
<1> SUFFICES ASSUME IndInv, BeginPreview PROVE IndInv'
  OBVIOUS
<1>1. ProgressInv /\ PageTyped
  BY Parts
<1>2. PICK c \in Commit : BeginIndexing(waiting.stream, c)
  BY DEF BeginPreview
<1>3. waiting # None /\ UNCHANGED <<page, indexed, manager, stream, told>>
  BY DEF BeginPreview
<1>4. waiting.stream \in Stream
  BY <1>1, <1>3 DEF PageTyped, Waiting
<1> DEFINE new == [NoIndexing EXCEPT !.stage = "check", !.commit = c]
<1>5. index' = [index EXCEPT ![waiting.stream] = new]
  BY <1>2 DEF BeginIndexing
<1>6. Sound(new)
  <2>1. Cardinality({}) = 0
    BY FS_EmptySet
  <2>2. NoIndexing \in Indexing /\ NoIndexing.due = {}
    BY Numbers DEF NoIndexing, Indexing
  <2>3. /\ new \in Indexing /\ new.due = {} /\ new.stage = "check"
        /\ new.commit = c
    BY <2>2 DEF Indexing
  <2> HIDE DEF new
  <2>4. QED
    BY <2>1, <2>3, Numbers DEF Sound
<1> HIDE DEF new
<1>7. indexed' \subseteq Commit /\ Unheard
  BY <1>1, <1>3 DEF Unheard, ProgressInv, ProgressTyped
<1>8. ProgressInv' /\ \A s \in Stream : stream'[s].open = stream[s].open
  BY <1>1, <1>4, <1>5, <1>6, <1>7, QuietStep
<1>9. QED
  BY <1>3, <1>8, PageStays

(* Lemma: what the end of a preview leaves                                 *)
LEMMA EndStep ==
  ASSUME IndInv, waiting # None, EndPreview
  PROVE  /\ ProgressInv' /\ StreamsInv' /\ LoadsInv'
         /\ waiting' = None /\ source' = None /\ UNCHANGED <<fields, typed, loads, changes>>
         /\ busy' = (waiting' # None \/ loads'["button"] > 0)
<1>1. ProgressInv /\ PageTyped /\ LoadsInv /\ StreamsInv
  BY Parts
<1>2. /\ waiting' = None /\ busy' = FALSE /\ Close
      /\ index' = [index EXCEPT ![waiting.stream] = NoIndexing]
      /\ UNCHANGED <<fields, typed, loads, changes>> /\ UNCHANGED <<indexed, manager, told>>
  BY DEF EndPreview
<1>3. waiting.stream \in Stream
  BY <1>1 DEF PageTyped, Waiting
<1>4. ProgressInv' /\ StreamsInv' /\ source' = None
  BY <1>1, <1>2, <1>3, CloseStep
<1>5. loads["button"] = 0 /\ LoadsInv'
  BY <1>1, <1>2 DEF LoadsInv
<1>6. busy' = (waiting' # None \/ loads'["button"] > 0)
  <2>1. ~(loads'["button"] > 0) /\ waiting' = None
    BY <1>2, <1>5
  <2>2. QED
    BY <1>2, <2>1, Zenon
<1>7. QED
  BY <1>2, <1>4, <1>5, <1>6

LEMMA FailPreviewStep == IndInv /\ FailPreview => IndInv'
<1> SUFFICES ASSUME IndInv, FailPreview PROVE IndInv'
  OBVIOUS
<1>1. PageTyped /\ ShownInv
  BY Parts
<1>2. waiting # None /\ EndPreview /\ UNCHANGED <<preview, enabled, share>>
  BY DEF FailPreview
<1>3. /\ ProgressInv' /\ StreamsInv' /\ LoadsInv'
      /\ waiting' = None /\ source' = None /\ UNCHANGED <<fields, typed, loads, changes>>
      /\ busy' = (waiting' # None \/ loads'["button"] > 0)
  BY <1>2, EndStep
<1>4. PageTyped' /\ ShownInv'
  BY <1>1, <1>2, <1>3 DEF PageTyped, ShownInv, WaitsFor, Linked, IsOfFields
<1>5. QED
  BY <1>3, <1>4, PartsAfter

LEMMA FinishPreviewStep == IndInv /\ FinishPreview => IndInv'
<1> SUFFICES ASSUME IndInv, FinishPreview PROVE IndInv'
  OBVIOUS
<1>1. PageTyped /\ ShownInv
  BY Parts
<1>2. /\ waiting # None /\ EndPreview /\ enabled' = TRUE /\ UpdateShareURL
  BY DEF FinishPreview
<1>3. PICK sealed \in {waiting.private, FALSE} :
        preview' = [selection |-> waiting.selection, sealed |-> sealed,
                    key |-> fields.selection, flag |-> fields.private,
                    late |-> waiting.moved]
  BY DEF FinishPreview
<1>4. /\ ProgressInv' /\ StreamsInv' /\ LoadsInv'
      /\ waiting' = None /\ source' = None /\ UNCHANGED <<fields, typed, loads, changes>>
      /\ busy' = (waiting' # None \/ loads'["button"] > 0)
  BY <1>2, EndStep
<1>5. waiting \in Waiting
  BY <1>1, <1>2 DEF PageTyped
<1>6. preview' \in Shown /\ preview' # None
  <2>1. fields.selection \in Selection /\ fields.private \in BOOLEAN
    BY <1>1 DEF PageTyped
  <2>2. /\ waiting.selection \in Selection /\ waiting.private \in BOOLEAN
        /\ waiting.moved \in BOOLEAN /\ sealed \in BOOLEAN
    BY <1>5 DEF Waiting
  <2>3. preview' \in Shown
    BY <1>3, <2>1, <2>2 DEF Shown
  <2>4. QED
    BY <2>3, Nothing
<1>7. enabled' = (preview' # None)
  BY <1>2, <1>6, Zenon
<1>8. PageTyped'
  BY <1>1, <1>4, <1>6, <1>7 DEF PageTyped
<1>9. ShownInv'
  <2>1. /\ preview'.selection = waiting.selection /\ preview'.flag = fields.private
        /\ preview'.sealed = sealed /\ preview'.late = waiting.moved
    BY <1>3
  <2>2. ~waiting.moved =>
          /\ waiting.selection = fields.selection /\ waiting.private = fields.private
          /\ typed = None
    BY <1>1, <1>2 DEF ShownInv, WaitsFor
  <2>3. ~preview'.late /\ preview'.sealed => preview'.flag
    BY <2>1, <2>2
  <2>4. /\ Linked'
        /\ ~preview'.late /\ share' # None /\ share'.kind = "private" => fields'.private
    BY <1>2, <1>6, <1>8, <2>3, ShareStep
  <2>5. WaitsFor' /\ IsOfFields'
    BY <1>4, <2>1, <2>2, <2>3, <2>4 DEF WaitsFor, IsOfFields
  <2>6. QED
    BY <2>4, <2>5 DEF ShownInv
<1>10. QED
  BY <1>4, <1>8, <1>9, PartsAfter
-----------------------------------------------------------------------------
(* The invariant is kept by every step of the page and of the server.      *)
THEOREM Invariance == Spec => []IndInv
<1>1. ASSUME IndInv, [Next]_vars PROVE IndInv'
  <2>1. CASE Next
    <3>1. CASE Visit
      BY <1>1, <3>1, ChangeInputStep, ChangeRefStep, TypeRepoStep, LeaveRepoStep,
         CheckPrivateStep, EditPresetStep, ClickButtonStep, FinishBranchesStep, FinishConfigStep, FinishButtonLoadStep,
         FinishQuietlyStep, BreakStreamStep DEF Visit
    <3>2. CASE Answer
      BY <1>1, <3>2, FinishPreviewStep, FailPreviewStep DEF Answer
    <3>3. CASE BeginPreview
      BY <1>1, <3>3, BeginPreviewStep
    <3>4. CASE \E s \in Stream : ClickPreview(s)
      BY <1>1, <3>4, ClickPreviewStep
    <3>5. CASE (\E s \in Stream : Index(s) \/ Serve(s)) /\ UNCHANGED page
      <4>1. ProgressInv
        BY <1>1, Parts
      <4>2. ProgressInv' /\ \A s \in Stream : stream'[s].open = stream[s].open
        BY <3>5, <4>1, IndexStep, ServeStep
      <4>3. QED
        BY <1>1, <3>5, <4>2, PageStays
    <3>6. QED
      BY <2>1, <3>1, <3>2, <3>3, <3>4, <3>5 DEF Next
  <2>2. CASE UNCHANGED vars
    <3>1. ProgressInv
      BY <1>1, Parts
    <3>2. UNCHANGED page /\ UNCHANGED stream /\ UNCHANGED server
      BY <2>2 DEF vars, progressVars, server
    <3>3. ProgressInv'
      BY <3>1, <3>2, ServerStays
    <3>4. QED
      BY <1>1, <3>2, <3>3, PageStays
  <2>3. QED
    BY <1>1, <2>1, <2>2
<1>2. QED
  BY <1>1, Initially, PTL DEF Spec

(* Fields, loads, streams and previews always have the types of TypeOK.    *)
THEOREM TypeCorrect == Spec => []TypeOK
<1>1. IndInv => TypeOK
  BY DEF IndInv
<1>2. QED
  BY <1>1, Invariance, PTL

(* However the callbacks of an indexing, the registration of a stream and  *)
(* the writing of its updates fall together, a handler that has written    *)
(* everything has told the last count of its commit, unless its buffer was *)
(* full once.                                                              *)
THEOREM TheLastCountIsTold == Spec => []ToldIsCurrent
<1>1. IndInv => ToldIsCurrent
  BY LoopSaysIt DEF IndInv
<1>2. QED
  BY <1>1, Invariance, PTL

(* A link is never shown with another preview than its own; and a preview  *)
(* that came while the fields said what it is of is shown only until they  *)
(* are changed, but for a preset put to none and a repository being typed. *)
THEOREM PreviewsAreOfTheFields == Spec => []ShowsItsSelection
<1>1. IndInv => ShowsItsSelection
  <2> SUFFICES ASSUME IndInv PROVE ShowsItsSelection
    OBVIOUS
  <2>1. ShownInv /\ PageTyped
    BY Parts
  <2>2. CASE preview = None
    BY <2>2 DEF ShowsItsSelection
  <2>3. CASE preview # None
    <3>1. ~preview.late /\ fields.selection.place # preview.selection.place =>
            typed = preview.selection.place
      BY <2>1, <2>3 DEF ShownInv, IsOfFields
    <3>2. QED
      BY <2>1, <2>3, <3>1 DEF ShownInv, Linked, IsOfFields, ShowsItsSelection
  <2>4. QED
    BY <2>2, <2>3
<1>2. QED
  BY <1>1, Invariance, PTL

(* However a preview and its stream end, no listener stays behind.         *)
THEOREM NoListenerStays == Spec => []StreamsFollowPreviews
<1>1. IndInv => StreamsFollowPreviews
  BY DEF IndInv, StreamsInv, HeardInv, Heard, StreamsFollowPreviews
<1>2. QED
  BY <1>1, Invariance, PTL
=============================================================================
