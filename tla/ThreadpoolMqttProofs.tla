------------------------ MODULE ThreadpoolMqttProofs ------------------------
(***************************************************************************)
(* The threadpool never loses, duplicates or frees a task twice, for any   *)
(* number of tasks and workers.                                            *)
(*                                                                         *)
(* The streams that share an mqtt connection do not break each other: packets *)
(* stay whole, answers find who asked, and a topic stays subscribed as long *)
(* as somebody uses it, for any number of streams and topics.              *)
(***************************************************************************)
EXTENDS Threadpool, Mqtt, FiniteSetTheorems, SequenceTheorems, WellFoundedInduction, TLAPS

(* The list edits of threadpool.c, by what is on the list afterwards *)

\* Pushing a task on the head of a list it is not on (enqueue, MoveToDone).
LEMMA PushLemma ==
  ASSUME NEW line \in Seq(Tasks), NoDuplicates(line),
         NEW t \in Tasks, ~On(t, line)
  PROVE  /\ <<t>> \o line \in Seq(Tasks)
         /\ NoDuplicates(<<t>> \o line)
         /\ \A u \in Tasks : On(u, <<t>> \o line) <=> u = t \/ On(u, line)
         /\ <<t>> \o line # <<>>
<1> DEFINE l == <<t>> \o line
<1>1. /\ l \in Seq(Tasks) /\ Len(l) = Len(line) + 1
      /\ \A i \in 1..Len(l) : l[i] = IF i = 1 THEN t ELSE line[i - 1]
  BY ConcatProperties
<1>2. DOMAIN l = 1..Len(l) /\ DOMAIN line = 1..Len(line) /\ Len(line) \in Nat
  BY <1>1, LenProperties
<1>3. NoDuplicates(l)
  BY <1>1, <1>2 DEF NoDuplicates, On
<1>4. ASSUME NEW u \in Tasks PROVE On(u, l) <=> u = t \/ On(u, line)
  <2>1. u = t => On(u, l)
    BY <1>1, <1>2 DEF On
  <2>2. ASSUME NEW i \in DOMAIN line PROVE /\ i + 1 \in DOMAIN l
                                           /\ l[i + 1] = line[i]
    BY <1>1, <1>2
  <2>3. On(u, l) => u = t \/ On(u, line)
    BY <1>1, <1>2 DEF On
  <2> QED BY <2>1, <2>2, <2>3 DEF On
<1> QED BY <1>1, <1>3, <1>4

\* Removing the task at one place (reap, dequeue, the queue's tail and head).
LEMMA RemoveAtLemma ==
  ASSUME NEW line \in Seq(Tasks), NoDuplicates(line), NEW i \in DOMAIN line
  PROVE  LET l == SubSeq(line, 1, i - 1) \o SubSeq(line, i + 1, Len(line))
         IN  /\ l \in Seq(Tasks)
             /\ NoDuplicates(l)
             /\ \A u \in Tasks : On(u, l) <=> u # line[i] /\ On(u, line)
<1> DEFINE a == SubSeq(line, 1, i - 1)
           b == SubSeq(line, i + 1, Len(line))
           l == a \o b
<1>1. /\ DOMAIN line = 1..Len(line) /\ Len(line) \in Nat /\ i \in 1..Len(line)
      /\ \A j \in 1..Len(line) : line[j] \in Tasks
  BY LenProperties, ElementOfSeq
<1>2. /\ a \in Seq(Tasks) /\ Len(a) = i - 1
      /\ \A j \in 1..(i - 1) : a[j] = line[j]
  <2>1. \A j \in 1..(i - 1) : line[j] \in Tasks
    BY <1>1
  <2>2. /\ a \in Seq(Tasks) /\ Len(a) = IF 1 <= i - 1 THEN (i - 1) - 1 + 1 ELSE 0
        /\ \A j \in 1..((i - 1) - 1 + 1) : a[j] = line[1 + j - 1]
    BY <1>1, <2>1, SubSeqProperties
  <2> HIDE DEF a, b
  <2>3. Len(a) = i - 1
    BY <1>1, <2>2
  <2>4. ASSUME NEW j \in 1..(i - 1) PROVE a[j] = line[j]
    <3>1. j \in 1..((i - 1) - 1 + 1) /\ 1 + j - 1 = j
      BY <1>1
    <3> QED BY <2>2, <3>1
  <2> QED BY <2>2, <2>3, <2>4
<1>3. /\ b \in Seq(Tasks) /\ Len(b) = Len(line) - i
      /\ \A j \in 1..(Len(line) - i) : b[j] = line[i + j]
  <2>1. \A j \in (i + 1)..Len(line) : line[j] \in Tasks
    BY <1>1
  <2>2. /\ b \in Seq(Tasks)
        /\ Len(b) = IF i + 1 <= Len(line) THEN Len(line) - (i + 1) + 1 ELSE 0
        /\ \A j \in 1..(Len(line) - (i + 1) + 1) : b[j] = line[(i + 1) + j - 1]
    BY <1>1, <2>1, SubSeqProperties
  <2> HIDE DEF a, b
  <2>3. Len(b) = Len(line) - i
    BY <1>1, <2>2
  <2>4. ASSUME NEW j \in 1..(Len(line) - i) PROVE b[j] = line[i + j]
    <3>1. j \in 1..(Len(line) - (i + 1) + 1) /\ (i + 1) + j - 1 = i + j
      BY <1>1
    <3> QED BY <2>2, <3>1
  <2> QED BY <2>2, <2>3, <2>4
<1>4. /\ l \in Seq(Tasks) /\ Len(l) = Len(line) - 1
      /\ \A j \in 1..(Len(line) - 1) :
           l[j] = IF j < i THEN line[j] ELSE line[j + 1]
  <2>1. /\ l \in Seq(Tasks) /\ Len(l) = Len(a) + Len(b)
        /\ \A j \in 1..(Len(a) + Len(b)) :
             l[j] = IF j <= Len(a) THEN a[j] ELSE b[j - Len(a)]
    BY <1>2, <1>3, ConcatProperties
  <2> HIDE DEF a, b, l
  <2>2. Len(l) = Len(line) - 1
    BY <1>1, <1>2, <1>3, <2>1
  <2>3. ASSUME NEW j \in 1..(Len(line) - 1)
        PROVE  l[j] = IF j < i THEN line[j] ELSE line[j + 1]
    <3>1. j \in 1..(Len(a) + Len(b)) /\ (j <= Len(a) <=> j < i)
      BY <1>1, <1>2, <1>3
    <3>2. CASE j < i
      BY <1>1, <1>2, <2>1, <3>1, <3>2
    <3>3. CASE ~(j < i)
      <4>1. /\ j - Len(a) \in 1..(Len(line) - i)
            /\ i + (j - Len(a)) = j + 1
        BY <1>1, <1>2, <3>3
      <4> QED BY <1>3, <2>1, <3>1, <3>3, <4>1
    <3> QED BY <3>2, <3>3
  <2> QED BY <2>1, <2>2, <2>3
<1> HIDE DEF a, b, l
<1>5. DOMAIN l = 1..(Len(line) - 1)
  BY <1>4, LenProperties
<1>6. NoDuplicates(l)
  <2> SUFFICES ASSUME NEW j \in 1..(Len(line) - 1), NEW k \in 1..(Len(line) - 1),
                      l[j] = l[k]
               PROVE  j = k
    BY <1>5 DEF NoDuplicates
  <2> DEFINE at(n) == IF n < i THEN n ELSE n + 1
  <2>1. /\ at(j) \in DOMAIN line /\ at(k) \in DOMAIN line
        /\ line[at(j)] = line[at(k)]
    BY <1>1, <1>4
  <2>2. at(j) = at(k)
    BY <2>1 DEF NoDuplicates
  <2> QED BY <1>1, <2>2
<1>7. ASSUME NEW u \in Tasks PROVE On(u, l) <=> u # line[i] /\ On(u, line)
  <2>1. On(u, l) => u # line[i] /\ On(u, line)
    BY <1>1, <1>4, <1>5 DEF On, NoDuplicates
  <2>2. ASSUME NEW j \in DOMAIN line, j # i PROVE On(line[j], l)
    <3>1. CASE j < i
      BY <1>1, <1>4, <1>5, <3>1 DEF On
    <3>2. CASE j > i
      <4>1. j - 1 \in DOMAIN l /\ l[j - 1] = line[j]
        BY <1>1, <1>4, <1>5, <3>2
      <4> QED BY <4>1 DEF On
    <3> QED BY <1>1, <2>2, <3>1, <3>2
  <2> QED BY <2>1, <2>2 DEF On
<1> QED BY <1>4, <1>6, <1>7 DEF l, a, b

\* Unlinking a task that is on a list takes it, and nothing else, off it.
LEMMA UnlinkLemma ==
  ASSUME NEW line \in Seq(Tasks), NoDuplicates(line),
         NEW t \in Tasks, On(t, line)
  PROVE  /\ Unlink(line, t) \in Seq(Tasks)
         /\ NoDuplicates(Unlink(line, t))
         /\ \A u \in Tasks : On(u, Unlink(line, t)) <=> u # t /\ On(u, line)
<1> DEFINE i == CHOOSE i \in DOMAIN line : line[i] = t
<1>1. i \in DOMAIN line /\ line[i] = t
  BY DEF On
<1>2. Unlink(line, t) = SubSeq(line, 1, i - 1) \o SubSeq(line, i + 1, Len(line))
  BY DEF Unlink
<1> HIDE DEF i
<1> QED BY <1>1, <1>2, RemoveAtLemma

\* Taking the task at the tail of the queue, as the worker does.
LEMMA TakeTailLemma ==
  ASSUME NEW line \in Seq(Tasks), NoDuplicates(line), line # <<>>
  PROVE  LET l == SubSeq(line, 1, Len(line) - 1)
             t == line[Len(line)]
         IN  /\ t \in Tasks /\ On(t, line)
             /\ l \in Seq(Tasks) /\ NoDuplicates(l)
             /\ \A u \in Tasks : On(u, l) <=> u # t /\ On(u, line)
<1> DEFINE n == Len(line)
           l == SubSeq(line, 1, n - 1)
<1>1. n \in DOMAIN line /\ n \in Nat /\ line[n] \in Tasks
  BY EmptySeq, LenProperties, ElementOfSeq
<1>2. \A j \in 1..(n - 1) : line[j] \in Tasks
  BY <1>1, LenProperties, ElementOfSeq
<1>3. l \in Seq(Tasks)
  BY <1>1, <1>2, SubSeqProperties
<1>4. SubSeq(line, n + 1, n) = <<>>
  BY <1>1, SubSeqEmpty
<1>5. l = SubSeq(line, 1, n - 1) \o SubSeq(line, n + 1, n)
  BY <1>3, <1>4, ConcatEmptySeq
<1> HIDE DEF n, l
<1>6. /\ NoDuplicates(l)
      /\ \A u \in Tasks : On(u, l) <=> u # line[n] /\ On(u, line)
  BY <1>1, <1>5, RemoveAtLemma DEF n
<1> QED BY <1>1, <1>3, <1>6 DEF On, n, l

\* Taking the task at the head of the queue, as lws_threadpool_finish() does.
LEMMA TakeHeadLemma ==
  ASSUME NEW line \in Seq(Tasks), NoDuplicates(line), line # <<>>
  PROVE  /\ Head(line) \in Tasks /\ On(Head(line), line)
         /\ Tail(line) \in Seq(Tasks) /\ NoDuplicates(Tail(line))
         /\ \A u \in Tasks : On(u, Tail(line)) <=> u # Head(line) /\ On(u, line)
<1>1. /\ Len(line) \in Nat \ {0} /\ 1 \in DOMAIN line
      /\ Head(line) = line[1] /\ line[1] \in Tasks
  BY EmptySeq, LenProperties, ElementOfSeq
<1>2. Tail(line) \in Seq(Tasks) /\ Tail(line) = SubSeq(line, 2, Len(line))
  <2>1. Tail(line) \in Seq(Tasks)
    BY HeadTailProperties
  <2>2. Tail(line) = SubSeq(line, 2, Len(line))
    BY TailIsSubSeq
  <2> QED BY <2>1, <2>2
<1> DEFINE i == 1
<1>3. SubSeq(line, 1, i - 1) = <<>> /\ i + 1 = 2 /\ i \in DOMAIN line
  BY <1>1, SubSeqEmpty
<1> HIDE DEF i
<1>4. Tail(line) = SubSeq(line, 1, i - 1) \o SubSeq(line, i + 1, Len(line))
  <2>1. Tail(line) = <<>> \o Tail(line)
    BY <1>2, ConcatEmptySeq
  <2> QED BY <1>2, <1>3, <2>1
<1>5. /\ NoDuplicates(Tail(line))
      /\ \A u \in Tasks : On(u, Tail(line)) <=> u # line[i] /\ On(u, line)
  <2> DEFINE l == SubSeq(line, 1, i - 1) \o SubSeq(line, i + 1, Len(line))
  <2>1. /\ NoDuplicates(l)
        /\ \A u \in Tasks : On(u, l) <=> u # line[i] /\ On(u, line)
    BY <1>3, RemoveAtLemma
  <2> HIDE DEF l
  <2>2. Tail(line) = l
    BY <1>4 DEF l
  <2> QED BY <2>1, <2>2, Zenon
<1> QED BY <1>1, <1>2, <1>5 DEF On, i

\* Swapping the first two tasks of the done list, as FinishLoop does.
LEMMA SwapLemma ==
  ASSUME NEW line \in Seq(Tasks), NoDuplicates(line), Len(line) > 1
  PROVE  LET l == <<line[2], line[1]>> \o SubSeq(line, 3, Len(line))
         IN  /\ line[2] \in Tasks /\ On(line[2], line)
             /\ l \in Seq(Tasks) /\ NoDuplicates(l) /\ l # <<>>
             /\ \A u \in Tasks : On(u, l) <=> On(u, line)
<1> DEFINE n == Len(line)
           a == <<line[2], line[1]>>
           b == SubSeq(line, 3, n)
           l == a \o b
           at(j) == IF j = 1 THEN 2 ELSE IF j = 2 THEN 1 ELSE j
<1>1. /\ n \in Nat /\ n > 1 /\ DOMAIN line = 1..n
      /\ \A j \in 1..n : line[j] \in Tasks
  BY LenProperties, ElementOfSeq
<1>2. /\ a \in Seq(Tasks) /\ Len(a) = 2 /\ a[1] = line[2] /\ a[2] = line[1]
  BY <1>1
<1>3. /\ b \in Seq(Tasks) /\ Len(b) = n - 2
      /\ \A j \in 1..(n - 2) : b[j] = line[j + 2]
  <2>1. \A j \in 3..n : line[j] \in Tasks
    BY <1>1
  <2>2. /\ b \in Seq(Tasks) /\ Len(b) = IF 3 <= n THEN n - 3 + 1 ELSE 0
        /\ \A j \in 1..(n - 3 + 1) : b[j] = line[3 + j - 1]
    BY <1>1, <2>1, SubSeqProperties
  <2> HIDE DEF b, n
  <2>3. Len(b) = n - 2
    BY <1>1, <2>2
  <2>4. ASSUME NEW j \in 1..(n - 2) PROVE b[j] = line[j + 2]
    <3>1. j \in 1..(n - 3 + 1) /\ 3 + j - 1 = j + 2
      BY <1>1
    <3> QED BY <2>2, <3>1
  <2> QED BY <2>2, <2>3, <2>4
<1>4. /\ l \in Seq(Tasks) /\ Len(l) = n
      /\ \A j \in 1..n : l[j] = line[at(j)]
  <2>1. /\ l \in Seq(Tasks) /\ Len(l) = Len(a) + Len(b)
        /\ \A j \in 1..(Len(a) + Len(b)) :
             l[j] = IF j <= Len(a) THEN a[j] ELSE b[j - Len(a)]
    BY <1>2, <1>3, ConcatProperties
  <2> HIDE DEF a, b, l, n
  <2>2. Len(l) = n
    BY <1>1, <1>2, <1>3, <2>1
  <2>3. ASSUME NEW j \in 1..n PROVE l[j] = line[at(j)]
    <3>1. l[j] = IF j <= 2 THEN a[j] ELSE b[j - 2]
      BY <1>1, <1>2, <2>1, <2>2
    <3>2. CASE j > 2
      <4>1. j - 2 \in 1..(n - 2) /\ (j - 2) + 2 = j
        BY <1>1, <3>2
      <4> QED BY <1>3, <3>1, <3>2, <4>1
    <3>3. CASE j \in {1, 2}
      BY <1>2, <3>1, <3>3
    <3> QED BY <1>1, <3>2, <3>3
  <2> QED BY <2>1, <2>2, <2>3
<1> HIDE DEF a, b, l, n
<1>5. DOMAIN l = 1..n /\ l # <<>>
  BY <1>1, <1>4, LenProperties, EmptySeq
<1>6. \A j \in 1..n : at(j) \in 1..n /\ at(at(j)) = j
  BY <1>1
<1> HIDE DEF at
<1>7. NoDuplicates(l)
  <2> SUFFICES ASSUME NEW j \in 1..n, NEW k \in 1..n, l[j] = l[k]
               PROVE  j = k
    BY <1>5 DEF NoDuplicates
  <2>1. at(j) = at(k)
    BY <1>1, <1>4, <1>6 DEF NoDuplicates
  <2> QED BY <1>6, <2>1
<1>8. \A u \in Tasks : On(u, l) <=> On(u, line)
  BY <1>1, <1>4, <1>5, <1>6 DEF On
<1>9. line[2] \in Tasks /\ On(line[2], line)
  BY <1>1 DEF On
<1> QED BY <1>4, <1>5, <1>7, <1>8, <1>9 DEF l, a, b, n

-----------------------------------------------------------------------------
(* The inductive invariant *)

Syncing == {"sync0", "sync1", "sync2", "syncwait", "syncwoken"}

\* How the places the threads are at constrain the rest of the state: which
\* task a worker has, who holds tp->lock and what its holder left on the lists.
Links ==
  /\ \A w \in Workers :
       /\ (task[w] = NoTask) <=> (pc[w] \in {"acquire", "waiting", "exit"})
       /\ (pc[w] = "moved") <=> (lock = w)
       /\ (pc[w] = "moved") => On(task[w], done)
       /\ (pc[w] \in {"sync0", "sync1"}) => (tries[w] > 0)
       /\ (pc[w] \in Syncing) => (temp[w] # "NONE")
  /\ (lock = "svc") <=> (svc.pc = "finish")
  /\ (svc.pc = "finish") => (done # <<>> /\ destroying)
  /\ (svc.pc \in {"scantask", "scandone", "seen", "cb", "signal"})
       => (svc.task \in Tasks)
  /\ (svc.pc = "cb") => (status[svc.task] # "NONE")

IInv == TypeOK /\ Placement /\ Links

\* A step that edits no list, hands over no task and frees nothing keeps every
\* task in its place.
LEMMA PlacementUntouched ==
  ASSUME Placement,
         queue' = queue, done' = done, cleanups' = cleanups, task' = task,
         \A t \in Tasks : (status'[t] = "NONE") <=> (status[t] = "NONE"),
         \A w \in Workers : (pc'[w] = "moved") <=> (pc[w] = "moved")
  PROVE  Placement'
BY DEF Placement, NoDuplicates, On, Allocated, HeldBy

\* The task of a worker is allocated.
LEMMA HeldIsAllocated ==
  ASSUME IInv, NEW w \in Workers, task[w] # NoTask
  PROVE  /\ task[w] \in Tasks /\ Allocated(task[w])
         /\ status[task[w]] # "NONE" /\ cleanups[task[w]] = 0
<1>1. task[w] \in Tasks
  BY DEF IInv, TypeOK
<1>2. CASE pc[w] = "moved"
  BY <1>1, <1>2 DEF IInv, Links, Placement, Allocated
<1>3. CASE pc[w] # "moved"
  BY <1>1, <1>3 DEF IInv, Placement, Allocated, HeldBy
<1> QED BY <1>1, <1>2, <1>3 DEF Allocated

\* The pool as lws_threadpool_create() leaves it.
LEMMA InitIInv == Init => IInv
<1> SUFFICES ASSUME Init PROVE IInv
  OBVIOUS
<1> USE ConstantsAssumption
<1>1. TypeOK
  <2>1. svc \in [pc : SvcPC, task : Tasks \cup {NoTask}, todo : SUBSET Workers]
    BY DEF Init, Idle, SvcPC
  <2>2. /\ queue \in Seq(Tasks) /\ done \in Seq(Tasks)
        /\ queue_depth \in Int /\ destroying \in BOOLEAN
        /\ lock \in Workers \cup {"svc", "free"}
    <3>1. queue \in Seq(Tasks) /\ done \in Seq(Tasks)
      BY EmptySeq DEF Init
    <3>2. queue_depth = 0 /\ lock = "free" /\ destroying = FALSE
      BY DEF Init
    <3>3. queue_depth \in Int
      BY <3>2
    <3>4. destroying \in BOOLEAN
      BY <3>2
    <3> QED BY <3>1, <3>2, <3>3, <3>4
  <2>3. /\ status \in [Tasks -> Status] /\ wsi \in [Tasks -> BOOLEAN]
        /\ wanted_writeable_cb \in [Tasks -> BOOLEAN]
        /\ outlive \in [Tasks -> BOOLEAN]
        /\ cleanups \in [Tasks -> Nat]
    BY DEF Init, Status
  <2>4. /\ pc \in [Workers -> WorkerPC]
        /\ task \in [Workers -> Tasks \cup {NoTask}]
        /\ temp \in [Workers -> Status]
        /\ tries \in [Workers -> Nat]
    BY DEF Init, Status, WorkerPC
  <2>5. /\ pipe \in BOOLEAN /\ writable \subseteq Tasks /\ stale \in BOOLEAN
    BY DEF Init
  <2> QED BY <2>1, <2>2, <2>3, <2>4, <2>5 DEF TypeOK
<1>2. Placement
  BY DEF Init, Placement, NoDuplicates, On, Allocated, HeldBy
<1>3. Links
  BY DEF Init, Links, Idle, Syncing
<1> QED BY <1>1, <1>2, <1>3 DEF IInv

\* The steps of a worker between two visits to the lists.
LEMMA RunningStep ==
  ASSUME IInv, NEW w \in Workers,
         \/ CallTask(w) \/ TaskGoesOn(w) \/ TaskEnds(w) \/ LoopTest(w)
         \/ SyncEnter(w) \/ SyncTry(w) \/ SyncBlock(w) \/ SyncTimeout(w)
         \/ SyncResume(w)
  PROVE  IInv'
<1> USE ConstantsAssumption
<1>0. /\ TypeOK /\ Placement /\ Links
      /\ pc[w] \in {"call", "run", "loop", "sync0", "sync1", "sync2",
                    "syncwait", "syncwoken"}
      /\ task[w] \in Tasks /\ status[task[w]] # "NONE"
  <2>1. pc[w] \in {"call", "run", "loop", "sync0", "sync1", "sync2",
                    "syncwait", "syncwoken"}
    BY DEF CallTask, TaskGoesOn, TaskEnds, LoopTest, SyncEnter, SyncTry,
           SyncBlock, SyncTimeout, SyncResume
  <2>2. task[w] # NoTask
    BY <2>1 DEF IInv, Links
  <2> QED BY <2>1, <2>2, HeldIsAllocated DEF IInv
<1>1. CASE CallTask(w)
  <2>1. TypeOK'
    BY <1>0, <1>1 DEF TypeOK, CallTask, tpVars, svcVars, Status, WorkerPC
  <2>2. Placement'
    BY <1>0, <1>1, PlacementUntouched DEF TypeOK, CallTask, tpVars, svcVars
  <2>3. Links'
    BY <1>0, <1>1 DEF TypeOK, Links, CallTask, tpVars, svcVars, Syncing, On
  <2> QED BY <2>1, <2>2, <2>3 DEF IInv
<1>2. CASE TaskGoesOn(w)
  <2>1. TypeOK'
    <3>1. outlive' \in [Tasks -> BOOLEAN]
      BY <1>0, <1>2 DEF TypeOK, TaskGoesOn
    <3>2. CASE pc' = [pc EXCEPT ![w] = "loop"]
      BY <1>0, <1>2, <3>1, <3>2 DEF TypeOK, TaskGoesOn, tpVars, svcVars, WorkerPC
    <3>3. CASE pc' = [pc EXCEPT ![w] = "sync0"]
      <4>1. tries' = [tries EXCEPT ![w] = SyncTries] \/ tries' = tries
        BY <1>2 DEF TaskGoesOn
      <4>2. tries' \in [Workers -> Nat]
        <5>1. tries \in [Workers -> Nat] /\ SyncTries \in Nat
          BY <1>0 DEF TypeOK
        <5> QED BY <4>1, <5>1
      <4>3. pc' \in [Workers -> WorkerPC]
        BY <1>0, <3>3 DEF TypeOK, WorkerPC
      <4>4. temp' \in [Workers -> Status]
        <5>1. temp \in [Workers -> Status] /\ status[task[w]] \in Status
          BY <1>0 DEF TypeOK
        <5>2. temp' = [temp EXCEPT ![w] = status[task[w]]] \/ temp' = temp
          BY <1>2 DEF TaskGoesOn
        <5> QED BY <5>1, <5>2
      <4>5. UNCHANGED <<queue, done, queue_depth, destroying, lock, status,
                        wsi, wanted_writeable_cb, cleanups, task, svc, pipe,
                        writable, stale>>
        BY <1>2 DEF TaskGoesOn, tpVars, svcVars
      <4> QED BY <1>0, <3>1, <4>2, <4>3, <4>4, <4>5 DEF TypeOK
    <3> QED BY <1>2, <3>2, <3>3 DEF TaskGoesOn
  <2>2. Placement'
    BY <1>0, <1>2, PlacementUntouched DEF TypeOK, TaskGoesOn, tpVars, svcVars
  <2>3. Links'
    BY <1>0, <1>2 DEF TypeOK, Links, TaskGoesOn, tpVars, svcVars, Syncing, On
  <2> QED BY <2>1, <2>2, <2>3 DEF IInv
<1>3. CASE TaskEnds(w)
  <2>1. TypeOK'
    BY <1>0, <1>3 DEF TypeOK, TaskEnds, tpVars, svcVars, Status, Ended, WorkerPC
  <2>2. Placement'
    BY <1>0, <1>3, PlacementUntouched DEF TypeOK, TaskEnds, Ended, tpVars,
       svcVars
  <2>3. Links'
    BY <1>0, <1>3 DEF TypeOK, Links, TaskEnds, Ended, tpVars, svcVars, Syncing,
       On
  <2> QED BY <2>1, <2>2, <2>3 DEF IInv
<1>4. CASE LoopTest(w)
  <2>1. TypeOK'
    BY <1>0, <1>4 DEF TypeOK, LoopTest, tpVars, taskVars, svcVars, WorkerPC
  <2>2. Placement'
    BY <1>0, <1>4, PlacementUntouched DEF TypeOK, LoopTest, tpVars, taskVars,
       svcVars
  <2>3. Links'
    BY <1>0, <1>4 DEF TypeOK, Links, LoopTest, tpVars, taskVars, svcVars,
       Syncing, On
  <2> QED BY <2>1, <2>2, <2>3 DEF IInv
<1>5. CASE SyncEnter(w)
  <2>1. TypeOK'
    BY <1>0, <1>5 DEF TypeOK, SyncEnter, tpVars, svcVars, Status, WorkerPC
  <2>2. Placement'
    BY <1>0, <1>5, PlacementUntouched DEF TypeOK, SyncEnter, tpVars, svcVars
  <2>3. Links'
    BY <1>0, <1>5 DEF TypeOK, Links, SyncEnter, tpVars, svcVars, Syncing, On
  <2> QED BY <2>1, <2>2, <2>3 DEF IInv
<1>6. CASE SyncTry(w)
  <2>1. TypeOK'
    <3>1. CASE wsi[task[w]]
      <4>1. wanted_writeable_cb' \in [Tasks -> BOOLEAN]
        BY <1>0, <1>6, <3>1 DEF TypeOK, SyncTry
      <4>2. tries' = [tries EXCEPT ![w] = @ - 1] /\ tries[w] > 0
        BY <1>0, <1>6, <3>1 DEF Links, SyncTry
      <4>3. tries' \in [Workers -> Nat]
        BY <1>0, <4>2 DEF TypeOK
      <4> QED BY <1>0, <1>6, <3>1, <4>1, <4>3 DEF TypeOK, SyncTry, tpVars,
              WorkerPC
    <3>2. CASE ~wsi[task[w]]
      <4>1. tries' = [tries EXCEPT ![w] = 0]
        BY <1>6, <3>2 DEF SyncTry, SyncLeave
      <4>2. tries' \in [Workers -> Nat]
        BY <1>0, <4>1 DEF TypeOK
      <4> QED BY <1>0, <1>6, <3>2, <4>2 DEF TypeOK, SyncTry, SyncLeave, tpVars, Status,
         WorkerPC
    <3> QED BY <3>1, <3>2
  <2>2. Placement'
    BY <1>0, <1>6, PlacementUntouched DEF TypeOK, SyncTry, SyncLeave, tpVars
  <2>3. Links'
    BY <1>0, <1>6 DEF TypeOK, Links, SyncTry, SyncLeave, tpVars, Syncing, On
  <2> QED BY <2>1, <2>2, <2>3 DEF IInv
<1>7. CASE SyncBlock(w)
  <2>1. TypeOK'
    BY <1>0, <1>7 DEF TypeOK, SyncBlock, tpVars, taskVars, svcVars, WorkerPC
  <2>2. Placement'
    BY <1>0, <1>7, PlacementUntouched DEF TypeOK, SyncBlock, tpVars, taskVars,
       svcVars
  <2>3. Links'
    BY <1>0, <1>7 DEF TypeOK, Links, SyncBlock, tpVars, taskVars, svcVars,
       Syncing, On
  <2> QED BY <2>1, <2>2, <2>3 DEF IInv
<1>8. CASE SyncTimeout(w)
  <2>1. TypeOK'
    <3>1. CASE LastTry(w)
      <4>1. tries' = [tries EXCEPT ![w] = 0]
        BY <1>8, <3>1 DEF SyncTimeout, SyncLeave
      <4>2. tries' \in [Workers -> Nat]
        BY <1>0, <4>1 DEF TypeOK
      <4> QED BY <1>0, <1>8, <3>1, <4>2 DEF TypeOK, SyncTimeout, SyncLeave, tpVars, svcVars,
         Status, WorkerPC
    <3>2. CASE ~LastTry(w)
      BY <1>0, <1>8, <3>2 DEF TypeOK, SyncTimeout, tpVars, svcVars, WorkerPC
    <3> QED BY <3>1, <3>2
  <2>2. Placement'
    BY <1>0, <1>8, PlacementUntouched DEF TypeOK, SyncTimeout, SyncLeave,
       tpVars, svcVars
  <2>3. Links'
    BY <1>0, <1>8 DEF TypeOK, Links, SyncTimeout, SyncLeave, LastTry, tpVars,
       svcVars, Syncing, On
  <2> QED BY <2>1, <2>2, <2>3 DEF IInv
<1>9. CASE SyncResume(w)
  <2>1. TypeOK'
    BY <1>0, <1>9 DEF TypeOK, SyncResume, SyncLeave, tpVars, svcVars, Status,
       WorkerPC
  <2>2. Placement'
    BY <1>0, <1>9, PlacementUntouched DEF TypeOK, Links, Syncing, SyncResume,
       SyncLeave, tpVars, svcVars
  <2>3. Links'
    BY <1>0, <1>9 DEF TypeOK, Links, SyncResume, SyncLeave, tpVars, svcVars,
       Syncing, On
  <2> QED BY <2>1, <2>2, <2>3 DEF IInv
<1> QED BY <1>1, <1>2, <1>3, <1>4, <1>5, <1>6, <1>7, <1>8, <1>9

\* The steps of a worker that visit the lists: a task is taken from the queue,
\* put on the done list and, if it was detached, reaped.
LEMMA AcquireStep ==
  ASSUME IInv, NEW w \in Workers, Acquire(w)
  PROVE  IInv'
<1> USE ConstantsAssumption
<1>0. /\ TypeOK /\ Placement /\ Links /\ pc[w] = "acquire" /\ task[w] = NoTask
      /\ lock = "free"
  BY DEF IInv, Links, Acquire
<1>1. CASE destroying
  <2>1. TypeOK'
    BY <1>0, <1>1 DEF TypeOK, Acquire, svcVars, WorkerPC
  <2>2. Placement'
    BY <1>0, <1>1, PlacementUntouched DEF TypeOK, Acquire
  <2>3. Links'
    BY <1>0, <1>1 DEF TypeOK, Links, Acquire, svcVars, Syncing, On
  <2> QED BY <2>1, <2>2, <2>3 DEF IInv
<1>2. CASE ~destroying /\ queue = <<>>
  <2>1. TypeOK'
    BY <1>0, <1>2 DEF TypeOK, Acquire, svcVars, WorkerPC
  <2>2. Placement'
    BY <1>0, <1>2, PlacementUntouched DEF TypeOK, Acquire
  <2>3. Links'
    BY <1>0, <1>2 DEF TypeOK, Links, Acquire, svcVars, Syncing, On
  <2> QED BY <2>1, <2>2, <2>3 DEF IInv
<1>3. CASE ~destroying /\ queue # <<>>
  <2> DEFINE t == queue[Len(queue)]
             q == SubSeq(queue, 1, Len(queue) - 1)
  <2>1. /\ t \in Tasks /\ On(t, queue) /\ q \in Seq(Tasks) /\ NoDuplicates(q)
        /\ \A u \in Tasks : On(u, q) <=> u # t /\ On(u, queue)
    BY <1>0, <1>3, TakeTailLemma DEF TypeOK, Placement
  <2>2. /\ task' = [task EXCEPT ![w] = t] /\ queue' = q /\ done' = done
        /\ queue_depth' = queue_depth - 1
        /\ status' = [status EXCEPT ![t] = "RUNNING"]
        /\ wanted_writeable_cb' = [wanted_writeable_cb EXCEPT ![t] = FALSE]
        /\ pc' = [pc EXCEPT ![w] = "call"]
        /\ UNCHANGED <<done, destroying, lock, wsi, outlive, cleanups, temp,
                       tries, svcVars>>
    BY <1>3 DEF Acquire
  <2>3. Allocated(t)
    BY <1>0, <2>1 DEF Placement
  <2> HIDE DEF t, q
  <2>4. TypeOK'
    <3>1. wanted_writeable_cb' \in [Tasks -> BOOLEAN]
      BY <1>0, <2>1, <2>2 DEF TypeOK
    <3> QED BY <1>0, <2>1, <2>2, <3>1 DEF TypeOK, svcVars, Status, WorkerPC
  <2>5. Placement'
    <3>1. \A u \in Tasks : Allocated(u)' <=> Allocated(u)
      BY <1>0, <2>1, <2>2, <2>3 DEF TypeOK, Allocated
    <3>2. \A u \in Tasks, v \in Workers :
            HeldBy(u, v)' <=> HeldBy(u, v) \/ (v = w /\ u = t)
      BY <1>0, <2>1, <2>2 DEF TypeOK, HeldBy
    <3>3. \A u \in Tasks : /\ On(u, queue)' <=> u # t /\ On(u, queue)
                           /\ On(u, done)' <=> On(u, done)
      BY <2>1, <2>2
    <3>4. NoDuplicates(queue)' /\ NoDuplicates(done)'
      BY <1>0, <2>1, <2>2 DEF Placement
    <3>5. \A v \in Workers : ~HeldBy(t, v)
      BY <1>0, <2>1 DEF Placement
    <3>6. \A u \in Tasks : cleanups'[u] = cleanups[u]
      BY <2>2
    <3>7. \A u \in Tasks : (status'[u] = "NONE") => (status[u] = "NONE")
      BY <1>0, <2>2 DEF TypeOK
    <3> QED BY <1>0, <2>1, <2>3, <3>1, <3>2, <3>3, <3>4, <3>5, <3>6, <3>7
            DEF Placement
  <2>6. Links'
    BY <1>0, <2>1, <2>2 DEF TypeOK, Links, svcVars, Syncing, On
  <2> QED BY <2>4, <2>5, <2>6 DEF IInv
<1> QED BY <1>1, <1>2, <1>3

\* The worker puts its ended task on the done list.
LEMMA MoveToDoneStep ==
  ASSUME IInv, NEW w \in Workers, MoveToDone(w)
  PROVE  IInv'
<1> USE ConstantsAssumption
<1> DEFINE t == task[w]
<1>0. /\ TypeOK /\ Placement /\ Links /\ pc[w] = "finish" /\ lock = "free"
      /\ t \in Tasks /\ Allocated(t) /\ status[t] # "NONE" /\ HeldBy(t, w)
  <2>1. pc[w] = "finish" /\ task[w] # NoTask
    BY DEF IInv, Links, MoveToDone
  <2> QED BY <2>1, HeldIsAllocated DEF IInv, MoveToDone, HeldBy
<1>1. ~On(t, done) /\ ~On(t, queue)
  BY <1>0 DEF Placement
<1>2. /\ done' \in Seq(Tasks) /\ NoDuplicates(done') /\ done' # <<>>
      /\ \A u \in Tasks : On(u, done') <=> u = t \/ On(u, done)
  BY <1>0, <1>1, PushLemma DEF TypeOK, Placement, MoveToDone
<1>3. TypeOK'
  BY <1>0, <1>2 DEF TypeOK, MoveToDone, svcVars, Status, WorkerPC
<1>4. Placement'
  <2>1. \A u \in Tasks : Allocated(u)' <=> Allocated(u)
    BY <1>0 DEF TypeOK, Allocated, MoveToDone
  <2>2. \A u \in Tasks, v \in Workers : HeldBy(u, v)' <=> HeldBy(u, v) /\ v # w
    BY <1>0 DEF TypeOK, HeldBy, MoveToDone
  <2>3. /\ queue' = queue /\ NoDuplicates(queue)'
        /\ \A u \in Tasks : On(u, queue)' <=> On(u, queue)
    BY <1>0 DEF MoveToDone, Placement, On
  <2>4. \A u \in Tasks : cleanups'[u] = cleanups[u]
    BY DEF MoveToDone
  <2> HIDE DEF t
  <2>5. \A u \in Tasks, v \in Workers : HeldBy(u, v) => (v = w <=> u = t)
    BY <1>0 DEF Placement, HeldBy, t
  <2>6. \A u \in Tasks : (status'[u] = "NONE") => (status[u] = "NONE")
    BY <1>0 DEF TypeOK, MoveToDone
  <2> QED BY <1>0, <1>1, <1>2, <2>1, <2>2, <2>3, <2>4, <2>5, <2>6 DEF Placement
<1>5. Links'
  BY <1>0, <1>2 DEF TypeOK, Links, MoveToDone, svcVars, Syncing
<1> QED BY <1>3, <1>4, <1>5 DEF IInv

\* The worker reaps its task or leaves it to the service thread.
LEMMA LeaveTaskStep ==
  ASSUME IInv, NEW w \in Workers, LeaveTask(w)
  PROVE  IInv'
<1> USE ConstantsAssumption
<1> DEFINE t == task[w]
<1>0. /\ TypeOK /\ Placement /\ Links /\ pc[w] = "moved" /\ lock = w
      /\ t \in Tasks /\ Allocated(t) /\ On(t, done)
      /\ lock' = "free" /\ pc' = [pc EXCEPT ![w] = "acquire"]
      /\ task' = [task EXCEPT ![w] = NoTask]
      /\ \A v \in Workers : pc[v] = "moved" => v = w
  <2>1. /\ pc[w] = "moved" /\ task[w] # NoTask /\ lock = w /\ On(t, done)
        /\ \A v \in Workers : pc[v] = "moved" => v = w
    BY DEF IInv, Links, LeaveTask
  <2> QED BY <2>1, HeldIsAllocated DEF IInv, LeaveTask
<1>1. \A u \in Tasks, v \in Workers : HeldBy(u, v)' <=> HeldBy(u, v)
  BY <1>0 DEF TypeOK, HeldBy
<1>2. /\ queue' = queue /\ NoDuplicates(queue)'
      /\ \A u \in Tasks : On(u, queue)' <=> On(u, queue)
  BY <1>0 DEF LeaveTask, Placement, On
<1>3. CASE SelfReaps(t)
  <2>1. /\ done' \in Seq(Tasks) /\ NoDuplicates(done')
        /\ \A u \in Tasks : On(u, done') <=> u # t /\ On(u, done)
    BY <1>0, <1>3, UnlinkLemma DEF TypeOK, Placement, LeaveTask
  <2>2. /\ cleanups' = [cleanups EXCEPT ![t] = @ + 1] /\ status' = status
        /\ cleanups[t] = 0
    BY <1>0, <1>3 DEF LeaveTask, Allocated
  <2>3. TypeOK'
    BY <1>0, <1>3, <2>1, <2>2 DEF TypeOK, LeaveTask, WorkerPC
  <2>4. Placement'
    <3> HIDE DEF t
    <3>1. \A u \in Tasks : Allocated(u)' <=> Allocated(u) /\ u # t
      BY <1>0, <2>2 DEF TypeOK, Allocated
    <3>2. \A u \in Tasks : /\ cleanups'[u] \in {0, 1}
                           /\ (status'[u] = "NONE") => (cleanups'[u] = 0)
      BY <1>0, <2>2 DEF TypeOK, Placement, Allocated
    <3> QED BY <1>0, <1>1, <1>2, <2>1, <3>1, <3>2 DEF Placement
  <2>5. Links'
    BY <1>0, <1>3, <2>1 DEF TypeOK, Links, LeaveTask, Syncing
  <2> QED BY <2>3, <2>4, <2>5 DEF IInv
<1>4. CASE ~SelfReaps(t)
  <2>1. done' = done /\ cleanups' = cleanups /\ status' = status
    BY <1>4 DEF LeaveTask
  <2>2. TypeOK'
    <3>1. wanted_writeable_cb' \in [Tasks -> BOOLEAN]
      BY <1>0, <1>4 DEF TypeOK, LeaveTask
    <3>2. pipe' \in BOOLEAN
      BY <1>0, <1>4 DEF TypeOK, LeaveTask
    <3> QED BY <1>0, <2>1, <3>1, <3>2 DEF TypeOK, LeaveTask, WorkerPC
  <2>3. Placement'
    <3>1. \A u \in Tasks : Allocated(u)' <=> Allocated(u)
      BY <2>1 DEF Allocated
    <3>2. NoDuplicates(done)' /\ \A u \in Tasks : On(u, done)' <=> On(u, done)
      BY <1>0, <2>1 DEF Placement
    <3> QED BY <1>0, <1>1, <1>2, <2>1, <3>1, <3>2 DEF Placement
  <2>4. Links'
    BY <1>0, <2>1 DEF TypeOK, Links, LeaveTask, Syncing, On
  <2> QED BY <2>2, <2>3, <2>4 DEF IInv
<1> QED BY <1>3, <1>4

\* A new task is put on the queue.
LEMMA EnqueueStep ==
  ASSUME IInv, NEW t \in Tasks, lws_threadpool_enqueue(t)
  PROVE  IInv'
<1> USE ConstantsAssumption
<1>0. TypeOK /\ Placement /\ Links /\ ~Allocated(t) /\ status[t] = "NONE"
  BY DEF IInv, lws_threadpool_enqueue, Allocated
<1>1. ~On(t, queue) /\ ~On(t, done) /\ \A w \in Workers : ~HeldBy(t, w)
  BY <1>0 DEF Placement
<1>2. /\ queue' \in Seq(Tasks) /\ NoDuplicates(queue')
      /\ \A u \in Tasks : On(u, queue') <=> u = t \/ On(u, queue)
  BY <1>0, <1>1, PushLemma DEF TypeOK, Placement, lws_threadpool_enqueue
<1>3. /\ pc' \in [Workers -> WorkerPC]
      /\ \A w \in Workers : \/ pc'[w] = pc[w]
                            \/ pc[w] = "waiting" /\ pc'[w] = "acquire"
  <2>1. CASE \A w \in Workers : pc[w] # "waiting"
    <3>1. pc' = pc
      BY <2>1 DEF lws_threadpool_enqueue, SignalIdle
    <3> QED BY <1>0, <3>1 DEF TypeOK
  <2>2. CASE ~\A w \in Workers : pc[w] # "waiting"
    <3>1. PICK w \in Workers : /\ pc[w] = "waiting"
                               /\ pc' = [pc EXCEPT ![w] = "acquire"]
      BY <2>2 DEF lws_threadpool_enqueue, SignalIdle
    <3>2. pc' \in [Workers -> WorkerPC]
      BY <1>0, <3>1 DEF TypeOK, WorkerPC
    <3>3. \A v \in Workers : pc'[v] = IF v = w THEN "acquire" ELSE pc[v]
      BY <1>0, <3>1 DEF TypeOK
    <3> QED BY <3>1, <3>2, <3>3
  <2> QED BY <2>1, <2>2
<1>4. TypeOK'
  <2>1. wsi' \in [Tasks -> BOOLEAN]
    BY <1>0 DEF TypeOK, lws_threadpool_enqueue
  <2> QED BY <1>0, <1>2, <1>3, <2>1 DEF TypeOK, lws_threadpool_enqueue, svcVars,
          Status
<1>5. Placement'
  <2>1. cleanups[t] = 0 /\ cleanups' = cleanups /\ done' = done /\ task' = task
    BY <1>0 DEF Placement, lws_threadpool_enqueue
  <2>2. \A u \in Tasks : Allocated(u)' <=> Allocated(u) \/ u = t
    BY <1>0, <2>1 DEF TypeOK, Allocated, lws_threadpool_enqueue
  <2>3. \A u \in Tasks, w \in Workers : HeldBy(u, w)' <=> HeldBy(u, w)
    BY <1>3, <2>1 DEF HeldBy
  <2>4. NoDuplicates(done)' /\ \A u \in Tasks : On(u, done)' <=> On(u, done)
    BY <1>0, <2>1 DEF Placement
  <2>5. \A u \in Tasks : (status'[u] = "NONE") => (status[u] = "NONE")
    BY <1>0 DEF TypeOK, lws_threadpool_enqueue
  <2> QED BY <1>0, <1>1, <1>2, <2>1, <2>2, <2>3, <2>4, <2>5 DEF Placement
<1>6. Links'
  BY <1>0, <1>3 DEF TypeOK, Links, lws_threadpool_enqueue, svcVars, Syncing, On
<1> QED BY <1>4, <1>5, <1>6 DEF IInv

\* A step of the service thread that frees t keeps every other task in its
\* place: t was on exactly one of the lists and is taken off it.
LEMMA FreeStep ==
  ASSUME TypeOK, Placement, NEW t \in Tasks, Allocated(t),
         ~\E w \in Workers : HeldBy(t, w),
         NoDuplicates(queue'), NoDuplicates(done'),
         \A u \in Tasks : On(u, queue') <=> u # t /\ On(u, queue),
         \A u \in Tasks : On(u, done') <=> u # t /\ On(u, done),
         \A u \in Tasks : (status'[u] = "NONE") <=> (status[u] = "NONE"),
         cleanups' = [cleanups EXCEPT ![t] = @ + 1],
         task' = task, pc' = pc
  PROVE  Placement'
<1>1. \A u \in Tasks, w \in Workers : HeldBy(u, w)' <=> HeldBy(u, w)
  BY DEF HeldBy
<1>2. \A u \in Tasks : Allocated(u)' <=> u # t /\ Allocated(u)
  BY DEF TypeOK, Allocated
<1>3. \A u \in Tasks : /\ cleanups'[u] \in {0, 1}
                       /\ (status'[u] = "NONE") => (cleanups'[u] = 0)
  BY DEF TypeOK, Placement, Allocated
<1> QED BY <1>1, <1>2, <1>3 DEF Placement

\* While no worker is ending a task, a task on a list is in nobody's hands.
LEMMA ListedIsFree ==
  ASSUME IInv, lock = "free", NEW t \in Tasks, On(t, queue) \/ On(t, done)
  PROVE  /\ Allocated(t) /\ cleanups[t] = 0 /\ status[t] # "NONE"
         /\ ~\E w \in Workers : HeldBy(t, w)
         /\ \A w \in Workers : pc[w] # "moved"
<1>1. \A w \in Workers : pc[w] # "moved"
  BY ConstantsAssumption DEF IInv, Links
<1> QED BY <1>1 DEF IInv, Placement, Allocated

\* The four ways in which lws_threadpool_dequeue_task() can find a task.
LEMMA DequeueStep ==
  ASSUME IInv, NEW t \in Tasks, lws_threadpool_dequeue_task(t)
  PROVE  IInv'
<1> USE ConstantsAssumption
<1>0. /\ TypeOK /\ Placement /\ Links /\ lock = "free" /\ svc = Idle
      /\ \A w \in Workers : pc[w] # "moved"
  BY DEF IInv, Links, lws_threadpool_dequeue_task
<1>1. /\ wsi' \in [Tasks -> BOOLEAN] /\ writable' \subseteq Tasks
      /\ UNCHANGED <<destroying, lock, wanted_writeable_cb, outlive, poolVars,
                     svc, pipe, stale>>
  BY <1>0 DEF TypeOK, lws_threadpool_dequeue_task
<1>2. CASE DequeueOutlive(t)
  <2>1. TypeOK'
    BY <1>0, <1>1, <1>2 DEF TypeOK, DequeueOutlive, poolVars
  <2>2. Placement'
    BY <1>0, <1>1, <1>2, PlacementUntouched DEF DequeueOutlive, poolVars
  <2>3. Links'
    BY <1>0, <1>1, <1>2 DEF Links, DequeueOutlive, poolVars, On
  <2> QED BY <2>1, <2>2, <2>3 DEF IInv
<1>3. CASE DequeueQueued(t)
  <2>0. On(t, queue) /\ Allocated(t) /\ ~\E w \in Workers : HeldBy(t, w)
    BY <1>0, <1>3, ListedIsFree DEF DequeueQueued
  <2>1. /\ queue' \in Seq(Tasks) /\ NoDuplicates(queue')
        /\ \A u \in Tasks : On(u, queue') <=> u # t /\ On(u, queue)
    BY <1>0, <1>3, <2>0, UnlinkLemma DEF TypeOK, Placement, DequeueQueued
  <2>2. TypeOK'
    BY <1>0, <1>1, <1>3, <2>1 DEF TypeOK, DequeueQueued, poolVars, Status
  <2>3. Placement'
    <3>1. /\ done' = done /\ NoDuplicates(done') /\ ~On(t, done)
          /\ task' = task /\ pc' = pc
          /\ cleanups' = [cleanups EXCEPT ![t] = @ + 1]
      BY <1>0, <1>1, <1>3, <2>0 DEF Placement, DequeueQueued, poolVars
    <3>2. \A u \in Tasks : (status'[u] = "NONE") <=> (status[u] = "NONE")
      BY <1>0, <1>3, <2>0 DEF TypeOK, DequeueQueued, Allocated
    <3>3. \A u \in Tasks : On(u, done') <=> u # t /\ On(u, done)
      BY <3>1
    <3> QED BY <1>0, <2>0, <2>1, <3>1, <3>2, <3>3, FreeStep
  <2>4. Links'
    BY <1>0, <1>1, <1>3 DEF Links, DequeueQueued, poolVars, On
  <2> QED BY <2>2, <2>3, <2>4 DEF IInv
<1>4. CASE DequeueDone(t)
  <2>0. On(t, done) /\ Allocated(t) /\ ~\E w \in Workers : HeldBy(t, w)
    BY <1>0, <1>4, ListedIsFree DEF DequeueDone
  <2>1. /\ done' \in Seq(Tasks) /\ NoDuplicates(done')
        /\ \A u \in Tasks : On(u, done') <=> u # t /\ On(u, done)
    BY <1>0, <1>4, <2>0, UnlinkLemma DEF TypeOK, Placement, DequeueDone
  <2>2. TypeOK'
    BY <1>0, <1>1, <1>4, <2>1 DEF TypeOK, DequeueDone, poolVars
  <2>3. Placement'
    <3>1. /\ queue' = queue /\ NoDuplicates(queue') /\ ~On(t, queue)
          /\ task' = task /\ pc' = pc /\ status' = status
          /\ cleanups' = [cleanups EXCEPT ![t] = @ + 1]
      BY <1>0, <1>1, <1>4, <2>0 DEF Placement, DequeueDone, poolVars
    <3>2. \A u \in Tasks : On(u, queue') <=> u # t /\ On(u, queue)
      BY <3>1
    <3> QED BY <1>0, <2>0, <2>1, <3>1, <3>2, FreeStep
  <2>4. Links'
    BY <1>0, <1>1 DEF Links, Idle, poolVars
  <2> QED BY <2>2, <2>3, <2>4 DEF IInv
<1>5. CASE DequeueRunning(t)
  <2>1. \A u \in Tasks : (status'[u] = "NONE") <=> (status[u] = "NONE")
    <3>1. CASE \E w \in Workers : task[w] = t
      <4>1. status[t] # "NONE"
        BY <3>1, HeldIsAllocated
      <4> QED BY <1>0, <1>5, <4>1 DEF TypeOK, DequeueRunning
    <3>2. CASE ~\E w \in Workers : task[w] = t
      BY <1>5, <3>2 DEF DequeueRunning
    <3> QED BY <3>1, <3>2
  <2>2. TypeOK'
    <3>1. status' \in [Tasks -> Status]
      BY <1>0, <1>5 DEF TypeOK, DequeueRunning, Status
    <3> QED BY <1>0, <1>1, <1>5, <3>1 DEF TypeOK, DequeueRunning, poolVars
  <2>3. Placement'
    BY <1>0, <1>1, <1>5, <2>1, PlacementUntouched DEF DequeueRunning, poolVars
  <2>4. Links'
    BY <1>0, <1>1, <1>5 DEF Links, DequeueRunning, poolVars, On
  <2> QED BY <2>2, <2>3, <2>4 DEF IInv
<1> QED BY <1>2, <1>3, <1>4, <1>5 DEF lws_threadpool_dequeue_task

\* The walk of lws_threadpool_tsi_context() only sets flags.
LEMMA ScanStep ==
  ASSUME IInv, Scan
  PROVE  IInv'
<1> USE ConstantsAssumption
<1>0. TypeOK /\ Placement /\ Links
  BY DEF IInv
<1>1. /\ UNCHANGED <<queue, done, queue_depth, destroying, lock, status, wsi,
                     outlive, cleanups, pc, task, temp, tries>>
  BY DEF Scan, ScanStart, ScanPool, ScanPoolTask, ScanDoneHead, ScanDoneTask,
         tpVars, taskVars, poolVars
<1>2. /\ svc' \in [pc : SvcPC, task : Tasks \cup {NoTask}, todo : SUBSET Workers]
      /\ svc.pc # "finish" /\ svc'.pc # "finish"
      /\ (svc'.pc \in {"scantask", "scandone", "seen", "cb", "signal"})
           => (svc'.task \in Tasks)
      /\ svc'.pc # "cb"
  <2>1. CASE ScanStart
    BY <1>0, <2>1 DEF TypeOK, ScanStart, Idle, SvcPC
  <2>2. CASE ScanPool
    <3>1. PICK w \in svc.todo :
            svc' = [svc EXCEPT !.todo = @ \ {w}, !.task = task[w],
                               !.pc = IF task[w] = NoTask THEN "scan"
                                                          ELSE "scantask"]
      BY <2>2 DEF ScanPool
    <3>2. task[w] \in Tasks \cup {NoTask}
      BY <1>0 DEF TypeOK
    <3> QED BY <1>0, <2>2, <3>1, <3>2 DEF TypeOK, ScanPool, SvcPC
  <2>3. CASE ScanPoolTask
    BY <1>0, <2>3 DEF TypeOK, ScanPoolTask, SvcPC
  <2>4. CASE ScanDoneHead
    <3>1. done # <<>> => done[1] \in Tasks
      BY <1>0, EmptySeq, ElementOfSeq, LenProperties DEF TypeOK
    <3> QED BY <1>0, <2>4, <3>1 DEF TypeOK, ScanDoneHead, SvcPC, Idle
  <2>5. CASE ScanDoneTask
    <3> DEFINE next == {i \in DOMAIN done : i > 1 /\ done[i - 1] = svc.task}
               n == CHOOSE i \in next : TRUE
    <3>1. svc' = IF next = {} THEN Idle ELSE [svc EXCEPT !.task = done[n]]
      BY <2>5 DEF ScanDoneTask
    <3>2. next # {} => n \in DOMAIN done
      OBVIOUS
    <3> HIDE DEF next, n
    <3>3. next # {} => done[n] \in Tasks
      BY <1>0, <3>2, ElementOfSeq, LenProperties DEF TypeOK
    <3>4. svc.pc = "scandone"
      BY <2>5 DEF ScanDoneTask
    <3>5. CASE next = {}
      BY <3>1, <3>4, <3>5 DEF SvcPC, Idle
    <3>6. CASE next # {}
      <4>1. svc' = [svc EXCEPT !.task = done[n]]
        BY <3>1, <3>6
      <4> QED BY <1>0, <3>3, <3>4, <3>6, <4>1 DEF TypeOK, SvcPC
    <3> QED BY <3>5, <3>6
  <2> QED BY <2>1, <2>2, <2>3, <2>4, <2>5 DEF Scan
<1>3. /\ wanted_writeable_cb' \in [Tasks -> BOOLEAN]
      /\ pipe' \in BOOLEAN /\ writable' \subseteq Tasks /\ stale' \in BOOLEAN
  <2>1. CASE ScanStart \/ ScanPool \/ ScanDoneHead
    BY <1>0, <2>1 DEF TypeOK, ScanStart, ScanPool, ScanDoneHead, taskVars
  <2>2. CASE ScanPoolTask \/ ScanDoneTask
    <3>1. svc.task \in Tasks /\ AskWritable(svc.task) /\ pipe' = pipe
      BY <1>0, <2>2 DEF Links, ScanPoolTask, ScanDoneTask
    <3>2. wanted_writeable_cb' \in [Tasks -> BOOLEAN]
      BY <1>0, <3>1 DEF TypeOK, AskWritable
    <3>3. writable' \subseteq Tasks
      BY <1>0, <3>1 DEF TypeOK, AskWritable
    <3>4. stale' \in BOOLEAN
      BY <1>0, <3>1 DEF TypeOK, AskWritable
    <3> QED BY <1>0, <3>1, <3>2, <3>3, <3>4 DEF TypeOK
  <2> QED BY <2>1, <2>2 DEF Scan
<1>4. TypeOK'
  BY <1>0, <1>1, <1>2, <1>3 DEF TypeOK
<1>5. Placement'
  BY <1>0, <1>1, PlacementUntouched
<1>6. Links'
  BY <1>0, <1>1, <1>2 DEF Links, On
<1> QED BY <1>4, <1>5, <1>6 DEF IInv

\* The WRITEABLE callback: look at the status, sync, signal the worker.
LEMMA CallbackStep ==
  ASSUME IInv,
         \/ \E t \in Tasks : lws_threadpool_task_status(t)
         \/ \E stop \in BOOLEAN : lws_threadpool_task_sync(stop)
         \/ SignalTask
  PROVE  IInv'
<1> USE ConstantsAssumption
<1>0. TypeOK /\ Placement /\ Links
  BY DEF IInv
<1>1. ASSUME NEW t \in Tasks, lws_threadpool_task_status(t) PROVE IInv'
  <2>0. /\ UNCHANGED <<tpVars, lock, taskVars, poolVars, pipe, stale>>
        /\ writable' \subseteq Tasks
    BY <1>0, <1>1 DEF TypeOK, lws_threadpool_task_status
  <2>1. /\ svc' \in [pc : SvcPC, task : Tasks \cup {NoTask},
                     todo : SUBSET Workers]
        /\ svc.pc # "finish" /\ svc'.pc # "finish"
        /\ (svc'.pc \in {"scantask", "scandone", "seen", "cb", "signal"})
             => (svc'.task \in Tasks)
        /\ (svc'.pc = "cb") => (status[svc'.task] # "NONE")
    BY <1>1 DEF lws_threadpool_task_status, Idle, SvcPC
  <2>2. TypeOK'
    BY <1>0, <2>0, <2>1 DEF TypeOK, tpVars, taskVars, poolVars
  <2>3. Placement'
    BY <1>0, <2>0, PlacementUntouched DEF tpVars, taskVars, poolVars
  <2>4. Links'
    BY <1>0, <2>0, <2>1 DEF Links, tpVars, taskVars, poolVars, On
  <2> QED BY <2>2, <2>3, <2>4 DEF IInv
<1>2. ASSUME NEW stop \in BOOLEAN, lws_threadpool_task_sync(stop) PROVE IInv'
  <2>0. /\ svc.task \in Tasks /\ svc.pc = "cb"
        /\ svc' = [svc EXCEPT !.pc = "signal"]
        /\ status' = IF stop THEN [status EXCEPT ![svc.task] = "STOPPING"]
                             ELSE status
        /\ UNCHANGED <<tpVars, lock, wsi, wanted_writeable_cb, outlive,
                       cleanups, poolVars, pipe, writable, stale>>
    BY <1>0, <1>2 DEF Links, lws_threadpool_task_sync
  <2>1. \A u \in Tasks : (status'[u] = "NONE") <=> (status[u] = "NONE")
    BY <1>0, <2>0 DEF TypeOK, Links
  <2>2. status' \in [Tasks -> Status]
    BY <1>0, <2>0 DEF TypeOK, Status
  <2>3. /\ svc' \in [pc : SvcPC, task : Tasks \cup {NoTask},
                     todo : SUBSET Workers]
        /\ svc'.pc = "signal" /\ svc'.task = svc.task
    BY <1>0, <2>0 DEF TypeOK, SvcPC
  <2>4. TypeOK'
    BY <1>0, <2>0, <2>2, <2>3 DEF TypeOK, tpVars, poolVars
  <2>5. Placement'
    BY <1>0, <2>0, <2>1, PlacementUntouched DEF tpVars, poolVars
  <2>6. Links'
    BY <1>0, <2>0, <2>3 DEF Links, tpVars, poolVars, On
  <2> QED BY <2>4, <2>5, <2>6 DEF IInv
<1>3. CASE SignalTask
  <2>0. /\ UNCHANGED <<tpVars, lock, taskVars, task, temp, tries, pipe,
                       writable, stale>>
        /\ svc' = Idle /\ svc.pc = "signal"
        /\ pc' = [w \in Workers |->
                    IF pc[w] = "syncwait" /\ task[w] = svc.task
                      THEN "syncwoken" ELSE pc[w]]
    BY <1>3 DEF SignalTask
  <2>1. /\ pc' \in [Workers -> WorkerPC]
        /\ \A w \in Workers : \/ pc'[w] = pc[w]
                              \/ pc[w] = "syncwait" /\ pc'[w] = "syncwoken"
    BY <1>0, <2>0 DEF TypeOK, WorkerPC
  <2>2. svc' \in [pc : SvcPC, task : Tasks \cup {NoTask}, todo : SUBSET Workers]
    BY <2>0 DEF Idle, SvcPC
  <2>3. TypeOK'
    BY <1>0, <2>0, <2>1, <2>2 DEF TypeOK, tpVars, taskVars
  <2>4. Placement'
    BY <1>0, <2>0, <2>1, PlacementUntouched DEF tpVars, taskVars
  <2>5. Links'
    BY <1>0, <2>0, <2>1 DEF Links, tpVars, taskVars, Syncing, On, Idle
  <2> QED BY <2>3, <2>4, <2>5 DEF IInv
<1> QED BY <1>1, <1>2, <1>3

\* The service thread reaps a task that has ended.
LEMMA ReapStep ==
  ASSUME IInv, __lws_threadpool_reap
  PROVE  IInv'
<1> USE ConstantsAssumption
<1> DEFINE t == svc.task
<1>0. /\ TypeOK /\ Placement /\ Links /\ lock = "free" /\ t \in Tasks
      /\ svc.pc = "seen" /\ svc' = Idle
      /\ UNCHANGED <<queue, queue_depth, destroying, lock, status, wsi,
                     wanted_writeable_cb, outlive, poolVars, pipe,
                     writable, stale>>
  BY DEF IInv, Links, __lws_threadpool_reap
<1>1. svc' \in [pc : SvcPC, task : Tasks \cup {NoTask}, todo : SUBSET Workers]
  BY <1>0 DEF Idle, SvcPC
<1>2. CASE On(t, done)
  <2>0. Allocated(t) /\ ~\E w \in Workers : HeldBy(t, w)
    BY <1>0, <1>2, ListedIsFree
  <2>1. /\ done' = Unlink(done, t)
        /\ cleanups' = [cleanups EXCEPT ![t] = @ + 1]
    BY <1>2 DEF __lws_threadpool_reap
  <2>2. /\ done' \in Seq(Tasks) /\ NoDuplicates(done')
        /\ \A u \in Tasks : On(u, done') <=> u # t /\ On(u, done)
    BY <1>0, <1>2, <2>1, UnlinkLemma DEF TypeOK, Placement
  <2> HIDE DEF t
  <2>3. TypeOK'
    BY <1>0, <1>1, <2>1, <2>2 DEF TypeOK, poolVars
  <2>4. Placement'
    <3>1. /\ queue' = queue /\ NoDuplicates(queue') /\ ~On(t, queue)
          /\ task' = task /\ pc' = pc /\ status' = status
      BY <1>0, <1>2 DEF Placement, poolVars
    <3>2. \A u \in Tasks : On(u, queue') <=> u # t /\ On(u, queue)
      BY <3>1
    <3> QED BY <1>0, <2>0, <2>1, <2>2, <3>1, <3>2, FreeStep
  <2>5. Links'
    BY <1>0 DEF Links, Idle, poolVars
  <2> QED BY <2>3, <2>4, <2>5 DEF IInv
<1>3. CASE ~On(t, done)
  <2>1. UNCHANGED <<done, cleanups>>
    BY <1>3 DEF __lws_threadpool_reap
  <2>2. TypeOK'
    BY <1>0, <1>1, <2>1 DEF TypeOK, poolVars
  <2>3. Placement'
    BY <1>0, <2>1, PlacementUntouched DEF poolVars
  <2>4. Links'
    BY <1>0, <2>1 DEF Links, Idle, poolVars
  <2> QED BY <2>2, <2>3, <2>4 DEF IInv
<1> QED BY <1>2, <1>3

\* Waking every idle worker moves no task.
LEMMA BroadcastLemma ==
  ASSUME TypeOK, Broadcast
  PROVE  /\ pc' \in [Workers -> WorkerPC]
         /\ \A w \in Workers : \/ pc'[w] = pc[w]
                               \/ pc[w] = "waiting" /\ pc'[w] = "acquire"
BY DEF TypeOK, Broadcast, WorkerPC

\* lws_threadpool_finish() moves the newest queued task to the done list ...
LEMMA FinishStep ==
  ASSUME IInv, lws_threadpool_finish
  PROVE  IInv'
<1> USE ConstantsAssumption
<1>0. /\ TypeOK /\ Placement /\ Links /\ lock = "free" /\ svc = Idle
      /\ destroying' = TRUE
      /\ UNCHANGED <<wsi, wanted_writeable_cb, outlive, cleanups, task, temp,
                     tries, pipe, writable, stale>>
      /\ \A w \in Workers : pc[w] # "moved"
  BY DEF IInv, Links, lws_threadpool_finish
<1>1. destroying' \in BOOLEAN
  BY <1>0
<1>2. CASE queue = <<>>
  <2>1. Broadcast /\ UNCHANGED <<queue, done, queue_depth, status, lock, svc>>
    BY <1>2 DEF lws_threadpool_finish
  <2>2. /\ pc' \in [Workers -> WorkerPC]
        /\ \A w \in Workers : \/ pc'[w] = pc[w]
                              \/ pc[w] = "waiting" /\ pc'[w] = "acquire"
    BY <1>0, <2>1, BroadcastLemma
  <2>3. TypeOK'
    BY <1>0, <1>1, <2>1, <2>2 DEF TypeOK
  <2>4. Placement'
    BY <1>0, <2>1, <2>2, PlacementUntouched
  <2>5. Links'
    BY <1>0, <2>1, <2>2 DEF Links, Idle, Syncing, On
  <2> QED BY <2>3, <2>4, <2>5 DEF IInv
<1>3. CASE queue # <<>>
  <2> DEFINE t == Head(queue)
  <2>1. /\ queue' = Tail(queue) /\ done' = <<t>> \o done
        /\ status' = [status EXCEPT ![t] = "STOPPED"]
        /\ queue_depth' = queue_depth - 1 /\ lock' = "svc"
        /\ svc' = [Idle EXCEPT !.pc = "finish"] /\ pc' = pc
    BY <1>3 DEF lws_threadpool_finish
  <2>2. /\ t \in Tasks /\ On(t, queue)
        /\ queue' \in Seq(Tasks) /\ NoDuplicates(queue')
        /\ \A u \in Tasks : On(u, queue') <=> u # t /\ On(u, queue)
    BY <1>0, <1>3, <2>1, TakeHeadLemma DEF TypeOK, Placement
  <2>3. /\ ~On(t, done) /\ Allocated(t) /\ status[t] # "NONE"
        /\ \A w \in Workers : ~HeldBy(t, w)
    BY <1>0, <2>2 DEF Placement, Allocated
  <2>4. /\ done' \in Seq(Tasks) /\ NoDuplicates(done') /\ done' # <<>>
        /\ \A u \in Tasks : On(u, done') <=> u = t \/ On(u, done)
    BY <1>0, <2>1, <2>2, <2>3, PushLemma DEF TypeOK, Placement
  <2> HIDE DEF t
  <2>5. /\ svc' \in [pc : SvcPC, task : Tasks \cup {NoTask},
                     todo : SUBSET Workers]
        /\ svc'.pc = "finish" /\ svc.pc = "idle"
    BY <1>0, <2>1 DEF Idle, SvcPC
  <2>6. TypeOK'
    <3>1. status' \in [Tasks -> Status]
      BY <1>0, <2>1, <2>2 DEF TypeOK, Status
    <3>2. queue_depth' \in Int /\ lock' \in Workers \cup {"svc", "free"}
      BY <1>0, <2>1 DEF TypeOK
    <3>3. pc' = pc
      BY <2>1
    <3> QED BY <1>0, <1>1, <2>2, <2>4, <2>5, <3>1, <3>2, <3>3 DEF TypeOK
  <2>7. Placement'
    <3>1. \A u \in Tasks : (status'[u] = "NONE") <=> (status[u] = "NONE")
      BY <1>0, <2>1, <2>2, <2>3 DEF TypeOK
    <3>2. \A u \in Tasks : Allocated(u)' <=> Allocated(u)
      BY <1>0, <3>1 DEF Allocated
    <3>3. \A u \in Tasks, w \in Workers : HeldBy(u, w)' <=> HeldBy(u, w)
      BY <1>0, <2>1 DEF HeldBy
    <3>4. \A u \in Tasks : cleanups'[u] = cleanups[u]
      BY <1>0
    <3> QED BY <1>0, <2>2, <2>3, <2>4, <3>1, <3>2, <3>3, <3>4 DEF Placement
  <2>8. Links'
    BY <1>0, <2>1, <2>4, <2>5 DEF Links, Syncing
  <2> QED BY <2>6, <2>7, <2>8 DEF IInv
<1> QED BY <1>2, <1>3

\* ... and its loop only changes the order of the done list.
LEMMA FinishLoopStep ==
  ASSUME IInv, FinishLoop
  PROVE  IInv'
<1> USE ConstantsAssumption
<1>0. /\ TypeOK /\ Placement /\ Links /\ svc.pc = "finish" /\ lock = "svc"
      /\ UNCHANGED <<queue, destroying, wsi, wanted_writeable_cb, outlive,
                     cleanups, task, temp, tries, pipe, writable, stale>>
      /\ \A w \in Workers : pc[w] # "moved"
  BY DEF IInv, Links, FinishLoop
<1>1. CASE Len(done) = 1
  <2>1. /\ lock' = "free" /\ svc' = Idle /\ Broadcast
        /\ UNCHANGED <<done, status, queue_depth>>
    BY <1>1 DEF FinishLoop
  <2>2. /\ pc' \in [Workers -> WorkerPC]
        /\ \A w \in Workers : \/ pc'[w] = pc[w]
                              \/ pc[w] = "waiting" /\ pc'[w] = "acquire"
    BY <1>0, <2>1, BroadcastLemma
  <2>3. svc' \in [pc : SvcPC, task : Tasks \cup {NoTask}, todo : SUBSET Workers]
    BY <2>1 DEF Idle, SvcPC
  <2>4. TypeOK'
    BY <1>0, <2>1, <2>2, <2>3 DEF TypeOK
  <2>5. Placement'
    BY <1>0, <2>1, <2>2, PlacementUntouched
  <2>6. Links'
    BY <1>0, <2>1, <2>2 DEF Links, Idle, Syncing, On
  <2> QED BY <2>4, <2>5, <2>6 DEF IInv
<1>2. CASE Len(done) > 1
  <2>1. /\ done' = <<done[2], done[1]>> \o SubSeq(done, 3, Len(done))
        /\ status' = [status EXCEPT ![done[2]] = "STOPPED"]
        /\ queue_depth' \in {queue_depth - 1, queue_depth}
        /\ UNCHANGED <<lock, svc, pc>>
    BY <1>2 DEF FinishLoop
  <2>2. /\ done[2] \in Tasks /\ On(done[2], done)
        /\ done' \in Seq(Tasks) /\ NoDuplicates(done') /\ done' # <<>>
        /\ \A u \in Tasks : On(u, done') <=> On(u, done)
    BY <1>0, <1>2, <2>1, SwapLemma DEF TypeOK, Placement
  <2>3. status[done[2]] # "NONE"
    BY <1>0, <2>2 DEF Placement, Allocated
  <2>4. \A u \in Tasks : (status'[u] = "NONE") <=> (status[u] = "NONE")
    BY <1>0, <2>1, <2>2, <2>3 DEF TypeOK
  <2>5. TypeOK'
    <3>1. status' \in [Tasks -> Status]
      BY <1>0, <2>1, <2>2 DEF TypeOK, Status
    <3>2. queue_depth' \in Int
      BY <1>0, <2>1 DEF TypeOK
    <3> QED BY <1>0, <2>1, <2>2, <3>1, <3>2 DEF TypeOK
  <2>6. Placement'
    <3>2. \A u \in Tasks : Allocated(u)' <=> Allocated(u)
      BY <1>0, <2>4 DEF Allocated
    <3>3. \A u \in Tasks, w \in Workers : HeldBy(u, w)' <=> HeldBy(u, w)
      BY <1>0, <2>1 DEF HeldBy
    <3>4. \A u \in Tasks : /\ cleanups'[u] = cleanups[u]
                           /\ On(u, queue') <=> On(u, queue)
      BY <1>0
    <3>5. NoDuplicates(queue')
      BY <1>0 DEF Placement
    <3> QED BY <1>0, <2>2, <2>4, <3>2, <3>3, <3>4, <3>5 DEF Placement
  <2>7. Links'
    BY <1>0, <2>1, <2>2 DEF Links, Syncing
  <2> QED BY <2>5, <2>6, <2>7 DEF IInv
<1> QED BY <1>1, <1>2 DEF FinishLoop

\* lws_threadpool_destroy() wakes the workers and frees what is left once they
\* have gone.
LEMMA DestroyStep ==
  ASSUME IInv, lws_threadpool_destroy \/ Joined
  PROVE  IInv'
<1> USE ConstantsAssumption
<1>0. /\ TypeOK /\ Placement /\ Links
      /\ svc' \in [pc : SvcPC, task : Tasks \cup {NoTask},
                   todo : SUBSET Workers]
      /\ svc'.pc \in {"joining", "gone"} /\ svc.pc \in {"idle", "joining"}
  BY DEF IInv, lws_threadpool_destroy, Joined, Idle, SvcPC
<1>1. CASE lws_threadpool_destroy
  <2>1. /\ Broadcast
        /\ UNCHANGED <<tpVars, lock, taskVars, task, temp, tries, pipe,
                       writable, stale>>
    BY <1>1 DEF lws_threadpool_destroy
  <2>2. /\ pc' \in [Workers -> WorkerPC]
        /\ \A w \in Workers : \/ pc'[w] = pc[w]
                              \/ pc[w] = "waiting" /\ pc'[w] = "acquire"
    BY <1>0, <2>1, BroadcastLemma
  <2>3. TypeOK'
    BY <1>0, <2>1, <2>2 DEF TypeOK, tpVars, taskVars
  <2>4. Placement'
    BY <1>0, <2>1, <2>2, PlacementUntouched DEF tpVars, taskVars
  <2>5. Links'
    BY <1>0, <2>1, <2>2 DEF Links, Syncing, On, tpVars, taskVars
  <2> QED BY <2>3, <2>4, <2>5 DEF IInv
<1>2. CASE Joined
  <2>1. /\ \A w \in Workers : pc[w] = "exit" /\ task[w] = NoTask
        /\ cleanups' = [t \in Tasks |-> IF On(t, done) THEN cleanups[t] + 1
                                                       ELSE cleanups[t]]
        /\ done' = <<>>
        /\ UNCHANGED <<queue, queue_depth, destroying, lock, status, wsi,
                       wanted_writeable_cb, outlive, poolVars, pipe, writable,
                       stale>>
    BY <1>0, <1>2 DEF Joined, Links
  <2>2. /\ done' \in Seq(Tasks) /\ NoDuplicates(done')
        /\ \A u \in Tasks : ~On(u, done')
    BY <2>1, EmptySeq DEF NoDuplicates, On
  <2>3. cleanups' \in [Tasks -> Nat]
    BY <1>0, <2>1 DEF TypeOK
  <2>4. TypeOK'
    BY <1>0, <2>1, <2>2, <2>3 DEF TypeOK, poolVars
  <2>5. Placement'
    <3>1. \A u \in Tasks, w \in Workers : ~HeldBy(u, w) /\ ~HeldBy(u, w)'
      BY <2>1 DEF HeldBy, poolVars
    <3>2. \A u \in Tasks : On(u, done) => Allocated(u) /\ ~On(u, queue)
      BY <1>0 DEF Placement
    <3>3. \A u \in Tasks : /\ cleanups'[u] \in {0, 1}
                           /\ (status'[u] = "NONE") => (cleanups'[u] = 0)
      BY <1>0, <2>1, <3>2 DEF TypeOK, Placement, Allocated
    <3>4. \A u \in Tasks : Allocated(u)' <=> Allocated(u) /\ ~On(u, done)
      BY <1>0, <2>1, <3>2 DEF TypeOK, Allocated
    <3>5. /\ NoDuplicates(queue')
          /\ \A u \in Tasks : On(u, queue') <=> On(u, queue)
      BY <1>0, <2>1 DEF Placement
    <3> QED BY <1>0, <2>2, <3>1, <3>2, <3>3, <3>4, <3>5 DEF Placement
  <2>6. Links'
    BY <1>0, <2>1 DEF Links, Syncing, poolVars
  <2> QED BY <2>4, <2>5, <2>6 DEF IInv
<1> QED BY <1>1, <1>2

\* Every step of a worker, of the service thread's calls and of the teardown
\* keeps the invariant.
LEMMA NextIInv == IInv /\ [Next]_vars => IInv'
<1> SUFFICES ASSUME IInv, [Next]_vars PROVE IInv'
  OBVIOUS
<1>1. ASSUME NEW w \in Workers, Worker(w) PROVE IInv'
  BY <1>1, RunningStep, AcquireStep, MoveToDoneStep, LeaveTaskStep DEF Worker
<1>2. ASSUME NEW t \in Tasks, lws_threadpool_enqueue(t) PROVE IInv'
  BY <1>2, EnqueueStep
<1>3. ASSUME NEW t \in Tasks, lws_threadpool_dequeue_task(t) PROVE IInv'
  BY <1>3, DequeueStep
<1>4. ASSUME NEW t \in Tasks, lws_threadpool_task_status(t) PROVE IInv'
  BY <1>4, CallbackStep
<1>5. ASSUME NEW stop \in BOOLEAN, lws_threadpool_task_sync(stop) PROVE IInv'
  BY <1>5, CallbackStep
<1>6. CASE SignalTask
  BY <1>6, CallbackStep
<1>7. CASE UNCHANGED vars
  BY <1>7 DEF vars, tpVars, taskVars, poolVars, svcVars, IInv, TypeOK,
     Placement, Links, NoDuplicates, On, Allocated, HeldBy
<1> QED BY <1>1, <1>2, <1>3, <1>4, <1>5, <1>6, <1>7, ScanStep, ReapStep,
        FinishStep, FinishLoopStep, DestroyStep DEF Next, Gone

\* The three parts of the invariant hold together in every reachable state.
THEOREM Invariance == Spec => []IInv
<1>1. Init => IInv
  BY InitIInv
<1>2. IInv /\ [Next]_vars => IInv'
  BY NextIInv
<1> QED BY <1>1, <1>2, PTL DEF Spec

\* Type correctness of the lists, the tasks and the threads.
THEOREM TypeCorrect == Spec => []TypeOK
<1>1. IInv => TypeOK
  BY DEF IInv
<1> QED BY <1>1, Invariance, PTL

\* For any number of tasks and workers, no task of the pool is lost, is in two
\* places or is cleaned up twice, whatever the order in which the workers, the
\* service thread, finish and destroy edit the lists.
THEOREM PlacementHolds == Spec => []Placement
<1>1. IInv => Placement
  BY DEF IInv
<1> QED BY <1>1, Invariance, PTL

-----------------------------------------------------------------------------
(* The counter that decides whether lws_threadpool_enqueue() refuses a task *)

\* How the three edits of the queue change its length.
LEMMA LengthLemma ==
  ASSUME NEW line \in Seq(Tasks)
  PROVE  /\ Len(line) \in Nat
         /\ \A t \in Tasks : Len(<<t>> \o line) = Len(line) + 1
         /\ line # <<>> => Len(SubSeq(line, 1, Len(line) - 1)) = Len(line) - 1
         /\ \A t \in Tasks :
              On(t, line) => Len(Unlink(line, t)) = Len(line) - 1
<1>1. Len(line) \in Nat /\ DOMAIN line = 1..Len(line)
  BY LenProperties
<1>2. \A j \in 1..Len(line) : line[j] \in Tasks
  BY ElementOfSeq
<1>3. ASSUME NEW t \in Tasks PROVE Len(<<t>> \o line) = Len(line) + 1
  BY ConcatProperties
<1>4. ASSUME NEW m \in 1..(Len(line) + 1), NEW n \in 0..Len(line), m <= n + 1
      PROVE  /\ SubSeq(line, m, n) \in Seq(Tasks)
             /\ Len(SubSeq(line, m, n)) = n - m + 1
  <2>1. \A j \in m..n : line[j] \in Tasks
    BY <1>1, <1>2
  <2>2. /\ SubSeq(line, m, n) \in Seq(Tasks)
        /\ Len(SubSeq(line, m, n)) = IF m <= n THEN n - m + 1 ELSE 0
    BY <1>1, <2>1, SubSeqProperties
  <2> QED BY <1>1, <1>4, <2>2
<1>5. line # <<>> => Len(SubSeq(line, 1, Len(line) - 1)) = Len(line) - 1
  <2> SUFFICES ASSUME line # <<>>
               PROVE  Len(SubSeq(line, 1, Len(line) - 1)) = Len(line) - 1
    OBVIOUS
  <2>1. Len(line) > 0
    BY <1>1, EmptySeq
  <2>2. /\ 1 \in 1..(Len(line) + 1) /\ Len(line) - 1 \in 0..Len(line)
        /\ 1 <= Len(line) - 1 + 1
    BY <1>1, <2>1
  <2>3. Len(SubSeq(line, 1, Len(line) - 1)) = Len(line) - 1 - 1 + 1
    BY <1>4, <2>2
  <2> QED BY <1>1, <2>3
<1>6. ASSUME NEW t \in Tasks, On(t, line)
      PROVE  Len(Unlink(line, t)) = Len(line) - 1
  <2> DEFINE i == CHOOSE i \in DOMAIN line : line[i] = t
             a == SubSeq(line, 1, i - 1)
             b == SubSeq(line, i + 1, Len(line))
  <2>1. i \in DOMAIN line /\ Unlink(line, t) = a \o b
    BY <1>6 DEF On, Unlink
  <2> HIDE DEF i
  <2>2. /\ i - 1 \in 0..Len(line) /\ 1 <= i - 1 + 1 /\ 1 \in 1..(Len(line) + 1)
        /\ i + 1 \in 1..(Len(line) + 1) /\ i + 1 <= Len(line) + 1
        /\ Len(line) \in 0..Len(line)
    BY <1>1, <2>1
  <2>3. a \in Seq(Tasks) /\ Len(a) = i - 1 - 1 + 1
    BY <1>4, <2>2
  <2>4. b \in Seq(Tasks) /\ Len(b) = Len(line) - (i + 1) + 1
    BY <1>4, <2>2
  <2> HIDE DEF a, b
  <2>5. Len(a \o b) = Len(a) + Len(b)
    BY <2>3, <2>4, ConcatProperties
  <2> QED BY <1>1, <2>1, <2>3, <2>4, <2>5
<1> QED BY <1>1, <1>3, <1>5, <1>6

\* Every step keeps queue_depth and the queue in step while the pool is in use.
LEMMA DepthStep ==
  ASSUME IInv, QueueDepthExact, [Next]_vars
  PROVE  QueueDepthExact'
<1> USE ConstantsAssumption
<1>0. queue \in Seq(Tasks) /\ queue_depth \in Int /\ Len(queue) \in Nat
  BY LengthLemma DEF IInv, TypeOK
<1>1. CASE UNCHANGED <<queue, queue_depth, destroying>>
  BY <1>1 DEF QueueDepthExact
<1>2. CASE destroying'
  BY <1>2 DEF QueueDepthExact
<1>3. ASSUME NEW w \in Workers, Acquire(w), ~destroying, queue # <<>>
      PROVE  QueueDepthExact'
  <2>1. /\ queue' = SubSeq(queue, 1, Len(queue) - 1)
        /\ queue_depth' = queue_depth - 1 /\ destroying' = destroying
    BY <1>3 DEF Acquire
  <2>2. Len(queue') = Len(queue) - 1
    BY <1>0, <1>3, <2>1, LengthLemma
  <2> QED BY <1>0, <1>3, <2>1, <2>2 DEF QueueDepthExact
<1>4. ASSUME NEW t \in Tasks, lws_threadpool_enqueue(t) PROVE QueueDepthExact'
  <2>1. /\ queue' = <<t>> \o queue /\ queue_depth' = queue_depth + 1
        /\ queue_depth # MaxQueueDepth /\ ~destroying
    BY <1>4 DEF lws_threadpool_enqueue
  <2>2. Len(queue') = Len(queue) + 1
    BY <1>0, <2>1, LengthLemma
  <2> QED BY <1>0, <2>1, <2>2 DEF QueueDepthExact
<1>5. ASSUME NEW t \in Tasks, lws_threadpool_dequeue_task(t)
      PROVE  QueueDepthExact'
  <2>1. CASE DequeueQueued(t)
    <3>1. /\ queue' = Unlink(queue, t) /\ queue_depth' = queue_depth - 1
          /\ On(t, queue) /\ destroying' = destroying
      BY <1>5, <2>1 DEF DequeueQueued, lws_threadpool_dequeue_task
    <3>2. Len(queue') = Len(queue) - 1
      BY <1>0, <3>1, LengthLemma
    <3> QED BY <1>0, <3>1, <3>2 DEF QueueDepthExact
  <2>2. CASE DequeueOutlive(t) \/ DequeueDone(t) \/ DequeueRunning(t)
    BY <1>1, <1>5, <2>2 DEF lws_threadpool_dequeue_task, DequeueOutlive,
       DequeueDone, DequeueRunning
  <2> QED BY <1>5, <2>1, <2>2 DEF lws_threadpool_dequeue_task
<1>6. ASSUME NEW w \in Workers, Worker(w) PROVE QueueDepthExact'
  <2>1. CASE Acquire(w)
    BY <1>1, <1>2, <1>3, <2>1 DEF Acquire
  <2>2. CASE ~Acquire(w)
    BY <1>1, <1>6, <2>2 DEF Worker, CallTask, TaskGoesOn, TaskEnds, LoopTest,
       SyncEnter, SyncTry, SyncBlock, SyncTimeout, SyncResume, MoveToDone,
       LeaveTask, tpVars
  <2> QED BY <2>1, <2>2
<1>7. ASSUME NEW t \in Tasks, lws_threadpool_task_status(t)
      PROVE  QueueDepthExact'
  BY <1>1, <1>7 DEF lws_threadpool_task_status, tpVars
<1>8. CASE Scan \/ __lws_threadpool_reap \/ SignalTask \/ Gone
           \/ lws_threadpool_destroy \/ Joined
  BY <1>1, <1>8 DEF Scan, ScanStart, ScanPool, ScanPoolTask, ScanDoneHead,
     ScanDoneTask, __lws_threadpool_reap, SignalTask, Gone, vars,
     lws_threadpool_destroy, Joined, tpVars
<1>9. ASSUME NEW stop \in BOOLEAN, lws_threadpool_task_sync(stop)
      PROVE  QueueDepthExact'
  BY <1>1, <1>9 DEF lws_threadpool_task_sync, tpVars
<1>10. CASE lws_threadpool_finish
  BY <1>2, <1>10 DEF lws_threadpool_finish
<1>11. CASE FinishLoop
  BY <1>2, <1>11 DEF FinishLoop, IInv, Links
<1>12. CASE UNCHANGED vars
  BY <1>1, <1>12 DEF vars, tpVars
<1> QED BY <1>4, <1>5, <1>6, <1>7, <1>8, <1>9, <1>10, <1>11, <1>12 DEF Next

\* queue_depth is the length of the queue and stays within max_queue_depth
\* until lws_threadpool_finish() is called.
THEOREM DepthHolds == Spec => []QueueDepthExact
<1>1. Init => QueueDepthExact
  BY ConstantsAssumption, EmptySeq DEF Init, QueueDepthExact
<1>2. IInv /\ QueueDepthExact /\ [Next]_vars => QueueDepthExact'
  BY DepthStep
<1> QED BY <1>1, <1>2, Invariance, PTL DEF Spec

-----------------------------------------------------------------------------
(* Sequences *)

\* A set of naturals has a least element.
LEMMA LeastNatural ==
  ASSUME NEW T, T \subseteq Nat, T # {}
  PROVE  \E x \in T : \A y \in T : x <= y
<1> DEFINE R == OpToRel(<, Nat)
<1>1. IsWellFoundedOn(R, Nat)
  BY NatLessThanWellFounded
<1>2. \A x, y \in Nat : y < x => <<y, x>> \in R
  BY DEF OpToRel
<1> HIDE DEF R
<1>3. PICK x \in T : \A y \in T : ~(<<y, x>> \in R)
  BY <1>1, WFMin
<1>4. \A y \in T : x \in Nat /\ y \in Nat /\ ~(y < x)
  BY <1>2, <1>3
<1>5. \A y \in T : x <= y
  BY <1>4
<1> QED BY <1>5

\* Something new is put at the head of a sequence.
LEMMA AtHead ==
  ASSUME NEW S, NEW seq \in Seq(S), NoDuplicates(seq), NEW x \in S, x \notin ToSet(seq)
  PROVE  /\ <<x>> \o seq \in Seq(S)
         /\ NoDuplicates(<<x>> \o seq)
         /\ ToSet(<<x>> \o seq) = ToSet(seq) \cup {x}
<1> DEFINE l == <<x>> \o seq
<1>1. /\ l \in Seq(S) /\ Len(l) = Len(seq) + 1
      /\ \A k \in 1..Len(l) : l[k] = IF k = 1 THEN x ELSE seq[k - 1]
  BY ConcatProperties
<1>2. DOMAIN l = 1..Len(l) /\ DOMAIN seq = 1..Len(seq) /\ Len(seq) \in Nat
  BY <1>1, LenProperties
<1>3. \A k \in DOMAIN l : k = 1 \/ (k - 1 \in DOMAIN seq /\ l[k] = seq[k - 1])
  BY <1>1, <1>2
<1>4. \A k \in DOMAIN seq : k + 1 \in DOMAIN l /\ l[k + 1] = seq[k]
  BY <1>1, <1>2
<1>5. 1 \in DOMAIN l /\ l[1] = x
  BY <1>1, <1>2
<1> HIDE DEF l
<1>6. NoDuplicates(l)
  <2> SUFFICES ASSUME NEW i \in DOMAIN l, NEW j \in DOMAIN l, l[i] = l[j] PROVE i = j
    BY DEF NoDuplicates
  <2>1. CASE i = 1
    BY <1>3, <1>5, <2>1 DEF ToSet
  <2>2. CASE j = 1
    BY <1>3, <1>5, <2>2 DEF ToSet
  <2>3. CASE i # 1 /\ j # 1
    <3>1. i - 1 = j - 1
      BY <1>3, <2>3 DEF NoDuplicates
    <3> QED BY <1>2, <3>1
  <2> QED BY <2>1, <2>2, <2>3
<1>7. ToSet(l) = ToSet(seq) \cup {x}
  BY <1>3, <1>4, <1>5 DEF ToSet
<1> QED BY <1>1, <1>6, <1>7 DEF l

\* What RemoveAt leaves.
LEMMA RemovedAt ==
  ASSUME NEW S, NEW seq \in Seq(S), NEW i \in DOMAIN seq
  PROVE  /\ RemoveAt(seq, i) \in Seq(S)
         /\ Len(seq) \in Nat /\ DOMAIN seq = 1..Len(seq)
         /\ DOMAIN RemoveAt(seq, i) = 1..(Len(seq) - 1)
         /\ \A j \in 1..(Len(seq) - 1) :
              RemoveAt(seq, i)[j] = IF j < i THEN seq[j] ELSE seq[j + 1]
<1> DEFINE a == SubSeq(seq, 1, i - 1)
           b == SubSeq(seq, i + 1, Len(seq))
           l == a \o b
           n == Len(seq)
<1>1. /\ DOMAIN seq = 1..n /\ n \in Nat /\ i \in 1..n
      /\ \A j \in 1..n : seq[j] \in S
  BY LenProperties, ElementOfSeq
<1>2. /\ a \in Seq(S) /\ Len(a) = IF 1 <= i - 1 THEN (i - 1) - 1 + 1 ELSE 0
      /\ \A j \in 1..((i - 1) - 1 + 1) : a[j] = seq[1 + j - 1]
  BY <1>1, SubSeqProperties
<1>3. /\ b \in Seq(S) /\ Len(b) = IF i + 1 <= n THEN n - (i + 1) + 1 ELSE 0
      /\ \A j \in 1..(n - (i + 1) + 1) : b[j] = seq[(i + 1) + j - 1]
  BY <1>1, SubSeqProperties
<1>4. /\ l \in Seq(S) /\ Len(l) = Len(a) + Len(b)
      /\ \A j \in 1..(Len(a) + Len(b)) :
           l[j] = IF j <= Len(a) THEN a[j] ELSE b[j - Len(a)]
  BY <1>2, <1>3, ConcatProperties
<1> HIDE DEF a, b, l, n
<1>5. Len(a) = i - 1 /\ Len(b) = n - i
  BY <1>1, <1>2, <1>3
<1>6. ASSUME NEW j \in 1..(n - 1)
      PROVE  l[j] = IF j < i THEN seq[j] ELSE seq[j + 1]
  <2>1. CASE j < i
    <3>1. j \in 1..((i - 1) - 1 + 1) /\ 1 + j - 1 = j
      BY <1>1, <2>1
    <3>2. j \in 1..(Len(a) + Len(b)) /\ j <= Len(a)
      BY <1>1, <1>5, <2>1
    <3> QED BY <1>2, <1>4, <2>1, <3>1, <3>2
  <2>2. CASE ~(j < i)
    <3>1. /\ j - Len(a) \in 1..(n - (i + 1) + 1)
          /\ (i + 1) + (j - Len(a)) - 1 = j + 1
      <4>1. j - (i - 1) \in 1..(n - (i + 1) + 1) /\ (i + 1) + (j - (i - 1)) - 1 = j + 1
        BY <1>1, <2>2
      <4> QED BY <1>5, <4>1
    <3>2. j \in 1..(Len(a) + Len(b)) /\ ~(j <= Len(a))
      BY <1>1, <1>5, <2>2
    <3> QED BY <1>3, <1>4, <2>2, <3>1, <3>2
  <2> QED BY <2>1, <2>2
<1>7. DOMAIN l = 1..(n - 1)
  BY <1>1, <1>4, <1>5, LenProperties
<1> QED BY <1>1, <1>4, <1>6, <1>7 DEF RemoveAt, l, a, b, n

\* What is at one place of a sequence is taken off it.
LEMMA TakenOff ==
  ASSUME NEW S, NEW seq \in Seq(S), NoDuplicates(seq), NEW i \in DOMAIN seq
  PROVE  /\ RemoveAt(seq, i) \in Seq(S)
         /\ NoDuplicates(RemoveAt(seq, i))
         /\ ToSet(RemoveAt(seq, i)) = ToSet(seq) \ {seq[i]}
<1> DEFINE l == RemoveAt(seq, i)
           n == Len(seq)
<1>1. /\ DOMAIN seq = 1..n /\ n \in Nat /\ i \in 1..n /\ l \in Seq(S)
  BY RemovedAt
<1>6. ASSUME NEW j \in 1..(n - 1)
      PROVE  l[j] = IF j < i THEN seq[j] ELSE seq[j + 1]
  BY RemovedAt
<1>7. DOMAIN l = 1..(n - 1)
  BY RemovedAt
<1> HIDE DEF l, n
<1> DEFINE At(j) == IF j < i THEN j ELSE j + 1
<1>8. ASSUME NEW j \in 1..(n - 1)
      PROVE  At(j) \in DOMAIN seq /\ At(j) # i /\ l[j] = seq[At(j)]
  BY <1>1, <1>6
<1>9. ASSUME NEW j \in 1..(n - 1), NEW k \in 1..(n - 1), At(j) = At(k) PROVE j = k
  BY <1>1, <1>9
<1>10. ASSUME NEW m \in DOMAIN seq, m # i PROVE \E j \in 1..(n - 1) : At(j) = m
  <2>1. CASE m < i
    BY <1>1, <2>1
  <2>2. CASE m > i
    <3>1. m - 1 \in 1..(n - 1) /\ ~(m - 1 < i) /\ m - 1 + 1 = m
      BY <1>1, <2>2
    <3> QED BY <3>1
  <2> QED BY <1>1, <1>10, <2>1, <2>2
<1> HIDE DEF At
<1>11. NoDuplicates(l)
  <2> SUFFICES ASSUME NEW j \in 1..(n - 1), NEW k \in 1..(n - 1), l[j] = l[k]
               PROVE  j = k
    BY <1>7 DEF NoDuplicates
  <2>1. At(j) = At(k)
    BY <1>8 DEF NoDuplicates
  <2> QED BY <1>9, <2>1
<1>12. ToSet(l) = ToSet(seq) \ {seq[i]}
  <2>1. ASSUME NEW y \in ToSet(l) PROVE y \in ToSet(seq) /\ y # seq[i]
    <3>1. PICK j \in 1..(n - 1) : y = l[j]
      BY <1>7 DEF ToSet
    <3> QED BY <1>8, <3>1 DEF ToSet, NoDuplicates
  <2>2. ASSUME NEW y \in ToSet(seq), y # seq[i] PROVE y \in ToSet(l)
    <3>1. PICK m \in DOMAIN seq : y = seq[m]
      BY DEF ToSet
    <3>2. PICK j \in 1..(n - 1) : At(j) = m
      BY <1>10, <2>2, <3>1
    <3> QED BY <1>7, <1>8, <3>1, <3>2 DEF ToSet
  <2> QED BY <2>1, <2>2
<1> QED BY <1>1, <1>11, <1>12 DEF l

\* Something new is put at the end of a sequence.
LEMMA AtTail ==
  ASSUME NEW S, NEW seq \in Seq(S), NoDuplicates(seq), NEW x \in S, x \notin ToSet(seq)
  PROVE  /\ Append(seq, x) \in Seq(S)
         /\ NoDuplicates(Append(seq, x))
         /\ ToSet(Append(seq, x)) = ToSet(seq) \cup {x}
<1> DEFINE l == Append(seq, x)
           n == Len(seq)
<1>1. /\ l \in Seq(S) /\ Len(l) = n + 1
      /\ \A k \in 1..n : l[k] = seq[k]
      /\ l[n + 1] = x
  BY AppendProperties
<1>2. DOMAIN l = 1..(n + 1) /\ DOMAIN seq = 1..n /\ n \in Nat
  BY <1>1, LenProperties
<1> HIDE DEF l, n
<1>3. \A k \in DOMAIN l : k = n + 1 \/ (k \in DOMAIN seq /\ l[k] = seq[k])
  BY <1>1, <1>2
<1>4. \A k \in DOMAIN seq : k \in DOMAIN l /\ l[k] = seq[k]
  BY <1>1, <1>2
<1>5. n + 1 \in DOMAIN l /\ l[n + 1] = x
  BY <1>1, <1>2
<1>6. NoDuplicates(l)
  BY <1>3, <1>5 DEF NoDuplicates, ToSet
<1>7. ToSet(l) = ToSet(seq) \cup {x}
  BY <1>3, <1>4, <1>5 DEF ToSet
<1> QED BY <1>1, <1>6, <1>7 DEF l

\* A sequence is turned round.
LEMMA TurnedRound ==
  ASSUME NEW S, NEW seq \in Seq(S), NoDuplicates(seq)
  PROVE  /\ Reverse(seq) \in Seq(S)
         /\ NoDuplicates(Reverse(seq))
         /\ ToSet(Reverse(seq)) = ToSet(seq)
<1> DEFINE l == Reverse(seq)
           n == Len(seq)
<1>1. DOMAIN seq = 1..n /\ n \in Nat /\ \A k \in 1..n : seq[k] \in S
  BY LenProperties, ElementOfSeq
<1>2. DOMAIN l = 1..n /\ \A k \in 1..n : l[k] = seq[(n - k) + 1]
  BY DEF Reverse
<1>3. \A k \in 1..n : (n - k) + 1 \in 1..n /\ (n - ((n - k) + 1)) + 1 = k
  BY <1>1
<1>4. l \in Seq(S)
  <2>1. l = [k \in 1..n |-> seq[(n - k) + 1]]
    BY DEF Reverse
  <2>2. \A k \in 1..n : seq[(n - k) + 1] \in S
    BY <1>1, <1>3
  <2> QED BY <1>1, <2>1, <2>2
<1> HIDE DEF l, n
<1>5. NoDuplicates(l)
  <2> SUFFICES ASSUME NEW i \in 1..n, NEW j \in 1..n, l[i] = l[j] PROVE i = j
    BY <1>2 DEF NoDuplicates
  <2>1. (n - i) + 1 = (n - j) + 1
    BY <1>1, <1>2, <1>3 DEF NoDuplicates
  <2> QED BY <1>1, <2>1
<1>6. ToSet(l) = ToSet(seq)
  <2>1. ASSUME NEW k \in 1..n PROVE seq[k] \in ToSet(l)
    <3> DEFINE m == (n - k) + 1
    <3>1. m \in 1..n /\ l[m] = seq[(n - m) + 1] /\ (n - m) + 1 = k
      BY <1>2, <1>3
    <3> QED BY <1>2, <3>1 DEF ToSet
  <2>2. ASSUME NEW k \in 1..n PROVE l[k] \in ToSet(seq)
    BY <1>1, <1>2, <1>3 DEF ToSet
  <2> QED BY <1>1, <1>2, <2>1, <2>2 DEF ToSet
<1> QED BY <1>4, <1>5, <1>6 DEF l

LEMMA ReverseType ==
  ASSUME NEW S, NEW seq \in Seq(S)
  PROVE  Reverse(seq) \in Seq(S)
<1>1. DOMAIN seq = 1..Len(seq) /\ Len(seq) \in Nat /\ \A k \in 1..Len(seq) : seq[k] \in S
  BY LenProperties, ElementOfSeq
<1>2. \A k \in 1..Len(seq) : (Len(seq) - k) + 1 \in 1..Len(seq)
  BY <1>1
<1>3. \A k \in 1..Len(seq) : seq[(Len(seq) - k) + 1] \in S
  BY <1>1, <1>2
<1> QED BY <1>1, <1>3 DEF Reverse

\* lws_wsi_mux_move_child_to_tail()
LEMMA MovedToTail ==
  ASSUME list \in Seq(Children), NoDuplicates(list), NEW i \in DOMAIN list
  PROVE  LET l == lws_wsi_mux_move_child_to_tail(i)
         IN  /\ l \in Seq(Children) /\ NoDuplicates(l)
             /\ ToSet(l) = ToSet(list)
<1>1. list[i] \in Children /\ list[i] \in ToSet(list)
  BY ElementOfSeq, LenProperties DEF ToSet
<1>2. /\ RemoveAt(list, i) \in Seq(Children) /\ NoDuplicates(RemoveAt(list, i))
      /\ ToSet(RemoveAt(list, i)) = ToSet(list) \ {list[i]}
  BY TakenOff
<1> DEFINE r == RemoveAt(list, i)
           x == list[i]
<1>3. lws_wsi_mux_move_child_to_tail(i) = Append(r, x)
  BY DEF lws_wsi_mux_move_child_to_tail
<1> HIDE DEF r, x
<1>4. /\ Append(r, x) \in Seq(Children) /\ NoDuplicates(Append(r, x))
      /\ ToSet(Append(r, x)) = ToSet(r) \cup {x}
  BY <1>1, <1>2, AtTail DEF r, x
<1> QED BY <1>1, <1>2, <1>3, <1>4 DEF r, x

\* The child is taken off the list.
LEMMA OffTheList ==
  ASSUME NEW l \in Seq(Children), NoDuplicates(l), NEW c \in ToSet(l)
  PROVE  LET r == RemoveAt(l, CHOOSE i \in DOMAIN l : l[i] = c)
         IN  r \in Seq(Children) /\ NoDuplicates(r) /\ ToSet(r) = ToSet(l) \ {c}
<1> DEFINE at == CHOOSE i \in DOMAIN l : l[i] = c
<1>1. \E i \in DOMAIN l : l[i] = c
  BY DEF ToSet
<1>2. at \in DOMAIN l /\ l[at] = c
  BY <1>1
<1> HIDE DEF at
<1>3. /\ RemoveAt(l, at) \in Seq(Children) /\ NoDuplicates(RemoveAt(l, at))
      /\ ToSet(RemoveAt(l, at)) = ToSet(l) \ {l[at]}
  BY <1>2, TakenOff
<1> QED BY <1>2, <1>3 DEF at

\* Something is taken off the head.
LEMMA HeadRead ==
  ASSUME NEW S, NEW seq \in Seq(S), seq # <<>>
  PROVE  /\ Tail(seq) \in Seq(S) /\ Len(seq) \in Nat \ {0}
         /\ Len(Tail(seq)) = Len(seq) - 1
         /\ DOMAIN Tail(seq) = 1..(Len(seq) - 1) /\ DOMAIN seq = 1..Len(seq)
         /\ \A k \in 1..(Len(seq) - 1) : k + 1 \in DOMAIN seq /\ Tail(seq)[k] = seq[k + 1]
         /\ Head(seq) \in S /\ Head(seq) = seq[1] /\ 1 \in DOMAIN seq
<1>1. /\ Tail(seq) \in Seq(S) /\ Len(Tail(seq)) = Len(seq) - 1
      /\ \A k \in 1..Len(Tail(seq)) : Tail(seq)[k] = seq[k + 1]
  BY HeadTailProperties
<1>2. Len(seq) \in Nat \ {0} /\ DOMAIN seq = 1..Len(seq) /\ DOMAIN Tail(seq) = 1..Len(Tail(seq))
  BY <1>1, LenProperties, EmptySeq
<1>3. Head(seq) \in S /\ Head(seq) = seq[1]
  BY HeadTailProperties
<1> QED BY <1>1, <1>2, <1>3

\* Something is put at the end.
LEMMA Appended ==
  ASSUME NEW S, NEW seq \in Seq(S), NEW x \in S
  PROVE  /\ Append(seq, x) \in Seq(S) /\ Len(seq) \in Nat
         /\ Len(Append(seq, x)) = Len(seq) + 1
         /\ DOMAIN Append(seq, x) = 1..(Len(seq) + 1) /\ DOMAIN seq = 1..Len(seq)
         /\ \A k \in 1..Len(seq) : Append(seq, x)[k] = seq[k]
         /\ Append(seq, x)[Len(seq) + 1] = x
<1>1. /\ Append(seq, x) \in Seq(S) /\ Len(Append(seq, x)) = Len(seq) + 1
      /\ \A k \in 1..Len(seq) : Append(seq, x)[k] = seq[k]
      /\ Append(seq, x)[Len(seq) + 1] = x
  BY AppendProperties
<1> QED BY <1>1, LenProperties

-----------------------------------------------------------------------------
(* What holds of the connection and its children whatever they ask for *)

Entry == [topic : Topics, ref : 0..(RefMod - 1)]

\* The topics a close may take a count from.
Exposed == UNION {Behind[t] : t \in Topics}

SentKinds == {"WHOLE", "HEAD", "TAIL", "SUB", "UNSUB", "PUBACK", "PING"}
ReadKinds == {"PUBACK", "SUBACK", "UNSUBACK", "PINGRESP", "PUBLISH"}

\* Packets to the broker: those of a child say so.
Sent == {p \in [k : SentKinds, id : Nat, from : Children \cup {None}, tops : SUBSET Topics] :
           /\ (p.k \in {"PUBACK", "PING"}) = (p.from = None)
           /\ p.k \in {"SUB", "UNSUB"} => p.id # 0}

Received == {p \in [k : ReadKinds, id : Nat, from : Children \cup {None}, tops : SUBSET Topics] :
               /\ (p.k \in {"PINGRESP", "PUBLISH"}) = (p.from = None)
               /\ p.k \in {"PUBACK", "SUBACK", "UNSUBACK"} => p.id # 0}

ConnOK ==
  /\ phase \in {"connack", "up", "dead"}
  /\ nreq \in BOOLEAN /\ pollout \in BOOLEAN /\ walking \in BOOLEAN /\ ninside \in BOOLEAN
  /\ puback \in BOOLEAN /\ ping \in BOOLEAN /\ hup \in BOOLEAN
  /\ subs \in Seq(Entry) /\ robbed \subseteq Exposed
  /\ pktId \in 0..MaxId /\ nack \in Nat /\ pubs \in 0..MaxPubs
  /\ bsubs \subseteq Topics /\ bopen \in Children \cup {None}

ChildrenOK ==
  /\ st \in [Children -> {"new", "open", "closed"}]
  /\ req \in [Children -> BOOLEAN] /\ unacked \in [Children -> BOOLEAN]
  /\ insub \in [Children -> BOOLEAN] /\ inunsub \in [Children -> BOOLEAN]
  /\ timer \in [Children -> BOOLEAN] /\ again \in [Children -> BOOLEAN]
  /\ kill \in [Children -> BOOLEAN]
  /\ inside \in [Children -> {"no", "q0", "q1"}]
  /\ ack \in [Children -> 0..MaxId]
  /\ own \in [Children -> Seq(Topics)] /\ mine \in [Children -> SUBSET Topics]

WiresOK ==
  /\ tx \in Seq(Sent) /\ Len(tx) <= MaxWire
  /\ rx \in Seq(Received) /\ Len(rx) <= MaxWire

\* The list has the open children, and only they ask or wait for something.
ListOK ==
  /\ list \in Seq(Children) /\ NoDuplicates(list)
  /\ ToSet(list) = {c \in Children : st[c] = "open"}
  /\ \A c \in Children : st[c] # "open" =>
       ~req[c] /\ ~Waits(c) /\ ~timer[c] /\ ~again[c] /\ ~kill[c]
       /\ inside[c] = "no" /\ mine[c] = {}

ArmedOK ==
  /\ phase = "up" => \A c \in Children : req[c] => pollout
  /\ walking => phase = "up" /\ pollout

\* Whose PUBLISH is partly sent before packet i, or when all is read.
Half(i) == IF i = 1 THEN bopen ELSE IF tx[i - 1].k = "HEAD" THEN tx[i - 1].from ELSE None

Follows(i) == IF Half(i) = None THEN tx[i].k # "TAIL"
              ELSE tx[i].k = "TAIL" /\ tx[i].from = Half(i)

WholeOK ==
  /\ \A i \in DOMAIN tx : Follows(i)
  /\ ninside = (Half(Len(tx) + 1) # None)
  /\ \A c \in Children : inside[c] # "no" => Half(Len(tx) + 1) = c

BaseInv == ConnOK /\ ChildrenOK /\ WiresOK /\ ListOK /\ ArmedOK /\ WholeOK

-----------------------------------------------------------------------------
(* Who waits for which id *)

\* A packet that asks for an answer, or is one.
Seeking(p) == p.from # None /\ p.id # 0 /\ p.k # "HEAD"

\* A child waits for one answer at a time, and not while it sends a PUBLISH.
Mode(c) ==
  /\ insub[c] => ~inunsub[c] /\ ~unacked[c]
  /\ inunsub[c] => ~unacked[c]
  /\ again[c] => unacked[c] /\ ~timer[c]
  /\ timer[c] => unacked[c]
  /\ inside[c] # "no" => ~insub[c] /\ ~inunsub[c] /\ ~timer[c] /\ ~again[c]

ModeOK == \A c \in Children : Mode(c)

Expected(p) ==
  Seeking(p) =>
    /\ st[p.from] # "new"
    /\ p.id <= pktId
    /\ \A c \in Children : ack[c] = p.id => c = p.from
    /\ st[p.from] = "open" =>
         /\ p.k \in {"SUB", "SUBACK"} => insub[p.from] /\ ack[p.from] = p.id
         /\ p.k \in {"UNSUB", "UNSUBACK"} => inunsub[p.from] /\ ack[p.from] = p.id
         /\ p.k \in {"WHOLE", "TAIL", "PUBACK"} =>
              (unacked[p.from] /\ ack[p.from] = p.id) \/ p.id < ack[p.from]
    /\ inside[p.from] = "q1" => ack[p.from] # p.id

AcksOK ==
  /\ \A c \in Children : ack[c] <= pktId
  /\ \A c, d \in Children : ack[c] = ack[d] /\ ack[c] # 0 => c = d

\* The ids of a wire, no two of which are the same.
Ids(s) == {s[i].id : i \in {j \in DOMAIN s : Seeking(s[j])}}

Unique(s) == \A i, j \in DOMAIN s : Seeking(s[i]) /\ Seeking(s[j]) /\ s[i].id = s[j].id => i = j

IdsOK ==
  /\ \A p \in ToSet(tx) \cup ToSet(rx) : Expected(p)
  /\ Unique(tx) /\ Unique(rx) /\ Ids(tx) \cap Ids(rx) = {}

WireInv == BaseInv /\ ModeOK /\ AcksOK /\ IdsOK

-----------------------------------------------------------------------------
(* Who uses a topic *)

Users(t) == {c \in Children : t \in mine[c]}
Past(t) == {c \in Children : t \in mine[c] \/ st[c] = "closed"}

\* The count of a topic is that of its users and perhaps some that closed; an
\* entry behind another of its topic is not counted any more.  Of a topic that
\* was robbed nothing is said.
Count(i, t) ==
  IF IsFound(i)
  THEN /\ Cardinality(Users(t)) <= subs[i].ref /\ subs[i].ref <= Cardinality(Past(t))
       /\ subs[i].ref # 0 => Subscribed(t)
  ELSE subs[i].ref = 0

SubsOK ==
  /\ \A i \in DOMAIN subs, t \in Topics \ robbed : subs[i].topic = t => Count(i, t)
  /\ \A c \in Children : \A t \in mine[c] \ robbed : \E i \in DOMAIN subs : subs[i].topic = t

SubsInv == BaseInv /\ SubsOK

-----------------------------------------------------------------------------
(* The list of topics *)

\* The places of a finite set in order: the n-th last is one of them, each is
\* one, and no two are the same.
LEMMA NthLastLemma ==
  ASSUME NEW top \in Nat, NEW places \in SUBSET (1..top)
  PROVE  /\ Cardinality(places) \in Nat
         /\ \A n \in 1..Cardinality(places) : NthLast(places, n) \in places
         /\ \A i \in places : \E n \in 1..Cardinality(places) : NthLast(places, n) = i
         /\ \A n, k \in 1..Cardinality(places) : NthLast(places, n) = NthLast(places, k) => n = k
<1> DEFINE m == Cardinality(places)
           From(i) == {j \in places : j >= i}
           rank == [i \in places |-> Cardinality(From(i))]
<1>1. IsFiniteSet(places) /\ m \in Nat /\ (m = 0) = (places = {})
  <2>1. IsFiniteSet(1..top)
    BY FS_Interval
  <2>2. IsFiniteSet(places)
    BY <2>1, FS_Subset
  <2>3. m \in Nat /\ (m = 0 <=> places = {})
    BY <2>2, FS_CardinalityType, FS_EmptySet
  <2> QED BY <2>2, <2>3
<1>2. \A i \in places : i \in Nat /\ i \in From(i) /\ From(i) \in SUBSET places
  OBVIOUS
<1>3. ASSUME NEW i \in places
      PROVE IsFiniteSet(From(i)) /\ Cardinality(From(i)) \in Nat /\ Cardinality(From(i)) <= m
            /\ Cardinality(From(i)) # 0
  <2>1. IsFiniteSet(From(i)) /\ Cardinality(From(i)) <= m
    BY <1>1, <1>2, FS_Subset
  <2>2. Cardinality(From(i)) \in Nat /\ Cardinality(From(i)) # 0
    BY <1>2, <2>1, FS_CardinalityType, FS_EmptySet
  <2> QED BY <2>1, <2>2
<1>4. rank \in [places -> 1..m]
  <2>1. \A i \in places : Cardinality(From(i)) \in 1..m
    BY <1>1, <1>3
  <2> HIDE DEF From
  <2> QED BY <2>1
<1>5. ASSUME NEW i \in places, NEW j \in places, i < j
      PROVE  Cardinality(From(i)) # Cardinality(From(j))
  <2>1. From(j) \in SUBSET From(i) /\ i \notin From(j) /\ i \in From(i)
    <3>1. \A k \in places : k >= j => k >= i
      BY <1>2, <1>5
    <3>2. ~(i >= j)
      BY <1>2, <1>5
    <3> QED BY <1>2, <3>1, <3>2
  <2> QED BY <1>3, <2>1, FS_Subset
<1>6. \A i, j \in places : Cardinality(From(i)) = Cardinality(From(j)) => i = j
  BY <1>2, <1>5
<1> HIDE DEF From
<1>7. rank \in Injection(places, 1..m)
  BY <1>4, <1>6 DEF Injection, IsInjective
<1>8. IsFiniteSet(1..m) /\ Cardinality(1..m) = m
  BY <1>1, FS_Interval
<1>9. rank \in Surjection(places, 1..m)
  BY <1>7, <1>8, FS_Injection
<1>10. \A n \in 1..m : \E i \in places : Cardinality(From(i)) = n
  BY <1>9 DEF Surjection
<1>11. \A n \in 1..m : NthLast(places, n) \in places /\ Cardinality(From(NthLast(places, n))) = n
  <2> SUFFICES ASSUME NEW n \in 1..m
               PROVE  NthLast(places, n) \in places /\ Cardinality(From(NthLast(places, n))) = n
    OBVIOUS
  <2>1. \E i \in places : Cardinality(From(i)) = n
    BY <1>10
  <2>2. NthLast(places, n) = CHOOSE i \in places : Cardinality(From(i)) = n
    BY DEF NthLast, From
  <2> QED BY <2>1, <2>2
<1>12. ASSUME NEW i \in places PROVE \E n \in 1..m : NthLast(places, n) = i
  <2>1. Cardinality(From(i)) \in 1..m
    BY <1>4
  <2> QED BY <1>6, <1>11, <2>1
<1> QED BY <1>1, <1>11, <1>12

\* lws_mqtt_create_sub() for the topics of l at some places.
LEMMA CreateLemma ==
  ASSUME NEW l \in Seq(Topics), NEW new \in SUBSET DOMAIN l
  PROVE  LET made == lws_mqtt_create_sub(l, new)
         IN  /\ made \in Seq(Entry)
             /\ \A i \in DOMAIN made : made[i].topic \in {l[k] : k \in new} /\ made[i].ref = 1
             /\ \A k \in new : \E i \in DOMAIN made : made[i].topic = l[k]
             /\ NoDuplicates(l) => \A i, j \in DOMAIN made : made[i].topic = made[j].topic => i = j
             /\ Len(made) = Cardinality(new)
<1> DEFINE m == Cardinality(new)
           made == lws_mqtt_create_sub(l, new)
           At(n) == NthLast(new, n)
<1>1. DOMAIN l = 1..Len(l) /\ Len(l) \in Nat /\ \A k \in DOMAIN l : l[k] \in Topics
  BY LenProperties, ElementOfSeq
<1>2. /\ m \in Nat
      /\ \A n \in 1..m : At(n) \in new
      /\ \A i \in new : \E n \in 1..m : At(n) = i
      /\ \A n, k \in 1..m : At(n) = At(k) => n = k
  <2>1. new \in SUBSET (1..Len(l)) /\ Len(l) \in Nat
    BY <1>1
  <2>2. /\ Cardinality(new) \in Nat
        /\ \A n \in 1..Cardinality(new) : NthLast(new, n) \in new
        /\ \A i \in new : \E n \in 1..Cardinality(new) : NthLast(new, n) = i
        /\ \A n, k \in 1..Cardinality(new) : NthLast(new, n) = NthLast(new, k) => n = k
    BY <2>1, NthLastLemma
  <2> QED BY <2>2
<1> HIDE DEF At, m
<1>3. made = [n \in 1..m |-> [topic |-> l[At(n)], ref |-> 1]]
  BY DEF lws_mqtt_create_sub, At, m
<1>4. 1 \in 0..(RefMod - 1)
  BY MqttAssumption
<1>5. \A n \in 1..m : [topic |-> l[At(n)], ref |-> 1] \in Entry
  BY <1>1, <1>2, <1>4 DEF Entry
<1> HIDE DEF made
<1>6. made \in Seq(Entry) /\ DOMAIN made = 1..m
  BY <1>2, <1>3, <1>5
<1>7. \A n \in 1..m : made[n].topic = l[At(n)] /\ made[n].ref = 1
  BY <1>3
<1>8. Len(made) = m
  BY <1>2, <1>6, LenProperties
<1>9. ASSUME NEW k \in new PROVE \E i \in DOMAIN made : made[i].topic = l[k]
  BY <1>2, <1>6, <1>7
<1>10. NoDuplicates(l) => \A i, j \in DOMAIN made : made[i].topic = made[j].topic => i = j
  BY <1>2, <1>6, <1>7 DEF NoDuplicates
<1> QED BY <1>2, <1>6, <1>7, <1>8, <1>9, <1>10 DEF made, m

\* One is added to the count of some topics, or taken from it.
LEMMA CountedLemma ==
  ASSUME subs \in Seq(Entry), NEW tops, NEW d \in {-1, 1}
  PROVE  /\ Counted(tops, d) \in Seq(Entry)
         /\ DOMAIN Counted(tops, d) = DOMAIN subs
         /\ \A i \in DOMAIN subs :
              /\ Counted(tops, d)[i].topic = subs[i].topic
              /\ subs[i].topic \in tops /\ IsFound(i) =>
                   Counted(tops, d)[i].ref = (subs[i].ref + d + RefMod) % RefMod
              /\ ~(subs[i].topic \in tops /\ IsFound(i)) => Counted(tops, d)[i] = subs[i]
<1> DEFINE n == Len(subs)
           Ref(i) == (subs[i].ref + d + RefMod) % RefMod
           e(i) == IF subs[i].topic \in tops /\ IsFound(i)
                   THEN [subs[i] EXCEPT !.ref = Ref(i)] ELSE subs[i]
           s == Counted(tops, d)
<1>1. n \in Nat /\ DOMAIN subs = 1..n /\ \A i \in 1..n : subs[i] \in Entry
  BY LenProperties, ElementOfSeq
<1>2. s = [i \in 1..n |-> e(i)]
  BY <1>1 DEF Counted
<1>3. ASSUME NEW i \in 1..n PROVE Ref(i) \in 0..(RefMod - 1)
  <2>1. subs[i].ref \in Nat /\ RefMod \in Nat \ {0}
    BY <1>1, MqttAssumption DEF Entry
  <2> DEFINE x == subs[i].ref + d + RefMod
  <2>2. x \in Int
    BY <2>1
  <2> HIDE DEF x
  <2>3. x % RefMod \in 0..(RefMod - 1)
    BY <2>1, <2>2
  <2> QED BY <2>3 DEF x
<1> HIDE DEF Ref
<1>4. ASSUME NEW i \in 1..n, NEW r \in 0..(RefMod - 1)
      PROVE  /\ [subs[i] EXCEPT !.ref = r] \in Entry
             /\ [subs[i] EXCEPT !.ref = r].ref = r
             /\ [subs[i] EXCEPT !.ref = r].topic = subs[i].topic
  BY <1>1 DEF Entry
<1>5. ASSUME NEW i \in 1..n
      PROVE  /\ e(i) \in Entry /\ e(i).topic = subs[i].topic
             /\ subs[i].topic \in tops /\ IsFound(i) => e(i).ref = Ref(i)
             /\ ~(subs[i].topic \in tops /\ IsFound(i)) => e(i) = subs[i]
  BY <1>1, <1>3, <1>4
<1> HIDE DEF s, e, n
<1>6. s \in Seq(Entry) /\ DOMAIN s = 1..n /\ \A i \in 1..n : s[i] = e(i)
  BY <1>1, <1>2, <1>5
<1> QED BY <1>1, <1>5, <1>6 DEF s, Ref
-----------------------------------------------------------------------------
(* Steps and what holds of the connection *)

LEMMA ListOpen ==
  ASSUME ListOK, NEW i \in DOMAIN list
  PROVE  list[i] \in Children /\ st[list[i]] = "open" /\ list[i] \in ToSet(list)
<1>1. list[i] \in ToSet(list)
  BY DEF ToSet
<1> QED BY <1>1 DEF ListOK

\* Children that are open ask.
LEMMA AskLemma ==
  ASSUME ChildrenOK, ArmedOK, pollout \in BOOLEAN, nreq \in BOOLEAN,
         NEW cs, ChildrenAsk(cs) \/ BothAsk(cs)
  PROVE  /\ req' \in [Children -> BOOLEAN] /\ nreq' \in BOOLEAN /\ pollout' \in BOOLEAN
         /\ \A c \in Children : req'[c] => req[c] \/ c \in cs
         /\ pollout => pollout'
         /\ phase = "up" => \A c \in Children : req'[c] => pollout'
<1> DEFINE new == {c \in cs : ~req[c]}
<1>1. /\ req' = [c \in Children |-> req[c] \/ c \in new]
      /\ \/ nreq' = (nreq \/ new # {}) /\ pollout' = (pollout \/ new # {})
         \/ nreq' = TRUE /\ pollout' = (pollout \/ ~nreq \/ new # {})
  BY DEF ChildrenAsk, BothAsk
<1>2. \A c \in Children : c \in new => new # {} /\ c \in cs
  OBVIOUS
<1> HIDE DEF new
<1>3. \A c \in Children : req'[c] <=> req[c] \/ c \in new
  BY <1>1
<1>4. req' \in [Children -> BOOLEAN] /\ nreq' \in BOOLEAN /\ pollout' \in BOOLEAN
  BY <1>1 DEF ChildrenOK
<1>5. (new # {} => pollout') /\ (pollout => pollout')
  BY <1>1
<1>6. \A c \in Children : phase = "up" /\ req[c] => pollout
  BY DEF ArmedOK
<1> QED BY <1>2, <1>3, <1>4, <1>5, <1>6

\* A child closes.
LEMMA CloseLemma ==
  ASSUME ChildrenOK, ListOK, NEW l \in Seq(Children), NoDuplicates(l), ToSet(l) = ToSet(list),
         NEW c \in ToSet(l), CloseChild(c, l)
  PROVE  /\ ChildrenOK' /\ ListOK'
         /\ \A d \in Children : req'[d] => req[d]
         /\ \A d \in Children : inside'[d] = inside[d] \/ inside'[d] = "no"
<1>1. c \in Children /\ st[c] = "open"
  BY DEF ListOK
<1>2. ChildrenOK'
  <2>1. {} \in SUBSET Topics /\ <<>> \in Seq(Topics)
    OBVIOUS
  <2>2. /\ st' = [st EXCEPT ![c] = "closed"] /\ inside' = [inside EXCEPT ![c] = "no"]
        /\ req' = [req EXCEPT ![c] = FALSE] /\ unacked' = [unacked EXCEPT ![c] = FALSE]
        /\ insub' = [insub EXCEPT ![c] = FALSE] /\ inunsub' = [inunsub EXCEPT ![c] = FALSE]
        /\ timer' = [timer EXCEPT ![c] = FALSE] /\ again' = [again EXCEPT ![c] = FALSE]
        /\ kill' = [kill EXCEPT ![c] = FALSE] /\ UNCHANGED ack
    BY DEF CloseChild
  <2>3. own' = [own EXCEPT ![c] = <<>>] /\ mine' = [mine EXCEPT ![c] = {}]
    BY DEF CloseChild
  <2>4. own' \in [Children -> Seq(Topics)] /\ mine' \in [Children -> SUBSET Topics]
    BY <2>1, <2>3 DEF ChildrenOK
  <2> QED BY <2>2, <2>4 DEF ChildrenOK
<1>3. \A d \in Children :
        /\ st'[d] = IF d = c THEN "closed" ELSE st[d]
        /\ d = c => ~req'[d] /\ ~Waits(d)' /\ ~timer'[d] /\ ~again'[d] /\ ~kill'[d]
                    /\ inside'[d] = "no" /\ mine'[d] = {}
        /\ d # c => /\ req'[d] = req[d] /\ Waits(d)' = Waits(d) /\ timer'[d] = timer[d]
                    /\ again'[d] = again[d] /\ kill'[d] = kill[d]
                    /\ inside'[d] = inside[d] /\ mine'[d] = mine[d]
  BY DEF CloseChild, ChildrenOK, Waits
<1>4. list' \in Seq(Children) /\ NoDuplicates(list') /\ ToSet(list') = ToSet(list) \ {c}
  <2>1. list' = RemoveAt(l, CHOOSE i \in DOMAIN l : l[i] = c)
    BY DEF CloseChild
  <2> QED BY <2>1, OffTheList
<1>5. ListOK'
  BY <1>1, <1>3, <1>4 DEF ListOK
<1>6. \A d \in Children : (req'[d] => req[d]) /\ (inside'[d] = inside[d] \/ inside'[d] = "no")
  BY <1>3
<1> QED BY <1>2, <1>5, <1>6

\* The list of a child is freed: the topics of the connection stay, and a count
\* is taken only from topics that are robbed.
LEMMA RoleCloses ==
  ASSUME ChildrenOK, NEW c \in Children, NEW s \in Seq(Entry), robbed \subseteq Exposed,
         rops_close_role_mqtt(c, s)
  PROVE  /\ subs' \in Seq(Entry) /\ DOMAIN subs' = DOMAIN s
         /\ \A i \in DOMAIN s : /\ subs'[i].topic = s[i].topic
                                /\ s[i].topic \notin robbed' => subs'[i] = s[i]
         /\ robbed \subseteq robbed' /\ robbed' \subseteq Exposed
<1>1. PICK read \in [DOMAIN own[c] -> Topics \cup {None}] :
        LET Hits(t) == {i \in DOMAIN own[c] : read[i] = t} IN
        /\ \A i \in DOMAIN own[c] : read[i] \in Behind[own[c][i]]
        /\ subs' = [i \in DOMAIN s |->
                      IF FoundIn(s, i) /\ Hits(s[i].topic) # {}
                      THEN [s[i] EXCEPT !.ref = (@ - Cardinality(Hits(s[i].topic))) % RefMod] ELSE s[i]]
        /\ robbed' = robbed \cup {t \in Topics : Hits(t) # {}}
  BY DEF rops_close_role_mqtt
<1> DEFINE Hits(t) == {i \in DOMAIN own[c] : read[i] = t}
           n == Len(s)
           hit(i) == FoundIn(s, i) /\ Hits(s[i].topic) # {}
           Ref(i) == (s[i].ref - Cardinality(Hits(s[i].topic))) % RefMod
           e(i) == IF hit(i) THEN [s[i] EXCEPT !.ref = Ref(i)] ELSE s[i]
<1>2. n \in Nat /\ DOMAIN s = 1..n /\ \A i \in 1..n : s[i] \in Entry
  BY LenProperties, ElementOfSeq
<1>3. own[c] \in Seq(Topics) /\ Len(own[c]) \in Nat /\ DOMAIN own[c] = 1..Len(own[c])
      /\ \A i \in DOMAIN own[c] : own[c][i] \in Topics
  BY LenProperties, ElementOfSeq DEF ChildrenOK
<1>4. subs' = [i \in 1..n |-> e(i)]
  BY <1>1, <1>2
<1>5. robbed' = robbed \cup {t \in Topics : Hits(t) # {}}
  BY <1>1
<1>6. ASSUME NEW t PROVE Cardinality(Hits(t)) \in Nat
  <2>1. Hits(t) \subseteq 1..Len(own[c])
    BY <1>3
  <2>2. IsFiniteSet(1..Len(own[c]))
    BY <1>3, FS_Interval
  <2> QED BY <2>1, <2>2, FS_Subset, FS_CardinalityType
<1>7. robbed' \subseteq Exposed
  <2>1. ASSUME NEW t \in Topics, Hits(t) # {} PROVE t \in Exposed
    <3>1. PICK i \in DOMAIN own[c] : read[i] = t
      BY <2>1
    <3>2. t \in Behind[own[c][i]] /\ own[c][i] \in Topics
      BY <1>1, <1>3, <3>1
    <3> QED BY <3>2 DEF Exposed
  <2> QED BY <1>5, <2>1
<1> HIDE DEF Hits
<1>8. ASSUME NEW i \in 1..n PROVE Ref(i) \in 0..(RefMod - 1)
  <2>1. s[i].ref \in Nat /\ RefMod \in Nat \ {0}
    BY <1>2, MqttAssumption DEF Entry
  <2> DEFINE x == s[i].ref - Cardinality(Hits(s[i].topic))
  <2>2. x \in Int
    BY <1>6, <2>1
  <2> HIDE DEF x
  <2>3. x % RefMod \in 0..(RefMod - 1)
    BY <2>1, <2>2
  <2> QED BY <2>3 DEF x
<1> HIDE DEF Ref
<1>9. ASSUME NEW i \in 1..n
      PROVE  e(i) \in Entry /\ e(i).topic = s[i].topic /\ (~hit(i) => e(i) = s[i])
  <2>1. /\ [s[i] EXCEPT !.ref = Ref(i)] \in Entry
        /\ [s[i] EXCEPT !.ref = Ref(i)].topic = s[i].topic
    BY <1>2, <1>8 DEF Entry
  <2> QED BY <1>2, <2>1
<1>10. ASSUME NEW i \in 1..n, s[i].topic \notin robbed' PROVE ~hit(i)
  <2>1. s[i].topic \in Topics
    BY <1>2 DEF Entry
  <2> QED BY <1>5, <1>10, <2>1
<1> HIDE DEF e, hit, n
<1>11. subs' \in Seq(Entry) /\ DOMAIN subs' = 1..n /\ \A i \in 1..n : subs'[i] = e(i)
  BY <1>2, <1>4, <1>9
<1>12. robbed \subseteq robbed'
  BY <1>5
<1> QED BY <1>2, <1>7, <1>9, <1>10, <1>11, <1>12

\* The connection closes.
LEMMA DeadLemma ==
  ASSUME BaseInv, lws_close_free_wsi PROVE BaseInv'
<1>1. ConnOK'
  <2>1. <<>> \in Seq(Entry) /\ 0 \in Nat /\ {} \subseteq Exposed
    OBVIOUS
  <2> QED BY <2>1 DEF BaseInv, ConnOK, lws_close_free_wsi
<1>2. No \in [Children -> BOOLEAN] /\ \A c \in Children : ~No[c]
  BY DEF No
<1>3. ChildrenOK'
  <2>1. /\ own' \in [Children -> Seq(Topics)] /\ mine' \in [Children -> SUBSET Topics]
        /\ inside' \in [Children -> {"no", "q0", "q1"}]
    BY EmptySeq DEF lws_close_free_wsi
  <2>2. st' \in [Children -> {"new", "open", "closed"}]
    BY DEF lws_close_free_wsi, BaseInv, ChildrenOK
  <2>3. /\ req' = No /\ unacked' = No /\ insub' = No /\ inunsub' = No
        /\ timer' = No /\ again' = No /\ kill' = No /\ UNCHANGED ack
    BY DEF lws_close_free_wsi
  <2> QED BY <1>2, <2>1, <2>2, <2>3 DEF ChildrenOK, BaseInv
<1>4. WiresOK'
  BY EmptySeq, MqttAssumption DEF WiresOK, lws_close_free_wsi
<1>5. ListOK'
  <2>1. \A c \in Children : st'[c] # "open" /\ mine'[c] = {} /\ inside'[c] = "no"
    BY DEF lws_close_free_wsi
  <2>2. \A c \in Children : ~req'[c] /\ ~Waits(c)' /\ ~timer'[c] /\ ~again'[c] /\ ~kill'[c]
    BY <1>2 DEF lws_close_free_wsi, Waits
  <2>3. list' = <<>>
    BY DEF lws_close_free_wsi
  <2>4. list' \in Seq(Children) /\ NoDuplicates(list') /\ ToSet(list') = {}
    BY <2>3 DEF NoDuplicates, ToSet
  <2> QED BY <2>1, <2>2, <2>4 DEF ListOK
<1>6. ArmedOK'
  BY DEF ArmedOK, lws_close_free_wsi
<1>7. WholeOK'
  <2>1. tx' = <<>> /\ Len(tx') = 0 /\ DOMAIN tx' = {} /\ ninside' = FALSE /\ bopen' = None
    BY DEF lws_close_free_wsi
  <2>2. \A c \in Children : inside'[c] = "no"
    BY DEF lws_close_free_wsi
  <2>3. Half(1)' = None
    BY <2>1 DEF Half
  <2>4. Len(tx') + 1 = 1
    BY <2>1
  <2> QED BY <2>1, <2>2, <2>3, <2>4 DEF WholeOK, Half
<1> QED BY <1>1, <1>3, <1>4, <1>5, <1>6, <1>7 DEF BaseInv

LEMMA WholeSame ==
  ASSUME WholeOK, UNCHANGED <<tx, bopen, ninside>>,
         \A c \in Children : inside'[c] = inside[c] \/ inside'[c] = "no"
  PROVE  WholeOK'
BY DEF WholeOK, Half, Follows

\* A packet is written where it may be.
LEMMA WholeAppended ==
  ASSUME WholeOK, tx \in Seq(Sent), NEW p \in Sent, tx' = Append(tx, p), UNCHANGED bopen,
         IF ninside THEN p.k = "TAIL" /\ p.from = Half(Len(tx) + 1) ELSE p.k # "TAIL",
         ninside' = (p.k = "HEAD"),
         \A c \in Children : inside'[c] # "no" => p.k = "HEAD" /\ p.from = c
  PROVE  WholeOK'
<1>0. PICK n : n = Len(tx)
  OBVIOUS
<1>1. /\ n \in Nat /\ Len(tx') = n + 1 /\ DOMAIN tx' = 1..(n + 1) /\ DOMAIN tx = 1..n
      /\ \A k \in 1..n : tx'[k] = tx[k]
      /\ tx'[n + 1] = p
  BY <1>0, Appended
<1>2. ASSUME NEW i \in 1..(n + 1) PROVE Half(i)' = Half(i)
  <2>1. i # 1 => i - 1 \in 1..n
    BY <1>1
  <2> QED BY <1>1, <2>1 DEF Half
<1>3. ASSUME NEW i \in 1..n PROVE Follows(i)'
  <2>1. Follows(i) /\ i \in 1..(n + 1) /\ tx'[i] = tx[i]
    BY <1>1 DEF WholeOK
  <2> QED BY <1>2, <2>1 DEF Follows
<1>4. n + 1 \in 1..(n + 1) /\ ninside = (Half(n + 1) # None)
  BY <1>0, <1>1 DEF WholeOK
<1>5. Follows(n + 1)'
  BY <1>0, <1>1, <1>2, <1>4 DEF Follows
<1>6. Half((n + 1) + 1)' = IF p.k = "HEAD" THEN p.from ELSE None
  <2>1. ((n + 1) + 1) - 1 = n + 1 /\ (n + 1) + 1 # 1
    BY <1>1
  <2> QED BY <1>1, <2>1 DEF Half
<1>7. p.k = "HEAD" => p.from # None
  BY DEF Sent
<1>8. \A i \in DOMAIN tx' : Follows(i)'
  <2>1. \A i \in 1..(n + 1) : i \in 1..n \/ i = n + 1
    BY <1>1
  <2> QED BY <1>1, <1>3, <1>5, <2>1
<1>9. Half(Len(tx) + 1)' = IF p.k = "HEAD" THEN p.from ELSE None
  BY <1>1, <1>6
<1> QED BY <1>7, <1>8, <1>9 DEF WholeOK

\* The broker reads a packet.
LEMMA WholeRead ==
  ASSUME WholeOK, tx \in Seq(Sent), tx # <<>>, tx' = Tail(tx), UNCHANGED <<ninside, inside>>,
         bopen' = CASE Head(tx).k = "HEAD" -> Head(tx).from
                    [] Head(tx).k = "TAIL" -> None [] OTHER -> bopen
  PROVE  WholeOK'
<1>0. PICK n : n = Len(tx) - 1
  OBVIOUS
<1>1. /\ n \in Nat /\ Len(tx) = n + 1 /\ Len(tx') = n /\ DOMAIN tx' = 1..n /\ DOMAIN tx = 1..(n + 1)
      /\ \A k \in 1..n : tx'[k] = tx[k + 1]
      /\ Head(tx) = tx[1] /\ 1 \in DOMAIN tx
  BY <1>0, HeadRead
<1>2. bopen' = Half(2)
  <2>1. Follows(1) /\ Half(1) = bopen
    BY <1>1 DEF WholeOK, Half
  <2>2. Half(2) = IF tx[1].k = "HEAD" THEN tx[1].from ELSE None
    BY DEF Half
  <2> QED BY <1>1, <2>1, <2>2 DEF Follows
<1>3. ASSUME NEW i \in 1..(n + 1) PROVE Half(i)' = Half(i + 1)
  <2>1. CASE i = 1
    BY <1>2, <2>1 DEF Half
  <2>2. CASE i # 1
    <3>1. i - 1 \in 1..n /\ (i - 1) + 1 = i /\ (i + 1) - 1 = i /\ i + 1 # 1
      BY <1>1, <2>2
    <3> QED BY <1>1, <2>2, <3>1 DEF Half
  <2> QED BY <2>1, <2>2
<1>4. ASSUME NEW i \in 1..n PROVE Follows(i)'
  <2>1. i + 1 \in DOMAIN tx /\ i \in 1..(n + 1) /\ tx'[i] = tx[i + 1]
    BY <1>1
  <2>2. Follows(i + 1)
    BY <2>1 DEF WholeOK
  <2> QED BY <1>3, <2>1, <2>2 DEF Follows
<1>5. Half(n + 1)' = Half((n + 1) + 1)
  <2>1. n + 1 \in 1..(n + 1)
    BY <1>1
  <2> QED BY <1>3, <2>1
<1>6. Half(Len(tx) + 1)' = Half(Len(tx) + 1)
  BY <1>1, <1>5
<1> QED BY <1>1, <1>4, <1>6 DEF WholeOK
\* What the WRITEABLE callback of child c may change.
Changed(c) ==
  /\ pktId' \in 0..MaxId /\ subs' \in Seq(Entry) /\ UNCHANGED robbed /\ ninside' \in BOOLEAN
  /\ tx' \in Seq(Sent) /\ Len(tx') <= Len(tx) + 1
  /\ unacked' \in [Children -> BOOLEAN] /\ insub' \in [Children -> BOOLEAN]
  /\ inunsub' \in [Children -> BOOLEAN] /\ timer' \in [Children -> BOOLEAN]
  /\ again' \in [Children -> BOOLEAN] /\ inside' \in [Children -> {"no", "q0", "q1"}]
  /\ ack' \in [Children -> 0..MaxId]
  /\ own' \in [Children -> Seq(Topics)] /\ mine' \in [Children -> SUBSET Topics]
  /\ \A d \in Children \ {c} :
       /\ unacked'[d] = unacked[d] /\ insub'[d] = insub[d] /\ inunsub'[d] = inunsub[d]
       /\ timer'[d] = timer[d] /\ again'[d] = again[d] /\ inside'[d] = inside[d]
       /\ ack'[d] = ack[d] /\ mine'[d] = mine[d]

\* A packet of a child that may be sent.
LEMMA SentLemma ==
  ASSUME NEW c \in Children, NEW k \in {"WHOLE", "HEAD", "TAIL", "SUB", "UNSUB"}, NEW id \in Nat,
         NEW tops \in SUBSET Topics, k \in {"SUB", "UNSUB"} => id # 0
  PROVE  /\ Packet(k, id, c, tops) \in Sent
         /\ Packet(k, id, c, tops).k = k /\ Packet(k, id, c, tops).from = c
         /\ Packet(k, id, c, tops).id = id /\ Packet(k, id, c, tops).tops = tops
BY MqttAssumption DEF Packet, Sent, SentKinds

LEMMA PublishBase ==
  ASSUME BaseInv, NEW c \in Children, ninside => inside[c] # "no", UNCHANGED bopen,
         NEW asks, lws_mqtt_client_send_publish(c, asks)
  PROVE  Changed(c) /\ WholeOK'
<1>0. ConnOK /\ ChildrenOK /\ WholeOK /\ tx \in Seq(Sent)
  BY DEF BaseInv, WiresOK
<1>1. inside[c] = "no" /\ ninside = FALSE
  BY <1>0 DEF lws_mqtt_client_send_publish, ConnOK
<1>2. PICK q \in {0, 1}, last \in BOOLEAN :
        /\ pktId + q <= MaxId
        /\ pktId' = pktId + q
        /\ ack' = IF q = 1 THEN [ack EXCEPT ![c] = pktId'] ELSE ack
        /\ tx' = Append(tx, Packet(IF last THEN "WHOLE" ELSE "HEAD", IF q = 1 THEN pktId' ELSE 0, c, {}))
        /\ IF last THEN PublishDone(c, Qos(q)) ELSE asks /\ PublishPart(c, Qos(q))
  BY DEF lws_mqtt_client_send_publish
<1>3. pktId \in 0..MaxId /\ MaxId \in Nat /\ pktId' \in 0..MaxId /\ pktId' \in Nat
  BY <1>0, <1>2, MqttAssumption DEF ConnOK
<1> DEFINE k == IF last THEN "WHOLE" ELSE "HEAD"
           id == IF q = 1 THEN pktId' ELSE 0
           p == Packet(k, id, c, {})
<1>4. p \in Sent /\ p.k = k /\ p.from = c
  <2>1. k \in {"WHOLE", "HEAD", "TAIL", "SUB", "UNSUB"} /\ id \in Nat /\ {} \in SUBSET Topics
        /\ k \notin {"SUB", "UNSUB"}
    BY <1>3
  <2> QED BY <2>1, SentLemma
<1>5. tx' = Append(tx, p)
  BY <1>2
<1>6. k = (IF last THEN "WHOLE" ELSE "HEAD") /\ k # "TAIL" /\ (k = "HEAD") = ~last
  OBVIOUS
<1> HIDE DEF p, id, k
<1>7. tx' \in Seq(Sent) /\ Len(tx') = Len(tx) + 1 /\ Len(tx) \in Nat
  BY <1>0, <1>4, <1>5, Appended
<1>8. Qos(q) \in {"q0", "q1"}
  BY DEF Qos
<1>9. /\ inside' = [inside EXCEPT ![c] = IF last THEN "no" ELSE Qos(q)] /\ ninside' = ~last
      /\ unacked' = unacked \/ unacked' = [unacked EXCEPT ![c] = TRUE]
      /\ timer' = timer \/ timer' = [timer EXCEPT ![c] = TRUE]
      /\ again' = [again EXCEPT ![c] = FALSE]
      /\ UNCHANGED <<insub, inunsub, own, mine, subs, robbed>>
  BY <1>2 DEF lws_mqtt_client_send_publish, PublishDone, PublishPart
<1>10. /\ ack' \in [Children -> 0..MaxId]
       /\ \A d \in Children \ {c} : ack'[d] = ack[d]
  BY <1>0, <1>2, <1>3 DEF ChildrenOK
<1>11. Changed(c)
  <2>1. /\ unacked' \in [Children -> BOOLEAN] /\ timer' \in [Children -> BOOLEAN]
        /\ again' \in [Children -> BOOLEAN]
        /\ \A d \in Children \ {c} : unacked'[d] = unacked[d] /\ timer'[d] = timer[d] /\ again'[d] = again[d]
    BY <1>0, <1>9 DEF ChildrenOK
  <2>2. /\ inside' \in [Children -> {"no", "q0", "q1"}]
        /\ \A d \in Children \ {c} : inside'[d] = inside[d]
    BY <1>0, <1>8, <1>9 DEF ChildrenOK
  <2> QED BY <1>0, <1>3, <1>7, <1>9, <1>10, <2>1, <2>2 DEF Changed, ChildrenOK, ConnOK
<1>12. \A d \in Children : inside[d] = "no"
  BY <1>0, <1>1, MqttAssumption DEF WholeOK
<1>13. \A d \in Children : inside'[d] # "no" => p.k = "HEAD" /\ p.from = d
  BY <1>0, <1>4, <1>6, <1>9, <1>12 DEF ChildrenOK
<1>14. WholeOK'
  BY <1>0, <1>1, <1>4, <1>5, <1>6, <1>9, <1>13, WholeAppended
<1> QED BY <1>11, <1>14

LEMMA RestBase ==
  ASSUME BaseInv, NEW c \in Children, UNCHANGED bopen, PublishRest(c)
  PROVE  Changed(c) /\ WholeOK'
<1>0. ConnOK /\ ChildrenOK /\ WholeOK /\ tx \in Seq(Sent)
  BY DEF BaseInv, WiresOK
<1>1. inside[c] # "no" /\ ninside /\ Half(Len(tx) + 1) = c
  BY <1>0, MqttAssumption DEF PublishRest, WholeOK
<1> DEFINE id == IF inside[c] = "q1" THEN ack[c] ELSE 0
           p == Packet("TAIL", id, c, {})
<1>2. tx' = Append(tx, p)
  BY DEF PublishRest
<1>3. id \in Nat
  BY <1>0, MqttAssumption DEF ChildrenOK
<1> HIDE DEF id
<1>4. p \in Sent /\ p.k = "TAIL" /\ p.from = c
  <2>1. {} \in SUBSET Topics
    OBVIOUS
  <2> QED BY <1>3, <2>1, SentLemma
<1> HIDE DEF p
<1>5. tx' \in Seq(Sent) /\ Len(tx') = Len(tx) + 1 /\ Len(tx) \in Nat
  BY <1>0, <1>2, <1>4, Appended
<1>6. /\ inside' = [inside EXCEPT ![c] = "no"] /\ ninside' = FALSE
      /\ unacked' = unacked \/ unacked' = [unacked EXCEPT ![c] = TRUE]
      /\ timer' = timer \/ timer' = [timer EXCEPT ![c] = TRUE]
      /\ UNCHANGED <<again, ack, insub, inunsub, own, mine, subs, robbed, pktId>>
  BY DEF PublishRest, PublishDone, conn
<1>7. Changed(c)
  <2>1. /\ unacked' \in [Children -> BOOLEAN] /\ timer' \in [Children -> BOOLEAN]
        /\ inside' \in [Children -> {"no", "q0", "q1"}]
        /\ \A d \in Children \ {c} : unacked'[d] = unacked[d] /\ timer'[d] = timer[d]
                                     /\ inside'[d] = inside[d]
    BY <1>0, <1>6 DEF ChildrenOK
  <2>2. UNCHANGED <<again, ack, insub, inunsub, own, mine, subs, robbed, pktId>> /\ ninside' = FALSE
    BY <1>6
  <2>3. Len(tx') <= Len(tx) + 1
    BY <1>5
  <2> QED BY <1>0, <1>5, <2>1, <2>2, <2>3 DEF Changed, ChildrenOK, ConnOK
<1>8. \A d \in Children : inside'[d] = "no"
  <2>1. \A d \in Children : d # c => inside[d] = "no"
    BY <1>0, <1>1 DEF WholeOK
  <2> QED BY <1>0, <1>6, <2>1 DEF ChildrenOK
<1>9. WholeOK'
  BY <1>0, <1>1, <1>2, <1>4, <1>6, <1>8, WholeAppended
<1> QED BY <1>7, <1>9

LEMMA SubscribeBase ==
  ASSUME BaseInv, NEW c \in Children, ninside => inside[c] # "no", UNCHANGED bopen,
         lws_mqtt_client_send_subcribe(c) \/ lws_mqtt_client_send_unsubcribe(c)
  PROVE  Changed(c) /\ WholeOK'
<1>0. ConnOK /\ ChildrenOK /\ WholeOK /\ tx \in Seq(Sent) /\ subs \in Seq(Entry)
  BY DEF BaseInv, WiresOK, ConnOK
<1>1. inside[c] = "no" /\ ninside = FALSE
  BY <1>0 DEF lws_mqtt_client_send_subcribe, lws_mqtt_client_send_unsubcribe, ConnOK
<1>2. \A d \in Children : inside[d] = "no"
  BY <1>0, <1>1, MqttAssumption DEF WholeOK
<1>3. UNCHANGED <<inside, ninside, unacked, timer, again, robbed>>
  BY DEF lws_mqtt_client_send_subcribe, lws_mqtt_client_send_unsubcribe
<1>4. ASSUME NEW k \in {"SUB", "UNSUB"}, NEW tops \in SUBSET Topics, pktId < MaxId, pktId' = pktId + 1,
             ack' = [ack EXCEPT ![c] = pktId'], tx' = Append(tx, Packet(k, pktId', c, tops))
      PROVE  /\ pktId' \in 0..MaxId /\ ack' \in [Children -> 0..MaxId]
             /\ \A d \in Children \ {c} : ack'[d] = ack[d]
             /\ tx' \in Seq(Sent) /\ Len(tx') <= Len(tx) + 1 /\ WholeOK'
  <2>1. pktId' \in 0..MaxId /\ pktId' \in Nat /\ pktId' # 0
    BY <1>0, <1>4, MqttAssumption DEF ConnOK
  <2>2. ack' \in [Children -> 0..MaxId] /\ \A d \in Children \ {c} : ack'[d] = ack[d]
    BY <1>0, <1>4, <2>1 DEF ChildrenOK
  <2> DEFINE p == Packet(k, pktId', c, tops)
  <2>3. p \in Sent /\ p.k = k /\ p.from = c
    BY <2>1, SentLemma
  <2>4. tx' = Append(tx, p)
    BY <1>4
  <2> HIDE DEF p
  <2>5. tx' \in Seq(Sent) /\ Len(tx') = Len(tx) + 1 /\ Len(tx) \in Nat
    BY <1>0, <2>3, <2>4, Appended
  <2>6. WholeOK'
    BY <1>0, <1>1, <1>2, <1>3, <2>3, <2>4, WholeAppended
  <2> QED BY <2>1, <2>2, <2>5, <2>6
<1>5. ASSUME UNCHANGED <<pktId, ack, tx>>
      PROVE  /\ pktId' \in 0..MaxId /\ ack' \in [Children -> 0..MaxId]
             /\ \A d \in Children \ {c} : ack'[d] = ack[d]
             /\ tx' \in Seq(Sent) /\ Len(tx') <= Len(tx) + 1 /\ WholeOK'
  <2>1. Len(tx) \in Nat
    BY <1>0, LenProperties
  <2>2. WholeOK'
    BY <1>0, <1>3, <1>5, WholeSame
  <2> QED BY <1>0, <1>5, <2>1, <2>2 DEF ConnOK, ChildrenOK
<1>6. CASE lws_mqtt_client_send_subcribe(c)
  <2>1. PICK l \in TopicLists :
          LET new == {i \in DOMAIN l : ~InUse(l[i])}
              fresh == {l[i] : i \in new}
          IN  /\ own' = [own EXCEPT ![c] = Reverse(l) \o @]
              /\ mine' = [mine EXCEPT ![c] = @ \cup ToSet(l)]
              /\ subs' = lws_mqtt_create_sub(l, new) \o Counted(ToSet(l) \ fresh, 1)
              /\ IF new = {} THEN UNCHANGED <<pktId, ack, tx, insub>>
                 ELSE /\ pktId < MaxId
                      /\ pktId' = pktId + 1
                      /\ ack' = [ack EXCEPT ![c] = pktId']
                      /\ tx' = Append(tx, Packet("SUB", pktId', c, fresh))
                      /\ insub' = [insub EXCEPT ![c] = TRUE]
    BY <1>6 DEF lws_mqtt_client_send_subcribe
  <2> DEFINE new == {i \in DOMAIN l : ~InUse(l[i])}
             fresh == {l[i] : i \in new}
             made == lws_mqtt_create_sub(l, new)
             rest == Counted(ToSet(l) \ fresh, 1)
  <2>2. UNCHANGED inunsub
    BY <1>6 DEF lws_mqtt_client_send_subcribe
  <2>3. l \in Seq(Topics) /\ new \in SUBSET DOMAIN l /\ ToSet(l) \in SUBSET Topics
        /\ fresh \in SUBSET Topics
    BY MqttAssumption, ElementOfSeq, LenProperties DEF ToSet
  <2>4. subs' = made \o rest
    BY <2>1
  <2>5. made \in Seq(Entry) /\ rest \in Seq(Entry)
    <3> HIDE DEF new, fresh
    <3> QED BY <1>0, <2>3, CreateLemma, CountedLemma
  <2>6. \/ UNCHANGED <<pktId, ack, tx, insub>>
        \/ /\ pktId < MaxId /\ pktId' = pktId + 1 /\ ack' = [ack EXCEPT ![c] = pktId']
           /\ tx' = Append(tx, Packet("SUB", pktId', c, fresh))
           /\ insub' = [insub EXCEPT ![c] = TRUE]
    BY <2>1
  <2>7. /\ own' = [own EXCEPT ![c] = Reverse(l) \o own[c]]
        /\ mine' = [mine EXCEPT ![c] = mine[c] \cup ToSet(l)]
    BY <2>1
  <2> HIDE DEF new, fresh, made, rest
  <2>8. subs' \in Seq(Entry)
    BY <2>4, <2>5, ConcatProperties
  <2>9. /\ own' \in [Children -> Seq(Topics)] /\ mine' \in [Children -> SUBSET Topics]
        /\ \A d \in Children \ {c} : mine'[d] = mine[d]
    <3>1. Reverse(l) \in Seq(Topics) /\ own[c] \in Seq(Topics)
      BY <1>0, <2>3, ReverseType DEF ChildrenOK
    <3>2. Reverse(l) \o own[c] \in Seq(Topics)
      BY <3>1, ConcatProperties
    <3> QED BY <1>0, <2>3, <2>7, <3>2 DEF ChildrenOK
  <2>10. insub' \in [Children -> BOOLEAN] /\ \A d \in Children \ {c} : insub'[d] = insub[d]
    BY <1>0, <2>6 DEF ChildrenOK
  <2>11. /\ pktId' \in 0..MaxId /\ ack' \in [Children -> 0..MaxId]
         /\ \A d \in Children \ {c} : ack'[d] = ack[d]
         /\ tx' \in Seq(Sent) /\ Len(tx') <= Len(tx) + 1 /\ WholeOK'
    BY <1>4, <1>5, <2>3, <2>6
  <2> QED BY <1>0, <1>3, <2>2, <2>8, <2>9, <2>10, <2>11 DEF Changed, ChildrenOK, ConnOK
<1>7. CASE lws_mqtt_client_send_unsubcribe(c)
  <2>1. PICK l \in TopicLists :
          LET orphans == {t \in ToSet(l) : \E i \in DOMAIN subs : subs[i].topic = t /\ IsFound(i) /\ subs[i].ref = 1}
          IN  /\ mine' = [mine EXCEPT ![c] = @ \ ToSet(l)]
              /\ subs' = Counted(ToSet(l), -1)
              /\ IF orphans = {} THEN UNCHANGED <<pktId, ack, tx, inunsub>>
                 ELSE /\ pktId < MaxId
                      /\ pktId' = pktId + 1
                      /\ ack' = [ack EXCEPT ![c] = pktId']
                      /\ tx' = Append(tx, Packet("UNSUB", pktId', c, orphans))
                      /\ inunsub' = [inunsub EXCEPT ![c] = TRUE]
    BY <1>7 DEF lws_mqtt_client_send_unsubcribe
  <2> DEFINE orphans == {t \in ToSet(l) : \E i \in DOMAIN subs : subs[i].topic = t /\ IsFound(i) /\ subs[i].ref = 1}
  <2>2. UNCHANGED <<insub, own>>
    BY <1>7 DEF lws_mqtt_client_send_unsubcribe
  <2>3. l \in Seq(Topics) /\ ToSet(l) \in SUBSET Topics /\ orphans \in SUBSET Topics
    BY MqttAssumption, ElementOfSeq, LenProperties DEF ToSet
  <2>4. subs' \in Seq(Entry)
    BY <1>0, <2>1, CountedLemma
  <2>5. \/ UNCHANGED <<pktId, ack, tx, inunsub>>
        \/ /\ pktId < MaxId /\ pktId' = pktId + 1 /\ ack' = [ack EXCEPT ![c] = pktId']
           /\ tx' = Append(tx, Packet("UNSUB", pktId', c, orphans))
           /\ inunsub' = [inunsub EXCEPT ![c] = TRUE]
    BY <2>1
  <2>6. mine' = [mine EXCEPT ![c] = mine[c] \ ToSet(l)]
    BY <2>1
  <2> HIDE DEF orphans
  <2>7. mine' \in [Children -> SUBSET Topics] /\ \A d \in Children \ {c} : mine'[d] = mine[d]
    BY <1>0, <2>3, <2>6 DEF ChildrenOK
  <2>8. inunsub' \in [Children -> BOOLEAN] /\ \A d \in Children \ {c} : inunsub'[d] = inunsub[d]
    BY <1>0, <2>5 DEF ChildrenOK
  <2>9. /\ pktId' \in 0..MaxId /\ ack' \in [Children -> 0..MaxId]
        /\ \A d \in Children \ {c} : ack'[d] = ack[d]
        /\ tx' \in Seq(Sent) /\ Len(tx') <= Len(tx) + 1 /\ WholeOK'
    BY <1>4, <1>5, <2>3, <2>5
  <2> QED BY <1>0, <1>3, <2>2, <2>4, <2>7, <2>8, <2>9 DEF Changed, ChildrenOK, ConnOK
<1> QED BY <1>6, <1>7

LEMMA IdlesBase ==
  ASSUME BaseInv, NEW c \in Children, UNCHANGED bopen, NEW asks, UserIdles(asks)
  PROVE  Changed(c) /\ WholeOK'
<1>0. ConnOK /\ ChildrenOK /\ WholeOK /\ tx \in Seq(Sent) /\ Len(tx) \in Nat
  BY LenProperties DEF BaseInv, WiresOK
<1>1. UNCHANGED <<inside, ninside, unacked, insub, inunsub, ack, timer, again, own, mine, subs, robbed, pktId, tx>>
  BY DEF UserIdles, conn
<1>2. WholeOK'
  BY <1>0, <1>1, WholeSame
<1> QED BY <1>0, <1>1, <1>2 DEF Changed, ChildrenOK, ConnOK
\* POLLOUT stays if somebody asks, and everybody who asks is on the list.
LEMMA PendingArmed ==
  ASSUME ListOK', lws_wsi_mux_action_pending_writeable_reqs, ~walking'
  PROVE  ArmedOK' /\ pollout' \in BOOLEAN
<1>1. pollout' = (\E i \in DOMAIN list' : req'[list'[i]])
  BY DEF lws_wsi_mux_action_pending_writeable_reqs
<1>2. ASSUME NEW c \in Children, req'[c] PROVE pollout'
  <2>1. c \in ToSet(list')
    BY <1>2 DEF ListOK
  <2> QED BY <1>1, <1>2, <2>1 DEF ToSet
<1> QED BY <1>1, <1>2 DEF ArmedOK

\* The callback of a child that is told it may write.
LEMMA CallbackBase ==
  ASSUME BaseInv, phase = "up", pollout, Len(tx) < MaxWire,
         NEW l \in Seq(Children), NoDuplicates(l), ToSet(l) = ToSet(list),
         NEW c \in ToSet(list), ninside => inside[c] # "no",
         lws_callback_as_writeable(c, l), UNCHANGED <<phase, hup, rx, bsubs, bopen, pubs>>,
         ping' \in BOOLEAN
  PROVE  BaseInv'
<1>0. ConnOK /\ ChildrenOK /\ WiresOK /\ ListOK /\ ArmedOK /\ WholeOK
  BY DEF BaseInv
<1>1. c \in Children /\ st[c] = "open"
  BY <1>0 DEF ListOK
<1>2. PICK asks \in BOOLEAN :
        /\ nreq' = (KeptReq \/ asks)
        /\ \/ /\ \/ lws_mqtt_client_send_publish(c, asks)
                 \/ PublishRest(c)
                 \/ lws_mqtt_client_send_subcribe(c)
                 \/ lws_mqtt_client_send_unsubcribe(c)
                 \/ UserIdles(asks)
              /\ req' = [req EXCEPT ![c] = asks]
              /\ list' = l
              /\ walking' = FALSE
              /\ lws_wsi_mux_action_pending_writeable_reqs
              /\ UNCHANGED <<st, kill>>
           \/ /\ CloseChild(c, l)
              /\ rops_close_role_mqtt(c, subs)
              /\ walking' = TRUE
              /\ UNCHANGED <<pollout, ninside, pktId, tx>>
  BY DEF lws_callback_as_writeable
<1>3. nreq' \in BOOLEAN /\ UNCHANGED <<puback, nack>>
  BY <1>2 DEF lws_callback_as_writeable
<1>4. Len(tx) \in Nat /\ MaxWire \in Nat
  BY <1>0, LenProperties, MqttAssumption DEF WiresOK
<1>5. CASE /\ CloseChild(c, l) /\ rops_close_role_mqtt(c, subs) /\ walking' = TRUE
           /\ UNCHANGED <<pollout, ninside, pktId, tx>>
  <2>1. /\ ChildrenOK' /\ ListOK'
        /\ \A d \in Children : req'[d] => req[d]
        /\ \A d \in Children : inside'[d] = inside[d] \/ inside'[d] = "no"
    BY <1>0, <1>5, CloseLemma
  <2>2. ConnOK'
    <3>1. subs' \in Seq(Entry) /\ robbed' \subseteq Exposed
      BY <1>0, <1>1, <1>5, RoleCloses DEF ConnOK
    <3> QED BY <1>0, <1>3, <1>5, <3>1 DEF ConnOK
  <2>3. WiresOK'
    BY <1>0, <1>5 DEF WiresOK
  <2>4. ArmedOK'
    BY <1>5, <2>1 DEF ArmedOK
  <2>5. WholeOK'
    BY <1>0, <1>5, <2>1, WholeSame
  <2> QED BY <2>1, <2>2, <2>3, <2>4, <2>5 DEF BaseInv
<1>6. CASE /\ \/ lws_mqtt_client_send_publish(c, asks)
              \/ PublishRest(c)
              \/ lws_mqtt_client_send_subcribe(c)
              \/ lws_mqtt_client_send_unsubcribe(c)
              \/ UserIdles(asks)
           /\ req' = [req EXCEPT ![c] = asks] /\ list' = l /\ walking' = FALSE
           /\ lws_wsi_mux_action_pending_writeable_reqs /\ UNCHANGED <<st, kill>>
  <2>1. Changed(c) /\ WholeOK'
    BY <1>1, <1>6, PublishBase, RestBase, SubscribeBase, IdlesBase
  <2>2. ChildrenOK'
    BY <1>0, <1>6, <2>1 DEF Changed, ChildrenOK
  <2>3. WiresOK'
    <3>1. tx' \in Seq(Sent) /\ Len(tx') <= Len(tx) + 1 /\ rx \in Seq(Received) /\ Len(rx) <= MaxWire
      BY <1>0, <2>1 DEF Changed, WiresOK
    <3>2. Len(tx') \in Nat
      BY <3>1, LenProperties
    <3>3. Len(tx') <= MaxWire
      BY <1>4, <3>1, <3>2
    <3> QED BY <3>1, <3>3 DEF WiresOK
  <2>4. ListOK'
    <3>1. \A d \in Children \ {c} :
            /\ req'[d] = req[d] /\ Waits(d)' = Waits(d) /\ timer'[d] = timer[d]
            /\ again'[d] = again[d] /\ kill'[d] = kill[d]
            /\ inside'[d] = inside[d] /\ mine'[d] = mine[d] /\ st'[d] = st[d]
      BY <1>0, <1>6, <2>1 DEF Changed, Waits, ChildrenOK
    <3>2. st'[c] = "open" /\ ToSet(list') = ToSet(list) /\ UNCHANGED st
          /\ list' \in Seq(Children) /\ NoDuplicates(list')
      BY <1>1, <1>6
    <3> QED BY <1>0, <3>1, <3>2 DEF ListOK
  <2>5. ArmedOK' /\ pollout' \in BOOLEAN
    BY <1>6, <2>4, PendingArmed
  <2>6. ConnOK'
    BY <1>0, <1>3, <1>6, <2>1, <2>5 DEF ConnOK, Changed
  <2> QED BY <2>1, <2>2, <2>3, <2>4, <2>5, <2>6 DEF BaseInv
<1> QED BY <1>2, <1>5, <1>6

\* A packet of the connection itself is written.
LEMMA OwnPacket ==
  ASSUME WholeOK, WiresOK, ConnOK, ChildrenOK, Len(tx) < MaxWire, ~ninside,
         NEW k \in {"PUBACK", "PING"}, NEW id \in Nat, tx' = Append(tx, Packet(k, id, None, {})),
         UNCHANGED <<rx, bopen, ninside, inside>>
  PROVE  WholeOK' /\ WiresOK'
<1> DEFINE p == Packet(k, id, None, {})
<1>1. p \in Sent /\ p.k = k
  BY DEF Packet, Sent, SentKinds
<1>2. tx' = Append(tx, p) /\ tx \in Seq(Sent)
  BY DEF WiresOK
<1> HIDE DEF p
<1>3. tx' \in Seq(Sent) /\ Len(tx') = Len(tx) + 1 /\ Len(tx) \in Nat
  BY <1>1, <1>2, Appended
<1>4. WiresOK'
  BY <1>3, MqttAssumption DEF WiresOK
<1>5. \A d \in Children : inside'[d] = "no"
  BY MqttAssumption DEF WholeOK
<1>6. ninside' = FALSE /\ ninside = FALSE
  BY DEF ConnOK
<1>7. WholeOK'
  BY <1>1, <1>2, <1>5, <1>6, WholeAppended
<1> QED BY <1>4, <1>7

LEMMA EndWalkBase ==
  ASSUME BaseInv, EndWalk, UNCHANGED <<phase, hup, rx, bsubs, bopen, pubs, ping>>
  PROVE  BaseInv'
<1>0. ConnOK /\ ChildrenOK /\ WiresOK /\ ListOK /\ ArmedOK /\ WholeOK
  BY DEF BaseInv
<1>1. /\ UNCHANGED <<list, st, req, inside, unacked, insub, inunsub, ack, timer, again, kill, own, mine>>
      /\ UNCHANGED <<ninside, subs, robbed, pktId, nack, puback, tx>>
      /\ walking' = FALSE /\ nreq' = KeptReq /\ lws_wsi_mux_action_pending_writeable_reqs
  BY DEF EndWalk, mux, conn
<1>2. ChildrenOK' /\ WiresOK'
  BY <1>0, <1>1 DEF ChildrenOK, WiresOK
<1>3. ListOK'
  BY <1>0, <1>1 DEF ListOK, Waits
<1>4. ArmedOK' /\ pollout' \in BOOLEAN
  BY <1>1, <1>3, PendingArmed
<1>5. ConnOK'
  BY <1>0, <1>1, <1>4 DEF ConnOK, KeptReq
<1>6. WholeOK'
  BY <1>0, <1>1, WholeSame
<1> QED BY <1>2, <1>3, <1>4, <1>5, <1>6 DEF BaseInv

\* The child that is chosen.
LEMMA ChosenLemma ==
  ASSUME ListOK, Ready # {}
  PROVE  /\ Min(Ready) \in DOMAIN list /\ list[Min(Ready)] \in ToSet(list)
         /\ ninside => inside[list[Min(Ready)]] # "no"
         /\ req[list[Min(Ready)]]
<1>1. Ready \subseteq Nat
  BY LenProperties DEF Ready, ListOK
<1>2. \E x \in Ready : \A y \in Ready : x <= y
  BY <1>1, LeastNatural
<1>3. Min(Ready) \in Ready
  BY <1>2 DEF Min
<1> QED BY <1>3 DEF Ready, ToSet

LEMMA ServeBase ==
  ASSUME BaseInv, phase = "up", pollout, Len(tx) < MaxWire, ServeChild,
         UNCHANGED <<phase, hup, rx, bsubs, bopen, pubs, ping>>
  PROVE  BaseInv'
<1>0. ConnOK /\ ChildrenOK /\ WiresOK /\ ListOK /\ ArmedOK /\ WholeOK
  BY DEF BaseInv
<1>1. CASE Ready = {}
  BY <1>1, EndWalkBase DEF ServeChild
<1>2. CASE Ready # {}
  <2>1. PICK i : i = Min(Ready)
    OBVIOUS
  <2>2. i \in DOMAIN list /\ list[i] \in ToSet(list) /\ (ninside => inside[list[i]] # "no")
    BY <1>0, <1>2, <2>1, ChosenLemma
  <2>3. PICK l : l = lws_wsi_mux_move_child_to_tail(i)
    OBVIOUS
  <2>4. l \in Seq(Children) /\ NoDuplicates(l) /\ ToSet(l) = ToSet(list)
    BY <1>0, <2>2, <2>3, MovedToTail DEF ListOK
  <2>5. PICK c : c = list[i]
    OBVIOUS
  <2>6. CASE ~(puback /\ ~ninside)
    <3>1. lws_callback_as_writeable(c, l)
      BY <1>2, <2>1, <2>3, <2>5, <2>6 DEF ServeChild
    <3>2. ping' \in BOOLEAN
      BY <1>0 DEF ConnOK
    <3> QED BY <2>2, <2>4, <2>5, <3>1, <3>2, CallbackBase
  <2>7. CASE puback /\ ~ninside
    <3>1. SendPuback(c, l)
      BY <1>2, <2>1, <2>3, <2>5, <2>7 DEF ServeChild
    <3>2. /\ tx' = Append(tx, Packet("PUBACK", nack, None, {})) /\ puback' = FALSE
          /\ list' = l /\ nreq' = KeptReq /\ walking' = TRUE
          /\ UNCHANGED <<st, req, inside, unacked, insub, inunsub, ack, timer, again, kill, own, mine,
                         pollout, ninside, subs, robbed, pktId, nack>>
      BY <3>1 DEF SendPuback, conn
    <3>3. WholeOK' /\ WiresOK'
      BY <1>0, <2>7, <3>2, OwnPacket DEF ConnOK
    <3>4. ChildrenOK'
      BY <1>0, <3>2 DEF ChildrenOK
    <3>5. ListOK'
      BY <1>0, <2>4, <3>2 DEF ListOK, Waits
    <3>6. ArmedOK'
      BY <3>2 DEF ArmedOK
    <3>7. ConnOK'
      BY <1>0, <3>2 DEF ConnOK, KeptReq
    <3> QED BY <3>3, <3>4, <3>5, <3>6, <3>7 DEF BaseInv
  <2> QED BY <2>6, <2>7
<1> QED BY <1>1, <1>2

LEMMA PolloutBase ==
  ASSUME BaseInv, rops_handle_POLLOUT_mqtt \/ WalkOn PROVE BaseInv'
<1>0. ConnOK /\ ChildrenOK /\ WiresOK /\ ListOK /\ ArmedOK /\ WholeOK
  BY DEF BaseInv
<1>1. UNCHANGED <<phase, hup, rx, bsubs, bopen, pubs>>
  BY DEF rops_handle_POLLOUT_mqtt, WalkOn, broker
<1>2. phase = "up" /\ pollout
  BY <1>0 DEF rops_handle_POLLOUT_mqtt, WalkOn, Up, ArmedOK
<1>3. CASE rops_handle_POLLOUT_mqtt /\ ping /\ ~ninside
  <2>1. SendPingreq
    BY <1>3 DEF rops_handle_POLLOUT_mqtt
  <2>2. /\ ping' = FALSE /\ tx' = Append(tx, Packet("PING", 0, None, {}))
        /\ UNCHANGED <<list, st, req, inside, unacked, insub, inunsub, ack, timer, again, kill, own, mine,
                       nreq, pollout, walking, ninside, subs, robbed, pktId, nack, puback>>
    BY <2>1 DEF SendPingreq, mux, out, conn
  <2>3. WholeOK' /\ WiresOK'
    BY <1>0, <1>1, <1>3, <2>2, OwnPacket DEF rops_handle_POLLOUT_mqtt
  <2>4. ChildrenOK' /\ ListOK'
    BY <1>0, <2>2 DEF ChildrenOK, ListOK, Waits
  <2>5. ConnOK' /\ ArmedOK'
    BY <1>0, <1>1, <2>2 DEF ConnOK, ArmedOK
  <2> QED BY <2>3, <2>4, <2>5 DEF BaseInv
<1>4. CASE rops_handle_POLLOUT_mqtt /\ ~(ping /\ ~ninside)
  BY <1>1, <1>2, <1>4, ServeBase DEF rops_handle_POLLOUT_mqtt
<1>5. CASE WalkOn
  BY <1>1, <1>2, <1>5, ServeBase, EndWalkBase DEF WalkOn
<1> QED BY <1>3, <1>4, <1>5
\* The child that is meant by an answer.
LEMMA AskedLemma ==
  ASSUME ListOK, NEW flag, NEW id, Asked(flag, id) # {}
  PROVE  LET c == list[Min(Asked(flag, id))]
         IN  c \in ToSet(list) /\ c \in Children /\ st[c] = "open" /\ flag[c] /\ ack[c] = id
<1>1. Asked(flag, id) \subseteq Nat
  BY LenProperties DEF Asked, ListOK
<1>2. \E x \in Asked(flag, id) : \A y \in Asked(flag, id) : x <= y
  BY <1>1, LeastNatural
<1>3. Min(Asked(flag, id)) \in Asked(flag, id)
  BY <1>2 DEF Min
<1> QED BY <1>3, ListOpen DEF Asked, ToSet

\* A child is told of its answer, or of a message: it may ask for POLLOUT.
LEMMA ToldBase ==
  ASSUME BaseInv, NEW cs, cs \subseteq {c \in Children : st[c] = "open"},
         ChildrenAsk(cs) \/ BothAsk(cs),
         UNCHANGED <<phase, list, st, inside, ack, kill, own, mine, walking, ninside,
                     subs, robbed, pktId, ping, tx, bsubs, bopen, pubs>>,
         again' \in [Children -> BOOLEAN],
         \A c \in Children : again'[c] => again[c],
         timer' \in [Children -> BOOLEAN], \A c \in Children : timer'[c] => timer[c],
         unacked' \in [Children -> BOOLEAN], \A c \in Children : unacked'[c] => unacked[c],
         insub' \in [Children -> BOOLEAN], \A c \in Children : insub'[c] => insub[c],
         inunsub' \in [Children -> BOOLEAN], \A c \in Children : inunsub'[c] => inunsub[c],
         rx' \in Seq(Received), Len(rx') <= MaxWire,
         hup' \in BOOLEAN, puback' \in BOOLEAN, nack' \in Nat
  PROVE  BaseInv'
<1>0. ConnOK /\ ChildrenOK /\ WiresOK /\ ListOK /\ ArmedOK /\ WholeOK
  BY DEF BaseInv
<1>1. /\ req' \in [Children -> BOOLEAN] /\ nreq' \in BOOLEAN /\ pollout' \in BOOLEAN
      /\ \A c \in Children : req'[c] => req[c] \/ c \in cs
      /\ pollout => pollout'
      /\ phase = "up" => \A c \in Children : req'[c] => pollout'
  BY <1>0, AskLemma DEF ConnOK
<1>2. ChildrenOK'
  BY <1>0, <1>1 DEF ChildrenOK
<1>3. ListOK'
  BY <1>0, <1>1 DEF ListOK, Waits
<1>4. ArmedOK'
  BY <1>0, <1>1 DEF ArmedOK
<1>5. ConnOK'
  BY <1>0, <1>1 DEF ConnOK
<1>6. WiresOK'
  BY <1>0 DEF WiresOK
<1>7. WholeOK'
  BY <1>0, WholeSame
<1> QED BY <1>2, <1>3, <1>4, <1>5, <1>6, <1>7 DEF BaseInv

\* A child closes outside the handler of POLLOUT.
LEMMA ClosesBase ==
  ASSUME BaseInv, NEW c \in ToSet(list), CloseChild(c, list),
         UNCHANGED <<phase, nreq, pollout, walking, ninside, pktId, puback, ping, tx, bsubs, bopen, pubs>>,
         rx' \in Seq(Received), Len(rx') <= MaxWire, subs' \in Seq(Entry), robbed' \subseteq Exposed,
         hup' \in BOOLEAN, nack' \in Nat
  PROVE  BaseInv'
<1>0. ConnOK /\ ChildrenOK /\ WiresOK /\ ListOK /\ ArmedOK /\ WholeOK
  BY DEF BaseInv
<1>1. /\ ChildrenOK' /\ ListOK'
      /\ \A d \in Children : req'[d] => req[d]
      /\ \A d \in Children : inside'[d] = inside[d] \/ inside'[d] = "no"
  BY <1>0, CloseLemma DEF ListOK
<1>2. ConnOK'
  BY <1>0 DEF ConnOK
<1>3. WiresOK'
  BY <1>0 DEF WiresOK
<1>4. ArmedOK'
  BY <1>0, <1>1 DEF ArmedOK
<1>5. WholeOK'
  BY <1>0, <1>1, WholeSame
<1> QED BY <1>1, <1>2, <1>3, <1>4, <1>5 DEF BaseInv

\* lws_mqtt_client_remove_subs() keeps entries.
LEMMA RemoveSubsType ==
  ASSUME subs \in Seq(Entry)
  PROVE  /\ lws_mqtt_client_remove_subs \in Seq(Entry)
         /\ \/ lws_mqtt_client_remove_subs = subs
            \/ \E i \in DOMAIN subs : i # 1 /\ subs[i].ref = 0
                                      /\ lws_mqtt_client_remove_subs = RemoveAt(subs, i)
<1>1. CASE Unused = {}
  BY <1>1 DEF lws_mqtt_client_remove_subs
<1>2. CASE Unused # {}
  <2>1. DOMAIN subs = 1..Len(subs) /\ Len(subs) \in Nat
    BY LenProperties
  <2>2. \E x \in Unused : \A y \in Unused : x <= y
    <3>1. Unused \subseteq Nat
      BY <2>1 DEF Unused
    <3> QED BY <1>2, <3>1, LeastNatural
  <2>3. PICK i : i = Min(Unused)
    OBVIOUS
  <2>4. i \in Unused
    BY <2>2, <2>3 DEF Min
  <2>5. i \in 1..Len(subs) /\ i # 1 /\ subs[i].ref = 0
    BY <2>1, <2>4 DEF Unused
  <2>6. lws_mqtt_client_remove_subs = RemoveAt(subs, i)
    BY <1>2, <2>3 DEF lws_mqtt_client_remove_subs
  <2>8. RemoveAt(subs, i) \in Seq(Entry)
    BY <2>1, <2>5, RemovedAt
  <2> QED BY <2>1, <2>5, <2>6, <2>8
<1> QED BY <1>1, <1>2

\* The first packets of a wire are lost.
LEMMA LostRest ==
  ASSUME NEW S, NEW seq \in Seq(S), NEW n \in 1..Len(seq)
  PROVE  LET l == SubSeq(seq, n + 1, Len(seq))
         IN  /\ l \in Seq(S) /\ Len(l) = Len(seq) - n /\ DOMAIN l = 1..(Len(seq) - n)
             /\ DOMAIN seq = 1..Len(seq) /\ Len(seq) \in Nat
             /\ \A k \in 1..(Len(seq) - n) : l[k] = seq[n + k] /\ n + k \in DOMAIN seq
<1> DEFINE l == SubSeq(seq, n + 1, Len(seq))
           m == Len(seq) - n
<1>1. DOMAIN seq = 1..Len(seq) /\ Len(seq) \in Nat /\ \A k \in 1..Len(seq) : seq[k] \in S
  BY LenProperties, ElementOfSeq
<1>2. m \in Nat /\ n \in Nat /\ \A k \in 1..m : n + k \in 1..Len(seq)
  BY <1>1
<1>3. l \in Seq(S) /\ Len(l) = m /\ \A k \in 1..m : l[k] = seq[n + k]
  <2>1. n + 1 \in Int /\ Len(seq) \in Int /\ \A k \in (n + 1)..Len(seq) : seq[k] \in S
    BY <1>1, <1>2
  <2>2. /\ l \in Seq(S)
        /\ Len(l) = IF n + 1 <= Len(seq) THEN Len(seq) - (n + 1) + 1 ELSE 0
        /\ \A k \in 1..(Len(seq) - (n + 1) + 1) : l[k] = seq[(n + 1) + k - 1]
    BY <2>1, SubSeqProperties
  <2> HIDE DEF l
  <2>3. Len(seq) - (n + 1) + 1 = m /\ \A k \in 1..m : (n + 1) + k - 1 = n + k
    BY <1>1, <1>2
  <2>4. n + 1 <= Len(seq) \/ m = 0
    <3>1. \A z \in Nat : \A k \in 1..z : k + 1 <= z \/ z - k = 0
      OBVIOUS
    <3> QED BY <1>1, <3>1
  <2> QED BY <1>2, <2>2, <2>3, <2>4
<1> HIDE DEF l
<1>4. DOMAIN l = 1..m
  BY <1>3, LenProperties
<1> QED BY <1>1, <1>2, <1>3, <1>4 DEF l

LEMMA RxBase == ASSUME BaseInv, _lws_mqtt_rx_parser PROVE BaseInv'
<1>0. ConnOK /\ ChildrenOK /\ WiresOK /\ ListOK /\ ArmedOK /\ WholeOK
  BY DEF BaseInv
<1>1. PICK p : p = Head(rx)
  OBVIOUS
<1>2. phase = "up" /\ ~walking /\ rx # <<>>
  BY DEF _lws_mqtt_rx_parser, Up
<1>3. /\ p \in Received /\ Tail(rx) \in Seq(Received) /\ Len(Tail(rx)) <= MaxWire
      /\ Len(rx) \in Nat \ {0}
  <2>1. rx \in Seq(Received) /\ Len(rx) <= MaxWire /\ MaxWire \in Nat
    BY <1>0, MqttAssumption DEF WiresOK
  <2> QED BY <1>1, <1>2, <2>1, HeadRead
<1>4. p.id \in Nat /\ p.tops \in SUBSET Topics /\ p.k \in ReadKinds
  BY <1>3 DEF Received
<1>5. CASE lws_close_free_wsi
  BY <1>5, DeadLemma
<1>6. p.k # "PUBLISH" /\ UNCHANGED phase => rx' = Tail(rx)
  BY <1>1, <1>2 DEF _lws_mqtt_rx_parser
<1>7. ASSUME p.k # "PUBLISH", NEW c \in Children, st[c] = "open", Answered(c), UNCHANGED phase,
             UNCHANGED <<ack, walking, ninside, subs, robbed, pktId, ping, puback, tx, bsubs, bopen, pubs>>,
             again' = again \/ again' = [again EXCEPT ![c] = FALSE],
             timer' = timer \/ timer' = [timer EXCEPT ![c] = FALSE],
             unacked' = unacked \/ unacked' = [unacked EXCEPT ![c] = FALSE],
             insub' = insub \/ insub' = [insub EXCEPT ![c] = FALSE],
             inunsub' = inunsub \/ inunsub' = [inunsub EXCEPT ![c] = FALSE],
             hup' = FALSE, nack' \in Nat
      PROVE  BaseInv'
  <2>1. PICK cs \in SUBSET {c} : ChildrenAsk(cs)
    BY <1>7 DEF Answered
  <2>2. UNCHANGED <<list, st, inside, kill, own, mine>>
    BY <1>7 DEF Answered
  <2>3. cs \subseteq {d \in Children : st[d] = "open"}
    BY <1>7
  <2>4. /\ again' \in [Children -> BOOLEAN] /\ \A d \in Children : again'[d] => again[d]
        /\ timer' \in [Children -> BOOLEAN] /\ \A d \in Children : timer'[d] => timer[d]
    BY <1>0, <1>7 DEF ChildrenOK
  <2>5. /\ unacked' \in [Children -> BOOLEAN] /\ \A d \in Children : unacked'[d] => unacked[d]
        /\ insub' \in [Children -> BOOLEAN] /\ \A d \in Children : insub'[d] => insub[d]
        /\ inunsub' \in [Children -> BOOLEAN] /\ \A d \in Children : inunsub'[d] => inunsub[d]
    BY <1>0, <1>7 DEF ChildrenOK
  <2>6. hup' \in BOOLEAN /\ puback' \in BOOLEAN /\ rx' = Tail(rx)
    BY <1>0, <1>6, <1>7 DEF ConnOK
  <2> QED BY <1>3, <1>7, <2>1, <2>2, <2>3, <2>4, <2>5, <2>6, ToldBase
<1>8. CASE p.k = "PUBACK"
  <2>1. RxPuback(p.id)
    BY <1>1, <1>8 DEF _lws_mqtt_rx_parser
  <2>2. CASE Asked(unacked, p.id) # {}
    <3>1. PICK c : c = list[Min(Asked(unacked, p.id))]
      OBVIOUS
    <3>2. c \in ToSet(list) /\ c \in Children /\ st[c] = "open"
      BY <1>0, <2>2, <3>1, AskedLemma
    <3>3. /\ \/ /\ Answered(c)
                /\ unacked' = [unacked EXCEPT ![c] = FALSE]
                /\ timer' = [timer EXCEPT ![c] = FALSE]
                /\ again' = [again EXCEPT ![c] = FALSE]
                /\ UNCHANGED <<insub, inunsub, ack, subs, robbed>>
             \/ AnswerCloses(c) /\ rops_close_role_mqtt(c, subs)
          /\ hup' = FALSE
          /\ UNCHANGED <<phase, walking, ninside, pktId, nack, puback, ping, tx, bsubs, bopen, pubs>>
      BY <2>1, <2>2, <3>1 DEF RxPuback, broker
    <3>4. nack' \in Nat /\ subs \in Seq(Entry) /\ robbed \subseteq Exposed
      BY <1>0, <3>3 DEF ConnOK
    <3>5. CASE /\ Answered(c)
               /\ unacked' = [unacked EXCEPT ![c] = FALSE]
               /\ timer' = [timer EXCEPT ![c] = FALSE]
               /\ again' = [again EXCEPT ![c] = FALSE]
               /\ UNCHANGED <<insub, inunsub, ack, subs, robbed>>
      BY <1>7, <1>8, <3>2, <3>3, <3>4, <3>5
    <3>6. CASE AnswerCloses(c) /\ rops_close_role_mqtt(c, subs)
      <4>1. subs' \in Seq(Entry) /\ robbed' \subseteq Exposed
        BY <1>0, <3>2, <3>4, <3>6, RoleCloses
      <4>2. rx' = Tail(rx)
        BY <1>6, <1>8, <3>3
      <4> QED BY <1>3, <3>2, <3>3, <3>4, <3>6, <4>1, <4>2, ClosesBase DEF AnswerCloses
    <3> QED BY <3>3, <3>5, <3>6
  <2> QED BY <1>5, <2>1, <2>2 DEF RxPuback
<1>9. CASE p.k = "SUBACK"
  <2>1. RxSuback(p.id)
    BY <1>1, <1>9 DEF _lws_mqtt_rx_parser
  <2>2. CASE ~lws_close_free_wsi
    <3>1. PICK c : c = list[Min(Asked(insub, p.id))]
      OBVIOUS
    <3>2. /\ Asked(insub, p.id) # {} /\ Answered(c)
          /\ insub' = [insub EXCEPT ![c] = FALSE]
          /\ nack' = p.id /\ hup' = FALSE
          /\ UNCHANGED <<unacked, inunsub, ack, timer, again, phase, walking, ninside, subs, robbed, pktId,
                         puback, ping, tx, bsubs, bopen, pubs>>
      BY <2>1, <2>2, <3>1 DEF RxSuback, broker, conn
    <3>3. c \in ToSet(list) /\ c \in Children /\ st[c] = "open"
      BY <1>0, <3>1, <3>2, AskedLemma
    <3> QED BY <1>4, <1>7, <1>9, <3>2, <3>3
  <2> QED BY <1>5, <2>2
<1>10. CASE p.k = "UNSUBACK"
  <2>1. RxUnsuback(p.id)
    BY <1>1, <1>10 DEF _lws_mqtt_rx_parser
  <2>2. CASE Asked(inunsub, p.id) # {}
    <3>1. PICK c : c = list[Min(Asked(inunsub, p.id))]
      OBVIOUS
    <3>2. c \in ToSet(list) /\ c \in Children /\ st[c] = "open"
      BY <1>0, <2>2, <3>1, AskedLemma
    <3>3. /\ \/ /\ Answered(c)
                /\ inunsub' = [inunsub EXCEPT ![c] = FALSE]
                /\ subs' = lws_mqtt_client_remove_subs
                /\ UNCHANGED <<unacked, insub, ack, timer, again, robbed>>
             \/ AnswerCloses(c) /\ rops_close_role_mqtt(c, lws_mqtt_client_remove_subs)
          /\ nack' = p.id
          /\ hup' = FALSE
          /\ UNCHANGED <<phase, walking, ninside, pktId, puback, ping, tx, bsubs, bopen, pubs>>
      BY <2>1, <2>2, <3>1 DEF RxUnsuback, broker
    <3>4. lws_mqtt_client_remove_subs \in Seq(Entry) /\ robbed \subseteq Exposed /\ rx' = Tail(rx)
      BY <1>0, <1>6, <1>10, <3>3, RemoveSubsType DEF ConnOK
    <3>5. CASE AnswerCloses(c) /\ rops_close_role_mqtt(c, lws_mqtt_client_remove_subs)
      <4>1. subs' \in Seq(Entry) /\ robbed' \subseteq Exposed
        BY <1>0, <3>2, <3>4, <3>5, RoleCloses
      <4> QED BY <1>3, <1>4, <3>2, <3>3, <3>4, <3>5, <4>1, ClosesBase DEF AnswerCloses
    <3>6. CASE /\ Answered(c)
               /\ inunsub' = [inunsub EXCEPT ![c] = FALSE]
               /\ subs' = lws_mqtt_client_remove_subs
               /\ UNCHANGED <<unacked, insub, ack, timer, again, robbed>>
      <4>1. PICK cs \in SUBSET {c} : ChildrenAsk(cs)
        BY <3>6 DEF Answered
      <4>2. UNCHANGED <<list, st, inside, kill, own, mine>>
        BY <3>6 DEF Answered
      <4>3. cs \subseteq {d \in Children : st[d] = "open"}
        BY <3>2
      <4>4. inunsub' \in [Children -> BOOLEAN] /\ \A d \in Children : inunsub'[d] => inunsub[d]
        BY <1>0, <3>6 DEF ChildrenOK
      <4>5. /\ req' \in [Children -> BOOLEAN] /\ nreq' \in BOOLEAN /\ pollout' \in BOOLEAN
            /\ \A d \in Children : req'[d] => req[d] \/ d \in cs
            /\ pollout => pollout'
            /\ \A d \in Children : req'[d] => pollout'
        BY <1>0, <1>2, <4>1, AskLemma DEF ConnOK
      <4>6. ChildrenOK'
        BY <1>0, <3>6, <4>2, <4>4, <4>5 DEF ChildrenOK
      <4>7. ListOK'
        BY <1>0, <3>6, <4>2, <4>3, <4>4, <4>5 DEF ListOK, Waits
      <4>8. ArmedOK'
        BY <1>2, <3>3, <4>5 DEF ArmedOK
      <4>9. ConnOK'
        BY <1>0, <1>4, <3>3, <3>4, <3>6, <4>5 DEF ConnOK
      <4>10. WiresOK'
        BY <1>0, <1>3, <3>3, <3>4 DEF WiresOK
      <4>11. WholeOK'
        BY <1>0, <3>3, <4>2, WholeSame
      <4> QED BY <4>6, <4>7, <4>8, <4>9, <4>10, <4>11 DEF BaseInv
    <3> QED BY <3>3, <3>5, <3>6
  <2> QED BY <1>5, <2>1, <2>2 DEF RxUnsuback
<1>11. CASE p.k = "PINGRESP"
  <2>1. RxPingresp
    BY <1>1, <1>11 DEF _lws_mqtt_rx_parser
  <2>2. /\ hup' = FALSE /\ rx' = Tail(rx)
        /\ UNCHANGED <<phase, list, st, req, inside, unacked, insub, inunsub, ack, timer, again, kill, own,
                       mine, nreq, pollout, walking, ninside, subs, robbed, pktId, nack, puback, ping, tx,
                       bsubs, bopen, pubs>>
    BY <1>6, <1>11, <2>1 DEF RxPingresp, mux, out, conn, broker
  <2>3. ChildrenOK' /\ ListOK'
    BY <1>0, <2>2 DEF ChildrenOK, ListOK, Waits
  <2>4. ConnOK' /\ ArmedOK'
    BY <1>0, <2>2 DEF ConnOK, ArmedOK
  <2>5. WiresOK'
    BY <1>0, <1>3, <2>2 DEF WiresOK
  <2>6. WholeOK'
    BY <1>0, <2>2, WholeSame
  <2> QED BY <2>3, <2>4, <2>5, <2>6 DEF BaseInv
<1>12. CASE p.k = "PUBLISH"
  <2>1. ASSUME NEW heard, heard \subseteq DOMAIN list
        PROVE  {list[i] : i \in heard} \subseteq {c \in Children : st[c] = "open"}
    BY <1>0, <2>1, ListOpen
  <2>2. \A tops : Listeners(tops) \subseteq DOMAIN list
    BY DEF Listeners
  <2>3. CASE RxPublish(p.id, p.tops) /\ (phase' = "up" => rx' = Tail(rx))
    <3>1. PICK heard \in SUBSET Listeners(p.tops) :
            LET cs == {list[i] : i \in heard} IN
            IF p.id = 0 THEN ChildrenAsk(cs) /\ UNCHANGED <<nack, puback, due>>
            ELSE BothAsk(cs) /\ nack' = p.id /\ puback' = TRUE /\ due' = due \cup {p.id}
      BY <2>3 DEF RxPublish
    <3>2. PICK cs : cs = {list[i] : i \in heard}
      OBVIOUS
    <3>3. cs \subseteq {c \in Children : st[c] = "open"}
      BY <2>1, <2>2, <3>2
    <3>4. /\ ChildrenAsk(cs) \/ BothAsk(cs)
          /\ nack' \in Nat /\ puback' \in BOOLEAN
      BY <1>0, <1>4, <3>1, <3>2 DEF ConnOK
    <3>5. UNCHANGED <<phase, list, st, inside, unacked, insub, inunsub, ack, timer, again, kill, own, mine,
                      walking, ninside, subs, robbed, pktId, ping, hup, tx, bsubs, bopen, pubs>>
      BY <2>3 DEF RxPublish, conn, broker
    <3>6. rx' = Tail(rx) /\ hup' \in BOOLEAN
      BY <1>0, <1>2, <2>3, <3>5 DEF ConnOK
    <3>7. /\ again' \in [Children -> BOOLEAN] /\ timer' \in [Children -> BOOLEAN]
          /\ unacked' \in [Children -> BOOLEAN] /\ insub' \in [Children -> BOOLEAN]
          /\ inunsub' \in [Children -> BOOLEAN]
      BY <1>0, <3>5 DEF ChildrenOK
    <3> QED BY <1>3, <3>3, <3>4, <3>5, <3>6, <3>7, ToldBase
  <2>4. CASE RxPublishFails(p.id, p.tops)
    <3>1. PICK heard \in SUBSET Listeners(p.tops) : ChildrenAsk({list[i] : i \in heard})
      BY <2>4 DEF RxPublishFails
    <3>2. PICK cs : cs = {list[i] : i \in heard}
      OBVIOUS
    <3>3. cs \subseteq {c \in Children : st[c] = "open"} /\ ChildrenAsk(cs)
      BY <2>1, <2>2, <3>1, <3>2
    <3>4. UNCHANGED <<phase, list, st, inside, unacked, insub, inunsub, ack, timer, again, kill, own, mine,
                      walking, ninside, subs, robbed, pktId, puback, ping, hup, tx, bsubs, bopen, pubs>>
      BY <2>4 DEF RxPublishFails, conn, broker
    <3>5. nack' \in Nat /\ hup' \in BOOLEAN /\ puback' \in BOOLEAN
      BY <1>0, <1>4, <2>4, <3>4 DEF ConnOK, RxPublishFails
    <3>6. PICK n \in 1..Len(rx) : rx' = SubSeq(rx, n + 1, Len(rx))
      BY <2>4 DEF RxPublishFails
    <3>7. rx' \in Seq(Received) /\ Len(rx') <= MaxWire
      <4>1. rx \in Seq(Received) /\ Len(rx) <= MaxWire /\ MaxWire \in Nat
        BY <1>0, MqttAssumption DEF WiresOK
      <4>2. rx' \in Seq(Received) /\ Len(rx') = Len(rx) - n
        BY <3>6, <4>1, LostRest
      <4> QED BY <1>3, <4>1, <4>2
    <3>8. /\ again' \in [Children -> BOOLEAN] /\ timer' \in [Children -> BOOLEAN]
          /\ unacked' \in [Children -> BOOLEAN] /\ insub' \in [Children -> BOOLEAN]
          /\ inunsub' \in [Children -> BOOLEAN]
      BY <1>0, <3>4 DEF ChildrenOK
    <3> QED BY <3>3, <3>4, <3>5, <3>7, <3>8, ToldBase
  <2> QED BY <1>1, <1>12, <2>3, <2>4 DEF _lws_mqtt_rx_parser
<1> QED BY <1>4, <1>8, <1>9, <1>10, <1>11, <1>12 DEF ReadKinds
-----------------------------------------------------------------------------
(* The other events *)

\* CONNACK comes: those that queued become children.
LEMMA ConnackBase == ASSUME BaseInv, RxConnack PROVE BaseInv'
<1>0. ConnOK /\ ChildrenOK /\ WiresOK /\ ListOK /\ ArmedOK /\ WholeOK
  BY DEF BaseInv
<1>1. /\ phase = "connack" /\ phase' = "up" /\ list' = Reverse(list)
      /\ UNCHANGED <<st, inside, unacked, insub, inunsub, ack, timer, again, kill, own, mine,
                     walking, ninside, subs, robbed, pktId, nack, puback, ping, hup, tx, rx, bsubs, bopen, pubs>>
  BY DEF RxConnack, conn, broker
<1>2. PICK asks \in BOOLEAN :
        /\ req' = [c \in Children |-> st[c] = "open" /\ (c = list[1] => asks)]
        /\ nreq' = (\E c \in Children : req'[c])
        /\ pollout' = nreq'
  BY DEF RxConnack
<1>3. /\ req' \in [Children -> BOOLEAN] /\ nreq' \in BOOLEAN /\ pollout' \in BOOLEAN
      /\ \A c \in Children : req'[c] => st[c] = "open" /\ pollout'
  BY <1>2
<1>4. list' \in Seq(Children) /\ NoDuplicates(list') /\ ToSet(list') = ToSet(list)
  BY <1>0, <1>1, TurnedRound DEF ListOK
<1>5. ChildrenOK'
  BY <1>0, <1>1, <1>3 DEF ChildrenOK
<1>6. ListOK'
  BY <1>0, <1>1, <1>3, <1>4 DEF ListOK, Waits
<1>7. ArmedOK'
  BY <1>0, <1>1, <1>3 DEF ArmedOK
<1>8. ConnOK' /\ WiresOK'
  BY <1>0, <1>1, <1>3 DEF ConnOK, WiresOK
<1>9. WholeOK'
  BY <1>0, <1>1, WholeSame
<1> QED BY <1>5, <1>6, <1>7, <1>8, <1>9 DEF BaseInv

\* A stream joins.
LEMMA AdoptBase == ASSUME BaseInv, NEW c \in Children, lws_wsi_mqtt_adopt(c) PROVE BaseInv'
<1>0. ConnOK /\ ChildrenOK /\ WiresOK /\ ListOK /\ ArmedOK /\ WholeOK
  BY DEF BaseInv
<1>1. /\ st[c] = "new" /\ ~walking /\ st' = [st EXCEPT ![c] = "open"]
      /\ UNCHANGED <<phase, inside, unacked, insub, inunsub, ack, timer, again, kill, own, mine,
                     walking, ninside, subs, robbed, pktId, nack, puback, ping, hup, tx, rx, bsubs, bopen, pubs>>
      /\ \/ phase = "up" /\ list' = <<c>> \o list /\ ChildrenAsk({c})
         \/ phase = "connack" /\ list' = Append(list, c) /\ UNCHANGED <<req, nreq, pollout>>
  BY DEF lws_wsi_mqtt_adopt, conn, broker
<1>2. c \notin ToSet(list) /\ list \in Seq(Children) /\ NoDuplicates(list)
  BY <1>0, <1>1 DEF ListOK
<1>3. list' \in Seq(Children) /\ NoDuplicates(list') /\ ToSet(list') = ToSet(list) \cup {c}
  <2>1. CASE list' = <<c>> \o list
    BY <1>2, <2>1, AtHead
  <2>2. CASE list' = Append(list, c)
    BY <1>2, <2>2, AtTail
  <2> QED BY <1>1, <2>1, <2>2
<1>4. /\ req' \in [Children -> BOOLEAN] /\ nreq' \in BOOLEAN /\ pollout' \in BOOLEAN
      /\ \A d \in Children : req'[d] => req[d] \/ d = c
      /\ phase = "up" => \A d \in Children : req'[d] => pollout'
  <2>1. CASE ChildrenAsk({c})
    BY <1>0, <2>1, AskLemma DEF ConnOK
  <2>2. CASE UNCHANGED <<req, nreq, pollout>>
    BY <1>0, <2>2 DEF ChildrenOK, ConnOK, ArmedOK
  <2> QED BY <1>1, <2>1, <2>2
<1>5. st' \in [Children -> {"new", "open", "closed"}] /\ \A d \in Children : st'[d] = IF d = c THEN "open" ELSE st[d]
  BY <1>0, <1>1 DEF ChildrenOK
<1>6. ChildrenOK'
  BY <1>0, <1>1, <1>4, <1>5 DEF ChildrenOK
<1>7. ListOK'
  BY <1>0, <1>1, <1>3, <1>4, <1>5 DEF ListOK, Waits
<1>8. ArmedOK'
  BY <1>0, <1>1, <1>4 DEF ArmedOK
<1>9. ConnOK' /\ WiresOK'
  BY <1>0, <1>1, <1>4 DEF ConnOK, WiresOK
<1>10. WholeOK'
  BY <1>0, <1>1, WholeSame
<1> QED BY <1>6, <1>7, <1>8, <1>9, <1>10 DEF BaseInv

\* A child asks for its callback, also because its PUBACK did not come.
LEMMA UserBase ==
  ASSUME BaseInv, NEW c \in Children, UserAsks(c) \/ lws_mqtt_publish_resend(c) PROVE BaseInv'
<1>0. ConnOK /\ ChildrenOK /\ WiresOK /\ ListOK /\ ArmedOK /\ WholeOK
  BY DEF BaseInv
<1>1. /\ st[c] = "open" /\ ~walking
      /\ UNCHANGED <<phase, list, st, inside, unacked, insub, inunsub, ack, own, mine,
                     walking, ninside, subs, robbed, pktId, nack, puback, ping, hup, tx, rx, bsubs, bopen, pubs>>
  BY <1>0 DEF UserAsks, lws_mqtt_publish_resend, conn, broker, ListOK, Up
<1>2. /\ timer' = timer \/ timer' = [timer EXCEPT ![c] = FALSE]
      /\ again' = again \/ again' = [again EXCEPT ![c] = TRUE]
      /\ kill' = kill \/ kill' = [kill EXCEPT ![c] = TRUE]
      /\ ChildrenAsk({c}) \/ UNCHANGED <<req, nreq, pollout>>
  BY DEF UserAsks, lws_mqtt_publish_resend
<1>3. /\ timer' \in [Children -> BOOLEAN] /\ again' \in [Children -> BOOLEAN]
      /\ kill' \in [Children -> BOOLEAN]
      /\ \A d \in Children : d # c => timer'[d] = timer[d] /\ again'[d] = again[d] /\ kill'[d] = kill[d]
  BY <1>0, <1>2 DEF ChildrenOK
<1>4. /\ req' \in [Children -> BOOLEAN] /\ nreq' \in BOOLEAN /\ pollout' \in BOOLEAN
      /\ \A d \in Children : req'[d] => req[d] \/ d = c
      /\ phase = "up" => \A d \in Children : req'[d] => pollout'
  <2>1. CASE ChildrenAsk({c})
    BY <1>0, <2>1, AskLemma DEF ConnOK
  <2>2. CASE UNCHANGED <<req, nreq, pollout>>
    BY <1>0, <2>2 DEF ChildrenOK, ConnOK, ArmedOK
  <2> QED BY <1>2, <2>1, <2>2
<1>5. ChildrenOK'
  BY <1>0, <1>1, <1>3, <1>4 DEF ChildrenOK
<1>6. ListOK'
  BY <1>0, <1>1, <1>3, <1>4 DEF ListOK, Waits
<1>7. ArmedOK'
  BY <1>0, <1>1, <1>4 DEF ArmedOK
<1>8. ConnOK' /\ WiresOK'
  BY <1>0, <1>1, <1>4 DEF ConnOK, WiresOK
<1>9. WholeOK'
  BY <1>0, <1>1, WholeSame
<1> QED BY <1>5, <1>6, <1>7, <1>8, <1>9 DEF BaseInv

LEMMA KillBase == ASSUME BaseInv, NEW c \in Children, KillAsync(c) PROVE BaseInv'
<1>0. ConnOK /\ ChildrenOK /\ WiresOK /\ ListOK
  BY DEF BaseInv
<1>1. /\ CloseChild(c, list)
      /\ rops_close_role_mqtt(c, subs)
      /\ UNCHANGED <<phase, nreq, pollout, walking, ninside, pktId, nack, puback, ping, hup, tx, rx,
                     bsubs, bopen, pubs>>
  BY DEF KillAsync, out, broker
<1>2. c \in ToSet(list)
  BY <1>0 DEF KillAsync, ListOK
<1>3. rx' \in Seq(Received) /\ Len(rx') <= MaxWire /\ hup' \in BOOLEAN /\ nack' \in Nat
  BY <1>0, <1>1 DEF ConnOK, WiresOK
<1>4. subs' \in Seq(Entry) /\ robbed' \subseteq Exposed
  BY <1>0, <1>1, RoleCloses DEF ConnOK
<1> QED BY <1>1, <1>2, <1>3, <1>4, ClosesBase

LEMMA KeepaliveBase == ASSUME BaseInv, rops_issue_keepalive_mqtt PROVE BaseInv'
<1>0. ConnOK /\ ChildrenOK /\ WiresOK /\ ListOK /\ ArmedOK /\ WholeOK
  BY DEF BaseInv
<1>1. /\ hup' = TRUE /\ ping' = TRUE /\ nreq' = TRUE /\ pollout' = (pollout \/ ~nreq)
      /\ UNCHANGED <<phase, list, st, req, inside, unacked, insub, inunsub, ack, timer, again, kill, own, mine,
                     walking, ninside, subs, robbed, pktId, nack, puback, tx, rx, bsubs, bopen, pubs>>
  BY DEF rops_issue_keepalive_mqtt, rops_callback_on_writable_mqtt, mux, conn, broker
<1>2. ChildrenOK' /\ ListOK'
  BY <1>0, <1>1 DEF ChildrenOK, ListOK, Waits
<1>3. ConnOK' /\ WiresOK'
  BY <1>0, <1>1 DEF ConnOK, WiresOK
<1>4. ArmedOK'
  BY <1>0, <1>1 DEF ArmedOK
<1>5. WholeOK'
  BY <1>0, <1>1, WholeSame
<1> QED BY <1>2, <1>3, <1>4, <1>5 DEF BaseInv

\* What the broker answers.
LEMMA ReplyLemma ==
  ASSUME NEW p \in Sent
  PROVE  \/ Reply(p) = <<>>
         \/ \E r \in Received :
              /\ Reply(p) = <<r>> /\ r.id = p.id /\ r.from = p.from /\ Seeking(p)
              /\ \/ p.k \in {"WHOLE", "TAIL"} /\ r.k = "PUBACK"
                 \/ p.k = "SUB" /\ r.k = "SUBACK"
                 \/ p.k = "UNSUB" /\ r.k = "UNSUBACK"
         \/ \E r \in Received : Reply(p) = <<r>> /\ r.k = "PINGRESP" /\ ~Seeking(r)
<1>0. /\ p.k \in SentKinds /\ p.id \in Nat /\ p.from \in Children \cup {None}
      /\ (p.k \in {"PUBACK", "PING"}) = (p.from = None) /\ (p.k \in {"SUB", "UNSUB"} => p.id # 0)
  BY DEF Sent
<1>1. ASSUME NEW k \in {"PUBACK", "SUBACK", "UNSUBACK"}, p.id # 0, p.from # None
      PROVE  /\ Packet(k, p.id, p.from, {}) \in Received
             /\ Packet(k, p.id, p.from, {}).k = k /\ Packet(k, p.id, p.from, {}).id = p.id
             /\ Packet(k, p.id, p.from, {}).from = p.from
  BY <1>0, <1>1 DEF Packet, Received, ReadKinds
<1>2. CASE p.k \in {"WHOLE", "TAIL"} /\ p.id # 0
  <2>1. Reply(p) = <<Packet("PUBACK", p.id, p.from, {})>>
    BY <1>2 DEF Reply
  <2>2. p.from # None /\ Seeking(p)
    BY <1>0, <1>2 DEF Seeking
  <2> QED BY <1>1, <1>2, <2>1, <2>2
<1>3. CASE p.k = "SUB"
  <2>1. Reply(p) = <<Packet("SUBACK", p.id, p.from, {})>>
    BY <1>3 DEF Reply
  <2>2. p.from # None /\ Seeking(p)
    BY <1>0, <1>3 DEF Seeking
  <2> QED BY <1>0, <1>1, <1>3, <2>1, <2>2
<1>4. CASE p.k = "UNSUB"
  <2>1. Reply(p) = <<Packet("UNSUBACK", p.id, p.from, {})>>
    BY <1>4 DEF Reply
  <2>2. p.from # None /\ Seeking(p)
    BY <1>0, <1>4 DEF Seeking
  <2> QED BY <1>0, <1>1, <1>4, <2>1, <2>2
<1>5. CASE p.k = "PING"
  <2>1. Reply(p) = <<Packet("PINGRESP", 0, None, {})>>
    BY <1>5 DEF Reply
  <2>2. /\ Packet("PINGRESP", 0, None, {}) \in Received
        /\ Packet("PINGRESP", 0, None, {}).k = "PINGRESP" /\ Packet("PINGRESP", 0, None, {}).from = None
    BY DEF Packet, Received, ReadKinds
  <2> QED BY <2>1, <2>2 DEF Seeking
<1>6. CASE ~(p.k \in {"WHOLE", "TAIL"} /\ p.id # 0) /\ p.k \notin {"SUB", "UNSUB", "PING"}
  BY <1>6 DEF Reply
<1> QED BY <1>2, <1>3, <1>4, <1>5, <1>6

LEMMA BrokerBase == ASSUME BaseInv, BrokerReads \/ BrokerPublishes PROVE BaseInv'
<1>0. ConnOK /\ ChildrenOK /\ WiresOK /\ ListOK /\ ArmedOK /\ WholeOK
  BY DEF BaseInv
<1>1. /\ UNCHANGED <<phase, list, st, req, inside, unacked, insub, inunsub, ack, timer, again, kill, own, mine,
                     nreq, pollout, walking, ninside, subs, robbed, pktId, nack, puback, ping, hup>>
      /\ Len(rx) < MaxWire
  BY DEF BrokerReads, BrokerPublishes, mux, out, conn
<1>2. ChildrenOK' /\ ListOK' /\ ArmedOK'
  BY <1>0, <1>1 DEF ChildrenOK, ListOK, Waits, ArmedOK
<1>3. tx \in Seq(Sent) /\ rx \in Seq(Received) /\ Len(rx) \in Nat /\ MaxWire \in Nat /\ Len(tx) <= MaxWire
  BY <1>0, LenProperties, MqttAssumption DEF WiresOK
<1>4. ASSUME NEW r \in Received, rx' = Append(rx, r) PROVE rx' \in Seq(Received) /\ Len(rx') <= MaxWire
  BY <1>1, <1>3, <1>4, Appended
<1>5. CASE BrokerReads
  <2>1. PICK p : p = Head(tx)
    OBVIOUS
  <2>2. /\ tx # <<>> /\ tx' = Tail(tx) /\ rx' = rx \o Reply(p) /\ UNCHANGED pubs
        /\ bsubs' = CASE p.k = "SUB" -> bsubs \cup p.tops [] p.k = "UNSUB" -> bsubs \ p.tops [] OTHER -> bsubs
        /\ bopen' = CASE p.k = "HEAD" -> p.from [] p.k = "TAIL" -> None [] OTHER -> bopen
    BY <1>5, <2>1 DEF BrokerReads
  <2>3. /\ tx' \in Seq(Sent) /\ Len(tx') = Len(tx) - 1 /\ Len(tx) \in Nat \ {0} /\ p \in Sent
    BY <1>3, <2>1, <2>2, HeadRead
  <2>4. rx' \in Seq(Received) /\ Len(rx') <= MaxWire
    <3>1. CASE Reply(p) = <<>>
      <4>1. rx' = rx
        BY <1>3, <2>2, <3>1, ConcatEmptySeq
      <4> QED BY <1>1, <1>3, <4>1
    <3>2. CASE \E r \in Received : Reply(p) = <<r>>
      <4>1. PICK r \in Received : Reply(p) = <<r>>
        BY <3>2
      <4>2. rx' = Append(rx, r)
        BY <1>3, <2>2, <4>1
      <4> QED BY <1>4, <4>2
    <3> QED BY <2>3, <3>1, <3>2, ReplyLemma
  <2>5. WholeOK'
    BY <1>0, <1>1, <1>3, <2>1, <2>2, WholeRead
  <2>6. WiresOK'
    BY <1>3, <2>3, <2>4, MqttAssumption DEF WiresOK
  <2>7. p.tops \subseteq Topics /\ p.from \in Children \cup {None}
    BY <2>3 DEF Sent
  <2>8. bsubs' \subseteq Topics /\ bopen' \in Children \cup {None}
    BY <1>0, <2>2, <2>7 DEF ConnOK
  <2>9. ConnOK'
    BY <1>0, <1>1, <2>2, <2>8 DEF ConnOK
  <2> QED BY <1>2, <2>5, <2>6, <2>9 DEF BaseInv
<1>6. CASE BrokerPublishes
  <2>1. PICK t \in bsubs, q \in {0, 1} : rx' = Append(rx, Packet("PUBLISH", q * (MaxId + pubs'), None, {t}))
    BY <1>6 DEF BrokerPublishes
  <2>2. pubs < MaxPubs /\ pubs' = pubs + 1 /\ UNCHANGED <<tx, bsubs, bopen>>
    BY <1>6 DEF BrokerPublishes
  <2>3. pubs' \in 0..MaxPubs /\ q * (MaxId + pubs') \in Nat
    <3>1. pubs' \in 0..MaxPubs /\ MaxId + pubs' \in Nat
      BY <1>0, <2>2, MqttAssumption DEF ConnOK
    <3>2. q = 0 \/ q = 1
      OBVIOUS
    <3> QED BY <3>1, <3>2
  <2>4. {t} \in SUBSET Topics
    BY <1>0 DEF ConnOK
  <2> DEFINE id == q * (MaxId + pubs')
  <2> HIDE DEF id
  <2>5. Packet("PUBLISH", id, None, {t}) \in Received
    BY <2>3, <2>4 DEF Packet, Received, ReadKinds, id
  <2>6. rx' = Append(rx, Packet("PUBLISH", id, None, {t}))
    BY <2>1 DEF id
  <2>7. rx' \in Seq(Received) /\ Len(rx') <= MaxWire
    BY <1>4, <2>5, <2>6
  <2>8. ConnOK' /\ WiresOK'
    BY <1>0, <1>1, <2>2, <2>3, <2>7 DEF ConnOK, WiresOK
  <2>9. WholeOK'
    BY <1>0, <1>1, <2>2, WholeSame
  <2> QED BY <1>2, <2>8, <2>9 DEF BaseInv
<1> QED BY <1>5, <1>6

LEMMA BaseStart == MqttInit => BaseInv
<1> SUFFICES ASSUME MqttInit PROVE BaseInv
  OBVIOUS
<1>0. First \in Children /\ MaxId \in Nat /\ MaxPubs \in Nat /\ MaxWire \in Nat
  BY MqttAssumption
<1>1. ConnOK
  <2>1. subs = <<>> /\ <<>> \in Seq(Entry) /\ bsubs \subseteq Topics
    BY DEF MqttInit
  <2>2. 0 \in 0..MaxId /\ 0 \in 0..MaxPubs
    BY <1>0
  <2> QED BY <2>1, <2>2 DEF MqttInit, ConnOK
<1>2. No \in [Children -> BOOLEAN] /\ \A c \in Children : ~No[c]
  BY DEF No
<1>3. ChildrenOK
  BY <1>0, <1>2 DEF MqttInit, ChildrenOK
<1>4. WiresOK
  BY <1>0, EmptySeq DEF MqttInit, WiresOK
<1>5. ListOK
  <2>1. list = <<First>> /\ list \in Seq(Children) /\ ToSet(list) = {First} /\ NoDuplicates(list)
    BY <1>0 DEF MqttInit, ToSet, NoDuplicates
  <2>2. \A c \in Children : (st[c] = "open") = (c = First)
    BY DEF MqttInit
  <2> QED BY <1>0, <1>2, <2>1, <2>2 DEF MqttInit, ListOK, Waits
<1>6. ArmedOK
  BY DEF MqttInit, ArmedOK
<1>7. WholeOK
  <2>1. tx = <<>> /\ Len(tx) = 0 /\ DOMAIN tx = {} /\ ninside = FALSE /\ bopen = None
    BY DEF MqttInit
  <2>2. Half(Len(tx) + 1) = None
    BY <2>1 DEF Half
  <2> QED BY <2>1, <2>2 DEF WholeOK, MqttInit
<1> QED BY <1>1, <1>3, <1>4, <1>5, <1>6, <1>7 DEF BaseInv

LEMMA BaseNext == BaseInv /\ [MqttNext]_mqttVars => BaseInv'
<1> SUFFICES ASSUME BaseInv, [MqttNext]_mqttVars PROVE BaseInv'
  OBVIOUS
<1>1. CASE UNCHANGED mqttVars
  <2>1. UNCHANGED <<phase, list, st, req, inside, unacked, insub, inunsub, ack, timer, again, kill, own, mine,
                    nreq, pollout, walking, ninside, subs, robbed, pktId, nack, puback, ping, hup, tx, rx,
                    bsubs, bopen, pubs>>
    BY <1>1 DEF mqttVars, mux, out, conn, broker
  <2>2. ChildrenOK' /\ ListOK'
    BY <2>1 DEF BaseInv, ChildrenOK, ListOK, Waits
  <2>3. ConnOK' /\ ArmedOK' /\ WiresOK'
    BY <2>1 DEF BaseInv, ConnOK, ArmedOK, WiresOK
  <2>4. WholeOK'
    BY <2>1, WholeSame DEF BaseInv
  <2> QED BY <2>2, <2>3, <2>4 DEF BaseInv
<1>2. CASE ConnectFails \/ lws_validity_cb
  BY <1>2, DeadLemma DEF ConnectFails, lws_validity_cb
<1>3. CASE RxConnack
  BY <1>3, ConnackBase
<1>4. CASE rops_handle_POLLOUT_mqtt \/ WalkOn
  BY <1>4, PolloutBase
<1>5. CASE _lws_mqtt_rx_parser
  BY <1>5, RxBase
<1>6. CASE rops_issue_keepalive_mqtt
  BY <1>6, KeepaliveBase
<1>7. CASE BrokerReads \/ BrokerPublishes
  BY <1>7, BrokerBase
<1>8. CASE \E c \in Children : lws_wsi_mqtt_adopt(c) \/ UserAsks(c) \/ lws_mqtt_publish_resend(c) \/ KillAsync(c)
  BY <1>8, AdoptBase, UserBase, KillBase
<1> QED BY <1>1, <1>2, <1>3, <1>4, <1>5, <1>6, <1>7, <1>8 DEF MqttNext

\* What holds of the connection, its children, the wires and POLLOUT always
\* holds, whatever the streams ask and whoever closes.
THEOREM BaseInvariant == MqttSpec => []BaseInv
<1>1. MqttInit => BaseInv
  BY BaseStart
<1>2. BaseInv /\ [MqttNext]_mqttVars => BaseInv'
  BY BaseNext
<1> QED BY <1>1, <1>2, PTL DEF MqttSpec

-----------------------------------------------------------------------------
(* Who waits for which id, step by step *)

\* A packet is read, the first ones are lost, or one without an id is sent.
Quieter(S, a, b) ==
  \/ b = a
  \/ a # <<>> /\ b = Tail(a)
  \/ \E n \in 1..Len(a) : b = SubSeq(a, n + 1, Len(a))
  \/ \E x \in S : ~Seeking(x) /\ b = Append(a, x)

LEMMA TailIds ==
  ASSUME NEW S, NEW a \in Seq(S), a # <<>>, Unique(a)
  PROVE  /\ Unique(Tail(a)) /\ Ids(Tail(a)) \subseteq Ids(a)
         /\ ToSet(Tail(a)) \subseteq ToSet(a)
         /\ Head(a) \in ToSet(a)
         /\ Seeking(Head(a)) => Head(a).id \in Ids(a) /\ Head(a).id \notin Ids(Tail(a))
<1> DEFINE n == Len(a) - 1
           b == Tail(a)
<1>1. /\ n \in Nat /\ DOMAIN b = 1..n /\ DOMAIN a = 1..(n + 1)
      /\ \A k \in 1..n : k + 1 \in DOMAIN a /\ b[k] = a[k + 1]
      /\ Head(a) = a[1] /\ 1 \in DOMAIN a
  BY HeadRead
<1> HIDE DEF n, b
<1>2. Unique(b)
  <2> SUFFICES ASSUME NEW i \in 1..n, NEW j \in 1..n, Seeking(b[i]), Seeking(b[j]), b[i].id = b[j].id
               PROVE  i = j
    BY <1>1 DEF Unique
  <2>1. i + 1 = j + 1
    <3>1. i + 1 \in DOMAIN a /\ j + 1 \in DOMAIN a /\ a[i + 1] = b[i] /\ a[j + 1] = b[j]
      BY <1>1
    <3> QED BY <3>1 DEF Unique
  <2> QED BY <1>1, <2>1
<1>3. Ids(b) \subseteq Ids(a) /\ ToSet(b) \subseteq ToSet(a) /\ Head(a) \in ToSet(a)
  BY <1>1 DEF Ids, ToSet
<1>4. ASSUME Seeking(Head(a)) PROVE Head(a).id \in Ids(a) /\ Head(a).id \notin Ids(b)
  <2>1. Head(a).id \in Ids(a)
    BY <1>1, <1>4 DEF Ids
  <2>2. ASSUME NEW i \in 1..n, Seeking(b[i]) PROVE b[i].id # Head(a).id
    <3>1. i + 1 # 1
      BY <1>1
    <3> QED BY <1>1, <1>4, <2>2, <3>1 DEF Unique
  <2> QED BY <1>1, <2>1, <2>2 DEF Ids
<1> QED BY <1>2, <1>3, <1>4 DEF b

LEMMA LostIds ==
  ASSUME NEW S, NEW a \in Seq(S), Unique(a), NEW n \in 1..Len(a)
  PROVE  LET b == SubSeq(a, n + 1, Len(a))
         IN  Unique(b) /\ Ids(b) \subseteq Ids(a) /\ ToSet(b) \subseteq ToSet(a)
<1> DEFINE b == SubSeq(a, n + 1, Len(a))
           m == Len(a) - n
<1>1. /\ DOMAIN b = 1..m /\ m \in Int /\ n \in Int
      /\ \A k \in 1..m : b[k] = a[n + k] /\ n + k \in DOMAIN a
  BY LostRest
<1> HIDE DEF m, b
<1>2. Unique(b)
  <2> SUFFICES ASSUME NEW i \in 1..m, NEW j \in 1..m, Seeking(b[i]), Seeking(b[j]), b[i].id = b[j].id
               PROVE  i = j
    BY <1>1 DEF Unique
  <2>1. n + i = n + j
    <3>1. n + i \in DOMAIN a /\ n + j \in DOMAIN a /\ a[n + i] = b[i] /\ a[n + j] = b[j]
      BY <1>1
    <3> QED BY <3>1 DEF Unique
  <2> QED BY <1>1, <2>1
<1>3. Ids(b) \subseteq Ids(a) /\ ToSet(b) \subseteq ToSet(a)
  BY <1>1 DEF Ids, ToSet
<1> QED BY <1>2, <1>3 DEF b

LEMMA AppendIds ==
  ASSUME NEW S, NEW a \in Seq(S), NEW x \in S, Unique(a), Seeking(x) => x.id \notin Ids(a)
  PROVE  /\ Unique(Append(a, x))
         /\ Ids(Append(a, x)) = Ids(a) \cup (IF Seeking(x) THEN {x.id} ELSE {})
         /\ ToSet(Append(a, x)) = ToSet(a) \cup {x}
<1> DEFINE n == Len(a)
           b == Append(a, x)
<1>1. /\ n \in Nat /\ DOMAIN b = 1..(n + 1) /\ DOMAIN a = 1..n
      /\ \A k \in 1..n : b[k] = a[k]
      /\ b[n + 1] = x
  BY Appended
<1> HIDE DEF n, b
<1>2. \A k \in 1..(n + 1) : k \in 1..n \/ k = n + 1
  BY <1>1
<1>3. \A k \in 1..n : k \in 1..(n + 1)
  BY <1>1
<1>4. n + 1 \in 1..(n + 1)
  BY <1>1
<1>5. ASSUME NEW i \in 1..n, Seeking(x), Seeking(a[i]) PROVE a[i].id # x.id
  BY <1>1, <1>5 DEF Ids
<1>6. Unique(b)
  <2> SUFFICES ASSUME NEW i \in 1..(n + 1), NEW j \in 1..(n + 1), Seeking(b[i]), Seeking(b[j]), b[i].id = b[j].id
               PROVE  i = j
    BY <1>1 DEF Unique
  <2>1. CASE i \in 1..n /\ j \in 1..n
    BY <1>1, <2>1 DEF Unique
  <2>2. CASE i \in 1..n /\ j = n + 1
    BY <1>1, <1>5, <2>2
  <2>3. CASE i = n + 1 /\ j \in 1..n
    BY <1>1, <1>5, <2>3
  <2> QED BY <1>2, <2>1, <2>2, <2>3
<1>7. ToSet(b) = ToSet(a) \cup {x}
  BY <1>1, <1>2, <1>3, <1>4 DEF ToSet
<1>8. Ids(b) = Ids(a) \cup (IF Seeking(x) THEN {x.id} ELSE {})
  <2>1. ASSUME NEW y \in Ids(b) PROVE y \in Ids(a) \cup (IF Seeking(x) THEN {x.id} ELSE {})
    <3>1. PICK i \in 1..(n + 1) : Seeking(b[i]) /\ y = b[i].id
      BY <1>1 DEF Ids
    <3> QED BY <1>1, <1>2, <3>1 DEF Ids
  <2>2. ASSUME NEW y \in Ids(a) PROVE y \in Ids(b)
    <3>1. PICK i \in 1..n : Seeking(a[i]) /\ y = a[i].id
      BY <1>1 DEF Ids
    <3> QED BY <1>1, <1>3, <3>1 DEF Ids
  <2>3. Seeking(x) => x.id \in Ids(b)
    BY <1>1, <1>4 DEF Ids
  <2> QED BY <2>1, <2>2, <2>3
<1> QED BY <1>6, <1>7, <1>8 DEF b

LEMMA QuieterIds ==
  ASSUME NEW S, NEW a \in Seq(S), NEW b, Unique(a), Quieter(S, a, b)
  PROVE  /\ Unique(b) /\ Ids(b) \subseteq Ids(a)
         /\ \A p \in ToSet(b) : Seeking(p) => p \in ToSet(a)
<1>1. CASE b = a
  BY <1>1
<1>2. CASE a # <<>> /\ b = Tail(a)
  BY <1>2, TailIds
<1>3. CASE \E x \in S : ~Seeking(x) /\ b = Append(a, x)
  <2>1. PICK x \in S : ~Seeking(x) /\ b = Append(a, x)
    BY <1>3
  <2>2. /\ Unique(b)
        /\ Ids(b) = Ids(a) \cup (IF Seeking(x) THEN {x.id} ELSE {})
        /\ ToSet(b) = ToSet(a) \cup {x}
    BY <2>1, AppendIds
  <2> QED BY <2>1, <2>2
<1>4. CASE \E n \in 1..Len(a) : b = SubSeq(a, n + 1, Len(a))
  BY <1>4, LostIds
<1> QED BY <1>1, <1>2, <1>3, <1>4 DEF Quieter

\* A packet whose child is as it was, has closed, or got another answer.
LEMMA StillExpected ==
  ASSUME NEW p, Expected(p), UNCHANGED <<ack, pktId>>,
         Seeking(p) =>
           \/ /\ st'[p.from] = st[p.from] /\ insub'[p.from] = insub[p.from]
              /\ inunsub'[p.from] = inunsub[p.from] /\ unacked'[p.from] = unacked[p.from]
              /\ inside'[p.from] = inside[p.from] \/ inside'[p.from] # "q1"
           \/ st'[p.from] = "closed" /\ inside'[p.from] = "no"
           \/ /\ st'[p.from] = st[p.from] /\ inside'[p.from] = inside[p.from]
              /\ p.id # ack[p.from]
           \/ st[p.from] = "new"
  PROVE  Expected(p)'
BY DEF Expected, Seeking

LEMMA OldPackets ==
  ASSUME WiresOK, NEW p \in ToSet(tx) \cup ToSet(rx)
  PROVE  p \in Sent \cup Received /\ p.from \in Children \cup {None} /\ p.id \in Nat
<1>1. p \in Sent \cup Received
  <2>1. \A i \in DOMAIN tx : tx[i] \in Sent
    BY ElementOfSeq, LenProperties DEF WiresOK
  <2>2. \A i \in DOMAIN rx : rx[i] \in Received
    BY ElementOfSeq, LenProperties DEF WiresOK
  <2> QED BY <2>1, <2>2 DEF ToSet
<1> QED BY <1>1 DEF Sent, Received

\* Nothing with an id is sent, and who waits still waits or has closed.
LEMMA QuietIds ==
  ASSUME WiresOK, AcksOK, IdsOK, UNCHANGED <<ack, pktId>>,
         Quieter(Sent, tx, tx'), Quieter(Received, rx, rx'),
         \A d \in Children :
           \/ /\ st'[d] = st[d] /\ insub'[d] = insub[d] /\ inunsub'[d] = inunsub[d]
              /\ unacked'[d] = unacked[d] /\ (inside'[d] = inside[d] \/ inside'[d] # "q1")
           \/ st'[d] = "closed" /\ inside'[d] = "no"
           \/ st[d] = "new"
  PROVE  AcksOK' /\ IdsOK'
<1>1. AcksOK'
  BY DEF AcksOK
<1>2. /\ Unique(tx') /\ Ids(tx') \subseteq Ids(tx)
      /\ \A p \in ToSet(tx') : Seeking(p) => p \in ToSet(tx)
  BY QuieterIds DEF IdsOK, WiresOK
<1>3. /\ Unique(rx') /\ Ids(rx') \subseteq Ids(rx)
      /\ \A p \in ToSet(rx') : Seeking(p) => p \in ToSet(rx)
  BY QuieterIds DEF IdsOK, WiresOK
<1>4. ASSUME NEW p \in ToSet(tx') \cup ToSet(rx') PROVE Expected(p)'
  <2>1. CASE ~Seeking(p)
    BY <2>1 DEF Expected
  <2>2. CASE Seeking(p)
    <3>1. p \in ToSet(tx) \cup ToSet(rx)
      BY <1>2, <1>3, <2>2
    <3>2. Expected(p) /\ p.from \in Children
      BY <2>2, <3>1, OldPackets DEF IdsOK, Seeking
    <3> QED BY <3>2, StillExpected
  <2> QED BY <2>1, <2>2
<1>5. Ids(tx') \cap Ids(rx') = {}
  BY <1>2, <1>3 DEF IdsOK
<1> QED BY <1>1, <1>2, <1>3, <1>4, <1>5 DEF IdsOK

\* Child c gets the answer that is read.
LEMMA AnsweredIds ==
  ASSUME WiresOK, AcksOK, IdsOK, UNCHANGED <<ack, pktId, st, inside, tx>>,
         rx # <<>>, rx' = Tail(rx), Seeking(Head(rx)),
         NEW c \in Children, ack[c] = Head(rx).id,
         \A d \in Children \ {c} : insub'[d] = insub[d] /\ inunsub'[d] = inunsub[d] /\ unacked'[d] = unacked[d]
  PROVE  AcksOK' /\ IdsOK'
<1>1. AcksOK'
  BY DEF AcksOK
<1>2. /\ Unique(rx') /\ Ids(rx') \subseteq Ids(rx) /\ ToSet(rx') \subseteq ToSet(rx)
      /\ Head(rx).id \in Ids(rx) /\ Head(rx).id \notin Ids(rx')
  BY TailIds DEF IdsOK, WiresOK
<1>3. Unique(tx') /\ Ids(tx') = Ids(tx) /\ Ids(tx) \cap Ids(rx) = {} /\ ToSet(tx') = ToSet(tx)
  BY DEF IdsOK
<1>4. ASSUME NEW p \in ToSet(tx') \cup ToSet(rx') PROVE Expected(p)'
  <2>1. CASE ~Seeking(p)
    BY <2>1 DEF Expected
  <2>2. CASE Seeking(p)
    <3>1. p \in ToSet(tx) \cup ToSet(rx)
      BY <1>2, <1>3
    <3>2. Expected(p) /\ p.from \in Children
      BY <2>2, <3>1, OldPackets DEF IdsOK, Seeking
    <3>3. p.id \in Ids(tx') \cup Ids(rx')
      BY <2>2 DEF Ids, ToSet
    <3>4. p.id # ack[c]
      BY <1>2, <1>3, <3>3
    <3>5. CASE p.from = c
      BY <3>2, <3>4, <3>5, StillExpected
    <3>6. CASE p.from # c
      BY <3>2, <3>6, StillExpected
    <3> QED BY <3>5, <3>6
  <2> QED BY <2>1, <2>2
<1>5. Ids(tx') \cap Ids(rx') = {}
  BY <1>2, <1>3
<1> QED BY <1>1, <1>2, <1>3, <1>4, <1>5 DEF IdsOK

\* Child c takes a new id: old packets are older.
LEMMA NewIdExpected ==
  ASSUME ConnOK, ChildrenOK, WiresOK, AcksOK, IdsOK, NEW c \in Children, ~insub[c], ~inunsub[c],
         pktId' = pktId + 1, ack' = [ack EXCEPT ![c] = pktId'], UNCHANGED st,
         \A d \in Children \ {c} :
           /\ insub'[d] = insub[d] /\ inunsub'[d] = inunsub[d] /\ unacked'[d] = unacked[d]
           /\ inside'[d] = inside[d]
  PROVE  /\ AcksOK'
         /\ \A p \in ToSet(tx) \cup ToSet(rx) : Expected(p)' /\ (Seeking(p) => p.id # pktId')
         /\ \A d \in Children : ack'[d] = pktId' => d = c
         /\ pktId' # 0
<1>1. pktId \in Nat /\ pktId' \in Nat /\ pktId < pktId' /\ pktId' # 0
  BY MqttAssumption DEF ConnOK
<1>2. \A d \in Children : ack[d] \in Nat /\ ack'[d] = IF d = c THEN pktId' ELSE ack[d]
  BY MqttAssumption DEF ChildrenOK
<1>3. \A d \in Children : ack[d] <= pktId
  BY DEF AcksOK
<1>4. \A d \in Children : ack'[d] = pktId' => d = c
  BY <1>1, <1>2, <1>3
<1>5. AcksOK'
  <2>1. \A d \in Children : ack'[d] <= pktId'
    BY <1>1, <1>2, <1>3
  <2>2. \A d, e \in Children : ack'[d] = ack'[e] /\ ack'[d] # 0 => d = e
    BY <1>1, <1>2, <1>3 DEF AcksOK
  <2> QED BY <2>1, <2>2 DEF AcksOK
<1>6. ASSUME NEW p \in ToSet(tx) \cup ToSet(rx) PROVE Expected(p)' /\ (Seeking(p) => p.id # pktId')
  <2>1. CASE ~Seeking(p)
    BY <2>1 DEF Expected
  <2>2. CASE Seeking(p)
    <3>1. Expected(p) /\ p.from \in Children /\ p.id \in Nat
      BY <2>2, OldPackets DEF IdsOK, Seeking
    <3>2. p.id <= pktId /\ p.id < pktId' /\ p.id # pktId' /\ p.id <= pktId'
      BY <1>1, <2>2, <3>1 DEF Expected
    <3>3. \A d \in Children : ack'[d] = p.id => d = p.from
      BY <1>2, <2>2, <3>1, <3>2 DEF Expected
    <3>4. CASE p.from = c
      <4>1. ack'[c] = pktId' /\ st'[c] = st[c]
        BY <1>2
      <4>2. st[c] # "new" /\ (st[c] = "open" => p.k \notin {"SUB", "SUBACK", "UNSUB", "UNSUBACK"})
        BY <2>2, <3>1, <3>4 DEF Expected
      <4> QED BY <3>2, <3>3, <3>4, <4>1, <4>2 DEF Expected
    <3>5. CASE p.from # c
      <4>1. ack'[p.from] = ack[p.from]
        BY <1>2, <3>1, <3>5
      <4>2. /\ insub'[p.from] = insub[p.from] /\ inunsub'[p.from] = inunsub[p.from]
            /\ unacked'[p.from] = unacked[p.from] /\ inside'[p.from] = inside[p.from]
        BY <3>1, <3>5
      <4> QED BY <2>2, <3>1, <3>2, <3>3, <4>1, <4>2 DEF Expected
    <3> QED BY <3>2, <3>4, <3>5
  <2> QED BY <2>1, <2>2
<1> QED BY <1>1, <1>4, <1>5, <1>6

\* A packet is sent whose id, if it has one, nobody has.
LEMMA SentIds ==
  ASSUME WiresOK, IdsOK, NEW x \in Sent, tx' = Append(tx, x), UNCHANGED rx, Expected(x)',
         \A p \in ToSet(tx) \cup ToSet(rx) : Expected(p)' /\ (Seeking(x) /\ Seeking(p) => p.id # x.id)
  PROVE  IdsOK'
<1>1. Seeking(x) => x.id \notin Ids(tx) \cup Ids(rx)
  BY DEF Ids, ToSet
<1>2. /\ Unique(tx')
      /\ Ids(tx') = Ids(tx) \cup (IF Seeking(x) THEN {x.id} ELSE {})
      /\ ToSet(tx') = ToSet(tx) \cup {x}
  BY <1>1, AppendIds DEF IdsOK, WiresOK
<1>3. Unique(rx') /\ Ids(rx') = Ids(rx) /\ ToSet(rx') = ToSet(rx) /\ Ids(tx) \cap Ids(rx) = {}
  BY DEF IdsOK
<1>4. \A p \in ToSet(tx') \cup ToSet(rx') : Expected(p)'
  BY <1>2, <1>3
<1>5. Ids(tx') \cap Ids(rx') = {}
  BY <1>1, <1>2, <1>3
<1> QED BY <1>2, <1>3, <1>4, <1>5 DEF IdsOK
\* Only child c is in another mode.
LEMMA ModeOthers ==
  ASSUME ModeOK, NEW c \in Children, Mode(c)',
         \A d \in Children \ {c} :
           /\ unacked'[d] = unacked[d] /\ insub'[d] = insub[d] /\ inunsub'[d] = inunsub[d]
           /\ timer'[d] = timer[d] /\ again'[d] = again[d] /\ inside'[d] = inside[d]
  PROVE  ModeOK'
<1>1. ASSUME NEW d \in Children PROVE Mode(d)'
  <2>1. CASE d # c
    <3>1. Mode(d)
      BY DEF ModeOK
    <3> QED BY <2>1, <3>1 DEF Mode
  <2> QED BY <2>1
<1> QED BY <1>1 DEF ModeOK

LEMMA PublishIds ==
  ASSUME Patient, WireInv, NEW c \in Children, st[c] = "open", ninside => inside[c] # "no",
         UNCHANGED <<bopen, st, rx>>, NEW asks, lws_mqtt_client_send_publish(c, asks)
  PROVE  ModeOK' /\ AcksOK' /\ IdsOK'
<1>0. BaseInv /\ ConnOK /\ ChildrenOK /\ WiresOK /\ ModeOK /\ AcksOK /\ IdsOK
  BY DEF WireInv, BaseInv
<1>1. Changed(c)
  BY <1>0, PublishBase
<1>2. inside[c] = "no" /\ (~Waits(c) \/ again[c]) /\ Mode(c)
  BY <1>0 DEF lws_mqtt_client_send_publish, ModeOK
<1>3. ~insub[c] /\ ~inunsub[c] /\ ~timer[c]
  BY <1>2 DEF Mode, Waits
<1>4. PICK q \in {0, 1}, last \in BOOLEAN :
        /\ pktId' = pktId + q
        /\ ack' = IF q = 1 THEN [ack EXCEPT ![c] = pktId'] ELSE ack
        /\ tx' = Append(tx, Packet(IF last THEN "WHOLE" ELSE "HEAD", IF q = 1 THEN pktId' ELSE 0, c, {}))
        /\ IF last THEN PublishDone(c, Qos(q)) ELSE asks /\ PublishPart(c, Qos(q))
  BY DEF lws_mqtt_client_send_publish
<1>5. again' = [again EXCEPT ![c] = FALSE] /\ UNCHANGED <<insub, inunsub>>
  BY DEF lws_mqtt_client_send_publish
<1>6. pktId \in Nat /\ pktId' \in Nat
  BY <1>0, <1>4, MqttAssumption DEF ConnOK
<1>7. /\ inside' = [inside EXCEPT ![c] = IF last THEN "no" ELSE Qos(q)]
      /\ unacked' = IF last /\ q = 1 THEN [unacked EXCEPT ![c] = TRUE] ELSE unacked
      /\ timer' = IF last /\ q = 1 THEN [timer EXCEPT ![c] = TRUE] ELSE timer
  BY <1>4 DEF PublishDone, PublishPart, Qos
<1>8. /\ inside'[c] = (IF last THEN "no" ELSE Qos(q)) /\ again'[c] = FALSE
      /\ unacked'[c] = IF last /\ q = 1 THEN TRUE ELSE unacked[c]
      /\ timer'[c] = IF last /\ q = 1 THEN TRUE ELSE timer[c]
  BY <1>0, <1>5, <1>7 DEF ChildrenOK
<1>9. ModeOK'
  <2>1. Mode(c)'
    BY <1>2, <1>3, <1>5, <1>8 DEF Mode
  <2> QED BY <1>0, <1>1, <2>1, ModeOthers DEF Changed
<1> DEFINE k == IF last THEN "WHOLE" ELSE "HEAD"
           id == IF q = 1 THEN pktId' ELSE 0
<1>10. PICK x : x = Packet(k, id, c, {})
  OBVIOUS
<1>11. x \in Sent /\ x.k = k /\ x.from = c /\ x.id = id
  <2>1. k \in {"WHOLE", "HEAD", "TAIL", "SUB", "UNSUB"} /\ id \in Nat /\ {} \in SUBSET Topics
        /\ k \notin {"SUB", "UNSUB"}
    BY <1>6
  <2> QED BY <1>10, <2>1, SentLemma
<1>12. tx' = Append(tx, x)
  BY <1>4, <1>10
<1>13. CASE q = 0
  <2>1. UNCHANGED <<ack, pktId, unacked>> /\ ~Seeking(x)
    BY <1>4, <1>6, <1>7, <1>11, <1>13 DEF Seeking
  <2>2. Quieter(Sent, tx, tx') /\ Quieter(Received, rx, rx')
    BY <1>11, <1>12, <2>1 DEF Quieter
  <2>3. inside'[c] # "q1"
    BY <1>8, <1>13 DEF Qos
  <2>4. \A d \in Children : /\ st'[d] = st[d] /\ insub'[d] = insub[d] /\ inunsub'[d] = inunsub[d]
                            /\ unacked'[d] = unacked[d] /\ (inside'[d] = inside[d] \/ inside'[d] # "q1")
    BY <1>1, <1>5, <2>1, <2>3 DEF Changed
  <2>5. AcksOK' /\ IdsOK'
    BY <1>0, <2>1, <2>2, <2>4, QuietIds
  <2> QED BY <1>9, <2>5
<1>14. CASE q = 1
  <2>1. pktId' = pktId + 1 /\ ack' = [ack EXCEPT ![c] = pktId']
    BY <1>4, <1>14
  <2>2. \A d \in Children \ {c} :
           /\ insub'[d] = insub[d] /\ inunsub'[d] = inunsub[d] /\ unacked'[d] = unacked[d]
           /\ inside'[d] = inside[d]
    BY <1>1 DEF Changed
  <2>3. /\ AcksOK'
        /\ \A p \in ToSet(tx) \cup ToSet(rx) : Expected(p)' /\ (Seeking(p) => p.id # pktId')
        /\ \A d \in Children : ack'[d] = pktId' => d = c
        /\ pktId' # 0
    BY <1>0, <1>3, <2>1, <2>2, NewIdExpected
  <2>4. x.id = pktId'
    BY <1>11, <1>14
  <2>5. Expected(x)'
    <3>1. CASE ~last
      BY <1>11, <3>1 DEF Expected, Seeking
    <3>2. CASE last
      <4>1. ack'[c] = pktId' /\ unacked'[c] /\ inside'[c] = "no" /\ x.k = "WHOLE"
        BY <1>0, <1>8, <1>11, <1>14, <2>1, <3>2 DEF ChildrenOK
      <4>2. st'[c] # "new"
        OBVIOUS
      <4> QED BY <1>6, <1>11, <2>3, <2>4, <4>1, <4>2 DEF Expected
    <3> QED BY <3>1, <3>2
  <2>6. IdsOK'
    BY <1>0, <1>11, <1>12, <2>3, <2>4, <2>5, SentIds
  <2> QED BY <1>9, <2>3, <2>6
<1> QED BY <1>13, <1>14

LEMMA RestIds ==
  ASSUME Patient, WireInv, NEW c \in Children, st[c] = "open", UNCHANGED <<bopen, st, rx>>, PublishRest(c)
  PROVE  ModeOK' /\ AcksOK' /\ IdsOK'
<1>0. BaseInv /\ ConnOK /\ ChildrenOK /\ WiresOK /\ ModeOK /\ AcksOK /\ IdsOK
  BY DEF WireInv, BaseInv
<1>1. Changed(c)
  BY <1>0, RestBase
<1>2. inside[c] # "no" /\ ~insub[c] /\ ~inunsub[c] /\ ~timer[c] /\ ~again[c]
  BY <1>0 DEF PublishRest, ModeOK, Mode
<1>3. /\ inside' = [inside EXCEPT ![c] = "no"]
      /\ unacked' = IF inside[c] = "q1" THEN [unacked EXCEPT ![c] = TRUE] ELSE unacked
      /\ timer' = IF inside[c] = "q1" THEN [timer EXCEPT ![c] = TRUE] ELSE timer
      /\ UNCHANGED <<again, ack, insub, inunsub, pktId>>
  BY DEF PublishRest, PublishDone, conn
<1>4. /\ inside'[c] = "no"
      /\ unacked'[c] = IF inside[c] = "q1" THEN TRUE ELSE unacked[c]
      /\ timer'[c] = IF inside[c] = "q1" THEN TRUE ELSE timer[c]
  BY <1>0, <1>3 DEF ChildrenOK
<1>5. ModeOK'
  <2>1. Mode(c)'
    BY <1>2, <1>3, <1>4 DEF Mode
  <2> QED BY <1>0, <1>1, <2>1, ModeOthers DEF Changed
<1> DEFINE id == IF inside[c] = "q1" THEN ack[c] ELSE 0
<1>6. PICK x : x = Packet("TAIL", id, c, {})
  OBVIOUS
<1>7. tx' = Append(tx, x)
  BY <1>6 DEF PublishRest
<1>8. id \in Nat /\ ack[c] \in Nat
  BY <1>0, MqttAssumption DEF ChildrenOK
<1>9. id = IF inside[c] = "q1" THEN ack[c] ELSE 0
  OBVIOUS
<1> HIDE DEF id
<1>10. x \in Sent /\ x.k = "TAIL" /\ x.from = c /\ x.id = id
  <2>1. {} \in SUBSET Topics
    OBVIOUS
  <2> QED BY <1>6, <1>8, <2>1, SentLemma
<1>11. AcksOK'
  BY <1>0, <1>3 DEF AcksOK
<1>12. ASSUME NEW p \in ToSet(tx) \cup ToSet(rx)
       PROVE  Expected(p)' /\ (Seeking(x) /\ Seeking(p) => p.id # x.id)
  <2>1. Expected(p) /\ (Seeking(p) => p.from \in Children)
    BY <1>0, OldPackets DEF IdsOK, Seeking
  <2>2. CASE ~Seeking(p)
    BY <2>2 DEF Expected
  <2>3. CASE Seeking(p) /\ p.from = c
    <3>1. inside[c] = "q1" => ack[c] # p.id
      BY <2>1, <2>3 DEF Expected
    <3>2. unacked[c] => unacked'[c]
      BY <1>4
    <3>3. Expected(p)'
      BY <1>3, <1>4, <2>1, <2>3, <3>2 DEF Expected
    <3> QED BY <1>9, <1>10, <3>1, <3>3 DEF Seeking
  <2>4. CASE Seeking(p) /\ p.from # c
    <3>1. Expected(p)'
      BY <1>1, <1>3, <2>1, <2>4, StillExpected DEF Changed
    <3>2. ack[c] # p.id
      BY <2>1, <2>4 DEF Expected
    <3> QED BY <1>9, <1>10, <3>1, <3>2 DEF Seeking
  <2> QED BY <2>2, <2>3, <2>4
<1>13. Expected(x)'
  <2>1. CASE id = 0
    BY <1>10, <2>1 DEF Expected, Seeking
  <2>2. CASE id # 0
    <3>1. id = ack[c] /\ unacked'[c] /\ ack'[c] = id
      BY <1>3, <1>4, <1>9, <2>2
    <3>2. ack[c] <= pktId /\ \A d \in Children : ack[d] = ack[c] => d = c
      BY <1>0, <2>2, <3>1 DEF AcksOK
    <3> QED BY <1>3, <1>4, <1>10, <3>1, <3>2 DEF Expected
  <2> QED BY <2>1, <2>2
<1>14. IdsOK'
  BY <1>0, <1>7, <1>10, <1>12, <1>13, SentIds
<1> QED BY <1>5, <1>11, <1>14

LEMMA SubscribeIds ==
  ASSUME Patient, WireInv, NEW c \in Children, st[c] = "open", ninside => inside[c] # "no",
         UNCHANGED <<bopen, st, rx>>,
         lws_mqtt_client_send_subcribe(c) \/ lws_mqtt_client_send_unsubcribe(c)
  PROVE  ModeOK' /\ AcksOK' /\ IdsOK'
<1>0. BaseInv /\ ConnOK /\ ChildrenOK /\ WiresOK /\ ModeOK /\ AcksOK /\ IdsOK
  BY DEF WireInv, BaseInv
<1>1. Changed(c)
  BY <1>0, SubscribeBase
<1>2. inside[c] = "no" /\ ~Waits(c) /\ Mode(c)
  BY <1>0 DEF lws_mqtt_client_send_subcribe, lws_mqtt_client_send_unsubcribe, ModeOK
<1>3. ~insub[c] /\ ~inunsub[c] /\ ~unacked[c] /\ ~timer[c] /\ ~again[c]
  BY <1>2 DEF Mode, Waits
<1>4. UNCHANGED <<inside, unacked, timer, again>>
  BY DEF lws_mqtt_client_send_subcribe, lws_mqtt_client_send_unsubcribe
<1>5. \A d \in Children \ {c} :
        /\ insub'[d] = insub[d] /\ inunsub'[d] = inunsub[d] /\ unacked'[d] = unacked[d]
        /\ timer'[d] = timer[d] /\ again'[d] = again[d] /\ inside'[d] = inside[d]
  BY <1>1 DEF Changed
<1>6. CASE UNCHANGED <<pktId, ack, tx, insub, inunsub>>
  <2>1. Mode(c)'
    BY <1>2, <1>4, <1>6 DEF Mode
  <2>2. ModeOK'
    BY <1>0, <1>5, <2>1, ModeOthers
  <2>3. Quieter(Sent, tx, tx') /\ Quieter(Received, rx, rx')
    BY <1>6 DEF Quieter
  <2>4. AcksOK' /\ IdsOK'
    BY <1>0, <1>4, <1>6, <2>3, QuietIds
  <2> QED BY <2>2, <2>4
<1>7. ASSUME NEW k \in {"SUB", "UNSUB"}, NEW tops \in SUBSET Topics, pktId' = pktId + 1,
             ack' = [ack EXCEPT ![c] = pktId'], tx' = Append(tx, Packet(k, pktId', c, tops)),
             k = "SUB" => insub' = [insub EXCEPT ![c] = TRUE] /\ UNCHANGED inunsub,
             k = "UNSUB" => inunsub' = [inunsub EXCEPT ![c] = TRUE] /\ UNCHANGED insub
      PROVE  ModeOK' /\ AcksOK' /\ IdsOK'
  <2>1. /\ AcksOK'
        /\ \A p \in ToSet(tx) \cup ToSet(rx) : Expected(p)' /\ (Seeking(p) => p.id # pktId')
        /\ \A d \in Children : ack'[d] = pktId' => d = c
        /\ pktId' # 0
    BY <1>0, <1>3, <1>5, <1>7, NewIdExpected
  <2>2. (k = "SUB" => insub'[c] /\ ~inunsub'[c]) /\ (k = "UNSUB" => inunsub'[c] /\ ~insub'[c])
    BY <1>0, <1>3, <1>7 DEF ChildrenOK
  <2>3. Mode(c)'
    BY <1>2, <1>3, <1>4, <2>2 DEF Mode
  <2>4. ModeOK'
    BY <1>0, <1>5, <2>3, ModeOthers
  <2>5. pktId' \in Nat /\ ack'[c] = pktId'
    BY <1>0, <1>7, MqttAssumption DEF ConnOK, ChildrenOK
  <2>6. PICK x : x = Packet(k, pktId', c, tops)
    OBVIOUS
  <2>7. x \in Sent /\ x.k = k /\ x.from = c /\ x.id = pktId'
    <3>1. PICK id \in Nat : id = pktId'
      BY <2>5
    <3>2. k \in {"WHOLE", "HEAD", "TAIL", "SUB", "UNSUB"} /\ id # 0
      BY <2>1, <3>1
    <3>3. x = Packet(k, id, c, tops)
      BY <2>6, <3>1
    <3> QED BY <3>1, <3>2, <3>3, SentLemma
  <2>8. Expected(x)'
    BY <1>2, <1>4, <2>1, <2>2, <2>5, <2>7 DEF Expected
  <2>9. tx' = Append(tx, x)
    BY <1>7, <2>6
  <2>10. IdsOK'
    BY <1>0, <2>1, <2>7, <2>8, <2>9, SentIds
  <2> QED BY <2>1, <2>4, <2>10
<1>8. CASE lws_mqtt_client_send_subcribe(c)
  <2>1. PICK l \in TopicLists :
          LET new == {i \in DOMAIN l : ~InUse(l[i])}
              fresh == {l[i] : i \in new}
          IN  IF new = {} THEN UNCHANGED <<pktId, ack, tx, insub>>
              ELSE /\ pktId' = pktId + 1
                   /\ ack' = [ack EXCEPT ![c] = pktId']
                   /\ tx' = Append(tx, Packet("SUB", pktId', c, fresh))
                   /\ insub' = [insub EXCEPT ![c] = TRUE]
    BY <1>8 DEF lws_mqtt_client_send_subcribe
  <2>2. UNCHANGED inunsub
    BY <1>8 DEF lws_mqtt_client_send_subcribe
  <2> DEFINE fresh == {l[i] : i \in {i \in DOMAIN l : ~InUse(l[i])}}
  <2>3. fresh \in SUBSET Topics
    BY MqttAssumption, ElementOfSeq, LenProperties
  <2>4. \/ UNCHANGED <<pktId, ack, tx, insub>>
        \/ /\ pktId' = pktId + 1
           /\ ack' = [ack EXCEPT ![c] = pktId']
           /\ tx' = Append(tx, Packet("SUB", pktId', c, fresh))
           /\ insub' = [insub EXCEPT ![c] = TRUE]
    BY <2>1
  <2> HIDE DEF fresh
  <2> QED BY <1>6, <1>7, <2>2, <2>3, <2>4
<1>9. CASE lws_mqtt_client_send_unsubcribe(c)
  <2>1. PICK l \in TopicLists :
          LET orphans == {t \in ToSet(l) : \E i \in DOMAIN subs : subs[i].topic = t /\ IsFound(i) /\ subs[i].ref = 1}
          IN  IF orphans = {} THEN UNCHANGED <<pktId, ack, tx, inunsub>>
              ELSE /\ pktId' = pktId + 1
                   /\ ack' = [ack EXCEPT ![c] = pktId']
                   /\ tx' = Append(tx, Packet("UNSUB", pktId', c, orphans))
                   /\ inunsub' = [inunsub EXCEPT ![c] = TRUE]
    BY <1>9 DEF lws_mqtt_client_send_unsubcribe
  <2>2. UNCHANGED insub
    BY <1>9 DEF lws_mqtt_client_send_unsubcribe
  <2> DEFINE orphans == {t \in ToSet(l) : \E i \in DOMAIN subs : subs[i].topic = t /\ IsFound(i) /\ subs[i].ref = 1}
  <2>3. orphans \in SUBSET Topics
    BY MqttAssumption, ElementOfSeq, LenProperties DEF ToSet
  <2>4. \/ UNCHANGED <<pktId, ack, tx, inunsub>>
        \/ /\ pktId' = pktId + 1
           /\ ack' = [ack EXCEPT ![c] = pktId']
           /\ tx' = Append(tx, Packet("UNSUB", pktId', c, orphans))
           /\ inunsub' = [inunsub EXCEPT ![c] = TRUE]
    BY <2>1
  <2> HIDE DEF orphans
  <2> QED BY <1>6, <1>7, <2>2, <2>3, <2>4
<1> QED BY <1>8, <1>9
\* No child waits for something else, and nothing with an id is sent.
LEMMA CalmIds ==
  ASSUME WireInv, UNCHANGED <<ack, pktId, insub, inunsub, unacked, inside, timer, again>>,
         \A d \in Children : st'[d] = st[d] \/ st[d] = "new",
         Quieter(Sent, tx, tx'), Quieter(Received, rx, rx')
  PROVE  ModeOK' /\ AcksOK' /\ IdsOK'
<1>0. WiresOK /\ ModeOK /\ AcksOK /\ IdsOK
  BY DEF WireInv, BaseInv
<1>1. ModeOK'
  BY <1>0 DEF ModeOK, Mode
<1>2. AcksOK' /\ IdsOK'
  BY <1>0, QuietIds
<1> QED BY <1>1, <1>2

\* A child closes.
LEMMA CloseIds ==
  ASSUME WireInv, NEW c \in Children, NEW l, CloseChild(c, l), UNCHANGED <<pktId, tx>>,
         Quieter(Received, rx, rx')
  PROVE  ModeOK' /\ AcksOK' /\ IdsOK'
<1>0. ChildrenOK /\ WiresOK /\ ModeOK /\ AcksOK /\ IdsOK
  BY DEF WireInv, BaseInv
<1>1. \A d \in Children \ {c} :
        /\ unacked'[d] = unacked[d] /\ insub'[d] = insub[d] /\ inunsub'[d] = inunsub[d]
        /\ timer'[d] = timer[d] /\ again'[d] = again[d] /\ inside'[d] = inside[d] /\ st'[d] = st[d]
  BY <1>0 DEF CloseChild, ChildrenOK
<1>2. /\ ~unacked'[c] /\ ~insub'[c] /\ ~inunsub'[c] /\ ~timer'[c] /\ ~again'[c]
      /\ inside'[c] = "no" /\ st'[c] = "closed" /\ UNCHANGED ack
  BY <1>0 DEF CloseChild, ChildrenOK
<1>3. Mode(c)'
  BY <1>2 DEF Mode
<1>4. ModeOK'
  BY <1>0, <1>1, <1>3, ModeOthers
<1>5. Quieter(Sent, tx, tx')
  BY DEF Quieter
<1>6. AcksOK' /\ IdsOK'
  BY <1>0, <1>1, <1>2, <1>5, QuietIds
<1> QED BY <1>4, <1>6

\* The connection closes.
LEMMA DeadIds ==
  ASSUME WireInv, lws_close_free_wsi PROVE ModeOK' /\ AcksOK' /\ IdsOK'
<1>1. \A d \in Children : ~unacked'[d] /\ ~insub'[d] /\ ~inunsub'[d] /\ ~timer'[d] /\ ~again'[d]
                          /\ inside'[d] = "no"
  BY DEF lws_close_free_wsi, No
<1>2. ModeOK'
  BY <1>1 DEF ModeOK, Mode
<1>3. UNCHANGED <<ack, pktId>> /\ tx' = <<>> /\ rx' = <<>>
  BY DEF lws_close_free_wsi
<1>4. AcksOK'
  BY <1>3 DEF WireInv, AcksOK
<1>5. IdsOK'
  BY <1>3 DEF IdsOK, Unique, Ids, ToSet
<1> QED BY <1>2, <1>4, <1>5

LEMMA CallbackIds ==
  ASSUME Patient, WireInv, NEW c \in Children, st[c] = "open", ninside => inside[c] # "no", NEW l,
         lws_callback_as_writeable(c, l), UNCHANGED <<rx, bopen>>
  PROVE  ModeOK' /\ AcksOK' /\ IdsOK'
<1>1. PICK asks \in BOOLEAN :
        \/ /\ \/ lws_mqtt_client_send_publish(c, asks)
              \/ PublishRest(c)
              \/ lws_mqtt_client_send_subcribe(c)
              \/ lws_mqtt_client_send_unsubcribe(c)
              \/ UserIdles(asks)
           /\ UNCHANGED st
        \/ CloseChild(c, l) /\ UNCHANGED <<pktId, tx>>
  BY DEF lws_callback_as_writeable
<1>2. Quieter(Received, rx, rx')
  BY DEF Quieter
<1>3. CASE CloseChild(c, l) /\ UNCHANGED <<pktId, tx>>
  BY <1>2, <1>3, CloseIds
<1>4. CASE UserIdles(asks) /\ UNCHANGED st
  <2>1. UNCHANGED <<inside, unacked, insub, inunsub, ack, timer, again, pktId, tx>>
    BY <1>4 DEF UserIdles, conn
  <2>2. Quieter(Sent, tx, tx')
    BY <2>1 DEF Quieter
  <2> QED BY <1>2, <1>4, <2>1, <2>2, CalmIds
<1>5. CASE lws_mqtt_client_send_publish(c, asks) /\ UNCHANGED st
  BY <1>5, PublishIds
<1>6. CASE PublishRest(c) /\ UNCHANGED st
  BY <1>6, RestIds
<1>7. CASE (lws_mqtt_client_send_subcribe(c) \/ lws_mqtt_client_send_unsubcribe(c)) /\ UNCHANGED st
  BY <1>7, SubscribeIds
<1> QED BY <1>1, <1>3, <1>4, <1>5, <1>6, <1>7

\* A PUBACK or a PINGREQ has no child to answer to.
LEMMA OwnQuieter ==
  ASSUME NEW k \in {"PUBACK", "PING"}, NEW id \in Nat, tx' = Append(tx, Packet(k, id, None, {}))
  PROVE  Quieter(Sent, tx, tx')
<1> DEFINE p == Packet(k, id, None, {})
<1>1. p \in Sent /\ ~Seeking(p)
  BY DEF Packet, Sent, SentKinds, Seeking
<1> HIDE DEF p
<1> QED BY <1>1 DEF Quieter, p

LEMMA EndWalkIds ==
  ASSUME WireInv, EndWalk, UNCHANGED rx PROVE ModeOK' /\ AcksOK' /\ IdsOK'
<1>1. UNCHANGED <<st, inside, unacked, insub, inunsub, ack, timer, again, pktId, tx>>
  BY DEF EndWalk, mux, conn
<1>2. Quieter(Sent, tx, tx') /\ Quieter(Received, rx, rx')
  BY <1>1 DEF Quieter
<1> QED BY <1>1, <1>2, CalmIds

LEMMA ServeIds ==
  ASSUME Patient, WireInv, ServeChild, UNCHANGED <<rx, bopen>> PROVE ModeOK' /\ AcksOK' /\ IdsOK'
<1>0. ConnOK /\ ListOK
  BY DEF WireInv, BaseInv
<1>1. CASE Ready = {}
  BY <1>1, EndWalkIds DEF ServeChild
<1>2. CASE Ready # {}
  <2>1. PICK i : i = Min(Ready)
    OBVIOUS
  <2>2. i \in DOMAIN list /\ list[i] \in ToSet(list) /\ (ninside => inside[list[i]] # "no")
    BY <1>0, <1>2, <2>1, ChosenLemma
  <2>3. PICK c : c = list[i]
    OBVIOUS
  <2>4. c \in Children /\ st[c] = "open"
    BY <1>0, <2>2, <2>3 DEF ListOK
  <2>5. CASE ~(puback /\ ~ninside)
    <3>1. lws_callback_as_writeable(c, lws_wsi_mux_move_child_to_tail(i))
      BY <1>2, <2>1, <2>3, <2>5 DEF ServeChild
    <3> QED BY <2>2, <2>3, <2>4, <3>1, CallbackIds
  <2>6. CASE puback /\ ~ninside
    <3>1. SendPuback(c, lws_wsi_mux_move_child_to_tail(i))
      BY <1>2, <2>1, <2>3, <2>6 DEF ServeChild
    <3>2. /\ tx' = Append(tx, Packet("PUBACK", nack, None, {}))
          /\ UNCHANGED <<st, inside, unacked, insub, inunsub, ack, timer, again, pktId>>
      BY <3>1 DEF SendPuback, conn
    <3>3. Quieter(Sent, tx, tx') /\ Quieter(Received, rx, rx')
      <4>1. nack \in Nat
        BY <1>0 DEF ConnOK
      <4>2. Quieter(Sent, tx, tx')
        BY <3>2, <4>1, OwnQuieter
      <4> QED BY <4>2 DEF Quieter
    <3> QED BY <3>2, <3>3, CalmIds
  <2> QED BY <2>5, <2>6
<1> QED BY <1>1, <1>2

LEMMA PolloutIds ==
  ASSUME Patient, WireInv, rops_handle_POLLOUT_mqtt \/ WalkOn PROVE ModeOK' /\ AcksOK' /\ IdsOK'
<1>1. UNCHANGED <<rx, bopen>>
  BY DEF rops_handle_POLLOUT_mqtt, WalkOn, broker
<1>2. CASE SendPingreq
  <2>1. /\ tx' = Append(tx, Packet("PING", 0, None, {}))
        /\ UNCHANGED <<st, inside, unacked, insub, inunsub, ack, timer, again, pktId>>
    BY <1>2 DEF SendPingreq, mux, conn
  <2>2. Quieter(Sent, tx, tx')
    BY <2>1, OwnQuieter
  <2>3. Quieter(Received, rx, rx')
    BY <1>1 DEF Quieter
  <2> QED BY <2>1, <2>2, <2>3, CalmIds
<1>3. CASE ServeChild
  BY <1>1, <1>3, ServeIds
<1>4. CASE EndWalk
  BY <1>1, <1>4, EndWalkIds
<1> QED BY <1>2, <1>3, <1>4 DEF rops_handle_POLLOUT_mqtt, WalkOn

\* An answer is read.
LEMMA AnswerIds ==
  ASSUME Patient, WireInv, rx # <<>>, rx' = Tail(rx), Seeking(Head(rx)), NEW c \in Children,
         ack[c] = Head(rx).id, UNCHANGED <<ack, pktId, st, inside, tx>>,
         \/ /\ unacked' = [unacked EXCEPT ![c] = FALSE] /\ timer' = [timer EXCEPT ![c] = FALSE]
            /\ again' = [again EXCEPT ![c] = FALSE] /\ UNCHANGED <<insub, inunsub>>
         \/ insub' = [insub EXCEPT ![c] = FALSE] /\ UNCHANGED <<unacked, inunsub, timer, again>>
         \/ inunsub' = [inunsub EXCEPT ![c] = FALSE] /\ UNCHANGED <<unacked, insub, timer, again>>
  PROVE  ModeOK' /\ AcksOK' /\ IdsOK'
<1>0. ChildrenOK /\ WiresOK /\ ModeOK /\ AcksOK /\ IdsOK
  BY DEF WireInv, BaseInv
<1>1. \A d \in Children \ {c} :
        /\ unacked'[d] = unacked[d] /\ insub'[d] = insub[d] /\ inunsub'[d] = inunsub[d]
        /\ timer'[d] = timer[d] /\ again'[d] = again[d] /\ inside'[d] = inside[d]
  BY <1>0 DEF ChildrenOK
<1>2. \/ /\ ~unacked'[c] /\ ~timer'[c] /\ ~again'[c]
         /\ insub'[c] = insub[c] /\ inunsub'[c] = inunsub[c]
      \/ /\ ~insub'[c] /\ unacked'[c] = unacked[c] /\ inunsub'[c] = inunsub[c]
         /\ timer'[c] = timer[c] /\ again'[c] = again[c]
      \/ /\ ~inunsub'[c] /\ unacked'[c] = unacked[c] /\ insub'[c] = insub[c]
         /\ timer'[c] = timer[c] /\ again'[c] = again[c]
  BY <1>0 DEF ChildrenOK
<1>3. Mode(c) /\ inside'[c] = inside[c]
  BY <1>0 DEF ModeOK
<1>4. Mode(c)'
  BY <1>2, <1>3 DEF Mode
<1>5. ModeOK'
  BY <1>0, <1>1, <1>4, ModeOthers
<1>6. AcksOK' /\ IdsOK'
  BY <1>0, <1>1, AnsweredIds
<1> QED BY <1>5, <1>6

LEMMA RxIds == ASSUME Patient, WireInv, _lws_mqtt_rx_parser PROVE ModeOK' /\ AcksOK' /\ IdsOK'
<1>0. ConnOK /\ WiresOK /\ ListOK
  BY DEF WireInv, BaseInv
<1>1. PICK p : p = Head(rx)
  OBVIOUS
<1>2. phase = "up" /\ rx # <<>>
  BY DEF _lws_mqtt_rx_parser, Up
<1>3. p \in Received
  BY <1>0, <1>1, <1>2, HeadRead DEF WiresOK
<1>4. /\ p.k \in ReadKinds
      /\ p.k \in {"PUBACK", "SUBACK", "UNSUBACK"} => Seeking(p)
  BY <1>3 DEF Received, Seeking
<1>5. CASE lws_close_free_wsi
  BY <1>5, DeadIds
<1>6. p.k # "PUBLISH" /\ UNCHANGED phase => rx' = Tail(rx)
  BY <1>1, <1>2 DEF _lws_mqtt_rx_parser
<1>7. UNCHANGED phase => Quieter(Received, rx, rx')
  <2>1. CASE RxPublishFails(p.id, p.tops)
    BY <2>1 DEF RxPublishFails, Quieter
  <2>2. CASE phase' = "up" => rx' = Tail(rx)
    BY <1>2, <2>2 DEF Quieter
  <2> QED BY <1>1, <2>1, <2>2 DEF _lws_mqtt_rx_parser
<1>8. CASE p.k = "PUBACK"
  <2>1. RxPuback(p.id)
    BY <1>1, <1>8 DEF _lws_mqtt_rx_parser
  <2>2. CASE Asked(unacked, p.id) # {}
    <3>1. PICK c : c = list[Min(Asked(unacked, p.id))]
      OBVIOUS
    <3>2. c \in Children /\ ack[c] = p.id
      BY <1>0, <2>2, <3>1, AskedLemma
    <3>3. /\ \/ /\ UNCHANGED <<st, inside, insub, inunsub, ack>>
                /\ unacked' = [unacked EXCEPT ![c] = FALSE]
                /\ timer' = [timer EXCEPT ![c] = FALSE]
                /\ again' = [again EXCEPT ![c] = FALSE]
             \/ CloseChild(c, list)
          /\ UNCHANGED <<phase, pktId, tx>>
      BY <2>1, <2>2, <3>1 DEF RxPuback, Answered, AnswerCloses
    <3>4. CASE CloseChild(c, list)
      BY <1>7, <3>2, <3>3, <3>4, CloseIds
    <3>5. CASE /\ UNCHANGED <<st, inside, insub, inunsub, ack>>
               /\ unacked' = [unacked EXCEPT ![c] = FALSE]
               /\ timer' = [timer EXCEPT ![c] = FALSE]
               /\ again' = [again EXCEPT ![c] = FALSE]
      BY <1>1, <1>2, <1>4, <1>6, <1>8, <3>2, <3>3, <3>5, AnswerIds
    <3> QED BY <3>3, <3>4, <3>5
  <2> QED BY <1>5, <2>1, <2>2 DEF RxPuback
<1>9. CASE p.k = "SUBACK"
  <2>1. RxSuback(p.id)
    BY <1>1, <1>9 DEF _lws_mqtt_rx_parser
  <2>2. CASE ~lws_close_free_wsi
    <3>1. PICK c : c = list[Min(Asked(insub, p.id))]
      OBVIOUS
    <3>2. /\ Asked(insub, p.id) # {}
          /\ insub' = [insub EXCEPT ![c] = FALSE]
          /\ UNCHANGED <<st, inside, unacked, inunsub, ack, timer, again, phase, pktId, tx>>
      BY <2>1, <2>2, <3>1 DEF RxSuback, Answered, conn
    <3>3. c \in Children /\ ack[c] = p.id
      BY <1>0, <3>1, <3>2, AskedLemma
    <3> QED BY <1>1, <1>2, <1>4, <1>6, <1>9, <3>2, <3>3, AnswerIds
  <2> QED BY <1>5, <2>2
<1>10. CASE p.k = "UNSUBACK"
  <2>1. RxUnsuback(p.id)
    BY <1>1, <1>10 DEF _lws_mqtt_rx_parser
  <2>2. CASE Asked(inunsub, p.id) # {}
    <3>1. PICK c : c = list[Min(Asked(inunsub, p.id))]
      OBVIOUS
    <3>2. c \in Children /\ ack[c] = p.id
      BY <1>0, <2>2, <3>1, AskedLemma
    <3>3. /\ \/ /\ UNCHANGED <<st, inside, unacked, insub, ack, timer, again>>
                /\ inunsub' = [inunsub EXCEPT ![c] = FALSE]
             \/ CloseChild(c, list)
          /\ UNCHANGED <<phase, pktId, tx>>
      BY <2>1, <2>2, <3>1 DEF RxUnsuback, Answered, AnswerCloses
    <3>4. CASE CloseChild(c, list)
      BY <1>7, <3>2, <3>3, <3>4, CloseIds
    <3>5. CASE /\ UNCHANGED <<st, inside, unacked, insub, ack, timer, again>>
               /\ inunsub' = [inunsub EXCEPT ![c] = FALSE]
      BY <1>1, <1>2, <1>4, <1>6, <1>10, <3>2, <3>3, <3>5, AnswerIds
    <3> QED BY <3>3, <3>4, <3>5
  <2> QED BY <1>5, <2>1, <2>2 DEF RxUnsuback
<1>11. CASE p.k \in {"PINGRESP", "PUBLISH"}
  <2>1. RxPingresp \/ RxPublish(p.id, p.tops) \/ RxPublishFails(p.id, p.tops)
    BY <1>1, <1>11 DEF _lws_mqtt_rx_parser
  <2>2. UNCHANGED <<st, inside, unacked, insub, inunsub, ack, timer, again, phase, pktId, tx>>
    BY <2>1 DEF RxPingresp, RxPublish, RxPublishFails, mux, conn
  <2>3. Quieter(Sent, tx, tx')
    BY <2>2 DEF Quieter
  <2> QED BY <1>7, <2>2, <2>3, CalmIds
<1> QED BY <1>4, <1>8, <1>9, <1>10, <1>11 DEF ReadKinds

\* The broker reads, and answers with the id and to the child of what it read.
LEMMA BrokerIds ==
  ASSUME Patient, WireInv, BrokerReads \/ BrokerPublishes PROVE ModeOK' /\ AcksOK' /\ IdsOK'
<1>0. ConnOK /\ WiresOK /\ ModeOK /\ AcksOK /\ IdsOK /\ tx \in Seq(Sent) /\ rx \in Seq(Received)
  BY DEF WireInv, BaseInv, WiresOK
<1>1. UNCHANGED <<st, inside, unacked, insub, inunsub, ack, timer, again, pktId>>
  BY DEF BrokerReads, BrokerPublishes, mux, conn
<1>2. CASE BrokerPublishes
  <2>1. PICK t \in bsubs, q \in {0, 1} : rx' = Append(rx, Packet("PUBLISH", q * (MaxId + pubs'), None, {t}))
    BY <1>2 DEF BrokerPublishes
  <2>2. PICK x : x = Packet("PUBLISH", q * (MaxId + pubs'), None, {t})
    OBVIOUS
  <2>3. rx' = Append(rx, x) /\ ~Seeking(x)
    BY <2>1, <2>2 DEF Packet, Seeking
  <2>4. x \in Received
    <3>1. BaseInv'
      BY <1>2, BrokerBase DEF WireInv
    <3>2. rx' \in Seq(Received) /\ Len(rx') \in Nat /\ DOMAIN rx' = 1..Len(rx')
      BY <3>1, LenProperties DEF BaseInv, WiresOK
    <3>3. Len(rx') = Len(rx) + 1 /\ rx'[Len(rx) + 1] = x /\ Len(rx) \in Nat
      <4>1. rx \in Seq(Received \cup {x}) /\ x \in Received \cup {x}
        BY <1>0
      <4> QED BY <2>3, <4>1, Appended
    <3> QED BY <3>2, <3>3, ElementOfSeq
  <2>5. Quieter(Received, rx, rx') /\ Quieter(Sent, tx, tx')
    BY <1>2, <2>3, <2>4 DEF Quieter, BrokerPublishes
  <2> QED BY <1>1, <2>5, CalmIds
<1>3. CASE BrokerReads
  <2>1. PICK p : p = Head(tx)
    OBVIOUS
  <2>2. tx # <<>> /\ tx' = Tail(tx) /\ rx' = rx \o Reply(p)
    BY <1>3, <2>1 DEF BrokerReads
  <2>3. p \in Sent
    BY <1>0, <2>1, <2>2, HeadRead
  <2>4. Quieter(Sent, tx, tx')
    BY <2>2 DEF Quieter
  <2>5. CASE Reply(p) = <<>>
    <3>1. rx' = rx
      BY <1>0, <2>2, <2>5, ConcatEmptySeq
    <3>2. Quieter(Received, rx, rx')
      BY <3>1 DEF Quieter
    <3> QED BY <1>1, <2>4, <3>2, CalmIds
  <2>6. ASSUME NEW r \in Received, Reply(p) = <<r>> PROVE rx' = Append(rx, r)
    BY <1>0, <2>2, <2>6
  <2>7. CASE \E r \in Received : Reply(p) = <<r>> /\ r.k = "PINGRESP" /\ ~Seeking(r)
    <3>1. PICK r \in Received : Reply(p) = <<r>> /\ ~Seeking(r)
      BY <2>7
    <3>2. Quieter(Received, rx, rx')
      BY <2>6, <3>1 DEF Quieter
    <3> QED BY <1>1, <2>4, <3>2, CalmIds
  <2>8. CASE \E r \in Received :
               /\ Reply(p) = <<r>> /\ r.id = p.id /\ r.from = p.from /\ Seeking(p)
               /\ \/ p.k \in {"WHOLE", "TAIL"} /\ r.k = "PUBACK"
                  \/ p.k = "SUB" /\ r.k = "SUBACK"
                  \/ p.k = "UNSUB" /\ r.k = "UNSUBACK"
    <3>1. PICK r \in Received :
               /\ Reply(p) = <<r>> /\ r.id = p.id /\ r.from = p.from /\ Seeking(p)
               /\ \/ p.k \in {"WHOLE", "TAIL"} /\ r.k = "PUBACK"
                  \/ p.k = "SUB" /\ r.k = "SUBACK"
                  \/ p.k = "UNSUB" /\ r.k = "UNSUBACK"
      BY <2>8
    <3>2. rx' = Append(rx, r)
      BY <2>6, <3>1
    <3>3. /\ Unique(tx') /\ Ids(tx') \subseteq Ids(tx) /\ ToSet(tx') \subseteq ToSet(tx)
          /\ p \in ToSet(tx) /\ p.id \in Ids(tx) /\ p.id \notin Ids(tx')
      BY <1>0, <2>1, <2>2, <3>1, TailIds DEF IdsOK
    <3>4. /\ Unique(rx')
          /\ Ids(rx') = Ids(rx) \cup (IF Seeking(r) THEN {r.id} ELSE {})
          /\ ToSet(rx') = ToSet(rx) \cup {r}
      BY <1>0, <3>1, <3>2, <3>3, AppendIds DEF IdsOK
    <3>5. \A y \in ToSet(tx) \cup ToSet(rx) : Expected(y)'
      BY <1>0, <1>1 DEF IdsOK, Expected
    <3>6. Expected(r)'
      <4>1. Expected(p)'
        BY <3>3, <3>5
      <4> QED BY <3>1, <4>1 DEF Expected, Seeking
    <3>7. \A y \in ToSet(tx') \cup ToSet(rx') : Expected(y)'
      BY <3>3, <3>4, <3>5, <3>6
    <3>8. Ids(tx') \cap Ids(rx') = {}
      BY <1>0, <3>1, <3>3, <3>4 DEF IdsOK
    <3>9. IdsOK'
      BY <3>3, <3>4, <3>7, <3>8 DEF IdsOK
    <3>10. ModeOK' /\ AcksOK'
      BY <1>0, <1>1 DEF ModeOK, Mode, AcksOK
    <3> QED BY <3>9, <3>10
  <2> QED BY <2>3, <2>5, <2>7, <2>8, ReplyLemma
<1> QED BY <1>2, <1>3

LEMMA OtherIds ==
  ASSUME Patient, WireInv, NEW c \in Children,
         \/ RxConnack \/ rops_issue_keepalive_mqtt \/ lws_wsi_mqtt_adopt(c) \/ UserAsks(c)
         \/ lws_mqtt_publish_resend(c) \/ KillAsync(c)
  PROVE  ModeOK' /\ AcksOK' /\ IdsOK'
<1>0. ChildrenOK /\ ModeOK /\ WiresOK /\ AcksOK /\ IdsOK
  BY DEF WireInv, BaseInv
<1>1. UNCHANGED <<pktId, tx, rx>>
  BY DEF RxConnack, rops_issue_keepalive_mqtt, lws_wsi_mqtt_adopt, UserAsks, lws_mqtt_publish_resend,
         KillAsync, conn
<1>2. Quieter(Sent, tx, tx') /\ Quieter(Received, rx, rx')
  BY <1>1 DEF Quieter
<1>3. CASE KillAsync(c)
  <2>1. CloseChild(c, list)
    BY <1>3 DEF KillAsync
  <2> QED BY <1>1, <1>2, <2>1, CloseIds
<1>4. CASE lws_mqtt_publish_resend(c)
  <2>1. /\ UNCHANGED <<st, inside, unacked, insub, inunsub, ack>> /\ timer[c]
        /\ timer' = [timer EXCEPT ![c] = FALSE]
        /\ again' = again \/ again' = [again EXCEPT ![c] = TRUE]
    BY <1>4 DEF lws_mqtt_publish_resend
  <2>2. /\ ~timer'[c] /\ (again'[c] = TRUE \/ again'[c] = again[c])
        /\ \A d \in Children \ {c} : timer'[d] = timer[d] /\ again'[d] = again[d]
    BY <1>0, <2>1 DEF ChildrenOK
  <2>3. Mode(c)
    BY <1>0 DEF ModeOK
  <2>4. Mode(c)'
    BY <2>1, <2>2, <2>3 DEF Mode
  <2>5. ModeOK'
    BY <1>0, <2>1, <2>2, <2>4, ModeOthers
  <2>6. AcksOK' /\ IdsOK'
    BY <1>0, <1>1, <1>2, <2>1, QuietIds
  <2> QED BY <2>5, <2>6
<1>5. CASE lws_wsi_mqtt_adopt(c)
  <2>1. /\ UNCHANGED <<inside, unacked, insub, inunsub, ack, timer, again>>
        /\ st[c] = "new" /\ st' = [st EXCEPT ![c] = "open"]
    BY <1>5 DEF lws_wsi_mqtt_adopt
  <2>2. \A d \in Children : st'[d] = st[d] \/ st[d] = "new"
    BY <1>0, <2>1 DEF ChildrenOK
  <2> QED BY <1>1, <1>2, <2>1, <2>2, CalmIds
<1>6. CASE RxConnack \/ rops_issue_keepalive_mqtt \/ UserAsks(c)
  <2>1. UNCHANGED <<st, inside, unacked, insub, inunsub, ack, timer, again>>
    BY <1>6 DEF RxConnack, rops_issue_keepalive_mqtt, UserAsks, mux
  <2> QED BY <1>1, <1>2, <2>1, CalmIds
<1> QED BY <1>3, <1>4, <1>5, <1>6

LEMMA WireStart == MqttInit => WireInv
<1> SUFFICES ASSUME MqttInit PROVE WireInv
  OBVIOUS
<1>1. BaseInv
  BY BaseStart
<1>2. \A c \in Children : ~unacked[c] /\ ~insub[c] /\ ~inunsub[c] /\ ~timer[c] /\ ~again[c]
                          /\ inside[c] = "no" /\ ack[c] = 0
  BY DEF MqttInit, No
<1>3. ModeOK
  BY <1>2 DEF ModeOK, Mode
<1>4. AcksOK
  BY <1>2 DEF AcksOK, MqttInit
<1>5. tx = <<>> /\ rx = <<>>
  BY DEF MqttInit
<1>6. IdsOK
  BY <1>5 DEF IdsOK, Unique, Ids, ToSet
<1> QED BY <1>1, <1>3, <1>4, <1>6 DEF WireInv

LEMMA WireNext == ASSUME Patient PROVE WireInv /\ [MqttNext]_mqttVars => WireInv'
<1> SUFFICES ASSUME WireInv, [MqttNext]_mqttVars PROVE WireInv'
  OBVIOUS
<1>0. BaseInv'
  BY BaseNext DEF WireInv
<1>1. CASE UNCHANGED mqttVars
  <2>1. UNCHANGED <<st, inside, unacked, insub, inunsub, ack, timer, again, pktId, tx, rx>>
    BY <1>1 DEF mqttVars, mux, conn
  <2>2. Quieter(Sent, tx, tx') /\ Quieter(Received, rx, rx')
    BY <2>1 DEF Quieter
  <2>3. ModeOK' /\ AcksOK' /\ IdsOK'
    BY <2>1, <2>2, CalmIds
  <2> QED BY <1>0, <2>3 DEF WireInv
<1>2. CASE ConnectFails \/ lws_validity_cb
  BY <1>0, <1>2, DeadIds DEF ConnectFails, lws_validity_cb, WireInv
<1>3. CASE rops_handle_POLLOUT_mqtt \/ WalkOn
  BY <1>0, <1>3, PolloutIds DEF WireInv
<1>4. CASE _lws_mqtt_rx_parser
  BY <1>0, <1>4, RxIds DEF WireInv
<1>5. CASE BrokerReads \/ BrokerPublishes
  BY <1>0, <1>5, BrokerIds DEF WireInv
<1>6. CASE RxConnack \/ rops_issue_keepalive_mqtt
  <2>1. First \in Children
    BY MqttAssumption
  <2> QED BY <1>0, <1>6, <2>1, OtherIds DEF WireInv
<1>7. CASE \E c \in Children : lws_wsi_mqtt_adopt(c) \/ UserAsks(c) \/ lws_mqtt_publish_resend(c) \/ KillAsync(c)
  BY <1>0, <1>7, OtherIds DEF WireInv
<1> QED BY <1>1, <1>2, <1>3, <1>4, <1>5, <1>6, <1>7 DEF MqttNext

LEMMA BaseImplies == ASSUME BaseInv PROVE MqttTypeOK /\ PacketsWhole /\ WaitingIsArmed
<1>0. ConnOK /\ ChildrenOK /\ WiresOK /\ ListOK /\ ArmedOK /\ WholeOK
  BY DEF BaseInv
<1>1. MqttTypeOK
  <2>1. \A i \in DOMAIN subs : subs[i].topic \in Topics /\ subs[i].ref \in 0..(RefMod - 1)
    <3>1. \A i \in DOMAIN subs : subs[i] \in Entry
      BY <1>0, ElementOfSeq, LenProperties DEF ConnOK
    <3> QED BY <3>1 DEF Entry
  <2>2. {req, unacked, insub, inunsub, timer, again, kill} \subseteq [Children -> BOOLEAN]
    BY <1>0 DEF ChildrenOK
  <2>3. {nreq, pollout, walking, ninside, puback, ping, hup} \subseteq BOOLEAN
    BY <1>0 DEF ConnOK
  <2>4. robbed \subseteq UNION {Behind[t] : t \in Topics}
    BY <1>0 DEF ConnOK, Exposed
  <2> QED BY <1>0, <2>1, <2>2, <2>3, <2>4 DEF MqttTypeOK, ConnOK, ChildrenOK, WiresOK, ListOK
<1>2. PacketsWhole
  BY <1>0 DEF WholeOK, PacketsWhole, Follows, Half
<1>3. WaitingIsArmed
  <2>1. \A i \in DOMAIN list : list[i] \in Children
    BY <1>0, ListOpen
  <2> QED BY <1>0, <2>1 DEF ArmedOK, WaitingIsArmed
<1> QED BY <1>1, <1>2, <1>3

LEMMA WireImplies == ASSUME WireInv PROVE WireIsSound
<1>0. WiresOK /\ IdsOK
  BY DEF WireInv, BaseInv
<1>1. MqttTypeOK /\ PacketsWhole /\ WaitingIsArmed
  BY BaseImplies DEF WireInv
<1>4. AnswersAreExpected
  <2> SUFFICES ASSUME NEW p \in ToSet(tx) \cup ToSet(rx)
               PROVE  /\ p.k \in {"SUB", "SUBACK"} /\ st[p.from] = "open" => insub[p.from] /\ ack[p.from] = p.id
                      /\ p.k \in {"UNSUB", "UNSUBACK"} /\ st[p.from] = "open" => inunsub[p.from] /\ ack[p.from] = p.id
                      /\ p.k \in {"WHOLE", "TAIL", "PUBACK"} /\ p.from # None /\ p.id # 0 /\ st[p.from] = "open" =>
                           (unacked[p.from] /\ ack[p.from] = p.id) \/ p.id < ack[p.from]
    BY DEF AnswersAreExpected
  <2>1. Expected(p) /\ p \in Sent \cup Received
    BY <1>0, OldPackets DEF IdsOK
  <2>2. p.k \in {"SUB", "SUBACK", "UNSUB", "UNSUBACK"} => Seeking(p)
    <3>1. CASE p \in Sent
      <4>1. /\ p.k \in SentKinds /\ (p.k \in {"PUBACK", "PING"}) = (p.from = None)
            /\ p.k \in {"SUB", "UNSUB"} => p.id # 0
        BY <3>1 DEF Sent
      <4> QED BY <4>1 DEF Seeking, SentKinds
    <3>2. CASE p \in Received
      <4>1. /\ p.k \in ReadKinds /\ (p.k \in {"PINGRESP", "PUBLISH"}) = (p.from = None)
            /\ p.k \in {"PUBACK", "SUBACK", "UNSUBACK"} => p.id # 0
        BY <3>2 DEF Received
      <4> QED BY <4>1 DEF Seeking, ReadKinds
    <3> QED BY <2>1, <3>1, <3>2
  <2> QED BY <2>1, <2>2 DEF Expected, Seeking
<1> QED BY <1>1, <1>4 DEF WireIsSound

\* When every stream waits for its answer before it asks more, the shared
\* connection is sound for any number of streams, topics and packets: the
\* parts of a PUBLISH stay together, who waits to write has POLLOUT, and an
\* answer finds the child that waits for its id.
THEOREM WireIsSoundHolds == ASSUME Patient PROVE MqttSpec => []WireIsSound
<1>1. MqttInit => WireInv
  BY WireStart
<1>2. WireInv /\ [MqttNext]_mqttVars => WireInv'
  BY WireNext
<1>3. WireInv => WireIsSound
  BY WireImplies
<1> QED BY <1>1, <1>2, <1>3, PTL DEF MqttSpec

\* Also when streams ask again before they are answered, packets are whole and
\* who waits to write has POLLOUT.
THEOREM PacketsAreWhole == MqttSpec => [](MqttTypeOK /\ PacketsWhole /\ WaitingIsArmed)
<1>1. BaseInv => MqttTypeOK /\ PacketsWhole /\ WaitingIsArmed
  BY BaseImplies
<1> QED BY <1>1, BaseInvariant, PTL
-----------------------------------------------------------------------------
(* The counts of the topics *)

LEMMA SubsetCards ==
  /\ \A S \in SUBSET Children : IsFiniteSet(S) /\ Cardinality(S) \in Nat /\ Cardinality(S) <= Cardinality(Children)
  /\ \A S, T \in SUBSET Children : S \subseteq T => Cardinality(S) <= Cardinality(T)
  /\ \A S \in SUBSET Children : Cardinality(S) = 0 => S = {}
  /\ \A S \in SUBSET Children : \A c \in Children \ S : Cardinality(S \cup {c}) = Cardinality(S) + 1
<1>1. IsFiniteSet(Children)
  BY MqttAssumption
<1>2. ASSUME NEW S \in SUBSET Children
      PROVE  IsFiniteSet(S) /\ Cardinality(S) \in Nat /\ Cardinality(S) <= Cardinality(Children)
  <2>1. IsFiniteSet(S) /\ Cardinality(S) <= Cardinality(Children)
    BY <1>1, FS_Subset
  <2> QED BY <2>1, FS_CardinalityType
<1>3. ASSUME NEW S \in SUBSET Children, NEW T \in SUBSET Children, S \subseteq T
      PROVE  Cardinality(S) <= Cardinality(T)
  <2>1. IsFiniteSet(T) /\ S \in SUBSET T
    BY <1>2, <1>3
  <2> QED BY <2>1, FS_Subset
<1>4. ASSUME NEW S \in SUBSET Children, Cardinality(S) = 0 PROVE S = {}
  BY <1>2, <1>4, FS_EmptySet
<1>5. ASSUME NEW S \in SUBSET Children, NEW c \in Children \ S
      PROVE  Cardinality(S \cup {c}) = Cardinality(S) + 1
  BY <1>2, FS_AddElement
<1> QED BY <1>2, <1>3, <1>4, <1>5

\* lws_mqtt_find_sub() finds one entry of a topic, if there is any.
LEMMA FoundOne ==
  ASSUME subs \in Seq(Entry), NEW i \in DOMAIN subs, NEW j \in DOMAIN subs,
         subs[i].topic = subs[j].topic, IsFound(i), IsFound(j)
  PROVE  i = j
<1>1. DOMAIN subs = 1..Len(subs) /\ Len(subs) \in Nat
  BY LenProperties
<1>2. ~(i < j)
  <2>1. i < j => i \in 1..(j - 1)
    BY <1>1
  <2> QED BY <2>1 DEF IsFound, FoundIn
<1>3. ~(j < i)
  <2>1. j < i => j \in 1..(i - 1)
    BY <1>1
  <2> QED BY <2>1 DEF IsFound, FoundIn
<1> QED BY <1>1, <1>2, <1>3

LEMMA FoundExists ==
  ASSUME subs \in Seq(Entry), NEW t, \E i \in DOMAIN subs : subs[i].topic = t
  PROVE  \E i \in DOMAIN subs : subs[i].topic = t /\ IsFound(i)
<1> DEFINE T == {i \in DOMAIN subs : subs[i].topic = t}
<1>1. DOMAIN subs = 1..Len(subs) /\ Len(subs) \in Nat
  BY LenProperties
<1>2. T \subseteq Nat /\ T # {}
  BY <1>1
<1>3. PICK i \in T : \A j \in T : i <= j
  BY <1>2, LeastNatural
<1>4. ASSUME NEW j \in 1..(i - 1) PROVE subs[j].topic # subs[i].topic
  <2>1. j \in DOMAIN subs /\ ~(i <= j)
    BY <1>1, <1>3
  <2> QED BY <1>3, <2>1
<1> QED BY <1>3, <1>4 DEF IsFound, FoundIn

\* The last packet about a topic.
LEMMA LastOf ==
  ASSUME NEW n \in Nat, NEW T \in SUBSET (1..n), T # {}
  PROVE  Max(T) \in T /\ \A y \in T : y <= Max(T)
<1> DEFINE R == {k \in 0..n : n - k \in T}
<1>1. R \subseteq Nat
  OBVIOUS
<1>2. R # {}
  <2>1. PICK x \in T : x \in 1..n
    OBVIOUS
  <2>2. n - x \in 0..n /\ n - (n - x) = x
    BY <2>1
  <2> QED BY <2>1, <2>2
<1>3. PICK k \in R : \A j \in R : k <= j
  BY <1>1, <1>2, LeastNatural
<1>4. n - k \in T /\ k \in 0..n
  BY <1>3
<1>5. ASSUME NEW y \in T PROVE n - k >= y
  <2>1. n - y \in 0..n /\ n - (n - y) = y
    OBVIOUS
  <2>2. n - y \in R
    BY <2>1
  <2>3. k <= n - y
    BY <1>3, <2>2
  <2> QED BY <1>4, <2>1, <2>3
<1>6. \E x \in T : \A y \in T : x >= y
  BY <1>4, <1>5
<1>7. Max(T) \in T /\ \A y \in T : Max(T) >= y
  BY <1>6 DEF Max
<1> QED BY <1>7

About(s, t) == {i \in DOMAIN s : s[i].k \in {"SUB", "UNSUB"} /\ t \in s[i].tops}

SubscribedIn(s, b, t) == IF About(s, t) = {} THEN t \in b ELSE s[Max(About(s, t))].k = "SUB"

LEMMA LastSays ==
  ASSUME NEW s \in Seq(Sent), NEW b, NEW t, NEW m \in About(s, t), \A y \in About(s, t) : y <= m
  PROVE  SubscribedIn(s, b, t) = (s[m].k = "SUB")
<1>1. DOMAIN s = 1..Len(s) /\ Len(s) \in Nat
  BY LenProperties
<1>2. About(s, t) \in SUBSET (1..Len(s))
  BY <1>1 DEF About
<1>3. Max(About(s, t)) \in About(s, t) /\ m <= Max(About(s, t)) /\ Max(About(s, t)) <= m
  BY <1>1, <1>2, LastOf
<1>4. Max(About(s, t)) = m
  BY <1>1, <1>2, <1>3
<1> QED BY <1>4 DEF SubscribedIn

LEMMA LastExists ==
  ASSUME NEW s \in Seq(Sent), NEW t, About(s, t) # {}
  PROVE  \E m \in About(s, t) : \A y \in About(s, t) : y <= m
<1>1. DOMAIN s = 1..Len(s) /\ Len(s) \in Nat
  BY LenProperties
<1>2. About(s, t) \in SUBSET (1..Len(s))
  BY <1>1 DEF About
<1> QED BY <1>1, <1>2, LastOf

\* A packet is sent.
LEMMA SentSays ==
  ASSUME NEW s \in Seq(Sent), NEW b, NEW x \in Sent, NEW t
  PROVE  /\ x.k = "SUB" /\ t \in x.tops => SubscribedIn(Append(s, x), b, t)
         /\ ~(x.k \in {"SUB", "UNSUB"} /\ t \in x.tops) =>
              SubscribedIn(Append(s, x), b, t) = SubscribedIn(s, b, t)
<1> DEFINE n == Len(s)
           r == Append(s, x)
<1>1. /\ r \in Seq(Sent) /\ n \in Nat /\ DOMAIN r = 1..(n + 1) /\ DOMAIN s = 1..n
      /\ \A k \in 1..n : r[k] = s[k]
      /\ r[n + 1] = x
  BY Appended
<1> HIDE DEF n, r
<1>2. ASSUME x.k = "SUB", t \in x.tops PROVE SubscribedIn(r, b, t)
  <2>1. n + 1 \in About(r, t) /\ \A y \in About(r, t) : y <= n + 1
    BY <1>1, <1>2 DEF About
  <2>2. SubscribedIn(r, b, t) = (r[n + 1].k = "SUB")
    BY <1>1, <2>1, LastSays
  <2>3. r[n + 1].k = "SUB"
    BY <1>1, <1>2
  <2> QED BY <2>2, <2>3
<1>3. ASSUME ~(x.k \in {"SUB", "UNSUB"} /\ t \in x.tops)
      PROVE  SubscribedIn(r, b, t) = SubscribedIn(s, b, t)
  <2>1. About(r, t) = About(s, t)
    <3>1. \A k \in 1..(n + 1) : k \in 1..n \/ k = n + 1
      BY <1>1
    <3>2. \A k \in 1..n : k \in 1..(n + 1)
      BY <1>1
    <3> QED BY <1>1, <1>3, <3>1, <3>2 DEF About
  <2>2. CASE About(s, t) = {}
    BY <2>1, <2>2 DEF SubscribedIn
  <2>3. CASE About(s, t) # {}
    <3>1. PICK m \in About(s, t) : \A y \in About(s, t) : y <= m
      BY <2>3, LastExists
    <3>2. SubscribedIn(r, b, t) = (r[m].k = "SUB") /\ SubscribedIn(s, b, t) = (s[m].k = "SUB")
      BY <1>1, <2>1, <3>1, LastSays
    <3>3. m \in 1..n
      BY <1>1, <3>1 DEF About
    <3> QED BY <1>1, <3>2, <3>3
  <2> QED BY <2>2, <2>3
<1> QED BY <1>2, <1>3 DEF r

\* The broker reads one.
LEMMA ReadSays ==
  ASSUME NEW s \in Seq(Sent), s # <<>>, NEW b, NEW b1, NEW t,
         b1 = CASE Head(s).k = "SUB" -> b \cup Head(s).tops
                [] Head(s).k = "UNSUB" -> b \ Head(s).tops [] OTHER -> b
  PROVE  SubscribedIn(Tail(s), b1, t) = SubscribedIn(s, b, t)
<1> DEFINE n == Len(s) - 1
           r == Tail(s)
<1>1. /\ n \in Nat /\ DOMAIN r = 1..n /\ DOMAIN s = 1..(n + 1) /\ r \in Seq(Sent)
      /\ \A k \in 1..n : r[k] = s[k + 1]
      /\ Head(s) = s[1]
  BY HeadRead
<1> HIDE DEF n, r
<1>2. \A k \in About(r, t) : k \in 1..n /\ k + 1 \in About(s, t)
  BY <1>1 DEF About
<1>3. ASSUME NEW k \in About(s, t), k # 1 PROVE k - 1 \in About(r, t) /\ r[k - 1] = s[k]
  <2>1. k \in 1..(n + 1) /\ k - 1 \in 1..n /\ (k - 1) + 1 = k
    BY <1>1, <1>3 DEF About
  <2> QED BY <1>1, <2>1 DEF About
<1>4. CASE About(r, t) # {}
  <2>1. PICK m \in About(r, t) : \A y \in About(r, t) : y <= m
    BY <1>1, <1>4, LastExists
  <2>2. m \in 1..n /\ m + 1 \in About(s, t) /\ r[m] = s[m + 1]
    BY <1>1, <1>2, <2>1
  <2>3. ASSUME NEW y \in About(s, t) PROVE y <= m + 1
    <3>1. CASE y = 1
      BY <2>2, <3>1
    <3>2. CASE y # 1
      <4>1. y - 1 <= m /\ y \in 1..(n + 1)
        BY <1>1, <1>3, <2>1, <3>2 DEF About
      <4> QED BY <2>2, <4>1
    <3> QED BY <3>1, <3>2
  <2>4. SubscribedIn(r, b1, t) = (r[m].k = "SUB") /\ SubscribedIn(s, b, t) = (s[m + 1].k = "SUB")
    BY <1>1, <2>1, <2>2, <2>3, LastSays
  <2> QED BY <2>2, <2>4 DEF r
<1>5. CASE About(r, t) = {}
  <2>1. SubscribedIn(r, b1, t) = (t \in b1)
    BY <1>5 DEF SubscribedIn
  <2>2. CASE About(s, t) = {}
    <3>1. ~(s[1].k \in {"SUB", "UNSUB"} /\ t \in s[1].tops)
      <4>1. 1 \in DOMAIN s
        BY <1>1
      <4> QED BY <2>2, <4>1 DEF About
    <3>2. (t \in b1) = (t \in b)
      BY <1>1, <3>1
    <3> QED BY <2>1, <2>2, <3>2 DEF SubscribedIn, r
  <2>3. CASE About(s, t) # {}
    <3>1. \A y \in About(s, t) : y = 1
      BY <1>3, <1>5
    <3>2. 1 \in About(s, t) /\ \A y \in About(s, t) : y <= 1
      BY <2>3, <3>1
    <3>3. SubscribedIn(s, b, t) = (s[1].k = "SUB")
      BY <3>2, LastSays
    <3>4. s[1].k \in {"SUB", "UNSUB"} /\ t \in s[1].tops
      BY <3>2 DEF About
    <3>5. (t \in b1) = (s[1].k = "SUB")
      BY <1>1, <3>4
    <3> QED BY <2>1, <3>3, <3>5 DEF r
  <2> QED BY <2>2, <2>3
<1> QED BY <1>4, <1>5

LEMMA SubscribedIs ==
  ASSUME NEW t
  PROVE  /\ Subscribed(t) = SubscribedIn(tx, bsubs, t)
         /\ Subscribed(t)' = SubscribedIn(tx', bsubs', t)
BY DEF Subscribed, SubscribedIn, About
\* What the list of topics holds.
LEMMA EntryOf ==
  ASSUME subs \in Seq(Entry), NEW i \in DOMAIN subs
  PROVE  subs[i].topic \in Topics /\ subs[i].ref \in Nat /\ subs[i].ref < RefMod
<1>1. subs[i] \in Entry
  <2>1. i \in 1..Len(subs)
    BY LenProperties
  <2> QED BY <2>1, ElementOfSeq
<1>2. subs[i].topic \in Topics /\ subs[i].ref \in 0..(RefMod - 1)
  BY <1>1 DEF Entry
<1>3. RefMod \in Nat
  BY MqttAssumption
<1> QED BY <1>2, <1>3

\* Only the counts of robbed topics differ from those of s.
Robs(s) ==
  /\ DOMAIN subs' = DOMAIN s
  /\ \A i \in DOMAIN s : /\ subs'[i].topic = s[i].topic
                         /\ s[i].topic \notin robbed' => subs'[i] = s[i]
  /\ robbed \subseteq robbed'

\* The list stays, nobody is new, and what is subscribed stays so.
LEMMA SubsFrame ==
  ASSUME SubsOK, subs \in Seq(Entry), Robs(subs),
         \A t \in Topics : /\ Users(t)' \subseteq Users(t) /\ Past(t) \subseteq Past(t)'
                           /\ Subscribed(t) => Subscribed(t)',
         \A c \in Children : mine'[c] \subseteq mine[c]
  PROVE  SubsOK'
<1>1. ASSUME NEW i \in DOMAIN subs', NEW t \in Topics \ robbed', subs'[i].topic = t PROVE Count(i, t)'
  <2>0. i \in DOMAIN subs /\ subs[i].topic = t /\ subs'[i] = subs[i] /\ t \in Topics \ robbed
    BY <1>1 DEF Robs
  <2>1. i \in DOMAIN subs /\ subs[i].topic = t /\ subs'[i] = subs[i] /\ IsFound(i)' = IsFound(i)
    <3>1. \A j \in 1..(i - 1) : j \in DOMAIN subs
      BY <2>0, LenProperties
    <3> QED BY <2>0, <3>1 DEF IsFound, FoundIn, Robs
  <2>2. Count(i, t)
    BY <2>0 DEF SubsOK
  <2>3. subs[i].ref \in Nat
    BY <2>1, EntryOf
  <2>4. /\ Cardinality(Users(t)') \in Nat /\ Cardinality(Users(t)) \in Nat
        /\ Cardinality(Past(t)) \in Nat /\ Cardinality(Past(t)') \in Nat
        /\ Cardinality(Users(t)') <= Cardinality(Users(t)) /\ Cardinality(Past(t)) <= Cardinality(Past(t)')
    <3>1. /\ Users(t) \in SUBSET Children /\ Users(t)' \in SUBSET Children
          /\ Past(t) \in SUBSET Children /\ Past(t)' \in SUBSET Children
      BY DEF Users, Past
    <3> QED BY <3>1, SubsetCards
  <2> QED BY <2>1, <2>2, <2>3, <2>4 DEF Count
<1>2. \A c \in Children : \A t \in mine'[c] \ robbed' : \E i \in DOMAIN subs' : subs'[i].topic = t
  BY DEF SubsOK, Robs
<1> QED BY <1>1, <1>2 DEF SubsOK

\* A topic that somebody uses has a count, and is not the one that is removed.
LEMMA UsedTopic ==
  ASSUME SubsOK, subs \in Seq(Entry), NEW t \in Topics \ robbed, Users(t) # {}
  PROVE  \E i \in DOMAIN subs : subs[i].topic = t /\ IsFound(i) /\ subs[i].ref # 0 /\ Subscribed(t)
<1>1. \E i \in DOMAIN subs : subs[i].topic = t
  BY DEF SubsOK, Users
<1>2. PICK i \in DOMAIN subs : subs[i].topic = t /\ IsFound(i)
  BY <1>1, FoundExists
<1>3. Count(i, t)
  BY <1>2 DEF SubsOK
<1>4. Users(t) \in SUBSET Children
  BY DEF Users
<1>5. Cardinality(Users(t)) \in Nat /\ Cardinality(Users(t)) # 0
  BY <1>4, SubsetCards
<1>6. subs[i].ref \in Nat /\ subs[i].ref # 0 /\ Subscribed(t)
  <2>1. subs[i].ref \in Nat
    BY EntryOf
  <2>2. Cardinality(Users(t)) <= subs[i].ref
    BY <1>2, <1>3 DEF Count
  <2>3. subs[i].ref # 0
    BY <1>5, <2>1, <2>2
  <2> QED BY <1>2, <1>3, <2>1, <2>3 DEF Count
<1> QED BY <1>2, <1>6

\* The entry without users that lws_mqtt_client_remove_subs() frees.
LEMMA SubsRemoved ==
  ASSUME SubsOK, subs \in Seq(Entry), mine \in [Children -> SUBSET Topics],
         NEW r \in DOMAIN subs, subs[r].ref = 0, Robs(RemoveAt(subs, r)),
         \A t \in Topics : /\ Users(t)' \subseteq Users(t) /\ Past(t) \subseteq Past(t)'
                           /\ Subscribed(t) => Subscribed(t)',
         \A c \in Children : mine'[c] \subseteq mine[c]
  PROVE  SubsOK'
<1>0. PICK n : n = Len(subs)
  OBVIOUS
<1>1. /\ n \in Nat /\ DOMAIN subs = 1..n /\ DOMAIN subs' = 1..(n - 1) /\ r \in 1..n
      /\ \A j \in 1..(n - 1) :
           LET e == IF j < r THEN subs[j] ELSE subs[j + 1]
           IN  subs'[j].topic = e.topic /\ (e.topic \notin robbed' => subs'[j] = e)
      /\ robbed \subseteq robbed'
  <2>1. PICK s : s = RemoveAt(subs, r)
    OBVIOUS
  <2>2. /\ n \in Nat /\ DOMAIN subs = 1..n /\ DOMAIN s = 1..(n - 1) /\ r \in 1..n
        /\ \A j \in 1..(n - 1) : s[j] = IF j < r THEN subs[j] ELSE subs[j + 1]
    BY <1>0, <2>1, RemovedAt
  <2>3. Robs(s)
    BY <2>1
  <2> QED BY <2>2, <2>3 DEF Robs
<1>2. \A j \in 1..n : subs[j].ref \in Nat
  BY <1>1, EntryOf
<1>3. ASSUME NEW j \in 1..(n - 1), NEW t \in Topics \ robbed', subs'[j].topic = t PROVE Count(j, t)'
  <2>1. PICK a \in 1..n : a = (IF j < r THEN j ELSE j + 1)
    BY <1>1
  <2>2. subs'[j] = subs[a] /\ subs[a].topic = t /\ a # r
    BY <1>1, <1>3, <2>1
  <2>3. Count(a, t)
    BY <1>1, <2>2 DEF SubsOK
  <2>4. /\ Cardinality(Users(t)') \in Nat /\ Cardinality(Users(t)) \in Nat
        /\ Cardinality(Past(t)) \in Nat /\ Cardinality(Past(t)') \in Nat
        /\ Cardinality(Users(t)') <= Cardinality(Users(t)) /\ Cardinality(Past(t)) <= Cardinality(Past(t)')
    <3>1. /\ Users(t) \in SUBSET Children /\ Users(t)' \in SUBSET Children
          /\ Past(t) \in SUBSET Children /\ Past(t)' \in SUBSET Children
      BY DEF Users, Past
    <3> QED BY <3>1, SubsetCards
  <2>5. CASE IsFound(a)
    <3>1. IsFound(j)'
      <4> SUFFICES ASSUME NEW k \in 1..(j - 1) PROVE subs'[k].topic # subs'[j].topic
        BY DEF IsFound, FoundIn
      <4>1. k \in 1..(n - 1) /\ (k < r => k \in 1..(a - 1)) /\ (~(k < r) => k + 1 \in 1..(a - 1))
        BY <1>1, <2>1
      <4> QED BY <1>1, <2>2, <2>5, <4>1 DEF IsFound, FoundIn
    <3> QED BY <1>2, <2>2, <2>3, <2>4, <2>5, <3>1 DEF Count
  <2>6. CASE ~IsFound(a)
    <3>1. subs'[j].ref = 0
      BY <2>2, <2>3, <2>6 DEF Count
    <3>2. CASE ~IsFound(j)'
      BY <3>1, <3>2 DEF Count
    <3>3. CASE IsFound(j)'
      <4>1. ASSUME NEW k \in 1..(a - 1), k # r PROVE subs[k].topic # t
        <5>1. CASE k < r
          <6>1. k \in 1..(j - 1) /\ k \in 1..(n - 1) /\ subs'[k].topic = subs[k].topic
            BY <1>1, <2>1, <4>1, <5>1
          <6> QED BY <1>3, <3>3, <6>1 DEF IsFound, FoundIn
        <5>2. CASE k > r
          <6>1. k - 1 \in 1..(j - 1) /\ k - 1 \in 1..(n - 1) /\ ~(k - 1 < r) /\ (k - 1) + 1 = k
            BY <1>1, <2>1, <4>1, <5>2
          <6>2. subs'[k - 1].topic = subs[k].topic
            BY <1>1, <6>1
          <6> QED BY <1>3, <3>3, <6>1, <6>2 DEF IsFound, FoundIn
        <5> QED BY <1>1, <2>1, <4>1, <5>1, <5>2
      <4>2. PICK k \in 1..(a - 1) : subs[k].topic = t
        BY <2>2, <2>6 DEF IsFound, FoundIn
      <4>3. k = r /\ r \in 1..(a - 1) /\ subs[r].topic = t
        BY <4>1, <4>2
      <4>4. IsFound(r)
        <5>1. \A i \in 1..(r - 1) : i \in 1..(a - 1) /\ i # r
          BY <1>1, <2>1, <4>3
        <5> QED BY <4>1, <4>3, <5>1 DEF IsFound, FoundIn
      <4>5. Cardinality(Users(t)) <= 0
        <5>1. Count(r, t)
          BY <1>1, <4>3 DEF SubsOK
        <5> QED BY <4>4, <5>1 DEF Count
      <4> QED BY <2>4, <3>1, <4>5 DEF Count
    <3> QED BY <3>2, <3>3
  <2> QED BY <2>5, <2>6
<1>4. ASSUME NEW c \in Children, NEW t \in mine'[c] \ robbed' PROVE \E j \in DOMAIN subs' : subs'[j].topic = t
  <2>1. t \in mine[c] /\ t \in Topics \ robbed
    BY <1>1
  <2>2. Users(t) # {}
    BY <2>1 DEF Users
  <2>3. PICK a \in 1..n : subs[a].topic = t /\ subs[a].ref # 0
    BY <1>1, <2>1, <2>2, UsedTopic
  <2>4. a # r
    BY <2>3
  <2>5. CASE a < r
    BY <1>1, <2>3, <2>5
  <2>6. CASE a > r
    <3>1. a - 1 \in 1..(n - 1) /\ ~(a - 1 < r) /\ (a - 1) + 1 = a
      BY <1>1, <2>6
    <3>2. subs'[a - 1].topic = subs[a].topic
      BY <1>1, <3>1
    <3> QED BY <1>1, <2>3, <3>1, <3>2
  <2> QED BY <1>1, <2>4, <2>5, <2>6
<1> QED BY <1>1, <1>3, <1>4 DEF SubsOK
\* An eight-bit count that has room.
LEMMA WrapsRound ==
  ASSUME NEW N \in Nat \ {0}, NEW r \in Nat, r < N
  PROVE  (r + N) % N = r
OBVIOUS

\* Child c subscribes: topics nobody uses are asked of the broker, the others
\* are counted.
LEMMA SubscribeSubs ==
  ASSUME SubsInv, Cardinality(Children) < RefMod, \A l \in TopicLists : NoDuplicates(l),
         NEW c \in Children, st[c] = "open", UNCHANGED <<st, bsubs>>,
         lws_mqtt_client_send_subcribe(c)
  PROVE  SubsOK'
<1>0. BaseInv /\ SubsOK /\ ChildrenOK /\ subs \in Seq(Entry) /\ tx \in Seq(Sent) /\ pktId \in Nat
  BY MqttAssumption DEF SubsInv, BaseInv, ConnOK, WiresOK
<1>1. PICK l \in TopicLists :
        LET new == {i \in DOMAIN l : ~InUse(l[i])}
            fresh == {l[i] : i \in new}
        IN  /\ ToSet(l) \cap mine[c] = {}
            /\ mine' = [mine EXCEPT ![c] = @ \cup ToSet(l)]
            /\ subs' = lws_mqtt_create_sub(l, new) \o Counted(ToSet(l) \ fresh, 1)
            /\ IF new = {} THEN UNCHANGED tx
               ELSE pktId' = pktId + 1 /\ tx' = Append(tx, Packet("SUB", pktId', c, fresh))
  BY DEF lws_mqtt_client_send_subcribe
<1>2. PICK new : new = {i \in DOMAIN l : ~InUse(l[i])}
  OBVIOUS
<1>3. PICK fresh : fresh = {l[i] : i \in new}
  OBVIOUS
<1>4. /\ l \in Seq(Topics) /\ new \in SUBSET DOMAIN l /\ ToSet(l) \in SUBSET Topics /\ NoDuplicates(l)
  <2>1. l \in Seq(Topics)
    BY MqttAssumption
  <2>2. ToSet(l) \in SUBSET Topics
    BY <2>1, ElementOfSeq, LenProperties DEF ToSet
  <2> QED BY <1>2, <2>1, <2>2
<1>5. \A t : t \in fresh <=> t \in ToSet(l) /\ ~InUse(t)
  BY <1>2, <1>3 DEF ToSet
<1>6. (new = {} => fresh = {}) /\ fresh \in SUBSET Topics
  <2>1. new = {} => fresh = {}
    BY <1>3
  <2>2. \A t \in fresh : t \in Topics
    BY <1>4, <1>5
  <2> QED BY <2>1, <2>2
<1>7. PICK made : made = lws_mqtt_create_sub(l, new)
  OBVIOUS
<1>8. PICK rest : rest = Counted(ToSet(l) \ fresh, 1)
  OBVIOUS
<1>9. PICK m : m = Len(made)
  OBVIOUS
<1>10. PICK n : n = Len(subs)
  OBVIOUS
<1>11. /\ made \in Seq(Entry) /\ m \in Nat /\ DOMAIN made = 1..m
       /\ \A i \in 1..m : made[i].topic \in fresh /\ made[i].ref = 1
       /\ \A t \in fresh : \E i \in 1..m : made[i].topic = t
       /\ \A i, j \in 1..m : made[i].topic = made[j].topic => i = j
  <2>1. /\ made \in Seq(Entry)
        /\ \A i \in DOMAIN made : made[i].topic \in {l[k] : k \in new} /\ made[i].ref = 1
        /\ \A k \in new : \E i \in DOMAIN made : made[i].topic = l[k]
        /\ NoDuplicates(l) => \A i, j \in DOMAIN made : made[i].topic = made[j].topic => i = j
    BY <1>4, <1>7, CreateLemma
  <2>2. m \in Nat /\ DOMAIN made = 1..m
    BY <1>9, <2>1, LenProperties
  <2>3. \A t \in fresh : \E i \in 1..m : made[i].topic = t
    BY <1>3, <2>1, <2>2
  <2> QED BY <1>3, <1>4, <2>1, <2>2, <2>3
<1>12. /\ rest \in Seq(Entry) /\ Len(rest) = n /\ n \in Nat /\ DOMAIN subs = 1..n /\ DOMAIN rest = 1..n
       /\ \A i \in 1..n :
            /\ rest[i].topic = subs[i].topic
            /\ subs[i].topic \in ToSet(l) \ fresh /\ IsFound(i) => rest[i].ref = (subs[i].ref + 1 + RefMod) % RefMod
            /\ ~(subs[i].topic \in ToSet(l) \ fresh /\ IsFound(i)) => rest[i] = subs[i]
  <2>1. n \in Nat /\ DOMAIN subs = 1..n
    BY <1>0, <1>10, LenProperties
  <2>2. rest \in Seq(Entry) /\ DOMAIN rest = DOMAIN subs
    BY <1>0, <1>8, CountedLemma
  <2>3. Len(rest) = n
    BY <2>1, <2>2, LenProperties
  <2>4. ASSUME NEW i \in 1..n
        PROVE  /\ rest[i].topic = subs[i].topic
               /\ subs[i].topic \in ToSet(l) \ fresh /\ IsFound(i) => rest[i].ref = (subs[i].ref + 1 + RefMod) % RefMod
               /\ ~(subs[i].topic \in ToSet(l) \ fresh /\ IsFound(i)) => rest[i] = subs[i]
    <3>1. i \in DOMAIN subs
      BY <2>1
    <3> QED BY <1>0, <1>8, <3>1, CountedLemma
  <2> QED BY <2>1, <2>2, <2>3, <2>4
<1>13. /\ DOMAIN subs' = 1..(m + n)
       /\ \A k \in 1..m : subs'[k] = made[k]
       /\ \A j \in 1..n : m + j \in 1..(m + n) /\ subs'[m + j] = rest[j]
  <2>1. subs' = made \o rest
    BY <1>1, <1>2, <1>3, <1>7, <1>8
  <2>2. /\ subs' \in Seq(Entry) /\ Len(subs') = m + n
        /\ \A k \in 1..(m + n) : subs'[k] = IF k <= m THEN made[k] ELSE rest[k - m]
    <3>1. made \in Seq(Entry) /\ rest \in Seq(Entry) /\ Len(made) = m /\ Len(rest) = n
      BY <1>9, <1>11, <1>12
    <3> QED BY <2>1, <3>1, ConcatProperties
  <2>3. DOMAIN subs' = 1..(m + n)
    BY <2>2, LenProperties
  <2>4. \A k \in 1..m : k \in 1..(m + n) /\ k <= m
    BY <1>11, <1>12
  <2>5. \A j \in 1..n : m + j \in 1..(m + n) /\ ~(m + j <= m) /\ (m + j) - m = j
    BY <1>11, <1>12
  <2> QED BY <2>2, <2>3, <2>4, <2>5
<1>14. ASSUME NEW k \in 1..(m + n) PROVE k \in 1..m \/ \E j \in 1..n : k = m + j
  <2>1. k > m => k - m \in 1..n /\ k = m + (k - m)
    BY <1>11, <1>12
  <2>2. ~(k > m) => k \in 1..m
    BY <1>11, <1>12
  <2> QED BY <2>1, <2>2
<1>15. /\ \A d \in Children : mine'[d] = IF d = c THEN mine[d] \cup ToSet(l) ELSE mine[d]
       /\ ToSet(l) \cap mine[c] = {} /\ mine \in [Children -> SUBSET Topics]
  BY <1>0, <1>1 DEF ChildrenOK
<1>16. ASSUME NEW t \in Topics, t \in ToSet(l)
       PROVE  /\ Users(t)' = Users(t) \cup {c} /\ Past(t)' = Past(t) \cup {c}
              /\ c \in Children \ Users(t) /\ c \in Children \ Past(t)
              /\ Users(t) \in SUBSET Children /\ Past(t) \in SUBSET Children
  BY <1>15, <1>16 DEF Users, Past
<1>17. ASSUME NEW t \in Topics, t \notin ToSet(l)
       PROVE  Users(t)' = Users(t) /\ Past(t)' = Past(t)
  BY <1>15, <1>17 DEF Users, Past
<1>18. ASSUME NEW t \in Topics
       PROVE  (t \in fresh => Subscribed(t)') /\ (t \notin fresh => Subscribed(t)' = Subscribed(t))
  <2>1. CASE new = {}
    <3>1. UNCHANGED tx
      BY <1>1, <1>2, <2>1
    <3>2. Subscribed(t)' = Subscribed(t)
      BY <3>1, SubscribedIs
    <3> QED BY <1>6, <2>1, <3>2
  <2>2. CASE new # {}
    <3>1. pktId' = pktId + 1 /\ tx' = Append(tx, Packet("SUB", pktId', c, fresh))
      BY <1>1, <1>2, <1>3, <2>2
    <3>2. PICK id \in Nat : id = pktId' /\ id # 0
      BY <1>0, <3>1
    <3>3. PICK x : x = Packet("SUB", id, c, fresh)
      OBVIOUS
    <3>4. x \in Sent /\ x.k = "SUB" /\ x.tops = fresh
      BY <1>6, <3>2, <3>3, SentLemma
    <3>5. tx' = Append(tx, x)
      BY <3>1, <3>2, <3>3
    <3>6. /\ t \in fresh => SubscribedIn(tx', bsubs, t)
          /\ t \notin fresh => SubscribedIn(tx', bsubs, t) = SubscribedIn(tx, bsubs, t)
      BY <1>0, <3>4, <3>5, SentSays
    <3> QED BY <3>6, SubscribedIs
  <2> QED BY <2>1, <2>2
<1>19. ASSUME NEW k \in 1..m, NEW t \in Topics \ robbed, subs'[k].topic = t PROVE Count(k, t)'
  <2>1. subs'[k] = made[k] /\ t \in fresh /\ subs'[k].ref = 1
    BY <1>11, <1>13, <1>19
  <2>2. IsFound(k)'
    <3> SUFFICES ASSUME NEW i \in 1..(k - 1) PROVE subs'[i].topic # subs'[k].topic
      BY DEF IsFound, FoundIn
    <3>1. i \in 1..m /\ i # k
      BY <1>11
    <3> QED BY <1>11, <1>13, <3>1
  <2>3. t \in ToSet(l) /\ ~InUse(t)
    BY <1>5, <2>1
  <2>4. Users(t) = {}
    BY <1>0, <2>3, UsedTopic DEF InUse
  <2>5. Cardinality(Users(t)') = 1 /\ Cardinality(Past(t)') \in Nat /\ 1 <= Cardinality(Past(t)')
    <3>1. Cardinality(Users(t)') = Cardinality(Users(t)) + 1 /\ Cardinality(Past(t)') = Cardinality(Past(t)) + 1
          /\ Cardinality(Past(t)) \in Nat
      BY <1>16, <2>3, SubsetCards
    <3>2. Cardinality(Users(t)) = 0
      BY <2>4, FS_EmptySet
    <3> QED BY <3>1, <3>2
  <2>6. Subscribed(t)'
    BY <1>18, <2>1
  <2> QED BY <2>1, <2>2, <2>5, <2>6 DEF Count
<1>20. ASSUME NEW j \in 1..n, NEW t \in Topics \ robbed, subs'[m + j].topic = t PROVE Count(m + j, t)'
  <2>1. PICK k \in 1..(m + n) : k = m + j
    BY <1>13
  <2>2. subs'[k] = rest[j] /\ subs[j].topic = t /\ rest[j].topic = t /\ j \in DOMAIN subs
    BY <1>12, <1>13, <1>20, <2>1
  <2>3. Count(j, t) /\ subs[j].ref \in Nat
    BY <1>0, <2>2, EntryOf DEF SubsOK
  <2>4. IsFound(k)' <=> t \notin fresh /\ IsFound(j)
    <3>1. ASSUME t \in fresh PROVE ~IsFound(k)'
      <4>1. PICK i \in 1..m : made[i].topic = t
        BY <1>11, <3>1
      <4>2. i \in 1..(k - 1) /\ subs'[i].topic = t
        BY <1>11, <1>12, <1>13, <2>1, <4>1
      <4> QED BY <2>2, <4>2 DEF IsFound, FoundIn
    <3>2. ASSUME ~IsFound(j) PROVE ~IsFound(k)'
      <4>1. PICK i \in 1..(j - 1) : subs[i].topic = t
        BY <2>2, <3>2 DEF IsFound, FoundIn
      <4>2. i \in 1..n /\ m + i \in 1..(k - 1)
        BY <1>11, <1>12, <2>1
      <4>3. subs'[m + i].topic = t
        BY <1>12, <1>13, <4>1, <4>2
      <4> QED BY <2>2, <4>2, <4>3 DEF IsFound, FoundIn
    <3>3. ASSUME t \notin fresh, IsFound(j) PROVE IsFound(k)'
      <4> SUFFICES ASSUME NEW i \in 1..(k - 1) PROVE subs'[i].topic # subs'[k].topic
        BY DEF IsFound, FoundIn
      <4>1. i \in 1..(m + n)
        BY <1>11, <1>12, <2>1
      <4>2. CASE i \in 1..m
        BY <1>11, <1>13, <2>2, <3>3, <4>2
      <4>3. CASE \E h \in 1..n : i = m + h
        <5>1. PICK h \in 1..n : i = m + h
          BY <4>3
        <5>2. h \in 1..(j - 1)
          BY <1>11, <1>12, <2>1, <5>1
        <5>3. subs[h].topic # t
          BY <2>2, <3>3, <5>2 DEF IsFound, FoundIn
        <5> QED BY <1>12, <1>13, <2>2, <5>1, <5>3
      <4> QED BY <1>14, <4>1, <4>2, <4>3
    <3> QED BY <3>1, <3>2, <3>3
  <2>5. CASE ~IsFound(j)
    <3>1. subs'[k].ref = 0
      BY <1>12, <2>2, <2>3, <2>5 DEF Count
    <3> QED BY <2>1, <2>4, <2>5, <3>1 DEF Count
  <2>6. CASE IsFound(j) /\ t \in fresh
    <3>1. ~InUse(t) /\ rest[j] = subs[j]
      BY <1>5, <1>12, <2>2, <2>6
    <3>2. subs[j].ref = 0
      BY <2>2, <2>6, <3>1 DEF InUse
    <3> QED BY <2>1, <2>2, <2>4, <2>6, <3>1, <3>2 DEF Count
  <2>7. CASE IsFound(j) /\ t \notin fresh /\ t \notin ToSet(l)
    <3>1. rest[j] = subs[j] /\ Users(t)' = Users(t) /\ Past(t)' = Past(t) /\ Subscribed(t)' = Subscribed(t)
      BY <1>12, <1>17, <1>18, <2>2, <2>7
    <3> QED BY <2>1, <2>2, <2>3, <2>4, <2>7, <3>1 DEF Count
  <2>8. CASE IsFound(j) /\ t \notin fresh /\ t \in ToSet(l)
    <3>1. InUse(t) /\ Subscribed(t)' = Subscribed(t)
      BY <1>5, <1>18, <2>8
    <3>2. subs[j].ref # 0
      <4>1. PICK i \in DOMAIN subs : subs[i].topic = t /\ IsFound(i) /\ subs[i].ref # 0
        BY <3>1 DEF InUse
      <4>2. i = j
        BY <1>0, <2>2, <2>8, <4>1, FoundOne
      <4> QED BY <4>1, <4>2
    <3>3. /\ Cardinality(Users(t)') = Cardinality(Users(t)) + 1 /\ Cardinality(Users(t)) \in Nat
          /\ Cardinality(Past(t)') = Cardinality(Past(t)) + 1 /\ Cardinality(Past(t)) \in Nat
          /\ Cardinality(Past(t)') <= Cardinality(Children) /\ Cardinality(Children) \in Nat
      <4>1. Past(t)' \in SUBSET Children /\ Children \in SUBSET Children
        BY <1>16, <2>8
      <4> QED BY <1>16, <2>8, <4>1, SubsetCards
    <3>4. Cardinality(Users(t)) <= subs[j].ref /\ subs[j].ref <= Cardinality(Past(t)) /\ Subscribed(t)
      BY <2>3, <2>8, <3>2 DEF Count
    <3>5. rest[j].ref = subs[j].ref + 1
      <4>1. rest[j].ref = (subs[j].ref + 1 + RefMod) % RefMod
        BY <1>12, <2>2, <2>8
      <4>2. PICK r \in Nat : r = subs[j].ref + 1
        BY <2>3
      <4>3. r < RefMod /\ RefMod \in Nat \ {0}
        <5>1. RefMod \in Nat \ {0}
          BY MqttAssumption
        <5> QED BY <2>3, <3>3, <3>4, <4>2, <5>1
      <4>4. (r + RefMod) % RefMod = r
        BY <4>3, WrapsRound
      <4> QED BY <4>1, <4>2, <4>4
    <3>6. IsFound(k)' /\ subs'[k].ref = subs[j].ref + 1 /\ Subscribed(t)'
      BY <2>2, <2>4, <2>8, <3>1, <3>4, <3>5
    <3>7. Cardinality(Users(t)') <= subs'[k].ref /\ subs'[k].ref <= Cardinality(Past(t)')
      BY <2>3, <3>3, <3>4, <3>6
    <3> QED BY <2>1, <3>6, <3>7 DEF Count
  <2> QED BY <2>5, <2>6, <2>7, <2>8
<1>21. ASSUME NEW d \in Children, NEW t \in mine'[d] \ robbed PROVE \E k \in DOMAIN subs' : subs'[k].topic = t
  <2>1. ASSUME NEW j \in 1..n, subs[j].topic = t PROVE \E k \in DOMAIN subs' : subs'[k].topic = t
    <3>1. m + j \in DOMAIN subs' /\ subs'[m + j] = rest[j]
      BY <1>13, <2>1
    <3>2. rest[j].topic = t
      BY <1>12, <2>1
    <3> QED BY <3>1, <3>2
  <2>2. CASE t \in mine[d]
    BY <1>0, <1>12, <2>1, <2>2 DEF SubsOK
  <2>3. CASE t \in ToSet(l) /\ t \in fresh
    <3>1. PICK i \in 1..m : made[i].topic = t
      BY <1>11, <2>3
    <3>2. i \in 1..(m + n)
      BY <1>11, <1>12
    <3> QED BY <1>13, <3>1, <3>2
  <2>4. CASE t \in ToSet(l) /\ t \notin fresh
    BY <1>5, <1>12, <2>1, <2>4 DEF InUse
  <2> QED BY <1>15, <2>2, <2>3, <2>4
<1>22. \A k \in DOMAIN subs', t \in Topics \ robbed : subs'[k].topic = t => Count(k, t)'
  <2> SUFFICES ASSUME NEW k \in 1..(m + n), NEW t \in Topics \ robbed, subs'[k].topic = t PROVE Count(k, t)'
    BY <1>13
  <2>1. CASE k \in 1..m
    BY <1>19, <2>1
  <2>2. CASE \E j \in 1..n : k = m + j
    <3>1. PICK j \in 1..n : k = m + j
      BY <2>2
    <3>2. subs'[m + j].topic = t
      BY <3>1
    <3>3. Count(m + j, t)'
      BY <1>20, <3>2
    <3> QED BY <3>1, <3>3
  <2> QED BY <1>14, <2>1, <2>2
<1>23. UNCHANGED robbed
  BY DEF lws_mqtt_client_send_subcribe
<1> QED BY <1>21, <1>22, <1>23 DEF SubsOK
\* Child c gives topics up: those it was the last user of are given up at the
\* broker, the others are counted down.
LEMMA UnsubscribeSubs ==
  ASSUME SubsInv, NEW c \in Children, st[c] = "open", UNCHANGED <<st, bsubs>>,
         lws_mqtt_client_send_unsubcribe(c)
  PROVE  SubsOK'
<1>0. BaseInv /\ SubsOK /\ ChildrenOK /\ subs \in Seq(Entry) /\ tx \in Seq(Sent) /\ pktId \in Nat
  BY MqttAssumption DEF SubsInv, BaseInv, ConnOK, WiresOK
<1>1. PICK l \in TopicLists :
        LET orphans == {t \in ToSet(l) : \E i \in DOMAIN subs : subs[i].topic = t /\ IsFound(i) /\ subs[i].ref = 1} IN
        /\ ToSet(l) \subseteq mine[c]
        /\ mine' = [mine EXCEPT ![c] = @ \ ToSet(l)]
        /\ subs' = Counted(ToSet(l), -1)
        /\ IF orphans = {} THEN UNCHANGED tx
           ELSE pktId' = pktId + 1 /\ tx' = Append(tx, Packet("UNSUB", pktId', c, orphans))
  BY DEF lws_mqtt_client_send_unsubcribe
<1>2. PICK T : T = ToSet(l)
  OBVIOUS
<1>3. PICK orphans : orphans = {t \in T : \E i \in DOMAIN subs : subs[i].topic = t /\ IsFound(i) /\ subs[i].ref = 1}
  OBVIOUS
<1>4. T \in SUBSET Topics /\ orphans \in SUBSET Topics /\ T \subseteq mine[c]
  BY <1>0, <1>1, <1>2, <1>3 DEF ChildrenOK
<1>5. /\ \A d \in Children : mine'[d] = IF d = c THEN mine[d] \ T ELSE mine[d]
      /\ mine \in [Children -> SUBSET Topics]
  BY <1>0, <1>1, <1>2 DEF ChildrenOK
<1>6. /\ DOMAIN subs' = DOMAIN subs
      /\ \A i \in DOMAIN subs :
           /\ subs'[i].topic = subs[i].topic
           /\ subs[i].topic \in T /\ IsFound(i) => subs'[i].ref = (subs[i].ref + (-1) + RefMod) % RefMod
           /\ ~(subs[i].topic \in T /\ IsFound(i)) => subs'[i] = subs[i]
  <2>1. subs' = Counted(T, -1)
    BY <1>1, <1>2
  <2> QED BY <1>0, <2>1, CountedLemma
<1>7. \A i \in DOMAIN subs : IsFound(i)' = IsFound(i)
  <2> SUFFICES ASSUME NEW i \in DOMAIN subs PROVE IsFound(i)' = IsFound(i)
    OBVIOUS
  <2>1. Len(subs) \in Nat /\ DOMAIN subs = 1..Len(subs)
    BY <1>0, LenProperties
  <2>2. \A j \in 1..(i - 1) : j \in DOMAIN subs
    BY <2>1
  <2> QED BY <1>6, <2>2 DEF IsFound, FoundIn
<1>8. ASSUME NEW t \in Topics, t \in T
      PROVE  /\ Users(t) = Users(t)' \cup {c} /\ Past(t) = Past(t)' \cup {c}
             /\ c \in Children \ Users(t)' /\ c \in Children \ Past(t)'
             /\ Users(t)' \in SUBSET Children /\ Past(t)' \in SUBSET Children
  <2>1. c \notin Users(t)' /\ c \notin Past(t)'
    BY <1>5, <1>8 DEF Users, Past
  <2>2. c \in Users(t) /\ c \in Past(t)
    BY <1>4, <1>8 DEF Users, Past
  <2>3. \A d \in Children : d # c => (d \in Users(t)' <=> d \in Users(t)) /\ (d \in Past(t)' <=> d \in Past(t))
    BY <1>5 DEF Users, Past
  <2>4. /\ Users(t)' \in SUBSET Children /\ Past(t)' \in SUBSET Children
        /\ Users(t) \in SUBSET Children /\ Past(t) \in SUBSET Children
    BY DEF Users, Past
  <2> QED BY <2>1, <2>2, <2>3, <2>4
<1>9. ASSUME NEW t \in Topics, t \notin T PROVE Users(t)' = Users(t) /\ Past(t)' = Past(t)
  BY <1>5, <1>9 DEF Users, Past
<1>10. ASSUME NEW t \in Topics, t \notin orphans PROVE Subscribed(t)' = Subscribed(t)
  <2>1. CASE orphans = {}
    <3>1. UNCHANGED tx
      BY <1>1, <1>2, <1>3, <2>1
    <3> QED BY <3>1, SubscribedIs
  <2>2. CASE orphans # {}
    <3>1. pktId' = pktId + 1 /\ tx' = Append(tx, Packet("UNSUB", pktId', c, orphans))
      BY <1>1, <1>2, <1>3, <2>2
    <3>2. PICK id \in Nat : id = pktId' /\ id # 0
      BY <1>0, <3>1
    <3>3. PICK x : x = Packet("UNSUB", id, c, orphans)
      OBVIOUS
    <3>4. x \in Sent /\ x.k = "UNSUB" /\ x.tops = orphans
      BY <1>4, <3>2, <3>3, SentLemma
    <3>5. tx' = Append(tx, x)
      BY <3>1, <3>2, <3>3
    <3>6. SubscribedIn(tx', bsubs, t) = SubscribedIn(tx, bsubs, t)
      BY <1>0, <1>10, <3>4, <3>5, SentSays
    <3> QED BY <3>6, SubscribedIs
  <2> QED BY <2>1, <2>2
<1>11. ASSUME NEW i \in DOMAIN subs, NEW t \in Topics \ robbed, subs'[i].topic = t PROVE Count(i, t)'
  <2>1. subs[i].topic = t /\ IsFound(i)' = IsFound(i)
    BY <1>6, <1>7, <1>11
  <2>2. Count(i, t) /\ subs[i].ref \in Nat /\ subs[i].ref < RefMod
    BY <1>0, <2>1, EntryOf DEF SubsOK
  <2>3. CASE ~IsFound(i)
    <3>1. subs'[i] = subs[i] /\ subs[i].ref = 0
      BY <1>6, <2>2, <2>3 DEF Count
    <3> QED BY <2>1, <2>3, <3>1 DEF Count
  <2>4. CASE IsFound(i) /\ t \notin T
    <3>1. subs'[i] = subs[i] /\ Users(t)' = Users(t) /\ Past(t)' = Past(t) /\ Subscribed(t)' = Subscribed(t)
      BY <1>3, <1>6, <1>9, <1>10, <2>1, <2>4
    <3> QED BY <2>1, <2>2, <2>4, <3>1 DEF Count
  <2>5. CASE IsFound(i) /\ t \in T
    <3>1. /\ Cardinality(Users(t)) = Cardinality(Users(t)') + 1 /\ Cardinality(Users(t)') \in Nat
          /\ Cardinality(Past(t)) = Cardinality(Past(t)') + 1 /\ Cardinality(Past(t)') \in Nat
      BY <1>8, <2>5, SubsetCards
    <3>2. /\ Cardinality(Users(t)) <= subs[i].ref /\ subs[i].ref <= Cardinality(Past(t))
          /\ subs[i].ref # 0 => Subscribed(t)
      BY <2>2, <2>5 DEF Count
    <3>3. subs[i].ref # 0 /\ subs[i].ref - 1 \in Nat /\ subs[i].ref - 1 < RefMod
      <4>1. RefMod \in Nat
        BY MqttAssumption
      <4> QED BY <2>2, <3>1, <3>2, <4>1
    <3>4. subs'[i].ref = subs[i].ref - 1
      <4>1. subs'[i].ref = (subs[i].ref + (-1) + RefMod) % RefMod
        BY <1>6, <2>1, <2>5
      <4>2. PICK r \in Nat : r = subs[i].ref - 1
        BY <3>3
      <4>3. subs[i].ref + (-1) = r
        BY <2>2, <4>2
      <4>4. r < RefMod /\ RefMod \in Nat \ {0}
        BY <3>3, <4>2, MqttAssumption
      <4>5. (r + RefMod) % RefMod = r
        BY <4>4, WrapsRound
      <4> QED BY <4>1, <4>2, <4>3, <4>5
    <3>5. ASSUME subs'[i].ref # 0 PROVE Subscribed(t)'
      <4>1. subs[i].ref # 1
        BY <2>2, <3>4, <3>5
      <4>2. t \notin orphans
        <5> SUFFICES ASSUME t \in orphans PROVE FALSE
          OBVIOUS
        <5>1. PICK j \in DOMAIN subs : subs[j].topic = t /\ IsFound(j) /\ subs[j].ref = 1
          BY <1>3
        <5>2. j = i
          BY <1>0, <2>1, <2>5, <5>1, FoundOne
        <5> QED BY <4>1, <5>1, <5>2
      <4> QED BY <1>10, <3>2, <3>3, <4>2
    <3>6. Cardinality(Users(t)') <= subs'[i].ref /\ subs'[i].ref <= Cardinality(Past(t)')
      BY <2>2, <3>1, <3>2, <3>4
    <3> QED BY <2>1, <2>5, <3>5, <3>6 DEF Count
  <2> QED BY <2>3, <2>4, <2>5
<1>12. ASSUME NEW d \in Children, NEW t \in mine'[d] \ robbed PROVE \E k \in DOMAIN subs' : subs'[k].topic = t
  <2>1. t \in mine[d]
    BY <1>5
  <2>2. PICK k \in DOMAIN subs : subs[k].topic = t
    BY <1>0, <2>1 DEF SubsOK
  <2> QED BY <1>6, <2>2
<1>13. UNCHANGED robbed
  BY DEF lws_mqtt_client_send_unsubcribe
<1> QED BY <1>6, <1>11, <1>12, <1>13 DEF SubsOK

\* Nobody asks for a topic, and who gives one up closes.
KeepsTopics ==
  \A c \in Children : /\ mine'[c] = mine[c] \/ (mine'[c] = {} /\ st'[c] = "closed")
                      /\ st[c] = "closed" => st'[c] = "closed"

\* A packet that says nothing of topics is sent, or none.
KeepsAsking ==
  /\ UNCHANGED bsubs
  /\ tx' = tx \/ \E x \in Sent : x.k \notin {"SUB", "UNSUB"} /\ tx' = Append(tx, x)

\* Then the broker will have what it had.
LEMMA AskingSays ==
  ASSUME tx \in Seq(Sent), KeepsAsking, NEW t
  PROVE  Subscribed(t)' = Subscribed(t)
<1>1. CASE tx' = tx
  BY <1>1, SubscribedIs DEF KeepsAsking
<1>2. CASE \E x \in Sent : x.k \notin {"SUB", "UNSUB"} /\ tx' = Append(tx, x)
  <2>1. PICK x \in Sent : x.k \notin {"SUB", "UNSUB"} /\ tx' = Append(tx, x)
    BY <1>2
  <2>2. SubscribedIn(tx', bsubs, t) = SubscribedIn(tx, bsubs, t)
    BY <2>1, SentSays
  <2> QED BY <2>2, SubscribedIs DEF KeepsAsking
<1> QED BY <1>1, <1>2 DEF KeepsAsking

\* Steps that leave the counts as they are, or take an unused entry away, or
\* rob topics.
LEMMA QuietSubs ==
  ASSUME SubsInv, KeepsTopics, \A t \in Topics : Subscribed(t)' = Subscribed(t),
         NEW s \in {subs, lws_mqtt_client_remove_subs}, Robs(s)
  PROVE  SubsOK'
<1>1. SubsOK /\ subs \in Seq(Entry) /\ mine \in [Children -> SUBSET Topics]
  BY DEF SubsInv, BaseInv, ConnOK, ChildrenOK
<1>2. \A c \in Children : mine'[c] \subseteq mine[c]
  BY DEF KeepsTopics
<1>3. \A t \in Topics : /\ Users(t)' \subseteq Users(t) /\ Past(t) \subseteq Past(t)'
                        /\ Subscribed(t) => Subscribed(t)'
  BY <1>2 DEF KeepsTopics, Users, Past
<1>4. CASE s = subs
  BY <1>1, <1>2, <1>3, <1>4, SubsFrame
<1>5. CASE s = lws_mqtt_client_remove_subs /\ s # subs
  <2>1. PICK r \in DOMAIN subs : subs[r].ref = 0 /\ s = RemoveAt(subs, r)
    BY <1>1, <1>5, RemoveSubsType
  <2> QED BY <1>1, <1>2, <1>3, <2>1, SubsRemoved
<1> QED BY <1>4, <1>5

\* The two together.
LEMMA CalmSubs ==
  ASSUME SubsInv, KeepsTopics, KeepsAsking, NEW s \in {subs, lws_mqtt_client_remove_subs}, Robs(s)
  PROVE  SubsOK'
<1>1. tx \in Seq(Sent)
  BY DEF SubsInv, BaseInv, WiresOK
<1>2. \A t \in Topics : Subscribed(t)' = Subscribed(t)
  BY <1>1, AskingSays
<1> QED BY <1>2, QuietSubs

\* Nothing of it changes.
LEMMA StillSubs ==
  ASSUME SubsInv, UNCHANGED <<mine, subs, robbed, tx, bsubs>>,
         \A c \in Children : st[c] = "closed" => st'[c] = "closed"
  PROVE  SubsOK'
<1>1. KeepsTopics /\ KeepsAsking /\ Robs(subs)
  BY DEF KeepsTopics, KeepsAsking, Robs
<1> QED BY <1>1, CalmSubs

\* A child closes: it counts as one that did, and may rob a topic.
LEMMA CloseSubs ==
  ASSUME SubsInv, NEW c \in Children, NEW l, CloseChild(c, l), UNCHANGED <<tx, bsubs>>,
         NEW s \in {subs, lws_mqtt_client_remove_subs}, rops_close_role_mqtt(c, s)
  PROVE  SubsOK'
<1>0. ChildrenOK /\ subs \in Seq(Entry) /\ robbed \subseteq Exposed
  BY DEF SubsInv, BaseInv, ConnOK
<1>1. \A d \in Children : /\ mine'[d] = IF d = c THEN {} ELSE mine[d]
                          /\ st'[d] = IF d = c THEN "closed" ELSE st[d]
  BY <1>0 DEF CloseChild, ChildrenOK
<1>2. KeepsTopics /\ KeepsAsking
  BY <1>1 DEF KeepsTopics, KeepsAsking
<1>3. s \in Seq(Entry)
  BY <1>0, RemoveSubsType
<1>4. Robs(s)
  BY <1>0, <1>3, RoleCloses DEF Robs
<1> QED BY <1>2, <1>4, CalmSubs

\* The connection closes.
LEMMA DeadSubs == ASSUME lws_close_free_wsi PROVE SubsOK'
<1>1. subs' = <<>> /\ \A c \in Children : mine'[c] = {}
  BY DEF lws_close_free_wsi
<1>2. DOMAIN subs' = {}
  BY <1>1
<1> QED BY <1>1, <1>2 DEF SubsOK

\* A packet of a child that says nothing of topics, or one of the connection.
LEMMA PublishSubs ==
  ASSUME SubsInv, NEW k \in {"WHOLE", "HEAD", "TAIL", "PUBACK", "PING"}, NEW id \in Nat,
         NEW from, from \in (IF k \in {"PUBACK", "PING"} THEN {None} ELSE Children),
         tx' = Append(tx, Packet(k, id, from, {})), UNCHANGED <<st, mine, subs, robbed, bsubs>>
  PROVE  SubsOK'
<1>1. PICK x : x = Packet(k, id, from, {})
  OBVIOUS
<1>2. x \in Sent /\ x.k \notin {"SUB", "UNSUB"}
  BY <1>1, MqttAssumption DEF Packet, Sent, SentKinds
<1>3. KeepsTopics /\ KeepsAsking /\ Robs(subs)
  BY <1>1, <1>2 DEF KeepsTopics, KeepsAsking, Robs
<1> QED BY <1>3, CalmSubs

LEMMA CallbackSubs ==
  ASSUME SubsInv, Cardinality(Children) < RefMod, \A l \in TopicLists : NoDuplicates(l),
         NEW c \in Children, st[c] = "open", NEW l,
         lws_callback_as_writeable(c, l), UNCHANGED bsubs
  PROVE  SubsOK'
<1>0. pktId \in Nat /\ ack \in [Children -> Nat]
  BY MqttAssumption DEF SubsInv, BaseInv, ConnOK, ChildrenOK
<1>1. PICK asks \in BOOLEAN :
        \/ /\ \/ lws_mqtt_client_send_publish(c, asks)
              \/ PublishRest(c)
              \/ lws_mqtt_client_send_subcribe(c)
              \/ lws_mqtt_client_send_unsubcribe(c)
              \/ UserIdles(asks)
           /\ UNCHANGED st
        \/ CloseChild(c, l) /\ rops_close_role_mqtt(c, subs) /\ UNCHANGED tx
  BY DEF lws_callback_as_writeable
<1>2. CASE CloseChild(c, l) /\ rops_close_role_mqtt(c, subs) /\ UNCHANGED tx
  BY <1>2, CloseSubs
<1>3. CASE UserIdles(asks) /\ UNCHANGED st
  <2>1. UNCHANGED <<mine, subs, robbed, tx>>
    BY <1>3 DEF UserIdles, conn
  <2> QED BY <1>3, <2>1, StillSubs
<1>4. CASE lws_mqtt_client_send_publish(c, asks) /\ UNCHANGED st
  <2>1. PICK q \in {0, 1}, last \in BOOLEAN :
          /\ pktId' = pktId + q
          /\ tx' = Append(tx, Packet(IF last THEN "WHOLE" ELSE "HEAD", IF q = 1 THEN pktId' ELSE 0, c, {}))
    BY <1>4 DEF lws_mqtt_client_send_publish
  <2>2. UNCHANGED <<mine, subs, robbed>>
    BY <1>4 DEF lws_mqtt_client_send_publish
  <2>3. PICK k \in {"WHOLE", "HEAD"} : k = IF last THEN "WHOLE" ELSE "HEAD"
    OBVIOUS
  <2>4. PICK id \in Nat : id = IF q = 1 THEN pktId' ELSE 0
    BY <1>0, <2>1
  <2>5. tx' = Append(tx, Packet(k, id, c, {}))
    BY <2>1, <2>3, <2>4
  <2>6. k \in {"WHOLE", "HEAD", "TAIL", "PUBACK", "PING"} /\ c \in (IF k \in {"PUBACK", "PING"} THEN {None} ELSE Children)
    OBVIOUS
  <2> QED BY <1>4, <2>2, <2>5, <2>6, PublishSubs
<1>5. CASE PublishRest(c) /\ UNCHANGED st
  <2>1. tx' = Append(tx, Packet("TAIL", IF inside[c] = "q1" THEN ack[c] ELSE 0, c, {})) /\ UNCHANGED <<mine, subs, robbed>>
    BY <1>5 DEF PublishRest, conn
  <2>2. PICK id \in Nat : id = IF inside[c] = "q1" THEN ack[c] ELSE 0
    BY <1>0
  <2>3. c \in (IF "TAIL" \in {"PUBACK", "PING"} THEN {None} ELSE Children)
    OBVIOUS
  <2> QED BY <1>5, <2>1, <2>2, <2>3, PublishSubs
<1>6. CASE lws_mqtt_client_send_subcribe(c) /\ UNCHANGED st
  BY <1>6, SubscribeSubs
<1>7. CASE lws_mqtt_client_send_unsubcribe(c) /\ UNCHANGED st
  BY <1>7, UnsubscribeSubs
<1> QED BY <1>1, <1>2, <1>3, <1>4, <1>5, <1>6, <1>7

LEMMA ServeSubs ==
  ASSUME SubsInv, Cardinality(Children) < RefMod, \A l \in TopicLists : NoDuplicates(l),
         ServeChild, UNCHANGED bsubs
  PROVE  SubsOK'
<1>0. ConnOK /\ ListOK /\ nack \in Nat
  BY DEF SubsInv, BaseInv, ConnOK
<1>1. CASE Ready = {}
  <2>1. UNCHANGED <<st, mine, subs, robbed, tx>>
    BY <1>1 DEF ServeChild, EndWalk, mux, conn
  <2> QED BY <2>1, StillSubs
<1>2. CASE Ready # {}
  <2>1. PICK i : i = Min(Ready)
    OBVIOUS
  <2>2. i \in DOMAIN list /\ list[i] \in ToSet(list)
    BY <1>0, <1>2, <2>1, ChosenLemma
  <2>3. PICK c : c = list[i]
    OBVIOUS
  <2>4. c \in Children /\ st[c] = "open"
    BY <1>0, <2>2, <2>3 DEF ListOK
  <2>5. CASE ~(puback /\ ~ninside)
    <3>1. lws_callback_as_writeable(c, lws_wsi_mux_move_child_to_tail(i))
      BY <1>2, <2>1, <2>3, <2>5 DEF ServeChild
    <3> QED BY <2>4, <3>1, CallbackSubs
  <2>6. CASE puback /\ ~ninside
    <3>1. SendPuback(c, lws_wsi_mux_move_child_to_tail(i))
      BY <1>2, <2>1, <2>3, <2>6 DEF ServeChild
    <3>2. tx' = Append(tx, Packet("PUBACK", nack, None, {})) /\ UNCHANGED <<st, mine, subs, robbed>>
      BY <3>1 DEF SendPuback, conn
    <3>3. None \in (IF "PUBACK" \in {"PUBACK", "PING"} THEN {None} ELSE Children)
      OBVIOUS
    <3> QED BY <1>0, <3>2, <3>3, PublishSubs
  <2> QED BY <2>5, <2>6
<1> QED BY <1>1, <1>2

LEMMA PolloutSubs ==
  ASSUME SubsInv, Cardinality(Children) < RefMod, \A l \in TopicLists : NoDuplicates(l),
         rops_handle_POLLOUT_mqtt \/ WalkOn
  PROVE  SubsOK'
<1>1. UNCHANGED bsubs
  BY DEF rops_handle_POLLOUT_mqtt, WalkOn, broker
<1>2. CASE SendPingreq
  <2>1. tx' = Append(tx, Packet("PING", 0, None, {})) /\ UNCHANGED <<st, mine, subs, robbed>>
    BY <1>2 DEF SendPingreq, mux, conn
  <2>2. None \in (IF "PING" \in {"PUBACK", "PING"} THEN {None} ELSE Children)
    OBVIOUS
  <2> QED BY <1>1, <2>1, <2>2, PublishSubs
<1>3. CASE ServeChild
  BY <1>1, <1>3, ServeSubs
<1>4. CASE EndWalk
  <2>1. UNCHANGED <<st, mine, subs, robbed, tx>>
    BY <1>4 DEF EndWalk, mux, conn
  <2> QED BY <1>1, <2>1, StillSubs
<1> QED BY <1>2, <1>3, <1>4 DEF rops_handle_POLLOUT_mqtt, WalkOn
LEMMA RxSubs == ASSUME SubsInv, _lws_mqtt_rx_parser PROVE SubsOK'
<1>0. ConnOK /\ WiresOK /\ ListOK
  BY DEF SubsInv, BaseInv
<1>1. PICK p : p = Head(rx)
  OBVIOUS
<1>2. rx # <<>>
  BY DEF _lws_mqtt_rx_parser
<1>3. p.k \in ReadKinds
  <2>1. p \in Received
    BY <1>0, <1>1, <1>2, HeadRead DEF WiresOK
  <2> QED BY <2>1 DEF Received
<1>5. CASE lws_close_free_wsi
  BY <1>5, DeadSubs
<1>6. CASE p.k = "PUBACK"
  <2>1. RxPuback(p.id)
    BY <1>1, <1>6 DEF _lws_mqtt_rx_parser
  <2>2. CASE Asked(unacked, p.id) # {}
    <3>1. PICK c : c = list[Min(Asked(unacked, p.id))]
      OBVIOUS
    <3>2. c \in Children
      BY <1>0, <2>2, <3>1, AskedLemma
    <3>3. \/ UNCHANGED <<st, mine, subs, robbed>>
          \/ CloseChild(c, list) /\ rops_close_role_mqtt(c, subs)
      BY <2>1, <2>2, <3>1 DEF RxPuback, Answered, AnswerCloses
    <3>4. UNCHANGED <<tx, bsubs>>
      BY <2>1, <2>2 DEF RxPuback, broker
    <3>5. CASE CloseChild(c, list) /\ rops_close_role_mqtt(c, subs)
      BY <3>2, <3>4, <3>5, CloseSubs
    <3>6. CASE UNCHANGED <<st, mine, subs, robbed>>
      BY <3>4, <3>6, StillSubs
    <3> QED BY <3>3, <3>5, <3>6
  <2> QED BY <1>5, <2>1, <2>2 DEF RxPuback
<1>7. CASE p.k = "SUBACK"
  <2>1. RxSuback(p.id)
    BY <1>1, <1>7 DEF _lws_mqtt_rx_parser
  <2>2. CASE ~lws_close_free_wsi
    <3>1. UNCHANGED <<st, mine, subs, robbed, tx, bsubs>>
      BY <2>1, <2>2 DEF RxSuback, Answered, conn, broker
    <3> QED BY <3>1, StillSubs
  <2> QED BY <1>5, <2>2
<1>8. CASE p.k = "UNSUBACK"
  <2>1. RxUnsuback(p.id)
    BY <1>1, <1>8 DEF _lws_mqtt_rx_parser
  <2>2. CASE Asked(inunsub, p.id) # {}
    <3>1. PICK c : c = list[Min(Asked(inunsub, p.id))]
      OBVIOUS
    <3>2. c \in Children
      BY <1>0, <2>2, <3>1, AskedLemma
    <3>3. \/ UNCHANGED <<st, mine, robbed>> /\ subs' = lws_mqtt_client_remove_subs
          \/ CloseChild(c, list) /\ rops_close_role_mqtt(c, lws_mqtt_client_remove_subs)
      BY <2>1, <2>2, <3>1 DEF RxUnsuback, Answered, AnswerCloses
    <3>4. UNCHANGED <<tx, bsubs>>
      BY <2>1, <2>2 DEF RxUnsuback, broker
    <3>5. CASE CloseChild(c, list) /\ rops_close_role_mqtt(c, lws_mqtt_client_remove_subs)
      BY <3>2, <3>4, <3>5, CloseSubs
    <3>6. CASE UNCHANGED <<st, mine, robbed>> /\ subs' = lws_mqtt_client_remove_subs
      <4>1. KeepsTopics /\ KeepsAsking
        BY <3>4, <3>6 DEF KeepsTopics, KeepsAsking
      <4>2. Robs(lws_mqtt_client_remove_subs)
        BY <3>6 DEF Robs
      <4> QED BY <4>1, <4>2, CalmSubs
    <3> QED BY <3>3, <3>5, <3>6
  <2> QED BY <1>5, <2>1, <2>2 DEF RxUnsuback
<1>9. CASE p.k \in {"PINGRESP", "PUBLISH"}
  <2>1. RxPingresp \/ RxPublish(p.id, p.tops) \/ RxPublishFails(p.id, p.tops)
    BY <1>1, <1>9 DEF _lws_mqtt_rx_parser
  <2>2. UNCHANGED <<st, mine, subs, robbed, tx, bsubs>>
    BY <2>1 DEF RxPingresp, RxPublish, RxPublishFails, mux, conn, broker
  <2> QED BY <2>2, StillSubs
<1> QED BY <1>3, <1>6, <1>7, <1>8, <1>9 DEF ReadKinds

\* What the broker reads becomes what it has.
LEMMA BrokerSubs == ASSUME SubsInv, BrokerReads \/ BrokerPublishes PROVE SubsOK'
<1>1. UNCHANGED <<st, mine, subs, robbed>>
  BY DEF BrokerReads, BrokerPublishes, mux, conn
<1>2. tx \in Seq(Sent)
  BY DEF SubsInv, BaseInv, WiresOK
<1>3. CASE BrokerPublishes
  <2>1. UNCHANGED <<tx, bsubs>>
    BY <1>3 DEF BrokerPublishes
  <2> QED BY <1>1, <2>1, StillSubs
<1>4. CASE BrokerReads
  <2>1. /\ tx # <<>> /\ tx' = Tail(tx)
        /\ bsubs' = CASE Head(tx).k = "SUB" -> bsubs \cup Head(tx).tops
                      [] Head(tx).k = "UNSUB" -> bsubs \ Head(tx).tops [] OTHER -> bsubs
    BY <1>4 DEF BrokerReads
  <2>2. \A t \in Topics : Subscribed(t)' = Subscribed(t)
    <3> SUFFICES ASSUME NEW t \in Topics PROVE Subscribed(t)' = Subscribed(t)
      OBVIOUS
    <3>1. SubscribedIn(Tail(tx), bsubs', t) = SubscribedIn(tx, bsubs, t)
      BY <1>2, <2>1, ReadSays
    <3> QED BY <2>1, <3>1, SubscribedIs
  <2>3. KeepsTopics /\ Robs(subs)
    BY <1>1 DEF KeepsTopics, Robs
  <2> QED BY <1>1, <2>2, <2>3, QuietSubs
<1> QED BY <1>3, <1>4

LEMMA OtherSubs ==
  ASSUME SubsInv, NEW c \in Children,
         \/ RxConnack \/ rops_issue_keepalive_mqtt \/ lws_wsi_mqtt_adopt(c) \/ UserAsks(c)
         \/ lws_mqtt_publish_resend(c) \/ KillAsync(c)
  PROVE  SubsOK'
<1>1. /\ UNCHANGED <<tx, bsubs>>
      /\ ~KillAsync(c) => UNCHANGED <<subs, robbed>>
  BY DEF RxConnack, rops_issue_keepalive_mqtt, lws_wsi_mqtt_adopt, UserAsks, lws_mqtt_publish_resend,
         KillAsync, conn, broker
<1>2. CASE KillAsync(c)
  <2>1. CloseChild(c, list) /\ rops_close_role_mqtt(c, subs)
    BY <1>2 DEF KillAsync
  <2> QED BY <1>1, <2>1, CloseSubs
<1>3. CASE ~KillAsync(c) /\ lws_wsi_mqtt_adopt(c)
  <2>1. UNCHANGED mine /\ st[c] = "new" /\ st' = [st EXCEPT ![c] = "open"]
    BY <1>3 DEF lws_wsi_mqtt_adopt
  <2>2. \A d \in Children : st[d] = "closed" => st'[d] = "closed"
    BY <2>1 DEF SubsInv, BaseInv, ChildrenOK
  <2> QED BY <1>1, <1>3, <2>1, <2>2, StillSubs
<1>4. CASE /\ ~KillAsync(c)
           /\ RxConnack \/ rops_issue_keepalive_mqtt \/ UserAsks(c) \/ lws_mqtt_publish_resend(c)
  <2>1. UNCHANGED <<st, mine>>
    BY <1>4 DEF RxConnack, rops_issue_keepalive_mqtt, UserAsks, lws_mqtt_publish_resend, mux
  <2> QED BY <1>1, <1>4, <2>1, StillSubs
<1> QED BY <1>2, <1>3, <1>4

LEMMA SubsStart == MqttInit => SubsInv
<1> SUFFICES ASSUME MqttInit PROVE SubsInv
  OBVIOUS
<1>1. BaseInv
  BY BaseStart
<1>2. DOMAIN subs = {} /\ \A c \in Children : mine[c] = {}
  BY DEF MqttInit
<1> QED BY <1>1, <1>2 DEF SubsInv, SubsOK

LEMMA SubsNext ==
  ASSUME Cardinality(Children) < RefMod, \A l \in TopicLists : NoDuplicates(l)
  PROVE  SubsInv /\ [MqttNext]_mqttVars => SubsInv'
<1> SUFFICES ASSUME SubsInv, [MqttNext]_mqttVars PROVE SubsInv'
  OBVIOUS
<1>0. BaseInv'
  BY BaseNext DEF SubsInv
<1>1. CASE UNCHANGED mqttVars
  <2>1. UNCHANGED <<st, mine, subs, robbed, tx, bsubs>>
    BY <1>1 DEF mqttVars, mux, conn, broker
  <2> QED BY <1>0, <2>1, StillSubs DEF SubsInv
<1>2. CASE ConnectFails \/ lws_validity_cb
  BY <1>0, <1>2, DeadSubs DEF ConnectFails, lws_validity_cb, SubsInv
<1>3. CASE rops_handle_POLLOUT_mqtt \/ WalkOn
  BY <1>0, <1>3, PolloutSubs DEF SubsInv
<1>4. CASE _lws_mqtt_rx_parser
  BY <1>0, <1>4, RxSubs DEF SubsInv
<1>5. CASE BrokerReads \/ BrokerPublishes
  BY <1>0, <1>5, BrokerSubs DEF SubsInv
<1>6. CASE RxConnack \/ rops_issue_keepalive_mqtt
  <2>1. First \in Children
    BY MqttAssumption
  <2> QED BY <1>0, <1>6, <2>1, OtherSubs DEF SubsInv
<1>7. CASE \E c \in Children : lws_wsi_mqtt_adopt(c) \/ UserAsks(c) \/ lws_mqtt_publish_resend(c) \/ KillAsync(c)
  BY <1>0, <1>7, OtherSubs DEF SubsInv
<1> QED BY <1>1, <1>2, <1>3, <1>4, <1>5, <1>6, <1>7 DEF MqttNext

\* A topic that a stream asked for and did not give up stays subscribed at the
\* broker and counted on the connection, whatever the other streams subscribe,
\* give up or leave behind when they close, and whether they wait for their
\* answers or not, unless a close robbed this very topic:
\* rops_close_role_mqtt() looks the topics of a child up past the start of
\* their names, so it takes a count from a topic that is spelled there, and
\* gives back none of its own.  Therefore the bits of ref_count have to be
\* enough for every stream there ever is on the connection.  If the count wraps
\* round to 0 the next stream starts a second one, and takes the topic from the
\* others when it leaves.  And no list names a topic twice:
\* lws_mqtt_create_sub() would make two entries for one use of it, and the
\* argument counts one for each.
THEOREM SubscriberIsServedHolds ==
  ASSUME Cardinality(Children) < RefMod, \A l \in TopicLists : NoDuplicates(l)
  PROVE  MqttSpec => []SubscriberIsServed
<1>1. MqttInit => SubsInv
  BY SubsStart
<1>2. SubsInv /\ [MqttNext]_mqttVars => SubsInv'
  BY SubsNext
<1>3. SubsInv => SubscriberIsServed
  <2> SUFFICES ASSUME SubsInv, NEW c \in Children, NEW t \in mine[c] \ robbed
               PROVE  Subscribed(t) /\ InUse(t)
    BY DEF SubscriberIsServed
  <2>1. SubsOK /\ subs \in Seq(Entry) /\ t \in Topics \ robbed
    BY DEF SubsInv, BaseInv, ConnOK, ChildrenOK
  <2>2. Users(t) # {}
    BY DEF Users
  <2> QED BY <2>1, <2>2, UsedTopic DEF InUse
<1> QED BY <1>1, <1>2, <1>3, PTL DEF MqttSpec
=============================================================================
