--------------------------- MODULE JobQueueProofs ---------------------------
(***************************************************************************)
(* What each operation of the job queue keeps: no entry but the popped one *)
(* ever leaves the queue, a rebuilt queue holds every PENDING row, and     *)
(* what a sort leaves is in order, with no job twice that was there once.  *)
(***************************************************************************)
EXTENDS JobQueue, TLAPS, SequenceTheorems, FiniteSetTheorems

\* list.sort (queue.py:30 and :61) rearranges: no entry is lost or made up.
LEMMA SortedKeeps ==
  ASSUME NEW q \in Seq(Entry), NEW r \in Sorted(q)
  PROVE  /\ r \in Seq(Entry)
         /\ Len(r) = Len(q)
         /\ \A i \in DOMAIN q : \E k \in DOMAIN r : r[k] = q[i]
  <1>1. PICK p \in Surjection(DOMAIN q, DOMAIN q) : r = [i \in DOMAIN q |-> q[p[i]]]
    BY DEF Sorted
  <1>2. DOMAIN q = 1..Len(q) /\ Len(q) \in Nat
    BY LenProperties
  <1>3. p \in [DOMAIN q -> DOMAIN q] /\ \A w \in DOMAIN q : \E v \in DOMAIN q : p[v] = w
    BY DEF Surjection
  <1>4. \A i \in 1..Len(q) : q[i] \in Entry
    BY ElementOfSeq
  <1>5. r \in [1..Len(q) -> Entry]
    BY <1>1, <1>2, <1>3, <1>4
  <1>6. r \in Seq(Entry) /\ Len(r) = Len(q)
    BY <1>2, <1>5
  <1>7. \A i \in DOMAIN q : \E k \in DOMAIN r : r[k] = q[i]
    BY <1>1, <1>3
  <1> QED BY <1>6, <1>7

\* The critical section of submit_job and retry_job (queue.py:27-30, 58-61):
\* the new entry is in the queue and every job that was queued still is.
LEMMA AppendKeeps ==
  ASSUME queue \in Seq(Entry), NEW e \in Entry, append_and_sort(e)
  PROVE  /\ queue' \in Seq(Entry)
         /\ Queued(e.job)'
         /\ \A j \in Jobs : Queued(j) => Queued(j)'
  <1> DEFINE q == Append(queue, e)
  <1>1. /\ q \in Seq(Entry)
        /\ Len(q) = Len(queue) + 1
        /\ q[Len(q)] = e
        /\ \A i \in 1..Len(queue) : q[i] = queue[i]
    OBVIOUS
  <1>2. /\ queue' \in Seq(Entry)
        /\ \A i \in DOMAIN q : \E k \in DOMAIN queue' : queue'[k] = q[i]
    BY <1>1, SortedKeeps DEF append_and_sort
  <1>3. Len(q) \in DOMAIN q
    BY <1>1, LenProperties
  <1>4. Queued(e.job)'
    BY <1>1, <1>2, <1>3 DEF Queued
  <1>5. ASSUME NEW j \in Jobs, Queued(j)
        PROVE  Queued(j)'
    <2>1. PICK i \in DOMAIN queue : queue[i].job = j
      BY <1>5 DEF Queued
    <2>2. i \in 1..Len(queue) /\ i \in DOMAIN q
      BY <1>1, LenProperties
    <2> QED BY <1>1, <1>2, <2>1, <2>2 DEF Queued
  <1> QED BY <1>2, <1>4, <1>5

\* pop_top_job (queue.py:38-42) takes the head and nothing else.
LEMMA PopKeeps ==
  ASSUME queue \in Seq(Entry), queue # <<>>, pop_top_job
  PROVE  /\ queue' \in Seq(Entry)
         /\ Head(queue) \in Entry
         /\ \A j \in Jobs : Queued(j) => Queued(j)' \/ Head(queue).job = j
  <1>1. /\ Head(queue) \in Entry /\ Head(queue) = queue[1]
        /\ Tail(queue) \in Seq(Entry)
        /\ Len(Tail(queue)) = Len(queue) - 1
        /\ \A i \in 1..Len(Tail(queue)) : Tail(queue)[i] = queue[i + 1]
    BY HeadTailProperties
  <1>2. queue' = Tail(queue)
    BY DEF pop_top_job
  <1>3. ASSUME NEW j \in Jobs, Queued(j), Head(queue).job # j
        PROVE  Queued(j)'
    <2>1. PICK i \in DOMAIN queue : queue[i].job = j
      BY <1>3 DEF Queued
    <2>2. i \in 2..Len(queue)
      BY <1>1, <1>3, <2>1, LenProperties
    <2>3. i - 1 \in DOMAIN queue' /\ queue'[i - 1] = queue[i]
      BY <1>1, <1>2, <2>2, LenProperties
    <2> QED BY <2>1, <2>3 DEF Queued
  <1> QED BY <1>1, <1>2, <1>3

\* requeue_job (queue.py:44-47) puts the entry in front of what is there.
LEMMA RequeueKeeps ==
  ASSUME queue \in Seq(Entry), NEW e \in Entry, requeue_job(e)
  PROVE  /\ queue' \in Seq(Entry)
         /\ Queued(e.job)'
         /\ \A j \in Jobs : Queued(j) => Queued(j)'
  <1>1. /\ queue' \in Seq(Entry)
        /\ Len(queue') = Len(queue) + 1
        /\ queue'[1] = e
        /\ \A i \in 1..Len(queue) : queue'[i + 1] = queue[i]
    BY DEF requeue_job
  <1>2. DOMAIN queue' = 1..Len(queue) + 1 /\ DOMAIN queue = 1..Len(queue)
    BY <1>1, LenProperties
  <1>3. Queued(e.job)'
    BY <1>1, <1>2, LenProperties DEF Queued
  <1>4. ASSUME NEW j \in Jobs, Queued(j)
        PROVE  Queued(j)'
    <2>1. PICK i \in 1..Len(queue) : queue[i].job = j
      BY <1>2, <1>4 DEF Queued
    <2>2. i + 1 \in DOMAIN queue' /\ queue'[i + 1].job = j
      BY <1>1, <1>2, <2>1, LenProperties
    <2> QED BY <2>2 DEF Queued
  <1> QED BY <1>1, <1>3, <1>4

\* _recover_pending_jobs (queue.py:15-20): the rebuilt queue holds every job
\* whose row is PENDING.
LEMMA RecoverFinds ==
  ASSUME _recover_pending_jobs
  PROVE  /\ queue' \in Seq(Entry)
         /\ \A j \in get_jobs("PENDING") : Queued(j)'
  <1> DEFINE pending == get_jobs("PENDING")
             k == Cardinality(pending)
  <1>1. PICK q \in [1..k -> pending] :
           /\ \A j \in pending : \E i \in DOMAIN q : q[i] = j
           /\ queue' = [i \in DOMAIN q |-> Row(q[i])]
    BY DEF _recover_pending_jobs
  <1>2. pending \subseteq Jobs
    BY DEF get_jobs
  <1>3. k \in Nat
    BY <1>2, RegistryAssumption, FS_Subset, FS_CardinalityType
  <1>4. queue' \in [1..k -> Entry]
    BY <1>1, <1>2 DEF Row, Entry
  <1>5. queue' \in Seq(Entry)
    BY <1>3, <1>4
  <1>6. ASSUME NEW j \in pending
        PROVE  Queued(j)'
    <2>1. PICK i \in 1..k : q[i] = j
      BY <1>1
    <2>2. i \in DOMAIN queue' /\ queue'[i].job = j
      BY <1>1, <2>1 DEF Row
    <2> QED BY <2>2 DEF Queued
  <1> QED BY <1>5, <1>6

-----------------------------------------------------------------------------
(* Where the entries are afterwards. *)

\* What list.sort leaves is in key order, and rearranged from what was there.
LEMMA SortedOrders ==
  ASSUME NEW q \in Seq(Entry), NEW r \in Sorted(q), created \in [Jobs -> Nat]
  PROVE  /\ Len(r) = Len(q)
         /\ \E p \in [1..Len(q) -> 1..Len(q)] :
               /\ \A i \in 1..Len(q) : r[i] = q[p[i]]
               /\ \A i, k \in 1..Len(q) : i # k => p[i] # p[k]
         /\ \A i, k \in 1..Len(q) : i < k => Key(r[i]) <= Key(r[k])
  <1>1. PICK p \in Surjection(DOMAIN q, DOMAIN q) :
           /\ \A i, k \in DOMAIN q : i < k => SortsBefore(q, p[i], p[k])
           /\ r = [i \in DOMAIN q |-> q[p[i]]]
    BY DEF Sorted
  <1>2. DOMAIN q = 1..Len(q) /\ Len(q) \in Nat
    BY LenProperties
  <1>3. p \in [1..Len(q) -> 1..Len(q)]
    BY <1>1, <1>2 DEF Surjection
  <1>4. \A i \in 1..Len(q) : Key(q[i]) \in Nat
    <2> TAKE i \in 1..Len(q)
    <2>1. q[i] \in Entry
      BY ElementOfSeq
    <2> QED BY <2>1 DEF Entry, Key
  <1>5. ASSUME NEW i \in 1..Len(q), NEW k \in 1..Len(q), i < k
        PROVE  p[i] # p[k] /\ Key(r[i]) <= Key(r[k])
    <2>1. SortsBefore(q, p[i], p[k]) /\ p[i] \in 1..Len(q) /\ p[k] \in 1..Len(q)
      BY <1>1, <1>2, <1>3, <1>5
    <2>2. r[i] = q[p[i]] /\ r[k] = q[p[k]]
      BY <1>1, <1>2
    <2>3. Key(q[p[i]]) \in Nat /\ Key(q[p[k]]) \in Nat
      BY <1>4, <2>1
    <2>4. p[i] # p[k] /\ Key(q[p[i]]) <= Key(q[p[k]])
      BY <2>1, <2>3 DEF SortsBefore
    <2> QED BY <2>2, <2>4
  <1>6. Len(r) = Len(q)
    BY <1>1, SortedKeeps
  <1>7. \A i, k \in 1..Len(q) : i # k => p[i] # p[k]
    <2> TAKE i, k \in 1..Len(q)
    <2> QED BY <1>2, <1>5
  <1> QED BY <1>1, <1>2, <1>3, <1>5, <1>6, <1>7

\* submit_job and retry_job leave the whole queue in order; its entries are the
\* old ones and the new one.
LEMMA AppendOrders ==
  ASSUME queue \in Seq(Entry), NEW e \in Entry, created \in [Jobs -> Nat],
         append_and_sort(e)
  PROVE  /\ \A i, k \in 1..Len(queue') : i < k => Key(queue'[i]) <= Key(queue'[k])
         /\ \A k \in 1..Len(queue') :
               queue'[k] = e \/ \E i \in 1..Len(queue) : queue'[k] = queue[i]
         /\ \A j \in Jobs : OnceQueued(j) /\ (e.job = j => ~Queued(j)) => OnceQueued(j)'
  <1> DEFINE q == Append(queue, e)
  <1>1. /\ q \in Seq(Entry) /\ Len(queue) \in Nat
        /\ Len(q) = Len(queue) + 1
        /\ q[Len(q)] = e
        /\ \A i \in 1..Len(queue) : q[i] = queue[i]
    BY LenProperties
  <1> HIDE DEF q
  <1>2. queue' \in Sorted(q)
    BY DEF append_and_sort, q
  <1>3. /\ Len(queue') = Len(q)
        /\ \A i, k \in 1..Len(q) : i < k => Key(queue'[i]) <= Key(queue'[k])
    BY <1>1, <1>2, SortedOrders
  <1>4. PICK p \in [1..Len(q) -> 1..Len(q)] :
           /\ \A i \in 1..Len(q) : queue'[i] = q[p[i]]
           /\ \A i, k \in 1..Len(q) : i # k => p[i] # p[k]
    BY <1>1, <1>2, SortedOrders
  <1>5. \A i \in 1..Len(q) : i \in 1..Len(queue) \/ i = Len(q)
    BY <1>1
  <1>6. ASSUME NEW j \in Jobs, OnceQueued(j), e.job = j => ~Queued(j) PROVE OnceQueued(j)'
    <2>1. e.job = j => \A i \in 1..Len(queue) : queue[i].job # j
      BY <1>6, LenProperties DEF Queued
    <2>2. ASSUME NEW i \in 1..Len(q), NEW k \in 1..Len(q), q[i].job = j, q[k].job = j
          PROVE  i = k
      BY <1>1, <1>5, <1>6, <2>1, <2>2 DEF OnceQueued
    <2>3. ASSUME NEW i \in 1..Len(q), NEW k \in 1..Len(q), queue'[i].job = j, queue'[k].job = j
          PROVE  i = k
      <3>1. /\ p[i] \in 1..Len(q) /\ p[k] \in 1..Len(q)
            /\ q[p[i]].job = j /\ q[p[k]].job = j
        BY <1>4, <2>3
      <3> QED BY <1>4, <2>2, <3>1
    <2> QED BY <1>3, <2>3 DEF OnceQueued
  <1>7. ASSUME NEW k \in 1..Len(queue')
        PROVE  queue'[k] = e \/ \E i \in 1..Len(queue) : queue'[k] = queue[i]
    <2>1. k \in 1..Len(q) /\ queue'[k] = q[p[k]] /\ p[k] \in 1..Len(q)
      BY <1>3, <1>4
    <2> QED BY <1>1, <1>5, <2>1
  <1>8. \A i, k \in 1..Len(queue') : i < k => Key(queue'[i]) <= Key(queue'[k])
    BY <1>3
  <1> QED BY <1>6, <1>7, <1>8

\* pop_top_job moves the others up by one.
LEMMA PopOrders ==
  ASSUME queue \in Seq(Entry), queue # <<>>, pop_top_job
  PROVE  /\ Len(queue) \in Nat \ {0} /\ Len(queue') = Len(queue) - 1
         /\ Head(queue) = queue[1]
         /\ \A i \in 1..Len(queue') : i + 1 \in 1..Len(queue) /\ queue'[i] = queue[i + 1]
  <1>1. /\ Head(queue) = queue[1] /\ Tail(queue) \in Seq(Entry)
        /\ Len(Tail(queue)) = Len(queue) - 1
        /\ \A i \in 1..Len(Tail(queue)) : Tail(queue)[i] = queue[i + 1]
    BY HeadTailProperties
  <1>2. Len(queue) \in Nat \ {0}
    BY EmptySeq
  <1> QED BY <1>1, <1>2 DEF pop_top_job

\* requeue_job moves the others down by one.
LEMMA RequeueOrders ==
  ASSUME queue \in Seq(Entry), NEW e \in Entry, requeue_job(e)
  PROVE  /\ Len(queue) \in Nat /\ Len(queue') = Len(queue) + 1
         /\ queue'[1] = e
         /\ \A i \in 1..Len(queue') :
               i = 1 \/ (i - 1 \in 1..Len(queue) /\ queue'[i] = queue[i - 1])
  <1>1. /\ Len(queue) \in Nat /\ Len(queue') = Len(queue) + 1
        /\ queue'[1] = e
        /\ \A i \in 1..Len(queue) : queue'[i + 1] = queue[i]
    BY LenProperties DEF requeue_job
  <1>2. ASSUME NEW i \in 1..Len(queue'), i # 1
        PROVE  i - 1 \in 1..Len(queue) /\ queue'[i] = queue[i - 1]
    <2>1. i - 1 \in 1..Len(queue) /\ (i - 1) + 1 = i
      BY <1>1, <1>2
    <2> QED BY <1>1, <2>1
  <1> QED BY <1>1, <1>2

\* A rebuilt queue is in order, and holds PENDING jobs only, each once.
LEMMA RecoverOrders ==
  ASSUME _recover_pending_jobs, created \in [Jobs -> Nat]
  PROVE  /\ \A i, k \in 1..Len(queue') : i < k => Key(queue'[i]) <= Key(queue'[k])
         /\ \A i \in 1..Len(queue') : queue'[i].job \in get_jobs("PENDING")
         /\ \A j \in Jobs : OnceQueued(j)'
  <1> DEFINE pending == get_jobs("PENDING")
             m == Cardinality(pending)
  <1>1. PICK q \in [1..m -> pending] :
           /\ \A i, k \in DOMAIN q : i < k => created[q[i]] < created[q[k]]
           /\ queue' = [i \in DOMAIN q |-> Row(q[i])]
    BY DEF _recover_pending_jobs
  <1>2. pending \subseteq Jobs /\ m \in Nat
    BY RegistryAssumption, FS_Subset, FS_CardinalityType DEF get_jobs
  <1>3. Len(queue') = m /\ \A i \in 1..m : queue'[i] = Row(q[i])
    BY <1>1, <1>2
  <1>4. \A i \in 1..m : queue'[i].job = q[i] /\ Key(queue'[i]) = created[q[i]]
                        /\ created[q[i]] \in Nat
    BY <1>1, <1>2, <1>3 DEF Row, Key
  <1>5. \A i, k \in 1..m : i < k => created[q[i]] < created[q[k]]
    BY <1>1
  <1>6. ASSUME NEW i \in 1..m, NEW k \in 1..m, q[i] = q[k] PROVE i = k
    <2>1. i \in Nat /\ k \in Nat
      BY <1>2
    <2>2. ~(i < k) /\ ~(k < i)
      BY <1>4, <1>5, <1>6
    <2> QED BY <2>1, <2>2
  <1> HIDE DEF m
  <1>7. ASSUME NEW i \in 1..Len(queue'), NEW k \in 1..Len(queue'), i < k
        PROVE  Key(queue'[i]) <= Key(queue'[k])
    <2>1. i \in 1..m /\ k \in 1..m
      BY <1>3
    <2>2. /\ Key(queue'[i]) = created[q[i]] /\ created[q[i]] \in Nat
          /\ Key(queue'[k]) = created[q[k]] /\ created[q[k]] \in Nat
      BY <1>4, <2>1
    <2>3. created[q[i]] < created[q[k]]
      BY <1>5, <1>7, <2>1
    <2> QED BY <2>2, <2>3
  <1>8. ASSUME NEW i \in 1..Len(queue')
        PROVE  queue'[i].job \in pending
    <2>1. i \in 1..m
      BY <1>3
    <2>2. queue'[i].job = q[i]
      BY <1>4, <2>1
    <2> QED BY <1>1, <2>1, <2>2
  <1>9. ASSUME NEW i \in 1..Len(queue'), NEW k \in 1..Len(queue'),
               queue'[i].job = queue'[k].job
        PROVE  i = k
    <2>1. i \in 1..m /\ k \in 1..m
      BY <1>3
    <2>2. queue'[i].job = q[i] /\ queue'[k].job = q[k]
      BY <1>4, <2>1
    <2> QED BY <1>6, <1>9, <2>1, <2>2
  <1>10. \A j \in Jobs : OnceQueued(j)'
    BY <1>9 DEF OnceQueued
  <1> QED BY <1>7, <1>8, <1>10
=============================================================================
