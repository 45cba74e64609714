--------------------------- MODULE UsageDataProofs ---------------------------
(***************************************************************************)
(* Theorems about UsageData for any number of processes, Mails, licences,  *)
(* losses and failures.                                                    *)
(***************************************************************************)
EXTENDS UsageData, FiniteSetTheorems, SequenceTheorems, TLAPS

LEMMA InitInv == Init => UsageInv
  <1> SUFFICES ASSUME Init PROVE UsageInv
    OBVIOUS
  <1> USE DEF Init
  <1>1. TaskTypeOK
    BY MaxFailuresAssumption DEF TaskTypeOK, PostCap
  <1>2. StoredInOrder /\ Places
    BY DEF StoredInOrder, Places, SnapshotIsOldest
  <1>3. PostsAccounted
    BY DEF PostsAccounted
  <1> QED
    BY <1>1, <1>2, <1>3 DEF UsageInv

(* A process moves on from the Mail it has locked, or closes it and lets   *)
(* go; nobody else is disturbed.                                           *)
LEMMA PlacesKept ==
  ASSUME UsageInv, TaskTypeOK', NEW s \in Sender,
         \A r \in Sender : want'[r] = want[r] \/ want'[r] = {},
         \A r \in Sender \ {s} : pc'[r] = pc[r] /\ job'[r] = job[r],
         \/ status' = status
         \/ /\ job[s] # 0 /\ job'[s] = 0
            /\ status' = [status EXCEPT ![job[s]] = "reply_processed"],
         \/ job'[s] = 0 /\ pc'[s] = "idle"
         \/ job'[s] = job[s] /\ {pc[s], pc'[s]} \subseteq {"read", "post", "save"}
  PROVE  Places'
  <1> USE DEF UsageInv, TaskTypeOK
  <1>1. \A u \in UsageId : /\ status'[u] = status[u] \/ status'[u] = "reply_processed"
                           /\ status'[u] # status[u] => job[s] = u /\ job'[s] = 0
    OBVIOUS
  <1>2. \A u \in UsageId : status[u] \in {"none", "reply_received", "reply_processed"}
    OBVIOUS
  <1>3. ASSUME NEW r \in Sender PROVE SnapshotIsOldest(r)'
    <2>1. Received' \subseteq Received
      BY <1>1 DEF Received
    <2>2. ASSUME NEW u \in want'[r]
          PROVE  status'[u] # "none" /\ \A v \in Received' : v < u => v \in want'[r]
      <3>1. u \in want[r] /\ want'[r] = want[r] /\ u \in UsageId
        BY <2>2
      <3>2. status[u] # "none" /\ \A v \in Received : v < u => v \in want[r]
        BY <3>1 DEF Places, SnapshotIsOldest
      <3> QED
        BY <1>1, <2>1, <3>1, <3>2
    <2> QED
      BY <2>2 DEF SnapshotIsOldest
  <1>4. ASSUME NEW r \in Sender, pc'[r] \in {"read", "post", "save"} PROVE WorksOnFirst(r)'
    <2>1. WorksOnFirst(r) /\ job'[r] = job[r]
      BY <1>4 DEF Places
    <2>2. job[r] \in UsageId /\ job[r] # 0
      BY <2>1 DEF WorksOnFirst, UsageId
    <2>3. r # s => job[s] # job[r]
      BY <2>1 DEF WorksOnFirst
    <2>4. status'[job[r]] = "reply_received"
      BY <1>1, <2>1, <2>2, <2>3 DEF WorksOnFirst
    <2>5. \A v \in UsageId : v < job'[r] => status'[v] = "reply_processed"
      BY <1>1, <2>1 DEF WorksOnFirst
    <2>6. \A q \in Sender : job'[q] = job'[r] => q = r
      BY <2>1, <2>2 DEF WorksOnFirst
    <2> QED
      BY <2>1, <2>2, <2>4, <2>5, <2>6 DEF WorksOnFirst
  <1>5. ASSUME NEW r \in Sender, pc'[r] \notin {"read", "post", "save"} PROVE job'[r] = 0
    BY <1>5 DEF Places
  <1> QED
    BY <1>3, <1>4, <1>5 DEF Places

(* A task that ends without a commit; the failure count may grow. *)
LEMMA EndKeeps ==
  ASSUME UsageInv, NEW s \in Sender, EndTask(s), UNCHANGED <<status, posts>>,
         failures' \in 0..MaxFailures,
         failures' = failures + 1 \/ (failures' = failures /\ pc[s] # "save")
  PROVE  UsageInv'
  <1> USE DEF UsageInv, EndTask
  <1>1. TaskTypeOK'
    BY DEF TaskTypeOK
  <1>2. StoredInOrder'
    BY DEF StoredInOrder
  <1>3. Places'
    <2>1. \A r \in Sender : want'[r] = want[r] \/ want'[r] = {}
      BY DEF TaskTypeOK
    <2>2. \A r \in Sender \ {s} : pc'[r] = pc[r] /\ job'[r] = job[r]
      BY DEF TaskTypeOK
    <2>3. job'[s] = 0 /\ pc'[s] = "idle"
      BY DEF TaskTypeOK
    <2> QED
      BY <1>1, <2>1, <2>2, <2>3, PlacesKept
  <1>4. PostsAccounted'
    BY MaxFailuresAssumption DEF TaskTypeOK, PostsAccounted, VouchedFor, PostCap
  <1> QED
    BY <1>1, <1>2, <1>3, <1>4

(* From the count to the checks of the file: the first row of the snapshot *)
(* that still waits is the first of all that wait.                         *)
LEMMA LockKeeps ==
  ASSUME UsageInv, NEW s \in Sender,
         CountMails(s) \/ StartLock(s) \/ LockMail(s) \/ ReadFile(s)
  PROVE  UsageInv'
  <1> USE DEF UsageInv, CountMails, StartLock, LockMail, ReadFile, mails
  <1>1. TaskTypeOK'
    <2>1. CASE CountMails(s) \/ StartLock(s) \/ ReadFile(s)
      BY <2>1 DEF TaskTypeOK, Received
    <2>2. CASE LockMail(s)
      BY <2>2 DEF TaskTypeOK
    <2> QED
      BY <2>1, <2>2
  <1>2. StoredInOrder'
    BY DEF StoredInOrder
  <1>3. Places'
    <2>1. \A r \in Sender : SnapshotIsOldest(r)'
      BY DEF TaskTypeOK, Places, SnapshotIsOldest, Received
    <2>2. CASE CountMails(s) \/ StartLock(s) \/ ReadFile(s)
      BY <2>1, <2>2 DEF TaskTypeOK, Places, WorksOnFirst
    <2>3. CASE LockMail(s)
      <3>1. PICK u \in UsageId : /\ IsFirst(want[s] \cap Received, u)
                                 /\ ~ LockedByOther(s, u)
                                 /\ job' = [job EXCEPT ![s] = u]
        BY <2>3
      <3>2. ASSUME NEW v \in UsageId, v < u PROVE status[v] = "reply_processed"
        <4>1. status[v] # "none"
          BY <3>1, <3>2 DEF IsFirst, Received, StoredInOrder
        <4>2. v \notin Received
          BY <3>1, <3>2, MaxUsageAssumption DEF IsFirst, Places, SnapshotIsOldest, UsageId
        <4> QED
          BY <4>1, <4>2 DEF Received, TaskTypeOK
      <3>3. u # 0 /\ \A r \in Sender \ {s} : job[r] # u
        BY <3>1 DEF LockedByOther, UsageId
      <3>4. WorksOnFirst(s)'
        BY <2>3, <3>1, <3>2, <3>3 DEF WorksOnFirst, IsFirst, Received, TaskTypeOK
      <3>5. \A r \in Sender \ {s} : pc[r] \in {"read", "post", "save"} => WorksOnFirst(r)'
        BY <2>3, <3>1, <3>3 DEF Places, WorksOnFirst, TaskTypeOK
      <3> QED
        BY <2>1, <2>3, <3>1, <3>4, <3>5 DEF Places, TaskTypeOK
    <2> QED
      BY <2>2, <2>3
  <1>4. PostsAccounted'
    BY MaxFailuresAssumption DEF TaskTypeOK, PostsAccounted, VouchedFor, Places, PostCap
  <1> QED
    BY <1>1, <1>2, <1>3, <1>4

LEMMA PostKeeps ==
  ASSUME UsageInv, NEW s \in Sender, Post(s) \/ ResponseLost(s)
  PROVE  UsageInv'
  <1> USE DEF UsageInv, Post, ResponseLost, EndTask, mails
  <1>1. PICK u \in UsageId : u = job[s] /\ u # 0 /\ WorksOnFirst(s)
    BY DEF Places, WorksOnFirst, UsageId
  <1>2. PostCap \in Nat /\ PostCap > 0 /\ PostCap = MaxFailures + 2 /\ failures \in Nat
        /\ failures' \in 0..MaxFailures
    BY MaxFailuresAssumption DEF PostCap, TaskTypeOK
  <1>3. posts' = [posts EXCEPT ![u] = IF @ < PostCap THEN @ + 1 ELSE @]
    BY <1>1 DEF IcmsAccepts
  <1>4. /\ posts' \in [UsageId -> 0..PostCap]
        /\ posts'[u] <= posts[u] + 1
        /\ \A v \in UsageId \ {u} : posts'[v] = posts[v]
    BY <1>1, <1>2, <1>3 DEF TaskTypeOK
  <1>5. TaskTypeOK'
    BY <1>2, <1>4 DEF TaskTypeOK
  <1>6. StoredInOrder'
    BY DEF StoredInOrder
  <1>7. Places'
    <2>1. \A r \in Sender : want'[r] = want[r] \/ want'[r] = {}
      BY DEF TaskTypeOK
    <2>2. \A r \in Sender \ {s} : pc'[r] = pc[r] /\ job'[r] = job[r]
      BY DEF TaskTypeOK
    <2>3. \/ job'[s] = 0 /\ pc'[s] = "idle"
          \/ job'[s] = job[s] /\ {pc[s], pc'[s]} \subseteq {"read", "post", "save"}
      BY DEF TaskTypeOK
    <2> QED
      BY <1>5, <2>1, <2>2, <2>3, PlacesKept
  <1>8. PostsAccounted'
    <2>1. posts[u] <= failures
      BY <1>1 DEF PostsAccounted, VouchedFor, WorksOnFirst
    <2>2. \A v \in UsageId : posts[v] \in Nat /\ posts'[v] \in Nat
      BY <1>2, <1>4 DEF TaskTypeOK
    <2>3. ASSUME NEW v \in UsageId, v # u
          PROVE  posts'[v] <= failures' + 1 /\ (~ VouchedFor(v)' => posts'[v] <= failures')
      BY <1>1, <1>2, <1>4, <2>2, <2>3 DEF PostsAccounted, VouchedFor, TaskTypeOK
    <2>4. posts'[u] <= failures' + 1
      BY <1>1, <1>2, <1>4, <2>1, <2>2
    <2>5. ~ VouchedFor(u)' => posts'[u] <= failures'
      <3>1. CASE Post(s)
        BY <1>1, <3>1 DEF VouchedFor, TaskTypeOK
      <3>2. CASE ResponseLost(s)
        BY <1>1, <1>2, <1>4, <2>1, <2>2, <3>2
      <3> QED
        BY <3>1, <3>2
    <2>6. \A v \in UsageId :
             posts'[v] <= failures' + 1 /\ (~ VouchedFor(v)' => posts'[v] <= failures')
      BY <2>3, <2>4, <2>5
    <2> QED
      BY <2>6 DEF PostsAccounted
  <1> QED
    BY <1>5, <1>6, <1>7, <1>8

LEMMA SaveKeeps ==
  ASSUME UsageInv, NEW s \in Sender, SaveStatus(s)
  PROVE  UsageInv'
  <1> USE DEF UsageInv, SaveStatus, EndTask
  <1>1. job[s] \in UsageId /\ job[s] # 0 /\ WorksOnFirst(s)
    BY DEF Places, WorksOnFirst, UsageId
  <1>2. TaskTypeOK'
    BY DEF TaskTypeOK
  <1>3. StoredInOrder'
    <2>1. \A u \in UsageId : status'[u] # "none" <=> status[u] # "none"
      BY <1>1 DEF TaskTypeOK, WorksOnFirst
    <2> QED
      BY <2>1 DEF StoredInOrder
  <1>4. Places'
    <2>1. \A r \in Sender : want'[r] = want[r] \/ want'[r] = {}
      BY DEF TaskTypeOK
    <2>2. \A r \in Sender \ {s} : pc'[r] = pc[r] /\ job'[r] = job[r]
      BY DEF TaskTypeOK
    <2>3. job'[s] = 0 /\ pc'[s] = "idle"
      BY DEF TaskTypeOK
    <2> QED
      BY <1>1, <1>2, <2>1, <2>2, <2>3, PlacesKept
  <1>5. PostsAccounted'
    BY <1>1 DEF TaskTypeOK, PostsAccounted, VouchedFor
  <1> QED
    BY <1>2, <1>3, <1>4, <1>5

(* A new Mail is younger than every other. *)
LEMMA StoreKeeps ==
  ASSUME UsageInv, NEW u \in UsageId, NEW r, NEW f, UsageStored(u, r, f)
  PROVE  UsageInv'
  <1> USE DEF UsageInv, UsageStored
  <1>1. TaskTypeOK'
    BY DEF TaskTypeOK
  <1>2. StoredInOrder'
    BY MaxUsageAssumption DEF TaskTypeOK, StoredInOrder, UsageId
  <1>3. Places'
    <2>1. ASSUME NEW s \in Sender PROVE SnapshotIsOldest(s)'
      <3>1. ASSUME NEW v \in want[s] PROVE ~ u < v
        BY <3>1, <2>1 DEF Places, SnapshotIsOldest, StoredInOrder, TaskTypeOK
      <3> QED
        BY <3>1 DEF TaskTypeOK, Places, SnapshotIsOldest, Received
    <2>2. ASSUME NEW s \in Sender, WorksOnFirst(s) PROVE WorksOnFirst(s)'
      BY <2>2 DEF TaskTypeOK, WorksOnFirst
    <2> QED
      BY <2>1, <2>2 DEF Places
  <1>4. PostsAccounted'
    BY DEF TaskTypeOK, PostsAccounted, VouchedFor
  <1> QED
    BY <1>1, <1>2, <1>3, <1>4

LEMMA NextKeeps == UsageInv /\ [Next]_vars => UsageInv'
  <1> SUFFICES ASSUME UsageInv, [Next]_vars PROVE UsageInv'
    OBVIOUS
  <1>1. ASSUME NEW s \in Sender, MailGone(s) \/ FileRefused(s) \/ PostRefused(s) \/ Fail(s)
        PROVE  UsageInv'
    <2>1. failures' \in 0..MaxFailures
      BY <1>1, MaxFailuresAssumption
         DEF MailGone, FileRefused, PostRefused, Fail, UsageInv, TaskTypeOK
    <2> QED
      BY <1>1, <2>1, EndKeeps DEF MailGone, FileRefused, PostRefused, Fail, mails
  <1>2. CASE UNCHANGED vars
    BY <1>2 DEF vars, mails, UsageInv, TaskTypeOK, StoredInOrder, Places, SnapshotIsOldest,
                WorksOnFirst, Received, PostsAccounted, VouchedFor
  <1> QED
    BY <1>1, <1>2, LockKeeps, PostKeeps, SaveKeeps, StoreKeeps DEF Next, Task

(* The inductive invariant holds of every behaviour of the usage task.     *)
THEOREM UsageInvariant == Spec => []UsageInv
  BY InitInv, NextKeeps, PTL DEF Spec

(* However many runs of the task overlap, a report is posted again only    *)
(* after a failure.                                                        *)
THEOREM PostedOnceOnly == Spec => []PostedOnce
  <1>1. UsageInv => PostedOnce
    <2> SUFFICES ASSUME UsageInv, NEW u \in UsageId PROVE posts[u] <= 1 + failures
      BY DEF PostedOnce
    <2>1. failures \in Nat
      BY MaxFailuresAssumption DEF UsageInv, TaskTypeOK
    <2> QED
      BY <2>1 DEF UsageInv, PostsAccounted
  <1> QED
    BY <1>1, UsageInvariant, PTL

(* Reports reach ICMS in the order in which they were stored, even when    *)
(* runs of the task overlap and the snapshot of one of them is old.        *)
THEOREM ReportsInOrder == Spec => PostedInOrder
  <1> DEFINE InOrder == \A u, v \in UsageId :
                          v < u /\ posts'[u] # posts[u] => status[v] = "reply_processed"
  <1>1. ASSUME UsageInv, NEW s \in Sender, Post(s) \/ ResponseLost(s)
        PROVE  InOrder
    <2>1. WorksOnFirst(s)
      BY <1>1 DEF Post, ResponseLost, UsageInv, Places
    <2>2. \A u \in UsageId : posts'[u] # posts[u] => u = job[s]
      BY <1>1 DEF Post, ResponseLost, IcmsAccepts, UsageInv, TaskTypeOK
    <2> QED
      BY <2>1, <2>2 DEF WorksOnFirst
  <1>2. posts' = posts => InOrder
    OBVIOUS
  <1>3. ASSUME [Next]_vars, posts' # posts
        PROVE  \E s \in Sender : Post(s) \/ ResponseLost(s)
    BY <1>3 DEF Next, Task, CountMails, StartLock, LockMail, MailGone, FileRefused, ReadFile,
           PostRefused, SaveStatus, Fail, UsageStored, vars
  <1>4. UsageInv /\ [Next]_vars => [InOrder]_vars
    BY <1>1, <1>2, <1>3
  <1> QED
    BY <1>4, UsageInvariant, PTL DEF Spec, PostedInOrder

-----------------------------------------------------------------------------
(* Counting through a set of places. *)

(* A function on 1..n is a sequence of length n. *)
LEMMA LenOfFunction ==
  ASSUME NEW n \in Nat, NEW f, f = [i \in 1..n |-> f[i]]
  PROVE  Len(f) = n
  <1> DEFINE T == {f[i] : i \in 1..n}
  <1>1. f \in [1..n -> T]
    OBVIOUS
  <1>2. f \in Seq(T)
    BY <1>1, SeqDef
  <1>3. Len(f) \in Nat /\ DOMAIN f = 1..Len(f)
    BY <1>2, LenProperties
  <1>4. DOMAIN f = 1..n
    BY <1>1
  <1>5. n \in 1..n \/ n = 0
    OBVIOUS
  <1>6. Len(f) \in 1..Len(f) \/ Len(f) = 0
    BY <1>3
  <1> QED
    BY <1>3, <1>4, <1>5, <1>6

(* A set has n elements when a function from 1..n runs through it once. *)
LEMMA Counted ==
  ASSUME NEW n \in Nat, NEW T, NEW f \in [1..n -> T],
         \A k, l \in 1..n : k # l => f[k] # f[l],
         \A t \in T : \E k \in 1..n : f[k] = t
  PROVE  Cardinality(T) = n /\ IsFiniteSet(T)
  <1>1. f \in Bijection(1..n, T)
    BY DEF Bijection, Injection, Surjection, IsInjective
  <1>2. ExistsBijection(1..n, T)
    BY <1>1 DEF ExistsBijection
  <1>3. IsFiniteSet(1..n)
    BY FS_Interval
  <1> QED
    BY <1>2, <1>3, FS_CountingElements, FS_Bijection

(* Two sets that a function maps onto each other without a clash. *)
LEMMA SameCount ==
  ASSUME NEW S, NEW T, IsFiniteSet(S), NEW f \in [S -> T],
         \A x, y \in S : x # y => f[x] # f[y],
         \A t \in T : \E x \in S : f[x] = t
  PROVE  Cardinality(T) = Cardinality(S)
  <1>1. f \in Bijection(S, T)
    BY DEF Bijection, Injection, Surjection, IsInjective
  <1>2. ExistsBijection(S, T)
    BY <1>1 DEF ExistsBijection
  <1> QED
    BY <1>2, FS_Bijection

(* The ranks in a finite set of places are 1 to its size, each once and in *)
(* order, so that Nth finds the place of every rank.                       *)
LEMMA Ranks ==
  ASSUME NEW S \in SUBSET Int, IsFiniteSet(S)
  PROVE  /\ Cardinality(S) \in Nat
         /\ \A i \in S : Rank(S, i) \in 1..Cardinality(S)
         /\ \A i, j \in S : i < j => Rank(S, i) < Rank(S, j)
         /\ \A k \in 1..Cardinality(S) : Nth(S, k) \in S /\ Rank(S, Nth(S, k)) = k
  <1> DEFINE n == Cardinality(S)
             below(i) == {j \in S : j <= i}
             rank == [i \in S |-> Rank(S, i)]
  <1>1. n \in Nat
    BY FS_CardinalityType
  <1>2. ASSUME NEW i \in S
        PROVE  /\ IsFiniteSet(below(i)) /\ Rank(S, i) = Cardinality(below(i))
               /\ Rank(S, i) \in 1..n
    <2>1. below(i) \in SUBSET S /\ i \in below(i)
      OBVIOUS
    <2>2. IsFiniteSet(below(i)) /\ Cardinality(below(i)) <= n
      BY <2>1, FS_Subset
    <2>3. Cardinality(below(i)) \in Nat
      BY <2>2, FS_CardinalityType
    <2>4. Cardinality(below(i)) # 0
      BY <2>1, <2>2, FS_EmptySet
    <2> QED
      BY <1>1, <2>2, <2>3, <2>4 DEF Rank
  <1>3. ASSUME NEW i \in S, NEW j \in S, i < j
        PROVE  Rank(S, i) < Rank(S, j)
    <2>1. below(i) \in SUBSET below(j) /\ j \in below(j) /\ j \notin below(i)
      <3>1. \A x \in S : x \in Int
        OBVIOUS
      <3>2. \A x \in S : x <= i => x <= j
        BY <1>3, <3>1
      <3>3. j <= j /\ ~ (j <= i)
        BY <1>3, <3>1
      <3> QED
        BY <3>2, <3>3
    <2>2. IsFiniteSet(below(j))
      BY <1>2
    <2> HIDE DEF below
    <2>3. /\ Cardinality(below(i)) <= Cardinality(below(j))
          /\ Cardinality(below(i)) # Cardinality(below(j))
      BY <2>1, <2>2, FS_Subset
    <2> QED
      BY <1>1, <1>2, <2>3
  <1>4. rank \in Injection(S, 1..n)
    <2>1. rank \in [S -> 1..n]
      BY <1>2
    <2>2. ASSUME NEW i \in S, NEW j \in S, i # j PROVE Rank(S, i) # Rank(S, j)
      <3>1. i < j \/ j < i
        BY <2>2
      <3>2. Rank(S, i) \in Int /\ Rank(S, j) \in Int
        <4>1. rank[i] \in 1..n /\ rank[j] \in 1..n
          BY <2>1
        <4> QED
          BY <4>1
      <3> QED
        BY <1>3, <3>1, <3>2
    <2> QED
      BY <2>1, <2>2 DEF Injection, IsInjective
  <1>5. IsFiniteSet(1..n) /\ Cardinality(1..n) = n
    BY <1>1, FS_Interval
  <1>6. rank \in Surjection(S, 1..n)
    <2> HIDE DEF rank, n
    <2>1. Cardinality(S) = Cardinality(1..n) <=> rank \in Surjection(S, 1..n)
      BY <1>4, <1>5, FS_Injection
    <2> QED
      BY <1>5, <2>1 DEF n
  <1>7. ASSUME NEW k \in 1..n PROVE Nth(S, k) \in S /\ Rank(S, Nth(S, k)) = k
    <2>1. \E i \in S : Rank(S, i) = k
      BY <1>6 DEF Surjection
    <2> QED
      BY <2>1 DEF Nth
  <1> QED
    BY <1>1, <1>2, <1>3, <1>7

(* Nth numbers the places of a set in their order. *)
LEMMA Numbered ==
  ASSUME NEW S \in SUBSET Int, IsFiniteSet(S)
  PROVE  /\ \A j, k \in 1..Cardinality(S) : j <= k <=> Nth(S, j) <= Nth(S, k)
         /\ \A j, k \in 1..Cardinality(S) : j # k => Nth(S, j) # Nth(S, k)
         /\ \A t \in S : Rank(S, t) \in 1..Cardinality(S) /\ Nth(S, Rank(S, t)) = t
  <1> DEFINE n == Cardinality(S)
  <1>1. /\ n \in Nat
        /\ \A i \in S : Rank(S, i) \in 1..n
        /\ \A i, j \in S : i < j => Rank(S, i) < Rank(S, j)
        /\ \A k \in 1..n : Nth(S, k) \in S /\ Rank(S, Nth(S, k)) = k
    BY Ranks
  <1> HIDE DEF n
  <1>2. \A i, j \in S : Rank(S, i) = Rank(S, j) => i = j
    <2> SUFFICES ASSUME NEW i \in S, NEW j \in S, i # j PROVE Rank(S, i) # Rank(S, j)
      OBVIOUS
    <2>1. i < j \/ j < i
      OBVIOUS
    <2>2. Rank(S, i) \in Int /\ Rank(S, j) \in Int
      BY <1>1
    <2> QED
      BY <1>1, <2>1, <2>2
  <1>3. ASSUME NEW j \in 1..n, NEW k \in 1..n
        PROVE  /\ j <= k <=> Nth(S, j) <= Nth(S, k)
               /\ j # k => Nth(S, j) # Nth(S, k)
    <2>1. PICK a \in S : a = Nth(S, j) /\ Rank(S, a) = j
      BY <1>1
    <2>2. PICK b \in S : b = Nth(S, k) /\ Rank(S, b) = k
      BY <1>1
    <2>3. a < b \/ a = b \/ b < a
      OBVIOUS
    <2>4. /\ a < b => j < k
          /\ b < a => k < j
          /\ a = b => j = k
      BY <1>1, <2>1, <2>2
    <2>5. a \in Int /\ b \in Int /\ j \in Int /\ k \in Int
      BY <1>1
    <2>6. /\ j <= k <=> a <= b
          /\ j # k => a # b
      BY <2>1, <2>2, <2>3, <2>4, <2>5
    <2> QED
      BY <2>1, <2>2, <2>6
  <1>4. ASSUME NEW t \in S PROVE Rank(S, t) \in 1..n /\ Nth(S, Rank(S, t)) = t
    <2>1. PICK k \in 1..n : k = Rank(S, t)
      BY <1>1
    <2>2. Nth(S, k) \in S /\ Rank(S, Nth(S, k)) = Rank(S, t)
      BY <1>1, <2>1
    <2> QED
      BY <1>2, <2>1, <2>2
  <1> QED
    BY <1>3, <1>4 DEF n

(* What is left of H in S is found at as many places of S. *)
LEMMA KeptCount ==
  ASSUME NEW S \in SUBSET Int, IsFiniteSet(S), NEW H
  PROVE  Cardinality({y \in 1..Cardinality(S) : Nth(S, y) \in H}) = Cardinality(H \cap S)
  <1> DEFINE n == Cardinality(S)
             T == {y \in 1..n : Nth(S, y) \in H}
             K == H \cap S
             g == [y \in T |-> Nth(S, y)]
  <1>1. n \in Nat /\ \A k \in 1..n : Nth(S, k) \in S
    BY Ranks
  <1>2. /\ \A j, k \in 1..n : j # k => Nth(S, j) # Nth(S, k)
        /\ \A t \in S : Rank(S, t) \in 1..n /\ Nth(S, Rank(S, t)) = t
    BY Numbered
  <1> HIDE DEF n
  <1>3. IsFiniteSet(T)
    <2>1. IsFiniteSet(1..n) /\ T \in SUBSET (1..n)
      BY <1>1, FS_Interval
    <2> QED
      BY <2>1, FS_Subset
  <1>4. g \in [T -> K]
    BY <1>1
  <1>5. \A x, y \in T : x # y => g[x] # g[y]
    BY <1>2
  <1>6. \A t \in K : \E x \in T : g[x] = t
    <2> SUFFICES ASSUME NEW t \in K PROVE \E x \in T : g[x] = t
      OBVIOUS
    <2>1. PICK x : x = Rank(S, t)
      OBVIOUS
    <2>2. x \in T /\ g[x] = t
      BY <1>2, <2>1
    <2> QED
      BY <2>2
  <1> HIDE DEF g, T, K
  <1>7. Cardinality(K) = Cardinality(T)
    BY <1>3, <1>4, <1>5, <1>6, SameCount
  <1> QED
    BY <1>7 DEF K, T, n

-----------------------------------------------------------------------------
(* A file of CHIEF, whole or damaged. *)

Headers(n) == {5 * k - 3 : k \in 1..n}

LEMMA RanksOfHeaders ==
  ASSUME NEW n \in Nat
  PROVE  /\ IsFiniteSet(Headers(n)) /\ Cardinality(Headers(n)) = n
         /\ Headers(n) \in SUBSET Int
         /\ \A k \in 1..n : 5 * k - 3 \in Headers(n) /\ Rank(Headers(n), 5 * k - 3) = k
  <1>1. \A k \in Nat, l \in Nat : /\ k # l => 5 * k - 3 # 5 * l - 3
                                 /\ 5 * k - 3 <= 5 * l - 3 <=> k <= l
    OBVIOUS
  <1>2. IsFiniteSet(Headers(n)) /\ Cardinality(Headers(n)) = n
    <2> DEFINE f == [k \in 1..n |-> 5 * k - 3]
    <2>1. f \in [1..n -> Headers(n)] /\ \A t \in Headers(n) : \E k \in 1..n : f[k] = t
      BY DEF Headers
    <2>2. \A k, l \in 1..n : k # l => f[k] # f[l]
      BY <1>1
    <2> HIDE DEF f
    <2> QED
      BY <2>1, <2>2, Counted
  <1>3. ASSUME NEW k \in 1..n
        PROVE  5 * k - 3 \in Headers(n) /\ Rank(Headers(n), 5 * k - 3) = k
    <2> DEFINE T == {j \in Headers(n) : j <= 5 * k - 3}
               f == [l \in 1..k |-> 5 * l - 3]
    <2>1. \A l \in 1..k : l \in 1..n /\ 5 * l - 3 <= 5 * k - 3
      OBVIOUS
    <2>2. f \in [1..k -> T]
      BY <2>1 DEF Headers
    <2>3. ASSUME NEW t \in T PROVE \E l \in 1..k : f[l] = t
      <3>1. PICK l \in 1..n : t = 5 * l - 3
        BY DEF Headers
      <3>2. l \in 1..k
        BY <3>1
      <3> QED
        BY <3>1, <3>2
    <2>4. \A h, l \in 1..k : h # l => f[h] # f[l]
      BY <1>1
    <2> HIDE DEF f, T
    <2>5. Cardinality(T) = k
      BY <2>2, <2>3, <2>4, Counted
    <2> QED
      BY <2>5 DEF Rank, T, Headers
  <1> QED
    BY <1>2, <1>3 DEF Headers

LEMMA WholeFile ==
  ASSUME NEW r \in Reports
  PROVE  /\ Len(r) \in Nat /\ DOMAIN FileOf(r) = 1..5 * Len(r) + 2
         /\ OfType(FileOf(r), "licenceUsage") = Headers(Len(r))
         /\ OfType(FileOf(r), "fileTrailer") = {5 * Len(r) + 2}
         /\ FileOf(r)[5 * Len(r) + 2].count = Len(r)
         /\ \A k \in 1..Len(r) : FileOf(r)[5 * k - 3].licence = r[k]
  <1> DEFINE n == Len(r)
             F == FileOf(r)
  <1>1. n \in Nat
    BY ReportsAssumption, LenProperties
  <1> HIDE DEF n
  <1>2. /\ DOMAIN F = 1..5 * n + 2
        /\ F[1] = Plain("fileHeader")
        /\ F[5 * n + 2] = Trailer(n)
        /\ \A i \in 2..5 * n + 1 : F[i] = Transaction(r[(i + 3) \div 5])[((i + 3) % 5) + 1]
    BY <1>1 DEF FileOf, n
  <1> HIDE DEF F
  <1>3. ASSUME NEW l
        PROVE  /\ Transaction(l)[1] = [type |-> "licenceUsage", licence |-> l]
               /\ \A c \in {2, 3, 4, 5} :
                     Transaction(l)[c].type \in {"line", "usage", "end"}
    BY DEF Transaction, Plain, End
  <1>4. ASSUME NEW k \in 1..n
        PROVE  F[5 * k - 3].type = "licenceUsage" /\ F[5 * k - 3].licence = r[k]
    <2>1. /\ 5 * k - 3 \in 2..5 * n + 1 /\ (5 * k - 3) + 3 = 5 * k
          /\ (5 * k) \div 5 = k /\ (5 * k) % 5 = 0
      BY <1>1
    <2>2. F[5 * k - 3] = Transaction(r[k])[1]
      BY <1>2, <2>1
    <2>3. Transaction(r[k])[1] = [type |-> "licenceUsage", licence |-> r[k]]
      BY <1>3
    <2> QED
      BY <2>2, <2>3
  <1>5. ASSUME NEW i \in 2..5 * n + 1, i \notin Headers(n)
        PROVE  F[i].type \in {"line", "usage", "end"}
    <2>1. (i + 3) \div 5 \in 1..n /\ (i + 3) % 5 \in 0..4
      BY <1>1
    <2>2. (i + 3) % 5 # 0
      <3>1. (i + 3) % 5 = 0 => i = 5 * ((i + 3) \div 5) - 3
        OBVIOUS
      <3> QED
        BY <1>5, <2>1, <3>1 DEF Headers
    <2>3. ((i + 3) % 5) + 1 \in {2, 3, 4, 5}
      BY <2>1, <2>2
    <2>4. PICK c \in {2, 3, 4, 5} : c = ((i + 3) % 5) + 1
      BY <2>3
    <2>5. PICK l : l = r[(i + 3) \div 5]
      OBVIOUS
    <2>6. F[i] = Transaction(l)[c]
      BY <1>2, <2>4, <2>5
    <2> QED
      BY <1>3, <2>6
  <1>6. ASSUME NEW i \in 1..5 * n + 2
        PROVE  /\ F[i].type = "licenceUsage" <=> i \in Headers(n)
               /\ F[i].type = "fileTrailer" <=> i = 5 * n + 2
    <2>1. \A k \in 1..n : 5 * k - 3 \in 2..5 * n + 1
      BY <1>1
    <2>2. CASE i = 1
      BY <1>1, <1>2, <2>1, <2>2 DEF Plain, Headers
    <2>3. CASE i = 5 * n + 2
      BY <1>1, <1>2, <2>1, <2>3 DEF Trailer, Headers
    <2>4. CASE i \in Headers(n)
      <3>1. PICK k \in 1..n : i = 5 * k - 3
        BY <2>4 DEF Headers
      <3>2. F[i].type = "licenceUsage"
        BY <1>4, <3>1
      <3>3. i # 5 * n + 2
        BY <1>1, <2>1, <3>1
      <3> QED
        BY <2>4, <3>2, <3>3
    <2>5. CASE i # 1 /\ i # 5 * n + 2 /\ i \notin Headers(n)
      <3>1. i \in 2..5 * n + 1
        BY <1>1, <2>5
      <3>2. F[i].type \in {"line", "usage", "end"}
        BY <1>5, <2>5, <3>1
      <3> QED
        BY <2>5, <3>2
    <2> QED
      BY <2>2, <2>3, <2>4, <2>5
  <1>7. Headers(n) \subseteq 1..5 * n + 2
    <2>1. \A k \in 1..n : 5 * k - 3 \in 1..5 * n + 2
      BY <1>1
    <2> QED
      BY <2>1 DEF Headers
  <1>8. OfType(F, "licenceUsage") = Headers(n)
    BY <1>2, <1>6, <1>7 DEF OfType
  <1>9. OfType(F, "fileTrailer") = {5 * n + 2}
    <2>1. 5 * n + 2 \in 1..5 * n + 2
      BY <1>1
    <2> QED
      BY <1>2, <1>6, <2>1 DEF OfType
  <1>10. F[5 * n + 2].count = n
    BY <1>2 DEF Trailer
  <1>11. \A k \in 1..n : F[5 * k - 3].licence = r[k]
    BY <1>4
  <1>12. DOMAIN F = 1..5 * n + 2
    BY <1>2
  <1> QED
    BY <1>1, <1>8, <1>9, <1>10, <1>11, <1>12 DEF F, n

(* A file that has lost records, and is accepted, has lost no transaction. *)
LEMMA LostTold ==
  ASSUME NEW r \in Reports, NEW lost, FileValid(Without(FileOf(r), lost))
  PROVE  Usages(Without(FileOf(r), lost)) = r
  <1> DEFINE n == Len(r)
             F == FileOf(r)
             left == DOMAIN F \ lost
             m == Cardinality(left)
             f == Without(F, lost)
             T == OfType(f, "licenceUsage")
             H == Headers(n)
  <1>1. /\ n \in Nat /\ DOMAIN F = 1..5 * n + 2
        /\ OfType(F, "licenceUsage") = H
        /\ OfType(F, "fileTrailer") = {5 * n + 2}
        /\ F[5 * n + 2].count = n
        /\ \A k \in 1..n : F[5 * k - 3].licence = r[k]
    BY WholeFile
  <1>2. r = [k \in 1..n |-> r[k]]
    BY ReportsAssumption, SeqDef, LenProperties
  <1>3. FileValid(f)
    OBVIOUS
  <1>4. f = [k \in 1..m |-> F[Nth(left, k)]]
    BY DEF Without
  <1>5. Usages(f) = [k \in 1..Cardinality(T) |-> f[Nth(T, k)].licence]
    BY DEF Usages
  <1>6. left \in SUBSET Int /\ IsFiniteSet(left)
    <2>1. IsFiniteSet(1..5 * n + 2)
      BY <1>1, FS_Interval
    <2>2. left \in SUBSET (1..5 * n + 2)
      BY <1>1
    <2> QED
      BY <2>1, <2>2, FS_Subset
  <1>7. /\ IsFiniteSet(H) /\ Cardinality(H) = n /\ H \in SUBSET Int
        /\ \A k \in 1..n : 5 * k - 3 \in H /\ Rank(H, 5 * k - 3) = k
    BY <1>1, RanksOfHeaders
  <1>8. left \subseteq DOMAIN F
    OBVIOUS
  <1> HIDE DEF n, F, f, H, left
  <1>9. m \in Nat /\ \A k \in 1..m : Nth(left, k) \in left
    BY <1>6, Ranks
  <1>10. T = {y \in 1..m : Nth(left, y) \in H}
    <2>1. DOMAIN f = 1..m /\ \A y \in 1..m : f[y].type = F[Nth(left, y)].type
      BY <1>4
    <2>2. \A y \in 1..m : F[Nth(left, y)].type = "licenceUsage" <=> Nth(left, y) \in H
      BY <1>1, <1>8, <1>9 DEF OfType
    <2> QED
      BY <2>1, <2>2 DEF OfType
  <1>11. Cardinality(T) = Cardinality(H \cap left)
    BY <1>6, <1>10, KeptCount
  <1>12. IsFiniteSet(T) /\ T \in SUBSET Int /\ Cardinality(T) \in Nat
    <2>1. IsFiniteSet(1..m) /\ T \in SUBSET (1..m)
      BY <1>9, <1>10, FS_Interval
    <2>2. T \in SUBSET Int
      BY <2>1
    <2> HIDE DEF T
    <2>3. IsFiniteSet(T)
      BY <2>1, FS_Subset
    <2> QED
      BY <2>2, <2>3, FS_CardinalityType
  <1>13. Len(Usages(f)) = n
    <2>1. PICK i \in OfType(f, "fileTrailer") : Len(Usages(f)) = f[i].count
      BY <1>3 DEF FileValid
    <2>2. i \in 1..m /\ F[Nth(left, i)].type = "fileTrailer" /\ f[i] = F[Nth(left, i)]
      BY <1>4, <2>1 DEF OfType
    <2>3. Nth(left, i) = 5 * n + 2
      BY <1>1, <1>8, <1>9, <2>2 DEF OfType
    <2> QED
      BY <1>1, <2>1, <2>2, <2>3
  <1>14. Cardinality(T) = n
    <2>1. PICK c \in Nat : c = Cardinality(T)
      BY <1>12
    <2>2. Usages(f) = [k \in 1..c |-> Usages(f)[k]]
      BY <1>5, <2>1
    <2>3. Len(Usages(f)) = c
      BY <2>2, LenOfFunction
    <2> QED
      BY <1>13, <2>1, <2>3
  <1>15. H \subseteq left
    <2>1. Cardinality(H \cap left) = Cardinality(H)
      BY <1>7, <1>11, <1>14
    <2>2. H \cap left \in SUBSET H
      OBVIOUS
    <2>3. H \cap left = H
      BY <1>7, <2>1, <2>2, FS_Subset
    <2> QED
      BY <2>3
  <1> HIDE DEF T, m
  <1>16. ASSUME NEW k \in 1..n PROVE Usages(f)[k] = r[k]
    <2>1. PICK x \in T : x = Nth(T, k) /\ Rank(T, x) = k
      BY <1>12, <1>14, Ranks
    <2>2. PICK h \in H : h = Nth(left, x)
      BY <1>10, <2>1
    <2>3. x \in 1..m
      BY <1>10
    <2> DEFINE below == {t \in H : t <= h}
    <2>4. {y \in 1..m : Nth(left, y) \in below} = {y \in T : y <= x}
      <3>1. \A y \in 1..m : y <= x <=> Nth(left, y) <= h
        BY <1>6, <2>2, <2>3, Numbered DEF m
      <3> QED
        BY <1>10, <3>1
    <2>5. below \cap left = below
      BY <1>15
    <2> HIDE DEF below
    <2>6. Cardinality({y \in 1..m : Nth(left, y) \in below}) = Cardinality(below \cap left)
      BY <1>6, KeptCount DEF m
    <2>7. Cardinality(below) = Cardinality({y \in T : y <= x})
      BY <2>4, <2>5, <2>6
    <2>8. Rank(H, h) = k
      BY <2>1, <2>7 DEF Rank, below
    <2>9. h = 5 * k - 3
      <3>1. Nth(H, Rank(H, h)) = h
        BY <1>7, Numbered
      <3>2. PICK g \in H : g = 5 * k - 3 /\ Rank(H, g) = k
        BY <1>7
      <3>3. Nth(H, Rank(H, g)) = g
        BY <1>7, Numbered
      <3> QED
        BY <2>8, <3>1, <3>2, <3>3
    <2>10. Usages(f)[k] = f[x].licence
      BY <1>5, <1>14, <2>1
    <2>11. f[x] = F[5 * k - 3]
      BY <1>4, <2>2, <2>3, <2>9
    <2> QED
      BY <1>1, <2>10, <2>11
  <1>17. Usages(f) = [k \in 1..n |-> Usages(f)[k]]
    BY <1>5, <1>14
  <1> QED
    BY <1>2, <1>16, <1>17 DEF f, F

(* Every file that is accepted tells the whole report. *)
LEMMA DamagedTold ==
  ASSUME NEW r \in Reports, NEW f \in Damaged(FileOf(r)), FileValid(f)
  PROVE  Usages(f) = r
  <1> DEFINE F == FileOf(r)
             n == Len(r)
  <1>1. n \in Nat /\ DOMAIN F = 1..5 * n + 2
    BY WholeFile
  <1> HIDE DEF F, n
  <1>2. ~ Raises(f)
    BY DEF FileValid
  <1>3. CASE \E lost \in SUBSET DOMAIN F : f = Without(F, lost)
    BY <1>3, LostTold DEF F
  <1>4. CASE \E i \in DOMAIN F : \E x \in {Plain("unknown"), End("other")} :
                f = [F EXCEPT ![i] = x]
    <2>1. PICK i \in DOMAIN F : \E x \in {Plain("unknown"), End("other")} :
                                   f = [F EXCEPT ![i] = x]
      BY <1>4
    <2>2. i \in DOMAIN f /\ f[i] \in {Plain("unknown"), End("other")}
      BY <2>1
    <2> QED
      BY <1>2, <2>2 DEF Raises, Unreadable, Plain, End
  <1>5. CASE f = [F EXCEPT ![Len(F)] = Trailer(NoCount)]
    <2>1. F = [i \in 1..5 * n + 2 |-> F[i]]
      BY <1>1 DEF F, FileOf, n
    <2>2. PICK l \in Nat : l = 5 * n + 2
      BY <1>1
    <2>3. Len(F) = l
      BY <2>1, <2>2, LenOfFunction
    <2>4. l \in DOMAIN f /\ f[l] = Trailer(NoCount)
      BY <1>1, <1>5, <2>2, <2>3
    <2>5. l \in OfType(f, "fileTrailer") /\ f[l].count = NoCount
      BY <2>4 DEF OfType, Trailer
    <2> QED
      BY <1>2, <2>5 DEF Raises
  <1> QED
    BY <1>3, <1>4, <1>5 DEF Damaged, F

-----------------------------------------------------------------------------
(* What ICMS is told. *)

LEMMA ToldInit == Init => ToldInv
  <1> SUFFICES ASSUME Init PROVE ToldInv
    OBVIOUS
  <1>1. \A v \in {file, report, told} : v = [u \in UsageId |-> v[u]]
    BY DEF Init
  <1>2. \A u \in UsageId : status[u] = "none" /\ posts[u] = 0 /\ told[u] = <<>>
    BY DEF Init
  <1>3. \A s \in Sender : pc[s] = "idle"
    BY DEF Init
  <1> QED
    BY <1>1, <1>2, <1>3 DEF ToldInv

(* A process moves on, without a word to ICMS. *)
LEMMA ToldQuiet ==
  ASSUME UsageInv, ToldInv, NEW s \in Sender, UNCHANGED <<mails, told, posts>>,
         \A r \in Sender \ {s} : pc'[r] = pc[r] /\ job'[r] = job[r],
         pc'[s] = "post" => job'[s] = job[s] /\ FileValid(file[job[s]]),
         pc'[s] = "save" => job'[s] = job[s] /\ Vetted(job[s])
  PROVE  ToldInv'
  <1>1. \A u : Vetted(u)' <=> Vetted(u)
    BY DEF Vetted, mails
  <1>2. ASSUME NEW r \in Sender
        PROVE  /\ pc'[r] = "post" => FileValid(file'[job'[r]])
               /\ pc'[r] = "save" => Vetted(job[r]) /\ job'[r] = job[r]
    BY DEF ToldInv, mails
  <1>3. \A r \in Sender : pc'[r] = "save" => Vetted(job[r])' /\ job'[r] = job[r]
    BY <1>2 DEF Vetted, mails
  <1> QED
    BY <1>1, <1>2, <1>3 DEF ToldInv, mails

(* ICMS takes the usages of the file that a process has checked. *)
LEMMA ToldPosted ==
  ASSUME UsageInv, ToldInv, NEW s \in Sender, Post(s) \/ ResponseLost(s)
  PROVE  ToldInv'
  <1>1. PICK u \in UsageId : /\ u = job[s] /\ status[u] = "reply_received"
                             /\ \A r \in Sender : job[r] = u => r = s
    BY DEF Post, ResponseLost, UsageInv, Places, WorksOnFirst
  <1>2. /\ FileValid(file[u]) /\ told' = [told EXCEPT ![u] = Usages(file[u])]
        /\ UNCHANGED mails /\ \A v \in UsageId \ {u} : posts'[v] = posts[v]
    BY <1>1 DEF Post, ResponseLost, IcmsAccepts, ToldInv, UsageInv, TaskTypeOK
  <1>3. /\ \A r \in Sender \ {s} : pc'[r] = pc[r] /\ job'[r] = job[r]
        /\ pc'[s] = "idle" \/ (pc'[s] = "save" /\ job'[s] = u)
    BY <1>1 DEF Post, ResponseLost, EndTask, UsageInv, TaskTypeOK
  <1>4. /\ told' = [v \in UsageId |-> told'[v]]
        /\ told'[u] = Usages(file[u])
        /\ \A v \in UsageId \ {u} : told'[v] = told[v]
    BY <1>1, <1>2 DEF ToldInv
  <1>5. file' = file /\ report' = report /\ status' = status
    BY <1>2 DEF mails
  <1>6. Vetted(u)' /\ \A v \in UsageId \ {u} : Vetted(v)' <=> Vetted(v)
    BY <1>2, <1>4, <1>5 DEF Vetted
  <1>7. ASSUME NEW v \in UsageId
        PROVE  /\ status'[v] = "none" => posts'[v] = 0 /\ told'[v] = <<>>
               /\ told'[v] \in {<<>>, Usages(file'[v])}
               /\ posts'[v] > 0 \/ status'[v] = "reply_processed" => Vetted(v)'
    <2>1. CASE v = u
      BY <1>1, <1>4, <1>5, <1>6, <2>1
    <2>2. CASE v # u
      BY <1>2, <1>4, <1>5, <1>6, <2>2 DEF ToldInv
    <2> QED
      BY <2>1, <2>2
  <1>8. ASSUME NEW r \in Sender
        PROVE  /\ pc'[r] = "post" => FileValid(file'[job'[r]])
               /\ pc'[r] = "save" => Vetted(job[r])' /\ job'[r] = job[r]
    <2>1. CASE r = s
      BY <1>1, <1>3, <1>6, <2>1
    <2>2. CASE r # s
      <3>1. pc'[r] = pc[r] /\ job'[r] = job[r] /\ job[r] # u
        BY <1>1, <1>3, <2>2
      <3>2. pc[r] = "save" => job[r] \in UsageId
        BY DEF UsageInv, Places, WorksOnFirst
      <3> QED
        BY <1>5, <1>6, <3>1, <3>2 DEF ToldInv
    <2> QED
      BY <2>1, <2>2
  <1> QED
    BY <1>4, <1>5, <1>7, <1>8 DEF ToldInv

(* The Mail that is closed is one whose file was vetted. *)
LEMMA ToldSaved ==
  ASSUME UsageInv, ToldInv, NEW s \in Sender, SaveStatus(s)
  PROVE  ToldInv'
  <1>1. job[s] \in UsageId /\ status[job[s]] = "reply_received" /\ Vetted(job[s])
    BY DEF SaveStatus, UsageInv, Places, WorksOnFirst, ToldInv
  <1>2. /\ status' = [status EXCEPT ![job[s]] = "reply_processed"]
        /\ UNCHANGED <<file, report, told, posts>>
    BY DEF SaveStatus
  <1>3. \A v \in UsageId : status'[v] = status[v] \/ (v = job[s] /\ status'[v] = "reply_processed")
    BY <1>1, <1>2 DEF UsageInv, TaskTypeOK
  <1>4. \A r \in Sender : pc'[r] = "idle" \/ (pc'[r] = pc[r] /\ job'[r] = job[r])
    BY DEF SaveStatus, EndTask, UsageInv, TaskTypeOK
  <1>5. \A u : Vetted(u)' <=> Vetted(u)
    BY <1>2 DEF Vetted
  <1>6. ASSUME NEW v \in UsageId
        PROVE  /\ status'[v] = "none" => posts[v] = 0 /\ told[v] = <<>>
               /\ status'[v] # "none" =>
                     report[v] \in Reports /\ file[v] \in Damaged(FileOf(report[v]))
               /\ posts[v] > 0 \/ status'[v] = "reply_processed" => Vetted(v)
    BY <1>1, <1>3 DEF ToldInv
  <1>7. \A r \in Sender : pc'[r] = "save" => Vetted(job[r]) /\ job'[r] = job[r]
    BY <1>4 DEF ToldInv
  <1>8. \A r \in Sender : pc'[r] = "save" => Vetted(job[r])' /\ job'[r] = job[r]
    BY <1>5, <1>7
  <1>9. \A v \in UsageId : posts'[v] > 0 \/ status'[v] = "reply_processed" => Vetted(v)'
    BY <1>2, <1>5, <1>6
  <1>10. \A v \in {file', report', told'} : v = [u \in UsageId |-> v[u]]
    BY <1>2 DEF ToldInv
  <1>11. \A v \in UsageId : told'[v] \in {<<>>, Usages(file'[v])}
    BY <1>2 DEF ToldInv
  <1>12. ASSUME NEW r \in Sender, pc'[r] = "post" PROVE FileValid(file'[job'[r]])
    <2>1. pc[r] = "post" /\ job'[r] = job[r]
      BY <1>4, <1>12
    <2>2. FileValid(file[job[r]])
      BY <2>1 DEF ToldInv
    <2>3. file'[job'[r]] = file[job[r]]
      BY <1>2, <2>1
    <2> QED
      BY <2>2, <2>3
  <1>13. \A r \in Sender : pc'[r] = "save" => Vetted(job[r])'
    BY <1>8
  <1> QED
    BY <1>2, <1>6, <1>9, <1>10, <1>11, <1>12, <1>13 DEF ToldInv

LEMMA ToldStored ==
  ASSUME UsageInv, ToldInv, NEW u \in UsageId, NEW r \in Reports,
         NEW f \in Damaged(FileOf(r)), UsageStored(u, r, f)
  PROVE  ToldInv'
  <1>1. status[u] = "none" /\ posts[u] = 0 /\ told[u] = <<>>
    BY DEF UsageStored, ToldInv
  <1>2. \A s \in Sender : pc[s] \in {"post", "save"} => job[s] \in UsageId /\ job[s] # u
    BY <1>1 DEF UsageInv, Places, WorksOnFirst
  <1>3. /\ status'[u] = "reply_received" /\ report'[u] = r /\ file'[u] = f
        /\ \A v \in UsageId \ {u} :
              status'[v] = status[v] /\ report'[v] = report[v] /\ file'[v] = file[v]
        /\ file' = [v \in UsageId |-> file'[v]] /\ report' = [v \in UsageId |-> report'[v]]
        /\ UNCHANGED <<pc, job, told, posts>>
    BY DEF UsageStored, UsageInv, TaskTypeOK, ToldInv
  <1>4. \A v \in UsageId \ {u} : Vetted(v)' <=> Vetted(v)
    BY <1>3 DEF Vetted
  <1>5. ASSUME NEW v \in UsageId
        PROVE  /\ status'[v] = "none" => posts'[v] = 0 /\ told'[v] = <<>>
               /\ status'[v] # "none" =>
                     report'[v] \in Reports /\ file'[v] \in Damaged(FileOf(report'[v]))
               /\ told'[v] \in {<<>>, Usages(file'[v])}
               /\ posts'[v] > 0 \/ status'[v] = "reply_processed" => Vetted(v)'
    <2>1. CASE v = u
      BY <1>1, <1>3, <2>1
    <2>2. CASE v # u
      BY <1>3, <1>4, <2>2 DEF ToldInv
    <2> QED
      BY <2>1, <2>2
  <1>6. \A s \in Sender : pc[s] = "save" => Vetted(job[s])'
    BY <1>2, <1>3, <1>4 DEF ToldInv
  <1>7. \A s \in Sender : pc'[s] = "post" => FileValid(file'[job'[s]])
    BY <1>2, <1>3 DEF ToldInv
  <1>8. \A s \in Sender : pc'[s] = "save" => Vetted(job[s])' /\ job'[s] = job[s]
    BY <1>3, <1>6
  <1>9. told' = [v \in UsageId |-> told'[v]]
    BY <1>3 DEF ToldInv
  <1> QED
    BY <1>3, <1>5, <1>7, <1>8, <1>9 DEF ToldInv

LEMMA ToldKept == UsageInv /\ ToldInv /\ [Next]_vars => ToldInv'
  <1> SUFFICES ASSUME UsageInv, ToldInv, [Next]_vars PROVE ToldInv'
    OBVIOUS
  <1>1. ASSUME NEW s \in Sender, CountMails(s) \/ StartLock(s) \/ LockMail(s)
        PROVE  ToldInv'
    <2>1. /\ UNCHANGED <<mails, told, posts>> /\ pc'[s] \in {"count", "lock", "read"}
          /\ \A r \in Sender \ {s} : pc'[r] = pc[r] /\ job'[r] = job[r]
      BY <1>1 DEF CountMails, StartLock, LockMail, UsageInv, TaskTypeOK
    <2> QED
      BY <2>1, ToldQuiet
  <1>2. ASSUME NEW s \in Sender, MailGone(s) \/ FileRefused(s) \/ PostRefused(s) \/ Fail(s)
        PROVE  ToldInv'
    <2>1. /\ UNCHANGED <<mails, told, posts>> /\ pc'[s] = "idle"
          /\ \A r \in Sender \ {s} : pc'[r] = pc[r] /\ job'[r] = job[r]
      BY <1>2 DEF MailGone, FileRefused, PostRefused, Fail, EndTask, UsageInv, TaskTypeOK
    <2> QED
      BY <2>1, ToldQuiet
  <1>3. ASSUME NEW s \in Sender, ReadFile(s)
        PROVE  ToldInv'
    <2>1. /\ UNCHANGED <<mails, told, posts, job>> /\ FileValid(file[job[s]])
          /\ \A r \in Sender \ {s} : pc'[r] = pc[r]
          /\ pc'[s] = "save" => Usages(file[job[s]]) = <<>>
      BY <1>3 DEF ReadFile, UsageInv, TaskTypeOK
    <2>2. job[s] \in UsageId
      BY <1>3 DEF ReadFile, UsageInv, Places, WorksOnFirst
    <2>3. pc'[s] = "save" => Vetted(job[s])
      BY <2>1, <2>2 DEF ToldInv, Vetted
    <2> QED
      BY <2>1, <2>3, ToldQuiet
  <1>4. CASE UNCHANGED vars
    <2>1. \A u : Vetted(u)' <=> Vetted(u)
      BY <1>4 DEF Vetted, vars, mails
    <2>2. \A s \in Sender : pc'[s] = "save" => Vetted(job[s])' /\ job'[s] = job[s]
      BY <1>4, <2>1 DEF ToldInv, vars
    <2> QED
      BY <1>4, <2>1, <2>2 DEF ToldInv, vars, mails
  <1> QED
    BY <1>1, <1>2, <1>3, <1>4, ToldPosted, ToldSaved, ToldStored DEF Next, Task

(* What a process knows of the file it has in hand, and ICMS of a Mail,    *)
(* holds in every behaviour of the usage task.                             *)
THEOREM ToldInvariant == Spec => []ToldInv
  BY ToldInit, ToldKept, UsageInvariant, PTL DEF Spec

(* ICMS hears of a whole report, in its order, or of nothing: whatever     *)
(* records a file has lost on its way, the count of its trailer lets none  *)
(* but the whole report through.                                           *)
THEOREM WholeReports == Spec => []WholeReportTold
  <1>1. UsageInv /\ ToldInv => WholeReportTold
    <2> SUFFICES ASSUME UsageInv, ToldInv, NEW u \in UsageId,
                        posts[u] > 0 \/ status[u] = "reply_processed"
                 PROVE  told[u] = report[u]
      BY DEF WholeReportTold
    <2>1. status[u] # "none"
      BY DEF ToldInv
    <2>2. /\ report[u] \in Reports /\ file[u] \in Damaged(FileOf(report[u]))
          /\ FileValid(file[u]) /\ told[u] = Usages(file[u])
      BY <2>1 DEF ToldInv, Vetted
    <2>3. Usages(file[u]) = report[u]
      BY <2>2, DamagedTold
    <2> QED
      BY <2>2, <2>3
  <1> QED
    BY <1>1, UsageInvariant, ToldInvariant, PTL

=============================================================================
