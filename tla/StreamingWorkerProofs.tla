----------------------- MODULE StreamingWorkerProofs -----------------------
(***************************************************************************)
(* Proofs about the streaming worker, for any number of threads, payloads   *)
(* and siblings, however simulations fail and whenever it is shut down.      *)
(***************************************************************************)
EXTENDS StreamingWorker, FiniteSetTheorems, TLAPS

(* Where a thread holds the right to resolve the future of its payload.     *)
Holding == {"drop", "unfail", "unresolve", "give", "giveNothing"}

HasJob(w) == wpc[w] \notin {"get", "exited"}

Submitted(q) == \A i \in 1 .. Len(q) : prompt[q[i].state] # None

(* Jobs are of payloads that were submitted; a payload that was not has     *)
(* collected nothing; a payload is only brought back after it was revived.  *)
JobsOK ==
  /\ \A w \in Workers : HasJob(w) => wjob[w] \in Job /\ prompt[wjob[w].state] # None
  /\ Submitted(retryQ) /\ Submitted(freshQ)
  /\ \A s \in States : prompt[s] = None => collected[s] = 0
  /\ \A w \in Workers : wpc[w] \in {"unresolve", "requeue"} => wjob[w].state \in revived

(* A future belongs to one thread, to shutdown or to whoever finds it        *)
(* unresolved, and is empty until it is resolved.                            *)
HeldOK ==
  /\ \A w \in Workers : wpc[w] \in Holding =>
       /\ resolved[wjob[w].state] /\ future[wjob[w].state] = <<>>
       /\ wjob[w].state \notin orphans
       /\ \A v \in Workers : v # w /\ wpc[v] \in Holding => wjob[v].state # wjob[w].state
  /\ \A s \in orphans : resolved[s] /\ (closing # "done" => future[s] = <<>>)
  /\ \A s \in States : (future[s] # <<>> => resolved[s]) /\ (resolved[s] => prompt[s] # None)
  /\ closing = "open" => orphans = {}

WorkerInv == TypeOK /\ JobsOK /\ HeldOK /\ ResolvedOnce /\ PayloadsAreTracked

-----------------------------------------------------------------------------
(* Sequences of jobs                                                         *)

(* What put, get and the dispatch of a payload make of a queue.              *)
LEMMA Put ==
  ASSUME NEW q \in Seq(Job), NEW j \in Job
  PROVE  /\ Append(q, j) \in Seq(Job) /\ Len(Append(q, j)) = Len(q) + 1
         /\ \A i \in 1 .. Len(q) : Append(q, j)[i] = q[i]
         /\ Append(q, j)[Len(q) + 1] = j
OBVIOUS

LEMMA Get ==
  ASSUME NEW q \in Seq(Job), q # <<>>
  PROVE  /\ Head(q) \in Job /\ Head(q) = q[1] /\ Tail(q) \in Seq(Job)
         /\ Len(q) \in Nat \ {0} /\ Len(Tail(q)) = Len(q) - 1
         /\ \A i \in 1 .. Len(q) - 1 : Tail(q)[i] = q[i + 1]
OBVIOUS

FreshJobs(s) == [i \in 1 .. nTarget |-> [state |-> s, first |-> TRUE, fallback |-> FALSE]]

LEMMA Dispatch ==
  ASSUME NEW q \in Seq(Job), NEW s \in States, nTarget \in Nat
  PROVE  /\ q \o FreshJobs(s) \in Seq(Job) /\ Len(q \o FreshJobs(s)) = Len(q) + nTarget
         /\ \A i \in 1 .. Len(q) : (q \o FreshJobs(s))[i] = q[i]
         /\ \A i \in Len(q) + 1 .. Len(q) + nTarget : (q \o FreshJobs(s))[i].state = s
<1>1. FreshJobs(s) \in Seq(Job) /\ Len(FreshJobs(s)) = nTarget
  BY DEF FreshJobs, Job
<1>2. q \o FreshJobs(s) \in Seq(Job) /\ Len(q \o FreshJobs(s)) = Len(q) + nTarget
  BY <1>1
<1>3. \A i \in 1 .. Len(q) + nTarget :
        (q \o FreshJobs(s))[i] = IF i <= Len(q) THEN q[i] ELSE FreshJobs(s)[i - Len(q)]
  BY <1>1
<1>4. \A i \in 1 .. nTarget : FreshJobs(s)[i].state = s
  BY DEF FreshJobs
<1> QED
  BY <1>1, <1>2, <1>3, <1>4

-----------------------------------------------------------------------------
(* Counting jobs                                                             *)

Places(s, q) == {i \in 1 .. Len(q) : q[i].state = s}
One(b) == IF b THEN 1 ELSE 0

LEMMA JobsOfPlaces ==
  ASSUME NEW q \in Seq(Job), NEW s
  PROVE  /\ JobsOf(s, q) = Cardinality(Places(s, q)) /\ IsFiniteSet(Places(s, q))
         /\ JobsOf(s, q) \in Nat
<1>1. DOMAIN q = 1 .. Len(q) /\ Len(q) \in Nat
  OBVIOUS
<1>2. IsFiniteSet(1 .. Len(q))
  BY <1>1, FS_Interval
<1>3. Places(s, q) \in SUBSET (1 .. Len(q))
  BY DEF Places
<1>4. IsFiniteSet(Places(s, q))
  BY <1>2, <1>3, FS_Subset
<1> QED
  BY <1>1, <1>4, FS_CardinalityType DEF Places, JobsOf

LEMMA JobsOfPut ==
  ASSUME NEW q \in Seq(Job), NEW j \in Job, NEW s
  PROVE  JobsOf(s, Append(q, j)) = JobsOf(s, q) + One(j.state = s)
<1> DEFINE n == Len(q) + 1
<1>1. Append(q, j) \in Seq(Job) /\ Len(Append(q, j)) = n /\ Len(q) \in Nat
  BY Put
<1>2. Places(s, Append(q, j)) = IF j.state = s THEN Places(s, q) \cup {n} ELSE Places(s, q)
  BY <1>1, Put DEF Places
<1>3. n \notin Places(s, q)
  BY <1>1 DEF Places
<1>4. IsFiniteSet(Places(s, q)) /\ JobsOf(s, q) = Cardinality(Places(s, q)) /\ JobsOf(s, q) \in Nat
  BY JobsOfPlaces
<1>5. JobsOf(s, Append(q, j)) = Cardinality(Places(s, Append(q, j)))
  BY <1>1, JobsOfPlaces
<1>6. Cardinality(Places(s, q) \cup {n}) = Cardinality(Places(s, q)) + 1
  BY <1>3, <1>4, FS_AddElement
<1> QED
  BY <1>2, <1>4, <1>5, <1>6 DEF One

LEMMA JobsOfGet ==
  ASSUME NEW q \in Seq(Job), q # <<>>, NEW s
  PROVE  JobsOf(s, q) = JobsOf(s, Tail(q)) + One(Head(q).state = s)
<1> DEFINE P == Places(s, Tail(q))
           R == Places(s, q) \ {1}
           f == [i \in P |-> i + 1]
<1>1. /\ Tail(q) \in Seq(Job) /\ Len(q) \in Nat \ {0} /\ Len(Tail(q)) = Len(q) - 1
      /\ Head(q) = q[1] /\ \A i \in 1 .. Len(q) - 1 : Tail(q)[i] = q[i + 1]
  BY Get
<1>2. /\ IsFiniteSet(P) /\ JobsOf(s, Tail(q)) = Cardinality(P)
      /\ IsFiniteSet(Places(s, q)) /\ JobsOf(s, q) = Cardinality(Places(s, q))
      /\ JobsOf(s, q) \in Nat /\ JobsOf(s, Tail(q)) \in Nat
  BY <1>1, JobsOfPlaces
<1>3. \A i \in P : i \in Nat /\ i + 1 \in R
  BY <1>1 DEF Places
<1>4. f \in Injection(P, R)
  BY <1>3 DEF Injection, IsInjective
<1>5. \A k \in R : k - 1 \in P /\ (k - 1) + 1 = k
  BY <1>1 DEF Places
<1>6. f \in Surjection(P, R)
  BY <1>3, <1>5 DEF Surjection
<1>7. ExistsBijection(P, R)
  BY <1>4, <1>6 DEF ExistsBijection, Bijection
<1>8. Cardinality(R) = Cardinality(P)
  BY <1>2, <1>7, FS_Bijection
<1>9. 1 \in Places(s, q) <=> Head(q).state = s
  BY <1>1 DEF Places
<1>10. Cardinality(R) = IF 1 \in Places(s, q) THEN Cardinality(Places(s, q)) - 1
                                              ELSE Cardinality(Places(s, q))
  BY <1>2, FS_RemoveElement
<1> QED
  BY <1>2, <1>8, <1>9, <1>10 DEF One

LEMMA JobsOfDispatch ==
  ASSUME NEW q \in Seq(Job), NEW z \in States, NEW s, nTarget \in Nat
  PROVE  JobsOf(s, q \o FreshJobs(z)) = JobsOf(s, q) + (IF z = s THEN nTarget ELSE 0)
<1> DEFINE d == q \o FreshJobs(z)
           N == Len(q) + 1 .. Len(q) + nTarget
<1>1. d \in Seq(Job) /\ Len(d) = Len(q) + nTarget /\ Len(q) \in Nat
  BY Dispatch
<1>2. Places(s, d) = IF z = s THEN Places(s, q) \cup N ELSE Places(s, q)
  BY <1>1, Dispatch DEF Places
<1>3. /\ IsFiniteSet(Places(s, q)) /\ JobsOf(s, q) = Cardinality(Places(s, q))
      /\ JobsOf(s, q) \in Nat /\ JobsOf(s, d) = Cardinality(Places(s, d))
  BY <1>1, JobsOfPlaces
<1>4. IsFiniteSet(N) /\ Cardinality(N) = nTarget
  BY <1>1, FS_Interval
<1>5. Places(s, q) \cap N = {}
  BY <1>1 DEF Places
<1>6. Cardinality(Places(s, q) \cup N) = Cardinality(Places(s, q)) + nTarget
  <2>1. Cardinality(Places(s, q) \cup N)
          = Cardinality(Places(s, q)) + Cardinality(N) - Cardinality(Places(s, q) \cap N)
    BY <1>3, <1>4, FS_Union
  <2>2. Cardinality(Places(s, q) \cap N) = 0
    BY <1>5, FS_EmptySet
  <2>3. Cardinality(Places(s, q)) \in Nat
    BY <1>3
  <2> HIDE DEF N
  <2> QED
    BY <1>4, <2>1, <2>2, <2>3
<1>7. CASE z = s
  BY <1>2, <1>3, <1>6, <1>7
<1>8. CASE z # s
  BY <1>2, <1>3, <1>8
<1> QED
  BY <1>7, <1>8

-----------------------------------------------------------------------------
(* Types                                                                     *)

LEMMA InitOK == Init => WorkerInv
<1> SUFFICES ASSUME Init PROVE WorkerInv
  OBVIOUS
<1> USE WorkerAssumption
<1>1. TypeOK
  <2>1. retryQ \in Seq(Job) /\ freshQ \in Seq(Job) /\ future \in [States -> Seq(Nat)]
    BY DEF Init
  <2>2. wpc \in [Workers -> WorkerPcs] /\ wjob \in [Workers -> Job \cup {NoJob}]
    BY DEF Init, WorkerPcs
  <2>3. /\ prompt \in [States -> Prompts \cup {None}] /\ active \in [Prompts -> States \cup {None}]
        /\ collected \in [States -> Nat] /\ retries \in [States -> Int]
        /\ failed \in [States -> BOOLEAN] /\ resolved \in [States -> BOOLEAN]
    BY DEF Init
  <2> QED
    BY <2>1, <2>2, <2>3 DEF Init, TypeOK
<1>2. JobsOK
  BY DEF Init, JobsOK, HasJob, Submitted
<1>3. HeldOK /\ ResolvedOnce
  BY DEF Init, HeldOK, Holding, ResolvedOnce
<1>4. PayloadsAreTracked
  BY DEF Init, PayloadsAreTracked, SiblingsAreConserved, IndexIsExact
<1> QED
  BY <1>1, <1>2, <1>3, <1>4 DEF WorkerInv

LEMMA SubmitTypes ==
  ASSUME TypeOK, NEW p \in Prompts, NEW s \in States, Submit(p, s) PROVE TypeOK'
<1>1. freshQ' = freshQ \o FreshJobs(s) /\ nTarget \in Nat
  BY WorkerAssumption DEF Submit, FreshJobs, TypeOK
<1>2. freshQ' \in Seq(Job)
  BY <1>1, Dispatch DEF TypeOK
<1>3. /\ prompt' \in [States -> Prompts \cup {None}] /\ retries' \in [States -> Int]
      /\ active' \in [Prompts -> States \cup {None}]
  BY WorkerAssumption DEF Submit, TypeOK
<1> QED
  BY <1>2, <1>3 DEF Submit, TypeOK, poolVars, sceneVars

LEMMA Unindexed ==
  ASSUME TypeOK, NEW s \in States, Unindex(s)
  PROVE  active' \in [Prompts -> States \cup {None}]
BY DEF TypeOK, Unindex

LEMMA PoolTypes ==
  ASSUME TypeOK, JobsOK, NEW w \in Workers, Pool(w) PROVE TypeOK'
<1> USE DEF TypeOK, stateVars, queueVars, poolVars, sceneVars, Goto, Finish, WorkerPcs, NoJob
<1>0. HasJob(w) => wjob[w] \in Job /\ wjob[w].state \in States
  BY DEF JobsOK, Job
<1>1. CASE TakeJob(w)
  <2>1. /\ wjob' \in [Workers -> Job \cup {NoJob}]
        /\ retryQ' \in Seq(Job) /\ freshQ' \in Seq(Job)
    BY <1>1, Get DEF TakeJob
  <2> QED
    BY <1>1, <2>1 DEF TakeJob
<1>2. CASE TakeSentinel(w)
  BY <1>2 DEF TakeSentinel
<1>3. CASE CheckJob(w)
  BY <1>3 DEF CheckJob
<1>4. CASE SimulateSucceeds(w)
  BY <1>4 DEF SimulateSucceeds
<1>5. CASE SimulateFails(w)
  BY <1>5 DEF SimulateFails
<1>6. CASE Collect(w)
  <2>1. wjob[w].state \in States
    BY <1>0, <1>6 DEF Collect, HasJob
  <2>2. collected' \in [States -> Nat]
    BY <2>1, <1>6 DEF Collect
  <2>3. resolved' \in [States -> BOOLEAN]
    BY <2>1, <1>6 DEF Collect
  <2>4. active' \in [Prompts -> States \cup {None}]
    BY <2>1, <1>6, Unindexed DEF Collect
  <2>5. wpc' \in [Workers -> WorkerPcs] /\ wjob' \in [Workers -> Job \cup {NoJob}]
    BY <1>6 DEF Collect
  <2> QED
    BY <1>6, <2>2, <2>3, <2>4, <2>5 DEF Collect
<1>7. CASE Give(w)
  <2>1. nTarget \in Nat
    BY WorkerAssumption
  <2>2. future' \in [States -> Seq(Nat)]
    BY <1>0, <1>7, <2>1 DEF Give, SetResult, HasJob
  <2> QED
    BY <1>7, <2>2 DEF Give
<1>8. CASE RetryOrDrop(w)
  <2>1. wjob[w].state \in States
    BY <1>0, <1>8 DEF RetryOrDrop, HasJob
  <2>2. retries' \in [States -> Int]
    BY <2>1, <1>8 DEF RetryOrDrop
  <2>3. failed' \in [States -> BOOLEAN]
    BY <2>1, <1>8 DEF RetryOrDrop
  <2>4. resolved' \in [States -> BOOLEAN]
    BY <2>1, <1>8 DEF RetryOrDrop
  <2>5. active' \in [Prompts -> States \cup {None}]
    BY <2>1, <1>8, Unindexed DEF RetryOrDrop
  <2>6. wpc' \in [Workers -> WorkerPcs] /\ wjob' \in [Workers -> Job \cup {NoJob}]
    BY <1>8 DEF RetryOrDrop
  <2>7. retryQ' \in Seq(Job)
    <3> DEFINE j == [state |-> wjob[w].state, first |-> FALSE, fallback |-> FALSE]
    <3>1. j \in Job
      BY <2>1 DEF Job
    <3>2. retryQ' = retryQ \/ retryQ' = Append(retryQ, j)
      BY <1>8 DEF RetryOrDrop, Retry
    <3>3. Append(retryQ, j) \in Seq(Job)
      BY <3>1, Put
    <3> QED
      BY <3>2, <3>3
  <2> QED
    BY <1>8, <2>2, <2>3, <2>4, <2>5, <2>6, <2>7 DEF RetryOrDrop
<1>9. CASE PickSubstitute(w)
  BY <1>9 DEF PickSubstitute
<1>10. CASE ClearFailed(w)
  BY <1>0, <1>10 DEF ClearFailed, HasJob
<1>11. CASE ClearResolved(w)
  BY <1>0, <1>11 DEF ClearResolved, HasJob
<1>12. CASE Requeue(w)
  <2>1. wjob[w].state \in States
    BY <1>0, <1>12 DEF Requeue, HasJob
  <2>2. retryQ' \in Seq(Job) /\ retries' \in [States -> Int]
    BY <2>1, <1>12, Put, WorkerAssumption DEF Requeue, Job
  <2> QED
    BY <1>12, <2>2 DEF Requeue
<1>13. CASE GiveNothing(w)
  <2>1. future' \in [States -> Seq(Nat)]
    BY <1>0, <1>13 DEF GiveNothing, SetResult, HasJob
  <2> QED
    BY <1>13, <2>1 DEF GiveNothing
<1> QED
  BY <1>1, <1>2, <1>3, <1>4, <1>5, <1>6, <1>7, <1>8, <1>9, <1>10, <1>11, <1>12, <1>13 DEF Pool

LEMMA ShutdownTypes ==
  ASSUME TypeOK, Shutdown PROVE TypeOK'
<1> USE DEF TypeOK, stateVars, queueVars, poolVars, sceneVars
<1>1. CASE CloseIndex
  BY <1>1 DEF CloseIndex, MarkOrphans
<1>2. CASE DrainQueue
  <2>1. retryQ' \in Seq(Job) /\ freshQ' \in Seq(Job)
    BY <1>2, Get DEF DrainQueue
  <2> QED
    BY <1>2, <2>1 DEF DrainQueue
<1>3. CASE Dismiss
  <2>1. sentinels' \in Nat
    BY <1>3, FS_CardinalityType, WorkerAssumption DEF Dismiss, SentinelCount
  <2> QED
    BY <1>3, <2>1 DEF Dismiss
<1>4. CASE ResolveOrphans
  <2>1. future' \in [States -> Seq(Nat)]
    BY <1>4 DEF ResolveOrphans
  <2> QED
    BY <1>4, <2>1 DEF ResolveOrphans
<1> QED
  BY <1>1, <1>2, <1>3, <1>4 DEF Shutdown

-----------------------------------------------------------------------------
(* Jobs                                                                      *)

LEMMA SubmitJobs ==
  ASSUME TypeOK, JobsOK, NEW p \in Prompts, NEW s \in States, Submit(p, s) PROVE JobsOK'
<1>1. /\ prompt' = [prompt EXCEPT ![s] = p] /\ prompt[s] = None /\ p # None
      /\ UNCHANGED <<collected, retryQ, wpc, wjob, revived>>
      /\ freshQ' = freshQ \o FreshJobs(s) /\ nTarget \in Nat
  BY WorkerAssumption DEF Submit, TypeOK, poolVars, FreshJobs
<1>2. \A z \in States : prompt[z] # None => prompt'[z] # None
  BY <1>1 DEF TypeOK
<1>3. prompt'[s] = p
  BY <1>1 DEF TypeOK
<1>4. \A w \in Workers : HasJob(w)' => wjob'[w] \in Job /\ prompt'[wjob'[w].state] # None
  BY <1>1, <1>2 DEF JobsOK, HasJob, Job
<1>5. Submitted(retryQ)'
  <2>1. \A i \in 1 .. Len(retryQ) : retryQ[i].state \in States
    <3> SUFFICES ASSUME NEW i \in 1 .. Len(retryQ) PROVE retryQ[i] \in Job
      BY DEF Job
    <3> QED
      BY DEF TypeOK
  <2> QED
    BY <1>1, <1>2, <2>1 DEF JobsOK, Submitted
<1>6. Submitted(freshQ)'
  <2>1. \A i \in 1 .. Len(freshQ) : freshQ[i].state \in States
    <3> SUFFICES ASSUME NEW i \in 1 .. Len(freshQ) PROVE freshQ[i] \in Job
      BY DEF Job
    <3> QED
      BY DEF TypeOK
  <2>2. /\ Len(freshQ') = Len(freshQ) + nTarget /\ Len(freshQ) \in Nat
        /\ \A i \in 1 .. Len(freshQ) : freshQ'[i] = freshQ[i]
        /\ \A i \in Len(freshQ) + 1 .. Len(freshQ) + nTarget : freshQ'[i].state = s
    BY <1>1, Dispatch DEF TypeOK
  <2>3. \A i \in 1 .. Len(freshQ) : prompt'[freshQ'[i].state] # None
    BY <1>2, <2>1, <2>2 DEF JobsOK, Submitted
  <2>4. \A i \in Len(freshQ) + 1 .. Len(freshQ) + nTarget : prompt'[freshQ'[i].state] # None
    BY <1>1, <1>3, <2>2
  <2> QED
    BY <1>1, <2>2, <2>3, <2>4 DEF Submitted
<1>7. /\ \A z \in States : prompt'[z] = None => collected'[z] = 0
      /\ \A w \in Workers : wpc'[w] \in {"unresolve", "requeue"} => wjob'[w].state \in revived'
  BY <1>1, <1>2 DEF JobsOK
<1> QED
  BY <1>4, <1>5, <1>6, <1>7 DEF JobsOK

LEMMA SubmittedGet ==
  ASSUME NEW q \in Seq(Job), q # <<>>, Submitted(q)
  PROVE  Submitted(Tail(q)) /\ prompt[Head(q).state] # None
BY Get DEF Submitted

LEMMA SubmittedPut ==
  ASSUME NEW q \in Seq(Job), Submitted(q), NEW j \in Job, prompt[j.state] # None
  PROVE  Submitted(Append(q, j))
BY Put DEF Submitted

(* What a thread's step leaves to prove.                                     *)
LEMMA JobsRest ==
  ASSUME TypeOK, JobsOK, NEW w \in Workers, prompt' = prompt,
         \A v \in Workers : v # w => wpc'[v] = wpc[v] /\ wjob'[v] = wjob[v],
         HasJob(w)' => wjob'[w] \in Job /\ prompt[wjob'[w].state] # None,
         Submitted(retryQ'), Submitted(freshQ'),
         \A s \in States : prompt[s] = None => collected'[s] = 0,
         revived \subseteq revived',
         wpc'[w] \in {"unresolve", "requeue"} => wjob'[w].state \in revived'
  PROVE  JobsOK'
<1>1. Submitted(retryQ)' /\ Submitted(freshQ)'
  BY DEF Submitted
<1>2. \A v \in Workers : HasJob(v)' => wjob'[v] \in Job /\ prompt'[wjob'[v].state] # None
  BY DEF JobsOK, HasJob
<1>3. \A v \in Workers : wpc'[v] \in {"unresolve", "requeue"} => wjob'[v].state \in revived'
  BY DEF JobsOK
<1> QED
  BY <1>1, <1>2, <1>3 DEF JobsOK

(* A thread moves alone.                                                     *)
LEMMA OthersRest ==
  ASSUME TypeOK, NEW w \in Workers, Pool(w)
  PROVE  /\ \A v \in Workers : v # w => wpc'[v] = wpc[v] /\ wjob'[v] = wjob[v]
         /\ UNCHANGED <<nTarget, prompt, closing, orphans>>
<1> USE DEF TypeOK, Goto, Finish, stateVars, sceneVars, queueVars
<1>1. CASE TakeJob(w) \/ TakeSentinel(w) \/ CheckJob(w)
  BY <1>1 DEF TakeJob, TakeSentinel, CheckJob
<1>2. CASE SimulateSucceeds(w) \/ SimulateFails(w) \/ Collect(w) \/ Give(w)
  BY <1>2 DEF SimulateSucceeds, SimulateFails, Collect, Give
<1>3. CASE RetryOrDrop(w)
  BY <1>3 DEF RetryOrDrop
<1>4. CASE PickSubstitute(w) \/ ClearFailed(w) \/ ClearResolved(w) \/ Requeue(w) \/ GiveNothing(w)
  BY <1>4 DEF PickSubstitute, ClearFailed, ClearResolved, Requeue, GiveNothing
<1> QED
  BY <1>1, <1>2, <1>3, <1>4 DEF Pool

LEMMA PoolJobs ==
  ASSUME TypeOK, JobsOK, NEW w \in Workers, Pool(w) PROVE JobsOK'
<1>1. CASE TakeJob(w)
  <2>1. /\ wpc'[w] = "check" /\ UNCHANGED <<prompt, collected, revived>>
        /\ wjob'[w] \in Job /\ prompt[wjob'[w].state] # None
        /\ Submitted(retryQ') /\ Submitted(freshQ')
    BY <1>1, Get, SubmittedGet DEF TakeJob, Goto, stateVars, TypeOK, JobsOK
  <2> QED
    BY <2>1, OthersRest, JobsRest DEF JobsOK
<1>2. CASE \/ TakeSentinel(w) \/ CheckJob(w) \/ SimulateSucceeds(w) \/ SimulateFails(w)
           \/ Give(w) \/ GiveNothing(w) \/ PickSubstitute(w)
  <2>1. /\ UNCHANGED <<prompt, collected, revived, retryQ, freshQ>>
        /\ wpc'[w] \notin {"unresolve", "requeue"}
        /\ HasJob(w)' => HasJob(w) /\ wjob'[w] = wjob[w]
    BY <1>2 DEF TakeSentinel, CheckJob, SimulateSucceeds, SimulateFails, Give, GiveNothing,
                PickSubstitute, Goto, Finish, HasJob, stateVars, queueVars, TypeOK
  <2> QED
    BY <2>1, OthersRest, JobsRest DEF JobsOK
<1>3. CASE Collect(w)
  <2>1. HasJob(w)
    BY <1>3 DEF Collect, HasJob
  <2>2. \A s \in States : prompt[s] = None => collected'[s] = 0
    BY <1>3, <2>1 DEF Collect, JobsOK, TypeOK
  <2>3. /\ UNCHANGED <<prompt, revived, retryQ, freshQ>>
        /\ wpc'[w] \in {"get", "give"}
        /\ HasJob(w)' => wjob'[w] = wjob[w]
    BY <1>3 DEF Collect, Goto, Finish, HasJob, queueVars, TypeOK
  <2> QED
    BY <2>1, <2>2, <2>3, OthersRest, JobsRest DEF JobsOK
<1>4. CASE RetryOrDrop(w)
  <2> DEFINE j == [state |-> wjob[w].state, first |-> FALSE, fallback |-> FALSE]
  <2>1. HasJob(w)
    BY <1>4 DEF RetryOrDrop, HasJob
  <2>2. j \in Job /\ prompt[j.state] # None
    BY <2>1 DEF JobsOK, Job
  <2>3. /\ UNCHANGED <<prompt, collected, revived, freshQ>>
        /\ wpc'[w] \in {"get", "drop"}
        /\ HasJob(w)' => wjob'[w] = wjob[w]
        /\ retryQ' = retryQ \/ retryQ' = Append(retryQ, j)
    BY <1>4 DEF RetryOrDrop, Goto, Finish, HasJob, Retry, TypeOK
  <2>4. Submitted(retryQ')
    BY <2>2, <2>3, SubmittedPut DEF JobsOK, TypeOK
  <2> QED
    BY <2>1, <2>3, <2>4, OthersRest, JobsRest DEF JobsOK
<1>5. CASE ClearFailed(w) \/ ClearResolved(w)
  <2>1. /\ UNCHANGED <<prompt, collected, retryQ, freshQ, wjob>>
        /\ HasJob(w) /\ wpc'[w] \in {"unresolve", "requeue"}
        /\ revived \subseteq revived' /\ wjob[w].state \in revived'
    BY <1>5 DEF ClearFailed, ClearResolved, Goto, HasJob, queueVars, JobsOK, TypeOK
  <2> QED
    BY <2>1, OthersRest, JobsRest DEF JobsOK
<1>6. CASE Requeue(w)
  <2> DEFINE j == [state |-> wjob[w].state, first |-> TRUE, fallback |-> TRUE]
  <2>1. HasJob(w)
    BY <1>6 DEF Requeue, HasJob
  <2>2. j \in Job /\ prompt[j.state] # None
    BY <2>1 DEF JobsOK, Job
  <2>3. /\ UNCHANGED <<prompt, collected, revived, freshQ>> /\ wpc'[w] = "get"
        /\ retryQ' = Append(retryQ, j)
    BY <1>6 DEF Requeue, Goto, Finish, TypeOK
  <2>4. Submitted(retryQ')
    BY <2>2, <2>3, SubmittedPut DEF JobsOK, TypeOK
  <2> QED
    BY <2>3, <2>4, OthersRest, JobsRest DEF JobsOK, HasJob
<1> QED
  BY <1>1, <1>2, <1>3, <1>4, <1>5, <1>6 DEF Pool

LEMMA ShutdownJobs ==
  ASSUME TypeOK, JobsOK, Shutdown PROVE JobsOK'
<1>1. UNCHANGED <<prompt, collected, wpc, wjob, revived>>
  BY DEF Shutdown, CloseIndex, DrainQueue, Dismiss, ResolveOrphans, stateVars, poolVars
<1>2. Submitted(retryQ') /\ Submitted(freshQ')
  <2>1. CASE UNCHANGED <<retryQ, freshQ>>
    BY <2>1 DEF JobsOK
  <2>2. CASE DrainQueue
    BY <2>2, SubmittedGet DEF DrainQueue, JobsOK, TypeOK
  <2> QED
    BY <2>1, <2>2 DEF Shutdown, CloseIndex, Dismiss, ResolveOrphans, queueVars
<1> QED
  BY <1>1, <1>2 DEF JobsOK, Submitted, HasJob

-----------------------------------------------------------------------------
(* Futures                                                                   *)

FutureInv == HeldOK /\ ResolvedOnce

LEMMA HolderState ==
  ASSUME JobsOK, NEW w \in Workers, wpc[w] \in Holding PROVE wjob[w].state \in States
BY DEF JobsOK, HasJob, Job, Holding

(* A thread's step that resolves nothing and takes no future.                *)
LEMMA FutureKept ==
  ASSUME TypeOK, FutureInv, NEW w \in Workers,
         UNCHANGED <<nTarget, prompt, closing, orphans, future, resolved>>,
         \A v \in Workers : v # w => wpc'[v] = wpc[v] /\ wjob'[v] = wjob[v],
         wpc'[w] \in Holding => wpc[w] \in Holding /\ wjob'[w] = wjob[w]
  PROVE  FutureInv'
<1>1. \A v \in Workers : wpc'[v] \in Holding => wpc[v] \in Holding /\ wjob'[v] = wjob[v]
  OBVIOUS
<1>2. HeldOK'
  BY <1>1 DEF FutureInv, HeldOK
<1>3. ResolvedOnce'
  BY DEF FutureInv, ResolvedOnce
<1> QED
  BY <1>2, <1>3 DEF FutureInv

(* One that finds the payload unresolved, under the lock, and takes it.      *)
LEMMA FutureTaken ==
  ASSUME TypeOK, FutureInv, JobsOK, NEW w \in Workers, NEW s \in States,
         UNCHANGED <<nTarget, prompt, closing, orphans, future>>,
         \A v \in Workers : v # w => wpc'[v] = wpc[v] /\ wjob'[v] = wjob[v],
         wjob'[w] = wjob[w], wjob[w].state = s,
         prompt[s] # None, ~resolved[s], resolved' = [resolved EXCEPT ![s] = TRUE]
  PROVE  FutureInv'
<1>1. /\ \A z \in States : z # s => resolved'[z] = resolved[z]
      /\ resolved'[s]
  BY DEF TypeOK
<1>2. /\ \A v \in Workers : wpc[v] \in Holding => wjob[v].state # s
      /\ s \notin orphans /\ future[s] = <<>>
  BY DEF FutureInv, HeldOK
<1>3. \A v \in Workers : wpc'[v] \in Holding =>
        /\ resolved'[wjob'[v].state] /\ future'[wjob'[v].state] = <<>>
        /\ wjob'[v].state \notin orphans'
  BY <1>1, <1>2, HolderState DEF FutureInv, HeldOK
<1>4. \A v, u \in Workers : v # u /\ wpc'[v] \in Holding /\ wpc'[u] \in Holding =>
        wjob'[v].state # wjob'[u].state
  <2> SUFFICES ASSUME NEW v \in Workers, NEW u \in Workers, v # u,
                      wpc'[v] \in Holding, wpc'[u] \in Holding
               PROVE  wjob'[v].state # wjob'[u].state
    OBVIOUS
  <2>1. CASE v = w
    BY <2>1, <1>2
  <2>2. CASE u = w
    BY <2>2, <1>2
  <2>3. CASE v # w /\ u # w
    BY <2>3 DEF FutureInv, HeldOK
  <2> QED
    BY <2>1, <2>2, <2>3
<1>5. /\ \A z \in orphans' : resolved'[z] /\ (closing' # "done" => future'[z] = <<>>)
      /\ \A z \in States : (future'[z] # <<>> => resolved'[z]) /\ (resolved'[z] => prompt'[z] # None)
      /\ closing' = "open" => orphans' = {}
  BY <1>1 DEF FutureInv, HeldOK, TypeOK
<1>6. ResolvedOnce'
  BY DEF FutureInv, ResolvedOnce
<1> QED
  BY <1>3, <1>4, <1>5, <1>6 DEF FutureInv, HeldOK

(* The substitute scene: its thread hands the future back.                   *)
LEMMA FutureReturned ==
  ASSUME TypeOK, FutureInv, JobsOK, NEW w \in Workers, ClearResolved(w)
  PROVE  FutureInv'
<1> DEFINE s == wjob[w].state
<1>1. /\ wpc[w] = "unresolve" /\ wpc' = [wpc EXCEPT ![w] = "requeue"]
      /\ resolved' = [resolved EXCEPT ![s] = FALSE]
      /\ UNCHANGED <<nTarget, prompt, closing, orphans, future, wjob>>
  BY DEF ClearResolved, Goto
<1>2. s \in States /\ wpc[w] \in Holding
  BY <1>1 DEF JobsOK, HasJob, Job, Holding
<1>3. /\ future[s] = <<>> /\ s \notin orphans
      /\ \A v \in Workers : v # w /\ wpc[v] \in Holding => wjob[v].state # s
  BY <1>2 DEF FutureInv, HeldOK
<1>4. \A v \in Workers : wpc'[v] \in Holding => v # w /\ wpc[v] \in Holding
  BY <1>1 DEF Holding, TypeOK
<1>5. \A z \in States : z # s => resolved'[z] = resolved[z]
  BY <1>1 DEF TypeOK
<1>6. \A v \in Workers : wpc'[v] \in Holding =>
       /\ resolved'[wjob[v].state] /\ future[wjob[v].state] = <<>>
       /\ wjob[v].state \notin orphans
       /\ \A u \in Workers : u # v /\ wpc'[u] \in Holding => wjob[u].state # wjob[v].state
  BY <1>3, <1>4, <1>5, HolderState DEF FutureInv, HeldOK
<1>7. /\ \A z \in orphans : resolved'[z] /\ (closing # "done" => future[z] = <<>>)
      /\ \A z \in States : (future[z] # <<>> => resolved'[z]) /\ (resolved'[z] => prompt[z] # None)
      /\ closing = "open" => orphans = {}
  <2>1. ~resolved'[s]
    BY <1>1, <1>2 DEF TypeOK
  <2> QED
    BY <2>1, <1>2, <1>3, <1>5 DEF FutureInv, HeldOK, TypeOK
<1>8. ResolvedOnce'
  BY <1>1 DEF FutureInv, ResolvedOnce
<1> QED
  BY <1>1, <1>6, <1>7, <1>8 DEF FutureInv, HeldOK

(* The thread that holds the future sets its result.                         *)
LEMMA FutureGiven ==
  ASSUME TypeOK, FutureInv, JobsOK, NEW w \in Workers, NEW n \in {0, nTarget},
         wpc[w] \in {"give", "giveNothing"}, SetResult(wjob[w].state, n), Finish(w),
         UNCHANGED <<nTarget, prompt, closing, orphans, resolved>>
  PROVE  FutureInv'
<1> DEFINE s == wjob[w].state
<1>1. s \in States /\ wpc[w] \in Holding
  BY DEF JobsOK, HasJob, Job, Holding
<1>2. /\ future[s] = <<>> /\ s \notin orphans /\ resolved[s]
      /\ \A v \in Workers : v # w /\ wpc[v] \in Holding => wjob[v].state # s
  BY <1>1 DEF FutureInv, HeldOK
<1>3. \A v \in Workers : wpc'[v] \in Holding => v # w /\ wpc[v] \in Holding /\ wjob'[v] = wjob[v]
  BY DEF Holding, TypeOK, Finish, Goto
<1>4. (\A z \in States : z # s => future'[z] = future[z]) /\ future'[s] = Append(<<>>, n)
  BY <1>1, <1>2 DEF TypeOK, SetResult
<1>5. \A v \in Workers : wpc'[v] \in Holding =>
       /\ resolved[wjob'[v].state] /\ future'[wjob'[v].state] = <<>>
       /\ wjob'[v].state \notin orphans
       /\ \A u \in Workers : u # v /\ wpc'[u] \in Holding => wjob'[u].state # wjob'[v].state
  BY <1>2, <1>3, <1>4, HolderState DEF FutureInv, HeldOK
<1>6. /\ \A z \in orphans : resolved[z] /\ (closing # "done" => future'[z] = <<>>)
      /\ \A z \in States : (future'[z] # <<>> => resolved[z]) /\ (resolved[z] => prompt[z] # None)
      /\ closing = "open" => orphans = {}
  BY <1>2, <1>4 DEF FutureInv, HeldOK, TypeOK
<1>7. Len(future'[s]) = 1 /\ future'[s][1] = n
  <2>1. n \in Nat
    BY WorkerAssumption DEF TypeOK
  <2> QED
    BY <1>4, <2>1
<1>8. ResolvedOnce'
  <2> SUFFICES ASSUME NEW z \in States
               PROVE  Len(future'[z]) <= 1 /\ (future'[z] # <<>> => future'[z][1] \in {0, nTarget})
    BY DEF ResolvedOnce
  <2>1. CASE z = s
    BY <2>1, <1>7
  <2>2. CASE z # s
    BY <2>2, <1>4 DEF FutureInv, ResolvedOnce
  <2> QED
    BY <2>1, <2>2
<1> QED
  BY <1>5, <1>6, <1>8 DEF FutureInv, HeldOK

LEMMA PoolFuture ==
  ASSUME TypeOK, JobsOK, FutureInv, NEW w \in Workers, Pool(w) PROVE FutureInv'
<1> DEFINE s == wjob[w].state
<1>1. CASE TakeJob(w) \/ TakeSentinel(w) \/ CheckJob(w)
  <2>1. UNCHANGED <<future, resolved>> /\ wpc'[w] \notin Holding
    BY <1>1 DEF TakeJob, TakeSentinel, CheckJob, Goto, Finish, Holding, stateVars, TypeOK
  <2> QED
    BY <2>1, OthersRest, FutureKept
<1>2. CASE SimulateSucceeds(w) \/ SimulateFails(w) \/ Requeue(w)
  <2>1. UNCHANGED <<future, resolved>> /\ wpc'[w] \notin Holding
    BY <1>2 DEF SimulateSucceeds, SimulateFails, Requeue, Goto, Finish, Holding, stateVars, TypeOK
  <2> QED
    BY <2>1, OthersRest, FutureKept
<1>3. CASE PickSubstitute(w) \/ ClearFailed(w)
  <2>1. UNCHANGED <<future, resolved, wjob>> /\ wpc[w] \in Holding
    BY <1>3 DEF PickSubstitute, ClearFailed, Holding, stateVars
  <2> QED
    BY <2>1, OthersRest, FutureKept
<1>4. CASE Collect(w) \/ RetryOrDrop(w)
  <2>1. s \in States /\ prompt[s] # None
    BY <1>4 DEF Collect, RetryOrDrop, JobsOK, HasJob, Job
  <2>2. \/ UNCHANGED <<future, resolved>> /\ wpc'[w] = "get"
        \/ /\ UNCHANGED <<future, wjob>> /\ ~resolved[s]
           /\ resolved' = [resolved EXCEPT ![s] = TRUE]
    BY <1>4 DEF Collect, RetryOrDrop, Completes, Goto, Finish, TypeOK
  <2>3. CASE UNCHANGED <<future, resolved>> /\ wpc'[w] = "get"
    BY <2>3, OthersRest, FutureKept DEF Holding
  <2>4. CASE /\ UNCHANGED <<future, wjob>> /\ ~resolved[s]
             /\ resolved' = [resolved EXCEPT ![s] = TRUE]
    BY <2>1, <2>4, OthersRest, FutureTaken
  <2> QED
    BY <2>2, <2>3, <2>4
<1>5. CASE ClearResolved(w)
  BY <1>5, FutureReturned
<1>6. CASE Give(w)
  BY <1>6, FutureGiven DEF Give
<1>7. CASE GiveNothing(w)
  BY <1>7, FutureGiven DEF GiveNothing
<1> QED
  BY <1>1, <1>2, <1>3, <1>4, <1>5, <1>6, <1>7 DEF Pool

LEMMA SubmitFuture ==
  ASSUME TypeOK, JobsOK, FutureInv, NEW p \in Prompts, NEW s \in States, Submit(p, s)
  PROVE  FutureInv'
<1>1. /\ UNCHANGED <<nTarget, closing, orphans, future, resolved, wpc, wjob>>
      /\ prompt' = [prompt EXCEPT ![s] = p] /\ p # None
  BY WorkerAssumption DEF Submit, poolVars
<1>2. \A z \in States : prompt[z] # None => prompt'[z] # None
  BY <1>1 DEF TypeOK
<1> QED
  BY <1>1, <1>2 DEF FutureInv, HeldOK, ResolvedOnce

LEMMA ShutdownFuture ==
  ASSUME TypeOK, JobsOK, FutureInv, IndexIsExact, Shutdown PROVE FutureInv'
<1>1. CASE CloseIndex
  <2>1. /\ closing = "open" /\ closing' = "closed"
        /\ \A z \in States : resolved'[z] = (z \in orphans' \/ resolved[z])
        /\ \A z \in orphans' : z \in States /\ ~resolved[z] /\ \E p \in Prompts : active[p] = z
        /\ UNCHANGED <<nTarget, prompt, future, wpc, wjob>>
    BY <1>1 DEF CloseIndex, MarkOrphans, poolVars
  <2>2. \A z \in orphans' : prompt[z] # None /\ future[z] = <<>> /\ ~resolved[z]
    BY <2>1, WorkerAssumption DEF FutureInv, HeldOK, IndexIsExact
  <2>3. \A v \in Workers : wpc[v] \in Holding => wjob[v].state \notin orphans'
    BY <2>2 DEF FutureInv, HeldOK
  <2>4. HeldOK'
    BY <2>1, <2>2, <2>3, HolderState DEF FutureInv, HeldOK
  <2> QED
    BY <2>1, <2>4 DEF FutureInv, ResolvedOnce
<1>2. CASE DrainQueue \/ Dismiss
  <2>1. /\ UNCHANGED <<nTarget, prompt, future, resolved, orphans, wpc, wjob>>
        /\ closing # "done" /\ closing' # "open"
    BY <1>2 DEF DrainQueue, Dismiss, stateVars, poolVars
  <2> QED
    BY <2>1 DEF FutureInv, HeldOK, ResolvedOnce
<1>3. CASE ResolveOrphans
  <2>1. /\ UNCHANGED <<nTarget, prompt, resolved, orphans, wpc, wjob>>
        /\ closing = "dismissed" /\ closing' = "done"
        /\ \A z \in States : future'[z] = IF z \in orphans THEN Append(future[z], 0) ELSE future[z]
    BY <1>3 DEF ResolveOrphans, poolVars
  <2>2. \A z \in orphans : resolved[z] /\ future[z] = <<>>
    BY <2>1 DEF FutureInv, HeldOK
  <2>3. HeldOK'
    BY <2>1, <2>2, HolderState DEF FutureInv, HeldOK
  <2>4. Len(Append(<<>>, 0)) = 1 /\ Append(<<>>, 0)[1] = 0
    OBVIOUS
  <2>5. ResolvedOnce'
    <3> SUFFICES ASSUME NEW z \in States
                 PROVE  Len(future'[z]) <= 1 /\ (future'[z] # <<>> => future'[z][1] \in {0, nTarget})
      BY <2>1 DEF ResolvedOnce
    <3>1. CASE z \in orphans
      <4>1. future'[z] = Append(<<>>, 0)
        BY <3>1, <2>1, <2>2
      <4> QED
        BY <2>4, <4>1
    <3>2. CASE z \notin orphans
      BY <3>2, <2>1 DEF FutureInv, ResolvedOnce
    <3> QED
      BY <3>1, <3>2
  <2> QED
    BY <2>3, <2>5 DEF FutureInv
<1> QED
  BY <1>1, <1>2, <1>3 DEF Shutdown

-----------------------------------------------------------------------------
(* The index                                                                 *)

(* A payload that resolves leaves the index; an index entry outlives every   *)
(* other step.                                                               *)
LEMMA IndexKept ==
  ASSUME TypeOK, IndexIsExact,
         UNCHANGED <<prompt, active>>, closing' = "open" => closing = "open",
         revived \subseteq revived',
         \A p \in Prompts : active[p] # None => ~resolved'[active[p]] /\ future'[active[p]] = <<>>,
         \A z \in States : resolved[z] /\ ~resolved'[z] => z \in revived'
  PROVE  IndexIsExact'
BY DEF IndexIsExact

LEMMA PoolIndex ==
  ASSUME TypeOK, JobsOK, FutureInv, IndexIsExact, NEW w \in Workers, Pool(w) PROVE IndexIsExact'
<1> DEFINE s == wjob[w].state
<1>0. UNCHANGED <<prompt, closing>>
  BY OthersRest
<1>1. CASE UNCHANGED <<active, resolved, future>> /\ revived \subseteq revived'
  BY <1>0, <1>1, IndexKept DEF IndexIsExact
<1>2. CASE Unindex(s) /\ UNCHANGED <<future, revived>> /\ resolved' = [resolved EXCEPT ![s] = TRUE]
           /\ ~resolved[s] /\ HasJob(w)
  <2>1. s \in States /\ prompt[s] \in Prompts
    BY <1>2 DEF JobsOK, Job, TypeOK
  <2>2. /\ \A p \in Prompts : active'[p] = IF p = prompt[s] THEN None ELSE active[p]
        /\ \A z \in States : z # s => resolved'[z] = resolved[z]
        /\ resolved'[s]
    BY <1>2, <2>1 DEF Unindex, TypeOK
  <2>3. \A p \in Prompts : active'[p] # None =>
          /\ active'[p] \in States /\ active'[p] # s /\ active'[p] = active[p]
    BY <2>2 DEF IndexIsExact, TypeOK
  <2>4. \A p \in Prompts : active'[p] # None =>
          prompt'[active'[p]] = p /\ ~resolved'[active'[p]] /\ future'[active'[p]] = <<>>
    BY <1>0, <1>2, <2>2, <2>3 DEF IndexIsExact
  <2>5. ASSUME closing' = "open", NEW z \in States, prompt[z] # None, ~resolved'[z],
               \A y \in revived : prompt[y] # prompt[z]
        PROVE  active'[prompt[z]] = z
    <3>1. z # s /\ ~resolved[z] /\ closing = "open" /\ prompt[z] \in Prompts
      BY <1>0, <2>2, <2>5 DEF TypeOK
    <3>2. active[prompt[z]] = z
      BY <2>5, <3>1 DEF IndexIsExact
    <3>3. prompt[z] # prompt[s]
      BY <1>2, <2>1, <2>5, <3>1, <3>2 DEF IndexIsExact
    <3> QED
      BY <2>2, <3>1, <3>2, <3>3
  <2> QED
    BY <1>0, <1>2, <2>4, <2>5 DEF IndexIsExact
<1>3. CASE ClearResolved(w)
  <2>1. /\ wpc[w] = "unresolve" /\ resolved' = [resolved EXCEPT ![s] = FALSE]
        /\ UNCHANGED <<active, future, revived>>
    BY <1>3 DEF ClearResolved
  <2>2. s \in States /\ s \in revived
    BY <2>1 DEF JobsOK, HasJob, Job
  <2>3. \A z \in States : resolved'[z] = (resolved[z] /\ z # s)
    BY <2>1, <2>2 DEF TypeOK
  <2> QED
    BY <1>0, <2>1, <2>2, <2>3, IndexKept DEF IndexIsExact, TypeOK
<1>4. CASE Give(w) \/ GiveNothing(w)
  <2>1. /\ wpc[w] \in Holding /\ UNCHANGED <<active, resolved, revived>>
        /\ \E n : SetResult(s, n)
    BY <1>4 DEF Give, GiveNothing, Holding
  <2>2. s \in States /\ resolved[s]
    BY <2>1, HolderState DEF FutureInv, HeldOK
  <2>3. \A z \in States : z # s => future'[z] = future[z]
    BY <2>1, <2>2 DEF SetResult, TypeOK
  <2>4. \A p \in Prompts : active[p] # None => active[p] \in States /\ active[p] # s
    BY <2>2 DEF IndexIsExact, TypeOK
  <2> QED
    BY <1>0, <2>1, <2>3, <2>4, IndexKept DEF IndexIsExact
<1>5. CASE \/ TakeJob(w) \/ TakeSentinel(w) \/ CheckJob(w) \/ SimulateSucceeds(w)
           \/ SimulateFails(w) \/ PickSubstitute(w) \/ ClearFailed(w) \/ Requeue(w)
  <2>1. UNCHANGED <<active, resolved, future>> /\ revived \subseteq revived'
    BY <1>5 DEF TakeJob, TakeSentinel, CheckJob, SimulateSucceeds, SimulateFails,
                PickSubstitute, ClearFailed, Requeue, stateVars
  <2> QED
    BY <2>1, <1>1
<1>6. CASE Collect(w) \/ RetryOrDrop(w)
  <2>1. HasJob(w)
    BY <1>6 DEF Collect, RetryOrDrop, HasJob
  <2>2. \/ UNCHANGED <<active, resolved, future, revived>>
        \/ /\ Unindex(s) /\ UNCHANGED <<future, revived>> /\ ~resolved[s]
           /\ resolved' = [resolved EXCEPT ![s] = TRUE]
    BY <1>6 DEF Collect, RetryOrDrop, Completes
  <2> QED
    BY <2>1, <2>2, <1>1, <1>2
<1> QED
  BY <1>3, <1>4, <1>5, <1>6 DEF Pool

LEMMA SubmitIndex ==
  ASSUME TypeOK, FutureInv, IndexIsExact, NEW p \in Prompts, NEW s \in States, Submit(p, s)
  PROVE  IndexIsExact'
<1>1. /\ closing = "open" /\ active[p] = None /\ prompt[s] = None
      /\ UNCHANGED <<closing, resolved, future, revived>>
      /\ \A z \in States : prompt'[z] = IF z = s THEN p ELSE prompt[z]
      /\ \A r \in Prompts : active'[r] = IF r = p THEN s ELSE active[r]
  BY DEF Submit, TypeOK
<1>2. ~resolved[s] /\ future[s] = <<>>
  BY <1>1 DEF FutureInv, HeldOK, TypeOK
<1>3. None \notin Prompts /\ None \notin States
  BY WorkerAssumption
<1>4. \A r \in Prompts : active'[r] # None =>
        prompt'[active'[r]] = r /\ ~resolved'[active'[r]] /\ future'[active'[r]] = <<>>
  <2> SUFFICES ASSUME NEW r \in Prompts, active'[r] # None
               PROVE  prompt'[active'[r]] = r /\ ~resolved[active'[r]] /\ future[active'[r]] = <<>>
    BY <1>1
  <2>1. CASE r = p
    BY <2>1, <1>1, <1>2
  <2>2. CASE r # p
    BY <2>2, <1>1, <1>3 DEF IndexIsExact, TypeOK
  <2> QED
    BY <2>1, <2>2
<1>5. ASSUME NEW z \in States, prompt'[z] # None, ~resolved[z],
             \A y \in revived : prompt'[y] # prompt'[z]
      PROVE  active'[prompt'[z]] = z
  <2>1. CASE z = s
    BY <2>1, <1>1
  <2>2. CASE z # s
    <3>1. prompt[z] \in Prompts /\ prompt'[z] = prompt[z]
      BY <1>1, <1>5, <2>2 DEF TypeOK
    <3>2. \A y \in revived : prompt[y] # prompt[z]
      BY <1>1, <1>3, <1>5, <3>1 DEF TypeOK
    <3>3. active[prompt[z]] = z
      BY <1>1, <1>3, <1>5, <3>1, <3>2 DEF IndexIsExact
    <3>4. prompt[z] # p
      BY <1>1, <1>3, <3>3
    <3> QED
      BY <1>1, <3>1, <3>3, <3>4
  <2> QED
    BY <2>1, <2>2
<1> QED
  BY <1>1, <1>4, <1>5 DEF IndexIsExact

LEMMA ShutdownIndex ==
  ASSUME TypeOK, FutureInv, IndexIsExact, Shutdown PROVE IndexIsExact'
<1>1. CASE CloseIndex
  BY <1>1 DEF CloseIndex, IndexIsExact
<1>2. CASE DrainQueue \/ Dismiss
  <2>1. UNCHANGED <<prompt, active, resolved, future, revived>> /\ closing' # "open"
    BY <1>2 DEF DrainQueue, Dismiss, stateVars
  <2> QED
    BY <2>1 DEF IndexIsExact
<1>3. CASE ResolveOrphans
  <2>1. /\ UNCHANGED <<prompt, active, resolved, revived>> /\ closing' = "done"
        /\ \A z \in States : z \notin orphans => future'[z] = future[z]
    BY <1>3 DEF ResolveOrphans
  <2>2. \A p \in Prompts : active[p] # None => active[p] \in States /\ active[p] \notin orphans
    BY DEF IndexIsExact, FutureInv, HeldOK, TypeOK
  <2> QED
    BY <2>1, <2>2 DEF IndexIsExact
<1> QED
  BY <1>1, <1>2, <1>3 DEF Shutdown

-----------------------------------------------------------------------------
(* Siblings                                                                  *)

Working == {"check", "simulate", "succeeded", "failed"}

Live(s) ==
  closing = "open" /\ prompt[s] # None /\ ~failed[s] /\ ~resolved[s] /\ s \notin revived

LEMMA BusyFinite ==
  ASSUME NEW s PROVE IsFiniteSet(Busy(s)) /\ Cardinality(Busy(s)) \in Nat
BY WorkerAssumption, FS_Subset, FS_CardinalityType DEF Busy

(* What a thread's step does to the threads busy with a payload.             *)
LEMMA BusyMoves ==
  ASSUME NEW w \in Workers, NEW s,
         \A v \in Workers : v # w => wpc'[v] = wpc[v] /\ wjob'[v] = wjob[v]
  PROVE  LET before == wpc[w] \in Working /\ wjob[w].state = s
             after  == wpc'[w] \in Working /\ wjob'[w].state = s
         IN  Cardinality(Busy(s)') + One(before) = Cardinality(Busy(s)) + One(after)
<1> DEFINE before == wpc[w] \in Working /\ wjob[w].state = s
           after  == wpc'[w] \in Working /\ wjob'[w].state = s
           B == Busy(s) \ {w}
<1>1. IsFiniteSet(B) /\ Cardinality(B) \in Nat
  BY BusyFinite, FS_RemoveElement, FS_CardinalityType
<1>2. Cardinality(B \cup {w}) = Cardinality(B) + 1
  BY <1>1, FS_AddElement
<1>3. Busy(s) = IF before THEN B \cup {w} ELSE B
  BY DEF Busy, Working
<1>4. Busy(s)' = IF after THEN B \cup {w} ELSE B
  BY DEF Busy, Working
<1> HIDE DEF before, after, B
<1>5. Cardinality(Busy(s)) = Cardinality(B) + One(before)
  BY <1>1, <1>2, <1>3 DEF One
<1>6. Cardinality(Busy(s)') = Cardinality(B) + One(after)
  BY <1>1, <1>2, <1>4 DEF One
<1>7. One(before) \in Nat /\ One(after) \in Nat
  BY DEF One
<1>8. Cardinality(Busy(s)') + One(before) = Cardinality(Busy(s)) + One(after)
  BY <1>1, <1>5, <1>6, <1>7
<1> QED
  BY <1>8 DEF before, after

(* Only a payload that is put on a substitute scene comes back to life.      *)
LEMMA LiveBefore ==
  ASSUME TypeOK, JobsOK, NEW w \in Workers, Pool(w), NEW s \in States, Live(s)'
  PROVE  Live(s)
<1>1. UNCHANGED <<prompt, closing>>
  BY OthersRest
<1>2. CASE ClearFailed(w)
  BY <1>1, <1>2 DEF Live, ClearFailed, JobsOK, HasJob, Job, TypeOK
<1>3. CASE ClearResolved(w)
  BY <1>1, <1>3 DEF Live, ClearResolved, JobsOK, HasJob, Job, TypeOK
<1>4. CASE Collect(w) \/ RetryOrDrop(w)
  <2>1. wjob[w].state \in States
    BY <1>4 DEF Collect, RetryOrDrop, JobsOK, HasJob, Job
  <2>2. (resolved[s] => resolved'[s]) /\ (failed[s] => failed'[s]) /\ revived' = revived
    BY <1>4, <2>1 DEF Collect, RetryOrDrop, TypeOK
  <2> QED
    BY <1>1, <2>2 DEF Live
<1>5. CASE \/ TakeJob(w) \/ TakeSentinel(w) \/ CheckJob(w) \/ SimulateSucceeds(w)
           \/ SimulateFails(w) \/ PickSubstitute(w) \/ Requeue(w) \/ Give(w) \/ GiveNothing(w)
  <2>1. UNCHANGED <<resolved, failed, revived>>
    BY <1>5 DEF TakeJob, TakeSentinel, CheckJob, SimulateSucceeds, SimulateFails,
                PickSubstitute, Requeue, Give, GiveNothing, stateVars
  <2> QED
    BY <1>1, <2>1 DEF Live
<1> QED
  BY <1>2, <1>3, <1>4, <1>5 DEF Pool

(* What is left of a payload after a thread's step: the thread's own part    *)
(* and the queues'.                                                          *)
LEMMA PoolSiblings ==
  ASSUME TypeOK, JobsOK, SiblingsAreConserved, NEW w \in Workers, Pool(w)
  PROVE  SiblingsAreConserved'
<1> SUFFICES ASSUME NEW s \in States, Live(s)'
             PROVE  collected'[s] + JobsOf(s, retryQ') + JobsOf(s, freshQ')
                      + Cardinality(Busy(s)') = nTarget
  BY OthersRest DEF SiblingsAreConserved, Live, JobsOf
<1> DEFINE mine == wjob[w].state = s
           before == wpc[w] \in Working /\ wjob[w].state = s
           after  == wpc'[w] \in Working /\ wjob'[w].state = s
<1>1. Live(s)
  BY LiveBefore
<1>2. collected[s] + JobsOf(s, retryQ) + JobsOf(s, freshQ) + Cardinality(Busy(s)) = nTarget
  BY <1>1 DEF SiblingsAreConserved, Live
<1>3. /\ collected[s] \in Nat /\ JobsOf(s, retryQ) \in Nat /\ JobsOf(s, freshQ) \in Nat
      /\ Cardinality(Busy(s)) \in Nat
  BY JobsOfPlaces, BusyFinite DEF TypeOK
<1>4. Cardinality(Busy(s)') + One(before) = Cardinality(Busy(s)) + One(after)
  BY OthersRest, BusyMoves
<1>5. Cardinality(Busy(s)') \in Nat
  BY WorkerAssumption, FS_Subset, FS_CardinalityType DEF Busy
<1>6. SUFFICES collected'[s] + JobsOf(s, retryQ') + JobsOf(s, freshQ') + One(after)
                 = collected[s] + JobsOf(s, retryQ) + JobsOf(s, freshQ) + One(before)
               /\ collected'[s] \in Nat /\ JobsOf(s, retryQ') \in Nat /\ JobsOf(s, freshQ') \in Nat
  <2>1. One(before) \in Nat /\ One(after) \in Nat
    BY DEF One
  <2> HIDE DEF before, after
  <2> QED
    BY <1>2, <1>3, <1>4, <1>5, <2>1
<1>7. CASE TakeJob(w)
  <2>1. ~before /\ wpc'[w] = "check" /\ collected' = collected
    BY <1>7 DEF TakeJob, Working, Goto, stateVars, TypeOK
  <2>2. after <=> wjob'[w].state = s
    BY <2>1 DEF Working
  <2>3. CASE /\ retryQ # <<>> /\ wjob'[w] = Head(retryQ) /\ retryQ' = Tail(retryQ)
             /\ freshQ' = freshQ
    <3>1. retryQ \in Seq(Job) /\ Tail(retryQ) \in Seq(Job)
      BY <2>3, Get DEF TypeOK
    <3>2. /\ JobsOf(s, retryQ) = JobsOf(s, Tail(retryQ)) + One(Head(retryQ).state = s)
          /\ JobsOf(s, Tail(retryQ)) \in Nat
      BY <2>3, <3>1, JobsOfGet, JobsOfPlaces
    <3>3. One(after) = One(Head(retryQ).state = s) /\ One(before) = 0 /\ One(after) \in Nat
      BY <2>3, <2>1, <2>2 DEF One
    <3> HIDE DEF after, before
    <3> QED
      BY <1>3, <2>1, <2>3, <3>2, <3>3
  <2>4. CASE /\ freshQ # <<>> /\ wjob'[w] = Head(freshQ) /\ freshQ' = Tail(freshQ)
             /\ retryQ' = retryQ
    <3>1. freshQ \in Seq(Job) /\ Tail(freshQ) \in Seq(Job)
      BY <2>4, Get DEF TypeOK
    <3>2. /\ JobsOf(s, freshQ) = JobsOf(s, Tail(freshQ)) + One(Head(freshQ).state = s)
          /\ JobsOf(s, Tail(freshQ)) \in Nat
      BY <2>4, <3>1, JobsOfGet, JobsOfPlaces
    <3>3. One(after) = One(Head(freshQ).state = s) /\ One(before) = 0 /\ One(after) \in Nat
      BY <2>4, <2>1, <2>2 DEF One
    <3> HIDE DEF after, before
    <3> QED
      BY <1>3, <2>1, <2>4, <3>2, <3>3
  <2> QED
    BY <1>7, <2>3, <2>4 DEF TakeJob, TypeOK
<1>8. CASE Collect(w)
  <2>1. before <=> mine
    BY <1>8 DEF Collect, Working
  <2>2. UNCHANGED <<retryQ, freshQ, failed>> /\ ~after
    BY <1>8 DEF Collect, Working, Goto, Finish, queueVars, TypeOK
  <2>3. CASE mine
    <3>1. collected'[s] = collected[s] + 1
      BY <1>1, <1>8, <2>3 DEF Collect, Live, TypeOK
    <3> QED
      BY <1>3, <2>1, <2>2, <2>3, <3>1 DEF One
  <2>4. CASE ~mine
    <3>1. collected'[s] = collected[s]
      BY <1>8, <2>4 DEF Collect, TypeOK
    <3> QED
      BY <1>3, <2>1, <2>2, <2>4, <3>1 DEF One
  <2> QED
    BY <2>3, <2>4
<1>9. CASE RetryOrDrop(w)
  <2> DEFINE z == wjob[w].state
             j == [state |-> z, first |-> FALSE, fallback |-> FALSE]
  <2>1. (before <=> mine) /\ z \in States /\ j \in Job
    BY <1>9 DEF RetryOrDrop, Working, JobsOK, HasJob, Job
  <2>2. UNCHANGED <<collected, freshQ>> /\ ~after
    BY <1>9 DEF RetryOrDrop, Working, Goto, Finish, TypeOK
  <2>3. mine => retryQ' = Append(retryQ, j)
    BY <1>1, <1>9, <2>1 DEF RetryOrDrop, Retry, Live, TypeOK
  <2>4. ~mine => retryQ' = retryQ \/ retryQ' = Append(retryQ, j)
    BY <1>9 DEF RetryOrDrop, Retry
  <2> DEFINE k == One(mine)
  <2>5. JobsOf(s, Append(retryQ, j)) = JobsOf(s, retryQ) + k
    BY <2>1, JobsOfPut DEF TypeOK
  <2>6. One(before) = k /\ One(after) = 0 /\ k \in Nat /\ (~mine => k = 0)
    BY <2>1, <2>2 DEF One
  <2>7. mine => JobsOf(s, retryQ') = JobsOf(s, retryQ) + k
    BY <2>3, <2>5
  <2>8. ~mine => JobsOf(s, retryQ') = JobsOf(s, retryQ) + k
    <3> HIDE DEF k, j
    <3> SUFFICES ASSUME ~mine PROVE JobsOf(s, retryQ') = JobsOf(s, retryQ) + 0
      BY <2>6
    <3>1. CASE retryQ' = retryQ
      BY <3>1, <1>3
    <3>2. CASE retryQ' = Append(retryQ, j)
      BY <3>2, <2>5, <2>6
    <3> QED
      BY <3>1, <3>2, <2>4
  <2> HIDE DEF k, mine, before, after
  <2> QED
    BY <1>3, <2>2, <2>6, <2>7, <2>8
<1>10. CASE Requeue(w)
  <2> DEFINE z == wjob[w].state
             j == [state |-> z, first |-> TRUE, fallback |-> TRUE]
  <2>1. z \in revived /\ j \in Job
    BY <1>10 DEF Requeue, JobsOK, HasJob, Job
  <2>2. /\ UNCHANGED <<collected, freshQ>> /\ ~after /\ ~before
        /\ retryQ' = Append(retryQ, j)
    BY <1>10 DEF Requeue, Working, Goto, Finish, TypeOK
  <2>3. ~mine
    BY <1>1, <2>1 DEF Live
  <2>4. JobsOf(s, Append(retryQ, j)) = JobsOf(s, retryQ) + One(mine)
    BY <2>1, JobsOfPut DEF TypeOK
  <2> QED
    BY <1>3, <2>2, <2>3, <2>4 DEF One
<1>11. CASE \/ TakeSentinel(w) \/ SimulateSucceeds(w) \/ SimulateFails(w) \/ PickSubstitute(w)
            \/ ClearFailed(w) \/ ClearResolved(w) \/ Give(w) \/ GiveNothing(w)
  <2>1. UNCHANGED <<collected, retryQ, freshQ>>
    BY <1>11 DEF TakeSentinel, SimulateSucceeds, SimulateFails, PickSubstitute, ClearFailed,
                 ClearResolved, Give, GiveNothing, stateVars, queueVars
  <2>2. before <=> after
    BY <1>11 DEF TakeSentinel, SimulateSucceeds, SimulateFails, PickSubstitute, ClearFailed,
                 ClearResolved, Give, GiveNothing, Working, Goto, Finish, TypeOK
  <2> QED
    BY <1>3, <2>1, <2>2 DEF One
<1>12. CASE CheckJob(w)
  <2>1. UNCHANGED <<collected, retryQ, freshQ>>
    BY <1>12 DEF CheckJob, stateVars, queueVars
  <2>2. before <=> after
    BY <1>1, <1>12 DEF CheckJob, Working, Goto, Finish, Live, TypeOK
  <2> QED
    BY <1>3, <2>1, <2>2 DEF One
<1> QED
  BY <1>7, <1>8, <1>9, <1>10, <1>11, <1>12 DEF Pool

LEMMA SubmitSiblings ==
  ASSUME TypeOK, JobsOK, FutureInv, SiblingsAreConserved,
         NEW p \in Prompts, NEW s \in States, Submit(p, s)
  PROVE  SiblingsAreConserved'
<1>1. /\ closing = "open" /\ prompt[s] = None /\ nTarget \in Nat
      /\ UNCHANGED <<nTarget, closing, failed, resolved, revived, collected, retryQ, wpc, wjob>>
      /\ \A z \in States : z # s => prompt'[z] = prompt[z]
      /\ freshQ' = freshQ \o FreshJobs(s)
  BY WorkerAssumption DEF Submit, poolVars, FreshJobs, TypeOK
<1>2. \A z : Busy(z)' = Busy(z)
  BY <1>1 DEF Busy
<1> SUFFICES ASSUME NEW z \in States, Live(z)'
             PROVE  collected[z] + JobsOf(z, retryQ) + JobsOf(z, freshQ')
                      + Cardinality(Busy(z)) = nTarget
  BY <1>1, <1>2 DEF SiblingsAreConserved, Live, JobsOf
<1>3. JobsOf(z, freshQ') = JobsOf(z, freshQ) + (IF s = z THEN nTarget ELSE 0)
  BY <1>1, JobsOfDispatch DEF TypeOK
<1>4. /\ collected[z] \in Nat /\ JobsOf(z, retryQ) \in Nat /\ JobsOf(z, freshQ) \in Nat
      /\ Cardinality(Busy(z)) \in Nat
  BY JobsOfPlaces, BusyFinite DEF TypeOK
<1>5. CASE z = s
  <2>1. Places(s, retryQ) = {} /\ Places(s, freshQ) = {}
    BY <1>1 DEF Places, JobsOK, Submitted
  <2>2. JobsOf(s, retryQ) = 0 /\ JobsOf(s, freshQ) = 0
    BY <2>1, JobsOfPlaces, FS_EmptySet DEF TypeOK
  <2>3. Busy(s) = {}
    BY <1>1 DEF Busy, JobsOK, HasJob
  <2>4. Cardinality(Busy(s)) = 0 /\ collected[s] = 0
    BY <1>1, <2>3, FS_EmptySet DEF JobsOK
  <2> QED
    BY <1>1, <1>3, <1>5, <2>2, <2>4
<1>6. CASE z # s
  <2>1. Live(z)
    BY <1>1, <1>6 DEF Live
  <2>2. collected[z] + JobsOf(z, retryQ) + JobsOf(z, freshQ) + Cardinality(Busy(z)) = nTarget
    BY <2>1 DEF SiblingsAreConserved, Live
  <2> QED
    BY <1>3, <1>4, <1>6, <2>2
<1> QED
  BY <1>5, <1>6

LEMMA ShutdownSiblings ==
  ASSUME Shutdown PROVE SiblingsAreConserved'
<1>1. closing' # "open"
  BY DEF Shutdown, CloseIndex, DrainQueue, Dismiss, ResolveOrphans
<1> QED
  BY <1>1 DEF SiblingsAreConserved

-----------------------------------------------------------------------------
(* The invariant                                                             *)

LEMMA WorkerStep == WorkerInv /\ [Next]_vars => WorkerInv'
<1> SUFFICES ASSUME WorkerInv, [Next]_vars PROVE WorkerInv'
  OBVIOUS
<1>0. /\ TypeOK /\ JobsOK /\ FutureInv /\ SiblingsAreConserved /\ IndexIsExact
      /\ (TypeOK' /\ JobsOK' /\ FutureInv' /\ SiblingsAreConserved' /\ IndexIsExact' => WorkerInv')
  BY DEF WorkerInv, FutureInv, PayloadsAreTracked
<1>1. ASSUME NEW p \in Prompts, NEW s \in States, Submit(p, s) PROVE WorkerInv'
  BY <1>0, <1>1, SubmitTypes, SubmitJobs, SubmitFuture, SubmitSiblings, SubmitIndex
<1>2. ASSUME NEW w \in Workers, Pool(w) PROVE WorkerInv'
  BY <1>0, <1>2, PoolTypes, PoolJobs, PoolFuture, PoolSiblings, PoolIndex
<1>3. CASE Shutdown
  BY <1>0, <1>3, ShutdownTypes, ShutdownJobs, ShutdownFuture, ShutdownSiblings, ShutdownIndex
<1>4. CASE UNCHANGED vars
  <2>1. TypeOK'
    BY <1>0, <1>4 DEF TypeOK, vars, stateVars, queueVars, poolVars, sceneVars
  <2>2. JobsOK'
    BY <1>0, <1>4 DEF JobsOK, HasJob, Submitted, vars, stateVars, queueVars, poolVars
  <2>3. FutureInv'
    BY <1>0, <1>4 DEF FutureInv, HeldOK, ResolvedOnce, vars, stateVars, poolVars
  <2>4. SiblingsAreConserved'
    BY <1>0, <1>4 DEF SiblingsAreConserved, JobsOf, Busy, vars, stateVars, queueVars, poolVars
  <2>5. IndexIsExact'
    BY <1>0, <1>4 DEF IndexIsExact, vars, stateVars
  <2> QED
    BY <1>0, <2>1, <2>2, <2>3, <2>4, <2>5
<1> QED
  BY <1>1, <1>2, <1>3, <1>4 DEF Next

(* What every execution of the worker keeps, whatever fails and whenever it  *)
(* is shut down.                                                             *)
THEOREM WorkerInvariant == Spec => []WorkerInv
<1>1. Init => WorkerInv
  BY InitOK
<1>2. WorkerInv /\ [Next]_vars => WorkerInv'
  BY WorkerStep
<1> QED
  BY <1>1, <1>2, PTL DEF Spec

(* The variables keep their types.                                           *)
THEOREM WorkerTypes == Spec => []TypeOK
<1>1. WorkerInv => TypeOK
  BY DEF WorkerInv
<1> QED
  BY <1>1, WorkerInvariant, PTL

(* set_result is called at most once on the future of a payload, with all    *)
(* the episodes or with none, whichever of the threads, the substitute scene *)
(* and shutdown gets to resolve it.                                          *)
THEOREM FuturesAreResolvedOnce == Spec => []ResolvedOnce
<1>1. WorkerInv => ResolvedOnce
  BY DEF WorkerInv
<1> QED
  BY <1>1, WorkerInvariant, PTL

(* No sibling of a live payload is lost between the queues and the threads,  *)
(* and _active_payload_states names exactly the live payloads.               *)
THEOREM PayloadsStayTracked == Spec => []PayloadsAreTracked
<1>1. WorkerInv => PayloadsAreTracked
  BY DEF WorkerInv
<1> QED
  BY <1>1, WorkerInvariant, PTL
=============================================================================
