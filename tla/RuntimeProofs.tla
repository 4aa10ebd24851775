----------------------------- MODULE RuntimeProofs -----------------------------
(***************************************************************************)
(* What TLAPS proves of Runtime, for every set of jobs, every number of    *)
(* slots and any number of claims: no slot is leaked or given twice, a job *)
(* is renewed until its outcome is decided or the control plane rejects    *)
(* it, a rejection stops the run whichever way it races the worker, and    *)
(* Run drains its workers before it returns.                               *)
(*                                                                         *)
(* None of these is inductive: they rest on which claims exist (ClaimInv), *)
(* on what active, rejected and an outstanding heartbeat may name (JobInv) *)
(* and on what the claim loop may still do once Run drains (DrainInv).     *)
(***************************************************************************)
EXTENDS Runtime, FiniteSetTheorems, TLAPS

TypeInv ==
  /\ cancelled \in BOOLEAN
  /\ run \in {"claiming", "draining", "drained", "returned"}
  /\ claimLoop \in {"top", "acquire", "claim", "backoff", "spawn", "returned"}
  /\ sem \in Nat /\ claims \in 0..MaxClaims
  /\ job \in [Claim -> Job \cup {NoJob}]
  /\ active \in [Job -> Claim \cup {NoClaim}] /\ rejected \subseteq Job
  /\ worker \in [Claim -> {"none", "stored", "started", "registered", "running",
                           "ended", "complete", "leave", "removed", "done"}]
  /\ stopped \subseteq Claim
  /\ attempt \in [Claim -> Nat]
  /\ heartbeat \in {"wait", "sent", "answered", "returned"}
  /\ beating \subseteq Job
  /\ lease \in [Job -> {"queued", "leased", "ended"}]

(* The claims granted so far are the first ones, each for a job; the last  *)
(* one is about to get its worker exactly while the claim loop spawns it.  *)
ClaimInv ==
  /\ \A c \in Claim : IF c <= claims THEN worker[c] # "none" /\ job[c] \in Job
                      ELSE worker[c] = "none" /\ job[c] = NoJob
  /\ claimLoop = "spawn" => claims > 0 /\ worker[claims] = "stored"
  /\ \A c \in Claim : worker[c] = "stored" => claimLoop = "spawn" /\ c = claims

(* active names a claim of the job it is keyed by, and what is rejected or *)
(* was asked about in a heartbeat was claimed.                             *)
JobInv ==
  /\ \A j \in Job : active[j] # NoClaim => job[active[j]] = j
  /\ \A j \in beating \cup rejected : \E c \in Claim : job[c] = j

(* Run drains when the claim loop has returned, and without a grace period *)
(* it goes on only when every worker has.                                  *)
DrainInv ==
  /\ run # "claiming" => claimLoop = "returned"
  /\ run \in {"drained", "returned"} /\ ~GracePeriod => Gone = Claim

RuntimeInv ==
  /\ TypeInv /\ ClaimInv /\ JobInv /\ DrainInv
  /\ SlotsAreAccounted /\ ActiveUntilDecided /\ RejectionStopsRun

-----------------------------------------------------------------------------
(* The variables' types.                                                   *)

(* A runner that starts has claimed nothing.                               *)
LEMMA InitInv == Init => TypeInv /\ ClaimInv /\ JobInv /\ DrainInv
<1> SUFFICES ASSUME Init PROVE TypeInv /\ ClaimInv /\ JobInv /\ DrainInv  OBVIOUS
<1> USE ClaimAssumption DEF Init
<1>1. TypeInv
  <2>1. /\ job \in [Claim -> Job \cup {NoJob}]
        /\ active \in [Job -> Claim \cup {NoClaim}]
    OBVIOUS
  <2>2. attempt \in [Claim -> Nat] /\ claims \in 0..MaxClaims
    OBVIOUS
  <2>3. lease \in [Job -> {"queued", "leased", "ended"}]
    OBVIOUS
  <2> QED BY <2>1, <2>2, <2>3 DEF TypeInv
<1>2. ClaimInv  BY DEF ClaimInv, Claim
<1>3. JobInv /\ DrainInv  BY DEF JobInv, DrainInv
<1> QED BY <1>1, <1>2, <1>3

(* Every step of the loops, the workers and the control plane keeps them.  *)
LEMMA TypeStep ==
  ASSUME TypeInv, ClaimInv, [Next]_vars
  PROVE  TypeInv'
<1> USE ClaimAssumption DEF TypeInv, loopVars, jobVars, workerVars, beatVars
<1>1. CASE ClaimLoop
  <2>1. CASE ClaimLoopTop \/ acquireSlot \/ waitAfterUnclaimedPoll
    BY <2>1 DEF ClaimLoopTop, acquireSlot, waitAfterUnclaimedPoll
  <2>2. ASSUME NEW j \in Job, ClaimNextGranted(j) PROVE TypeInv'
    <3>1. claims' \in Claim /\ claims' \in 0..MaxClaims
      BY <2>2 DEF ClaimNextGranted, Claim
    <3> QED BY <2>2, <3>1 DEF ClaimNextGranted, storeActiveJob
  <2>3. CASE ClaimNextFailed
    BY <2>3 DEF ClaimNextFailed, releaseSlot
  <2>4. CASE StartWorker
    BY <2>4 DEF StartWorker
  <2> QED BY <1>1, <2>1, <2>2, <2>3, <2>4 DEF ClaimLoop
<1>2. ASSUME NEW c \in Claim, Worker(c) PROVE TypeInv'
  <2> USE DEF WorkerAt
  <2>1. CASE RegisterCancel(c) \/ RunEnds(c) \/ DecideCompletion(c)
    BY <2>1 DEF RegisterCancel, RunEnds, DecideCompletion
  <2>2. CASE CancelIfRejected(c)
    BY <2>2 DEF CancelIfRejected
  <2>3. CASE CompleteAnswered(c) \/ CompleteFailed(c)
    BY <2>3 DEF CompleteAnswered, CompleteFailed
  <2>4. CASE removeActiveJob(c)
    BY <2>4 DEF removeActiveJob
  <2>5. CASE WorkerReturns(c)
    BY <2>5 DEF WorkerReturns, releaseSlot
  <2> QED BY <1>2, <2>1, <2>2, <2>3, <2>4, <2>5 DEF Worker
<1>3. CASE Heartbeat
  <2>1. CASE \/ HeartbeatStops \/ HeartbeatSent \/ HeartbeatAnswered
             \/ HeartbeatFailed \/ HeartbeatApplied
    BY <2>1 DEF HeartbeatStops, HeartbeatSent, HeartbeatAnswered, HeartbeatFailed,
                HeartbeatApplied, activeJobIDs
  <2>2. ASSUME NEW j \in Job, markJobRejected(j) PROVE TypeInv'
    BY <2>2 DEF markJobRejected
  <2> QED BY <1>3, <2>1, <2>2 DEF Heartbeat
<1>4. CASE Cancel \/ Main
  BY <1>4 DEF Cancel, Main, ClaimLoopReturned, waitForWorkers, RunReturns
<1>5. ASSUME NEW j \in Job, LeaseEnds(j) PROVE TypeInv'
  BY <1>5 DEF LeaseEnds
<1>6. CASE UNCHANGED vars
  BY <1>6 DEF vars
<1> QED BY <1>1, <1>2, <1>3, <1>4, <1>5, <1>6 DEF Next, Exited

-----------------------------------------------------------------------------
(* Which claims there are.                                                 *)

(* ClaimNext takes the next claim, and StartWorker hands over the last one. *)
LEMMA ClaimStep ==
  ASSUME TypeInv, ClaimInv, [Next]_vars
  PROVE  ClaimInv'
<1> USE ClaimAssumption DEF TypeInv, ClaimInv, loopVars, jobVars, workerVars, beatVars
<1>1. CASE ClaimLoop
  <2>1. CASE ClaimLoopTop \/ acquireSlot \/ waitAfterUnclaimedPoll \/ ClaimNextFailed
    BY <2>1 DEF ClaimLoopTop, acquireSlot, waitAfterUnclaimedPoll, ClaimNextFailed
  <2>2. ASSUME NEW j \in Job, ClaimNextGranted(j) PROVE ClaimInv'
    <3>1. claims' \in Claim /\ claims' = claims + 1
      BY <2>2 DEF ClaimNextGranted, Claim
    <3>2. \A c \in Claim : c # claims' => worker'[c] = worker[c] /\ job'[c] = job[c]
      BY <2>2 DEF ClaimNextGranted
    <3>3. worker'[claims'] = "stored" /\ job'[claims'] = j
      BY <2>2, <3>1 DEF ClaimNextGranted
    <3>4. claimLoop = "claim" /\ claimLoop' = "spawn"
      BY <2>2 DEF ClaimNextGranted
    <3>5. \A c \in Claim : c <= claims' <=> c <= claims \/ c = claims'
      BY <3>1 DEF Claim
    <3>6. \A c \in Claim : worker[c] # "stored"
      BY <3>4
    <3>7. ~(claims' <= claims)
      BY <3>1
    <3> QED BY <3>1, <3>2, <3>3, <3>4, <3>5, <3>6, <3>7
  <2>3. CASE StartWorker
    BY <2>3 DEF StartWorker, Claim
  <2> QED BY <1>1, <2>1, <2>2, <2>3 DEF ClaimLoop
<1>2. ASSUME NEW c \in Claim, Worker(c) PROVE ClaimInv'
  <2>1. /\ worker[c] \notin {"none", "stored", "done"}
        /\ \E to \in {"registered", "running", "ended", "complete", "leave",
                      "removed", "done"} : worker' = [worker EXCEPT ![c] = to]
        /\ UNCHANGED <<claims, job, claimLoop>>
    BY <1>2 DEF Worker, WorkerAt, RegisterCancel, CancelIfRejected, RunEnds,
                DecideCompletion, CompleteAnswered, CompleteFailed, removeActiveJob,
                WorkerReturns
  <2> QED BY <2>1
<1>3. CASE Heartbeat \/ Cancel \/ Main \/ \E j \in Job : LeaseEnds(j)
  BY <1>3 DEF Heartbeat, HeartbeatStops, HeartbeatSent, HeartbeatAnswered,
              HeartbeatFailed, HeartbeatApplied, markJobRejected, Cancel, Main,
              ClaimLoopReturned, waitForWorkers, RunReturns, LeaseEnds
<1>4. CASE UNCHANGED vars
  BY <1>4 DEF vars
<1> QED BY <1>1, <1>2, <1>3, <1>4 DEF Next, Exited

(* active, rejected and an outstanding heartbeat name claimed jobs.        *)
LEMMA JobStep ==
  ASSUME TypeInv, ClaimInv, JobInv, [Next]_vars
  PROVE  JobInv'
<1> USE ClaimAssumption DEF JobInv, loopVars, jobVars, workerVars, beatVars
<1>1. ASSUME NEW j \in Job, ClaimNextGranted(j) PROVE JobInv'
  <2>1. claims' \in Claim /\ claims' \notin {NoClaim} /\ job[claims'] = NoJob
    BY <1>1 DEF ClaimNextGranted, Claim, TypeInv, ClaimInv, NoClaim
  <2>2. /\ job' = [job EXCEPT ![claims'] = j]
        /\ active' = [active EXCEPT ![j] = claims'] /\ UNCHANGED <<beating, rejected>>
    BY <1>1 DEF ClaimNextGranted, storeActiveJob
  <2>3. \A k \in Job : active'[k] # NoClaim => job'[active'[k]] = k
    BY <2>1, <2>2, JobAssumption DEF TypeInv
  <2>4. \A c \in Claim : job[c] \in Job => job'[c] = job[c]
    BY <2>1, <2>2, JobAssumption DEF TypeInv
  <2> QED BY <2>2, <2>3, <2>4 DEF TypeInv
<1>2. CASE UNCHANGED <<job, active, rejected, beating>>
  BY <1>2
<1>3. ASSUME NEW c \in Claim, removeActiveJob(c) PROVE JobInv'
  BY <1>3 DEF removeActiveJob, TypeInv
<1>4. CASE HeartbeatSent
  <2>1. \A j \in activeJobIDs : active[j] \in Claim /\ job[active[j]] = j
    BY DEF activeJobIDs, TypeInv
  <2> QED BY <1>4, <2>1 DEF HeartbeatSent
<1>5. CASE HeartbeatAnswered \/ HeartbeatFailed
  BY <1>5 DEF HeartbeatAnswered, HeartbeatFailed
<1>6. ASSUME NEW j \in Job, markJobRejected(j) PROVE JobInv'
  BY <1>6 DEF markJobRejected, TypeInv
<1> QED
  BY <1>1, <1>2, <1>3, <1>4, <1>5, <1>6
     DEF Next, Exited, vars, ClaimLoop, ClaimLoopTop, acquireSlot, ClaimNextFailed,
         waitAfterUnclaimedPoll, StartWorker, Worker, RegisterCancel,
         CancelIfRejected, RunEnds, DecideCompletion, CompleteAnswered,
         CompleteFailed, WorkerReturns, Heartbeat, HeartbeatStops, HeartbeatApplied,
         Cancel, Main, ClaimLoopReturned, waitForWorkers, RunReturns, LeaseEnds

-----------------------------------------------------------------------------
(* The slots.                                                              *)

(* The workers that have not returned are finitely many, and one that      *)
(* starts or returns changes their number by one.                          *)
LEMMA BusyCounts ==
  ASSUME NEW B \in SUBSET Claim
  PROVE  /\ Cardinality(B) \in Nat
         /\ \A c \in Claim \ B : Cardinality(B \cup {c}) = Cardinality(B) + 1
         /\ \A c \in B : /\ Cardinality(B \ {c}) = Cardinality(B) - 1
                         /\ Cardinality(B) > 0
<1>1. IsFiniteSet(Claim)
  BY ClaimAssumption, FS_Interval DEF Claim
<1>2. IsFiniteSet(B)
  BY <1>1, FS_Subset
<1>3. Cardinality(B) \in Nat /\ (Cardinality(B) = 0 => B = {})
  BY <1>2, FS_CardinalityType, FS_EmptySet
<1>4. \A c \in Claim \ B : Cardinality(B \cup {c}) = Cardinality(B) + 1
  BY <1>2, FS_AddElement
<1>5. \A c \in B : Cardinality(B \ {c}) = Cardinality(B) - 1
  BY <1>2, FS_RemoveElement
<1> QED BY <1>3, <1>4, <1>5

(* A slot is taken before the claim and given back once, by the failed     *)
(* claim or by the worker that ends.                                       *)
LEMMA SlotStep ==
  ASSUME TypeInv, ClaimInv, SlotsAreAccounted, [Next]_vars
  PROVE  SlotsAreAccounted'
<1> DEFINE Busy == Claim \ Gone
<1>a. sem \in Nat /\ MaxParallelFlows \in Nat
  BY SlotAssumption DEF TypeInv
<1>b. Cardinality(Busy) \in Nat
  BY BusyCounts DEF Gone
<1> USE DEF SlotsAreAccounted
<1>1. CASE ClaimLoopTop \/ acquireSlot \/ waitAfterUnclaimedPoll
  <2>1. Busy' = Busy
    BY <1>1 DEF ClaimLoopTop, acquireSlot, waitAfterUnclaimedPoll, Gone, workerVars
  <2> QED BY <1>1, <1>a, <1>b, <2>1 DEF ClaimLoopTop, acquireSlot, waitAfterUnclaimedPoll
<1>2. ASSUME NEW j \in Job, ClaimNextGranted(j) PROVE SlotsAreAccounted'
  <2>1. claims' \in Claim /\ worker[claims'] = "none"
    BY <1>2, ClaimAssumption DEF ClaimNextGranted, ClaimInv, TypeInv, Claim
  <2>2. claims' \in Claim \ Busy /\ Busy' = Busy \cup {claims'}
    BY <1>2, <2>1 DEF ClaimNextGranted, Gone, TypeInv
  <2>3. Cardinality(Busy') = Cardinality(Busy) + 1
    BY <2>2, BusyCounts DEF Gone
  <2> QED BY <1>2, <1>a, <1>b, <2>3 DEF ClaimNextGranted
<1>3. CASE ClaimNextFailed
  <2>1. Busy' = Busy
    BY <1>3 DEF ClaimNextFailed, Gone, workerVars
  <2>2. claimLoop = "claim" /\ claimLoop' = "backoff" /\ releaseSlot
    BY <1>3 DEF ClaimNextFailed
  <2>3. sem = Cardinality(Busy) + 1
    BY <2>2
  <2>4. sem' = Cardinality(Busy) /\ sem' <= MaxParallelFlows
    BY <1>a, <1>b, <2>2, <2>3 DEF releaseSlot
  <2> QED BY <1>b, <2>1, <2>2, <2>4
<1>4. CASE StartWorker
  <2>1. Busy' = Busy
    BY <1>4 DEF StartWorker, Gone, ClaimInv, TypeInv
  <2> QED BY <1>4, <1>a, <1>b, <2>1 DEF StartWorker
<1>5. ASSUME NEW c \in Claim, Worker(c), ~WorkerReturns(c) PROVE SlotsAreAccounted'
  <2>1. /\ worker[c] \notin {"none", "done"}
        /\ \E to \in {"registered", "running", "ended", "complete", "leave", "removed"} :
             worker' = [worker EXCEPT ![c] = to]
        /\ UNCHANGED <<claimLoop, sem>>
    BY <1>5 DEF Worker, WorkerAt, RegisterCancel, CancelIfRejected, RunEnds,
                DecideCompletion, CompleteAnswered, CompleteFailed, removeActiveJob,
                loopVars
  <2>2. Busy' = Busy
    BY <2>1 DEF Gone, TypeInv
  <2> QED BY <2>1, <2>2
<1>6. ASSUME NEW c \in Claim, WorkerReturns(c) PROVE SlotsAreAccounted'
  <2>1. c \in Busy /\ Busy' = Busy \ {c}
    BY <1>6 DEF WorkerReturns, WorkerAt, Gone, TypeInv
  <2>2. Cardinality(Busy') = Cardinality(Busy) - 1 /\ Cardinality(Busy) > 0
    BY <2>1, BusyCounts DEF Gone
  <2> QED BY <1>6, <1>a, <1>b, <2>2 DEF WorkerReturns, releaseSlot
<1>7. CASE UNCHANGED <<worker, claimLoop, sem>>
  BY <1>7 DEF Gone
<1> QED
  BY <1>1, <1>2, <1>3, <1>4, <1>5, <1>6, <1>7
     DEF Next, Exited, vars, ClaimLoop, Heartbeat, HeartbeatStops, HeartbeatSent,
         HeartbeatAnswered, HeartbeatFailed, HeartbeatApplied, markJobRejected,
         Cancel, Main, ClaimLoopReturned, waitForWorkers, RunReturns, LeaseEnds,
         loopVars, workerVars

-----------------------------------------------------------------------------
(* Run drains its workers.                                                 *)

(* Run leaves waitForWorkers when every worker has given up its slot.      *)
LEMMA DrainStep ==
  ASSUME TypeInv, ClaimInv, DrainInv, [Next]_vars
  PROVE  DrainInv'
<1> USE DEF DrainInv, loopVars, workerVars
<1>1. CASE ClaimLoop
  <2>1. claimLoop # "returned" /\ run' = run
    BY <1>1 DEF ClaimLoop, ClaimLoopTop, acquireSlot, ClaimNextGranted,
                ClaimNextFailed, waitAfterUnclaimedPoll, StartWorker
  <2> QED BY <2>1 DEF TypeInv
<1>2. ASSUME NEW c \in Claim, Worker(c) PROVE DrainInv'
  <2>1. worker[c] \notin {"none", "done"} /\ UNCHANGED <<run, claimLoop>>
    BY <1>2 DEF Worker, WorkerAt, RegisterCancel, CancelIfRejected, RunEnds,
                DecideCompletion, CompleteAnswered, CompleteFailed, removeActiveJob,
                WorkerReturns
  <2>2. Gone # Claim
    BY <2>1 DEF Gone
  <2> QED BY <2>1, <2>2
<1>3. CASE Main
  BY <1>3 DEF Main, ClaimLoopReturned, waitForWorkers, RunReturns, Gone
<1>4. CASE UNCHANGED <<run, claimLoop, worker>>
  BY <1>4 DEF Gone
<1> QED
  BY <1>1, <1>2, <1>3, <1>4
     DEF Next, Exited, vars, Heartbeat, HeartbeatStops, HeartbeatSent,
         HeartbeatAnswered, HeartbeatFailed, HeartbeatApplied, markJobRejected,
         Cancel, LeaseEnds

-----------------------------------------------------------------------------
(* Leases and rejections.                                                  *)

RenewalInv == ActiveUntilDecided /\ RejectionStopsRun

(* Steps that leave alone everything the two properties read.              *)
LEMMA RenewalUntouched ==
  ASSUME RenewalInv, UNCHANGED <<job, active, rejected, worker, stopped>>
  PROVE  RenewalInv'
BY DEF RenewalInv, ActiveUntilDecided, RejectionStopsRun, Unfinished, OnlyClaim

(* A claimed job stays active until its completion is decided, and a       *)
(* rejected one has its run stopped.                                       *)
LEMMA RenewalStep ==
  ASSUME TypeInv, ClaimInv, JobInv, RenewalInv, [Next]_vars
  PROVE  RenewalInv'
<1> USE ClaimAssumption DEF loopVars, jobVars, workerVars, beatVars
<1> USE DEF RenewalInv, ActiveUntilDecided, RejectionStopsRun, Unfinished, OnlyClaim
<1>1. ASSUME NEW j \in Job, ClaimNextGranted(j) PROVE RenewalInv'
  <2> DEFINE c == claims'
  <2>1. c \in Claim /\ job[c] = NoJob /\ worker[c] = "none"
    BY <1>1 DEF ClaimNextGranted, Claim, TypeInv, ClaimInv
  <2>2. /\ job' = [job EXCEPT ![c] = j] /\ worker' = [worker EXCEPT ![c] = "stored"]
        /\ active' = [active EXCEPT ![j] = c] /\ UNCHANGED <<rejected, stopped>>
    BY <1>1 DEF ClaimNextGranted, storeActiveJob
  <2>3. ASSUME NEW d \in Unfinished', OnlyClaim(d)'
        PROVE  /\ job'[d] \notin rejected' => active'[job'[d]] = d
               /\ job'[d] \in rejected' =>
                    /\ active'[job'[d]] = NoClaim
                    /\ worker'[d] \in {"running", "ended"} => d \in stopped'
    <3>1. CASE d = c
      <4>1. \A e \in Claim : job[e] # j
        BY <2>1, <2>2, <2>3, <3>1, JobAssumption DEF TypeInv
      <4>2. j \notin rejected
        BY <4>1 DEF JobInv
      <4> QED BY <2>1, <2>2, <3>1, <4>2 DEF TypeInv
    <3>2. CASE d # c
      <4>1. d \in Unfinished /\ job'[d] = job[d] /\ worker'[d] = worker[d]
        BY <2>1, <2>2, <2>3, <3>2 DEF TypeInv
      <4>2. job[d] # j /\ job[d] \in Job
        BY <2>1, <2>2, <2>3, <3>2, <4>1 DEF TypeInv, ClaimInv
      <4>3. OnlyClaim(d)
        BY <2>1, <2>2, <2>3, <3>2, <4>1, <4>2, JobAssumption DEF TypeInv
      <4>4. active'[job[d]] = active[job[d]]
        BY <2>2, <4>2 DEF TypeInv
      <4> QED BY <2>2, <4>1, <4>3, <4>4
    <3> QED BY <3>1, <3>2
  <2> QED BY <2>3
<1>2. CASE StartWorker
  BY <1>2 DEF StartWorker, ClaimInv, TypeInv
<1>3. ASSUME NEW c \in Claim,
             RegisterCancel(c) \/ RunEnds(c) \/ DecideCompletion(c)
             \/ CompleteAnswered(c) \/ CompleteFailed(c) \/ WorkerReturns(c)
      PROVE  RenewalInv'
  BY <1>3 DEF RegisterCancel, RunEnds, DecideCompletion, CompleteAnswered,
              CompleteFailed, WorkerReturns, WorkerAt, TypeInv
<1>4. ASSUME NEW c \in Claim, CancelIfRejected(c) PROVE RenewalInv'
  BY <1>4 DEF CancelIfRejected, isRejected, WorkerAt, TypeInv
<1>5. ASSUME NEW c \in Claim, removeActiveJob(c) PROVE RenewalInv'
  BY <1>5 DEF removeActiveJob, WorkerAt, TypeInv
<1>6. ASSUME NEW j \in Job, markJobRejected(j) PROVE RenewalInv'
  BY <1>6 DEF markJobRejected, Registered, TypeInv
<1> QED
  BY <1>1, <1>2, <1>3, <1>4, <1>5, <1>6, RenewalUntouched
     DEF Next, Exited, vars, ClaimLoop, ClaimLoopTop, acquireSlot, ClaimNextFailed,
         waitAfterUnclaimedPoll, Worker, Heartbeat, HeartbeatStops, HeartbeatSent,
         HeartbeatAnswered, HeartbeatFailed, HeartbeatApplied, Cancel, Main,
         ClaimLoopReturned, waitForWorkers, RunReturns, LeaseEnds

-----------------------------------------------------------------------------
(* The invariant, and what it implies.                                     *)

(* RuntimeInv is inductive.                                                *)
THEOREM RuntimeCorrect == Spec => []RuntimeInv
<1>1. Init => RuntimeInv
  <2> SUFFICES ASSUME Init PROVE RuntimeInv  OBVIOUS
  <2>1. TypeInv /\ ClaimInv /\ JobInv /\ DrainInv
    BY InitInv
  <2>2. Claim \ Gone = {}
    BY DEF Init, Gone
  <2>3. SlotsAreAccounted
    BY <2>2, SlotAssumption, FS_EmptySet DEF Init, SlotsAreAccounted
  <2>4. ActiveUntilDecided /\ RejectionStopsRun
    BY DEF Init, ActiveUntilDecided, RejectionStopsRun, Unfinished
  <2> QED BY <2>1, <2>3, <2>4 DEF RuntimeInv
<1>2. RuntimeInv /\ [Next]_vars => RuntimeInv'
  BY TypeStep, ClaimStep, JobStep, DrainStep, SlotStep, RenewalStep
     DEF RuntimeInv, RenewalInv
<1> QED BY <1>1, <1>2, PTL DEF Spec

(* acquireSlot and releaseSlot: a slot taken belongs to a worker that has  *)
(* not returned or to the claim under way, for any number of slots.        *)
THEOREM SlotsSafe == Spec => []SlotsAreAccounted
<1>1. RuntimeInv => SlotsAreAccounted  BY DEF RuntimeInv
<1> QED BY <1>1, RuntimeCorrect, PTL

(* storeActiveJob and removeActiveJob: the heartbeat renews a job, unless  *)
(* it was rejected, until its outcome is decided.                          *)
THEOREM RenewedUntilDecided == Spec => []ActiveUntilDecided
<1>1. RuntimeInv => ActiveUntilDecided  BY DEF RuntimeInv
<1> QED BY <1>1, RuntimeCorrect, PTL

(* markJobRejected against cancelOnRejection: the run of a rejected job is *)
(* cancelled in whichever order the two meet.                              *)
THEOREM RejectionSafe == Spec => []RejectionStopsRun
<1>1. RuntimeInv => RejectionStopsRun  BY DEF RuntimeInv
<1> QED BY <1>1, RuntimeCorrect, PTL

(* waitForWorkers: without a grace period no worker outlives Run.          *)
THEOREM DrainsSafe == Spec => []DrainsBeforeReturning
<1>1. RuntimeInv => DrainsBeforeReturning
  BY DEF RuntimeInv, DrainInv, DrainsBeforeReturning
<1> QED BY <1>1, RuntimeCorrect, PTL
=============================================================================
