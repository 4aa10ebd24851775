-------------------------------- MODULE Runtime --------------------------------
(***************************************************************************)
(* The long-lived runner: internal/runtime/runtime.go and the client calls *)
(* it makes (internal/controlplane/client.go).                             *)
(*                                                                         *)
(* Run starts the heartbeat loop, runs the claim loop until its context is *)
(* cancelled, and waits for the workers.  The claim loop takes a slot,     *)
(* claims a job and starts a worker for it; the worker runs the flow and   *)
(* completes the job.  The heartbeat loop renews the leases of the active  *)
(* jobs and cancels the run of one the control plane rejects.              *)
(*                                                                         *)
(* Abstractions.  A claim is a number; what a run does is its end, which   *)
(* may come at any time.  Flushing and closing the event reporter is       *)
(* EventReporter's matter.  Failure counts only choose a log level.  The   *)
(* control plane is external: it leases queued jobs to this runner, may    *)
(* end a lease at any time, may then queue the job again, and does not     *)
(* know one claim of a job from another.                                   *)
(***************************************************************************)
EXTENDS Integers, FiniteSets

CONSTANTS Job,
          MaxParallelFlows,
          CompleteAttempts,   \* attempts Complete makes
          GracePeriod,        \* ShutdownGracePeriod > 0
          MaxClaims           \* bound: claims granted in one life

ASSUME SlotAssumption == MaxParallelFlows \in Nat \ {0}
ASSUME AttemptAssumption == CompleteAttempts \in Nat \ {0}
ASSUME ClaimAssumption == MaxClaims \in Nat
ASSUME ModeAssumption == GracePeriod \in BOOLEAN

Claim == 1..MaxClaims
NoClaim == 0
NoJob == ""

ASSUME JobAssumption == NoJob \notin Job

VARIABLES
  cancelled,   \* the context of Run is done
  run,         \* where Run is
  claimLoop,   \* where runClaimLoop is
  sem,         \* tokens in the slot channel
  claims,      \* claims granted so far
  job,         \* the job of each claim
  active,      \* active: the claim registered for a job, or NoClaim
  rejected,    \* rejected
  worker,      \* where executeClaimedJob is, for each claim
  stopped,     \* claims whose context was cancelled with errLeaseRejected
  attempt,     \* Complete: failed attempts, for each claim
  heartbeat,   \* where runHeartbeatLoop is
  beating,     \* the jobs of its request, then those it was told to reject
  lease        \* the control plane's view of each job

loopVars == <<cancelled, run, claimLoop, sem, claims, job>>
jobVars == <<active, rejected>>
workerVars == <<worker, stopped, attempt>>
beatVars == <<heartbeat, beating>>
vars == <<loopVars, jobVars, workerVars, beatVars, lease>>

Init ==
  /\ cancelled = FALSE
  /\ run = "claiming" /\ claimLoop = "top"
  /\ sem = 0 /\ claims = 0
  /\ job = [c \in Claim |-> NoJob]
  /\ active = [j \in Job |-> NoClaim] /\ rejected = {}
  /\ worker = [c \in Claim |-> "none"] /\ stopped = {}
  /\ attempt = [c \in Claim |-> 0]
  /\ heartbeat = "wait" /\ beating = {}
  /\ lease = [j \in Job |-> "queued"]

-----------------------------------------------------------------------------
(* runClaimLoop.                                                           *)

(* Mutant: the context is not looked at.                                   *)
ClaimLoopTopUnchecked ==
  /\ claimLoop = "top"
  /\ claimLoop' = "acquire"
  /\ UNCHANGED <<cancelled, run, sem, claims, job, jobVars, workerVars, beatVars,
                 lease>>

ClaimLoopTop ==
  /\ claimLoop = "top"
  /\ claimLoop' = IF cancelled THEN "returned" ELSE "acquire"
  /\ UNCHANGED <<cancelled, run, sem, claims, job, jobVars, workerVars, beatVars,
                 lease>>

(* The select picks either channel when both are ready.                    *)
acquireSlot ==
  /\ claimLoop = "acquire"
  /\ \/ sem < MaxParallelFlows /\ sem' = sem + 1 /\ claimLoop' = "claim"
     \/ cancelled /\ claimLoop' = "returned" /\ UNCHANGED sem
  /\ UNCHANGED <<cancelled, run, claims, job, jobVars, workerVars, beatVars, lease>>

(* Mutant: one slot too many is given back.                                *)
releaseSlotTwice == sem' = IF sem > 1 THEN sem - 2 ELSE 0

(* Without a token there is nothing to take.                               *)
releaseSlot == sem' = IF sem > 0 THEN sem - 1 ELSE 0

(* Mutant: the job is not registered.                                      *)
storeActiveJobNot(j, c) == UNCHANGED active

storeActiveJob(j, c) == active' = [active EXCEPT ![j] = c]

ClaimNextGranted(j) ==
  /\ claimLoop = "claim" /\ claims < MaxClaims
  /\ lease[j] = "queued"
  /\ claims' = claims + 1
  /\ job' = [job EXCEPT ![claims'] = j]
  /\ lease' = [lease EXCEPT ![j] = "leased"]
  /\ storeActiveJob(j, claims')
  /\ worker' = [worker EXCEPT ![claims'] = "stored"]
  /\ claimLoop' = "spawn"
  /\ UNCHANGED <<cancelled, run, sem, rejected, stopped, attempt, beatVars>>

(* No job, an error or a cancelled request.  A job may have been leased    *)
(* although the answer was lost.                                           *)
ClaimNextFailed ==
  /\ claimLoop = "claim"
  /\ lease' \in {lease} \cup {[lease EXCEPT ![j] = "leased"] :
                                j \in {k \in Job : lease[k] = "queued"}}
  /\ releaseSlot
  /\ claimLoop' = "backoff"
  /\ UNCHANGED <<cancelled, run, claims, job, jobVars, workerVars, beatVars>>

waitAfterUnclaimedPoll ==
  /\ claimLoop = "backoff"
  /\ \/ claimLoop' = "top"
     \/ cancelled /\ claimLoop' = "returned"
  /\ UNCHANGED <<cancelled, run, sem, claims, job, jobVars, workerVars, beatVars,
                 lease>>

StartWorker ==
  /\ claimLoop = "spawn"
  /\ worker' = [worker EXCEPT ![claims] = "started"]
  /\ claimLoop' = "top"
  /\ UNCHANGED <<cancelled, run, sem, claims, job, jobVars, stopped, attempt,
                 beatVars, lease>>

-----------------------------------------------------------------------------
(* executeClaimedJob, for the claim c.                                     *)

isRejected(j) == j \in rejected

WorkerAt(c, from, to) == worker[c] = from /\ worker' = [worker EXCEPT ![c] = to]

(* cancelOnRejection: first the cancel function is made known, then        *)
(* isRejected is asked.                                                    *)
RegisterCancel(c) ==
  /\ WorkerAt(c, "started", "registered")
  /\ UNCHANGED <<loopVars, jobVars, stopped, attempt, beatVars, lease>>

(* Mutant: an earlier rejection is not looked for.                         *)
CancelUnchecked(c) ==
  /\ WorkerAt(c, "registered", "running")
  /\ UNCHANGED <<loopVars, jobVars, stopped, attempt, beatVars, lease>>

CancelIfRejected(c) ==
  /\ WorkerAt(c, "registered", "running")
  /\ stopped' = IF isRejected(job[c]) THEN stopped \cup {c} ELSE stopped
  /\ UNCHANGED <<loopVars, jobVars, attempt, beatVars, lease>>

(* The definition does not parse, or runner.Run returns and its events are *)
(* flushed.                                                                *)
RunEnds(c) ==
  /\ WorkerAt(c, "running", "ended")
  /\ UNCHANGED <<loopVars, jobVars, stopped, attempt, beatVars, lease>>

(* Every way to complete asks isRejected first.                            *)
DecideCompletion(c) ==
  /\ WorkerAt(c, "ended", IF isRejected(job[c]) THEN "leave" ELSE "complete")
  /\ UNCHANGED <<loopVars, jobVars, stopped, attempt, beatVars, lease>>

(* Complete: accepted or refused, both final; or a failure, with or        *)
(* without an effect, which is retried.                                    *)
CompleteAnswered(c) ==
  /\ WorkerAt(c, "complete", "leave")
  /\ lease' \in {lease, [lease EXCEPT ![job[c]] = "ended"]}
  /\ UNCHANGED <<loopVars, jobVars, stopped, attempt, beatVars>>

(* Mutant: a failed attempt is never the last.                             *)
CompleteFailedForever(c) ==
  /\ worker[c] = "complete"
  /\ attempt' = [attempt EXCEPT ![c] = (@ + 1) % CompleteAttempts]
  /\ UNCHANGED <<loopVars, jobVars, worker, stopped, beatVars, lease>>

CompleteFailed(c) ==
  /\ WorkerAt(c, "complete",
              IF attempt[c] + 1 = CompleteAttempts THEN "leave" ELSE "complete")
  /\ attempt' = [attempt EXCEPT ![c] = @ + 1]
  /\ lease' \in {lease, [lease EXCEPT ![job[c]] = "ended"]}
  /\ UNCHANGED <<loopVars, jobVars, stopped, beatVars>>

removeActiveJob(c) ==
  /\ WorkerAt(c, "leave", "removed")
  /\ active' = [active EXCEPT ![job[c]] = NoClaim]
  /\ rejected' = rejected \ {job[c]}
  /\ UNCHANGED <<loopVars, stopped, attempt, beatVars, lease>>

(* The last deferred call, and the end of the worker.                      *)
WorkerReturns(c) ==
  /\ WorkerAt(c, "removed", "done")
  /\ releaseSlot
  /\ UNCHANGED <<cancelled, run, claimLoop, claims, job, jobVars, stopped, attempt,
                 beatVars, lease>>

-----------------------------------------------------------------------------
(* runHeartbeatLoop.                                                       *)

activeJobIDs == {j \in Job : active[j] # NoClaim}

HeartbeatStops ==
  /\ heartbeat = "wait" /\ cancelled
  /\ heartbeat' = "returned"
  /\ UNCHANGED <<loopVars, jobVars, workerVars, beating, lease>>

HeartbeatSent ==
  /\ heartbeat = "wait" /\ activeJobIDs # {}
  /\ heartbeat' = "sent" /\ beating' = activeJobIDs
  /\ UNCHANGED <<loopVars, jobVars, workerVars, lease>>

HeartbeatAnswered ==
  /\ heartbeat = "sent"
  /\ heartbeat' = "answered"
  /\ beating' = {j \in beating : lease[j] # "leased"}
  /\ UNCHANGED <<loopVars, jobVars, workerVars, lease>>

HeartbeatFailed ==
  /\ heartbeat = "sent"
  /\ heartbeat' = "wait" /\ beating' = {}
  /\ UNCHANGED <<loopVars, jobVars, workerVars, lease>>

Registered(c) == worker[c] \notin {"none", "stored", "started"}

(* The answer may be older than the state it is applied to.                *)
markJobRejected(j) ==
  /\ heartbeat = "answered" /\ j \in beating
  /\ stopped' = stopped \cup {c \in Claim : c = active[j] /\ Registered(c)}
  /\ active' = [active EXCEPT ![j] = NoClaim]
  /\ rejected' = rejected \cup {j}
  /\ beating' = beating \ {j}
  /\ UNCHANGED <<loopVars, worker, attempt, heartbeat, lease>>

HeartbeatApplied ==
  /\ heartbeat = "answered" /\ beating = {}
  /\ heartbeat' = "wait"
  /\ UNCHANGED <<loopVars, jobVars, workerVars, beating, lease>>

-----------------------------------------------------------------------------
(* Run, the cancellation of its context, and the control plane.            *)

Cancel ==
  /\ ~cancelled /\ cancelled' = TRUE
  /\ UNCHANGED <<run, claimLoop, sem, claims, job, jobVars, workerVars, beatVars,
                 lease>>

Gone == {c \in Claim : worker[c] \in {"none", "done"}}

ClaimLoopReturned ==
  /\ run = "claiming" /\ claimLoop = "returned"
  /\ run' = "draining"
  /\ UNCHANGED <<cancelled, claimLoop, sem, claims, job, jobVars, workerVars,
                 beatVars, lease>>

(* Mutant: the workers are not waited for.                                 *)
waitForNobody ==
  /\ run = "draining"
  /\ run' = "drained"
  /\ UNCHANGED <<cancelled, claimLoop, sem, claims, job, jobVars, workerVars,
                 beatVars, lease>>

(* The workers are done, or the grace period, if there is one, is over.    *)
waitForWorkers ==
  /\ run = "draining"
  /\ Gone = Claim \/ GracePeriod
  /\ run' = "drained"
  /\ UNCHANGED <<cancelled, claimLoop, sem, claims, job, jobVars, workerVars,
                 beatVars, lease>>

RunReturns ==
  /\ run = "drained" /\ heartbeat = "returned"
  /\ run' = "returned"
  /\ UNCHANGED <<cancelled, claimLoop, sem, claims, job, jobVars, workerVars,
                 beatVars, lease>>

LeaseEnds(j) ==
  /\ lease[j] = "leased"
  /\ \E to \in {"queued", "ended"} : lease' = [lease EXCEPT ![j] = to]
  /\ UNCHANGED <<loopVars, jobVars, workerVars, beatVars>>

ClaimLoop ==
  \/ ClaimLoopTop \/ acquireSlot
  \/ (\E j \in Job : ClaimNextGranted(j)) \/ ClaimNextFailed
  \/ waitAfterUnclaimedPoll \/ StartWorker

Worker(c) ==
  \/ RegisterCancel(c) \/ CancelIfRejected(c) \/ RunEnds(c) \/ DecideCompletion(c)
  \/ CompleteAnswered(c) \/ CompleteFailed(c) \/ removeActiveJob(c)
  \/ WorkerReturns(c)

Heartbeat ==
  \/ HeartbeatStops \/ HeartbeatSent \/ HeartbeatAnswered \/ HeartbeatFailed
  \/ (\E j \in Job : markJobRejected(j)) \/ HeartbeatApplied

Main == ClaimLoopReturned \/ waitForWorkers \/ RunReturns

(* When Run has returned the process exits: no goroutine steps any more.   *)
Alive == run # "returned"

Exited == run = "returned" /\ UNCHANGED vars

Next ==
  \/ Alive /\ ClaimLoop
  \/ \E c \in Claim : Alive /\ Worker(c)
  \/ Alive /\ Heartbeat
  \/ Alive /\ Cancel
  \/ Main
  \/ \E j \in Job : LeaseEnds(j)
  \/ Exited

Spec == Init /\ [][Next]_vars

(* The goroutines keep running, requests and runs end (by their timeouts), *)
(* and a select that finds its context done and a tick ready picks at      *)
(* random, so the heartbeat loop does not pass the cancellation over for   *)
(* ever.  Nothing forces a shutdown, a lease to end, or an answer rather than an error.   *)
Fairness ==
  /\ WF_vars(Alive /\ ClaimLoop) /\ WF_vars(Alive /\ Heartbeat)
  /\ \A c \in Claim : WF_vars(Alive /\ Worker(c))
  /\ SF_vars(Alive /\ HeartbeatStops)
  /\ WF_vars(Main)

FairSpec == Spec /\ Fairness

-----------------------------------------------------------------------------
(* Properties.                                                             *)

(* Every slot taken belongs to a worker that has not returned or to the    *)
(* claim under way, so the runner never runs more than MaxParallelFlows    *)
(* jobs and never leaks a slot, whatever the claims and workers end in.    *)
SlotsAreAccounted ==
  /\ sem <= MaxParallelFlows
  /\ sem = Cardinality(Claim \ Gone) + (IF claimLoop = "claim" THEN 1 ELSE 0)

(* Claims whose job's outcome is not yet decided.                          *)
Unfinished == {c \in Claim : worker[c] \in {"stored", "started", "registered",
                                            "running", "ended"}}

(* active and rejected are keyed by the job.  What follows is about a job  *)
(* this process has claimed once.                                          *)
OnlyClaim(c) == \A d \in Claim \ {c} : job[d] # job[c]

(* A job that has not been rejected stays among those the heartbeat renews *)
(* until its outcome is decided.                                           *)
ActiveUntilDecided ==
  \A c \in Unfinished :
    (OnlyClaim(c) /\ job[c] \notin rejected) => active[job[c]] = c

(* A rejected job's run is cancelled, whether the rejection came before,   *)
(* between or after the two halves of cancelOnRejection, and the job is    *)
(* not renewed again.                                                      *)
RejectionStopsRun ==
  \A c \in Unfinished : (OnlyClaim(c) /\ job[c] \in rejected) =>
    /\ active[job[c]] = NoClaim
    /\ worker[c] \in {"running", "ended"} => c \in stopped

(* Without a grace period Run returns only when no worker is left.         *)
DrainsBeforeReturning == (run = "returned" /\ ~GracePeriod) => Gone = Claim

(* After its context is cancelled Run returns, whatever the control plane  *)
(* answers.                                                                *)
ShutdownReturns == cancelled ~> (run = "returned")

(* A claimed job's worker ends and gives its slot back, unless the process *)
(* exits first.                                                            *)
WorkersEnd ==
  \A c \in Claim :
    (worker[c] = "stored") ~> (worker[c] = "done" \/ run = "returned")

(* What the architecture document says: the runtime heartbeats every       *)
(* claimed job.                                                            *)
HeartbeatsEveryClaimedJob == Unfinished # {} => heartbeat # "returned"
=============================================================================
