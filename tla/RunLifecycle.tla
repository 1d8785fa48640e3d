---------------------------- MODULE RunLifecycle ----------------------------
(***************************************************************************)
(* execute_run: from the validated config through the Wizards and their     *)
(* runtimes to the Cosmos launcher, and back down, whole, Wizard-only or     *)
(* Cosmos-only; SIGUSR1 and the requeue of a run by Slurm; the user who      *)
(* starts a prepared run again, or copies its directory to the Cosmos host.  *)
(***************************************************************************)
EXTENDS LaunchState

Go(r, to) == stage' = [stage EXCEPT ![r] = to]

UnchangedByHost == UNCHANGED <<case, cacheVars>>

(* The flock dies with its holder, the files stay.                          *)
CosmosStops(r) ==
  /\ controller' = [controller EXCEPT ![r] = "absent"]
  /\ worker' = [worker EXCEPT ![r] = [w \in Replicas(r) |-> "absent"]]
  /\ lock' = [lock EXCEPT ![r] = Nobody]
  /\ UNCHANGED <<seen, runtime, capacity, pidBase, runtimes, assigned, drivers, master>>

(* load_or_create_run_config.                                               *)
Validate(r) ==
  /\ stage[r] = "new"
  /\ Go(r, IF Loads(Config(r)) /\ ValidRunConfig(Config(r)) THEN "ready" ELSE "rejected")
  /\ UNCHANGED <<attempt, struck, requeue, launched, procVars, cosmosVars, registryVars>>
  /\ UnchangedByHost

(* The Cosmos host starts with the directory the Wizard host prepared.      *)
Copied(r) == Mode(r) = "cosmos" => \A t \in Runtimes(r) : runtimes[r][t] # Absent

BeginRun(r) ==
  /\ stage[r] = "ready" /\ Copied(r)
  /\ Go(r, "image")
  /\ UNCHANGED <<attempt, struck, requeue, launched, procVars, cosmosVars, registryVars>>
  /\ UnchangedByHost

(* reset_alpasim_topology, where the run may have been requeued; then the   *)
(* try block.                                                                *)
Cleared(r) == Config(r).autoresume /\ Mode(r) # "cosmos"

ResetTopology(r) ==
  /\ stage[r] = "reset"
  /\ runtimes' = IF Cleared(r) THEN [runtimes EXCEPT ![r] = [t \in Runtimes(r) |-> Absent]] ELSE runtimes
  /\ assigned' = IF Cleared(r) THEN [assigned EXCEPT ![r] = [d \in DriverIds(r) |-> 0]] ELSE assigned
  /\ Go(r, IF Mode(r) = "cosmos" THEN "launch" ELSE "wizards")
  /\ UNCHANGED <<attempt, struck, requeue, launched, procVars, cosmosVars, drivers, lock, master>>
  /\ UnchangedByHost

(* Popen of the next host's Wizard, and its append to wizard_processes.     *)
StartWizard(r) ==
  /\ stage[r] = "wizards" /\ launched[r] + 1 \in Runtimes(r)
  /\ wizards' = [wizards EXCEPT ![r] = @ \cup {launched[r] + 1}]
  /\ Go(r, "popened")
  /\ UNCHANGED <<attempt, struck, requeue, launched, serving, cosmosVars, registryVars>>
  /\ UnchangedByHost

AppendWizard(r) ==
  /\ stage[r] = "popened"
  /\ launched' = [launched EXCEPT ![r] = @ + 1]
  /\ Go(r, IF launched[r] + 1 = Cardinality(Runtimes(r)) THEN "waiting" ELSE "wizards")
  /\ UNCHANGED <<attempt, struck, requeue, procVars, cosmosVars, registryVars>>
  /\ UnchangedByHost

(* What Wizards do by themselves.                                           *)
RuntimeServes(r, t) ==
  /\ t \in wizards[r] \ serving[r]
  /\ serving' = [serving EXCEPT ![r] = @ \cup {t}]
  /\ UNCHANGED <<hostVars, wizards, cosmosVars, registryVars>> /\ UnchangedByHost

WizardExits(r, t) ==
  /\ "wizard" \in case.faults /\ t \in wizards[r] /\ stage[r] \in Body
  /\ wizards' = [wizards EXCEPT ![r] = @ \ {t}]
  /\ serving' = [serving EXCEPT ![r] = @ \ {t}]
  /\ UNCHANGED <<hostVars, cosmosVars, registryVars>> /\ UnchangedByHost

(* The loop over the hosts publishes their runtimes in order.               *)
NextRuntime(r) == CHOOSE t \in Runtimes(r) :
  runtimes[r][t] # attempt[r] /\ \A u \in Runtimes(r) : u < t => runtimes[r][u] = attempt[r]

AllPublished(r) == \A t \in Runtimes(r) : runtimes[r][t] = attempt[r]
AllRunning(r)   == \A t \in 1 .. launched[r] : t \in wizards[r]

(* wait_for_runtime_ready, fetch_runtime_info, publish_alpasim_runtime,     *)
(* which creates the file.                                                   *)
PublishRuntime(r) ==
  LET t == NextRuntime(r) IN
  /\ stage[r] = "waiting" /\ ~ AllPublished(r)
  /\ AllRunning(r) /\ t \in serving[r] /\ runtimes[r][t] = Absent
  /\ runtimes' = [runtimes EXCEPT ![r][t] = attempt[r]]
  /\ UNCHANGED <<hostVars, procVars, cosmosVars, assigned, drivers, lock, master>>
  /\ UnchangedByHost

(* Everything that raises before Cosmos is launched: a Wizard that cannot   *)
(* be started or has exited, the timeout, another scene list, a runtime      *)
(* file of an earlier attempt.                                               *)
StartupFails(r) ==
  /\ \/ stage[r] = "wizards" /\ "popen" \in case.faults
     \/ stage[r] = "waiting" /\ ~ AllPublished(r)
          /\ \/ ~ AllRunning(r) \/ "startup" \in case.faults
             \/ runtimes[r][NextRuntime(r)] # Absent
  /\ Go(r, "teardown")
  /\ UNCHANGED <<attempt, struck, requeue, launched, procVars, cosmosVars, registryVars>>
  /\ UnchangedByHost

(* A Wizard-only host blocks until its Wizards exit or Ctrl+C.              *)
AllRuntimesReady(r) ==
  /\ stage[r] = "waiting" /\ AllPublished(r)
  /\ Go(r, IF Mode(r) = "wizard" THEN "blocked" ELSE "launch")
  /\ UNCHANGED <<attempt, struck, requeue, launched, procVars, cosmosVars, registryVars>>
  /\ UnchangedByHost

StopWizardHost(r) ==
  /\ stage[r] = "blocked"
  /\ Go(r, "teardown")
  /\ UNCHANGED <<attempt, struck, requeue, launched, procVars, cosmosVars, registryVars>>
  /\ UnchangedByHost

(* scp of the run directory to the Cosmos host, where it is run r.          *)
CopyRunDir(from, r) ==
  /\ Mode(from) = "wizard" /\ stage[from] = "blocked"
  /\ Mode(r) = "cosmos" /\ stage[r] = "ready" /\ ~ Copied(r)
  /\ runtimes' = [runtimes EXCEPT ![r] = runtimes[from]]
  /\ UNCHANGED <<hostVars, procVars, cosmosVars, assigned, drivers, lock, master>>
  /\ UnchangedByHost

(* subprocess.run of the Cosmos launcher: Controller and workers start      *)
(* together, with fresh pids or ones an earlier attempt had.                 *)
LaunchCosmos(r) ==
  /\ stage[r] = "launch"
  /\ Go(r, "cosmos")
  /\ controller' = [controller EXCEPT ![r] = "started"]
  /\ worker' = [worker EXCEPT ![r] = [w \in Replicas(r) |-> "started"]]
  /\ \E base \in 0 .. 1 : pidBase' = [pidBase EXCEPT ![r] = base]
  /\ UNCHANGED <<attempt, struck, requeue, launched, procVars, seen, runtime, capacity, registryVars>>
  /\ UnchangedByHost

(* It returns once the work is done; a dead process makes it fail.          *)
CosmosReturns(r) ==
  /\ stage[r] = "cosmos"
  /\ \/ \A w \in Replicas(r) : worker[r][w] = "up"
     \/ controller[r] = "dead" \/ \E w \in Replicas(r) : worker[r][w] = "dead"
  /\ Go(r, "teardown") /\ CosmosStops(r)
  /\ UNCHANGED <<attempt, struck, requeue, launched, procVars>>
  /\ UnchangedByHost

(* The finally block, Wizard by Wizard.                                     *)
TerminateWizard(r) ==
  \E t \in wizards[r] :
    /\ stage[r] = "teardown" /\ t <= launched[r]
    /\ \A u \in wizards[r] : t <= u
    /\ wizards' = [wizards EXCEPT ![r] = @ \ {t}]
    /\ serving' = [serving EXCEPT ![r] = @ \ {t}]
    /\ UNCHANGED <<hostVars, cosmosVars, registryVars>> /\ UnchangedByHost

(* Mutant: only the first process is terminated.                            *)
FirstTerminated(r) == launched[r] > 0 => 1 \notin wizards[r]

AllTerminated(r) == \A t \in wizards[r] : t > launched[r]

FinishTeardown(r) ==
  /\ stage[r] = "teardown" /\ AllTerminated(r)
  /\ Go(r, IF requeue[r] THEN "requeue" ELSE "ended")
  /\ UNCHANGED <<attempt, struck, requeue, launched, procVars, cosmosVars, registryVars>>
  /\ UnchangedByHost

(* Slurm signals a run once, before its time limit.  The handler raises:    *)
(* in the try block that leads to the requeue, elsewhere out of execute_run. *)
(* Mutant: it is caught around the launcher only.                           *)
CaughtInCosmos(r) == stage[r] = "cosmos"

Caught(r) == stage[r] \in Body

Signal(r) ==
  /\ Config(r).autoresume /\ struck[r] = Never /\ attempt[r] < case.attempts
  /\ stage[r] \in Setup \cup Body \cup {"teardown"}
  /\ struck' = [struck EXCEPT ![r] = stage[r]]
  /\ requeue' = [requeue EXCEPT ![r] = Caught(r)]
  /\ Go(r, IF Caught(r) THEN "teardown" ELSE "ended")
  /\ CosmosStops(r)
  /\ draft' = [draft EXCEPT ![r] = Absent]
  /\ UNCHANGED <<case, attempt, launched, procVars, upstream, cache, key>>

(* scontrol requeue after the teardown, or the user starts a run that is    *)
(* over again: same run directory, nothing of the old job left.             *)
NextAttempt(r) ==
  /\ attempt' = [attempt EXCEPT ![r] = @ + 1]
  /\ struck' = [struck EXCEPT ![r] = Never]
  /\ requeue' = [requeue EXCEPT ![r] = FALSE]
  /\ launched' = [launched EXCEPT ![r] = 0]
  /\ wizards' = [wizards EXCEPT ![r] = {}] /\ serving' = [serving EXCEPT ![r] = {}]
  /\ Go(r, "image")
  /\ UNCHANGED <<cosmosVars, registryVars>> /\ UnchangedByHost

Requeue(r) == stage[r] = "requeue" /\ NextAttempt(r)

StartAgain(r) ==
  /\ stage[r] = "ended" /\ attempt[r] < case.attempts /\ Mode(r) = "whole"
  /\ NextAttempt(r)

HostNext(r) ==
  \/ Validate(r) \/ BeginRun(r) \/ ResetTopology(r)
  \/ StartWizard(r) \/ AppendWizard(r) \/ PublishRuntime(r) \/ AllRuntimesReady(r)
  \/ LaunchCosmos(r) \/ CosmosReturns(r)
  \/ TerminateWizard(r) \/ FinishTeardown(r) \/ Requeue(r)
=============================================================================
