-------------------------------- MODULE Rollout --------------------------------
(***************************************************************************)
(* deploy/swarm/update.py: a timer starts the updater, which brings every  *)
(* service of the stack to the images of the release that is marked        *)
(* stable, one service after the other, and takes back what it has tried   *)
(* when one of them fails.  Swarm goes on by itself: an update it has      *)
(* accepted converges, or is rolled back, whoever is still watching.       *)
(***************************************************************************)
EXTENDS Naturals, Sequences, SequencesExt

CONSTANTS
  Order,         \* the services in the order of their update
  Releases, First, None,
  Image,         \* Image[r][s]: what release r runs as service s
  MaxFaults,     \* bound: failing tasks, failing rollbacks, lost commands, kills
  MaxPublished   \* bound: times the stable tag moves

Services == ToSet(Order)
Images == {Image[r][s] : r \in Releases, s \in Services}

ASSUME RolloutAssumption ==
  /\ Order \in Seq(Services) /\ \A i, j \in 1 .. Len(Order) : Order[i] = Order[j] => i = j
  /\ First \in Releases /\ None \notin Releases
  /\ MaxFaults \in Nat /\ MaxPublished \in Nat

VARIABLES
  image, previous, status, \* Swarm: Spec, PreviousSpec and UpdateStatus of a service
  stable, published,       \* what the tag of the manifest names
  file,                    \* state.json
  pc, digest,              \* the updater, and the release it works for
  next, plan, old,         \* services inspected; the plan and the images found
  at,                      \* services of the plan tried, or still to take back
  errors,                  \* services that could not be taken back
  faults, excused          \* what has happened that the script cannot mend

swarm == <<image, previous, status>>
release == <<stable, published>>
work == <<digest, next, plan, old>>
vars == <<swarm, release, file, pc, work, at, errors, faults, excused>>

Unsettled == {"updating", "rollback_started"}
Failed == {"rollback_completed", "rollback_paused"}
Busy == pc # "idle"
Current == plan[at]
\* What the command in progress is to install.
Target == IF pc = "wait" THEN Image[digest][Current] ELSE old[Current]

Init ==
  /\ image = [s \in Services |-> Image[First][s]] /\ previous = image
  /\ status = [s \in Services |-> "completed"]
  /\ stable = First /\ published = 0
  /\ file = [applied |-> First, failed |-> None]
  /\ pc = "idle" /\ digest = None
  /\ next = 0 /\ plan = <<>> /\ old = image
  /\ at = 0 /\ errors = {}
  /\ faults = 0 /\ excused = {}

Fault == faults < MaxFaults /\ faults' = faults + 1

(***************************************************************************)
(* Swarm and the release pipeline, as far as update.py sees them.          *)
(***************************************************************************)
Publish(r) ==
  /\ published < MaxPublished /\ r # stable
  /\ stable' = r /\ published' = published + 1
  /\ UNCHANGED <<swarm, file, pc, work, at, errors, faults, excused>>

Settle(s) ==
  /\ status[s] \in Unsettled
  /\ status' = [status EXCEPT ![s] = IF @ = "updating" THEN "completed"
                                                       ELSE "rollback_completed"]
  /\ UNCHANGED <<image, previous, release, file, pc, work, at, errors, faults,
                 excused>>

\* failure_action: rollback.
TaskFails(s) ==
  /\ status[s] = "updating" /\ Fault
  /\ status' = [status EXCEPT ![s] = "rollback_started"]
  /\ image' = [image EXCEPT ![s] = previous[s]]
  /\ UNCHANGED <<previous, release, file, pc, work, at, errors, excused>>

RollbackFails(s) ==
  /\ status[s] = "rollback_started" /\ Fault
  /\ status' = [status EXCEPT ![s] = "rollback_paused"]
  /\ UNCHANGED <<image, previous, release, file, pc, work, at, errors, excused>>

\* docker service update, accepted by the manager.
Command(s, i) ==
  /\ previous' = [previous EXCEPT ![s] = image[s]]
  /\ image' = [image EXCEPT ![s] = i]
  /\ status' = [status EXCEPT ![s] = "updating"]

(***************************************************************************)
(* The updater.                                                            *)
(***************************************************************************)
\* Mutant: any failure on record blocks the next release as well.
BeginBlocked(retryFailed) ==
  /\ ~Busy
  /\ file.applied # stable
  /\ file.failed # None => retryFailed
  /\ digest' = stable
  /\ pc' = "inspect" /\ next' = 0 /\ plan' = <<>>
  /\ at' = 0 /\ errors' = {}
  /\ UNCHANGED <<swarm, release, file, old, faults, excused>>

\* main: one process at a time (flock); a release that is applied, or that is
\* known to have failed, is left alone.
Begin(retryFailed) ==
  /\ ~Busy
  /\ file.applied # stable
  /\ file.failed = stable => retryFailed
  /\ digest' = stable
  /\ pc' = "inspect" /\ next' = 0 /\ plan' = <<>>
  /\ at' = 0 /\ errors' = {}
  /\ UNCHANGED <<swarm, release, file, old, faults, excused>>

\* rollout, preflight: one service is read; a service that is still being
\* updated, or cannot be read, ends the run before anything is changed.
Inspect ==
  /\ pc = "inspect" /\ next < Len(Order)
  /\ LET s == Order[next + 1] IN
       \/ /\ \/ status[s] \in Unsettled /\ UNCHANGED faults
             \/ Fault
          /\ pc' = "failed"
          /\ UNCHANGED <<next, plan, old>>
       \/ /\ status[s] \notin Unsettled
          /\ next' = next + 1
          /\ old' = [old EXCEPT ![s] = image[s]]
          /\ plan' = IF image[s] # Image[digest][s] THEN Append(plan, s) ELSE plan
          /\ UNCHANGED <<pc, faults>>
  /\ UNCHANGED <<swarm, release, file, digest, at, errors, excused>>

\* changed.append, then update of the next service; the command may be refused.
Try ==
  /\ pc = "inspect" /\ next = Len(Order) /\ at < Len(plan)
  /\ at' = at + 1
  /\ \/ Command(plan[at + 1], Image[digest][plan[at + 1]]) /\ pc' = "wait"
                                                          /\ UNCHANGED faults
     \/ Fault /\ pc' = "undo" /\ UNCHANGED swarm
  /\ UNCHANGED <<release, file, work, errors, excused>>

\* change returns: docker has waited for the end of the update.
Changed ==
  /\ pc \in {"wait", "unwait"}
  /\ status[Current] = "completed" /\ image[Current] = Target
  /\ \/ pc = "wait" /\ pc' = "inspect" /\ UNCHANGED at
     \/ pc = "unwait" /\ pc' = "undo" /\ at' = at - 1
  /\ UNCHANGED <<swarm, release, file, work, errors, faults, excused>>

\* Mutant: changed.append comes after the update.
RaiseUnlisted ==
  \/ pc = "wait" /\ pc' = "undo" /\ at' = at - 1 /\ UNCHANGED errors
  \/ /\ pc = "unwait" /\ pc' = "undo"
     /\ errors' = errors \cup {Current} /\ at' = at - 1

\* A failed service: while updating, start to take back; while taking back, note
\* it and go on.
Raise ==
  \/ pc = "wait" /\ pc' = "undo" /\ UNCHANGED <<at, errors>>
  \/ /\ pc = "unwait" /\ pc' = "undo"
     /\ errors' = errors \cup {Current} /\ at' = at - 1

\* change raises: Swarm has rolled the service back, or given up.
ChangeFails ==
  /\ pc \in {"wait", "unwait"}
  /\ status[Current] \in Failed
  /\ Raise
  /\ UNCHANGED <<swarm, release, file, work, faults, excused>>

\* change raises, with the update still under way: a timeout, or the client lost
\* its connection to the manager.
ChangeLost ==
  /\ pc \in {"wait", "unwait"} /\ Fault
  /\ Raise
  /\ excused' = excused \cup {"lost"}
  /\ UNCHANGED <<swarm, release, file, work>>

\* The exception handler, from the last service tried to the first.
Undo ==
  /\ pc = "undo" /\ at > 0
  /\ \/ /\ image[Current] = old[Current]
        /\ at' = at - 1 /\ UNCHANGED <<swarm, pc, errors, faults>>
     \/ /\ image[Current] # old[Current]
        /\ Command(Current, old[Current])
        /\ pc' = "unwait" /\ UNCHANGED <<at, errors, faults>>
     \/ /\ Fault
        /\ errors' = errors \cup {Current} /\ at' = at - 1
        /\ UNCHANGED <<swarm, pc>>
  /\ UNCHANGED <<release, file, work, excused>>

\* Mutant: a rollout that was taken back does not raise again.
SaveSwallowed ==
  /\ \/ /\ pc = "failed"
        /\ file' = [file EXCEPT !.failed = digest]
        /\ UNCHANGED excused
     \/ /\ \/ pc = "inspect" /\ next = Len(Order) /\ at = Len(plan)
           \/ pc = "undo" /\ at = 0
        /\ file' = [applied |-> digest, failed |-> None]
        /\ excused' = {}
  /\ pc' = "idle"
  /\ UNCHANGED <<swarm, release, work, at, errors, faults>>

\* The end of main: state.json is replaced as a whole.
Save ==
  /\ \/ /\ pc = "failed" \/ (pc = "undo" /\ at = 0)
        /\ file' = [file EXCEPT !.failed = digest]
        /\ excused' = IF errors = {} THEN excused ELSE excused \cup {"manual"}
     \/ /\ pc = "inspect" /\ next = Len(Order) /\ at = Len(plan)
        /\ file' = [applied |-> digest, failed |-> None]
        /\ excused' = {}
  /\ pc' = "idle"
  /\ UNCHANGED <<swarm, release, work, at, errors, faults>>

\* The updater is killed, or its host restarts.
Kill ==
  /\ Busy /\ Fault
  /\ pc' = "idle" /\ excused' = excused \cup {"killed"}
  /\ UNCHANGED <<swarm, release, file, work, at, errors>>

Updater == \/ Inspect \/ Try \/ Changed \/ ChangeFails \/ Undo \/ Save

Next ==
  \/ \E r \in Releases : Publish(r)
  \/ \E s \in Services : Settle(s) \/ TaskFails(s) \/ RollbackFails(s)
  \/ \E b \in BOOLEAN : Begin(b)
  \/ Updater \/ ChangeLost \/ Kill

Spec == Init /\ [][Next]_vars

\* The timer starts the updater again and again, the updater runs, and Swarm
\* works on every update it has accepted.
FairSpec == /\ Spec /\ WF_vars(Begin(FALSE)) /\ WF_vars(Updater)
            /\ \A s \in Services : WF_vars(Settle(s))

(***************************************************************************)
(* Properties.                                                             *)
(***************************************************************************)
TypeOK ==
  /\ image \in [Services -> Images] /\ previous \in [Services -> Images]
  /\ status \in [Services -> Unsettled \cup Failed \cup {"completed"}]
  /\ stable \in Releases /\ published \in 0 .. MaxPublished
  /\ file \in [applied : Releases, failed : Releases \cup {None}]
  /\ pc \in {"idle", "inspect", "wait", "undo", "unwait", "failed"}
  /\ digest \in Releases \cup {None}
  /\ next \in 0 .. Len(Order) /\ plan \in Seq(Services)
  /\ old \in [Services -> Images]
  /\ at \in 0 .. Len(plan)
  /\ errors \subseteq Services
  /\ faults \in 0 .. MaxFaults /\ excused \subseteq {"lost", "killed", "manual"}

Uniform(r) == \A s \in Services : image[s] = Image[r][s]

\* Between two runs all services belong to one release, whichever update failed
\* and however it ended, unless the script was killed or has asked for manual
\* recovery; a later success ends that excuse.
AllOrNothing ==
  ~Busy /\ excused \cap {"killed", "manual"} = {} => \E r \in Releases : Uniform(r)

\* A release is recorded as applied only when every service has been brought to
\* it and nothing that could still take a service back is under way, whatever an
\* earlier run was doing when it ended.
AppliedIsUniform ==
  [][file'.applied # file.applied =>
       Uniform(file'.applied) /\ \A s \in Services : status[s] \notin Unsettled]_vars

\* A published release ends as applied or as failed on record, in spite of kills
\* and of failed releases before it.
Settles == <>[](~Busy /\ stable \in {file.applied, file.failed})
================================================================================
