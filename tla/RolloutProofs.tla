---------------------------- MODULE RolloutProofs ----------------------------
(***************************************************************************)
(* Theorems about Rollout, for any services, releases and images, and any  *)
(* number of faults and of published releases; and, in the second half,    *)
(* about LoginRouting, for any processes and names of chat nodes.          *)
(***************************************************************************)
EXTENDS Rollout, LoginRouting, TLAPS

(***************************************************************************)
(* The inductive invariant.                                                *)
(***************************************************************************)
Settled(s) == status[s] \notin Unsettled
Old(s) == image[s] = old[s]
New(s) == image[s] = Image[digest][s]
Inspected == {Order[i] : i \in 1 .. next}
Planned == {plan[j] : j \in 1 .. Len(plan)}
Excused == excused \cap {"killed", "manual"} # {}

ControlOK ==
  /\ digest \in Releases
  /\ pc \in {"wait", "undo", "unwait"} \/ at > 0 => next = Len(Order)
  /\ pc \in {"wait", "unwait"} => at > 0
  /\ pc \in {"inspect", "failed", "wait"} => errors = {}
  /\ pc = "failed" => at = 0

\* The plan: what differs from the release; the rest of what was inspected stays.
PlanOK ==
  /\ \A j, k \in 1 .. Len(plan) : plan[j] = plan[k] => j = k
  /\ \A s \in Planned : s \in Inspected /\ old[s] # Image[digest][s]
  /\ \A s \in Inspected \ Planned : Old(s) /\ New(s) /\ Settled(s)

\* Services before the current one have been updated, services after it have not
\* been touched or, once the script takes back, are as they were.
ProgressOK ==
  \A j \in 1 .. Len(plan) :
    LET s == plan[j] IN
    /\ j < at \/ (j = at /\ pc = "inspect") => New(s) /\ Settled(s)
    /\ j > at /\ pc \in {"inspect", "failed", "wait"} => Old(s) /\ Settled(s)
    /\ j > at /\ pc \in {"undo", "unwait"} /\ errors = {} => Old(s) /\ status[s] # "updating"
    /\ j = at /\ pc \in {"wait", "undo"} =>
         /\ New(s) \/ Old(s)
         /\ status[s] = "updating" => New(s) /\ previous[s] = old[s]

\* All services were at one release when the run began.
StartOK ==
  ~Excused => \E r \in Releases : \A s \in Services :
    IF s \in Inspected THEN old[s] = Image[r][s]
                       ELSE image[s] = Image[r][s] /\ status[s] # "updating"

RunOK == Busy => ControlOK /\ PlanOK /\ ProgressOK /\ StartOK

BetweenOK ==
  ~Busy /\ ~Excused => \E r \in Releases : Uniform(r) /\ \A s \in Services : status[s] # "updating"

IInv == TypeOK /\ RunOK /\ BetweenOK

LEMMA Members ==
  ASSUME TypeOK
  PROVE  /\ \A i \in 1 .. Len(Order) : Order[i] \in Services
         /\ \A s \in Services : \E i \in 1 .. Len(Order) : Order[i] = s
         /\ Len(Order) \in Nat /\ next \in Nat /\ next <= Len(Order)
         /\ \A j \in 1 .. Len(plan) : plan[j] \in Services
         /\ Len(plan) \in Nat /\ at \in Nat /\ at <= Len(plan)
         /\ Inspected \subseteq Services
<1>1. Order \in Seq(Services) /\ DOMAIN Order = 1 .. Len(Order)
  BY RolloutAssumption
<1> QED
  BY <1>1 DEF TypeOK, Services, ToSet, Inspected

LEMMA ImageTypes == \A r \in Releases, s \in Services : Image[r][s] \in Images
BY DEF Images

LEMMA InitHolds == Init => IInv
<1> SUFFICES ASSUME Init PROVE IInv
  OBVIOUS
<1> USE DEF Init
<1>1. image \in [Services -> Images] /\ old \in [Services -> Images]
  BY ImageTypes, RolloutAssumption
<1>2. TypeOK
  <2>1. next \in 0 .. Len(Order)
    BY RolloutAssumption
  <2>2. at \in 0 .. Len(plan) /\ plan \in Seq(Services)
    OBVIOUS
  <2>3. status \in [Services -> Unsettled \cup Failed \cup {"completed"}]
    OBVIOUS
  <2> QED
    BY <1>1, <2>1, <2>2, <2>3, RolloutAssumption DEF TypeOK
<1>3. RunOK /\ BetweenOK
  BY RolloutAssumption DEF RunOK, BetweenOK, Busy, Uniform
<1> QED
  BY <1>2, <1>3 DEF IInv

(***************************************************************************)
(* Swarm and the pipeline.                                                 *)
(***************************************************************************)
LEMMA PublishStep == ASSUME IInv, NEW r \in Releases, Publish(r) PROVE IInv'
<1> USE DEF Publish, swarm, work
<1>1. TypeOK'
  BY RolloutAssumption DEF IInv, TypeOK
<1>2. /\ Busy' <=> Busy
      /\ Excused' <=> Excused
      /\ Inspected' = Inspected /\ Planned' = Planned
      /\ \A s : (Old(s)' <=> Old(s)) /\ (Settled(s)' <=> Settled(s)) /\ (New(s)' <=> New(s))
  BY DEF Busy, Excused, Inspected, Planned, Old, Settled, New
<1>3. RunOK'
  <2>1. (ControlOK' <=> ControlOK) /\ (PlanOK' <=> PlanOK)
    BY <1>2 DEF ControlOK, PlanOK
  <2>2. (ProgressOK' <=> ProgressOK) /\ (StartOK' <=> StartOK)
    BY <1>2 DEF ProgressOK, StartOK
  <2> QED
    BY <1>2, <2>1, <2>2 DEF IInv, RunOK
<1>4. BetweenOK'
  BY <1>2 DEF IInv, BetweenOK, Uniform
<1> QED
  BY <1>1, <1>3, <1>4 DEF IInv

\* A status that settles, or a rollback that fails.
LEMMA StatusStep ==
  ASSUME IInv, NEW s \in Services, status[s] \in Unsettled,
         NEW v \in Failed \cup {"completed"}, status' = [status EXCEPT ![s] = v],
         faults' \in 0 .. MaxFaults,
         UNCHANGED <<image, previous, release, file, pc, work, at, errors, excused>>
  PROVE  IInv'
<1> USE DEF release, work
<1>0. /\ v \notin Unsettled /\ v # "updating"
      /\ \A q \in Services : status'[q] = status[q] \/ (q = s /\ status'[q] = v)
  BY DEF IInv, TypeOK, Failed, Unsettled
<1>1. TypeOK'
  <2>1. status' \in [Services -> Unsettled \cup Failed \cup {"completed"}]
    BY DEF IInv, TypeOK
  <2> QED
    BY <2>1 DEF IInv, TypeOK
<1>2. Busy => ControlOK' /\ PlanOK' /\ StartOK'
  <2>1. Busy => ControlOK'
    BY DEF IInv, RunOK, Busy, ControlOK
  <2>2. Inspected' = Inspected /\ Planned' = Planned
    BY DEF Inspected, Planned
  <2>3. Busy => PlanOK'
    <3>1. ASSUME Busy, NEW q \in Inspected \ Planned PROVE Old(q)' /\ New(q)' /\ Settled(q)'
      BY <1>0, <3>1, Members DEF IInv, RunOK, PlanOK, Old, New, Settled, Unsettled
    <3>2. Busy => \A j, k \in 1 .. Len(plan) : plan[j] = plan[k] => j = k
      BY DEF IInv, RunOK, PlanOK
    <3>3. Busy => \A q \in Planned : q \in Inspected /\ old[q] # Image[digest][q]
      BY DEF IInv, RunOK, PlanOK
    <3> QED
      BY <2>2, <3>1, <3>2, <3>3 DEF PlanOK
  <2>4. Busy => StartOK'
    BY <1>0, <2>2 DEF IInv, RunOK, StartOK, Excused
  <2> QED
    BY <2>1, <2>3, <2>4
<1>3. Busy => ProgressOK'
  BY <1>0, Members DEF IInv, RunOK, Busy, ProgressOK, Settled, Old, New
<1>4. BetweenOK'
  BY <1>0 DEF IInv, BetweenOK, Busy, Excused, Uniform
<1> QED
  BY <1>1, <1>2, <1>3, <1>4 DEF IInv, RunOK, Busy

LEMMA SettleStep == ASSUME IInv, NEW s \in Services, Settle(s) PROVE IInv'
<1>1. PICK v \in Failed \cup {"completed"} : status' = [status EXCEPT ![s] = v]
  BY DEF Settle, Failed
<1> QED
  BY <1>1, StatusStep DEF Settle, IInv, TypeOK

LEMMA RollbackFailsStep == ASSUME IInv, NEW s \in Services, RollbackFails(s) PROVE IInv'
<1>1. faults' \in 0 .. MaxFaults
  BY RolloutAssumption DEF RollbackFails, Fault, IInv, TypeOK
<1> QED
  BY <1>1, StatusStep DEF RollbackFails, Failed, Unsettled

LEMMA TaskFailsStep == ASSUME IInv, NEW s \in Services, TaskFails(s) PROVE IInv'
<1> USE DEF TaskFails, release, work
<1>0. /\ status[s] = "updating" /\ status'[s] = "rollback_started" /\ image'[s] = previous[s]
      /\ \A q \in Services \ {s} : status'[q] = status[q] /\ image'[q] = image[q]
  BY DEF IInv, TypeOK
<1>1. TypeOK'
  <2>1. status' \in [Services -> Unsettled \cup Failed \cup {"completed"}]
    BY DEF IInv, TypeOK, Unsettled
  <2>2. image' \in [Services -> Images]
    BY DEF IInv, TypeOK
  <2>3. faults' \in 0 .. MaxFaults
    BY RolloutAssumption DEF IInv, TypeOK, Fault
  <2> QED
    BY <2>1, <2>2, <2>3 DEF IInv, TypeOK
<1>2. Busy => ControlOK' /\ PlanOK' /\ StartOK'
  <2>1. Busy => ControlOK'
    BY DEF IInv, RunOK, Busy, ControlOK
  <2>2. Inspected' = Inspected /\ Planned' = Planned
    BY DEF Inspected, Planned
  <2>3. Busy => PlanOK'
    <3>1. ASSUME Busy, NEW q \in Inspected \ Planned PROVE Old(q)' /\ New(q)' /\ Settled(q)'
      BY <1>0, <3>1, Members DEF IInv, RunOK, PlanOK, Old, New, Settled, Unsettled
    <3>2. Busy => \A j, k \in 1 .. Len(plan) : plan[j] = plan[k] => j = k
      BY DEF IInv, RunOK, PlanOK
    <3>3. Busy => \A q \in Planned : q \in Inspected /\ old[q] # Image[digest][q]
      BY DEF IInv, RunOK, PlanOK
    <3> QED
      BY <2>2, <3>1, <3>2, <3>3 DEF PlanOK
  <2>4. Busy => StartOK'
    BY <1>0, <2>2 DEF IInv, RunOK, StartOK, Excused
  <2> QED
    BY <2>1, <2>3, <2>4
<1>3. Busy => ProgressOK'
  <2> SUFFICES ASSUME Busy, NEW j \in 1 .. Len(plan) PROVE
        LET q == plan[j] IN
        (/\ j < at \/ (j = at /\ pc = "inspect") => New(q) /\ Settled(q)
         /\ j > at /\ pc \in {"inspect", "failed", "wait"} => Old(q) /\ Settled(q)
         /\ j > at /\ pc \in {"undo", "unwait"} /\ errors = {} => Old(q) /\ status[q] # "updating"
         /\ j = at /\ pc \in {"wait", "undo"} =>
              /\ New(q) \/ Old(q)
              /\ status[q] = "updating" => New(q) /\ previous[q] = old[q])'
    BY DEF ProgressOK
  <2>1. CASE plan[j] = s
    BY <1>0, <2>1 DEF IInv, RunOK, ProgressOK, Settled, Unsettled, Old, New
  <2>2. CASE plan[j] # s
    BY <1>0, <2>2, Members DEF IInv, RunOK, ProgressOK, Settled, Old, New
  <2> QED
    BY <2>1, <2>2
<1>4. BetweenOK'
  BY <1>0 DEF IInv, BetweenOK, Busy, Excused, Uniform
<1> QED
  BY <1>1, <1>2, <1>3, <1>4 DEF IInv, RunOK, Busy

LEMMA PlanFrame ==
  ASSUME PlanOK, UNCHANGED <<image, status, work>>
  PROVE  PlanOK'
BY DEF PlanOK, Planned, Inspected, Old, New, Settled, work

(***************************************************************************)
(* The updater.                                                            *)
(***************************************************************************)
LEMMA BeginStep == ASSUME IInv, NEW b \in BOOLEAN, Begin(b) PROVE IInv'
<1> USE DEF Begin, swarm, release
<1>1. TypeOK'
  BY Members DEF IInv, TypeOK
<1>2. ControlOK' /\ PlanOK' /\ ProgressOK'
  BY DEF IInv, TypeOK, ControlOK, PlanOK, ProgressOK, Inspected, Planned
<1>3. StartOK'
  BY DEF IInv, BetweenOK, StartOK, Excused, Uniform, Inspected
<1>4. BetweenOK'
  BY DEF BetweenOK, Busy
<1> QED
  BY <1>1, <1>2, <1>3, <1>4 DEF IInv, RunOK

LEMMA InspectStep == ASSUME IInv, Inspect PROVE IInv'
<1>1. Busy /\ pc = "inspect" /\ next < Len(Order) /\ at = 0 /\ errors = {}
  BY Members DEF Inspect, Busy, IInv, RunOK, ControlOK, TypeOK
<1>0. UNCHANGED <<swarm, release, file, digest, at, errors, excused>>
  BY DEF Inspect
<1>2. CASE pc' = "failed" /\ faults' \in 0 .. MaxFaults /\ UNCHANGED <<next, plan, old>>
  <2> USE <1>0, <1>2 DEF swarm
  <2>1. TypeOK'
    BY DEF IInv, TypeOK, release
  <2>2. ControlOK' /\ PlanOK' /\ ProgressOK' /\ StartOK'
    BY <1>1 DEF IInv, RunOK, ControlOK, PlanOK, ProgressOK, StartOK, Excused,
        Inspected, Planned,
       Settled, Old, New
  <2> QED
    BY <2>1, <2>2 DEF IInv, RunOK, BetweenOK, Busy
<1>3. CASE \E s \in {Order[next + 1]} :
             /\ status[s] \notin Unsettled
             /\ next' = next + 1
             /\ old' = [old EXCEPT ![s] = image[s]]
             /\ plan' = IF image[s] # Image[digest][s] THEN Append(plan, s) ELSE plan
             /\ UNCHANGED <<pc, faults>>
  <2>1. PICK s : s = Order[next + 1]
    OBVIOUS
  <2>2. /\ s \in Services /\ s \notin Inspected /\ next + 1 \in 1 .. Len(Order)
        /\ Inspected' = Inspected \cup {s}
    <3>1. next + 1 \in 1 .. Len(Order) /\ next \in Nat
      BY <1>1, Members DEF IInv
    <3>2. s \in Services
      BY <2>1, <3>1, Members DEF IInv
    <3>3. s \notin Inspected
      <4> SUFFICES ASSUME NEW i \in 1 .. next, Order[i] = s PROVE FALSE
        BY DEF Inspected
      <4> QED
        BY <2>1, <3>1, RolloutAssumption
    <3>4. Inspected' = Inspected \cup {s}
      BY <1>3, <2>1, <3>1 DEF Inspected
    <3> QED
      BY <3>1, <3>2, <3>3, <3>4
  <2>3. /\ status[s] \notin Unsettled /\ next' = next + 1
        /\ old' = [old EXCEPT ![s] = image[s]]
        /\ plan' = (IF image[s] # Image[digest][s] THEN Append(plan, s) ELSE plan)
        /\ UNCHANGED <<pc, faults, swarm, release, file, digest, at, errors, excused>>
    BY <1>0, <1>3, <2>1
  <2>4. TypeOK'
    <3>1. plan' \in Seq(Services) /\ at' \in 0 .. Len(plan')
      BY <2>2, <2>3, <1>1 DEF IInv, TypeOK
    <3>2. old' \in [Services -> Images] /\ next' \in 0 .. Len(Order)
      BY <2>2, <2>3, Members DEF IInv, TypeOK
    <3> QED
      BY <2>3, <3>1, <3>2 DEF IInv, TypeOK, swarm, release
  <2>5. /\ \A q \in Services \ {s} : old'[q] = old[q]
        /\ old'[s] = image[s]
    BY <2>2, <2>3 DEF IInv, TypeOK
  <2>6. ControlOK'
    BY <1>1, <2>3 DEF IInv, RunOK, ControlOK
  <2>7. PlanOK' /\ ProgressOK'
    <3>7. CASE image[s] # Image[digest][s]
      <4>1. /\ Len(plan') = Len(plan) + 1 /\ plan'[Len(plan) + 1] = s
            /\ \A j \in 1 .. Len(plan) : plan'[j] = plan[j] /\ plan[j] \in Services /\ plan[j] # s
            /\ Len(plan) \in Nat
        BY <1>1, <2>2, <2>3, <3>7 DEF IInv, TypeOK, RunOK, PlanOK, Planned
      <4>2. Planned' = Planned \cup {s}
        BY <4>1 DEF Planned
      <4>3. PlanOK'
        <5>1. \A j, k \in 1 .. Len(plan') : plan'[j] = plan'[k] => j = k
          BY <1>1, <4>1 DEF IInv, RunOK, PlanOK
        <5>2. \A q \in Planned' : q \in Inspected' /\ old'[q] # Image[digest'][q]
          BY <1>1, <2>2, <2>3, <2>5, <3>7, <4>2, Members DEF IInv, RunOK, PlanOK
        <5>3. (\A q \in Inspected \ Planned : Old(q) /\ New(q) /\ Settled(q))'
          BY <1>1, <2>2, <2>3, <2>5, <4>2, Members DEF IInv, RunOK, PlanOK, Old, New,
              Settled, swarm
        <5> QED
          BY <5>1, <5>2, <5>3 DEF PlanOK
      <4>4. ProgressOK'
        <5>1. \A j \in 1 .. Len(plan') : (Old(plan[j]) /\ Settled(plan[j]))'
          <6> SUFFICES ASSUME NEW j \in 1 .. Len(plan') PROVE (Old(plan[j]) /\ Settled(plan[j]))'
            OBVIOUS
          <6>1. CASE j = Len(plan) + 1
            BY <2>3, <2>5, <4>1, <6>1 DEF Old, Settled, swarm
          <6>2. CASE j \in 1 .. Len(plan)
            BY <1>1, <2>3, <2>5, <4>1, <6>2 DEF IInv, RunOK, ProgressOK, Old, Settled, swarm
          <6> QED
            BY <4>1, <6>1, <6>2
        <5>2. pc' = "inspect" /\ at' = 0 /\ \A j \in 1 .. Len(plan') : j > 0
          BY <1>1, <2>3
        <5> QED
          BY <5>1, <5>2 DEF ProgressOK
      <4> QED
        BY <4>3, <4>4
    <3>8. CASE image[s] = Image[digest][s]
      <4>1. plan' = plan
        BY <2>3, <3>8
      <4>2. PlanOK'
        BY <1>1, <2>2, <2>3, <2>5, <3>8, <4>1, Members DEF IInv, RunOK, PlanOK,
            Planned, Old, New, Settled, swarm
      <4>3. ProgressOK'
        <5>1. \A j \in 1 .. Len(plan) : plan[j] \in Services \ {s}
          BY <1>1, <2>2, Members DEF IInv, RunOK, PlanOK, Planned
        <5> QED
          BY <1>1, <2>3, <2>5, <4>1, <5>1 DEF IInv, RunOK, ProgressOK, Old, New,
              Settled, swarm
      <4> QED
        BY <4>2, <4>3
    <3> QED
      BY <3>7, <3>8
  <2>9. StartOK'
    BY <1>1, <2>2, <2>3, <2>5 DEF IInv, RunOK, StartOK, Excused, swarm
  <2> QED
    BY <1>1, <2>3, <2>4, <2>6, <2>7, <2>9 DEF IInv, RunOK, BetweenOK, Busy
<1>4. Fault => faults' \in 0 .. MaxFaults
  BY RolloutAssumption DEF IInv, TypeOK, Fault
<1>5. faults \in 0 .. MaxFaults
  BY DEF IInv, TypeOK
<1> QED
  BY <1>2, <1>3, <1>4, <1>5 DEF Inspect
\* A command to the current service, which nothing else is known of.
LEMMA CurrentIs ==
  ASSUME IInv, Busy, NEW c \in 1 .. Len(plan)
  PROVE  /\ plan[c] \in Services /\ plan[c] \in Inspected /\ old[plan[c]] # Image[digest][plan[c]]
         /\ \A j \in 1 .. Len(plan) : plan[j] \in Services /\ (j # c => plan[j] # plan[c])
         /\ plan[c] \in Planned
BY Members DEF IInv, RunOK, PlanOK, Planned

LEMMA CommandKeeps ==
  ASSUME TypeOK, NEW s \in Services, NEW i \in Images, Command(s, i)
  PROVE  /\ image' \in [Services -> Images] /\ previous' \in [Services -> Images]
         /\ status' \in [Services -> Unsettled \cup Failed \cup {"completed"}]
         /\ image'[s] = i /\ previous'[s] = image[s] /\ status'[s] = "updating"
         /\ \A q \in Services \ {s} :
              image'[q] = image[q] /\ previous'[q] = previous[q] /\ status'[q] = status[q]
<1>1. "updating" \in Unsettled
  BY DEF Unsettled
<1> QED
  BY <1>1 DEF TypeOK, Command

LEMMA TryStep == ASSUME IInv, Try PROVE IInv'
<1>1. /\ Busy /\ pc = "inspect" /\ next = Len(Order) /\ at < Len(plan) /\ at' = at + 1
      /\ at + 1 \in 1 .. Len(plan) /\ errors = {} /\ at \in Nat
      /\ UNCHANGED <<release, file, work, errors, excused>>
  BY Members DEF Try, Busy, IInv, RunOK, ControlOK
<1>2. PICK s : s = plan[at + 1]
  OBVIOUS
<1>3. /\ s \in Services /\ s \in Planned /\ Old(s) /\ Settled(s) /\ digest \in Releases
      /\ \A j \in 1 .. Len(plan) : plan[j] \in Services /\ (j # at + 1 => plan[j] # s)
  BY <1>1, <1>2, CurrentIs DEF IInv, RunOK, ControlOK, ProgressOK
<1>4. CASE Command(s, Image[digest][s]) /\ pc' = "wait" /\ UNCHANGED faults
  <2>1. Image[digest][s] \in Images
    BY <1>3, ImageTypes
  <2>2. /\ image' \in [Services -> Images] /\ previous' \in [Services -> Images]
        /\ status' \in [Services -> Unsettled \cup Failed \cup {"completed"}]
        /\ image'[s] = Image[digest][s] /\ previous'[s] = image[s] /\ status'[s] = "updating"
        /\ \A q \in Services \ {s} :
             image'[q] = image[q] /\ previous'[q] = previous[q] /\ status'[q] = status[q]
    BY <1>3, <1>4, <2>1, CommandKeeps DEF IInv
  <2>3. TypeOK'
    BY <1>1, <1>4, <2>2 DEF IInv, TypeOK, release, work
  <2>4. ControlOK'
    BY <1>1, <1>4 DEF IInv, RunOK, ControlOK, work
  <2>5. PlanOK'
    <3>1. Inspected' = Inspected /\ Planned' = Planned
      BY <1>1 DEF Inspected, Planned, work
    <3>2. \A q \in Inspected \ Planned : q \in Services \ {s}
      BY <1>3, Members DEF IInv
    <3>3. (\A q \in Inspected \ Planned : Old(q) /\ New(q) /\ Settled(q))'
      BY <1>1, <2>2, <3>1, <3>2 DEF IInv, RunOK, PlanOK, Old, New, Settled, work
    <3> QED
      BY <1>1, <3>1, <3>3 DEF IInv, RunOK, PlanOK, work
  <2>6. ProgressOK'
    <3> SUFFICES ASSUME NEW j \in 1 .. Len(plan) PROVE
          (/\ j < at => New(plan[j]) /\ Settled(plan[j])
           /\ j > at => Old(plan[j]) /\ Settled(plan[j])
           /\ j = at => New(plan[j]) /\ previous[plan[j]] = old[plan[j]])'
      BY <1>1, <1>4 DEF ProgressOK, work
    <3>1. CASE j = at + 1
      BY <1>1, <1>2, <1>3, <2>2, <3>1 DEF Old, New, work
    <3>2. CASE j # at + 1
      <4>1. plan[j] \in Services \ {s}
        BY <1>3, <3>2
      <4>2. /\ j <= at => New(plan[j]) /\ Settled(plan[j])
            /\ j > at => Old(plan[j]) /\ Settled(plan[j])
        BY <1>1 DEF IInv, RunOK, ProgressOK
      <4> QED
        BY <1>1, <2>2, <3>2, <4>1, <4>2 DEF Old, New, Settled, work
    <3> QED
      BY <3>1, <3>2
  <2>7. StartOK'
    <3>1. s \in Inspected /\ Inspected' = Inspected
      BY <1>1, <1>3 DEF IInv, RunOK, PlanOK, Inspected, work
    <3> QED
      BY <1>1, <2>2, <3>1 DEF IInv, RunOK, StartOK, Excused, work
  <2> QED
    BY <1>4, <2>3, <2>4, <2>5, <2>6, <2>7 DEF IInv, RunOK, BetweenOK, Busy
<1>5. CASE Fault /\ pc' = "undo" /\ UNCHANGED swarm
  <2> USE <1>1, <1>5 DEF swarm, work
  <2>1. TypeOK'
    BY RolloutAssumption DEF IInv, TypeOK, release, Fault
  <2>2. ControlOK' /\ PlanOK' /\ StartOK'
    <3>1. ControlOK'
      BY DEF IInv, RunOK, ControlOK
    <3>2. PlanOK'
      BY PlanFrame DEF IInv, RunOK
    <3>3. StartOK'
      BY DEF IInv, RunOK, StartOK, Excused, Inspected
    <3> QED
      BY <3>1, <3>2, <3>3
  <2>3. ProgressOK'
    BY DEF IInv, RunOK, ProgressOK, Old, New, Settled, Unsettled
  <2> QED
    BY <2>1, <2>2, <2>3 DEF IInv, RunOK, BetweenOK, Busy
<1> QED
  BY <1>2, <1>4, <1>5 DEF Try

LEMMA ChangedStep == ASSUME IInv, Changed PROVE IInv'
<1>1. /\ Busy /\ pc \in {"wait", "unwait"} /\ at \in 1 .. Len(plan) /\ at \in Nat
      /\ status[Current] = "completed" /\ image[Current] = Target
      /\ UNCHANGED <<swarm, release, file, work, errors, faults, excused>>
  BY Members DEF Changed, Busy, IInv, RunOK, ControlOK
<1> USE <1>1 DEF swarm, work
<1>2. CASE pc = "wait" /\ pc' = "inspect" /\ UNCHANGED at
  <2> USE <1>2
  <2>1. TypeOK'
    BY DEF IInv, TypeOK, release
  <2>2. ControlOK' /\ PlanOK' /\ StartOK'
    <3>1. ControlOK'
      BY DEF IInv, RunOK, ControlOK
    <3>2. PlanOK'
      BY PlanFrame DEF IInv, RunOK
    <3>3. StartOK'
      BY DEF IInv, RunOK, StartOK, Excused, Inspected
    <3> QED
      BY <3>1, <3>2, <3>3
  <2>3. ProgressOK'
    BY DEF IInv, RunOK, ProgressOK, Old, New, Settled, Unsettled, Current, Target
  <2> QED
    BY <2>1, <2>2, <2>3 DEF IInv, RunOK, BetweenOK, Busy
<1>3. CASE pc = "unwait" /\ pc' = "undo" /\ at' = at - 1
  <2> USE <1>3
  <2>1. TypeOK'
    BY DEF IInv, TypeOK, release
  <2>2. ControlOK' /\ PlanOK' /\ StartOK'
    <3>1. ControlOK'
      BY DEF IInv, RunOK, ControlOK
    <3>2. PlanOK'
      BY PlanFrame DEF IInv, RunOK
    <3>3. StartOK'
      BY DEF IInv, RunOK, StartOK, Excused, Inspected
    <3> QED
      BY <3>1, <3>2, <3>3
  <2>3. ProgressOK'
    BY DEF IInv, RunOK, ProgressOK, Old, New, Settled, Unsettled, Current, Target
  <2> QED
    BY <2>1, <2>2, <2>3 DEF IInv, RunOK, BetweenOK, Busy
<1> QED
  BY <1>2, <1>3 DEF Changed

\* What a failed change leads to, whatever has happened to the service.
LEMMA RaiseKeeps ==
  ASSUME IInv, pc \in {"wait", "unwait"}, Raise, faults' \in 0 .. MaxFaults,
         excused' = excused \/ excused' = excused \cup {"lost"},
         UNCHANGED <<swarm, release, file, work>>
  PROVE  IInv'
<1>1. /\ Busy /\ at \in 1 .. Len(plan) /\ at \in Nat /\ (Excused' <=> Excused)
      /\ Current \in Services
  BY Members DEF Busy, IInv, RunOK, ControlOK, Excused, Current
<1> USE <1>1 DEF swarm, work, Raise
<1>2. TypeOK'
  <2>1. errors' \subseteq Services /\ at' \in 0 .. Len(plan)
    BY DEF IInv, TypeOK
  <2> QED
    BY <2>1 DEF IInv, TypeOK, release
<1>3. ControlOK' /\ PlanOK' /\ StartOK'
  <2>1. ControlOK'
    BY DEF IInv, RunOK, ControlOK
  <2>2. PlanOK'
    BY PlanFrame DEF IInv, RunOK
  <2>3. StartOK'
    BY DEF IInv, RunOK, StartOK, Inspected
  <2> QED
    BY <2>1, <2>2, <2>3
<1>4. ProgressOK'
  <2>1. CASE pc = "wait" /\ pc' = "undo" /\ UNCHANGED <<at, errors>>
    BY <2>1 DEF IInv, RunOK, ProgressOK, Old, New, Settled, Unsettled
  <2>2. CASE pc = "unwait" /\ pc' = "undo" /\ errors' # {} /\ at' = at - 1
    BY <2>2 DEF IInv, RunOK, ProgressOK, Old, New, Settled, Unsettled
  <2> QED
    BY <2>1, <2>2
<1> QED
  BY <1>2, <1>3, <1>4 DEF IInv, RunOK, BetweenOK, Busy

LEMMA ChangeFailsStep == ASSUME IInv, ChangeFails PROVE IInv'
BY RaiseKeeps DEF ChangeFails, IInv, TypeOK

LEMMA ChangeLostStep == ASSUME IInv, ChangeLost PROVE IInv'
<1>1. faults' \in 0 .. MaxFaults
  BY RolloutAssumption DEF ChangeLost, Fault, IInv, TypeOK
<1> QED
  BY <1>1, RaiseKeeps DEF ChangeLost

LEMMA UndoStep == ASSUME IInv, Undo PROVE IInv'
<1>1. /\ Busy /\ pc = "undo" /\ at \in 1 .. Len(plan) /\ at \in Nat
      /\ UNCHANGED <<release, file, work, excused>>
  BY Members DEF Undo, Busy, IInv
<1>2. PICK s : s = Current /\ s = plan[at]
  BY DEF Current
<1>3. /\ s \in Services /\ s \in Planned /\ digest \in Releases /\ old[s] # Image[digest][s]
      /\ \A j \in 1 .. Len(plan) : plan[j] \in Services /\ (j # at => plan[j] # s)
      /\ New(s) \/ Old(s)
      /\ status[s] = "updating" => New(s) /\ previous[s] = old[s]
  BY <1>1, <1>2, CurrentIs DEF IInv, RunOK, ControlOK, ProgressOK
<1>4. CASE /\ image[s] = old[s] \/ errors' # {}
           /\ errors' \in {errors, errors \cup {s}} /\ faults' \in 0 .. MaxFaults
           /\ at' = at - 1 /\ UNCHANGED <<swarm, pc>>
  <2> USE <1>1, <1>4 DEF swarm, work
  <2>1. TypeOK'
    BY <1>3 DEF IInv, TypeOK, release
  <2>2. ControlOK' /\ PlanOK' /\ StartOK'
    <3>1. ControlOK'
      BY DEF IInv, RunOK, ControlOK
    <3>2. PlanOK'
      BY PlanFrame DEF IInv, RunOK
    <3>3. StartOK'
      BY DEF IInv, RunOK, StartOK, Excused, Inspected
    <3> QED
      BY <3>1, <3>2, <3>3
  <2>3. ProgressOK'
    BY <1>2, <1>3 DEF IInv, RunOK, ProgressOK, Old, New, Settled, Unsettled
  <2> QED
    BY <2>1, <2>2, <2>3 DEF IInv, RunOK, BetweenOK, Busy
<1>5. CASE /\ image[s] # old[s] /\ Command(s, old[s])
           /\ pc' = "unwait" /\ UNCHANGED <<at, errors, faults>>
  <2>1. old[s] \in Images
    BY <1>3 DEF IInv, TypeOK
  <2>2. /\ image' \in [Services -> Images] /\ previous' \in [Services -> Images]
        /\ status' \in [Services -> Unsettled \cup Failed \cup {"completed"}]
        /\ image'[s] = old[s] /\ previous'[s] = image[s] /\ status'[s] = "updating"
        /\ \A q \in Services \ {s} :
             image'[q] = image[q] /\ previous'[q] = previous[q] /\ status'[q] = status[q]
    BY <1>3, <1>5, <2>1, CommandKeeps DEF IInv
  <2>3. TypeOK'
    BY <1>1, <1>5, <2>2 DEF IInv, TypeOK, release, work
  <2>4. ControlOK'
    BY <1>1, <1>5 DEF IInv, RunOK, ControlOK, work
  <2>5. PlanOK'
    <3>1. Inspected' = Inspected /\ Planned' = Planned
      BY <1>1 DEF Inspected, Planned, work
    <3>2. \A q \in Inspected \ Planned : q \in Services \ {s}
      BY <1>3, Members DEF IInv
    <3>3. (\A q \in Inspected \ Planned : Old(q) /\ New(q) /\ Settled(q))'
      BY <1>1, <2>2, <3>1, <3>2 DEF IInv, RunOK, PlanOK, Old, New, Settled, work
    <3> QED
      BY <1>1, <3>1, <3>3 DEF IInv, RunOK, PlanOK, work
  <2>6. ProgressOK'
    <3> SUFFICES ASSUME NEW j \in 1 .. Len(plan) PROVE
          (/\ j < at => New(plan[j]) /\ Settled(plan[j])
           /\ j > at /\ errors = {} => Old(plan[j]) /\ status[plan[j]] # "updating")'
      BY <1>1, <1>5 DEF ProgressOK, work
    <3>1. CASE j = at
      BY <1>1, <1>5, <3>1
    <3>2. CASE j # at
      BY <1>1, <1>3, <1>5, <2>2, <3>2 DEF IInv, RunOK, ProgressOK, Old, New, Settled, work
    <3> QED
      BY <3>1, <3>2
  <2>7. StartOK'
    BY <1>1, <1>3, <2>2 DEF IInv, RunOK, StartOK, PlanOK, Excused, Inspected, work
  <2> QED
    BY <1>5, <2>3, <2>4, <2>5, <2>6, <2>7 DEF IInv, RunOK, BetweenOK, Busy
<1>6. Fault => faults' \in 0 .. MaxFaults
  BY RolloutAssumption DEF Fault, IInv, TypeOK
<1> QED
  BY <1>2, <1>4, <1>5, <1>6 DEF Undo, IInv, TypeOK

\* The run that ends well has brought every service to the release.
LEMMA SuccessIsUniform ==
  ASSUME IInv, pc = "inspect", next = Len(Order), at = Len(plan)
  PROVE  \A s \in Services : New(s) /\ Settled(s)
<1> SUFFICES ASSUME NEW s \in Services PROVE New(s) /\ Settled(s)
  OBVIOUS
<1>1. Busy /\ s \in Inspected
  BY Members DEF Busy, Inspected, IInv
<1>2. CASE s \in Planned
  <2>1. PICK j \in 1 .. Len(plan) : plan[j] = s
    BY <1>2 DEF Planned
  <2>2. j < at \/ j = at
    BY Members DEF IInv
  <2> QED
    BY <1>1, <2>1, <2>2 DEF IInv, RunOK, ProgressOK
<1>3. CASE s \notin Planned
  BY <1>1, <1>3 DEF IInv, RunOK, PlanOK
<1> QED
  BY <1>2, <1>3

\* The run that fails without an error of its recovery leaves what it found.
LEMMA FailureIsUndone ==
  ASSUME IInv, pc = "failed" \/ (pc = "undo" /\ at = 0), errors = {}, ~Excused
  PROVE  \E r \in Releases : Uniform(r) /\ \A s \in Services : status[s] # "updating"
<1>1. Busy /\ at = 0
  BY DEF Busy, IInv, RunOK, ControlOK
<1>2. \A s \in Inspected : Old(s) /\ status[s] # "updating"
  <2> SUFFICES ASSUME NEW s \in Inspected PROVE Old(s) /\ status[s] # "updating"
    OBVIOUS
  <2>1. CASE s \in Planned
    <3>1. PICK j \in 1 .. Len(plan) : plan[j] = s
      BY <2>1 DEF Planned
    <3>2. j > at
      BY <1>1
    <3> QED
      BY <1>1, <3>1, <3>2 DEF IInv, RunOK, ProgressOK, Settled, Unsettled
  <2>2. CASE s \notin Planned
    BY <1>1, <2>2 DEF IInv, RunOK, PlanOK, Settled, Unsettled
  <2> QED
    BY <2>1, <2>2
<1>3. PICK r \in Releases : \A s \in Services :
        IF s \in Inspected THEN old[s] = Image[r][s]
                           ELSE image[s] = Image[r][s] /\ status[s] # "updating"
  BY <1>1 DEF IInv, RunOK, StartOK
<1> QED
  BY <1>2, <1>3 DEF Uniform, Old

LEMMA SaveStep == ASSUME IInv, Save PROVE IInv'
<1>1. /\ pc # "idle" /\ pc' = "idle"
      /\ UNCHANGED <<swarm, release, work, at, errors, faults>>
  BY DEF Save
<1>2. digest \in Releases
  BY <1>1 DEF IInv, RunOK, Busy, ControlOK
<1>3. CASE /\ pc = "failed" \/ (pc = "undo" /\ at = 0)
           /\ file' = [file EXCEPT !.failed = digest]
           /\ excused' = IF errors = {} THEN excused ELSE excused \cup {"manual"}
  <2>1. TypeOK'
    BY <1>1, <1>2, <1>3 DEF IInv, TypeOK, swarm, release, work
  <2>2. BetweenOK'
    BY <1>1, <1>3, FailureIsUndone DEF BetweenOK, Excused, Uniform, swarm
  <2> QED
    BY <1>1, <2>1, <2>2 DEF IInv, RunOK, Busy
<1>4. CASE /\ pc = "inspect" /\ next = Len(Order) /\ at = Len(plan)
           /\ file' = [applied |-> digest, failed |-> None]
           /\ excused' = {}
  <2>1. TypeOK'
    BY <1>1, <1>2, <1>4 DEF IInv, TypeOK, swarm, release, work
  <2>2. BetweenOK'
    BY <1>1, <1>2, <1>4, SuccessIsUniform DEF BetweenOK, Uniform, New, Settled,
        Unsettled, swarm
  <2> QED
    BY <1>1, <2>1, <2>2 DEF IInv, RunOK, Busy
<1> QED
  BY <1>3, <1>4 DEF Save

LEMMA KillStep == ASSUME IInv, Kill PROVE IInv'
<1> USE DEF Kill
<1>1. TypeOK'
  BY RolloutAssumption DEF IInv, TypeOK, swarm, release, work, Fault
<1> QED
  BY <1>1 DEF IInv, RunOK, BetweenOK, Busy, Excused

LEMMA StutterStep == ASSUME IInv, UNCHANGED vars PROVE IInv'
<1> USE DEF vars, swarm, release, work
<1>1. TypeOK'
  BY DEF IInv, TypeOK
<1>2. RunOK' /\ BetweenOK'
  BY DEF IInv, RunOK, BetweenOK, Busy, ControlOK, PlanOK, ProgressOK, StartOK, Excused,
      Inspected,
     Planned, Settled, Old, New, Uniform
<1> QED
  BY <1>1, <1>2 DEF IInv

LEMMA StepHolds == IInv /\ [Next]_vars => IInv'
BY PublishStep, SettleStep, TaskFailsStep, RollbackFailsStep, BeginStep, InspectStep,
    TryStep,
   ChangedStep, ChangeFailsStep, UndoStep, SaveStep, ChangeLostStep, KillStep, StutterStep
   DEF Next, Updater

\* The inductive invariant: what the running updater knows of each service in its
\* plan, and that between runs the services are at one release or excused.
THEOREM Invariance == Spec => []IInv
<1> QED
  BY InitHolds, StepHolds, PTL DEF Spec

(***************************************************************************)
(* The theorems.                                                           *)
(***************************************************************************)
\* Every variable of the updater and of Swarm keeps its type: the index of the
\* service in hand never leaves the plan.
THEOREM TypeCorrect == Spec => []TypeOK
<1>1. IInv => TypeOK
  BY DEF IInv
<1> QED
  BY <1>1, Invariance, PTL

\* Between two runs the services are at one release, unless the updater was
\* killed or has asked for manual recovery: preflight, reverse order and old
\* images restore what was there, whatever Swarm rolled back itself.
THEOREM OneRelease == Spec => []AllOrNothing
<1>1. IInv => AllOrNothing
  BY DEF IInv, BetweenOK, AllOrNothing, Excused
<1> QED
  BY <1>1, Invariance, PTL

\* state.json names a release as applied only when every service runs it and no
\* update that might be rolled back is under way.
THEOREM AppliedMeansUniform == Spec => AppliedIsUniform
<1>1. ASSUME IInv, [Next]_vars
      PROVE  file'.applied # file.applied =>
               Uniform(file'.applied) /\ \A s \in Services : status[s] \notin Unsettled
  <2> SUFFICES ASSUME file'.applied # file.applied
               PROVE  Uniform(file'.applied) /\ \A s \in Services : status[s] \notin Unsettled
    OBVIOUS
  <2>1. Save
    BY <1>1 DEF Next, vars, release, Publish, Settle, TaskFails, RollbackFails, Begin,
        Updater, Inspect,
       Try, Changed, ChangeFails, Undo, ChangeLost, Kill
  <2>2. pc = "inspect" /\ next = Len(Order) /\ at = Len(plan) /\ file'.applied = digest
    BY <1>1, <2>1 DEF Save, IInv, TypeOK
  <2> QED
    BY <1>1, <2>2, SuccessIsUniform DEF Uniform, New, Settled
<1> QED
  BY <1>1, Invariance, PTL DEF Spec, AppliedIsUniform

(***************************************************************************)
(* LoginRouting.  The updater above replaces one container of a service    *)
(* after the other has stopped; this is what that means for the hash that  *)
(* the chat nodes register in.                                             *)
(***************************************************************************)
\* One process of a name is alive.
OnePerName ==
  \A p, q \in Procs : Alive(p) /\ Alive(q) /\ Name[p] = Name[q] => p = q

\* What the logic thread of p has counted and what is in the hash.  The value that
\* is written lies between HGET and HSET in count; nothing else may have written
\* the field meanwhile.
CountOK(p) ==
  /\ logins[p] <= done[p] /\ done[p] <= posted[p] /\ posted[p] <= packets
  /\ wpc[p] # "idle" => logins[p] < done[p]
  /\ phase[p] \in {"new", "listening"} => posted[p] = 0 /\ wpc[p] = "idle"
  /\ wpc[p] \in {"hset", "sent"} => 1 <= count[p] /\ count[p] <= logins[p] + 1
  /\ Alive(p) /\ phase[p] # "listening" => login_count[Name[p]] <= logins[p]
  /\ phase[p] = "serving" =>
       /\ login_count[Name[p]] # Absent
       /\ p \notin lost => /\ login_count[Name[p]] = logins[p]
                           /\ wpc[p] \in {"hset", "sent"} => count[p] = logins[p] + 1

\* The scan: the server chosen so far is no worse than any that was read.
ScanOK ==
  /\ least.name = NoName => least.con_count = INT_MAX
  /\ todo = {} => routed = least \/ witnesses = {}
  /\ \A p \in witnesses :
       /\ phase[p] \notin {"new", "listening"}
       /\ phase[p] = "serving" /\ p \notin lost /\ Name[p] \notin todo =>
            least.name # NoName /\ least.con_count <= login_count[Name[p]]

RoutingInv == /\ RoutingTypeOK /\ OnePerName /\ ScanOK
              /\ \A p \in Procs : CountOK(p)

LEMMA RoutingInitially ==
  ASSUME RoutingInit
  PROVE  RoutingInv
<1> USE RoutingAssumption DEF RoutingInit
<1>1. RoutingTypeOK
  BY DEF RoutingTypeOK, Phase, WPC, NoServer, Absent,
         INT_MAX
<1>2. OnePerName /\ \A p \in Procs : CountOK(p)
  BY DEF OnePerName, CountOK, Alive
<1>3. ScanOK
  BY DEF ScanOK, NoServer
<1> QED
  BY <1>1, <1>2, <1>3 DEF RoutingInv

\* A step of one process: the others keep what they have, since the field of their
\* name is not its.
LEMMA ProcessStep ==
  ASSUME RoutingInv, NEW p \in Procs, RoutingTypeOK',
         \A q \in Procs \ {p} :
           /\ phase'[q] = phase[q] /\ posted'[q] = posted[q] /\ done'[q] = done[q]
           /\ wpc'[q] = wpc[q] /\ count'[q] = count[q] /\ logins'[q] = logins[q],
         \A n \in Names \ {Name[p]} : login_count'[n] = login_count[n],
         packets <= packets', lost \subseteq lost',
         UNCHANGED <<todo, least, routed, witnesses>>,
         \/ Alive(p)
         \/ /\ login_count' = login_count
            /\ \A q \in Procs : Name[q] = Name[p] => ~Alive(q),
         phase[p] \notin {"new", "listening"} => phase'[p] \notin {"new", "listening"},
         phase'[p] = "serving" /\ p \notin lost' /\ phase[p] # "listening" =>
           /\ phase[p] = "serving" /\ p \notin lost
           /\ login_count[Name[p]] <= login_count'[Name[p]],
         CountOK(p)'
  PROVE  RoutingInv'
<1>1. OnePerName'
  BY DEF RoutingInv, OnePerName, Alive
<1>2. ASSUME NEW q \in Procs \ {p}
      PROVE  login_count'[Name[q]] = login_count[Name[q]] \/ ~Alive(q)
  BY RoutingAssumption DEF RoutingInv, OnePerName
<1>3. ASSUME NEW q \in Procs \ {p} PROVE CountOK(q)'
  <2>1. CountOK(q) /\ (Alive(q)' => Alive(q))
    BY DEF RoutingInv, Alive
  <2>2. phase[q] = "serving" => Alive(q)
    BY DEF Alive
  <2>3. posted[q] \in Int /\ packets \in Int /\ packets' \in Int
    BY DEF RoutingInv, RoutingTypeOK
  <2> QED
    BY <1>2, <2>1, <2>2, <2>3 DEF CountOK
<1>4. ScanOK'
  <2>1. ASSUME NEW q \in witnesses, phase'[q] = "serving", q \notin lost'
        PROVE  /\ phase[q] = "serving" /\ q \notin lost
               /\ login_count[Name[q]] <= login_count'[Name[q]]
    <3>1. q \in Procs /\ Name[q] \in Names /\ phase[q] \notin {"new", "listening"}
      BY RoutingAssumption DEF RoutingInv, RoutingTypeOK, ScanOK
    <3>2. CASE q = p
      BY <2>1, <3>1, <3>2
    <3>3. CASE q # p
      <4>1. phase[q] = "serving" /\ q \notin lost
        BY <2>1, <3>1, <3>3
      <4>2. login_count'[Name[q]] = login_count[Name[q]]
        BY <1>2, <3>1, <3>3, <4>1 DEF Alive
      <4>3. login_count[Name[q]] \in Int
        BY <3>1 DEF RoutingInv, RoutingTypeOK, Absent
      <4> QED
        BY <4>1, <4>2, <4>3
    <3> QED
      BY <3>2, <3>3
  <2>2. ASSUME NEW q \in witnesses PROVE phase'[q] \notin {"new", "listening"}
    BY <2>2 DEF RoutingInv, RoutingTypeOK, ScanOK
  <2>3. ASSUME NEW q \in witnesses, phase'[q] = "serving", q \notin lost', Name[q] \notin todo
        PROVE  least.name # NoName /\ least.con_count <= login_count'[Name[q]]
    <3>1. /\ least.name # NoName /\ least.con_count <= login_count[Name[q]]
          /\ login_count[Name[q]] <= login_count'[Name[q]]
      BY <2>1, <2>3 DEF RoutingInv, ScanOK
    <3>2. /\ Name[q] \in Names /\ login_count[Name[q]] \in Int
          /\ login_count'[Name[q]] \in Int /\ least.con_count \in Int
      BY RoutingAssumption DEF RoutingInv, RoutingTypeOK, Absent, INT_MAX
    <3> QED
      BY <3>1, <3>2
  <2> QED
    BY <2>2, <2>3 DEF RoutingInv, ScanOK
<1> QED
  BY <1>1, <1>3, <1>4 DEF RoutingInv

\* What CountOK and the types say of one process, as numbers.
LEMMA Numbers ==
  ASSUME RoutingInv, NEW p \in Procs
  PROVE  /\ posted[p] \in Nat /\ done[p] \in Nat /\ logins[p] \in Nat /\ count[p] \in Nat
         /\ packets \in Nat /\ MaxLogins \in Nat /\ packets <= MaxLogins
         /\ Name[p] \in Names /\ login_count[Name[p]] \in Int
         /\ login_count[Name[p]] >= Absent /\ Absent = -1
         /\ CountOK(p)
BY RoutingAssumption DEF RoutingInv, RoutingTypeOK, Absent

LEMMA StartStep ==
  ASSUME RoutingInv, NEW p \in Procs, Start(p)
  PROVE  RoutingInv'
<1>1. /\ phase[p] = "new" /\ phase' = [phase EXCEPT ![p] = "listening"]
      /\ \A q \in Procs : Name[q] = Name[p] => ~Alive(q)
      /\ UNCHANGED <<login_count, posted, packets, done, wpc, count, todo, least, routed,
                     witnesses, scans, logins, lost, nodeFaults>>
  BY DEF Start, Goto, worker, queue, scanning,
         history
<1>2. phase \in [Procs -> Phase]
  BY DEF RoutingInv, RoutingTypeOK
<1>3. RoutingTypeOK'
  BY <1>1, <1>2 DEF RoutingInv, RoutingTypeOK, Phase
<1>4. CountOK(p)'
  BY <1>1, <1>2, Numbers DEF CountOK
<1>5. packets <= packets'
  BY <1>1, Numbers
<1> QED
  BY <1>1, <1>2, <1>3, <1>4, <1>5, ProcessStep

LEMMA RegisterStep ==
  ASSUME RoutingInv, NEW p \in Procs, Register(p)
  PROVE  RoutingInv'
<1>1. /\ phase[p] = "listening"
      /\ \/ /\ lost' = lost /\ nodeFaults' = nodeFaults
            /\ login_count' = [login_count EXCEPT ![Name[p]] = 0]
            /\ phase' = [phase EXCEPT ![p] = "serving"]
         \/ /\ nodeFaults < MaxNodeFaults /\ nodeFaults' = nodeFaults + 1
            /\ lost' = lost \cup {p}
            /\ \/ login_count' = login_count
               \/ login_count' = [login_count EXCEPT ![Name[p]] = 0]
            /\ phase' = [phase EXCEPT ![p] = "dead"]
      /\ UNCHANGED <<posted, packets, done, wpc, count, todo, least, routed,
                     witnesses, scans, logins>>
  BY DEF Register, Goto, worker, queue, scanning,
         Works, Fails
<1>2. /\ phase \in [Procs -> Phase] /\ lost \subseteq Procs
      /\ nodeFaults \in 0 .. MaxNodeFaults /\ MaxNodeFaults \in Nat
      /\ login_count \in [Names -> Absent .. MaxLogins]
  BY RoutingAssumption DEF RoutingInv, RoutingTypeOK
<1>3. RoutingTypeOK'
  <2>1. login_count' \in [Names -> Absent .. MaxLogins]
    BY <1>1, <1>2, Numbers
  <2>2. nodeFaults' \in 0 .. MaxNodeFaults /\ lost' \subseteq Procs
    BY <1>1, <1>2
  <2>3. phase' \in [Procs -> Phase]
    BY <1>1, <1>2 DEF Phase
  <2> QED
    BY <1>1, <2>1, <2>2, <2>3 DEF RoutingInv, RoutingTypeOK
<1>4. CountOK(p)'
  <2>1. logins[p] = 0 /\ wpc[p] = "idle" /\ posted[p] = 0
    BY <1>1, Numbers DEF CountOK
  <2>2. CASE phase' = [phase EXCEPT ![p] = "serving"]
             /\ login_count' = [login_count EXCEPT ![Name[p]] = 0]
    <3>1. phase'[p] = "serving" /\ login_count'[Name[p]] = 0
      BY <1>2, <2>2, Numbers
    <3> QED
      BY <1>1, <2>1, <3>1, Numbers DEF CountOK
  <2>3. CASE phase' = [phase EXCEPT ![p] = "dead"]
    <3>1. phase'[p] = "dead"
      BY <1>2, <2>3
    <3> QED
      BY <1>1, <2>1, <3>1, Numbers DEF CountOK, Alive
  <2> QED
    BY <1>1, <2>2, <2>3
<1>5. \A n \in Names \ {Name[p]} : login_count'[n] = login_count[n]
  BY <1>1, <1>2
<1>6. packets <= packets' /\ Alive(p)
  BY <1>1, Numbers DEF Alive
<1>7. phase'[p] \in {"serving", "dead"}
  BY <1>1, <1>2
<1> QED
  BY <1>1, <1>2, <1>3, <1>4, <1>5, <1>6, <1>7, ProcessStep

\* The steps of main() after Register, and the end of a process: the field is left
\* or written with -1 (absent), the process serves no more, its worker stays.
LEMMA LeaveStep ==
  ASSUME RoutingInv, NEW p \in Procs, Alive(p),
         NEW ph \in {"stopping", "ended", "closing", "closed", "stopped", "dead"},
         phase[p] # "listening" \/ ph = "dead",
         phase' = [phase EXCEPT ![p] = ph],
         \/ login_count' = login_count
         \/ \E v \in Absent .. MaxLogins :
              /\ login_count' = [login_count EXCEPT ![Name[p]] = v]
              /\ v <= logins[p] \/ ph = "dead",
         \/ lost' = lost /\ nodeFaults' = nodeFaults
         \/ /\ nodeFaults < MaxNodeFaults /\ nodeFaults' = nodeFaults + 1
            /\ lost' = lost \cup {p},
         UNCHANGED <<posted, packets, done, wpc, count, todo, least, routed,
                     witnesses, scans, logins>>
  PROVE  RoutingInv'
<1>1. /\ phase \in [Procs -> Phase] /\ lost \subseteq Procs
      /\ nodeFaults \in 0 .. MaxNodeFaults /\ MaxNodeFaults \in Nat
      /\ login_count \in [Names -> Absent .. MaxLogins]
  BY RoutingAssumption DEF RoutingInv, RoutingTypeOK
<1>2. RoutingTypeOK'
  <2>1. login_count' \in [Names -> Absent .. MaxLogins]
    BY <1>1
  <2>2. nodeFaults' \in 0 .. MaxNodeFaults /\ lost' \subseteq Procs
    BY <1>1
  <2>3. phase' \in [Procs -> Phase]
    BY <1>1 DEF Phase
  <2> QED
    BY <2>1, <2>2, <2>3 DEF RoutingInv, RoutingTypeOK
<1>3. phase'[p] = ph
  BY <1>1
<1>4. login_count'[Name[p]] <= logins[p] \/ ph = "dead"
  <2>1. CASE login_count' = login_count
    BY <2>1, Numbers DEF CountOK
  <2>2. CASE login_count' # login_count
    BY <1>1, <2>2, Numbers
  <2> QED
    BY <2>1, <2>2
<1>5. CountOK(p)'
  BY <1>3, <1>4, Numbers DEF CountOK, Alive
<1>6. \A n \in Names \ {Name[p]} : login_count'[n] = login_count[n]
  BY <1>1
<1>7. packets <= packets' /\ lost \subseteq lost'
  BY Numbers
<1>8. \A q \in Procs \ {p} : phase'[q] = phase[q]
  BY <1>1
<1> QED
  BY <1>2, <1>3, <1>5, <1>6, <1>7, <1>8, ProcessStep

LEMMA MainSteps ==
  ASSUME RoutingInv, NEW p \in Procs,
         \/ Signal(p) \/ RunReturns(p) \/ RemoveAgain(p)
         \/ CloseRedis(p) \/ Exit(p)
  PROVE  RoutingInv'
<1>1. /\ UNCHANGED <<posted, packets, done, wpc, count, todo, least, routed,
                     witnesses, scans, logins>>
      /\ phase[p] \in {"serving", "stopping", "ended", "closing", "closed"}
      /\ \/ lost' = lost /\ nodeFaults' = nodeFaults
         \/ /\ nodeFaults < MaxNodeFaults /\ nodeFaults' = nodeFaults + 1
            /\ lost' = lost \cup {p}
      /\ \/ login_count' = login_count
         \/ login_count' = [login_count EXCEPT ![Name[p]] = Absent]
  BY DEF Signal, RunReturns, RemoveAgain, CloseRedis,
         Exit, HDel, worker, queue, scanning,
         history, Works, Fails
<1>2. PICK ph \in {"stopping", "ended", "closing", "closed", "stopped"} :
         phase' = [phase EXCEPT ![p] = ph]
  BY DEF Signal, RunReturns, RemoveAgain, CloseRedis,
         Exit, Goto
<1>3. /\ Absent \in Absent .. MaxLogins /\ Absent <= logins[p]
      /\ Alive(p)
  BY <1>1, Numbers DEF Alive
<1> QED
  BY <1>1, <1>2, <1>3, LeaveStep

LEMMA NodeKillStep ==
  ASSUME RoutingInv, NEW p \in Procs, KillNode(p)
  PROVE  RoutingInv'
<1>1. /\ UNCHANGED <<posted, packets, done, wpc, count, todo, least, routed,
                     witnesses, scans, logins>>
      /\ Alive(p) /\ phase' = [phase EXCEPT ![p] = "dead"]
      /\ nodeFaults < MaxNodeFaults /\ nodeFaults' = nodeFaults + 1
      /\ lost' = lost \cup {p}
  BY DEF KillNode, Goto, worker, queue, scanning,
         Fails
<1>2. \/ login_count' = login_count
      \/ \E v \in {count[p], 0, Absent} :
           login_count' = [login_count EXCEPT ![Name[p]] = v]
  BY DEF KillNode
<1>3. {count[p], 0, Absent} \subseteq Absent .. MaxLogins
  BY Numbers DEF RoutingInv, RoutingTypeOK
<1> QED
  BY <1>1, <1>2, <1>3, LeaveStep

\* A step of the logic thread, or a packet for it: main() stays where it is.
LEMMA WorkerKeeps ==
  ASSUME RoutingInv, NEW p \in Procs,
         Alive(p), phase' = phase, RoutingTypeOK',
         \A q \in Procs \ {p} :
           /\ posted'[q] = posted[q] /\ done'[q] = done[q]
           /\ wpc'[q] = wpc[q] /\ count'[q] = count[q] /\ logins'[q] = logins[q],
         \A n \in Names \ {Name[p]} : login_count'[n] = login_count[n],
         p \in lost' \/ login_count[Name[p]] <= login_count'[Name[p]]
           \/ phase[p] # "serving",
         packets <= packets', lost \subseteq lost',
         UNCHANGED <<todo, least, routed, witnesses>>, CountOK(p)'
  PROVE  RoutingInv'
BY ProcessStep

LEMMA PostStep ==
  ASSUME RoutingInv, NEW p \in Procs, Post(p)
  PROVE  RoutingInv'
<1>1. /\ phase[p] \in {"serving", "stopping"} /\ packets < MaxLogins
      /\ packets' = packets + 1 /\ posted' = [posted EXCEPT ![p] = @ + 1]
      /\ UNCHANGED <<login_count, phase, done, wpc, count, todo, least, routed,
                     witnesses, scans, logins, lost, nodeFaults>>
  BY DEF Post, registry, scanning, history
<1>2. /\ posted \in [Procs -> 0 .. MaxLogins] /\ posted[p] + 1 \in 0 .. MaxLogins
      /\ packets' \in 0 .. MaxLogins /\ packets <= packets'
      /\ Alive(p)
  BY <1>1, Numbers DEF CountOK, RoutingInv, RoutingTypeOK, Alive
<1>3. posted' \in [Procs -> 0 .. MaxLogins] /\ posted'[p] = posted[p] + 1
  BY <1>1, <1>2
<1>4. RoutingTypeOK'
  BY <1>1, <1>2, <1>3 DEF RoutingInv, RoutingTypeOK
<1>5. CountOK(p)'
  BY <1>1, <1>3, Numbers DEF CountOK, Alive
<1>6. /\ \A q \in Procs \ {p} : posted'[q] = posted[q]
      /\ login_count[Name[p]] <= login_count'[Name[p]]
  BY <1>1, <1>2, Numbers
<1> QED
  BY <1>1, <1>2, <1>4, <1>5, <1>6, WorkerKeeps

LEMMA TakeStep ==
  ASSUME RoutingInv, NEW p \in Procs, Take(p)
  PROVE  RoutingInv'
<1>1. /\ Alive(p) /\ wpc[p] = "idle" /\ done[p] < posted[p]
      /\ done' = [done EXCEPT ![p] = @ + 1] /\ wpc' = [wpc EXCEPT ![p] = "token"]
      /\ UNCHANGED <<login_count, phase, posted, packets, count, todo, least, routed,
                     witnesses, scans, logins, lost, nodeFaults>>
  BY DEF Take, At, registry, queue, scanning,
         history
<1>2. /\ done \in [Procs -> 0 .. MaxLogins] /\ wpc \in [Procs -> WPC]
      /\ done[p] + 1 \in 0 .. MaxLogins
  BY <1>1, Numbers DEF CountOK, RoutingInv, RoutingTypeOK
<1>3. /\ done' \in [Procs -> 0 .. MaxLogins] /\ done'[p] = done[p] + 1
      /\ wpc' \in [Procs -> WPC] /\ wpc'[p] = "token"
  BY <1>1, <1>2 DEF WPC
<1>4. RoutingTypeOK'
  BY <1>1, <1>3 DEF RoutingInv, RoutingTypeOK
<1>5. CountOK(p)'
  BY <1>1, <1>3, Numbers DEF CountOK, Alive
<1>6. /\ \A q \in Procs \ {p} : done'[q] = done[q] /\ wpc'[q] = wpc[q]
      /\ login_count[Name[p]] <= login_count'[Name[p]] /\ packets <= packets'
  BY <1>1, <1>2, Numbers
<1> QED
  BY <1>1, <1>4, <1>5, <1>6, WorkerKeeps

\* Redis answers, or fails the process.
Served(p) == \/ lost' = lost /\ nodeFaults' = nodeFaults
             \/ /\ nodeFaults < MaxNodeFaults /\ nodeFaults' = nodeFaults + 1
                /\ lost' = lost \cup {p}

LEMMA ServedTypes ==
  ASSUME RoutingInv, NEW p \in Procs, Served(p)
  PROVE  /\ nodeFaults' \in 0 .. MaxNodeFaults /\ lost' \subseteq Procs
         /\ lost \subseteq lost'
BY RoutingAssumption DEF RoutingInv, RoutingTypeOK, Served

LEMMA LoginSteps ==
  ASSUME RoutingInv, NEW p \in Procs,
         Authenticate(p) \/ HSetConnection(p)
  PROVE  RoutingInv'
<1>1. /\ Alive(p) /\ Served(p)
      /\ UNCHANGED <<login_count, phase, posted, packets, done, count, todo, least, routed,
                     witnesses, scans, logins>>
  BY DEF Authenticate, HSetConnection, registry, queue,
         scanning, Works, Fails, Served
<1>2. PICK label \in {"idle", "hget", "sent"} :
         /\ wpc' = [wpc EXCEPT ![p] = label] /\ wpc[p] # "idle"
         /\ label = "sent" => wpc[p] = "hset"
  BY DEF Authenticate, HSetConnection, At
<1>3. wpc' \in [Procs -> WPC] /\ wpc'[p] = label
  BY <1>2 DEF RoutingInv, RoutingTypeOK, WPC
<1>4. RoutingTypeOK'
  BY <1>1, <1>3, ServedTypes DEF RoutingInv, RoutingTypeOK
<1>5. CountOK(p)'
  BY <1>1, <1>2, <1>3, ServedTypes, Numbers DEF CountOK, Alive
<1>6. /\ \A q \in Procs \ {p} : wpc'[q] = wpc[q]
      /\ login_count[Name[p]] <= login_count'[Name[p]] /\ packets <= packets'
  BY <1>1, <1>2, Numbers DEF RoutingInv, RoutingTypeOK
<1> QED
  BY <1>1, <1>4, <1>5, <1>6, ServedTypes, WorkerKeeps

LEMMA HGetStep ==
  ASSUME RoutingInv, NEW p \in Procs, HGet(p)
  PROVE  RoutingInv'
<1> DEFINE seen == login_count[Name[p]]
<1>1. /\ Alive(p) /\ Served(p) /\ wpc[p] = "hget"
      /\ wpc' = [wpc EXCEPT ![p] = "hset"]
      /\ UNCHANGED <<login_count, phase, posted, packets, done, todo, least, routed,
                     witnesses, scans, logins>>
  BY DEF HGet, At, registry, queue,
         scanning, Works, Fails, Served
<1>2. PICK c : /\ count' = [count EXCEPT ![p] = c]
               /\ \/ c = (IF seen = Absent THEN 1 ELSE seen + 1)
                  \/ c = 1 /\ phase[p] = "closed"
                  \/ c = 1 /\ p \in lost'
  BY DEF HGet, Refused, Fails
<1>3. phase[p] \notin {"new", "listening"} /\ seen <= logins[p]
  BY <1>1, Numbers DEF CountOK
<1>4. c \in 1 .. logins[p] + 1 /\ logins[p] + 1 <= MaxLogins
  BY <1>1, <1>2, <1>3, Numbers DEF CountOK
<1>5. phase[p] = "serving" /\ p \notin lost' => c = logins[p] + 1
  BY <1>1, <1>2, ServedTypes, Numbers DEF CountOK
<1>6. /\ wpc' \in [Procs -> WPC] /\ wpc'[p] = "hset"
      /\ count' \in [Procs -> 0 .. MaxLogins] /\ count'[p] = c
  BY <1>1, <1>2, <1>4, Numbers DEF RoutingInv, RoutingTypeOK, WPC
<1>7. RoutingTypeOK'
  BY <1>1, <1>6, ServedTypes DEF RoutingInv, RoutingTypeOK
<1>8. CountOK(p)'
  BY <1>1, <1>3, <1>4, <1>5, <1>6, ServedTypes, Numbers DEF CountOK, Alive
<1>9. /\ \A q \in Procs \ {p} : wpc'[q] = wpc[q] /\ count'[q] = count[q]
      /\ login_count[Name[p]] <= login_count'[Name[p]] /\ packets <= packets'
  BY <1>1, <1>2, Numbers DEF RoutingInv, RoutingTypeOK
<1> QED
  BY <1>1, <1>7, <1>8, <1>9, ServedTypes, WorkerKeeps

LEMMA HSetStep ==
  ASSUME RoutingInv, NEW p \in Procs, HSet(p)
  PROVE  RoutingInv'
<1>1. /\ Alive(p) /\ Served(p) /\ wpc[p] = "sent"
      /\ wpc' = [wpc EXCEPT ![p] = "idle"]
      /\ UNCHANGED <<phase, posted, packets, done, count, todo, least, routed,
                     witnesses, scans>>
  BY DEF HSet, At, queue, scanning, Works,
         Fails, Served
<1>2. \/ /\ login_count' = [login_count EXCEPT ![Name[p]] = count[p]]
         /\ logins' = [logins EXCEPT ![p] = @ + 1]
      \/ p \in lost' /\ UNCHANGED <<login_count, logins>>
  BY DEF HSet, Fails
<1>3. /\ phase[p] \notin {"new", "listening"} /\ count[p] \in 1 .. logins[p] + 1
      /\ logins[p] + 1 <= done[p] /\ logins[p] + 1 \in 0 .. MaxLogins
      /\ count[p] \in 0 .. MaxLogins
  BY <1>1, Numbers DEF CountOK
<1>4. /\ login_count \in [Names -> Absent .. MaxLogins]
      /\ logins \in [Procs -> 0 .. MaxLogins] /\ wpc \in [Procs -> WPC]
  BY DEF RoutingInv, RoutingTypeOK
<1>5. /\ login_count' \in [Names -> Absent .. MaxLogins]
      /\ logins' \in [Procs -> 0 .. MaxLogins]
      /\ wpc' \in [Procs -> WPC] /\ wpc'[p] = "idle"
  <2>1. wpc' \in [Procs -> WPC] /\ wpc'[p] = "idle"
    BY <1>1, <1>4 DEF WPC
  <2>2. count[p] \in Absent .. MaxLogins
    BY <1>3, Numbers
  <2> QED
    BY <1>2, <1>3, <1>4, <2>1, <2>2
<1>6. RoutingTypeOK'
  BY <1>1, <1>5, ServedTypes DEF RoutingInv, RoutingTypeOK
<1>7. \/ login_count'[Name[p]] = count[p] /\ logins'[p] = logins[p] + 1
      \/ p \in lost' /\ UNCHANGED <<login_count, logins>>
  BY <1>2, <1>4, Numbers
<1>8. CountOK(p)'
  BY <1>1, <1>3, <1>5, <1>7, ServedTypes, Numbers DEF CountOK, Alive
<1>9. p \in lost' \/ login_count[Name[p]] <= login_count'[Name[p]] \/ phase[p] # "serving"
  BY <1>1, <1>7, ServedTypes, Numbers DEF CountOK
<1>10. /\ \A q \in Procs \ {p} : wpc'[q] = wpc[q] /\ logins'[q] = logins[q]
       /\ \A n \in Names \ {Name[p]} : login_count'[n] = login_count[n]
       /\ packets <= packets'
  BY <1>1, <1>2, <1>4, Numbers
<1> QED
  BY <1>1, <1>6, <1>8, <1>9, <1>10, ServedTypes, WorkerKeeps

\* getChatServer changes nothing of the processes.
LEMMA ScanKeeps ==
  ASSUME RoutingInv,
         UNCHANGED <<login_count, phase, posted, packets, done, wpc, count, logins, lost>>
  PROVE  OnePerName' /\ \A p \in Procs : CountOK(p)'
BY DEF RoutingInv, OnePerName, CountOK, Alive

LEMMA ScanBeginStep ==
  ASSUME RoutingInv, ScanBegin
  PROVE  RoutingInv'
<1>1. /\ scans < MaxScans /\ scans' = scans + 1
      /\ todo' = Names /\ least' = NoServer
      /\ witnesses' = {p \in Procs : phase[p] = "serving"}
      /\ UNCHANGED <<login_count, phase, posted, packets, done, wpc, count, routed, logins,
                     lost, nodeFaults>>
  BY DEF ScanBegin, registry, worker, queue, history
<1>2. RoutingTypeOK'
  BY <1>1, RoutingAssumption DEF RoutingInv, RoutingTypeOK, NoServer, INT_MAX
<1>3. ScanOK'
  BY <1>1, RoutingAssumption DEF ScanOK, NoServer
<1> QED
  BY <1>1, <1>2, <1>3, ScanKeeps DEF RoutingInv

LEMMA ScanStep ==
  ASSUME RoutingInv, NEW n \in Names, Scan(n)
  PROVE  RoutingInv'
<1> DEFINE c == login_count[n]
           better == c # Absent /\ c < least.con_count
<1>1. /\ n \in todo /\ todo' = todo \ {n}
      /\ routed' = IF todo = {n} THEN least' ELSE routed
      /\ UNCHANGED <<login_count, phase, posted, packets, done, wpc, count, logins, lost,
                     scans>>
      /\ \/ nodeFaults' = nodeFaults
         \/ nodeFaults < MaxNodeFaults /\ nodeFaults' = nodeFaults + 1
  <2>1. \E new : Compare(n, new)
    BY DEF Scan
  <2>2. /\ n \in todo /\ todo' = todo \ {n}
        /\ routed' = IF todo = {n} THEN least' ELSE routed
        /\ UNCHANGED <<login_count, phase, posted, packets, done, wpc, count, logins, scans>>
    BY <2>1 DEF Compare, registry, worker, queue
  <2>3. /\ UNCHANGED lost
        /\ \/ nodeFaults' = nodeFaults
           \/ nodeFaults < MaxNodeFaults /\ nodeFaults' = nodeFaults + 1
    BY DEF Scan, Works
  <2> QED
    BY <2>2, <2>3
<1>2. \/ /\ witnesses' = witnesses
         /\ least' = IF better THEN [name |-> n, con_count |-> c] ELSE least
      \/ witnesses' = {p \in witnesses : Name[p] # n} /\ least' = least
  BY DEF Scan, Compare
<1>3. /\ c \in Absent .. MaxLogins /\ Absent = -1
      /\ least \in [name : Names \cup {NoName},
                    con_count : 0 .. MaxLogins \cup {INT_MAX}]
      /\ least.name = NoName => least.con_count = INT_MAX
      /\ MaxLogins \in Nat /\ MaxLogins < INT_MAX /\ INT_MAX \in Nat
      /\ n # NoName
  BY RoutingAssumption DEF RoutingInv, RoutingTypeOK, ScanOK, Absent, INT_MAX
<1> HIDE DEF c
<1>4. /\ least' \in [name : Names \cup {NoName},
                     con_count : 0 .. MaxLogins \cup {INT_MAX}]
      /\ least'.name = NoName => least'.con_count = INT_MAX
      /\ least'.con_count <= least.con_count
      /\ least.name # NoName => least'.name # NoName
  BY <1>2, <1>3
<1>5. RoutingTypeOK'
  BY <1>1, <1>2, <1>4, RoutingAssumption DEF RoutingInv, RoutingTypeOK
<1>6. ASSUME NEW p \in witnesses', phase[p] = "serving", p \notin lost, Name[p] \notin todo'
      PROVE  least'.name # NoName /\ least'.con_count <= login_count[Name[p]]
  <2>1. p \in witnesses /\ p \in Procs /\ login_count[Name[p]] \in Int
    BY <1>2, <1>6, RoutingAssumption DEF RoutingInv, RoutingTypeOK, Absent
  <2>2. CASE Name[p] # n
    <3>1. least.name # NoName /\ least.con_count <= login_count[Name[p]]
      BY <1>1, <1>6, <2>1, <2>2 DEF RoutingInv, ScanOK
    <3> QED
      BY <1>3, <1>4, <2>1, <3>1
  <2>3. CASE Name[p] = n
    <3>1. /\ witnesses' = witnesses
          /\ least' = IF better THEN [name |-> n, con_count |-> c] ELSE least
      BY <1>2, <1>6, <2>3
    <3>2. c # Absent /\ login_count[Name[p]] = c
      BY <1>6, <2>1, <2>3, Numbers DEF CountOK, c
    <3> QED
      BY <1>3, <3>1, <3>2
  <2> QED
    BY <2>2, <2>3
<1>7. ASSUME NEW p \in witnesses' PROVE phase[p] \notin {"new", "listening"}
  BY <1>2, <1>7 DEF RoutingInv, ScanOK
<1>8. todo' = {} => routed' = least'
  BY <1>1
<1>9. ScanOK'
  BY <1>1, <1>4, <1>6, <1>7, <1>8 DEF ScanOK
<1> QED
  BY <1>1, <1>5, <1>9, ScanKeeps DEF RoutingInv

LEMMA RoutingStep ==
  ASSUME RoutingInv, [RoutingNext]_routingVars
  PROVE  RoutingInv'
<1>1. ASSUME NEW p \in Procs, Main(p) PROVE RoutingInv'
  BY <1>1, StartStep, RegisterStep, MainSteps, NodeKillStep DEF Main
<1>2. ASSUME NEW p \in Procs, Worker(p) PROVE RoutingInv'
  BY <1>2, TakeStep, LoginSteps, HGetStep, HSetStep DEF Worker
<1>3. CASE UNCHANGED routingVars
  <2>1. UNCHANGED <<login_count, phase, posted, packets, done, wpc, count, todo, least,
                    routed, witnesses, scans, logins, lost, nodeFaults>>
    BY <1>3 DEF routingVars, registry, worker, queue,
                scanning, history
  <2> QED
    BY <2>1, ScanKeeps DEF RoutingInv, RoutingTypeOK, ScanOK
<1> QED
  BY <1>1, <1>2, <1>3, PostStep, ScanBeginStep, ScanStep DEF RoutingNext

LEMMA RoutingInvariance ==
  RoutingSpec => []RoutingInv
BY RoutingInitially, RoutingStep, PTL DEF RoutingSpec

\* The types, with the bounds on every count.
THEOREM RoutingTypes ==
  RoutingSpec => []RoutingTypeOK
<1>1. RoutingInv => RoutingTypeOK
  BY DEF RoutingInv
<1> QED
  BY <1>1, RoutingInvariance, PTL

\* A serving node is registered, with exactly the logins it has counted, whatever an
\* earlier process of its name left behind and whenever it is replaced.
THEOREM ServingNodesAreCounted ==
  RoutingSpec => []CountExact
<1>1. RoutingInv => CountExact
  BY DEF RoutingInv, CountOK, CountExact
<1> QED
  BY <1>1, RoutingInvariance, PTL

\* getChatServer finds a server if one served throughout, and none of those has fewer
\* logins when it answers than the one it chose.
THEOREM LeastLoadedIsChosen ==
  RoutingSpec => []ChosenIsLeast
<1>1. RoutingInv => ChosenIsLeast
  BY DEF RoutingInv, ScanOK, ChosenIsLeast
<1> QED
  BY <1>1, RoutingInvariance, PTL
===============================================================================
