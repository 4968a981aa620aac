------------------------- MODULE GuardedHostProofs -------------------------
(***************************************************************************)
(* What is proved about a guarded host, for any deployments of any         *)
(* projects, any maintenance runs and any number of reboots.               *)
(***************************************************************************)
EXTENDS GuardedHost, TLAPS

\* An adapter inside its guard.
Inside == {"fetch", "create", "compile", "up", "migrate", "observe", "retire",
           "update", "upgrade", "upgraded", "request", "record", "hold"}

\* Runs in conflict do not hold guards together.
Guarded == \A r, q \in Runs : Conflict(r, q) => fd[r] = {} \/ fd[q] = {}

\* An adapter inside and a command hold their run's guard.
Covered ==
    /\ contract = "installed" =>
         \A r \in Runs : /\ adapter[r] \in Inside => "adapter" \in fd[r]
                         /\ command[r] # "none" => "command" \in fd[r]
    /\ contract # "installed" =>
         \A d \in Deploys : adapter[d] \in {"idle", "failed"} /\ command[d] = "none"
    /\ contract = "missing" =>
         \A m \in Maintenances : adapter[m] \notin Inside /\ command[m] = "none"

\* A deployment's command is the one its adapter waits for.
Deploying ==
    \A d \in Deploys :
        /\ command[d] \in Commands \cup {"none"}
        /\ adapter[d] # "dead" => command[d] \in {"none", adapter[d]}
        /\ workflow[d] \in {"begin", "ship"} => adapter[d] = "idle"

\* A maintenance run gets to its reboot only with its upgrade all over.
Upgrading ==
    \A m \in Maintenances :
        /\ adapter[m] \notin {"update", "upgrade", "dead"} => command[m] = "none"
        /\ workflow[m] \in {"begin", "kick"} => exit[m] = "none"
        /\ \/ workflow[m] \in {"begin", "kick", "decide", "trigger"}
           \/ workflow[m] = "wait" /\ exit[m] = "zero"
           => adapter[m] = "idle"

\* What a deployment has done to its project so far.
OwnOf(d) ==
    LET p == Project[d]
    IN  /\ adapter[d] \in {"compile", "up", "migrate", "observe", "retire"} =>
             box[p].by = d
        /\ adapter[d] \in {"up", "migrate", "observe", "retire"} =>
             override[p].by = d
        /\ adapter[d] \in {"migrate", "observe", "retire"} =>
             box[p].state # "created" /\ box[p].gate.by = d
        /\ adapter[d] \in {"observe", "retire"} /\ d \notin SkipMigrate =>
             migrated[p] = d

Own == \A d \in Deploys : OwnOf(d)

\* What the markers, the reservation and the checks tell of a request.
Asked ==
    \A m \in Maintenances :
        /\ adapter[m] = "record" \/ "requested" \in marker[m]
             \/ workflow[m] \in {"boot", "verify", "green"} => asked[m] # 0
        /\ adapter[m] \in {"admit-reboot", "request", "record"} =>
             "requested" \notin marker[m] /\ workflow[m] \notin {"boot", "verify", "green"}
        /\ contract = "installed" /\ (adapter[m] = "request" \/ asked[m] = boot) =>
             reservation = boot
        /\ contract = "installed" /\ workflow[m] = "green" => asked[m] # boot

HostInv == TypeOK /\ Guarded /\ Covered /\ Deploying /\ Upgrading /\ Own /\ Asked

-----------------------------------------------------------------------------

\* The invariant holds before anything has begun.
LEMMA InitHostInv == Init => HostInv
  <1> SUFFICES ASSUME Init PROVE HostInv
    OBVIOUS
  <1> USE RunsAssumption, BootsAssumption
      DEF Init, DeployInit, MaintenanceInit, Runs
  <1>a. required \in BOOLEAN
    OBVIOUS
  <1>b. NoGate \in Gates
    BY DEF Gates, NoGate
  <1>c. box \in [Projects -> Boxes] /\ override \in [Projects -> Gates]
    BY <1>b DEF Boxes
  <1>1. TypeOK
    BY <1>a, <1>c DEF TypeOK, Adapters, Commands
  <1>2. Guarded /\ Covered /\ Deploying
    BY DEF Guarded, Covered, Deploying, Inside, Commands
  <1>3. Upgrading /\ Own /\ Asked
    BY DEF Upgrading, Own, OwnOf, Asked
  <1>4. QED
    BY <1>1, <1>2, <1>3 DEF HostInv

\* Nobody else of the project is inside its guard while a command is at work.
LEMMA WriterAlone ==
  ASSUME HostInv, NEW d \in Deploys, NEW e \in Deploys, Project[d] = Project[e],
         command[d] # "none", adapter[e] \in Inside
  PROVE  e = d
  BY DEF HostInv, TypeOK, Guarded, Covered, Conflict, Runs, Inside

\* A step of a deployment keeps it.
LEMMA DeployKeeps ==
  ASSUME HostInv, NEW d \in Deploys, DeployNext(d), UNCHANGED maintenance
  PROVE  HostInv'
  <1> USE RunsAssumption DEF HostInv, Runs, guards, host, deployment, docker,
              maintenance, status, machine, To, Adapts, Step, Mark, Held,
              Admit, Leave, Start, Ends, Killed
  <1>1. CASE TransferFiles(d)
    <2>1. TypeOK'
      BY <1>1 DEF TransferFiles, TypeOK, Adapters, Commands, Projects, Gates
    <2>2. Guarded' /\ Covered'
      BY <1>1 DEF TransferFiles, TypeOK, Guarded, Covered, Inside, Commands, Conflict
    <2>3. Deploying' /\ Upgrading'
      BY <1>1 DEF TransferFiles, TypeOK, Deploying, Upgrading, Commands
    <2>4. Own'
      BY <1>1 DEF TransferFiles, TypeOK, Own, OwnOf, Commands, Projects
    <2>5. Asked'
      BY <1>1 DEF TransferFiles, TypeOK, Asked
    <2>6. QED
      BY <2>1, <2>2, <2>3, <2>4, <2>5
  <1>2. CASE BeginDeploy(d)
    <2>1. TypeOK'
      BY <1>2 DEF BeginDeploy, TypeOK, Adapters, Commands, Projects, Gates
    <2>2. Guarded' /\ Covered'
      BY <1>2 DEF BeginDeploy, TypeOK, Guarded, Covered, Inside, Commands, Conflict
    <2>3. Deploying' /\ Upgrading'
      <3>1. Deploying'
        BY <1>2 DEF BeginDeploy, TypeOK, Deploying, Commands
      <3>2. Upgrading'
        BY <1>2 DEF BeginDeploy, TypeOK, Upgrading
      <3>3. QED
        BY <3>1, <3>2
    <2>4. Own'
      BY <1>2 DEF BeginDeploy, TypeOK, Own, OwnOf, Commands, Projects
    <2>5. Asked'
      BY <1>2 DEF BeginDeploy, TypeOK, Asked
    <2>6. QED
      BY <2>1, <2>2, <2>3, <2>4, <2>5
  <1>3. CASE AdmitWriter(d)
    <2>1. TypeOK'
      BY <1>3 DEF AdmitWriter, TypeOK, Adapters, Commands, Projects, Gates
    <2>2. Guarded' /\ Covered'
      <3>1. Guarded'
        BY <1>3 DEF AdmitWriter, TypeOK, Guarded, Conflict
      <3>2. Covered'
        BY <1>3 DEF AdmitWriter, TypeOK, Covered, Inside, Deploying, Commands
      <3>3. QED
        BY <3>1, <3>2
    <2>3. Deploying' /\ Upgrading'
      BY <1>3 DEF AdmitWriter, TypeOK, Deploying, Upgrading, Commands
    <2>4. Own'
      BY <1>3 DEF AdmitWriter, TypeOK, Own, OwnOf, Commands, Projects
    <2>5. Asked'
      BY <1>3 DEF AdmitWriter, TypeOK, Asked
    <2>6. QED
      BY <2>1, <2>2, <2>3, <2>4, <2>5
  <1>4. CASE DeployCommand(d)
    <2>1. TypeOK'
      BY <1>4 DEF DeployCommand, TypeOK, Adapters, Commands, Projects, Gates
    <2>2. Guarded' /\ Covered'
      BY <1>4 DEF DeployCommand, TypeOK, Guarded, Covered, Inside, Commands, Conflict
    <2>3. Deploying' /\ Upgrading'
      BY <1>4 DEF DeployCommand, TypeOK, Deploying, Upgrading, Commands
    <2>4. Own'
      BY <1>4 DEF DeployCommand, TypeOK, Own, OwnOf, Commands, Projects
    <2>5. Asked'
      BY <1>4 DEF DeployCommand, TypeOK, Asked
    <2>6. QED
      BY <2>1, <2>2, <2>3, <2>4, <2>5
  <1>5. CASE CommandEnds(d)
    <2>1. TypeOK'
      <3>0. command[d] \in Commands
        BY <1>5 DEF CommandEnds, Deploying
      <3>1. adapter' \in [Runs -> Adapters]
        BY <1>5, <3>0 DEF CommandEnds, TypeOK, Adapters, Commands, After
      <3>2. Project[d] \in Projects /\ d \in Deploys \cup {"none"}
        BY DEF Projects
      <3>3. [state |-> "created", by |-> d, files |-> files[Project[d]], gate |-> NoGate] \in Boxes
        BY <3>2 DEF TypeOK, Boxes, Gates, NoGate
      <3>4. [state |-> "up", by |-> d, files |-> files[Project[d]], gate |-> override[Project[d]]] \in Boxes
        BY <3>2 DEF TypeOK, Boxes
      <3>5. box' \in [Projects -> Boxes]
        BY <1>5, <3>2, <3>3, <3>4 DEF CommandEnds, Effect, TypeOK
      <3>6. migrated' \in [Projects -> Deploys \cup {"none"}]
        BY <1>5, <3>2 DEF CommandEnds, Effect, TypeOK, Boxes
      <3>7. command' \in [Runs -> Commands \cup {"update", "upgrade", "none"}]
            /\ fd' \in [Runs -> SUBSET {"adapter", "command"}]
        BY <1>5 DEF CommandEnds, TypeOK
      <3>8. QED
        BY <1>5, <3>1, <3>5, <3>6, <3>7 DEF CommandEnds, TypeOK
    <2>2. Guarded' /\ Covered'
      BY <1>5 DEF CommandEnds, TypeOK, Guarded, Covered, Inside, Commands, Conflict
    <2>3. Deploying' /\ Upgrading'
      BY <1>5 DEF CommandEnds, TypeOK, Deploying, Upgrading, Commands
    <2>4. Own'
      <3>0. command[d] \in Commands
        BY <1>5 DEF CommandEnds, Deploying
      <3> SUFFICES ASSUME NEW e \in Deploys
                   PROVE  OwnOf(e)'
        BY DEF Own, OwnOf
      <3>1. OwnOf(e)
        BY DEF Own, OwnOf
      <3>2. Project[d] \in Projects /\ Project[e] \in Projects
        BY DEF Projects
      <3>3. CASE e = d
        BY <1>5, <3>0, <3>1, <3>2, <3>3 DEF CommandEnds, Effect, After, TypeOK, Boxes, Commands, Deploying, OwnOf
      <3>4. CASE e # d /\ Project[e] = Project[d]
        <4>1. adapter'[e] \notin Inside
          BY <1>5, <3>0, <3>4, WriterAlone DEF CommandEnds, HostInv, TypeOK, Commands
        <4>2. QED
          BY <4>1 DEF OwnOf, Inside
      <3>5. CASE e # d /\ Project[e] # Project[d]
        BY <1>5, <3>1, <3>2, <3>5 DEF CommandEnds, Effect, TypeOK, OwnOf
      <3>6. QED
        BY <3>3, <3>4, <3>5
    <2>5. Asked'
      BY <1>5 DEF CommandEnds, TypeOK, Asked
    <2>6. QED
      BY <2>1, <2>2, <2>3, <2>4, <2>5
  <1>6. CASE CommandFails(d)
    <2>1. TypeOK'
      <3>0. command[d] \in Commands
        BY <1>6 DEF CommandFails, Deploying
      <3>1. adapter' \in [Runs -> Adapters]
        BY <1>6, <3>0 DEF CommandFails, TypeOK, Adapters, Commands, After
      <3>2. Project[d] \in Projects /\ d \in Deploys \cup {"none"}
        BY DEF Projects
      <3>3. [state |-> "created", by |-> d, files |-> files[Project[d]], gate |-> NoGate] \in Boxes
        BY <3>2 DEF TypeOK, Boxes, Gates, NoGate
      <3>4. [state |-> "up", by |-> d, files |-> files[Project[d]], gate |-> override[Project[d]]] \in Boxes
        BY <3>2 DEF TypeOK, Boxes
      <3>5. box' \in [Projects -> Boxes]
        BY <1>6, <3>2, <3>3, <3>4 DEF CommandFails, Effect, TypeOK
      <3>6. migrated' \in [Projects -> Deploys \cup {"none"}]
        BY <1>6, <3>2 DEF CommandFails, Effect, TypeOK, Boxes
      <3>7. command' \in [Runs -> Commands \cup {"update", "upgrade", "none"}]
            /\ fd' \in [Runs -> SUBSET {"adapter", "command"}]
        BY <1>6 DEF CommandFails, TypeOK
      <3>8. QED
        BY <1>6, <3>1, <3>5, <3>6, <3>7 DEF CommandFails, TypeOK
    <2>2. Guarded' /\ Covered'
      BY <1>6 DEF CommandFails, TypeOK, Guarded, Covered, Inside, Commands, Conflict
    <2>3. Deploying' /\ Upgrading'
      BY <1>6 DEF CommandFails, TypeOK, Deploying, Upgrading, Commands
    <2>4. Own'
      <3>0. command[d] \in Commands
        BY <1>6 DEF CommandFails, Deploying
      <3> SUFFICES ASSUME NEW e \in Deploys
                   PROVE  OwnOf(e)'
        BY DEF Own, OwnOf
      <3>1. OwnOf(e)
        BY DEF Own, OwnOf
      <3>2. Project[d] \in Projects /\ Project[e] \in Projects
        BY DEF Projects
      <3>3. CASE e = d
        BY <1>6, <3>0, <3>1, <3>2, <3>3 DEF CommandFails, Effect, After, TypeOK, Boxes, Commands, Deploying, OwnOf
      <3>4. CASE e # d /\ Project[e] = Project[d]
        <4>1. adapter'[e] \notin Inside
          BY <1>6, <3>0, <3>4, WriterAlone DEF CommandFails, HostInv, TypeOK, Commands
        <4>2. QED
          BY <4>1 DEF OwnOf, Inside
      <3>5. CASE e # d /\ Project[e] # Project[d]
        BY <1>6, <3>1, <3>2, <3>5 DEF CommandFails, Effect, TypeOK, OwnOf
      <3>6. QED
        BY <3>3, <3>4, <3>5
    <2>5. Asked'
      BY <1>6 DEF CommandFails, TypeOK, Asked
    <2>6. QED
      BY <2>1, <2>2, <2>3, <2>4, <2>5
  <1>7. CASE CompileGate(d)
    <2>1. TypeOK'
      <3>1. box[Project[d]] \in Boxes
        BY DEF TypeOK, Projects
      <3>2. [by |-> d, files |-> box[Project[d]].files] \in Gates
        BY <3>1 DEF Boxes, Gates
      <3>3. override' \in [Projects -> Gates]
        BY <1>7, <3>2 DEF CompileGate, TypeOK
      <3>4. adapter' \in [Runs -> Adapters]
        BY <1>7 DEF CompileGate, TypeOK, Adapters, Commands
      <3>5. QED
        BY <1>7, <3>3, <3>4 DEF CompileGate, TypeOK
    <2>2. Guarded' /\ Covered'
      BY <1>7 DEF CompileGate, TypeOK, Guarded, Covered, Inside, Commands, Conflict
    <2>3. Deploying' /\ Upgrading'
      BY <1>7 DEF CompileGate, TypeOK, Deploying, Upgrading, Commands
    <2>4. Own'
      BY <1>7 DEF CompileGate, TypeOK, Own, OwnOf, Commands, Projects
    <2>5. Asked'
      BY <1>7 DEF CompileGate, TypeOK, Asked
    <2>6. QED
      BY <2>1, <2>2, <2>3, <2>4, <2>5
  <1>8. CASE Observe(d)
    <2>1. TypeOK'
      BY <1>8 DEF Observe, TypeOK, Adapters, Commands, Projects, Gates
    <2>2. Guarded' /\ Covered'
      BY <1>8 DEF Observe, TypeOK, Guarded, Covered, Inside, Commands, Conflict
    <2>3. Deploying' /\ Upgrading'
      BY <1>8 DEF Observe, TypeOK, Deploying, Upgrading, Commands
    <2>4. Own'
      BY <1>8 DEF Observe, TypeOK, Own, OwnOf, Commands, Projects
    <2>5. Asked'
      BY <1>8 DEF Observe, TypeOK, Asked
    <2>6. QED
      BY <2>1, <2>2, <2>3, <2>4, <2>5
  <1>9. CASE FinishDeploy(d)
    <2>1. TypeOK'
      BY <1>9 DEF FinishDeploy, TypeOK, Adapters, Commands, Projects, Gates
    <2>2. Guarded' /\ Covered'
      BY <1>9 DEF FinishDeploy, TypeOK, Guarded, Covered, Inside, Commands, Conflict
    <2>3. Deploying' /\ Upgrading'
      BY <1>9 DEF FinishDeploy, TypeOK, Deploying, Upgrading, Commands
    <2>4. Own'
      BY <1>9 DEF FinishDeploy, TypeOK, Own, OwnOf, Commands, Projects
    <2>5. Asked'
      BY <1>9 DEF FinishDeploy, TypeOK, Asked
    <2>6. QED
      BY <2>1, <2>2, <2>3, <2>4, <2>5
  <1>10. CASE DeployFails(d)
    <2>1. TypeOK'
      BY <1>10 DEF DeployFails, TypeOK, Adapters, Commands, Projects, Gates
    <2>2. Guarded' /\ Covered'
      BY <1>10 DEF DeployFails, TypeOK, Guarded, Covered, Inside, Commands, Conflict
    <2>3. Deploying' /\ Upgrading'
      BY <1>10 DEF DeployFails, TypeOK, Deploying, Upgrading, Commands
    <2>4. Own'
      BY <1>10 DEF DeployFails, TypeOK, Own, OwnOf, Commands, Projects
    <2>5. Asked'
      BY <1>10 DEF DeployFails, TypeOK, Asked
    <2>6. QED
      BY <2>1, <2>2, <2>3, <2>4, <2>5
  <1>11. CASE DeployKilled(d)
    <2>1. TypeOK'
      BY <1>11 DEF DeployKilled, TypeOK, Adapters, Commands, Projects, Gates
    <2>2. Guarded' /\ Covered'
      BY <1>11 DEF DeployKilled, TypeOK, Guarded, Covered, Inside, Commands, Conflict
    <2>3. Deploying' /\ Upgrading'
      BY <1>11 DEF DeployKilled, TypeOK, Deploying, Upgrading, Commands
    <2>4. Own'
      BY <1>11 DEF DeployKilled, TypeOK, Own, OwnOf, Commands, Projects
    <2>5. Asked'
      BY <1>11 DEF DeployKilled, TypeOK, Asked
    <2>6. QED
      BY <2>1, <2>2, <2>3, <2>4, <2>5
  <1>12. QED
    BY <1>1, <1>2, <1>3, <1>4, <1>5, <1>6, <1>7, <1>8, <1>9, <1>10, <1>11 DEF DeployNext

\* A step of a maintenance run keeps it.
LEMMA MaintenanceKeeps ==
  ASSUME HostInv, NEW m \in Maintenances, MaintenanceNext(m), UNCHANGED deployment
  PROVE  HostInv'
  <1> USE RunsAssumption DEF HostInv, Runs, guards, host, deployment, docker,
              maintenance, status, machine, To, Adapts, Step, Mark, Held,
              Admit, Leave, Start, Ends, Killed
  <1>1. CASE Ship(m)
    <2>1. TypeOK'
      BY <1>1 DEF Ship, TypeOK, Adapters, Commands, Projects, Gates
    <2>2. Guarded' /\ Covered'
      BY <1>1 DEF Ship, TypeOK, Guarded, Covered, Inside, Commands, Conflict
    <2>3. Deploying' /\ Upgrading'
      BY <1>1 DEF Ship, TypeOK, Deploying, Upgrading, Commands
    <2>4. Own'
      BY <1>1 DEF Ship, TypeOK, Own, OwnOf, Commands, Projects
    <2>5. Asked'
      BY <1>1 DEF Ship, TypeOK, Asked
    <2>6. QED
      BY <2>1, <2>2, <2>3, <2>4, <2>5
  <1>2. CASE Kick(m)
    <2>1. TypeOK'
      BY <1>2 DEF Kick, TypeOK, Adapters, Commands, Projects, Gates
    <2>2. Guarded' /\ Covered'
      <3>1. m \notin Deploys
        OBVIOUS
      <3>2. Guarded'
        BY <1>2 DEF Kick, Guarded
      <3>3. Covered'
        BY <1>2, <3>1 DEF Kick, TypeOK, Covered, Inside
      <3>4. QED
        BY <3>2, <3>3
    <2>3. Deploying' /\ Upgrading'
      BY <1>2 DEF Kick, TypeOK, Deploying, Upgrading, Commands
    <2>4. Own'
      BY <1>2 DEF Kick, TypeOK, Own, OwnOf, Commands, Projects
    <2>5. Asked'
      BY <1>2 DEF Kick, TypeOK, Asked
    <2>6. QED
      BY <2>1, <2>2, <2>3, <2>4, <2>5
  <1>3. CASE Upgraded(m)
    <2>1. TypeOK'
      BY <1>3 DEF Upgraded, TypeOK, Adapters, Commands, Projects, Gates
    <2>2. Guarded' /\ Covered'
      BY <1>3 DEF Upgraded, TypeOK, Guarded, Covered, Inside, Commands, Conflict
    <2>3. Deploying' /\ Upgrading'
      BY <1>3 DEF Upgraded, TypeOK, Deploying, Upgrading, Commands
    <2>4. Own'
      BY <1>3 DEF Upgraded, TypeOK, Own, OwnOf, Commands, Projects
    <2>5. Asked'
      BY <1>3 DEF Upgraded, TypeOK, Asked
    <2>6. QED
      BY <2>1, <2>2, <2>3, <2>4, <2>5
  <1>4. CASE Decide(m)
    <2>1. TypeOK'
      BY <1>4 DEF Decide, TypeOK, Adapters, Commands, Projects, Gates
    <2>2. Guarded' /\ Covered'
      BY <1>4 DEF Decide, TypeOK, Guarded, Covered, Inside, Commands, Conflict
    <2>3. Deploying' /\ Upgrading'
      BY <1>4 DEF Decide, TypeOK, Deploying, Upgrading, Commands
    <2>4. Own'
      BY <1>4 DEF Decide, TypeOK, Own, OwnOf, Commands, Projects
    <2>5. Asked'
      BY <1>4 DEF Decide, TypeOK, Asked
    <2>6. QED
      BY <2>1, <2>2, <2>3, <2>4, <2>5
  <1>5. CASE Skip(m)
    <2>1. TypeOK'
      BY <1>5 DEF Skip, TypeOK, Adapters, Commands, Projects, Gates
    <2>2. Guarded' /\ Covered'
      BY <1>5 DEF Skip, TypeOK, Guarded, Covered, Inside, Commands, Conflict
    <2>3. Deploying' /\ Upgrading'
      BY <1>5 DEF Skip, TypeOK, Deploying, Upgrading, Commands
    <2>4. Own'
      BY <1>5 DEF Skip, TypeOK, Own, OwnOf, Commands, Projects
    <2>5. Asked'
      BY <1>5 DEF Skip, TypeOK, Asked
    <2>6. QED
      BY <2>1, <2>2, <2>3, <2>4, <2>5
  <1>6. CASE Trigger(m)
    <2>1. TypeOK'
      BY <1>6 DEF Trigger, TypeOK, Adapters, Commands, Projects, Gates
    <2>2. Guarded' /\ Covered'
      BY <1>6 DEF Trigger, TypeOK, Guarded, Covered, Inside, Commands, Conflict
    <2>3. Deploying' /\ Upgrading'
      BY <1>6 DEF Trigger, TypeOK, Deploying, Upgrading, Commands
    <2>4. Own'
      BY <1>6 DEF Trigger, TypeOK, Own, OwnOf, Commands, Projects
    <2>5. Asked'
      BY <1>6 DEF Trigger, TypeOK, Asked
    <2>6. QED
      BY <2>1, <2>2, <2>3, <2>4, <2>5
  <1>7. CASE Poll(m)
    <2>1. TypeOK'
      BY <1>7 DEF Poll, TypeOK, Adapters, Commands, Projects, Gates
    <2>2. Guarded' /\ Covered'
      BY <1>7 DEF Poll, TypeOK, Guarded, Covered, Inside, Commands, Conflict
    <2>3. Deploying' /\ Upgrading'
      BY <1>7 DEF Poll, TypeOK, Deploying, Upgrading, Commands
    <2>4. Own'
      BY <1>7 DEF Poll, TypeOK, Own, OwnOf, Commands, Projects
    <2>5. Asked'
      BY <1>7 DEF Poll, TypeOK, Asked
    <2>6. QED
      BY <2>1, <2>2, <2>3, <2>4, <2>5
  <1>8. CASE Return(m)
    <2>1. TypeOK'
      BY <1>8 DEF Return, TypeOK, Adapters, Commands, Projects, Gates
    <2>2. Guarded' /\ Covered'
      BY <1>8 DEF Return, TypeOK, Guarded, Covered, Inside, Commands, Conflict
    <2>3. Deploying' /\ Upgrading'
      BY <1>8 DEF Return, TypeOK, Deploying, Upgrading, Commands
    <2>4. Own'
      BY <1>8 DEF Return, TypeOK, Own, OwnOf, Commands, Projects
    <2>5. Asked'
      BY <1>8 DEF Return, TypeOK, Asked
    <2>6. QED
      BY <2>1, <2>2, <2>3, <2>4, <2>5
  <1>9. CASE CheckStatus(m)
    <2>1. TypeOK'
      BY <1>9 DEF CheckStatus, TypeOK, Adapters, Commands, Projects, Gates
    <2>2. Guarded' /\ Covered'
      BY <1>9 DEF CheckStatus, TypeOK, Guarded, Covered, Inside, Commands, Conflict
    <2>3. Deploying' /\ Upgrading'
      BY <1>9 DEF CheckStatus, TypeOK, Deploying, Upgrading, Commands
    <2>4. Own'
      BY <1>9 DEF CheckStatus, TypeOK, Own, OwnOf, Commands, Projects
    <2>5. Asked'
      BY <1>9 DEF CheckStatus, TypeOK, Asked
    <2>6. QED
      BY <2>1, <2>2, <2>3, <2>4, <2>5
  <1>10. CASE CheckBoot(m)
    <2>1. TypeOK'
      BY <1>10 DEF CheckBoot, TypeOK, Adapters, Commands, Projects, Gates
    <2>2. Guarded' /\ Covered'
      BY <1>10 DEF CheckBoot, TypeOK, Guarded, Covered, Inside, Commands, Conflict
    <2>3. Deploying' /\ Upgrading'
      BY <1>10 DEF CheckBoot, TypeOK, Deploying, Upgrading, Commands
    <2>4. Own'
      BY <1>10 DEF CheckBoot, TypeOK, Own, OwnOf, Commands, Projects
    <2>5. Asked'
      BY <1>10 DEF CheckBoot, TypeOK, Asked
    <2>6. QED
      BY <2>1, <2>2, <2>3, <2>4, <2>5
  <1>11. CASE Verify(m)
    <2>1. TypeOK'
      <3>1. reservation' \in 0..boot
        BY <1>11 DEF Verify, TypeOK, Reconciled
      <3>2. QED
        BY <1>11, <3>1 DEF Verify, TypeOK
    <2>2. Guarded' /\ Covered'
      BY <1>11 DEF Verify, TypeOK, Guarded, Covered, Inside, Commands, Conflict
    <2>3. Deploying' /\ Upgrading'
      BY <1>11 DEF Verify, TypeOK, Deploying, Upgrading, Commands
    <2>4. Own'
      BY <1>11 DEF Verify, TypeOK, Own, OwnOf, Commands, Projects
    <2>5. Asked'
      BY <1>11 DEF Verify, TypeOK, Asked, Reconciled
    <2>6. QED
      BY <2>1, <2>2, <2>3, <2>4, <2>5
  <1>12. CASE RunFails(m)
    <2>1. TypeOK'
      BY <1>12 DEF RunFails, TypeOK, Adapters, Commands, Projects, Gates
    <2>2. Guarded' /\ Covered'
      BY <1>12 DEF RunFails, TypeOK, Guarded, Covered, Inside, Commands, Conflict
    <2>3. Deploying' /\ Upgrading'
      BY <1>12 DEF RunFails, TypeOK, Deploying, Upgrading, Commands
    <2>4. Own'
      BY <1>12 DEF RunFails, TypeOK, Own, OwnOf, Commands, Projects
    <2>5. Asked'
      BY <1>12 DEF RunFails, TypeOK, Asked
    <2>6. QED
      BY <2>1, <2>2, <2>3, <2>4, <2>5
  <1>13. CASE AdmitMaintenance(m)
    <2>1. TypeOK'
      <3>1. adapter' \in [Runs -> Adapters]
        BY <1>13 DEF AdmitMaintenance, TypeOK, Adapters
      <3>2. fd' \in [Runs -> SUBSET {"adapter", "command"}]
        BY <1>13 DEF AdmitMaintenance, TypeOK
      <3>3. reservation' \in 0..boot
            /\ marker' \in [Maintenances -> SUBSET {"acquired", "requested", "failed"}]
        BY <1>13 DEF AdmitMaintenance, TypeOK, Reserved
      <3>4. QED
        BY <1>13, <3>1, <3>2, <3>3 DEF AdmitMaintenance, TypeOK
    <2>2. Guarded' /\ Covered'
      <3>1. Guarded'
        BY <1>13 DEF AdmitMaintenance, TypeOK, Guarded, Conflict
      <3>2. Covered'
        BY <1>13 DEF AdmitMaintenance, TypeOK, Covered, Inside, Upgrading
      <3>3. QED
        BY <3>1, <3>2
    <2>3. Deploying' /\ Upgrading'
      BY <1>13 DEF AdmitMaintenance, TypeOK, Deploying, Upgrading, Commands
    <2>4. Own'
      BY <1>13 DEF AdmitMaintenance, TypeOK, Own, OwnOf, Commands, Projects
    <2>5. Asked'
      BY <1>13 DEF AdmitMaintenance, TypeOK, Asked, Reserved
    <2>6. QED
      BY <2>1, <2>2, <2>3, <2>4, <2>5
  <1>14. CASE AptCommand(m)
    <2>1. TypeOK'
      BY <1>14 DEF AptCommand, TypeOK, Adapters, Commands, Projects, Gates
    <2>2. Guarded' /\ Covered'
      BY <1>14 DEF AptCommand, TypeOK, Guarded, Covered, Inside, Commands, Conflict
    <2>3. Deploying' /\ Upgrading'
      BY <1>14 DEF AptCommand, TypeOK, Deploying, Upgrading, Commands
    <2>4. Own'
      BY <1>14 DEF AptCommand, TypeOK, Own, OwnOf, Commands, Projects
    <2>5. Asked'
      BY <1>14 DEF AptCommand, TypeOK, Asked
    <2>6. QED
      BY <2>1, <2>2, <2>3, <2>4, <2>5
  <1>15. CASE AptEnds(m)
    <2>1. TypeOK'
      <3>1. adapter' \in [Runs -> Adapters]
        BY <1>15 DEF AptEnds, TypeOK, Adapters
      <3>a. required' \in BOOLEAN
        BY <1>15 DEF AptEnds, TypeOK
      <3>2. QED
        BY <1>15, <3>1, <3>a DEF AptEnds, TypeOK
    <2>2. Guarded' /\ Covered'
      BY <1>15 DEF AptEnds, TypeOK, Guarded, Covered, Inside, Commands, Conflict
    <2>3. Deploying' /\ Upgrading'
      BY <1>15 DEF AptEnds, TypeOK, Deploying, Upgrading, Commands
    <2>4. Own'
      BY <1>15 DEF AptEnds, TypeOK, Own, OwnOf, Commands, Projects
    <2>5. Asked'
      BY <1>15 DEF AptEnds, TypeOK, Asked
    <2>6. QED
      BY <2>1, <2>2, <2>3, <2>4, <2>5
  <1>16. CASE AptFinishes(m)
    <2>1. TypeOK'
      BY <1>16 DEF AptFinishes, TypeOK, Adapters, Commands, Projects, Gates
    <2>2. Guarded' /\ Covered'
      BY <1>16 DEF AptFinishes, TypeOK, Guarded, Covered, Inside, Commands, Conflict
    <2>3. Deploying' /\ Upgrading'
      BY <1>16 DEF AptFinishes, TypeOK, Deploying, Upgrading, Commands
    <2>4. Own'
      BY <1>16 DEF AptFinishes, TypeOK, Own, OwnOf, Commands, Projects
    <2>5. Asked'
      BY <1>16 DEF AptFinishes, TypeOK, Asked
    <2>6. QED
      BY <2>1, <2>2, <2>3, <2>4, <2>5
  <1>17. CASE AptFails(m)
    <2>1. TypeOK'
      BY <1>17 DEF AptFails, TypeOK, Adapters, Commands, Projects, Gates
    <2>2. Guarded' /\ Covered'
      BY <1>17 DEF AptFails, TypeOK, Guarded, Covered, Inside, Commands, Conflict
    <2>3. Deploying' /\ Upgrading'
      BY <1>17 DEF AptFails, TypeOK, Deploying, Upgrading, Commands
    <2>4. Own'
      BY <1>17 DEF AptFails, TypeOK, Own, OwnOf, Commands, Projects
    <2>5. Asked'
      BY <1>17 DEF AptFails, TypeOK, Asked
    <2>6. QED
      BY <2>1, <2>2, <2>3, <2>4, <2>5
  <1>18. CASE RequestReboot(m)
    <2>1. TypeOK'
      BY <1>18 DEF RequestReboot, TypeOK, Adapters, Commands, Projects, Gates
    <2>2. Guarded' /\ Covered'
      BY <1>18 DEF RequestReboot, TypeOK, Guarded, Covered, Inside, Commands, Conflict
    <2>3. Deploying' /\ Upgrading'
      BY <1>18 DEF RequestReboot, TypeOK, Deploying, Upgrading, Commands
    <2>4. Own'
      BY <1>18 DEF RequestReboot, TypeOK, Own, OwnOf, Commands, Projects
    <2>5. Asked'
      <3>1. \A n \in Maintenances : asked'[n] = IF n = m THEN boot ELSE asked[n]
        BY <1>18 DEF RequestReboot, TypeOK
      <3>2. \A n \in Maintenances : adapter'[n] = IF n = m THEN "record" ELSE adapter[n]
        BY <1>18 DEF RequestReboot, TypeOK
      <3>3. QED
        BY <1>18, <3>1, <3>2 DEF RequestReboot, TypeOK, Asked
    <2>6. QED
      BY <2>1, <2>2, <2>3, <2>4, <2>5
  <1>19. CASE RecordRequest(m)
    <2>1. TypeOK'
      BY <1>19 DEF RecordRequest, TypeOK, Adapters, Commands, Projects, Gates
    <2>2. Guarded' /\ Covered'
      BY <1>19 DEF RecordRequest, TypeOK, Guarded, Covered, Inside, Commands, Conflict
    <2>3. Deploying' /\ Upgrading'
      BY <1>19 DEF RecordRequest, TypeOK, Deploying, Upgrading, Commands
    <2>4. Own'
      BY <1>19 DEF RecordRequest, TypeOK, Own, OwnOf, Commands, Projects
    <2>5. Asked'
      BY <1>19 DEF RecordRequest, TypeOK, Asked
    <2>6. QED
      BY <2>1, <2>2, <2>3, <2>4, <2>5
  <1>20. CASE RebootFails(m)
    <2>1. TypeOK'
      BY <1>20 DEF RebootFails, TypeOK, Adapters, Commands, Projects, Gates
    <2>2. Guarded' /\ Covered'
      BY <1>20 DEF RebootFails, TypeOK, Guarded, Covered, Inside, Commands, Conflict
    <2>3. Deploying' /\ Upgrading'
      BY <1>20 DEF RebootFails, TypeOK, Deploying, Upgrading, Commands
    <2>4. Own'
      BY <1>20 DEF RebootFails, TypeOK, Own, OwnOf, Commands, Projects
    <2>5. Asked'
      BY <1>20 DEF RebootFails, TypeOK, Asked
    <2>6. QED
      BY <2>1, <2>2, <2>3, <2>4, <2>5
  <1>21. CASE RecordFailure(m)
    <2>1. TypeOK'
      BY <1>21 DEF RecordFailure, TypeOK, Adapters, Commands, Projects, Gates
    <2>2. Guarded' /\ Covered'
      BY <1>21 DEF RecordFailure, TypeOK, Guarded, Covered, Inside, Commands, Conflict
    <2>3. Deploying' /\ Upgrading'
      BY <1>21 DEF RecordFailure, TypeOK, Deploying, Upgrading, Commands
    <2>4. Own'
      BY <1>21 DEF RecordFailure, TypeOK, Own, OwnOf, Commands, Projects
    <2>5. Asked'
      BY <1>21 DEF RecordFailure, TypeOK, Asked
    <2>6. QED
      BY <2>1, <2>2, <2>3, <2>4, <2>5
  <1>22. CASE MaintenanceKilled(m)
    <2>1. TypeOK'
      BY <1>22 DEF MaintenanceKilled, TypeOK, Adapters, Commands, Projects, Gates
    <2>2. Guarded' /\ Covered'
      BY <1>22 DEF MaintenanceKilled, TypeOK, Guarded, Covered, Inside, Commands, Conflict
    <2>3. Deploying' /\ Upgrading'
      BY <1>22 DEF MaintenanceKilled, TypeOK, Deploying, Upgrading, Commands
    <2>4. Own'
      BY <1>22 DEF MaintenanceKilled, TypeOK, Own, OwnOf, Commands, Projects
    <2>5. Asked'
      BY <1>22 DEF MaintenanceKilled, TypeOK, Asked
    <2>6. QED
      BY <2>1, <2>2, <2>3, <2>4, <2>5
  <1>23. QED
    BY <1>1, <1>2, <1>3, <1>4, <1>5, <1>6, <1>7, <1>8, <1>9, <1>10, <1>11, <1>12, <1>13, <1>14, <1>15, <1>16, <1>17, <1>18, <1>19, <1>20, <1>21, <1>22 DEF MaintenanceNext

\* An application that stops or comes back keeps it.
LEMMA BoxKeeps ==
  ASSUME HostInv, NEW p \in Projects, BoxChanges(p), UNCHANGED maintenance
  PROVE  HostInv'
  <1> USE DEF HostInv, BoxChanges, guards, host, deployment, docker,
              maintenance, status, machine
  <1>1. box' \in [Projects -> Boxes]
        /\ \A q \in Projects : /\ box'[q].by = box[q].by /\ box'[q].gate = box[q].gate
                               /\ box'[q].state = "created" => box[q].state = "created"
    <2>1. box[p] \in Boxes
      BY DEF TypeOK
    <2>2. PICK now \in {"up", "down"} : box' = [box EXCEPT ![p] = [box[p] EXCEPT !.state = now]]
      OBVIOUS
    <2>3. [box[p] EXCEPT !.state = now] \in Boxes
      BY <2>1 DEF Boxes
    <2>4. QED
      BY <2>1, <2>2, <2>3 DEF TypeOK, Boxes
  <1>2. TypeOK' /\ Guarded' /\ Covered' /\ Deploying' /\ Upgrading' /\ Asked'
    BY <1>1 DEF TypeOK, Guarded, Covered, Deploying, Upgrading, Asked
  <1>3. \A d \in Deploys : Project[d] \in Projects
    BY DEF Projects
  <1>4. Own'
    BY <1>1, <1>3 DEF Own, OwnOf
  <1>5. QED
    BY <1>2, <1>4

\* The host going down keeps it.
LEMMA RebootKeeps ==
  ASSUME HostInv, Reboot
  PROVE  HostInv'
  <1> USE BootsAssumption
      DEF HostInv, Reboot, Runs, deployment, docker, status
  <1>1. adapter' \in [Runs -> Adapters]
        /\ \A r \in Runs : adapter'[r] \in {"dead", "idle", "failed", "done"}
                            /\ adapter'[r] # "dead" => adapter'[r] = adapter[r]
    BY DEF TypeOK, Adapters
  <1>2. TypeOK'
    <2>1. boot' \in 1..MaxBoots /\ 0..boot \subseteq 0..boot'
      BY DEF TypeOK
    <2>2. before' \in [Maintenances -> 0..boot'] /\ asked' \in [Maintenances -> 0..boot']
      BY <2>1 DEF TypeOK
    <2>3. command' \in [Runs -> Commands \cup {"update", "upgrade", "none"}]
          /\ fd' \in [Runs -> SUBSET {"adapter", "command"}]
          /\ reservation' \in 0..boot'
      BY <2>1 DEF TypeOK
    <2>4. required' \in BOOLEAN
      OBVIOUS
    <2>5. QED
      BY <1>1, <2>1, <2>2, <2>3, <2>4 DEF TypeOK
  <1>3. Guarded' /\ Covered'
    BY <1>1 DEF TypeOK, Guarded, Covered, Inside
  <1>4. Deploying' /\ Upgrading'
    BY <1>1 DEF TypeOK, Deploying, Upgrading
  <1>5. Own'
    BY <1>1 DEF Own, OwnOf
  <1>6. Asked'
    BY <1>1 DEF TypeOK, Asked
  <1>7. QED
    BY <1>2, <1>3, <1>4, <1>5, <1>6

-----------------------------------------------------------------------------

\* Every step of the host keeps the invariant.
LEMMA NextHostInv == HostInv /\ [Next]_vars => HostInv'
  <1> SUFFICES ASSUME HostInv, [Next]_vars PROVE HostInv'
    OBVIOUS
  <1>1. CASE UNCHANGED vars
    BY <1>1 DEF vars, guards, host, deployment, docker, maintenance, status, machine,
                HostInv, TypeOK, Guarded, Covered, Deploying, Upgrading, Own, OwnOf, Asked
  <1>2. CASE Next
    BY <1>2, DeployKeeps, BoxKeeps, MaintenanceKeeps, RebootKeeps DEF Next
  <1>3. QED
    BY <1>1, <1>2

\* The strengthened invariant of a guarded host.
THEOREM HostInvariant == Spec => []HostInv
  <1>1. Init => HostInv
    BY InitHostInv
  <1>2. HostInv /\ [Next]_vars => HostInv'
    BY NextHostInv
  <1>3. QED
    BY <1>1, <1>2, PTL DEF Spec

\* Every state of a guarded host is of its type.
THEOREM HostTypeOK == Spec => []TypeOK
  <1>1. HostInv => TypeOK
    BY DEF HostInv
  <1>2. QED
    BY <1>1, HostInvariant, PTL

\* Commands of runs in conflict never overlap, also those of dead adapters.
THEOREM HostCommandsExclusive == Spec => []CommandsExclusive
  <1>1. HostInv => CommandsExclusive
    BY RunsAssumption DEF HostInv, TypeOK, Guarded, Covered, CommandsExclusive, Conflict, Runs
  <1>2. QED
    BY <1>1, HostInvariant, PTL

\* A deployment observes what it has itself created, gated and migrated.
THEOREM HostDeploysItsOwn == Spec => []DeploysItsOwn
  <1>1. HostInv => DeploysItsOwn
    BY DEF HostInv, Own, OwnOf, DeploysItsOwn
  <1>2. QED
    BY <1>1, HostInvariant, PTL

\* With the contract, a run that ends well after a reboot has had its reboot.
THEOREM HostGreenMeansRebooted == Spec => []GreenMeansRebooted
  <1>1. HostInv => GreenMeansRebooted
    <2> SUFFICES ASSUME HostInv, contract = "installed",
                        NEW m \in Maintenances, workflow[m] = "green"
                 PROVE  asked[m] \in 1..(boot - 1)
      BY DEF GreenMeansRebooted
    <2>1. asked[m] \in 0..boot /\ boot \in Nat
      BY DEF HostInv, TypeOK
    <2>2. asked[m] # 0 /\ asked[m] # boot
      BY DEF HostInv, Asked
    <2>3. QED
      BY <2>1, <2>2
  <1>2. QED
    BY <1>1, HostInvariant, PTL

\* With the contract, a reboot is requested only when no command is at work.
THEOREM HostRequestsAlone == Spec => RequestsAlone
  <1>1. HostInv /\ [Next]_vars =>
          [asked' # asked /\ contract = "installed" => \A r \in Runs : command[r] = "none"]_vars
    <2> SUFFICES ASSUME HostInv, Next, asked' # asked, contract = "installed",
                        NEW r \in Runs
                 PROVE  command[r] = "none"
      OBVIOUS
    <2>1. PICK m \in Maintenances : RequestReboot(m)
      BY DEF Next, MaintenanceNext, maintenance, status, machine, Reboot, deployment, docker,
             Ship, Kick, Upgraded, Decide, Skip, Trigger, Poll, Return, CheckStatus, CheckBoot,
             Verify, RunFails, AdmitMaintenance, AptCommand, AptEnds, AptFinishes, AptFails,
             RecordRequest, RebootFails, RecordFailure, MaintenanceKilled
    <2>2. CASE r = m
      BY <2>1, <2>2 DEF RequestReboot, HostInv, Upgrading
    <2>3. CASE r # m
      BY <2>1, <2>3 DEF RequestReboot, HostInv, TypeOK, Guarded, Covered, Inside, Conflict, Runs
    <2>4. QED
      BY <2>2, <2>3
  <1>2. QED
    BY <1>1, HostInvariant, PTL DEF Spec, RequestsAlone
=============================================================================
