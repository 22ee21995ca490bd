--------------------------- MODULE BootstrapProofs ---------------------------
(* Theorems about the bootstrap script, for any environments, command lines  *)
(* and number of commands, with tools failing and users interrupting at      *)
(* any step.                                                                *)
EXTENDS Bootstrap, TLAPS

-----------------------------------------------------------------------------
(* The phases of `all'                                                      *)

\* The phases in their order, one by one.
LEMMA OrderIs ==
    /\ DOMAIN Order = 1 .. 7
    /\ Order[1] = "preflight" /\ Order[2] = "terraform" /\ Order[3] = "kubeconfig"
    /\ Order[4] = "images" /\ Order[5] = "deploy" /\ Order[6] = "reconcile"
    /\ Order[7] = "validate"
BY DEF Order

\* The phases as a set, those that the state file has, and the commands.
LEMMA PhasesAre ==
    /\ {Order[i] : i \in DOMAIN Order} = {"preflight", "terraform", "kubeconfig", "images", "deploy", "reconcile", "validate"}
    /\ Saved = {"preflight", "terraform", "kubeconfig", "images", "deploy", "validate"}
    /\ Commands = {"preflight", "terraform", "kubeconfig", "images", "deploy", "reconcile", "validate",
                   "all", "destroy", "outputs"}
<1>1. {Order[i] : i \in DOMAIN Order} = {"preflight", "terraform", "kubeconfig", "images", "deploy", "reconcile", "validate"}
  <2>1. ASSUME NEW x PROVE x \in {Order[i] : i \in DOMAIN Order} <=> \E i \in 1 .. 7 : x = Order[i]
    BY OrderIs
  <2>2. ASSUME NEW x PROVE (\E i \in 1 .. 7 : x = Order[i]) <=>
            x \in {"preflight", "terraform", "kubeconfig", "images", "deploy", "reconcile", "validate"}
    BY OrderIs
  <2> QED
    BY <2>1, <2>2
<1> QED
  BY <1>1 DEF Saved, Commands

\* Where a phase stands.
LEMMA PositionIs ==
    /\ Position("preflight") = 1 /\ Position("terraform") = 2 /\ Position("kubeconfig") = 3
    /\ Position("images") = 4 /\ Position("deploy") = 5 /\ Position("reconcile") = 6
    /\ Position("validate") = 7
<1>1. ASSUME NEW k \in 1 .. 7 PROVE Position(Order[k]) = k
  <2>1. \A i \in 1 .. 7 : Order[i] = Order[k] => i = k
    BY OrderIs
  <2> QED
    BY <2>1, OrderIs DEF Position
<1> QED
  BY <1>1, OrderIs

\* The phase after another in `all'.
LEMMA FollowingIs ==
    /\ Following("preflight") = "terraform" /\ Following("terraform") = "kubeconfig"
    /\ Following("kubeconfig") = IF Opt("skip_images") THEN "deploy" ELSE "images"
    /\ Following("images") = "deploy" /\ Following("deploy") = "reconcile"
    /\ Following("reconcile") = "validate"
BY OrderIs, PositionIs DEF Following

-----------------------------------------------------------------------------
(* Types                                                                    *)

\* What TypeOK says of the command that runs and of the last one.
RunTyped ==
    /\ run \in {Idle} \cup Running
    /\ run # Idle => \/ run.phase = run.cmd
                     \/ run.cmd = "all" /\ run.phase \in {Order[i] : i \in DOMAIN Order}
    /\ ended \in [cmd : Commands \cup {"none"}, how : {"none", "done", "failed", "raised", "interrupted"}]

\* What it says of the state file.
SavedTyped ==
    /\ saved \in [status : [Saved -> Status], env : Envs \cup {None}, outputs : BOOLEAN]
    /\ saved.status["terraform"] # "failed"
    /\ \A p \in {"preflight", "kubeconfig", "validate"} : saved.status[p] # "in_progress"

\* What it says of the rest.
WorldTyped ==
    /\ dotenv \in Envs \cup {None} /\ context \in Envs \cup {None}
    /\ cloud \in [env : Envs \cup {None}, whole : BOOLEAN, images : SUBSET Images]
    /\ secret \in {"none", "terraform", "synced", "password_only"}
    /\ cluster \in [creds : {"none", "unlabelled", "labelled"}, apps : BOOLEAN]
    /\ ensured \subseteq {"admin_key", "database"}
    /\ trouble \in BOOLEAN /\ calm \in BOOLEAN /\ runs \in 0 .. MaxRuns

\* A command that does something has all its fields.
LEMMA RunsAre ==
    ASSUME RunTyped, run.cmd # "none"
    PROVE  /\ run \in Running /\ run # Idle
           /\ run.cmd \in Commands /\ run.phase \in Commands \ {"all"}
           /\ run.env \in Envs \cup {None} /\ run.opts \in SUBSET Options
BY DEF RunTyped, Running, Idle

\* However a step leaves its command, the command is well typed.
LEMMA MovesTyped ==
    ASSUME RunTyped, run.cmd # "none",
           \/ \E step \in Steps : Goes(step)
           \/ \E how \in {"done", "failed", "raised", "interrupted"} : Ends(how)
           \/ \E phase \in Saved \cup {"reconcile"}, ok \in BOOLEAN : Returns(phase, ok)
    PROVE  RunTyped'
<1>1. run \in Running /\ run # Idle /\ run.cmd \in Commands
  BY RunsAre
<1>2. ASSUME NEW step \in Steps, Goes(step) PROVE RunTyped'
  <2>1. run' = [run EXCEPT !.step = step] /\ ended' = ended
    BY <1>2 DEF Goes
  <2>2. run' \in Running /\ run'.cmd = run.cmd /\ run'.phase = run.phase
    BY <1>1, <2>1 DEF Running
  <2> QED
    BY <1>1, <2>1, <2>2 DEF RunTyped
<1>3. ASSUME NEW how \in {"done", "failed", "raised", "interrupted"}, Ends(how) PROVE RunTyped'
  BY <1>1, <1>3 DEF Ends, RunTyped
<1>4. ASSUME NEW phase \in Saved \cup {"reconcile"}, NEW ok \in BOOLEAN, Returns(phase, ok)
      PROVE  RunTyped'
  <2>1. CASE GoesOn(phase, ok)
    <3>1. run.cmd = "all" /\ run' = [run EXCEPT !.phase = Following(phase), !.step = "start"] /\ ended' = ended
      BY <1>4, <2>1 DEF Returns, GoesOn
    <3>2. Following(phase) \in {"terraform", "kubeconfig", "images", "deploy", "reconcile", "validate"}
      BY <1>4, <2>1, PhasesAre, FollowingIs DEF GoesOn
    <3>3. Following(phase) \in {Order[i] : i \in DOMAIN Order} /\ Following(phase) \in Commands \ {"all"}
      BY <3>2, PhasesAre
    <3>4. run' \in Running /\ run'.cmd = "all" /\ run'.phase = Following(phase)
      <4>1. "start" \in Steps
        BY DEF Steps
      <4> QED
        BY <1>1, <3>1, <3>3, <4>1 DEF Running
    <3> QED
      BY <1>1, <3>1, <3>3, <3>4 DEF RunTyped
  <2>2. CASE ~GoesOn(phase, ok)
    <3>1. \E how \in {"done", "failed"} : Ends(how)
      BY <1>4, <2>2 DEF Returns
    <3> QED
      BY <1>3, <3>1
  <2> QED
    BY <2>1, <2>2
<1> QED
  BY <1>2, <1>3, <1>4

\* A status that is saved is one of those the phase can have.
LEMMA SetPhaseTyped ==
    ASSUME SavedTyped, NEW phase \in Saved, NEW status \in Status, SetPhase(phase, status),
           ~(phase = "terraform" /\ status = "failed"),
           ~(phase \in {"preflight", "kubeconfig", "validate"} /\ status = "in_progress")
    PROVE  SavedTyped'
BY PhasesAre DEF SavedTyped, SetPhase

\* Terraform leaves the secret, the cluster and what is ensured well typed.
LEMMA RemoteTyped ==
    ASSUME WorldTyped, (\E e \in Envs \cup {None} : Applies(e)) \/ Destroys \/ UNCHANGED <<secret, cluster, ensured>>
    PROVE  /\ secret' \in {"none", "terraform", "synced", "password_only"}
           /\ cluster' \in [creds : {"none", "unlabelled", "labelled"}, apps : BOOLEAN]
           /\ ensured' \subseteq {"admin_key", "database"}
<1>1. NewCluster \in [creds : {"none", "unlabelled", "labelled"}, apps : BOOLEAN]
  BY DEF NewCluster
<1>2. ASSUME NEW e \in Envs \cup {None}, Applies(e)
      PROVE  /\ secret' \in {secret, "terraform"}
             /\ cluster' \in {cluster, NewCluster}
             /\ ensured' \subseteq ensured
  BY <1>2 DEF Applies
<1>3. ASSUME Destroys
      PROVE  secret' = "none" /\ cluster' = NewCluster /\ ensured' \subseteq ensured
  BY <1>3 DEF Destroys
<1> QED
  BY <1>1, <1>2, <1>3 DEF WorldTyped

\* So do the pushes with the registry.
LEMMA PushesTyped ==
    ASSUME WorldTyped, NEW image \in Images, Pushes(image)
    PROVE  cloud' \in [env : Envs \cup {None}, whole : BOOLEAN, images : SUBSET Images]
<1>1. cloud' = [cloud EXCEPT !.images = cloud.images \cup {image}]
  BY DEF Pushes
<1>2. cloud.images \cup {image} \in SUBSET Images
  BY DEF WorldTyped
<1> QED
  BY <1>1, <1>2 DEF WorldTyped

\* A step that leaves the world alone keeps it well typed.
LEMMA WorldKept ==
    ASSUME WorldTyped, UNCHANGED <<dotenv, remote, context, bounds>>, trouble' \in BOOLEAN
    PROVE  WorldTyped'
<1>1. UNCHANGED <<dotenv, cloud, secret, cluster, ensured, context, calm, runs>>
  BY DEF remote, bounds
<1> QED
  BY <1>1 DEF WorldTyped

\* A step keeps the types.
LEMMA StepTyped ==
    ASSUME RunTyped, SavedTyped, WorldTyped, Step
    PROVE  RunTyped' /\ SavedTyped' /\ WorldTyped'
<1>1. ASSUME Preflight PROVE RunTyped' /\ SavedTyped' /\ WorldTyped'
  <2>1. RunTyped'
    BY <1>1, MovesTyped, PhasesAre DEF Preflight, At, Steps
  <2>2. SavedTyped'
    BY <1>1, SetPhaseTyped, PhasesAre DEF Preflight, SavedTyped, Finished, Status
  <2>3. WorldTyped'
    <3>1. trouble' \in BOOLEAN
      BY <1>1 DEF Preflight, WorldTyped, Works, Breaks
    <3> QED
      BY <1>1, <3>1, WorldKept DEF Preflight
  <2> QED
    BY <2>1, <2>2, <2>3
<1>2. ASSUME TerraformStarts PROVE RunTyped' /\ SavedTyped' /\ WorldTyped'
  <2>1. RunTyped'
    BY <1>2, MovesTyped, PhasesAre DEF TerraformStarts, At, Steps
  <2>2. SavedTyped'
    BY <1>2, SetPhaseTyped, PhasesAre DEF TerraformStarts, SavedTyped, Status
  <2>3. WorldTyped'
    BY <1>2, RunsAre DEF TerraformStarts, WorldTyped, At, remote, bounds
  <2> QED
    BY <2>1, <2>2, <2>3
<1>3. ASSUME TerraformPlans PROVE RunTyped' /\ SavedTyped' /\ WorldTyped'
  <2>1. RunTyped'
    BY <1>3, MovesTyped, PhasesAre DEF TerraformPlans, At, Steps, Exits
  <2>2. SavedTyped'
    BY <1>3, SetPhaseTyped, PhasesAre DEF TerraformPlans, SavedTyped, local, Status
  <2>3. WorldTyped'
    <3>1. trouble' \in BOOLEAN
      BY <1>3 DEF TerraformPlans, WorldTyped, Works, Breaks, Exits
    <3> QED
      BY <1>3, <3>1, WorldKept DEF TerraformPlans, local
  <2> QED
    BY <2>1, <2>2, <2>3
<1>4. ASSUME TerraformApplies PROVE RunTyped' /\ SavedTyped' /\ WorldTyped'
  <2>1. RunTyped'
    BY <1>4, MovesTyped, PhasesAre DEF TerraformApplies, At, Steps, Exits
  <2>2. SavedTyped'
    BY <1>4, SetPhaseTyped, PhasesAre DEF TerraformApplies, SavedTyped, local, Status
  <2>3. WorldTyped'
    <3>1. run.env \in Envs \cup {None}
      BY <1>4, RunsAre DEF TerraformApplies, At
    <3>2. /\ secret' \in {"none", "terraform", "synced", "password_only"}
          /\ cluster' \in [creds : {"none", "unlabelled", "labelled"}, apps : BOOLEAN]
          /\ ensured' \subseteq {"admin_key", "database"}
      BY <1>4, <3>1, RemoteTyped DEF TerraformApplies, ApplySucceeds, ApplyFails, remote
    <3>3. cloud' \in [env : Envs \cup {None}, whole : BOOLEAN, images : SUBSET Images]
      <4>1. CASE ApplySucceeds
        <5>1. NoCloud \in [env : Envs \cup {None}, whole : BOOLEAN, images : SUBSET Images]
          BY DEF NoCloud
        <5>2. [cloud EXCEPT !.env = run.env, !.whole = TRUE]
                  \in [env : Envs \cup {None}, whole : BOOLEAN, images : SUBSET Images]
          BY <3>1 DEF WorldTyped
        <5>3. cloud' = NoCloud \/ cloud' = [cloud EXCEPT !.env = run.env, !.whole = TRUE]
          BY <4>1 DEF ApplySucceeds
        <5> QED
          BY <5>1, <5>2, <5>3
      <4>2. CASE ApplyFails
        <5>1. /\ cloud \in [env : Envs \cup {None}, whole : BOOLEAN, images : SUBSET Images]
              /\ {} \in SUBSET Images
          BY DEF WorldTyped
        <5>2. \/ cloud' = cloud
              \/ \E images \in {cloud.images, {}} : cloud' = [cloud EXCEPT !.whole = FALSE, !.images = images]
              \/ cloud' = [cloud EXCEPT !.env = run.env, !.whole = FALSE]
          BY <4>2 DEF ApplyFails, remote
        <5> QED
          BY <3>1, <5>1, <5>2
      <4> QED
        BY <1>4, <4>1, <4>2 DEF TerraformApplies
    <3> QED
      BY <1>4, <3>2, <3>3 DEF TerraformApplies, WorldTyped, local, bounds, Works, Breaks, Exits
  <2> QED
    BY <2>1, <2>2, <2>3
<1>5. ASSUME TerraformDestroyed PROVE RunTyped' /\ SavedTyped' /\ WorldTyped'
  <2>1. RunTyped'
    BY <1>5, MovesTyped, PhasesAre DEF TerraformDestroyed, At, Steps
  <2>2. SavedTyped'
    BY <1>5, SetPhaseTyped, PhasesAre DEF TerraformDestroyed, SavedTyped, Status
  <2>3. WorldTyped'
    BY <1>5, RunsAre DEF TerraformDestroyed, WorldTyped, At, remote, bounds
  <2> QED
    BY <2>1, <2>2, <2>3
<1>6. ASSUME TerraformApplied PROVE RunTyped' /\ SavedTyped' /\ WorldTyped'
  <2>1. RunTyped'
    BY <1>6, MovesTyped, PhasesAre DEF TerraformApplied, At, Steps
  <2>2. SavedTyped'
    <3>1. CASE SetPhase("terraform", "completed")
      BY <3>1, SetPhaseTyped, PhasesAre DEF Status
    <3>2. CASE saved' = [status |-> [saved.status EXCEPT !["terraform"] = "completed"],
                         env |-> run.env, outputs |-> TRUE]
      <4>1. run.env \in Envs \cup {None}
        BY <1>6, RunsAre DEF TerraformApplied, At
      <4>2. [saved.status EXCEPT !["terraform"] = "completed"] \in [Saved -> Status]
        BY DEF SavedTyped, Status
      <4>3. saved'.status = [saved.status EXCEPT !["terraform"] = "completed"]
        BY <3>2
      <4> QED
        BY <3>2, <4>1, <4>2, <4>3, PhasesAre DEF SavedTyped
    <3> QED
      BY <1>6, <3>1, <3>2 DEF TerraformApplied
  <2>3. WorldTyped'
    BY <1>6, RunsAre DEF TerraformApplied, WorldTyped, At, remote, bounds, Works, Breaks
  <2> QED
    BY <2>1, <2>2, <2>3
<1>7. ASSUME OutputsRefresh PROVE RunTyped' /\ SavedTyped' /\ WorldTyped'
  <2>1. RunTyped'
    BY <1>7, MovesTyped, PhasesAre DEF OutputsRefresh, At, Steps
  <2>2. SavedTyped'
    BY <1>7, SetPhaseTyped, PhasesAre DEF OutputsRefresh, SavedTyped, Status
  <2>3. WorldTyped'
    <3>1. trouble' \in BOOLEAN
      BY <1>7 DEF OutputsRefresh, WorldTyped, Works, Breaks
    <3> QED
      BY <1>7, <3>1, WorldKept DEF OutputsRefresh
  <2> QED
    BY <2>1, <2>2, <2>3
<1>8. ASSUME KubeconfigUpdates PROVE RunTyped' /\ SavedTyped' /\ WorldTyped'
  <2>1. RunTyped'
    BY <1>8, MovesTyped, PhasesAre DEF KubeconfigUpdates, At, Steps
  <2>2. SavedTyped'
    BY <1>8, SetPhaseTyped, PhasesAre DEF KubeconfigUpdates, SavedTyped, local, Status
  <2>3. WorldTyped'
    <3>1. Guess \in Envs \cup {None}
      BY <1>8, RunsAre DEF KubeconfigUpdates, At, SavedTyped, Guess
    <3> QED
      BY <1>8, <3>1 DEF KubeconfigUpdates, WorldTyped, local, remote, bounds, Works, Breaks
  <2> QED
    BY <2>1, <2>2, <2>3
<1>9. ASSUME KubeconfigVerifies PROVE RunTyped' /\ SavedTyped' /\ WorldTyped'
  <2>1. RunTyped'
    BY <1>9, MovesTyped, PhasesAre DEF KubeconfigVerifies, At, Steps
  <2>2. SavedTyped'
    BY <1>9, SetPhaseTyped, PhasesAre DEF KubeconfigVerifies, SavedTyped, Finished, Status
  <2>3. WorldTyped'
    <3>1. trouble' \in BOOLEAN
      BY <1>9 DEF KubeconfigVerifies, WorldTyped, Works, Breaks
    <3> QED
      BY <1>9, <3>1, WorldKept DEF KubeconfigVerifies
  <2> QED
    BY <2>1, <2>2, <2>3
<1>10. ASSUME ImagesStart PROVE RunTyped' /\ SavedTyped' /\ WorldTyped'
  <2>1. RunTyped'
    BY <1>10, MovesTyped, PhasesAre DEF ImagesStart, At, Steps
  <2>2. SavedTyped'
    BY <1>10, SetPhaseTyped, PhasesAre DEF ImagesStart, SavedTyped, Status
  <2>3. WorldTyped'
    <3>1. trouble' \in BOOLEAN
      BY <1>10 DEF ImagesStart, WorldTyped, Works, Breaks
    <3> QED
      BY <1>10, <3>1, WorldKept DEF ImagesStart
  <2> QED
    BY <2>1, <2>2, <2>3
<1>11. ASSUME ImagesBuild PROVE RunTyped' /\ SavedTyped' /\ WorldTyped'
  <2>1. RunTyped'
    BY <1>11, MovesTyped, PhasesAre DEF ImagesBuild, At, Steps, Exits
  <2>2. SavedTyped'
    BY <1>11, SetPhaseTyped, PhasesAre DEF ImagesBuild, SavedTyped, Status
  <2>3. WorldTyped'
    <3>1. trouble' \in BOOLEAN
      BY <1>11 DEF ImagesBuild, WorldTyped, Works, Breaks, Exits
    <3> QED
      BY <1>11, <3>1, WorldKept DEF ImagesBuild
  <2> QED
    BY <2>1, <2>2, <2>3
<1>12. ASSUME ImagesPushBackend PROVE RunTyped' /\ SavedTyped' /\ WorldTyped'
  <2>1. RunTyped'
    BY <1>12, MovesTyped, PhasesAre DEF ImagesPushBackend, At, Steps, PushFails
  <2>2. SavedTyped'
    BY <1>12, SetPhaseTyped, PhasesAre DEF ImagesPushBackend, SavedTyped, Status, PushFails
  <2>3. WorldTyped'
    <3>1. cloud' \in [env : Envs \cup {None}, whole : BOOLEAN, images : SUBSET Images]
      BY <1>12, PushesTyped DEF ImagesPushBackend, PushFails, Images, WorldTyped
    <3> QED
      BY <1>12, <3>1 DEF ImagesPushBackend, WorldTyped, local, bounds, Works, Breaks, Pushes, PushFails
  <2> QED
    BY <2>1, <2>2, <2>3
<1>13. ASSUME ImagesPushAdminUi PROVE RunTyped' /\ SavedTyped' /\ WorldTyped'
  <2>1. RunTyped'
    BY <1>13, MovesTyped, PhasesAre DEF ImagesPushAdminUi, At, Steps, PushFails
  <2>2. SavedTyped'
    BY <1>13, SetPhaseTyped, PhasesAre DEF ImagesPushAdminUi, SavedTyped, Status, PushFails
  <2>3. WorldTyped'
    <3>1. cloud' \in [env : Envs \cup {None}, whole : BOOLEAN, images : SUBSET Images]
      BY <1>13, PushesTyped DEF ImagesPushAdminUi, PushFails, Images, WorldTyped
    <3> QED
      BY <1>13, <3>1 DEF ImagesPushAdminUi, WorldTyped, local, bounds, Works, Breaks, Pushes, PushFails
  <2> QED
    BY <2>1, <2>2, <2>3
<1>14. ASSUME DeployStarts PROVE RunTyped' /\ SavedTyped' /\ WorldTyped'
  <2>1. RunTyped'
    BY <1>14, MovesTyped, PhasesAre DEF DeployStarts, At, Steps
  <2>2. SavedTyped'
    BY <1>14, SetPhaseTyped, PhasesAre DEF DeployStarts, SavedTyped, Status
  <2>3. WorldTyped'
    BY <1>14, RunsAre DEF DeployStarts, WorldTyped, At, remote, bounds
  <2> QED
    BY <2>1, <2>2, <2>3
<1>15. ASSUME DeployWaits PROVE RunTyped' /\ SavedTyped' /\ WorldTyped'
  <2>1. RunTyped'
    BY <1>15, MovesTyped, PhasesAre DEF DeployWaits, At, Steps
  <2>2. SavedTyped'
    BY <1>15, SetPhaseTyped, PhasesAre DEF DeployWaits, SavedTyped, Status
  <2>3. WorldTyped'
    <3>1. trouble' \in BOOLEAN
      BY <1>15 DEF DeployWaits, WorldTyped, Works, Breaks, Unreachable
    <3> QED
      BY <1>15, <3>1, WorldKept DEF DeployWaits
  <2> QED
    BY <2>1, <2>2, <2>3
<1>16. ASSUME DeployCreds PROVE RunTyped' /\ SavedTyped' /\ WorldTyped'
  <2>1. RunTyped'
    BY <1>16, MovesTyped, PhasesAre DEF DeployCreds, At, Steps, Creates
  <2>2. SavedTyped'
    BY <1>16, SetPhaseTyped, PhasesAre DEF DeployCreds, SavedTyped, local, Status
  <2>3. WorldTyped'
    BY <1>16, RunsAre DEF DeployCreds, WorldTyped, At, local, bounds, Works, Breaks, Unreachable, Creates
  <2> QED
    BY <2>1, <2>2, <2>3
<1>17. ASSUME DeployLabels PROVE RunTyped' /\ SavedTyped' /\ WorldTyped'
  <2>1. RunTyped'
    BY <1>17, MovesTyped, PhasesAre DEF DeployLabels, At, Steps, Exits
  <2>2. SavedTyped'
    BY <1>17, SetPhaseTyped, PhasesAre DEF DeployLabels, SavedTyped, local, Status
  <2>3. WorldTyped'
    BY <1>17, RunsAre DEF DeployLabels, WorldTyped, At, local, bounds, Works, Breaks, Exits
  <2> QED
    BY <2>1, <2>2, <2>3
<1>18. ASSUME DeployApplies PROVE RunTyped' /\ SavedTyped' /\ WorldTyped'
  <2>1. RunTyped'
    BY <1>18, MovesTyped, PhasesAre DEF DeployApplies, At, Steps
  <2>2. SavedTyped'
    BY <1>18, SetPhaseTyped, PhasesAre DEF DeployApplies, SavedTyped, Status
  <2>3. WorldTyped'
    BY <1>18, RunsAre DEF DeployApplies, WorldTyped, At, bounds, Works, Breaks, Unreachable
  <2> QED
    BY <2>1, <2>2, <2>3
<1>19. ASSUME ReconcileReads PROVE RunTyped' /\ SavedTyped' /\ WorldTyped'
  <2>1. RunTyped'
    BY <1>19, MovesTyped, PhasesAre DEF ReconcileReads, At, Steps
  <2>2. SavedTyped'
    BY <1>19, SetPhaseTyped, PhasesAre DEF ReconcileReads, SavedTyped, local, Status
  <2>3. WorldTyped'
    <3>1. trouble' \in BOOLEAN
      BY <1>19 DEF ReconcileReads, WorldTyped, Works, Breaks
    <3> QED
      BY <1>19, <3>1, WorldKept DEF ReconcileReads, local
  <2> QED
    BY <2>1, <2>2, <2>3
<1>20. ASSUME ReconcilePuts PROVE RunTyped' /\ SavedTyped' /\ WorldTyped'
  <2>1. RunTyped'
    BY <1>20, MovesTyped, PhasesAre DEF ReconcilePuts, Steps
  <2>2. SavedTyped'
    BY <1>20, SetPhaseTyped, PhasesAre DEF ReconcilePuts, SavedTyped, local, Status
  <2>3. WorldTyped'
    BY <1>20, RunsAre DEF ReconcilePuts, WorldTyped, local, bounds, Works, Breaks, Synced
  <2> QED
    BY <2>1, <2>2, <2>3
<1>21. ASSUME ReconcileEnsures PROVE RunTyped' /\ SavedTyped' /\ WorldTyped'
  <2>1. RunTyped'
    BY <1>21, MovesTyped, PhasesAre DEF ReconcileEnsures, At, Steps
  <2>2. SavedTyped'
    BY <1>21, SetPhaseTyped, PhasesAre DEF ReconcileEnsures, SavedTyped, local, Status
  <2>3. WorldTyped'
    <3>1. trouble' \in BOOLEAN
      BY <1>21 DEF ReconcileEnsures, WorldTyped, Works, Breaks
    <3>2. ensured' \subseteq {"admin_key", "database"}
      BY <1>21 DEF ReconcileEnsures, WorldTyped
    <3> QED
      BY <1>21, <3>1, <3>2 DEF ReconcileEnsures, WorldTyped, local, bounds
  <2> QED
    BY <2>1, <2>2, <2>3
<1>22. ASSUME ReconcileWaits PROVE RunTyped' /\ SavedTyped' /\ WorldTyped'
  <2>1. RunTyped'
    <3>1. PodsRun \in BOOLEAN
      BY DEF PodsRun
    <3> QED
      BY <1>22, <3>1, MovesTyped, PhasesAre DEF ReconcileWaits, At, Steps
  <2>2. SavedTyped'
    BY <1>22, SetPhaseTyped, PhasesAre DEF ReconcileWaits, SavedTyped, local, Status
  <2>3. WorldTyped'
    <3>1. trouble' \in BOOLEAN
      BY <1>22 DEF ReconcileWaits, WorldTyped, Works, Breaks
    <3> QED
      BY <1>22, <3>1, WorldKept DEF ReconcileWaits, local
  <2> QED
    BY <2>1, <2>2, <2>3
<1>23. ASSUME Validates PROVE RunTyped' /\ SavedTyped' /\ WorldTyped'
  <2>1. RunTyped'
    BY <1>23, MovesTyped, PhasesAre DEF Validates, At, Steps
  <2>2. SavedTyped'
    BY <1>23, SetPhaseTyped, PhasesAre DEF Validates, SavedTyped, Finished, Status
  <2>3. WorldTyped'
    <3>1. trouble' \in BOOLEAN
      BY <1>23 DEF Validates, WorldTyped, Works, Breaks
    <3> QED
      BY <1>23, <3>1, WorldKept DEF Validates
  <2> QED
    BY <2>1, <2>2, <2>3
<1>24. ASSUME DestroyRaises PROVE RunTyped' /\ SavedTyped' /\ WorldTyped'
  <2>1. RunTyped'
    BY <1>24, MovesTyped, PhasesAre DEF DestroyRaises, At, Steps
  <2>2. SavedTyped'
    BY <1>24, SetPhaseTyped, PhasesAre DEF DestroyRaises, SavedTyped, local, Status
  <2>3. WorldTyped'
    <3>1. trouble' \in BOOLEAN
      BY <1>24 DEF DestroyRaises, WorldTyped, Works, Breaks
    <3> QED
      BY <1>24, <3>1, WorldKept DEF DestroyRaises, local
  <2> QED
    BY <2>1, <2>2, <2>3
<1> QED
  BY <1>1, <1>2, <1>3, <1>4, <1>5, <1>6, <1>7, <1>8, <1>9, <1>10, <1>11, <1>12, <1>13, <1>14,
     <1>15, <1>16, <1>17, <1>18, <1>19, <1>20, <1>21, <1>22, <1>23, <1>24 DEF Step

\* Whatever is started, interrupted or done, the types stay.
LEMMA NextTypeOK == TypeOK /\ [Next]_vars => TypeOK'
<1> SUFFICES ASSUME TypeOK, [Next]_vars PROVE TypeOK'
  OBVIOUS
<1>1. RunTyped /\ SavedTyped /\ WorldTyped
  BY DEF TypeOK, RunTyped, SavedTyped, WorldTyped
<1>2. CASE Step
  BY <1>1, <1>2, StepTyped DEF TypeOK, RunTyped, SavedTyped, WorldTyped
<1>3. CASE Interrupt
  <2>1. run.cmd # "none" /\ run \in Running
    BY <1>1, <1>3, PhasesAre DEF Interrupt, RunTyped, Running
  <2>2. RunTyped'
    BY <1>1, <1>3, <2>1, MovesTyped DEF Interrupt
  <2> QED
    BY <1>1, <1>3, <2>2 DEF TypeOK, RunTyped, SavedTyped, WorldTyped, Interrupt, local, remote, bounds
<1>4. CASE CalmComes
  BY <1>1, <1>4 DEF TypeOK, CalmComes, local, remote
<1>5. ASSUME NEW i \in Invocations, Invoke(i) PROVE TypeOK'
  <2>1. /\ i.cmd \in Commands /\ i.env \in Envs \cup {None} /\ i.opts \in SUBSET Options
    BY InvocationsAssumption
  <2>2. /\ run' \in Running /\ run'.cmd = i.cmd
        /\ run'.phase = IF i.cmd = "all" THEN "preflight" ELSE i.cmd
    BY <1>5, <2>1, PhasesAre DEF Invoke, Running, Steps
  <2>3. RunTyped'
    BY <1>5, <2>2, PhasesAre DEF Invoke, RunTyped
  <2>4. SavedTyped' /\ WorldTyped'
    <3>1. runs' \in 0 .. MaxRuns
      BY <1>1, <1>5, MaxRunsAssumption DEF Invoke, WorldTyped
    <3>2. UNCHANGED <<saved, dotenv, cloud, secret, cluster, ensured, context, calm>> /\ trouble' \in BOOLEAN
      BY <1>5 DEF Invoke, local, remote
    <3>3. SavedTyped'
      BY <1>1, <3>2 DEF SavedTyped
    <3>4. WorldTyped'
      BY <1>1, <3>1, <3>2 DEF WorldTyped
    <3> QED
      BY <3>3, <3>4
  <2> QED
    BY <2>3, <2>4 DEF TypeOK, RunTyped, SavedTyped, WorldTyped
<1>6. CASE UNCHANGED vars
  BY <1>6 DEF vars, TypeOK
<1> QED
  BY <1>2, <1>3, <1>4, <1>5, <1>6 DEF Next

\* The script has not run yet.
LEMMA InitTypeOK == Init => TypeOK
<1> SUFFICES ASSUME Init PROVE TypeOK
  OBVIOUS
<1>1. SavedTyped
  BY PhasesAre DEF Init, SavedTyped, Status
<1>2. WorldTyped
  <2>1. /\ NoCloud \in [env : Envs \cup {None}, whole : BOOLEAN, images : SUBSET Images]
        /\ NewCluster \in [creds : {"none", "unlabelled", "labelled"}, apps : BOOLEAN]
    BY DEF NoCloud, NewCluster
  <2>2. 0 \in 0 .. MaxRuns
    BY MaxRunsAssumption
  <2> QED
    BY <2>1, <2>2 DEF Init, WorldTyped
<1>3. RunTyped
  BY DEF Init, RunTyped
<1> QED
  BY <1>1, <1>2, <1>3 DEF TypeOK, RunTyped, SavedTyped, WorldTyped

\* The state file, the command and the cloud are always well typed: whatever
\* fails, no status is saved that a phase cannot have (update_phase).
THEOREM TypeCorrectness == Spec => []TypeOK
BY InitTypeOK, NextTypeOK, PTL DEF Spec

-----------------------------------------------------------------------------
(* The order of the phases                                                  *)

\* Everything a phase of `all' builds on is saved as completed.
Sorted(command, status) ==
    command.cmd = "all" =>
        \A p \in Saved :
            Position(p) < Position(command.phase) /\ ~(p = "images" /\ "skip_images" \in command.opts)
                => status[p] = "completed"

\* That is what AllInOrder asks, position by position.
LEMMA SortedIsInOrder ==
    ASSUME NEW command, NEW status,
           command.cmd = "all" => command.phase \in {Order[i] : i \in DOMAIN Order}
    PROVE  Sorted(command, status) <=>
              (command.cmd = "all" =>
                  \A i \in 1 .. Position(command.phase) - 1 :
                      Order[i] # "reconcile" /\ ~(Order[i] = "images" /\ "skip_images" \in command.opts) =>
                          status[Order[i]] = "completed")
<1> SUFFICES ASSUME command.cmd = "all", command.phase \in {Order[i] : i \in DOMAIN Order}
             PROVE  Sorted(command, status) <=>
                       (\A i \in 1 .. Position(command.phase) - 1 :
                          Order[i] # "reconcile" /\ ~(Order[i] = "images" /\ "skip_images" \in command.opts) =>
                              status[Order[i]] = "completed")
  BY DEF Sorted
<1>1. Position(command.phase) \in 1 .. 7
  BY PhasesAre, PositionIs
<1>2. \A i \in 1 .. 7 : Position(Order[i]) = i
  BY OrderIs, PositionIs
<1>3. Saved = {Order[i] : i \in {i \in 1 .. 7 : Order[i] # "reconcile"}}
  BY PhasesAre, OrderIs
<1> QED
  BY <1>1, <1>2, <1>3 DEF Sorted

\* What the command line of a command is worth while it runs.
CommandLine ==
    run.cmd # "none" =>
        /\ ended.cmd = "none"
        /\ \E i \in Invocations : i.cmd = run.cmd /\ i.env = run.env /\ i.opts = run.opts

\* How a step leaves its command: where it is, ended, or in the phase after
\* the one it completed.
Stays == run'.cmd = run.cmd /\ run'.env = run.env /\ run'.opts = run.opts /\ run'.phase = run.phase /\ ended' = ended

Leaves ==
    /\ run' = Idle /\ ended'.cmd = run.cmd
    /\ run.cmd = "all" /\ ended'.how = "done" => run.phase = "validate"

Passes ==
    /\ run.cmd = "all" /\ run.phase # "validate"
    /\ run'.cmd = run.cmd /\ run'.env = run.env /\ run'.opts = run.opts
    /\ run'.phase = Following(run.phase) /\ run'.step = "start" /\ ended' = ended
    /\ run.phase # "reconcile" => saved'.status[run.phase] = "completed"

\* Coming back from a phase is one of the two last.
LEMMA ReturnsMoves ==
    ASSUME run \in Running, NEW ok \in BOOLEAN, NEW phase, phase = run.phase, Returns(phase, ok),
           ok /\ run.cmd = "all" /\ phase # "validate" /\ phase # "reconcile"
              => saved'.status[phase] = "completed"
    PROVE  Leaves \/ Passes
<1>1. CASE GoesOn(phase, ok)
  <2>1. run' = [run EXCEPT !.phase = Following(run.phase), !.step = "start"] /\ ended' = ended
    BY <1>1 DEF Returns
  <2>2. /\ run'.cmd = run.cmd /\ run'.env = run.env /\ run'.opts = run.opts
        /\ run'.phase = Following(run.phase) /\ run'.step = "start"
    BY <2>1 DEF Running
  <2> QED
    BY <1>1, <2>1, <2>2 DEF GoesOn, Passes
<1>2. CASE ~GoesOn(phase, ok)
  BY <1>2 DEF Returns, GoesOn, Ends, Leaves
<1> QED
  BY <1>1, <1>2

\* Going to a step of the phase is staying.
LEMMA GoesStays ==
    ASSUME run \in Running, NEW step, Goes(step)
    PROVE  Stays
BY DEF Goes, Stays, Running

\* So is ending with a failure.
LEMMA FailureLeaves ==
    ASSUME NEW how \in {"failed", "raised", "interrupted"}, Ends(how)
    PROVE  Leaves
BY DEF Ends, Leaves

\* Saving the status of the phase touches no other.
LEMMA SetPhaseIsOwn ==
    ASSUME SavedTyped, NEW phase, phase = run.phase, NEW status, SetPhase(phase, status),
           NEW p \in Saved \ {run.phase}
    PROVE  saved'.status[p] = saved.status[p]
BY DEF SetPhase, SavedTyped

\* No step touches the status of another phase, and `all' goes on only from a
\* phase that it completed, reconcile apart.
LEMMA StepMoves ==
    ASSUME TypeOK, CommandLine, Step
    PROVE  /\ run \in Running
           /\ \A p \in Saved \ {run.phase} : saved'.status[p] = saved.status[p]
           /\ Stays \/ Leaves \/ Passes
<1> DEFINE Elsewhere == \A p \in Saved \ {run.phase} : saved'.status[p] = saved.status[p]
<1>1. SavedTyped
  BY DEF TypeOK, SavedTyped
<1>2. run.cmd = "all" => run.opts \subseteq {"skip_images"}
  BY InvocationsAssumption DEF CommandLine
<1>3. ASSUME Preflight PROVE run \in Running /\ Elsewhere /\ (Stays \/ Leaves \/ Passes)
  <2>1. run \in Running
    BY <1>3, RunsAre DEF Preflight, At, TypeOK, RunTyped
  <2>2. Elsewhere
    BY <1>1, <1>3 DEF Preflight, At, SetPhase, SavedTyped
  <2>3. Stays \/ Leaves \/ Passes
    BY <1>1, <1>2, <1>3, <2>1, GoesStays, ReturnsMoves, FailureLeaves, PhasesAre
    DEF Preflight, At, SetPhase, SavedTyped, Finished, Opt
  <2> QED
    BY <2>1, <2>2, <2>3
<1>4. ASSUME TerraformStarts PROVE run \in Running /\ Elsewhere /\ (Stays \/ Leaves \/ Passes)
  <2>1. run \in Running
    BY <1>4, RunsAre DEF TerraformStarts, At, TypeOK, RunTyped
  <2>2. Elsewhere
    BY <1>1, <1>4 DEF TerraformStarts, At, SetPhase, SavedTyped
  <2>3. Stays \/ Leaves \/ Passes
    BY <1>1, <1>2, <1>4, <2>1, GoesStays, ReturnsMoves, FailureLeaves, PhasesAre
    DEF TerraformStarts, At, SetPhase, SavedTyped, Opt
  <2> QED
    BY <2>1, <2>2, <2>3
<1>5. ASSUME TerraformPlans PROVE run \in Running /\ Elsewhere /\ (Stays \/ Leaves \/ Passes)
  <2>1. run \in Running
    BY <1>5, RunsAre DEF TerraformPlans, At, TypeOK, RunTyped
  <2>2. Elsewhere
    BY <1>1, <1>5 DEF TerraformPlans, At, SavedTyped, local
  <2>3. Stays \/ Leaves \/ Passes
    BY <1>1, <1>2, <1>5, <2>1, GoesStays, ReturnsMoves, FailureLeaves, PhasesAre
    DEF TerraformPlans, At, SavedTyped, Opt, Exits
  <2> QED
    BY <2>1, <2>2, <2>3
<1>6. ASSUME TerraformApplies PROVE run \in Running /\ Elsewhere /\ (Stays \/ Leaves \/ Passes)
  <2>1. run \in Running
    BY <1>6, RunsAre DEF TerraformApplies, At, TypeOK, RunTyped
  <2>2. Elsewhere
    BY <1>1, <1>6 DEF TerraformApplies, At, SavedTyped, local
  <2>3. Stays \/ Leaves \/ Passes
    BY <1>1, <1>2, <1>6, <2>1, GoesStays, ReturnsMoves, FailureLeaves, PhasesAre
    DEF TerraformApplies, At, SavedTyped, Opt, Exits
  <2> QED
    BY <2>1, <2>2, <2>3
<1>7. ASSUME TerraformDestroyed PROVE run \in Running /\ Elsewhere /\ (Stays \/ Leaves \/ Passes)
  <2>1. run \in Running
    BY <1>7, RunsAre DEF TerraformDestroyed, At, TypeOK, RunTyped
  <2>2. Elsewhere
    BY <1>1, <1>7 DEF TerraformDestroyed, At, SetPhase, SavedTyped
  <2>3. Stays \/ Leaves \/ Passes
    BY <1>1, <1>2, <1>7, <2>1, GoesStays, ReturnsMoves, FailureLeaves, PhasesAre
    DEF TerraformDestroyed, At, SetPhase, SavedTyped, Opt
  <2> QED
    BY <2>1, <2>2, <2>3
<1>8. ASSUME TerraformApplied PROVE run \in Running /\ Elsewhere /\ (Stays \/ Leaves \/ Passes)
  <2>1. run \in Running
    BY <1>8, RunsAre DEF TerraformApplied, At, TypeOK, RunTyped
  <2>2. Elsewhere
    BY <1>1, <1>8 DEF TerraformApplied, At, SetPhase, SavedTyped
  <2>3. Stays \/ Leaves \/ Passes
    <3>1. saved'.status["terraform"] = "completed"
      BY <1>1, <1>8, PhasesAre DEF TerraformApplied, SetPhase, SavedTyped
    <3> QED
      BY <1>8, <2>1, <3>1, ReturnsMoves DEF TerraformApplied, At
  <2> QED
    BY <2>1, <2>2, <2>3
<1>9. ASSUME OutputsRefresh PROVE run \in Running /\ Elsewhere /\ (Stays \/ Leaves \/ Passes)
  <2>1. run \in Running
    BY <1>9, RunsAre DEF OutputsRefresh, At, TypeOK, RunTyped
  <2>2. Elsewhere
    BY <1>1, <1>9 DEF OutputsRefresh, At, SavedTyped
  <2>3. Stays \/ Leaves \/ Passes
    <3>1. run.phase = "outputs" /\ Ends("done")
      BY <1>9 DEF OutputsRefresh, At
    <3>2. run.cmd # "all"
      BY <2>1, <3>1, PhasesAre DEF TypeOK, Running, Idle
    <3> QED
      BY <3>1, <3>2 DEF Ends, Leaves
  <2> QED
    BY <2>1, <2>2, <2>3
<1>10. ASSUME KubeconfigUpdates PROVE run \in Running /\ Elsewhere /\ (Stays \/ Leaves \/ Passes)
  <2>1. run \in Running
    BY <1>10, RunsAre DEF KubeconfigUpdates, At, TypeOK, RunTyped
  <2>2. Elsewhere
    BY <1>1, <1>10 DEF KubeconfigUpdates, At, SavedTyped, local
  <2>3. Stays \/ Leaves \/ Passes
    BY <1>1, <1>2, <1>10, <2>1, GoesStays, ReturnsMoves, FailureLeaves, PhasesAre
    DEF KubeconfigUpdates, At, SavedTyped, Opt
  <2> QED
    BY <2>1, <2>2, <2>3
<1>11. ASSUME KubeconfigVerifies PROVE run \in Running /\ Elsewhere /\ (Stays \/ Leaves \/ Passes)
  <2>1. run \in Running
    BY <1>11, RunsAre DEF KubeconfigVerifies, At, TypeOK, RunTyped
  <2>2. Elsewhere
    BY <1>1, <1>11 DEF KubeconfigVerifies, At, SetPhase, SavedTyped
  <2>3. Stays \/ Leaves \/ Passes
    BY <1>1, <1>2, <1>11, <2>1, GoesStays, ReturnsMoves, FailureLeaves, PhasesAre
    DEF KubeconfigVerifies, At, SetPhase, SavedTyped, Finished, Opt
  <2> QED
    BY <2>1, <2>2, <2>3
<1>12. ASSUME ImagesStart PROVE run \in Running /\ Elsewhere /\ (Stays \/ Leaves \/ Passes)
  <2>1. run \in Running
    BY <1>12, RunsAre
    DEF ImagesStart, At, TypeOK, RunTyped
  <2>2. Elsewhere
    <3>1. PICK status \in Status : SetPhase("images", status)
      BY <1>12 DEF ImagesStart, Status
    <3> QED
      BY <1>1, <1>12, <3>1, SetPhaseIsOwn DEF ImagesStart, At
  <2>3. Stays \/ Leaves \/ Passes
    BY <1>1, <1>2, <1>12, <2>1, GoesStays, ReturnsMoves, FailureLeaves, PhasesAre
    DEF ImagesStart, At, SetPhase, SavedTyped, Opt
  <2> QED
    BY <2>1, <2>2, <2>3
<1>13. ASSUME ImagesBuild PROVE run \in Running /\ Elsewhere /\ (Stays \/ Leaves \/ Passes)
  <2>1. run \in Running
    BY <1>13, RunsAre
    DEF ImagesBuild, At, TypeOK, RunTyped
  <2>2. Elsewhere
    BY <1>1, <1>13 DEF ImagesBuild, At, SetPhase, SavedTyped
  <2>3. Stays \/ Leaves \/ Passes
    BY <1>1, <1>2, <1>13, <2>1, GoesStays, ReturnsMoves, FailureLeaves, PhasesAre
    DEF ImagesBuild, At, SetPhase, SavedTyped, Opt, Exits
  <2> QED
    BY <2>1, <2>2, <2>3
<1>14. ASSUME ImagesPushBackend PROVE run \in Running /\ Elsewhere /\ (Stays \/ Leaves \/ Passes)
  <2>1. run \in Running
    BY <1>14, RunsAre DEF ImagesPushBackend, At, TypeOK, RunTyped
  <2>2. Elsewhere
    BY <1>1, <1>14 DEF ImagesPushBackend, At, SavedTyped, PushFails
  <2>3. Stays \/ Leaves \/ Passes
    BY <1>1, <1>2, <1>14, <2>1, GoesStays, ReturnsMoves, FailureLeaves, PhasesAre
    DEF ImagesPushBackend, At, SavedTyped, Opt, PushFails
  <2> QED
    BY <2>1, <2>2, <2>3
<1>15. ASSUME ImagesPushAdminUi PROVE run \in Running /\ Elsewhere /\ (Stays \/ Leaves \/ Passes)
  <2>1. run \in Running
    BY <1>15, RunsAre DEF ImagesPushAdminUi, At, TypeOK, RunTyped
  <2>2. Elsewhere
    BY <1>1, <1>15 DEF ImagesPushAdminUi, At, SetPhase, SavedTyped, PushFails
  <2>3. Stays \/ Leaves \/ Passes
    <3>1. CASE SetPhase("images", "completed") /\ Returns("images", TRUE)
      <4>1. saved'.status["images"] = "completed"
        BY <1>1, <3>1, PhasesAre DEF SetPhase, SavedTyped
      <4> QED
        BY <1>15, <2>1, <3>1, <4>1, ReturnsMoves DEF ImagesPushAdminUi, At
    <3>2. CASE PushFails
      BY <3>2, FailureLeaves DEF PushFails
    <3> QED
      BY <1>15, <3>1, <3>2 DEF ImagesPushAdminUi
  <2> QED
    BY <2>1, <2>2, <2>3
<1>16. ASSUME DeployStarts PROVE run \in Running /\ Elsewhere /\ (Stays \/ Leaves \/ Passes)
  <2>1. run \in Running
    BY <1>16, RunsAre DEF DeployStarts, At, TypeOK, RunTyped
  <2>2. Elsewhere
    BY <1>1, <1>16 DEF DeployStarts, At, SetPhase, SavedTyped
  <2>3. Stays \/ Leaves \/ Passes
    BY <1>1, <1>2, <1>16, <2>1, GoesStays, ReturnsMoves, FailureLeaves, PhasesAre
    DEF DeployStarts, At, SetPhase, SavedTyped, Opt
  <2> QED
    BY <2>1, <2>2, <2>3
<1>17. ASSUME DeployWaits PROVE run \in Running /\ Elsewhere /\ (Stays \/ Leaves \/ Passes)
  <2>1. run \in Running
    BY <1>17, RunsAre DEF DeployWaits, At, TypeOK, RunTyped
  <2>2. Elsewhere
    BY <1>1, <1>17 DEF DeployWaits, At, SetPhase, SavedTyped
  <2>3. Stays \/ Leaves \/ Passes
    BY <1>1, <1>2, <1>17, <2>1, GoesStays, ReturnsMoves, FailureLeaves, PhasesAre
    DEF DeployWaits, At, SetPhase, SavedTyped, Opt
  <2> QED
    BY <2>1, <2>2, <2>3
<1>18. ASSUME DeployCreds PROVE run \in Running /\ Elsewhere /\ (Stays \/ Leaves \/ Passes)
  <2>1. run \in Running
    BY <1>18, RunsAre DEF DeployCreds, At, TypeOK, RunTyped
  <2>2. Elsewhere
    BY <1>1, <1>18 DEF DeployCreds, At, SavedTyped, local
  <2>3. Stays \/ Leaves \/ Passes
    BY <1>1, <1>2, <1>18, <2>1, GoesStays, ReturnsMoves, FailureLeaves, PhasesAre
    DEF DeployCreds, At, SavedTyped, Opt, Creates
  <2> QED
    BY <2>1, <2>2, <2>3
<1>19. ASSUME DeployLabels PROVE run \in Running /\ Elsewhere /\ (Stays \/ Leaves \/ Passes)
  <2>1. run \in Running
    BY <1>19, RunsAre DEF DeployLabels, At, TypeOK, RunTyped
  <2>2. Elsewhere
    BY <1>1, <1>19 DEF DeployLabels, At, SavedTyped, local
  <2>3. Stays \/ Leaves \/ Passes
    BY <1>1, <1>2, <1>19, <2>1, GoesStays, ReturnsMoves, FailureLeaves, PhasesAre
    DEF DeployLabels, At, SavedTyped, Opt, Exits
  <2> QED
    BY <2>1, <2>2, <2>3
<1>20. ASSUME DeployApplies PROVE run \in Running /\ Elsewhere /\ (Stays \/ Leaves \/ Passes)
  <2>1. run \in Running
    BY <1>20, RunsAre DEF DeployApplies, At, TypeOK, RunTyped
  <2>2. Elsewhere
    BY <1>1, <1>20 DEF DeployApplies, At, SetPhase, SavedTyped
  <2>3. Stays \/ Leaves \/ Passes
    <3>1. CASE SetPhase("deploy", "completed") /\ Returns("deploy", TRUE)
      <4>1. saved'.status["deploy"] = "completed"
        BY <1>1, <3>1, PhasesAre DEF SetPhase, SavedTyped
      <4> QED
        BY <1>20, <2>1, <3>1, <4>1, ReturnsMoves DEF DeployApplies, At
    <3>2. CASE Ends("failed")
      BY <3>2, FailureLeaves
    <3> QED
      BY <1>20, <3>1, <3>2 DEF DeployApplies
  <2> QED
    BY <2>1, <2>2, <2>3
<1>21. ASSUME ReconcileReads PROVE run \in Running /\ Elsewhere /\ (Stays \/ Leaves \/ Passes)
  <2>1. run \in Running
    BY <1>21, RunsAre DEF ReconcileReads, At, TypeOK, RunTyped
  <2>2. Elsewhere
    BY <1>1, <1>21 DEF ReconcileReads, At, SavedTyped, local
  <2>3. Stays \/ Leaves \/ Passes
    BY <1>1, <1>2, <1>21, <2>1, GoesStays, ReturnsMoves, FailureLeaves, PhasesAre
    DEF ReconcileReads, At, SavedTyped, Opt
  <2> QED
    BY <2>1, <2>2, <2>3
<1>22. ASSUME ReconcilePuts PROVE run \in Running /\ Elsewhere /\ (Stays \/ Leaves \/ Passes)
  <2>1. run \in Running
    BY <1>22, RunsAre DEF ReconcilePuts, TypeOK, RunTyped
  <2>2. Elsewhere
    BY <1>1, <1>22 DEF ReconcilePuts, SavedTyped, local
  <2>3. Stays \/ Leaves \/ Passes
    BY <1>1, <1>2, <1>22, <2>1, GoesStays, ReturnsMoves, FailureLeaves, PhasesAre
    DEF ReconcilePuts, SavedTyped, Opt
  <2> QED
    BY <2>1, <2>2, <2>3
<1>23. ASSUME ReconcileEnsures PROVE run \in Running /\ Elsewhere /\ (Stays \/ Leaves \/ Passes)
  <2>1. run \in Running
    BY <1>23, RunsAre DEF ReconcileEnsures, At, TypeOK, RunTyped
  <2>2. Elsewhere
    BY <1>1, <1>23 DEF ReconcileEnsures, At, SavedTyped, local
  <2>3. Stays \/ Leaves \/ Passes
    BY <1>1, <1>2, <1>23, <2>1, GoesStays, ReturnsMoves, FailureLeaves, PhasesAre
    DEF ReconcileEnsures, At, SavedTyped, Opt
  <2> QED
    BY <2>1, <2>2, <2>3
<1>24. ASSUME ReconcileWaits PROVE run \in Running /\ Elsewhere /\ (Stays \/ Leaves \/ Passes)
  <2>1. run \in Running
    BY <1>24, RunsAre DEF ReconcileWaits, At, TypeOK, RunTyped
  <2>2. Elsewhere
    BY <1>1, <1>24 DEF ReconcileWaits, At, SavedTyped, local
  <2>3. Stays \/ Leaves \/ Passes
    <3>1. PodsRun \in BOOLEAN
      BY DEF PodsRun
    <3> QED
      BY <1>24, <2>1, <3>1, ReturnsMoves DEF ReconcileWaits, At
  <2> QED
    BY <2>1, <2>2, <2>3
<1>25. ASSUME Validates PROVE run \in Running /\ Elsewhere /\ (Stays \/ Leaves \/ Passes)
  <2>1. run \in Running
    BY <1>25, RunsAre DEF Validates, At, TypeOK, RunTyped
  <2>2. Elsewhere
    BY <1>1, <1>25 DEF Validates, At, SetPhase, SavedTyped
  <2>3. Stays \/ Leaves \/ Passes
    BY <1>1, <1>2, <1>25, <2>1, GoesStays, ReturnsMoves, FailureLeaves, PhasesAre
    DEF Validates, At, SetPhase, SavedTyped, Finished, Opt
  <2> QED
    BY <2>1, <2>2, <2>3
<1>26. ASSUME DestroyRaises PROVE run \in Running /\ Elsewhere /\ (Stays \/ Leaves \/ Passes)
  <2>1. run \in Running
    BY <1>26, RunsAre DEF DestroyRaises, At, TypeOK, RunTyped
  <2>2. Elsewhere
    BY <1>1, <1>26 DEF DestroyRaises, At, SavedTyped, local
  <2>3. Stays \/ Leaves \/ Passes
    BY <1>1, <1>2, <1>26, <2>1, GoesStays, ReturnsMoves, FailureLeaves, PhasesAre
    DEF DestroyRaises, At, SavedTyped, Opt
  <2> QED
    BY <2>1, <2>2, <2>3
<1> QED
  BY <1>3, <1>4, <1>5, <1>6, <1>7, <1>8, <1>9, <1>10, <1>11, <1>12, <1>13, <1>14, <1>15, <1>16,
     <1>17, <1>18, <1>19, <1>20, <1>21, <1>22, <1>23, <1>24, <1>25, <1>26 DEF Step

\* A step within the order keeps it.
LEMMA StepSorted ==
    ASSUME TypeOK, CommandLine, Sorted(run, saved.status), Step
    PROVE  Sorted(run', saved'.status)
<1>1. /\ run \in Running
      /\ \A p \in Saved \ {run.phase} : saved'.status[p] = saved.status[p]
      /\ Stays \/ Leaves \/ Passes
  BY StepMoves
<1>2. CASE Stays
  <2>1. \A p \in Saved : Position(p) < Position(run.phase) => p # run.phase
    BY PhasesAre, PositionIs
  <2> QED
    BY <1>1, <1>2, <2>1 DEF Stays, Sorted
<1>3. CASE Leaves
  BY <1>3 DEF Leaves, Idle, Sorted
<1>4. CASE Passes
  <2> SUFFICES ASSUME NEW p \in Saved,
                      Position(p) < Position(Following(run.phase)), ~(p = "images" /\ Opt("skip_images"))
               PROVE  saved'.status[p] = "completed"
    BY <1>4 DEF Passes, Sorted, Opt
  <2>1. run.phase \in {Order[i] : i \in DOMAIN Order} /\ run.phase # "validate"
    BY <1>1, <1>4 DEF Passes, TypeOK, Idle, Running
  <2>2. p = run.phase \/ Position(p) < Position(run.phase)
    BY <2>1, PhasesAre, PositionIs, FollowingIs
  <2>3. CASE p = run.phase
    BY <1>4, <2>3, PhasesAre DEF Passes
  <2>4. CASE p # run.phase
    BY <1>1, <1>4, <2>2, <2>4 DEF Passes, Sorted, Opt
  <2> QED
    BY <2>3, <2>4
<1> QED
  BY <1>1, <1>2, <1>3, <1>4

\* While a command runs it has its line, whatever happens.
LEMMA NextCommandLine ==
    ASSUME TypeOK, CommandLine, [Next]_vars
    PROVE  CommandLine'
<1>1. CASE Step
  BY <1>1, StepMoves DEF CommandLine, Stays, Leaves, Passes, Idle, Running
<1>2. CASE Interrupt
  BY <1>2 DEF Interrupt, Ends, Idle, CommandLine
<1>3. CASE CalmComes
  BY <1>3 DEF CalmComes, Idle, CommandLine
<1>4. ASSUME NEW i \in Invocations, Invoke(i) PROVE CommandLine'
  BY <1>4 DEF Invoke, CommandLine
<1>5. CASE UNCHANGED vars
  BY <1>5 DEF vars, CommandLine
<1> QED
  BY <1>1, <1>2, <1>3, <1>4, <1>5 DEF Next

\* While `all' runs it keeps its order, whatever happens.
LEMMA NextSorted ==
    ASSUME TypeOK, CommandLine, Sorted(run, saved.status), [Next]_vars
    PROVE  Sorted(run, saved.status)'
<1>1. CASE Step
  BY <1>1, StepSorted
<1>2. CASE Interrupt
  BY <1>2 DEF Interrupt, Ends, Idle, Sorted
<1>3. CASE CalmComes
  BY <1>3 DEF CalmComes, Idle, Sorted
<1>4. ASSUME NEW i \in Invocations, Invoke(i) PROVE Sorted(run, saved.status)'
  <2>1. run'.cmd = "all" => run'.phase = "preflight"
    BY <1>4 DEF Invoke
  <2>2. \A p \in Saved : ~(Position(p) < Position("preflight"))
    BY PhasesAre, PositionIs
  <2> QED
    BY <2>1, <2>2 DEF Sorted
<1>5. CASE UNCHANGED vars
  BY <1>5 DEF vars, Sorted
<1> QED
  BY <1>1, <1>2, <1>3, <1>4, <1>5 DEF Next

\* `all' never enters a phase before those it builds on are completed, for any
\* environments and command lines (run_all).
THEOREM PhasesInOrder == Spec => []AllInOrder
<1> DEFINE I == TypeOK /\ CommandLine /\ Sorted(run, saved.status)
<1>1. Init => I
  BY InitTypeOK DEF Init, CommandLine, Sorted, Idle
<1>2. I /\ [Next]_vars => I'
  BY NextTypeOK, NextCommandLine, NextSorted
<1>3. I => AllInOrder
  <2> SUFFICES ASSUME I PROVE AllInOrder
    OBVIOUS
  <2>1. run.cmd = "all" => run.phase \in {Order[i] : i \in DOMAIN Order}
    BY DEF TypeOK, Idle, Running
  <2> QED
    BY <2>1, SortedIsInOrder DEF AllInOrder, Opt
<1> QED
  BY <1>1, <1>2, <1>3, PTL DEF Spec

-----------------------------------------------------------------------------
(* What completed phases have done                                          *)

\* What is done in the middle of a phase stays done until its end.
HalfDone ==
    /\ At("terraform", "applied") /\ ~Opt("destroy") => cloud.whole /\ cloud.env # None
    /\ At("images", "push_admin_ui") => "backend" \in cloud.images

\* In other phases nothing is half done, nor where a phase ends or starts.
LEMMA NothingHalfDone ==
    ASSUME run \in Running,
           \/ Leaves \/ Passes
           \/ Stays /\ run.phase \notin {"terraform", "images"}
           \/ \E step \in Steps \ {"applied", "push_admin_ui"} : Goes(step)
    PROVE  HalfDone'
<1>1. CASE Leaves
  BY <1>1 DEF Leaves, Idle, HalfDone, At
<1>2. CASE Passes
  BY <1>2 DEF Passes, HalfDone, At
<1>3. CASE Stays /\ run.phase \notin {"terraform", "images"}
  BY <1>3 DEF Stays, HalfDone, At
<1>4. ASSUME NEW step \in Steps \ {"applied", "push_admin_ui"}, Goes(step) PROVE HalfDone'
  <2>1. run'.step = step
    BY <1>4 DEF Goes, Running
  <2> QED
    BY <1>4, <2>1 DEF HalfDone, At
<1> QED
  BY <1>1, <1>2, <1>3, <1>4

\* Every step is of a phase.
LEMMA StepsOfPhases ==
    /\ Preflight => run.phase = "preflight"
    /\ TerraformStarts \/ TerraformPlans \/ TerraformApplies \/ TerraformDestroyed \/ TerraformApplied
          => run.phase = "terraform"
    /\ KubeconfigUpdates \/ KubeconfigVerifies => run.phase = "kubeconfig"
    /\ ImagesStart \/ ImagesBuild \/ ImagesPushBackend \/ ImagesPushAdminUi => run.phase = "images"
    /\ DeployStarts \/ DeployWaits \/ DeployCreds \/ DeployLabels \/ DeployApplies => run.phase = "deploy"
    /\ ReconcileReads \/ ReconcilePuts \/ ReconcileEnsures \/ ReconcileWaits => run.phase = "reconcile"
    /\ Validates => run.phase = "validate"
    /\ OutputsRefresh => run.phase = "outputs"
    /\ DestroyRaises => run.phase = "destroy"
<1>1. Preflight => run.phase = "preflight"
  BY DEF Preflight, At
<1>2. TerraformStarts \/ TerraformPlans \/ TerraformApplies \/ TerraformDestroyed \/ TerraformApplied
         => run.phase = "terraform"
  BY DEF TerraformStarts, TerraformPlans, TerraformApplies, TerraformDestroyed, TerraformApplied, At
<1>3. KubeconfigUpdates \/ KubeconfigVerifies => run.phase = "kubeconfig"
  BY DEF KubeconfigUpdates, KubeconfigVerifies, At
<1>4. ImagesStart \/ ImagesBuild \/ ImagesPushBackend \/ ImagesPushAdminUi => run.phase = "images"
  BY DEF ImagesStart, ImagesBuild, ImagesPushBackend, ImagesPushAdminUi, At
<1>5. DeployStarts \/ DeployWaits \/ DeployCreds \/ DeployLabels \/ DeployApplies => run.phase = "deploy"
  BY DEF DeployStarts, DeployWaits, DeployCreds, DeployLabels, DeployApplies, At
<1>6. ReconcileReads \/ ReconcilePuts \/ ReconcileEnsures \/ ReconcileWaits => run.phase = "reconcile"
  BY DEF ReconcileReads, ReconcilePuts, ReconcileEnsures, ReconcileWaits, At
<1>7. /\ Validates => run.phase = "validate"
      /\ OutputsRefresh => run.phase = "outputs"
      /\ DestroyRaises => run.phase = "destroy"
  BY DEF Validates, OutputsRefresh, DestroyRaises, At
<1> QED
  BY <1>1, <1>2, <1>3, <1>4, <1>5, <1>6, <1>7

\* A step that applies has applied, and one that pushes has pushed.
LEMMA StepHalfDone ==
    ASSUME TypeOK, CommandLine, HalfDone, Step
    PROVE  HalfDone'
<1>1. run \in Running /\ (Stays \/ Leaves \/ Passes)
  BY StepMoves
<1>2. SavedTyped /\ WorldTyped
  BY DEF TypeOK, SavedTyped, WorldTyped
<1>3. run.cmd \in {"all", "terraform"} => run.env # None
  BY InvocationsAssumption DEF CommandLine
<1>4. CASE run.phase \notin {"terraform", "images"}
  BY <1>1, <1>4, NothingHalfDone
<1>5. CASE TerraformStarts
  BY <1>1, <1>5, NothingHalfDone DEF TerraformStarts, Steps
<1>6. CASE TerraformPlans
  <2>1. Leaves \/ Passes \/ Goes("apply")
    BY <1>1, <1>6, ReturnsMoves, FailureLeaves, PhasesAre, InvocationsAssumption
    DEF TerraformPlans, At, Opt, CommandLine, Exits
  <2> QED
    BY <1>1, <2>1, NothingHalfDone DEF Steps
<1>7. CASE TerraformApplies
  <2>1. CASE Works /\ ApplySucceeds /\ Goes("applied")
    <3>1. run'.phase = "terraform" /\ run'.opts = run.opts
      BY <1>1, <1>7, <2>1 DEF TerraformApplies, At, Goes, Running
    <3>2. run.env # None
      BY <1>1, <1>3, <1>7 DEF TerraformApplies, At, Running, TypeOK, Idle
    <3>3. ~Opt("destroy") => cloud'.whole /\ cloud'.env = run.env
      BY <1>2, <2>1 DEF ApplySucceeds, WorldTyped
    <3> QED
      BY <3>1, <3>2, <3>3 DEF HalfDone, At, Opt
  <2>2. CASE Exits
    BY <1>1, <2>2, FailureLeaves, NothingHalfDone DEF Exits
  <2> QED
    BY <1>7, <2>1, <2>2 DEF TerraformApplies
<1>8. CASE TerraformDestroyed
  <2>1. Leaves \/ Passes
    BY <1>1, <1>8, ReturnsMoves, InvocationsAssumption DEF TerraformDestroyed, At, Opt, CommandLine
  <2> QED
    BY <1>1, <2>1, NothingHalfDone
<1>9. CASE TerraformApplied
  <2>1. saved'.status["terraform"] = "completed"
    BY <1>2, <1>9, PhasesAre DEF TerraformApplied, SetPhase, SavedTyped
  <2>2. Leaves \/ Passes
    BY <1>1, <1>9, <2>1, ReturnsMoves DEF TerraformApplied, At
  <2> QED
    BY <1>1, <2>2, NothingHalfDone
<1>10. CASE ImagesStart
  <2>1. Leaves \/ Passes \/ Goes("build")
    BY <1>1, <1>10, ReturnsMoves DEF ImagesStart, At
  <2> QED
    BY <1>1, <2>1, NothingHalfDone DEF Steps
<1>11. CASE ImagesBuild
  <2>1. Leaves \/ Passes \/ Goes("push_backend")
    BY <1>1, <1>2, <1>11, ReturnsMoves, FailureLeaves, PhasesAre
    DEF ImagesBuild, At, SetPhase, SavedTyped, Exits
  <2> QED
    BY <1>1, <2>1, NothingHalfDone DEF Steps
<1>12. CASE ImagesPushBackend
  <2>1. CASE Pushes("backend") /\ Goes("push_admin_ui")
    <3>1. run'.phase = "images"
      BY <1>1, <1>12, <2>1 DEF ImagesPushBackend, At, Goes, Running
    <3>2. "backend" \in cloud'.images
      BY <1>2, <2>1 DEF Pushes, WorldTyped
    <3> QED
      BY <3>1, <3>2 DEF HalfDone, At
  <2>2. CASE PushFails
    BY <1>1, <2>2, FailureLeaves, NothingHalfDone DEF PushFails
  <2> QED
    BY <1>12, <2>1, <2>2 DEF ImagesPushBackend
<1>13. CASE ImagesPushAdminUi
  <2>1. Leaves \/ Passes
    BY <1>1, <1>2, <1>13, ReturnsMoves, FailureLeaves, PhasesAre
    DEF ImagesPushAdminUi, At, SetPhase, SavedTyped, PushFails
  <2> QED
    BY <1>1, <2>1, NothingHalfDone
<1> QED
  BY <1>4, <1>5, <1>6, <1>7, <1>8, <1>9, <1>10, <1>11, <1>12, <1>13, StepsOfPhases DEF Step

\* A phase that is saved as completed has done its work in this step.
Earns(phase) ==
    saved.status[phase] # "completed" /\ saved'.status[phase] = "completed" =>
        /\ phase = "terraform" => cloud'.whole /\ cloud'.env # None
        /\ phase = "kubeconfig" => context' # None /\ context' = cloud'.env
        /\ phase = "images" => Opt("no_push") \/ cloud'.images = Images
        /\ phase = "deploy" => context' # None /\ context' = cloud'.env /\ cluster'.apps

\* That is what CompletionIsEarned asks of a phase.
LEMMA EarnsIsEarned ==
    ASSUME NEW phase \in Saved, Earns(phase),
           saved.status[phase] # "completed", saved'.status[phase] = "completed"
    PROVE  Earned(phase)' /\ (phase = "images" => Opt("no_push") \/ (cloud.images = Images)')
<1>1. CASE phase = "terraform"
  BY <1>1 DEF Earns, Earned
<1>2. CASE phase = "kubeconfig"
  BY <1>2 DEF Earns, Earned, Reachable
<1>3. CASE phase = "deploy"
  BY <1>3 DEF Earns, Earned, Reachable
<1>4. CASE phase \in {"preflight", "images", "validate"}
  BY <1>4 DEF Earns, Earned
<1> QED
  BY <1>1, <1>2, <1>3, <1>4, PhasesAre

\* A step completes its phase only with its work done.
LEMMA StepEarns ==
    ASSUME TypeOK, HalfDone, Step, run.phase \in Saved
    PROVE  Earns(run.phase)
<1>1. SavedTyped /\ WorldTyped
  BY DEF TypeOK, SavedTyped, WorldTyped
<1> USE <1>1, PhasesAre DEF SavedTyped
<1>2. CASE Preflight
  BY <1>2 DEF Preflight, At, SetPhase, Earns, Finished
<1>3. CASE TerraformStarts
  BY <1>3 DEF TerraformStarts, At, SetPhase, Earns
<1>4. CASE TerraformPlans
  BY <1>4 DEF TerraformPlans, At, Earns, local
<1>5. CASE TerraformApplies
  BY <1>5 DEF TerraformApplies, At, Earns, local
<1>6. CASE TerraformDestroyed
  BY <1>6 DEF TerraformDestroyed, At, SetPhase, Earns
<1>7. CASE TerraformApplied
  BY <1>7 DEF TerraformApplied, At, SetPhase, Earns, HalfDone, remote, Opt
<1>8. CASE OutputsRefresh
  BY <1>8 DEF OutputsRefresh, At, Earns
<1>9. CASE KubeconfigUpdates
  BY <1>9 DEF KubeconfigUpdates, At, Earns, local
<1>10. CASE KubeconfigVerifies
  BY <1>10 DEF KubeconfigVerifies, At, SetPhase, Earns, Finished, Reachable, remote, Works
<1>11. CASE ImagesStart
  BY <1>11 DEF ImagesStart, At, SetPhase, Earns
<1>12. CASE ImagesBuild
  BY <1>12 DEF ImagesBuild, At, SetPhase, Earns, Exits
<1>13. CASE ImagesPushBackend
  BY <1>13 DEF ImagesPushBackend, At, Earns, PushFails
<1>14. CASE ImagesPushAdminUi
  <2>1. run.phase = "images" /\ "backend" \in cloud.images
    BY <1>14 DEF ImagesPushAdminUi, At, HalfDone
  <2>2. CASE Pushes("admin_ui")
    <3>1. cloud'.images = cloud.images \cup {"admin_ui"} /\ cloud.images \subseteq Images
      BY <2>2 DEF Pushes, WorldTyped
    <3>2. cloud'.images = Images
      BY <2>1, <3>1 DEF Images
    <3> QED
      BY <2>1, <3>2 DEF Earns
  <2>3. CASE PushFails
    BY <2>3 DEF PushFails, Earns
  <2> QED
    BY <1>14, <2>2, <2>3 DEF ImagesPushAdminUi
<1>15. CASE DeployStarts
  BY <1>15 DEF DeployStarts, At, SetPhase, Earns
<1>16. CASE DeployWaits
  BY <1>16 DEF DeployWaits, At, SetPhase, Earns
<1>17. CASE DeployCreds
  BY <1>17 DEF DeployCreds, At, Earns, local
<1>18. CASE DeployLabels
  BY <1>18 DEF DeployLabels, At, Earns, local
<1>19. CASE DeployApplies
  BY <1>19 DEF DeployApplies, At, SetPhase, Earns, Reachable, WorldTyped, Unreachable
<1>20. CASE ReconcileReads
  BY <1>20 DEF ReconcileReads, At, Earns, local
<1>21. CASE ReconcilePuts
  BY <1>21 DEF ReconcilePuts, Earns, local
<1>22. CASE ReconcileEnsures
  BY <1>22 DEF ReconcileEnsures, At, Earns, local
<1>23. CASE ReconcileWaits
  BY <1>23 DEF ReconcileWaits, At, Earns, local
<1>24. CASE Validates
  BY <1>24 DEF Validates, At, SetPhase, Earns, Finished
<1>25. CASE DestroyRaises
  BY <1>25 DEF DestroyRaises, At, Earns, local
<1> QED
  BY <1>2, <1>3, <1>4, <1>5, <1>6, <1>7, <1>8, <1>9, <1>10, <1>11, <1>12, <1>13, <1>14, <1>15,
     <1>16, <1>17, <1>18, <1>19, <1>20, <1>21, <1>22, <1>23, <1>24, <1>25 DEF Step

\* A phase is saved as completed only when its work is done in the cloud and
\* the cluster that exist then, for any environments and command lines
\* (update_phase).
THEOREM CompletionEarned == Spec => CompletionIsEarned
<1> DEFINE I == TypeOK /\ CommandLine /\ HalfDone
<1>1. Init => I
  BY InitTypeOK DEF Init, CommandLine, HalfDone, At, Idle
<1>2. I /\ [Next]_vars => I'
  <2> SUFFICES ASSUME I, [Next]_vars PROVE HalfDone'
    BY NextTypeOK, NextCommandLine
  <2>1. CASE Step
    BY <2>1, StepHalfDone
  <2>2. CASE Interrupt
    BY <2>2 DEF Interrupt, Ends, Idle, HalfDone, At
  <2>3. CASE CalmComes
    BY <2>3 DEF CalmComes, Idle, HalfDone, At
  <2>4. ASSUME NEW i \in Invocations, Invoke(i) PROVE HalfDone'
    BY <2>4 DEF Invoke, HalfDone, At
  <2>5. CASE UNCHANGED vars
    BY <2>5 DEF vars, HalfDone, At, Opt
  <2> QED
    BY <2>1, <2>2, <2>3, <2>4, <2>5 DEF Next
<1>3. I /\ [Next]_vars =>
        [\A p \in DOMAIN saved.status :
            saved.status[p] # "completed" /\ saved'.status[p] = "completed" =>
                /\ Earned(p)'
                /\ p = "images" => Opt("no_push") \/ (cloud.images = Images)']_vars
  <2> SUFFICES ASSUME I, Next,
                      NEW p \in DOMAIN saved.status, saved.status[p] # "completed", saved'.status[p] = "completed"
               PROVE  Earned(p)' /\ (p = "images" => Opt("no_push") \/ (cloud.images = Images)')
    OBVIOUS
  <2>1. p \in Saved
    BY DEF TypeOK
  <2>2. Step
    BY DEF Next, Interrupt, CalmComes, Invoke, local
  <2>3. p = run.phase
    BY <2>1, <2>2, StepMoves
  <2>4. Earns(p)
    BY <2>1, <2>2, <2>3, StepEarns
  <2> QED
    BY <2>1, <2>4, EarnsIsEarned
<1> QED
  BY <1>1, <1>2, <1>3, PTL DEF Spec, CompletionIsEarned

-----------------------------------------------------------------------------
(* What an undisturbed `all' has deployed                                   *)

Heals ==
    ~trouble /\ cloud.env = Dev /\ cloud.images = Images /\ secret # "password_only"
          => PodsRun /\ secret = "synced"

\* What each phase of `all' hands on to the next ones.
Deployed ==
    /\ run.cmd = "all" /\ run.phase \in {"images", "deploy", "reconcile", "validate"} => Reachable
    /\ run.cmd = "all" /\ run.phase \in {"reconcile", "validate"} => cluster.apps
    /\ run.cmd = "all" /\ run.phase = "reconcile" /\ run.step = "ensure" /\ ~trouble /\ cloud.env = Dev
          => secret \in {"synced", "password_only"}
    /\ run.cmd = "all" /\ (run.phase = "validate" \/ (run.phase = "reconcile" /\ run.step = "wait")) => Heals
    /\ ended = [cmd |-> "all", how |-> "done"] => Heals

\* Before images and after anything but a success there is nothing to show.
LEMMA NothingDeployed ==
    ASSUME ended'.cmd # "all" \/ ended'.how # "done",
           run'.cmd # "all" \/ run'.phase \notin {"images", "deploy", "reconcile", "validate"}
    PROVE  Deployed'
<1>1. ended' # [cmd |-> "all", how |-> "done"]
  OBVIOUS
<1> QED
  BY <1>1 DEF Deployed

\* A phase that completes hands on what the next ones need.
LEMMA StepDeploys ==
    ASSUME TypeOK, CommandLine, Deployed, Step
    PROVE  Deployed'
<1>1. run \in Running /\ (Stays \/ Leaves \/ Passes)
  BY StepMoves
<1>2. ended.cmd = "none"
  BY <1>1, PhasesAre DEF CommandLine, Running
<1>3. WorldTyped
  BY DEF TypeOK, WorldTyped
<1>4. CASE run.cmd # "all"
  BY <1>1, <1>2, <1>4, NothingDeployed DEF Stays, Leaves, Passes, Idle
<1>5. CASE run.cmd = "all" /\ Leaves /\ run.phase # "validate"
  BY <1>5, NothingDeployed DEF Leaves, Idle
<1>6. ASSUME run.cmd = "all", ~Leaves, run.phase \in {"preflight", "terraform"} PROVE Deployed'
  BY <1>1, <1>2, <1>6, FollowingIs, NothingDeployed DEF Stays, Passes
<1>7. ASSUME run.cmd = "all", run.phase = "kubeconfig", Stays PROVE Deployed'
  BY <1>2, <1>7, NothingDeployed DEF Stays
<1>8. ASSUME run.cmd = "all", run.phase = "kubeconfig", Passes, ~Stays, ~Leaves PROVE Deployed'
  <2>1. KubeconfigUpdates \/ KubeconfigVerifies
    BY <1>8, StepsOfPhases DEF Step
  <2>2. ~KubeconfigUpdates
    BY <1>1, <1>8, GoesStays DEF KubeconfigUpdates, Returns, GoesOn, Ends, Leaves
  <2>3. Reachable' /\ run'.phase \in {"images", "deploy"} /\ ended' = ended
    <3>1. Reachable /\ UNCHANGED <<remote, context>>
      BY <1>8, <2>1, <2>2 DEF KubeconfigVerifies, Returns, GoesOn, Ends, Leaves
    <3> QED
      BY <1>8, <3>1, FollowingIs DEF Passes, Reachable, remote
  <2> QED
    BY <1>2, <2>3 DEF Deployed
<1>9. ASSUME run.cmd = "all", run.phase = "images", ~Leaves PROVE Deployed'
  <2>1. ImagesStart \/ ImagesBuild \/ ImagesPushBackend \/ ImagesPushAdminUi
    BY <1>9, StepsOfPhases DEF Step
  <2>2. context' = context /\ cloud'.env = cloud.env
    BY <1>3, <2>1
    DEF ImagesStart, ImagesBuild, ImagesPushBackend, ImagesPushAdminUi, Pushes, PushFails, remote, WorldTyped
  <2>3. run'.phase \in {"images", "deploy"} /\ ended' = ended
    BY <1>1, <1>9, FollowingIs DEF Stays, Passes
  <2> QED
    BY <1>2, <1>9, <2>2, <2>3 DEF Deployed, Reachable
<1>10. ASSUME run.cmd = "all", run.phase = "deploy", ~Leaves PROVE Deployed'
  <2>1. DeployStarts \/ DeployWaits \/ DeployCreds \/ DeployLabels \/ DeployApplies
    BY <1>10, StepsOfPhases DEF Step
  <2>2. UNCHANGED <<context, cloud>>
    BY <2>1
    DEF DeployStarts, DeployWaits, DeployCreds, DeployLabels, DeployApplies, remote
  <2>3. CASE Stays
    BY <1>2, <1>10, <2>2, <2>3 DEF Stays, Deployed, Reachable
  <2>4. CASE Passes /\ ~Stays
    <3>1. DeployApplies
      BY <1>1, <1>10, <2>1, <2>4, GoesStays
      DEF DeployStarts, DeployWaits, DeployCreds, DeployLabels, Creates, Returns, GoesOn, Exits, Ends, Leaves, Steps
    <3>2. cluster'.apps
      <4>1. ~Ends("failed")
        BY <1>10, FailureLeaves
      <4>2. cluster' = [cluster EXCEPT !.apps = TRUE]
        BY <3>1, <4>1 DEF DeployApplies
      <4> QED
        BY <1>3, <4>2 DEF WorldTyped
    <3> QED
      BY <1>2, <1>10, <2>2, <2>4, <3>2, FollowingIs DEF Passes, Deployed, Reachable
  <2> QED
    BY <1>1, <1>10, <2>3, <2>4
<1>11. ASSUME run.cmd = "all", run.phase = "reconcile", ReconcileReads PROVE Deployed'
  <2>1. /\ UNCHANGED <<remote, context>> /\ ended' = ended /\ run'.cmd = "all"
        /\ \/ run'.phase = "reconcile" /\ run'.step \in {"put", "put_bare"}
           \/ run'.phase = "reconcile" /\ run'.step = "ensure" /\ (cloud.env # Dev \/ trouble')
           \/ run'.phase = "validate" /\ trouble'
    BY <1>1, <1>11, FollowingIs DEF ReconcileReads, Goes, Returns, GoesOn, Works, Breaks, Running
  <2> QED
    BY <1>2, <1>11, <2>1 DEF Deployed, Heals, Reachable, remote
<1>12. ASSUME run.cmd = "all", run.phase = "reconcile", ReconcilePuts PROVE Deployed'
  <2>1. /\ UNCHANGED <<cloud, cluster, context>> /\ ended' = ended /\ run'.cmd = "all"
        /\ run'.phase = "reconcile" /\ run'.step = "ensure"
        /\ trouble' \/ secret' \in {"synced", "password_only"}
    BY <1>1, <1>12 DEF ReconcilePuts, Goes, Synced, Breaks, Running
  <2> QED
    BY <1>2, <1>12, <2>1 DEF Deployed, Reachable
<1>13. ASSUME run.cmd = "all", run.phase = "reconcile", ReconcileEnsures PROVE Deployed'
  <2>1. /\ UNCHANGED <<cloud, secret, cluster, context>> /\ ended' = ended /\ run'.cmd = "all"
        /\ run'.phase = "reconcile" /\ run'.step = "wait" /\ run.step = "ensure"
    BY <1>1, <1>13 DEF ReconcileEnsures, At, Goes, Running
  <2>2. Reachable /\ cluster.apps
    BY <1>13 DEF Deployed
  <2>3. ASSUME ~trouble', cloud.env = Dev, cloud.images = Images, secret # "password_only"
        PROVE  PodsRun' /\ secret' = "synced"
    <3>1. ~trouble /\ "admin_key" \in ensured'
      BY <1>13, <2>3 DEF ReconcileEnsures, Works, Breaks
    <3>2. secret = "synced"
      BY <1>13, <2>1, <2>3, <3>1 DEF Deployed
    <3> QED
      BY <2>1, <2>2, <2>3, <3>1, <3>2 DEF PodsRun, Reachable
  <2>4. Heals'
    BY <2>1, <2>3 DEF Heals
  <2> QED
    BY <1>2, <2>1, <2>2, <2>4 DEF Deployed, Reachable
<1>14. ASSUME run.cmd = "all", run.phase = "reconcile", ReconcileWaits PROVE Deployed'
  <2>1. /\ UNCHANGED <<remote, context>> /\ ended' = ended /\ run'.cmd = "all" /\ run'.phase = "validate"
        /\ run.step = "wait" /\ (trouble' \/ trouble' = trouble)
    BY <1>1, <1>14, FollowingIs DEF ReconcileWaits, At, Returns, GoesOn, Works, Breaks, Running
  <2>2. Heals'
    BY <1>14, <2>1 DEF Deployed, Heals, PodsRun, Reachable, remote
  <2> QED
    BY <1>2, <1>14, <2>1, <2>2 DEF Deployed, Reachable, remote
<1>15. ASSUME run.cmd = "all", run.phase = "validate" PROVE Deployed'
  <2>1. Validates
    BY <1>15, StepsOfPhases DEF Step
  <2>2. UNCHANGED <<remote, context>> /\ run' = Idle /\ (trouble' \/ trouble' = trouble)
    BY <2>1 DEF Validates, Returns, GoesOn, Ends, Works, Breaks
  <2>3. Heals'
    BY <1>15, <2>2 DEF Deployed, Heals, PodsRun, Reachable, remote
  <2> QED
    BY <2>2, <2>3 DEF Deployed, Idle
<1>16. run.cmd = "all" => run.phase \in {"preflight", "terraform", "kubeconfig", "images", "deploy", "reconcile", "validate"}
  BY <1>1, PhasesAre DEF TypeOK, Running, Idle
<1>17. run.phase = "reconcile" => ReconcileReads \/ ReconcilePuts \/ ReconcileEnsures \/ ReconcileWaits
  BY StepsOfPhases DEF Step
<1> QED
  BY <1>1, <1>4, <1>5, <1>6, <1>7, <1>8, <1>9, <1>10, <1>11, <1>12, <1>13, <1>14, <1>15, <1>16,
     <1>17

\* Whatever the commands before it left behind, `all' without a failure brings
\* the development environment up, a truncated secret excepted, for any
\* environments and command lines (run_all).
THEOREM UndisturbedDeploys == Spec => []UndisturbedRunsDeploy
<1> DEFINE I == TypeOK /\ CommandLine /\ Deployed
<1>1. Init => I
  <2> SUFFICES ASSUME Init PROVE I
    OBVIOUS
  <2>1. run.cmd # "all" /\ ended # [cmd |-> "all", how |-> "done"] /\ CommandLine
    BY DEF Init, Idle, CommandLine
  <2> QED
    BY <2>1, InitTypeOK DEF Deployed
<1>2. I /\ [Next]_vars => I'
  <2> SUFFICES ASSUME I, [Next]_vars PROVE Deployed'
    BY NextTypeOK, NextCommandLine
  <2>1. CASE Step
    BY <2>1, StepDeploys
  <2>2. CASE Interrupt
    BY <2>2, NothingDeployed DEF Interrupt, Ends, Idle
  <2>3. CASE CalmComes
    BY <2>3 DEF CalmComes, Idle, Deployed, Heals, PodsRun, Reachable, remote
  <2>4. ASSUME NEW i \in Invocations, Invoke(i) PROVE Deployed'
    <3>1. run'.cmd = "all" => run'.phase = "preflight"
      BY <2>4 DEF Invoke
    <3> QED
      BY <2>4, <3>1, NothingDeployed DEF Invoke
  <2>5. CASE UNCHANGED vars
    BY <2>5 DEF vars, Deployed, Heals, PodsRun, Reachable
  <2> QED
    BY <2>1, <2>2, <2>3, <2>4, <2>5 DEF Next
<1>3. I => UndisturbedRunsDeploy
  BY DEF Deployed, Heals, UndisturbedRunsDeploy
<1> QED
  BY <1>1, <1>2, <1>3, PTL DEF Spec
-----------------------------------------------------------------------------
(* Every command comes to its end                                           *)

\* The steps of the phases in one order, in which every phase goes forward.
StepsLeft(step) ==
    CASE step = "start"         -> 14
      [] step = "plan"          -> 13
      [] step = "verify"        -> 12
      [] step = "build"         -> 11
      [] step = "push_backend"  -> 10
      [] step = "push_admin_ui" -> 9
      [] step = "put"           -> 8
      [] step = "put_bare"      -> 7
      [] step = "ensure"        -> 6
      [] step = "wait"          -> 5
      [] step = "creds"         -> 4
      [] step = "label"         -> 3
      [] step = "apply"         -> 2
      [] step = "applied"       -> 1

PhasesLeft(phase) == IF phase \in {"destroy", "outputs"} THEN 0 ELSE 7 - Position(phase)

\* What a command has before it.
Left == IF run = Idle THEN 0 ELSE 14 * PhasesLeft(run.phase) + StepsLeft(run.step)

\* How many steps are left, step by step.
LEMMA StepsLeftIs ==
    /\ StepsLeft("start") = 14 /\ StepsLeft("plan") = 13 /\ StepsLeft("verify") = 12
    /\ StepsLeft("build") = 11 /\ StepsLeft("push_backend") = 10 /\ StepsLeft("push_admin_ui") = 9
    /\ StepsLeft("put") = 8 /\ StepsLeft("put_bare") = 7 /\ StepsLeft("ensure") = 6
    /\ StepsLeft("wait") = 5 /\ StepsLeft("creds") = 4 /\ StepsLeft("label") = 3
    /\ StepsLeft("apply") = 2 /\ StepsLeft("applied") = 1
BY DEF StepsLeft

\* And phases.
LEMMA PhasesLeftIs ==
    /\ PhasesLeft("preflight") = 6 /\ PhasesLeft("terraform") = 5 /\ PhasesLeft("kubeconfig") = 4
    /\ PhasesLeft("images") = 3 /\ PhasesLeft("deploy") = 2 /\ PhasesLeft("reconcile") = 1
    /\ PhasesLeft("validate") = 0 /\ PhasesLeft("destroy") = 0 /\ PhasesLeft("outputs") = 0
BY PositionIs DEF PhasesLeft

\* A command that runs has a step before it at least.
LEMMA LeftIsBounded ==
    ASSUME RunTyped
    PROVE  Left \in 0 .. 98 /\ (run # Idle => Left > 0)
<1>1. CASE run = Idle
  BY <1>1 DEF Left
<1>2. CASE run \in Running
  <2>1. run # Idle
    BY <1>2, PhasesAre DEF Running, Idle
  <2>2. StepsLeft(run.step) \in 1 .. 14
    BY <1>2, StepsLeftIs DEF Running, Steps
  <2>3. PhasesLeft(run.phase) \in 0 .. 6
    BY <1>2, PhasesLeftIs, PhasesAre DEF Running
  <2> QED
    BY <2>1, <2>2, <2>3 DEF Left
<1> QED
  BY <1>1, <1>2 DEF RunTyped

\* How a step leaves the phase it is in.
Forward == \E step \in Steps : Goes(step) /\ StepsLeft(step) < StepsLeft(run.step)
Over == \E how \in {"done", "failed", "raised"} : Ends(how)
Back == \E ok \in BOOLEAN : Returns(run.phase, ok)

\* A step goes forward in its phase, or the phase is over.
LEMMA StepAdvances ==
    ASSUME Step
    PROVE  run.cmd # "none" /\ (Forward \/ Over \/ Back)
<1>1. ASSUME Preflight PROVE run.cmd # "none" /\ (Forward \/ Over \/ Back)
  <2>1. ASSUME NEW ok \in BOOLEAN, Returns("preflight", ok) PROVE Back
    BY <1>1, <2>1 DEF Preflight, At, Back
  <2> QED
    BY <1>1, <2>1 DEF Preflight, At, Over
<1>2. ASSUME TerraformStarts PROVE run.cmd # "none" /\ (Forward \/ Over \/ Back)
  BY <1>2, StepsLeftIs DEF TerraformStarts, At, Forward, Over, Back, Steps
<1>3. ASSUME TerraformPlans PROVE run.cmd # "none" /\ (Forward \/ Over \/ Back)
  <2>1. (Goes("apply") => Forward)
    BY <1>3, StepsLeftIs DEF TerraformPlans, At, Forward, Steps
  <2>2. ASSUME NEW ok \in BOOLEAN, Returns("terraform", ok) PROVE Back
    BY <1>3, <2>2 DEF TerraformPlans, At, Back
  <2>3. Ends("failed") => Over
    BY DEF Over
  <2> QED
    BY <1>3, <2>1, <2>2, <2>3 DEF TerraformPlans, At, Exits
<1>4. ASSUME TerraformApplies PROVE run.cmd # "none" /\ (Forward \/ Over \/ Back)
  BY <1>4, StepsLeftIs DEF TerraformApplies, At, Exits, Forward, Over, Back, Steps
<1>5. ASSUME TerraformDestroyed PROVE run.cmd # "none" /\ (Forward \/ Over \/ Back)
  BY <1>5, StepsLeftIs DEF TerraformDestroyed, At, Forward, Over, Back, Steps
<1>6. ASSUME TerraformApplied PROVE run.cmd # "none" /\ (Forward \/ Over \/ Back)
  BY <1>6, StepsLeftIs DEF TerraformApplied, At, Forward, Over, Back, Steps
<1>7. ASSUME OutputsRefresh PROVE run.cmd # "none" /\ (Forward \/ Over \/ Back)
  BY <1>7, StepsLeftIs DEF OutputsRefresh, At, Forward, Over, Back, Steps
<1>8. ASSUME KubeconfigUpdates PROVE run.cmd # "none" /\ (Forward \/ Over \/ Back)
  <2>1. (Goes("verify") => Forward)
    BY <1>8, StepsLeftIs DEF KubeconfigUpdates, At, Forward, Steps
  <2>2. ASSUME NEW ok \in BOOLEAN, Returns("kubeconfig", ok) PROVE Back
    BY <1>8, <2>2 DEF KubeconfigUpdates, At, Back
  <2> QED
    BY <1>8, <2>1, <2>2 DEF KubeconfigUpdates, At
<1>9. ASSUME KubeconfigVerifies PROVE run.cmd # "none" /\ (Forward \/ Over \/ Back)
  BY <1>9, StepsLeftIs DEF KubeconfigVerifies, At, Forward, Over, Back, Steps
<1>10. ASSUME ImagesStart PROVE run.cmd # "none" /\ (Forward \/ Over \/ Back)
  <2>1. (Goes("build") => Forward)
    BY <1>10, StepsLeftIs DEF ImagesStart, At, Forward, Steps
  <2>2. ASSUME NEW ok \in BOOLEAN, Returns("images", ok) PROVE Back
    BY <1>10, <2>2 DEF ImagesStart, At, Back
  <2> QED
    BY <1>10, <2>1, <2>2 DEF ImagesStart, At
<1>11. ASSUME ImagesBuild PROVE run.cmd # "none" /\ (Forward \/ Over \/ Back)
  <2>1. (Goes("push_backend") => Forward)
    BY <1>11, StepsLeftIs DEF ImagesBuild, At, Forward, Steps
  <2>2. ASSUME NEW ok \in BOOLEAN, Returns("images", ok) PROVE Back
    BY <1>11, <2>2 DEF ImagesBuild, At, Back
  <2>3. Ends("failed") => Over
    BY DEF Over
  <2> QED
    BY <1>11, <2>1, <2>2, <2>3 DEF ImagesBuild, At, Exits
<1>12. ASSUME ImagesPushBackend PROVE run.cmd # "none" /\ (Forward \/ Over \/ Back)
  BY <1>12, StepsLeftIs DEF ImagesPushBackend, At, PushFails, Forward, Over, Back, Steps
<1>13. ASSUME ImagesPushAdminUi PROVE run.cmd # "none" /\ (Forward \/ Over \/ Back)
  BY <1>13, StepsLeftIs DEF ImagesPushAdminUi, At, PushFails, Forward, Over, Back, Steps
<1>14. ASSUME DeployStarts PROVE run.cmd # "none" /\ (Forward \/ Over \/ Back)
  BY <1>14, StepsLeftIs DEF DeployStarts, At, Forward, Over, Back, Steps
<1>15. ASSUME DeployWaits PROVE run.cmd # "none" /\ (Forward \/ Over \/ Back)
  <2>1. (Goes("creds") => Forward)
    BY <1>15, StepsLeftIs DEF DeployWaits, At, Forward, Steps
  <2>2. ASSUME NEW ok \in BOOLEAN, Returns("deploy", ok) PROVE Back
    BY <1>15, <2>2 DEF DeployWaits, At, Back
  <2> QED
    BY <1>15, <2>1, <2>2 DEF DeployWaits, At
<1>16. ASSUME DeployCreds PROVE run.cmd # "none" /\ (Forward \/ Over \/ Back)
  BY <1>16, StepsLeftIs DEF DeployCreds, At, Creates, Forward, Over, Back, Steps
<1>17. ASSUME DeployLabels PROVE run.cmd # "none" /\ (Forward \/ Over \/ Back)
  BY <1>17, StepsLeftIs DEF DeployLabels, At, Exits, Forward, Over, Back, Steps
<1>18. ASSUME DeployApplies PROVE run.cmd # "none" /\ (Forward \/ Over \/ Back)
  BY <1>18, StepsLeftIs DEF DeployApplies, At, Forward, Over, Back, Steps
<1>19. ASSUME ReconcileReads PROVE run.cmd # "none" /\ (Forward \/ Over \/ Back)
  <2>1. (Goes("ensure") => Forward) /\ (Goes("put") => Forward) /\ (Goes("put_bare") => Forward)
    BY <1>19, StepsLeftIs DEF ReconcileReads, At, Forward, Steps
  <2>2. ASSUME NEW ok \in BOOLEAN, Returns("reconcile", ok) PROVE Back
    BY <1>19, <2>2 DEF ReconcileReads, At, Back
  <2> QED
    BY <1>19, <2>1, <2>2 DEF ReconcileReads, At
<1>20. ASSUME ReconcilePuts PROVE run.cmd # "none" /\ (Forward \/ Over \/ Back)
  BY <1>20, StepsLeftIs DEF ReconcilePuts, Forward, Over, Back, Steps
<1>21. ASSUME ReconcileEnsures PROVE run.cmd # "none" /\ (Forward \/ Over \/ Back)
  BY <1>21, StepsLeftIs DEF ReconcileEnsures, At, Forward, Over, Back, Steps
<1>22. ASSUME ReconcileWaits PROVE run.cmd # "none" /\ (Forward \/ Over \/ Back)
  <2>1. PodsRun \in BOOLEAN
    BY DEF PodsRun
  <2> QED
    BY <1>22, <2>1 DEF ReconcileWaits, At, Back
<1>23. ASSUME Validates PROVE run.cmd # "none" /\ (Forward \/ Over \/ Back)
  BY <1>23, StepsLeftIs DEF Validates, At, Forward, Over, Back, Steps
<1>24. ASSUME DestroyRaises PROVE run.cmd # "none" /\ (Forward \/ Over \/ Back)
  BY <1>24, StepsLeftIs DEF DestroyRaises, At, Forward, Over, Back, Steps
<1> QED
  BY <1>1, <1>2, <1>3, <1>4, <1>5, <1>6, <1>7, <1>8, <1>9, <1>10, <1>11, <1>12,
     <1>13, <1>14, <1>15, <1>16, <1>17, <1>18, <1>19, <1>20, <1>21, <1>22, <1>23, <1>24 DEF Step

\* Whatever a step, or the user, does with a command leaves less of it.
LEMMA StepRunsDown ==
    ASSUME TypeOK, Step \/ Interrupt, run # Idle
    PROVE  Left' < Left
<1>1. RunTyped /\ RunTyped'
  <2>1. TypeOK'
    BY NextTypeOK DEF Next
  <2> QED
    BY <2>1 DEF TypeOK, RunTyped
<1>2. run \in Running /\ Left \in Nat /\ Left > 0
  BY <1>1, LeftIsBounded DEF RunTyped
<1>3. ASSUME NEW how, Ends(how) PROVE Left' < Left
  BY <1>2, <1>3 DEF Ends, Left
<1>4. ASSUME NEW step \in Steps, Goes(step), StepsLeft(step) < StepsLeft(run.step)
      PROVE  Left' < Left
  <2>1. run'.phase = run.phase /\ run'.step = step /\ run'.cmd = run.cmd
    BY <1>2, <1>4 DEF Goes, Running
  <2>2. run' # Idle
    BY <1>2, <2>1, PhasesAre DEF Running, Idle
  <2>3. StepsLeft(step) \in Int /\ StepsLeft(run.step) \in Int /\ PhasesLeft(run.phase) \in Int
    BY <1>2, StepsLeftIs, PhasesLeftIs, PhasesAre DEF Running, Steps
  <2> QED
    BY <1>4, <2>1, <2>2, <2>3 DEF Left
<1>5. ASSUME NEW ok \in BOOLEAN, Returns(run.phase, ok) PROVE Left' < Left
  <2>1. CASE GoesOn(run.phase, ok)
    <3>1. run' = [run EXCEPT !.phase = Following(run.phase), !.step = "start"]
      BY <1>5, <2>1 DEF Returns
    <3>2. run'.phase = Following(run.phase) /\ run'.step = "start" /\ run'.cmd = run.cmd
      BY <1>2, <3>1 DEF Running
    <3>3. run' # Idle
      BY <1>2, <3>2, PhasesAre DEF Running, Idle
    <3>4. run.phase \in {"preflight", "terraform", "kubeconfig", "images", "deploy", "reconcile"}
      BY <1>1, <1>2, <2>1, PhasesAre DEF RunTyped, GoesOn, Running
    <3>5. /\ PhasesLeft(run.phase) \in 0 .. 6 /\ PhasesLeft(run'.phase) \in 0 .. 6
          /\ PhasesLeft(run'.phase) < PhasesLeft(run.phase)
      BY <3>2, <3>4, FollowingIs, PhasesLeftIs
    <3>6. StepsLeft(run.step) \in 1 .. 14 /\ StepsLeft(run'.step) = 14
      BY <1>2, <3>2, StepsLeftIs DEF Running, Steps
    <3> QED
      BY <1>2, <3>3, <3>5, <3>6 DEF Left
  <2>2. CASE ~GoesOn(run.phase, ok)
    BY <1>3, <1>5, <2>2 DEF Returns
  <2> QED
    BY <2>1, <2>2
<1>6. CASE Interrupt
  BY <1>3, <1>6 DEF Interrupt
<1>7. CASE Step
  BY <1>3, <1>4, <1>5, <1>7, StepAdvances DEF Forward, Over, Back
<1> QED
  BY <1>6, <1>7

\* A command runs down: every step of it, whatever fails, leaves less before it,
\* so that it is over after 98 at the most and no phase is ever entered again
\* (run_all, and the order of the calls in each phase).
THEOREM CommandsRunDown == Spec => [](Left \in 0 .. 98) /\ [][run # Idle => Left' < Left]_vars
<1>1. TypeOK => Left \in 0 .. 98
  BY LeftIsBounded DEF TypeOK, RunTyped
<1>2. TypeOK /\ [Next]_vars => [run # Idle => Left' < Left]_vars
  BY StepRunsDown DEF Next, CalmComes, Invoke
<1> QED
  BY <1>1, <1>2, TypeCorrectness, PTL DEF Spec

-----------------------------------------------------------------------------
(* In the calm the command ends well                                        *)

\* What `all' has done for the development environment when it gets to a step
\* of a phase, and what it has after a step that leads there.
Handed(phase, step) ==
    /\ phase \in {"kubeconfig", "images", "deploy", "reconcile", "validate"} \/ step = "applied"
          => cloud.env = Dev
    /\ phase \in {"images", "deploy", "reconcile", "validate"} \/ step = "verify" => context = Dev
    /\ step = "push_admin_ui" => "backend" \in cloud.images
    /\ phase \in {"deploy", "reconcile", "validate"} => cloud.images = Images
    /\ phase \in {"reconcile", "validate"} => cluster.apps

HandsOn(phase, step) ==
    /\ phase \in {"kubeconfig", "images", "deploy", "reconcile", "validate"} \/ step = "applied"
          => cloud'.env = Dev
    /\ phase \in {"images", "deploy", "reconcile", "validate"} \/ step = "verify" => context' = Dev
    /\ step = "push_admin_ui" => "backend" \in cloud'.images
    /\ phase \in {"deploy", "reconcile", "validate"} => cloud'.images = Images
    /\ phase \in {"reconcile", "validate"} => cluster'.apps

\* The command of the calm.
Rerun ==
    /\ run \in Running /\ run.cmd = "all" /\ run.env = Dev /\ run.opts = {} /\ ~trouble
    /\ Handed(run.phase, run.step)

CalmRun == calm /\ run # Idle => Rerun

\* It is deployed when it is over.
Done ==
    /\ ended = [cmd |-> "all", how |-> "done"]
    /\ Reachable /\ cluster.apps /\ cloud.images = Images

\* How a step of it goes on: in its phase, in the next one, or to its end.
GoesWell ==
    /\ trouble' = trouble /\ calm' = calm
    /\ \/ \E step \in Steps : Goes(step) /\ HandsOn(run.phase, step)
       \/ \E ok \in BOOLEAN : /\ Returns(run.phase, ok)
                              /\ ok \/ run.phase \in {"reconcile", "validate"}
                              /\ run.phase # "validate" => HandsOn(Following(run.phase), "start")
                              /\ run.phase = "validate" => UNCHANGED <<cloud, cluster, context>>

\* Nothing fails in the calm, the command has no options, and what it needs
\* of the cloud is there.
LEMMA CalmIsKind ==
    ASSUME Rerun, calm
    PROVE  /\ ~Breaks /\ ~Exits /\ \A o : ~Opt(o)
           /\ Dev # None /\ (Works => trouble' = trouble) /\ (UNCHANGED bounds => calm' = calm)
BY InvocationsAssumption DEF Rerun, Breaks, Exits, Opt, Works, bounds

\* Preflight, terraform and kubeconfig in the calm.
LEMMA CalmBegins ==
    ASSUME WorldTyped, Rerun, calm, Dev \in Conventional,
           \/ Preflight \/ TerraformStarts \/ TerraformPlans \/ TerraformApplies
           \/ TerraformDestroyed \/ TerraformApplied \/ KubeconfigUpdates \/ KubeconfigVerifies
    PROVE  GoesWell
<1>1. /\ ~Breaks /\ ~Exits /\ ~Opt("plan") /\ ~Opt("destroy") /\ ~Opt("skip_images")
      /\ Dev # None /\ (Works => trouble' = trouble) /\ (UNCHANGED bounds => calm' = calm)
  BY CalmIsKind
<1>2. ASSUME Preflight PROVE GoesWell
  <2>1. run.phase = "preflight" /\ Returns("preflight", TRUE)
    BY <1>1, <1>2 DEF Preflight, At
  <2>2. HandsOn("terraform", "start")
    BY DEF HandsOn
  <2> QED
    BY <1>1, <1>2, <2>1, <2>2, FollowingIs DEF Preflight, GoesWell
<1>3. ASSUME TerraformStarts PROVE GoesWell
  <2>1. run.phase = "terraform" /\ Goes("plan")
    BY <1>3 DEF TerraformStarts, At
  <2>2. HandsOn("terraform", "plan")
    BY DEF HandsOn
  <2> QED
    BY <1>1, <1>3, <2>1, <2>2 DEF TerraformStarts, GoesWell, Steps
<1>4. ASSUME TerraformPlans PROVE GoesWell
  <2>1. run.phase = "terraform" /\ Goes("apply") /\ Works
    BY <1>1, <1>4 DEF TerraformPlans, At
  <2>2. HandsOn("terraform", "apply")
    BY DEF HandsOn
  <2> QED
    BY <1>1, <1>4, <2>1, <2>2 DEF TerraformPlans, GoesWell, Steps
<1>5. ASSUME TerraformApplies PROVE GoesWell
  <2>1. run.phase = "terraform" /\ Goes("applied") /\ Works /\ ApplySucceeds
    BY <1>1, <1>5 DEF TerraformApplies, At
  <2>2. cloud'.env = Dev
    BY <1>1, <2>1 DEF ApplySucceeds, WorldTyped, Rerun
  <2>3. HandsOn("terraform", "applied")
    BY <2>2 DEF HandsOn
  <2> QED
    BY <1>1, <1>5, <2>1, <2>3 DEF TerraformApplies, GoesWell, Steps
<1>6. ASSUME TerraformDestroyed PROVE GoesWell
  BY <1>1, <1>6 DEF TerraformDestroyed
<1>7. ASSUME TerraformApplied PROVE GoesWell
  <2>1. run.phase = "terraform" /\ run.step = "applied" /\ Works /\ Returns("terraform", TRUE)
    BY <1>1, <1>7 DEF TerraformApplied, At
  <2>2. HandsOn("kubeconfig", "start")
    BY <1>7, <2>1 DEF TerraformApplied, HandsOn, Handed, Rerun, remote
  <2> QED
    BY <1>1, <1>7, <2>1, <2>2, FollowingIs DEF TerraformApplied, GoesWell
<1>8. ASSUME KubeconfigUpdates PROVE GoesWell
  <2>1. run.phase = "kubeconfig" /\ cloud.env = Dev
    BY <1>8 DEF KubeconfigUpdates, At, Rerun, Handed
  <2>2. Guess = Dev /\ GuessedRight
    BY <1>1, <2>1 DEF Guess, GuessedRight, Rerun
  <2>3. Works /\ context' = Dev /\ Goes("verify") /\ UNCHANGED <<remote, bounds>>
    BY <1>1, <1>8, <2>2 DEF KubeconfigUpdates
  <2>4. HandsOn("kubeconfig", "verify")
    BY <2>1, <2>3 DEF HandsOn, remote
  <2> QED
    BY <1>1, <2>1, <2>3, <2>4 DEF GoesWell, Steps
<1>9. ASSUME KubeconfigVerifies PROVE GoesWell
  <2>1. run.phase = "kubeconfig" /\ run.step = "verify" /\ Works /\ Returns("kubeconfig", TRUE)
    BY <1>1, <1>9 DEF KubeconfigVerifies, At
  <2>2. HandsOn("images", "start")
    BY <1>9, <2>1 DEF KubeconfigVerifies, HandsOn, Handed, Rerun, remote
  <2> QED
    BY <1>1, <1>9, <2>1, <2>2, FollowingIs DEF KubeconfigVerifies, GoesWell
<1> QED
  BY <1>2, <1>3, <1>4, <1>5, <1>6, <1>7, <1>8, <1>9

\* The images and deploy.
LEMMA CalmDeploys ==
    ASSUME WorldTyped, Rerun, calm,
           \/ ImagesStart \/ ImagesBuild \/ ImagesPushBackend \/ ImagesPushAdminUi
           \/ DeployStarts \/ DeployWaits \/ DeployCreds \/ DeployLabels \/ DeployApplies
    PROVE  GoesWell
<1>1. /\ ~Breaks /\ ~Exits /\ ~Opt("no_push") /\ ~Opt("skip_wait")
      /\ Dev # None /\ (Works => trouble' = trouble) /\ (UNCHANGED bounds => calm' = calm)
  BY CalmIsKind
<1>2. run.phase \in {"images", "deploy"} /\ cloud.env = Dev /\ context = Dev
  BY DEF ImagesStart, ImagesBuild, ImagesPushBackend, ImagesPushAdminUi, DeployStarts, DeployWaits,
         DeployCreds, DeployLabels, DeployApplies, At, Rerun, Handed
<1>3. Reachable
  BY <1>1, <1>2 DEF Reachable
<1>4. ~Unreachable /\ ~PushFails
  BY <1>1, <1>2, <1>3 DEF Unreachable, PushFails
<1>5. ASSUME NEW step \in Steps \ {"applied", "verify", "push_admin_ui"}, Goes(step),
             UNCHANGED <<context, bounds>>, trouble' = trouble, cloud'.env = Dev,
             run.phase = "deploy" => cloud' = cloud
      PROVE  GoesWell
  <2>1. HandsOn(run.phase, step)
    BY <1>2, <1>5 DEF HandsOn, Handed, Rerun
  <2> QED
    BY <1>1, <1>5, <2>1 DEF GoesWell
<1>6. ASSUME ImagesStart PROVE GoesWell
  <2>1. Works /\ Goes("build") /\ UNCHANGED <<cloud, context, bounds>>
    BY <1>1, <1>2, <1>6 DEF ImagesStart, remote
  <2> QED
    BY <1>1, <1>2, <1>5, <2>1 DEF Steps
<1>7. ASSUME ImagesBuild PROVE GoesWell
  <2>1. Works /\ Goes("push_backend") /\ UNCHANGED <<cloud, context, bounds>>
    BY <1>1, <1>7 DEF ImagesBuild, remote
  <2> QED
    BY <1>1, <1>2, <1>5, <2>1 DEF Steps
<1>8. ASSUME ImagesPushBackend PROVE GoesWell
  <2>1. run.phase = "images" /\ Pushes("backend") /\ Goes("push_admin_ui") /\ UNCHANGED <<context, bounds>>
    BY <1>4, <1>8 DEF ImagesPushBackend, At
  <2>2. cloud'.env = Dev /\ "backend" \in cloud'.images
    BY <1>2, <2>1 DEF Pushes, WorldTyped
  <2>3. HandsOn("images", "push_admin_ui")
    BY <1>2, <2>1, <2>2 DEF HandsOn
  <2> QED
    BY <1>1, <2>1, <2>3 DEF GoesWell, Pushes, Steps
<1>9. ASSUME ImagesPushAdminUi PROVE GoesWell
  <2>1. /\ run.phase = "images" /\ run.step = "push_admin_ui"
        /\ Pushes("admin_ui") /\ Returns("images", TRUE) /\ UNCHANGED <<context, bounds>>
    BY <1>4, <1>9 DEF ImagesPushAdminUi, At
  <2>2. cloud'.env = Dev /\ cloud'.images = Images
    BY <1>2, <2>1 DEF Pushes, WorldTyped, Rerun, Handed, Images
  <2>3. HandsOn("deploy", "start")
    BY <1>2, <2>1, <2>2 DEF HandsOn
  <2> QED
    BY <1>1, <2>1, <2>3, FollowingIs DEF GoesWell, Pushes
<1>10. ASSUME DeployStarts PROVE GoesWell
  <2>1. trouble' = trouble /\ Goes("wait") /\ UNCHANGED <<cloud, context, bounds>>
    BY <1>1, <1>10 DEF DeployStarts, remote
  <2> QED
    BY <1>2, <1>5, <2>1 DEF Steps
<1>11. ASSUME DeployWaits PROVE GoesWell
  <2>1. Works /\ Goes("creds") /\ UNCHANGED <<cloud, context, bounds>>
    BY <1>4, <1>11 DEF DeployWaits, remote
  <2> QED
    BY <1>1, <1>2, <1>5, <2>1 DEF Steps
<1>12. ASSUME DeployCreds PROVE GoesWell
  <2>1. Works /\ (Goes("apply") \/ Goes("label")) /\ UNCHANGED <<cloud, context, bounds>>
    BY <1>1, <1>4, <1>12 DEF DeployCreds, Creates
  <2> QED
    BY <1>1, <1>2, <1>5, <2>1 DEF Steps
<1>13. ASSUME DeployLabels PROVE GoesWell
  <2>1. Works /\ Goes("apply") /\ UNCHANGED <<cloud, context, bounds>>
    BY <1>1, <1>13 DEF DeployLabels
  <2> QED
    BY <1>1, <1>2, <1>5, <2>1 DEF Steps
<1>14. ASSUME DeployApplies PROVE GoesWell
  <2>1. /\ run.phase = "deploy" /\ Works /\ Returns("deploy", TRUE) /\ UNCHANGED <<cloud, context, bounds>>
        /\ cluster' = [cluster EXCEPT !.apps = TRUE]
    BY <1>4, <1>14 DEF DeployApplies, At
  <2>2. cluster'.apps
    BY <2>1 DEF WorldTyped
  <2>3. HandsOn("reconcile", "start")
    BY <1>2, <2>1, <2>2 DEF HandsOn, Handed, Rerun
  <2> QED
    BY <1>1, <2>1, <2>3, FollowingIs DEF GoesWell
<1> QED
  BY <1>6, <1>7, <1>8, <1>9, <1>10, <1>11, <1>12, <1>13, <1>14

\* Reconcile, which `all' leaves for validate in any case, and validate.
LEMMA CalmReconciles ==
    ASSUME Rerun, calm,
           ReconcileReads \/ ReconcilePuts \/ ReconcileEnsures \/ ReconcileWaits \/ Validates
    PROVE  GoesWell
<1>1. /\ ~Breaks /\ (Works => trouble' = trouble) /\ (UNCHANGED bounds => calm' = calm)
  BY CalmIsKind
<1>2. run.phase \in {"reconcile", "validate"}
  BY DEF ReconcileReads, ReconcilePuts, ReconcileEnsures, ReconcileWaits, Validates, At
<1>3. UNCHANGED <<cloud, cluster, context, bounds>> /\ trouble' = trouble
  BY <1>1
  DEF ReconcileReads, ReconcilePuts, ReconcileEnsures, ReconcileWaits, Validates, remote
<1>4. ASSUME NEW step \in Steps \ {"applied", "verify", "push_admin_ui"} PROVE HandsOn(run.phase, step)
  BY <1>2, <1>3 DEF HandsOn, Handed, Rerun
<1>5. run.phase = "reconcile" => HandsOn("validate", "start")
  BY <1>3 DEF HandsOn, Handed, Rerun
<1>6. \/ \E step \in Steps \ {"applied", "verify", "push_admin_ui"} : Goes(step)
      \/ \E ok \in BOOLEAN : Returns(run.phase, ok)
  <2>1. PodsRun \in BOOLEAN
    BY DEF PodsRun
  <2> QED
    BY <1>1, <2>1
    DEF ReconcileReads, ReconcilePuts, ReconcileEnsures, ReconcileWaits, Validates, At, Steps
<1> QED
  BY <1>1, <1>2, <1>3, <1>4, <1>5, <1>6, FollowingIs DEF GoesWell

\* So that a step of the command of the calm keeps it so, or is its good end.
LEMMA CalmStep ==
    ASSUME TypeOK, CommandLine, Rerun, calm, Step, Dev \in Conventional
    PROVE  CalmRun' /\ (run' = Idle => Done')
<1>1. run.phase # "outputs" /\ run.phase # "destroy"
  BY PhasesAre DEF TypeOK, Rerun, Idle, Running
<1>2. GoesWell
  <2>1. WorldTyped
    BY DEF TypeOK, WorldTyped
  <2>2. ~OutputsRefresh /\ ~DestroyRaises
    BY <1>1 DEF OutputsRefresh, DestroyRaises, At
  <2> QED
    BY <2>1, <2>2, CalmBegins, CalmDeploys, CalmReconciles DEF Step
<1>3. RunTyped'
  <2>1. TypeOK'
    BY NextTypeOK DEF Next
  <2> QED
    BY <2>1 DEF TypeOK, RunTyped
<1>4. ASSUME NEW step, Goes(step), HandsOn(run.phase, step) PROVE CalmRun' /\ run' # Idle
  <2>1. /\ run'.cmd = "all" /\ run'.env = Dev /\ run'.opts = {}
        /\ run'.phase = run.phase /\ run'.step = step
    BY <1>4 DEF Goes, Rerun, Running
  <2>2. run' # Idle
    BY <2>1 DEF Idle
  <2>3. run' \in Running
    BY <1>3, <2>2 DEF RunTyped
  <2> QED
    BY <1>2, <1>4, <2>1, <2>2, <2>3 DEF GoesWell, CalmRun, Rerun, HandsOn, Handed
<1>5. ASSUME NEW ok \in BOOLEAN, Returns(run.phase, ok), ok \/ run.phase = "reconcile",
             run.phase # "validate", HandsOn(Following(run.phase), "start")
      PROVE  CalmRun' /\ run' # Idle
  <2>1. run' = [run EXCEPT !.phase = Following(run.phase), !.step = "start"]
    BY <1>5 DEF Returns, GoesOn, Rerun
  <2>2. /\ run'.cmd = "all" /\ run'.env = Dev /\ run'.opts = {}
        /\ run'.phase = Following(run.phase) /\ run'.step = "start"
    BY <2>1 DEF Rerun, Running
  <2>3. run' # Idle
    BY <2>2 DEF Idle
  <2>4. run' \in Running
    BY <1>3, <2>3 DEF RunTyped
  <2> QED
    BY <1>2, <1>5, <2>2, <2>3, <2>4 DEF GoesWell, CalmRun, Rerun, HandsOn, Handed
<1>6. ASSUME NEW ok \in BOOLEAN, Returns(run.phase, ok), run.phase = "validate",
             UNCHANGED <<cloud, cluster, context>>
      PROVE  CalmRun' /\ Done'
  <2>1. run' = Idle /\ ended' = [cmd |-> "all", how |-> "done"]
    BY <1>6 DEF Returns, GoesOn, Ends, Rerun
  <2>2. Dev # None
    BY InvocationsAssumption
  <2> QED
    BY <1>6, <2>1, <2>2 DEF CalmRun, Done, Reachable, Rerun, Handed
<1> QED
  BY <1>2, <1>4, <1>5, <1>6 DEF GoesWell

\* Once nothing fails any more, a command can only end with everything
\* deployed, whatever the commands before the calm left half done: the other
\* half of RerunRecovers, CommandsRunDown being the first (run_all).  The
\* cluster must have the name that kubeconfig makes up.
THEOREM CalmRunsSucceed ==
    Dev \in Conventional => (Spec => [][calm /\ run # Idle /\ run' = Idle => Done']_vars)
<1> SUFFICES ASSUME Dev \in Conventional
             PROVE  Spec => [][calm /\ run # Idle /\ run' = Idle => Done']_vars
  OBVIOUS
<1> DEFINE I == TypeOK /\ CommandLine /\ CalmRun
<1>1. Init => I
  BY InitTypeOK DEF Init, CommandLine, CalmRun, Idle
<1>2. I /\ [Next]_vars => I' /\ [calm /\ run # Idle /\ run' = Idle => Done']_vars
  <2> SUFFICES ASSUME I, [Next]_vars
               PROVE  CalmRun' /\ [calm /\ run # Idle /\ run' = Idle => Done']_vars
    BY NextTypeOK, NextCommandLine
  <2>1. CASE Step
    <3>1. CASE calm /\ run # Idle
      BY <2>1, <3>1, CalmStep DEF CalmRun
    <3>2. CASE ~calm
      <4>1. ~calm'
        BY <2>1, <3>2
        DEF Step, Preflight, TerraformStarts, TerraformPlans, TerraformApplies, TerraformDestroyed,
            TerraformApplied, OutputsRefresh, KubeconfigUpdates, KubeconfigVerifies, ImagesStart,
            ImagesBuild, ImagesPushBackend, ImagesPushAdminUi, DeployStarts, DeployWaits,
            DeployCreds, DeployLabels, DeployApplies, ReconcileReads, ReconcilePuts,
            ReconcileEnsures, ReconcileWaits, Validates, DestroyRaises, bounds
      <4> QED
        BY <3>2, <4>1 DEF CalmRun
    <3>3. run # Idle
      BY <2>1, StepAdvances DEF Idle
    <3> QED
      BY <3>1, <3>2, <3>3
  <2>2. CASE Interrupt
    BY <2>2 DEF Interrupt, Ends, CalmRun
  <2>3. CASE CalmComes
    BY <2>3 DEF CalmComes, CalmRun
  <2>4. ASSUME NEW i \in Invocations, Invoke(i)
        PROVE  CalmRun' /\ [calm /\ run # Idle /\ run' = Idle => Done']_vars
    <3>1. RunTyped'
      <4>1. TypeOK'
        BY NextTypeOK
      <4> QED
        BY <4>1 DEF TypeOK, RunTyped
    <3>2. ASSUME calm, run' # Idle PROVE Rerun'
      <4>1. run' = [cmd |-> "all", env |-> Dev, opts |-> {}, step |-> "start", phase |-> "preflight"]
        BY <2>4, <3>2 DEF Invoke
      <4>2. run' \in Running /\ trouble' = FALSE
        BY <2>4, <3>1, <3>2 DEF RunTyped, Invoke
      <4> QED
        BY <4>1, <4>2 DEF Rerun, Handed
    <3> QED
      BY <2>4, <3>2 DEF Invoke, CalmRun
  <2>5. CASE UNCHANGED vars
    BY <2>5 DEF vars, CalmRun, Rerun, Handed
  <2> QED
    BY <2>1, <2>2, <2>3, <2>4, <2>5 DEF Next
<1> QED
  BY <1>1, <1>2, PTL DEF Spec
=============================================================================
