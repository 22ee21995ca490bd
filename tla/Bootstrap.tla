------------------------------ MODULE Bootstrap ------------------------------
(* The bootstrap script (src/RUNME.py): its phases, the status it saves of   *)
(* them, and what they do to the cloud and the cluster.                     *)
(*                                                                          *)
(* One command runs at a time.  A step is a call of an external tool with    *)
(* what the script does about its result; several calls that change nothing  *)
(* are one step, and so are writes of local files in a row.  A tool may fail *)
(* at any time, the user may decline what is asked, and a command may be     *)
(* interrupted between any two steps.                                       *)
EXTENDS Integers, FiniteSets

CONSTANTS
    Envs,            \* environments that --env takes
    Conventional,    \* those whose cluster has the name llm-gateway-<env>
    Dev,             \* the environment whose database reconcile looks for
    None,
    Invocations,     \* command lines: records of cmd, env and opts
    MaxRuns          \* bound on the commands started before the calm

Order == <<"preflight", "terraform", "kubeconfig", "images", "deploy", "reconcile", "validate">>

Commands == {Order[i] : i \in DOMAIN Order} \cup {"all", "destroy", "outputs"}

\* The phases the state file has; reconcile saves none.
Saved == {Order[i] : i \in DOMAIN Order} \ {"reconcile"}

Options == {"plan", "destroy", "no_push", "skip_wait", "skip_images"}

ASSUME InvocationsAssumption ==
    /\ Conventional \subseteq Envs /\ Dev \in Envs /\ None \notin Envs
    /\ Invocations \subseteq [cmd : Commands, env : Envs \cup {None}, opts : SUBSET Options]
    /\ \A i \in Invocations : i.cmd \in {"all", "terraform", "destroy"} => i.env # None
    /\ \A i \in Invocations : i.cmd = "all" => i.opts \subseteq {"skip_images"}

ASSUME MaxRunsAssumption == MaxRuns \in Nat

Images == {"backend", "admin_ui"}

VARIABLES
    saved,      \* the state file: status of the phases, env, outputs known
    dotenv,     \* the environment that .env is about
    cloud,      \* the infrastructure: its environment, whether it is whole,
                \* and the images in its registry
    secret,     \* the database credentials of the application
    cluster,    \* the repository credentials and the root application
    ensured,    \* of the admin key and the database, those that exist
    context,    \* the environment whose cluster kubectl talks to
    run,        \* the command that runs
    trouble,    \* whether anything failed or was declined in it
    ended,      \* the last command and how it ended
    calm,       \* from now on nothing fails, and only `all` is run
    runs        \* the commands started before that

local == <<saved, dotenv>>
remote == <<cloud, secret, cluster, ensured>>
bounds == <<calm, runs>>
vars == <<saved, dotenv, cloud, secret, cluster, ensured, context, run, trouble, ended, calm, runs>>

-----------------------------------------------------------------------------
(* The state file, tools that work or break, and how a command goes on      *)

SetPhase(phase, status) == saved' = [saved EXCEPT !.status[phase] = status]

\* Mutant: a failure is not saved.
FinishedLate(ok) == IF ok THEN "completed" ELSE "in_progress"

Finished(ok) == IF ok THEN "completed" ELSE "failed"

Works == UNCHANGED trouble
Breaks == ~calm /\ trouble' = TRUE

Idle == [cmd |-> "none"]

At(phase, step) == run.cmd # "none" /\ run.phase = phase /\ run.step = step

Opt(o) == o \in run.opts

Goes(step) == run' = [run EXCEPT !.step = step] /\ UNCHANGED ended

Ends(how) == run' = Idle /\ ended' = [cmd |-> run.cmd, how |-> how]

Position(phase) == CHOOSE i \in DOMAIN Order : Order[i] = phase

Following(phase) ==
    IF phase = "kubeconfig" /\ Opt("skip_images") THEN "deploy" ELSE Order[Position(phase) + 1]

\* Mutant: run_all does not look at what kubeconfig returns.
GoesOnRegardless(phase, ok) ==
    /\ run.cmd = "all" /\ phase # "validate"
    /\ ok \/ phase \in {"kubeconfig", "reconcile"}

\* run_all stops at a phase that returns False, reconcile and validate apart.
GoesOn(phase, ok) ==
    /\ run.cmd = "all" /\ phase # "validate"
    /\ ok \/ phase = "reconcile"

Returns(phase, ok) ==
    IF GoesOn(phase, ok)
    THEN run' = [run EXCEPT !.phase = Following(phase), !.step = "start"] /\ UNCHANGED ended
    ELSE Ends(IF ok \/ (run.cmd = "all" /\ phase = "validate") THEN "done" ELSE "failed")

\* run_command with check: a tool that fails ends the script.
Exits == Breaks /\ Ends("failed")

Invoke(i) ==
    /\ run = Idle
    /\ IF calm
       THEN i = [cmd |-> "all", env |-> Dev, opts |-> {}] /\ UNCHANGED runs
       ELSE runs < MaxRuns /\ runs' = runs + 1
    /\ run' = [cmd   |-> i.cmd, env |-> i.env, opts |-> i.opts, step |-> "start",
               phase |-> IF i.cmd = "all" THEN "preflight" ELSE i.cmd]
    /\ trouble' = FALSE
    /\ ended' = [cmd |-> "none", how |-> "none"]
    /\ UNCHANGED <<local, remote, context, calm>>

Interrupt ==
    /\ run # Idle /\ ~calm
    /\ Ends("interrupted")
    /\ UNCHANGED <<local, remote, context, trouble, bounds>>

-----------------------------------------------------------------------------
(* preflight and terraform                                                  *)

\* The checks are counted, but aws is called again for the credentials: without
\* it that raises, and no status is saved.
Preflight ==
    /\ At("preflight", "start")
    /\ \/ \E ok \in BOOLEAN :
             /\ IF ok THEN Works ELSE Breaks
             /\ SetPhase("preflight", Finished(ok))
             /\ Returns("preflight", ok)
       \/ Breaks /\ Ends("raised") /\ UNCHANGED saved
    /\ UNCHANGED <<dotenv, remote, context, bounds>>

TerraformStarts ==
    /\ At("terraform", "start")
    /\ SetPhase("terraform", "in_progress")
    /\ Goes("plan")
    /\ UNCHANGED <<dotenv, remote, context, trouble, bounds>>

\* init, plan and the question whether to apply the plan.
TerraformPlans ==
    /\ At("terraform", "plan")
    /\ \/ Exits
       \/ Works /\ Opt("plan") /\ Returns("terraform", TRUE)
       \/ Works /\ ~Opt("plan") /\ Goes("apply")
       \/ Breaks /\ ~Opt("plan") /\ Returns("terraform", FALSE)
    /\ UNCHANGED <<local, remote, context, bounds>>

NoCloud == [env |-> None, whole |-> FALSE, images |-> {}]
NewCluster == [creds |-> "none", apps |-> FALSE]

\* Terraform has one state for all environments: another one replaces the
\* cluster and the database, not the registry.  The secret is written with
\* Terraform's own password when it is made or the database replaced, and
\* perhaps when it was changed since.
Applies(e) ==
    LET same == cloud.env = e
    IN  /\ secret' \in (IF same THEN {secret, "terraform"} ELSE {"terraform"})
        /\ cluster' = (IF same THEN cluster ELSE NewCluster)
        /\ ensured' = (IF same THEN ensured ELSE ensured \ {"database"})

Destroys ==
    /\ secret' = "none"
    /\ cluster' = NewCluster
    /\ ensured' = ensured \ {"database"}

ApplySucceeds ==
    IF Opt("destroy")
    THEN Destroys /\ cloud' = NoCloud
    ELSE Applies(run.env) /\ cloud' = [cloud EXCEPT !.env = run.env, !.whole = TRUE]

\* An apply that fails may have done any part of its work.
ApplyFails ==
    \/ UNCHANGED remote
    \/ /\ Opt("destroy") /\ cloud.env # None
       /\ (UNCHANGED <<secret, cluster, ensured>>) \/ Destroys
       /\ \E images \in {cloud.images, {}} :
             cloud' = [cloud EXCEPT !.whole = FALSE, !.images = images]
    \/ /\ ~Opt("destroy")
       /\ Applies(run.env)
       /\ cloud' = [cloud EXCEPT !.env = run.env, !.whole = FALSE]

\* Mutant: apply is run without check.
TerraformAppliesUnchecked ==
    /\ At("terraform", "apply")
    /\ \/ Works /\ ApplySucceeds /\ Goes("applied")
       \/ Breaks /\ Goes("applied") /\ ApplyFails
    /\ UNCHANGED <<local, context, bounds>>

TerraformApplies ==
    /\ At("terraform", "apply")
    /\ \/ Works /\ ApplySucceeds /\ Goes("applied")
       \/ Exits /\ ApplyFails
    /\ UNCHANGED <<local, context, bounds>>

TerraformDestroyed ==
    /\ At("terraform", "applied") /\ Opt("destroy")
    /\ SetPhase("terraform", "not_started")
    /\ dotenv' = None
    /\ Returns("terraform", TRUE)
    /\ UNCHANGED <<remote, context, trouble, bounds>>

\* The outputs are captured, or not if `terraform output' fails.
TerraformApplied ==
    /\ At("terraform", "applied") /\ ~Opt("destroy")
    /\ \/ /\ Works
          /\ dotenv' = run.env
          /\ saved' = [status |-> [saved.status EXCEPT !["terraform"] = "completed"],
                       env |-> run.env, outputs |-> TRUE]
       \/ /\ Breaks
          /\ SetPhase("terraform", "completed")
          /\ UNCHANGED dotenv
    /\ Returns("terraform", TRUE)
    /\ UNCHANGED <<remote, context, bounds>>

\* outputs --refresh.
OutputsRefresh ==
    /\ At("outputs", "start")
    /\ \/ Works /\ saved' = [saved EXCEPT !.outputs = @ \/ cloud.env # None]
       \/ Breaks /\ UNCHANGED saved
    /\ Ends("done")
    /\ UNCHANGED <<dotenv, remote, context, bounds>>

-----------------------------------------------------------------------------
(* kubeconfig and images                                                    *)

\* Terraform has no output cluster_name (terraform/outputs.tf), so that the
\* name is always made up from the environment.
Guess == IF run.env # None THEN run.env ELSE saved.env

GuessedRight == Guess \in Conventional /\ Guess = cloud.env

KubeconfigUpdates ==
    /\ At("kubeconfig", "start")
    /\ \/ Works /\ GuessedRight /\ context' = Guess /\ Goes("verify")
       \/ /\ (Works /\ ~GuessedRight) \/ Breaks
          /\ Returns("kubeconfig", FALSE)
          /\ UNCHANGED context
    /\ UNCHANGED <<local, remote, bounds>>

Reachable == context # None /\ context = cloud.env

KubeconfigVerifies ==
    /\ At("kubeconfig", "verify")
    /\ \E ok \in BOOLEAN :
          /\ IF ok THEN Works /\ Reachable ELSE Breaks
          /\ SetPhase("kubeconfig", Finished(ok))
          /\ Returns("kubeconfig", ok)
    /\ UNCHANGED <<dotenv, remote, context, bounds>>

\* The URIs of the registry are in the saved outputs or in Terraform's.
ImagesStart ==
    /\ At("images", "start")
    /\ \/ /\ Works
          /\ saved.outputs \/ cloud.env # None
          /\ SetPhase("images", "in_progress")
          /\ Goes("build")
       \/ /\ ~saved.outputs
          /\ (Works /\ cloud.env = None) \/ Breaks
          /\ SetPhase("images", "failed")
          /\ Returns("images", FALSE)
    /\ UNCHANGED <<dotenv, remote, context, bounds>>

\* The tag, the login and both builds.
ImagesBuild ==
    /\ At("images", "build")
    /\ \/ Exits /\ UNCHANGED saved
       \/ Works /\ ~Opt("no_push") /\ Goes("push_backend") /\ UNCHANGED saved
       \/ /\ Works /\ Opt("no_push")
          /\ SetPhase("images", "completed")
          /\ Returns("images", TRUE)
    /\ UNCHANGED <<dotenv, remote, context, bounds>>

\* A push needs the repositories, which are part of the infrastructure.
Pushes(image) ==
    /\ Works /\ cloud.env # None
    /\ cloud' = [cloud EXCEPT !.images = @ \cup {image}]

PushFails ==
    /\ (Works /\ cloud.env = None) \/ Breaks
    /\ Ends("failed")
    /\ UNCHANGED <<saved, cloud>>

ImagesPushBackend ==
    /\ At("images", "push_backend")
    /\ \/ Pushes("backend") /\ Goes("push_admin_ui") /\ UNCHANGED saved
       \/ PushFails
    /\ UNCHANGED <<dotenv, secret, cluster, ensured, context, bounds>>

ImagesPushAdminUi ==
    /\ At("images", "push_admin_ui")
    /\ \/ Pushes("admin_ui") /\ SetPhase("images", "completed") /\ Returns("images", TRUE)
       \/ PushFails
    /\ UNCHANGED <<dotenv, secret, cluster, ensured, context, bounds>>

-----------------------------------------------------------------------------
(* deploy                                                                   *)

\* kubectl fails without a cluster, and may fail with one.
Unreachable == (Works /\ ~Reachable) \/ Breaks

DeployStarts ==
    /\ At("deploy", "start")
    /\ SetPhase("deploy", "in_progress")
    /\ Goes(IF Opt("skip_wait") THEN "creds" ELSE "wait")
    /\ UNCHANGED <<dotenv, remote, context, trouble, bounds>>

\* wait_for_argocd: five minutes at most.
DeployWaits ==
    /\ At("deploy", "wait")
    /\ \/ Works /\ Reachable /\ Goes("creds") /\ UNCHANGED saved
       \/ Unreachable /\ SetPhase("deploy", "failed") /\ Returns("deploy", FALSE)
    /\ UNCHANGED <<dotenv, remote, context, bounds>>

Creates ==
    /\ Works /\ Reachable /\ cluster.creds = "none"
    /\ cluster' = [cluster EXCEPT !.creds = "unlabelled"]
    /\ Goes("label")

\* Mutant: the secret is created without a look whether it exists.
DeployCredsBlindly ==
    /\ At("deploy", "creds")
    /\ \/ Creates
       \/ Works /\ cluster.creds # "none" /\ Ends("failed") /\ UNCHANGED cluster
       \/ Breaks /\ Goes("apply") /\ UNCHANGED cluster
       \/ Unreachable /\ Ends("failed") /\ UNCHANGED cluster
    /\ UNCHANGED <<local, cloud, secret, ensured, context, bounds>>

\* create_argocd_repo_secret: a secret that exists is left as it is; the user
\* may give no token.
DeployCreds ==
    /\ At("deploy", "creds")
    /\ \/ Works /\ Reachable /\ cluster.creds # "none" /\ Goes("apply") /\ UNCHANGED cluster
       \/ Creates
       \/ Breaks /\ Goes("apply") /\ UNCHANGED cluster
       \/ Unreachable /\ Ends("failed") /\ UNCHANGED cluster
    /\ UNCHANGED <<local, cloud, secret, ensured, context, bounds>>

DeployLabels ==
    /\ At("deploy", "label")
    /\ \/ Works /\ cluster' = [cluster EXCEPT !.creds = "labelled"] /\ Goes("apply")
       \/ Exits /\ UNCHANGED cluster
    /\ UNCHANGED <<local, cloud, secret, ensured, context, bounds>>

DeployApplies ==
    /\ At("deploy", "apply")
    /\ \/ /\ Works /\ Reachable
          /\ cluster' = [cluster EXCEPT !.apps = TRUE]
          /\ SetPhase("deploy", "completed")
          /\ Returns("deploy", TRUE)
       \/ Unreachable /\ Ends("failed") /\ UNCHANGED <<saved, cluster>>
    /\ UNCHANGED <<dotenv, cloud, secret, ensured, context, bounds>>

-----------------------------------------------------------------------------
(* reconcile, validate and destroy                                          *)

\* What the pods need to start: both images, and every key that the chart takes
\* from the two secrets.  Whether the database lets them in they do not say:
\* /health asks the providers only, and a failing init_db is logged.
PodsRun ==
    /\ Reachable /\ cluster.apps /\ cloud.images = Images
    /\ secret \in {"terraform", "synced"}
    /\ "admin_key" \in ensured

\* The labels of the backend's pods (helm-chart/backend, selectorLabels).
PodLabels == {"app.kubernetes.io/name", "app.kubernetes.io/instance", "app.kubernetes.io/component"}

\* reconcile looks for a pod with the label app=backend.
PodFound == PodsRun /\ "app" \in PodLabels

\* The database's own password is looked up, then the application's secret is
\* read to keep what else is in it; if that fails, it counts as empty.
ReconcileReads ==
    /\ At("reconcile", "start")
    /\ \/ ((Works /\ cloud.env # Dev) \/ Breaks) /\ Goes("ensure")
       \/ Breaks /\ cloud.env = Dev /\ Returns("reconcile", FALSE)
       \/ Works /\ cloud.env = Dev /\ secret # "none" /\ Goes("put")
       \/ /\ cloud.env = Dev
          /\ (Works /\ secret = "none") \/ Breaks
          /\ Goes("put_bare")
    /\ UNCHANGED <<local, remote, context, bounds>>

\* Mutant: the password that is put is the one that was read from the secret.
SyncedStale == secret

\* The secret with the new password in it.
Synced == IF run.step = "put" /\ secret # "password_only" THEN "synced" ELSE "password_only"

\* put-secret-value, or create-secret; neither is checked.
ReconcilePuts ==
    /\ run.cmd # "none" /\ run.phase = "reconcile" /\ run.step \in {"put", "put_bare"}
    /\ \/ Works /\ secret' = Synced
       \/ Breaks /\ UNCHANGED secret
    /\ Goes("ensure")
    /\ UNCHANGED <<local, cloud, cluster, ensured, context, bounds>>

\* The admin key, and the database if a pod is found to make it from.  The
\* refresh only hurries what comes by itself, and the restart is of a
\* deployment `backend', which the chart calls llm-gateway-backend: neither
\* changes anything here.  Nothing is fatal.
ReconcileEnsures ==
    LET can == {"admin_key"} \cup (IF PodFound THEN {"database"} ELSE {})
    IN  /\ At("reconcile", "ensure")
        /\ \/ Works /\ ensured' = ensured \cup can
           \/ Breaks /\ \E done \in SUBSET can : ensured' = ensured \cup done
        /\ Goes("wait")
        /\ UNCHANGED <<local, cloud, secret, cluster, context, bounds>>

\* All applications healthy, or the timeout.
ReconcileWaits ==
    /\ At("reconcile", "wait")
    /\ \/ Works /\ Returns("reconcile", PodsRun)
       \/ Breaks /\ Returns("reconcile", FALSE)
    /\ UNCHANGED <<local, remote, context, bounds>>

\* argocd/apps/codeguardian/namespace.yaml and argocd/apps/observability.
Namespaces == IF cluster.apps THEN {"llm-gateway", "monitoring"} ELSE {}

ValidationPasses == Reachable /\ PodsRun /\ {"monitoring", "codeguardian"} \subseteq Namespaces

Validates ==
    /\ At("validate", "start")
    /\ \E ok \in BOOLEAN :
          /\ ok => ValidationPasses
          /\ IF ok = ValidationPasses THEN Works ELSE Breaks
          /\ SetPhase("validate", Finished(ok))
          /\ Returns("validate", ok)
    /\ UNCHANGED <<dotenv, remote, context, bounds>>

\* After the confirmation terraform() is called without a profile, and the
\* default, an OptionInfo, cannot be put into os.environ.
DestroyRaises ==
    /\ At("destroy", "start")
    /\ \/ Works /\ Ends("raised")
       \/ Breaks /\ Ends("failed")
    /\ UNCHANGED <<local, remote, context, bounds>>

\* Environment: nothing will fail any more.
CalmComes ==
    /\ ~calm /\ run = Idle
    /\ calm' = TRUE
    /\ UNCHANGED <<local, remote, context, run, trouble, ended, runs>>

Init ==
    /\ saved = [status |-> [p \in Saved |-> "not_started"],
                env |-> None, outputs |-> FALSE]
    /\ dotenv = None
    /\ cloud = NoCloud
    /\ secret = "none"
    /\ cluster = NewCluster
    /\ ensured = {}
    /\ context = None
    /\ run = Idle
    /\ trouble = FALSE
    /\ ended = [cmd |-> "none", how |-> "none"]
    /\ calm = FALSE
    /\ runs = 0

Step ==
    \/ Preflight
    \/ TerraformStarts \/ TerraformPlans \/ TerraformApplies
    \/ TerraformDestroyed \/ TerraformApplied \/ OutputsRefresh
    \/ KubeconfigUpdates \/ KubeconfigVerifies
    \/ ImagesStart \/ ImagesBuild \/ ImagesPushBackend \/ ImagesPushAdminUi
    \/ DeployStarts \/ DeployWaits \/ DeployCreds \/ DeployLabels \/ DeployApplies
    \/ ReconcileReads \/ ReconcilePuts \/ ReconcileEnsures \/ ReconcileWaits
    \/ Validates
    \/ DestroyRaises

Next == Step \/ Interrupt \/ CalmComes \/ \E i \in Invocations : Invoke(i)

Spec == Init /\ [][Next]_vars

\* A step always ends: every wait has a timeout, and so have the tools.  In the
\* calm somebody runs the script until it is done.
FairSpec == Spec /\ WF_vars(calm /\ Next)

-----------------------------------------------------------------------------
(* Properties                                                               *)

Status == {"not_started", "in_progress", "completed", "failed"}

Steps == {"start", "plan", "apply", "applied", "verify", "build", "push_backend", "push_admin_ui",
          "wait", "creds", "label", "put", "put_bare", "ensure"}

Running == [cmd : Commands, env : Envs \cup {None}, opts : SUBSET Options,
            phase : Commands \ {"all"}, step : Steps]

\* Only terraform, images and deploy are ever in progress, and terraform does
\* not fail in the state file; but for `all' the phase is the command's.
TypeOK ==
    /\ saved \in [status : [Saved -> Status], env : Envs \cup {None}, outputs : BOOLEAN]
    /\ saved.status["terraform"] # "failed"
    /\ \A p \in {"preflight", "kubeconfig", "validate"} : saved.status[p] # "in_progress"
    /\ dotenv \in Envs \cup {None} /\ context \in Envs \cup {None}
    /\ cloud \in [env : Envs \cup {None}, whole : BOOLEAN, images : SUBSET Images]
    /\ secret \in {"none", "terraform", "synced", "password_only"}
    /\ cluster \in [creds : {"none", "unlabelled", "labelled"}, apps : BOOLEAN]
    /\ ensured \subseteq {"admin_key", "database"}
    /\ run \in {Idle} \cup Running
    /\ run # Idle => run.phase = run.cmd \/ (run.cmd = "all" /\ run.phase \in {Order[i] : i \in DOMAIN Order})
    /\ trouble \in BOOLEAN /\ calm \in BOOLEAN /\ runs \in 0 .. MaxRuns
    /\ ended \in [cmd : Commands \cup {"none"}, how : {"none", "done", "failed", "raised", "interrupted"}]

\* What a phase is for.
Earned(phase) ==
    CASE phase = "terraform"  -> cloud.whole /\ cloud.env # None
      [] phase = "kubeconfig" -> Reachable
      [] phase = "deploy"     -> Reachable /\ cluster.apps
      [] OTHER                -> TRUE

\* A phase is saved as completed only when its work is done in the cloud and
\* the cluster that exist at that moment, whatever was stale (update_phase).
CompletionIsEarned ==
    [][\A p \in DOMAIN saved.status :
          saved.status[p] # "completed" /\ saved'.status[p] = "completed" =>
              /\ Earned(p)'
              /\ p = "images" => Opt("no_push") \/ (cloud.images = Images)']_vars

\* `all' never enters a phase before those it builds on are completed.
AllInOrder ==
    run.cmd = "all" =>
        \A i \in 1 .. Position(run.phase) - 1 :
            Order[i] # "reconcile" /\ ~(Order[i] = "images" /\ Opt("skip_images")) =>
                saved.status[Order[i]] = "completed"

\* `all' without a failure brings the pods of the development environment up,
\* with the password that the database has in their secret, whatever the
\* commands before it left behind, a truncated secret excepted.  Of what
\* reconcile promises, the database is not among it (run_all).
UndisturbedRunsDeploy ==
    /\ ended = [cmd |-> "all", how |-> "done"] /\ ~trouble
    /\ cloud.env = Dev /\ cloud.images = Images /\ secret # "password_only"
    => PodsRun /\ secret = "synced"

\* Whatever failed or was interrupted before, once nothing fails any more the
\* script gets to its end, with everything deployed (run_all).
RerunRecovers ==
    calm ~> /\ ended = [cmd |-> "all", how |-> "done"]
            /\ Reachable /\ cluster.apps /\ cloud.images = Images

\* "Idempotent. Safe to re-run." (RUNME.py:876): reconcile keeps the keys of
\* the application's secret.
ReconcileKeepsSecret ==
    [][run.cmd # "none" /\ run.phase = "reconcile" /\ secret \in {"terraform", "synced"}
          => secret' # "password_only"]_vars
=============================================================================
