---------------------------- MODULE RuntimeHarness ----------------------------
(* The showcase-runtime project of the end-to-end tests: three test files run *)
(* one after the other against one deployment, each changing what its pods    *)
(* read and restarting it.  A failed file is retried in a new worker process, *)
(* which knows nothing of the old one.                                        *)
EXTENDS DeploymentRestart, PortForward

CONSTANTS
  Retries,          \* bound: retries of a failed file
  RestartAttempts,  \* restartDeploymentWithRetry's maxAttempts
  Titles            \* the titles the config-map test writes

VARIABLES
  run,      \* the file, its step, its retry, the attempts of the restart it waits for
  worker,   \* the worker process: deployed, and the admin password it found
  given     \* the job: install method, external database or not, TLS of the internal one

harnessVars == <<run, worker, given>>
runtimeVars == <<clusterVars, restart, forwardVars, harnessVars>>

Template == [vars : {"none", "psql", "cred"}, db : BOOLEAN]
Contents ==
  [title : {""} \cup Titles, database : {"internal", "external", "schema"},
   psql : {"admin", "schema"}, cred : {"tmp", "external"}]

NextFile(f) == IF f = "configMap" THEN "external" ELSE IF f = "external" THEN "schema" ELSE "done"

\* The environment of the backend container: the secret the shared POSTGRES_*
\* variables come from, and whether POSTGRES_DB is there.
ChartTemplate == [vars |-> "none", db |-> FALSE]
\* resolveConfig and the generated values: internal database, first title.
ChartStore == [title |-> "", database |-> "internal", psql |-> "admin", cred |-> "tmp"]
Fresh == [exists |-> TRUE, replicas |-> 1, template |-> ChartTemplate]
NewWorker == [deployed |-> FALSE, admin |-> ""]

Goto(step) == run' = [run EXCEPT !.step = step, !.attempt = 0]
GotoFile(f) == run' = [file |-> f, step |-> "begin", retry |-> 0, attempt |-> 0]
InFile(file, step) == run.file = file /\ run.step = step

\* A test fails: the worker ends, the file starts again or is given up.
FileFails ==
  /\ run' = IF run.retry < Retries
              THEN [run EXCEPT !.step = "begin", !.retry = @ + 1, !.attempt = 0]
              ELSE [file |-> NextFile(run.file), step |-> "begin", retry |-> 0, attempt |-> 0]
  /\ worker' = NewWorker
  /\ session' = NoSession /\ restarter' = FALSE /\ connection' = NoConnection

\* A job begins on an empty cluster, or on what other jobs with or without an external
\* database have left.
RuntimeInit ==
  /\ ClusterOf(Template, Contents)
  /\ given \in [operator : BOOLEAN, external : BOOLEAN, tls : BOOLEAN]
  /\ ~ given.external => deployment.template.vars # "cred"
  /\ run \in {[file |-> f, step |-> "begin", retry |-> 0, attempt |-> 0] :
               f \in {"configMap", "external", "schema"}}
  /\ worker = NewWorker
  /\ session = NoSession /\ restarter = FALSE /\ connection = NoConnection
  /\ restart = Idle

------------------------------------------------------------------------------
\* configureSchemaMode takes the first password it can read, of the database's
\* secret or else of postgres-cred; what it cannot read it passes over.
AdminPasswords == {IF store.psql = "admin" THEN "admin" ELSE "wrong", "wrong", ""}
ConfigureSchemaMode(w) ==
  IF w.admin # "" THEN worker' = w
  ELSE \E password \in AdminPasswords : worker' = [w EXCEPT !.admin = password]

\* ensureRuntimeDeployed: known to this process, found running, or made anew.
EnsureDeployed ==
  /\ run.file \in {"configMap", "external"} /\ run.step = "begin"
  /\ \/ /\ worker.deployed
        /\ Goto("write") /\ UNCHANGED <<worker, clusterVars>>
     \/ /\ ~ worker.deployed /\ status.available >= 1
        /\ Goto("write") /\ ConfigureSchemaMode([worker EXCEPT !.deployed = TRUE])
        /\ UNCHANGED clusterVars
     \/ /\ ~ worker.deployed
        /\ Goto("deploying")
        /\ deployment' = Fresh /\ status' = NoStatus /\ pods' = <<>>
        /\ store' = ChartStore
        /\ UNCHANGED worker
  /\ UNCHANGED <<given, restart, forwardVars>>

\* helm --wait, or the wait for the operator's deployment.
Deployed ==
  /\ run.step = "deploying" /\ ReportsReplicas(1)
  /\ Goto("write") /\ ConfigureSchemaMode([worker EXCEPT !.deployed = TRUE])
  /\ UNCHANGED <<given, restart, forwardVars, clusterVars>>

DeployFails ==
  /\ run.step = "deploying"
  /\ FileFails
  /\ UNCHANGED <<given, restart, clusterVars>>

------------------------------------------------------------------------------
\* The writes of the files, one API call each.
Write(newStore, newDeployment, step) ==
  /\ store' = newStore /\ deployment' = newDeployment
  /\ Goto(step)
  /\ UNCHANGED <<status, pods, restart, forwardVars, worker, given>>

WriteFails ==
  /\ \/ run.file \in {"configMap", "external"} /\ run.step \in {"write", "config", "env", "clear", "cred"}
     \/ run.file = "schema" /\ run.step = "verify"
  /\ FileFails
  /\ UNCHANGED <<clusterVars, restart, given>>

\* Variables of the database's own secret go, by the end of the secret's name;
\* those of another secret replace what has their names.
WithoutSchemaVars == [deployment EXCEPT !.template = IF @.vars = "psql" THEN ChartTemplate ELSE [@ EXCEPT !.db = FALSE]]
WithVars(vars) == [deployment EXCEPT !.template = [@ EXCEPT !.vars = vars]]

UpdateConfigMapTitle ==
  /\ InFile("configMap", "write")
  /\ \E title \in Titles \ {store.title} : Write([store EXCEPT !.title = title], deployment, "restart")

SkipExternal ==
  /\ InFile("external", "write") /\ ~ given.external
  /\ GotoFile("schema")
  /\ UNCHANGED <<clusterVars, restart, forwardVars, worker, given>>

\* prepareForExternalDatabase: the schema tests' variables go, the configuration
\* names the variables, and those of postgres-cred are added; POSTGRES_DB is none
\* of them.
RemoveSchemaModeVars ==
  /\ InFile("external", "write") /\ given.external
  /\ Write(store, WithoutSchemaVars, "config")

PatchAppConfigForExternal ==
  /\ InFile("external", "config")
  /\ Write([store EXCEPT !.database = "external"], deployment, "env")

AddPostgresCredVars ==
  /\ InFile("external", "env")
  /\ Write(store, WithVars("cred"), "clear")

\* The databases on the external server go, those that resist stay.
ClearDatabase ==
  /\ InFile("external", "clear")
  /\ Write(store, deployment, "cred")

ConfigurePostgresCredentials ==
  /\ InFile("external", "cred")
  /\ Write([store EXCEPT !.cred = "external"], deployment, "restart")

------------------------------------------------------------------------------
\* The schema-mode file.
Passes(step) == Goto(step) /\ UNCHANGED <<clusterVars, restart, given>>

\* An error of its setup skips the tests and leaves the forward as it is.
SetupFails == GotoFile("done") /\ UNCHANGED <<clusterVars, restart, given>>

ReadSchemaModeEnv ==
  /\ InFile("schema", "begin")
  /\ ConfigureSchemaMode(worker)
  /\ IF worker'.admin = "" THEN SetupFails ELSE Passes("forward")
  /\ UNCHANGED forwardVars

StartForward ==
  /\ InFile("schema", "forward")
  /\ session' \in Started(session)
  /\ Passes("forwarding")
  /\ UNCHANGED <<restarter, connection, worker>>

Forwarding ==
  /\ InFile("schema", "forwarding")
  /\ \/ /\ session.at = "idle"
        /\ restarter' = TRUE /\ connection' = [NoConnection EXCEPT !.at = "first"]
        /\ Passes("admin") /\ UNCHANGED <<session, worker>>
     \/ session.at = "failed" /\ FileFails /\ UNCHANGED <<clusterVars, restart, given>>

\* The administrator's connection (made again, in the same way, to the database
\* it created) and the test user's own.
Server == [tls |-> given.tls, passwords |-> IF run.step = "user" THEN {"schema"} ELSE {"admin"}]
Password == IF run.step = "user" THEN "schema" ELSE worker.admin

\* The cluster's steps while a connection is made are left to the next wait, and
\* a forward that breaks off later to the next use of it.
Connecting == run.step \in {"forward", "forwarding", "admin", "user", "stopping"}

Connect ==
  /\ Connecting
  /\ ConnectFirst(Server, Password) \/ ConnectAgain(Server, Password) \/ ForwardSteps
  /\ UNCHANGED <<clusterVars, restart, harnessVars>>

Connected ==
  /\ run.file = "schema" /\ connection.at \in {"open", "failed"}
  /\ connection' = IF connection.at = "open" /\ run.step # "user"
                     THEN [NoConnection EXCEPT !.at = "first"] ELSE NoConnection
  /\ \/ /\ connection.at = "open"
        /\ Passes(IF run.step = "admin" THEN "user" ELSE "secret")
     \/ SetupFails
  /\ UNCHANGED <<session, restarter, worker>>

UpdateSecret ==
  /\ InFile("schema", "secret")
  /\ Write([store EXCEPT !.psql = "schema"], deployment, IF given.operator THEN "config" ELSE "env")

\* Broken: the variables are left as they are.
NoDeploymentEnvVars ==
  /\ InFile("schema", "env")
  /\ Write(store, deployment, "config")

\* ensureDeploymentEnvVars adds the variables that are missing, by name.
EnsureDeploymentEnvVars ==
  /\ InFile("schema", "env")
  /\ Write(store, [deployment EXCEPT !.template =
                     [vars |-> IF @.vars = "none" THEN "psql" ELSE @.vars, db |-> TRUE]], "config")

UpdateAppConfigForSchemaMode ==
  /\ InFile("schema", "config")
  /\ Write([store EXCEPT !.database = "schema"], deployment, "restart")

ConfigureFails ==
  /\ run.file = "schema" /\ run.step \in {"secret", "env", "config"}
  /\ SetupFails
  /\ UNCHANGED <<forwardVars, worker>>

------------------------------------------------------------------------------
BeginRestart ==
  /\ run.step = "restart" /\ restart.at = "idle"
  /\ restart' = At("scaleDown")
  /\ run' = [run EXCEPT !.attempt = @ + 1]
  /\ UNCHANGED <<clusterVars, forwardVars, worker, given>>

\* Another attempt: three in the schema file, in the others while a window of
\* ninety seconds lasts (at most RestartAttempts here).
RestartAgain ==
  /\ run.step = "restart" /\ restart.at = "failed" /\ run.attempt < RestartAttempts
  /\ restart' = Idle
  /\ UNCHANGED <<clusterVars, forwardVars, harnessVars>>

RestartGivenUp ==
  /\ run.step = "restart" /\ restart.at = "failed"
  /\ run.file = "schema" => run.attempt = RestartAttempts
  /\ restart' = Idle
  /\ IF run.file = "schema" THEN GotoFile("done") /\ UNCHANGED <<forwardVars, worker>>
     ELSE FileFails
  /\ UNCHANGED <<clusterVars, given>>

RestartReturned ==
  /\ run.step = "restart" /\ restart.at = "returned"
  /\ restart' = Idle
  /\ IF run.file = "schema" THEN Goto("verify") ELSE GotoFile(NextFile(run.file))
  /\ UNCHANGED <<clusterVars, forwardVars, worker, given>>

\* The tests of the schema file passed: its afterAll stops the forward.
StopForward ==
  /\ InFile("schema", "verify") /\ session.at = "idle"
  /\ session' = Stopped(session, "idle", "stopping") /\ restarter' = FALSE
  /\ Goto("stopping")
  /\ UNCHANGED <<clusterVars, restart, connection, worker, given>>

ForwardStopped ==
  /\ InFile("schema", "stopping") /\ session.at = "idle"
  /\ GotoFile("done")
  /\ UNCHANGED <<clusterVars, restart, forwardVars, worker, given>>

\* The stop of a child that never ran waits for an exit that does not come:
\* the timeout of the test or hook ends it.
TestTimesOut ==
  /\ session.stopped = "unspawned"
  /\ FileFails
  /\ UNCHANGED <<clusterVars, restart, given>>

FileSteps ==
  \/ EnsureDeployed \/ Deployed \/ DeployFails \/ WriteFails
  \/ UpdateConfigMapTitle \/ SkipExternal \/ RemoveSchemaModeVars \/ PatchAppConfigForExternal
  \/ AddPostgresCredVars \/ ClearDatabase \/ ConfigurePostgresCredentials
  \/ ReadSchemaModeEnv \/ StartForward \/ Forwarding \/ Connect \/ Connected
  \/ UpdateSecret \/ EnsureDeploymentEnvVars \/ UpdateAppConfigForSchemaMode \/ ConfigureFails
  \/ BeginRestart \/ RestartAgain \/ RestartGivenUp \/ RestartReturned
  \/ StopForward \/ ForwardStopped \/ TestTimesOut

HarnessSteps == FileSteps \/ (RestartSteps /\ UNCHANGED <<forwardVars, harnessVars>>)

\* The operator puts back what the custom resource says of the deployment, all of it or
\* a part: one replica, none of the tests' variables.
OperatorReconciles ==
  /\ given.operator /\ deployment.exists
  /\ \E replicas \in {deployment.replicas, 1}, template \in {deployment.template, ChartTemplate} :
       deployment' = [deployment EXCEPT !.replicas = replicas, !.template = template]
  /\ deployment' # deployment
  /\ UNCHANGED <<status, pods, store>>

OtherSteps ==
  /\ ~ Connecting /\ run.file # "done"
  /\ ClusterSteps \/ OperatorReconciles
  /\ UNCHANGED <<restart, forwardVars, harnessVars>>

RuntimeNext == HarnessSteps \/ OtherSteps
RuntimeSpec == RuntimeInit /\ [][RuntimeNext]_runtimeVars

------------------------------------------------------------------------------
\* What a pod connects to, of what it read when it was created.  The operator
\* gives its pods the whole secret of the database; variables come first.
Credentials(pod) ==
  LET vars == pod.template.vars
  IN IF vars = "psql" \/ (vars = "none" /\ given.operator) THEN pod.reads.psql
     ELSE IF vars = "cred" THEN pod.reads.cred ELSE "none"

\* When a restart returns, the pods there are run what was written before it:
\* none was left over from before the deployment was scaled to zero.  The template
\* is the deployment's where no operator changes it meanwhile.
PodsRunWhatWasWritten ==
  restart.at = "returned" =>
    \A p \in Active : /\ pods[p].reads = store
                     /\ (given.operator \/ pods[p].template = deployment.template)

\* Where no external database was configured, the pods that the schema tests
\* look at divide one database by schemas and connect as the restricted user.
SchemaPodsUseSchemaUser ==
  (run.step = "verify" /\ ~ given.external) =>
    \A p \in Active : pods[p].reads.database = "schema" /\ Credentials(pods[p]) = "schema"

\* A process has at most one forward running, the one its session knows.
OneForward == ~ (session.child \in Alive /\ session.stopped \in Alive)

==============================================================================
