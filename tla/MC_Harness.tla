------------------------------ MODULE MC_Harness ------------------------------
EXTENDS RuntimeHarness, AuthHarness

Report(available, phase, conditions, containers) ==
  [available |-> available, phase |-> phase, conditions |-> conditions, containers |-> containers]
Condition(type, reason) == [type |-> type, true |-> FALSE, reason |-> reason]
MCStarting == Report(FALSE, "Pending", <<Condition("PodScheduled", "persistentvolumeclaim")>>,
                     {"ContainerCreating"})
Running == Report(TRUE, "Running", <<>>, {"running"})
MCPodStates ==
  {MCStarting, Running,
   Report(FALSE, "Running", <<Condition("Ready", "ContainersNotReady")>>, {"CrashLoopBackOff"})}

Serving(d, s) ==
  <<[template |-> d.template, reads |-> s, state |-> Running, ending |-> FALSE]>>
SchemaStore == [ChartStore EXCEPT !.database = "schema", !.psql = "schema"]
SchemaDeployment == [Fresh EXCEPT !.template = [vars |-> "psql", db |-> TRUE]]
Job(method, database, tls) ==
  [operator |-> method = "operator", external |-> database = "external", tls |-> tls]

NoCluster(template, contents) ==
  deployment = Absent(template) /\ pods = <<>> /\ store = contents /\ status = NoStatus

DeploymentOf(d, contents) ==
  deployment = d /\ store = contents /\ pods = Serving(d, contents) /\ status = Serve(1)

\* The runtime project: on an empty cluster, with an external database on what
\* the config-map test left, or on a cluster where it ran before.
RuntimeStates ==
  /\ \/ given = Job("operator", "internal", TRUE) /\ NoCluster(ChartTemplate, ChartStore)
     \/ given = Job("helm", "external", FALSE) /\ DeploymentOf(Fresh, ChartStore)
     \/ given = Job("helm", "internal", FALSE) /\ DeploymentOf(SchemaDeployment, SchemaStore)
  /\ run = [file |-> IF given.external THEN "external" ELSE "configMap",
            step |-> "begin", retry |-> 0, attempt |-> 0]
  /\ suite = NoSuite

\* One suite of an auth provider, where no suite ran or after one: then a deployment, or
\* the answers of a server that is going down, may be left.
AuthStates ==
  /\ given = Job("operator", "internal", TRUE)
  /\ run = [file |-> "done", step |-> "begin", retry |-> 0, attempt |-> 0]
  /\ suite \in {Suite(local) : local \in BOOLEAN}
  /\ \/ NoCluster(Config(0, 0), Config(0, 0)) /\ instance = NoInstance
     \/ /\ DeploymentOf([Fresh EXCEPT !.template = Config(1, 1)], Config(1, 1))
        /\ instance = [NoInstance EXCEPT !.files = Config(2, 1), !.site = {Config(1, 1)}]

Init ==
  /\ (RuntimeStates /\ instance = NoInstance) \/ AuthStates
  /\ restart = Idle /\ worker = NewWorker
  /\ session = NoSession /\ restarter = FALSE /\ connection = NoConnection
  /\ memory = Config(0, 0)
  /\ run.file # "done" => RuntimeInit
  /\ suite.at # "done" => AuthInit

vars == <<runtimeVars, authVars>>
RunnerSteps ==
  \/ HarnessSteps /\ UNCHANGED authVars
  \/ SuiteSteps /\ UNCHANGED <<restart, forwardVars, harnessVars>>
Next ==
  \/ RuntimeNext /\ UNCHANGED authVars
  \/ AuthNext /\ UNCHANGED <<restart, forwardVars, harnessVars>>
\* The test runner goes on and deadlines pass; the cluster, the operator and the
\* server may stop, or never settle.
Spec ==
  /\ Init /\ [][Next]_vars
  /\ WF_vars(RunnerSteps)
  /\ WF_vars(CallFails /\ UNCHANGED <<restart, forwardVars, harnessVars>>)

\* The suites of the auth providers on their own.
SuiteSpec == AuthStates /\ Spec

\* Every run of the files and every suite ends, whatever the cluster, the
\* operator and the local server do.
TestsEnd == <>(run.file = "done" /\ suite.at = "done")
==============================================================================
