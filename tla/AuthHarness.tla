----------------------------- MODULE AuthHarness -----------------------------
(* The test suites of the auth providers: an instance set up for one provider *)
(* (support/fixtures/auth-provider-harness.ts and                             *)
(* utils/authentication-providers/rhdh-deployment), and before each test case *)
(* a change of its configuration.  Locally the harness kills the server's     *)
(* process group and starts another.  Remotely the RHDH operator would roll   *)
(* the deployment, but no suite gets that far: updateAllConfigs reads the     *)
(* generation of a deployment that prepareProvider is yet to create.          *)
EXTENDS Cluster

CONSTANT Cases  \* bound: test cases that change the configuration
ASSUME CasesAssumption == Cases \in Nat

VARIABLES
  suite,     \* its step, local or not, still preparing, whether a call failed, the cases left
  memory,    \* the configuration in memory: versions of the app config and of the plugin list
  instance   \* locally: the files, the server's process, and what answers at its address

authVars == <<suite, memory, instance>>

Config(app, plugins) == [app |-> app, plugins |-> plugins]
Configs == [app : Nat, plugins : Nat]

NoInstance == [files |-> Config(0, 0), child |-> "none", site |-> {}]
Suite(local) ==
  [at |-> "load", local |-> local, preparing |-> TRUE, failed |-> FALSE, left |-> Cases]
NoSuite == [Suite(TRUE) EXCEPT !.at = "done"]

\* A suite begins on any cluster, with the files of an earlier one and what may still
\* answer of its server, and with no server of its own.
AuthInit ==
  /\ ClusterOf(Configs, Configs)
  /\ suite \in {Suite(local) : local \in BOOLEAN}
  /\ memory = Config(0, 0)
  /\ instance \in [files : Configs, child : {"none"}, site : SUBSET Configs]

SuiteAt(step) == suite.at = step
Step(step) == suite' = [suite EXCEPT !.at = step]
\* beforeAll or a test fails: what is left of the suite is its afterAll.
SuiteFails == Step("cleanup")

------------------------------------------------------------------------------
\* Changes of the configuration in memory: a property of the app config, a plugin of the
\* list.
setConfigProperty(config) == [config EXCEPT !.app = @ + 1]
setDynamicPluginEnabled(config) == [config EXCEPT !.plugins = @ + 1]

\* The old namespace goes with all it holds, and its end is waited for.
NewNamespace(contents) ==
  /\ deployment' = Absent(contents) /\ status' = NoStatus
  /\ pods' = <<>> /\ store' = contents

\* The configuration of the repository's files.
LoadAllConfigs ==
  /\ SuiteAt("load")
  /\ memory' = Config(0, 0)
  /\ Step("provision")
  /\ UNCHANGED <<instance, clusterVars>>

\* A new namespace that holds it; locally the files of the server do.
ProvisionNamespace ==
  /\ SuiteAt("provision")
  /\ IF suite.local
       THEN instance' = [instance EXCEPT !.files = memory] /\ UNCHANGED clusterVars
       ELSE NewNamespace(memory) /\ UNCHANGED instance
  /\ Step("secrets")
  /\ UNCHANGED memory

\* The secrets of the provider never change.
AddSecretData ==
  /\ SuiteAt("secrets")
  /\ Step("enable")
  /\ UNCHANGED <<memory, instance, clusterVars>>

\* A provider's sections, and the plugin that ingests its users.
EnableLoginWithIngestion(config) == setConfigProperty(setDynamicPluginEnabled(config))

EnableProvider ==
  /\ SuiteAt("enable")
  /\ memory' = EnableLoginWithIngestion(memory)
  /\ Step("update")
  /\ UNCHANGED <<instance, clusterVars>>

\* A resolver, the duration of sessions, another provider: properties of the app config.
SetAppConfigProperty ==
  /\ SuiteAt("configure")
  /\ memory' = setConfigProperty(memory)
  /\ Step("update")
  /\ UNCHANGED <<instance, clusterVars>>

\* The generation of the deployment is read before anything is written; of a
\* deployment that is not there it cannot be.
GenerationRead == suite.local \/ deployment.exists

UpdateAllConfigs ==
  /\ SuiteAt("update")
  /\ IF GenerationRead THEN Step("app") ELSE SuiteFails
  /\ UNCHANGED <<memory, instance, clusterVars>>

Persist(config) ==
  /\ IF suite.local
       THEN instance' = [instance EXCEPT !.files = config] /\ UNCHANGED store
       ELSE store' = config /\ UNCHANGED instance
  /\ UNCHANGED <<memory, deployment, status, pods>>

Persisted == IF suite.local THEN instance.files ELSE store

UpdateAppConfig ==
  /\ SuiteAt("app")
  /\ Persist([Persisted EXCEPT !.app = memory.app])
  /\ Step("plugins")

\* The policy of RBAC, written last, never changes.
UpdateDynamicPluginsConfig ==
  /\ SuiteAt("plugins")
  /\ Persist([Persisted EXCEPT !.plugins = memory.plugins])
  /\ Step(IF suite.preparing THEN "deploy" ELSE "restart")

------------------------------------------------------------------------------
\* From here on the steps are those of a local suite.  A server's process starts;
\* the waits for a deployment are skipped.
CreateBackstageDeployment ==
  /\ SuiteAt("deploy") /\ suite.local
  /\ instance' = [instance EXCEPT !.child = "starting"]
  /\ suite' = [suite EXCEPT !.preparing = FALSE, !.at = "synced"]
  /\ UNCHANGED <<memory, clusterVars>>

\* The commit of the users and groups appears in the output of the server that the
\* harness started.
WaitForSynced ==
  /\ SuiteAt("synced") /\ instance.child = "serving"
  /\ Step("login")
  /\ UNCHANGED <<memory, instance, clusterVars>>

\* No image is named for the custom resource, which is read locally as well; a file is
\* missing, a secret empty; the API refuses a call; the deadline of a wait passes.
CallFails ==
  /\ suite.at \in {"load", "provision", "secrets", "enable", "app", "plugins", "deploy",
                    "synced", "login"}
  /\ suite' = [suite EXCEPT !.at = "cleanup", !.failed = TRUE]
  /\ UNCHANGED <<memory, instance, clusterVars>>

RunLoginCase ==
  /\ SuiteAt("login")
  /\ IF suite.left > 0 THEN suite' = [suite EXCEPT !.at = "configure", !.left = @ - 1]
     ELSE Step("cleanup")
  /\ UNCHANGED <<memory, instance, clusterVars>>

\* kill() of a process group that is gone throws; the exit of the others is
\* awaited, and then that nothing answers at the address any more.
KillRunningProcess(killed, without) ==
  /\ \/ instance.child = "none" /\ Step(without) /\ UNCHANGED instance
     \/ /\ instance.child = "exited"
        /\ Step(IF SuiteAt("restart") THEN "cleanup" ELSE "done")
        /\ UNCHANGED instance
     \/ /\ instance.child \in {"starting", "serving"}
        /\ instance' = [instance EXCEPT !.child = "none"]
        /\ Step(killed)
  /\ UNCHANGED <<memory, clusterVars>>

\* Broken: the server that runs is left running.
ServerKept ==
  /\ SuiteAt("restart") /\ suite.local
  /\ Step("synced")
  /\ UNCHANGED <<memory, instance, clusterVars>>

RestartLocalDeployment ==
  SuiteAt("restart") /\ suite.local /\ KillRunningProcess("down", "deploy")

HomepageDown ==
  /\ suite.at \in {"down", "last down"}
  /\ \/ instance.site = {} /\ Step(IF SuiteAt("down") THEN "deploy" ELSE "done")
     \/ Step(IF SuiteAt("down") THEN "cleanup" ELSE "done")
  /\ UNCHANGED <<memory, instance, clusterVars>>

Cleanup == SuiteAt("cleanup") /\ KillRunningProcess("last down", "done")

SuiteSteps ==
  \/ LoadAllConfigs \/ ProvisionNamespace \/ AddSecretData \/ EnableProvider
  \/ SetAppConfigProperty \/ UpdateAllConfigs \/ UpdateAppConfig
  \/ UpdateDynamicPluginsConfig \/ CreateBackstageDeployment \/ WaitForSynced
  \/ CallFails \/ RunLoginCase
  \/ RestartLocalDeployment \/ HomepageDown \/ Cleanup

------------------------------------------------------------------------------
\* The local server reads its files when it starts, needs the port to itself,
\* and may go down; one that was killed answers a little longer.
ServerMoves ==
  /\ \/ /\ instance.child = "starting" /\ instance.site = {}
        /\ instance' = [instance EXCEPT !.child = "serving", !.site = {instance.files}]
     \/ /\ instance.child \in {"starting", "serving"}
        /\ instance' = [instance EXCEPT !.child = "exited",
                          !.site = IF instance.child = "serving" THEN {} ELSE @]
     \/ /\ instance.child # "serving" /\ instance.site # {}
        /\ instance' = [instance EXCEPT !.site = {}]
  /\ UNCHANGED <<suite, memory, clusterVars>>

SuiteEnvironment ==
  /\ suite.at # "done"
  /\ \/ ~ suite.local /\ ClusterSteps /\ UNCHANGED authVars
     \/ suite.local /\ ServerMoves

AuthNext == SuiteSteps \/ SuiteEnvironment
AuthSpec == AuthInit /\ [][AuthNext]_<<clusterVars, authVars>>

------------------------------------------------------------------------------
\* A login meets a server that started after the last change of the configuration
\* and read all of it: none of before the restart answers any more.
LoginMeetsConfiguredInstance == SuiteAt("login") => instance.site \subseteq {memory}

\* A suite reaches a login unless a call of the file system, of the server or of the
\* API fails, on a cluster as well as locally (e2e/auth-providers/README.md).
SuiteReachesLogin == SuiteAt("load") ~> (SuiteAt("login") \/ suite.failed)

==============================================================================
