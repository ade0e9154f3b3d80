-------------------------- MODULE DeploymentRestart --------------------------
(* The restart of a deployment by the harness's Kubernetes client             *)
(* (src/e2e-tests/playwright/utils/kube-client): scale to zero, wait, scale   *)
(* to one, wait.  A call runs between steps of the cluster; each wait is a    *)
(* poll with a deadline that an observer cannot tell from a slow cluster.     *)
EXTENDS Cluster

CONSTANT ScaleTries  \* scaleDeploymentImpl's maxRetries

VARIABLE restart     \* the running call: where it is, and the failed tries of a scale

ReadyErrorReasons == {"Unhealthy", "ReadinessGatesNotReady", "PodHasNoResources"}
ContainerFailures ==
  {"CrashLoopBackOff", "ImagePullBackOff", "ErrImagePull", "InvalidImageName",
   "CreateContainerConfigError", "CreateContainerError", "ErrImageNeverPull",
   "RegistryUnavailable", "exit 1"}

TransientScheduling(c) == c.reason \in {"ephemeral volume", "persistentvolumeclaim"}

\* Conditions are looked at in order; one about scheduling ends the search.
ConditionFails(conditions) ==
  LET telling(c) == /\ ~ c.true
                    /\ \/ c.type = "PodScheduled"
                       \/ c.type = "Ready" /\ c.reason \in ReadyErrorReasons
      found == {i \in DOMAIN conditions : telling(conditions[i])}
  IN \E i \in found : /\ \A j \in found : i <= j
                      /\ ~ (conditions[i].type = "PodScheduled"
                              /\ TransientScheduling(conditions[i]))

PodFails(state) ==
  \/ state.phase = "Failed"
  \/ ConditionFails(state.conditions)
  \/ state.containers \cap ContainerFailures # {}

\* Pods that are ending are looked at too.
FailureSeen == \E p \in DOMAIN pods : PodFails(pods[p].state)

------------------------------------------------------------------------------
Idle == [at |-> "idle", tries |-> 0]
At(step) == [at |-> step, tries |-> 0]

\* Where a restart fails, it leaves the deployment as it is.
Raise == restart' = At("failed")

\* The API server answers 404, 503 or 429 (tried again) or another error.
Scale(from, replicas, next) ==
  /\ restart.at = from
  /\ \/ /\ deployment.exists
        /\ deployment' = [deployment EXCEPT !.replicas = replicas]
        /\ restart' = At(next)
     \/ /\ IF restart.tries + 1 < ScaleTries
             THEN restart' = [restart EXCEPT !.tries = @ + 1]
             ELSE Raise
        /\ UNCHANGED deployment
     \/ Raise /\ UNCHANGED deployment
  /\ UNCHANGED <<status, pods, store>>

ScaleDown == Scale("scaleDown", 0, "waitDown")
ScaleUp == Scale("scaleUp", 1, "waitUp")

\* checkDeploymentReplicaStatus looks at the available replicas only.
ReportsReplicas(n) == status.available = n

WaitDown ==
  /\ restart.at = "waitDown" /\ ReportsReplicas(0)
  /\ restart' = At("waitGone")
  /\ UNCHANGED clusterVars

\* Broken: the pods of before are not waited for.
PodsAsTheyAre == TRUE
PodsTerminated == Active = {}

WaitGone ==
  /\ restart.at = "waitGone" /\ PodsTerminated
  /\ restart' = At("scaleUp")
  /\ UNCHANGED clusterVars

\* A failure to list the pods counts as no failing pod.
WaitUp ==
  /\ restart.at = "waitUp" /\ ReportsReplicas(1)
  /\ restart' = At("returned")
  /\ UNCHANGED clusterVars

SeePodFailure ==
  /\ restart.at = "waitUp" /\ FailureSeen
  /\ Raise
  /\ UNCHANGED clusterVars

\* Broken: the wait for the pods to end has no deadline.
SomeWaitGivesUp ==
  /\ restart.at \in {"waitDown", "waitUp"}
  /\ Raise
  /\ UNCHANGED clusterVars

\* The deadline of a wait, or an error where the poll does not catch it (the
\* selector before the poll, the list of pods in waitForPodsTerminated).
WaitGivesUp ==
  /\ restart.at \in {"waitDown", "waitGone", "waitUp"}
  /\ Raise
  /\ UNCHANGED clusterVars

RestartSteps ==
  ScaleDown \/ WaitDown \/ WaitGone \/ ScaleUp \/ WaitUp \/ SeePodFailure \/ WaitGivesUp

==============================================================================
