------------------------------- MODULE Cluster -------------------------------
(* The Kubernetes cluster the end-to-end harness talks to, as far as          *)
(* src/e2e-tests uses it (the API server, the deployment controller and the   *)
(* kubelet are no code of this repository): one deployment, its pods, a       *)
(* status that lags behind them, and the config maps and secrets that a pod   *)
(* reads once, when it is created.                                            *)
EXTENDS Integers, Sequences, FiniteSets, SequencesExt

CONSTANTS
  MaxPods,     \* bound: pods that exist at one moment, the ending ones included
  PodStates,   \* what the kubelet may report of a pod
  Starting     \* the state of a new pod

VARIABLES
  deployment,  \* exists, replicas, template
  status,      \* what the controller last wrote: the number of pods that serve
  pods,        \* the pods in the order they were created
  store        \* contents of the config maps and secrets now

clusterVars == <<deployment, status, pods, store>>

PodState == [available : BOOLEAN, phase : STRING, conditions : Seq([type : STRING,
             true : BOOLEAN, reason : STRING]), containers : SUBSET STRING]
ASSUME PodStatesAssumption == PodStates \subseteq PodState /\ Starting \in PodStates

\* What a cluster may hold, of templates and contents of some kind; of a pod that is
\* ending only its state still matters.
PodOf(Templates, Stores) ==
  [template : Templates, reads : Stores, state : PodStates, ending : {FALSE}]
    \cup [state : PodStates, ending : {TRUE}]
ClusterOf(Templates, Stores) ==
  /\ deployment \in [exists : BOOLEAN, replicas : Nat, template : Templates]
  /\ status \in [available : Nat]
  /\ pods \in Seq(PodOf(Templates, Stores))
  /\ store \in Stores

\* Pods without a deletionTimestamp, those of the present template, those that serve.
Active == {p \in DOMAIN pods : ~ pods[p].ending}
Updated == {p \in Active : pods[p].template = deployment.template}
Available == {p \in Active : pods[p].state.available}

Serve(n) == [available |-> n]
NoStatus == Serve(0)
Absent(template) == [exists |-> FALSE, replicas |-> 0, template |-> template]

------------------------------------------------------------------------------
\* The controller creates the pods that are missing; a new pod reads the store.
CreatePod ==
  /\ deployment.exists
  /\ Cardinality(Updated) < deployment.replicas
  /\ Len(pods) < MaxPods
  /\ pods' = Append(pods, [template |-> deployment.template, reads |-> store,
                           state |-> Starting, ending |-> FALSE])
  /\ UNCHANGED <<deployment, status, store>>

\* The controller ends pods beyond the wanted number, and those of an older
\* template once a pod of the present one serves.
EndPod ==
  /\ \E p \in Active :
       /\ \/ Cardinality(Active) > deployment.replicas /\ deployment.replicas = 0
          \/ p \notin Updated /\ Updated \cap Available # {}
          \/ Cardinality(Updated) > deployment.replicas /\ p \in Updated
       /\ pods' = [pods EXCEPT ![p] = [state |-> @.state, ending |-> TRUE]]
  /\ UNCHANGED <<deployment, status, store>>

PodGone ==
  /\ \E p \in DOMAIN pods \ Active : pods' = RemoveAt(pods, p)
  /\ UNCHANGED <<deployment, status, store>>

\* A pod that was scheduled becomes ready, fails, or loses its readiness.
PodMoves ==
  /\ \E p \in Active : \E s \in PodStates \ {Starting, pods[p].state} :
       pods' = [pods EXCEPT ![p] = [@ EXCEPT !.state = s]]
  /\ UNCHANGED <<deployment, status, store>>

\* The controller writes the status, some time after what it describes.
WriteStatus ==
  /\ status' = IF deployment.exists THEN Serve(Cardinality(Available)) ELSE NoStatus
  /\ status' # status
  /\ UNCHANGED <<deployment, pods, store>>

ClusterSteps == CreatePod \/ EndPod \/ PodGone \/ PodMoves \/ WriteStatus
==============================================================================
