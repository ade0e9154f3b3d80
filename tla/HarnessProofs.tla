---------------------------- MODULE HarnessProofs ----------------------------
(***************************************************************************)
(* What the harness of the end-to-end tests can rely on: a restart leaves  *)
(* no pod that runs what was written before it, the schema tests look at   *)
(* the restricted user's pods, a process has one forward at most, a login  *)
(* of an auth suite meets a server that read the present configuration,    *)
(* and on a cluster no suite updates its configuration.                    *)
(***************************************************************************)
EXTENDS RuntimeHarness, AuthHarness, TLAPS, FiniteSetTheorems, SequenceTheorems

-----------------------------------------------------------------------------
(* The cluster: what a step of it may leave of the pods. *)

\* The pod was there before, apart from its state.
Remains(pod) ==
  \E p \in Active : pod.template = pods[p].template /\ pod.reads = pods[p].reads
\* The pod is made as the deployment is now.
Made(pod) ==
  /\ deployment.exists /\ deployment.replicas # 0
  /\ pod.template = deployment.template /\ pod.reads = store

\* An active pod has a template and the contents it read.
LEMMA ActivePod ==
  ASSUME NEW Templates, NEW Stores, pods \in Seq(PodOf(Templates, Stores)), NEW p \in Active
  PROVE  pods[p] \in [template : Templates, reads : Stores,
                      state : PodStates, ending : {FALSE}]
<1>1. p \in 1 .. Len(pods) /\ ~ pods[p].ending
  BY DEF Active
<1>2. pods[p] \in PodOf(Templates, Stores)
  BY <1>1
<1>3. ASSUME pods[p] \in [state : PodStates, ending : {TRUE}]
      PROVE  pods[p].ending = TRUE
  BY <1>3
<1> QED
  BY <1>1, <1>2, <1>3 DEF PodOf

\* A count of pods is a natural number.
LEMMA CountOfPods ==
  ASSUME NEW Templates, NEW Stores, pods \in Seq(PodOf(Templates, Stores)),
         NEW S \in SUBSET Active
  PROVE  Cardinality(S) \in Nat
<1>1. DOMAIN pods = 1 .. Len(pods) /\ Len(pods) \in Nat
  OBVIOUS
<1>2. IsFiniteSet(1 .. Len(pods))
  BY <1>1, FS_Interval
<1>3. S \subseteq 1 .. Len(pods)
  BY <1>1 DEF Active
<1>4. IsFiniteSet(S)
  BY <1>2, <1>3, FS_Subset
<1> QED
  BY <1>4, FS_CardinalityType

\* What is removed is removed, and the others keep their order.
LEMMA RemoveAtProperties ==
  ASSUME NEW S, NEW s \in Seq(S), NEW i \in 1 .. Len(s)
  PROVE  /\ RemoveAt(s, i) \in Seq(S)
         /\ \A q \in 1 .. Len(RemoveAt(s, i)) : \E p \in 1 .. Len(s) :
              p # i /\ RemoveAt(s, i)[q] = s[p]
<1> DEFINE a == SubSeq(s, 1, i - 1)
           b == SubSeq(s, i + 1, Len(s))
<1>1. /\ a \in Seq(S) /\ Len(a) = i - 1
      /\ \A q \in 1 .. Len(a) : a[q] = s[q]
  BY SubSeqProperties
<1>2. /\ b \in Seq(S) /\ Len(b) = Len(s) - i
      /\ \A q \in 1 .. Len(b) : b[q] = s[i + q]
  OBVIOUS
<1>3. RemoveAt(s, i) = a \o b
  BY DEF RemoveAt
<1> HIDE DEF a, b
<1>4. a \o b \in Seq(S) /\ Len(a \o b) = Len(s) - 1
  <2>1. a \o b \in Seq(S) /\ Len(a \o b) = Len(a) + Len(b)
    BY <1>1, <1>2, ConcatProperties
  <2>2. i \in Int /\ Len(s) \in Int
    OBVIOUS
  <2>3. (i - 1) + (Len(s) - i) = Len(s) - 1
    BY <2>2
  <2> QED
    BY <1>1, <1>2, <2>1, <2>3
<1>5. ASSUME NEW q \in 1 .. Len(a \o b)
      PROVE  \E p \in 1 .. Len(s) : p # i /\ (a \o b)[q] = s[p]
  <2>1. CASE q <= i - 1
    <3>1. (a \o b)[q] = s[q]
      BY <1>1, <1>2, <2>1, ConcatProperties
    <3> QED
      BY <2>1, <3>1, <1>4
  <2>2. CASE ~ (q <= i - 1)
    <3>1. q - (i - 1) \in 1 .. Len(b)
      BY <1>1, <1>2, <1>4, <2>2
    <3>2. (a \o b)[q] = b[q - (i - 1)]
      BY <1>1, <1>2, <1>4, <2>2
    <3>3. b[q - (i - 1)] = s[q + 1]
      BY <1>2, <3>1
    <3> QED
      BY <2>2, <3>2, <3>3, <1>4
  <2> QED
    BY <2>1, <2>2
<1> QED
  BY <1>3, <1>4, <1>5

\* The status apart, a step of the cluster changes the pods only: those that are active
\* afterwards were active before or are made as the deployment is.
LEMMA ClusterStepEffect ==
  ASSUME NEW Templates, NEW Stores, ClusterOf(Templates, Stores), ClusterSteps
  PROVE  /\ ClusterOf(Templates, Stores)'
         /\ deployment' = deployment /\ store' = store
         /\ status' = status \/ (WriteStatus /\ pods' = pods)
         /\ \A q \in Active' : Remains(pods'[q]) \/ Made(pods'[q])
<1> DEFINE P == PodOf(Templates, Stores)
<1>0. pods \in Seq(P) /\ deployment.template \in Templates /\ store \in Stores
      /\ deployment.replicas \in Nat
      /\ deployment \in [exists : BOOLEAN, replicas : Nat, template : Templates]
      /\ status \in [available : Nat]
  BY DEF ClusterOf
<1>1. CASE CreatePod
  <2> DEFINE new == [template |-> deployment.template, reads |-> store,
                     state |-> Starting, ending |-> FALSE]
  <2>1. new \in P /\ ~ new.ending
    BY <1>0, PodStatesAssumption DEF PodOf
  <2>2. /\ pods' = Append(pods, new) /\ deployment' = deployment /\ status' = status
        /\ store' = store /\ deployment.exists
    BY <1>1 DEF CreatePod
  <2>3. deployment.replicas # 0
    <3>1. Cardinality(Updated) \in Nat
      BY <1>0, CountOfPods DEF Updated
    <3> QED
      BY <1>0, <1>1, <3>1 DEF CreatePod
  <2>4. Made(new)
    BY <2>2, <2>3 DEF Made
  <2> HIDE DEF new, P
  <2>5. /\ pods' \in Seq(P) /\ Len(pods') = Len(pods) + 1
        /\ \A q \in 1 .. Len(pods) : pods'[q] = pods[q]
        /\ pods'[Len(pods) + 1] = new
    BY <1>0, <2>1, <2>2
  <2>6. ASSUME NEW q \in Active'
        PROVE  Remains(pods'[q]) \/ Made(pods'[q])
    <3>1. q \in 1 .. Len(pods) + 1 /\ ~ pods'[q].ending
      BY <2>5 DEF Active
    <3>2. CASE q = Len(pods) + 1
      BY <2>4, <2>5, <3>2
    <3>3. CASE q # Len(pods) + 1
      <4>1. q \in 1 .. Len(pods) /\ pods'[q] = pods[q]
        BY <1>0, <2>5, <3>1, <3>3
      <4>2. q \in Active
        BY <1>0, <3>1, <4>1 DEF Active
      <4> QED
        BY <4>1, <4>2 DEF Remains
    <3> QED
      BY <3>2, <3>3
  <2> QED
    BY <1>0, <2>2, <2>5, <2>6 DEF ClusterOf, P
<1>2. CASE EndPod
  <2>1. PICK p \in Active : pods' = [pods EXCEPT ![p] = [state |-> @.state, ending |-> TRUE]]
    BY <1>2 DEF EndPod
  <2>2. deployment' = deployment /\ status' = status /\ store' = store
    BY <1>2 DEF EndPod
  <2>3. pods[p].state \in PodStates
    BY <1>0, ActivePod
  <2>4. [state |-> pods[p].state, ending |-> TRUE] \in P
    BY <2>3 DEF PodOf
  <2> HIDE DEF P
  <2>5. /\ p \in 1 .. Len(pods) /\ pods' \in Seq(P) /\ Len(pods') = Len(pods)
        /\ pods'[p] = [state |-> pods[p].state, ending |-> TRUE]
        /\ \A q \in 1 .. Len(pods) : q # p => pods'[q] = pods[q]
    BY <1>0, <2>1, <2>4 DEF Active
  <2>6. ASSUME NEW q \in Active'
        PROVE  Remains(pods'[q])
    <3>1. q \in 1 .. Len(pods) /\ ~ pods'[q].ending
      BY <1>0, <2>5 DEF Active
    <3>2. q # p
      BY <2>5, <3>1
    <3>3. pods'[q] = pods[q] /\ q \in Active
      BY <1>0, <2>5, <3>1, <3>2 DEF Active
    <3> QED
      BY <3>3 DEF Remains
  <2> QED
    BY <1>0, <2>2, <2>5, <2>6 DEF ClusterOf, P
<1>3. CASE PodGone
  <2>1. PICK p \in DOMAIN pods \ Active : pods' = RemoveAt(pods, p)
    BY <1>3 DEF PodGone
  <2>2. deployment' = deployment /\ status' = status /\ store' = store
    BY <1>3 DEF PodGone
  <2> HIDE DEF P
  <2>3. /\ pods' \in Seq(P)
        /\ \A q \in 1 .. Len(pods') : \E o \in 1 .. Len(pods) : pods'[q] = pods[o]
    BY <1>0, <2>1, RemoveAtProperties
  <2>4. ASSUME NEW q \in Active'
        PROVE  Remains(pods'[q])
    <3>1. q \in 1 .. Len(pods') /\ ~ pods'[q].ending
      BY <2>3 DEF Active
    <3>2. PICK o \in 1 .. Len(pods) : pods'[q] = pods[o]
      BY <2>3, <3>1
    <3>3. o \in Active
      BY <1>0, <3>1, <3>2 DEF Active
    <3> QED
      BY <3>2, <3>3 DEF Remains
  <2> QED
    BY <1>0, <2>2, <2>3, <2>4 DEF ClusterOf, P
<1>4. CASE PodMoves
  <2>1. PICK p \in Active, s \in PodStates : pods' = [pods EXCEPT ![p] = [@ EXCEPT !.state = s]]
    BY <1>4 DEF PodMoves
  <2>2. deployment' = deployment /\ status' = status /\ store' = store
    BY <1>4 DEF PodMoves
  <2> DEFINE moved == [pods[p] EXCEPT !.state = s]
  <2>3. pods[p] \in [template : Templates, reads : Stores,
                     state : PodStates, ending : {FALSE}]
    BY <1>0, ActivePod
  <2>4. moved \in P /\ moved.template = pods[p].template /\ moved.reads = pods[p].reads
    BY <2>3 DEF PodOf
  <2>5. pods' = [pods EXCEPT ![p] = moved]
    BY <2>1
  <2> HIDE DEF P, moved
  <2>6. /\ p \in 1 .. Len(pods) /\ pods' \in Seq(P) /\ Len(pods') = Len(pods)
        /\ pods'[p] = moved
        /\ \A q \in 1 .. Len(pods) : q # p => pods'[q] = pods[q]
    BY <1>0, <2>4, <2>5 DEF Active
  <2>7. ASSUME NEW q \in Active'
        PROVE  Remains(pods'[q])
    <3>1. q \in 1 .. Len(pods) /\ ~ pods'[q].ending
      BY <1>0, <2>6 DEF Active
    <3>2. CASE q = p
      BY <2>4, <2>6, <3>2 DEF Remains
    <3>3. CASE q # p
      <4>1. pods'[q] = pods[q] /\ q \in Active
        BY <1>0, <2>6, <3>1, <3>3 DEF Active
      <4> QED
        BY <4>1 DEF Remains
    <3> QED
      BY <3>2, <3>3
  <2> QED
    BY <1>0, <2>2, <2>6, <2>7 DEF ClusterOf, P
<1>5. CASE WriteStatus
  <2>1. deployment' = deployment /\ pods' = pods /\ store' = store
    BY <1>5 DEF WriteStatus
  <2>2. Cardinality(Available) \in Nat
    BY <1>0, CountOfPods DEF Available
  <2>4. status' \in [available : Nat]
    BY <1>0, <1>5, <2>2 DEF WriteStatus, Serve, NoStatus
  <2>5. \A q \in Active' : Remains(pods'[q])
    BY <2>1 DEF Remains, Active
  <2> QED
    BY <1>0, <1>5, <2>1, <2>4, <2>5 DEF ClusterOf, PodOf
<1> QED
  BY <1>1, <1>2, <1>3, <1>4, <1>5 DEF ClusterSteps

-----------------------------------------------------------------------------
(* The runtime project. *)

Files == {"configMap", "external", "schema", "done"}
SetupSteps == {"forward", "forwarding", "admin", "user", "secret", "verify", "stopping"}
RunSteps ==
  SetupSteps \cup {"begin", "write", "deploying", "restart", "config", "env", "clear", "cred"}

Runs == [file : Files, step : RunSteps, retry : Nat, attempt : Nat]
Workers == [deployed : BOOLEAN, admin : {"", "admin", "wrong"}]
Jobs == [operator : BOOLEAN, external : BOOLEAN, tls : BOOLEAN]
Sessions ==
  [child : {"none", "unready", "ready", "unspawned", "exited"},
   stopped : {"none", "unready", "ready", "unspawned"},
   at : {"idle", "starting", "failed", "stopping", "restarting"}]
Connections ==
  [at : {"idle", "first", "trying", "between", "open", "failed"}, tls : BOOLEAN, try : Nat]
Restarts ==
  [at : {"idle", "scaleDown", "waitDown", "waitGone", "scaleUp", "waitUp", "returned", "failed"},
   tries : Nat]
Deployments == [exists : BOOLEAN, replicas : Nat, template : Template]

RuntimeTypeOK ==
  /\ ClusterOf(Template, Contents)
  /\ run \in Runs /\ worker \in Workers /\ given \in Jobs
  /\ session \in Sessions /\ restarter \in BOOLEAN /\ connection \in Connections
  /\ restart \in Restarts

\* A forward is started, stopped and connected through only while its file waits for that.
ForwardInv ==
  /\ session.stopped # "none" =>
       session.child = "none" /\ session.at \in {"stopping", "restarting"}
  /\ session.at # "idle" => connection.at = "between" \/ run.step \in {"forwarding", "stopping"}
  /\ connection.at # "idle" => run.step \in {"admin", "user"} \/ run.file = "done"
  /\ run.step \in SetupSteps => run.file = "schema"
  /\ run.file = "done" => run.step = "begin"

\* Every active pod has read what is stored and is of the present template, or of one the
\* operator put in its place, which without an external database asks for no postgres-cred.
FreshPods ==
  \A p \in Active : /\ pods[p].reads = store
                    /\ given.operator \/ pods[p].template = deployment.template
                    /\ given.external \/ ~ given.operator \/ pods[p].template.vars # "cred"

RestartInv ==
  /\ restart.at # "idle" => run.step = "restart"
  /\ restart.at \in {"scaleUp", "waitUp", "returned"} \/ run.step = "verify" => FreshPods

\* How far the schema file has got with the database's secret, the variables and the
\* configuration, in a job without an external database.
SchemaInv ==
  ~ given.external =>
    /\ run.file = "external" => run.step \notin {"config", "env", "clear", "cred"}
    /\ deployment.template.vars # "cred"
    /\ run.file = "schema" =>
         /\ run.step \in {"env", "config", "restart", "verify"} => store.psql = "schema"
         /\ run.step \in {"config", "restart", "verify"} =>
              deployment.template.vars = "psql" \/ given.operator
         /\ run.step \in {"restart", "verify"} => store.database = "schema"

RuntimeInv == RuntimeTypeOK /\ ForwardInv /\ RestartInv /\ SchemaInv


\* What the writes of the tests make of the deployment.
LEMMA WrittenDeployments ==
  ASSUME RuntimeTypeOK
  PROVE  /\ \A vars \in {"none", "psql", "cred"} :
              /\ WithVars(vars).template.vars = vars
              /\ WithVars(vars) \in [exists : BOOLEAN, replicas : Nat, template : Template]
         /\ WithoutSchemaVars \in [exists : BOOLEAN, replicas : Nat, template : Template]
         /\ WithoutSchemaVars.template.vars \in {deployment.template.vars, "none"}
<1> DEFINE t == deployment.template
<1>1. /\ deployment \in [exists : BOOLEAN, replicas : Nat, template : Template]
      /\ t \in Template
  BY DEF RuntimeTypeOK, ClusterOf
<1> HIDE DEF t
<1>2. ASSUME NEW vars \in {"none", "psql", "cred"}
      PROVE  [t EXCEPT !.vars = vars] \in Template /\ [t EXCEPT !.vars = vars].vars = vars
  BY <1>1 DEF Template
<1>3. /\ [t EXCEPT !.db = FALSE] \in Template /\ [t EXCEPT !.db = FALSE].vars = t.vars
      /\ ChartTemplate \in Template /\ ChartTemplate.vars = "none"
  BY <1>1 DEF Template, ChartTemplate
<1>4. \A vars : WithVars(vars) = [deployment EXCEPT !.template = [t EXCEPT !.vars = vars]]
  BY DEF WithVars, t
<1>5. WithoutSchemaVars = [deployment EXCEPT !.template =
                             IF t.vars = "psql" THEN ChartTemplate ELSE [t EXCEPT !.db = FALSE]]
  BY DEF WithoutSchemaVars, t
<1>6. \A u \in Template : /\ [deployment EXCEPT !.template = u].template = u
                          /\ [deployment EXCEPT !.template = u] \in
                               [exists : BOOLEAN, replicas : Nat, template : Template]
  BY <1>1
<1>7. t.vars = deployment.template.vars
  BY DEF t
<1> QED
  BY <1>2, <1>3, <1>4, <1>5, <1>6, <1>7

\* The predicates about the pods, where neither they nor what they are compared with change.
LEMMA SamePods ==
  ASSUME UNCHANGED <<pods, store, given>>, deployment'.template = deployment.template
  PROVE  Active' = Active /\ (FreshPods' <=> FreshPods)
BY DEF Active, FreshPods

\* Without active pods all of them are fresh.
LEMMA NoPods == Active = {} => FreshPods
BY DEF FreshPods

\* Every job begins with the invariant.
LEMMA RuntimeInvInit == RuntimeInit => RuntimeInv
<1> SUFFICES ASSUME RuntimeInit
             PROVE  RuntimeInv
  OBVIOUS
<1>1. PICK f \in {"configMap", "external", "schema"} :
        run = [file |-> f, step |-> "begin", retry |-> 0, attempt |-> 0]
  BY DEF RuntimeInit
<1>2. run \in Runs /\ run.step = "begin" /\ run.file # "done"
  BY <1>1 DEF Runs, Files, RunSteps
<1>3. /\ NewWorker \in Workers /\ NoSession \in Sessions /\ NoConnection \in Connections
      /\ Idle \in Restarts /\ given \in Jobs
  BY DEF RuntimeInit, NewWorker, Workers, NoSession, Sessions, NoConnection, Connections, Idle,
         Restarts, Jobs
<1>4. RuntimeTypeOK
  BY <1>2, <1>3 DEF RuntimeInit, RuntimeTypeOK
<1>5. ForwardInv /\ RestartInv /\ SchemaInv
  BY <1>2 DEF RuntimeInit, ForwardInv, RestartInv, SchemaInv, SetupSteps, NoSession, NoConnection, Idle
<1> QED
  BY <1>4, <1>5 DEF RuntimeInv

\* The configuration and the deployment of a first start.
LEMMA FirstStart ==
  /\ Fresh \in [exists : BOOLEAN, replicas : Nat, template : Template]
  /\ Fresh.template.vars = "none"
  /\ NoStatus \in [available : Nat]
  /\ ChartStore \in Contents
BY DEF Fresh, Template, ChartTemplate, NoStatus, Serve, ChartStore, Contents

\* A failed file leaves no forward and no connection, and begins again or ends.
LEMMA FileFailsEffect ==
  ASSUME RuntimeInv, FileFails, UNCHANGED <<clusterVars, given>>,
         restart' = Idle \/ (restart' = restart /\ restart.at = "idle")
  PROVE  RuntimeInv'
<1>0. /\ worker' = NewWorker
      /\ session' = NoSession /\ restarter' = FALSE /\ connection' = NoConnection
  BY DEF FileFails
<1>1. run' \in [file : Files, step : {"begin"}, retry : Nat, attempt : Nat]
  <2>1. run \in [file : Files, step : RunSteps, retry : Nat, attempt : Nat]
    BY DEF RuntimeInv, RuntimeTypeOK, Runs
  <2>2. NextFile(run.file) \in Files
    BY DEF NextFile, Files
  <2>3. CASE run.retry < Retries
    <3>1. run' = [run EXCEPT !.step = "begin", !.retry = run.retry + 1, !.attempt = 0]
      BY <2>3 DEF FileFails
    <3>2. run.file \in Files /\ run.retry + 1 \in Nat
      BY <2>1
    <3>3. run' = [file |-> run.file, step |-> "begin", retry |-> run.retry + 1, attempt |-> 0]
      BY <2>1, <3>1
    <3> QED
      BY <3>2, <3>3
  <2>4. CASE ~ (run.retry < Retries)
    <3>1. run' = [file |-> NextFile(run.file), step |-> "begin", retry |-> 0, attempt |-> 0]
      BY <2>4 DEF FileFails
    <3> QED
      BY <2>2, <3>1
  <2> QED
    BY <2>3, <2>4
<1>2. restart'.at = "idle" /\ restart' \in Restarts
  BY DEF RuntimeInv, RuntimeTypeOK, Idle, Restarts
<1>3. RuntimeTypeOK'
  <2>1. /\ NewWorker \in Workers /\ NoSession \in Sessions /\ NoConnection \in Connections
    BY DEF NewWorker, Workers, NoSession, Sessions, NoConnection, Connections
  <2>2. run' \in Runs /\ restarter' \in BOOLEAN
    BY <1>0, <1>1 DEF Runs, RunSteps
  <2>3. ClusterOf(Template, Contents)'
    BY DEF RuntimeInv, RuntimeTypeOK, clusterVars, ClusterOf
  <2> QED
    BY <1>0, <1>2, <2>1, <2>2, <2>3 DEF RuntimeInv, RuntimeTypeOK
<1>4. ForwardInv'
  BY <1>0, <1>1 DEF ForwardInv, NoSession, NoConnection, SetupSteps
<1>5. RestartInv'
  BY <1>1, <1>2 DEF RestartInv
<1>6. SchemaInv'
  BY <1>1 DEF RuntimeInv, SchemaInv, clusterVars
<1> QED
  BY <1>3, <1>4, <1>5, <1>6 DEF RuntimeInv


\* The parts of the type invariant, to be used one by one.
LEMMA RuntimeTypes ==
  ASSUME RuntimeTypeOK
  PROVE  /\ run \in Runs /\ worker \in Workers /\ session \in Sessions /\ connection \in Connections
         /\ deployment \in Deployments /\ store \in Contents
         /\ restart \in Restarts
BY DEF RuntimeTypeOK, Deployments, ClusterOf

\* Where a run goes to, within its file or to the beginning of another.
LEMMA GotoEffect ==
  ASSUME RuntimeTypeOK
  PROVE  /\ \A step \in RunSteps :
              Goto(step) => run' \in Runs /\ run'.step = step /\ run'.file = run.file
         /\ \A f \in Files :
              GotoFile(f) => run' \in Runs /\ run'.step = "begin" /\ run'.file = f
<1>1. run.file \in Files /\ run.retry \in Nat
  BY RuntimeTypes DEF Runs
<1>2. ASSUME NEW step \in RunSteps, Goto(step)
      PROVE  run' \in Runs /\ run'.step = step /\ run'.file = run.file
  <2>1. run' = [file |-> run.file, step |-> step, retry |-> run.retry, attempt |-> 0]
    BY <1>2, RuntimeTypes DEF Goto, Runs
  <2> QED
    BY <1>1, <2>1 DEF Runs
<1>3. ASSUME NEW f \in Files, GotoFile(f)
      PROVE  run' \in Runs /\ run'.step = "begin" /\ run'.file = f
  BY <1>3 DEF GotoFile, Runs, RunSteps
<1> QED
  BY <1>2, <1>3

\* The worker keeps what it knows and may find a password.
LEMMA ConfigureSchemaModeEffect ==
  ASSUME NEW w \in Workers, ConfigureSchemaMode(w)
  PROVE  worker' \in Workers
<1>1. CASE w.admin # ""
  BY <1>1 DEF ConfigureSchemaMode
<1>2. CASE w.admin = ""
  <2>1. PICK password \in AdminPasswords : worker' = [w EXCEPT !.admin = password]
    BY <1>2 DEF ConfigureSchemaMode
  <2>2. password \in {"", "admin", "wrong"}
    BY DEF AdminPasswords
  <2>3. worker' = [deployed |-> w.deployed, admin |-> password]
    BY <2>1 DEF Workers
  <2> QED
    BY <2>2, <2>3 DEF Workers
<1> QED
  BY <1>1, <1>2

\* A step of a file that leaves the forward alone, outside a restart.
LEMMA StepOfFile ==
  ASSUME RuntimeInv, ClusterOf(Template, Contents)', run' \in Runs, worker' \in Workers,
         given' = given, UNCHANGED forwardVars,
         restart' = Idle \/ (restart' = restart /\ restart.at = "idle"),
         session.at = "idle", connection.at = "idle" \/ run'.file = "done",
         run'.step # "verify", run'.step \in SetupSteps => run'.file = "schema",
         run'.file = "done" => run'.step = "begin"
  PROVE  RuntimeTypeOK' /\ ForwardInv' /\ RestartInv'
<1>1. restart'.at = "idle" /\ restart' \in Restarts
  BY RuntimeTypes DEF RuntimeInv, Idle, Restarts
<1>2. RuntimeTypeOK'
  BY <1>1 DEF RuntimeInv, RuntimeTypeOK, forwardVars
<1>3. ForwardInv'
  BY DEF RuntimeInv, ForwardInv, forwardVars
<1>4. RestartInv'
  BY <1>1 DEF RestartInv
<1> QED
  BY <1>2, <1>3, <1>4

\* A step of the forward or of a connection, which leaves the cluster alone.
LEMMA StepOfForward ==
  ASSUME RuntimeInv, run' \in Runs, worker' = worker, session' \in Sessions, restarter' \in BOOLEAN,
         connection' \in Connections, UNCHANGED <<clusterVars, restart, given>>,
         restart.at = "idle", ForwardInv',
         run'.step \in {"begin"} \cup (SetupSteps \ {"verify"})
  PROVE  RuntimeInv'
<1>0. ClusterOf(Template, Contents)'
  BY DEF RuntimeInv, RuntimeTypeOK, clusterVars, ClusterOf
<1>1. RuntimeTypeOK'
  BY <1>0 DEF RuntimeInv, RuntimeTypeOK
<1>2. RestartInv'
  BY DEF RestartInv, SetupSteps
<1>3. SchemaInv'
  BY DEF RuntimeInv, SchemaInv, clusterVars, SetupSteps
<1> QED
  BY <1>1, <1>2, <1>3 DEF RuntimeInv

\* Outside the setup of the schema file nothing is forwarded or connected.
LEMMA NothingForwarded ==
  ASSUME RuntimeInv
  PROVE  /\ run.step # "restart" => restart.at = "idle"
         /\ connection.at # "between" /\ run.step \notin {"forwarding", "stopping"} =>
              session.at = "idle" /\ session.stopped = "none"
         /\ run.step \notin {"admin", "user"} /\ run.file # "done" => connection.at = "idle"
         /\ run.step # "begin" => run.file # "done"
BY DEF RuntimeInv, ForwardInv, RestartInv


\* A test's write: the contents and the deployment stay of their kind, and the file goes on.
LEMMA WriteEffect ==
  ASSUME RuntimeInv, NEW contents \in Contents, NEW d \in Deployments,
         NEW step \in {"config", "env", "clear", "cred", "restart"}, Write(contents, d, step),
         run.step \in {"write", "config", "env", "clear", "cred", "secret"}
  PROVE  /\ RuntimeTypeOK' /\ ForwardInv' /\ RestartInv'
         /\ store' = contents /\ deployment' = d /\ given' = given
         /\ run'.file = run.file /\ run'.step = step
<1>1. /\ store' = contents /\ deployment' = d /\ status' = status /\ pods' = pods /\ Goto(step)
      /\ restart' = restart /\ UNCHANGED forwardVars /\ worker' = worker /\ given' = given
  BY DEF Write
<1>2. run' \in Runs /\ run'.step = step /\ run'.file = run.file
  BY <1>1, GotoEffect DEF RuntimeInv, RunSteps
<1>3. ClusterOf(Template, Contents)'
  BY <1>1 DEF RuntimeInv, RuntimeTypeOK, ClusterOf, Deployments
<1>4. restart.at = "idle" /\ session.at = "idle" /\ connection.at = "idle" /\ run.file # "done"
  BY NothingForwarded, RuntimeTypes DEF RuntimeInv, ForwardInv
<1>5. RuntimeTypeOK' /\ ForwardInv' /\ RestartInv'
  BY <1>1, <1>2, <1>3, <1>4, StepOfFile, RuntimeTypes DEF RuntimeInv, SetupSteps
<1> QED
  BY <1>1, <1>2, <1>5

\* The steps of the config-map and the external-database file.
LEMMA FirstFilesKeepInv ==
  ASSUME RuntimeInv,
         \/ EnsureDeployed \/ Deployed \/ UpdateConfigMapTitle \/ SkipExternal
         \/ RemoveSchemaModeVars \/ PatchAppConfigForExternal \/ AddPostgresCredVars
         \/ ClearDatabase \/ ConfigurePostgresCredentials
  PROVE  RuntimeInv'
<1>0. RuntimeTypeOK /\ store \in Contents /\ deployment \in Deployments /\ worker \in Workers
  BY RuntimeTypes DEF RuntimeInv
<1>1. CASE EnsureDeployed
  <2>1. /\ run.file \in {"configMap", "external"} /\ run.step = "begin" /\ given' = given
        /\ restart' = restart /\ UNCHANGED forwardVars
    BY <1>1 DEF EnsureDeployed
  <2>2. restart.at = "idle" /\ session.at = "idle" /\ connection.at = "idle"
    BY <2>1, NothingForwarded, RuntimeTypes DEF RuntimeInv, ForwardInv
  <2>3. /\ run' \in Runs /\ run'.step \in {"write", "deploying"} /\ run'.file = run.file
    BY <1>0, <1>1, GotoEffect DEF EnsureDeployed, RunSteps
  <2>4. worker' \in Workers
    <3>1. [worker EXCEPT !.deployed = TRUE] \in Workers
      BY <1>0 DEF Workers
    <3> QED
      BY <1>0, <1>1, <3>1, ConfigureSchemaModeEffect DEF EnsureDeployed
  <2>5. /\ ClusterOf(Template, Contents)'
        /\ ~ given.external => deployment'.template.vars # "cred"
    <3>1. CASE UNCHANGED clusterVars
      BY <3>1 DEF RuntimeInv, RuntimeTypeOK, ClusterOf, clusterVars, SchemaInv
    <3>2. CASE /\ deployment' = Fresh /\ status' = NoStatus /\ pods' = <<>> /\ store' = ChartStore
      BY <3>2, FirstStart DEF ClusterOf
    <3> QED
      BY <1>1, <3>1, <3>2 DEF EnsureDeployed
  <2>6. RuntimeTypeOK' /\ ForwardInv' /\ RestartInv'
    BY <2>1, <2>2, <2>3, <2>4, <2>5, StepOfFile DEF SetupSteps
  <2>7. SchemaInv'
    BY <2>1, <2>3, <2>5 DEF SchemaInv
  <2> QED
    BY <2>6, <2>7 DEF RuntimeInv
<1>2. CASE Deployed
  <2>1. /\ run.step = "deploying" /\ given' = given /\ restart' = restart
        /\ UNCHANGED forwardVars /\ UNCHANGED clusterVars /\ Goto("write")
    BY <1>2 DEF Deployed
  <2>2. restart.at = "idle" /\ session.at = "idle" /\ connection.at = "idle" /\ run.file # "done"
    BY <2>1, NothingForwarded, RuntimeTypes DEF RuntimeInv, ForwardInv
  <2>3. run' \in Runs /\ run'.step = "write" /\ run'.file = run.file
    BY <1>0, <2>1, GotoEffect DEF RunSteps
  <2>4. worker' \in Workers
    <3>1. [worker EXCEPT !.deployed = TRUE] \in Workers
      BY <1>0 DEF Workers
    <3> QED
      BY <1>2, <3>1, ConfigureSchemaModeEffect DEF Deployed
  <2>5. ClusterOf(Template, Contents)'
    BY <2>1 DEF RuntimeInv, RuntimeTypeOK, ClusterOf, clusterVars
  <2>6. RuntimeTypeOK' /\ ForwardInv' /\ RestartInv'
    BY <2>1, <2>2, <2>3, <2>4, <2>5, StepOfFile DEF SetupSteps
  <2>7. SchemaInv'
    BY <2>1, <2>3 DEF RuntimeInv, SchemaInv, clusterVars
  <2> QED
    BY <2>6, <2>7 DEF RuntimeInv
<1>3. CASE UpdateConfigMapTitle
  <2>1. run.file = "configMap" /\ run.step = "write"
    BY <1>3 DEF UpdateConfigMapTitle, InFile
  <2>2. PICK title \in Titles : Write([store EXCEPT !.title = title], deployment, "restart")
    BY <1>3 DEF UpdateConfigMapTitle
  <2>3. [store EXCEPT !.title = title] \in Contents
    BY <1>0 DEF Contents
  <2>4. /\ RuntimeTypeOK' /\ ForwardInv' /\ RestartInv' /\ deployment' = deployment
        /\ given' = given /\ run'.file = "configMap" /\ run'.step = "restart"
    BY <1>0, <2>1, <2>2, <2>3, WriteEffect
  <2> QED
    BY <2>4 DEF RuntimeInv, SchemaInv
<1>4. CASE SkipExternal
  <2>1. /\ run.file = "external" /\ run.step = "write" /\ given' = given /\ restart' = restart
        /\ UNCHANGED forwardVars /\ UNCHANGED clusterVars /\ GotoFile("schema") /\ worker' = worker
    BY <1>4 DEF SkipExternal, InFile
  <2>2. restart.at = "idle" /\ session.at = "idle" /\ connection.at = "idle"
    BY <2>1, NothingForwarded, RuntimeTypes DEF RuntimeInv, ForwardInv
  <2>3. run' \in Runs /\ run'.step = "begin" /\ run'.file = "schema"
    BY <1>0, <2>1, GotoEffect DEF Files
  <2>4. ClusterOf(Template, Contents)'
    BY <2>1 DEF RuntimeInv, RuntimeTypeOK, ClusterOf, clusterVars
  <2>5. RuntimeTypeOK' /\ ForwardInv' /\ RestartInv'
    BY <1>0, <2>1, <2>2, <2>3, <2>4, StepOfFile DEF SetupSteps
  <2>6. SchemaInv'
    BY <2>1, <2>3 DEF RuntimeInv, SchemaInv, clusterVars
  <2> QED
    BY <2>5, <2>6 DEF RuntimeInv
<1>5. CASE RemoveSchemaModeVars
  <2>1. /\ run.file = "external" /\ run.step = "write" /\ given.external
        /\ Write(store, WithoutSchemaVars, "config")
    BY <1>5 DEF RemoveSchemaModeVars, InFile, RuntimeInv, SchemaInv
  <2>2. store \in Contents /\ WithoutSchemaVars \in Deployments
    BY <1>0, WrittenDeployments DEF Contents, Deployments
  <2>3. RuntimeTypeOK' /\ ForwardInv' /\ RestartInv' /\ given' = given
    BY <2>1, <2>2, WriteEffect
  <2> QED
    BY <2>1, <2>3 DEF RuntimeInv, SchemaInv
<1>6. CASE PatchAppConfigForExternal
  <2>1. /\ run.file = "external" /\ run.step = "config" /\ given.external
        /\ Write([store EXCEPT !.database = "external"], deployment, "env")
    BY <1>6 DEF PatchAppConfigForExternal, InFile, RuntimeInv, SchemaInv
  <2>2. [store EXCEPT !.database = "external"] \in Contents /\ deployment \in Deployments
    BY <1>0 DEF Contents
  <2>3. RuntimeTypeOK' /\ ForwardInv' /\ RestartInv' /\ given' = given
    BY <2>1, <2>2, WriteEffect
  <2> QED
    BY <2>1, <2>3 DEF RuntimeInv, SchemaInv
<1>7. CASE AddPostgresCredVars
  <2>1. /\ run.file = "external" /\ run.step = "env" /\ given.external
        /\ Write(store, WithVars("cred"), "clear")
    BY <1>7 DEF AddPostgresCredVars, InFile, RuntimeInv, SchemaInv
  <2>2. store \in Contents /\ WithVars("cred") \in Deployments
    BY <1>0, WrittenDeployments DEF Contents, Deployments
  <2>3. RuntimeTypeOK' /\ ForwardInv' /\ RestartInv' /\ given' = given
    BY <2>1, <2>2, WriteEffect
  <2> QED
    BY <2>1, <2>3 DEF RuntimeInv, SchemaInv
<1>8. CASE ClearDatabase
  <2>1. /\ run.file = "external" /\ run.step = "clear" /\ given.external
        /\ Write(store, deployment, "cred")
    BY <1>8 DEF ClearDatabase, InFile, RuntimeInv, SchemaInv
  <2>2. store \in Contents /\ deployment \in Deployments
    BY <1>0 DEF Contents
  <2>3. RuntimeTypeOK' /\ ForwardInv' /\ RestartInv' /\ given' = given
    BY <2>1, <2>2, WriteEffect
  <2> QED
    BY <2>1, <2>3 DEF RuntimeInv, SchemaInv
<1>9. CASE ConfigurePostgresCredentials
  <2>1. /\ run.file = "external" /\ run.step = "cred" /\ given.external
        /\ Write([store EXCEPT !.cred = "external"], deployment, "restart")
    BY <1>9 DEF ConfigurePostgresCredentials, InFile, RuntimeInv, SchemaInv
  <2>2. [store EXCEPT !.cred = "external"] \in Contents /\ deployment \in Deployments
    BY <1>0 DEF Contents
  <2>3. RuntimeTypeOK' /\ ForwardInv' /\ RestartInv' /\ given' = given
    BY <2>1, <2>2, WriteEffect
  <2> QED
    BY <2>1, <2>3 DEF RuntimeInv, SchemaInv
<1> QED
  BY <1>1, <1>2, <1>3, <1>4, <1>5, <1>6, <1>7, <1>8, <1>9


\* A start leaves a child that is being stopped as it is.
LEMMA StartedEffect ==
  ASSUME NEW s \in [child : {"none", "unready", "ready", "unspawned", "exited"},
                    stopped : {"none", "unready", "ready", "unspawned"},
                    at : {"idle", "starting", "failed", "stopping", "restarting", "stopped"}],
         NEW t \in Started(s)
  PROVE  t \in Sessions /\ t.stopped = s.stopped /\ t.at \in {"idle", "starting"}
<1>1. CASE s.child # "none"
  <2>1. t = [child |-> s.child, stopped |-> s.stopped, at |-> "idle"]
    BY <1>1 DEF Started
  <2> QED
    BY <2>1 DEF Sessions
<1>2. CASE s.child = "none"
  <2>1. PICK c \in {"unready", "unspawned"} : t = [s EXCEPT !.child = c, !.at = "starting"]
    BY <1>2 DEF Started
  <2>2. t = [child |-> c, stopped |-> s.stopped, at |-> "starting"]
    BY <2>1
  <2> QED
    BY <2>2 DEF Sessions
<1> QED
  BY <1>1, <1>2

\* A stop of the child of a session at rest: it is awaited, unless there is none that runs.
LEMMA StoppedEffect ==
  ASSUME NEW s \in Sessions, s.stopped = "none", NEW next, NEW after
  PROVE  \/ Stopped(s, next, after) = [child |-> "none", stopped |-> "none", at |-> next]
         \/ \E c \in {"unready", "ready", "unspawned"} :
              Stopped(s, next, after) = [child |-> "none", stopped |-> c, at |-> after]
<1>1. CASE s.child \in {"none", "exited"}
  BY <1>1 DEF Stopped, Sessions
<1>2. CASE s.child \notin {"none", "exited"}
  <2>1. Stopped(s, next, after) = [child |-> "none", stopped |-> s.child, at |-> after]
    BY <1>2 DEF Stopped, Sessions
  <2>2. s.child \in {"unready", "ready", "unspawned"}
    BY <1>2 DEF Sessions
  <2> QED
    BY <2>1, <2>2
<1> QED
  BY <1>1, <1>2

\* A step of the forward, or of a connection through it, keeps what ForwardInv says.
LEMMA ConnectKeepsInv ==
  ASSUME RuntimeInv, Connect
  PROVE  RuntimeInv'
<1>1. /\ run.step \in {"forward", "forwarding", "admin", "user", "stopping"}
      /\ run' = run /\ worker' = worker /\ given' = given /\ UNCHANGED <<clusterVars, restart>>
  BY DEF Connect, Connecting, harnessVars
<1>2. session \in Sessions /\ connection \in Connections /\ run \in Runs /\ restarter \in BOOLEAN
  BY RuntimeTypes DEF RuntimeInv, RuntimeTypeOK
<1>3. restart.at = "idle" /\ ForwardInv /\ run.file # "done"
  BY <1>1, NothingForwarded DEF RuntimeInv
<1>4. ASSUME session' \in Sessions, connection' \in Connections, restarter' = restarter, ForwardInv'
      PROVE  RuntimeInv'
  BY <1>1, <1>2, <1>3, <1>4, StepOfForward DEF SetupSteps
<1>5. CASE ConnectFirst(Server, Password)
  <2>1. connection.at = "first" /\ session' = session /\ restarter' = restarter
    BY <1>5 DEF ConnectFirst
  <2>2. PICK answer \in {Answer(TRUE, Server, Password), "dead"} :
          connection' = IF answer = "ok" THEN [connection EXCEPT !.at = "open"]
                        ELSE [at |-> "trying", tls |-> answer # "no TLS", try |-> 1]
    BY <1>5 DEF ConnectFirst
  <2>3. connection' \in Connections
    <3>1. [connection EXCEPT !.at = "open"] \in Connections
      BY <1>2 DEF Connections
    <3>2. (answer # "no TLS") \in BOOLEAN
      OBVIOUS
    <3>3. [at |-> "trying", tls |-> answer # "no TLS", try |-> 1] \in Connections
      BY <3>2 DEF Connections
    <3> QED
      BY <2>2, <3>1, <3>3
  <2>4. ForwardInv'
    BY <1>1, <1>3, <2>1 DEF ForwardInv
  <2> QED
    BY <1>2, <1>4, <2>1, <2>3, <2>4
<1>6. CASE ConnectAgain(Server, Password)
  <2>1. connection.at = "trying" /\ restarter' = restarter
    BY <1>6 DEF ConnectAgain
  <2>2. session.at = "idle" /\ session.stopped = "none" /\ run.step \in {"admin", "user"}
    BY <1>1, <1>3, <2>1 DEF ForwardInv
  <2>3. PICK answer \in {Answer(connection.tls, Server, Password), "dead"} :
          \/ connection' = [connection EXCEPT !.at = "open"] /\ session' = session
          \/ connection' = [connection EXCEPT !.at = "failed"] /\ session' = session
          \/ connection' = [connection EXCEPT !.try = connection.try + 1] /\ session' = session
          \/ /\ connection' = [connection EXCEPT !.at = "between", !.try = connection.try + 1]
             /\ LET s == Stopped(session, "stopped", "restarting")
                IN IF s.at = "stopped" THEN session' \in Started(s) ELSE session' = s
    BY <1>6 DEF ConnectAgain
  <2>4. /\ [connection EXCEPT !.at = "open"] \in Connections
        /\ [connection EXCEPT !.at = "failed"] \in Connections
        /\ [connection EXCEPT !.try = connection.try + 1] \in Connections
        /\ [connection EXCEPT !.at = "between", !.try = connection.try + 1] \in Connections
        /\ [connection EXCEPT !.at = "between", !.try = connection.try + 1].at = "between"
    <3>1. connection.try + 1 \in Nat
      BY <1>2 DEF Connections
    <3>2. ASSUME NEW n \in Nat
          PROVE  /\ [connection EXCEPT !.at = "between", !.try = n] \in Connections
                 /\ [connection EXCEPT !.at = "between", !.try = n].at = "between"
                 /\ [connection EXCEPT !.try = n] \in Connections
      BY <1>2 DEF Connections
    <3>3. /\ [connection EXCEPT !.at = "open"] \in Connections
          /\ [connection EXCEPT !.at = "failed"] \in Connections
      BY <1>2 DEF Connections
    <3> QED
      BY <3>1, <3>2, <3>3
  <2>5. CASE session' = session
    <3>1. ForwardInv'
      BY <1>1, <1>3, <2>2, <2>5 DEF ForwardInv
    <3>2. connection' \in Connections
      BY <2>3, <2>4
    <3> QED
      BY <1>2, <1>4, <2>1, <2>5, <3>1, <3>2
  <2>6. CASE session' # session
    <3> DEFINE s == Stopped(session, "stopped", "restarting")
    <3>1. /\ connection' \in Connections /\ connection'.at = "between"
          /\ IF s.at = "stopped" THEN session' \in Started(s) ELSE session' = s
      BY <2>3, <2>4, <2>6
    <3>2. \/ s = [child |-> "none", stopped |-> "none", at |-> "stopped"]
          \/ \E c \in {"unready", "ready", "unspawned"} :
               s = [child |-> "none", stopped |-> c, at |-> "restarting"]
      BY <1>2, <2>2, StoppedEffect
    <3> HIDE DEF s
    <3>3. CASE s = [child |-> "none", stopped |-> "none", at |-> "stopped"]
      <4>1. session' \in Sessions /\ session'.stopped = "none"
        BY <3>1, <3>3, StartedEffect
      <4>2. ForwardInv'
        BY <1>1, <1>3, <2>2, <3>1, <4>1 DEF ForwardInv
      <4> QED
        BY <1>4, <2>1, <3>1, <4>1, <4>2
    <3>4. ASSUME NEW c \in {"unready", "ready", "unspawned"},
                 s = [child |-> "none", stopped |-> c, at |-> "restarting"]
          PROVE  RuntimeInv'
      <4>1. session' = [child |-> "none", stopped |-> c, at |-> "restarting"]
        BY <3>1, <3>4
      <4>2. session' \in Sessions
        BY <4>1 DEF Sessions
      <4>3. ForwardInv'
        BY <1>1, <1>3, <2>2, <3>1, <4>1 DEF ForwardInv
      <4> QED
        BY <1>4, <2>1, <3>1, <4>2, <4>3
    <3> QED
      BY <3>2, <3>3, <3>4
  <2> QED
    BY <2>5, <2>6
<1>7. CASE StartEnds
  <2>1. /\ session.at = "starting" /\ restarter' = restarter /\ connection' = connection
        /\ \E c \in {"unspawned", "ready", "exited", "unready"} :
             session' = [session EXCEPT !.child = c, !.at = IF c = "ready" THEN "idle" ELSE "failed"]
    BY <1>7 DEF StartEnds
  <2>2. session.stopped = "none"
    BY <1>3, <2>1 DEF ForwardInv
  <2>3. PICK c \in {"unspawned", "ready", "exited", "unready"}, e \in {"idle", "failed"} :
          session' = [child |-> c, stopped |-> "none", at |-> e]
    BY <1>2, <2>1, <2>2 DEF Sessions
  <2>4. session' \in Sessions
    BY <2>3 DEF Sessions
  <2>5. ForwardInv'
    BY <1>1, <1>3, <2>1, <2>3 DEF ForwardInv
  <2> QED
    BY <1>2, <1>4, <2>1, <2>4, <2>5
<1>8. CASE ChildExits
  <2>1. /\ session.child # "none" /\ restarter' = restarter /\ connection' = connection
        /\ session' = [session EXCEPT !.child = "exited"]
    BY <1>8 DEF ChildExits, Alive
  <2>2. session' = [child |-> "exited", stopped |-> session.stopped, at |-> session.at]
    BY <1>2, <2>1 DEF Sessions
  <2>3. session.stopped = "none"
    BY <1>3, <2>1 DEF ForwardInv
  <2>4. session' \in Sessions
    BY <1>2, <2>2 DEF Sessions
  <2>5. ForwardInv'
    BY <1>1, <1>3, <2>1, <2>2, <2>3 DEF ForwardInv
  <2> QED
    BY <1>2, <1>4, <2>1, <2>4, <2>5
<1>9. CASE StoppedExits
  <2> DEFINE s == [session EXCEPT !.stopped = "none"]
  <2>1. /\ session.at \in {"stopping", "restarting"} /\ restarter' = restarter
        /\ connection' = connection
        /\ IF s.at = "restarting" THEN session' \in Started(s) ELSE session' = [s EXCEPT !.at = "idle"]
    BY <1>9 DEF StoppedExits
  <2>2. s = [child |-> session.child, stopped |-> "none", at |-> session.at]
    BY <1>2 DEF Sessions
  <2> HIDE DEF s
  <2>3. session' \in Sessions /\ session'.stopped = "none"
    <3>1. CASE s.at = "restarting"
      <4>1. s \in [child : {"none", "unready", "ready", "unspawned", "exited"},
                   stopped : {"none", "unready", "ready", "unspawned"},
                   at : {"idle", "starting", "failed", "stopping", "restarting", "stopped"}]
        BY <1>2, <2>2 DEF Sessions
      <4>2. session' \in Started(s) /\ s.stopped = "none"
        BY <2>1, <2>2, <3>1
      <4> QED
        BY <4>1, <4>2, StartedEffect
    <3>2. CASE s.at # "restarting"
      <4>1. session' = [child |-> session.child, stopped |-> "none", at |-> "idle"]
        BY <2>1, <2>2, <3>2
      <4> QED
        BY <1>2, <4>1 DEF Sessions
    <3> QED
      BY <3>1, <3>2
  <2>4. ForwardInv'
    BY <1>1, <1>3, <2>1, <2>3 DEF ForwardInv
  <2> QED
    BY <1>2, <1>4, <2>1, <2>3, <2>4
<1>10. CASE RestartFailed
  <2>1. /\ session.at = "failed" /\ restarter' = restarter /\ connection' = connection
        /\ session' = [session EXCEPT !.at = "idle"]
    BY <1>10 DEF RestartFailed
  <2>2. session' = [child |-> session.child, stopped |-> session.stopped, at |-> "idle"]
    BY <1>2, <2>1 DEF Sessions
  <2>3. session.stopped = "none"
    BY <1>3, <2>1 DEF ForwardInv
  <2>4. session' \in Sessions
    BY <1>2, <2>2 DEF Sessions
  <2>5. ForwardInv'
    BY <1>1, <1>3, <2>1, <2>2, <2>3 DEF ForwardInv
  <2> QED
    BY <1>2, <1>4, <2>1, <2>4, <2>5
<1>11. CASE WaitBeforeRetry
  <2>1. /\ connection.at = "between" /\ session.at = "idle" /\ session' = session
        /\ restarter' = restarter /\ connection' = [connection EXCEPT !.at = "trying"]
    BY <1>11 DEF WaitBeforeRetry
  <2>2. connection' \in Connections
    BY <1>2, <2>1 DEF Connections
  <2>3. ForwardInv'
    BY <1>1, <1>3, <2>1 DEF ForwardInv
  <2> QED
    BY <1>2, <1>4, <2>1, <2>2, <2>3
<1> QED
  BY <1>5, <1>6, <1>7, <1>8, <1>9, <1>10, <1>11 DEF Connect, ForwardSteps


\* The schema file goes on without a change of the cluster or of the forward, or ends.
LEMMA QuietStep ==
  ASSUME RuntimeInv, UNCHANGED <<clusterVars, restart, given>>, UNCHANGED forwardVars,
         worker' \in Workers, run' \in Runs, run.step \notin {"restart", "admin", "user", "forwarding"},
         run.file # "done", session.at = "idle",
         \/ run'.file = "schema" /\ run'.step \in SetupSteps \ {"verify"}
         \/ run'.file = "done" /\ run'.step = "begin"
  PROVE  RuntimeInv'
<1>1. restart.at = "idle" /\ connection.at = "idle"
  BY NothingForwarded
<1>2. ClusterOf(Template, Contents)'
  BY DEF RuntimeInv, RuntimeTypeOK, ClusterOf, clusterVars
<1>3. RuntimeTypeOK' /\ ForwardInv' /\ RestartInv'
  BY <1>1, <1>2, StepOfFile DEF SetupSteps
<1>4. SchemaInv'
  BY DEF RuntimeInv, SchemaInv, SetupSteps, clusterVars
<1> QED
  BY <1>3, <1>4 DEF RuntimeInv

\* The steps of the schema file that do not go through the forward.
LEMMA SchemaFileKeepsInv ==
  ASSUME RuntimeInv,
         \/ ReadSchemaModeEnv \/ UpdateSecret \/ EnsureDeploymentEnvVars
         \/ UpdateAppConfigForSchemaMode \/ ConfigureFails \/ ForwardStopped
  PROVE  RuntimeInv'
<1>0. /\ RuntimeTypeOK /\ SchemaInv /\ store \in Contents /\ deployment \in Deployments
      /\ worker \in Workers /\ given \in Jobs
  BY RuntimeTypes DEF RuntimeInv, RuntimeTypeOK
<1>1. CASE ReadSchemaModeEnv
  <2>1. /\ run.file = "schema" /\ run.step = "begin" /\ UNCHANGED <<clusterVars, restart, given>>
        /\ UNCHANGED forwardVars /\ worker' \in Workers
        /\ GotoFile("done") \/ Goto("forward")
    BY <1>0, <1>1, ConfigureSchemaModeEffect DEF ReadSchemaModeEnv, InFile, SetupFails, Passes
  <2>2. session.at = "idle"
    BY <2>1, NothingForwarded
  <2>3. /\ run' \in Runs
        /\ \/ run'.file = "schema" /\ run'.step = "forward"
           \/ run'.file = "done" /\ run'.step = "begin"
    BY <1>0, <2>1, GotoEffect DEF Files, RunSteps, SetupSteps
  <2> QED
    BY <2>1, <2>2, <2>3, QuietStep DEF SetupSteps
<1>2. CASE UpdateSecret
  <2>1. /\ run.file = "schema" /\ run.step = "secret"
        /\ Write([store EXCEPT !.psql = "schema"], deployment, IF given.operator THEN "config" ELSE "env")
    BY <1>2 DEF UpdateSecret, InFile
  <2>2. [store EXCEPT !.psql = "schema"] \in Contents /\ [store EXCEPT !.psql = "schema"].psql = "schema"
    BY <1>0 DEF Contents
  <2>3. CASE given.operator
    <3>1. /\ RuntimeTypeOK' /\ ForwardInv' /\ RestartInv' /\ run'.file = "schema" /\ run'.step = "config"
          /\ store'.psql = "schema" /\ deployment' = deployment /\ given' = given
      BY <1>0, <2>1, <2>2, <2>3, WriteEffect
    <3> QED
      BY <1>0, <2>3, <3>1 DEF RuntimeInv, SchemaInv
  <2>4. CASE ~ given.operator
    <3>1. /\ RuntimeTypeOK' /\ ForwardInv' /\ RestartInv' /\ run'.file = "schema" /\ run'.step = "env"
          /\ store'.psql = "schema" /\ deployment' = deployment /\ given' = given
      BY <1>0, <2>1, <2>2, <2>4, WriteEffect
    <3> QED
      BY <1>0, <3>1 DEF RuntimeInv, SchemaInv
  <2> QED
    BY <2>3, <2>4
<1>3. CASE EnsureDeploymentEnvVars
  <2> DEFINE vars == IF deployment.template.vars = "none" THEN "psql" ELSE deployment.template.vars
             d == [deployment EXCEPT !.template = [vars |-> vars, db |-> TRUE]]
  <2>1. run.file = "schema" /\ run.step = "env" /\ Write(store, d, "config")
    BY <1>3 DEF EnsureDeploymentEnvVars, InFile
  <2>2. vars \in {"psql", "cred"} /\ (deployment.template.vars # "cred" => vars = "psql")
    BY <1>0 DEF Deployments, Template
  <2> HIDE DEF vars
  <2>3. d \in Deployments /\ d.template.vars = vars
    BY <1>0, <2>2 DEF Deployments, Template
  <2> HIDE DEF d
  <2>4. /\ RuntimeTypeOK' /\ ForwardInv' /\ RestartInv' /\ run'.file = "schema" /\ run'.step = "config"
        /\ store' = store /\ deployment' = d /\ given' = given
    BY <1>0, <2>1, <2>3, WriteEffect
  <2> QED
    BY <1>0, <2>1, <2>2, <2>3, <2>4 DEF RuntimeInv, SchemaInv
<1>4. CASE UpdateAppConfigForSchemaMode
  <2>1. /\ run.file = "schema" /\ run.step = "config"
        /\ Write([store EXCEPT !.database = "schema"], deployment, "restart")
    BY <1>4 DEF UpdateAppConfigForSchemaMode, InFile
  <2>2. /\ [store EXCEPT !.database = "schema"] \in Contents
        /\ [store EXCEPT !.database = "schema"].database = "schema"
        /\ [store EXCEPT !.database = "schema"].psql = store.psql
    BY <1>0 DEF Contents
  <2>3. /\ RuntimeTypeOK' /\ ForwardInv' /\ RestartInv' /\ run'.file = "schema" /\ run'.step = "restart"
        /\ store'.psql = store.psql /\ store'.database = "schema"
        /\ deployment' = deployment /\ given' = given
    BY <1>0, <2>1, <2>2, WriteEffect
  <2> QED
    BY <1>0, <2>1, <2>3 DEF RuntimeInv, SchemaInv
<1>5. CASE ConfigureFails
  <2>1. /\ run.file = "schema" /\ run.step \in {"secret", "env", "config"} /\ GotoFile("done")
        /\ UNCHANGED <<clusterVars, restart, given>> /\ UNCHANGED forwardVars /\ worker' = worker
    BY <1>5 DEF ConfigureFails, SetupFails
  <2>2. run' \in Runs /\ run'.file = "done" /\ run'.step = "begin"
    BY <1>0, <2>1, GotoEffect DEF Files
  <2>3. session.at = "idle"
    BY <2>1, NothingForwarded
  <2> QED
    BY <1>0, <2>1, <2>2, <2>3, QuietStep
<1>6. CASE ForwardStopped
  <2>1. /\ run.file = "schema" /\ run.step = "stopping" /\ session.at = "idle" /\ GotoFile("done")
        /\ UNCHANGED <<clusterVars, restart, given>> /\ UNCHANGED forwardVars /\ worker' = worker
    BY <1>6 DEF ForwardStopped, InFile
  <2>2. run' \in Runs /\ run'.file = "done" /\ run'.step = "begin"
    BY <1>0, <2>1, GotoEffect DEF Files
  <2> QED
    BY <1>0, <2>1, <2>2, QuietStep
<1> QED
  BY <1>1, <1>2, <1>3, <1>4, <1>5, <1>6

\* The steps of the schema file that start, use or stop the forward, and the failures.
LEMMA ForwardFileKeepsInv ==
  ASSUME RuntimeInv,
         \/ StartForward \/ Forwarding \/ Connected \/ StopForward
         \/ DeployFails \/ WriteFails \/ TestTimesOut
  PROVE  RuntimeInv'
<1>0. /\ RuntimeTypeOK /\ ForwardInv /\ session \in Sessions /\ connection \in Connections
      /\ run \in Runs /\ restarter \in BOOLEAN
      /\ NoConnection \in Connections /\ [NoConnection EXCEPT !.at = "first"] \in Connections
  BY RuntimeTypes DEF RuntimeInv, RuntimeTypeOK, NoConnection, Connections
<1>1. CASE StartForward
  <2>1. /\ run.file = "schema" /\ run.step = "forward" /\ session' \in Started(session)
        /\ Goto("forwarding") /\ UNCHANGED <<clusterVars, restart, given>>
        /\ restarter' = restarter /\ connection' = connection /\ worker' = worker
    BY <1>1 DEF StartForward, InFile, Passes
  <2>2. run' \in Runs /\ run'.file = "schema" /\ run'.step = "forwarding"
    BY <1>0, <2>1, GotoEffect DEF RunSteps, SetupSteps
  <2>3. restart.at = "idle" /\ session.stopped = "none" /\ connection.at = "idle"
    BY <2>1, NothingForwarded
  <2>4. session' \in Sessions /\ session'.stopped = "none"
    <3>1. session \in [child : {"none", "unready", "ready", "unspawned", "exited"},
                       stopped : {"none", "unready", "ready", "unspawned"},
                       at : {"idle", "starting", "failed", "stopping", "restarting", "stopped"}]
      BY <1>0 DEF Sessions
    <3> QED
      BY <2>1, <2>3, <3>1, StartedEffect
  <2>5. ForwardInv'
    BY <2>1, <2>2, <2>3, <2>4 DEF ForwardInv
  <2> QED
    BY <1>0, <2>1, <2>2, <2>3, <2>4, <2>5, StepOfForward DEF SetupSteps
<1>2. CASE Forwarding
  <2>1. run.file = "schema" /\ run.step = "forwarding"
    BY <1>2 DEF Forwarding, InFile
  <2>2. restart.at = "idle" /\ connection.at = "idle"
    BY <2>1, NothingForwarded
  <2>3. CASE session.at = "failed" /\ FileFails /\ UNCHANGED <<clusterVars, restart, given>>
    BY <2>2, <2>3, FileFailsEffect
  <2>4. CASE /\ session.at = "idle" /\ restarter' = TRUE
             /\ connection' = [NoConnection EXCEPT !.at = "first"]
             /\ Passes("admin") /\ UNCHANGED <<session, worker>>
    <3>1. run' \in Runs /\ run'.file = "schema" /\ run'.step = "admin"
      BY <1>0, <2>1, <2>4, GotoEffect DEF Passes, RunSteps, SetupSteps
    <3>2. ForwardInv'
      BY <1>0, <2>1, <2>4, <3>1 DEF ForwardInv
    <3> QED
      BY <1>0, <2>2, <2>4, <3>1, <3>2, StepOfForward DEF Passes, SetupSteps
  <2> QED
    BY <1>2, <2>3, <2>4 DEF Forwarding
<1>3. CASE Connected
  <2>1. /\ run.file = "schema" /\ connection.at \in {"open", "failed"}
        /\ UNCHANGED <<clusterVars, restart, given>> /\ session' = session
        /\ restarter' = restarter /\ worker' = worker
        /\ connection' = IF connection.at = "open" /\ run.step # "user"
                           THEN [NoConnection EXCEPT !.at = "first"] ELSE NoConnection
        /\ \/ connection.at = "open" /\ Goto(IF run.step = "admin" THEN "user" ELSE "secret")
           \/ GotoFile("done")
    BY <1>3 DEF Connected, Passes, SetupFails
  <2>2. run.step \in {"admin", "user"} /\ session.at = "idle" /\ session.stopped = "none"
    BY <1>0, <2>1 DEF ForwardInv
  <2>3. restart.at = "idle"
    BY <2>2, NothingForwarded
  <2>4. connection' \in Connections /\ (run.step = "user" => connection'.at = "idle")
    BY <1>0, <2>1 DEF NoConnection
  <2>5. /\ run' \in Runs
        /\ \/ run'.file = "schema" /\ run'.step = "user"
           \/ run'.file = "schema" /\ run'.step = "secret" /\ run.step = "user"
           \/ run'.file = "done" /\ run'.step = "begin"
    BY <1>0, <2>1, <2>2, GotoEffect DEF Files, RunSteps, SetupSteps
  <2>6. ForwardInv'
    BY <2>1, <2>2, <2>4, <2>5 DEF ForwardInv, SetupSteps
  <2> QED
    BY <1>0, <2>1, <2>3, <2>4, <2>5, <2>6, StepOfForward DEF SetupSteps
<1>4. CASE StopForward
  <2>1. /\ run.file = "schema" /\ run.step = "verify" /\ session.at = "idle"
        /\ session' = Stopped(session, "idle", "stopping") /\ restarter' = FALSE
        /\ Goto("stopping") /\ UNCHANGED <<clusterVars, restart, given>>
        /\ connection' = connection /\ worker' = worker
    BY <1>4 DEF StopForward, InFile
  <2>2. run' \in Runs /\ run'.file = "schema" /\ run'.step = "stopping"
    BY <1>0, <2>1, GotoEffect DEF RunSteps, SetupSteps
  <2>3. restart.at = "idle" /\ session.stopped = "none" /\ connection.at = "idle"
    BY <2>1, NothingForwarded
  <2>4. \/ session' = [child |-> "none", stopped |-> "none", at |-> "idle"]
        \/ \E c \in {"unready", "ready", "unspawned"} :
             session' = [child |-> "none", stopped |-> c, at |-> "stopping"]
    BY <1>0, <2>1, <2>3, StoppedEffect
  <2>5. /\ session' \in Sessions /\ session'.child = "none"
        /\ session'.stopped # "none" => session'.at = "stopping"
    BY <2>4 DEF Sessions
  <2>6. ForwardInv'
    BY <2>1, <2>2, <2>3, <2>5 DEF ForwardInv
  <2> QED
    BY <1>0, <2>1, <2>2, <2>3, <2>5, <2>6, StepOfForward DEF SetupSteps
<1>5. CASE DeployFails
  <2>1. run.step = "deploying" /\ FileFails /\ UNCHANGED <<clusterVars, restart, given>>
    BY <1>5 DEF DeployFails
  <2> QED
    BY <2>1, NothingForwarded, FileFailsEffect
<1>6. CASE WriteFails
  <2>1. /\ run.step \in {"write", "config", "env", "clear", "cred", "verify"} /\ FileFails
        /\ UNCHANGED <<clusterVars, restart, given>>
    BY <1>6 DEF WriteFails
  <2> QED
    BY <2>1, NothingForwarded, FileFailsEffect
<1>7. CASE TestTimesOut
  <2>1. session.stopped = "unspawned" /\ FileFails /\ UNCHANGED <<clusterVars, restart, given>>
    BY <1>7 DEF TestTimesOut
  <2>2. session.at # "idle" /\ run.step # "restart"
    BY <1>0, <2>1 DEF ForwardInv, SetupSteps
  <2> QED
    BY <2>1, <2>2, NothingForwarded, FileFailsEffect
<1> QED
  BY <1>1, <1>2, <1>3, <1>4, <1>5, <1>6, <1>7


\* The calls of a restart and what the file does with it.
LEMMA RestartKeepsInv ==
  ASSUME RuntimeInv,
         \/ BeginRestart \/ RestartAgain \/ RestartGivenUp \/ RestartReturned
         \/ RestartSteps /\ UNCHANGED <<forwardVars, harnessVars>>
  PROVE  RuntimeInv'
<1>0. /\ RuntimeTypeOK /\ ForwardInv /\ RestartInv /\ SchemaInv /\ run \in Runs
      /\ worker \in Workers /\ deployment \in Deployments /\ restart \in Restarts
      /\ Idle \in Restarts /\ Idle.at = "idle"
  BY RuntimeTypes DEF RuntimeInv, Idle, Restarts
<1>1. CASE BeginRestart
  <2>1. /\ run.step = "restart" /\ restart' = At("scaleDown") /\ UNCHANGED clusterVars
        /\ run' = [run EXCEPT !.attempt = run.attempt + 1]
        /\ UNCHANGED forwardVars /\ worker' = worker /\ given' = given
    BY <1>1 DEF BeginRestart
  <2>2. restart' \in Restarts /\ restart'.at = "scaleDown"
    BY <2>1 DEF At, Restarts
  <2>3. run' \in Runs /\ run'.step = run.step /\ run'.file = run.file
    <3>1. run.attempt + 1 \in Nat
      BY <1>0 DEF Runs
    <3>2. \A n \in Nat : /\ [run EXCEPT !.attempt = n] \in Runs
                         /\ [run EXCEPT !.attempt = n].step = run.step
                         /\ [run EXCEPT !.attempt = n].file = run.file
      BY <1>0 DEF Runs
    <3> QED
      BY <2>1, <3>1, <3>2
  <2>4. ClusterOf(Template, Contents)'
    BY <1>0, <2>1 DEF RuntimeTypeOK, ClusterOf, clusterVars
  <2>5. RuntimeTypeOK'
    BY <1>0, <2>1, <2>2, <2>3, <2>4 DEF RuntimeTypeOK, forwardVars
  <2>6. ForwardInv'
    BY <1>0, <2>1, <2>3 DEF ForwardInv, forwardVars
  <2>7. RestartInv'
    BY <2>1, <2>2, <2>3 DEF RestartInv
  <2>8. SchemaInv'
    BY <1>0, <2>1, <2>3 DEF SchemaInv, clusterVars
  <2> QED
    BY <2>5, <2>6, <2>7, <2>8 DEF RuntimeInv
<1>2. CASE RestartAgain
  <2>1. /\ restart' = Idle /\ UNCHANGED clusterVars /\ run.step = "restart"
        /\ UNCHANGED forwardVars /\ worker' = worker /\ given' = given /\ run' = run
    BY <1>2 DEF RestartAgain, harnessVars
  <2>2. ClusterOf(Template, Contents)'
    BY <1>0, <2>1 DEF RuntimeTypeOK, ClusterOf, clusterVars
  <2>3. RuntimeTypeOK' /\ ForwardInv' /\ SchemaInv'
    BY <1>0, <2>1, <2>2 DEF RuntimeTypeOK, ForwardInv, SchemaInv, forwardVars, clusterVars
  <2>4. RestartInv'
    BY <1>0, <2>1 DEF RestartInv
  <2> QED
    BY <2>3, <2>4 DEF RuntimeInv
<1>3. CASE RestartGivenUp
  <2>1. /\ run.step = "restart" /\ restart' = Idle /\ UNCHANGED <<clusterVars, given>>
        /\ IF run.file = "schema" THEN GotoFile("done") /\ UNCHANGED <<forwardVars, worker>>
           ELSE FileFails
    BY <1>3 DEF RestartGivenUp
  <2>2. CASE run.file = "schema"
    <3>1. run' \in Runs /\ run'.file = "done" /\ run'.step = "begin"
      BY <1>0, <2>1, <2>2, GotoEffect DEF Files
    <3>2. session.at = "idle"
      BY <2>1, NothingForwarded
    <3>3. ClusterOf(Template, Contents)'
      BY <1>0, <2>1 DEF RuntimeTypeOK, ClusterOf, clusterVars
    <3>4. RuntimeTypeOK' /\ ForwardInv' /\ RestartInv'
      BY <1>0, <2>1, <2>2, <3>1, <3>2, <3>3, StepOfFile DEF SetupSteps
    <3>5. SchemaInv'
      BY <1>0, <2>1, <3>1 DEF SchemaInv, clusterVars
    <3> QED
      BY <3>4, <3>5 DEF RuntimeInv
  <2>3. CASE run.file # "schema"
    BY <2>1, <2>3, FileFailsEffect
  <2> QED
    BY <2>2, <2>3
<1>4. CASE RestartReturned
  <2>1. /\ run.step = "restart" /\ restart.at = "returned" /\ restart' = Idle
        /\ IF run.file = "schema" THEN Goto("verify") ELSE GotoFile(NextFile(run.file))
        /\ UNCHANGED <<clusterVars, given>> /\ UNCHANGED forwardVars /\ worker' = worker
    BY <1>4 DEF RestartReturned
  <2>2. session.at = "idle" /\ connection.at = "idle" /\ session.stopped = "none"
    BY <2>1, NothingForwarded
  <2>3. ClusterOf(Template, Contents)'
    BY <1>0, <2>1 DEF RuntimeTypeOK, ClusterOf, clusterVars
  <2>4. CASE run.file = "schema"
    <3>1. run' \in Runs /\ run'.file = "schema" /\ run'.step = "verify"
      BY <1>0, <2>1, <2>4, GotoEffect DEF RunSteps, SetupSteps
    <3>2. RuntimeTypeOK'
      BY <1>0, <2>1, <2>3, <3>1 DEF RuntimeTypeOK, forwardVars
    <3>3. ForwardInv'
      BY <2>1, <2>2, <3>1 DEF ForwardInv, forwardVars
    <3>4. FreshPods'
      BY <1>0, <2>1, SamePods DEF RestartInv, clusterVars
    <3>5. RestartInv'
      BY <1>0, <2>1, <3>4 DEF RestartInv
    <3>6. SchemaInv'
      BY <1>0, <2>1, <2>4, <3>1 DEF SchemaInv, clusterVars
    <3> QED
      BY <3>2, <3>3, <3>5, <3>6 DEF RuntimeInv
  <2>5. CASE run.file # "schema"
    <3>1. NextFile(run.file) \in Files
      BY DEF NextFile, Files
    <3>2. run' \in Runs /\ run'.step = "begin"
      BY <1>0, <2>1, <2>5, <3>1, GotoEffect
    <3>3. RuntimeTypeOK' /\ ForwardInv' /\ RestartInv'
      BY <1>0, <2>1, <2>2, <2>3, <3>2, StepOfFile DEF SetupSteps
    <3>4. SchemaInv'
      BY <1>0, <2>1, <3>2 DEF SchemaInv, clusterVars
    <3> QED
      BY <3>3, <3>4 DEF RuntimeInv
  <2> QED
    BY <2>4, <2>5
<1>5. ASSUME RestartSteps, UNCHANGED <<forwardVars, harnessVars>>
      PROVE  RuntimeInv'
  <2>1. /\ run' = run /\ worker' = worker /\ given' = given /\ UNCHANGED forwardVars
        /\ status' = status /\ pods' = pods /\ store' = store
    BY <1>5 DEF RestartSteps, ScaleDown, ScaleUp, Scale, WaitDown, WaitGone, WaitUp, SeePodFailure,
       WaitGivesUp, harnessVars, clusterVars
  <2>2. ASSUME NEW from \in {"scaleDown", "scaleUp"}, NEW n \in {0, 1},
               NEW next \in {"waitDown", "waitUp"}, Scale(from, n, next)
        PROVE  /\ restart.at = from /\ restart' \in Restarts
               /\ deployment' \in Deployments /\ deployment'.template = deployment.template
               /\ \/ deployment' = deployment /\ restart'.at \in {from, "failed"}
                  \/ deployment'.replicas = n /\ restart'.at = next
    <3>1. /\ restart.at = from
          /\ \/ deployment' = [deployment EXCEPT !.replicas = n] /\ restart' = At(next)
             \/ restart' = [restart EXCEPT !.tries = restart.tries + 1] /\ deployment' = deployment
             \/ restart' = At("failed") /\ deployment' = deployment
      BY <2>2 DEF Scale, Raise
    <3>2. CASE deployment' = [deployment EXCEPT !.replicas = n] /\ restart' = At(next)
      <4>1. restart' \in Restarts /\ restart'.at = next
        BY <3>2 DEF At, Restarts
      <4> QED
        BY <1>0, <3>1, <3>2, <4>1 DEF Deployments
    <3>3. CASE restart' = [restart EXCEPT !.tries = restart.tries + 1] /\ deployment' = deployment
      <4>1. restart.tries + 1 \in Nat
        BY <1>0 DEF Restarts
      <4>2. \A m \in Nat : /\ [restart EXCEPT !.tries = m] \in Restarts
                           /\ [restart EXCEPT !.tries = m].at = restart.at
        BY <1>0 DEF Restarts
      <4> QED
        BY <1>0, <3>1, <3>3, <4>1, <4>2
    <3>4. CASE restart' = At("failed") /\ deployment' = deployment
      <4>1. restart' \in Restarts /\ restart'.at = "failed"
        BY <3>4 DEF At, Restarts
      <4> QED
        BY <1>0, <3>1, <3>4, <4>1
    <3> QED
      BY <3>1, <3>2, <3>3, <3>4
  <2>3. \/ ScaleDown \/ ScaleUp
        \/ /\ deployment' = deployment
           /\ \/ restart.at = "waitDown" /\ restart' = At("waitGone")
              \/ restart.at = "waitGone" /\ Active = {} /\ restart' = At("scaleUp")
              \/ restart.at = "waitUp" /\ restart' = At("returned")
              \/ restart.at # "idle" /\ restart' = At("failed")
    BY <1>5 DEF RestartSteps, WaitDown, WaitGone, WaitUp, SeePodFailure, WaitGivesUp, clusterVars,
       Raise, PodsTerminated
  <2>4. \A step \in {"waitGone", "scaleUp", "returned", "failed"} :
          At(step) \in Restarts /\ At(step).at = step
    BY DEF At, Restarts
  <2>5. /\ restart' \in Restarts /\ restart.at # "idle"
        /\ deployment' \in Deployments /\ deployment'.template = deployment.template
        /\ \/ restart.at = "scaleDown" /\ restart'.at = "scaleDown" /\ deployment' = deployment
           \/ restart.at = "scaleDown" /\ restart'.at = "waitDown" /\ deployment'.replicas = 0
           \/ restart.at = "scaleUp" /\ restart'.at = "scaleUp" /\ deployment' = deployment
           \/ restart.at = "scaleUp" /\ restart'.at = "waitUp"
           \/ restart.at = "waitDown" /\ restart'.at = "waitGone" /\ deployment' = deployment
           \/ restart.at = "waitGone" /\ Active = {} /\ restart'.at = "scaleUp" /\ deployment' = deployment
           \/ restart.at = "waitUp" /\ restart'.at = "returned" /\ deployment' = deployment
           \/ restart'.at = "failed"
    <3>1. CASE ScaleDown
      BY <1>0, <2>2, <3>1 DEF ScaleDown
    <3>2. CASE ScaleUp
      BY <1>0, <2>2, <3>2 DEF ScaleUp
    <3>3. CASE ~ ScaleDown /\ ~ ScaleUp
      BY <1>0, <2>3, <2>4, <3>3
    <3> QED
      BY <3>1, <3>2, <3>3
  <2>6. ClusterOf(Template, Contents)'
    BY <1>0, <2>1, <2>5 DEF RuntimeTypeOK, ClusterOf, Deployments
  <2>7. RuntimeTypeOK' /\ ForwardInv'
    BY <1>0, <2>1, <2>5, <2>6 DEF RuntimeTypeOK, ForwardInv, forwardVars
  <2>8. Active' = Active /\ (FreshPods' <=> FreshPods)
    BY <2>1, <2>5, SamePods
  <2>9. RestartInv'
    BY <1>0, <2>1, <2>5, <2>8, NoPods DEF RestartInv
  <2>10. SchemaInv'
    BY <1>0, <2>1, <2>5 DEF SchemaInv
  <2> QED
    BY <2>7, <2>9, <2>10 DEF RuntimeInv
<1> QED
  BY <1>1, <1>2, <1>3, <1>4, <1>5

\* The cluster and the operator go on between the steps of a file: a pod that is made is a
\* fresh one, and the operator changes no pod and nothing that is stored.
LEMMA ClusterKeepsInv ==
  ASSUME RuntimeInv, OtherSteps
  PROVE  RuntimeInv'
<1>1. /\ RuntimeTypeOK /\ ForwardInv /\ RestartInv /\ SchemaInv
      /\ ClusterOf(Template, Contents) /\ (ClusterSteps \/ OperatorReconciles)
      /\ restart' = restart /\ UNCHANGED forwardVars /\ run' = run /\ worker' = worker /\ given' = given
  BY DEF RuntimeInv, RuntimeTypeOK, OtherSteps, harnessVars
<1>2. CASE ClusterSteps
  <2>1. /\ ClusterOf(Template, Contents)'
        /\ deployment' = deployment /\ store' = store
        /\ \A q \in Active' : Remains(pods'[q]) \/ Made(pods'[q])
    BY <1>1, <1>2, ClusterStepEffect
  <2>2. FreshPods => FreshPods'
    BY <1>1, <2>1 DEF FreshPods, Remains, Made, SchemaInv
  <2>3. RuntimeTypeOK' /\ ForwardInv' /\ SchemaInv'
    BY <1>1, <2>1 DEF RuntimeTypeOK, ForwardInv, SchemaInv, forwardVars
  <2>4. RestartInv'
    BY <1>1, <2>2 DEF RestartInv
  <2> QED
    BY <2>3, <2>4 DEF RuntimeInv
<1>3. CASE OperatorReconciles
  <2>1. /\ given.operator /\ status' = status /\ pods' = pods /\ store' = store
        /\ \E replicas \in {deployment.replicas, 1}, template \in {deployment.template, ChartTemplate} :
             deployment' = [deployment EXCEPT !.replicas = replicas, !.template = template]
    BY <1>3 DEF OperatorReconciles
  <2>2. PICK replicas \in {deployment.replicas, 1}, template \in {deployment.template, ChartTemplate} :
          deployment' = [deployment EXCEPT !.replicas = replicas, !.template = template]
    BY <2>1
  <2>3. deployment \in Deployments /\ ChartTemplate \in Template /\ ChartTemplate.vars = "none"
    BY <1>1, RuntimeTypes DEF Template, ChartTemplate
  <2>4. replicas \in Nat /\ template \in Template
    BY <2>3 DEF Deployments
  <2>5. deployment' \in Deployments /\ deployment'.template = template
    BY <2>2, <2>3, <2>4 DEF Deployments
  <2>6. ClusterOf(Template, Contents)'
    BY <1>1, <2>1, <2>5 DEF ClusterOf, Deployments
  <2>7. FreshPods => FreshPods'
    BY <1>1, <2>1 DEF FreshPods, Active
  <2>8. RuntimeTypeOK' /\ ForwardInv'
    BY <1>1, <2>6 DEF RuntimeTypeOK, ForwardInv, forwardVars
  <2>9. SchemaInv'
    BY <1>1, <2>1, <2>3, <2>5 DEF SchemaInv
  <2>10. RestartInv'
    BY <1>1, <2>7 DEF RestartInv
  <2> QED
    BY <2>8, <2>9, <2>10 DEF RuntimeInv
<1> QED
  BY <1>1, <1>2, <1>3

\* What the runs of the runtime project keep.
THEOREM RuntimeInvariant == RuntimeSpec => []RuntimeInv
<1>1. RuntimeInit => RuntimeInv
  BY RuntimeInvInit
<1>2. ASSUME RuntimeInv, [RuntimeNext]_runtimeVars
      PROVE  RuntimeInv'
  <2>1. CASE HarnessSteps
    BY <1>2, <2>1, FirstFilesKeepInv, SchemaFileKeepsInv, ForwardFileKeepsInv, ConnectKeepsInv,
       RestartKeepsInv DEF HarnessSteps, FileSteps
  <2>2. CASE OtherSteps
    BY <1>2, <2>2, ClusterKeepsInv
  <2>3. CASE UNCHANGED runtimeVars
    <3>1. ClusterOf(Template, Contents)'
      BY <1>2, <2>3 DEF RuntimeInv, RuntimeTypeOK, ClusterOf, runtimeVars, clusterVars
    <3>2. Active' = Active /\ (FreshPods' <=> FreshPods)
      BY <2>3, SamePods DEF runtimeVars, clusterVars, harnessVars
    <3>3. RuntimeTypeOK' /\ ForwardInv' /\ SchemaInv'
      BY <1>2, <2>3, <3>1 DEF RuntimeInv, RuntimeTypeOK, ForwardInv, SchemaInv, runtimeVars,
         clusterVars, forwardVars, harnessVars
    <3>4. RestartInv'
      BY <1>2, <2>3, <3>2 DEF RuntimeInv, RestartInv, runtimeVars, clusterVars, harnessVars
    <3> QED
      BY <3>3, <3>4 DEF RuntimeInv
  <2> QED
    BY <1>2, <2>1, <2>2, <2>3 DEF RuntimeNext
<1> QED
  BY <1>1, <1>2, PTL DEF RuntimeSpec

\* A restart of the deployment returns only when every pod that is not ending has read what
\* was written before it and, where no operator changes it meanwhile, has the template the
\* deployment has.
THEOREM RestartRunsWhatWasWritten == RuntimeSpec => []PodsRunWhatWasWritten
<1>1. RuntimeInv => PodsRunWhatWasWritten
  BY DEF RuntimeInv, RestartInv, FreshPods, PodsRunWhatWasWritten
<1> QED
  BY <1>1, RuntimeInvariant, PTL

\* In a job without an external database, the pods that the tests of the schema mode look at
\* connect as the restricted user and divide one database by schemas.
THEOREM SchemaTestsSeeTheSchemaUser == RuntimeSpec => []SchemaPodsUseSchemaUser
<1>1. ASSUME RuntimeInv, run.step = "verify", ~ given.external, NEW p \in Active
      PROVE  pods[p].reads.database = "schema" /\ Credentials(pods[p]) = "schema"
  <2>1. run.file = "schema"
    BY <1>1 DEF RuntimeInv, ForwardInv, SetupSteps
  <2>2. /\ store.psql = "schema" /\ store.database = "schema"
        /\ deployment.template.vars # "cred"
        /\ deployment.template.vars = "psql" \/ given.operator
    BY <1>1, <2>1 DEF RuntimeInv, SchemaInv
  <2>3. deployment.template.vars \in {"none", "psql", "cred"}
    BY <1>1, RuntimeTypes DEF RuntimeInv, Deployments, Template
  <2>4. /\ pods[p].reads = store
        /\ given.operator \/ pods[p].template = deployment.template
        /\ ~ given.operator \/ pods[p].template.vars # "cred"
    BY <1>1 DEF RuntimeInv, RestartInv, FreshPods
  <2>5. CASE given.operator
    <3>1. pods[p].template.vars \in {"none", "psql", "cred"}
      <4>1. pods \in Seq(PodOf(Template, Contents))
        BY <1>1 DEF RuntimeInv, RuntimeTypeOK, ClusterOf
      <4>2. pods[p].template \in Template
        BY <4>1, ActivePod
      <4> QED
        BY <4>2 DEF Template
    <3> QED
      BY <2>2, <2>4, <2>5, <3>1 DEF Credentials
  <2>6. CASE ~ given.operator
    BY <2>2, <2>3, <2>4, <2>6 DEF Credentials
  <2> QED
    BY <2>5, <2>6
<1>2. RuntimeInv => SchemaPodsUseSchemaUser
  BY <1>1 DEF SchemaPodsUseSchemaUser
<1> QED
  BY <1>2, RuntimeInvariant, PTL

\* However starts, stops, restarts, exits and failed connections interleave, a process never
\* has two port-forwards running.
THEOREM OneForwardAtATime == RuntimeSpec => []OneForward
<1>1. RuntimeInv => OneForward
  BY DEF RuntimeInv, ForwardInv, OneForward, Alive
<1> QED
  BY <1>1, RuntimeInvariant, PTL

-----------------------------------------------------------------------------
(* The auth providers' suites. *)

SuiteStates ==
  {"load", "provision", "secrets", "enable", "configure", "update", "app", "plugins", "deploy", "synced", "login",
   "restart", "down", "last down", "cleanup", "done"}

Suites ==
  [at : SuiteStates, local : BOOLEAN, preparing : BOOLEAN, failed : BOOLEAN, left : Nat]
Instances ==
  [files : Configs, child : {"none", "starting", "serving", "exited"}, site : SUBSET Configs]

AuthTypeOK ==
  /\ ClusterOf(Configs, Configs)
  /\ suite \in Suites /\ memory \in Configs /\ instance \in Instances

\* On a cluster a suite ends where the generation of its deployment is to be read: the
\* namespace is new, and nothing has created a deployment in it.
RemoteInv ==
  ~ suite.local =>
    /\ suite.at \in {"load", "provision", "secrets", "enable", "update", "cleanup", "done"}
    /\ suite.at \in {"secrets", "enable", "update"} => ~ deployment.exists
    /\ instance.child = "none"

\* Locally the files hold the configuration in memory once both are written, and what a
\* server started after that answers with is what they hold.
LocalInv ==
  suite.local =>
    /\ suite.at = "plugins" => instance.files.app = memory.app
    /\ suite.at \in {"restart", "down", "deploy", "synced", "login"} => instance.files = memory
    /\ suite.at = "synced" /\ instance.child = "serving" => instance.site \subseteq {memory}
    /\ suite.at = "login" => instance.site \subseteq {memory}

AuthInv == AuthTypeOK /\ RemoteInv /\ LocalInv

\* What a step of the suite can count on of the types.
LEMMA AuthTypes ==
  ASSUME AuthTypeOK
  PROVE  /\ suite \in Suites /\ memory \in Configs /\ instance \in Instances
         /\ memory.app \in Nat /\ memory.plugins \in Nat
         /\ instance.files \in Configs
         /\ Config(0, 0) \in Configs
BY DEF AuthTypeOK, Configs, Instances, Config

\* A step to a place of the suite changes nothing else of it.
LEMMA StepEffect ==
  ASSUME suite \in Suites, NEW step \in SuiteStates, Step(step)
  PROVE  suite' \in Suites /\ suite'.at = step /\ suite'.local = suite.local
BY DEF Step, Suites

\* The type of the cluster says nothing of the suite.
LEMMA SameCluster ==
  ASSUME AuthTypeOK, UNCHANGED clusterVars
  PROVE  ClusterOf(Configs, Configs)' /\ deployment' = deployment
BY DEF AuthTypeOK, ClusterOf, clusterVars

\* Every suite begins with the invariant.
LEMMA AuthInvInit == AuthInit => AuthInv
<1> SUFFICES ASSUME AuthInit
             PROVE  AuthInv
  OBVIOUS
<1>1. PICK local \in BOOLEAN :
        suite = [at |-> "load", local |-> local, preparing |-> TRUE, failed |-> FALSE, left |-> Cases]
  BY DEF AuthInit, Suite
<1>2. suite \in Suites /\ suite.at = "load"
  BY <1>1, CasesAssumption DEF Suites, SuiteStates
<1>3. memory \in Configs /\ instance \in Instances /\ instance.child = "none"
  BY DEF AuthInit, Config, Configs, Instances
<1> QED
  BY <1>2, <1>3 DEF AuthInit, AuthInv, AuthTypeOK, RemoteInv, LocalInv

\* A suite that is cleaned up or done keeps the invariant, whatever it leaves.
LEMMA SuiteEnds ==
  ASSUME AuthInv, suite' \in Suites, suite'.at \in {"cleanup", "done"}, suite'.local = suite.local,
         UNCHANGED <<memory, instance, clusterVars>>
  PROVE  AuthInv'
<1>1. AuthTypeOK'
  BY SameCluster DEF AuthInv, AuthTypeOK
<1>2. RemoteInv' /\ LocalInv'
  BY DEF AuthInv, RemoteInv, LocalInv
<1> QED
  BY <1>1, <1>2 DEF AuthInv

\* The configuration, and the namespace or the files, of a suite that begins.
LEMMA LoadKeepsInv ==
  ASSUME AuthInv, LoadAllConfigs \/ ProvisionNamespace \/ AddSecretData
  PROVE  AuthInv'
<1>0. AuthTypeOK /\ RemoteInv /\ LocalInv /\ memory \in Configs
  BY AuthTypes DEF AuthInv
<1>1. ASSUME NEW step \in {"provision", "enable"}, Step(step), memory' \in Configs,
             UNCHANGED <<instance, clusterVars>>,
             ~ suite.local => instance.child = "none",
             step = "enable" /\ ~ suite.local => ~ deployment.exists
      PROVE  AuthInv'
  <2>1. suite' \in Suites /\ suite'.at = step /\ suite'.local = suite.local
    BY <1>0, <1>1, AuthTypes, StepEffect DEF SuiteStates
  <2>2. AuthTypeOK' /\ deployment' = deployment
    BY <1>0, <1>1, <2>1, SameCluster DEF AuthTypeOK
  <2> QED
    BY <1>1, <2>1, <2>2 DEF AuthInv, RemoteInv, LocalInv
<1>2. CASE LoadAllConfigs
  <2>1. Step("provision") /\ memory' = Config(0, 0) /\ UNCHANGED <<instance, clusterVars>>
    BY <1>2 DEF LoadAllConfigs
  <2>2. memory' \in Configs /\ (~ suite.local => instance.child = "none")
    BY <1>0, <2>1, AuthTypes DEF RemoteInv
  <2> QED
    BY <1>1, <2>1, <2>2
<1>3. CASE AddSecretData
  <2>1. suite.at = "secrets" /\ Step("enable") /\ UNCHANGED <<memory, instance, clusterVars>>
    BY <1>3 DEF AddSecretData, SuiteAt
  <2>2. ~ suite.local => instance.child = "none" /\ ~ deployment.exists
    BY <1>0, <2>1 DEF RemoteInv
  <2> QED
    BY <1>0, <1>1, <2>1, <2>2
<1>4. CASE ProvisionNamespace
  <2>1. suite.at = "provision" /\ Step("secrets") /\ memory' = memory
    BY <1>4 DEF ProvisionNamespace, SuiteAt
  <2>2. suite' \in Suites /\ suite'.at = "secrets" /\ suite'.local = suite.local
    BY <1>0, <2>1, AuthTypes, StepEffect DEF SuiteStates
  <2>3. CASE suite.local
    <3>1. instance' = [instance EXCEPT !.files = memory] /\ UNCHANGED clusterVars
      BY <1>4, <2>3 DEF ProvisionNamespace
    <3>2. instance' \in Instances
      BY <1>0, <3>1, AuthTypes DEF Instances
    <3>3. AuthTypeOK'
      BY <1>0, <2>1, <2>2, <3>1, <3>2, SameCluster DEF AuthTypeOK
    <3> QED
      BY <2>2, <2>3, <3>3 DEF AuthInv, RemoteInv, LocalInv
  <2>4. CASE ~ suite.local
    <3>1. NewNamespace(memory) /\ instance' = instance
      BY <1>4, <2>4 DEF ProvisionNamespace
    <3>2. /\ deployment' = [exists |-> FALSE, replicas |-> 0, template |-> memory]
          /\ status' = [available |-> 0] /\ pods' = <<>> /\ store' = memory
      BY <3>1 DEF NewNamespace, Absent, NoStatus, Serve
    <3>3. ClusterOf(Configs, Configs)'
      BY <1>0, <3>2 DEF ClusterOf
    <3>4. AuthTypeOK'
      BY <1>0, <2>1, <2>2, <3>1, <3>3 DEF AuthTypeOK
    <3> QED
      BY <1>0, <2>2, <2>4, <3>1, <3>2, <3>4 DEF AuthInv, RemoteInv, LocalInv
  <2> QED
    BY <2>3, <2>4
<1> QED
  BY <1>2, <1>3, <1>4

\* The steps that change the configuration in memory, and the one that comes before the
\* writes: on a cluster it is the last.
LEMMA MemoryKeepsInv ==
  ASSUME AuthInv, EnableProvider \/ SetAppConfigProperty \/ UpdateAllConfigs
  PROVE  AuthInv'
<1>0. AuthTypeOK /\ RemoteInv /\ LocalInv
  BY DEF AuthInv
<1>1. ASSUME suite.at \in {"enable", "configure"}, Step("update"), memory' \in Configs,
             UNCHANGED <<instance, clusterVars>>
      PROVE  AuthInv'
  <2>1. suite' \in Suites /\ suite'.at = "update" /\ suite'.local = suite.local
    BY <1>0, <1>1, AuthTypes, StepEffect DEF SuiteStates
  <2>2. AuthTypeOK' /\ deployment' = deployment
    BY <1>0, <1>1, <2>1, SameCluster DEF AuthTypeOK
  <2> QED
    BY <1>0, <1>1, <2>1, <2>2 DEF AuthInv, RemoteInv, LocalInv
<1>2. CASE EnableProvider
  <2>1. setDynamicPluginEnabled(memory) \in Configs
    BY <1>0, AuthTypes DEF setDynamicPluginEnabled, Configs
  <2>2. \A config \in Configs : setConfigProperty(config) \in Configs
    BY DEF setConfigProperty, Configs
  <2>3. EnableLoginWithIngestion(memory) \in Configs
    BY <2>1, <2>2 DEF EnableLoginWithIngestion
  <2> QED
    BY <1>1, <1>2, <2>3 DEF EnableProvider, SuiteAt
<1>3. CASE SetAppConfigProperty
  <2>1. memory' = [memory EXCEPT !.app = memory.app + 1]
    BY <1>3 DEF SetAppConfigProperty, setConfigProperty
  <2>2. memory' \in Configs
    BY <1>0, <2>1, AuthTypes DEF Configs
  <2> QED
    BY <1>1, <1>3, <2>2 DEF SetAppConfigProperty, SuiteAt
<1>4. CASE UpdateAllConfigs
  <2>1. /\ suite.at = "update" /\ UNCHANGED <<memory, instance, clusterVars>>
        /\ \/ suite.local /\ Step("app")
           \/ deployment.exists /\ Step("app")
           \/ Step("cleanup")
    BY <1>4 DEF UpdateAllConfigs, SuiteAt, GenerationRead, SuiteFails
  <2>2. CASE Step("cleanup")
    <3>1. suite' \in Suites /\ suite'.at = "cleanup" /\ suite'.local = suite.local
      BY <1>0, <2>2, AuthTypes, StepEffect DEF SuiteStates
    <3> QED
      BY <2>1, <3>1, SuiteEnds
  <2>3. CASE suite.local /\ Step("app")
    <3>1. suite' \in Suites /\ suite'.at = "app" /\ suite'.local = suite.local
      BY <1>0, <2>3, AuthTypes, StepEffect DEF SuiteStates
    <3>2. AuthTypeOK'
      BY <1>0, <2>1, <3>1, SameCluster DEF AuthTypeOK
    <3> QED
      BY <2>3, <3>1, <3>2 DEF AuthInv, RemoteInv, LocalInv
  <2> QED
    BY <1>0, <2>1, <2>2, <2>3 DEF RemoteInv
<1> QED
  BY <1>2, <1>3, <1>4

\* The two writes, which bring the files to what memory holds.
LEMMA WriteKeepsInv ==
  ASSUME AuthInv, UpdateAppConfig \/ UpdateDynamicPluginsConfig
  PROVE  AuthInv'
<1>0. AuthTypeOK /\ RemoteInv /\ LocalInv
  BY DEF AuthInv
<1>1. suite.at \in {"app", "plugins"}
  BY DEF UpdateAppConfig, UpdateDynamicPluginsConfig, SuiteAt
<1>2. suite.local
  BY <1>0, <1>1 DEF RemoteInv
<1>3. Persisted = instance.files
  BY <1>2 DEF Persisted
<1>4. ASSUME NEW config \in Configs, Persist(config)
      PROVE  /\ instance' \in Instances /\ instance'.files = config
             /\ memory' = memory /\ ClusterOf(Configs, Configs)'
  <2>1. /\ instance' = [instance EXCEPT !.files = config]
        /\ memory' = memory /\ UNCHANGED clusterVars
    BY <1>2, <1>4 DEF Persist, clusterVars
  <2> QED
    BY <1>0, <1>4, <2>1, AuthTypes, SameCluster DEF Instances
<1>5. CASE UpdateAppConfig
  <2>1. suite.at = "app" /\ Persist([instance.files EXCEPT !.app = memory.app]) /\ Step("plugins")
    BY <1>3, <1>5 DEF UpdateAppConfig, SuiteAt
  <2>2. /\ [instance.files EXCEPT !.app = memory.app] \in Configs
        /\ [instance.files EXCEPT !.app = memory.app].app = memory.app
    BY <1>0, AuthTypes DEF Configs
  <2>3. suite' \in Suites /\ suite'.at = "plugins" /\ suite'.local = suite.local
    BY <1>0, <2>1, AuthTypes, StepEffect DEF SuiteStates
  <2>4. /\ instance' \in Instances /\ instance'.files.app = memory.app
        /\ memory' = memory /\ ClusterOf(Configs, Configs)'
    BY <1>4, <2>1, <2>2
  <2>5. AuthTypeOK'
    BY <1>0, <2>3, <2>4 DEF AuthTypeOK
  <2> QED
    BY <1>2, <2>3, <2>4, <2>5 DEF AuthInv, RemoteInv, LocalInv
<1>6. CASE UpdateDynamicPluginsConfig
  <2>1. /\ suite.at = "plugins" /\ Persist([instance.files EXCEPT !.plugins = memory.plugins])
        /\ Step(IF suite.preparing THEN "deploy" ELSE "restart")
    BY <1>3, <1>6 DEF UpdateDynamicPluginsConfig, SuiteAt
  <2>2. [instance.files EXCEPT !.plugins = memory.plugins] = memory
    <3>1. instance.files.app = memory.app
      BY <1>0, <1>2, <2>1 DEF LocalInv
    <3> QED
      BY <1>0, <3>1, AuthTypes DEF Configs
  <2>3. /\ suite' \in Suites /\ suite'.at \in {"deploy", "restart"} /\ suite'.local = suite.local
    BY <1>0, <2>1, AuthTypes, StepEffect DEF SuiteStates
  <2>4. /\ instance' \in Instances /\ instance'.files = memory
        /\ memory' = memory /\ ClusterOf(Configs, Configs)'
    BY <1>0, <1>4, <2>1, <2>2, AuthTypes
  <2>5. AuthTypeOK'
    BY <1>0, <2>3, <2>4 DEF AuthTypeOK
  <2> QED
    BY <1>2, <2>3, <2>4, <2>5 DEF AuthInv, RemoteInv, LocalInv
<1> QED
  BY <1>5, <1>6

\* The steps of a suite between its writes and its end.
LEMMA InstanceKeepsInv ==
  ASSUME AuthInv,
         \/ CreateBackstageDeployment \/ WaitForSynced \/ CallFails \/ RunLoginCase
         \/ RestartLocalDeployment \/ HomepageDown \/ Cleanup
  PROVE  AuthInv'
<1>0. AuthTypeOK /\ RemoteInv /\ LocalInv /\ suite \in Suites /\ instance \in Instances
  BY AuthTypes DEF AuthInv
<1>1. ASSUME suite' \in Suites, suite'.local = suite.local, suite.local,
             instance' \in Instances, UNCHANGED <<memory, clusterVars>>, LocalInv'
      PROVE  AuthInv'
  BY <1>0, <1>1, SameCluster DEF AuthInv, AuthTypeOK, RemoteInv
<1>2. CASE CreateBackstageDeployment
  <2>1. /\ suite.at = "deploy" /\ suite.local /\ UNCHANGED <<memory, clusterVars>>
        /\ instance' = [instance EXCEPT !.child = "starting"]
        /\ suite' = [suite EXCEPT !.preparing = FALSE, !.at = "synced"]
    BY <1>2 DEF CreateBackstageDeployment, SuiteAt
  <2>2. /\ instance' \in Instances /\ instance'.child = "starting"
        /\ instance'.files = instance.files
    BY <1>0, <2>1 DEF Instances
  <2>3. suite' \in Suites /\ suite'.at = "synced" /\ suite'.local = suite.local
    BY <1>0, <2>1 DEF Suites, SuiteStates
  <2>4. LocalInv'
    BY <1>0, <2>1, <2>2, <2>3 DEF LocalInv
  <2> QED
    BY <1>1, <2>1, <2>2, <2>3, <2>4
<1>3. CASE WaitForSynced
  <2>1. /\ suite.at = "synced" /\ instance.child = "serving" /\ Step("login")
        /\ UNCHANGED <<memory, instance, clusterVars>>
    BY <1>3 DEF WaitForSynced, SuiteAt
  <2>2. suite' \in Suites /\ suite'.at = "login" /\ suite'.local = suite.local
    BY <1>0, <2>1, StepEffect DEF SuiteStates
  <2>3. LocalInv'
    BY <1>0, <2>1, <2>2 DEF LocalInv
  <2> QED
    BY <1>0, <1>1, <2>1, <2>2, <2>3 DEF RemoteInv
<1>4. CASE CallFails
  <2>1. /\ suite' = [suite EXCEPT !.at = "cleanup", !.failed = TRUE]
        /\ UNCHANGED <<memory, instance, clusterVars>>
    BY <1>4 DEF CallFails
  <2>2. suite' \in Suites /\ suite'.at = "cleanup" /\ suite'.local = suite.local
    BY <1>0, <2>1 DEF Suites, SuiteStates
  <2> QED
    BY <2>1, <2>2, SuiteEnds
<1>5. CASE RunLoginCase
  <2>1. /\ suite.at = "login" /\ UNCHANGED <<memory, instance, clusterVars>>
        /\ \/ suite.left > 0 /\ suite' = [suite EXCEPT !.at = "configure", !.left = suite.left - 1]
           \/ Step("cleanup")
    BY <1>5 DEF RunLoginCase, SuiteAt
  <2>2. /\ suite' \in Suites /\ suite'.at \in {"configure", "cleanup"} /\ suite'.local = suite.local
    <3>1. CASE Step("cleanup")
      BY <1>0, <3>1, StepEffect DEF SuiteStates
    <3>2. CASE suite.left > 0 /\ suite' = [suite EXCEPT !.at = "configure", !.left = suite.left - 1]
      <4>1. suite.left - 1 \in Nat
        BY <1>0, <3>2 DEF Suites
      <4>2. \A n \in Nat : LET s == [suite EXCEPT !.at = "configure", !.left = n]
                          IN s \in Suites /\ s.at = "configure" /\ s.local = suite.local
        BY <1>0 DEF Suites, SuiteStates
      <4> QED
        BY <3>2, <4>1, <4>2
    <3> QED
      BY <2>1, <3>1, <3>2
  <2>3. LocalInv'
    BY <2>2 DEF LocalInv
  <2> QED
    BY <1>0, <1>1, <2>1, <2>2, <2>3 DEF RemoteInv
<1>6. ASSUME NEW killed \in {"down", "last down"}, NEW without \in {"deploy", "done"},
             KillRunningProcess(killed, without),
             \/ suite.at = "restart" /\ suite.local /\ killed = "down" /\ without = "deploy"
             \/ suite.at = "cleanup" /\ killed = "last down" /\ without = "done"
      PROVE  AuthInv'
  <2>1. /\ UNCHANGED <<memory, clusterVars>>
        /\ \/ Step(without) /\ instance' = instance
           \/ /\ Step("cleanup") \/ Step("done")
              /\ instance' = instance
           \/ /\ instance.child \in {"starting", "serving"} /\ Step(killed)
              /\ instance' = [instance EXCEPT !.child = "none"]
    BY <1>6 DEF KillRunningProcess
  <2>2. CASE /\ Step("cleanup") \/ Step("done")
             /\ instance' = instance
    <3>1. suite' \in Suites /\ suite'.at \in {"cleanup", "done"} /\ suite'.local = suite.local
      BY <1>0, <2>2, StepEffect DEF SuiteStates
    <3> QED
      BY <2>1, <2>2, <3>1, SuiteEnds
  <2>3. CASE Step(without) /\ instance' = instance
    <3>1. suite' \in Suites /\ suite'.at = without /\ suite'.local = suite.local
      BY <1>0, <2>3, StepEffect DEF SuiteStates
    <3>2. CASE without = "done"
      BY <2>1, <2>3, <3>1, <3>2, SuiteEnds
    <3>3. CASE without = "deploy"
      <4>1. suite.local /\ suite.at = "restart"
        BY <1>6, <3>3
      <4>2. LocalInv'
        BY <1>0, <2>1, <2>3, <3>1, <3>3, <4>1 DEF LocalInv
      <4> QED
        BY <1>0, <1>1, <2>1, <2>3, <3>1, <4>1, <4>2
    <3> QED
      BY <3>2, <3>3
  <2>4. CASE /\ instance.child \in {"starting", "serving"} /\ Step(killed)
             /\ instance' = [instance EXCEPT !.child = "none"]
    <3>1. suite.local
      BY <1>0, <2>4 DEF RemoteInv
    <3>2. suite' \in Suites /\ suite'.at = killed /\ suite'.local = suite.local
      BY <1>0, <2>4, StepEffect DEF SuiteStates
    <3>3. instance' \in Instances /\ instance'.files = instance.files
      BY <1>0, <2>4 DEF Instances
    <3>4. LocalInv'
      BY <1>0, <1>6, <2>1, <3>1, <3>2, <3>3 DEF LocalInv
    <3> QED
      BY <1>1, <2>1, <3>1, <3>2, <3>3, <3>4
  <2> QED
    BY <2>1, <2>2, <2>3, <2>4
<1>7. CASE RestartLocalDeployment
  BY <1>6, <1>7 DEF RestartLocalDeployment, SuiteAt
<1>8. CASE Cleanup
  BY <1>6, <1>8 DEF Cleanup, SuiteAt
<1>9. CASE HomepageDown
  <2>1. /\ suite.at \in {"down", "last down"} /\ UNCHANGED <<memory, instance, clusterVars>>
        /\ \/ suite.at = "down" /\ Step("deploy")
           \/ Step("cleanup") \/ Step("done")
    BY <1>9 DEF HomepageDown, SuiteAt
  <2>2. CASE Step("cleanup") \/ Step("done")
    <3>1. suite' \in Suites /\ suite'.at \in {"cleanup", "done"} /\ suite'.local = suite.local
      BY <1>0, <2>2, StepEffect DEF SuiteStates
    <3> QED
      BY <2>1, <3>1, SuiteEnds
  <2>3. CASE suite.at = "down" /\ Step("deploy")
    <3>1. suite' \in Suites /\ suite'.at = "deploy" /\ suite'.local = suite.local
      BY <1>0, <2>3, StepEffect DEF SuiteStates
    <3>2. LocalInv'
      BY <1>0, <2>1, <2>3, <3>1 DEF LocalInv
    <3> QED
      BY <1>0, <1>1, <2>1, <2>3, <3>1, <3>2 DEF RemoteInv
  <2> QED
    BY <2>1, <2>2, <2>3
<1> QED
  BY <1>2, <1>3, <1>4, <1>5, <1>7, <1>8, <1>9

\* A server answers with the files it started from, and only once nothing else answers.
LEMMA ServerKeepsInv ==
  ASSUME AuthInv, suite.local, ServerMoves
  PROVE  AuthInv'
<1>0. AuthTypeOK /\ LocalInv /\ instance \in Instances
  BY AuthTypes DEF AuthInv
<1>1. suite' = suite /\ memory' = memory /\ UNCHANGED clusterVars
  BY DEF ServerMoves
<1>2. /\ instance' \in Instances /\ instance'.files = instance.files
      /\ \/ instance'.site \in {{}, {instance.files}}
         \/ instance'.site = instance.site /\ instance'.child = "exited"
  <2>1. CASE /\ instance.child = "starting"
             /\ instance' = [instance EXCEPT !.child = "serving", !.site = {instance.files}]
    BY <1>0, <2>1 DEF Instances
  <2>2. CASE \E site \in {{}, instance.site} :
               instance' = [instance EXCEPT !.child = "exited", !.site = site]
    BY <1>0, <2>2 DEF Instances
  <2>3. CASE instance' = [instance EXCEPT !.site = {}]
    BY <1>0, <2>3 DEF Instances
  <2>4. \/ /\ instance.child = "starting"
           /\ instance' = [instance EXCEPT !.child = "serving", !.site = {instance.files}]
        \/ instance' = [instance EXCEPT !.child = "exited",
                          !.site = IF instance.child = "serving" THEN {} ELSE instance.site]
        \/ instance' = [instance EXCEPT !.site = {}]
    BY DEF ServerMoves
  <2>5. (IF instance.child = "serving" THEN {} ELSE instance.site) \in {{}, instance.site}
    OBVIOUS
  <2> QED
    BY <2>1, <2>2, <2>3, <2>4, <2>5
<1>3. LocalInv'
  BY <1>0, <1>1, <1>2 DEF LocalInv
<1> QED
  BY <1>0, <1>1, <1>2, <1>3, SameCluster DEF AuthInv, AuthTypeOK, RemoteInv

\* The cluster of a suite goes on: no deployment comes of it.
LEMMA ClusterKeepsAuthInv ==
  ASSUME AuthInv, ClusterSteps, UNCHANGED authVars
  PROVE  AuthInv'
<1>1. suite' = suite /\ memory' = memory /\ instance' = instance
  BY DEF authVars
<1>2. ClusterOf(Configs, Configs)' /\ deployment' = deployment
  <2>1. ClusterOf(Configs, Configs)
    BY DEF AuthInv, AuthTypeOK
  <2> QED
    BY <2>1, ClusterStepEffect
<1> QED
  BY <1>1, <1>2 DEF AuthInv, AuthTypeOK, RemoteInv, LocalInv

\* What the suites keep.
THEOREM AuthInvariant == AuthSpec => []AuthInv
<1>1. AuthInit => AuthInv
  BY AuthInvInit
<1>2. ASSUME AuthInv, [AuthNext]_<<clusterVars, authVars>>
      PROVE  AuthInv'
  <2>1. CASE SuiteSteps
    BY <1>2, <2>1, LoadKeepsInv, MemoryKeepsInv, WriteKeepsInv, InstanceKeepsInv DEF SuiteSteps
  <2>2. CASE SuiteEnvironment
    BY <1>2, <2>2, ServerKeepsInv, ClusterKeepsAuthInv DEF SuiteEnvironment
  <2>3. CASE UNCHANGED <<clusterVars, authVars>>
    <3>1. suite' = suite /\ memory' = memory /\ instance' = instance /\ UNCHANGED clusterVars
      BY <2>3 DEF authVars
    <3>2. AuthTypeOK' /\ deployment' = deployment
      BY <1>2, <3>1, SameCluster DEF AuthInv, AuthTypeOK
    <3> QED
      BY <1>2, <3>1, <3>2 DEF AuthInv, RemoteInv, LocalInv
  <2> QED
    BY <1>2, <2>1, <2>2, <2>3 DEF AuthNext
<1> QED
  BY <1>1, <1>2, PTL DEF AuthSpec

\* A login of an auth suite meets a server that started after the last change of the
\* configuration and has read all of it, through any number of restarts and failures.
THEOREM LoginMeetsTheConfiguration == AuthSpec => []LoginMeetsConfiguredInstance
<1>1. AuthInv => LoginMeetsConfiguredInstance
  <2> SUFFICES ASSUME AuthInv, suite.at = "login"
               PROVE  instance.site \subseteq {memory}
    BY DEF LoginMeetsConfiguredInstance, SuiteAt
  <2>1. suite.local
    BY DEF AuthInv, RemoteInv
  <2> QED
    BY <2>1 DEF AuthInv, LocalInv
<1> QED
  BY <1>1, AuthInvariant, PTL

\* On a cluster no suite gets past the start of updateAllConfigs, whatever the namespace
\* held before: the generation read there is of a deployment that nothing has created yet.
\* No configuration is updated, and no instance created to log in to.
StopsAtTheGeneration ==
  ~ suite.local =>
    suite.at \in {"load", "provision", "secrets", "enable", "update", "cleanup", "done"}

THEOREM RemoteSuitesStopAtTheGeneration == AuthSpec => []StopsAtTheGeneration
<1>1. AuthInv => StopsAtTheGeneration
  BY DEF AuthInv, RemoteInv, StopsAtTheGeneration
<1> QED
  BY <1>1, AuthInvariant, PTL

=============================================================================
