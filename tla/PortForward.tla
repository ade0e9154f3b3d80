----------------------------- MODULE PortForward -----------------------------
(* The port-forward of the schema-mode tests (utils/port-forward.ts and its   *)
(* harness) and the database connections made through it                      *)
(* (schema-mode-db.ts): a child process that may fail to start, exit, or      *)
(* outlive its signal, a restart between two tries of a connection, and the   *)
(* choice between TLS and plain connections.                                  *)
EXTENDS Integers

CONSTANT ConnectTries  \* connectWithRetry's maxRetries

VARIABLES
  session,     \* the session: its child (or "none"), the child being stopped, its step
  restarter,   \* the restarter is bound: a failed connection restarts the forward
  connection   \* a connection being made: its step, TLS or plain, its try

forwardVars == <<session, restarter, connection>>

\* A child lives until it exits; one whose spawn failed never did.
Alive == {"unready", "ready"}

NoSession == [child |-> "none", stopped |-> "none", at |-> "idle"]
NoConnection == [at |-> "idle", tls |-> TRUE, try |-> 0]

------------------------------------------------------------------------------
\* start(): a child that is there is returned as it is, ready or not.
Started(s) ==
  IF s.child # "none" THEN {[s EXCEPT !.at = "idle"]}
  ELSE {[s EXCEPT !.child = c, !.at = "starting"] : c \in {"unready", "unspawned"}}

\* Broken: the child is asked to exit and not awaited.
StoppedAtOnce(s, next, after) ==
  [s EXCEPT !.child = "none", !.stopped = s.child, !.at = next]

\* stop(): the child is forgotten first, then asked to exit and awaited.
Stopped(s, next, after) ==
  IF s.child \in {"none", "exited"} THEN [s EXCEPT !.child = "none", !.at = next]
  ELSE [s EXCEPT !.child = "none", !.stopped = s.child, !.at = after]

\* The awaited start ends with the ready pattern, an exit, an error or the timeout.
StartEnds ==
  /\ session.at = "starting"
  /\ \E c \in IF session.child = "unspawned" THEN {"unspawned"} ELSE {"ready", "exited", "unready"} :
       session' = [session EXCEPT !.child = c,
                                  !.at = IF c = "ready" THEN "idle" ELSE "failed"]
  /\ UNCHANGED <<restarter, connection>>

\* A forward breaks off on its own.
ChildExits ==
  /\ session.at # "starting" /\ session.child \in Alive
  /\ session' = [session EXCEPT !.child = "exited"]
  /\ UNCHANGED <<restarter, connection>>

\* SIGTERM, and SIGKILL after five seconds: a child that runs does exit.
StoppedExits ==
  /\ session.at \in {"stopping", "restarting"} /\ session.stopped \in Alive
  /\ LET s == [session EXCEPT !.stopped = "none"]
     IN IF s.at = "restarting" THEN session' \in Started(s)
        ELSE session' = [s EXCEPT !.at = "idle"]
  /\ UNCHANGED <<restarter, connection>>

\* A restart's error ends with a message; the connection is tried again.
RestartFailed ==
  /\ session.at = "failed" /\ connection.at = "between"
  /\ session' = [session EXCEPT !.at = "idle"]
  /\ UNCHANGED <<restarter, connection>>

------------------------------------------------------------------------------
\* What a try to connect answers: through a forward that is not ready nothing
\* does; a server refuses the wrong password, and TLS when it has none.
Answer(tls, server, password) ==
  IF session.child # "ready" THEN "dead"
  ELSE IF tls /\ ~ server.tls THEN "no TLS"
  ELSE IF password \notin server.passwords THEN "denied"
  ELSE "ok"

\* connectWithSslFallback: a first try with TLS decides for all the others.
ConnectFirst(server, password) ==
  /\ connection.at = "first"
  /\ \E answer \in {Answer(TRUE, server, password), "dead"} :
       connection' = IF answer = "ok" THEN [connection EXCEPT !.at = "open"]
                     ELSE [at |-> "trying", tls |-> answer # "no TLS", try |-> 1]
  /\ UNCHANGED <<session, restarter>>

\* connectWithRetry; a connection that was dead restarts the forward.
ConnectAgain(server, password) ==
  /\ connection.at = "trying"
  /\ \E answer \in {Answer(connection.tls, server, password), "dead"} :
       \/ /\ answer = "ok"
          /\ connection' = [connection EXCEPT !.at = "open"]
          /\ UNCHANGED session
       \/ /\ answer # "ok" /\ connection.try = ConnectTries
          /\ connection' = [connection EXCEPT !.at = "failed"]
          /\ UNCHANGED session
       \/ /\ answer # "ok" /\ connection.try < ConnectTries
          /\ IF answer = "dead" /\ restarter
               THEN /\ connection' = [connection EXCEPT !.at = "between", !.try = @ + 1]
                    /\ LET s == Stopped(session, "stopped", "restarting")
                       IN IF s.at = "stopped" THEN session' \in Started(s) ELSE session' = s
               ELSE connection' = [connection EXCEPT !.try = @ + 1] /\ UNCHANGED session
  /\ UNCHANGED restarter

WaitBeforeRetry ==
  /\ connection.at = "between" /\ session.at = "idle"
  /\ connection' = [connection EXCEPT !.at = "trying"]
  /\ UNCHANGED <<session, restarter>>

ForwardSteps == StartEnds \/ ChildExits \/ StoppedExits \/ RestartFailed \/ WaitBeforeRetry
==============================================================================
