---------------------------- MODULE BridgeDaemon ----------------------------
(***************************************************************************)
(* The daemon that all parity tests of one test binary share: started by   *)
(* the first test that wants it, torn down after the last one (daemon.go,  *)
(* env.go). The launcher of the daemon forks the JVM, which keeps the      *)
(* launcher's stdout open (the comment in okapi.go, RoundTrip); a signal   *)
(* to the launcher may or may not reach it. The idle timer of a JVM stops  *)
(* its server and not the JVM, which listens on a Unix socket, see Exit in *)
(* module BridgeServer.                                                    *)
(***************************************************************************)
EXTENDS Naturals

CONSTANTS
  Tests,       \* the tests that ask for the daemon
  SkipMissing  \* KAPI_PARITY_SKIP=1: without a sandbox tests are skipped

ASSUME SkipAssumption == SkipMissing \in BOOLEAN

VARIABLES
  sandbox,   \* what LoadSandbox found: "unloaded", "ok" or "missing"
  test,      \* per test: "idle", "blocked" in the once, "using" the client, ...
  start,     \* how far StartDaemon is, see StartStates
  result,    \* what the once left behind: "none", "client" or "error"
  launcher,  \* the process: "none", "running", "exited" or "reaped"
  jvm,       \* its child: "none", "running" or "gone"
  line,      \* the first line of stdout
  serving,   \* the announced socket is served
  socket,    \* the socket file exists
  drain,     \* the goroutine that copies the log: "none", "reading", "done"
  close      \* how far Close is: "no", "asked", "killed" or "closed"

vars == <<sandbox, test, start, result, launcher, jvm, line, serving, socket, drain, close>>

StartStates == {"no", "exec", "handshake", "dial", "over"}
Settled == {"done", "failed", "skipped"}

StdoutClosed == launcher # "running" /\ jvm # "running"

Init ==
  /\ sandbox = "unloaded" /\ test = [t \in Tests |-> "idle"]
  /\ start = "no" /\ result = "none"
  /\ launcher = "none" /\ jvm = "none" /\ line = "none"
  /\ serving = FALSE /\ socket = FALSE
  /\ drain = "none" /\ close = "no"

----------------------------------------------------------------------------
\* The tests

\* The sandbox is looked for once, and what was found stays.
LoadSandbox == IF sandbox = "unloaded" THEN sandbox' \in {"ok", "missing"} ELSE UNCHANGED sandbox

\* The first test enters the once, the others wait at it.
Acquire(t) ==
  /\ test[t] = "idle"
  /\ LoadSandbox
  /\ IF sandbox' = "ok"
     THEN /\ test' = [test EXCEPT ![t] = "blocked"]
          /\ start' = IF start = "no" THEN "exec" ELSE start
     ELSE /\ test' = [test EXCEPT ![t] = IF SkipMissing THEN "skipped" ELSE "failed"]
          /\ UNCHANGED start
  /\ UNCHANGED <<result, launcher, jvm, line, serving, socket, drain, close>>

Unblock(t) ==
  /\ test[t] = "blocked" /\ result # "none"
  /\ test' = [test EXCEPT ![t] = IF result = "client" THEN "using" ELSE "failed"]
  /\ UNCHANGED <<sandbox, start, result, launcher, jvm, line, serving, socket, drain, close>>

Finish(t) ==
  /\ test[t] = "using"
  /\ test' = [test EXCEPT ![t] = "done"]
  /\ UNCHANGED <<sandbox, start, result, launcher, jvm, line, serving, socket, drain, close>>

----------------------------------------------------------------------------
\* StartDaemon

\* A signal to the launcher reaches the JVM or does not.
ReachesJVM == jvm' \in {jvm, IF jvm = "running" THEN "gone" ELSE jvm}

\* Mutant: an error is reported to this caller only; the next one tries again.
FailMutant == start' = "no" /\ result' = "error"

\* The error stays with the once.
Fail == start' = "over" /\ result' = "error"

\* Kill and Wait.
Kill == launcher' = "reaped" /\ ReachesJVM /\ serving' = (serving /\ jvm' = "running")

ExecFails ==
  /\ start = "exec"
  /\ Fail
  /\ UNCHANGED <<sandbox, test, launcher, jvm, line, serving, socket, drain, close>>

Exec ==
  /\ start = "exec"
  /\ launcher' = "running" /\ jvm' = "running"
  /\ line' = "none" /\ serving' = FALSE
  /\ start' = "handshake"
  /\ UNCHANGED <<sandbox, test, result, socket, drain, close>>

HandshakeRead ==
  /\ start = "handshake" /\ line = "good"
  /\ start' = "dial" /\ drain' = "reading"
  /\ UNCHANGED <<sandbox, test, result, launcher, jvm, line, serving, socket, close>>

\* A line that is no handshake, one without a socket, or none at all.
HandshakeBad ==
  /\ start = "handshake"
  /\ line \in {"garbage", "no socket"} \/ (line = "none" /\ StdoutClosed)
  /\ Kill /\ Fail
  /\ UNCHANGED <<sandbox, test, line, socket, drain, close>>

\* Mutant: the handshake is waited for without a deadline.
HandshakeTimeoutMutant == FALSE /\ UNCHANGED vars

\* The deadline of the start may win even against a line that has come.
HandshakeTimeout ==
  /\ start = "handshake"
  /\ Kill /\ Fail
  /\ UNCHANGED <<sandbox, test, line, socket, drain, close>>

DialReady ==
  /\ start = "dial" /\ serving
  /\ start' = "over" /\ result' = "client"
  /\ UNCHANGED <<sandbox, test, launcher, jvm, line, serving, socket, drain, close>>

\* The connection fails, or the deadline comes first.
DialFails ==
  /\ start = "dial"
  /\ Kill /\ Fail
  /\ UNCHANGED <<sandbox, test, line, socket, drain, close>>

----------------------------------------------------------------------------
\* The daemon's side

Announce ==
  /\ jvm = "running" /\ line = "none"
  /\ \/ line' \in {"garbage", "no socket"} /\ UNCHANGED <<serving, socket>>
     \/ line' = "good" /\ serving' \in BOOLEAN /\ socket' = TRUE
  /\ UNCHANGED <<sandbox, test, start, result, launcher, jvm, drain, close>>

JvmDies ==
  /\ jvm = "running"
  /\ jvm' = "gone" /\ serving' = FALSE
  /\ UNCHANGED <<sandbox, test, start, result, launcher, line, socket, drain, close>>

\* The idle timer: no stream for as long as it allows. The server is shut down,
\* its socket file goes with the listener or stays; the JVM stays up.
IdleStop ==
  /\ serving
  /\ serving' = FALSE /\ socket' \in {socket, FALSE}
  /\ UNCHANGED <<sandbox, test, start, result, launcher, jvm, line, drain, close>>

LauncherExits ==
  /\ launcher = "running"
  /\ launcher' = "exited" /\ ReachesJVM /\ serving' = (serving /\ jvm' = "running")
  /\ UNCHANGED <<sandbox, test, start, result, line, socket, drain, close>>

DrainEnds ==
  /\ drain = "reading" /\ StdoutClosed
  /\ drain' = "done"
  /\ UNCHANGED <<sandbox, test, start, result, launcher, jvm, line, serving, socket, close>>

----------------------------------------------------------------------------
\* ShutdownBridgeDaemon and Close

\* After the last test; the interrupt is left to the daemon's side.
Shutdown ==
  /\ close = "no" /\ \A t \in Tests : test[t] \in Settled
  /\ close' = IF result = "client" THEN "asked" ELSE "closed"
  /\ UNCHANGED <<sandbox, test, start, result, launcher, jvm, line, serving, socket, drain>>

\* Mutant: the grace period ends, and nothing is done about it.
GraceOverMutant ==
  /\ close = "asked"
  /\ close' = "killed"
  /\ UNCHANGED <<sandbox, test, start, result, launcher, jvm, line, serving, socket, drain>>

GraceOver ==
  /\ close = "asked"
  /\ close' = "killed"
  /\ launcher' = "exited" /\ ReachesJVM /\ serving' = (serving /\ jvm' = "running")
  /\ UNCHANGED <<sandbox, test, start, result, line, socket, drain>>

\* Mutant: the process is waited for, not the end of its output.
WaitedMutant ==
  /\ close \in {"asked", "killed"} /\ launcher = "exited"
  /\ launcher' = "reaped" /\ socket' = FALSE /\ close' = "closed"
  /\ UNCHANGED <<sandbox, test, start, result, jvm, line, serving, drain>>

\* The end of the log first, then the process; only then the socket goes.
Waited ==
  /\ close \in {"asked", "killed"} /\ drain = "done" /\ launcher = "exited"
  /\ launcher' = "reaped" /\ socket' = FALSE /\ close' = "closed"
  /\ UNCHANGED <<sandbox, test, start, result, jvm, line, serving, drain>>

Over == close = "closed" /\ UNCHANGED vars

Starting ==
  \/ ExecFails \/ Exec \/ HandshakeRead \/ HandshakeBad \/ HandshakeTimeout
  \/ DialReady \/ DialFails
Testing == \E t \in Tests : Acquire(t) \/ Unblock(t) \/ Finish(t)
Closing == Shutdown \/ GraceOver \/ Waited \/ DrainEnds

Next == Testing \/ Starting \/ Closing \/ Announce \/ JvmDies \/ IdleStop \/ LauncherExits \/ Over

\* Every test runs to its end and the start is under a deadline; the goroutines
\* of Close run. Of the daemon nothing is taken for granted.
Fairness ==
  /\ \A t \in Tests : WF_vars(Acquire(t) \/ Unblock(t) \/ Finish(t))
  /\ WF_vars(ExecFails \/ Exec)
  /\ WF_vars(HandshakeTimeout)
  /\ WF_vars(DialReady \/ DialFails)
  /\ WF_vars(Shutdown) /\ WF_vars(GraceOver) /\ WF_vars(Waited) /\ WF_vars(DrainEnds)

Spec == Init /\ [][Next]_vars /\ Fairness

----------------------------------------------------------------------------
\* What must hold

\* Tests, once, processes and Close are in one of their states.
TypeOK ==
  /\ sandbox \in {"unloaded", "ok", "missing"}
  /\ test \in [Tests -> {"idle", "blocked", "using"} \cup Settled]
  /\ start \in StartStates /\ result \in {"none", "client", "error"}
  /\ launcher \in {"none", "running", "exited", "reaped"} /\ jvm \in {"none", "running", "gone"}
  /\ line \in {"none", "good", "garbage", "no socket"}
  /\ serving \in BOOLEAN /\ socket \in BOOLEAN
  /\ drain \in {"none", "reading", "done"} /\ close \in {"no", "asked", "killed", "closed"}

\* The daemon is shared, and so is its failure: it never happens that one test
\* worked with it while another one was told it could not be started.
SameFateForAll ==
  sandbox = "ok" =>
    \A t, u \in Tests : ~(test[t] \in {"using", "done"} /\ test[u] = "failed")

Fate == CASE result = "none" -> "unasked" [] result = "client" -> "up" [] result = "error" -> "broken"
Shared == INSTANCE SharedDaemon WITH fate <- Fate

\* The once, the handshake and the dialling together keep the promise of
\* AcquireBridgeDaemon: its answer is given once and never changes.
DaemonIsShared == Shared!Spec

\* A start that failed at any point, in the middle of the handshake or after
\* the daemon had announced itself, leaves no launcher behind. When Close returns,
\* nothing of the daemon is left: not the launcher, not the JVM it forked, not the
\* goroutine on its output, not the socket file.
FailureLeavesNoLauncher == result = "error" => launcher \in {"none", "reaped"}
ClosedLeavesNothing ==
  close = "closed" /\ result = "client" =>
    launcher = "reaped" /\ jvm = "gone" /\ drain = "done" /\ ~socket
NothingLeftBehind == FailureLeavesNoLauncher /\ ClosedLeavesNothing

\* No test waits for ever: a daemon that says nothing is given up.
EveryTestSettles == <>(\A t \in Tests : test[t] \in Settled)

\* Close comes to an end once the JVM has, if need be after the kill: whether the
\* launcher obeys the interrupt or not. A JVM that survives its launcher keeps the
\* output open, and Close waits for it without a deadline.
CloseReturns == close \in {"asked", "killed"} /\ jvm # "running" ~> close = "closed"
=============================================================================
