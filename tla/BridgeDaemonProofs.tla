------------------------- MODULE BridgeDaemonProofs -------------------------
(***************************************************************************)
(* Proofs for BridgeDaemon: its type invariant, that tests share one fate, *)
(* that neither a failed start nor Close leaves anything of the daemon     *)
(* behind, and that it implements SharedDaemon, for any set of tests.      *)
(***************************************************************************)
EXTENDS BridgeDaemon, TLAPS

-----------------------------------------------------------------------------
(* The inductive invariant.                                                  *)

\* The once is over exactly when it has left a result behind; without a sandbox
\* nobody enters it; and a test that got an answer got the one it left.
FateInv ==
  /\ start = "over" <=> result # "none"
  /\ sandbox # "ok" => start = "no"
  /\ sandbox = "unloaded" => \A t \in Tests : test[t] = "idle"
  /\ \A t \in Tests : test[t] \in {"using", "done"} => result = "client"
  /\ sandbox = "ok" => \A t \in Tests : test[t] = "failed" => result = "error"

\* There is a JVM when there is a launcher, both from Exec on; a failure has
\* reaped the launcher; and the log has ended only if nobody can write to it.
ProcInv ==
  /\ start \in {"no", "exec"} => launcher = "none"
  /\ start \in {"handshake", "dial"} \/ result = "client" => launcher # "none"
  /\ launcher = "none" <=> jvm = "none"
  /\ result = "error" => launcher \in {"none", "reaped"}
  /\ start \in {"no", "exec", "handshake"} => drain = "none"
  /\ drain = "done" => StdoutClosed

\* Close has a client to close, and comes after the tests; as long as the once
\* is at work, a test waits at it.
CloseInv ==
  /\ close \in {"asked", "killed"} => result = "client"
  /\ close # "no" => \A t \in Tests : test[t] \in Settled
  /\ start \in {"exec", "handshake", "dial"} => \E t \in Tests : test[t] = "blocked"
  /\ ClosedLeavesNothing

\* The type invariant in parts.
OnceTypes ==
  /\ sandbox \in {"unloaded", "ok", "missing"}
  /\ start \in StartStates /\ result \in {"none", "client", "error"}
  /\ close \in {"no", "asked", "killed", "closed"}
DaemonTypes ==
  /\ launcher \in {"none", "running", "exited", "reaped"} /\ jvm \in {"none", "running", "gone"}
  /\ line \in {"none", "good", "garbage", "no socket"} /\ drain \in {"none", "reading", "done"}
TestTypes == test \in [Tests -> {"idle", "blocked", "using"} \cup Settled]
FlagTypes == serving \in BOOLEAN /\ socket \in BOOLEAN

IInv == OnceTypes /\ DaemonTypes /\ TestTypes /\ FlagTypes /\ FateInv /\ ProcInv /\ CloseInv

-----------------------------------------------------------------------------
(* Every step is a test's, a step of the start, of Close, of the daemon.      *)

\* Steps keep the types of the once and of Close.
LEMMA OnceStep ==
  ASSUME OnceTypes, [Next]_vars
  PROVE  OnceTypes'
<1>1. ASSUME NEW t \in Tests, Acquire(t) PROVE OnceTypes'
  BY <1>1 DEF Acquire, LoadSandbox,
     OnceTypes, StartStates
<1>2. ASSUME NEW t \in Tests, Unblock(t) PROVE OnceTypes'
  BY <1>2 DEF Unblock,
     OnceTypes, StartStates
<1>3. ASSUME NEW t \in Tests, Finish(t) PROVE OnceTypes'
  BY <1>3 DEF Finish,
     OnceTypes, StartStates
<1>4. CASE ExecFails
  BY <1>4 DEF ExecFails, Fail,
     OnceTypes, StartStates
<1>5. CASE Exec
  BY <1>5 DEF Exec,
     OnceTypes, StartStates
<1>6. CASE HandshakeRead
  BY <1>6 DEF HandshakeRead,
     OnceTypes, StartStates
<1>7. CASE HandshakeBad
  BY <1>7 DEF HandshakeBad, Fail, Kill, ReachesJVM,
     OnceTypes, StartStates
<1>8. CASE HandshakeTimeout
  BY <1>8 DEF HandshakeTimeout, Fail, Kill, ReachesJVM,
     OnceTypes, StartStates
<1>9. CASE DialReady
  BY <1>9 DEF DialReady,
     OnceTypes, StartStates
<1>10. CASE DialFails
  BY <1>10 DEF DialFails, Fail, Kill, ReachesJVM,
     OnceTypes, StartStates
<1>11. CASE Shutdown
  BY <1>11 DEF Shutdown,
     OnceTypes, StartStates
<1>12. CASE GraceOver
  BY <1>12 DEF GraceOver, ReachesJVM,
     OnceTypes, StartStates
<1>13. CASE Waited
  BY <1>13 DEF Waited,
     OnceTypes, StartStates
<1>14. CASE DrainEnds
  BY <1>14 DEF DrainEnds,
     OnceTypes, StartStates
<1>15. CASE Announce
  BY <1>15 DEF Announce,
     OnceTypes, StartStates
<1>16. CASE JvmDies \/ IdleStop
  BY <1>16 DEF JvmDies, IdleStop,
     OnceTypes, StartStates
<1>17. CASE LauncherExits
  BY <1>17 DEF LauncherExits, ReachesJVM,
     OnceTypes, StartStates
<1>18. CASE UNCHANGED vars
  BY <1>18 DEF vars,
     OnceTypes, StartStates
<1>19. QED
  BY <1>1, <1>2, <1>3, <1>4, <1>5, <1>6, <1>7, <1>8, <1>9,
     <1>10, <1>11, <1>12, <1>13, <1>14, <1>15, <1>16, <1>17, <1>18
  DEF Next, Testing, Starting, Closing, Over

\* Steps keep the types of the processes and the log.
LEMMA DaemonStep ==
  ASSUME DaemonTypes, [Next]_vars
  PROVE  DaemonTypes'
<1>1. ASSUME NEW t \in Tests, Acquire(t) PROVE DaemonTypes'
  BY <1>1 DEF Acquire, LoadSandbox,
     DaemonTypes
<1>2. ASSUME NEW t \in Tests, Unblock(t) PROVE DaemonTypes'
  BY <1>2 DEF Unblock,
     DaemonTypes
<1>3. ASSUME NEW t \in Tests, Finish(t) PROVE DaemonTypes'
  BY <1>3 DEF Finish,
     DaemonTypes
<1>4. CASE ExecFails
  BY <1>4 DEF ExecFails, Fail,
     DaemonTypes
<1>5. CASE Exec
  BY <1>5 DEF Exec,
     DaemonTypes
<1>6. CASE HandshakeRead
  BY <1>6 DEF HandshakeRead,
     DaemonTypes
<1>7. CASE HandshakeBad
  BY <1>7 DEF HandshakeBad, Fail, Kill, ReachesJVM,
     DaemonTypes
<1>8. CASE HandshakeTimeout
  BY <1>8 DEF HandshakeTimeout, Fail, Kill, ReachesJVM,
     DaemonTypes
<1>9. CASE DialReady
  BY <1>9 DEF DialReady,
     DaemonTypes
<1>10. CASE DialFails
  BY <1>10 DEF DialFails, Fail, Kill, ReachesJVM,
     DaemonTypes
<1>11. CASE Shutdown
  BY <1>11 DEF Shutdown,
     DaemonTypes
<1>12. CASE GraceOver
  BY <1>12 DEF GraceOver, ReachesJVM,
     DaemonTypes
<1>13. CASE Waited
  BY <1>13 DEF Waited,
     DaemonTypes
<1>14. CASE DrainEnds
  BY <1>14 DEF DrainEnds,
     DaemonTypes
<1>15. CASE Announce
  BY <1>15 DEF Announce,
     DaemonTypes
<1>16. CASE JvmDies \/ IdleStop
  BY <1>16 DEF JvmDies, IdleStop,
     DaemonTypes
<1>17. CASE LauncherExits
  BY <1>17 DEF LauncherExits, ReachesJVM,
     DaemonTypes
<1>18. CASE UNCHANGED vars
  BY <1>18 DEF vars,
     DaemonTypes
<1>19. QED
  BY <1>1, <1>2, <1>3, <1>4, <1>5, <1>6, <1>7, <1>8, <1>9,
     <1>10, <1>11, <1>12, <1>13, <1>14, <1>15, <1>16, <1>17, <1>18
  DEF Next, Testing, Starting, Closing, Over

\* Steps keep the type of the tests' states.
LEMMA TestStep ==
  ASSUME TestTypes, [Next]_vars
  PROVE  TestTypes'
<1>1. ASSUME NEW t \in Tests, Acquire(t) PROVE TestTypes'
  BY <1>1 DEF Acquire, LoadSandbox,
     TestTypes, Settled
<1>2. ASSUME NEW t \in Tests, Unblock(t) PROVE TestTypes'
  BY <1>2 DEF Unblock,
     TestTypes, Settled
<1>3. ASSUME NEW t \in Tests, Finish(t) PROVE TestTypes'
  BY <1>3 DEF Finish,
     TestTypes, Settled
<1>4. CASE ExecFails
  BY <1>4 DEF ExecFails, Fail,
     TestTypes, Settled
<1>5. CASE Exec
  BY <1>5 DEF Exec,
     TestTypes, Settled
<1>6. CASE HandshakeRead
  BY <1>6 DEF HandshakeRead,
     TestTypes, Settled
<1>7. CASE HandshakeBad
  BY <1>7 DEF HandshakeBad, Fail, Kill, ReachesJVM,
     TestTypes, Settled
<1>8. CASE HandshakeTimeout
  BY <1>8 DEF HandshakeTimeout, Fail, Kill, ReachesJVM,
     TestTypes, Settled
<1>9. CASE DialReady
  BY <1>9 DEF DialReady,
     TestTypes, Settled
<1>10. CASE DialFails
  BY <1>10 DEF DialFails, Fail, Kill, ReachesJVM,
     TestTypes, Settled
<1>11. CASE Shutdown
  BY <1>11 DEF Shutdown,
     TestTypes, Settled
<1>12. CASE GraceOver
  BY <1>12 DEF GraceOver, ReachesJVM,
     TestTypes, Settled
<1>13. CASE Waited
  BY <1>13 DEF Waited,
     TestTypes, Settled
<1>14. CASE DrainEnds
  BY <1>14 DEF DrainEnds,
     TestTypes, Settled
<1>15. CASE Announce
  BY <1>15 DEF Announce,
     TestTypes, Settled
<1>16. CASE JvmDies \/ IdleStop
  BY <1>16 DEF JvmDies, IdleStop,
     TestTypes, Settled
<1>17. CASE LauncherExits
  BY <1>17 DEF LauncherExits, ReachesJVM,
     TestTypes, Settled
<1>18. CASE UNCHANGED vars
  BY <1>18 DEF vars,
     TestTypes, Settled
<1>19. QED
  BY <1>1, <1>2, <1>3, <1>4, <1>5, <1>6, <1>7, <1>8, <1>9,
     <1>10, <1>11, <1>12, <1>13, <1>14, <1>15, <1>16, <1>17, <1>18
  DEF Next, Testing, Starting, Closing, Over

\* Steps keep the flags Boolean.
LEMMA FlagStep ==
  ASSUME FlagTypes, [Next]_vars
  PROVE  FlagTypes'
<1>1. ASSUME NEW t \in Tests, Acquire(t) PROVE FlagTypes'
  BY <1>1 DEF Acquire, LoadSandbox,
     FlagTypes
<1>2. ASSUME NEW t \in Tests, Unblock(t) PROVE FlagTypes'
  BY <1>2 DEF Unblock,
     FlagTypes
<1>3. ASSUME NEW t \in Tests, Finish(t) PROVE FlagTypes'
  BY <1>3 DEF Finish,
     FlagTypes
<1>4. CASE ExecFails
  BY <1>4 DEF ExecFails, Fail,
     FlagTypes
<1>5. CASE Exec
  BY <1>5 DEF Exec,
     FlagTypes
<1>6. CASE HandshakeRead
  BY <1>6 DEF HandshakeRead,
     FlagTypes
<1>7. CASE HandshakeBad
  BY <1>7 DEF HandshakeBad, Fail, Kill, ReachesJVM,
     FlagTypes
<1>8. CASE HandshakeTimeout
  BY <1>8 DEF HandshakeTimeout, Fail, Kill, ReachesJVM,
     FlagTypes
<1>9. CASE DialReady
  BY <1>9 DEF DialReady,
     FlagTypes
<1>10. CASE DialFails
  BY <1>10 DEF DialFails, Fail, Kill, ReachesJVM,
     FlagTypes
<1>11. CASE Shutdown
  BY <1>11 DEF Shutdown,
     FlagTypes
<1>12. CASE GraceOver
  BY <1>12 DEF GraceOver, ReachesJVM,
     FlagTypes
<1>13. CASE Waited
  BY <1>13 DEF Waited,
     FlagTypes
<1>14. CASE DrainEnds
  BY <1>14 DEF DrainEnds,
     FlagTypes
<1>15. CASE Announce
  BY <1>15 DEF Announce,
     FlagTypes
<1>16. CASE JvmDies \/ IdleStop
  BY <1>16 DEF JvmDies, IdleStop,
     FlagTypes
<1>17. CASE LauncherExits
  BY <1>17 DEF LauncherExits, ReachesJVM,
     FlagTypes
<1>18. CASE UNCHANGED vars
  BY <1>18 DEF vars,
     FlagTypes
<1>19. QED
  BY <1>1, <1>2, <1>3, <1>4, <1>5, <1>6, <1>7, <1>8, <1>9,
     <1>10, <1>11, <1>12, <1>13, <1>14, <1>15, <1>16, <1>17, <1>18
  DEF Next, Testing, Starting, Closing, Over

\* Steps keep the one answer of the once.
LEMMA FateStep ==
  ASSUME OnceTypes, DaemonTypes, TestTypes, FateInv, ProcInv, [Next]_vars
  PROVE  FateInv'
<1>1. ASSUME NEW t \in Tests, Acquire(t) PROVE FateInv'
  BY <1>1 DEF Acquire, LoadSandbox,
     OnceTypes, TestTypes, StartStates, Settled, FateInv
<1>2. ASSUME NEW t \in Tests, Unblock(t) PROVE FateInv'
  BY <1>2 DEF Unblock,
     OnceTypes, TestTypes, StartStates, Settled, FateInv
<1>3. ASSUME NEW t \in Tests, Finish(t) PROVE FateInv'
  BY <1>3 DEF Finish,
     OnceTypes, TestTypes, StartStates, Settled, FateInv
<1>4. CASE ExecFails
  BY <1>4 DEF ExecFails, Fail,
     OnceTypes, TestTypes, StartStates, Settled, FateInv
<1>5. CASE Exec
  BY <1>5 DEF Exec,
     OnceTypes, TestTypes, StartStates, Settled, FateInv
<1>6. CASE HandshakeRead
  BY <1>6 DEF HandshakeRead,
     OnceTypes, TestTypes, StartStates, Settled, FateInv
<1>7. CASE HandshakeBad
  BY <1>7 DEF HandshakeBad, Fail, Kill, ReachesJVM,
     OnceTypes, TestTypes, StartStates, Settled, FateInv
<1>8. CASE HandshakeTimeout
  BY <1>8 DEF HandshakeTimeout, Fail, Kill, ReachesJVM,
     OnceTypes, TestTypes, StartStates, Settled, FateInv
<1>9. CASE DialReady
  BY <1>9 DEF DialReady,
     OnceTypes, TestTypes, StartStates, Settled, FateInv
<1>10. CASE DialFails
  BY <1>10 DEF DialFails, Fail, Kill, ReachesJVM,
     OnceTypes, TestTypes, StartStates, Settled, FateInv
<1>11. CASE Shutdown
  BY <1>11 DEF Shutdown,
     OnceTypes, TestTypes, StartStates, Settled, FateInv
<1>12. CASE GraceOver
  BY <1>12 DEF GraceOver, ReachesJVM,
     OnceTypes, TestTypes, StartStates, Settled, FateInv
<1>13. CASE Waited
  BY <1>13 DEF Waited,
     OnceTypes, TestTypes, StartStates, Settled, FateInv
<1>14. CASE DrainEnds
  BY <1>14 DEF DrainEnds,
     OnceTypes, TestTypes, StartStates, Settled, FateInv
<1>15. CASE Announce
  BY <1>15 DEF Announce,
     OnceTypes, TestTypes, StartStates, Settled, FateInv
<1>16. CASE JvmDies \/ IdleStop
  BY <1>16 DEF JvmDies, IdleStop,
     OnceTypes, TestTypes, StartStates, Settled, FateInv
<1>17. CASE LauncherExits
  BY <1>17 DEF LauncherExits, ReachesJVM,
     OnceTypes, TestTypes, StartStates, Settled, FateInv
<1>18. CASE UNCHANGED vars
  BY <1>18 DEF vars,
     OnceTypes, TestTypes, StartStates, Settled, FateInv
<1>19. QED
  BY <1>1, <1>2, <1>3, <1>4, <1>5, <1>6, <1>7, <1>8, <1>9,
     <1>10, <1>11, <1>12, <1>13, <1>14, <1>15, <1>16, <1>17, <1>18
  DEF Next, Testing, Starting, Closing, Over

\* Steps keep account of the processes.
LEMMA ProcStep ==
  ASSUME OnceTypes, DaemonTypes, TestTypes, FateInv, ProcInv, CloseInv, [Next]_vars
  PROVE  ProcInv'
<1>1. ASSUME NEW t \in Tests, Acquire(t) PROVE ProcInv'
  BY <1>1 DEF Acquire, LoadSandbox,
     OnceTypes, DaemonTypes, StartStates, FateInv, ProcInv, CloseInv,
     StdoutClosed
<1>2. ASSUME NEW t \in Tests, Unblock(t) PROVE ProcInv'
  BY <1>2 DEF Unblock,
     OnceTypes, DaemonTypes, StartStates, FateInv, ProcInv, CloseInv,
     StdoutClosed
<1>3. ASSUME NEW t \in Tests, Finish(t) PROVE ProcInv'
  BY <1>3 DEF Finish,
     OnceTypes, DaemonTypes, StartStates, FateInv, ProcInv, CloseInv,
     StdoutClosed
<1>4. CASE ExecFails
  BY <1>4 DEF ExecFails, Fail,
     OnceTypes, DaemonTypes, StartStates, FateInv, ProcInv, CloseInv,
     StdoutClosed
<1>5. CASE Exec
  BY <1>5 DEF Exec,
     OnceTypes, DaemonTypes, StartStates, FateInv, ProcInv, CloseInv,
     StdoutClosed
<1>6. CASE HandshakeRead
  BY <1>6 DEF HandshakeRead,
     OnceTypes, DaemonTypes, StartStates, FateInv, ProcInv, CloseInv,
     StdoutClosed
<1>7. CASE HandshakeBad
  BY <1>7 DEF HandshakeBad, Fail, Kill, ReachesJVM,
     OnceTypes, DaemonTypes, StartStates, FateInv, ProcInv, CloseInv,
     StdoutClosed
<1>8. CASE HandshakeTimeout
  BY <1>8 DEF HandshakeTimeout, Fail, Kill, ReachesJVM,
     OnceTypes, DaemonTypes, StartStates, FateInv, ProcInv, CloseInv,
     StdoutClosed
<1>9. CASE DialReady
  BY <1>9 DEF DialReady,
     OnceTypes, DaemonTypes, StartStates, FateInv, ProcInv, CloseInv,
     StdoutClosed
<1>10. CASE DialFails
  BY <1>10 DEF DialFails, Fail, Kill, ReachesJVM,
     OnceTypes, DaemonTypes, StartStates, FateInv, ProcInv, CloseInv,
     StdoutClosed
<1>11. CASE Shutdown
  BY <1>11 DEF Shutdown,
     OnceTypes, DaemonTypes, StartStates, FateInv, ProcInv, CloseInv,
     StdoutClosed
<1>12. CASE GraceOver
  BY <1>12 DEF GraceOver, ReachesJVM,
     OnceTypes, DaemonTypes, StartStates, FateInv, ProcInv, CloseInv,
     StdoutClosed
<1>13. CASE Waited
  BY <1>13 DEF Waited,
     OnceTypes, DaemonTypes, StartStates, FateInv, ProcInv, CloseInv,
     StdoutClosed
<1>14. CASE DrainEnds
  BY <1>14 DEF DrainEnds,
     OnceTypes, DaemonTypes, StartStates, FateInv, ProcInv, CloseInv,
     StdoutClosed
<1>15. CASE Announce
  BY <1>15 DEF Announce,
     OnceTypes, DaemonTypes, StartStates, FateInv, ProcInv, CloseInv,
     StdoutClosed
<1>16. CASE JvmDies \/ IdleStop
  BY <1>16 DEF JvmDies, IdleStop,
     OnceTypes, DaemonTypes, StartStates, FateInv, ProcInv, CloseInv,
     StdoutClosed
<1>17. CASE LauncherExits
  BY <1>17 DEF LauncherExits, ReachesJVM,
     OnceTypes, DaemonTypes, StartStates, FateInv, ProcInv, CloseInv,
     StdoutClosed
<1>18. CASE UNCHANGED vars
  BY <1>18 DEF vars,
     OnceTypes, DaemonTypes, StartStates, FateInv, ProcInv, CloseInv,
     StdoutClosed
<1>19. QED
  BY <1>1, <1>2, <1>3, <1>4, <1>5, <1>6, <1>7, <1>8, <1>9,
     <1>10, <1>11, <1>12, <1>13, <1>14, <1>15, <1>16, <1>17, <1>18
  DEF Next, Testing, Starting, Closing, Over

\* Steps keep what Close relies on and leaves.
LEMMA CloseStep ==
  ASSUME OnceTypes, DaemonTypes, TestTypes, FateInv, ProcInv, CloseInv, [Next]_vars
  PROVE  CloseInv'
<1>1. ASSUME NEW t \in Tests, Acquire(t) PROVE CloseInv'
  BY <1>1 DEF Acquire, LoadSandbox,
     OnceTypes, TestTypes, StartStates, Settled, FateInv, CloseInv,
     ClosedLeavesNothing
<1>2. ASSUME NEW t \in Tests, Unblock(t) PROVE CloseInv'
  BY <1>2 DEF Unblock,
     OnceTypes, TestTypes, StartStates, Settled, FateInv, CloseInv,
     ClosedLeavesNothing
<1>3. ASSUME NEW t \in Tests, Finish(t) PROVE CloseInv'
  BY <1>3 DEF Finish,
     OnceTypes, TestTypes, StartStates, Settled, FateInv, CloseInv,
     ClosedLeavesNothing
<1>4. CASE ExecFails
  BY <1>4 DEF ExecFails, Fail,
     OnceTypes, TestTypes, StartStates, Settled, FateInv, CloseInv,
     ClosedLeavesNothing
<1>5. CASE Exec
  BY <1>5 DEF Exec,
     OnceTypes, TestTypes, StartStates, Settled, FateInv, CloseInv,
     ClosedLeavesNothing
<1>6. CASE HandshakeRead
  BY <1>6 DEF HandshakeRead,
     OnceTypes, TestTypes, StartStates, Settled, FateInv, CloseInv,
     ClosedLeavesNothing
<1>7. CASE HandshakeBad
  BY <1>7 DEF HandshakeBad, Fail,
     OnceTypes, TestTypes, StartStates, Settled, FateInv, CloseInv,
     ClosedLeavesNothing
<1>8. CASE HandshakeTimeout
  BY <1>8 DEF HandshakeTimeout, Fail,
     OnceTypes, TestTypes, StartStates, Settled, FateInv, CloseInv,
     ClosedLeavesNothing
<1>9. CASE DialReady
  BY <1>9 DEF DialReady,
     OnceTypes, TestTypes, StartStates, Settled, FateInv, CloseInv,
     ClosedLeavesNothing
<1>10. CASE DialFails
  BY <1>10 DEF DialFails, Fail,
     OnceTypes, TestTypes, StartStates, Settled, FateInv, CloseInv,
     ClosedLeavesNothing
<1>11. CASE Shutdown
  BY <1>11 DEF Shutdown,
     OnceTypes, TestTypes, StartStates, Settled, FateInv, CloseInv,
     ClosedLeavesNothing
<1>12. CASE GraceOver
  BY <1>12 DEF GraceOver,
     OnceTypes, TestTypes, StartStates, Settled, FateInv, CloseInv,
     ClosedLeavesNothing
<1>13. CASE Waited
  BY <1>13 DEF Waited,
     DaemonTypes, ProcInv, StdoutClosed, CloseInv, Settled, ClosedLeavesNothing
<1>14. CASE DrainEnds
  BY <1>14 DEF DrainEnds,
     OnceTypes, TestTypes, StartStates, Settled, FateInv, CloseInv,
     ClosedLeavesNothing
<1>15. CASE Announce
  BY <1>15 DEF Announce,
     OnceTypes, TestTypes, StartStates, Settled, FateInv, CloseInv,
     ClosedLeavesNothing
<1>16. CASE JvmDies \/ IdleStop
  <2>1. CASE JvmDies
    BY <2>1 DEF JvmDies,
     OnceTypes, TestTypes, StartStates, Settled, FateInv, CloseInv,
     ClosedLeavesNothing
  <2>2. CASE IdleStop
    <3>1. UNCHANGED <<test, start, result, launcher, jvm, drain, close>>
      BY <2>2 DEF IdleStop
    <3>2. close = "closed" /\ result = "client" => ~socket'
      BY <2>2 DEF IdleStop, CloseInv, ClosedLeavesNothing, FlagTypes
    <3>3. QED
      BY <3>1, <3>2 DEF CloseInv, ClosedLeavesNothing
  <2>3. QED
    BY <1>16, <2>1, <2>2
<1>17. CASE LauncherExits
  BY <1>17 DEF LauncherExits,
     OnceTypes, TestTypes, StartStates, Settled, FateInv, CloseInv,
     ClosedLeavesNothing
<1>18. CASE UNCHANGED vars
  BY <1>18 DEF vars,
     OnceTypes, TestTypes, StartStates, Settled, FateInv, CloseInv,
     ClosedLeavesNothing
<1>19. QED
  BY <1>1, <1>2, <1>3, <1>4, <1>5, <1>6, <1>7, <1>8, <1>9,
     <1>10, <1>11, <1>12, <1>13, <1>14, <1>15, <1>16, <1>17, <1>18
  DEF Next, Testing, Starting, Closing, Over

-----------------------------------------------------------------------------
(* The invariant, and the theorems.                                          *)

\* The invariant holds at the start.
LEMMA InitInvariant == Init => IInv
  BY DEF Init, IInv, OnceTypes, DaemonTypes, TestTypes, FlagTypes, FateInv,
         ProcInv, CloseInv, StartStates, Settled, StdoutClosed, ClosedLeavesNothing

\* Every step keeps it.
LEMMA StepInvariant == IInv /\ [Next]_vars => IInv'
  BY OnceStep, DaemonStep, TestStep, FlagStep, FateStep, ProcStep, CloseStep DEF IInv

\* It holds of every behaviour, without the fairness.
LEMMA Invariant == Spec => []IInv
<1>1. Init => IInv
  BY InitInvariant
<1>2. IInv /\ [Next]_vars => IInv'
  BY StepInvariant
<1>3. QED
  BY <1>1, <1>2, PTL DEF Spec

\* The variables have their types.
THEOREM TypeCorrect == Spec => []TypeOK
<1>1. IInv => TypeOK
  BY DEF IInv, OnceTypes, DaemonTypes, TestTypes, FlagTypes, TypeOK
<1>2. QED
  BY <1>1, Invariant, PTL

\* Whatever the number of tests and the order they ask in, none works with a
\* daemon another one was refused (AcquireBridgeDaemon's once).
THEOREM OneFate == Spec => []SameFateForAll
<1>1. IInv => SameFateForAll
  BY DEF IInv, FateInv, SameFateForAll
<1>2. QED
  BY <1>1, Invariant, PTL

\* A start that failed, at whatever point, has reaped its launcher (StartDaemon);
\* and when Close has returned, launcher, JVM, log goroutine and socket are gone,
\* in whichever order signals, exits and the end of the log came (Close).
THEOREM NothingLeft == Spec => []NothingLeftBehind
<1>1. IInv => FailureLeavesNoLauncher
  BY DEF IInv, ProcInv, FailureLeavesNoLauncher
<1>2. IInv => ClosedLeavesNothing
  BY DEF IInv, CloseInv
<1>3. QED
  BY <1>1, <1>2, Invariant, PTL DEF NothingLeftBehind

\* A start that has not answered has not left a result: an answer is final.
LEMMA FateIsFinal ==
  ASSUME IInv, [Next]_vars
  PROVE  [Shared!Decide]_Fate
<1>1. CASE result = "none"
  <2>1. result' \in {"none", "client", "error"}
    BY StepInvariant DEF IInv, OnceTypes
  <2>2. QED
    BY <1>1, <2>1 DEF Fate, Shared!Decide
<1>2. CASE result # "none"
  <2>1. start = "over" /\ result \in {"client", "error"}
    BY <1>2 DEF IInv, OnceTypes, FateInv
  <2>2. result' = result
    BY <2>1 DEF Next, Testing, Starting, Closing, Over, Acquire, Unblock, Finish, ExecFails, Exec,
                HandshakeRead, HandshakeBad, HandshakeTimeout, DialReady, DialFails, Shutdown,
                GraceOver, Waited, DrainEnds, Announce, JvmDies, IdleStop, LauncherExits, vars
  <2>3. QED
    BY <2>2 DEF Fate
<1>3. QED
  BY <1>1, <1>2

\* The once, the handshake, the dialling and Close implement the shared daemon:
\* every step gives the one answer there is or leaves it alone.
THEOREM ImplementsSharedDaemon == Spec => DaemonIsShared
<1>1. Init => Shared!Init
  BY DEF Init, Shared!Init, Fate
<1>2. IInv /\ [Next]_vars => [Shared!Decide]_Fate
  BY FateIsFinal
<1>3. QED
  BY <1>1, <1>2, Invariant, PTL DEF Spec, DaemonIsShared, Shared!Spec
=============================================================================
