------------------------ MODULE DaemonLifecycleProofs ------------------------
(***************************************************************************)
(* Proofs about DaemonLifecycle, for any number of daemons, ids and        *)
(* clients, where starts do not overlap inside DaemonLock::acquire: one    *)
(* daemon at a time holds the directory, and its lock names it.  Where     *)
(* daemon() returns no error either, its socket stays its own.             *)
(***************************************************************************)
EXTENDS DaemonLifecycle, FiniteSetTheorems, TLAPS

\* Processes have an id while they live, and no two the same.
PidsOK ==
    /\ \A d \in Daemons : pc[d] = "down" <=> pid[d] = None
    /\ \A d, e \in Daemons : Live(d) /\ Live(e) /\ pid[d] = pid[e] => d = e

\* No two starts overlap.
Serial ==
    \A d, e \in Daemons : pc[d] \in Acquiring /\ pc[e] \in Acquiring => d = e

\* Nobody else holds the lock d holds, is about to write it, or knows of
\* another pid than the one that is alive.
Excludes(d, e) ==
    /\ pc[e] \notin Holding \cup {"opening", "writing"}
    /\ pc[e] = "probing" => seen[e] = pid[d]

LockOK ==
    /\ \A d \in Daemons : pc[d] = "writing" => lock = "torn"
    /\ \A d \in Daemons : pc[d] \in Holding =>
          lock = pid[d] /\ \A e \in Daemons \ {d} : Excludes(d, e)

IInv == TypeOK /\ PidsOK /\ Serial /\ LockOK

\* Where daemon() does not return errors, a thread outlives the loop only
\* until it is joined, and removes no socket but its own.
Alive == {"polling", "accepting", "reading", "unlinking"}
SocketOK ==
    \A d \in Daemons :
        /\ pc[d] \in Acquiring \cup {"down", "refused", "starting", "binding"} =>
              thread[d] = "none"
        /\ pc[d] \in {"dropping", "unlocking", "exiting"} => thread[d] \in {"none", "ended"}
        /\ pc[d] = "binding" => socket = None
        /\ thread[d] \in Alive => socket = d

-----------------------------------------------------------------------------
(* Types.                                                                  *)

\* Every step keeps the types, whoever starts what.
LEMMA TypeStep == TypeOK /\ [Next]_vars => TypeOK'
  <1>. SUFFICES ASSUME TypeOK, [Next]_vars PROVE TypeOK'
    OBVIOUS
  <1>. USE DEF TypeOK, Phase, Acquiring, Holding, ThreadPhase, Goto, ThreadTo,
               lockVars, socketVars
  <1>1. ASSUME NEW d \in Daemons, Vanish(d)
        PROVE  TypeOK'
    BY <1>1 DEF Vanish
  <1>2. ASSUME NEW d \in Daemons, Start(d)
        PROVE  TypeOK'
    BY <1>2 DEF Start
  <1>3. ASSUME NEW d \in Daemons, Acquire(d)
        PROVE  TypeOK'
    <2>1. CASE CheckExists(d)
      BY <2>1 DEF CheckExists
    <2>2. CASE ReadLock(d)
      BY <2>2 DEF ReadLock, Unreadable
    <2>3. CASE ProbePid(d)
      BY <2>3 DEF ProbePid
    <2>4. CASE Truncate(d)
      BY <2>4 DEF Truncate
    <2>5. CASE WriteLock(d)
      BY <2>5 DEF WriteLock
    <2>. QED
      BY <1>3, <2>1, <2>2, <2>3, <2>4, <2>5 DEF Acquire
  <1>4. ASSUME NEW d \in Daemons, Main(d)
        PROVE  TypeOK'
    <2>1. CASE RemoveStaleSocket(d)
      BY <2>1 DEF RemoveStaleSocket
    <2>2. CASE Bind(d)
      BY <2>2 DEF Bind
    <2>3. CASE CheckShutdown(d)
      BY <2>3 DEF CheckShutdown
    <2>4. CASE Pass(d)
      BY <2>4 DEF Pass
    <2>5. CASE Join(d)
      BY <2>5 DEF Join
    <2>6. CASE ReadOwnLock(d)
      BY <2>6 DEF ReadOwnLock
    <2>7. CASE RemoveLock(d)
      BY <2>7 DEF RemoveLock
    <2>8. CASE Exit(d)
      BY <1>1, <2>8 DEF Exit
    <2>. QED
      BY <1>4, <2>1, <2>2, <2>3, <2>4, <2>5, <2>6, <2>7, <2>8 DEF Main
  <1>5. ASSUME NEW d \in Daemons, ReturnErr(d)
        PROVE  TypeOK'
    BY <1>5 DEF ReturnErr
  <1>6. ASSUME NEW d \in Daemons, Crash(d)
        PROVE  TypeOK'
    BY <1>1, <1>6 DEF Crash
  <1>7. ASSUME NEW d \in Daemons, Signals(d)
        PROVE  TypeOK'
    <2>1. CASE Poll(d)
      BY <2>1 DEF Poll
    <2>2. CASE Accept(d)
      BY <2>2 DEF Accept
    <2>3. CASE Answer(d)
      BY <2>3 DEF Answer, Closes
    <2>4. CASE Unlink(d)
      BY <2>4 DEF Unlink, Closes
    <2>. QED
      BY <1>7, <2>1, <2>2, <2>3, <2>4 DEF Signals
  <1>8. ASSUME NEW c \in Clients, Connect(c) \/ Speak(c)
        PROVE  TypeOK'
    BY <1>8 DEF Connect, Speak
  <1>9. CASE UNCHANGED vars
    BY <1>9 DEF vars
  <1>. QED
    BY <1>2, <1>3, <1>4, <1>5, <1>6, <1>7, <1>8, <1>9 DEF Next

\* The lock, the socket and both threads of every daemon stay within their
\* types.
THEOREM TypeCorrect == Spec => []TypeOK
  <1>1. Init => TypeOK
    BY DEF Init, TypeOK, Phase, ThreadPhase
  <1>. QED
    BY <1>1, TypeStep, PTL DEF Spec

-----------------------------------------------------------------------------
(* The lock.                                                               *)

\* With one start at a time, nobody is inside acquire when one begins.
LEMMA FirstToAcquire ==
    ASSUME MaxAcquiring = 1, NEW d \in Daemons, Start(d)
    PROVE  \A e \in Daemons : pc[e] \notin Acquiring
  <1>. DEFINE A == {e \in Daemons : pc[e] \in Acquiring}
  <1>1. IsFiniteSet(A)
    BY LifecycleAssumption, FS_Subset
  <1>2. Cardinality(A) < 1
    BY DEF Start
  <1>. HIDE DEF A
  <1>3. A = {}
    BY <1>1, <1>2, FS_CardinalityType, FS_EmptySet
  <1>. QED
    BY <1>3 DEF A

\* What only threads and clients change is no business of the lock.
LEMMA LockUnchanged ==
    ASSUME IInv, UNCHANGED <<lock, seen, pc, pid>>
    PROVE  PidsOK' /\ Serial' /\ LockOK'
  BY DEF IInv, PidsOK, Serial, LockOK, Excludes, Live

\* One daemon gone takes nothing from the others.
LEMMA VanishOK ==
    ASSUME IInv, NEW d \in Daemons, Live(d), Vanish(d)
    PROVE  PidsOK' /\ Serial' /\ LockOK'
  BY DEF IInv, TypeOK, PidsOK, Serial, LockOK, Excludes, Live, Vanish, Goto,
         Acquiring, Holding

\* Where starts do not overlap, a start keeps the invariant.
LEMMA StartOK ==
    ASSUME IInv, MaxAcquiring = 1, NEW d \in Daemons, Start(d)
    PROVE  PidsOK' /\ Serial' /\ LockOK'
  <1>1. /\ pc \in [Daemons -> Phase] /\ pid \in [Daemons -> Pids \cup {None}]
        /\ PidsOK /\ LockOK /\ Serial
    BY DEF IInv, TypeOK
  <1>2. PICK x \in Pids \ LivePids : pid' = [pid EXCEPT ![d] = x]
    BY DEF Start
  <1>3. /\ pc' = [pc EXCEPT ![d] = "checking"] /\ pc[d] = "down"
        /\ UNCHANGED <<lock, seen>>
    BY DEF Start, Goto, Live, lockVars
  <1>4. \A e \in Daemons : pc[e] \notin Acquiring
    BY FirstToAcquire
  <1>5. \A e \in Daemons : Live(e) => pid[e] # x
    BY <1>2 DEF LivePids
  <1>6. PidsOK'
    BY <1>1, <1>2, <1>3, <1>5, LifecycleAssumption DEF PidsOK, Live
  <1>7. Serial'
    BY <1>1, <1>3, <1>4 DEF Serial
  <1>8. LockOK'
    BY <1>1, <1>2, <1>3 DEF LockOK, Excludes, Holding
  <1>. QED
    BY <1>6, <1>7, <1>8

\* Inside acquire: an absent lock, or one whose process is gone, has no holder.
LEMMA AcquireOK ==
    ASSUME IInv, NEW d \in Daemons, Acquire(d)
    PROVE  PidsOK' /\ Serial' /\ LockOK'
  <1>1. /\ pc \in [Daemons -> Phase] /\ pid \in [Daemons -> Pids \cup {None}]
        /\ seen \in [Daemons -> Pids \cup {None}]
        /\ lock \in Pids \cup {None, "torn"}
        /\ PidsOK /\ LockOK /\ Serial
    BY DEF IInv, TypeOK
  <1>2. UNCHANGED pid /\ pc[d] \in Acquiring
    BY DEF Acquire, CheckExists, ReadLock, ProbePid, Truncate, WriteLock, Acquiring
  <1>3. \A e \in Daemons : pc[e] \in Holding => lock = pid[e] /\ pid[e] \in Pids /\ Live(e)
    BY <1>1 DEF LockOK, PidsOK, Holding, Live
  <1>4. \E phase \in Acquiring \cup {"starting", "refused"} : Goto(d, phase)
    BY DEF Acquire, CheckExists, ReadLock, ProbePid, Truncate, WriteLock, Acquiring
  <1>5. PidsOK'
    BY <1>1, <1>2, <1>4 DEF PidsOK, Live, Goto, Acquiring
  <1>6. Serial'
    BY <1>1, <1>2, <1>4 DEF Serial, Goto
  <1>7. LockOK'
    <2>1. CASE CheckExists(d)
      BY <1>1, <1>3, <2>1, LifecycleAssumption
         DEF CheckExists, LockOK, Excludes, Goto, Holding, lockVars
    <2>2. CASE ReadLock(d)
      <3>1. UNCHANGED <<lock, pid>> /\ pc[d] = "reading"
        BY <2>2 DEF ReadLock
      <3>2. \/ pc' = [pc EXCEPT ![d] = "refused"] /\ UNCHANGED seen
            \/ pc' = [pc EXCEPT ![d] = "probing"] /\ seen' = [seen EXCEPT ![d] = lock]
        BY <2>2 DEF ReadLock, Goto
      <3>. QED
        BY <1>1, <3>1, <3>2 DEF LockOK, Excludes, Holding
    <2>3. CASE ProbePid(d)
      <3>1. /\ pc[d] = "probing" /\ UNCHANGED <<lock, pid>>
            /\ pc' = [pc EXCEPT ![d] = IF seen[d] \in LivePids THEN "refused" ELSE "opening"]
            /\ seen' = [seen EXCEPT ![d] = None]
        BY <2>3 DEF ProbePid, Running, Goto
      <3>2. ASSUME seen[d] \notin LivePids, NEW e \in Daemons \ {d}
            PROVE  pc[e] \notin Holding
        BY <1>1, <1>3, <3>1, <3>2 DEF LockOK, Excludes, LivePids
      <3>3. pc[d] \notin Holding
        BY <3>1 DEF Holding
      <3>4. CASE seen[d] \in LivePids
        BY <1>1, <3>1, <3>4 DEF LockOK, Excludes, Holding
      <3>5. CASE seen[d] \notin LivePids
        BY <1>1, <3>1, <3>2, <3>3, <3>5 DEF LockOK, Excludes, Holding
      <3>. QED
        BY <3>4, <3>5
    <2>4. CASE Truncate(d)
      <3>1. /\ pc[d] = "opening" /\ UNCHANGED <<seen, pid>> /\ lock' = "torn"
            /\ pc' = [pc EXCEPT ![d] = "writing"]
        BY <2>4 DEF Truncate, Goto
      <3>2. \A e \in Daemons : pc[e] \notin Holding
        BY <1>1, <3>1 DEF LockOK, Excludes, Holding
      <3>. QED
        BY <1>1, <3>1, <3>2 DEF LockOK, Holding
    <2>5. CASE WriteLock(d)
      <3>1. /\ pc[d] = "writing" /\ UNCHANGED <<seen, pid>>
            /\ pc' = [pc EXCEPT ![d] = "starting"]
            /\ lock = "torn"
        BY <1>1, <2>5 DEF WriteLock, Goto, LockOK
      <3>2. lock' = pid[d]
        BY <2>5, <3>1, LifecycleAssumption DEF WriteLock
      <3>3. \A e \in Daemons : pc[e] \notin Holding
        BY <1>1, <3>1 DEF LockOK, Excludes, Holding
      <3>4. \A e \in Daemons \ {d} : pc[e] \notin Acquiring
        BY <1>1, <3>1 DEF Serial, Acquiring
      <3>. QED
        BY <1>1, <3>1, <3>2, <3>3, <3>4 DEF LockOK, Excludes, Acquiring, Holding
    <2>. QED
      BY <2>1, <2>2, <2>3, <2>4, <2>5 DEF Acquire
  <1>. QED
    BY <1>5, <1>6, <1>7

\* A holder keeps the lock until its own Drop takes it away.
LEMMA MainOK ==
    ASSUME IInv, NEW d \in Daemons, Main(d) \/ ReturnErr(d)
    PROVE  PidsOK' /\ Serial' /\ LockOK'
  <1>1. /\ pc \in [Daemons -> Phase] /\ pid \in [Daemons -> Pids \cup {None}]
        /\ PidsOK /\ LockOK /\ Serial
    BY DEF IInv, TypeOK
  <1>2. CASE Exit(d)
    BY <1>2, VanishOK DEF Exit, Live
  <1>3. CASE RemoveLock(d)
    <2>1. /\ pc[d] = "unlocking" /\ UNCHANGED <<seen, pid>>
          /\ pc' = [pc EXCEPT ![d] = "exiting"]
      BY <1>3 DEF RemoveLock, Goto
    <2>2. \A e \in Daemons \ {d} : pc[e] \notin Holding \cup {"writing"}
      BY <1>1, <2>1 DEF LockOK, Excludes, Holding
    <2>3. \A e \in Daemons : pc'[e] \notin Holding \cup {"writing"}
      BY <1>1, <2>1, <2>2 DEF Holding
    <2>4. LockOK'
      BY <2>3 DEF LockOK
    <2>. QED
      BY <1>1, <2>1, <2>4 DEF PidsOK, Serial, Live, Acquiring
  <1>4. CASE ~Exit(d) /\ ~RemoveLock(d)
    <2>1. /\ UNCHANGED <<lock, seen, pid>> /\ pc[d] \in Holding
          /\ \E phase \in Holding \cup {"exiting"} : pc' = [pc EXCEPT ![d] = phase]
      BY <1>4 DEF Main, ReturnErr, RemoveStaleSocket, Bind, CheckShutdown, Pass, Join,
                  ReadOwnLock, Goto, Holding, lockVars
    <2>2. PidsOK' /\ Serial'
      BY <1>1, <2>1 DEF PidsOK, Serial, Live, Acquiring, Holding
    <2>3. LockOK'
      BY <1>1, <2>1 DEF LockOK, Excludes, Holding
    <2>. QED
      BY <2>2, <2>3
  <1>. QED
    BY <1>2, <1>3, <1>4

\* IInv is inductive where starts do not overlap.
LEMMA Inductive ==
    ASSUME MaxAcquiring = 1
    PROVE  Spec => []IInv
  <1>1. Init => IInv
    <2>1. Init => TypeOK
      BY DEF Init, TypeOK, Phase, ThreadPhase
    <2>. QED
      BY <2>1 DEF Init, IInv, PidsOK, Serial, LockOK, Live, Acquiring, Holding
  <1>2. IInv /\ [Next]_vars => IInv'
    <2>. SUFFICES ASSUME IInv, [Next]_vars PROVE IInv'
      OBVIOUS
    <2>1. TypeOK'
      BY TypeStep DEF IInv
    <2>2. ASSUME NEW d \in Daemons, Start(d)
          PROVE  PidsOK' /\ Serial' /\ LockOK'
      BY <2>2, StartOK
    <2>3. ASSUME NEW d \in Daemons, Acquire(d)
          PROVE  PidsOK' /\ Serial' /\ LockOK'
      BY <2>3, AcquireOK
    <2>4. ASSUME NEW d \in Daemons, Main(d) \/ ReturnErr(d)
          PROVE  PidsOK' /\ Serial' /\ LockOK'
      BY <2>4, MainOK
    <2>5. ASSUME NEW d \in Daemons, Crash(d)
          PROVE  PidsOK' /\ Serial' /\ LockOK'
      BY <2>5, VanishOK DEF Crash, Live
    <2>6. ASSUME NEW d \in Daemons, Signals(d)
          PROVE  PidsOK' /\ Serial' /\ LockOK'
      <3>1. UNCHANGED <<lock, seen, pc, pid>>
        BY <2>6 DEF Signals, Poll, Accept, Answer, Unlink, lockVars
      <3>. QED
        BY <3>1, LockUnchanged
    <2>7. ASSUME NEW c \in Clients, Connect(c) \/ Speak(c)
          PROVE  PidsOK' /\ Serial' /\ LockOK'
      <3>1. UNCHANGED <<lock, seen, pc, pid>>
        BY <2>7 DEF Connect, Speak, lockVars
      <3>. QED
        BY <3>1, LockUnchanged
    <2>8. ASSUME UNCHANGED vars
          PROVE  PidsOK' /\ Serial' /\ LockOK'
      <3>1. UNCHANGED <<lock, seen, pc, pid>>
        BY <2>8 DEF vars, lockVars
      <3>. QED
        BY <3>1, LockUnchanged
    <2>. QED
      BY <2>1, <2>2, <2>3, <2>4, <2>5, <2>6, <2>7, <2>8 DEF IInv, Next
  <1>. QED
    BY <1>1, <1>2, PTL DEF Spec

\* REQUIREMENTS.md 4.1, "Only one daemon instance may run per user data
\* directory", for any number of starts that do not overlap inside
\* DaemonLock::acquire, through crashes, errors and reused pids.
THEOREM OneDaemonAtATime ==
    ASSUME MaxAcquiring = 1
    PROVE  Spec => []OneDaemon
  <1>1. IInv => OneDaemon
    BY DEF IInv, LockOK, Excludes, OneDaemon
  <1>. QED
    BY <1>1, Inductive, PTL

\* As long as a daemon runs, the lock file holds its pid: no refused start, no
\* Drop and no recovery of a stale lock touches it.
THEOREM LockIsKept ==
    ASSUME MaxAcquiring = 1
    PROVE  Spec => []LockNamesHolder
  <1>1. IInv => LockNamesHolder
    BY DEF IInv, LockOK, LockNamesHolder
  <1>. QED
    BY <1>1, Inductive, PTL

\* Beside the holder no thread is alive and nobody is about to bind.
LEMMA OthersQuiet ==
    ASSUME IInv, SocketOK, NEW d \in Daemons, NEW e \in Daemons,
           pc[d] \in Holding, e # d
    PROVE  thread[e] \notin Alive /\ pc[e] # "binding"
  <1>1. pc[e] \notin Holding
    BY DEF IInv, LockOK, Excludes
  <1>2. pc[e] \in Phase
    BY DEF IInv, TypeOK
  <1>3. thread[e] \in {"none", "ended"}
    BY <1>1, <1>2 DEF SocketOK, Phase, Acquiring, Holding
  <1>. QED
    BY <1>1, <1>3 DEF Alive, Holding

\* A process that goes leaves its socket file, and no thread.
LEMMA VanishSocket ==
    ASSUME TypeOK, SocketOK, NEW d \in Daemons, Vanish(d)
    PROVE  SocketOK'
  BY DEF SocketOK, Vanish, Goto, ThreadTo, TypeOK, Alive, Acquiring

\* The main thread's steps, without an error return.
LEMMA MainSocket ==
    ASSUME IInv, SocketOK, NEW d \in Daemons, Main(d)
    PROVE  SocketOK'
  <1>1. TypeOK
    BY DEF IInv
  <1>2. CASE RemoveStaleSocket(d)
    <2>1. pc[d] = "starting"
      BY <1>2 DEF RemoveStaleSocket
    <2>2. \A e \in Daemons : thread[e] \notin Alive
      BY <2>1, OthersQuiet DEF SocketOK, Holding, Alive
    <2>. QED
      BY <1>1, <1>2, <2>1, <2>2
      DEF SocketOK, RemoveStaleSocket, Goto, TypeOK, Acquiring
  <1>3. CASE Bind(d)
    <2>1. pc[d] = "binding" /\ socket = None
      BY <1>3 DEF Bind, SocketOK
    <2>2. /\ socket' = d
          /\ thread' = [thread EXCEPT ![d] = "polling"]
          /\ pc' = [pc EXCEPT ![d] = "looping"]
      BY <1>3, <2>1 DEF Bind, Goto, ThreadTo
    <2>3. \A e \in Daemons \ {d} : thread[e] \notin Alive /\ pc[e] # "binding"
      BY <2>1, OthersQuiet DEF Holding
    <2>. QED
      BY <1>1, <2>2, <2>3 DEF SocketOK, TypeOK, Acquiring
  <1>4. CASE Exit(d)
    BY <1>1, <1>4, VanishSocket DEF Exit
  <1>5. CASE CheckShutdown(d) \/ Pass(d) \/ Join(d) \/ ReadOwnLock(d) \/ RemoveLock(d)
    <2>1. UNCHANGED <<socket, thread>>
      BY <1>5 DEF CheckShutdown, Pass, Join, ReadOwnLock, RemoveLock, socketVars
    <2>2. \/ \E phase \in {"looping", "passing", "joining"} :
                 pc' = [pc EXCEPT ![d] = phase]
          \/ /\ \E phase \in {"dropping", "unlocking", "exiting"} :
                    pc' = [pc EXCEPT ![d] = phase]
             /\ thread[d] \in {"none", "ended"}
      BY <1>5 DEF CheckShutdown, Pass, Join, Joinable, ReadOwnLock, RemoveLock, Goto,
                  SocketOK
    <2>. QED
      BY <1>1, <2>1, <2>2 DEF SocketOK, TypeOK, Acquiring, Alive
  <1>. QED
    BY <1>2, <1>3, <1>4, <1>5 DEF Main

\* The signal thread's steps; only the last one touches the socket file.
LEMMA SignalsSocket ==
    ASSUME IInv, SocketOK, NEW d \in Daemons, Signals(d)
    PROVE  SocketOK'
  <1>1. TypeOK
    BY DEF IInv
  <1>2. UNCHANGED pc
    BY DEF Signals, Poll, Accept, Answer, Unlink
  <1>3. /\ thread[d] \in Alive
        /\ \E phase \in Alive \cup {"ended"} : thread' = [thread EXCEPT ![d] = phase]
    BY DEF Signals, Poll, Accept, Answer, Unlink, Closes, ThreadTo, Alive
  <1>4. CASE ~Unlink(d)
    <2>1. UNCHANGED socket
      BY <1>4 DEF Signals, Poll, Accept, Answer
    <2>. QED
      BY <1>1, <1>2, <1>3, <2>1 DEF SocketOK, TypeOK, Alive
  <1>5. CASE Unlink(d)
    <2>1. socket' = None /\ thread' = [thread EXCEPT ![d] = "ended"]
      BY <1>5 DEF Unlink, Closes, ThreadTo
    <2>2. pc[d] \in Holding
      BY <1>1, <1>3 DEF SocketOK, TypeOK, Phase, Acquiring, Holding, Alive
    <2>3. \A e \in Daemons \ {d} : thread[e] \notin Alive
      BY <2>2, OthersQuiet
    <2>. QED
      BY <1>1, <1>2, <1>3, <2>1, <2>3 DEF SocketOK, TypeOK, Alive
  <1>. QED
    BY <1>4, <1>5

\* A daemon that takes commands can be reached, where no pass and no start
\* ends in an error: then its own thread is the only one that removes the
\* socket file, and main waits for it before another daemon can start.
THEOREM SocketStays ==
    ASSUME MaxAcquiring = 1, MayErr = FALSE
    PROVE  Spec => []SocketReachable
  <1>1. Init => SocketOK
    BY DEF Init, SocketOK, Alive
  <1>2. IInv /\ SocketOK /\ [Next]_vars => SocketOK'
    <2>. SUFFICES ASSUME IInv, SocketOK, [Next]_vars PROVE SocketOK'
      OBVIOUS
    <2>1. TypeOK
      BY DEF IInv
    <2>2. ASSUME NEW d \in Daemons, Start(d) \/ Acquire(d)
          PROVE  SocketOK'
      <3>1. /\ UNCHANGED <<socket, thread>> /\ thread[d] = "none"
            /\ \E phase \in Acquiring \cup {"refused", "starting"} :
                   pc' = [pc EXCEPT ![d] = phase]
        BY <2>2 DEF Start, Acquire, CheckExists, ReadLock, ProbePid, Truncate, WriteLock,
                    Goto, Live, socketVars, SocketOK, Acquiring
      <3>. QED
        BY <2>1, <3>1 DEF SocketOK, TypeOK, Acquiring, Alive
    <2>3. ASSUME NEW d \in Daemons, Main(d)
          PROVE  SocketOK'
      BY <2>3, MainSocket
    <2>4. ASSUME NEW d \in Daemons, Crash(d)
          PROVE  SocketOK'
      BY <2>1, <2>4, VanishSocket DEF Crash
    <2>5. ASSUME NEW d \in Daemons, Signals(d)
          PROVE  SocketOK'
      BY <2>5, SignalsSocket
    <2>6. ASSUME NEW c \in Clients, Connect(c) \/ Speak(c)
          PROVE  SocketOK'
      <3>1. UNCHANGED <<socket, thread, pc>>
        BY <2>6 DEF Connect, Speak
      <3>. QED
        BY <3>1 DEF SocketOK
    <2>7. ASSUME UNCHANGED vars
          PROVE  SocketOK'
      <3>1. UNCHANGED <<socket, thread, pc>>
        BY <2>7 DEF vars, socketVars
      <3>. QED
        BY <3>1 DEF SocketOK
    <2>8. ASSUME NEW d \in Daemons
          PROVE  ~ReturnErr(d)
      BY DEF ReturnErr
    <2>. QED
      BY <2>2, <2>3, <2>4, <2>5, <2>6, <2>7, <2>8 DEF Next
  <1>3. IInv /\ SocketOK => SocketReachable
    BY DEF SocketOK, SocketReachable, Listens, Alive
  <1>4. Spec => []IInv
    BY Inductive
  <1>. QED
    BY <1>1, <1>2, <1>3, <1>4, PTL DEF Spec
=============================================================================
