--------------------------- MODULE DaemonLifecycle ---------------------------
(***************************************************************************)
(* The life of `yaaml daemon`: DaemonLock::acquire, the start, the main    *)
(* loop, the signal socket with its thread, and the end by shutdown, by an *)
(* error or by a crash.  The two files it shares with other daemons are    *)
(* daemon.lock and daemon.sock; each system call on them is an action.     *)
(* What a pass over transcripts and tasks does is in TranscriptIngest and  *)
(* TaskQueue.                                                              *)
(***************************************************************************)
EXTENDS Integers, FiniteSets

CONSTANTS
    Daemons,       \* places a `yaaml daemon` process is started in
    Pids,          \* process ids; an id is used again once it is free
    Clients,       \* programs that connect to the signal socket
    Inherits,      \* accepted streams are nonblocking as well (macOS)
    None,          \* "no value"
    MayErr,        \* daemon() may return an error after the lock is held
    MaxAcquiring   \* starts that are inside DaemonLock::acquire at once

ASSUME LifecycleAssumption ==
    /\ IsFiniteSet(Daemons)
    /\ None \notin Daemons \cup Pids /\ "torn" \notin Pids \cup {None}
    /\ Inherits \in BOOLEAN /\ MayErr \in BOOLEAN
    /\ MaxAcquiring \in Nat

VARIABLES
    lock,       \* daemon.lock: absent (None), unparsable ("torn"), or a pid
    socket,     \* daemon.sock: absent, or whose listener was bound to it
    pc, pid,    \* each daemon's main thread and process id
    seen,       \* the pid it read from the lock
    thread,     \* its signal thread
    serving,    \* the client that thread has accepted
    requested,  \* its DaemonShutdown flag
    conn, said  \* each client: the listener it is connected to, what it sent

lockVars == <<lock, seen>>
socketVars == <<socket, thread, serving, requested, conn, said>>
vars == <<lockVars, socketVars, pc, pid>>

Acquiring == {"checking", "reading", "probing", "opening", "writing"}
\* From DaemonLock::acquire's Ok to the end of its Drop.
Holding == {"starting", "binding", "looping", "passing", "joining",
            "dropping", "unlocking"}
Phase == {"down", "refused", "exiting"} \cup Acquiring \cup Holding
ThreadPhase == {"none", "polling", "accepting", "reading", "unlinking", "ended"}

Live(d) == pc[d] # "down"
Listens(d) == thread[d] \in {"polling", "accepting", "reading"}

TypeOK ==
    /\ lock \in Pids \cup {None, "torn"}
    /\ socket \in Daemons \cup {None}
    /\ pc \in [Daemons -> Phase]
    /\ pid \in [Daemons -> Pids \cup {None}]
    /\ seen \in [Daemons -> Pids \cup {None}]
    /\ thread \in [Daemons -> ThreadPhase]
    /\ serving \in [Daemons -> Clients \cup {None}]
    /\ requested \in [Daemons -> BOOLEAN]
    /\ conn \in [Clients -> Daemons \cup {None}]
    /\ said \in [Clients -> {None, "shutdown", "other", "gone"}]

Init ==
    /\ lock = None
    /\ socket = None
    /\ pc = [d \in Daemons |-> "down"]
    /\ pid = [d \in Daemons |-> None]
    /\ seen = [d \in Daemons |-> None]
    /\ thread = [d \in Daemons |-> "none"]
    /\ serving = [d \in Daemons |-> None]
    /\ requested = [d \in Daemons |-> FALSE]
    /\ conn = [c \in Clients |-> None]
    /\ said = [c \in Clients |-> None]

-----------------------------------------------------------------------------
(* DaemonLock::acquire.                                                    *)

Goto(d, phase) == pc' = [pc EXCEPT ![d] = phase]
ThreadTo(d, phase) == thread' = [thread EXCEPT ![d] = phase]

LivePids == {pid[d] : d \in {e \in Daemons : Live(e)}}

Start(d) ==
    /\ ~Live(d)
    /\ Cardinality({e \in Daemons : pc[e] \in Acquiring}) < MaxAcquiring
    /\ \E x \in Pids \ LivePids : pid' = [pid EXCEPT ![d] = x]
    /\ Goto(d, "checking")
    /\ UNCHANGED <<lockVars, socketVars>>

CheckExists(d) ==
    /\ pc[d] = "checking"
    /\ Goto(d, IF lock = None THEN "opening" ELSE "reading")
    /\ UNCHANGED <<lockVars, socketVars, pid>>

\* read_metadata: a lock that vanished or does not parse is an error.
\* Mutant: it is parsed as if it were whole.
VanishedOnly == {None}
Unreadable == {None, "torn"}
ReadLock(d) ==
    /\ pc[d] = "reading"
    /\ \/ /\ lock \in Unreadable
          /\ Goto(d, "refused")
          /\ UNCHANGED seen
       \/ /\ lock \notin Unreadable
          /\ seen' = [seen EXCEPT ![d] = lock]
          /\ Goto(d, "probing")
    /\ UNCHANGED <<lock, socketVars, pid>>

\* pid_is_running: kill(pid, 0), which any process with that id answers, the
\* asking one included.
\* Mutant: only pid 0 is stale, every other is told off as stale too.
NeverRunning(x) == FALSE
Running(x) == x \in LivePids
ProbePid(d) ==
    /\ pc[d] = "probing"
    /\ Goto(d, IF Running(seen[d]) THEN "refused" ELSE "opening")
    /\ seen' = [seen EXCEPT ![d] = None]
    /\ UNCHANGED <<lock, socketVars, pid>>

\* fs::write is two steps: the file is truncated, then the text is written.
\* Over another writer's text the result may be a mixture that does not parse.
Truncate(d) ==
    /\ pc[d] = "opening"
    /\ lock' = "torn"
    /\ Goto(d, "writing")
    /\ UNCHANGED <<seen, socketVars, pid>>

WriteLock(d) ==
    /\ pc[d] = "writing"
    /\ \/ lock' = pid[d]
       \/ lock \in Pids /\ lock' = "torn"
    /\ Goto(d, "starting")
    /\ UNCHANGED <<seen, socketVars, pid>>

-----------------------------------------------------------------------------
(* daemon().                                                               *)

\* Database, migration, recover_running_tasks and the first pass are done;
\* start_signal_socket removes whatever socket file is there.
RemoveStaleSocket(d) ==
    /\ pc[d] = "starting"
    /\ socket' = None
    /\ Goto(d, "binding")
    /\ UNCHANGED <<lockVars, thread, serving, requested, conn, said, pid>>

\* bind fails if the file is back.
Bind(d) ==
    /\ pc[d] = "binding"
    /\ \/ /\ socket = None
          /\ socket' = d
          /\ requested' = [requested EXCEPT ![d] = FALSE]
          /\ ThreadTo(d, "polling")
          /\ Goto(d, "looping")
       \/ /\ socket # None
          /\ Goto(d, "dropping")
          /\ UNCHANGED <<socket, requested, thread>>
    /\ UNCHANGED <<lockVars, serving, conn, said, pid>>

CheckShutdown(d) ==
    /\ pc[d] = "looping"
    /\ Goto(d, IF requested[d] THEN "joining" ELSE "passing")
    /\ UNCHANGED <<lockVars, socketVars, pid>>

Pass(d) ==
    /\ pc[d] = "passing"
    /\ Goto(d, "looping")
    /\ UNCHANGED <<lockVars, socketVars, pid>>

\* A `?` in the start or in a pass: daemon() returns, the thread is not joined.
ReturnErr(d) ==
    /\ pc[d] \in {"starting", "passing"}
    /\ MayErr
    /\ Goto(d, "dropping")
    /\ UNCHANGED <<lockVars, socketVars, pid>>

\* signal_thread.join(), whatever the thread returned.
\* Mutant: the thread is not waited for.
JoinsNothing(d) == TRUE
Joinable(d) == thread[d] = "ended"
Join(d) ==
    /\ pc[d] = "joining"
    /\ Joinable(d)
    /\ Goto(d, "dropping")
    /\ UNCHANGED <<lockVars, socketVars, pid>>

\* Drop for DaemonLock: read and compare, then remove.
ReadOwnLock(d) ==
    /\ pc[d] = "dropping"
    /\ Goto(d, IF lock = pid[d] THEN "unlocking" ELSE "exiting")
    /\ UNCHANGED <<lockVars, socketVars, pid>>

RemoveLock(d) ==
    /\ pc[d] = "unlocking"
    /\ lock' = None
    /\ Goto(d, "exiting")
    /\ UNCHANGED <<seen, socketVars, pid>>

\* The process is gone: its thread, and its connections, with it.
Vanish(d) ==
    /\ Goto(d, "down")
    /\ pid' = [pid EXCEPT ![d] = None]
    /\ seen' = [seen EXCEPT ![d] = None]
    /\ ThreadTo(d, "none")
    /\ serving' = [serving EXCEPT ![d] = None]
    /\ requested' = [requested EXCEPT ![d] = FALSE]
    /\ conn' = [c \in Clients |-> IF conn[c] = d THEN None ELSE conn[c]]
    /\ said' = [c \in Clients |-> IF conn[c] = d THEN None ELSE said[c]]
    /\ UNCHANGED <<lock, socket>>

Exit(d) ==
    /\ pc[d] \in {"refused", "exiting"}
    /\ Vanish(d)

\* A kill or a power cut at any point; a failing fs::write in acquire as well.
Crash(d) ==
    /\ pc[d] \notin {"down", "refused", "exiting"}
    /\ Vanish(d)

-----------------------------------------------------------------------------
(* The signal thread of start_signal_socket.                               *)

\* Mutant: the loop does not look at the flag.
Forgets(d) == FALSE
Stops(d) == requested[d]
Poll(d) ==
    /\ thread[d] = "polling"
    /\ ThreadTo(d, IF Stops(d) THEN "unlinking" ELSE "accepting")
    /\ UNCHANGED <<lockVars, socket, serving, requested, conn, said, pc, pid>>

Accept(d) ==
    /\ thread[d] = "accepting"
    /\ \/ \E c \in Clients :
             /\ conn[c] = d
             /\ serving' = [serving EXCEPT ![d] = c]
             /\ ThreadTo(d, "reading")
       \/ /\ \A c \in Clients : conn[c] # d
          /\ ThreadTo(d, "polling")
          /\ UNCHANGED serving
    /\ UNCHANGED <<lockVars, socket, requested, conn, said, pc, pid>>

\* The thread returned: the listener and what it had accepted are closed.
Closes(d) ==
    /\ ThreadTo(d, "ended")
    /\ conn' = [c \in Clients |-> IF conn[c] = d THEN None ELSE conn[c]]
    /\ said' = [c \in Clients |-> IF conn[c] = d THEN None ELSE said[c]]

\* handle_signal_stream: one read without a timeout, one answer.  Nothing to
\* read blocks, or is an error where the stream is nonblocking, and so is an
\* answer to a client that has hung up.  An error ends the thread; the socket
\* file stays, and nobody notices before the join.
Answer(d) ==
    LET c == serving[d]
    IN  /\ thread[d] = "reading"
        /\ \/ /\ said[c] \in {"shutdown", "other"}
              /\ ThreadTo(d, "polling")
              /\ conn' = [conn EXCEPT ![c] = None]
              /\ said' = [said EXCEPT ![c] = None]
           \/ /\ said[c] # None \/ Inherits
              /\ Closes(d)
        /\ requested' = [requested EXCEPT ![d] = @ \/ said[c] = "shutdown"]
        /\ serving' = [serving EXCEPT ![d] = None]
        /\ UNCHANGED <<lockVars, socket, pc, pid>>

\* The thread's last act: it removes the socket file, whosever it is.
Unlink(d) ==
    /\ thread[d] = "unlinking"
    /\ socket' = None
    /\ Closes(d)
    /\ UNCHANGED <<lockVars, serving, requested, pc, pid>>

-----------------------------------------------------------------------------
(* Clients.                                                                *)

Connect(c) ==
    /\ conn[c] = None
    /\ socket # None
    /\ Listens(socket)
    /\ conn' = [conn EXCEPT ![c] = socket]
    /\ UNCHANGED <<lockVars, socket, thread, serving, requested, said, pc, pid>>

\* It sends a command, or hangs up without one.
Speak(c) ==
    /\ conn[c] # None /\ said[c] = None
    /\ \E word \in {"shutdown", "other", "gone"} : said' = [said EXCEPT ![c] = word]
    /\ UNCHANGED <<lockVars, socket, thread, serving, requested, conn, pc, pid>>

-----------------------------------------------------------------------------
Acquire(d) ==
    \/ CheckExists(d) \/ ReadLock(d) \/ ProbePid(d) \/ Truncate(d) \/ WriteLock(d)
Main(d) ==
    \/ RemoveStaleSocket(d) \/ Bind(d) \/ CheckShutdown(d) \/ Pass(d) \/ Join(d)
    \/ ReadOwnLock(d) \/ RemoveLock(d) \/ Exit(d)
Signals(d) == Poll(d) \/ Accept(d) \/ Answer(d) \/ Unlink(d)

Next ==
    \/ \E d \in Daemons :
          Start(d) \/ Acquire(d) \/ Main(d) \/ ReturnErr(d) \/ Crash(d) \/ Signals(d)
    \/ \E c \in Clients : Connect(c) \/ Speak(c)

Spec == Init /\ [][Next]_vars

\* Both threads of a process keep running; the thread sleeps 25 ms at most, a
\* pass takes bounded time.  Nobody has to start, crash, connect or speak.
FairSpec ==
    /\ Spec
    /\ \A d \in Daemons :
          WF_vars(Acquire(d)) /\ WF_vars(Main(d)) /\ WF_vars(Signals(d))

-----------------------------------------------------------------------------
(* Properties.                                                             *)

\* REQUIREMENTS.md 4.1: "Only one daemon instance may run per user data
\* directory."  True of starts that do not overlap inside acquire, through
\* crashes, stale locks, reused pids and a shutdown that a start overtakes.
OneDaemon ==
    \A d, e \in Daemons :
        pc[d] \in Holding /\ pc[e] \in Holding => d = e

\* While a daemon runs, its lock says so: no start and no other daemon's Drop
\* takes it away.
LockNamesHolder == \A d \in Daemons : pc[d] \in Holding => lock = pid[d]

\* A daemon that takes commands can be reached: its socket file is not removed
\* or replaced by another one's thread, start or end.
SocketReachable ==
    \A d \in Daemons :
        pc[d] \in {"looping", "passing"} /\ Listens(d) => socket = d

\* A shutdown the thread has taken ends the daemon: main leaves its loop, and
\* the thread it joins leaves its own.
ShutdownHonoured ==
    \A d \in Daemons : requested[d] ~> pc[d] = "down"
=============================================================================
