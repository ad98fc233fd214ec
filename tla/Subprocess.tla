----------------------------- MODULE Subprocess -----------------------------
(***************************************************************************)
(* runtime/process_primitives.cpp on POSIX: VM threads of one Eta process  *)
(* that start a child with %process-run or %process-spawn, the I/O threads *)
(* of a run, the handle of a spawned child, and what the kernel does with  *)
(* processes, pipes and descriptors.                                       *)
(***************************************************************************)
EXTENDS Integers, FiniteSets

CONSTANTS
  Thread,     \* VM threads (the program and in-process actors), one child each
  Options,   \* the options of each thread's call
  PipeSize,   \* units a pipe holds
  MaxOutput   \* bound: units the processes of one call write

Option == [kind : {"run", "spawn"}, stdin : {"null", "pipe", "data"}, input : Nat,
           stdout : {"null", "pipe", "capture"}, timed : BOOLEAN, forks : BOOLEAN]

\* %process-run has no ports; a spawn with stdin data is not modelled.
ASSUME SubprocessAssumption ==
  /\ Options \subseteq [Thread -> Option]
  /\ \A p \in Options, t \in Thread :
        /\ p[t].kind = "run" => p[t].stdin # "pipe" /\ p[t].stdout # "pipe"
        /\ p[t].kind = "spawn" => p[t].stdin # "data"
  /\ PipeSize \in Nat \ {0} /\ MaxOutput \in Nat

VARIABLES
  opt,      \* the program that runs
  eta,      \* the Eta process: what SIGPIPE does to it, or "killed" by it
  call,     \* per thread: where its primitive is, its I/O threads, its answer
  handle,   \* per thread: ProcessHandle
  proc,     \* what the kernel knows of a process
  status,   \* how the child of a thread ended
  holds,    \* the pipe ends a process has open
  bytes,    \* what is in a pipe
  produced  \* history: what the processes of a call wrote to its stdout

os   == <<proc, status, holds, bytes, produced>>
callVars == <<opt, eta, call, handle, os>>

\* The child of a thread's call, and a process that child forks.
Child(t) == <<t, "child">>
Heir(t)  == <<t, "heir">>
Process  == Thread \X {"child", "heir"}
Streams  == {"stdin", "stdout", "err"}
Alive(p) == proc[p] \in {"forked", "running"}

\* Both ends of a pipe; "cloexec" is a write end that exec closes.
Ends(t, s)    == {<<t, s, "read">>, <<t, s, "write">>}
AllEnds(t)    == {t} \X Streams \X {"read", "write", "cloexec"}
ParentEnds(t) == {<<t, "stdin", "write">>, <<t, "stdout", "read">>, <<t, "err", "read">>}
ChildEnds(t)  == AllEnds(t) \ ParentEnds(t)

Eta == <<"eta">>
Holders == {Eta} \cup Process
HasReader(t, s) == \E p \in Holders : <<t, s, "read">> \in holds[p]
HasWriter(t, s) == \E p \in Holders : holds[p] \cap {<<t, s, "write">>, <<t, s, "cloexec">>} # {}

NoCall == [pc |-> "idle", late |-> FALSE, left |-> 0, got |-> 0,
           writer |-> FALSE, reader |-> FALSE, answer |-> "none"]

InitCalls ==
  /\ opt \in Options
  /\ eta \in {"default", "ignored"}
  /\ call = [t \in Thread |-> NoCall]
  /\ handle = [t \in Thread |-> [pid |-> FALSE, waited |-> FALSE, exit_code |-> "none"]]
  /\ proc = [p \in Process |-> "none"]
  /\ status = [t \in Thread |-> "none"]
  /\ holds = [p \in Holders |-> {}]
  /\ bytes = [e \in Thread \X Streams |-> 0]
  /\ produced = [t \in Thread |-> 0]

Goto(t, from, to) ==
  /\ eta # "killed" /\ call[t].pc = from
  /\ call' = [call EXCEPT ![t].pc = to]

\* The primitive returns; everything it still had open is closed.
Finish(t, from, answer) ==
  /\ eta # "killed" /\ call[t].pc = from
  /\ call' = [call EXCEPT ![t].pc = "done", ![t].answer = answer]
  /\ holds' = [holds EXCEPT ![Eta] = @ \ AllEnds(t)]

-----------------------------------------------------------------------------
(***************************************************************************)
(* spawn_child_process, on the VM thread.                                  *)
(***************************************************************************)
\* create_pipe_pair for each stream, and the pipe that reports errors.
MakePipes(t) ==
  /\ Goto(t, "idle", "piped")
  /\ holds' = [holds EXCEPT ![Eta] = @ \cup Ends(t, "err")
                  \cup (IF opt[t].stdin = "null" THEN {} ELSE Ends(t, "stdin"))
                  \cup (IF opt[t].stdout = "null" THEN {} ELSE Ends(t, "stdout"))]
  /\ UNCHANGED <<opt, eta, handle, proc, status, bytes, produced>>

SetCloexec(t) ==
  /\ Goto(t, "piped", "flagged")
  /\ holds' = [holds EXCEPT ![Eta] =
                 (@ \ {<<t, "err", "write">>}) \cup {<<t, "err", "cloexec">>}]
  /\ UNCHANGED <<opt, eta, handle, proc, status, bytes, produced>>

\* The child starts with every descriptor of the process, those of the other
\* threads' calls included.
Fork(t) ==
  /\ Goto(t, "flagged", "forked")
  /\ proc' = [proc EXCEPT ![Child(t)] = "forked"]
  /\ holds' = [holds EXCEPT ![Child(t)] = holds[Eta]]
  /\ UNCHANGED <<opt, eta, handle, status, bytes, produced>>

\* pipe() or fork() fails.
SpawnFails(t) ==
  /\ \/ Finish(t, "idle", "spawn-failed")
     \/ Finish(t, "flagged", "spawn-failed")
  /\ UNCHANGED <<opt, eta, handle, proc, status, bytes, produced>>

\* Faulty variant: the parent keeps its copy of the child's stdout.
CloseChildEndsButStdout(t) ==
  /\ Goto(t, "forked", "closed")
  /\ holds' = [holds EXCEPT ![Eta] = @ \ (ChildEnds(t) \ {<<t, "stdout", "write">>})]
  /\ UNCHANGED <<opt, eta, handle, proc, status, bytes, produced>>
CloseChildEnds(t) ==
  /\ Goto(t, "forked", "closed")
  /\ holds' = [holds EXCEPT ![Eta] = @ \ ChildEnds(t)]
  /\ UNCHANGED <<opt, eta, handle, proc, status, bytes, produced>>

\* The forked child closes the parent's ends of its own pipes, puts its own on
\* 0 and 1, and becomes the program, or reports errno and leaves.
ChildExecs(t) ==
  /\ eta # "killed" /\ proc[Child(t)] = "forked"
  /\ proc' = [proc EXCEPT ![Child(t)] = "running"]
  /\ holds' = [holds EXCEPT ![Child(t)] =
                 {e \in @ \ ParentEnds(t) : e[3] # "cloexec"}]
  /\ UNCHANGED <<opt, eta, call, handle, status, bytes, produced>>

ChildFails(t) ==
  /\ eta # "killed" /\ proc[Child(t)] = "forked"
  /\ proc' = [proc EXCEPT ![Child(t)] = "zombie"]
  /\ status' = [status EXCEPT ![t] = "not-started"]
  /\ bytes' = [bytes EXCEPT ![<<t, "err">>] = 1]
  /\ holds' = [holds EXCEPT ![Child(t)] = {}]
  /\ UNCHANGED <<opt, eta, call, handle, produced>>

\* The read of the error pipe returns 0: the program runs.  A run starts its
\* I/O threads; a spawn makes the handle, whose ports own the pipes.
Started(t) ==
  /\ call' = [call EXCEPT ![t].pc = IF opt[t].kind = "run" THEN "wait" ELSE "owned",
                          ![t].left = opt[t].input,
                          ![t].writer = opt[t].stdin = "data",
                          ![t].reader = opt[t].stdout = "capture"]
  /\ handle' = [handle EXCEPT ![t].pid = TRUE]
  /\ holds' = [holds EXCEPT ![Eta] = @ \ {<<t, "err", "read">>}]
  /\ UNCHANGED <<opt, eta, proc, status, bytes, produced>>

\* Faulty variant: an interrupted read is taken for the end of the pipe.
ReadSpawnErrorOnce(t) ==
  /\ eta # "killed" /\ call[t].pc = "closed"
  /\ bytes[<<t, "err">>] = 0
  /\ Started(t)
ReadSpawnError(t) ==
  /\ eta # "killed" /\ call[t].pc = "closed"
  /\ bytes[<<t, "err">>] = 0 /\ ~HasWriter(t, "err")
  /\ Started(t)

\* It returns errno: the child is waited for and the pipes are closed.
SpawnErrorRead(t) ==
  /\ bytes[<<t, "err">>] > 0 /\ proc[Child(t)] = "zombie"
  /\ Finish(t, "closed", "not-started")
  /\ proc' = [proc EXCEPT ![Child(t)] = "gone"]
  /\ UNCHANGED <<opt, eta, handle, status, bytes, produced>>

-----------------------------------------------------------------------------
(***************************************************************************)
(* The I/O threads of a run.  Writing to a pipe that nobody reads raises   *)
(* SIGPIPE, which the program does not handle.                             *)
(***************************************************************************)
BrokenPipe == eta' = IF eta = "default" THEN "killed" ELSE eta

WriterWrites(t) ==
  /\ eta # "killed" /\ call[t].writer /\ call[t].left > 0
  /\ HasReader(t, "stdin") /\ bytes[<<t, "stdin">>] < PipeSize
  /\ call' = [call EXCEPT ![t].left = @ - 1]
  /\ bytes' = [bytes EXCEPT ![<<t, "stdin">>] = @ + 1]
  /\ UNCHANGED <<opt, eta, handle, proc, status, holds, produced>>

\* Everything is written, or write returns EPIPE.
WriterEnds(t) ==
  /\ eta # "killed" /\ call[t].writer
  /\ \/ call[t].left = 0 /\ UNCHANGED eta
     \/ call[t].left > 0 /\ ~HasReader(t, "stdin") /\ BrokenPipe
  /\ call' = [call EXCEPT ![t].writer = FALSE]
  /\ holds' = [holds EXCEPT ![Eta] = @ \ Ends(t, "stdin")]
  /\ UNCHANGED <<opt, handle, proc, status, bytes, produced>>

ReaderReads(t) ==
  /\ eta # "killed" /\ call[t].reader /\ bytes[<<t, "stdout">>] > 0
  /\ call' = [call EXCEPT ![t].got = @ + 1]
  /\ bytes' = [bytes EXCEPT ![<<t, "stdout">>] = @ - 1]
  /\ UNCHANGED <<opt, eta, handle, proc, status, holds, produced>>

ReaderEnds(t) ==
  /\ eta # "killed" /\ call[t].reader
  /\ bytes[<<t, "stdout">>] = 0 /\ ~HasWriter(t, "stdout")
  /\ call' = [call EXCEPT ![t].reader = FALSE]
  /\ holds' = [holds EXCEPT ![Eta] = @ \ Ends(t, "stdout")]
  /\ UNCHANGED <<opt, eta, handle, proc, status, bytes, produced>>

-----------------------------------------------------------------------------
(***************************************************************************)
(* wait_for_process, signal_process and poll_process_exit, and the rest of *)
(* %process-run.                                                           *)
(***************************************************************************)
\* Faulty variant: the id stays in the handle.
ReapKeepingPid(t) ==
  /\ proc[Child(t)] = "zombie"
  /\ proc' = [proc EXCEPT ![Child(t)] = "gone"]
  /\ handle' = [handle EXCEPT ![t] = [pid |-> TRUE, waited |-> TRUE, exit_code |-> status[t]]]
\* waitpid returned the child: it is gone, and so is its id.
Reap(t) ==
  /\ proc[Child(t)] = "zombie"
  /\ proc' = [proc EXCEPT ![Child(t)] = "gone"]
  /\ handle' = [handle EXCEPT ![t] = [pid |-> FALSE, waited |-> TRUE, exit_code |-> status[t]]]

AfterWait(t) == IF opt[t].kind = "run" THEN "join" ELSE "owned"

WaitReaps(t) ==
  /\ \E pc \in {"wait", "reap"} : Goto(t, pc, AfterWait(t))
  /\ handle[t].pid /\ Reap(t)
  /\ UNCHANGED <<opt, eta, status, holds, bytes, produced>>

\* With a timeout: waitpid with WNOHANG finds the child running, then the
\* clock is looked at, then the thread sleeps and tries again.
WaitPolls(t) ==
  /\ opt[t].timed /\ Goto(t, "wait", "polled") /\ Alive(Child(t))
  /\ UNCHANGED <<opt, eta, handle, os>>

PollAgain(t) ==
  /\ Goto(t, "polled", "wait") /\ ~call[t].late
  /\ UNCHANGED <<opt, eta, handle, os>>

DeadlinePasses(t) ==
  /\ eta # "killed" /\ opt[t].timed
  /\ call[t].pc \in {"wait", "polled"} /\ ~call[t].late
  /\ call' = [call EXCEPT ![t].late = TRUE]
  /\ UNCHANGED <<opt, eta, handle, os>>

\* A run goes on to kill the child, process-wait answers #f.
TimedOut(t) ==
  /\ eta # "killed" /\ call[t].pc = "polled" /\ call[t].late
  /\ call' = [call EXCEPT ![t].pc = IF opt[t].kind = "run" THEN "kill" ELSE "owned",
                          ![t].answer = "timeout"]
  /\ UNCHANGED <<opt, eta, handle, os>>

\* kill(2) on a zombie succeeds and does nothing.
Dies(t, how) ==
  /\ proc' = [proc EXCEPT ![Child(t)] = "zombie"]
  /\ status' = [status EXCEPT ![t] = how]
  /\ holds' = [holds EXCEPT ![Child(t)] = {}]

Signal(t) ==
  IF handle[t].pid /\ proc[Child(t)] = "running" THEN Dies(t, "killed")
                                                  ELSE UNCHANGED <<proc, status, holds>>

\* Faulty variant: a run does not wait for what it kills.
KillTimedOutUnreaped(t) ==
  /\ Goto(t, "kill", "join") /\ Signal(t)
  /\ UNCHANGED <<opt, eta, handle, bytes, produced>>
KillTimedOut(t) ==
  /\ Goto(t, "kill", "reap") /\ Signal(t)
  /\ UNCHANGED <<opt, eta, handle, bytes, produced>>

\* Faulty variant: the captured output is taken when the child has ended.
JoinWriter(t) ==
  /\ ~call[t].writer
  /\ Finish(t, "join", IF call[t].answer = "timeout" THEN "timeout" ELSE "ok")
  /\ UNCHANGED <<opt, eta, handle, proc, status, bytes, produced>>
\* The I/O threads are joined; the result is made or the error raised.
Join(t) ==
  /\ ~call[t].writer /\ ~call[t].reader
  /\ Finish(t, "join", IF call[t].answer = "timeout" THEN "timeout" ELSE "ok")
  /\ UNCHANGED <<opt, eta, handle, proc, status, bytes, produced>>

-----------------------------------------------------------------------------
(***************************************************************************)
(* The handle of a spawned child in the hands of the program.              *)
(***************************************************************************)
Owned(t) == eta # "killed" /\ call[t].pc = "owned"

\* %process-wait; a child that was waited for is answered from the handle.
WaitBegin(t) ==
  /\ Owned(t) /\ handle[t].pid
  /\ call' = [call EXCEPT ![t].pc = "wait", ![t].late = FALSE]
  /\ UNCHANGED <<opt, eta, handle, os>>

\* %process-kill, and %process-terminate of a child that dies of SIGTERM.
KillBySignal(t) ==
  /\ Owned(t) /\ Signal(t)
  /\ UNCHANGED <<opt, eta, call, handle, bytes, produced>>

\* %process-alive?, %process-exit-code
Probe(t) ==
  /\ Owned(t) /\ handle[t].pid /\ Reap(t)
  /\ UNCHANGED <<opt, eta, call, status, holds, bytes, produced>>

\* A port's write blocks while the pipe is full, its read while it is empty.
PortBegins(t) ==
  /\ \/ Goto(t, "owned", "write") /\ call[t].left > 0
          /\ <<t, "stdin", "write">> \in holds[Eta]
     \/ Goto(t, "owned", "read") /\ <<t, "stdout", "read">> \in holds[Eta]
  /\ UNCHANGED <<opt, eta, handle, os>>

PortWrites(t) ==
  /\ eta # "killed" /\ call[t].pc = "write"
  /\ \/ /\ HasReader(t, "stdin") /\ bytes[<<t, "stdin">>] < PipeSize
        /\ bytes' = [bytes EXCEPT ![<<t, "stdin">>] = @ + 1]
        /\ UNCHANGED eta
     \/ ~HasReader(t, "stdin") /\ BrokenPipe /\ UNCHANGED bytes
  /\ call' = [call EXCEPT ![t].pc = "owned", ![t].left = @ - 1]
  /\ UNCHANGED <<opt, handle, proc, status, holds, produced>>

PortReads(t) ==
  /\ Goto(t, "read", "owned")
  /\ \/ /\ bytes[<<t, "stdout">>] > 0
        /\ bytes' = [bytes EXCEPT ![<<t, "stdout">>] = @ - 1]
     \/ bytes[<<t, "stdout">>] = 0 /\ ~HasWriter(t, "stdout") /\ UNCHANGED bytes
  /\ UNCHANGED <<opt, eta, handle, proc, status, holds, produced>>

ClosePort(t) ==
  /\ Owned(t)
  /\ \E s \in {"stdin", "stdout"} :
        /\ Ends(t, s) \cap holds[Eta] # {}
        /\ holds' = [holds EXCEPT ![Eta] = @ \ Ends(t, s)]
  /\ UNCHANGED <<opt, eta, call, handle, proc, status, bytes, produced>>

\* A collection destroys the handle and its ports; ~ProcessHandle neither
\* waits for the child nor signals it.
Collected(t) ==
  /\ Finish(t, "owned", "dropped")
  /\ UNCHANGED <<opt, eta, handle, proc, status, bytes, produced>>

-----------------------------------------------------------------------------
(***************************************************************************)
(* The programs that were started: they read, write, fork, close and end   *)
(* as they like.                                                           *)
(***************************************************************************)
Takes(p) ==
  LET in == <<p[1], "stdin">> IN
    /\ <<p[1], "stdin", "read">> \in holds[p] /\ bytes[in] > 0
    /\ bytes' = [bytes EXCEPT ![in] = @ - 1]
    /\ UNCHANGED <<proc, status, holds, produced>>

Writes(p) ==
  LET out == <<p[1], "stdout">> IN
    /\ <<p[1], "stdout", "write">> \in holds[p]
    /\ HasReader(p[1], "stdout") /\ bytes[out] < PipeSize /\ produced[p[1]] < MaxOutput
    /\ bytes' = [bytes EXCEPT ![out] = @ + 1]
    /\ produced' = [produced EXCEPT ![p[1]] = @ + 1]
    /\ UNCHANGED <<proc, status, holds>>

ClosesStdin(p) ==
  /\ <<p[1], "stdin", "read">> \in holds[p]
  /\ holds' = [holds EXCEPT ![p] = @ \ {<<p[1], "stdin", "read">>}]
  /\ UNCHANGED <<proc, status, bytes, produced>>

Forks(p) ==
  LET heir == Heir(p[1]) IN
    /\ opt[p[1]].forks /\ proc[heir] = "none"
    /\ proc' = [proc EXCEPT ![heir] = "running"]
    /\ holds' = [holds EXCEPT ![heir] = holds[p]]
    /\ UNCHANGED <<status, bytes, produced>>

\* Of itself, or of a signal, SIGPIPE among them.
Exits(p) ==
  \/ p = Child(p[1]) /\ Dies(p[1], "exited") /\ UNCHANGED <<bytes, produced>>
  \/ /\ p = Heir(p[1])
     /\ proc' = [proc EXCEPT ![p] = "gone"]
     /\ holds' = [holds EXCEPT ![p] = {}]
     /\ UNCHANGED <<status, bytes, produced>>

ProgramSteps(p) ==
  /\ eta # "killed" /\ proc[p] = "running"
  /\ Takes(p) \/ Writes(p) \/ ClosesStdin(p) \/ Forks(p) \/ Exits(p)
  /\ UNCHANGED <<opt, eta, call, handle>>

-----------------------------------------------------------------------------
\* What a thread does once it has begun, and what the program may ask for.
VmThread(t) ==
  \/ SetCloexec(t) \/ Fork(t) \/ CloseChildEnds(t)
  \/ ReadSpawnError(t) \/ SpawnErrorRead(t)
  \/ WaitReaps(t) \/ WaitPolls(t) \/ PollAgain(t) \/ TimedOut(t) \/ KillTimedOut(t)
  \/ Join(t) \/ PortWrites(t) \/ PortReads(t)
Asks(t) ==
  \/ MakePipes(t) \/ SpawnFails(t) \/ WaitBegin(t) \/ KillBySignal(t) \/ Probe(t)
  \/ PortBegins(t) \/ ClosePort(t) \/ Collected(t)
Writer(t) == WriterWrites(t) \/ WriterEnds(t)
Reader(t) == ReaderReads(t) \/ ReaderEnds(t)
Starting(t) == ChildExecs(t) \/ ChildFails(t)

CallsNext ==
  \/ \E t \in Thread : \/ VmThread(t) \/ Asks(t) \/ Writer(t) \/ Reader(t)
                       \/ Starting(t) \/ DeadlinePasses(t)
  \/ \E p \in Process : ProgramSteps(p)

\* A call that has begun goes on, as do its I/O threads and its child on the way
\* to exec, and time passes; the started programs owe nothing.
ThreadsRun ==
  \A t \in Thread : /\ WF_callVars(VmThread(t)) /\ WF_callVars(Writer(t)) /\ WF_callVars(Reader(t))
                    /\ WF_callVars(Starting(t)) /\ WF_callVars(DeadlinePasses(t))

CallsSpec == InitCalls /\ [][CallsNext]_callVars /\ ThreadsRun

-----------------------------------------------------------------------------
\* What the handle says is true of the child of its own call: an id is that of
\* a process that became the program and was not waited for, so that nothing
\* else is ever signalled, and the exit code is how that child ended
\* (wait_for_process, poll_process_exit, signal_process).
HandleIsChild ==
  \A t \in Thread :
    /\ handle[t].pid => proc[Child(t)] \in {"running", "zombie"} /\ status[t] # "not-started"
    /\ handle[t].waited =>
         proc[Child(t)] = "gone" /\ handle[t].exit_code = status[t] /\ status[t] # "none"

\* A run that succeeds has captured all that was written to its stdout, by its
\* child or by what the child left behind.
OutputComplete ==
  \A t \in Thread :
    opt[t].stdout = "capture" /\ call[t].answer = "ok" =>
      call[t].got = produced[t] /\ bytes[<<t, "stdout">>] = 0

\* However a run ends, in time, late or not started, its child was waited for
\* and its pipes are closed.
RunCleansUp ==
  \A t \in Thread :
    opt[t].kind = "run" /\ call[t].pc = "done" =>
      proc[Child(t)] \in {"none", "gone"} /\ holds[Eta] \cap AllEnds(t) = {}

\* Once the programs have ended no call waits for them any longer, with pipes
\* full or half read, whatever other calls do: no end of a pipe is left open by
\* mistake.
Waiting == {"closed", "wait", "polled", "kill", "reap", "join", "write", "read"}
CallReturns ==
  \A t \in Thread :
    call[t].pc \in Waiting /\ (\A p \in Process : ~Alive(p))
      ~> call[t].pc \notin Waiting \/ eta = "killed"
=============================================================================
