--------------------------- MODULE ProcessManager ---------------------------
(***************************************************************************)
(* The actors of a program: processes and threads behind the mailboxes of  *)
(* Mailbox, the ProcessManager that starts, waits for, kills and joins     *)
(* them under its mutex mu_, and the debugger, which lists and ends them   *)
(* from its own thread and keeps a registry of the threads' VMs.           *)
(***************************************************************************)
EXTENDS Mailbox, FiniteSets

CONSTANTS Threads,     \* the sockets of in-process actors; the others are processes
          Programs     \* the programs: which calls each makes on each socket

ASSUME ActorAssumption == /\ Threads \subseteq Sock
                          /\ NoSock \notin Sock
                          /\ MaxSkip \in Nat \ {0}

VARIABLES program,
          handle,      \* ChildHandle::process_id is set
          reaped,      \* waitpid has returned the process
          joinable,    \* ThreadHandle::thread is joinable
          registry,    \* threads_by_id_: the actors the debugger knows a VM of
          dap,         \* the request the debugger holds vm_mutex_ for
          ended        \* history: threads the debugger ended

managed == <<program, handle, reaped, joinable, registry, dap, ended>>
vars    == <<mbox, managed>>

Processes == Sock \ Threads
Phases    == {"none", "new", "loading", "starting", "running", "leaving", "ended"}
NoRequest == [op |-> "none", sock |-> NoSock]

Init == /\ MailboxInit
        /\ program \in Programs
        /\ handle = [s \in Sock |-> FALSE]
        /\ reaped = [s \in Sock |-> FALSE]
        /\ joinable = [s \in Sock |-> FALSE]
        /\ registry = {}
        /\ dap = NoRequest
        /\ ended = {}

\* spawn-wait, spawn-kill and the destructor call waitpid with mu_ held.
MuHeldJoining == vm.op \in {"reap", "join"}
MuHeld == vm.op = "reap"
Alive(s) == actor[s] \notin {"none", "ended"}

OnlyVm   == <<ends, pending, notif, monitor, closing, closed, beating, got, told>>
NotActor == <<pipe, wire, out, sent, pending, notif, monitor, closing, closed,
              beating, vm, got, told>>

-----------------------------------------------------------------------------
(* The program's calls, on the VM thread.                                  *)

\* spawn, spawn-thread-with, spawn-thread: the socket listens, the actor is
\* started and its handle stored.
Spawn(s) ==
  /\ vm = Idle /\ actor[s] = "none"
  /\ actor' = [actor EXCEPT ![s] = "new"]
  /\ handle' = [handle EXCEPT ![s] = s \in Processes]
  /\ joinable' = [joinable EXCEPT ![s] = s \in Threads]
  /\ UNCHANGED <<NotActor, program, reaped, registry, dap, ended>>

\* spawn-wait and spawn-kill.  kill's SIGTERM ends the process some time.
ReapBegin(s, why) ==
  /\ vm = Idle /\ handle[s]
  /\ vm' = Call("reap", s, why)
  /\ UNCHANGED <<OnlyVm, managed>>

\* waitpid returns.  The destructor goes on to the next child.
ReapEndKeepingId(s) ==
  /\ vm.op = "reap" /\ vm.sock = s
  /\ actor[s] = "ended"
  /\ handle' = [handle EXCEPT ![s] = vm.mode = "wait"]
  /\ reaped' = [reaped EXCEPT ![s] = TRUE]
  /\ vm' = IF vm.mode = "destroy" THEN Call("destroy", NoSock, "none") ELSE Idle
  /\ UNCHANGED <<OnlyVm, program, joinable, registry, dap, ended>>
ReapEnd(s) ==
  /\ vm.op = "reap" /\ vm.sock = s
  /\ actor[s] = "ended"
  /\ handle' = [handle EXCEPT ![s] = FALSE]
  /\ reaped' = [reaped EXCEPT ![s] = TRUE]
  /\ vm' = IF vm.mode = "destroy" THEN Call("destroy", NoSock, "none") ELSE Idle
  /\ UNCHANGED <<OnlyVm, program, joinable, registry, dap, ended>>

\* thread-join moves the std::thread out and joins it without the mutex; a
\* thread that is not joinable counts as joined.
JoinBegin(s) ==
  /\ vm = Idle /\ joinable[s]
  /\ joinable' = [joinable EXCEPT ![s] = FALSE]
  /\ vm' = Call("join", s, "none")
  /\ UNCHANGED <<OnlyVm, program, handle, reaped, registry, dap, ended>>

JoinEndDetaching(s) ==
  /\ vm.op = "join" /\ vm.sock = s
  /\ vm' = Idle
  /\ UNCHANGED <<OnlyVm, managed>>
JoinEnd(s) ==
  /\ vm.op = "join" /\ vm.sock = s
  /\ actor[s] = "ended"
  /\ vm' = Idle
  /\ UNCHANGED <<OnlyVm, managed>>

\* ~ProcessManager: children that still run are killed and reaped one by one,
\* threads are left to run.
Quit ==
  /\ vm = Idle /\ dap = NoRequest
  /\ vm' = Call("destroy", NoSock, "none")
  /\ UNCHANGED <<OnlyVm, managed>>

DestroyRunning ==
  /\ vm.op = "destroy"
  /\ IF \E s \in Sock : handle[s] /\ Alive(s)
     THEN /\ \E s \in Sock : handle[s] /\ Alive(s) /\ vm' = Call("reap", s, "destroy")
          /\ UNCHANGED joinable
     ELSE /\ vm' = Call("gone", NoSock, "none")
          /\ joinable' = [s \in Sock |-> FALSE]
  /\ UNCHANGED <<OnlyVm, program, handle, reaped, registry, dap, ended>>
DestroyNext ==
  /\ vm.op = "destroy"
  /\ IF \E s \in Sock : handle[s]
     THEN /\ \E s \in Sock : handle[s] /\ vm' = Call("reap", s, "destroy")
          /\ UNCHANGED joinable
     ELSE /\ vm' = Call("gone", NoSock, "none")
          /\ joinable' = [s \in Sock |-> FALSE]
  /\ UNCHANGED <<OnlyVm, program, handle, reaped, registry, dap, ended>>

-----------------------------------------------------------------------------
(* The actors: main_etai's --mailbox, the driver's worker factories.       *)

Enter(s, from, to) == actor[s] = from /\ actor' = [actor EXCEPT ![s] = to]

\* install_mailbox; without a listener the worker returns.
Dial(s) ==
  /\ Enter(s, "new", IF closed[s] THEN "ended" ELSE "loading")
  /\ pipe' = [pipe EXCEPT ![s] = IF closed[s] THEN @ ELSE "up"]
  /\ UNCHANGED <<wire, out, sent, pending, notif, monitor, closing, closed,
                 beating, vm, got, told, managed>>

\* The module is loaded; a thread then goes to tell the debug listener.
Loaded(s) ==
  /\ Enter(s, "loading", IF s \in Threads THEN "starting" ELSE "running")
  /\ UNCHANGED <<NotActor, managed>>

\* An actor fails while it starts or runs: a process is killed or crashes, an
\* exception takes a thread's worker to its catch (...), past
\* notify_thread_exited.
Fails(s) ==
  /\ actor[s] \in {"new", "loading", "running"}
  /\ actor' = [actor EXCEPT ![s] = "ended"]
  /\ UNCHANGED <<NotActor, managed>>

\* The listener takes vm_mutex_ to register the actor's VM.
Started(s) ==
  /\ Enter(s, "starting", "running")
  /\ dap = NoRequest
  /\ registry' = registry \cup {s}
  /\ UNCHANGED <<NotActor, program, handle, reaped, joinable, dap, ended>>

\* The function of a thread returns.
Returns(s) ==
  /\ s \in Threads /\ Enter(s, "running", "leaving")
  /\ UNCHANGED <<NotActor, managed>>

\* notify_thread_exited copies the listener under mu_ and the listener takes
\* vm_mutex_; then the child's Driver is destroyed.
Exited(s) ==
  /\ Enter(s, "leaving", "ended")
  /\ dap = NoRequest /\ ~MuHeld
  /\ registry' = registry \ {s}
  /\ UNCHANGED <<NotActor, program, handle, reaped, joinable, dap, ended>>

-----------------------------------------------------------------------------
(* The debugger's thread: a request takes vm_mutex_, then mu_.             *)

Request(op, s) ==
  /\ op \in program[s]
  /\ dap = NoRequest /\ vm.op \notin {"destroy", "gone"} /\ vm.mode # "destroy"
  /\ dap' = [op |-> op, sock |-> s]
  /\ UNCHANGED <<mbox, program, handle, reaped, joinable, registry, ended>>

\* handle_child_processes: list_children.
Listed ==
  /\ dap.op = "list" /\ ~MuHeld
  /\ dap' = NoRequest
  /\ UNCHANGED <<mbox, program, handle, reaped, joinable, registry, ended>>

\* handle_terminate_threads: terminate_thread_by_index closes the parent's
\* socket under the VM's feet and detaches the thread.
Terminated(s) ==
  /\ dap = [op |-> "terminate", sock |-> s] /\ ~MuHeld
  /\ dap' = NoRequest
  /\ IF closed[s] THEN UNCHANGED mbox ELSE Shut(s) /\ UNCHANGED vm
  /\ joinable' = [joinable EXCEPT ![s] = FALSE]
  /\ ended' = ended \cup {s}
  /\ UNCHANGED <<program, handle, reaped, registry>>

-----------------------------------------------------------------------------
(* What the program calls, on each socket.                                 *)

Recv(s) == RecvNotification(s) \/ RecvPending(s) \/ \E m \in RecvModes : RecvBegin(s, m)

MailCalls(s) ==
  \/ "recv" \in program[s] /\ Recv(s)
  \/ "poll" \in program[s] /\ Poll(s)
  \/ "send" \in program[s] /\ \E m \in RecvModes : SendBegin(s, m)
  \/ "monitor" \in program[s] /\ (Monitor(s) \/ Demonitor(s))
  \/ "beat" \in program[s] /\ EnableHeartbeat(s)
  \/ "close" \in program[s] /\ Close(s)

MailEnds(s) == RecvMessage(s) \/ RecvNothing(s) \/ SendEnd(s)

ManagerCalls(s) ==
  \/ "spawn" \in program[s] /\ Spawn(s)
  \/ "reap" \in program[s] /\ \E why \in {"wait", "kill"} : ReapBegin(s, why)
  \/ "join" \in program[s] /\ JoinBegin(s)

Actor(s) == Dial(s) \/ Loaded(s) \/ Fails(s) \/ Started(s) \/ Returns(s) \/ Exited(s)

Debugger == \/ \E s \in Sock : Request("list", s)
            \/ \E s \in Threads : Request("terminate", s) \/ Terminated(s)
            \/ Listed

Next ==
  \/ \E s \in Sock :
       \/ (MailCalls(s) \/ MailEnds(s) \/ Transport(s)) /\ UNCHANGED managed
       \/ ManagerCalls(s) \/ ReapEnd(s) \/ JoinEnd(s) \/ Actor(s)
  \/ Quit \/ DestroyNext
  \/ Debugger

\* Every thread gets on with what it has begun and a signalled process dies,
\* but nothing says that an actor answers, sends, returns or exits.
Runs == \A s \in Sock :
  /\ WF_vars(MailEnds(s) /\ UNCHANGED managed)
  /\ WF_vars(ReapEnd(s)) /\ WF_vars(JoinEnd(s))
  /\ WF_vars((PipeRemoved(s) \/ CallbackTests(s) \/ CallbackPushes(s)) /\ UNCHANGED managed)
  /\ WF_vars((BeatPing(s) \/ BeatStamp(s) \/ BeatCheck(s)) /\ UNCHANGED managed)
  /\ WF_vars(Dial(s) \/ Loaded(s) \/ Exited(s)) /\ WF_vars(Started(s))
  /\ WF_vars(vm.mode \in {"kill", "destroy"} /\ vm.sock = s /\ Fails(s))
  /\ WF_vars(Listed \/ Terminated(s))

\* The program keeps calling recv! on the sockets it receives from.
Receives == \A s \in Sock : SF_vars("recv" \in program[s] /\ Recv(s) /\ UNCHANGED managed)

Fairness == Runs /\ WF_vars(DestroyNext) /\ Receives

Spec == Init /\ [][Next]_vars /\ Fairness

-----------------------------------------------------------------------------
\* The process id a handle holds is that of a child nobody has waited for:
\* what kill and waitpid are given is never another process.
HandleTracksChild ==
  \A p \in Processes : handle[p] <=> actor[p] # "none" /\ ~reaped[p]

\* Once thread-join has returned the thread is over, unless the debugger
\* ended it (process_mgr.h, "Block until the actor thread ... completes").
JoinMeansDone ==
  \A t \in Threads \ ended :
     actor[t] # "none" /\ ~joinable[t] /\ vm.op \notin {"join", "gone"} => actor[t] = "ended"

\* When the manager is gone no child process is left, running or unreaped.
NothingLeft == vm.op = "gone" => \A p \in Processes : actor[p] = "none" \/ reaped[p]
=============================================================================
