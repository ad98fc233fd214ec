----------------------------- MODULE DapSession -----------------------------
(***************************************************************************)
(* tools/dap/dap_server.cpp around one debugged VM: the client, the DAP    *)
(* thread that reads its requests, and the VM thread with its stop         *)
(* callback.  Handlers and callback run under vm_mutex_, so each is one    *)
(* step; the stopped event is sent after the mutex is released.            *)
(***************************************************************************)
EXTENDS DebugState

CONSTANTS
  Clients,      \* the clients considered: the requests each may send
  StopOnEntry,  \* values of the launch argument
  MaxRestarts   \* bound

VARIABLES
  client,      \* what this one may send
  dap,         \* where the DAP thread is
  request,     \* the request it has not read yet
  view,        \* what the client was last told
  generation,  \* the Driver in driver_
  registered,  \* the Driver threads_by_id_[1] points into
  past         \* history: what the properties need of the past

sessionVars == <<dap, request, view, generation, registered>>
vars == <<debugVars, sessionVars, past, client>>

Steps == {"next", "stepIn", "stepOut", "nextInstruction", "stepInInstruction"}
Leaves == {"terminate", "restart", "disconnect", "eof"}
AllRequests == Steps \cup Leaves \cup {"continue", "pause", "setBreakpoints"}

ASSUME SessionAssumption ==
  Clients \subseteq SUBSET AllRequests /\ StopOnEntry \subseteq BOOLEAN /\ MaxRestarts \in Nat

\* command, depth, epoch: the last continue or step and where it was given;
\* executed: whether anything was since; from: the line left last, unless a step
\* left it from a pause;
\* steady: the breakpoints are those that were set on arrival; here: this
\* instruction was stopped at.
NoPast == [command |-> "none", depth |-> 0, epoch |-> 0, executed |-> FALSE,
           from |-> NoLine, steady |-> TRUE, here |-> FALSE]
Forgotten == [past EXCEPT !.command = "none", !.depth = 0, !.epoch = 0, !.executed = FALSE]

\* Launched: start_vm_from_current_launch has published driver_, registered
\* its main thread, installed the breakpoints and started the VM thread.
Init ==
  /\ \E bps \in SUBSET Line, pause \in StopOnEntry : Started(bps, pause)
  /\ dap = "read" /\ request = "none" /\ view = "running"
  /\ generation = 0 /\ registered = 0
  /\ past = NoPast
  /\ client \in Clients

-----------------------------------------------------------------------------
(***************************************************************************)
(* The client: it resumes what it was told has stopped, pauses what runs,  *)
(* edits breakpoints, and may leave, at any time.                          *)
(***************************************************************************)
Send(r) ==
  /\ request = "none" /\ dap = "read"
  /\ r \in Steps \cup {"continue"} => view = "stopped"
  /\ r = "pause" => view = "running"
  /\ r = "restart" => generation < MaxRestarts
  /\ request' = r
  /\ view' = IF r \in Steps \cup {"continue"} THEN "running"
             ELSE IF r \in Leaves /\ view # "terminated" THEN "leaving" ELSE view
  /\ UNCHANGED <<debugVars, dap, generation, registered, past>>

-----------------------------------------------------------------------------
(***************************************************************************)
(* The DAP thread.  Requests that name a thread go to the VM the registry  *)
(* knows; one that was destroyed by a restart takes them to nowhere.       *)
(***************************************************************************)
Read(rs) == dap = "read" /\ request \in rs /\ request' = "none"

Reaches == registered = generation

HandleSetBreakpoints ==
  /\ Read({"setBreakpoints"})
  /\ \E bps \in SUBSET Line : SetBreakpoints(bps)
  /\ past' = [past EXCEPT !.steady = FALSE]
  /\ UNCHANGED <<dap, view, generation, registered>>

HandleContinue ==
  /\ Read({"continue"})
  /\ IF Reaches THEN Resume ELSE UNCHANGED debugVars
  /\ past' = Forgotten
  /\ UNCHANGED <<dap, view, generation, registered>>

HandleStep ==
  /\ Read(Steps)
  /\ IF Reaches THEN StepAs(request) ELSE UNCHANGED debugVars
  /\ past' = [past EXCEPT !.command = request, !.depth = depth, !.epoch = epoch,
                          !.executed = FALSE]
  /\ UNCHANGED <<dap, view, generation, registered>>

HandlePause ==
  /\ Read({"pause"})
  /\ IF Reaches THEN RequestPause ELSE UNCHANGED debugVars
  /\ UNCHANGED <<dap, view, generation, registered, past>>

\* terminate, disconnect and restart resume driver_'s own VM.
HandleLeave ==
  /\ Read({"terminate", "disconnect", "restart"})
  /\ Resume
  /\ dap' = CASE request = "terminate"  -> "read"
              [] request = "disconnect" -> "joining"
              [] request = "restart"    -> "restarting"
  /\ UNCHANGED <<view, generation, registered, past>>

\* read_message fails: run() leaves its loop and joins the VM thread.
EndOfInput ==
  /\ Read({"eof"})
  /\ dap' = "joining"
  /\ UNCHANGED <<debugVars, view, generation, registered, past>>

Join ==
  /\ dap = "joining" /\ vm = "finished"
  /\ dap' = "exited"
  /\ UNCHANGED <<debugVars, request, view, generation, registered, past>>

\* The join in handle_restart, and start_vm_from_current_launch:
\* register_main_thread_locked finds id 1 taken and returns.
Restart ==
  /\ dap = "restarting" /\ vm = "finished"
  /\ dap' = "read" /\ view' = "running"
  /\ generation' = generation + 1
  /\ vm' = "checkPause"
  /\ line' \in Span /\ depth' = 1
  /\ should_pause' \in StopOnEntry
  /\ is_paused' = FALSE /\ stopped' = NoLine
  /\ step' = NoStep /\ epoch' = 0 /\ last_bp' = NoLine /\ event' = "None"
  /\ past' = NoPast
  /\ UNCHANGED <<breakpoints, request, registered>>

-----------------------------------------------------------------------------
(***************************************************************************)
(* The VM thread.                                                          *)
(***************************************************************************)
VmStops ==
  /\ BeginStop
  /\ past' = [past EXCEPT !.here = event # "FinalizerError"]
  /\ UNCHANGED sessionVars

\* Faulty variant: the breakpoint that is not to stop forgets to resume.
OnThreadStoppedSilently ==
  /\ \/ Goto("callback", "emit")
     \/ Goto("callback", "wait") /\ event = "Breakpoint" /\ line \in breakpoints
  /\ UNCHANGED <<programVars, breakpoints, should_pause, is_paused, stopped, stepVars,
                 event, past, sessionVars>>

\* on_thread_stopped.  A breakpoint whose condition or hit count fails, or
\* that only logs, resumes its VM at once and tells nobody; the breakpoint
\* may have been removed since check_stop saw it.
OnThreadStopped ==
  \/ /\ Goto("callback", "emit")
     /\ UNCHANGED <<programVars, breakpoints, should_pause, is_paused, stopped, stepVars,
                    event, past, sessionVars>>
  \/ /\ Goto("callback", "wait")
     /\ event = "Breakpoint" /\ line \in breakpoints /\ Reaches
     /\ Release
     /\ past' = Forgotten
     /\ UNCHANGED sessionVars

SendStopped ==
  /\ Goto("emit", "wait")
  /\ view' = IF view = "running" THEN "stopped" ELSE view
  /\ UNCHANGED <<programVars, breakpoints, should_pause, is_paused, stopped, stepVars,
                 event, dap, request, generation, registered, past>>

VmExecutes ==
  /\ Execute
  /\ past' = [past EXCEPT !.executed = past.command # "none", !.steady = TRUE, !.here = FALSE,
                          !.from = IF past.here /\ event = "Pause" /\ past.command # "none"
                                     THEN NoLine ELSE line]
  /\ UNCHANGED sessionVars

VmInternal ==
  /\ CheckPause \/ CheckBreakpoint \/ CheckStep \/ EndStop \/ Throw \/ FinalizerFails
       \/ Finish
  /\ UNCHANGED <<past, sessionVars>>

SendTerminated ==
  /\ Goto("ended", "finished")
  /\ view' = "terminated"
  /\ UNCHANGED <<programVars, breakpoints, should_pause, is_paused, stopped, stepVars,
                 event, dap, request, generation, registered, past>>

VmThread ==
  /\ VmStops \/ OnThreadStopped \/ SendStopped \/ VmExecutes \/ VmInternal \/ SendTerminated
  /\ UNCHANGED client
DapThread ==
  /\ HandleSetBreakpoints \/ HandleContinue \/ HandleStep \/ HandlePause \/ HandleLeave
       \/ EndOfInput \/ Join \/ Restart
  /\ UNCHANGED client
Client == (\E r \in client : Send(r)) /\ UNCHANGED client

Next == Client \/ DapThread \/ VmThread

Spec == Init /\ [][Next]_vars

\* Both threads keep running; the client owes nothing.
FairSpec == Spec /\ WF_vars(DapThread) /\ WF_vars(VmThread)
=============================================================================
