----------------------------- MODULE DebugState -----------------------------
(***************************************************************************)
(* runtime/vm/debug_state.h and the debug hook of the run loop (vm.cpp):   *)
(* the VM thread asks before every instruction whether to stop, and while  *)
(* stopped waits on debug_cv_ for the debugger thread.  The program is any *)
(* program: each instruction goes to any line, calls, returns or unwinds   *)
(* to a handler, or jumps through a continuation; it may run for ever.     *)
(***************************************************************************)
EXTENDS Naturals

CONSTANTS
  Line,      \* source locations (file and line) of the program
  NoLine,    \* the span of code compiled without debug information
  MaxDepth,  \* bound: call frames
  MaxJumps   \* bound: continuation jumps of a run

ASSUME DebugAssumption ==
  NoLine \notin Line /\ MaxDepth \in Nat \ {0} /\ MaxJumps \in Nat

VARIABLES
  vm,          \* where the VM thread is
  line, depth, \* the instruction it is about to execute
  breakpoints,
  should_pause,
  is_paused,
  stopped,     \* stopped_span_
  step,        \* step_mode_, its target depth, origin line, epoch and skip flag
  epoch,       \* step_current_epoch_
  last_bp,     \* last_bp_file_, last_bp_line_
  event        \* the reason of the StopEvent

programVars == <<line, depth>>
stepVars    == <<step, epoch, last_bp>>
debugVars   == <<vm, programVars, breakpoints, should_pause, is_paused, stopped,
                 stepVars, event>>

Span  == Line \cup {NoLine}
\* No step is armed: depth, line and epoch are read only while one is, and
\* every step command sets those it needs; their left-over values do not count.
NoStep == [mode |-> "None", depth |-> 0, line |-> NoLine, epoch |-> 0, skip |-> FALSE]

\* A VM that has just been started, with breakpoints bps installed.
Started(bps, pause) ==
  /\ vm = "checkPause"
  /\ line \in Span /\ depth = 1
  /\ breakpoints = bps
  /\ should_pause = pause
  /\ is_paused = FALSE /\ stopped = NoLine
  /\ step = NoStep /\ epoch = 0 /\ last_bp = NoLine /\ event = "None"

-----------------------------------------------------------------------------
(***************************************************************************)
(* The debugger's side: one critical section each.                         *)
(***************************************************************************)
SetBreakpoints(bps) ==
  /\ breakpoints' = bps
  /\ UNCHANGED <<vm, programVars, should_pause, is_paused, stopped, stepVars, event>>

\* Faulty variant: a pause still to be honoured is dropped.
ReleaseDroppingPause ==
  /\ is_paused' = FALSE /\ should_pause' = FALSE
  /\ step' = NoStep
  /\ last_bp' = NoLine
  /\ UNCHANGED <<programVars, breakpoints, stopped, epoch, event>>

\* What resume() does, from whichever thread.
Release ==
  /\ is_paused' = FALSE
  /\ step' = NoStep
  /\ last_bp' = NoLine
  /\ UNCHANGED <<programVars, breakpoints, should_pause, stopped, epoch, event>>

Resume == Release /\ UNCHANGED vm

\* What VM::step_over and VM::step_in arm: source lines cannot be stepped in
\* code without spans, there it is instructions.
StepModeFor(request) ==
  CASE request = "next"   -> IF stopped = NoLine THEN "OverInstruction" ELSE "Over"
    [] request = "stepIn" -> IF stopped = NoLine THEN "InInstruction" ELSE "In"
    [] request = "stepOut" -> "Out"
    [] request = "nextInstruction" -> "OverInstruction"
    [] request = "stepInInstruction" -> "InInstruction"

StepAs(request) ==
  LET mode == StepModeFor(request)
      byInstruction == mode \in {"OverInstruction", "InInstruction"} IN
  /\ step' = [mode |-> mode, depth |-> depth,
              line |-> IF mode \in {"Over", "In"} THEN stopped ELSE NoLine,
              epoch |-> epoch, skip |-> byInstruction]
  /\ is_paused' = FALSE
  /\ UNCHANGED <<vm, programVars, breakpoints, should_pause, stopped, epoch,
                 last_bp, event>>

RequestPause ==
  /\ should_pause' = TRUE
  /\ UNCHANGED <<vm, programVars, breakpoints, is_paused, stopped, stepVars, event>>

-----------------------------------------------------------------------------
(***************************************************************************)
(* The VM thread: check_stop, then check_and_wait, then the instruction.   *)
(***************************************************************************)
Goto(from, to) == vm = from /\ vm' = to

CheckPause ==
  /\ IF should_pause
       THEN /\ Goto("checkPause", "pausing")
            /\ should_pause' = FALSE
            /\ event' = "Pause"
       ELSE /\ Goto("checkPause", "checkBp")
            /\ UNCHANGED <<should_pause, event>>
  /\ UNCHANGED <<programVars, breakpoints, is_paused, stopped, stepVars>>

\* Faulty variant: the last hit is never forgotten.
CheckBreakpointForgetful ==
  /\ \/ /\ Goto("checkBp", "checkStep")
        /\ line \in breakpoints => line = last_bp
        /\ UNCHANGED <<step, event, last_bp>>
     \/ /\ Goto("checkBp", "pausing")
        /\ line \in breakpoints /\ line # last_bp
        /\ last_bp' = line
        /\ step' = [NoStep EXCEPT !.skip = step.skip]
        /\ event' = "Breakpoint"
  /\ UNCHANGED <<programVars, breakpoints, should_pause, is_paused, stopped, epoch>>

CheckBreakpoint ==
  /\ \/ /\ Goto("checkBp", "checkStep")
        /\ line = NoLine \/ (line \in breakpoints /\ line = last_bp)
        /\ UNCHANGED <<step, event, last_bp>>
     \/ /\ Goto("checkBp", "checkStep")
        /\ line \in Line \ breakpoints
        /\ last_bp' = NoLine
        /\ UNCHANGED <<step, event>>
     \/ /\ Goto("checkBp", "pausing")
        /\ line \in breakpoints /\ line # last_bp
        /\ last_bp' = line
        /\ step' = [NoStep EXCEPT !.skip = step.skip]
        /\ event' = "Breakpoint"
  /\ UNCHANGED <<programVars, breakpoints, should_pause, is_paused, stopped, epoch>>

StepDue ==
  CASE step.mode = "In"   -> line # step.line
    [] step.mode = "Over" -> depth <= step.depth /\ line # step.line
    [] step.mode = "Out"  -> depth < step.depth
    [] step.mode = "OverInstruction" -> ~step.skip /\ depth <= step.depth
    [] step.mode = "InInstruction"   -> ~step.skip
    [] step.mode = "None" -> FALSE

\* Faulty variant: a continuation jump does not disarm the step.
CheckStepAcrossJumps ==
  /\ \/ /\ Goto("checkStep", "exec")
        /\ ~StepDue
        /\ step' = [step EXCEPT !.skip = step.mode = "None" /\ step.skip]
        /\ UNCHANGED event
     \/ /\ Goto("checkStep", "pausing")
        /\ StepDue
        /\ step' = [NoStep EXCEPT !.skip = step.skip]
        /\ event' = "Step"
  /\ UNCHANGED <<programVars, breakpoints, should_pause, is_paused, stopped, epoch,
                 last_bp>>

CheckStep ==
  /\ \/ /\ Goto("checkStep", "exec")
        /\ step.mode # "None" /\ step.epoch # epoch
        /\ step' = NoStep
        /\ UNCHANGED event
     \/ /\ Goto("checkStep", "exec")
        /\ step.mode = "None" \/ step.epoch = epoch
        /\ ~StepDue
        /\ step' = [step EXCEPT !.skip = step.mode = "None" /\ step.skip]
        /\ UNCHANGED event
     \/ /\ Goto("checkStep", "pausing")
        /\ step.epoch = epoch /\ StepDue
        /\ step' = [NoStep EXCEPT !.skip = step.skip]
        /\ event' = "Step"
  /\ UNCHANGED <<programVars, breakpoints, should_pause, is_paused, stopped, epoch,
                 last_bp>>

\* is_paused_ is set before the callback, which runs without the lock.
BeginStop ==
  /\ Goto("pausing", "callback")
  /\ is_paused' = TRUE
  /\ stopped' = IF event = "FinalizerError" THEN NoLine ELSE line
  /\ UNCHANGED <<programVars, breakpoints, should_pause, stepVars, event>>

\* debug_cv_.wait with its predicate.
EndStop ==
  /\ Goto("wait", IF event = "Exception" THEN "ended"
                  ELSE IF event = "FinalizerError" THEN "checkPause" ELSE "exec")
  /\ ~is_paused
  /\ UNCHANGED <<programVars, breakpoints, should_pause, is_paused, stopped, stepVars,
                 event>>

Execute ==
  /\ Goto("exec", "checkPause")
  /\ line' \in Span /\ depth' \in 1..MaxDepth
  /\ \/ /\ depth' <= depth + 1
        /\ UNCHANGED epoch
     \/ /\ epoch < MaxJumps
        /\ epoch' = epoch + 1
  /\ UNCHANGED <<breakpoints, should_pause, is_paused, stopped, step, last_bp, event>>

\* An error no handler catches: notify_exception stops, then the run fails.
Throw ==
  /\ Goto("exec", "pausing")
  /\ event' = "Exception"
  /\ UNCHANGED <<programVars, breakpoints, should_pause, is_paused, stopped, stepVars>>

\* process_pending_finalizers reports a failing finalizer and carries on.
FinalizerFails ==
  /\ Goto("checkPause", "pausing")
  /\ event' = "FinalizerError"
  /\ UNCHANGED <<programVars, breakpoints, should_pause, is_paused, stopped, stepVars>>

Finish ==
  /\ Goto("exec", "ended")
  /\ UNCHANGED <<programVars, breakpoints, should_pause, is_paused, stopped, stepVars,
                 event>>
=============================================================================
