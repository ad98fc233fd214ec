----------------------------- MODULE VmControl -----------------------------
(***************************************************************************)
(* Control in the virtual machine (runtime/vm/vm.cpp): the frame stack,    *)
(* the winding stack of dynamic-wind, the catch stack, continuations and   *)
(* the transfer of a raise.  A program is any nesting of the forms in      *)
(* program: an activation executes what it likes next, and its pc is no    *)
(* more than the number of catch forms around it.  Values, and with them   *)
(* the value stack, are left out.  Every procedure is a closure.           *)
(***************************************************************************)
EXTENDS Integers, SequencesExt

CONSTANTS
  Programs,   \* the programs: sets of forms each may use
  Tags,       \* the symbols a raise names
  AnyTag,     \* Nil: a catch without a tag
  NoTransfer,
  MaxSteps,   \* bound: forms entered and jumps made
  MaxWinds,   \* bound: evaluations of dynamic-wind
  MaxConts    \* bound: continuations captured

Roles      == {"none", "main", "lambda", "before", "body", "after"}
Regs       == [role : Roles, extent : Nat, depth : Nat]
CatchFrame == [tag : Tags \cup {AnyTag}, regs : Regs, frame_count : Nat, wind_count : Nat]
Transfer   == [target : CatchFrame, thunks : Seq(Nat)]

ASSUME ControlAssumption ==
  /\ AnyTag \notin Tags /\ NoTransfer \notin Transfer
  /\ MaxSteps \in Nat /\ MaxWinds \in Nat /\ MaxConts \in Nat

VARIABLES
  program,
  vm,        \* members of VM: current registers, frames_, winding_stack_,
             \* catch_stack_, pending_exception_transfer_ with its thunks
  conts,     \* Continuation objects
  winds,     \* evaluations of dynamic-wind so far
  steps,
  entered,   \* history: the extents whose before has run and whose after has not
  departures \* history: what winding thunks did that the properties except

control == <<program, vm, conts, winds, steps, entered, departures>>

-----------------------------------------------------------------------------
(* Registers: what is being executed, and how many catch forms are open in *)
(* it.  An extent is one evaluation of dynamic-wind; its thunks are fresh. *)
Run(role, extent) == [role |-> role, extent |-> extent, depth |-> 0]
NoRun   == Run("none", 0)
Running == vm.regs.role # "none" /\ vm.status = "running"

WindKinds == {"DynamicWindBody", "DynamicWindAfter", "DynamicWindCleanup"}
Frame(kind, regs, extra) == [kind |-> kind, regs |-> regs, extra |-> extra]

SetupFrame(m, callee, kind, extra) ==
  [m EXCEPT !.frames = Append(@, Frame(kind, m.regs, extra)), !.regs = callee]

Resize(s, n, default) == [i \in 1..n |-> IF i <= Len(s) THEN s[i] ELSE default]

-----------------------------------------------------------------------------
(* Raising: the catch frame to land on, first the after thunks between.    *)
Land(m, cf) ==
  [m EXCEPT !.frames = Resize(@, cf.frame_count, Frame("Normal", NoRun, 0)),
            !.winds  = Resize(@, cf.wind_count, 0),
            !.regs   = cf.regs,
            !.transfer = NoTransfer]

\* Faulty variant: a thunk that was called stays in the list.
ResumeTransferAgain(m) ==
  IF m.transfer = NoTransfer THEN [m EXCEPT !.status = "internal error"]
  ELSE IF m.transfer.thunks = <<>> THEN Land(m, m.transfer.target)
  ELSE SetupFrame(m, Run("after", Head(m.transfer.thunks)), "ExceptionUnwind", 0)

ResumeTransfer(m) ==
  IF m.transfer = NoTransfer THEN [m EXCEPT !.status = "internal error"]
  ELSE IF m.transfer.thunks = <<>> THEN Land(m, m.transfer.target)
  ELSE SetupFrame([m EXCEPT !.transfer.thunks = Tail(@)],
                  Run("after", Head(m.transfer.thunks)), "ExceptionUnwind", 0)

\* Faulty variant: the catch frame a raise lands on stays open.
BeginTransferKeepingCatch(m, i) ==
  LET cf == m.catches[i]
      cut == [m EXCEPT !.catches = SubSeq(@, 1, i)]
  IN  IF Len(m.winds) <= cf.wind_count THEN [Land(cut, cf) EXCEPT !.transfer = m.transfer]
      ELSE ResumeTransfer([cut EXCEPT !.transfer =
             [target |-> cf,
              thunks |-> Reverse(SubSeq(m.winds, cf.wind_count + 1, Len(m.winds)))]])

BeginTransfer(m, i) ==
  LET cf == m.catches[i]
      cut == [m EXCEPT !.catches = SubSeq(@, 1, i - 1)]
  IN  IF Len(m.winds) <= cf.wind_count THEN [Land(cut, cf) EXCEPT !.transfer = m.transfer]
      ELSE ResumeTransfer([cut EXCEPT !.transfer =
             [target |-> cf,
              thunks |-> Reverse(SubSeq(m.winds, cf.wind_count + 1, Len(m.winds)))]])

-----------------------------------------------------------------------------
(* Invoking a continuation: leave the extents that are not the target's,   *)
(* enter the target's, then put its stacks in place.                       *)
Sentinels(s) == {i \in DOMAIN s : s[i].kind = "Sentinel"}

RestoreContinuation(m, c) ==
  LET boundary == Max(Sentinels(m.frames) \cup {0})
      frames   == SubSeq(m.frames, 1, boundary) \o c.frames
  IN  [m EXCEPT !.frames = Front(frames), !.regs = Last(frames).regs, !.winds = c.winds]

NextThunk(m, jump) ==
  IF jump.thunks = <<>> THEN RestoreContinuation(m, jump.target)
  ELSE SetupFrame(m, Head(jump.thunks), "ContinuationJump",
                  [jump EXCEPT !.thunks = Tail(@)])

\* Faulty variant: the extents of the target are not entered again.
InvokeContinuationLeaving(m, c) ==
  LET common == Len(LongestCommonPrefix({m.winds, c.winds}))
      leave  == Reverse(SubSeq(m.winds, common + 1, Len(m.winds)))
  IN  NextThunk(m, [target |-> c,
                    thunks |-> [i \in DOMAIN leave |-> Run("after", leave[i])]])

InvokeContinuation(m, c) ==
  LET common == Len(LongestCommonPrefix({m.winds, c.winds}))
      leave  == Reverse(SubSeq(m.winds, common + 1, Len(m.winds)))
      enter  == SubSeq(c.winds, common + 1, Len(c.winds))
  IN  NextThunk(m, [target |-> c,
                    thunks |-> [i \in DOMAIN leave |-> Run("after", leave[i])]
                               \o [i \in DOMAIN enter |-> Run("before", enter[i])]])

HandleReturn(m) ==
  LET f == Last(m.frames)
      r == [m EXCEPT !.frames = Front(@), !.regs = f.regs]
  IN  IF f.kind \in WindKinds /\ r.winds = <<>> THEN [r EXCEPT !.status = "internal error"]
      ELSE CASE f.kind = "ContinuationJump"   -> NextThunk(r, f.extra)
             [] f.kind = "ExceptionUnwind"    -> ResumeTransfer(r)
             [] f.kind = "CallWithValuesConsumer" -> SetupFrame(r, Run("lambda", 0), "Normal", 0)
             [] f.kind = "DynamicWindBody"    ->
                  SetupFrame(r, Run("body", Last(r.winds)), "DynamicWindAfter", Last(r.winds))
             [] f.kind = "DynamicWindAfter"   ->
                  SetupFrame(r, Run("after", f.extra), "DynamicWindCleanup", f.extra)
             [] f.kind = "DynamicWindCleanup" -> [r EXCEPT !.winds = Front(@)]
             [] OTHER                         -> r

-----------------------------------------------------------------------------
(* The extents and the catch forms the control stack is in.                *)
WindOf(f) == IF f.kind \in WindKinds THEN <<f.extra>> ELSE <<>>
WindsOfFrames == FlattenSeq([i \in DOMAIN vm.frames |-> WindOf(vm.frames[i])])

Saved == Append([i \in DOMAIN vm.frames |-> vm.frames[i].regs], vm.regs)
OpenCatches ==
  FlattenSeq([i \in DOMAIN Saved |->
                [d \in 1..Saved[i].depth |-> <<i - 1, d - 1>>]])

ThunkKinds == {"before", "after"}
InThunk == \E i \in DOMAIN Saved : Saved[i].role \in ThunkKinds
InnermostThunk == Max({0} \cup {i \in DOMAIN Saved : Saved[i].role \in ThunkKinds})

-----------------------------------------------------------------------------
(* Init pushes the sentinel of execute.                                    *)
Init ==
  /\ program \in Programs
  /\ vm = [regs |-> Run("main", 0), frames |-> <<Frame("Sentinel", NoRun, 0)>>,
           winds |-> <<>>, catches |-> <<>>, transfer |-> NoTransfer,
           status |-> "running"]
  /\ conts = <<>> /\ winds = 0 /\ steps = 0 /\ entered = <<>> /\ departures = {}

Step(form) == Running /\ form \in program /\ steps < MaxSteps /\ steps' = steps + 1

Call ==
  /\ Step("call")
  /\ vm' = SetupFrame(vm, Run("lambda", 0), "Normal", 0)
  /\ UNCHANGED <<program, conts, winds, entered, departures>>

\* The producer; the consumer is called when it returns.
CallWithValues ==
  /\ Step("call-with-values")
  /\ vm' = SetupFrame(vm, Run("lambda", 0), "CallWithValuesConsumer", 0)
  /\ UNCHANGED <<program, conts, winds, entered, departures>>

\* The frame is reused.  Assumed of the programs: a catch is not in tail
\* position (the emitter would take the call in it for a tail call).
TailCall ==
  /\ Step("tailcall") /\ vm.regs.role # "main" /\ vm.regs.depth = 0
  /\ UNCHANGED <<program, vm, conts, winds, entered, departures>>

\* An after that is not the innermost's leaves its extent behind for good.
Left(extent) ==
  IF entered # <<>> /\ Last(entered) = extent THEN Front(entered) ELSE Append(entered, extent)

Return ==
  /\ Running /\ vm.regs.depth = 0
  /\ vm' = HandleReturn(vm)
  /\ entered' = CASE vm.regs.role = "before" -> Append(entered, vm.regs.extent)
                   [] vm.regs.role = "after"  -> Left(vm.regs.extent)
                   [] OTHER                   -> entered
  /\ UNCHANGED <<program, conts, winds, steps, departures>>

SetupCatch(tag) ==
  /\ Step("catch")
  /\ vm' = [vm EXCEPT !.regs.depth = @ + 1,
                      !.catches = Append(@, [tag |-> tag, regs |-> vm.regs,
                                             frame_count |-> Len(vm.frames),
                                             wind_count |-> Len(vm.winds)])]
  /\ UNCHANGED <<program, conts, winds, entered, departures>>

PopCatch ==
  /\ Running /\ vm.regs.depth > 0
  /\ vm' = [vm EXCEPT !.regs.depth = @ - 1,
                      !.catches = IF @ = <<>> THEN @ ELSE Front(@)]
  /\ UNCHANGED <<program, conts, winds, steps, entered, departures>>

Matches(tag) == {i \in DOMAIN vm.catches : vm.catches[i].tag \in {tag, AnyTag}}

\* The raise of tag leaves the innermost winding thunk.
LeavesThunk(tag) ==
  InThunk /\ (Matches(tag) # {} =>
                vm.catches[Max(Matches(tag))].frame_count < InnermostThunk - 1)

\* The raise of tag replaces the transfer a thunk runs for, but for a catch in that
\* thunk: when it has landed there, nothing is left of the transfer.
Overwrites(tag) ==
  /\ vm.transfer # NoTransfer /\ Matches(tag) # {}
  /\ LET cf == vm.catches[Max(Matches(tag))]
     IN  cf.wind_count # Len(vm.winds) /\ cf.frame_count > vm.transfer.target.frame_count

Departing(tag) ==
  {d \in {"raise leaves a thunk", "transfer overwritten"} :
     IF d = "raise leaves a thunk" THEN LeavesThunk(tag) ELSE Overwrites(tag)}

\* do_throw.
Throw(tag) ==
  /\ Step("raise")
  /\ vm' = IF Matches(tag) = {} THEN [vm EXCEPT !.status = "failed"]
           ELSE BeginTransfer(vm, Max(Matches(tag)))
  /\ departures' = departures \cup Departing(tag)
  /\ UNCHANGED <<program, conts, winds, entered>>

DynamicWind ==
  /\ Step("dynamic-wind") /\ winds < MaxWinds
  /\ winds' = winds + 1
  /\ vm' = SetupFrame([vm EXCEPT !.winds = Append(@, winds')],
                      Run("before", winds'), "DynamicWindBody", winds')
  /\ UNCHANGED <<program, conts, entered, departures>>

JumpDeparting == IF InThunk THEN {"continuation in a thunk"} ELSE {}

CallCC ==
  /\ Step("call/cc") /\ Len(conts) < MaxConts
  /\ conts' = Append(conts, [frames |-> Append(vm.frames, Frame("Normal", vm.regs, 0)),
                             winds |-> vm.winds])
  /\ vm' = SetupFrame(vm, Run("lambda", 0), "Normal", 0)
  /\ departures' = departures \cup JumpDeparting
  /\ UNCHANGED <<program, winds, entered>>

\* A continuation called from elsewhere than tail position.
CallContinuation(k) ==
  /\ Step("call/cc")
  /\ vm' = InvokeContinuation(vm, conts[k])
  /\ departures' = departures \cup JumpDeparting
  /\ UNCHANGED <<program, conts, winds, entered>>

\* Called in tail position: TailCall returns from what the continuation has
\* just put in place.
TailCallContinuation(k) ==
  /\ Step("continuation in tail position") /\ vm.regs.role # "main"
  /\ vm.regs.depth = 0
  /\ vm' = HandleReturn(InvokeContinuation(vm, conts[k]))
  /\ departures' = departures \cup JumpDeparting
  /\ UNCHANGED <<program, conts, winds, entered>>

\* execute has returned.
Finished == ~Running /\ UNCHANGED control

Instruction ==
  \/ Call \/ CallWithValues \/ TailCall \/ Return \/ PopCatch \/ DynamicWind \/ CallCC
  \/ \E tag \in Tags : Throw(tag)
  \/ \E tag \in Tags \cup {AnyTag} : SetupCatch(tag)
  \/ \E k \in DOMAIN conts : CallContinuation(k) \/ TailCallContinuation(k)

Next == Instruction \/ Finished

Spec == Init /\ [][Next]_control

-----------------------------------------------------------------------------
\* catch_stack_ holds one frame for each catch whose body is being evaluated, which
\* knows the frame and the form it goes back to: the "live exception handlers" of
\* vm.h:491.
CatchesLive ==
  vm.transfer = NoTransfer =>
    [i \in DOMAIN vm.catches |->
       <<vm.catches[i].frame_count, vm.catches[i].regs.depth>>] = OpenCatches

\* Continuations neither save nor restore catch_stack_.
Mixes == {"catch", "call/cc"} \subseteq program

\* winding_stack_ holds the extents the frames are in, in their order, and catch_stack_
\* the catches: what the frames return to and what a raise unwinds and reaches never
\* disagree, though returns, raises and jumps cut the three separately.  Except in
\* programs that use both catches and continuations and, for the catches, once a
\* transfer was overwritten.
StacksMatchFrames ==
  ~Mixes => /\ vm.winds = WindsOfFrames
            /\ "transfer overwritten" \notin departures => CatchesLive

\* docs/guide/error-handling.md:19: before, then body, then after, which runs even
\* when an exception unwinds; docs/guide/reference/network-message-passing.md:223:
\* on any exit.  Whenever no thunk is under way, the extents that were entered and
\* not left are those of the winding stack, innermost last.
AfterAlwaysRuns == ~InThunk => entered = vm.winds

\* No raise has left a winding thunk, no transfer was overwritten, no thunk has used a
\* continuation, and the program does not mix catches with continuations.
Orderly == departures = {} /\ ~Mixes

\* So it is as long as a program is orderly and calls no continuation in tail position,
\* whatever else is raised, caught, re-entered and jumped to.
EnteredMatchesWinds ==
  Orderly /\ "continuation in tail position" \notin program => AfterAlwaysRuns

\* A raise that found its catch arrived there, or at one further out when a thunk on the
\* way raised to it.
Arrived ==
  /\ vm.transfer = NoTransfer /\ Running
  /\ \A i \in DOMAIN vm.frames : vm.frames[i].kind # "ExceptionUnwind"

\* docs/guide/error-handling.md:157: every raise that found its catch arrives, though the
\* thunks on the way raise and catch, wind, and raise out (begin_exception_transfer,
\* resume_exception_transfer).  Except when a thunk raises what nobody catches, or
\* handles a raise of its own across a dynamic-wind, which overwrites the transfer.
HandlerReached ==
  vm.transfer # NoTransfer
    ~> Arrived \/ vm.status = "failed" \/ "transfer overwritten" \in departures
=============================================================================
