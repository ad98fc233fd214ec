# A formal model of Eta

Eta is a Lisp dialect: a reader, a compiler to bytecode, a virtual machine with a managed heap, logic and constraint
primitives, actors over nng sockets, and tools around them (REPL, debug adapter, language server, notebook kernel,
package manager). This directory is its verification development: TLA+ modules that follow the C++ definitions,
configurations on which TLC checks them, and proofs that hold for every value of the constants. `PROJECT.json` lists
components, runs, hazards, theorems, and for each definition the source lines it models. Paths below are relative to
`src/eta/core/src/eta/` unless they start with `src/`.

    tlc -config Dap.cfg MCDapSession                model-check one run
    tlapm HeapGC_proofs.tla                          check the proofs of one module

## 1. Inventory

| component | state | operations | hard behaviour | what makes it correct |
|---|---|---|---|---|
| Heap and collector (`runtime/memory/heap.*`, `mark_sweep_gc.*`, `cons_pool.h`) | sharded object map, cons slots, byte count, mark bits, finalizer table and queue, guardian tables and ready queues | allocate, collect, register and unregister a finalizer, track and collect with a guardian | a collection inside an allocation; ephemeron fixpoint; resurrection; hash-order walks; slot ids reused | nothing reachable is freed, everything else is; a finalizer runs once per registration, and before its object is freed; the byte count is exact |
| VM run loop (`runtime/vm/vm.cpp`, `vm.h`) | value stack, frames, globals, winding and catch stacks, temp roots, trail, propagation queue | ~90 opcodes, call/cc, dynamic-wind, catch and throw, finalizer drain, interrupt | jumps across dynamic-wind thunks that jump again; nested run loops from primitives; values held in C++ locals across an allocation | winders run once each and in order; a handler sees the state of its installation; roots are complete |
| Logic store (`runtime/types/logic_var.h`, `vm.cpp`) | trail, attribute maps, propagation queue | bind, unify, mark, undo, post a propagator | backtracking over attributes, re-entrant propagation | undo restores exactly what was there at the mark; propagation reaches its fixpoint |
| CLP solvers (`runtime/clp/`) | domains, linear stores | narrow, all-different, simplex, FM | rounding, empty domains | no solution lost |
| Intern table (`runtime/memory/intern_table.*`) | two concurrent maps and a counter | `intern`, `get_id`, `get_string` | lock-free, several steps per call | one atomic dictionary |
| Hazard pointers (`runtime/memory/hazard_ptr.h`) | slots, retired lists | protect, retire, scan | a reader publishes while a scan runs | nothing protected is freed, everything retired is freed in the end |
| Debug state (`runtime/vm/debug_state.h`) | breakpoints, pause and step flags, pause handshake | set breakpoints, step, resume, pause, check before an instruction | two threads, three mutexes and an atomic; stop callback without the lock | the VM waits exactly when somebody knows it; a step stop is for the last step |
| Debug adapter (`src/eta/tools/dap/`) | driver, thread registry, pending breakpoints, VM thread | launch, restart, step, pause, terminate, disconnect | requests at any moment of a stop; joins of a VM that may be stopped | the client's picture is true; leaving ends the process |
| Actors (`src/eta/builtins/nng/src/eta/nng/nng_primitives.h`) | sockets, mailboxes, monitors, heartbeat threads | send, recv with timeout, poll, monitor, heartbeat | lost and late messages, a peer that dies, timeouts | a monitor reports a death once, and only a death |
| Process manager (`.../process_mgr.h`) | table of child processes and threads | spawn, join, terminate, list, capture for spawn-thread | a child ends while it is joined or listed | each child is reaped once |
| Subprocesses (`runtime/process_primitives.cpp`) | handles, pipes | run, spawn, wait with timeout, kill | a full pipe, a timeout racing an exit | output complete, no zombie |
| Supervisor (`src/stdlib/std/supervisor.eta`) | child table | one-for-one, one-for-all | a child dies while others restart | strategy respected |
| Module linker (`reader/module_linker.*`) | module table, link state | index, link, resolve imports | cyclic imports, re-exports, renames | every import names one exported binding |
| Package resolver and lockfile (`package/`) | manifests, resolved graph, lockfile | resolve, lock, load | cycles, two sources of one package | one version per name, dependencies first |
| Session driver (`src/eta/session/`) | loaded modules, files, diagnostics | run file, REPL entry, interrupt | a failing module load half way | a failed load leaves no half-loaded module |
| Reader, expander, semantic analysis, emitter, bytecode serializer, sandbox | none across calls | text or data transformers | deep recursion | would need a language semantics |
| LSP server, notebook kernel, command line tools, logging, statistics and torch bindings, VS Code extension | protocol or library glue | | | |

How they interact. The run loop owns the heap: it allocates from it, gives it its roots when the heap's GC callback runs
inside an allocation, and drains the finalizer queue before an instruction when it is not empty. It asks `DebugState`
before each instruction when a stop callback is installed. The debug adapter calls `DebugState` from its own thread,
through the registry of threads, and is called back on the VM thread when the VM stops. Symbols and strings of all VMs
of a process go through intern tables. Actors started in a thread have a driver, VM and heap of their own; they share
only sockets, the process manager and the debug adapter.

## 2. What is modelled, and where

### Heap and collector: `HeapGC`, `HeapGraph`, `FinalizerSpec`, `HeapGCInv`, `VmAlloc`, `MCHeapGC`

`HeapGC` has one variable per field of `Heap` and of `MarkSweepGC::collect`'s locals: `kind`, `used`, `refs` and `total`
for the objects, `finTable`, `pending`, `tracking` and `ready` for the weak tables, `roots`, `running` and `request` for
what the VM holds, and `phase`, `marked`, `work`, `deadKeys`, `deadObjs`, `todo` and `garbage` for the collection.
`tracking` stands for `guardian_to_tracked_` and its mirror `tracked_to_guardians_`, which every path updates together.

| actions | code |
|---|---|
| `Allocate`, `AllocateCollecting`, `AllocateAfterCollect`, `RetryCons`, `AllocationFails` | `Heap::allocate`, `Heap::alloc_cons`, `make_cons` |
| `Load`, `StoreRef`, `ClearRef`, `Drop` | opcodes and primitives that move references |
| `RegisterFinalizer`, `UnregisterFinalizer`, `GuardianTrack`, `GuardianCollect` | the primitives of those names |
| `DrainStart`, `DrainEnd` | `VM::process_pending_finalizers`, the mutator running in between |
| `MarkOne` ... `GuardianTurn` | the phases of `MarkSweepGC::collect`, one object per step |
| `SweepPool`, `Deallocate`, `EndCollect` | the sweep of the cons pool and of the general heap |

A work list, a walk over a hash map and the sweep take their elements in any order. An object's data is abstracted to
its kind and the set of objects it refers to. Allocations name operands the VM holds. Ids of the general heap are never
reused (`next_id` only grows), cons slots are.

`FinalizerSpec` is what the collector promises, without marks or tables: an object in use is not reclaimed; one with a
finalizer is not reclaimed before it was called, and is queued only once out of use; a guardian in use gives up an
object only by delivering it, once the object is out of use; and what went out of use comes back only by a call or a
delivery, with what the object called for or delivered leads to (`leads`, an input the specification says nothing
about). `KeepsPromise` says that `HeapGC` implements it, with "in use" mapped to what is reachable from the VM's roots
and "alive" to the allocated objects.

`VmAlloc` adds the allocating opcodes `Cons`, `MakeClosure` and `Values`, which pop their operands into C++ locals
before they allocate.

### Intern table: `InternTable`, `InternSpec`, `MCThreads`

The two maps are atomic objects (`boost::concurrent_flat_map`); `intern()` is one step per access to them: look up, draw
an id, insert into `id_to_str`, insert or find in `str_to_id`, erase a lost id. `get_id` and `get_string` are single
reads; what they may see is an invariant (`IdsResolve`). `InternSpec` is one atomic dictionary with calls that are
invoked, take effect once, and return. A call fails only if it looked for its string at some moment and did not find it,
so that a known string is always found, also when no ids are left. In `MCThreads` a behaviour is one of the intern table
or one of the process manager and its actors: they do not meet.

### Debugger: `DebugState`, `DapSession`, `MCDapSession`

`DebugState` is both sides of `debug_state.h`. The VM thread's check before an instruction is split where another thread
can come between: the read of the pause flag, the breakpoint test (under `bp_mutex_`), the step test (under
`debug_mutex_`), setting `is_paused_`, the callback, the wait. The program is arbitrary: an instruction goes to any line
(or to code without spans), calls, returns, unwinds, jumps through a continuation, fails, or ends; finalizers may fail
between instructions.

`DapSession` adds the adapter's thread, whose handlers are one step each because they run under `vm_mutex_`, the stop
callback (`OnThreadStopped`), the events, and a client that resumes only what it was told has stopped but may pause,
edit breakpoints, restart or leave whenever it likes. A breakpoint with a condition, a hit count or a log message may
resume its VM from inside the callback; that it does so is a nondeterministic choice. `past` is a history variable and
influences nothing. What a client may send is chosen in `Init`. A request that goes to a destroyed VM (see findings) has
no effect on the live one in the model; in the program it is undefined. One debugged VM is modelled: inspection requests
and function breakpoints are not, the registry of actor threads is in `ProcessManager`, and one request is in flight at
a time. Wake-ups are modelled by the predicate of the wait.

### Actors: `ChannelSpec`, `Mailbox`, `ProcessManager`, `MCActors`, `MCThreads`

`Mailbox` is the parent's end of an actor's pair socket: what `recv!` looks at (the notifications of monitor and
heartbeat, what `nng-poll` saved, the wire), the callback nng's I/O thread runs when the pipe goes (`monitor_pipe_cb`,
its tests and its push are two steps) and the heartbeat thread (ping, stamp, check of the last pong). `recv!` and
`send!` that wait are a begin and an end, with everybody else in between; a lost connection takes any suffix of the wire
with it. The actor's end is nng's and the actor's: it sends, pings, receives or stays silent.

`ProcessManager` adds the life of a child: `new`, `loading`, `starting` (the debug listener), `running`, `leaving`
(`notify_thread_exited`), `ended`. A child may fail while it is new, loads or runs; a thread that fails while it runs
goes past `notify_thread_exited` (`driver.h:2056`). The VM thread spawns, waits for, kills and joins; the debugger's
thread lists children and terminates threads while the VM is inside any of those. `mu_` and `vm_mutex_` are held where
the code holds them, so that a wait for a mutex is a guard. `ChannelSpec` is a channel that delivers what was sent in
order, up to what a lost connection cut off; `KeepsChannel` says that `Mailbox` with its three queues and its skipped
heartbeats implements it.

### Supervisor: `Supervisor`, `MCSupervisor`

`supervisor.eta` on top of the actors: start, monitor, poll, receive, restart one or all.

### Control: `VmControl`; unification: `Trail`; both in `MCVm`

`VmControl` has the machine's registers, `frames_`, `winding_stack_`, `catch_stack_` and the pending transfer of a raise
in one record, so that the functions that cut and rebuild several of them at once (`handle_return`, `dispatch_callee` on
a continuation, `begin_exception_transfer`, `resume_exception_transfer`) are operators from a machine to a machine. A
program is a set of forms; an activation executes any of them next, so that every nesting occurs. Abstracted: values and
the value stack, and which code runs (an activation is its role, its extent of dynamic-wind, and the number of catch
forms around its pc). `Throw` stands for `raise` and for a runtime error with a tag. Winding thunks are closures, made
afresh by each dynamic-wind, and a catch is not in tail position. Primitives that call back into the VM (`call_value`)
and the sandbox are left out.

What a winding thunk does is not restricted: it may raise out of itself, raise to a catch of its own across a
dynamic-wind, and capture and call continuations. Where the code then goes wrong, the history variable `departures`
remembers that it happened: a raise that left a winding thunk, a transfer that was overwritten by another, a
continuation used in a thunk. Together with programs that both catch and use continuations (`Mixes`), these are the
exceptions of the properties; `Orderly` says that none has occurred. Each property names the exceptions it needs; what
the code does in them is in section 5.

`Trail` has one record per logic variable (binding, domain, propagators), the trail of what was overwritten, and
`prop_queue_` with `prop_queued_set_`. `UnifyInternal` goes through the elements of a compound as a sequence of
equations. A propagator is any sequence of unifications and narrowings that returns or fails; a synchronous hook accepts
or refuses, before or after the propagators of its variable are queued, because the attributes are in a hash map. The
occurs check, the real store and the simplex bounds are left out.

### Modules and sessions: `ModuleLinker`, `Session`, `MCSession`, `MCProcess`

`ModuleLinker` is `module_linker.cpp` as operators: a form says what it defines, exports and imports; `Link` gives the
error, or for each module what its names stand for, through re-exports. Symbols are sequences of parts, so that a prefix
clause can be modelled by what it does.

`Session` is the driver. `calls` has a frame for each active call of `run_source_impl` and `execute_deserialized_etac`:
a submission, an eval, an import that is loaded, a source that is hydrated after its artifact has run. A frame goes from
its imports (`todo`), one at a time, to the compilation, which links and lays out every form accumulated so far, and
then through the modules that have not run (`sem`). A module's code is what it defines, any evals it makes and whether
it fails; its init has a step before and one after the definitions.

| actions | code |
|---|---|
| `SkipImport`, `HydrateImport`, `ImportCycle`, `LoadImport` | `auto_load_imports`, `hydrate_executed_module_source` |
| `LoadRequired`, `RequiredMissing`, `Relocate` | `execute_deserialized_etac` up to its loop |
| `Compile` | `run_source_impl` from the rollback boundary to the growth of globals: `Link`, then `Layout` (`analyze_all`) |
| `StartModule`, `Define`, `FinishInit`, `MainReturns`, `Return` | the loops over the modules of both |
| `Eval` | `compile_eval_lambda` |
| `ProgramFails` | a failing init or main |

The import a load was for is looked at again after the load: in the code the hydration follows the load directly, which
is the same, since the import is then an executed module. A failure unwinds to the innermost submission or eval in one
step (`Abort`): nothing else runs meanwhile, and what each level undoes on the way is disjoint. An eval's error may be
handled by the program that made it. One library file holds one module. Slots count from the end of the builtins.

`MCSession` has a library of a source, an artifact with its source beside it, an artifact alone, both of which
re-export, two sources that import each other and two stale artifacts, and submissions with every kind of clause.
`Meanings` reads off the sources what each name of a module stands for, without linker or slots;
`ImportsReadDefinitions` compares the slots with it. Slots can be given up that code still uses. The history variable
`astray` is the set of the modules this has happened to: those that ran, or are running, with slots past what the forms
and the hydrations under way will keep (`Beyond`: after a failure, a hydration, or a compilation that gave a missing
import a slot), and artifacts placed past the forms. `SlotsKept` says that every other module keeps its definitions, in
the same session, unless one of these overwrites them, and `ImportsReadDefinitions` that every import of another module
is read rightly. `ArtifactSlotsKept` is what the code promises of artifacts, without the exception: it is violated. In
`MCProcess` a behaviour is a session or calls that start children, which share nothing.

### Subprocesses: `Subprocess`, `MCSubprocess`, `MCProcess`

VM threads of one process that each start a child, on POSIX. The kernel's side is `proc` (not there, forked, running,
zombie, gone), `holds`, the ends of pipes each process has open, and `bytes`, what is in a pipe. `fork` copies every end
that the Eta process holds, those of another thread's call included; `exec` closes those marked close-on-exec. A pipe
has an end of file when no process holds a write end, and is broken when none holds a read end.

| actions | code |
|---|---|
| `MakePipes`, `SetCloexec`, `Fork`, `SpawnFails`, `CloseChildEnds`, `ReadSpawnError`, `SpawnErrorRead` | `spawn_child_process` in the parent |
| `ChildExecs`, `ChildFails` | the same in the forked child |
| `WriterWrites`, `WriterEnds`, `ReaderReads`, `ReaderEnds` | the I/O threads of `%process-run` |
| `WaitReaps`, `WaitPolls`, `PollAgain`, `DeadlinePasses`, `TimedOut` | `wait_for_process` |
| `KillTimedOut`, `Join` | the rest of `%process-run` |
| `WaitBegin`, `KillBySignal`, `Probe`, `PortBegins`, `PortWrites`, `PortReads`, `ClosePort`, `Collected` | what a program does with the handle and ports of `%process-spawn` |
| `ProgramSteps` | the started program and one process it forks: external |

Writing to a broken pipe raises SIGPIPE; whether that ends Eta is chosen in `Init` (`eta`), because the disposition is
inherited. Standard error is handled like standard output and left out. So are Windows, the inherit modes, environment
and path lookup, and `%process-spawn` with stdin data.

## 3. Runs

| run | bounds | shows |
|---|---|---|
| `heap_mixed` | three general objects, guardians among them, one finalizer | `ReachableIsLive`, `CondemnedIsUnreachable`, `NothingLeaks`, `GuardianReceives` and `KeepsPromise` under every order of mutation, collection, draining and resurrection, with guardians of guardians and guardians that a finalizer resurrects |
| `heap_limit` | two general objects, two cons slots, two finalizers, a limit that two general objects fill | `FinalizedOnce`, `KeepsPromise`, `BytesAccounted`, `WeakTablesLive`, the inductive invariant `HeapInv` (type correctness included); `FinalizerRuns` and `CollectionEnds` under fairness |
| `vm_operands` | two general objects, two cons slots | violated: see findings |
| `dap` | two lines and code without spans, two frames, one continuation jump, one restart, unbounded run; a client that steps, one that pauses and leaves, and one that steps and pauses | `ClientKnows`, `StepIsFresh`, `BreakpointHonoured`; `PauseAnswered` under fairness |
| `dap_disconnect` | one line, one frame | violated: see findings |
| `threads` | a process and a thread, two messages sent, one on the wire, three programs; or a table with three threads, two strings, four valid ids, five draws | `HandleTracksChild`, `JoinMeansDone`, `NothingLeft`; `KeepsChannel`; under fairness `DeathIsReported`, `HangIsReported`, `DebuggerAnswers`; `IdsResolve`, the inductive invariant `InternInv`, `KeepsDictionary` |
| `actors_blocked` | as `threads`, one program | violated: see findings |
| `supervisor` | two slots, a third socket to restart with, one message | violated: see findings |
| `vm_control` | seven forms, two dynamic-winds, two continuations, one tag and a catch-all; two variables, two values, two propagators, four writes, one mark, compounds of two | `StacksMatchFrames`, `EnteredMatchesWinds`, `HandlerReached`; `UnwindRestores`, `WakeupsKept`, `DomainHonoured` |
| `vm_continuation` | five forms, one dynamic-wind, one continuation | violated: see findings |
| `process` | a session with seven library modules, seven submissions of one to three modules, three of them entered, two evals, one failure; or two threads that start children, a pipe of one unit, two units to write and to be written, four pairs of calls | `SlotsKept`, `ImportsReadDefinitions`, `InitialisedInOrder`, `NothingHalfLoaded`; `HandleIsChild`, `OutputComplete`, `RunCleansUp`; `CallReturns` under fairness |
| `session_slots` | a session as in `process` | violated: see findings |

Why the bounds suffice. In the heap every hazard is about two or three objects: a key, its procedure and an object one
of them keeps alive, or a guardian, the guardian it tracks and an object; with three general objects cycles, chains,
self references and shared children all occur, `SoftLimit` lets the heap hold all of them, and in `heap_limit` it does
not, so that collections, retries and failures happen. Two cons slots are enough for a slot to be freed and reused while
the other lives. Three threads on one string is the first case where two losers meet one winner; five draws go past the
last of four ids. For the debugger, two lines make "left and entered again" possible, two frames make over, in and out
differ, and one jump separates a step from its frame. Actors are independent but for `mu_`, `vm_mutex_` and the VM
thread, which a process and a thread already contend for; one message on the wire makes a full wire, a saved message and
one more to come possible with two sends. Seven forms hold two catches and two extents with a raise inside the after of
a raise; two continuations can be jumped between in both directions. Two variables make a chain, a clash of domains and
a propagator that binds the variable of another; four writes attach, bind, bind again in the propagator and undo. In a
session the first submission leaves something behind (an artifact's reservation, a failed form, a loaded file), the
second takes slots next to it and the third reads what they left; of two evals one can be nested in the other; a second
failure only repeats the first. `MaxReserves` is out of reach: three submissions make at most twelve reservations. A
pipe of one unit and two units to pass make both ends block; two threads are the first case where a child inherits the
ends of another call, and the pairs put each kind of call (stdin data, a timeout, a child that forks, ports) beside
another that starts at any moment.

Where type correctness is not stated as an invariant of its own (everywhere but in `HeapInv` and `InternInv`), TLC
evaluates each action on records and sets of fixed shape; an ill-typed value would stop it.

Fairness. `HeapGC!FairSpec` assumes that a collection continues, which holds because it is a loop on the allocating
thread, and strong fairness of the drain: the run loop drains before any instruction it executes while the queue is not
empty, but allocations and collections in finalizers interrupt it. A finalizer is assumed to return.
`DapSession!FairSpec` assumes that the adapter's thread and the VM thread keep running and nothing of the client.
`ProcessManager!Fairness` assumes that a thread which has begun something goes on, that a signalled process dies, and
(`Receives`, strong because other calls come in between) that a program that receives on a socket keeps calling `recv!`;
nothing makes an actor answer, send or end. `MCVm!VmSpec` assumes that the run loop goes on to the next instruction.
`Subprocess!ThreadsRun` assumes that VM threads and I/O threads go on with a call that has begun, that a forked child
gets as far as `exec` or `_exit`, and that time passes; a started program owes nothing, not even to end, so that
`CallReturns` speaks of what follows when all have ended. `dap` and `dap_disconnect` do not check for deadlock, because
a session ends when its adapter has left, nor do `threads` and `actors_blocked`, where the program may be over, and
`process` and `session_slots`, where the submissions are used up or both calls have returned. The properties of a
session are safety: nothing in it waits.

Each property of a passing run is broken by a faulty variant of a definition; these stand next to the definition they
vary and are marked "Faulty variant".

## 4. Proofs

`HeapGC_proofs` (about 2500 obligations), for any sets of ids, sizes, limits and bounds:

* `HeapInvariant`: `Spec => []HeapInv`. `ReachableIsLive` is not inductive: whether a step may free an object depends on
  what the marks mean. `HeapInv` says: outside the sweep nothing dangles (`HeapClosed`); while marking, a marked object
  refers only to marked objects or to the work list and so do the roots (`Tricolour`); during the sweep, everything
  marked is closed under references and finalizer edges, contains the strong roots, and is disjoint from what is still
  to be freed (`SweepClosed`). The passage from the second to the third, at the end of the second fixpoint, is the core
  of the argument: there the work list is empty and no live key has an unmarked procedure. One lemma per action.
* `TypeCorrect` and `Safety` (`ReachableIsLive`) follow. `Safety` needs that a closed set that contains the roots
  contains all that is reachable, which `HeapGraph` gives by defining reachability as the intersection of such sets.
* `TrackingInvariant`: a tracked pair names live objects, and once the guardians' turns begin its object is marked or
  condemned; a pair whose turn is over has both ends marked. `WeakTables` and `GuardiansReceive` follow.
* `QueueInvariant`: `FinalizedOnce` needs that a key the collection condemns is in no queue, which holds because the
  queue is marked in the first fixpoint; `CondemnedUnreachable` needs that a closed set which contains the VM's roots
  and not the object bounds what the program reaches.
* `MarkedReached`: what is marked, after the work list, is reached from the strong roots of that moment, so that the
  mark phases never keep more than they must. The roots grow in the enqueuing steps, between marking and sweep.
  `CollectionIsComplete` follows: nothing leaks.
* `BytesInvariant`: the sum over the heap is a product of sizes and cardinalities; a cons slot that is freed and taken
  again and a general object that is freed once each change it by exactly their size.
* `HeapKeepsPromise`: each step of `HeapGC` is a step of `FinalizerSpec` or a stutter; the drain of a finalizer and a
  guardian's turn are the only ones that bring anything back into use. The mapping reads "in use" off the reachability
  of the program, so that the proof is mostly about how reachability changes when references, roots or queue entries
  come and go.

`InternTable_proofs` (about 440 obligations), for any number of threads and strings and any `PayloadMask`:

* `InternInvariant`: from drawing an id to publishing or erasing it a thread owns it, owned ids differ, and every entry
  of `id_to_str` is published or owned.
* `Resolves` and `Inverse` follow.
* `Linearizable`: each step of `intern()` is a step of `InternSpec` or a stutter. The fast path takes effect at its
  visit, a call that inserts or loses at `emplace_or_visit`, a failing one at the draw, after it has missed its string
  in the first visit.

`Actors_proofs` (about 1050 obligations), for any number of processes and threads and any programs:

* `LifeInvariant`: `Spec => []LifeInv`. To `HandleTracksChild` and `NothingLeft`, which are nearly inductive, it adds
  that a child which was waited for has ended, that only threads pass through the listeners (`PhasesFit`), and what
  `JoinMeansDone` says of every thread but the one that is being joined (`NotJoining`). One lemma shows that the
  mailbox's actions leave all of this alone, one each that the manager, the destructor, the actors and the debugger
  preserve it.
* `HandlesTrack`, `JoinsEnd` and `NoneLeft` follow. The registry has no theorem: it may name a thread that has failed
  (section 5).
* `MailInvariant`: what was saved and what is on the wire, as one queue, carries on with the number after the last
  message `recv!` returned, and has a gap only at its end and only once the connection is lost (`QueuesInOrder`);
  nothing passes before the actor has dialed (`NotDialed`); a `recv!` that waits on the wire left nothing in `pending`
  (`NoneSaved`), since it would overtake it. TLC checked it on the instance of `threads` with two messages on the wire.
* `MailboxKeepsChannel`: with it, each step is a step of `ChannelSpec` or a stutter, through the two queues of data and
  the pings that both ends skip.

`Subprocess_proofs` (about 1210 obligations), for any number of threads, any options and pipes of any size:

* `CallsInvariant`: `CallsInv` relates, for each thread, where its call is with the life of its child (`ChildOK`,
  `CallOK`). A child that did not become its program has left errno in a pipe that nobody else writes and that it holds
  until then: this is why a handle never stands for a child that was not started. `OutputOK` says that what was written
  is read or in the pipe, and that a reader which has ended left no writer, however many processes inherited the end.
* `HandlesTrue`, `OutputIsComplete` and `RunsCleanUp` follow.

`DapSession_proofs` (about 580 obligations), for any lines, depth, number of jumps and restarts, and any client:

* `SessionInvariant`: `ClientOK` says that a command is on its way only to a VM that waits and that a VM that waits was
  either announced or commanded; `ArmedOK` that an armed step is that of the last command; `FreshOK` that a step is not
  due before something was executed, because a line step goes straight on, a step out waits for its frame and an
  instruction step skips a check; `StopOK` and `LastHitOK` what a stop is about and what `last_bp` remembers at each
  place of the check.
* `ClientsKnow`, `StepsAreFresh` and `BreakpointsHonoured` follow. The attempt showed that `BreakpointHonoured` was too
  strong as first stated: a step that leaves the line of a pause keeps the last hit (`runtime/vm/debug_state.h`,
  `step_over` and the like, against `resume`), so that a line reached by it can be passed. The property excludes the
  arrivals by a step that leaves the line of a pause; the run has a client that makes them.

`Trail_proofs` (about 1810 obligations), for any variables, ground terms, domains, hooks and equations:

* The operators of `Trail` are folds (`rollback_to` over the trail, the queue's over the propagators, `unify_internal`
  over pairs of terms). Their laws are proved on traces, the values a fold takes at each length, by well-founded
  induction on that length: the library's `WFMin` speaks of a set and a relation, not of an operator, so that it can be
  instantiated.
* `TrailInvariant`: `Sane` says that undoing to *any* depth of the trail gives a store in which every chain of bindings
  ends (`Acyclic`, by a rank) and domains shrink along it (`Nested`). The present store alone is not enough, since
  undoing only the domain of the variable a chain leads to could make it wider than that of a variable before it. To
  this come marks in the order of their depth and below the origin of the unification under way, and that what is due is
  queued. A relation `Unifies` says what a unification may do, with its laws for binding, one pair and a whole
  unification, so that the actions need not open the folds.
* `UnwindingRestores`, `WakeupsAreKept` and `DomainsAreHonoured` follow.

`VmControl_proofs` (about 7410 obligations), for any programs, tags and bounds. Its first half defines the parts of the
invariant and what each way of changing the stacks does to them; the second goes through the instructions.

* `ControlInvariant`: `VmSpec => [](Orderly => ControlInv)`. `Orderly` only ever turns false, so that `ControlInv` has
  to be preserved by the steps after which it still holds. `StacksMatchFrames` says nothing of the moments a raise is
  under way, of what a captured continuation holds, or of which activation runs above which frame; all of these become
  the stacks later. `Chain`: each frame fits the registers above it (a `DynamicWindCleanup` frame has called the after
  thunk of its extent). `Masked`: during a transfer, the catches between its target and the frame that called the thunk
  are closed already, while those the thunk opened are not, so that the catch stack is compared level by level. `Base`
  and `Leads`: what was entered below a thunk of a raise is the extents of the target and the thunks still to run; below
  a thunk of a jump it is what the rest of the jump's list turns into the extents of its target. `ControlInv` is `Kept`,
  which says that such a frame `u` exists (`u = 0` when no thunk of a raise or jump is running), and `ContsKept`, the
  same of the continuations captured.
* The stacks are flattened sequences: `FlattenSeq` distributes over `Append` and concatenation by the induction of
  `Trail_proofs`.
* `StacksMatch` (`StacksMatchFrames`) and `EnteredMatch` (`EnteredMatchesWinds`) follow.
* What `Orderly` leaves out limits what is claimed of the code: programs that use both catches and continuations, and
  anything after a raise has left a winding thunk, a transfer was overwritten or a thunk has used a continuation.
  `EnteredMatch` also needs that no continuation is called in tail position. TLC checks a little more than is proved:
  `StacksMatchFrames` holds there after raises that left thunks and in thunks that use continuations, too.

`Session_proofs` (about 5960 obligations), for any library, submissions and bounds:

* `CoreInvariant`: `Spec => []Core`. `NothingHalfLoaded` speaks of the moments between submissions; what leads there is
  what each frame of `calls` will undo or finish. `StackOK`: loads wait for loads below one frame that runs, and only
  evals are above that. `FormsOK`: a frame's forms lie behind its rollback boundary, one frame behind the other.
  `Covered`: each form accumulated was executed or is still to be, by the frame that added it. `GuardsOK`: what an eval
  passes over is accumulated below it and of no later frame, so that a failed eval takes back exactly that. `LoadsOK`
  and `IndexOK`: each mark belongs to a frame, or to forms no frame will roll back. `HeadsOK`: the module that runs is
  passed over by the evals above it until it counts as executed.
* `Abort` ends any number of frames at once. Its lemma describes what is left by the frames below the innermost
  submission or eval, whose parts of the invariant never mention a frame above them.
* `LeavesNothingHalfLoaded` (`NothingHalfLoaded`) follows with no frames open.
* The second half, with more invariant (`Ordered`), is for `InitialisesInOrder` (`InitialisedInOrder`). Every step is
  one of six kinds (`NextSteps`): the innermost call goes on, is compiled or relocated, a call starts, one is hydrated,
  or calls end. `FormsFit`: what an accumulated form imports was executed or is accumulated too, and artifacts the
  linker knows were executed. `StackFits` has for each frame that the forms below its rollback boundary satisfy this
  among themselves, so that a rollback keeps it; that an artifact's imports were executed or are still in `todo`; that
  its name is no form's; and for each two frames that loads go down the layers of the library and that the modules they
  run are different ones.
* `LinkFindsImports`: if `Link` reports no error, each import of each form is a form or a compiled module. This is an
  induction over three folds: over the modules in the linker's order, over the import clauses of each, and over the
  order itself, which by a count of its members contains every module.
* `NamesAssumption`: the names the driver makes up for evals and reservations are no module's (`driver.h:515`, `:1738`).
* `InitialisesInOrder` has the hypothesis `Layered`: no module imports itself through an artifact.
  `execute_deserialized_etac` has no check for cycles (section 5), so that this limits what is claimed: it holds of
  artifacts compiled from one state of the sources, which the linker refuses if they import each other, and may fail for
  stale ones. Cycles of sources only are admitted, and the library of `MCSession` has one.

The proofs assume only the named `ASSUME`s of the modules, which TLC evaluates in the runs.

Model-checked only: `SlotsKept`, which needs that `Layout` gives the forms that stay the slots they had, and
`ImportsReadDefinitions`, whose reference `Meanings` is recursive, and all liveness, which the prover does not do.

## 5. Findings

* `vm_operands`: the opcodes `Cons`, `MakeClosure` and `Values` allocate while their operands are in C++ locals only;
  the collection this may trigger frees them. The manual lists temporary roots during allocation among the roots
  (`src/docs/guide/reference/runtime.md:268`).
* `dap_disconnect`: after a disconnect the VM can stop again, at a breakpoint, an error or in a stop it had already
  decided on, and `run()` joins it for ever. The end of input and a restart have the same outcome; the destructor's
  resume comes after that join.
* `supervisor`: a child that dies with no message left on its socket is never restarted. `supervisor-poll` receives only
  from sockets `nng-poll` returns, and `nng-poll` looks at saved messages and the wire, not at the notifications.
* `vm_continuation`: `TailCall` (and `TailApply`) treat a continuation like a primitive that has pushed its result and
  return at once: from the first winding thunk, which so never runs, or from the frame the continuation has just put in
  place. `(call/cc (lambda (k) (k 42)))` returns 42 from the caller of `call/cc`. The manual says that after thunks run
  on continuation invocations (`src/docs/guide/reference/network-message-passing.md:223`).
* `actors_blocked`: a `recv!` that waits on a monitored socket has looked at the notifications already when the actor
  dies, and nng has nothing more to deliver: it does not return, although `monitor` (`nng_primitives.h:1302`) and
  `src/docs/guide/reference/message-passing.md:162` say it does.
* `session_slots`: after a failed execution the globals stay grown while the forms are rolled back (`driver.h:2776`). An
  artifact loaded next takes slots from the end of the globals but reserves only as many as it needs (`driver.h:1409`,
  `:1558`), so the next source module is laid out over them; the doc comment of `append_etac_global_reservation`
  promises the opposite.

Observed while modelling, with no run of their own; the first six are exceptions that properties name:

* There is one pending transfer. A raise across a dynamic-wind inside a thunk that runs for a raise overwrites it
  (`vm.cpp:2395`), and the outer one ends in "missing pending exception transfer" (`vm.cpp:2322`) instead of its
  handler. `HandlerReached`, `StacksMatchFrames` and `EnteredMatchesWinds` except it.
* `winding_stack_` is pushed before `before` is called (`vm.cpp:929`), so that a raise in it runs `after` for an extent
  that was not entered; `src/docs/guide/error-handling.md:19` says `before`, then `body`, then `after`.
  `EnteredMatchesWinds` excepts raises that leave a winding thunk.
* Continuations neither save nor restore `catch_stack_` (`vm.cpp:1498`): one called inside a catch body and captured
  outside of it leaves its catch frame, and a later raise lands in a catch that is over. `StacksMatchFrames` and
  `EnteredMatchesWinds` except programs that use both.
* A pause stops before the breakpoint test (`debug_state.h:255`), and steps do not clear `last_bp_*` as a continue does:
  a step from the pause that enters the line of the last breakpoint passes it, where `src/docs/quickstart.md:369` says
  "When the VM hits a breakpoint it pauses." `BreakpointHonoured` excepts such a step.
* A submission whose second module fails is rolled back with the forms of the first (`driver.h:2776`), which has run and
  stays in `executed_modules_` with its export slots: later modules get the same slots, and importers read the other
  module's value. `SlotsKept` and `ImportsReadDefinitions` except modules that are astray.
* Artifacts that import each other load each other without end (`driver.h:1309`), where the manual lists
  `CircularDependency` as detected (`src/docs/guide/reference/modules.md:102`): only `auto_load_imports` looks at
  `loading_modules_`. `InitialisedInOrder` has the hypothesis `Layered`.
* A thread that ends by an exception skips `notify_thread_exited` (`driver.h:2056`, `:2177`), and the debugger's
  registry keeps pointers to its destroyed driver and VM, which `process_mgr.h` calls valid only until then. No property
  says that the registry names live VMs.
* An instruction step executes two instructions (`runtime/vm/debug_state.h:135`): `step_skip_current_` skips the next
  check to pass over the armed instruction, but that instruction is not checked again.
* After a restart the registry entry of the main thread still points at the destroyed driver and VM
  (`dap_server.cpp:3289`), since `register_main_thread_locked` leaves an existing entry alone.
* A catch in tail position hands its tail flag to its body (`semantics/ir_visitor.h:71`): the call in it becomes a
  `TailCall`, `PopCatch` is not reached, and the catch frame outlives its function. `src/docs/guide/tail-calls.md:75`
  says that such a call is not in tail position.
* `call/cc` captures the sentinel frame of `execute` although a comment says it prevents that (`vm.cpp:476`): each jump
  adds a sentinel, so that the `frame_count` of a catch frame counts frames that moved.
* A raise inside `after` on the normal way out runs that `after` twice, because the winding stack is popped only
  afterwards (`vm.cpp:1590`).
* A raise that leaves a primitive's `call_value` (`map`, `for-each`) lands on the catch, and then `dispatch_callee` cuts
  the stack back to the primitive's arguments.
* A failed `execute` leaves frames, catches and winds for the next submission; `driver.h:2775` means to keep it from
  poisoning later ones.
* A variable bound to another variable takes its domain along but not its propagators, and narrowing a domain queues
  none: `src/docs/guide/reference/clp.md:187` says a propagator is queued whenever one of its variables is bound or its
  domain narrowed.
* Inside a propagator a compound that does not unify keeps the bindings made before the mismatch; only the outermost
  unification rolls back.
* An artifact whose init failed and that is loaded again has two reservations; hydration releases both and adds one
  form, so that everything behind it moves down.
* A hydration that fails has released the reservation of its artifact already (`driver.h:2423`): the artifact's code
  keeps its slots and later modules get them again.
* A submission with modules out of dependency order gets a slot for the import that nothing is ever stored in
  (`semantic_analyzer.cpp:755`), and the layout shifts at the next compilation, when the import has a slot at run time.
* `loaded_files_` is never erased: an import whose load failed is not tried again in that session and ends in "unknown
  module" (`driver.h:2474`). `clear_module_cache` of a module in the middle shifts the slots of those behind it.
* An eval inside a module's init runs the later modules of the same submission early, before the active one has defined
  what they import (`driver.h:2688`).
* A module known only as an artifact has no origins: a name it re-exports conflicts with a direct import of the same
  name, although `driver.h:2485` says linking does not depend on the source beside it.
* The pairs of a rename clause are applied one after the other, so that `(rename m (a b) (b a))` is rejected as a
  duplicate (`module_linker.cpp:277`).
* In `package/resolver.cpp` the return for a manifest already named precedes the test for one being visited: a cycle of
  dependencies is never reported.
* A continue clears the filter on the last breakpoint, so a breakpoint fires again on the next instruction of its line;
  the helper `run_until_stop` of `src/eta/qa/test/src/debug_tests.cpp` resumes this second hit.
* The same filter is not cleared by instructions without a span or by one that a pause stopped at, so a step over such
  code can enter a line with a breakpoint anew and pass it. `BreakpointHonoured` is stated for arrivals from another
  source line, except by a step that leaves the line of a pause.
* A pause that is overtaken by a breakpoint stop stays set and stops the next continue at once.
* Of a chain of guardians that die together, the order of a hash walk decides which deliver (`mark_sweep_gc.h:366`).
* When the deadline of `%process-run` passes, the code kills the child and then joins the reader of its stdout
  (`process_primitives.cpp:1635`), which ends only when every process that has the write end has closed it: one the
  child has forked, or the child of another thread's call started in between. The call then takes as long as that
  process runs, although `src/docs/guide/reference/process.md:87` offers the timeout as a guard. `CallReturns` therefore
  waits for all processes to end.
* The parent's pipe ends are not close-on-exec: a child started later holds the stdin of an earlier one open, and that
  one sees no end of file when its port is closed.
* `write_pipe_from_buffer` tolerates EPIPE (`process_primitives.cpp:1485`), but nothing ignores SIGPIPE: by default a
  child that closes its stdin early ends the Eta process.
* `%process-spawn` with stdin data writes it before the ports exist, so that a child that fills its stdout first never
  ends, and closes the descriptor of stdin twice (`process_primitives.cpp:1708` and the destructor of
  `ScopedPipeHandle`).
* `~ProcessHandle` on POSIX neither waits for the child nor releases anything: a dropped handle leaves a zombie.
* The manual says of the sweep that it clears the mark bit of marked objects and of a guardian that marking follows its
  tracked objects; marks are cleared at the start of a collection and tracking is weak.

## 6. Not modelled, and the plan

Not modelled and not planned: text transformers and code generators (reader, expander, analyzer, emitter, serializer),
numeric solvers over doubles, protocol and library glue, and `hazard_ptr.h`, which nothing but its own test uses. Of the
modelled components: publish/subscribe and request/reply sockets and the wire format; the real store on the trail;
`call_value` from primitives; automatic differentiation tapes and WAM registers; the inspection requests of the
debugger. `PROJECT.json` gives the reason for each.

Next, in this order; each module gets its constants with named assumptions, one action per operation, and no recursive
operator, so that it can be proved about:

1. `call_value`: nested run loops over `VmControl`, with their own sentinel and the raise that crosses them; then the
   next submission after a failed one.
2. `PackageResolver`: resolution of manifests checked against a reference definition on small graphs, cycles included;
   in `Session`, `clear_module_cache` by name (`%reload`) and artifacts with several modules.
3. More proofs: `SlotsKept`, from an invariant that relates `home` and `globals` to the slots `Layout` would give the
   forms accumulated.
