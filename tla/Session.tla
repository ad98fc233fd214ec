------------------------------ MODULE Session ------------------------------
(***************************************************************************)
(* Driver (session/driver.h): submissions compiled against everything      *)
(* accumulated so far, imports loaded on the way as source or as .etac     *)
(* artifacts, and the global slots both live in.  Each call of             *)
(* run_source_impl or execute_deserialized_etac is a frame of calls; a     *)
(* module's code is what it defines, the evals it makes and whether it     *)
(* fails.  Slots count from the first one after the builtins.              *)
(***************************************************************************)
EXTENDS ModuleLinker, TLC

CONSTANTS
  Disk,         \* what a module name resolves to: [artifact, source, form, bindings]
  Submissions,  \* what may be entered, sequences of module forms
  MaxSubmits, MaxEvals, MaxFailures, MaxReserves

ProgramForms == {Disk[m].form : m \in DOMAIN Disk} \cup UNION {ToSet(fs) : fs \in Submissions}

ASSUME SessionAssumption ==
  /\ IsFiniteSet(DOMAIN Disk)
  /\ \A m \in DOMAIN Disk : /\ Disk[m].artifact \/ Disk[m].source
                            /\ Disk[m].artifact \in BOOLEAN /\ Disk[m].source \in BOOLEAN
                            /\ Disk[m].form.name = m /\ Disk[m].form.defined # {}
  /\ \A fs \in Submissions : fs \in Seq(ProgramForms)
  /\ \A f \in ProgramForms : IsFiniteSet(f.defined) /\ f.imports \in Seq(ToSet(f.imports))
  /\ MaxSubmits \in Nat /\ MaxEvals \in Nat /\ MaxFailures \in Nat /\ MaxReserves \in Nat

VARIABLES
  forms,        \* accumulated_forms_
  executed,     \* executed_modules_
  loadedFiles, loading, indexed,
  exportSlots,  \* runtime_module_info_
  compiled,     \* compiled_link_modules_: exports by module
  reserved,     \* etac_module_reservations_: placeholder modules by module
  globals,      \* vm_.globals(): the definition a slot holds
  calls,        \* the active calls, innermost last
  spent,        \* how much of the bounds is used up, and placeholders made
  home,         \* history: the slots that executed code has defined
  astray        \* history: the modules whose slots were given up, or never kept

linking == <<forms, executed, reserved>>
caches  == <<loadedFiles, loading, indexed, exportSlots, compiled>>
session == <<linking, caches, globals, calls, spent, home, astray>>

\* No module imports itself through an artifact.  The linker refuses sources that
\* import each other, so that artifacts compiled from one state of the sources
\* are Layered; execute_deserialized_etac does not check that those it loads are.
Layered ==
  \E layer \in [DOMAIN Disk -> 1 .. Cardinality(DOMAIN Disk)] :
    \A m \in DOMAIN Disk : \A k \in ImportsOf(Disk[m].form) \cap DOMAIN Disk :
      layer[k] <= layer[m] /\ (Disk[m].artifact => layer[k] < layer[m])

Nil == <<"nil">>
Over(g, f) == [x \in DOMAIN g \cup DOMAIN f |-> IF x \in DOMAIN g THEN g[x] ELSE f[x]]
Updated(f, x, v) == [y \in DOMAIN f \cup {x} |-> IF y = x THEN v ELSE f[y]]
EvalName(n) == "__eta.eval." \o ToString(n)
ReserveName(n) == "__eta_etac_reserve_" \o ToString(n)

\* The names the driver makes up are its own: no module has one, or imports one.
ASSUME NamesAssumption ==
  /\ \A i \in 0 .. MaxEvals, j \in 0 .. MaxReserves : EvalName(i) # ReserveName(j)
  /\ \A i, j \in 0 .. MaxReserves : i # j => ReserveName(i) # ReserveName(j)
  /\ \A n \in {EvalName(i) : i \in 0 .. MaxEvals} \cup {ReserveName(i) : i \in 0 .. MaxReserves} :
       n \notin DOMAIN Disk /\ \A f \in ProgramForms : n # f.name /\ n \notin ImportsOf(f)

Form(m, defined, exports, imports) ==
  [name |-> m, defined |-> defined, exports |-> exports, imports |-> imports]

\* collect_imported_modules, in the order of the clauses.
ImportedBy(fs) == FlattenSeq([i \in DOMAIN fs |->
                                [j \in DOMAIN fs[i].imports |-> fs[i].imports[j].module]])

\* kind: source or etac.  via: who called, and key for which import.  sem: the
\* modules still to run, the running one first.  guard: what
\* TemporaryExecutedModuleGuard has inserted.
Frame(kind, via, key, new, guard) ==
  [kind |-> kind, via |-> via, key |-> key, new |-> new, todo |-> ImportedBy(new),
   pc |-> "load", base |-> 0, sem |-> <<>>, guard |-> guard]

Top == calls[Len(calls)]
Replace(f) == calls' = Append(Front(calls), f)
Push(f) == calls' = Append(calls, f)
RunsProgram(f) == f.pc \in {"init", "defined", "main"}

Init ==
  /\ forms = <<>> /\ executed = {} /\ reserved = <<>>
  /\ loadedFiles = {} /\ loading = {} /\ indexed = {}
  /\ exportSlots = <<>> /\ compiled = <<>>
  /\ globals = <<>> /\ calls = <<>>
  /\ spent = [submits |-> 0, evals |-> 0, failures |-> 0, reserves |-> 0]
  /\ home = <<>> /\ astray = {}

Submit(fs) ==
  /\ calls = <<>> /\ spent.submits < MaxSubmits
  /\ spent' = [spent EXCEPT !.submits = @ + 1]
  /\ Push(Frame("source", "user", "", fs, {}))
  /\ UNCHANGED <<linking, caches, globals, home, astray>>

-----------------------------------------------------------------------------
SlotsOf(fs) == FoldLeft(LAMBDA n, f : n + Cardinality(f.defined), 0, fs)

\* The slots that the next layout keeps from its new modules: those of the
\* forms, and of a source about to take its artifact's place.
Room == FoldLeft(LAMBDA n, f : IF f.via = "hydrate" /\ f.pc = "load" THEN n + SlotsOf(f.new) ELSE n,
                 SlotsOf(forms), calls)
\* The modules that have run, or are being run, with slots past them.
Past(slots, names) == \E n \in names : slots[n] > Room
Beyond ==
  {m \in DOMAIN home : Past(home[m], DOMAIN home[m])} \cup
  {u.name : u \in {v \in UNION {ToSet(calls[i].sem) : i \in DOMAIN calls} :
                    v.name \notin DOMAIN home /\ Past(v.slots, v.own)}}

\* The call fails, and with it the loads that wait for it, down to a
\* submission or an eval, whose error its program may handle.
Abort(fs) ==
  LET k == CHOOSE i \in DOMAIN calls :
             /\ calls[i].via \in {"user", "eval"}
             /\ \A j \in i + 1 .. Len(calls) : calls[j].via \notin {"user", "eval"}
      KeysOf(via) == {calls[j].key : j \in {n \in k .. Len(calls) : calls[n].via = via}}
  IN /\ forms' = fs
     /\ executed' = executed \ calls[k].guard
     /\ loading' = loading \ KeysOf("auto")
     /\ indexed' = indexed \ KeysOf("hydrate")
     /\ calls' = SubSeq(calls, 1, k - 1)
     /\ UNCHANGED <<reserved, loadedFiles, exportSlots, compiled, globals, home>>
     /\ astray' = astray \cup Beyond'

\* auto_load_imports, one import at a time.  The import is looked at again
\* after its load, which so hydrates an artifact that has just been executed.
Imports(kind) == calls # <<>> /\ Top.kind = kind /\ Top.pc = "load" /\ Top.todo # <<>>
Next1 == Head(Top.todo)
Declared(m) == m \in NamesOf(forms) \cup NamesOf(Top.new)
Hydratable(m) == m \in DOMAIN Disk /\ Disk[m].source /\ m \notin indexed
Loadable(m) == m \in DOMAIN Disk /\ m \notin loadedFiles

Skips(m) ==
  \/ Declared(m)
  \/ m \in executed /\ ~Hydratable(m)
  \/ m \notin executed /\ m \notin loading /\ ~Loadable(m)

SkipImport ==
  /\ Imports("source") /\ Skips(Next1)
  /\ Replace([Top EXCEPT !.todo = Tail(@)])
  /\ UNCHANGED <<linking, caches, globals, spent, home, astray>>

\* release_etac_global_reservation: the placeholder modules are forgotten.
ReservedFor(m) == IF m \in DOMAIN reserved THEN reserved[m] ELSE {}
Keep(names, s, f) == IF f.name \in names THEN s ELSE Append(s, f)
Without(names) == FoldLeft(LAMBDA s, f : Keep(names, s, f), <<>>, forms)
Release(m) ==
  /\ forms' = Without(ReservedFor(m))
  /\ executed' = executed \ ReservedFor(m)
  /\ reserved' = [x \in DOMAIN reserved \ {m} |-> reserved[x]]

\* hydrate_executed_module_source
HydrateImport ==
  /\ Imports("source") /\ ~Declared(Next1) /\ Next1 \in executed /\ Hydratable(Next1)
  /\ Release(Next1)
  /\ indexed' = indexed \cup {Next1}
  /\ Push(Frame("source", "hydrate", Next1, <<Disk[Next1].form>>, {}))
  /\ UNCHANGED <<loadedFiles, loading, exportSlots, compiled, globals, spent, home>>
  /\ astray' = astray \cup Beyond'

ImportCycle ==
  /\ Imports("source") /\ ~Declared(Next1) /\ Next1 \notin executed /\ Next1 \in loading
  /\ Abort(forms)
  /\ UNCHANGED spent

FileFrame(m, via) ==
  Frame(IF Disk[m].artifact THEN "etac" ELSE "source", via, m, <<Disk[m].form>>, {})
MarkLoading(m) == loading' = loading \cup {m} /\ loadedFiles' = loadedFiles \cup {m}

LoadImport ==
  /\ Imports("source") /\ ~Declared(Next1) /\ Next1 \notin executed
  /\ Next1 \notin loading /\ Loadable(Next1)
  /\ MarkLoading(Next1)
  /\ Push(FileFrame(Next1, "auto"))
  /\ UNCHANGED <<linking, indexed, exportSlots, compiled, globals, spent, home, astray>>

\* The imports of an artifact: no check for cycles, no hydration.
LoadRequired ==
  /\ Imports("etac")
  /\ IF Next1 \in executed THEN Replace([Top EXCEPT !.todo = Tail(@)])
                           ELSE Next1 \in DOMAIN Disk /\ Push(FileFrame(Next1, "required"))
  /\ UNCHANGED <<linking, caches, globals, spent, home, astray>>

RequiredMissing ==
  /\ Imports("etac") /\ Next1 \notin executed \cup DOMAIN Disk
  /\ Abort(forms)
  /\ UNCHANGED spent

-----------------------------------------------------------------------------
\* analyze_all: every form takes slots anew, those of executed modules too;
\* an import has the slot its origin was given at run time or in this pass,
\* or a slot of its own ("should not happen").
Known(slots, o) == o[1] \in DOMAIN slots /\ o[2] \in DOMAIN slots[o[1]]
Restriction(f, S) == [x \in S |-> f[x]]

\* Faulty variant: the slots given at run time are not asked for.
WiringInPass(r, origins) ==
  [l \in DOMAIN origins |->
     IF Known(r.exports, origins[l]) THEN r.exports[origins[l][1]][origins[l][2]] ELSE 0]

Wiring(r, origins) ==
  [l \in DOMAIN origins |->
     LET o == origins[l] IN
     CASE Known(exportSlots, o) -> exportSlots[o[1]][o[2]]
       [] Known(r.exports, o)   -> r.exports[o[1]][o[2]]
       [] OTHER                 -> 0]
Unwired(wiring) == {l \in DOMAIN wiring : wiring[l] = 0}

SlotsAfter(n, taken) == [l \in ToSet(taken) |-> n + CHOOSE i \in DOMAIN taken : taken[i] = l]
Module(f, slots) == [name |-> f.name, slots |-> slots, own |-> f.defined,
                     exports |-> Restriction(slots, f.exports)]
AddModule(r, f, slots, n, fresh) ==
  [r EXCEPT !.next = @ + n, !.exports = Updated(@, f.name, Restriction(slots, f.exports)),
            !.slots = Append(@, slots), !.fresh = @ \/ fresh]
PlaceWired(r, f, wiring, fresh) ==
  AddModule(r, f, Over(SlotsAfter(r.next, SetToSeq(fresh) \o SetToSeq(f.defined)), wiring),
            Cardinality(fresh) + Cardinality(f.defined), fresh # {})
PlaceFresh(r, f, wiring) == PlaceWired(r, f, wiring, Unwired(wiring))
PlaceModule(r, f) == PlaceFresh(r, f, Wiring(r, r.tables[f.name].origins))

Layout(fs, tables) ==
  FoldLeft(PlaceModule, [tables |-> tables, next |-> 0, exports |-> <<>>,
                         slots |-> <<>>, fresh |-> FALSE], fs)

Grown(n) == [i \in 1 .. (IF n > Len(globals) THEN n ELSE Len(globals)) |->
               IF i \in DOMAIN globals THEN globals[i] ELSE Nil]

\* run_source_impl from the rollback boundary to the growth of globals.
Loaded(kind) == calls # <<>> /\ Top.kind = kind /\ Top.pc = "load" /\ Top.todo = <<>>
Compiled(all, layout) ==
  /\ forms' = all
  /\ globals' = Grown(layout.next)
  /\ Replace([Top EXCEPT !.pc = "run", !.base = Len(forms),
                       !.sem = [i \in DOMAIN all |-> Module(all[i], layout.slots[i])]])
  /\ UNCHANGED <<executed, reserved, caches, spent, home>>
  /\ astray' = astray \cup IF layout.fresh THEN Beyond' ELSE {}
CompileLinked(all, linked) ==
  IF linked.error = "none" THEN Compiled(all, Layout(all, linked.tables))
  ELSE Abort(forms) /\ UNCHANGED spent
CompileAll(all) == CompileLinked(all, Link(all, compiled))
Compile == Loaded("source") /\ CompileAll(forms \o Top.new)

\* execute_deserialized_etac: imports are relocated to the slots of their
\* exporters, own definitions to the end of globals, which
\* append_etac_global_reservation keeps from the next compilation.  Both
\* callers have seen that the module is not executed.
Reservation(n, count) ==
  Form(ReserveName(n), {<<"__eta_etac_slot_", ToString(i)>> : i \in 1 .. count}, {}, <<>>)

\* Faulty variant: the slots of an artifact are not kept.
ReserveNothing(m, count) == UNCHANGED <<linking, spent>>
Reserve(m, count) ==
  LET form == Reservation(spent.reserves, count)
  IN /\ forms' = Append(forms, form)
     /\ executed' = executed \cup {form.name}
     /\ reserved' = Updated(reserved, m, ReservedFor(m) \cup {form.name})
     /\ spent' = [spent EXCEPT !.reserves = @ + 1]

Relocated(f, bindings) ==
  /\ spent.reserves < MaxReserves
  /\ Reserve(f.name, Cardinality(f.defined))
  /\ globals' = Grown(Len(globals) + Cardinality(f.defined))
  /\ LET slots == Over(SlotsAfter(Len(globals), SetToSeq(f.defined)),
                       [l \in DOMAIN bindings |-> exportSlots[bindings[l][1]][bindings[l][2]]])
     IN Replace([Top EXCEPT !.pc = "run", !.sem = <<Module(f, slots)>>])
  /\ astray' = IF Len(globals) = Room THEN astray ELSE astray \cup {f.name}
  /\ UNCHANGED <<caches, home>>
RelocateFile(file) ==
  IF \A l \in DOMAIN file.bindings : Known(exportSlots, file.bindings[l])
  THEN Relocated(file.form, file.bindings)
  ELSE Abort(forms) /\ UNCHANGED spent
Relocate == Loaded("etac") /\ RelocateFile(Disk[Top.key])

-----------------------------------------------------------------------------
\* The loop over the modules: those executed already are passed over.
Pending(sem) == {i \in DOMAIN sem : sem[i].name \notin executed}

StartModule ==
  /\ calls # <<>> /\ Top.pc = "run" /\ Pending(Top.sem) # {}
  /\ LET i == CHOOSE i \in Pending(Top.sem) : \A j \in Pending(Top.sem) : i <= j
     IN Replace([Top EXCEPT !.pc = "init", !.sem = SubSeq(@, i, Len(@))])
  /\ UNCHANGED <<linking, caches, globals, spent, home, astray>>

Running == Head(Top.sem)

\* The init function sets the module's definitions.
Define ==
  /\ calls # <<>> /\ Top.pc = "init"
  /\ globals' = [i \in DOMAIN globals |->
                   IF \E d \in Running.own : Running.slots[d] = i
                   THEN <<Running.name, CHOOSE d \in Running.own : Running.slots[d] = i>>
                   ELSE globals[i]]
  /\ Replace([Top EXCEPT !.pc = "defined"])
  /\ UNCHANGED <<linking, caches, spent, home, astray>>

\* record_runtime_exports_from_source_module and its counterpart; main next.
FinishInit ==
  /\ calls # <<>> /\ Top.pc = "defined"
  /\ executed' = executed \cup {Running.name}
  /\ exportSlots' = Updated(exportSlots, Running.name, Running.exports)
  /\ home' = Updated(home, Running.name, Restriction(Running.slots, Running.own))
  /\ Replace(IF <<"main">> \in Running.own THEN [Top EXCEPT !.pc = "main"]
             ELSE [Top EXCEPT !.pc = "run", !.sem = Tail(@)])
  /\ UNCHANGED <<forms, reserved, loadedFiles, loading, indexed, compiled, globals, spent,
                 astray>>

MainReturns ==
  /\ calls # <<>> /\ Top.pc = "main"
  /\ Replace([Top EXCEPT !.pc = "run", !.sem = Tail(@)])
  /\ UNCHANGED <<linking, caches, globals, spent, home, astray>>

\* A program may fail in its init or in main; the module of an eval only
\* defines a closure.
Programs == calls # <<>> /\ RunsProgram(Top) /\ \A n \in 0 .. MaxEvals : Running.name # EvalName(n)

\* Faulty variant: the forms of a failed submission stay.
NotRolledBack == forms

\* rollback_accumulated_forms: the slots of what it drops are free again, the
\* globals stay grown.
RolledBack == IF Top.kind = "source" THEN SubSeq(forms, 1, Top.base) ELSE forms
ProgramFails ==
  /\ Programs /\ spent.failures < MaxFailures
  /\ spent' = [spent EXCEPT !.failures = @ + 1]
  /\ Abort(RolledBack)

\* compile_eval_lambda: the modules whose init is running are passed over.
Active == {Head(calls[i].sem).name :
             i \in {n \in DOMAIN calls : calls[n].kind = "source" /\ RunsProgram(calls[n])}}

\* Faulty variant: the module whose init is running is compiled again.
NothingGuarded == {}

Guarded == Active \ executed
Eval ==
  /\ Programs /\ spent.evals < MaxEvals
  /\ LET form == Form(EvalName(spent.evals), {<<"__eta_eval_fn_">>}, {}, <<>>)
     IN Push(Frame("source", "eval", "", <<form>>, Guarded))
  /\ executed' = executed \cup Guarded
  /\ spent' = [spent EXCEPT !.evals = @ + 1]
  /\ UNCHANGED <<forms, reserved, caches, globals, home, astray>>

\* A call succeeds: its caller unmarks the import, or the eval its modules.
Return ==
  /\ calls # <<>> /\ Top.pc = "run" /\ Pending(Top.sem) = {}
  /\ calls' = Front(calls)
  /\ executed' = executed \ Top.guard
  /\ loading' = IF Top.via = "auto" THEN loading \ {Top.key} ELSE loading
  /\ compiled' = IF Top.kind = "etac"
                 THEN Updated(compiled, Top.new[1].name, Top.new[1].exports) ELSE compiled
  /\ UNCHANGED <<forms, reserved, loadedFiles, indexed, exportSlots, globals, spent, home,
                 astray>>

Loads == SkipImport \/ HydrateImport \/ ImportCycle \/ LoadImport \/ LoadRequired \/ RequiredMissing
Runs  == StartModule \/ Define \/ FinishInit \/ MainReturns \/ ProgramFails \/ Eval \/ Return
Next  == (\E fs \in Submissions : Submit(fs)) \/ Loads \/ Compile \/ Relocate \/ Runs

Spec == Init /\ [][Next]_session

-----------------------------------------------------------------------------
\* A slot that the code of an executed module defined holds that definition
\* for ever: later compilations, artifacts and evals keep away from it,
\* although slots are recomputed from accumulated_forms_ every time and
\* artifacts take theirs from the length of globals.  This is not so of the
\* modules that are astray: those whose forms a failure or a hydration took
\* away, those of an artifact placed past the forms, and those compiled with
\* an import that had no slot; they lose their slots and overwrite others'.
SlotsKept ==
  \A m \in (executed \cap DOMAIN home) \ astray : \A n \in DOMAIN home[m] :
    globals[home[m][n]] = <<m, n>> \/ Head(globals[home[m][n]]) \in astray

RunningForm == IF Top.kind = "etac" THEN Top.new[1]
               ELSE CHOOSE f \in ToSet(forms) : f.name = Running.name
BeingRun == UNION {NamesOf(calls[i].new) : i \in {j \in DOMAIN calls : calls[j].pc # "load"}}

\* If the files are Layered, a module's code runs after the modules it imports,
\* those of the submissions being run excepted, whose order is the author's; no
\* file is loaded inside its own load, and no module initialised inside its own
\* initialisation.
InitialisedInOrder ==
  /\ calls # <<>> /\ Top.pc = "init" => ImportsOf(RunningForm) \subseteq executed \cup BeingRun
  /\ \A i, j \in DOMAIN calls : i < j =>
       /\ calls[i].key # "" => <<calls[i].key, calls[i].via>> # <<calls[j].key, calls[j].via>>
       /\ RunsProgram(calls[i]) /\ RunsProgram(calls[j])
            => Head(calls[i].sem).name # Head(calls[j].sem).name

\* However a submission ends, it leaves no form that the next one would
\* execute, no mark of a load under way, and counts as executed only what has
\* run or stands for slots.
NothingHalfLoaded ==
  calls = <<>> =>
    /\ NamesOf(forms) \subseteq executed
    /\ loading = {} /\ indexed \subseteq NamesOf(forms)
    /\ executed \subseteq DOMAIN home \cup UNION {reserved[m] : m \in DOMAIN reserved}
=============================================================================
