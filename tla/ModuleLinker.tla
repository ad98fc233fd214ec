---------------------------- MODULE ModuleLinker ----------------------------
(***************************************************************************)
(* ModuleLinker (reader/module_linker.cpp) as operators on module forms.   *)
(* A symbol is the sequence of its parts, so that (prefix m p:) is \o; a   *)
(* form says what its module defines, exports and imports.  Spans and      *)
(* messages are left out; hash maps are walked in any order, which changes *)
(* at most the kind of the error.                                          *)
(***************************************************************************)
EXTENDS Naturals, Sequences, FiniteSets, SequencesExt

\* ImportSpec: ids of only and except, (old, new) pairs of rename.
Clause(kind, m, ids, renames, prefix) ==
  [kind |-> kind, module |-> m, ids |-> ids, renames |-> renames, prefix |-> prefix]

NamesOf(fs) == {fs[i].name : i \in DOMAIN fs}
ImportsOf(f) == {f.imports[i].module : i \in DOMAIN f.imports}

Identity(S) == [s \in S |-> s]
Failed(kind, x) == [x EXCEPT !.error = kind]

\* One (old new) of a rename clause, applied to the map so far.
RenameOne(r, pair) ==
  LET old == pair[1]
      new == pair[2]
      rest == [l \in DOMAIN r.map \ {old} |-> r.map[l]]
  IN CASE r.error # "none"            -> r
       [] old \notin DOMAIN r.map     -> Failed("NameNotExported", r)
       [] new \in DOMAIN rest         -> Failed("ConflictingImport", r)
       [] OTHER -> [r EXCEPT !.map = [l \in DOMAIN rest \cup {new} |->
                                        IF l = new THEN r.map[old] ELSE rest[l]]]

\* The local names a clause brings in, each with the exported name it stands for.
ImportMap(c, exports) ==
  LET all == [error |-> "none", map |-> Identity(exports)]
      olds == {c.renames[i][1] : i \in DOMAIN c.renames}
  IN CASE c.kind = "plain"  -> all
       [] c.kind = "only"   -> IF ToSet(c.ids) \subseteq exports
                               THEN [all EXCEPT !.map = Identity(ToSet(c.ids))]
                               ELSE Failed("NameNotExported", all)
       [] c.kind = "except" -> [all EXCEPT !.map = Identity(exports \ ToSet(c.ids))]
       [] c.kind = "rename" -> IF olds \subseteq exports
                               THEN FoldLeft(RenameOne, all, c.renames)
                               ELSE Failed("NameNotExported", all)
       [] c.kind = "prefix" ->
            [all EXCEPT !.map = [l \in {c.prefix \o e : e \in exports} |->
                                   SubSeq(l, Len(c.prefix) + 1, Len(l))]]

\* ModuleTable.  A module known only as an artifact has neither definitions
\* nor imports, and its exports are not validated.
Table(f) == [name |-> f.name, defined |-> f.defined, exports |-> f.exports,
             imports |-> f.imports, visible |-> {}, origins |-> <<>>, source |-> TRUE]
CompiledTable(m, exports) ==
  [name |-> m, defined |-> {}, exports |-> exports, imports |-> <<>>,
   visible |-> {}, origins |-> <<>>, source |-> FALSE]

\* index_modules, then index_compiled_module_exports for what has no form.
Duplicates(fs) == Cardinality(NamesOf(fs)) < Len(fs)
Index(fs, compiled) ==
  [m \in NamesOf(fs) \cup DOMAIN compiled |->
     IF m \in NamesOf(fs) THEN Table(fs[CHOOSE i \in DOMAIN fs : fs[i].name = m])
                          ELSE CompiledTable(m, compiled[m])]

\* CycleDetector: dependencies first, as far as there is no cycle.
PlaceNext(tables, order) ==
  LET ready == {m \in DOMAIN tables \ ToSet(order) :
                  ImportsOf(tables[m]) \cap DOMAIN tables \subseteq ToSet(order)}
  IN IF ready = {} THEN order ELSE Append(order, CHOOSE m \in ready : TRUE)
TopoOrder(tables) ==
  FoldLeft(LAMBDA order, n : PlaceNext(tables, order), <<>>, [n \in 1 .. Cardinality(DOMAIN tables) |-> n])

\* One import clause of target t, committed with conflict checks.  origin:
\* the definition behind each local name, through re-exports.
Wire(t, r, tgt, origin) ==
  IF \/ DOMAIN origin \cap tgt.defined # {}
     \/ \E l \in DOMAIN origin \cap DOMAIN tgt.origins : tgt.origins[l] # origin[l]
  THEN Failed("ConflictingImport", r)
  ELSE [r EXCEPT !.tables[t].origins =
          [l \in DOMAIN origin \cup DOMAIN tgt.origins |->
             IF l \in DOMAIN origin THEN origin[l] ELSE tgt.origins[l]]]
OriginIn(src, n) == IF n \in DOMAIN src.origins THEN src.origins[n] ELSE <<src.name, n>>
Bring(t, r, src, im) ==
  IF im.error # "none" THEN Failed(im.error, r)
  ELSE Wire(t, r, r.tables[t], [l \in DOMAIN im.map |-> OriginIn(src, im.map[l])])

CommitImport(t, r, c) ==
  CASE r.error # "none"                -> r
    [] c.module \notin DOMAIN r.tables -> Failed("UnknownModule", r)
    [] OTHER -> Bring(t, r, r.tables[c.module], ImportMap(c, r.tables[c.module].exports))

MakeVisible(t, r) ==
  [r EXCEPT !.tables[t].visible = r.tables[t].defined \cup DOMAIN r.tables[t].origins]
LinkModule(r, t) ==
  MakeVisible(t, FoldLeft(LAMBDA q, c : CommitImport(t, q, c), r, r.tables[t].imports))

\* link(): the error, or every module with what its names stand for.
CheckExports(r) ==
  IF r.error # "none" \/ \A m \in DOMAIN r.tables :
       r.tables[m].source => r.tables[m].exports \subseteq r.tables[m].visible
  THEN r ELSE Failed("ExportOfUnknownName", r)
LinkInOrder(r, order) ==
  IF Len(order) < Cardinality(DOMAIN r.tables) THEN Failed("CircularDependency", r)
  ELSE CheckExports(FoldLeft(LinkModule, r, order))
LinkTables(tables) == LinkInOrder([error |-> "none", tables |-> tables], TopoOrder(tables))

Link(fs, compiled) ==
  IF Duplicates(fs) THEN [error |-> "DuplicateModule", tables |-> <<>>]
                    ELSE LinkTables(Index(fs, compiled))
=============================================================================
