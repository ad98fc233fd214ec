----------------------------- MODULE MCSession -----------------------------
(***************************************************************************)
(* A small library and the submissions made against it, and the properties *)
(* of a session.                                                           *)
(***************************************************************************)
EXTENDS Session

Plain(m) == Clause("plain", m, <<>>, <<>>, <<>>)
Only(m, ids) == Clause("only", m, ids, <<>>, <<>>)
Except(m, ids) == Clause("except", m, ids, <<>>, <<>>)
Rename(m, renames) == Clause("rename", m, <<>>, renames, <<>>)
Prefix(m, prefix) == Clause("prefix", m, <<>>, <<>>, prefix)

\* A source, an artifact with its source beside it that re-exports, an
\* artifact alone that re-exports, two sources that import each other, and
\* artifacts compiled when P exported more and when another module existed.
Library ==
  <<Form("P", {<<"p">>, <<"hidden">>}, {<<"p">>}, <<>>),
    Form("Q", {<<"q">>}, {<<"q">>, <<"p">>}, <<Plain("P")>>),
    Form("R", {<<"r">>, <<"hidden">>}, {<<"r">>, <<"q">>}, <<Except("Q", <<<<"p">>>>)>>)>>
Cyclic ==
  <<Form("S", {<<"s">>}, {<<"s">>}, <<Plain("T")>>),
    Form("T", {<<"t">>}, {<<"t">>}, <<Plain("S")>>)>>
Stale ==
  <<Form("Y", {<<"y">>}, {<<"y">>}, <<Plain("P")>>),
    Form("N", {<<"n">>}, {<<"n">>}, <<Plain("gone")>>)>>

\* The artifacts were compiled from these sources in a session of their own.
Origins == LET r == Link(Library, <<>>) IN [m \in NamesOf(Library) |-> r.tables[m].origins]
Source(f) == [artifact |-> FALSE, source |-> TRUE, form |-> f, bindings |-> <<>>]
Artifact(f, source, bindings) ==
  [artifact |-> TRUE, source |-> source, form |-> f, bindings |-> bindings]
SmallDisk ==
  "P" :> Source(Library[1]) @@ "S" :> Source(Cyclic[1]) @@ "T" :> Source(Cyclic[2]) @@
  "Q" :> Artifact(Library[2], TRUE, Origins["Q"]) @@
  "R" :> Artifact(Library[3], FALSE, Origins["R"]) @@
  "Y" :> Artifact(Stale[1], FALSE, <<"old">> :> <<"P", <<"old">>>>) @@
  "N" :> Artifact(Stale[2], FALSE, <<>>)

SomeSubmissions ==
  {<<Form("U", {<<"u">>, <<"main">>}, {<<"u">>}, <<Prefix("Q", <<"x">>)>>)>>,
   <<Form("V", {<<"v">>}, {<<"v">>},
          <<Only("R", <<<<"r">>, <<"q">>>>), Rename("P", <<<<<<"p">>, <<"w">>>>>>)>>)>>,
   <<Form("A", {<<"a">>}, {<<"a">>}, <<>>),
     Form("B", {<<"b">>, <<"main">>}, {<<"b">>, <<"a">>}, <<Plain("A")>>),
     Form("C", {<<"c">>}, {}, <<Plain("B"), Plain("A")>>)>>,
   <<Form("X", {<<"x">>}, {}, <<Plain("Q"), Plain("R")>>)>>,
   <<Form("W", {<<"w">>}, {}, <<Plain("S")>>)>>,
   <<Form("Z", {<<"z">>}, {}, <<Plain("Y"), Plain("N")>>)>>,
   <<Form("D", {<<"d">>}, {}, <<Plain("E")>>), Form("E", {<<"e">>}, {<<"e">>}, <<>>)>>}

-----------------------------------------------------------------------------
\* What a name of a module stands for, read off the sources: follow the
\* clauses to the definitions, as deep as there are modules.
Universe == ToSet(Library) \cup ToSet(Cyclic) \cup ToSet(Stale) \cup UNION {ToSet(fs) : fs \in SomeSubmissions}
Names == {f.name : f \in Universe}
FormOf(m) == CHOOSE f \in Universe : f.name = m

Locals(c, n) ==
  CASE c.kind = "plain"  -> {n}
    [] c.kind = "only"   -> {n} \cap ToSet(c.ids)
    [] c.kind = "except" -> {n} \ ToSet(c.ids)
    [] c.kind = "rename" -> IF \E i \in DOMAIN c.renames : c.renames[i][1] = n
                            THEN {c.renames[i][2] : i \in {j \in DOMAIN c.renames : c.renames[j][1] = n}}
                            ELSE {n}
    [] c.kind = "prefix" -> {c.prefix \o n}

Meanings[k \in 0 .. 3] ==
  [m \in Names |->
     LET f == FormOf(m)
         Exported(c) == {d \in Meanings[k - 1][c.module] : d[1] \in FormOf(c.module).exports}
         Brought(c) == UNION {{<<l, d[2]>> : l \in Locals(c, d[1])} : d \in Exported(c)}
     IN {<<n, <<m, n>>>> : n \in f.defined} \cup
        IF k = 0 THEN {}
        ELSE UNION {Brought(f.imports[i]) : i \in {j \in DOMAIN f.imports : f.imports[j].module \in Names}}]

\* When a module starts, every name it imports is wired to a slot that holds
\* the definition the sources say it stands for, whether its exporter came
\* from source, from an artifact, or from one that re-exports it.  Excepted
\* are the definitions of modules that have not run yet (still initialising
\* when an eval runs the rest of their submission, or placed after their
\* importer by its author) and of modules whose slots were given up.
NotRunYet == Active \cup {Top.sem[i].name : i \in DOMAIN Top.sem}
ImportsReadDefinitions ==
  calls # <<>> /\ Top.pc = "init" /\ Running.name \in Names
    => \A d \in Meanings[3][Running.name] :
         d[2][1] \notin NotRunYet \cup astray =>
           d[1] \in DOMAIN Running.slots /\ globals[Running.slots[d[1]]] = d[2]

\* Artifacts reserve their slots "so future source/eval compilations preserve
\* slot layout after loading .etac modules" (driver.h:1728): what an artifact
\* has defined is never overwritten.
ArtifactSlotsKept ==
  \A m \in executed \cap DOMAIN home \cap {k \in DOMAIN Disk : Disk[k].artifact} :
    \A n \in DOMAIN home[m] : globals[home[m][n]] = <<m, n>>

=============================================================================
