----------------------------- MODULE MCToolchain -----------------------------
(***************************************************************************)
(* Toolchain on one workspace with two processes, and the archives that    *)
(* come from elsewhere: well formed ones, ones that reach each limit, and  *)
(* ones that go over it.                                                   *)
(***************************************************************************)
EXTENDS Toolchain, TLC

CONSTANTS old, new, other

Files == {Manifest, "msp", "library"}

Item(kind, name, inside, size, held, data) ==
  [kind |-> kind, name |-> name, inside |-> inside, size |-> size,
   packed |-> held, holds |-> size, data |-> data]
Plain(name, data) == Item("file", name, TRUE, 1, 1, data)

Environment == Plain(Manifest, new)

ForeignArchives ==
  { \* One name twice; then the manifest.
    <<Plain("msp", new), Plain("msp", other), Environment>>,
    \* No manifest; a directory.
    <<Item("dir", "library", TRUE, 0, 0, Absent), Plain("msp", new)>>,
    \* A link, and a name outside, after good entries.
    <<Environment, Item("link", "msp", TRUE, 1, 1, new)>>,
    <<Plain("msp", new), Item("file", "msp", FALSE, 1, 1, other)>>,
    \* The ratio and the total, reached and passed.
    <<Item("file", "msp", TRUE, 2, 1, new), Item("file", "library", TRUE, 1, 1, new)>>,
    <<Environment, Item("file", "msp", TRUE, 3, 1, new)>>,
    <<Item("file", "msp", TRUE, 2, 2, new), Item("file", "library", TRUE, 2, 2, new)>>,
    <<Plain("msp", new), Item("file", "library", TRUE, 1, 0, new)>>,
    \* An entry that holds more than it claims.
    <<[Plain("msp", new) EXCEPT !.holds = 5], Environment>>,
    \* More entries than the core takes.
    <<Environment, Plain("msp", new), Plain("library", new), Plain("msp", other)>> }

Alike == Permutations(Processes)

NothingOrOld == {Absent, old}
=============================================================================
