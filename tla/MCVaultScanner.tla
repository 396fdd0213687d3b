-------------------------- MODULE MCVaultScanner --------------------------
(***************************************************************************)
(* VaultScanner for TLC: a note and a file in a folder, and examples of    *)
(* patterns and profiles that pin down the rules.                          *)
(***************************************************************************)
EXTENDS VaultScanner

CONSTANTS x, y

\* A note, and a file in a folder.
Note == <<"n">>
Filed == <<"d", "f">>
TwoFiles == {Note, Filed}
TwoVaults == {TwoFiles, {Note}}

ConfigDir == <<".cfg">>
OwnDir == <<".cfg", "plugins", "own">>

Rule(patterns) == [patterns |-> patterns, profile |-> "recommended"]

\* Nothing is excluded; "d/**"; "d", which excludes no file and hides the folder.
ThreeSettings == {Rule({}), Rule({<<{"d"}, {}>>}), Rule({<<{"d"}>>})}

\* "notes/**", "notes/*.md" and "**/x.md", on files that end in .md.
Markdown == {"2026.md", "x.md"}
ASSUME GlobExamples ==
    /\ GlobMatches(<<"notes", "archive", "2026.md">>, <<{"notes"}, {}>>)
    /\ GlobMatches(<<"notes", "2026.md">>, <<{"notes"}, Markdown>>)
    /\ ~GlobMatches(<<"notes", "archive", "2026.md">>, <<{"notes"}, Markdown>>)
    /\ ~GlobMatches(<<"notes">>, <<{"notes"}, {}>>)
    /\ GlobMatches(<<"x.md">>, <<{}, {"x.md"}>>)
    /\ GlobMatches(<<"notes", "archive", "x.md">>, <<{}, {"x.md"}>>)

\* Paths in the directory of the configuration, up to four names deep.
Names == {"app", "plugins", "p", "own", "main", "themes"}
ConfigPaths == {ConfigDir \o q : q \in UNION {[1 .. n -> Names] : n \in 1 .. 4}}

\* A profile, unlike a pattern, skips no directory of a file that it keeps.
ASSUME ProfilesHideNothing ==
    \A profile \in {"notes", "recommended", "full", "custom"}, path \in ConfigPaths :
        LET s == [patterns |-> {}, profile |-> profile]
        IN  ~IsExcluded(s, path) => IsListed(s, path)
=============================================================================
