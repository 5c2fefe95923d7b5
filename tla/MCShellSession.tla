--------------------------- MODULE MCShellSession ---------------------------
(* A project /w whose subdirectory /w/d has wrappers under one config, and a *)
(* script and the real command mapped under both.                            *)
EXTENDS ShellSession

Entry(kind, pat, cmds) == [kind |-> kind, pat |-> pat, cmds |-> cmds]

Bin == <<"/", "b">>
Script == <<"/", "s", "/", "f">>
Project == <<"/", "w", "/", "d">>
TwoDirs == {Project, <<"/", "o">>}
ByDirectory == <<Entry("cwd", <<"/", "w", "/">>, {"c"}),
                 Entry("glob", <<"/", "s", "/", "[fg]", "*">>, {})>>
ByFile == <<Entry("path", Script, {}), Entry("glob", <<"/", "b", "/", "**">>, {})>>
OneClass == [t \in {"[fg]"} |-> {<<"f">>, <<"g">>}]
TwoConfigs == {ByDirectory, ByFile}
HopsInFront == [fg |-> 1, bg |-> 0]
OneScript == {Script}
=============================================================================
