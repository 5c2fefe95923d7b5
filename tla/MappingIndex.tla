---------------------------- MODULE MappingIndex ----------------------------
(***************************************************************************)
(* config.Index: which mappings apply to a file, or to a command in a       *)
(* directory, and the anchors by which the shell hook decides without a     *)
(* process whether a file could be mapped at all.                           *)
(*                                                                         *)
(* A path is a sequence of tokens, "/" among them; a pattern may also hold  *)
(* the wildcards "?", "*" and "**", classes and alternatives.  (A character *)
(* escaped in a pattern is a token like any other: literalPrefix and        *)
(* doublestar both drop the backslash.)  A config is a sequence of mappings *)
(* with a kind, a pattern and, for "cwd", a set of commands.                *)
(***************************************************************************)
EXTENDS Naturals, Sequences, SequencesExt

CONSTANT Alternatives  \* "[ab]", "{c,d/e}": a function from such a token to the
                       \* token sequences it may stand for

Wildcards == {"?", "*", "**"} \cup DOMAIN Alternatives

\* "**" alone between slashes, or at an end; elsewhere it means the same as "*".
AnyDepth(pat, i) ==
    /\ i \in 1 .. Len(pat) /\ pat[i] = "**"
    /\ i = 1 \/ pat[i - 1] = "/"
    /\ i = Len(pat) \/ pat[i + 1] = "/"

\* The token pat[i] stands for path[j] .. path[k - 1].  "?" and "*" stay within
\* a segment.  "**" stands for any number of segments, also none, each with the
\* slash behind it, whose token is left with nothing; "/a/**" matches "/a".
StandsFor(pat, i, path, j, k) ==
    \/ /\ pat[i] \notin Wildcards /\ ~AnyDepth(pat, i - 1)
       /\ k = j + 1 /\ j <= Len(path) /\ path[j] = pat[i]
    \/ pat[i] \in DOMAIN Alternatives /\ j <= k /\ SubSeq(path, j, k - 1) \in Alternatives[pat[i]]
    \/ pat[i] = "?" /\ k = j + 1 /\ j <= Len(path) /\ path[j] # "/"
    \/ /\ pat[i] \in {"*", "**"} /\ ~AnyDepth(pat, i)
       /\ j <= k /\ \A x \in j .. k - 1 : path[x] # "/"
    \/ AnyDepth(pat, i) /\ j <= k /\ (i = Len(pat) \/ j = k \/ path[k - 1] = "/")
    \/ AnyDepth(pat, i - 1) /\ j = k
    \/ pat[i] = "/" /\ i + 1 = Len(pat) /\ AnyDepth(pat, i + 1) /\ j = k /\ j > Len(path)

\* doublestar.Match: the path can be cut into what the tokens stand for.
Match(pat, path) ==
    \E cut \in [1 .. Len(pat) + 1 -> 1 .. Len(path) + 1] :
        /\ cut[1] = 1 /\ cut[Len(pat) + 1] = Len(path) + 1
        /\ \A i \in 1 .. Len(pat) : StandsFor(pat, i, path, cut[i], cut[i + 1])

\* normalisePattern: without the slashes at its end, unless it is "/".
Normalised(pat) ==
    LET ends == {i \in 0 .. Len(pat) : \A j \in i + 1 .. Len(pat) : pat[j] = "/"}
    IN  IF Len(pat) = 1 THEN pat ELSE SubSeq(pat, 1, CHOOSE i \in ends : \A j \in ends : i <= j)

\* NewIndex
Exact(config) == {m.pat : m \in {x \in Range(config) : x.kind = "path"}}
Globs(config) == {Normalised(m.pat) : m \in {x \in Range(config) : x.kind = "glob"}}
CwdGlobs(config) == {[pat |-> Normalised(m.pat), cmds |-> m.cmds] :
                        m \in {x \in Range(config) : x.kind = "cwd"}}

\* Mapped, asked by `jitenv is-mapped`.
Mapped(config, path) == path \in Exact(config) \/ \E g \in Globs(config) : Match(g, path)

\* The path itself and every directory above it.
Ancestors(path) ==
    {path, <<"/">>} \cup {SubSeq(path, 1, i - 1) : i \in {k \in 2 .. Len(path) : path[k] = "/"}}

MatchAncestor(pat, path) == \E a \in Ancestors(path) : Match(pat, a)

\* CwdCommands: what chpwd makes wrappers for.
CwdCommands(config, pwd) ==
    UNION {e.cmds : e \in {x \in CwdGlobs(config) : MatchAncestor(x.pat, pwd)}}

\* LookupCwd: what the agent resolves for a command started in a directory.
LookupCwd(config, pwd, cmd) ==
    {e \in CwdGlobs(config) : cmd \in e.cmds /\ MatchAncestor(e.pat, pwd)}

MappedCwd(config, pwd, cmd) == LookupCwd(config, pwd, cmd) # {}

\* Mutant: the prefix includes the first wildcard.
LiteralPrefixLonger(pat) ==
    LET wild == {i \in 1 .. Len(pat) : pat[i] \in Wildcards}
    IN  IF wild = {} THEN pat ELSE SubSeq(pat, 1, CHOOSE i \in wild : \A j \in wild : i <= j)

\* literalPrefix: what is before the first wildcard, class or alternative.
LiteralPrefix(pat) ==
    LET wild == {i \in 1 .. Len(pat) : pat[i] \in Wildcards}
    IN  IF wild = {} THEN pat ELSE SubSeq(pat, 1, (CHOOSE i \in wild : \A j \in wild : i <= j) - 1)

\* Anchors
Anchors(config) == [exact |-> Exact(config), prefixes |-> {LiteralPrefix(g) : g \in Globs(config)}]
NoAnchors == [exact |-> {}, prefixes |-> {}]

\* The pre-filter of the hook.
Plausible(anchors, path) ==
    path \in anchors.exact \/ \E p \in anchors.prefixes : IsPrefix(p, path)

\* __jitenv_load_anchors: a bare command found in dir could be mapped.
BareActive(anchors, dir) ==
    \/ \E e \in anchors.exact : Len(e) = Len(dir) + 2 /\ IsPrefix(dir \o <<"/">>, e)
    \/ \E p \in anchors.prefixes : IsPrefix(p, dir \o <<"/">>) \/ IsPrefix(dir \o <<"/">>, p)
=============================================================================
