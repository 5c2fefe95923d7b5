-------------------------- MODULE ConfigTuiProofs --------------------------
(***************************************************************************)
(* What the editor's renames and toggles keep, for every config, every set  *)
(* of names and every length of a session.  First what the edits make of a  *)
(* config, then the invariant: the config is well formed, a form is open on *)
(* a mapping that exists, and the var tree agrees with its vars.            *)
(***************************************************************************)
EXTENDS ConfigTui, SequenceTheorems, TLAPS

FormType == [idx : Nat, creating : BOOLEAN, pending : {"", "path", "cwd"}]
RowType == [all : BOOLEAN, shown : SUBSET (KeyNames \cup RemoteKeys),
            sel : SUBSET (KeyNames \cup RemoteKeys), loading : BOOLEAN]

FormInv ==
    /\ form \in FormType
    /\ form.idx <= Len(cfg.mappings)
    /\ at \in {"form", "tree"} <=> form.idx # 0

\* A row shows which of the vars vs refer to its bag.
Agrees(r, row, vs) ==
    \A v \in vs : Selects(v, row) =>
        /\ v.key = "" /\ v.name = "" => r.all
        /\ v.key \in r.shown /\ ~r.all => v.key \in r.sel

\* The rows of a tree are those of sources.
RowsOK(t) ==
    /\ t \in [DOMAIN t -> RowType]
    /\ \A row \in DOMAIN t : /\ row[1] \in SourceNames \cup {"local"} /\ row[2] \in Name
                             /\ row = <<row[1], row[2]>>

\* The var tree agrees with the mapping.
TreeInv ==
    at = "tree" => RowsOK(tree) /\ \A row \in DOMAIN tree : Agrees(tree[row], row, Mapping.vars)

TuiInv == IsConfig(cfg) /\ FormInv /\ TreeInv

-----------------------------------------------------------------------------
(* What edits make of a config.                                             *)

\* The mappings of a config and their vars.
LEMMA ConfigFacts ==
    ASSUME NEW c, IsConfig(c)
    PROVE  /\ c.mappings \in Seq(MappingType) /\ Len(c.mappings) \in Nat
           /\ DOMAIN c.mappings = 1 .. Len(c.mappings)
           /\ \A i \in DOMAIN c.mappings :
                 /\ c.mappings[i] \in MappingType
                 /\ \A v \in c.mappings[i].vars : v \in VarType /\ (v.source # "" => v.value = "")
<1>1. c.mappings \in Seq(MappingType)
  BY DEF IsConfig
<1>2. /\ Len(c.mappings) \in Nat /\ DOMAIN c.mappings = 1 .. Len(c.mappings)
      /\ \A i \in 1 .. Len(c.mappings) : c.mappings[i] \in MappingType
  BY <1>1, LenProperties, ElementOfSeq
<1>3. \A i \in DOMAIN c.mappings : \A v \in c.mappings[i].vars : v \in VarType
  BY <1>2 DEF MappingType
<1>4. \A i \in DOMAIN c.mappings : \A v \in c.mappings[i].vars : v.source # "" => v.value = ""
  BY DEF IsConfig
<1> QED
  BY <1>1, <1>2, <1>3, <1>4

\* Vars are literals or references.
Sound(vs) == \A v \in vs : v.source # "" => v.value = ""

\* A config with other mappings.
LEMMA NewMappings ==
    ASSUME NEW c, IsConfig(c), NEW s \in Seq(MappingType), \A i \in DOMAIN s : Sound(s[i].vars),
           NEW d, DOMAIN d = DOMAIN c, d.sources = c.sources, d.secrets = c.secrets, d.mappings = s
    PROVE  IsConfig(d)
BY DEF IsConfig, Sound

\* One mapping is replaced.
LEMMA MappingEdit ==
    ASSUME NEW c, IsConfig(c), NEW i \in DOMAIN c.mappings, NEW m \in MappingType, Sound(m.vars)
    PROVE  /\ IsConfig([c EXCEPT !.mappings[i] = m])
           /\ Len([c EXCEPT !.mappings[i] = m].mappings) = Len(c.mappings)
           /\ [c EXCEPT !.mappings[i] = m].mappings[i] = m
<1> DEFINE d == [c EXCEPT !.mappings[i] = m]
           s == [c.mappings EXCEPT ![i] = m]
<1>1. DOMAIN d = DOMAIN c /\ d.sources = c.sources /\ d.secrets = c.secrets /\ d.mappings = s
  BY DEF IsConfig
<1>2. c.mappings \in Seq(MappingType) /\ DOMAIN c.mappings = 1 .. Len(c.mappings)
  BY ConfigFacts
<1>3. /\ s \in Seq(MappingType) /\ Len(s) = Len(c.mappings)
      /\ \A k \in 1 .. Len(c.mappings) : s[k] = IF k = i THEN m ELSE c.mappings[k]
  BY <1>2, ExceptSeq
<1>4. DOMAIN s = 1 .. Len(c.mappings)
  BY <1>2
<1>5. \A k \in DOMAIN s : Sound(s[k].vars)
  BY <1>2, <1>3, <1>4, ConfigFacts DEF Sound
<1>6. IsConfig(d)
  <2> HIDE DEF d, s
  <2> QED
    BY <1>1, <1>3, <1>5, NewMappings
<1> QED
  BY <1>1, <1>2, <1>3, <1>6

\* What RemoveAt leaves.
LEMMA RemoveAtFacts ==
    ASSUME NEW S, NEW s \in Seq(S), NEW i \in 1 .. Len(s)
    PROVE  /\ RemoveAt(s, i) \in Seq(S) /\ Len(RemoveAt(s, i)) = Len(s) - 1
           /\ \A k \in 1 .. Len(s) - 1 : RemoveAt(s, i)[k] = IF k < i THEN s[k] ELSE s[k + 1]
<1> DEFINE a == SubSeq(s, 1, i - 1)
           b == SubSeq(s, i + 1, Len(s))
<1>1. Len(s) \in Nat /\ \A k \in 1 .. Len(s) : s[k] \in S
  BY LenProperties, ElementOfSeq
<1>2. a \in Seq(S) /\ Len(a) = i - 1 /\ \A k \in 1 .. i - 1 : a[k] = s[k]
  <2>1. \A k \in 1 .. i - 1 : s[k] \in S
    BY <1>1
  <2> QED
    BY <1>1, <2>1, SubSeqProperties
<1>3. b \in Seq(S) /\ Len(b) = Len(s) - i /\ \A k \in 1 .. Len(s) - i : b[k] = s[k + i]
  <2>1. \A k \in i + 1 .. Len(s) : s[k] \in S
    BY <1>1
  <2>2. /\ b \in Seq(S) /\ Len(b) = IF i + 1 <= Len(s) THEN Len(s) - (i + 1) + 1 ELSE 0
        /\ \A k \in 1 .. Len(s) - (i + 1) + 1 : b[k] = s[i + 1 + k - 1]
    BY <1>1, <2>1, SubSeqProperties
  <2>3. \A k \in 1 .. Len(s) - i : i + 1 + k - 1 = k + i
    BY <1>1
  <2> QED
    BY <1>1, <2>2, <2>3
<1> HIDE DEF a, b
<1>4. /\ a \o b \in Seq(S) /\ Len(a \o b) = Len(a) + Len(b)
      /\ \A k \in 1 .. Len(a) + Len(b) : (a \o b)[k] = IF k <= Len(a) THEN a[k] ELSE b[k - Len(a)]
  BY <1>2, <1>3, ConcatProperties
<1>5. RemoveAt(s, i) = a \o b
  BY DEF RemoveAt, a, b
<1>6. ASSUME NEW k \in 1 .. Len(s) - 1
      PROVE  (a \o b)[k] = IF k < i THEN s[k] ELSE s[k + 1]
  <2>1. CASE k < i
    BY <1>1, <1>2, <1>3, <1>4, <2>1
  <2>2. CASE ~(k < i)
    <3>1. k - (i - 1) \in 1 .. Len(s) - i /\ k - (i - 1) + i = k + 1 /\ ~(k <= i - 1)
      BY <1>1, <2>2
    <3>2. k \in 1 .. Len(a) + Len(b) /\ Len(a) = i - 1
      BY <1>1, <1>2, <1>3
    <3>3. (a \o b)[k] = b[k - (i - 1)]
      BY <1>4, <3>1, <3>2
    <3>4. b[k - (i - 1)] = s[k - (i - 1) + i]
      BY <1>3, <3>1
    <3> QED
      BY <2>2, <3>1, <3>3, <3>4
  <2> QED
    BY <2>1, <2>2
<1> QED
  BY <1>1, <1>2, <1>3, <1>4, <1>5, <1>6

\* A mapping is removed.
LEMMA MappingRemoved ==
    ASSUME NEW c, IsConfig(c), NEW i \in DOMAIN c.mappings
    PROVE  IsConfig([c EXCEPT !.mappings = RemoveAt(@, i)])
<1> DEFINE s == RemoveAt(c.mappings, i)
           d == [c EXCEPT !.mappings = s]
<1>1. DOMAIN d = DOMAIN c /\ d.sources = c.sources /\ d.secrets = c.secrets /\ d.mappings = s
  BY DEF IsConfig
<1>2. /\ c.mappings \in Seq(MappingType) /\ Len(c.mappings) \in Nat
      /\ DOMAIN c.mappings = 1 .. Len(c.mappings)
  BY ConfigFacts
<1>3. /\ s \in Seq(MappingType) /\ Len(s) = Len(c.mappings) - 1
      /\ \A k \in 1 .. Len(c.mappings) - 1 : s[k] = IF k < i THEN c.mappings[k] ELSE c.mappings[k + 1]
  BY <1>2, RemoveAtFacts
<1> HIDE DEF s
<1>4. DOMAIN s = 1 .. Len(c.mappings) - 1
  BY <1>3, LenProperties
<1>5. \A k \in DOMAIN s : Sound(s[k].vars)
  <2> SUFFICES ASSUME NEW k \in DOMAIN s PROVE Sound(s[k].vars)
    OBVIOUS
  <2>1. k \in 1 .. Len(c.mappings) - 1 /\ k \in DOMAIN c.mappings /\ k + 1 \in DOMAIN c.mappings
    BY <1>2, <1>4
  <2>2. s[k] = IF k < i THEN c.mappings[k] ELSE c.mappings[k + 1]
    BY <1>3, <2>1
  <2>3. Sound(c.mappings[k].vars) /\ Sound(c.mappings[k + 1].vars)
    BY <2>1, ConfigFacts DEF Sound
  <2> QED
    BY <2>2, <2>3
<1>6. IsConfig(d)
  <2> HIDE DEF d
  <2> QED
    BY <1>1, <1>3, <1>5, NewMappings
<1> QED
  BY <1>6 DEF s

\* The vars of every mapping are replaced: d has the mappings of c with vars
\* given by vs.
LEMMA VarsMapped ==
    ASSUME NEW c, IsConfig(c), NEW vs, NEW s,
           s = [i \in DOMAIN c.mappings |-> [c.mappings[i] EXCEPT !.vars = vs[i]]],
           \A i \in DOMAIN c.mappings : vs[i] \subseteq VarType /\ Sound(vs[i])
    PROVE  /\ s \in Seq(MappingType) /\ DOMAIN s = DOMAIN c.mappings /\ Len(s) = Len(c.mappings)
           /\ \A i \in DOMAIN s : s[i].vars = vs[i] /\ Sound(s[i].vars)
<1>1. Len(c.mappings) \in Nat /\ DOMAIN c.mappings = 1 .. Len(c.mappings)
  BY ConfigFacts
<1>2. \A i \in DOMAIN c.mappings : s[i] \in MappingType /\ s[i].vars = vs[i]
  BY ConfigFacts DEF MappingType
<1>3. s \in [1 .. Len(c.mappings) -> MappingType] /\ DOMAIN s = 1 .. Len(c.mappings)
  BY <1>1, <1>2
<1>4. s \in Seq(MappingType) /\ Len(s) = Len(c.mappings)
  BY <1>1, <1>3
<1> QED
  BY <1>1, <1>2, <1>3, <1>4

\* The names of a reference after a rename of a bag, a key, a source.
BagVars(c, i, old, new) == {BagRefRenamed(c, v, old, new) : v \in c.mappings[i].vars}
KeyVars(c, i, b, old, new) == {KeyRefRenamed(c, v, b, old, new) : v \in c.mappings[i].vars}
SourceRefRenamed(v, old, new) == IF v.source = old THEN [v EXCEPT !.source = new] ELSE v
SourceVars(c, i, old, new) == {SourceRefRenamed(v, old, new) : v \in c.mappings[i].vars}

\* Renamed references are references.
LEMMA RefFacts ==
    ASSUME NEW c, NEW v \in VarType, NEW old \in Name, NEW new \in Name, NEW b,
           v.source # "" => v.value = ""
    PROVE  /\ BagRefRenamed(c, v, old, new) \in VarType
           /\ BagRefRenamed(c, v, old, new).source # "" => BagRefRenamed(c, v, old, new).value = ""
           /\ KeyRefRenamed(c, v, b, old, new) \in VarType
           /\ KeyRefRenamed(c, v, b, old, new).source # "" => KeyRefRenamed(c, v, b, old, new).value = ""
           /\ SourceRefRenamed(v, old, new) \in VarType
           /\ old # "" /\ SourceRefRenamed(v, old, new).source # "" =>
                 SourceRefRenamed(v, old, new).value = ""
BY DEF VarType, BagRefRenamed, KeyRefRenamed, SourceRefRenamed

\* So are those of every mapping.
LEMMA RefsSound ==
    ASSUME NEW c, IsConfig(c), NEW old \in Name, NEW new \in Name, NEW b,
           NEW i \in DOMAIN c.mappings
    PROVE  /\ BagVars(c, i, old, new) \subseteq VarType /\ Sound(BagVars(c, i, old, new))
           /\ KeyVars(c, i, b, old, new) \subseteq VarType /\ Sound(KeyVars(c, i, b, old, new))
           /\ SourceVars(c, i, old, new) \subseteq VarType
           /\ old # "" => Sound(SourceVars(c, i, old, new))
<1>1. \A v \in c.mappings[i].vars : v \in VarType /\ (v.source # "" => v.value = "")
  BY ConfigFacts
<1>2. ASSUME NEW u \in BagVars(c, i, old, new)
      PROVE  u \in VarType /\ (u.source # "" => u.value = "")
  <2>1. PICK v \in c.mappings[i].vars : u = BagRefRenamed(c, v, old, new)
    BY <1>2 DEF BagVars
  <2> QED
    BY <1>1, <2>1, RefFacts
<1>3. ASSUME NEW u \in KeyVars(c, i, b, old, new)
      PROVE  u \in VarType /\ (u.source # "" => u.value = "")
  <2>1. PICK v \in c.mappings[i].vars : u = KeyRefRenamed(c, v, b, old, new)
    BY <1>3 DEF KeyVars
  <2> QED
    BY <1>1, <2>1 DEF KeyRefRenamed, VarType
<1>4. ASSUME NEW u \in SourceVars(c, i, old, new)
      PROVE  u \in VarType /\ (old # "" /\ u.source # "" => u.value = "")
  <2>1. PICK v \in c.mappings[i].vars : u = SourceRefRenamed(v, old, new)
    BY <1>4 DEF SourceVars
  <2> QED
    BY <1>1, <2>1, RefFacts
<1> QED
  BY <1>2, <1>3, <1>4 DEF Sound

\* d is c after a rename.
BagRename(c, d, old, new) ==
    /\ old \in DOMAIN c.secrets /\ new \in BagNames \ DOMAIN c.secrets
    /\ DOMAIN d = DOMAIN c /\ d.sources = c.sources /\ d.secrets = Renamed(c.secrets, old, new)
    /\ d.mappings = [i \in DOMAIN c.mappings |->
          [c.mappings[i] EXCEPT !.vars = {BagRefRenamed(c, v, old, new) : v \in @}]]

KeyRename(c, d, b, old, new, value) ==
    /\ b \in DOMAIN c.secrets /\ old \in DOMAIN c.secrets[b].kv
    /\ new \in KeyNames \ DOMAIN c.secrets[b].kv
    /\ DOMAIN d = DOMAIN c /\ d.sources = c.sources /\ DOMAIN d.secrets = DOMAIN c.secrets
    /\ \A x \in DOMAIN c.secrets :
          /\ DOMAIN d.secrets[x] = DOMAIN c.secrets[x]
          /\ d.secrets[x].kv =
                IF x = b THEN With(Without(c.secrets[b].kv, old), new, value) ELSE c.secrets[x].kv
    /\ d.mappings = [i \in DOMAIN c.mappings |->
          [c.mappings[i] EXCEPT !.vars = {KeyRefRenamed(c, v, b, old, new) : v \in @}]]

SourceRename(c, d, old, new) ==
    /\ old \in DOMAIN c.sources /\ new \in SourceNames \ DOMAIN c.sources
    /\ DOMAIN d = DOMAIN c /\ d.sources = Renamed(c.sources, old, new) /\ d.secrets = c.secrets
    /\ d.mappings = [i \in DOMAIN c.mappings |->
          [c.mappings[i] EXCEPT !.vars =
              {IF v.source = old THEN [v EXCEPT !.source = new] ELSE v : v \in @}]]

\* The config after the rename of a bag.
LEMMA BagRenamed ==
    ASSUME NEW c, NEW d, NEW old, NEW new, IsConfig(c), BagRename(c, d, old, new)
    PROVE  /\ IsConfig(d) /\ DOMAIN d.mappings = DOMAIN c.mappings
           /\ \A i \in DOMAIN c.mappings : d.mappings[i].vars = BagVars(c, i, old, new)
<1> USE DEF BagRename
<1> DEFINE vs == [i \in DOMAIN c.mappings |-> BagVars(c, i, old, new)]
           s == [i \in DOMAIN c.mappings |-> [c.mappings[i] EXCEPT !.vars = vs[i]]]
<1>1. d.mappings = s
  BY DEF BagVars
<1>2. old \in Name /\ new \in Name
  BY TuiAssumption DEF IsConfig
<1>3. \A i \in DOMAIN c.mappings : vs[i] \subseteq VarType /\ Sound(vs[i])
  BY <1>2, RefsSound
<1> HIDE DEF vs
<1>4. /\ s \in Seq(MappingType) /\ DOMAIN s = DOMAIN c.mappings
      /\ \A i \in DOMAIN s : s[i].vars = vs[i] /\ Sound(s[i].vars)
  BY <1>3, VarsMapped
<1> HIDE DEF s
<1>5. /\ DOMAIN d.secrets \subseteq BagNames
      /\ \A b \in DOMAIN d.secrets : /\ "kv" \in DOMAIN d.secrets[b]
                                     /\ DOMAIN d.secrets[b].kv \subseteq KeyNames
  <2>1. /\ DOMAIN d.secrets = (DOMAIN c.secrets \ {old}) \cup {new}
        /\ \A b \in DOMAIN d.secrets : d.secrets[b] = IF b = new THEN c.secrets[old] ELSE c.secrets[b]
    BY DEF Renamed, With, Without
  <2> QED
    BY <2>1 DEF IsConfig
<1>6. IsConfig(d)
  BY <1>1, <1>4, <1>5 DEF IsConfig, Sound
<1> QED
  BY <1>1, <1>4, <1>6 DEF vs

\* The config after the rename of a key, with a value for it.
LEMMA KeyRenamed ==
    ASSUME NEW c, NEW d, NEW b, NEW old, NEW new, NEW value, IsConfig(c),
           KeyRename(c, d, b, old, new, value)
    PROVE  /\ IsConfig(d) /\ DOMAIN d.mappings = DOMAIN c.mappings
           /\ \A i \in DOMAIN c.mappings : d.mappings[i].vars = KeyVars(c, i, b, old, new)
<1> USE DEF KeyRename
<1> DEFINE vs == [i \in DOMAIN c.mappings |-> KeyVars(c, i, b, old, new)]
           s == [i \in DOMAIN c.mappings |-> [c.mappings[i] EXCEPT !.vars = vs[i]]]
           kv == With(Without(c.secrets[b].kv, old), new, value)
<1>1. d.mappings = s
  BY DEF KeyVars
<1>2. old \in Name /\ new \in Name
  BY TuiAssumption DEF IsConfig
<1>3. \A i \in DOMAIN c.mappings : vs[i] \subseteq VarType /\ Sound(vs[i])
  BY <1>2, RefsSound
<1> HIDE DEF vs
<1>4. /\ s \in Seq(MappingType) /\ DOMAIN s = DOMAIN c.mappings
      /\ \A i \in DOMAIN s : s[i].vars = vs[i] /\ Sound(s[i].vars)
  BY <1>3, VarsMapped
<1> HIDE DEF s
<1>5. DOMAIN kv \subseteq KeyNames
  <2>1. DOMAIN kv = (DOMAIN c.secrets[b].kv \ {old}) \cup {new}
    BY DEF With, Without
  <2> QED
    BY <2>1 DEF IsConfig
<1>6. IsConfig(d)
  <2>1. /\ DOMAIN d.secrets \subseteq BagNames
        /\ \A x \in DOMAIN d.secrets : /\ "kv" \in DOMAIN d.secrets[x]
                                       /\ DOMAIN d.secrets[x].kv \subseteq KeyNames
    BY <1>5 DEF IsConfig, kv
  <2> QED
    BY <1>1, <1>4, <2>1 DEF IsConfig, Sound
<1> QED
  BY <1>1, <1>4, <1>6 DEF vs, kv

\* The config after the rename of a source.
LEMMA SourceRenamed ==
    ASSUME NEW c, NEW d, NEW old, NEW new, IsConfig(c), SourceRename(c, d, old, new)
    PROVE  /\ IsConfig(d) /\ DOMAIN d.mappings = DOMAIN c.mappings
           /\ \A i \in DOMAIN c.mappings : d.mappings[i].vars = SourceVars(c, i, old, new)
<1> USE DEF SourceRename
<1> DEFINE vs == [i \in DOMAIN c.mappings |-> SourceVars(c, i, old, new)]
           s == [i \in DOMAIN c.mappings |-> [c.mappings[i] EXCEPT !.vars = vs[i]]]
<1>1. d.mappings = s
  BY DEF SourceVars, SourceRefRenamed
<1>2. old \in Name /\ new \in Name /\ old # ""
  <2>1. old \in SourceNames \cup {"local"}
    BY DEF IsConfig
  <2> QED
    BY <2>1, TuiAssumption
<1>3. \A i \in DOMAIN c.mappings : vs[i] \subseteq VarType /\ Sound(vs[i])
  BY <1>2, RefsSound
<1> HIDE DEF vs
<1>4. /\ s \in Seq(MappingType) /\ DOMAIN s = DOMAIN c.mappings
      /\ \A i \in DOMAIN s : s[i].vars = vs[i] /\ Sound(s[i].vars)
  BY <1>3, VarsMapped
<1> HIDE DEF s
<1>5. /\ DOMAIN d.sources \subseteq SourceNames \cup {"local"}
      /\ \A s0 \in DOMAIN d.sources : "arns" \in DOMAIN d.sources[s0] /\ d.sources[s0].arns \subseteq Arns
  <2>1. /\ DOMAIN d.sources = (DOMAIN c.sources \ {old}) \cup {new}
        /\ \A x \in DOMAIN d.sources : d.sources[x] = IF x = new THEN c.sources[old] ELSE c.sources[x]
    BY DEF Renamed, With, Without
  <2> QED
    BY <2>1 DEF IsConfig
<1>6. IsConfig(d)
  BY <1>1, <1>4, <1>5 DEF IsConfig, Sound
<1> QED
  BY <1>1, <1>4, <1>6 DEF vs

\* The rename of a bag changes no injected value.
LEMMA BagRenameKeeps ==
    ASSUME NEW c, NEW d, NEW old, NEW new, IsConfig(c), BagRename(c, d, old, new),
           NEW i \in DOMAIN c.mappings
    PROVE  Injected(c, i) \subseteq Injected(d, i)
<1> SUFFICES ASSUME NEW v \in c.mappings[i].vars, Resolves(c, v)
             PROVE  \E w \in d.mappings[i].vars :
                       Resolves(d, w) /\ w.name = v.name /\ ValuesOf(d, w) = ValuesOf(c, v)
  BY DEF Injected
<1>0. /\ old \in DOMAIN c.secrets /\ new \notin DOMAIN c.secrets
      /\ d.sources = c.sources /\ d.secrets = Renamed(c.secrets, old, new)
  BY DEF BagRename
<1>vs. d.mappings[i].vars = BagVars(c, i, old, new)
  BY BagRenamed
<1> USE <1>0
<1> DEFINE w == BagRefRenamed(c, v, old, new)
<1>1. w \in d.mappings[i].vars
  BY <1>vs DEF BagVars
<1>2. v \in VarType /\ IsLocal(c.sources, v.source) /\ v.ref \in DOMAIN c.secrets
  BY ConfigFacts DEF Resolves
<1>3. /\ w.name = v.name /\ w.source = v.source /\ w.key = v.key
      /\ w.ref = IF v.ref = old THEN new ELSE v.ref
  BY <1>2 DEF BagRefRenamed, VarType
<1> HIDE DEF w
<1>4. w.ref \in DOMAIN d.secrets /\ d.secrets[w.ref] = c.secrets[v.ref]
  BY <1>2, <1>3 DEF Renamed, With, Without
<1>5. Resolves(d, w)
  BY <1>3, <1>4 DEF Resolves
<1>6. ValuesOf(d, w) = ValuesOf(c, v)
  BY <1>3, <1>4 DEF ValuesOf
<1> QED
  BY <1>1, <1>3, <1>5, <1>6

\* The rename of a key that keeps its value changes no injected value.
LEMMA KeyRenameKeeps ==
    ASSUME NEW c, NEW d, NEW b, NEW old, NEW new, IsConfig(c),
           KeyRename(c, d, b, old, new, c.secrets[b].kv[old]), NEW i \in DOMAIN c.mappings
    PROVE  Injected(c, i) \subseteq Injected(d, i)
<1> SUFFICES ASSUME NEW v \in c.mappings[i].vars, Resolves(c, v)
             PROVE  \E w \in d.mappings[i].vars :
                       Resolves(d, w) /\ w.name = v.name /\ ValuesOf(d, w) = ValuesOf(c, v)
  BY DEF Injected
<1>0. /\ b \in DOMAIN c.secrets /\ old \in DOMAIN c.secrets[b].kv
      /\ new \in KeyNames \ DOMAIN c.secrets[b].kv
      /\ d.sources = c.sources /\ DOMAIN d.secrets = DOMAIN c.secrets
      /\ \A x \in DOMAIN c.secrets : d.secrets[x].kv =
            IF x = b THEN With(Without(c.secrets[b].kv, old), new, c.secrets[b].kv[old])
            ELSE c.secrets[x].kv
  BY DEF KeyRename
<1>vs. d.mappings[i].vars = KeyVars(c, i, b, old, new)
  BY KeyRenamed
<1> USE <1>0
<1> DEFINE w == KeyRefRenamed(c, v, b, old, new)
           kv == c.secrets[v.ref].kv
           nv == d.secrets[v.ref].kv
<1>1. w \in d.mappings[i].vars
  BY <1>vs DEF KeyVars
<1>2. /\ v \in VarType /\ IsLocal(c.sources, v.source) /\ v.ref \in DOMAIN c.secrets
      /\ v.key # "" => v.key \in DOMAIN kv
  BY ConfigFacts DEF Resolves
<1>3. /\ w.name = v.name /\ w.source = v.source /\ w.ref = v.ref
      /\ w.key = IF v.ref = b /\ v.key = old THEN new ELSE v.key
  BY <1>2 DEF KeyRefRenamed, VarType
<1> HIDE DEF w
<1>4. /\ old # "" /\ new # ""
  BY TuiAssumption DEF IsConfig
<1>5. CASE v.ref # b
  <2>1. nv = kv
    BY <1>2, <1>5
  <2>2. Resolves(d, w)
    BY <1>2, <1>3, <1>5, <2>1 DEF Resolves
  <2>3. ValuesOf(d, w) = ValuesOf(c, v)
    BY <1>3, <1>5, <2>1 DEF ValuesOf
  <2> QED
    BY <1>1, <1>3, <2>2, <2>3
<1>6. CASE v.ref = b
  <2>1. nv = With(Without(kv, old), new, kv[old])
    BY <1>2, <1>6
  <2>2. /\ DOMAIN nv = (DOMAIN kv \ {old}) \cup {new} /\ nv[new] = kv[old]
        /\ \A k \in DOMAIN kv \ {old} : nv[k] = kv[k]
    <3> HIDE DEF kv, nv
    <3>1. new \notin DOMAIN kv
      BY <1>6 DEF kv
    <3> QED
      BY <2>1, <3>1 DEF With, Without
  <2>3. old \in DOMAIN kv /\ new \notin DOMAIN kv
    BY <1>6
  <2>4. ValuesOf(d, w) = {nv[k] : k \in IF w.key = "" THEN DOMAIN nv ELSE {w.key}}
    BY <1>3 DEF ValuesOf
  <2>5. ValuesOf(c, v) = {kv[k] : k \in IF v.key = "" THEN DOMAIN kv ELSE {v.key}}
    BY DEF ValuesOf
  <2>6. Resolves(d, w)
    <3>1. w.key # "" => w.key \in DOMAIN nv
      <4> HIDE DEF kv, nv
      <4> QED
        BY <1>2, <1>3, <1>6, <2>2
    <3> QED
      BY <1>2, <1>3, <3>1 DEF Resolves
  <2>7. ValuesOf(d, w) = ValuesOf(c, v)
    <3> HIDE DEF kv, nv
    <3>1. CASE v.key = ""
      <4>1. w.key = ""
        BY <1>3, <1>4, <3>1
      <4>2. {nv[k] : k \in DOMAIN nv} = {kv[k] : k \in DOMAIN kv}
        <5>1. ASSUME NEW k \in DOMAIN nv PROVE \E l \in DOMAIN kv : nv[k] = kv[l]
          BY <2>2, <2>3
        <5>2. ASSUME NEW l \in DOMAIN kv PROVE \E k \in DOMAIN nv : nv[k] = kv[l]
          BY <2>2, <2>3
        <5> QED
          BY <5>1, <5>2
      <4> QED
        BY <2>4, <2>5, <3>1, <4>1, <4>2
    <3>2. CASE v.key # ""
      <4>1. w.key # "" /\ nv[w.key] = kv[v.key]
        BY <1>2, <1>3, <1>4, <1>6, <2>2, <3>2
      <4>2. ValuesOf(d, w) = {nv[w.key]}
        <5>1. (IF w.key = "" THEN DOMAIN nv ELSE {w.key}) = {w.key}
          BY <4>1
        <5> QED
          BY <2>4, <5>1
      <4>3. ValuesOf(c, v) = {kv[v.key]}
        <5>1. (IF v.key = "" THEN DOMAIN kv ELSE {v.key}) = {v.key}
          BY <3>2
        <5> QED
          BY <2>5, <5>1
      <4> QED
        BY <4>1, <4>2, <4>3
    <3> QED
      BY <3>1, <3>2
  <2> QED
    BY <1>1, <1>3, <2>6, <2>7
<1> QED
  BY <1>5, <1>6

\* The rename of a source changes no injected value.
LEMMA SourceRenameKeeps ==
    ASSUME NEW c, NEW d, NEW old, NEW new, IsConfig(c), SourceRename(c, d, old, new),
           NEW i \in DOMAIN c.mappings
    PROVE  Injected(c, i) \subseteq Injected(d, i)
<1> SUFFICES ASSUME NEW v \in c.mappings[i].vars, Resolves(c, v)
             PROVE  \E w \in d.mappings[i].vars :
                       Resolves(d, w) /\ w.name = v.name /\ ValuesOf(d, w) = ValuesOf(c, v)
  BY DEF Injected
<1>0. /\ old \in DOMAIN c.sources /\ new \notin DOMAIN c.sources
      /\ d.secrets = c.secrets /\ d.sources = Renamed(c.sources, old, new)
  BY DEF SourceRename
<1>vs. d.mappings[i].vars = SourceVars(c, i, old, new)
  BY SourceRenamed
<1> USE <1>0
<1> DEFINE w == SourceRefRenamed(v, old, new)
<1>1. w \in d.mappings[i].vars
  BY <1>vs DEF SourceVars
<1>2. v \in VarType /\ IsLocal(c.sources, v.source)
  BY ConfigFacts DEF Resolves
<1>3. /\ w.name = v.name /\ w.ref = v.ref /\ w.key = v.key
      /\ w.source = IF v.source = old THEN new ELSE v.source
  BY <1>2 DEF SourceRefRenamed, VarType
<1> HIDE DEF w
<1>4. w.source \in DOMAIN d.sources /\ d.sources[w.source] = c.sources[v.source]
  BY <1>2, <1>3 DEF Renamed, With, Without, IsLocal
<1>5. Resolves(d, w)
  BY <1>2, <1>3, <1>4 DEF Resolves, IsLocal
<1>6. ValuesOf(d, w) = ValuesOf(c, v)
  BY <1>3, <1>4 DEF ValuesOf
<1> QED
  BY <1>1, <1>3, <1>5, <1>6

-----------------------------------------------------------------------------
(* The var tree.                                                            *)

\* What a var of the tree may be: kept, a whole bag, a key.
LEMMA VarsOfFacts ==
    ASSUME NEW t, NEW vs, NEW v \in VarsOf(t, vs)
    PROVE  \/ v \in vs /\ \A row \in DOMAIN t : v.source # row[1]
           \/ \E row \in DOMAIN t : t[row].all /\ v = Ref("", row[1], row[2], "")
           \/ \E row \in DOMAIN t : ~t[row].all /\ \E k \in t[row].sel : v = Ref(k, row[1], row[2], k)
BY DEF VarsOf

\* The vars built from the rows are references that agree with them.
LEMMA TreeVars ==
    ASSUME NEW t, RowsOK(t), NEW vs, vs \subseteq VarType, Sound(vs)
    PROVE  /\ VarsOf(t, vs) \subseteq VarType /\ Sound(VarsOf(t, vs))
           /\ \A row \in DOMAIN t : Agrees(t[row], row, VarsOf(t, vs))
<1>1. /\ \A row \in DOMAIN t : /\ row[1] \in Name /\ row[2] \in Name /\ row[1] # ""
                               /\ t[row].sel \subseteq Name /\ t[row].shown \subseteq Name
                               /\ "" \notin t[row].sel /\ "" \notin t[row].shown
      /\ "" \in Name
  BY TuiAssumption DEF RowsOK, RowType
<1>0. Name \subseteq STRING
  BY DEF Name
<1>2. ASSUME NEW v \in VarsOf(t, vs)
      PROVE  v \in VarType /\ (v.source # "" => v.value = "")
  <2>1. CASE v \in vs
    BY <2>1 DEF Sound
  <2>2. ASSUME NEW row \in DOMAIN t, v = Ref("", row[1], row[2], "")
        PROVE  v \in VarType /\ v.value = ""
    BY <1>0, <1>1, <2>2 DEF Ref, VarType
  <2>3. ASSUME NEW row \in DOMAIN t, NEW k \in t[row].sel, v = Ref(k, row[1], row[2], k)
        PROVE  v \in VarType /\ v.value = ""
    BY <1>0, <1>1, <2>3 DEF Ref, VarType
  <2> QED
    BY <2>1, <2>2, <2>3, VarsOfFacts
<1>3. ASSUME NEW row \in DOMAIN t, NEW v \in VarsOf(t, vs), Selects(v, row)
      PROVE  /\ v.key = "" /\ v.name = "" => t[row].all
             /\ v.key \in t[row].shown /\ ~t[row].all => v.key \in t[row].sel
  <2>1. CASE v \in vs /\ \A r \in DOMAIN t : v.source # r[1]
    BY <1>3, <2>1 DEF Selects
  <2>2. ASSUME NEW r \in DOMAIN t, v.source = r[1], v.ref = r[2]
        PROVE  r = row
    BY <1>3, <2>2 DEF Selects, RowsOK
  <2>3. ASSUME NEW r \in DOMAIN t, t[r].all, v = Ref("", r[1], r[2], "")
        PROVE  t[row].all
    BY <2>2, <2>3 DEF Ref
  <2>4. ASSUME NEW r \in DOMAIN t, ~t[r].all, NEW k \in t[r].sel, v = Ref(k, r[1], r[2], k)
        PROVE  v.key # "" /\ v.key \in t[row].sel
    BY <1>1, <2>2, <2>4 DEF Ref
  <2> QED
    BY <2>1, <2>3, <2>4, VarsOfFacts
<1> QED
  BY <1>2, <1>3 DEF Agrees, Sound

\* A change of one row keeps the vars the tree shows elsewhere.
LEMMA OtherVars ==
    ASSUME NEW t, RowsOK(t), NEW vs, vs \subseteq VarType, Sound(vs),
           \A r \in DOMAIN t : Agrees(t[r], r, vs),
           NEW row \in DOMAIN t, NEW u, DOMAIN u = DOMAIN t, \A r \in DOMAIN t \ {row} : u[r] = t[r],
           NEW v \in vs, ~Selects(v, row),
           \/ \A r \in DOMAIN t : v.source # r[1]
           \/ \E r \in DOMAIN t : /\ Selects(v, r)
                                  /\ \/ v.key = "" /\ v.name = ""
                                     \/ v.key \in t[r].shown /\ v.name = v.key /\ ~t[r].all
    PROVE  v \in VarsOf(u, vs)
<1>1. CASE \A r \in DOMAIN t : v.source # r[1]
  BY <1>1 DEF VarsOf
<1>2. ASSUME NEW r \in DOMAIN t, Selects(v, r),
             \/ v.key = "" /\ v.name = ""
             \/ v.key \in t[r].shown /\ v.name = v.key /\ ~t[r].all
      PROVE  v \in VarsOf(u, vs)
  <2>1. u[r] = t[r]
    BY <1>2
  <2>2. v \in VarType /\ v.source = r[1] /\ v.ref = r[2] /\ v.value = ""
    <3>1. r[1] # ""
      BY TuiAssumption DEF RowsOK
    <3> QED
      BY <1>2, <3>1 DEF Selects, Sound
  <2>3. CASE v.key = "" /\ v.name = ""
    <3>1. u[r].all
      BY <1>2, <2>1, <2>3 DEF Agrees
    <3>2. v = Ref("", r[1], r[2], "")
      BY <2>2, <2>3 DEF Ref, VarType
    <3> QED
      BY <3>1, <3>2 DEF VarsOf
  <2>4. CASE v.key \in t[r].shown /\ v.name = v.key /\ ~t[r].all
    <3>1. v.key \in u[r].sel /\ ~u[r].all
      BY <1>2, <2>1, <2>4 DEF Agrees
    <3>2. v = Ref(v.key, r[1], r[2], v.key)
      BY <2>2, <2>4 DEF Ref, VarType
    <3> DEFINE Keys(x) == {Ref(k, x[1], x[2], k) : k \in u[x].sel}
               open == {x \in DOMAIN u : ~u[x].all}
    <3>3. v \in Keys(r) /\ r \in open
      BY <3>1, <3>2
    <3>4. UNION {Keys(x) : x \in open} \subseteq VarsOf(u, vs)
      BY DEF VarsOf
    <3> HIDE DEF Keys, open
    <3> QED
      BY <3>3, <3>4
  <2> QED
    BY <1>2, <2>3, <2>4
<1> QED
  BY <1>1, <1>2

-----------------------------------------------------------------------------
(* Steps.                                                                   *)

\* A step of the saves or of the loop that leaves the screens alone.
LEMMA Untouched ==
    ASSUME TuiInv, UNCHANGED <<cfg, form, tree, at>>
    PROVE  TuiInv'
BY DEF TuiInv, FormInv, TreeInv, Mapping

\* An edit on a list of bags, sources, mappings or settings.
LEMMA ListEdit ==
    ASSUME TuiInv, at \notin {"form", "tree"}, UNCHANGED <<form, tree, at>>, IsConfig(cfg')
    PROVE  TuiInv'
<1>1. form.idx = 0
  BY DEF TuiInv, FormInv
<1>2. Len(cfg'.mappings) \in Nat
  BY ConfigFacts
<1> QED
  BY <1>1, <1>2 DEF TuiInv, FormInv, TreeInv

\* An edit in the form of a mapping.
LEMMA FormEdit ==
    ASSUME TuiInv, at = "form", at' = at, form' \in FormType, form'.idx = form.idx, IsConfig(cfg'),
           Len(cfg'.mappings) = Len(cfg.mappings)
    PROVE  TuiInv'
BY DEF TuiInv, FormInv, TreeInv

\* A list or the menu is shown.
LEMMA ListShown ==
    ASSUME IsConfig(cfg'), at' \notin {"form", "tree"}, form' = NoForm
    PROVE  TuiInv'
<1>1. Len(cfg'.mappings) \in Nat
  BY ConfigFacts
<1>2. form'.idx = 0 /\ form' \in FormType
  BY DEF NoForm, FormType
<1>3. FormInv'
  BY <1>1, <1>2 DEF FormInv
<1> QED
  BY <1>3 DEF TuiInv, TreeInv

\* A config with other sources and secrets.
LEMMA NewParts ==
    ASSUME NEW c, IsConfig(c), NEW d, DOMAIN d = DOMAIN c, d.mappings = c.mappings,
           DOMAIN d.sources \subseteq SourceNames \cup {"local"},
           \A s \in DOMAIN d.sources : "arns" \in DOMAIN d.sources[s] /\ d.sources[s].arns \subseteq Arns,
           DOMAIN d.secrets \subseteq BagNames,
           \A b \in DOMAIN d.secrets : /\ "kv" \in DOMAIN d.secrets[b]
                                       /\ DOMAIN d.secrets[b].kv \subseteq KeyNames
    PROVE  IsConfig(d)
BY DEF IsConfig

\* Edits of bags keep the config well formed.
LEMMA BagSteps ==
    ASSUME TuiInv, BagEdits
    PROVE  TuiInv'
<1> USE DEF TuiInv, Edited, Stay, screenVars
<1>1. ASSUME NEW b \in BagNames, AddBag(b) PROVE TuiInv'
  <2>1. at = "bags" /\ UNCHANGED <<form, tree, at>>
    BY <1>1 DEF AddBag, On
  <2>2. /\ DOMAIN cfg' = DOMAIN cfg /\ cfg'.mappings = cfg.mappings
        /\ cfg'.secrets = With(cfg.secrets, b, [born |-> born + 1, kv |-> [k \in {} |-> ""]])
        /\ cfg'.sources = WithLocalSource(cfg.sources)
    BY <1>1 DEF AddBag, IsConfig
  <2>3. IsConfig(cfg')
    <3>1. /\ DOMAIN cfg'.secrets \subseteq BagNames
          /\ \A x \in DOMAIN cfg'.secrets : /\ "kv" \in DOMAIN cfg'.secrets[x]
                                            /\ DOMAIN cfg'.secrets[x].kv \subseteq KeyNames
      <4>1. DOMAIN cfg'.secrets = DOMAIN cfg.secrets \cup {b}
        BY <2>2 DEF With
      <4>2. ASSUME NEW x \in DOMAIN cfg'.secrets, x # b
            PROVE  cfg'.secrets[x] = cfg.secrets[x] /\ x \in DOMAIN cfg.secrets
        BY <2>2, <4>1, <4>2 DEF With
      <4>3. cfg'.secrets[b] = [born |-> born + 1, kv |-> [k \in {} |-> ""]]
        BY <2>2 DEF With
      <4>4. "kv" \in DOMAIN cfg'.secrets[b] /\ DOMAIN cfg'.secrets[b].kv \subseteq KeyNames
        BY <4>3
      <4> QED
        BY <4>1, <4>2, <4>4 DEF IsConfig
    <3>2. /\ DOMAIN cfg'.sources \subseteq SourceNames \cup {"local"}
          /\ \A s \in DOMAIN cfg'.sources : /\ "arns" \in DOMAIN cfg'.sources[s]
                                            /\ cfg'.sources[s].arns \subseteq Arns
      <4>1. CASE cfg'.sources = cfg.sources
        BY <4>1 DEF IsConfig
      <4>2. CASE cfg'.sources = With(cfg.sources, "local", [type |-> "local", arns |-> {}, param |-> ""])
        <5>1. DOMAIN cfg'.sources = DOMAIN cfg.sources \cup {"local"}
          BY <4>2 DEF With
        <5>2. ASSUME NEW x \in DOMAIN cfg'.sources, x # "local"
              PROVE  cfg'.sources[x] = cfg.sources[x] /\ x \in DOMAIN cfg.sources
          BY <4>2, <5>1, <5>2 DEF With
        <5>3. cfg'.sources["local"] = [type |-> "local", arns |-> {}, param |-> ""]
          BY <4>2 DEF With
        <5>4. "arns" \in DOMAIN cfg'.sources["local"] /\ cfg'.sources["local"].arns \subseteq Arns
          <6>1. DOMAIN cfg'.sources["local"] = {"type", "arns", "param"}
            BY <5>3
          <6> DEFINE src == [type |-> "local", arns |-> {}, param |-> ""]
          <6>3. src.arns = {}
            OBVIOUS
          <6>2. cfg'.sources["local"].arns = {}
            <7> HIDE DEF src
            <7>1. cfg'.sources["local"] = src
              BY <5>3 DEF src
            <7> QED
              BY <7>1, <6>3
          <6> QED
            BY <6>1, <6>2
        <5> QED
          BY <5>1, <5>2, <5>4 DEF IsConfig
      <4> QED
        BY <2>2, <4>1, <4>2 DEF WithLocalSource
    <3> QED
      BY <2>2, <3>1, <3>2, NewParts
  <2> QED
    BY <2>1, <2>3, ListEdit
<1>2. ASSUME NEW b \in BagNames, DeleteBag(b) PROVE TuiInv'
  <2>1. at = "bags" /\ UNCHANGED <<form, tree, at>>
    BY <1>2 DEF DeleteBag, On
  <2>2. IsConfig(cfg')
    BY <1>2 DEF DeleteBag, IsConfig, Without
  <2> QED
    BY <2>1, <2>2, ListEdit
<1>3. ASSUME NEW b \in BagNames, NEW c \in BagNames, RenameBag(b, c) PROVE TuiInv'
  <2>1. at = "bags" /\ UNCHANGED <<form, tree, at>>
    BY <1>3 DEF RenameBag, On
  <2>2. BagRename(cfg, cfg', b, c)
    BY <1>3 DEF RenameBag, MapVars, IsConfig, BagRename
  <2>3. IsConfig(cfg')
    BY <2>2, BagRenamed
  <2> QED
    BY <2>1, <2>3, ListEdit
<1>4. ASSUME NEW b \in BagNames, NEW k \in KeyNames, NEW v \in NewValues, PutKey(b, k, v) PROVE TuiInv'
  <2>1. at = "bags" /\ UNCHANGED <<form, tree, at>>
    BY <1>4 DEF PutKey, On
  <2>2. IsConfig(cfg')
    BY <1>4 DEF PutKey, IsConfig, With
  <2> QED
    BY <2>1, <2>2, ListEdit
<1>5. ASSUME NEW b \in DOMAIN cfg.secrets, NEW l \in KeyNames, NEW k \in DOMAIN cfg.secrets[b].kv,
             NEW v, RenameKey(b, k, l, v)
      PROVE  TuiInv'
  <2>1. at = "bags" /\ UNCHANGED <<form, tree, at>>
    BY <1>5 DEF RenameKey, On
  <2>2. KeyRename(cfg, cfg', b, k, l, v)
    BY <1>5 DEF RenameKey, MapVars, IsConfig, KeyRename
  <2>3. IsConfig(cfg')
    BY <2>2, KeyRenamed
  <2> QED
    BY <2>1, <2>3, ListEdit
<1>6. ASSUME NEW b \in BagNames, NEW k \in KeyNames, DeleteKey(b, k) PROVE TuiInv'
  <2>1. at = "bags" /\ UNCHANGED <<form, tree, at>>
    BY <1>6 DEF DeleteKey, On
  <2>2. IsConfig(cfg')
    BY <1>6 DEF DeleteKey, IsConfig, Without
  <2> QED
    BY <2>1, <2>2, ListEdit
<1>7. ASSUME NEW b \in BagNames, NEW p \in Pairs, NEW o \in BOOLEAN, BulkImport(b, p, o) PROVE TuiInv'
  <2>1. at = "bags" /\ UNCHANGED <<form, tree, at>>
    BY <1>7 DEF BulkImport, On
  <2>2. IsConfig(cfg')
    BY <1>7 DEF BulkImport, IsConfig, Pairs
  <2> QED
    BY <2>1, <2>2, ListEdit
<1> QED
  BY <1>1, <1>2, <1>3, <1>4, <1>5, <1>6, <1>7 DEF BagEdits

\* Edits of sources keep the config well formed.
LEMMA SourceSteps ==
    ASSUME TuiInv, SourceEdits
    PROVE  TuiInv'
<1> USE DEF TuiInv, Edited, Stay, screenVars
<1>1. ASSUME NEW s \in SourceNames, NEW v \in NewValues, SaveSource(s, v) PROVE TuiInv'
  <2> DEFINE arns == IF s \in DOMAIN cfg.sources THEN cfg.sources[s].arns ELSE {}
             src == [type |-> "aws", param |-> v, arns |-> arns]
  <2>1. at = "sources" /\ UNCHANGED <<form, tree, at>>
    BY <1>1 DEF SaveSource, On
  <2>2. /\ DOMAIN cfg' = DOMAIN cfg /\ cfg'.mappings = cfg.mappings /\ cfg'.secrets = cfg.secrets
        /\ cfg'.sources = With(cfg.sources, s, src)
    BY <1>1 DEF SaveSource, WithParam, IsConfig
  <2>3. arns \subseteq Arns
    BY DEF IsConfig
  <2>4. "arns" \in DOMAIN src /\ src.arns \subseteq Arns
    BY <2>3
  <2> HIDE DEF src
  <2>5. /\ DOMAIN cfg'.sources = DOMAIN cfg.sources \cup {s}
        /\ \A x \in DOMAIN cfg'.sources : cfg'.sources[x] = IF x = s THEN src ELSE cfg.sources[x]
    BY <2>2 DEF With
  <2>6. IsConfig(cfg')
    BY <2>2, <2>4, <2>5 DEF IsConfig
  <2> QED
    BY <2>1, <2>6, ListEdit
<1>2. ASSUME NEW s \in SourceNames, NEW v \in NewValues, OpenARNs(s, v) PROVE TuiInv'
  <2> DEFINE arns == IF s \in DOMAIN cfg.sources THEN cfg.sources[s].arns ELSE {}
             src == [type |-> "aws", param |-> v, arns |-> arns]
  <2>1. at = "sources" /\ UNCHANGED <<form, tree, at>>
    BY <1>2 DEF OpenARNs, On
  <2>2. /\ DOMAIN cfg' = DOMAIN cfg /\ cfg'.mappings = cfg.mappings /\ cfg'.secrets = cfg.secrets
        /\ cfg'.sources = With(cfg.sources, s, src)
    BY <1>2 DEF OpenARNs, WithParam, IsConfig
  <2>3. arns \subseteq Arns
    BY DEF IsConfig
  <2>4. "arns" \in DOMAIN src /\ src.arns \subseteq Arns
    BY <2>3
  <2> HIDE DEF src
  <2>5. /\ DOMAIN cfg'.sources = DOMAIN cfg.sources \cup {s}
        /\ \A x \in DOMAIN cfg'.sources : cfg'.sources[x] = IF x = s THEN src ELSE cfg.sources[x]
    BY <2>2 DEF With
  <2>6. IsConfig(cfg')
    BY <2>2, <2>4, <2>5 DEF IsConfig
  <2> QED
    BY <2>1, <2>6, ListEdit
<1>3. ASSUME NEW s \in SourceNames, NEW t \in SourceNames, RenameSource(s, t) PROVE TuiInv'
  <2>1. at = "sources" /\ UNCHANGED <<form, tree, at>>
    BY <1>3 DEF RenameSource, On
  <2>2. SourceRename(cfg, cfg', s, t)
    BY <1>3 DEF RenameSource, MapVars, IsConfig, SourceRename
  <2>3. IsConfig(cfg')
    BY <2>2, SourceRenamed
  <2> QED
    BY <2>1, <2>3, ListEdit
<1>4. ASSUME NEW s \in SourceNames, DeleteSource(s) PROVE TuiInv'
  <2>1. at = "sources" /\ UNCHANGED <<form, tree, at>>
    BY <1>4 DEF DeleteSource, On
  <2>2. IsConfig(cfg')
    BY <1>4 DEF DeleteSource, IsConfig, Without
  <2> QED
    BY <2>1, <2>2, ListEdit
<1>5. ASSUME NEW s \in SourceNames, NEW a \in Arns, AddARN(s, a) PROVE TuiInv'
  <2>1. at = "sources" /\ UNCHANGED <<form, tree, at>>
    BY <1>5 DEF AddARN, On
  <2>2. IsConfig(cfg')
    BY <1>5 DEF AddARN, IsConfig
  <2> QED
    BY <2>1, <2>2, ListEdit
<1>6. ASSUME NEW s \in SourceNames, NEW a \in Arns, DeleteARN(s, a) PROVE TuiInv'
  <2>1. at = "sources" /\ UNCHANGED <<form, tree, at>>
    BY <1>6 DEF DeleteARN, On
  <2>2. IsConfig(cfg')
    BY <1>6 DEF DeleteARN, IsConfig
  <2> QED
    BY <2>1, <2>2, ListEdit
<1> QED
  BY <1>1, <1>2, <1>3, <1>4, <1>5, <1>6 DEF SourceEdits

\* The mapping the form is open on.
LEMMA OpenMapping ==
    ASSUME TuiInv, at \in {"form", "tree"}
    PROVE  /\ form.idx \in DOMAIN cfg.mappings /\ Mapping \in MappingType /\ Sound(Mapping.vars)
           /\ Mapping.vars \subseteq VarType /\ form \in FormType
<1>1. form \in FormType /\ form.idx # 0 /\ form.idx <= Len(cfg.mappings) /\ form.idx \in Nat
  BY DEF TuiInv, FormInv, FormType
<1>2. /\ Len(cfg.mappings) \in Nat /\ DOMAIN cfg.mappings = 1 .. Len(cfg.mappings)
      /\ \A i \in DOMAIN cfg.mappings :
            /\ cfg.mappings[i] \in MappingType
            /\ \A v \in cfg.mappings[i].vars : v \in VarType /\ (v.source # "" => v.value = "")
  BY ConfigFacts DEF TuiInv
<1>3. form.idx \in DOMAIN cfg.mappings
  <2> DEFINE i == form.idx
             n == Len(cfg.mappings)
  <2>0. i \in Nat /\ n \in Nat /\ i # 0 /\ i <= n
    BY <1>1, <1>2
  <2>1. i \in 1 .. n
    <3> HIDE DEF i, n
    <3> QED
      BY <2>0
  <2> QED
    BY <1>2, <2>1
<1> QED
  BY <1>1, <1>2, <1>3 DEF Mapping, Sound

\* An edit of the kind, the commands or the vars of that mapping.
LEMMA MappingEdited ==
    ASSUME TuiInv, at \in {"form", "tree"}, NEW m \in MappingType, Sound(m.vars),
           cfg' = [cfg EXCEPT !.mappings[form.idx] = m]
    PROVE  IsConfig(cfg') /\ Len(cfg'.mappings) = Len(cfg.mappings) /\ cfg'.mappings[form.idx] = m
<1>1. IsConfig(cfg) /\ form.idx \in DOMAIN cfg.mappings
  BY OpenMapping DEF TuiInv
<1> QED
  BY <1>1, MappingEdit

\* Edits of mappings keep the form on a mapping that exists.
LEMMA MappingSteps ==
    ASSUME TuiInv, MappingEdits
    PROVE  TuiInv'
<1> USE DEF Edited, Stay, screenVars, Enter
<1>c. IsConfig(cfg)
  BY DEF TuiInv
<1>1. CASE NewMapping
  <2> DEFINE s == Append(cfg.mappings, Blank)
  <2>1. /\ at' = "form" /\ form' = [NoForm EXCEPT !.idx = Len(cfg.mappings) + 1, !.creating = TRUE]
        /\ cfg' = [cfg EXCEPT !.mappings = s]
    BY <1>1 DEF NewMapping
  <2>2. Blank \in MappingType /\ Sound(Blank.vars)
    BY DEF Blank, MappingType, Sound
  <2>3. /\ cfg.mappings \in Seq(MappingType) /\ Len(cfg.mappings) \in Nat
        /\ DOMAIN cfg.mappings = 1 .. Len(cfg.mappings)
        /\ \A i \in DOMAIN cfg.mappings : Sound(cfg.mappings[i].vars)
    BY <1>c, ConfigFacts DEF Sound
  <2>4. /\ s \in Seq(MappingType) /\ Len(s) = Len(cfg.mappings) + 1
        /\ \A i \in 1 .. Len(cfg.mappings) : s[i] = cfg.mappings[i]
        /\ s[Len(cfg.mappings) + 1] = Blank
    BY <2>2, <2>3, AppendProperties
  <2> HIDE DEF s
  <2>5. \A i \in DOMAIN s : Sound(s[i].vars)
    <3>1. DOMAIN s = 1 .. Len(cfg.mappings) + 1
      BY <2>4, LenProperties
    <3> QED
      BY <2>2, <2>3, <2>4, <3>1
  <2>6. /\ DOMAIN cfg' = DOMAIN cfg /\ cfg'.sources = cfg.sources /\ cfg'.secrets = cfg.secrets
        /\ cfg'.mappings = s
    BY <1>c, <2>1 DEF IsConfig
  <2>7. IsConfig(cfg')
    BY <1>c, <2>4, <2>5, <2>6, NewMappings
  <2>8. form' \in FormType /\ form'.idx = Len(cfg.mappings) + 1
    <3>1. form' = [idx |-> Len(cfg.mappings) + 1, creating |-> TRUE, pending |-> ""]
      BY <2>1 DEF NoForm
    <3>2. Len(cfg.mappings) + 1 \in Nat
      BY <2>3
    <3> QED
      BY <3>1, <3>2 DEF FormType
  <2>9. FormInv'
    BY <2>1, <2>3, <2>4, <2>6, <2>8 DEF FormInv
  <2> QED
    BY <2>1, <2>7, <2>9 DEF TuiInv, TreeInv
<1>2. ASSUME NEW i, EditMapping(i) PROVE TuiInv'
  <2>1. /\ at' = "form" /\ form' = [NoForm EXCEPT !.idx = i] /\ cfg' = cfg /\ i \in DOMAIN cfg.mappings
    BY <1>2 DEF EditMapping, cfgVars
  <2>2. i \in Nat /\ i # 0 /\ i <= Len(cfg.mappings)
    <3>1. Len(cfg.mappings) \in Nat /\ DOMAIN cfg.mappings = 1 .. Len(cfg.mappings)
      BY <1>c, ConfigFacts
    <3>2. i \in 1 .. Len(cfg.mappings)
      BY <2>1, <3>1
    <3> QED
      BY <3>1, <3>2
  <2>3. form' \in FormType /\ form'.idx = i
    BY <2>1, <2>2 DEF NoForm, FormType
  <2>4. FormInv'
    BY <2>1, <2>2, <2>3 DEF FormInv
  <2> QED
    BY <1>c, <2>1, <2>4 DEF TuiInv, TreeInv
<1>3. ASSUME NEW i, DeleteMapping(i) PROVE TuiInv'
  <2>1. at = "mappings" /\ UNCHANGED <<form, tree, at>>
    BY <1>3 DEF DeleteMapping, On
  <2>2. i \in DOMAIN cfg.mappings /\ cfg' = [cfg EXCEPT !.mappings = RemoveAt(@, i)]
    BY <1>3 DEF DeleteMapping
  <2>3. IsConfig(cfg')
    BY <1>c, <2>2, MappingRemoved
  <2> QED
    BY <2>1, <2>3, ListEdit
<1>4. CASE DiscardMapping
  <2>1. /\ at = "form" /\ at' = "mappings" /\ form' = NoForm
        /\ cfg' = [cfg EXCEPT !.mappings = RemoveAt(@, form.idx)]
    BY <1>4 DEF DiscardMapping, On
  <2>2. IsConfig(cfg')
    BY <1>c, <2>1, OpenMapping, MappingRemoved
  <2> QED
    BY <2>1, <2>2, ListShown
<1>5. CASE LeaveForm
  <2>1. at' = "mappings" /\ form' = NoForm /\ cfg' = cfg
    BY <1>5 DEF LeaveForm, cfgVars
  <2> QED
    BY <1>c, <2>1, ListShown
<1>6. ASSUME at = "form", at' = at, form' \in FormType, form'.idx = form.idx,
             NEW m \in MappingType, m.vars = Mapping.vars,
             cfg' = [cfg EXCEPT !.mappings[form.idx] = m]
      PROVE  TuiInv'
  <2>1. IsConfig(cfg') /\ Len(cfg'.mappings) = Len(cfg.mappings)
    BY <1>6, OpenMapping, MappingEdited
  <2> QED
    BY <1>6, <2>1, FormEdit
<1>7. ASSUME at = "form", Stay, NEW m \in MappingType, m.vars = Mapping.vars,
             cfg' = [cfg EXCEPT !.mappings[form.idx] = m]
      PROVE  TuiInv'
  BY <1>6, <1>7, OpenMapping
<1>8. ASSUME NEW kind \in {"path", "cwd"}, SetKind(kind) PROVE TuiInv'
  <2> DEFINE m == [Mapping EXCEPT !.kind = IF @ = "" THEN "" ELSE kind,
                                  !.cmds = IF kind = "cwd" THEN @ ELSE {}]
  <2>1. at = "form" /\ at' = at /\ form' = [form EXCEPT !.pending = kind]
    BY <1>8 DEF SetKind, On
  <2>2. cfg' = [cfg EXCEPT !.mappings[form.idx] = m]
    <3>1. form.idx \in DOMAIN cfg.mappings /\ DOMAIN cfg = {"sources", "secrets", "mappings", "agent"}
      BY <1>c, <2>1, OpenMapping DEF IsConfig
    <3> QED
      BY <1>8, <3>1 DEF SetKind, Mapping
  <2>3. m \in MappingType /\ m.vars = Mapping.vars
    BY <2>1, OpenMapping DEF MappingType
  <2>4. form' \in FormType /\ form'.idx = form.idx
    BY <2>1, OpenMapping DEF FormType
  <2> HIDE DEF m
  <2> QED
    BY <1>6, <2>1, <2>2, <2>3, <2>4
<1>9. ASSUME NEW empty \in BOOLEAN, SetTarget(empty) PROVE TuiInv'
  <2> DEFINE m == [Mapping EXCEPT !.kind =
                      IF empty THEN "" ELSE IF EffectiveKind = "" THEN "path" ELSE EffectiveKind]
  <2>1. at = "form" /\ Stay
    BY <1>9 DEF SetTarget, On
  <2>2. cfg' = [cfg EXCEPT !.mappings[form.idx] = m]
    BY <1>9 DEF SetTarget, Mapping
  <2>3. EffectiveKind \in {"", "path", "cwd"}
    BY <2>1, OpenMapping DEF EffectiveKind, MappingType, FormType
  <2>4. m \in MappingType /\ m.vars = Mapping.vars
    BY <2>1, <2>3, OpenMapping DEF MappingType
  <2> HIDE DEF m
  <2> QED
    BY <1>7, <2>1, <2>2, <2>4
<1>10. ASSUME NEW cmds \in SUBSET Cmds, AddCommands(cmds) PROVE TuiInv'
  <2> DEFINE m == [Mapping EXCEPT !.cmds = @ \cup cmds]
  <2>1. at = "form" /\ Stay
    BY <1>10 DEF AddCommands, On
  <2>2. cfg' = [cfg EXCEPT !.mappings[form.idx] = m]
    BY <1>10 DEF AddCommands, Mapping
  <2>3. m \in MappingType /\ m.vars = Mapping.vars
    BY <2>1, OpenMapping DEF MappingType
  <2> HIDE DEF m
  <2> QED
    BY <1>7, <2>1, <2>2, <2>3
<1>11. CASE PickFolder
  <2> DEFINE m == [Mapping EXCEPT !.kind = "cwd"]
  <2>1. at = "form" /\ Stay
    BY <1>11 DEF PickFolder, On
  <2>2. cfg' = [cfg EXCEPT !.mappings[form.idx] = m]
    BY <1>11 DEF PickFolder, Mapping
  <2>3. m \in MappingType /\ m.vars = Mapping.vars
    BY <2>1, OpenMapping DEF MappingType
  <2> HIDE DEF m
  <2> QED
    BY <1>7, <2>1, <2>2, <2>3
<1>12. ASSUME NEW cmd \in Cmds, RemoveCommand(cmd) PROVE TuiInv'
  <2> DEFINE m == [Mapping EXCEPT !.cmds = @ \ {cmd}]
  <2>1. at = "form" /\ Stay
    BY <1>12 DEF RemoveCommand, On
  <2>2. cfg' = [cfg EXCEPT !.mappings[form.idx] = m]
    BY <1>12 DEF RemoveCommand, Mapping
  <2>3. m \in MappingType /\ m.vars = Mapping.vars
    BY <2>1, OpenMapping DEF MappingType
  <2> HIDE DEF m
  <2> QED
    BY <1>7, <2>1, <2>2, <2>3
<1> QED
  BY <1>1, <1>2, <1>3, <1>4, <1>5, <1>8, <1>9, <1>10, <1>11, <1>12 DEF MappingEdits

\* The rows of the tree that is opened.
LEMMA RowFacts ==
    ASSUME NEW c, IsConfig(c), NEW row \in Rows(c)
    PROVE  /\ row = <<row[1], row[2]>> /\ row[1] \in SourceNames \cup {"local"} /\ row[2] \in Name
           /\ IsLocal(c.sources, row[1]) => row[2] \in DOMAIN c.secrets
<1> DEFINE locals == {s \in DOMAIN c.sources : c.sources[s].type = "local"}
           local == IF locals = {} THEN {} ELSE {CHOOSE s \in locals : TRUE}
<1>1. local \subseteq locals
  OBVIOUS
<1>2. \/ row \in local \X DOMAIN c.secrets
      \/ \E s \in DOMAIN c.sources \ locals : row \in {s} \X c.sources[s].arns
  BY DEF Rows
<1> HIDE DEF local
<1>3. CASE row \in local \X DOMAIN c.secrets
  <2>1. row = <<row[1], row[2]>> /\ row[1] \in local /\ row[2] \in DOMAIN c.secrets
    BY <1>3
  <2>2. DOMAIN c.secrets \subseteq Name
    BY TuiAssumption DEF IsConfig
  <2> QED
    BY <1>1, <2>1, <2>2 DEF IsConfig
<1>4. ASSUME NEW s \in DOMAIN c.sources \ locals, row \in {s} \X c.sources[s].arns
      PROVE  /\ row = <<row[1], row[2]>> /\ row[1] \in SourceNames \cup {"local"} /\ row[2] \in Name
             /\ ~IsLocal(c.sources, row[1])
  <2>1. row = <<row[1], row[2]>> /\ row[1] = s /\ row[2] \in c.sources[s].arns
    BY <1>4
  <2>2. c.sources[s].arns \subseteq Name
    BY TuiAssumption DEF IsConfig
  <2> QED
    BY <2>1, <2>2 DEF IsConfig, IsLocal
<1> QED
  BY <1>2, <1>3, <1>4

\* A row starts in agreement with the vars, and stays so when it is loaded.
LEMMA RowAgrees ==
    ASSUME NEW vs, NEW row, NEW keys, "" \notin keys, NEW r,
           r.shown = keys, r.sel = KeysIn(vs, row) \cap keys,
           \A v \in vs : Selects(v, row) /\ v.key = "" /\ v.name = "" => r.all
    PROVE  Agrees(r, row, vs)
<1> SUFFICES ASSUME NEW v \in vs, Selects(v, row), v.key \in keys
             PROVE  v.key \in KeysIn(vs, row)
  BY DEF Agrees
<1>1. v.key # ""
  OBVIOUS
<1> QED
  BY <1>1 DEF KeysIn

\* Steps of the var tree.
LEMMA TreeSteps ==
    ASSUME TuiInv, TreeEdits
    PROVE  TuiInv'
<1>c. IsConfig(cfg)
  BY DEF TuiInv
<1>k. "" \notin KeyNames /\ "" \notin RemoteKeys
  BY TuiAssumption
<1>1. CASE OpenTree
  <2>1. /\ at = "form" /\ at' = "tree" /\ UNCHANGED <<cfg, form>>
        /\ tree' = [row \in Rows(cfg) |-> TreeRow(cfg, Mapping.vars, row)]
    BY <1>1 DEF OpenTree, On, Enter, cfgVars
  <2>2. DOMAIN tree' = Rows(cfg)
    BY <2>1
  <2>3. ASSUME NEW row \in Rows(cfg)
        PROVE  tree'[row] \in RowType /\ Agrees(tree'[row], row, Mapping.vars)
    <3> DEFINE here == IsLocal(cfg.sources, row[1])
               keys == IF here THEN DOMAIN cfg.secrets[row[2]].kv ELSE {}
               all == \E v \in Mapping.vars : Selects(v, row) /\ v.key = "" /\ v.name = ""
               sel == KeysIn(Mapping.vars, row) \cap keys
    <3>1. tree'[row] = [all |-> all, shown |-> keys, sel |-> sel, loading |-> ~here]
      BY <2>1 DEF TreeRow
    <3>2. keys \subseteq KeyNames
      <4>1. here => row[2] \in DOMAIN cfg.secrets
        BY <1>c, RowFacts
      <4> QED
        BY <1>c, <4>1 DEF IsConfig
    <3>3. here \in BOOLEAN /\ all \in BOOLEAN /\ sel \subseteq keys
      BY DEF IsLocal
    <3>4. \A v \in Mapping.vars : Selects(v, row) /\ v.key = "" /\ v.name = "" => all
      OBVIOUS
    <3> HIDE DEF here, keys, all
    <3>5. tree'[row] \in RowType
      <4> HIDE DEF sel
      <4> QED
        BY <3>1, <3>2, <3>3 DEF RowType
    <3>6. tree'[row].shown = keys /\ tree'[row].sel = sel /\ tree'[row].all = all
      BY <3>1
    <3>7. Agrees(tree'[row], row, Mapping.vars)
      BY <1>k, <3>2, <3>4, <3>6, RowAgrees
    <3> QED
      BY <3>5, <3>7
  <2>4. RowsOK(tree')
    <3>1. tree' \in [DOMAIN tree' -> RowType]
      BY <2>1, <2>2, <2>3
    <3> QED
      BY <1>c, <2>2, <3>1, RowFacts DEF RowsOK
  <2>5. TreeInv'
    BY <2>1, <2>2, <2>3, <2>4 DEF TreeInv, Mapping
  <2>6. FormInv'
    BY <2>1 DEF TuiInv, FormInv
  <2> QED
    BY <1>c, <2>1, <2>5, <2>6 DEF TuiInv
<1>2. ASSUME NEW ok \in BOOLEAN, BagsLoaded(ok) PROVE TuiInv'
  <2>1. UNCHANGED <<cfg, form, at>>
    BY <1>2 DEF BagsLoaded, cfgVars
  <2>2. CASE tree' = tree
    BY <2>1, <2>2, Untouched
  <2>3. CASE at = "tree" /\ tree' = [row \in DOMAIN tree |-> Loaded(row, ok)]
    <3>1. RowsOK(tree) /\ \A row \in DOMAIN tree : Agrees(tree[row], row, Mapping.vars)
      BY <2>3 DEF TuiInv, TreeInv
    <3>2. DOMAIN tree' = DOMAIN tree
      BY <2>3
    <3>3. ASSUME NEW row \in DOMAIN tree
          PROVE  tree'[row] \in RowType /\ Agrees(tree'[row], row, Mapping.vars)
      <4>1. tree[row] \in RowType
        BY <3>1 DEF RowsOK
      <4>2. CASE tree'[row] = tree[row]
        BY <3>1, <4>1, <4>2
      <4>3. CASE tree[row].loading
        <5> DEFINE keys == IF ok THEN RemoteKeys ELSE {}
                   sel == IF ok THEN KeysIn(Mapping.vars, row) \cap RemoteKeys ELSE {}
        <5>1. tree'[row] = [tree[row] EXCEPT !.loading = FALSE, !.shown = keys, !.sel = sel]
          BY <2>3, <4>3 DEF Loaded
        <5>2. keys \subseteq RemoteKeys /\ sel \subseteq keys /\ sel = KeysIn(Mapping.vars, row) \cap keys
          OBVIOUS
        <5> HIDE DEF keys, sel
        <5>3. /\ tree'[row] \in RowType /\ tree'[row].shown = keys /\ tree'[row].sel = sel
              /\ tree'[row].all = tree[row].all
          BY <4>1, <5>1, <5>2 DEF RowType
        <5>4. \A v \in Mapping.vars : Selects(v, row) /\ v.key = "" /\ v.name = "" => tree'[row].all
          BY <3>1, <5>3 DEF Agrees
        <5> QED
          BY <1>k, <5>2, <5>3, <5>4, RowAgrees
      <4> QED
        BY <2>3, <4>2, <4>3 DEF Loaded
    <3>4. RowsOK(tree')
      <4>1. tree' \in [DOMAIN tree' -> RowType]
        BY <2>3, <3>2, <3>3
      <4> QED
        BY <3>1, <3>2, <4>1 DEF RowsOK
    <3>5. TreeInv'
      BY <2>1, <3>2, <3>3, <3>4 DEF TreeInv, Mapping
    <3> QED
      BY <2>1, <3>5 DEF TuiInv, FormInv
  <2> QED
    BY <1>2, <2>2, <2>3 DEF BagsLoaded, On
<1>3. ASSUME NEW t, Toggled(t), RowsOK(t) PROVE TuiInv'
  <2> DEFINE m == [Mapping EXCEPT !.vars = VarsOf(t, @)]
  <2>1. at = "tree" /\ UNCHANGED <<at, form>> /\ tree' = t
    BY <1>3 DEF Toggled, On
  <2>2. /\ Mapping \in MappingType /\ Sound(Mapping.vars) /\ Mapping.vars \subseteq VarType
        /\ form.idx \in DOMAIN cfg.mappings
    BY <2>1, OpenMapping
  <2>3. cfg' = [cfg EXCEPT !.mappings[form.idx] = m]
    BY <1>3 DEF Toggled, Edited, Mapping
  <2>4. /\ VarsOf(t, Mapping.vars) \subseteq VarType /\ Sound(VarsOf(t, Mapping.vars))
        /\ \A row \in DOMAIN t : Agrees(t[row], row, VarsOf(t, Mapping.vars))
    BY <1>3, <2>2, TreeVars
  <2>5. m \in MappingType /\ m.vars = VarsOf(t, Mapping.vars)
    BY <2>2, <2>4 DEF MappingType
  <2> HIDE DEF m
  <2>6. IsConfig(cfg') /\ Len(cfg'.mappings) = Len(cfg.mappings) /\ cfg'.mappings[form.idx] = m
    BY <2>1, <2>3, <2>4, <2>5, MappingEdited
  <2>7. Mapping'.vars = VarsOf(t, Mapping.vars)
    BY <2>1, <2>5, <2>6 DEF Mapping
  <2>8. TreeInv'
    BY <1>3, <2>1, <2>4, <2>7 DEF TreeInv
  <2>9. FormInv'
    BY <2>1, <2>6 DEF TuiInv, FormInv
  <2> QED
    BY <2>6, <2>8, <2>9 DEF TuiInv
<1>4. ASSUME NEW row \in DOMAIN tree, ToggleBag(row) PROVE TuiInv'
  <2>1. at = "tree" /\ RowsOK(tree)
    BY <1>4 DEF ToggleBag, Toggled, On, TuiInv, TreeInv
  <2>2. PICK t : Toggled(t) /\ t = [tree EXCEPT ![row].all = ~@, ![row].sel = IF tree[row].all THEN @ ELSE {}]
    BY <1>4 DEF ToggleBag
  <2>3. RowsOK(t)
    <3>1. DOMAIN t = DOMAIN tree /\ \A r \in DOMAIN tree \ {row} : t[r] = tree[r]
      BY <2>2
    <3>2. t[row] \in RowType
      <4> DEFINE r == tree[row]
                 s == IF r.all THEN r.sel ELSE {}
      <4>1. r \in RowType
        BY <2>1 DEF RowsOK
      <4>2. t[row] = [r EXCEPT !.all = ~@, !.sel = s]
        BY <2>1, <2>2 DEF RowsOK, RowType
      <4>3. s \in SUBSET (KeyNames \cup RemoteKeys)
        BY <4>1 DEF RowType
      <4> HIDE DEF r, s
      <4> QED
        BY <4>1, <4>2, <4>3 DEF RowType
    <3>3. t \in [DOMAIN t -> RowType]
      BY <2>1, <2>2, <3>1, <3>2 DEF RowsOK
    <3> QED
      BY <2>1, <3>1, <3>3 DEF RowsOK
  <2> QED
    BY <1>3, <2>2, <2>3
<1>5. ASSUME NEW row \in DOMAIN tree, NEW k \in tree[row].shown, ToggleKey(row, k) PROVE TuiInv'
  <2>1. at = "tree" /\ RowsOK(tree)
    BY <1>5 DEF ToggleKey, Toggled, On, TuiInv, TreeInv
  <2>2. PICK t : Toggled(t) /\ t = [tree EXCEPT ![row].sel = IF k \in @ THEN @ \ {k} ELSE @ \cup {k}]
    BY <1>5 DEF ToggleKey
  <2>3. RowsOK(t)
    <3>1. DOMAIN t = DOMAIN tree /\ \A r \in DOMAIN tree \ {row} : t[r] = tree[r]
      BY <2>2
    <3>2. t[row] \in RowType
      BY <2>1, <2>2 DEF RowsOK, RowType
    <3>3. t \in [DOMAIN t -> RowType]
      BY <2>1, <2>2, <3>1, <3>2 DEF RowsOK
    <3> QED
      BY <2>1, <3>1, <3>3 DEF RowsOK
  <2> QED
    BY <1>3, <2>2, <2>3
<1>6. CASE LeaveTree
  <2>1. at = "tree" /\ at' = "form" /\ UNCHANGED <<cfg, form>>
    BY <1>6 DEF LeaveTree, On, cfgVars
  <2> QED
    BY <2>1 DEF TuiInv, FormInv, TreeInv
<1> QED
  BY <1>1, <1>2, <1>4, <1>5, <1>6 DEF TreeEdits

\* Saves leave the config and the screens alone.
LEMMA SaveSteps ==
    ASSUME TuiInv, Saving
    PROVE  TuiInv'
<1> USE DEF cfgVars, screenVars
<1>1. CASE StartSave \/ PromptSave
  <2>1. UNCHANGED <<cfg, form, tree, at>>
    BY <1>1 DEF StartSave, PromptSave, Start, Stay
  <2> QED
    BY <2>1, Untouched
<1>2. CASE MenuSave
  <2>1. UNCHANGED <<cfg, form, tree, at>>
    BY <1>2 DEF MenuSave, Start, Pop
  <2> QED
    BY <2>1, Untouched
<1>3. ASSUME NEW i, Clone(i) \/ Fail(i) \/ WriteOut(i) \/ TakeOver(i) PROVE TuiInv'
  <2>1. UNCHANGED <<cfg, form, tree, at>>
    BY <1>3 DEF Clone, Fail, WriteOut, TakeOver
  <2> QED
    BY <2>1, Untouched
<1>4. CASE MapRace
  <2>1. cfg' = cfg /\ at' = "menu" /\ form' = NoForm
    BY <1>4 DEF MapRace, Gone, Ends
  <2> QED
    BY <2>1, ListShown DEF TuiInv
<1> QED
  BY <1>1, <1>2, <1>3, <1>4 DEF Saving

\* The loop shows and hides screens.
LEMMA LoopSteps ==
    ASSUME TuiInv, Looping
    PROVE  TuiInv'
<1> USE DEF cfgVars, screenVars
<1>1. CASE GetDirty \/ GetSaved \/ CloseModal \/ OpenHelp
  <2>1. UNCHANGED <<cfg, form, tree, at>>
    BY <1>1 DEF GetDirty, GetSaved, CloseModal, OpenHelp, Pop, Push, Shown
  <2> QED
    BY <2>1, Untouched
<1>2. ASSUME NEW how, Ends(how) PROVE TuiInv'
  <2>1. cfg' = cfg /\ at' = "menu" /\ form' = NoForm
    BY <1>2 DEF Ends
  <2> QED
    BY <2>1, ListShown DEF TuiInv
<1>3. ASSUME NEW modal, Push(modal), Shown PROVE TuiInv'
  <2>1. UNCHANGED <<cfg, form, tree, at>>
    BY <1>3 DEF Push, Shown
  <2> QED
    BY <2>1, Untouched
<1>4. CASE CtrlC
  BY <1>2, <1>3, <1>4 DEF CtrlC, QuitClean, Gone
<1>5. CASE MenuQuit
  BY <1>2, <1>3, <1>5 DEF MenuQuit, QuitClean
<1>6. CASE Discard
  BY <1>2, <1>6 DEF Discard, Gone
<1>7. ASSUME NEW m, GetQuit(m) PROVE TuiInv'
  BY <1>2, <1>7 DEF GetQuit
<1>8. ASSUME at \notin {"form", "tree"}, at' \notin {"form", "tree"}, UNCHANGED <<cfg, form>>
      PROVE  TuiInv'
  BY <1>8 DEF TuiInv, FormInv, TreeInv
<1>9. CASE LeaveSection
  <2>1. at \in Sections /\ at' = "menu" /\ UNCHANGED <<cfg, form>>
    BY <1>9 DEF LeaveSection, Shown
  <2> QED
    BY <1>8, <2>1 DEF Sections
<1>10. ASSUME NEW section \in Sections, OpenSection(section) PROVE TuiInv'
  <2>1. at = "menu" /\ at' = section /\ UNCHANGED <<cfg, form>>
    BY <1>10 DEF OpenSection, On, Enter
  <2> QED
    BY <1>8, <2>1 DEF Sections
<1> QED
  BY <1>1, <1>4, <1>5, <1>6, <1>7, <1>9, <1>10 DEF Looping

\* The config in memory is well formed throughout the session; the form is open
\* on a mapping that exists, and the var tree agrees with its vars
\* (createNewMapping, discardEmpty, loadFromMapping, applyAsyncResults, commit).
THEOREM TuiInvariant == Spec => []TuiInv
<1>1. Init => TuiInv
  <2> SUFFICES ASSUME Init PROVE TuiInv
    OBVIOUS
  <2>1. cfg = Started /\ at = "menu" /\ form = NoForm
    BY DEF Init
  <2>2. IsConfig(cfg)
    BY <2>1, TuiAssumption
  <2>3. Len(cfg.mappings) \in Nat
    BY <2>2, ConfigFacts
  <2>4. form.idx = 0 /\ form \in FormType
    BY <2>1 DEF NoForm, FormType
  <2>5. FormInv
    BY <2>1, <2>3, <2>4 DEF FormInv
  <2> QED
    BY <2>1, <2>2, <2>5 DEF TuiInv, TreeInv
<1>2. TuiInv /\ [Next]_vars => TuiInv'
  <2> SUFFICES ASSUME TuiInv, [Next]_vars PROVE TuiInv'
    OBVIOUS
  <2>1. CASE UNCHANGED vars
    BY <2>1, Untouched DEF vars
  <2>2. ASSUME NEW v, SetAgent(v) PROVE TuiInv'
    <3>1. at = "settings" /\ UNCHANGED <<form, tree, at>> /\ cfg' = [cfg EXCEPT !.agent = v]
      BY <2>2 DEF SetAgent, On, Stay, screenVars, Edited
    <3>2. IsConfig(cfg')
      BY <3>1 DEF TuiInv, IsConfig
    <3> QED
      BY <3>1, <3>2, ListEdit
  <2> QED
    BY <2>1, <2>2, BagSteps, SourceSteps, MappingSteps, TreeSteps, SaveSteps, LoopSteps DEF Next
<1> QED
  BY <1>1, <1>2, PTL DEF Spec

-----------------------------------------------------------------------------
(* What renames and toggles keep.                                           *)

\* A rename of a bag, a source, or a key with its value changes no value that
\* a mapping injects (rewriteLocalBagRefs, rewriteSourceRefs,
\* rewriteLocalKeyRefs), whatever the config and however long the session.
THEOREM RenamesKeep == Spec => RenameKeepsValues
<1>1. ASSUME TuiInv, NEW b \in BagNames, NEW c \in BagNames, RenameBag(b, c), NEW i \in DOMAIN cfg.mappings
      PROVE  Injected(cfg, i) \subseteq Injected(cfg', i)
  <2>1. IsConfig(cfg)
    BY <1>1 DEF TuiInv
  <2>2. BagRename(cfg, cfg', b, c)
    BY <1>1, <2>1 DEF RenameBag, Edited, MapVars, IsConfig, BagRename
  <2> QED
    BY <2>1, <2>2, BagRenameKeeps
<1>2. ASSUME TuiInv, NEW s \in SourceNames, NEW t \in SourceNames, RenameSource(s, t),
             NEW i \in DOMAIN cfg.mappings
      PROVE  Injected(cfg, i) \subseteq Injected(cfg', i)
  <2>1. IsConfig(cfg)
    BY <1>2 DEF TuiInv
  <2>2. SourceRename(cfg, cfg', s, t)
    BY <1>2, <2>1 DEF RenameSource, Edited, MapVars, IsConfig, SourceRename
  <2> QED
    BY <2>1, <2>2, SourceRenameKeeps
<1>3. ASSUME TuiInv, NEW b \in DOMAIN cfg.secrets, NEW k \in DOMAIN cfg.secrets[b].kv, NEW l \in KeyNames,
             RenameKey(b, k, l, cfg.secrets[b].kv[k]), NEW i \in DOMAIN cfg.mappings
      PROVE  Injected(cfg, i) \subseteq Injected(cfg', i)
  <2>1. IsConfig(cfg)
    BY <1>3 DEF TuiInv
  <2>2. KeyRename(cfg, cfg', b, k, l, cfg.secrets[b].kv[k])
    BY <1>3, <2>1 DEF RenameKey, Edited, MapVars, IsConfig, KeyRename
  <2> QED
    BY <2>1, <2>2, KeyRenameKeeps
<1> DEFINE Keeps ==
      /\ edits' # edits
      /\ \/ \E b, c \in BagNames : RenameBag(b, c)
         \/ \E s, t \in SourceNames : RenameSource(s, t)
         \/ \E b \in BagNames, k, l \in KeyNames :
               /\ b \in DOMAIN cfg.secrets /\ k \in DOMAIN cfg.secrets[b].kv
               /\ RenameKey(b, k, l, cfg.secrets[b].kv[k])
      => \A i \in DOMAIN cfg.mappings : Injected(cfg, i) \subseteq Injected(cfg', i)
<1>4. TuiInv /\ [Next]_vars => [Keeps]_vars
  BY <1>1, <1>2, <1>3
<1> QED
  BY <1>4, TuiInvariant, PTL DEF Spec, RenameKeepsValues

\* A toggle in the var tree changes the vars of its own row only, of those the
\* tree can show (commit), whatever the sources, bags and vars.
THEOREM TogglesKeep == Spec => ToggleKeepsOthers
<1>1. ASSUME TuiInv, NEW row \in DOMAIN tree, NEW t, Toggled(t), DOMAIN t = DOMAIN tree,
             \A r \in DOMAIN tree \ {row} : t[r] = tree[r],
             NEW v \in Mapping.vars, Shows(v), ~Selects(v, row)
      PROVE  v \in cfg'.mappings[form.idx].vars
  <2>1. at = "tree"
    BY <1>1 DEF Toggled, On
  <2>2. RowsOK(tree) /\ \A r \in DOMAIN tree : Agrees(tree[r], r, Mapping.vars)
    BY <1>1, <2>1 DEF TuiInv, TreeInv
  <2>3. /\ Mapping.vars \subseteq VarType /\ Sound(Mapping.vars) /\ Mapping \in MappingType
        /\ form.idx \in DOMAIN cfg.mappings
    BY <1>1, <2>1, OpenMapping
  <2>4. v \in VarsOf(t, Mapping.vars)
    BY <1>1, <2>2, <2>3, OtherVars DEF Shows
  <2>5. cfg'.mappings[form.idx].vars = VarsOf(t, Mapping.vars)
    BY <1>1, <2>3 DEF Toggled, Edited, Mapping, TuiInv, IsConfig, MappingType
  <2> QED
    BY <2>4, <2>5
<1>2. ASSUME TuiInv, NEW row \in DOMAIN tree,
             ToggleBag(row) \/ (\E k \in tree[row].shown : ToggleKey(row, k)),
             NEW v \in Mapping.vars, Shows(v), ~Selects(v, row)
      PROVE  v \in cfg'.mappings[form.idx].vars
  <2>1. CASE ToggleBag(row)
    <3> DEFINE t == [tree EXCEPT ![row].all = ~@, ![row].sel = IF tree[row].all THEN @ ELSE {}]
    <3>1. Toggled(t)
      BY <2>1 DEF ToggleBag
    <3>2. DOMAIN t = DOMAIN tree /\ \A r \in DOMAIN tree \ {row} : t[r] = tree[r]
      OBVIOUS
    <3> HIDE DEF t
    <3> QED
      BY <1>1, <1>2, <3>1, <3>2
  <2>2. ASSUME NEW k \in tree[row].shown, ToggleKey(row, k)
        PROVE  v \in cfg'.mappings[form.idx].vars
    <3> DEFINE t == [tree EXCEPT ![row].sel = IF k \in @ THEN @ \ {k} ELSE @ \cup {k}]
    <3>1. Toggled(t)
      BY <2>2 DEF ToggleKey
    <3>2. DOMAIN t = DOMAIN tree /\ \A r \in DOMAIN tree \ {row} : t[r] = tree[r]
      OBVIOUS
    <3> HIDE DEF t
    <3> QED
      BY <1>1, <1>2, <3>1, <3>2
  <2> QED
    BY <1>2, <2>1, <2>2
<1> DEFINE Keeps ==
      edits' # edits =>
         \A row \in DOMAIN tree :
            ToggleBag(row) \/ (\E k \in tree[row].shown : ToggleKey(row, k))
            => \A v \in Mapping.vars :
                  Shows(v) /\ ~Selects(v, row) => v \in cfg'.mappings[form.idx].vars
<1>3. TuiInv /\ [Next]_vars => [Keeps]_vars
  BY <1>2
<1> QED
  BY <1>3, TuiInvariant, PTL DEF Spec, ToggleKeepsOthers
=============================================================================
