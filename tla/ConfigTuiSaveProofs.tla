------------------------ MODULE ConfigTuiSaveProofs ------------------------
(***************************************************************************)
(* What the saves of the editor keep, for every config, every set of names  *)
(* and every length of a session: the file decodes to the config that was   *)
(* cloned, a session that ends without asking has its edits in it, and a    *)
(* bag keeps its id.  First the dictionaries and the shape of the config,   *)
(* then what is known of edits that are not in the file yet, then the ids.  *)
(***************************************************************************)
EXTENDS ConfigTuiProofs, ConfigCodecProofs

-----------------------------------------------------------------------------
(* The invariants.                                                          *)

\* A dictionary of the first n ids.
IsDict(d, n) == d = [id \in DOMAIN d |-> d[id]] /\ DOMAIN d \subseteq Used(n)

SaveKinds == {"save", "quit", "menu"}

\* A save, in each of its phases.
IsSave(s, n) ==
    /\ s = [kind |-> s.kind, phase |-> s.phase, snap |-> s.snap, old |-> s.old, new |-> s.new]
    /\ s.kind \in SaveKinds
    /\ s.phase \in {"clone", "write", "take"}
    /\ \A d \in s.old : IsDict(d, n)
    /\ s.phase = "clone" => s.old = {}
    /\ s.phase = "write" => IsConfig(s.snap) /\ IsShaped(s.snap)
    /\ s.phase = "take" => IsDict(s.new, n)

\* The config, the dictionaries and the saves in flight.
DictInv ==
    /\ IsShaped(cfg)
    /\ minted \in Nat /\ minted <= Len(Ids)
    /\ IsDict(idmap, minted)
    /\ saves \in Seq(Range(saves))
    /\ \A i \in DOMAIN saves : IsSave(saves[i], minted)

\* The mapping that is being created is the last one.
CreateInv == Running => (form.creating => form.idx # 0 /\ form.idx = Len(cfg.mappings))

\* A mapping whose target was cleared, or a new one that was edited, and that
\* cannot be saved.
Incomplete(m) == m.kind = "" \/ m.vars = {} \/ (m.kind = "cwd" /\ m.cmds = {})
Cleared == \E i \in DOMAIN cfg.mappings : cfg.mappings[i].kind = "" /\ ~(form.creating /\ i = form.idx)
Draft == Cleared \/ (form.creating /\ Mapping # Blank /\ Incomplete(Mapping))

\* The file has what the config has.
Synced == written = Kept(cfg)
Told == dirty \/ "dirty" \in msgs

\* A save has reported that it was done.
Reports == "saved" \in msgs \/ "saved_quit" \in msgs \/ ("menu_quit" \in msgs /\ ~failed)

\* What is known of edits that are not in the file.
SyncFacts ==
    /\ silent \/ Told \/ Synced
    /\ \A i \in DOMAIN saves : /\ saves[i].phase = "write" => saves[i].snap = Kept(cfg)
                               /\ saves[i].phase = "take" => Synced
    /\ Reports => Synced
    /\ Draft => Told /\ ~Reports /\ \A i \in DOMAIN saves : saves[i].phase = "clone"

SyncInv == Running /\ ~overlap => SyncFacts

\* How the session ended.
EndInv ==
    /\ ~overlap /\ ~silent /\ ~failed /\ "dirty" \notin msgs
    /\ quit \in {"clean", "saved_quit", "menu_quit"}
    => Synced

\* The ids of a bag in a dictionary, and those it was saved under.
IdsIn(d, b) == {id \in DOMAIN d : d[id] = Bag(b)}
SavedAs(n) == IF n \in DOMAIN idOf THEN idOf[n] ELSE {}

\* The dictionary knows a bag by the id it was saved under, and a bag that was
\* not saved not at all.
Fits(d) == \A b \in DOMAIN cfg.secrets : IdsIn(d, b) = SavedAs(cfg.secrets[b].born)

\* The dictionary that the next save starts from.
Taken == \E i \in DOMAIN saves : saves[i].phase = "take"

BornInv ==
    /\ born \in Nat /\ BornInOrder(cfg, born)
    /\ DOMAIN idOf \subseteq 1 .. born
    /\ \A i \in DOMAIN saves : saves[i].phase = "write" =>
          \A b \in DOMAIN saves[i].snap.secrets : saves[i].snap.secrets[b].born \in 1 .. born

SingleInv ==
    ~twice => Len(saves) <= 1 /\ \A i \in DOMAIN saves : saves[i].old = {}

\* What is known of the ids: each bag was saved under one, which is its own.
FitFacts ==
    /\ \A n \in DOMAIN idOf : \E id \in Used(minted) : idOf[n] = {id}
    /\ \A n, m \in DOMAIN idOf : n # m => idOf[n] \cap idOf[m] = {}
    /\ \A i \in DOMAIN saves : saves[i].phase = "write" => saves[i].snap.secrets = cfg.secrets
    /\ Running => /\ ~Taken => Fits(idmap)
                  /\ \A i \in DOMAIN saves : saves[i].phase = "take" => Fits(saves[i].new)

FitInv == ~overlap /\ ~twice /\ ~reused => FitFacts

-----------------------------------------------------------------------------
(* The shape of the config.                                                 *)

IsMap(f) == f = [x \in DOMAIN f |-> f[x]]

\* Bags as IsShaped has them.
AreBags(s) ==
    /\ IsMap(s)
    /\ \A b \in DOMAIN s : s[b] = [born |-> s[b].born, kv |-> s[b].kv] /\ IsMap(s[b].kv)

\* Sources as IsShaped has them.
AreSources(s) ==
    /\ IsMap(s)
    /\ \A x \in DOMAIN s : s[x] = [type |-> s[x].type, arns |-> s[x].arns, param |-> s[x].param]

\* A config made of the parts of another one and new ones.
LEMMA ShapedParts ==
    ASSUME NEW c, IsShaped(c)
    PROVE  /\ AreSources(c.sources) /\ AreBags(c.secrets)
           /\ \A m : IsShaped([c EXCEPT !.mappings = m]) /\ [c EXCEPT !.mappings = m].secrets = c.secrets
           /\ \A a : IsShaped([c EXCEPT !.agent = a]) /\ [c EXCEPT !.agent = a].secrets = c.secrets
           /\ \A s : AreSources(s) => IsShaped([c EXCEPT !.sources = s]) /\ [c EXCEPT !.sources = s].secrets = c.secrets
           /\ \A s : AreBags(s) => IsShaped([c EXCEPT !.secrets = s]) /\ [c EXCEPT !.secrets = s].secrets = s
<1>0. DOMAIN c = {"sources", "secrets", "mappings", "agent"}
  BY DEF IsShaped
<1>1. AreSources(c.sources) /\ AreBags(c.secrets)
  BY DEF IsShaped, IsMap, AreSources, AreBags
<1>2. ASSUME NEW d, d = [x \in DOMAIN c |-> d[x]], AreSources(d.sources), AreBags(d.secrets)
      PROVE  IsShaped(d)
  <2>1. d = [sources |-> d.sources, secrets |-> d.secrets, mappings |-> d.mappings, agent |-> d.agent]
    BY <1>0, <1>2
  <2> QED
    BY <1>2, <2>1 DEF IsShaped, IsMap, AreSources, AreBags
<1>3. ASSUME NEW m PROVE IsShaped([c EXCEPT !.mappings = m]) /\ [c EXCEPT !.mappings = m].secrets = c.secrets
  <2> DEFINE d == [c EXCEPT !.mappings = m]
  <2>1. d = [x \in DOMAIN c |-> d[x]] /\ d.sources = c.sources /\ d.secrets = c.secrets
    BY <1>0
  <2> HIDE DEF d
  <2>2. IsShaped(d)
    BY <1>1, <1>2, <2>1
  <2> QED
    BY <2>1, <2>2 DEF d
<1>4. ASSUME NEW a PROVE IsShaped([c EXCEPT !.agent = a]) /\ [c EXCEPT !.agent = a].secrets = c.secrets
  <2> DEFINE d == [c EXCEPT !.agent = a]
  <2>1. d = [x \in DOMAIN c |-> d[x]] /\ d.sources = c.sources /\ d.secrets = c.secrets
    BY <1>0
  <2> HIDE DEF d
  <2>2. IsShaped(d)
    BY <1>1, <1>2, <2>1
  <2> QED
    BY <2>1, <2>2 DEF d
<1>5. ASSUME NEW s, AreSources(s) PROVE IsShaped([c EXCEPT !.sources = s]) /\ [c EXCEPT !.sources = s].secrets = c.secrets
  <2> DEFINE d == [c EXCEPT !.sources = s]
  <2>1. d = [x \in DOMAIN c |-> d[x]] /\ d.sources = s /\ d.secrets = c.secrets
    BY <1>0
  <2> HIDE DEF d
  <2>2. IsShaped(d)
    BY <1>1, <1>2, <1>5, <2>1
  <2> QED
    BY <2>1, <2>2 DEF d
<1>6. ASSUME NEW s, AreBags(s) PROVE IsShaped([c EXCEPT !.secrets = s]) /\ [c EXCEPT !.secrets = s].secrets = s
  <2> DEFINE d == [c EXCEPT !.secrets = s]
  <2>1. d = [x \in DOMAIN c |-> d[x]] /\ d.sources = c.sources /\ d.secrets = s
    BY <1>0
  <2> HIDE DEF d
  <2>2. IsShaped(d)
    BY <1>1, <1>2, <1>6, <2>1
  <2> QED
    BY <2>1, <2>2 DEF d
<1> QED
  BY <1>1, <1>3, <1>4, <1>5, <1>6

\* With, Without and Renamed make maps.
LEMMA MapFacts ==
    ASSUME NEW f, NEW x, NEW y
    PROVE  IsMap(With(f, x, y)) /\ IsMap(Without(f, x)) /\ IsMap(Renamed(f, x, y))
BY DEF IsMap, With, Without, Renamed

\* Bags after an edit.
LEMMA BagsEdited ==
    ASSUME NEW s, AreBags(s), NEW b
    PROVE  /\ AreBags(Without(s, b))
           /\ \A c : b \in DOMAIN s => AreBags(Renamed(s, b, c))
           /\ \A n, f : IsMap(f) => AreBags(With(s, b, [born |-> n, kv |-> f]))
           /\ \A f : b \in DOMAIN s /\ IsMap(f) => AreBags([s EXCEPT ![b].kv = f])
<1>1. AreBags(Without(s, b))
  BY MapFacts DEF AreBags, Without
<1>2. ASSUME NEW c, b \in DOMAIN s PROVE AreBags(Renamed(s, b, c))
  <2> DEFINE r == Renamed(s, b, c)
  <2>1. IsMap(r)
    BY MapFacts
  <2>2. \A x \in DOMAIN r : (x = c /\ r[x] = s[b]) \/ (x \in DOMAIN s /\ r[x] = s[x])
    BY DEF Renamed, With, Without
  <2> HIDE DEF r
  <2>3. AreBags(r)
    BY <1>2, <2>1, <2>2 DEF AreBags
  <2> QED
    BY <2>3 DEF r
<1>3. ASSUME NEW n, NEW f, IsMap(f) PROVE AreBags(With(s, b, [born |-> n, kv |-> f]))
  <2> DEFINE bag == [born |-> n, kv |-> f]
             r == With(s, b, bag)
  <2>1. IsMap(r)
    BY MapFacts
  <2>2. bag = [born |-> bag.born, kv |-> bag.kv] /\ bag.kv = f
    OBVIOUS
  <2> HIDE DEF bag
  <2>3. \A x \in DOMAIN r : (x = b /\ r[x] = bag) \/ (x \in DOMAIN s /\ r[x] = s[x])
    BY DEF With
  <2> HIDE DEF r
  <2>4. AreBags(r)
    BY <1>3, <2>1, <2>2, <2>3 DEF AreBags
  <2> QED
    BY <2>4 DEF r, bag
<1>4. ASSUME NEW f, b \in DOMAIN s, IsMap(f) PROVE AreBags([s EXCEPT ![b].kv = f])
  <2> DEFINE r == [s EXCEPT ![b].kv = f]
             bag == [s[b] EXCEPT !.kv = f]
  <2>1. s = [x \in DOMAIN s |-> s[x]] /\ s[b] = [born |-> s[b].born, kv |-> s[b].kv]
    BY <1>4 DEF AreBags, IsMap
  <2>2. bag = [born |-> s[b].born, kv |-> f]
    BY <2>1
  <2>3. bag = [born |-> bag.born, kv |-> bag.kv] /\ bag.kv = f
    BY <2>2
  <2>4. IsMap(r) /\ DOMAIN r = DOMAIN s /\ \A x \in DOMAIN r : r[x] = IF x = b THEN bag ELSE s[x]
    BY <2>1, <1>4 DEF IsMap
  <2> HIDE DEF r, bag
  <2>5. AreBags(r)
    BY <1>4, <2>3, <2>4 DEF AreBags
  <2> QED
    BY <2>5 DEF r
<1> QED
  BY <1>1, <1>2, <1>3, <1>4

\* Sources after an edit.
LEMMA SourcesEdited ==
    ASSUME NEW s, AreSources(s), NEW x
    PROVE  /\ AreSources(Without(s, x))
           /\ \A y : x \in DOMAIN s => AreSources(Renamed(s, x, y))
           /\ \A t, a, p : AreSources(With(s, x, [type |-> t, arns |-> a, param |-> p]))
           /\ \A a : x \in DOMAIN s => AreSources([s EXCEPT ![x].arns = a])
<1>1. AreSources(Without(s, x))
  BY MapFacts DEF AreSources, Without
<1>2. ASSUME NEW y, x \in DOMAIN s PROVE AreSources(Renamed(s, x, y))
  <2> DEFINE r == Renamed(s, x, y)
  <2>1. IsMap(r)
    BY MapFacts
  <2>2. \A z \in DOMAIN r : (z = y /\ r[z] = s[x]) \/ (z \in DOMAIN s /\ r[z] = s[z])
    BY DEF Renamed, With, Without
  <2> HIDE DEF r
  <2>3. AreSources(r)
    BY <1>2, <2>1, <2>2 DEF AreSources
  <2> QED
    BY <2>3 DEF r
<1>3. ASSUME NEW t, NEW a, NEW p PROVE AreSources(With(s, x, [type |-> t, arns |-> a, param |-> p]))
  <2> DEFINE src == [type |-> t, arns |-> a, param |-> p]
             r == With(s, x, src)
  <2>1. IsMap(r)
    BY MapFacts
  <2>2. src = [type |-> src.type, arns |-> src.arns, param |-> src.param]
    OBVIOUS
  <2> HIDE DEF src
  <2>3. \A z \in DOMAIN r : (z = x /\ r[z] = src) \/ (z \in DOMAIN s /\ r[z] = s[z])
    BY DEF With
  <2> HIDE DEF r
  <2>4. AreSources(r)
    BY <2>1, <2>2, <2>3 DEF AreSources
  <2> QED
    BY <2>4 DEF r, src
<1>4. ASSUME NEW a, x \in DOMAIN s PROVE AreSources([s EXCEPT ![x].arns = a])
  <2> DEFINE r == [s EXCEPT ![x].arns = a]
             src == [s[x] EXCEPT !.arns = a]
  <2>1. s = [z \in DOMAIN s |-> s[z]] /\ s[x] = [type |-> s[x].type, arns |-> s[x].arns, param |-> s[x].param]
    BY <1>4 DEF AreSources, IsMap
  <2>2. src = [type |-> s[x].type, arns |-> a, param |-> s[x].param]
    BY <2>1
  <2>3. src = [type |-> src.type, arns |-> src.arns, param |-> src.param]
    BY <2>2
  <2>4. IsMap(r) /\ DOMAIN r = DOMAIN s /\ \A z \in DOMAIN r : r[z] = IF z = x THEN src ELSE s[z]
    BY <2>1, <1>4 DEF IsMap
  <2> HIDE DEF r, src
  <2>5. AreSources(r)
    BY <1>4, <2>3, <2>4 DEF AreSources
  <2> QED
    BY <2>5 DEF r
<1> QED
  BY <1>1, <1>2, <1>3, <1>4

\* Renames in a dictionary: of a source or a key they leave the bags alone.
LEMMA RenamedDict ==
    ASSUME NEW d, NEW old, NEW new
    PROVE  LET r == DictRenamed(d, old, new) IN
           /\ IsMap(r) /\ DOMAIN r = DOMAIN d
           /\ \A b : (\A x : Bag(x) # old /\ Bag(x) # new) => IdsIn(r, b) = IdsIn(d, b)
BY DEF DictRenamed, IsMap, IdsIn

-----------------------------------------------------------------------------
(* Steps.                                                                   *)

DictKept == IsMap(idmap') /\ DOMAIN idmap' = DOMAIN idmap

SameBags ==
    /\ DOMAIN cfg'.secrets = DOMAIN cfg.secrets
    /\ \A b \in DOMAIN cfg.secrets : cfg'.secrets[b].born = cfg.secrets[b].born
    /\ \A b \in DOMAIN cfg.secrets : IdsIn(idmap', b) = IdsIn(idmap, b)
    /\ UNCHANGED <<born, reused>>

\* What an edit does to the bags and to the dictionary.
BagChange ==
    \/ SameBags
    \/ \E b \in BagNames : AddBag(b) \/ DeleteBag(b) \/ \E c \in BagNames : RenameBag(b, c)

\* Edits of bags.
LEMMA BagShapes ==
    ASSUME IsShaped(cfg), IsMap(idmap), BagEdits
    PROVE  IsShaped(cfg') /\ DictKept /\ BagChange
<1> USE DEF Edited
<1>0. AreBags(cfg.secrets) /\ AreSources(cfg.sources)
  BY ShapedParts
<1>1. ASSUME NEW b \in BagNames, AddBag(b) PROVE IsShaped(cfg') /\ DictKept
  <2> DEFINE bag == [born |-> born + 1, kv |-> [k \in {} |-> ""]]
             c == [cfg EXCEPT !.secrets = With(cfg.secrets, b, bag)]
  <2>1. IsMap([k \in {} |-> ""])
    BY DEF IsMap
  <2>2. AreBags(With(cfg.secrets, b, bag))
    BY <1>0, <2>1, BagsEdited
  <2> HIDE DEF bag
  <2>3. IsShaped(c)
    BY <2>2, ShapedParts
  <2>4. AreSources(WithLocalSource(cfg.sources))
    BY <1>0, SourcesEdited DEF WithLocalSource
  <2>5. cfg' = [c EXCEPT !.sources = WithLocalSource(cfg.sources)]
    BY <1>1 DEF AddBag, IsShaped, bag
  <2> HIDE DEF c
  <2>6. IsShaped(cfg')
    BY <2>3, <2>4, <2>5, ShapedParts
  <2> QED
    BY <1>1, <2>6 DEF AddBag, DictKept
<1>2. ASSUME NEW b \in BagNames, DeleteBag(b) PROVE IsShaped(cfg') /\ DictKept
  <2>1. AreBags(Without(cfg.secrets, b))
    BY <1>0, BagsEdited
  <2>2. cfg' = [cfg EXCEPT !.secrets = Without(cfg.secrets, b)] /\ idmap' = idmap
    BY <1>2 DEF DeleteBag, Same
  <2> QED
    BY <2>1, <2>2, ShapedParts DEF DictKept
<1>3. ASSUME NEW b \in BagNames, NEW c \in BagNames, RenameBag(b, c) PROVE IsShaped(cfg') /\ DictKept
  <2> DEFINE d == [cfg EXCEPT !.secrets = Renamed(cfg.secrets, b, c)]
  <2>1. AreBags(Renamed(cfg.secrets, b, c))
    BY <1>0, <1>3, BagsEdited DEF RenameBag
  <2>2. IsShaped(d)
    BY <2>1, ShapedParts
  <2>3. \E m : cfg' = [d EXCEPT !.mappings = m]
    BY <1>3 DEF RenameBag, MapVars
  <2>4. IsShaped(cfg')
    <3> HIDE DEF d
    <3> QED
      BY <2>2, <2>3, ShapedParts
  <2>5. idmap' = DictRenamed(idmap, Bag(b), Bag(c))
    BY <1>3 DEF RenameBag
  <2> QED
    BY <2>4, <2>5, RenamedDict DEF DictKept
<1>4. ASSUME NEW b \in DOMAIN cfg.secrets, NEW f, IsMap(f), NEW d, d = [cfg EXCEPT !.secrets[b].kv = f]
      PROVE  /\ IsShaped(d) /\ DOMAIN d.secrets = DOMAIN cfg.secrets
             /\ \A x \in DOMAIN cfg.secrets : d.secrets[x].born = cfg.secrets[x].born
  <2> DEFINE s == [cfg.secrets EXCEPT ![b].kv = f]
  <2>1. d = [cfg EXCEPT !.secrets = s]
    BY <1>4
  <2>2. AreBags(s)
    BY <1>0, <1>4, BagsEdited
  <2>3. \A x \in DOMAIN cfg.secrets : cfg.secrets[x] = [born |-> cfg.secrets[x].born, kv |-> cfg.secrets[x].kv]
    BY <1>0 DEF AreBags
  <2>4. DOMAIN s = DOMAIN cfg.secrets /\ \A x \in DOMAIN cfg.secrets : s[x].born = cfg.secrets[x].born
    BY <2>3
  <2> HIDE DEF s
  <2>5. IsShaped(d) /\ d.secrets = s
    BY <2>1, <2>2, ShapedParts
  <2> QED
    BY <2>4, <2>5
<1>5. ASSUME NEW b \in BagNames, NEW k \in KeyNames, NEW v \in NewValues, PutKey(b, k, v)
      PROVE  IsShaped(cfg') /\ DictKept /\ SameBags
  <2>1. b \in DOMAIN cfg.secrets /\ cfg' = [cfg EXCEPT !.secrets[b].kv = With(cfg.secrets[b].kv, k, v)] /\ UNCHANGED <<idmap, born, reused>>
    BY <1>5 DEF PutKey
  <2>2. IsMap(With(cfg.secrets[b].kv, k, v))
    BY MapFacts
  <2> QED
    BY <1>4, <2>1, <2>2 DEF DictKept, SameBags
<1>6. ASSUME NEW b \in BagNames, NEW k \in KeyNames, DeleteKey(b, k)
      PROVE  IsShaped(cfg') /\ DictKept /\ SameBags
  <2>1. b \in DOMAIN cfg.secrets /\ cfg' = [cfg EXCEPT !.secrets[b].kv = Without(cfg.secrets[b].kv, k)] /\ UNCHANGED <<idmap, born, reused>>
    BY <1>6 DEF DeleteKey, Same
  <2>2. IsMap(Without(cfg.secrets[b].kv, k))
    BY MapFacts
  <2> QED
    BY <1>4, <2>1, <2>2 DEF DictKept, SameBags
<1>7. ASSUME NEW b \in BagNames, NEW p \in Pairs, NEW o \in BOOLEAN, BulkImport(b, p, o)
      PROVE  IsShaped(cfg') /\ DictKept /\ SameBags
  <2> DEFINE kv == cfg.secrets[b].kv
             f == [k \in DOMAIN kv \cup DOMAIN p |->
                     IF k \in DOMAIN p /\ (o \/ k \notin DOMAIN kv) THEN p[k] ELSE kv[k]]
  <2>1. b \in DOMAIN cfg.secrets /\ cfg' = [cfg EXCEPT !.secrets[b].kv = f] /\ UNCHANGED <<idmap, born, reused>>
    BY <1>7 DEF BulkImport, Same
  <2>2. IsMap(f)
    BY DEF IsMap
  <2> HIDE DEF f
  <2> QED
    BY <1>4, <2>1, <2>2 DEF DictKept, SameBags
<1>8. ASSUME NEW b \in DOMAIN cfg.secrets, NEW l \in KeyNames, NEW k \in DOMAIN cfg.secrets[b].kv,
             NEW v, RenameKey(b, k, l, v)
      PROVE  IsShaped(cfg') /\ DictKept /\ SameBags
  <2> DEFINE f == With(Without(cfg.secrets[b].kv, k), l, v)
             d == [cfg EXCEPT !.secrets[b].kv = f]
  <2>1. IsMap(f)
    BY MapFacts
  <2> HIDE DEF f
  <2>2. /\ IsShaped(d) /\ DOMAIN d.secrets = DOMAIN cfg.secrets
        /\ \A x \in DOMAIN cfg.secrets : d.secrets[x].born = cfg.secrets[x].born
    BY <1>4, <2>1
  <2>3. \E m : cfg' = [d EXCEPT !.mappings = m]
    BY <1>8 DEF RenameKey, MapVars, f
  <2> HIDE DEF d
  <2>4. IsShaped(cfg') /\ cfg'.secrets = d.secrets
    BY <2>2, <2>3, ShapedParts
  <2>5. idmap' = idmap \/ \E id : idmap' = DictRenamed(idmap, Key(id, k), Key(id, l))
    BY <1>8 DEF RenameKey, DictKeyRenamed
  <2>6. \A x, id, y : Bag(x) # Key(id, y)
    BY DEF Bag, Key
  <2>7. DictKept /\ \A x : IdsIn(idmap', x) = IdsIn(idmap, x)
    BY <2>5, <2>6, RenamedDict DEF DictKept
  <2> QED
    BY <1>8, <2>2, <2>4, <2>7 DEF SameBags, RenameKey
<1>9. ASSUME \E b \in BagNames : AddBag(b) \/ DeleteBag(b) \/ \E c \in BagNames : RenameBag(b, c)
      PROVE  IsShaped(cfg') /\ DictKept /\ BagChange
  BY <1>1, <1>2, <1>3, <1>9 DEF BagChange
<1> QED
  BY <1>5, <1>6, <1>7, <1>8, <1>9 DEF BagEdits, BagChange

\* Edits of sources.
LEMMA SourceShapes ==
    ASSUME IsShaped(cfg), IsMap(idmap), SourceEdits
    PROVE  IsShaped(cfg') /\ DictKept /\ SameBags
<1> USE DEF Edited
<1>0. AreSources(cfg.sources)
  BY ShapedParts
<1>1. ASSUME NEW f, AreSources(f), cfg' = [cfg EXCEPT !.sources = f], UNCHANGED <<idmap, born, reused>>
      PROVE  IsShaped(cfg') /\ DictKept /\ SameBags
  BY <1>1, ShapedParts DEF DictKept, SameBags
<1>2. ASSUME NEW s \in SourceNames, NEW v \in NewValues, SaveSource(s, v) \/ OpenARNs(s, v)
      PROVE  IsShaped(cfg') /\ DictKept /\ SameBags
  <2>1. cfg' = [cfg EXCEPT !.sources = WithParam(cfg.sources, s, v)] /\ UNCHANGED <<idmap, born, reused>>
    BY <1>2 DEF SaveSource, OpenARNs, Same
  <2>2. AreSources(WithParam(cfg.sources, s, v))
    BY <1>0, SourcesEdited DEF WithParam
  <2> QED
    BY <1>1, <2>1, <2>2
<1>3. ASSUME NEW s \in SourceNames, NEW t \in SourceNames, RenameSource(s, t)
      PROVE  IsShaped(cfg') /\ DictKept /\ SameBags
  <2> DEFINE d == [cfg EXCEPT !.sources = Renamed(cfg.sources, s, t)]
  <2>1. IsShaped(d) /\ d.secrets = cfg.secrets
    <3>1. AreSources(Renamed(cfg.sources, s, t))
      BY <1>0, <1>3, SourcesEdited DEF RenameSource
    <3> QED
      BY <3>1, ShapedParts
  <2>2. \E m : cfg' = [d EXCEPT !.mappings = m]
    BY <1>3 DEF RenameSource, MapVars
  <2> HIDE DEF d
  <2>3. IsShaped(cfg') /\ cfg'.secrets = cfg.secrets
    BY <2>1, <2>2, ShapedParts
  <2>4. idmap' = DictRenamed(idmap, Src(s), Src(t))
    BY <1>3 DEF RenameSource
  <2>5. \A x, y : Bag(x) # Src(y)
    BY DEF Bag, Src
  <2>6. DictKept /\ \A b : IdsIn(idmap', b) = IdsIn(idmap, b)
    BY <2>4, <2>5, RenamedDict DEF DictKept
  <2> QED
    BY <1>3, <2>3, <2>6 DEF SameBags, RenameSource
<1>4. ASSUME NEW s \in SourceNames, DeleteSource(s) PROVE IsShaped(cfg') /\ DictKept /\ SameBags
  <2>1. cfg' = [cfg EXCEPT !.sources = Without(cfg.sources, s)] /\ UNCHANGED <<idmap, born, reused>>
    BY <1>4 DEF DeleteSource, Same
  <2> QED
    BY <1>0, <1>1, <2>1, SourcesEdited
<1>5. ASSUME NEW s \in SourceNames, NEW a \in Arns, AddARN(s, a) \/ DeleteARN(s, a)
      PROVE  IsShaped(cfg') /\ DictKept /\ SameBags
  <2>1. PICK A : cfg' = [cfg EXCEPT !.sources[s].arns = A] /\ UNCHANGED <<idmap, born, reused>>
    BY <1>5 DEF AddARN, DeleteARN, Same
  <2> DEFINE f == [cfg.sources EXCEPT ![s].arns = A]
  <2>2. cfg' = [cfg EXCEPT !.sources = f] /\ UNCHANGED <<idmap, born, reused>>
    BY <2>1
  <2>3. s \in DOMAIN cfg.sources
    BY <1>5, <2>1 DEF AddARN, DeleteARN, On
  <2>4. AreSources(f)
    BY <1>0, <2>3, SourcesEdited
  <2> HIDE DEF f
  <2> QED
    BY <1>1, <2>2, <2>4
<1> QED
  BY <1>2, <1>3, <1>4, <1>5 DEF SourceEdits

\* Edits of mappings, in the form or the tree, and of the agent's settings.
LEMMA OtherShapes ==
    ASSUME IsShaped(cfg), IsMap(idmap),
           MappingEdits \/ TreeEdits \/ (\E v \in NewValues : SetAgent(v))
    PROVE  IsShaped(cfg') /\ DictKept /\ SameBags /\ cfg'.secrets = cfg.secrets /\ idmap' = idmap
<1> USE DEF Edited, Same
<1>1. ASSUME NEW m, cfg' = [cfg EXCEPT !.mappings = m] \/ cfg' = [cfg EXCEPT !.agent = m] \/ cfg' = cfg,
             UNCHANGED <<idmap, born, reused>>
      PROVE  IsShaped(cfg') /\ DictKept /\ SameBags /\ cfg'.secrets = cfg.secrets /\ idmap' = idmap
  <2>1. CASE cfg' = [cfg EXCEPT !.mappings = m]
    BY <1>1, <2>1, ShapedParts DEF DictKept, SameBags
  <2>2. CASE cfg' = [cfg EXCEPT !.agent = m]
    BY <1>1, <2>2, ShapedParts DEF DictKept, SameBags
  <2>3. CASE cfg' = cfg
    BY <1>1, <2>3 DEF DictKept, SameBags
  <2> QED
    BY <1>1, <2>1, <2>2, <2>3
<1>2. CASE MappingEdits
  <2>1. UNCHANGED <<idmap, born, reused>>
    BY <1>2 DEF MappingEdits, NewMapping, DiscardMapping, LeaveForm, SetTarget, PickFolder, EditMapping,
                DeleteMapping, SetKind, AddCommands, RemoveCommand, cfgVars, editVars
  <2>2. \E m : cfg' = [cfg EXCEPT !.mappings = m] \/ cfg' = cfg
    <3>1. ASSUME NewMapping \/ DiscardMapping \/ LeaveForm \/ \E i : EditMapping(i) \/ DeleteMapping(i)
          PROVE  \E m : cfg' = [cfg EXCEPT !.mappings = m] \/ cfg' = cfg
      BY <3>1 DEF NewMapping, DiscardMapping, LeaveForm, EditMapping, DeleteMapping, cfgVars
    <3>2. ASSUME (\E e : SetTarget(e)) \/ PickFolder \/ (\E c : AddCommands(c) \/ RemoveCommand(c))
          PROVE  \E m : cfg' = [cfg EXCEPT !.mappings = m] \/ cfg' = cfg
      BY <3>2 DEF SetTarget, PickFolder, AddCommands, RemoveCommand
    <3>3. ASSUME NEW kind, SetKind(kind)
          PROVE  \E m : cfg' = [cfg EXCEPT !.mappings = m] \/ cfg' = cfg
      <4> DEFINE m == [cfg.mappings EXCEPT ![form.idx].kind = IF @ = "" THEN "" ELSE kind,
                                           ![form.idx].cmds = IF kind = "cwd" THEN @ ELSE {}]
      <4>1. "mappings" \in DOMAIN cfg
        BY DEF IsShaped
      <4>2. cfg' = [cfg EXCEPT !.mappings = m]
        BY <3>3, <4>1 DEF SetKind
      <4> QED
        BY <4>2
    <3> QED
      BY <1>2, <3>1, <3>2, <3>3 DEF MappingEdits
  <2> QED
    BY <1>1, <2>1, <2>2
<1>3. CASE TreeEdits
  <2>1. ASSUME NEW t, Toggled(t) PROVE UNCHANGED <<idmap, born, reused>> /\ \E m : cfg' = [cfg EXCEPT !.mappings = m]
    BY <2>1 DEF Toggled
  <2>2. ASSUME \E row \in DOMAIN tree : ToggleBag(row) \/ \E k \in tree[row].shown : ToggleKey(row, k)
        PROVE  \E t : Toggled(t)
    BY <2>2 DEF ToggleBag, ToggleKey
  <2>3. ASSUME OpenTree \/ LeaveTree \/ \E ok \in BOOLEAN : BagsLoaded(ok)
        PROVE  UNCHANGED <<cfg, idmap, born, reused>>
    BY <2>3 DEF OpenTree, LeaveTree, BagsLoaded, cfgVars, editVars
  <2> QED
    BY <1>1, <1>3, <2>1, <2>2, <2>3 DEF TreeEdits
<1>4. ASSUME NEW v, SetAgent(v) PROVE cfg' = [cfg EXCEPT !.agent = v] /\ UNCHANGED <<idmap, born, reused>>
  BY <1>4 DEF SetAgent
<1> QED
  BY <1>1, <1>2, <1>3, <1>4

\* The steps that may change the config.
CfgStep == BagEdits \/ SourceEdits \/ MappingEdits \/ TreeEdits \/ \E v \in NewValues : SetAgent(v)

\* An edit, one that is not reported, and a step that changes screens only.
EditFrame ==
    /\ Running
    /\ msgs' = msgs \cup {"dirty"}
    /\ overlap' = (overlap \/ Busy)
    /\ UNCHANGED <<saveVars, loopVars, silent>>

ArnFrame ==
    /\ Running /\ at = "sources"
    /\ \E sources : cfg' = [cfg EXCEPT !.sources = sources]
    /\ overlap' = (overlap \/ Busy)
    /\ silent' = TRUE
    /\ UNCHANGED <<saveVars, loopVars, msgs, form>>

StillFrame ==
    /\ UNCHANGED <<cfgVars, saveVars, loopVars, editVars, msgs>>
    /\ form' = form \/ LeaveForm \/ \E i : EditMapping(i)

\* The end of the session.
EndFrame ==
    /\ Running
    /\ \/ Gone("crashed") \/ Gone("discarded")
       \/ ~dirty /\ QuitClean
       \/ \E m \in QuitMsgs : GetQuit(m)

\* Edits keep the shape of the config and the ids in the dictionary.
LEMMA EditShapes ==
    ASSUME IsShaped(cfg), IsMap(idmap), CfgStep
    PROVE  IsShaped(cfg') /\ DictKept /\ BagChange
BY BagShapes, SourceShapes, OtherShapes DEF CfgStep, BagChange

\* What edits leave alone.
LEMMA EditFrames ==
    ASSUME CfgStep
    PROVE  EditFrame \/ ArnFrame \/ NewMapping \/ DiscardMapping \/ StillFrame
<1>1. CASE BagEdits
  <2>1. ASSUME NEW b, NEW c, AddBag(b) \/ DeleteBag(b) \/ RenameBag(b, c) PROVE EditFrame
    BY <2>1 DEF AddBag, DeleteBag, RenameBag, Edited, EditFrame, On
  <2>2. ASSUME NEW b, NEW k, NEW v, PutKey(b, k, v) \/ DeleteKey(b, k) \/ BulkImport(b, k, v) PROVE EditFrame
    BY <2>2 DEF PutKey, DeleteKey, BulkImport, Edited, EditFrame, On
  <2>3. ASSUME NEW b, NEW k, NEW l, NEW v, RenameKey(b, k, l, v) PROVE EditFrame
    BY <2>3 DEF RenameKey, Edited, EditFrame, On
  <2> QED
    BY <1>1, <2>1, <2>2, <2>3 DEF BagEdits
<1>2. CASE SourceEdits
  <2>1. ASSUME NEW s, NEW v, OpenARNs(s, v) PROVE ArnFrame
    BY <2>1 DEF OpenARNs, ArnFrame, On, Stay, screenVars
  <2>2. ASSUME NEW s, NEW v, SaveSource(s, v) \/ RenameSource(s, v) \/ DeleteSource(s) \/ AddARN(s, v) \/ DeleteARN(s, v)
        PROVE  EditFrame
    BY <2>2 DEF SaveSource, RenameSource, DeleteSource, AddARN, DeleteARN, Edited, EditFrame, On
  <2> QED
    BY <1>2, <2>1, <2>2 DEF SourceEdits
<1>3. CASE MappingEdits
  <2>1. ASSUME NEW i, EditMapping(i) \/ LeaveForm PROVE StillFrame
    <3>1. UNCHANGED <<cfgVars, saveVars, loopVars, editVars, msgs>>
      BY <2>1 DEF EditMapping, LeaveForm
    <3> QED
      BY <2>1, <3>1 DEF StillFrame
  <2>2. ASSUME NEW x, SetTarget(x) \/ PickFolder \/ DeleteMapping(x) \/ SetKind(x) \/ AddCommands(x) \/ RemoveCommand(x)
        PROVE  EditFrame
    BY <2>2 DEF SetTarget, PickFolder, DeleteMapping, SetKind, AddCommands, RemoveCommand, Edited, EditFrame, On
  <2> QED
    BY <1>3, <2>1, <2>2 DEF MappingEdits
<1>4. CASE TreeEdits
  <2>1. ASSUME NEW x, OpenTree \/ LeaveTree \/ BagsLoaded(x) PROVE StillFrame
    BY <2>1 DEF OpenTree, LeaveTree, BagsLoaded, StillFrame
  <2>2. ASSUME NEW x, NEW k, ToggleBag(x) \/ ToggleKey(x, k) PROVE EditFrame
    BY <2>2 DEF ToggleBag, ToggleKey, Toggled, Edited, EditFrame, On
  <2> QED
    BY <1>4, <2>1, <2>2 DEF TreeEdits
<1>5. ASSUME NEW v, SetAgent(v) PROVE EditFrame
  BY <1>5 DEF SetAgent, Edited, EditFrame, On
<1> QED
  BY <1>1, <1>2, <1>3, <1>4, <1>5 DEF CfgStep

\* What the loop does beside edits.
LEMMA LoopFrames ==
    ASSUME Looping \/ MapRace
    PROVE  StillFrame \/ GetDirty \/ GetSaved \/ EndFrame
<1>1. ASSUME NEW modal, Push(modal), Shown PROVE StillFrame
  BY <1>1 DEF Push, Shown, StillFrame
<1>2. CASE CtrlC \/ MenuQuit
  BY <1>1, <1>2 DEF CtrlC, MenuQuit, EndFrame, On
<1>3. CASE OpenHelp
  BY <1>1, <1>3 DEF OpenHelp
<1>4. CASE CloseModal \/ LeaveSection \/ \E section \in Sections : OpenSection(section)
  BY <1>4 DEF CloseModal, LeaveSection, OpenSection, Pop, Shown, StillFrame
<1>5. CASE Discard \/ MapRace \/ \E m \in QuitMsgs : GetQuit(m)
  BY <1>5 DEF Discard, MapRace, GetQuit, EndFrame
<1> QED
  BY <1>2, <1>3, <1>4, <1>5 DEF Looping

\* How a save starts.
LEMMA StartFrames ==
    ASSUME StartSave \/ PromptSave \/ MenuSave
    PROVE  \E kind \in SaveKinds : Start(kind) /\ Running /\ form' = form
BY DEF StartSave, PromptSave, MenuSave, Stay, Pop, screenVars, SaveKinds

\* The steps of a session.
LEMMA Steps ==
    ASSUME [Next]_vars
    PROVE  \/ StillFrame
           \/ CfgStep
           \/ \E kind \in SaveKinds : Start(kind) /\ Running /\ form' = form
           \/ \E i \in DOMAIN saves : Clone(i) \/ Fail(i) \/ WriteOut(i) \/ TakeOver(i)
           \/ GetDirty \/ GetSaved \/ EndFrame
<1>1. CASE UNCHANGED vars
  BY <1>1 DEF vars, StillFrame, cfgVars, saveVars, loopVars, editVars
<1>2. CASE CfgStep
  BY <1>2
<1>3. CASE Saving
  BY <1>3, StartFrames, LoopFrames DEF Saving
<1>4. CASE Looping
  BY <1>4, LoopFrames
<1> QED
  BY <1>1, <1>2, <1>3, <1>4 DEF Next, CfgStep

-----------------------------------------------------------------------------
(* The sequence of saves.                                                   *)

\* A sequence after one element was added, replaced or removed.
LEMMA SeqFacts ==
    ASSUME NEW s, s \in Seq(Range(s))
    PROVE  /\ Len(s) \in Nat /\ DOMAIN s = 1 .. Len(s)
           /\ \A t : t = [j \in DOMAIN s |-> t[j]] => t \in Seq(Range(t)) /\ Len(t) = Len(s) /\ DOMAIN t = DOMAIN s
<1>1. Len(s) \in Nat /\ DOMAIN s = 1 .. Len(s)
  BY LenProperties
<1>2. ASSUME NEW t, t = [j \in DOMAIN s |-> t[j]]
      PROVE  t \in Seq(Range(t)) /\ Len(t) = Len(s) /\ DOMAIN t = DOMAIN s
  <2>1. DOMAIN t = 1 .. Len(s)
    BY <1>1, <1>2
  <2>2. t \in [1 .. Len(s) -> Range(t)]
    BY <1>1, <1>2, <2>1 DEF Range
  <2>3. t \in Seq(Range(t))
    BY <1>1, <2>2
  <2> QED
    BY <1>1, <2>1, <2>3, LenProperties
<1> QED
  BY <1>1, <1>2

\* What a list of saves in flight holds after one was added.
LEMMA SeqAdded ==
    ASSUME NEW s, s \in Seq(Range(s)), NEW e
    PROVE  LET t == Append(s, e) IN
           /\ t \in Seq(Range(t)) /\ Len(t) = Len(s) + 1
           /\ \A j \in DOMAIN t : (j \in DOMAIN s /\ t[j] = s[j]) \/ t[j] = e
<1> DEFINE t == Append(s, e)
           S == Range(s) \cup {e}
<1>1. Len(s) \in Nat /\ DOMAIN s = 1 .. Len(s)
  BY SeqFacts
<1>2. \A j \in 1 .. Len(s) : s[j] \in S
  BY <1>1 DEF Range
<1>3. s \in Seq(S)
  BY <1>1, <1>2
<1>4. /\ t \in Seq(S) /\ Len(t) = Len(s) + 1
      /\ \A j \in 1 .. Len(s) : t[j] = s[j]
      /\ t[Len(s) + 1] = e
  BY <1>1, <1>3, AppendProperties
<1> HIDE DEF t
<1>5. DOMAIN t = 1 .. Len(s) + 1 /\ t \in [1 .. Len(s) + 1 -> S]
  BY <1>1, <1>4, LenProperties
<1>6. t \in [1 .. Len(s) + 1 -> Range(t)]
  BY <1>5 DEF Range
<1>7. t \in Seq(Range(t))
  BY <1>1, <1>6
<1>8. \A j \in DOMAIN t : (j \in DOMAIN s /\ t[j] = s[j]) \/ t[j] = e
  BY <1>1, <1>4, <1>5
<1> QED
  BY <1>4, <1>7, <1>8 DEF t

\* What a list of mappings, or of saves, holds after one was removed.
LEMMA SeqRemoved ==
    ASSUME NEW s, s \in Seq(Range(s)), NEW i \in DOMAIN s
    PROVE  LET t == RemoveAt(s, i) IN
           /\ t \in Seq(Range(t)) /\ Len(t) = Len(s) - 1 /\ Len(s) \in Nat /\ DOMAIN t = 1 .. Len(s) - 1
           /\ \A j \in DOMAIN t : \E k \in DOMAIN s \ {i} : t[j] = s[k]
<1> DEFINE t == RemoveAt(s, i)
<1>1. Len(s) \in Nat /\ DOMAIN s = 1 .. Len(s)
  BY SeqFacts
<1>2. /\ t \in Seq(Range(s)) /\ Len(t) = Len(s) - 1
      /\ \A k \in 1 .. Len(s) - 1 : t[k] = IF k < i THEN s[k] ELSE s[k + 1]
  BY <1>1, RemoveAtFacts
<1> HIDE DEF t
<1>3. DOMAIN t = 1 .. Len(s) - 1 /\ t \in [1 .. Len(s) - 1 -> Range(s)]
  BY <1>1, <1>2, LenProperties
<1>4. t \in [1 .. Len(s) - 1 -> Range(t)]
  BY <1>3 DEF Range
<1>5. t \in Seq(Range(t))
  <2>1. Len(s) - 1 \in Nat
    BY <1>1, <1>2, <1>3, LenProperties
  <2> QED
    BY <1>4, <2>1
<1>6. ASSUME NEW j \in DOMAIN t PROVE \E k \in DOMAIN s \ {i} : t[j] = s[k]
  <2>1. j \in 1 .. Len(s) - 1 /\ i \in 1 .. Len(s)
    BY <1>1, <1>3
  <2>2. CASE j < i
    BY <1>1, <1>2, <2>1, <2>2
  <2>3. CASE ~(j < i)
    <3>1. j + 1 \in DOMAIN s \ {i}
      BY <1>1, <2>1, <2>3
    <3> QED
      BY <1>2, <2>1, <2>3, <3>1
  <2> QED
    BY <2>2, <2>3
<1> QED
  BY <1>1, <1>2, <1>3, <1>5, <1>6 DEF t

\* Ids stay minted.
LEMMA UsedGrows ==
    ASSUME NEW n \in Nat, NEW m \in Nat, n <= m
    PROVE  /\ Used(n) \subseteq Used(m)
           /\ \A d : IsDict(d, n) => IsDict(d, m)
           /\ \A s : IsSave(s, n) => IsSave(s, m)
<1>1. Used(n) \subseteq Used(m)
  <2>1. 1 .. n \subseteq 1 .. m
    OBVIOUS
  <2> QED
    BY <2>1 DEF Used
<1>2. \A d : IsDict(d, n) => IsDict(d, m)
  BY <1>1 DEF IsDict
<1>3. \A s : IsSave(s, n) => IsSave(s, m)
  BY <1>2 DEF IsSave
<1> QED
  BY <1>1, <1>2, <1>3

\* A file that holds the config c: it opens unless a value of c looks like an
\* envelope, and then decodes to c.
IsCode(f, c) == (Loads(f) <=> ~HoldsEnvelope(c)) /\ (Loads(f) => Decode(f) = c)

\* What a save writes, and the dictionary it hands over.
LEMMA Written ==
    ASSUME NEW c, IsConfig(c), IsShaped(c), NEW n \in Nat, NEW d, IsDict(d, n), NEW inv \in NamesToIDs(d),
           NEW ids, NEW m, Takes(c, inv, n, ids, m)
    PROVE  /\ m \in Nat /\ n <= m /\ GoodIds(c, ids) /\ Range(ids) \subseteq Used(m)
           /\ \A x \in DOMAIN ids \cap DOMAIN inv : ids[x] = inv[x]
           /\ \A x \in DOMAIN ids \ DOMAIN inv : ids[x] \notin Used(n)
           /\ IsDict(DictOf(ids), m)
           /\ \A carried, sl : IsCode(EncodeWith(c, ids, carried, sl), c)
<1>1. Finite(c)
  <2>1. IsFiniteSet(SourceNames \cup {"local"}) /\ IsFiniteSet(BagNames) /\ IsFiniteSet(KeyNames)
    BY TuiAssumption, FS_AddElement
  <2> QED
    BY <2>1, FS_Subset DEF Finite, IsConfig
<1>2. WellFormed(c)
  <2>1. c.mappings = [i \in DOMAIN c.mappings |-> c.mappings[i]]
    <3>1. c.mappings \in Seq(MappingType)
      BY ConfigFacts
    <3>2. c.mappings \in [1 .. Len(c.mappings) -> MappingType]
      BY <3>1, LenProperties
    <3> QED
      BY <3>2
  <2>2. ASSUME NEW i \in DOMAIN c.mappings
        PROVE  /\ c.mappings[i] = [kind |-> c.mappings[i].kind, cmds |-> c.mappings[i].cmds, vars |-> c.mappings[i].vars]
               /\ c.mappings[i].vars \subseteq VarType
    <3>1. c.mappings[i] \in MappingType
      BY ConfigFacts
    <3> QED
      BY <3>1 DEF MappingType
  <2> QED
    BY <2>1, <2>2 DEF WellFormed, IsShaped
<1>3. /\ DOMAIN inv = Range(d) /\ IsInjective(inv) /\ Range(inv) \subseteq Used(n)
  <2>1. DOMAIN inv = Range(d) /\ IsInjective(inv) /\ \A x \in DOMAIN inv : inv[x] \in DOMAIN d
    BY InverseFacts
  <2>2. Range(inv) \subseteq DOMAIN d
    BY <2>1 DEF Range
  <2> QED
    BY <2>1, <2>2 DEF IsDict
<1>4. /\ m \in Nat /\ n <= m /\ GoodIds(c, ids) /\ Range(ids) \subseteq Used(m)
      /\ \A x \in DOMAIN ids \cap DOMAIN inv : ids[x] = inv[x]
      /\ \A x \in DOMAIN ids \ DOMAIN inv : ids[x] \notin Used(n)
  BY <1>1, <1>3, AllIDsFacts
<1>5. IsDict(DictOf(ids), m)
  <2>1. DOMAIN DictOf(ids) = Range(ids)
    BY DEF DictOf
  <2>2. DictOf(ids) = [id \in DOMAIN DictOf(ids) |-> DictOf(ids)[id]]
    <3> DEFINE pick(id) == CHOOSE x \in DOMAIN ids : ids[x] = id
    <3>1. DictOf(ids) = [id \in Range(ids) |-> pick(id)]
      BY DEF DictOf
    <3> HIDE DEF pick
    <3> QED
      BY <3>1
  <2> QED
    BY <1>4, <2>1, <2>2 DEF IsDict
<1>6. \A carried, sl : IsCode(EncodeWith(c, ids, carried, sl), c)
  BY <1>2, <1>4, DecodeEncode DEF IsCode
<1> QED
  BY <1>4, <1>5, <1>6

-----------------------------------------------------------------------------
(* The file decodes to what was cloned.                                     *)

\* A save writes its clone, with the ids it takes from inv.
WriteBy(i, inv, ids) ==
    LET snap == saves[i].snap
        bags == DOMAIN snap.secrets
    IN  /\ saves[i].phase = "write"
        /\ inv \in NamesToIDs(DictShared(saves[i]))
        /\ Takes(snap, inv, minted, ids, minted')
        /\ file' = EncodeWith(snap, ids, DictShared(saves[i]), sealed)
        /\ written' = snap
        /\ idOf' = [n \in DOMAIN idOf \cup {snap.secrets[b].born : b \in bags} |->
                      (IF n \in DOMAIN idOf THEN idOf[n] ELSE {}) \cup
                      {ids[Bag(b)] : b \in {x \in bags : snap.secrets[x].born = n}}]
        /\ saves' = [saves EXCEPT ![i].phase = "take", ![i].new = DictOf(ids)]
        /\ silent' = (silent /\ cfg # snap)
        /\ UNCHANGED <<cfgVars, msgs, form, overlap, twice, reused, born, quit, dirty, failed, started>>

\* Every save that writes does so.
LEMMA WritesBy ==
    ASSUME NEW i, WriteOut(i)
    PROVE  \E inv, ids : WriteBy(i, inv, ids)
<1>1. PICK inv \in NamesToIDs(DictShared(saves[i])) :
          LET snap == saves[i].snap
              ids == AllIDs(snap, inv, minted)
              bags == DOMAIN snap.secrets
          IN  /\ file' = EncodeWith(snap, ids, DictShared(saves[i]), sealed)
              /\ written' = snap
              /\ minted' = minted + Cardinality(DOMAIN ids \ DOMAIN inv)
              /\ minted' <= Len(Ids)
              /\ idOf' = [n \in DOMAIN idOf \cup {snap.secrets[b].born : b \in bags} |->
                            (IF n \in DOMAIN idOf THEN idOf[n] ELSE {}) \cup
                            {ids[Bag(b)] : b \in {x \in bags : snap.secrets[x].born = n}}]
              /\ saves' = [saves EXCEPT ![i].phase = "take", ![i].new = DictOf(ids)]
              /\ silent' = (silent /\ cfg # snap)
  BY DEF WriteOut
<1>2. saves[i].phase = "write" /\ UNCHANGED <<cfgVars, msgs, form, overlap, twice, reused, born, quit, dirty, failed, started>>
  BY DEF WriteOut, Save, screenVars, loopVars
<1>3. WriteBy(i, inv, AllIDs(saves[i].snap, inv, minted))
  BY <1>1, <1>2 DEF WriteBy, Takes
<1> QED
  BY <1>3

\* The save that writes has a config, a dictionary and ids for it.
LEMMA WriteFacts ==
    ASSUME DictInv, NEW i \in DOMAIN saves, NEW inv, NEW ids, WriteBy(i, inv, ids)
    PROVE  /\ IsConfig(saves[i].snap) /\ IsShaped(saves[i].snap)
           /\ IsDict(DictShared(saves[i]), minted)
           /\ minted' \in Nat /\ minted <= minted' /\ minted' <= Len(Ids)
           /\ GoodIds(saves[i].snap, ids) /\ Range(ids) \subseteq Used(minted')
           /\ \A x \in DOMAIN ids \cap DOMAIN inv : ids[x] = inv[x]
           /\ \A x \in DOMAIN ids \ DOMAIN inv : ids[x] \notin Used(minted)
           /\ IsDict(DictOf(ids), minted')
           /\ IsCode(file', written')
<1> DEFINE c == saves[i].snap
           d == DictShared(saves[i])
           m == minted'
<1>1. IsConfig(c) /\ IsShaped(c) /\ IsDict(idmap, minted) /\ minted \in Nat /\ \A x \in saves[i].old : IsDict(x, minted)
  BY DEF DictInv, IsSave, WriteBy
<1>2. IsDict(d, minted)
  BY <1>1 DEF DictShared
<1>3. /\ inv \in NamesToIDs(d) /\ Takes(c, inv, minted, ids, m)
      /\ file' = EncodeWith(c, ids, d, sealed) /\ written' = c
  BY DEF WriteBy
<1>4. m <= Len(Ids)
  BY <1>3 DEF Takes
<1> HIDE DEF c, d, m
<1>5. /\ m \in Nat /\ minted <= m /\ GoodIds(c, ids) /\ Range(ids) \subseteq Used(m)
      /\ \A x \in DOMAIN ids \cap DOMAIN inv : ids[x] = inv[x]
      /\ \A x \in DOMAIN ids \ DOMAIN inv : ids[x] \notin Used(minted)
      /\ IsDict(DictOf(ids), m)
      /\ \A carried, sl : IsCode(EncodeWith(c, ids, carried, sl), c)
  BY <1>1, <1>2, <1>3, Written
<1>6. IsCode(file', written')
  BY <1>3, <1>5
<1> QED
  BY <1>1, <1>2, <1>4, <1>5, <1>6 DEF c, d, m

\* The ids of the file that the session starts with.
LEMMA FirstFacts ==
    LET n == Cardinality(DOMAIN FirstIDs) IN
    /\ n \in Nat /\ n <= Len(Ids) /\ GoodIds(Started, FirstIDs) /\ Range(FirstIDs) \subseteq Used(n)
    /\ IsDict(sealed, n)
    /\ \A carried, sl : IsCode(EncodeWith(Started, FirstIDs, carried, sl), Started)
<1> DEFINE e == [x \in {} |-> ""]
           n == Cardinality(DOMAIN FirstIDs)
<1>1. IsDict(e, 0)
  BY DEF IsDict
<1>2. e \in NamesToIDs(e)
  <2>1. Range(e) = {} /\ DOMAIN e = {}
    BY DEF Range
  <2>2. {} \in SUBSET DOMAIN e /\ Cardinality({}) = Cardinality(Range(e)) /\ {e[id] : id \in {}} = Range(e)
    BY <2>1
  <2>3. [x \in Range(e) |-> CHOOSE id \in {} : e[id] = x] = e
    BY <2>1
  <2> HIDE DEF e
  <2> QED
    BY <2>2, <2>3 DEF NamesToIDs
<1>0. n \in Nat /\ 0 + n = n
  <2>1. Finite(Started)
    <3>1. IsFiniteSet(SourceNames \cup {"local"}) /\ IsFiniteSet(BagNames) /\ IsFiniteSet(KeyNames)
      BY TuiAssumption, FS_AddElement
    <3> QED
      BY <3>1, TuiAssumption, FS_Subset DEF Finite, IsConfig
  <2> DEFINE top == Assign(TopItems(Started), e, 0)
  <2>2. IsFiniteSet(TopItems(Started)) /\ IsFiniteSet(KeyItems(Started, top))
    BY <2>1, FiniteItems
  <2>3. DOMAIN FirstIDs = TopItems(Started) \cup KeyItems(Started, top)
    BY DEF FirstIDs, AllIDs, Assign
  <2>4. n \in Nat
    BY <2>2, <2>3, FS_Union, FS_CardinalityType
  <2> QED
    BY <2>4
<1>3. Takes(Started, e, 0, FirstIDs, 0 + n)
  <2>1. DOMAIN e = {}
    OBVIOUS
  <2>3. DOMAIN FirstIDs \ DOMAIN e = DOMAIN FirstIDs
    BY <2>1
  <2>4. FirstIDs = AllIDs(Started, e, 0)
    BY DEF FirstIDs
  <2> HIDE DEF e
  <2> QED
    BY <1>0, <2>3, <2>4, IdAssumption DEF Takes
<1>4. IsConfig(Started) /\ IsShaped(Started)
  BY TuiAssumption
<1> HIDE DEF e
<1>5. /\ 0 + n \in Nat /\ GoodIds(Started, FirstIDs) /\ Range(FirstIDs) \subseteq Used(0 + n)
      /\ IsDict(DictOf(FirstIDs), 0 + n)
      /\ \A carried, sl : IsCode(EncodeWith(Started, FirstIDs, carried, sl), Started)
  <2> DEFINE m == 0 + n
  <2> HIDE DEF m
  <2>1. Takes(Started, e, 0, FirstIDs, m)
    BY <1>3 DEF m
  <2>2. /\ m \in Nat /\ GoodIds(Started, FirstIDs) /\ Range(FirstIDs) \subseteq Used(m)
        /\ IsDict(DictOf(FirstIDs), m)
        /\ \A carried, sl : IsCode(EncodeWith(Started, FirstIDs, carried, sl), Started)
    BY <1>1, <1>2, <1>4, <2>1, Written
  <2> QED
    BY <2>2 DEF m
<1>6. 0 + n <= Len(Ids)
  BY <1>3 DEF Takes
<1> QED
  BY <1>0, <1>5, <1>6 DEF sealed

\* Saves in flight after a step of one of them.
LEMMA SavesChanged ==
    ASSUME saves \in Seq(Range(saves)), \A j \in DOMAIN saves : IsSave(saves[j], minted), minted \in Nat
    PROVE  /\ \A i \in DOMAIN saves : Clone(i) =>
                 /\ saves' \in Seq(Range(saves')) /\ DOMAIN saves' = DOMAIN saves /\ Len(saves') = Len(saves)
                 /\ \A j \in DOMAIN saves \ {i} : saves'[j] = saves[j]
                 /\ saves'[i] = [kind |-> saves[i].kind, phase |-> "write", snap |-> cfg,
                                 old |-> saves[i].old, new |-> saves[i].new]
           /\ \A i \in DOMAIN saves : \A inv, ids : WriteBy(i, inv, ids) =>
                 /\ saves' \in Seq(Range(saves')) /\ DOMAIN saves' = DOMAIN saves /\ Len(saves') = Len(saves)
                 /\ \A j \in DOMAIN saves \ {i} : saves'[j] = saves[j]
                 /\ saves'[i] = [kind |-> saves[i].kind, phase |-> "take", snap |-> saves[i].snap,
                                 old |-> saves[i].old, new |-> DictOf(ids)]
           /\ \A i \in DOMAIN saves : Fail(i) =>
                 /\ saves' \in Seq(Range(saves')) /\ Len(saves') = Len(saves) - 1
                 /\ \A j \in DOMAIN saves' : \E k \in DOMAIN saves \ {i} : saves'[j] = saves[k]
           /\ \A i \in DOMAIN saves : TakeOver(i) =>
                 /\ saves' \in Seq(Range(saves')) /\ Len(saves') = Len(saves) - 1
                 /\ \A j \in DOMAIN saves' : \E k \in DOMAIN saves \ {i} :
                       \/ saves'[j] = saves[k]
                       \/ /\ saves[k].phase # "clone" /\ saves[k].old = {}
                          /\ saves'[j] = [kind |-> saves[k].kind, phase |-> saves[k].phase, snap |-> saves[k].snap,
                                          old |-> {idmap}, new |-> saves[k].new]
<1>0. saves = [j \in DOMAIN saves |-> saves[j]]
  <2>1. saves \in [1 .. Len(saves) -> Range(saves)]
    BY LenProperties
  <2> QED
    BY <2>1
<1>r. \A j \in DOMAIN saves : saves[j] = [kind |-> saves[j].kind, phase |-> saves[j].phase, snap |-> saves[j].snap,
                                          old |-> saves[j].old, new |-> saves[j].new]
  BY DEF IsSave
<1>1. ASSUME NEW i \in DOMAIN saves, Clone(i)
      PROVE  /\ saves' \in Seq(Range(saves')) /\ DOMAIN saves' = DOMAIN saves /\ Len(saves') = Len(saves)
             /\ \A j \in DOMAIN saves \ {i} : saves'[j] = saves[j]
             /\ saves'[i] = [kind |-> saves[i].kind, phase |-> "write", snap |-> cfg,
                             old |-> saves[i].old, new |-> saves[i].new]
  <2>1. saves' = [saves EXCEPT ![i].phase = "write", ![i].snap = cfg]
    BY <1>1 DEF Clone
  <2>2. /\ saves' = [j \in DOMAIN saves |-> saves'[j]]
        /\ \A j \in DOMAIN saves \ {i} : saves'[j] = saves[j]
        /\ saves'[i] = [saves[i] EXCEPT !.phase = "write", !.snap = cfg]
    BY <1>0, <2>1
  <2>3. saves'[i] = [kind |-> saves[i].kind, phase |-> "write", snap |-> cfg,
                     old |-> saves[i].old, new |-> saves[i].new]
    BY <1>r, <2>2
  <2> QED
    BY <2>2, <2>3, SeqFacts
<1>2. ASSUME NEW i \in DOMAIN saves, NEW inv, NEW ids, WriteBy(i, inv, ids)
      PROVE  /\ saves' \in Seq(Range(saves')) /\ DOMAIN saves' = DOMAIN saves /\ Len(saves') = Len(saves)
             /\ \A j \in DOMAIN saves \ {i} : saves'[j] = saves[j]
             /\ saves'[i] = [kind |-> saves[i].kind, phase |-> "take", snap |-> saves[i].snap,
                             old |-> saves[i].old, new |-> DictOf(ids)]
  <2> DEFINE d == DictOf(ids)
  <2>1. saves' = [saves EXCEPT ![i].phase = "take", ![i].new = d]
    BY <1>2 DEF WriteBy
  <2> HIDE DEF d
  <2>2. /\ saves' = [j \in DOMAIN saves |-> saves'[j]]
        /\ \A j \in DOMAIN saves \ {i} : saves'[j] = saves[j]
        /\ saves'[i] = [saves[i] EXCEPT !.phase = "take", !.new = d]
    BY <1>0, <2>1
  <2>3. saves'[i] = [kind |-> saves[i].kind, phase |-> "take", snap |-> saves[i].snap,
                     old |-> saves[i].old, new |-> d]
    BY <1>r, <2>2
  <2> QED
    BY <2>2, <2>3, SeqFacts DEF d
<1>3. ASSUME NEW i \in DOMAIN saves, Fail(i)
      PROVE  /\ saves' \in Seq(Range(saves')) /\ Len(saves') = Len(saves) - 1
             /\ \A j \in DOMAIN saves' : \E k \in DOMAIN saves \ {i} : saves'[j] = saves[k]
  <2>1. saves' = RemoveAt(saves, i)
    BY <1>3 DEF Fail
  <2> QED
    BY <2>1, SeqRemoved
<1>4. ASSUME NEW i \in DOMAIN saves, TakeOver(i)
      PROVE  /\ saves' \in Seq(Range(saves')) /\ Len(saves') = Len(saves) - 1
             /\ \A j \in DOMAIN saves' : \E k \in DOMAIN saves \ {i} :
                   \/ saves'[j] = saves[k]
                   \/ /\ saves[k].phase # "clone" /\ saves[k].old = {}
                      /\ saves'[j] = [kind |-> saves[k].kind, phase |-> saves[k].phase, snap |-> saves[k].snap,
                                      old |-> {idmap}, new |-> saves[k].new]
  <2> DEFINE t == [j \in DOMAIN saves |->
                     IF saves[j].phase # "clone" /\ saves[j].old = {}
                     THEN [saves[j] EXCEPT !.old = {idmap}] ELSE saves[j]]
  <2>1. saves' = RemoveAt(t, i)
    BY <1>4 DEF TakeOver
  <2>2. \A k \in DOMAIN saves :
           \/ t[k] = saves[k]
           \/ /\ saves[k].phase # "clone" /\ saves[k].old = {}
              /\ t[k] = [saves[k] EXCEPT !.old = {idmap}]
    OBVIOUS
  <2>3. t = [j \in DOMAIN saves |-> t[j]]
    OBVIOUS
  <2> HIDE DEF t
  <2>4. t \in Seq(Range(t)) /\ Len(t) = Len(saves) /\ DOMAIN t = DOMAIN saves
    BY <2>3, SeqFacts
  <2>5. /\ saves' \in Seq(Range(saves')) /\ Len(saves') = Len(saves) - 1
        /\ \A j \in DOMAIN saves' : \E k \in DOMAIN saves \ {i} : saves'[j] = t[k]
    <3>1. /\ saves' \in Seq(Range(saves')) /\ Len(saves') = Len(t) - 1
          /\ \A j \in DOMAIN saves' : \E k \in DOMAIN t \ {i} : saves'[j] = t[k]
      <4>1. i \in DOMAIN t /\ t \in Seq(Range(t))
        BY <2>4
      <4>2. LET u == RemoveAt(t, i) IN
            /\ u \in Seq(Range(u)) /\ Len(u) = Len(t) - 1
            /\ \A j \in DOMAIN u : \E k \in DOMAIN t \ {i} : u[j] = t[k]
        BY <4>1, SeqRemoved
      <4> QED
        BY <2>1, <4>2
    <3> QED
      BY <2>4, <3>1
  <2>6. ASSUME NEW k \in DOMAIN saves, NEW u, u = [saves[k] EXCEPT !.old = {idmap}]
        PROVE  u = [kind |-> saves[k].kind, phase |-> saves[k].phase, snap |-> saves[k].snap,
                    old |-> {idmap}, new |-> saves[k].new]
    <3>1. saves[k] = [kind |-> saves[k].kind, phase |-> saves[k].phase, snap |-> saves[k].snap,
                      old |-> saves[k].old, new |-> saves[k].new]
      BY <1>r
    <3> QED
      BY <2>6, <3>1
  <2>7. ASSUME NEW j \in DOMAIN saves'
        PROVE  \E k \in DOMAIN saves \ {i} :
                   \/ saves'[j] = saves[k]
                   \/ /\ saves[k].phase # "clone" /\ saves[k].old = {}
                      /\ saves'[j] = [kind |-> saves[k].kind, phase |-> saves[k].phase, snap |-> saves[k].snap,
                                      old |-> {idmap}, new |-> saves[k].new]
    <3>1. PICK k \in DOMAIN saves \ {i} : saves'[j] = t[k]
      BY <2>5
    <3> QED
      BY <2>2, <2>6, <3>1
  <2> QED
    BY <2>5, <2>7
<1> QED
  BY <1>1, <1>2, <1>3, <1>4

\* Saves and dictionaries stay what they are (cloneForSave, EncryptInPlace,
\* and the dictionary that saveCmd hands back).
LEMMA DictStep ==
    ASSUME TuiInv, DictInv, [Next]_vars
    PROVE  DictInv'
<1>0. /\ IsShaped(cfg) /\ minted \in Nat /\ minted <= Len(Ids) /\ IsDict(idmap, minted)
      /\ saves \in Seq(Range(saves)) /\ \A j \in DOMAIN saves : IsSave(saves[j], minted)
  BY DEF DictInv
<1>1. CASE StillFrame \/ GetDirty \/ GetSaved
  <2>1. UNCHANGED <<cfg, idmap, minted, saves>>
    BY <1>1 DEF StillFrame, GetDirty, GetSaved, cfgVars, saveVars
  <2> QED
    BY <1>0, <2>1 DEF DictInv
<1>2. CASE CfgStep
  <2>1. UNCHANGED <<minted, saves>>
    BY <1>2, EditFrames DEF EditFrame, ArnFrame, StillFrame, NewMapping, DiscardMapping, saveVars
  <2>2. IsShaped(cfg') /\ IsMap(idmap') /\ DOMAIN idmap' = DOMAIN idmap
    <3>1. IsMap(idmap)
      BY <1>0 DEF IsDict, IsMap
    <3> QED
      BY <1>0, <1>2, <3>1, EditShapes DEF DictKept
  <2>3. IsDict(idmap', minted)
    BY <1>0, <2>2 DEF IsDict, IsMap
  <2> QED
    BY <1>0, <2>1, <2>2, <2>3 DEF DictInv
<1>3. ASSUME NEW kind \in SaveKinds, Start(kind) PROVE DictInv'
  <2>1. saves' = Append(saves, NewSave(kind)) /\ UNCHANGED <<cfg, idmap, minted>>
    BY <1>3 DEF Start, cfgVars
  <2>2. IsSave(NewSave(kind), minted)
    BY DEF IsSave, NewSave, SaveKinds
  <2>3. /\ saves' \in Seq(Range(saves'))
        /\ \A j \in DOMAIN saves' : (j \in DOMAIN saves /\ saves'[j] = saves[j]) \/ saves'[j] = NewSave(kind)
    BY <1>0, <2>1, SeqAdded
  <2> QED
    BY <1>0, <2>1, <2>2, <2>3 DEF DictInv
<1>4. ASSUME NEW i \in DOMAIN saves, Clone(i) PROVE DictInv'
  <2>1. UNCHANGED <<cfg, idmap, minted>>
    BY <1>4 DEF Clone, cfgVars
  <2>2. /\ saves' \in Seq(Range(saves')) /\ DOMAIN saves' = DOMAIN saves
        /\ \A j \in DOMAIN saves \ {i} : saves'[j] = saves[j]
        /\ saves'[i] = [kind |-> saves[i].kind, phase |-> "write", snap |-> cfg,
                        old |-> saves[i].old, new |-> saves[i].new]
    BY <1>0, <1>4, SavesChanged
  <2>3. IsSave(saves'[i], minted)
    <3>1. IsConfig(cfg)
      BY DEF TuiInv
    <3>2. IsSave(saves[i], minted)
      BY <1>0
    <3> QED
      BY <1>0, <2>2, <3>1, <3>2 DEF IsSave
  <2> QED
    BY <1>0, <2>1, <2>2, <2>3 DEF DictInv
<1>5. ASSUME NEW i \in DOMAIN saves, Fail(i) PROVE DictInv'
  <2>1. UNCHANGED <<cfg, idmap, minted>>
    BY <1>5 DEF Fail, cfgVars
  <2>2. /\ saves' \in Seq(Range(saves'))
        /\ \A j \in DOMAIN saves' : \E k \in DOMAIN saves \ {i} : saves'[j] = saves[k]
    BY <1>0, <1>5, SavesChanged
  <2> QED
    BY <1>0, <2>1, <2>2 DEF DictInv
<1>6. ASSUME NEW i \in DOMAIN saves, WriteOut(i) PROVE DictInv'
  <2>1. PICK inv, ids : WriteBy(i, inv, ids)
    BY <1>6, WritesBy
  <2>2. cfg' = cfg /\ idmap' = idmap
    BY <2>1 DEF WriteBy, cfgVars
  <2>3. minted' \in Nat /\ minted <= minted' /\ minted' <= Len(Ids) /\ IsDict(DictOf(ids), minted')
    BY <2>1, WriteFacts
  <2>4. /\ saves' \in Seq(Range(saves')) /\ DOMAIN saves' = DOMAIN saves
        /\ \A j \in DOMAIN saves \ {i} : saves'[j] = saves[j]
        /\ saves'[i] = [kind |-> saves[i].kind, phase |-> "take", snap |-> saves[i].snap,
                        old |-> saves[i].old, new |-> DictOf(ids)]
    BY <1>0, <2>1, SavesChanged
  <2> DEFINE n == minted'
  <2>5. \A j \in DOMAIN saves : IsSave(saves[j], n)
    BY <1>0, <2>3, UsedGrows
  <2>6. IsDict(idmap, n)
    BY <1>0, <2>3, UsedGrows
  <2>7. IsSave(saves'[i], n)
    BY <2>3, <2>4, <2>5 DEF IsSave
  <2> QED
    BY <1>0, <2>2, <2>3, <2>4, <2>5, <2>6, <2>7 DEF DictInv
<1>7. ASSUME NEW i \in DOMAIN saves, TakeOver(i) PROVE DictInv'
  <2>1. UNCHANGED <<cfg, minted>> /\ idmap' = saves[i].new /\ saves[i].phase = "take"
    BY <1>7 DEF TakeOver, Save
  <2>2. IsDict(idmap', minted)
    BY <1>0, <2>1 DEF IsSave
  <2>3. /\ saves' \in Seq(Range(saves'))
        /\ \A j \in DOMAIN saves' : \E k \in DOMAIN saves \ {i} :
              \/ saves'[j] = saves[k]
              \/ /\ saves[k].phase # "clone" /\ saves[k].old = {}
                 /\ saves'[j] = [kind |-> saves[k].kind, phase |-> saves[k].phase, snap |-> saves[k].snap,
                                 old |-> {idmap}, new |-> saves[k].new]
    BY <1>0, <1>7, SavesChanged
  <2>4. ASSUME NEW k \in DOMAIN saves, saves[k].phase # "clone", NEW s,
               s = [kind |-> saves[k].kind, phase |-> saves[k].phase, snap |-> saves[k].snap,
                    old |-> {idmap}, new |-> saves[k].new]
        PROVE  IsSave(s, minted)
    <3>1. IsSave(saves[k], minted)
      BY <1>0
    <3> QED
      BY <1>0, <2>4, <3>1 DEF IsSave
  <2>5. ASSUME NEW j \in DOMAIN saves' PROVE IsSave(saves'[j], minted)
    BY <1>0, <2>3, <2>4
  <2> QED
    BY <1>0, <2>1, <2>2, <2>3, <2>5 DEF DictInv
<1>8. CASE EndFrame
  <2>1. UNCHANGED <<cfg, idmap, minted>> /\ saves' = <<>>
    BY <1>8 DEF EndFrame, Gone, QuitClean, GetQuit, Ends, cfgVars
  <2>2. saves' \in Seq(Range(saves')) /\ DOMAIN saves' = {}
    BY <2>1
  <2> QED
    BY <1>0, <2>1, <2>2 DEF DictInv
<1> QED
  BY <1>1, <1>2, <1>3, <1>4, <1>5, <1>6, <1>7, <1>8, Steps

\* Every save in flight works on a config that was in memory and on a dictionary
\* of ids that newID has minted, whatever was edited meanwhile.
THEOREM DictInvariant == Spec => []DictInv
<1>1. Init => DictInv
  <2> SUFFICES ASSUME Init PROVE DictInv
    OBVIOUS
  <2>1. cfg = Started /\ idmap = sealed /\ minted = Cardinality(DOMAIN FirstIDs) /\ saves = <<>>
    BY DEF Init
  <2>2. saves \in Seq(Range(saves)) /\ DOMAIN saves = {}
    BY <2>1
  <2> QED
    BY <2>1, <2>2, FirstFacts, TuiAssumption DEF DictInv
<1>2. TuiInv /\ DictInv /\ [Next]_vars => DictInv'
  BY DictStep
<1> QED
  BY <1>1, <1>2, TuiInvariant, PTL DEF Spec

\* The file opens, unless the config that was cloned for the save has a value
\* that looks like an envelope, and then decodes to that config: EncryptInPlace
\* and DecryptInPlace agree on ids, references, the dictionary and the contexts
\* of params, bag values and the fields of vars, whatever was renamed, deleted
\* or added since the file was loaded and however many saves run at a time.
THEOREM FileDecodes == Spec => []RoundTrip
<1>1. Init => RoundTrip
  BY FirstFacts DEF Init, RoundTrip, IsCode
<1>2. DictInv /\ RoundTrip /\ [Next]_vars => RoundTrip'
  <2> SUFFICES ASSUME DictInv, RoundTrip, [Next]_vars PROVE RoundTrip'
    OBVIOUS
  <2>1. ASSUME NEW i \in DOMAIN saves, WriteOut(i) PROVE RoundTrip'
    <3>1. PICK inv, ids : WriteBy(i, inv, ids)
      BY <2>1, WritesBy
    <3> QED
      BY <3>1, WriteFacts DEF RoundTrip, IsCode
  <2>2. ASSUME UNCHANGED <<file, written>> PROVE RoundTrip'
    BY <2>2 DEF RoundTrip
  <2>3. CASE StillFrame \/ GetDirty \/ GetSaved \/ EndFrame
    BY <2>2, <2>3 DEF StillFrame, GetDirty, GetSaved, EndFrame, Gone, QuitClean, GetQuit, Ends, saveVars
  <2>4. CASE CfgStep
    BY <2>2, <2>4, EditFrames DEF EditFrame, ArnFrame, StillFrame, NewMapping, DiscardMapping, saveVars
  <2>5. ASSUME NEW x, Start(x) \/ Clone(x) \/ Fail(x) \/ TakeOver(x) PROVE RoundTrip'
    BY <2>2, <2>5 DEF Start, Clone, Fail, TakeOver
  <2> QED
    BY <2>1, <2>3, <2>4, <2>5, Steps
<1> QED
  BY <1>1, <1>2, DictInvariant, PTL DEF Spec

-----------------------------------------------------------------------------
(* Types.                                                                   *)

Screens == {"menu", "form", "tree"} \cup Sections
Flags == {dirty, fetch, overlap, twice, silent, failed, reused}

\* Which screens are shown.
LEMMA ScreenStep ==
    ASSUME at \in Screens, fetch \in BOOLEAN, [Next]_vars
    PROVE  at' \in Screens /\ fetch' \in BOOLEAN
<1> USE DEF Screens, Sections
<1>0. ASSUME UNCHANGED <<at, fetch>> PROVE at' \in Screens /\ fetch' \in BOOLEAN
  BY <1>0
<1>s. ASSUME Stay PROVE at' \in Screens /\ fetch' \in BOOLEAN
  BY <1>0, <1>s DEF Stay, screenVars
<1>1. CASE UNCHANGED vars
  BY <1>0, <1>1 DEF vars
<1>2. CASE BagEdits
  BY <1>s, <1>2 DEF BagEdits, AddBag, DeleteBag, RenameBag, PutKey, RenameKey, DeleteKey, BulkImport
<1>3. CASE SourceEdits \/ \E v \in NewValues : SetAgent(v)
  BY <1>s, <1>3 DEF SourceEdits, SaveSource, OpenARNs, RenameSource, DeleteSource, AddARN, DeleteARN, SetAgent
<1>4. CASE MappingEdits
  <2>1. ASSUME NEW i, NewMapping \/ EditMapping(i) \/ DiscardMapping \/ LeaveForm \/ SetKind(i)
        PROVE  at' \in Screens /\ fetch' \in BOOLEAN
    BY <2>1 DEF NewMapping, EditMapping, DiscardMapping, LeaveForm, SetKind, Enter
  <2> QED
    BY <1>4, <1>s, <2>1 DEF MappingEdits, SetTarget, PickFolder, DeleteMapping, AddCommands, RemoveCommand
<1>5. CASE TreeEdits
  BY <1>5 DEF TreeEdits, OpenTree, LeaveTree, BagsLoaded, ToggleBag, ToggleKey, Toggled, Enter
<1>6. ASSUME NEW how, Ends(how) PROVE at' \in Screens /\ fetch' \in BOOLEAN
  BY <1>6 DEF Ends
<1>7. CASE Saving
  <2>1. ASSUME NEW i, Clone(i) \/ Fail(i) \/ WriteOut(i) \/ TakeOver(i) PROVE UNCHANGED <<at, fetch>>
    BY <2>1 DEF Clone, Fail, WriteOut, TakeOver, screenVars
  <2> QED
    BY <1>0, <1>s, <1>6, <1>7, <2>1 DEF Saving, StartSave, PromptSave, MenuSave, Pop, MapRace, Gone
<1>8. CASE Looping
  <2>1. ASSUME NEW s \in Sections, OpenSection(s) \/ LeaveSection PROVE at' \in Screens /\ fetch' \in BOOLEAN
    BY <2>1 DEF OpenSection, LeaveSection, Enter
  <2>2. ASSUME GetDirty \/ GetSaved \/ CloseModal \/ OpenHelp PROVE UNCHANGED <<at, fetch>>
    BY <2>2 DEF GetDirty, GetSaved, CloseModal, OpenHelp, Push, Pop, screenVars
  <2>3. ASSUME CtrlC \/ MenuQuit PROVE (\E how : Ends(how)) \/ UNCHANGED <<at, fetch>>
    BY <2>3 DEF CtrlC, MenuQuit, QuitClean, Gone, Push
  <2> QED
    BY <1>0, <1>6, <1>8, <2>1, <2>2, <2>3 DEF Looping, Discard, Gone, GetQuit
<1> QED
  BY <1>1, <1>2, <1>3, <1>4, <1>5, <1>7, <1>8 DEF Next

TypeInv ==
    /\ at \in Screens /\ fetch \in BOOLEAN
    /\ msgs \subseteq {"dirty", "saved"} \cup QuitMsgs
    /\ Flags \subseteq BOOLEAN
    /\ started \in Nat /\ Len(saves) <= started /\ started <= MaxSaves
    /\ quit \in {"no", "crashed", "clean", "discarded"} \cup QuitMsgs

\* Every variable keeps its type.
LEMMA TypeStep ==
    ASSUME DictInv, TypeInv, [Next]_vars
    PROVE  TypeInv'
<1>0. saves \in Seq(Range(saves)) /\ (\A j \in DOMAIN saves : IsSave(saves[j], minted)) /\ minted \in Nat /\ Len(saves) \in Nat
  BY LenProperties DEF DictInv
<1>s. at' \in Screens /\ fetch' \in BOOLEAN
  BY ScreenStep DEF TypeInv
<1>m. MaxSaves \in Nat
  BY TuiAssumption
<1>1. ASSUME UNCHANGED <<msgs, dirty, overlap, twice, silent, failed, reused, started, saves, quit>>
      PROVE  TypeInv'
  BY <1>s, <1>1 DEF TypeInv, Flags, QuitMsgs
<1>2. CASE StillFrame
  BY <1>1, <1>2 DEF StillFrame, saveVars, loopVars, editVars
<1>3. CASE NewMapping \/ DiscardMapping
  BY <1>1, <1>3 DEF NewMapping, DiscardMapping, saveVars, loopVars, editVars
<1>4. CASE CfgStep /\ (EditFrame \/ ArnFrame)
  <2>1. reused' \in BOOLEAN
    <3>1. IsShaped(cfg) /\ IsMap(idmap) /\ reused \in BOOLEAN
      BY DEF DictInv, IsDict, IsMap, TypeInv, Flags
    <3> QED
      BY <1>4, <3>1, EditShapes DEF BagChange, SameBags, AddBag, DeleteBag, RenameBag, Same
  <2>2. /\ overlap' \in BOOLEAN /\ silent' \in BOOLEAN /\ msgs' \subseteq msgs \cup {"dirty"}
        /\ UNCHANGED <<dirty, twice, failed, started, saves, quit>>
    BY <1>4 DEF EditFrame, ArnFrame, saveVars, loopVars, TypeInv, Flags
  <2> QED
    BY <1>s, <2>1, <2>2 DEF TypeInv, Flags, QuitMsgs
<1>5. ASSUME NEW kind \in SaveKinds, Start(kind) PROVE TypeInv'
  <2>1. /\ started < MaxSaves /\ started' = started + 1 /\ saves' = Append(saves, NewSave(kind))
        /\ twice' \in BOOLEAN /\ UNCHANGED <<msgs, dirty, overlap, silent, failed, reused, quit>>
    BY <1>5 DEF Start, loopVars, editVars, TypeInv, Flags
  <2>2. Len(saves') = Len(saves) + 1
    BY <1>0, <2>1, SeqAdded
  <2> QED
    BY <1>0, <1>m, <1>s, <2>1, <2>2 DEF TypeInv, Flags, QuitMsgs
<1>6. ASSUME NEW i \in DOMAIN saves, Clone(i) PROVE TypeInv'
  <2>1. Len(saves') = Len(saves)
    BY <1>0, <1>6, SavesChanged
  <2>2. UNCHANGED <<msgs, dirty, overlap, twice, silent, failed, reused, started, quit>>
    BY <1>6 DEF Clone, loopVars, editVars
  <2> QED
    BY <1>0, <1>s, <2>1, <2>2 DEF TypeInv, Flags, QuitMsgs
<1>7. ASSUME NEW i \in DOMAIN saves, Fail(i) PROVE TypeInv'
  <2>1. Len(saves') = Len(saves) - 1
    BY <1>0, <1>7, SavesChanged
  <2>2. /\ UNCHANGED <<dirty, overlap, twice, silent, reused, started, quit>> /\ failed' \in BOOLEAN
        /\ msgs' \subseteq msgs \cup QuitMsgs
    BY <1>7 DEF Fail, editVars, QuitMsgs, TypeInv, Flags
  <2> QED
    BY <1>0, <1>s, <2>1, <2>2 DEF TypeInv, Flags, QuitMsgs
<1>8. ASSUME NEW i \in DOMAIN saves, WriteOut(i) PROVE TypeInv'
  <2>1. PICK inv, ids : WriteBy(i, inv, ids)
    BY <1>8, WritesBy
  <2>2. Len(saves') = Len(saves)
    BY <1>0, <2>1, SavesChanged
  <2>3. UNCHANGED <<msgs, dirty, overlap, twice, failed, reused, started, quit>> /\ silent' \in BOOLEAN
    BY <2>1 DEF WriteBy, TypeInv, Flags
  <2> QED
    BY <1>0, <1>s, <2>2, <2>3 DEF TypeInv, Flags, QuitMsgs
<1>9. ASSUME NEW i \in DOMAIN saves, TakeOver(i) PROVE TypeInv'
  <2>1. Len(saves') = Len(saves) - 1
    BY <1>0, <1>9, SavesChanged
  <2>2. UNCHANGED <<dirty, overlap, twice, silent, failed, reused, started, quit>>
    BY <1>9 DEF TakeOver, loopVars, editVars
  <2>3. saves[i].kind \in SaveKinds
    BY <1>0 DEF IsSave
  <2>4. msgs' \subseteq msgs \cup {"saved"} \cup QuitMsgs
    BY <1>9, <2>3 DEF TakeOver, Reported, SaveKinds, QuitMsgs
  <2> QED
    BY <1>0, <1>s, <2>1, <2>2, <2>4 DEF TypeInv, Flags, QuitMsgs
<1>10. CASE GetDirty \/ GetSaved
  <2>1. /\ UNCHANGED <<overlap, twice, silent, failed, reused, started, saves, quit>>
        /\ dirty' \in BOOLEAN /\ msgs' \subseteq msgs
    BY <1>10 DEF GetDirty, GetSaved, saveVars, editVars
  <2> QED
    BY <1>s, <2>1 DEF TypeInv, Flags, QuitMsgs
<1>11. CASE EndFrame
  <2>1. /\ UNCHANGED <<dirty, overlap, twice, silent, failed, reused, started>> /\ saves' = <<>>
        /\ msgs' \subseteq msgs /\ quit' \in {"crashed", "clean", "discarded"} \cup QuitMsgs
    BY <1>11 DEF EndFrame, Gone, QuitClean, GetQuit, Ends, editVars, QuitMsgs
  <2> QED
    BY <1>0, <1>s, <2>1 DEF TypeInv, Flags, QuitMsgs
<1> QED
  BY <1>2, <1>3, <1>4, <1>5, <1>6, <1>7, <1>8, <1>9, <1>10, <1>11, Steps, EditFrames

\* Every variable has its type; a form is open on a mapping that exists, and
\* only there is a var tree (createNewMapping, discardEmpty and the screens'
\* indices into cfg.Mappings).
THEOREM TuiTypes == Spec => []TuiTypeOK
<1>1. Init => TypeInv
  <2> SUFFICES ASSUME Init PROVE TypeInv
    OBVIOUS
  <2>1. Len(saves) = 0 /\ started = 0 /\ MaxSaves \in Nat
    BY TuiAssumption DEF Init
  <2>2. started \in Nat /\ Len(saves) <= started /\ started <= MaxSaves
    BY <2>1
  <2>3. Flags \subseteq BOOLEAN /\ at \in Screens /\ fetch \in BOOLEAN /\ msgs = {} /\ quit = "no"
    BY DEF Init, Flags, Screens
  <2> QED
    BY <2>2, <2>3 DEF TypeInv
<1>2. DictInv /\ TypeInv /\ [Next]_vars => TypeInv'
  BY TypeStep
<1>3. TuiInv /\ DictInv /\ TypeInv => TuiTypeOK
  <2> SUFFICES ASSUME TuiInv, DictInv, TypeInv PROVE TuiTypeOK
    OBVIOUS
  <2>1. DOMAIN cfg.secrets \subseteq BagNames /\ DOMAIN cfg.sources \subseteq SourceNames \cup {"local"}
    BY DEF TuiInv, IsConfig
  <2>2. idmap \in [DOMAIN idmap -> Range(idmap)]
    BY DEF DictInv, IsDict, Range
  <2>3. (at \in {"form", "tree"} <=> form.idx # 0) /\ form.idx \in 0 .. Len(cfg.mappings)
    <3>1. Len(cfg.mappings) \in Nat
      BY ConfigFacts DEF TuiInv
    <3>2. form.idx \in Nat /\ form.idx <= Len(cfg.mappings)
      BY DEF TuiInv, FormInv, FormType
    <3>3. \A i \in Nat : i <= Len(cfg.mappings) => i \in 0 .. Len(cfg.mappings)
      BY <3>1
    <3> QED
      BY <3>2, <3>3 DEF TuiInv, FormInv
  <2> QED
    BY <2>1, <2>2, <2>3 DEF TypeInv, Flags, Screens, TuiTypeOK
<1> QED
  BY <1>1, <1>2, <1>3, TuiInvariant, DictInvariant, PTL DEF Spec

-----------------------------------------------------------------------------
(* The mapping that is being created.                                       *)

\* Configs with the same indices have equally many mappings.
LEMMA SameLength ==
    ASSUME NEW c, NEW d, IsConfig(c), IsConfig(d), DOMAIN c.mappings = DOMAIN d.mappings
    PROVE  Len(c.mappings) = Len(d.mappings)
<1>1. /\ Len(c.mappings) \in Nat /\ Len(d.mappings) \in Nat
      /\ DOMAIN c.mappings = 1 .. Len(c.mappings) /\ DOMAIN d.mappings = 1 .. Len(d.mappings)
  BY ConfigFacts
<1>2. \A a, b \in Nat : 1 .. a = 1 .. b => a = b
  <2> SUFFICES ASSUME NEW a \in Nat, NEW b \in Nat, 1 .. a = 1 .. b PROVE a = b
    OBVIOUS
  <2>1. a = 0 \/ a \in 1 .. b
    OBVIOUS
  <2>2. b = 0 \/ b \in 1 .. a
    OBVIOUS
  <2>3. a = 0 => b \notin 1 .. a
    OBVIOUS
  <2>4. b = 0 => a \notin 1 .. b
    OBVIOUS
  <2> QED
    BY <2>1, <2>2, <2>3, <2>4
<1> QED
  BY <1>1, <1>2

\* The edits that the form and the tree make of the mapping they are open on.
LEMMA FormEdits ==
    ASSUME TuiInv, NEW x, NEW y,
           (x \in BOOLEAN /\ SetTarget(x)) \/ PickFolder \/ AddCommands(x) \/ RemoveCommand(x)
           \/ ToggleBag(x) \/ ToggleKey(x, y) \/ (x \in {"path", "cwd"} /\ SetKind(x))
    PROVE  /\ form'.idx = form.idx /\ form'.creating = form.creating
           /\ DOMAIN cfg'.mappings = DOMAIN cfg.mappings
<1> USE DEF Edited
<1>0. DOMAIN cfg = {"sources", "secrets", "mappings", "agent"}
  BY DEF TuiInv, IsConfig
<1>1. at \in {"form", "tree"}
  BY DEF SetTarget, PickFolder, AddCommands, RemoveCommand, ToggleBag, ToggleKey, Toggled, SetKind, On
<1>2. form \in FormType
  BY <1>1, OpenMapping
<1>3. form'.idx = form.idx /\ form'.creating = form.creating
  <2>1. CASE form' = form
    BY <2>1
  <2>2. CASE form' = [form EXCEPT !.pending = x]
    BY <1>2, <2>2 DEF FormType
  <2> QED
    BY <2>1, <2>2 DEF SetTarget, PickFolder, AddCommands, RemoveCommand, ToggleBag, ToggleKey, Toggled, SetKind, Stay, screenVars
<1>4. CASE (x \in BOOLEAN /\ SetTarget(x)) \/ PickFolder \/ AddCommands(x) \/ RemoveCommand(x)
  <2>1. \E k : \/ cfg' = [cfg EXCEPT !.mappings[form.idx].kind = k]
               \/ cfg' = [cfg EXCEPT !.mappings[form.idx].cmds = k]
    <3>1. CASE x \in BOOLEAN /\ SetTarget(x)
      BY <3>1 DEF SetTarget
    <3>2. CASE PickFolder
      BY <3>2 DEF PickFolder
    <3>3. CASE AddCommands(x)
      BY <3>3 DEF AddCommands
    <3>4. CASE RemoveCommand(x)
      BY <3>4 DEF RemoveCommand
    <3> QED
      BY <1>4, <3>1, <3>2, <3>3, <3>4
  <2> QED
    BY <1>0, <1>3, <2>1
<1>5. CASE ToggleBag(x) \/ ToggleKey(x, y)
  <2>1. PICK t : Toggled(t)
    BY <1>5 DEF ToggleBag, ToggleKey
  <2> QED
    BY <1>0, <1>3, <2>1 DEF Toggled
<1>6. CASE x \in {"path", "cwd"} /\ SetKind(x)
  <2>1. PICK k, d : cfg' = [cfg EXCEPT !.mappings[form.idx].kind = k, !.mappings[form.idx].cmds = d]
    BY <1>6 DEF SetKind
  <2> QED
    BY <1>0, <1>3, <2>1
<1> QED
  BY <1>4, <1>5, <1>6

\* Edits on the lists of bags, sources and settings leave the mappings there.
LEMMA ListEdits ==
    ASSUME TuiInv, BagEdits \/ SourceEdits \/ \E v \in NewValues : SetAgent(v)
    PROVE  DOMAIN cfg'.mappings = DOMAIN cfg.mappings /\ form' = form
<1> USE DEF Edited
<1>0. DOMAIN cfg = {"sources", "secrets", "mappings", "agent"}
  BY DEF TuiInv, IsConfig
<1>f. form' = form
  <2>1. Stay
    BY DEF BagEdits, AddBag, DeleteBag, RenameBag, PutKey, RenameKey, DeleteKey, BulkImport,
           SourceEdits, SaveSource, OpenARNs, RenameSource, DeleteSource, AddARN, DeleteARN, SetAgent
  <2> QED
    BY <2>1 DEF Stay, screenVars
<1>1. ASSUME NEW d, DOMAIN d = DOMAIN cfg, d.mappings = cfg.mappings,
             \E vs : cfg' = [d EXCEPT !.mappings = [i \in DOMAIN d.mappings |-> vs[i]]]
      PROVE  DOMAIN cfg'.mappings = DOMAIN cfg.mappings
  BY <1>0, <1>1
<1>2. ASSUME NEW b, NEW c, RenameBag(b, c) PROVE DOMAIN cfg'.mappings = DOMAIN cfg.mappings
  <2> DEFINE F(v) == BagRefRenamed(cfg, v, b, c)
             d == [cfg EXCEPT !.secrets = Renamed(cfg.secrets, b, c)]
             m(i) == [d.mappings[i] EXCEPT !.vars = {F(v) : v \in d.mappings[i].vars}]
  <2>1. d.mappings = cfg.mappings /\ DOMAIN d = DOMAIN cfg
    BY <1>0
  <2>2. cfg' = [d EXCEPT !.mappings = [i \in DOMAIN d.mappings |-> m(i)]]
    BY <1>2 DEF RenameBag, MapVars
  <2> HIDE DEF d, m
  <2> QED
    BY <1>0, <2>1, <2>2
<1>3. ASSUME NEW b, NEW k, NEW l, NEW x, RenameKey(b, k, l, x) PROVE DOMAIN cfg'.mappings = DOMAIN cfg.mappings
  <2> DEFINE F(v) == KeyRefRenamed(cfg, v, b, k, l)
             d == [cfg EXCEPT !.secrets[b].kv = With(Without(cfg.secrets[b].kv, k), l, x)]
             m(i) == [d.mappings[i] EXCEPT !.vars = {F(v) : v \in d.mappings[i].vars}]
  <2>1. d.mappings = cfg.mappings /\ DOMAIN d = DOMAIN cfg
    BY <1>0
  <2>2. cfg' = [d EXCEPT !.mappings = [i \in DOMAIN d.mappings |-> m(i)]]
    BY <1>3 DEF RenameKey, MapVars
  <2> HIDE DEF d, m
  <2> QED
    BY <1>0, <2>1, <2>2
<1>4. ASSUME NEW s, NEW t, RenameSource(s, t) PROVE DOMAIN cfg'.mappings = DOMAIN cfg.mappings
  <2> DEFINE F(v) == IF v.source = s THEN [v EXCEPT !.source = t] ELSE v
             d == [cfg EXCEPT !.sources = Renamed(cfg.sources, s, t)]
             m(i) == [d.mappings[i] EXCEPT !.vars = {F(v) : v \in d.mappings[i].vars}]
  <2>1. d.mappings = cfg.mappings /\ DOMAIN d = DOMAIN cfg
    BY <1>0
  <2>2. cfg' = [d EXCEPT !.mappings = [i \in DOMAIN d.mappings |-> m(i)]]
    BY <1>4 DEF RenameSource, MapVars
  <2> HIDE DEF d, m
  <2> QED
    BY <1>0, <2>1, <2>2
<1>7. ASSUME NEW b, NEW k, NEW v,
             AddBag(b) \/ DeleteBag(b) \/ PutKey(b, k, v) \/ DeleteKey(b, k) \/ BulkImport(b, k, v)
      PROVE  cfg'.mappings = cfg.mappings
  BY <1>0, <1>7 DEF AddBag, DeleteBag, PutKey, DeleteKey, BulkImport
<1>8. ASSUME NEW s, NEW v,
             SaveSource(s, v) \/ OpenARNs(s, v) \/ DeleteSource(s) \/ AddARN(s, v) \/ DeleteARN(s, v) \/ SetAgent(v)
      PROVE  cfg'.mappings = cfg.mappings
  BY <1>0, <1>8 DEF SaveSource, OpenARNs, DeleteSource, AddARN, DeleteARN, SetAgent
<1> QED
  BY <1>f, <1>2, <1>3, <1>4, <1>7, <1>8 DEF BagEdits, SourceEdits

\* A mapping is created at the end of the list, which nothing changes while its
\* form is open (createNewMapping, discardEmpty).
LEMMA CreateStep ==
    ASSUME TuiInv, TuiInv', CreateInv, [Next]_vars
    PROVE  CreateInv'
<1> DEFINE Goal == form'.creating => form'.idx # 0 /\ form'.idx = Len(cfg'.mappings)
<1> SUFFICES ASSUME Running' PROVE Goal
  BY DEF CreateInv
<1>0. /\ IsConfig(cfg) /\ IsConfig(cfg')
      /\ Len(cfg.mappings) \in Nat /\ cfg.mappings \in Seq(MappingType)
      /\ DOMAIN cfg = {"sources", "secrets", "mappings", "agent"}
  BY ConfigFacts DEF TuiInv, IsConfig
<1>n. NoForm.creating = FALSE /\ \A i : [NoForm EXCEPT !.idx = i].creating = FALSE
  BY DEF NoForm
<1>k. ASSUME Running
      PROVE  /\ form.creating => form.idx # 0 /\ form.idx = Len(cfg.mappings)
             /\ at \notin {"form", "tree"} => ~form.creating
  BY <1>k DEF CreateInv, TuiInv, FormInv
<1>1. ASSUME Running, DOMAIN cfg'.mappings = DOMAIN cfg.mappings, form'.idx = form.idx, form'.creating = form.creating
      PROVE  Goal
  BY <1>0, <1>1, <1>k, SameLength
<1>2. CASE UNCHANGED <<cfg, form>> /\ Running
  BY <1>1, <1>2
<1>3. CASE BagEdits \/ SourceEdits \/ \E v \in NewValues : SetAgent(v)
  <2>1. Running
    BY <1>3 DEF On, BagEdits, AddBag, DeleteBag, RenameBag, PutKey, RenameKey, DeleteKey, BulkImport,
                SourceEdits, SaveSource, OpenARNs, RenameSource, DeleteSource, AddARN, DeleteARN, SetAgent
  <2> QED
    BY <1>1, <1>3, <2>1, ListEdits
<1>4. ASSUME NEW x, NEW y,
             (x \in BOOLEAN /\ SetTarget(x)) \/ PickFolder \/ AddCommands(x) \/ RemoveCommand(x)
             \/ ToggleBag(x) \/ ToggleKey(x, y) \/ (x \in {"path", "cwd"} /\ SetKind(x))
      PROVE  Goal
  <2>1. Running
    BY <1>4 DEF SetTarget, PickFolder, AddCommands, RemoveCommand, ToggleBag, ToggleKey, Toggled, SetKind, On
  <2> QED
    BY <1>1, <1>4, <2>1, FormEdits
<1>5. CASE NewMapping
  <2>1. cfg'.mappings = Append(cfg.mappings, Blank) /\ form'.idx = Len(cfg.mappings) + 1
    BY <1>0, <1>5 DEF NewMapping, NoForm
  <2>2. Blank \in MappingType
    BY DEF Blank, MappingType
  <2>3. Len(cfg'.mappings) = Len(cfg.mappings) + 1
    BY <1>0, <2>1, <2>2, AppendProperties
  <2> QED
    BY <1>0, <2>1, <2>3
<1>6. ASSUME NEW i, DiscardMapping \/ LeaveForm \/ EditMapping(i) PROVE Goal
  BY <1>6, <1>n DEF DiscardMapping, LeaveForm, EditMapping
<1>7. ASSUME NEW i, DeleteMapping(i) PROVE Goal
  <2>1. Running /\ at = "mappings" /\ form' = form
    BY <1>7 DEF DeleteMapping, On, Stay, screenVars
  <2> QED
    BY <1>k, <2>1
<1>8. CASE StillFrame
  <2>1. cfg' = cfg /\ quit' = quit /\ (form' = form \/ LeaveForm \/ \E i : EditMapping(i))
    BY <1>8 DEF StillFrame, cfgVars, loopVars
  <2>2. Running
    BY <2>1 DEF Running
  <2> QED
    BY <1>2, <1>6, <2>1, <2>2
<1>9. ASSUME NEW x, (\E kind : Start(kind) /\ Running /\ form' = form) \/ Clone(x) \/ Fail(x) \/ WriteOut(x) \/ TakeOver(x)
                     \/ GetDirty \/ GetSaved
       PROVE  UNCHANGED <<cfg, form>> /\ Running
  BY <1>9 DEF Start, Clone, Fail, WriteOut, TakeOver, GetDirty, GetSaved, cfgVars, screenVars, Save
<1>10. ~EndFrame
  BY DEF EndFrame, Gone, QuitClean, GetQuit, Ends, QuitMsgs, Running
<1>11. CASE MappingEdits
  BY <1>4, <1>5, <1>6, <1>7, <1>11 DEF MappingEdits
<1>12. CASE TreeEdits
  <2>1. OpenTree \/ LeaveTree \/ (\E ok : BagsLoaded(ok)) => StillFrame
    BY DEF OpenTree, LeaveTree, BagsLoaded, StillFrame
  <2> QED
    BY <1>4, <1>8, <1>12, <2>1 DEF TreeEdits
<1> HIDE DEF Goal
<1> QED
  BY <1>2, <1>3, <1>8, <1>9, <1>10, <1>11, <1>12, Steps DEF CfgStep

\* No mapping is being created.
LEMMA CreateInit == Init => CreateInv
<1>1. NoForm.creating = FALSE
  BY DEF NoForm
<1> QED
  BY <1>1 DEF Init, CreateInv

-----------------------------------------------------------------------------
(* Edits that are not in the file.                                          *)

\* The last of n, if there is one.
LEMMA LastIndex == \A n \in Nat : n # 0 => n \in 1 .. n
OBVIOUS

\* A config whose mappings have kinds is kept as it is.
LEMMA KeptWhole ==
    ASSUME NEW c, IsConfig(c), \A i \in DOMAIN c.mappings : c.mappings[i].kind # ""
    PROVE  Kept(c) = c
<1> SUFFICES ASSUME c.mappings # <<>> PROVE c.mappings[Len(c.mappings)] # Blank
  BY DEF Kept
<1>1. Len(c.mappings) \in Nat /\ DOMAIN c.mappings = 1 .. Len(c.mappings) /\ c.mappings \in Seq(MappingType)
  BY ConfigFacts
<1>2. Len(c.mappings) # 0
  BY <1>1, EmptySeq
<1>3. Len(c.mappings) \in DOMAIN c.mappings
  BY <1>1, <1>2, LastIndex
<1>4. Blank.kind = ""
  BY DEF Blank
<1> QED
  BY <1>3, <1>4

\* The config a save clones has no mapping that cannot be saved.
LEMMA ValidFacts ==
    ASSUME TuiInv, CreateInv, Running, Valid(cfg)
    PROVE  Kept(cfg) = cfg /\ ~Draft
<1>1. \A i \in DOMAIN cfg.mappings : /\ cfg.mappings[i].kind # "" /\ cfg.mappings[i].vars # {}
                                     /\ cfg.mappings[i].kind = "cwd" => cfg.mappings[i].cmds # {}
  BY DEF Valid, ValidMapping
<1>2. Kept(cfg) = cfg
  BY <1>1, KeptWhole DEF TuiInv
<1>3. form.creating => form.idx \in DOMAIN cfg.mappings
  <2>1. Len(cfg.mappings) \in Nat /\ DOMAIN cfg.mappings = 1 .. Len(cfg.mappings)
    BY ConfigFacts DEF TuiInv
  <2> QED
    BY <2>1, LastIndex DEF CreateInv
<1>4. ~Draft
  BY <1>1, <1>3 DEF Draft, Cleared, Incomplete, Mapping
<1> QED
  BY <1>2, <1>4

\* A new mapping is no edit, and neither is discarding one that was not edited.
LEMMA NewKept ==
    ASSUME TuiInv, CreateInv, IsShaped(cfg), NewMapping, ~Draft
    PROVE  Kept(cfg') = Kept(cfg) /\ ~Draft'
<1>0. /\ IsConfig(cfg) /\ Len(cfg.mappings) \in Nat /\ DOMAIN cfg.mappings = 1 .. Len(cfg.mappings)
      /\ cfg.mappings \in Seq(MappingType) /\ cfg.mappings = [i \in DOMAIN cfg.mappings |-> cfg.mappings[i]]
  <2>1. cfg.mappings \in Seq(MappingType)
    BY ConfigFacts DEF TuiInv
  <2>2. cfg.mappings \in [1 .. Len(cfg.mappings) -> MappingType]
    BY <2>1, LenProperties
  <2> QED
    BY <2>1, <2>2, ConfigFacts DEF TuiInv
<1>1. /\ Running /\ at = "mappings" /\ cfg' = [cfg EXCEPT !.mappings = Append(cfg.mappings, Blank)]
      /\ form'.idx = Len(cfg.mappings) + 1 /\ form'.creating = TRUE
  BY DEF NewMapping, On, NoForm
<1>2. ~form.creating
  BY <1>1 DEF TuiInv, FormInv, CreateInv
<1>3. \A i \in DOMAIN cfg.mappings : cfg.mappings[i].kind # ""
  BY <1>2 DEF Draft, Cleared
<1>4. Kept(cfg) = cfg
  BY <1>0, <1>3, KeptWhole
<1> DEFINE s == cfg.mappings
           t == Append(s, Blank)
<1>5. cfg'.mappings = t
  BY <1>1 DEF TuiInv, IsConfig
<1>6. Blank \in MappingType
  BY DEF Blank, MappingType
<1>7. /\ t \in Seq(MappingType) /\ Len(t) = Len(s) + 1 /\ t[Len(s) + 1] = Blank
      /\ \A i \in 1 .. Len(s) : t[i] = s[i]
  BY <1>0, <1>6, AppendProperties
<1> HIDE DEF t
<1>8. RemoveAt(t, Len(t)) = s
  <2> DEFINE r == RemoveAt(t, Len(t))
  <2>1. Len(t) \in 1 .. Len(t)
    BY <1>0, <1>7
  <2>2. /\ r \in Seq(MappingType) /\ Len(r) = Len(t) - 1
        /\ \A k \in 1 .. Len(t) - 1 : r[k] = IF k < Len(t) THEN t[k] ELSE t[k + 1]
    BY <1>7, <2>1, RemoveAtFacts
  <2> HIDE DEF r
  <2>3. Len(r) = Len(s) /\ \A k \in 1 .. Len(s) : r[k] = s[k]
    BY <1>0, <1>7, <2>2
  <2>4. r = s
    BY <1>0, <2>2, <2>3, SeqEqual
  <2> QED
    BY <2>4 DEF r
<1>9. cfg'.mappings # <<>> /\ cfg'.mappings[Len(cfg'.mappings)] = Blank
  BY <1>0, <1>5, <1>7
<1>10. Kept(cfg') = [cfg' EXCEPT !.mappings = s]
  BY <1>5, <1>8, <1>9 DEF Kept
<1>11. [cfg' EXCEPT !.mappings = s] = cfg
  <2>1. cfg = [x \in DOMAIN cfg |-> cfg[x]]
    BY DEF IsShaped
  <2> QED
    BY <1>1, <2>1
<1>12. ~Draft'
  <2>1. DOMAIN t = 1 .. Len(s) + 1
    BY <1>0, <1>7, LenProperties
  <2>2. \A i \in DOMAIN t : i # Len(s) + 1 => i \in DOMAIN s /\ t[i] = s[i]
    BY <1>0, <1>7, <2>1
  <2>3. ~Cleared'
    BY <1>1, <1>3, <1>5, <2>2 DEF Cleared
  <2> QED
    BY <1>0, <1>1, <1>5, <1>7, <2>3 DEF Draft, Mapping
<1> QED
  BY <1>4, <1>10, <1>11, <1>12

\* Discarding a mapping that was not edited.
LEMMA DiscardKept ==
    ASSUME TuiInv, CreateInv, IsConfig(cfg'), DiscardMapping, ~Draft
    PROVE  Kept(cfg') = Kept(cfg) /\ ~Draft'
<1>0. /\ Len(cfg.mappings) \in Nat /\ DOMAIN cfg.mappings = 1 .. Len(cfg.mappings)
      /\ DOMAIN cfg = {"sources", "secrets", "mappings", "agent"}
  BY ConfigFacts DEF TuiInv, IsConfig
<1>1. /\ Running /\ Running' /\ at = "form" /\ form.creating /\ Incomplete(Mapping)
      /\ cfg' = [cfg EXCEPT !.mappings = RemoveAt(cfg.mappings, form.idx)] /\ ~form'.creating
  BY DEF DiscardMapping, On, NoForm, IsEmpty, IsPartial, Incomplete, Running, loopVars
<1>2. form.idx \in DOMAIN cfg.mappings /\ form.idx = Len(cfg.mappings)
  BY <1>1, OpenMapping DEF CreateInv
<1>3. Mapping = Blank
  BY <1>1 DEF Draft
<1>4. cfg.mappings # <<>> /\ cfg.mappings[Len(cfg.mappings)] = Blank
  BY <1>2, <1>3 DEF Mapping
<1>5. Kept(cfg) = cfg'
  BY <1>1, <1>2, <1>4 DEF Kept
<1>6. \A j \in DOMAIN cfg'.mappings : cfg'.mappings[j].kind # ""
  <2> DEFINE s == cfg.mappings
             t == RemoveAt(s, form.idx)
  <2>1. s \in Seq(Range(s))
    <3>1. s \in Seq(MappingType)
      BY ConfigFacts DEF TuiInv
    <3>2. s \in [1 .. Len(s) -> Range(s)]
      <4>1. s \in [1 .. Len(s) -> MappingType]
        BY <3>1, LenProperties
      <4> QED
        BY <4>1 DEF Range
    <3> QED
      BY <1>0, <3>2
  <2>2. \A j \in DOMAIN t : \E k \in DOMAIN s \ {form.idx} : t[j] = s[k]
    <3>1. form.idx \in DOMAIN s
      BY <1>2
    <3> HIDE DEF s
    <3>2. \A i \in DOMAIN s : \A j \in DOMAIN RemoveAt(s, i) : \E k \in DOMAIN s \ {i} : RemoveAt(s, i)[j] = s[k]
      BY <2>1, SeqRemoved
    <3> QED
      BY <3>1, <3>2
  <2>3. \A k \in DOMAIN s \ {form.idx} : s[k].kind # ""
    BY DEF Draft, Cleared
  <2>4. cfg'.mappings = t
    BY <1>0, <1>1
  <2> HIDE DEF s, t
  <2> QED
    BY <2>2, <2>3, <2>4
<1>7. Kept(cfg') = cfg'
  BY <1>6, KeptWhole
<1>8. ~Draft'
  BY <1>1, <1>6 DEF Draft, Cleared
<1> QED
  BY <1>5, <1>7, <1>8

\* What is known of edits that are not in the file stays so.
LEMMA SyncStep ==
    ASSUME TuiInv, TuiInv', CreateInv, DictInv, SyncInv, [Next]_vars
    PROVE  SyncInv'
<1> SUFFICES ASSUME Running', ~overlap' PROVE SyncFacts'
  BY DEF SyncInv
<1>0. saves \in Seq(Range(saves)) /\ (\A j \in DOMAIN saves : IsSave(saves[j], minted)) /\ minted \in Nat
  BY DEF DictInv
<1>s. ASSUME Running, overlap' = overlap PROVE SyncFacts
  BY <1>s DEF SyncInv
<1>1. ASSUME Running, UNCHANGED <<written, saves, msgs, dirty, overlap, silent, failed>>, Kept(cfg') = Kept(cfg),
             Draft' => Draft
      PROVE  SyncFacts'
  <2>1. (Told' <=> Told) /\ (Reports' <=> Reports) /\ (Synced' <=> Synced)
    BY <1>1 DEF Told, Reports, Synced
  <2>2. SyncFacts
    BY <1>1, <1>s
  <2> QED
    BY <1>1, <2>1, <2>2 DEF SyncFacts
<1>d. ASSUME Running, UNCHANGED <<written, saves, msgs, dirty, overlap, silent, failed>>, Draft
      PROVE  SyncFacts'
  <2>1. Told /\ ~Reports /\ \A i \in DOMAIN saves : saves[i].phase = "clone"
    BY <1>d, <1>s DEF SyncFacts
  <2>2. Told' /\ ~Reports'
    BY <1>d, <2>1 DEF Told, Reports
  <2> QED
    BY <1>d, <2>1, <2>2 DEF SyncFacts
<1>2. CASE StillFrame
  <2>1. UNCHANGED <<cfg, written, saves, msgs, dirty, overlap, silent, failed, quit>>
    BY <1>2 DEF StillFrame, cfgVars, saveVars, loopVars, editVars
  <2>2. Draft' => Draft
    <3>1. CASE form' = form
      BY <2>1, <3>1 DEF Draft, Cleared, Mapping
    <3>2. CASE LeaveForm \/ \E i : EditMapping(i)
      <4>1. NoForm.creating = FALSE /\ \A i : [NoForm EXCEPT !.idx = i].creating = FALSE
        BY DEF NoForm
      <4>2. form' = NoForm \/ \E i : form' = [NoForm EXCEPT !.idx = i]
        BY <3>2 DEF LeaveForm, EditMapping
      <4>3. ~form'.creating
        BY <4>1, <4>2
      <4>4. form.creating => Mapping.kind # ""
        BY <3>2 DEF LeaveForm, IsEmpty, IsPartial, EditMapping, On, TuiInv, FormInv, CreateInv
      <4>5. Cleared' => Cleared
        BY <2>1, <4>3, <4>4 DEF Cleared, Mapping
      <4> QED
        BY <4>3, <4>5 DEF Draft
    <3> QED
      BY <1>2, <3>1, <3>2 DEF StillFrame
  <2> QED
    BY <1>1, <2>1, <2>2 DEF Running
<1>3. CASE EditFrame
  <2>1. ~Busy /\ msgs' = msgs \cup {"dirty"} /\ saves' = saves
    BY <1>3 DEF EditFrame, saveVars
  <2>2. saves' = <<>> /\ "saved" \notin msgs' /\ "saved_quit" \notin msgs' /\ "menu_quit" \notin msgs'
    BY <2>1 DEF Busy, QuitMsgs
  <2>3. DOMAIN saves' = {} /\ Told' /\ ~Reports'
    BY <2>1, <2>2 DEF Told, Reports
  <2> QED
    BY <2>3 DEF SyncFacts
<1>4. CASE ArnFrame
  <2>1. /\ ~Busy /\ msgs' = msgs /\ saves' = saves /\ silent' /\ form' = form /\ Running
        /\ dirty' = dirty /\ ~overlap
    BY <1>4 DEF ArnFrame, saveVars, loopVars
  <2>2. saves' = <<>> /\ "saved" \notin msgs' /\ "saved_quit" \notin msgs' /\ "menu_quit" \notin msgs'
    BY <2>1 DEF Busy, QuitMsgs
  <2>3. DOMAIN saves' = {} /\ ~Reports'
    BY <2>2 DEF Reports
  <2>4. cfg'.mappings = cfg.mappings
    BY <1>4 DEF ArnFrame, TuiInv, IsConfig
  <2>5. Draft' => Told'
    <3>1. Draft' => Draft
      BY <2>1, <2>4 DEF Draft, Cleared, Mapping
    <3>2. Draft => Told
      BY <2>1 DEF SyncInv, SyncFacts
    <3>3. Told' <=> Told
      BY <2>1 DEF Told
    <3> QED
      BY <3>1, <3>2, <3>3
  <2> QED
    BY <2>1, <2>3, <2>5 DEF SyncFacts
<1>5. CASE NewMapping
  <2>1. Running /\ UNCHANGED <<written, saves, msgs, dirty, overlap, silent, failed>>
    BY <1>5 DEF NewMapping, On, saveVars, loopVars, editVars
  <2>2. ~Draft => Kept(cfg') = Kept(cfg) /\ ~Draft'
    BY <1>5, NewKept DEF DictInv
  <2> QED
    BY <1>1, <1>d, <2>1, <2>2
<1>6. CASE DiscardMapping
  <2>1. Running /\ UNCHANGED <<written, saves, msgs, dirty, overlap, silent, failed>>
    BY <1>6 DEF DiscardMapping, On, saveVars, loopVars, editVars
  <2>2. ~Draft => Kept(cfg') = Kept(cfg) /\ ~Draft'
    BY <1>6, DiscardKept DEF TuiInv
  <2> QED
    BY <1>1, <1>d, <2>1, <2>2
<1>7. ASSUME NEW kind, Start(kind), Running, form' = form PROVE SyncFacts'
  <2>1. saves' = Append(saves, NewSave(kind)) /\ UNCHANGED <<cfg, written, msgs, dirty, overlap, silent, failed>>
    BY <1>7 DEF Start, cfgVars, loopVars, editVars
  <2>s. SyncFacts
    BY <1>7, <2>1, <1>s
  <2>2. \A j \in DOMAIN saves' : (j \in DOMAIN saves /\ saves'[j] = saves[j]) \/ saves'[j].phase = "clone"
    BY <1>0, <2>1, SeqAdded DEF NewSave
  <2>3. (Told' <=> Told) /\ (Reports' <=> Reports) /\ (Synced' <=> Synced) /\ (Draft' <=> Draft) /\ Kept(cfg') = Kept(cfg)
    BY <1>7, <2>1 DEF Told, Reports, Synced, Draft, Cleared, Mapping
  <2>4. \A j \in DOMAIN saves' : /\ saves'[j].phase = "write" => saves'[j].snap = Kept(cfg)
                                 /\ saves'[j].phase = "take" => Synced
    BY <2>s, <2>2 DEF SyncFacts
  <2> QED
    BY <1>7, <2>s, <2>1, <2>2, <2>3, <2>4 DEF SyncFacts
<1>8. ASSUME NEW i \in DOMAIN saves, Clone(i) PROVE SyncFacts'
  <2>1. Running /\ Valid(cfg) /\ UNCHANGED <<cfg, written, msgs, dirty, overlap, silent, failed, form>>
    BY <1>8 DEF Clone, Save, cfgVars, loopVars, editVars, screenVars
  <2>s. SyncFacts
    BY <2>1, <1>s
  <2>2. Kept(cfg) = cfg /\ ~Draft
    BY <2>1, ValidFacts
  <2>3. /\ DOMAIN saves' = DOMAIN saves
        /\ \A j \in DOMAIN saves \ {i} : saves'[j] = saves[j]
        /\ saves'[i] = [kind |-> saves[i].kind, phase |-> "write", snap |-> cfg,
                        old |-> saves[i].old, new |-> saves[i].new]
    BY <1>0, <1>8, SavesChanged
  <2>4. saves'[i].phase = "write" /\ saves'[i].snap = Kept(cfg)
    BY <2>2, <2>3
  <2>5. (Told' <=> Told) /\ (Reports' <=> Reports) /\ (Synced' <=> Synced) /\ ~Draft'
    BY <2>1, <2>2 DEF Told, Reports, Synced, Draft, Cleared, Mapping
  <2>6. \A j \in DOMAIN saves' : /\ saves'[j].phase = "write" => saves'[j].snap = Kept(cfg)
                                 /\ saves'[j].phase = "take" => Synced
    BY <2>s, <2>1, <2>3, <2>4 DEF SyncFacts
  <2> QED
    BY <2>s, <2>1, <2>5, <2>6 DEF SyncFacts
<1>9. ASSUME NEW i \in DOMAIN saves, Fail(i) PROVE SyncFacts'
  <2>1. /\ Running /\ UNCHANGED <<cfg, written, dirty, overlap, silent, form>>
        /\ msgs' = IF saves[i].kind = "menu" THEN msgs \cup {"menu_quit"} ELSE msgs
        /\ failed' = (failed \/ saves[i].kind = "menu")
    BY <1>9 DEF Fail, cfgVars, editVars, screenVars
  <2>s. SyncFacts
    BY <2>1, <1>s
  <2>2. \A j \in DOMAIN saves' : \E k \in DOMAIN saves \ {i} : saves'[j] = saves[k]
    BY <1>0, <1>9, SavesChanged
  <2>3. (Told => Told') /\ (Reports' => Reports) /\ (Synced' <=> Synced) /\ (Draft' <=> Draft) /\ Kept(cfg') = Kept(cfg)
    BY <2>1 DEF Told, Reports, Synced, Draft, Cleared, Mapping
  <2>4. \A j \in DOMAIN saves' : /\ saves'[j].phase = "write" => saves'[j].snap = Kept(cfg)
                                 /\ saves'[j].phase = "take" => Synced
    BY <2>s, <2>1, <2>2 DEF SyncFacts
  <2> QED
    BY <2>s, <2>1, <2>2, <2>3, <2>4 DEF SyncFacts
<1>10. ASSUME NEW i \in DOMAIN saves, WriteOut(i) PROVE SyncFacts'
  <2>0. Running
    BY <1>10 DEF WriteOut, Save
  <2>1. PICK inv, ids : WriteBy(i, inv, ids)
    BY <1>10, WritesBy
  <2>2. /\ UNCHANGED <<cfg, msgs, dirty, overlap, failed, form>> /\ written' = saves[i].snap /\ saves[i].phase = "write"
    BY <2>1 DEF WriteBy, cfgVars
  <2>s. SyncFacts
    BY <2>0, <2>2, <1>s
  <2>3. /\ DOMAIN saves' = DOMAIN saves
        /\ \A j \in DOMAIN saves \ {i} : saves'[j] = saves[j]
        /\ saves'[i] = [kind |-> saves[i].kind, phase |-> "take", snap |-> saves[i].snap,
                        old |-> saves[i].old, new |-> DictOf(ids)]
    BY <1>0, <2>1, SavesChanged
  <2>4. Synced' /\ ~Draft /\ (Draft' <=> Draft)
    BY <2>s, <2>0, <2>2 DEF Synced, Draft, Cleared, Mapping, SyncFacts
  <2>5. saves'[i].phase = "take"
    BY <2>3
  <2> QED
    BY <2>s, <2>0, <2>2, <2>3, <2>4, <2>5 DEF SyncFacts
<1>11. ASSUME NEW i \in DOMAIN saves, TakeOver(i) PROVE SyncFacts'
  <2>1. /\ Running /\ UNCHANGED <<cfg, written, dirty, overlap, silent, failed, form>> /\ saves[i].phase = "take"
        /\ msgs \subseteq msgs'
    BY <1>11 DEF TakeOver, Save, loopVars, editVars, screenVars
  <2>s. SyncFacts
    BY <2>1, <1>s
  <2>2. \A j \in DOMAIN saves' : \E k \in DOMAIN saves \ {i} :
           saves'[j].phase = saves[k].phase /\ saves'[j].snap = saves[k].snap
    BY <1>0, <1>11, SavesChanged
  <2>3. Synced /\ ~Draft
    BY <2>s, <2>1 DEF SyncFacts
  <2>4. Synced' /\ ~Draft' /\ Kept(cfg') = Kept(cfg)
    BY <2>1, <2>3 DEF Synced, Draft, Cleared, Mapping
  <2>5. \A j \in DOMAIN saves' : saves'[j].phase = "write" => saves'[j].snap = Kept(cfg)
    BY <2>s, <2>1, <2>2 DEF SyncFacts
  <2> QED
    BY <2>4, <2>5 DEF SyncFacts
<1>12. CASE GetDirty
  <2>1. /\ Running /\ UNCHANGED <<cfg, written, saves, overlap, silent, failed, form>> /\ dirty'
        /\ msgs' = msgs \ {"dirty"}
    BY <1>12 DEF GetDirty, cfgVars, saveVars, editVars, screenVars
  <2>s. SyncFacts
    BY <2>1, <1>s
  <2>2. Told' /\ (Reports' <=> Reports) /\ (Synced' <=> Synced) /\ (Draft' <=> Draft) /\ Kept(cfg') = Kept(cfg)
    BY <2>1 DEF Told, Reports, Synced, Draft, Cleared, Mapping
  <2> QED
    BY <2>s, <2>1, <2>2 DEF SyncFacts
<1>13. CASE GetSaved
  <2>1. /\ Running /\ UNCHANGED <<cfg, written, saves, overlap, silent, failed, form>> /\ "saved" \in msgs
    BY <1>13 DEF GetSaved, cfgVars, saveVars, editVars, screenVars
  <2>s. SyncFacts
    BY <2>1, <1>s
  <2>2. Synced /\ ~Draft
    BY <2>s, <2>1 DEF Reports, SyncFacts
  <2>3. Synced' /\ ~Draft' /\ Kept(cfg') = Kept(cfg)
    BY <2>1, <2>2 DEF Synced, Draft, Cleared, Mapping
  <2> QED
    BY <2>s, <2>1, <2>3 DEF SyncFacts
<1>14. ~EndFrame
  BY DEF EndFrame, Gone, QuitClean, GetQuit, Ends, QuitMsgs, Running
<1>15. CfgStep => EditFrame \/ ArnFrame \/ NewMapping \/ DiscardMapping \/ StillFrame
  BY EditFrames
<1> QED
  BY <1>2, <1>3, <1>4, <1>5, <1>6, <1>7, <1>8, <1>9, <1>10, <1>11, <1>12, <1>13, <1>14, <1>15, Steps

\* A session ends with its edits in the file, or with somebody told.
LEMMA EndStep ==
    ASSUME SyncInv, EndInv, [Next]_vars
    PROVE  EndInv'
<1> SUFFICES ASSUME ~overlap', ~silent', ~failed', "dirty" \notin msgs',
                    quit' \in {"clean", "saved_quit", "menu_quit"}
             PROVE  Synced'
  BY DEF EndInv
<1>1. CASE EndFrame
  <2>1. Running /\ UNCHANGED <<cfg, written, overlap, silent, failed, dirty>>
    BY <1>1 DEF EndFrame, Gone, QuitClean, GetQuit, Ends, cfgVars, editVars
  <2>2. SyncFacts
    BY <2>1 DEF SyncInv
  <2>3. Synced' <=> Synced
    BY <2>1 DEF Synced
  <2>4. ~(Gone("crashed") \/ Gone("discarded"))
    BY DEF Gone, Ends
  <2>5. CASE ~dirty /\ QuitClean
    <3>1. msgs' = msgs
      BY <2>5 DEF QuitClean
    <3>2. ~Told /\ ~silent
      BY <2>1, <2>5, <3>1 DEF Told
    <3> QED
      BY <2>2, <2>3, <3>2 DEF SyncFacts
  <2>6. ASSUME NEW m \in QuitMsgs, GetQuit(m) PROVE Synced'
    <3>1. m \in msgs /\ ~failed
      BY <2>1, <2>6 DEF GetQuit
    <3>2. Reports
      BY <3>1 DEF Reports, QuitMsgs
    <3> QED
      BY <2>2, <2>3, <3>2 DEF SyncFacts
  <2> QED
    BY <1>1, <2>4, <2>5, <2>6 DEF EndFrame
<1>2. CASE StillFrame
  <2>1. UNCHANGED <<cfg, written, overlap, silent, failed, msgs, quit>>
    BY <1>2 DEF StillFrame, cfgVars, saveVars, loopVars, editVars
  <2>2. Synced
    BY <2>1 DEF EndInv
  <2> QED
    BY <2>1, <2>2 DEF Synced
<1>3. ASSUME Running, quit' = quit PROVE FALSE
  BY <1>3 DEF Running
<1>4. CASE EditFrame \/ ArnFrame \/ NewMapping \/ DiscardMapping
  <2>1. Running /\ quit' = quit
    BY <1>4 DEF EditFrame, ArnFrame, NewMapping, DiscardMapping, On, loopVars
  <2> QED
    BY <1>3, <2>1
<1>5. ASSUME NEW x, (\E kind : Start(kind) /\ Running) \/ Clone(x) \/ Fail(x) \/ WriteOut(x) \/ TakeOver(x) \/ GetDirty \/ GetSaved
      PROVE  FALSE
  <2>1. Running /\ quit' = quit
    BY <1>5 DEF Start, Clone, Fail, WriteOut, TakeOver, GetDirty, GetSaved, Save, loopVars
  <2> QED
    BY <1>3, <2>1
<1>6. CfgStep => EditFrame \/ ArnFrame \/ NewMapping \/ DiscardMapping \/ StillFrame
  BY EditFrames
<1> QED
  BY <1>1, <1>2, <1>4, <1>5, <1>6, Steps

\* A value that looks like an envelope is not dropped with an empty mapping.
LEMMA KeptEnvelopes ==
    ASSUME NEW c, IsConfig(c), HoldsEnvelope(Kept(c))
    PROVE  HoldsEnvelope(c)
<1> DEFINE s == c.mappings
           t == RemoveAt(s, Len(s))
<1>0. /\ DOMAIN c = {"sources", "secrets", "mappings", "agent"}
      /\ Len(s) \in Nat /\ DOMAIN s = 1 .. Len(s) /\ s \in Seq(MappingType)
  BY ConfigFacts DEF IsConfig
<1>1. CASE Kept(c) = c
  BY <1>1
<1>2. CASE s # <<>> /\ Kept(c) = [c EXCEPT !.mappings = t]
  <2>1. Len(s) \in 1 .. Len(s)
    BY <1>0, <1>2, EmptySeq, LastIndex
  <2>2. /\ t \in Seq(MappingType) /\ Len(t) = Len(s) - 1
        /\ \A k \in 1 .. Len(s) - 1 : t[k] = IF k < Len(s) THEN s[k] ELSE s[k + 1]
    BY <1>0, <2>1, RemoveAtFacts
  <2> HIDE DEF t
  <2>3. DOMAIN t = 1 .. Len(s) - 1
    BY <2>2, LenProperties
  <2>4. \A k \in DOMAIN t : k \in DOMAIN s /\ t[k] = s[k]
    BY <1>0, <2>2, <2>3
  <2>5. Kept(c).sources = c.sources /\ Kept(c).secrets = c.secrets /\ Kept(c).mappings = t
    BY <1>0, <1>2
  <2> HIDE DEF s
  <2>6. c.mappings = s
    BY DEF s
  <2> QED
    BY <2>4, <2>5, <2>6 DEF HoldsEnvelope
<1> QED
  BY <1>1, <1>2 DEF Kept

\* A session that ends without asking, or after a save, has its edits in the
\* file (quitOrConfirm, quitFlow, saveAndQuitCmd) - unless something was edited
\* beside a save, the ARN list was opened, the menu's save failed, or a
\* dirtyMsg is still on its way.  The file opens, unless a value in it looks
\* like an envelope.
THEOREM NothingLost == Spec => []NoSilentLoss
<1>1. Init => CreateInv /\ SyncInv /\ EndInv
  <2> SUFFICES ASSUME Init PROVE CreateInv /\ SyncInv /\ EndInv
    OBVIOUS
  <2>1. /\ cfg = Started /\ written = cfg /\ saves = <<>> /\ msgs = {} /\ quit = "no"
        /\ form = NoForm
    BY DEF Init
  <2>2. DOMAIN saves = {} /\ ~form.creating
    <3>1. NoForm.creating = FALSE
      BY DEF NoForm
    <3>2. DOMAIN saves = {}
      BY <2>1
    <3> QED
      BY <2>1, <3>1, <3>2
  <2>3. \A i \in DOMAIN cfg.mappings : cfg.mappings[i].kind # ""
    BY <2>1, TuiAssumption DEF Valid, ValidMapping
  <2>4. Synced
    BY <2>1, <2>3, KeptWhole, TuiAssumption DEF Synced
  <2> QED
    BY <2>1, <2>2, <2>3, <2>4, CreateInit DEF SyncInv, SyncFacts, EndInv, Draft, Cleared
<1>2. TuiInv /\ TuiInv' /\ CreateInv /\ [Next]_vars => CreateInv'
  BY CreateStep
<1>3. TuiInv /\ TuiInv' /\ CreateInv /\ DictInv /\ SyncInv /\ [Next]_vars => SyncInv'
  BY SyncStep
<1>4. SyncInv /\ EndInv /\ [Next]_vars => EndInv'
  BY EndStep
<1>5. TuiInv /\ EndInv /\ RoundTrip => NoSilentLoss
  BY KeptEnvelopes DEF TuiInv, EndInv, RoundTrip, NoSilentLoss, Synced
<1> QED
  BY <1>1, <1>2, <1>3, <1>4, <1>5, TuiInvariant, DictInvariant, FileDecodes, PTL DEF Spec

-----------------------------------------------------------------------------
(* The ids of bags.                                                         *)

\* The bags after one was added, deleted or renamed.
LEMMA BagsNow ==
    ASSUME IsShaped(cfg), NEW b, NEW c
    PROVE  /\ AddBag(b) => /\ DOMAIN cfg'.secrets = DOMAIN cfg.secrets \cup {b}
                           /\ b \notin DOMAIN cfg.secrets /\ cfg'.secrets[b].born = born + 1
                           /\ \A x \in DOMAIN cfg.secrets : cfg'.secrets[x] = cfg.secrets[x]
           /\ DeleteBag(b) => /\ DOMAIN cfg'.secrets \subseteq DOMAIN cfg.secrets
                              /\ \A x \in DOMAIN cfg'.secrets : cfg'.secrets[x] = cfg.secrets[x]
           /\ RenameBag(b, c) => /\ DOMAIN cfg'.secrets = (DOMAIN cfg.secrets \ {b}) \cup {c}
                                 /\ b \in DOMAIN cfg.secrets /\ c \notin DOMAIN cfg.secrets
                                 /\ cfg'.secrets[c] = cfg.secrets[b]
                                 /\ \A x \in DOMAIN cfg.secrets \ {b} : cfg'.secrets[x] = cfg.secrets[x]
<1> USE DEF Edited
<1>0. DOMAIN cfg = {"sources", "secrets", "mappings", "agent"}
  BY DEF IsShaped
<1>1. ASSUME AddBag(b)
      PROVE  /\ DOMAIN cfg'.secrets = DOMAIN cfg.secrets \cup {b}
             /\ b \notin DOMAIN cfg.secrets /\ cfg'.secrets[b].born = born + 1
             /\ \A x \in DOMAIN cfg.secrets : cfg'.secrets[x] = cfg.secrets[x]
  <2>1. /\ cfg'.secrets = With(cfg.secrets, b, [born |-> born + 1, kv |-> [k \in {} |-> ""]])
        /\ b \notin DOMAIN cfg.secrets
    BY <1>0, <1>1 DEF AddBag
  <2> QED
    BY <2>1 DEF With
<1>2. ASSUME DeleteBag(b)
      PROVE  /\ DOMAIN cfg'.secrets \subseteq DOMAIN cfg.secrets
             /\ \A x \in DOMAIN cfg'.secrets : cfg'.secrets[x] = cfg.secrets[x]
  <2>1. cfg'.secrets = Without(cfg.secrets, b)
    BY <1>0, <1>2 DEF DeleteBag
  <2> QED
    BY <2>1 DEF Without
<1>3. ASSUME RenameBag(b, c)
      PROVE  /\ DOMAIN cfg'.secrets = (DOMAIN cfg.secrets \ {b}) \cup {c}
             /\ b \in DOMAIN cfg.secrets /\ c \notin DOMAIN cfg.secrets
             /\ cfg'.secrets[c] = cfg.secrets[b]
             /\ \A x \in DOMAIN cfg.secrets \ {b} : cfg'.secrets[x] = cfg.secrets[x]
  <2>1. b \in DOMAIN cfg.secrets /\ c \notin DOMAIN cfg.secrets
    BY <1>3 DEF RenameBag
  <2>2. cfg'.secrets = Renamed(cfg.secrets, b, c)
    <3> DEFINE d == [cfg EXCEPT !.secrets = Renamed(cfg.secrets, b, c)]
    <3>1. \E m : cfg' = [d EXCEPT !.mappings = m]
      BY <1>3 DEF RenameBag, MapVars
    <3> QED
      BY <1>0, <3>1
  <2> QED
    BY <2>1, <2>2 DEF Renamed, With, Without
<1> QED
  BY <1>1, <1>2, <1>3

\* Bags are told apart by the order of their creation, in memory and in clones.
LEMMA BornStep ==
    ASSUME DictInv, BornInv, [Next]_vars
    PROVE  BornInv'
<1>0. /\ saves \in Seq(Range(saves)) /\ (\A j \in DOMAIN saves : IsSave(saves[j], minted)) /\ minted \in Nat
      /\ IsShaped(cfg) /\ IsMap(idmap)
  BY DEF DictInv, IsDict, IsMap
<1>b. /\ born \in Nat /\ DOMAIN idOf \subseteq 1 .. born
      /\ \A b \in DOMAIN cfg.secrets : cfg.secrets[b].born \in 1 .. born
      /\ \A a, b \in DOMAIN cfg.secrets : cfg.secrets[a].born = cfg.secrets[b].born => a = b
      /\ \A i \in DOMAIN saves : saves[i].phase = "write" =>
            \A b \in DOMAIN saves[i].snap.secrets : saves[i].snap.secrets[b].born \in 1 .. born
  BY DEF BornInv, BornInOrder
<1>1. CASE StillFrame \/ GetDirty \/ GetSaved
  <2>1. UNCHANGED <<cfg, born, idOf, saves>>
    BY <1>1 DEF StillFrame, GetDirty, GetSaved, cfgVars, saveVars, editVars
  <2> QED
    BY <1>b, <2>1 DEF BornInv, BornInOrder
<1>2. CASE CfgStep
  <2>1. UNCHANGED <<idOf, saves>>
    BY <1>2, EditFrames DEF EditFrame, ArnFrame, StillFrame, NewMapping, DiscardMapping, saveVars
  <2>2. BagChange
    BY <1>0, <1>2, EditShapes
  <2>3. /\ born' \in Nat /\ born <= born'
        /\ \A b \in DOMAIN cfg'.secrets : cfg'.secrets[b].born \in 1 .. born'
        /\ \A a, b \in DOMAIN cfg'.secrets : cfg'.secrets[a].born = cfg'.secrets[b].born => a = b
    <3>1. CASE SameBags
      BY <1>b, <3>1 DEF SameBags
    <3>2. ASSUME NEW b, AddBag(b)
          PROVE  /\ born' \in Nat /\ born <= born'
                 /\ \A x \in DOMAIN cfg'.secrets : cfg'.secrets[x].born \in 1 .. born'
                 /\ \A a, x \in DOMAIN cfg'.secrets : cfg'.secrets[a].born = cfg'.secrets[x].born => a = x
      <4>1. born' = born + 1
        BY <3>2 DEF AddBag
      <4>2. /\ DOMAIN cfg'.secrets = DOMAIN cfg.secrets \cup {b} /\ cfg'.secrets[b].born = born + 1
            /\ \A x \in DOMAIN cfg.secrets : cfg'.secrets[x].born = cfg.secrets[x].born
        BY <1>0, <3>2, BagsNow
      <4>3. \A x \in DOMAIN cfg.secrets : cfg'.secrets[x].born \in 1 .. born
        BY <1>b, <4>2
      <4>4. born + 1 \notin 1 .. born /\ (\A n \in 1 .. born : n \in 1 .. born + 1) /\ born + 1 \in 1 .. born + 1
        BY <1>b
      <4> QED
        BY <1>b, <4>1, <4>2, <4>3, <4>4
    <3>3. ASSUME NEW b, DeleteBag(b)
          PROVE  /\ born' \in Nat /\ born <= born'
                 /\ \A x \in DOMAIN cfg'.secrets : cfg'.secrets[x].born \in 1 .. born'
                 /\ \A a, x \in DOMAIN cfg'.secrets : cfg'.secrets[a].born = cfg'.secrets[x].born => a = x
      <4>1. born' = born
        BY <3>3 DEF DeleteBag, Same
      <4>2. /\ DOMAIN cfg'.secrets \subseteq DOMAIN cfg.secrets
            /\ \A x \in DOMAIN cfg'.secrets : cfg'.secrets[x] = cfg.secrets[x]
        BY <1>0, <3>3, BagsNow
      <4> QED
        BY <1>b, <4>1, <4>2
    <3>4. ASSUME NEW b, NEW c, RenameBag(b, c)
          PROVE  /\ born' \in Nat /\ born <= born'
                 /\ \A x \in DOMAIN cfg'.secrets : cfg'.secrets[x].born \in 1 .. born'
                 /\ \A a, x \in DOMAIN cfg'.secrets : cfg'.secrets[a].born = cfg'.secrets[x].born => a = x
      <4>1. born' = born
        BY <3>4 DEF RenameBag
      <4>2. /\ DOMAIN cfg'.secrets = (DOMAIN cfg.secrets \ {b}) \cup {c}
            /\ b \in DOMAIN cfg.secrets /\ cfg'.secrets[c] = cfg.secrets[b]
            /\ \A x \in DOMAIN cfg.secrets \ {b} : cfg'.secrets[x] = cfg.secrets[x]
        BY <1>0, <3>4, BagsNow
      <4> QED
        BY <1>b, <4>1, <4>2
    <3> QED
      BY <2>2, <3>1, <3>2, <3>3, <3>4 DEF BagChange
  <2>4. \A n \in 1 .. born : n \in 1 .. born'
    BY <1>b, <2>3
  <2>5. DOMAIN idOf' \subseteq 1 .. born'
    BY <1>b, <2>1, <2>4
  <2>6. \A i \in DOMAIN saves' : saves'[i].phase = "write" =>
            \A b \in DOMAIN saves'[i].snap.secrets : saves'[i].snap.secrets[b].born \in 1 .. born'
    BY <1>b, <2>1, <2>4
  <2> QED
    BY <2>3, <2>5, <2>6 DEF BornInv, BornInOrder
<1>3. ASSUME NEW kind, Start(kind) PROVE BornInv'
  <2>1. saves' = Append(saves, NewSave(kind)) /\ UNCHANGED <<cfg, born, idOf>>
    BY <1>3 DEF Start, cfgVars, editVars
  <2>2. \A j \in DOMAIN saves' : (j \in DOMAIN saves /\ saves'[j] = saves[j]) \/ saves'[j].phase = "clone"
    BY <1>0, <2>1, SeqAdded DEF NewSave
  <2> QED
    BY <1>b, <2>1, <2>2 DEF BornInv, BornInOrder
<1>4. ASSUME NEW i \in DOMAIN saves, Clone(i) PROVE BornInv'
  <2>1. UNCHANGED <<cfg, born, idOf>>
    BY <1>4 DEF Clone, cfgVars, editVars
  <2>2. /\ DOMAIN saves' = DOMAIN saves
        /\ \A j \in DOMAIN saves \ {i} : saves'[j] = saves[j]
        /\ saves'[i] = [kind |-> saves[i].kind, phase |-> "write", snap |-> cfg,
                        old |-> saves[i].old, new |-> saves[i].new]
    BY <1>0, <1>4, SavesChanged
  <2>3. saves'[i].snap = cfg
    BY <2>2
  <2> QED
    BY <1>b, <2>1, <2>2, <2>3 DEF BornInv, BornInOrder
<1>5. ASSUME NEW i \in DOMAIN saves, Fail(i) \/ TakeOver(i) PROVE BornInv'
  <2>1. UNCHANGED <<cfg, born, idOf>>
    BY <1>5 DEF Fail, TakeOver, cfgVars, editVars
  <2>2. \A j \in DOMAIN saves' : \E k \in DOMAIN saves \ {i} :
           saves'[j].phase = saves[k].phase /\ saves'[j].snap = saves[k].snap
    BY <1>0, <1>5, SavesChanged
  <2> QED
    BY <1>b, <2>1, <2>2 DEF BornInv, BornInOrder
<1>6. ASSUME NEW i \in DOMAIN saves, WriteOut(i) PROVE BornInv'
  <2>1. PICK inv, ids : WriteBy(i, inv, ids)
    BY <1>6, WritesBy
  <2>2. /\ UNCHANGED <<cfg, born>> /\ saves[i].phase = "write"
        /\ DOMAIN idOf' = DOMAIN idOf \cup {saves[i].snap.secrets[b].born : b \in DOMAIN saves[i].snap.secrets}
    BY <2>1 DEF WriteBy, cfgVars
  <2>3. /\ DOMAIN saves' = DOMAIN saves
        /\ \A j \in DOMAIN saves \ {i} : saves'[j] = saves[j]
        /\ saves'[i] = [kind |-> saves[i].kind, phase |-> "take", snap |-> saves[i].snap,
                        old |-> saves[i].old, new |-> DictOf(ids)]
    BY <1>0, <2>1, SavesChanged
  <2>4. saves'[i].phase = "take"
    BY <2>3
  <2>5. DOMAIN idOf' \subseteq 1 .. born
    BY <1>b, <2>2
  <2>6. \A j \in DOMAIN saves' : saves'[j].phase = "write" =>
            \A b \in DOMAIN saves'[j].snap.secrets : saves'[j].snap.secrets[b].born \in 1 .. born
    BY <1>b, <2>3, <2>4
  <2> QED
    BY <1>b, <2>2, <2>5, <2>6 DEF BornInv, BornInOrder
<1>7. CASE EndFrame
  <2>1. UNCHANGED <<cfg, born, idOf>> /\ saves' = <<>>
    BY <1>7 DEF EndFrame, Gone, QuitClean, GetQuit, Ends, cfgVars, editVars
  <2>2. DOMAIN saves' = {}
    BY <2>1
  <2> QED
    BY <1>b, <2>1, <2>2 DEF BornInv, BornInOrder
<1> QED
  BY <1>1, <1>2, <1>3, <1>4, <1>5, <1>6, <1>7, Steps

\* One save at a time, and its clone shares the live dictionary.
LEMMA SingleStep ==
    ASSUME DictInv, SingleInv, [Next]_vars
    PROVE  SingleInv'
<1>0. saves \in Seq(Range(saves)) /\ (\A j \in DOMAIN saves : IsSave(saves[j], minted)) /\ minted \in Nat
  BY DEF DictInv
<1>n. Len(saves) \in Nat /\ DOMAIN saves = 1 .. Len(saves)
  BY <1>0, LenProperties
<1> SUFFICES ASSUME ~twice' PROVE Len(saves') <= 1 /\ \A i \in DOMAIN saves' : saves'[i].old = {}
  BY DEF SingleInv
<1>1. ASSUME UNCHANGED <<saves, twice>> PROVE Len(saves') <= 1 /\ \A i \in DOMAIN saves' : saves'[i].old = {}
  BY <1>1 DEF SingleInv
<1>2. CASE StillFrame \/ GetDirty \/ GetSaved
  BY <1>1, <1>2 DEF StillFrame, GetDirty, GetSaved, saveVars
<1>3. CASE CfgStep
  BY <1>1, <1>3, EditFrames DEF EditFrame, ArnFrame, StillFrame, NewMapping, DiscardMapping, saveVars
<1>4. ASSUME NEW kind, Start(kind) PROVE Len(saves') <= 1 /\ \A i \in DOMAIN saves' : saves'[i].old = {}
  <2>1. saves' = Append(saves, NewSave(kind)) /\ saves = <<>>
    BY <1>4 DEF Start
  <2>2. Len(saves') = Len(saves) + 1 /\ \A j \in DOMAIN saves' : j \in DOMAIN saves \/ saves'[j] = NewSave(kind)
    BY <1>0, <2>1, SeqAdded
  <2>3. Len(saves) = 0 /\ DOMAIN saves = {} /\ NewSave(kind).old = {}
    BY <2>1 DEF NewSave
  <2> QED
    BY <2>2, <2>3
<1>5. ASSUME NEW i \in DOMAIN saves, Clone(i) \/ WriteOut(i)
      PROVE  Len(saves') <= 1 /\ \A j \in DOMAIN saves' : saves'[j].old = {}
  <2>1. /\ DOMAIN saves' = DOMAIN saves /\ Len(saves') = Len(saves)
        /\ \A j \in DOMAIN saves : saves'[j].old = saves[j].old
    <3>1. CASE Clone(i)
      <4>1. /\ DOMAIN saves' = DOMAIN saves /\ Len(saves') = Len(saves)
            /\ \A j \in DOMAIN saves \ {i} : saves'[j] = saves[j]
            /\ saves'[i] = [kind |-> saves[i].kind, phase |-> "write", snap |-> cfg,
                            old |-> saves[i].old, new |-> saves[i].new]
        BY <1>0, <3>1, SavesChanged
      <4> QED
        BY <4>1
    <3>2. CASE WriteOut(i)
      <4>1. PICK inv, ids : WriteBy(i, inv, ids)
        BY <3>2, WritesBy
      <4>2. /\ DOMAIN saves' = DOMAIN saves
            /\ \A j \in DOMAIN saves \ {i} : saves'[j] = saves[j]
            /\ saves'[i] = [kind |-> saves[i].kind, phase |-> "take", snap |-> saves[i].snap,
                            old |-> saves[i].old, new |-> DictOf(ids)]
        BY <1>0, <4>1, SavesChanged
      <4>3. Len(saves') = Len(saves)
        BY <1>0, <4>1, SavesChanged
      <4> QED
        BY <4>2, <4>3
    <3> QED
      BY <1>5, <3>1, <3>2
  <2>2. twice' = twice
    BY <1>5 DEF Clone, WriteOut
  <2> QED
    BY <2>1, <2>2 DEF SingleInv
<1>6. ASSUME NEW i \in DOMAIN saves, Fail(i) \/ TakeOver(i)
      PROVE  Len(saves') <= 1 /\ \A j \in DOMAIN saves' : saves'[j].old = {}
  <2>1. Len(saves') = Len(saves) - 1 /\ \A j \in DOMAIN saves' : \E k \in DOMAIN saves \ {i} : TRUE
    BY <1>0, <1>6, SavesChanged
  <2>2. twice' = twice
    BY <1>6 DEF Fail, TakeOver
  <2>3. Len(saves) <= 1
    BY <2>2 DEF SingleInv
  <2>4. DOMAIN saves \ {i} = {}
    BY <1>n, <2>3
  <2> QED
    BY <1>n, <2>1, <2>3, <2>4
<1>7. CASE EndFrame
  <2>1. saves' = <<>>
    BY <1>7 DEF EndFrame, Gone, QuitClean, GetQuit, Ends
  <2> QED
    BY <2>1
<1> QED
  BY <1>2, <1>3, <1>4, <1>5, <1>6, <1>7, Steps

\* Which bags were saved under which id, after a save of the bags s: as is
\* what was known of other bags.
IdsNow(old, s, ids) ==
    [n \in DOMAIN old \cup {s[b].born : b \in DOMAIN s} |->
        (IF n \in DOMAIN old THEN old[n] ELSE {}) \cup
        {ids[Bag(b)] : b \in {x \in DOMAIN s : s[x].born = n}}]

\* Each of the bags s has an id, and was saved under it or not at all.
Savable(old, s, ids) ==
    /\ IsInjective(ids)
    /\ \A b \in DOMAIN s : Bag(b) \in DOMAIN ids
    /\ \A a, b \in DOMAIN s : s[a].born = s[b].born => a = b
    /\ \A b \in DOMAIN s : s[b].born \in DOMAIN old => old[s[b].born] = {ids[Bag(b)]}

\* Each of them is saved under its id, and the dictionary knows them by it.
AreSaved(new, old, s, ids) ==
    /\ \A b \in DOMAIN s : s[b].born \in DOMAIN new /\ new[s[b].born] = {ids[Bag(b)]}
    /\ \A n \in DOMAIN new : \/ \E b \in DOMAIN s : n = s[b].born
                             \/ n \in DOMAIN old /\ new[n] = old[n]
    /\ \A b \in DOMAIN s : IdsIn(DictOf(ids), b) = {ids[Bag(b)]}

\* A save saves the bags.
LEMMA IdsSaved ==
    ASSUME NEW old, NEW s, NEW ids, Savable(old, s, ids), NEW new, new = IdsNow(old, s, ids)
    PROVE  AreSaved(new, old, s, ids)
<1> USE DEF Savable
<1>1. DOMAIN new = DOMAIN old \cup {s[b].born : b \in DOMAIN s}
  BY DEF IdsNow
<1>2. \A n \in DOMAIN new : new[n] = (IF n \in DOMAIN old THEN old[n] ELSE {}) \cup
                                     {ids[Bag(b)] : b \in {x \in DOMAIN s : s[x].born = n}}
  BY DEF IdsNow
<1>3. ASSUME NEW b \in DOMAIN s PROVE s[b].born \in DOMAIN new /\ new[s[b].born] = {ids[Bag(b)]}
  <2>1. s[b].born \in DOMAIN new
    BY <1>1
  <2>2. {x \in DOMAIN s : s[x].born = s[b].born} = {b}
    OBVIOUS
  <2>3. {ids[Bag(x)] : x \in {b}} = {ids[Bag(b)]}
    OBVIOUS
  <2> QED
    BY <1>2, <2>1, <2>2, <2>3
<1>4. ASSUME NEW n \in DOMAIN new, ~\E b \in DOMAIN s : n = s[b].born PROVE n \in DOMAIN old /\ new[n] = old[n]
  <2>1. n \in DOMAIN old
    BY <1>1, <1>4
  <2>2. {x \in DOMAIN s : s[x].born = n} = {}
    BY <1>4
  <2>3. {ids[Bag(b)] : b \in {x \in DOMAIN s : s[x].born = n}} = {}
    BY <2>2
  <2> QED
    BY <1>2, <2>1, <2>3
<1>5. ASSUME NEW b \in DOMAIN s PROVE IdsIn(DictOf(ids), b) = {ids[Bag(b)]}
  <2>1. /\ DOMAIN DictOf(ids) = Range(ids)
        /\ \A x \in DOMAIN ids : ids[x] \in Range(ids) /\ DictOf(ids)[ids[x]] = x
    BY DictFacts
  <2>2. \A id \in Range(ids) : \E x \in DOMAIN ids : ids[x] = id
    BY DEF Range
  <2>3. Bag(b) \in DOMAIN ids
    OBVIOUS
  <2> QED
    BY <2>1, <2>2, <2>3 DEF IdsIn
<1> QED
  BY <1>3, <1>4, <1>5 DEF AreSaved

\* The dictionary keeps up with edits of bags (renameIDMapBag).
LEMMA EditFits ==
    ASSUME DictInv, BornInv, Fits(idmap), CfgStep, idOf' = idOf, ~reused'
    PROVE  Fits(idmap)'
<1>0. /\ IsShaped(cfg) /\ IsMap(idmap) /\ born \in Nat /\ DOMAIN idOf \subseteq 1 .. born
  BY DEF DictInv, IsDict, IsMap, BornInv
<1>f. \A b \in DOMAIN cfg.secrets : IdsIn(idmap, b) = SavedAs(cfg.secrets[b].born)
  BY DEF Fits
<1>s. \A n : SavedAs(n)' = SavedAs(n)
  BY DEF SavedAs
<1> SUFFICES ASSUME NEW b \in DOMAIN cfg'.secrets
             PROVE  IdsIn(idmap', b) = SavedAs(cfg'.secrets[b].born)
  BY DEF Fits, SavedAs
<1>1. CASE SameBags
  BY <1>f, <1>1 DEF SameBags
<1>2. ASSUME NEW x, AddBag(x) PROVE IdsIn(idmap', b) = SavedAs(cfg'.secrets[b].born)
  <2>1. /\ DOMAIN cfg'.secrets = DOMAIN cfg.secrets \cup {x} /\ cfg'.secrets[x].born = born + 1
        /\ \A y \in DOMAIN cfg.secrets : cfg'.secrets[y] = cfg.secrets[y]
    BY <1>0, <1>2, BagsNow
  <2>2. idmap' = idmap /\ Bag(x) \notin Range(idmap)
    BY <1>2 DEF AddBag, InDict
  <2>3. IdsIn(idmap, x) = {}
    BY <2>2 DEF IdsIn, Range
  <2>4. born + 1 \notin DOMAIN idOf
    BY <1>0
  <2>5. SavedAs(born + 1) = {}
    BY <2>4 DEF SavedAs
  <2>6. CASE b = x
    BY <2>1, <2>2, <2>3, <2>5, <2>6
  <2>7. CASE b \in DOMAIN cfg.secrets
    BY <1>f, <2>1, <2>2, <2>7
  <2> QED
    BY <2>1, <2>6, <2>7
<1>3. ASSUME NEW x, DeleteBag(x) PROVE IdsIn(idmap', b) = SavedAs(cfg'.secrets[b].born)
  <2>1. /\ DOMAIN cfg'.secrets \subseteq DOMAIN cfg.secrets
        /\ \A y \in DOMAIN cfg'.secrets : cfg'.secrets[y] = cfg.secrets[y]
    BY <1>0, <1>3, BagsNow
  <2>2. idmap' = idmap
    BY <1>3 DEF DeleteBag, Same
  <2> QED
    BY <1>f, <2>1, <2>2
<1>4. ASSUME NEW x, NEW c, RenameBag(x, c) PROVE IdsIn(idmap', b) = SavedAs(cfg'.secrets[b].born)
  <2>1. /\ DOMAIN cfg'.secrets = (DOMAIN cfg.secrets \ {x}) \cup {c}
        /\ x \in DOMAIN cfg.secrets /\ c \notin DOMAIN cfg.secrets /\ cfg'.secrets[c] = cfg.secrets[x]
        /\ \A y \in DOMAIN cfg.secrets \ {x} : cfg'.secrets[y] = cfg.secrets[y]
    BY <1>0, <1>4, BagsNow
  <2>2. idmap' = DictRenamed(idmap, Bag(x), Bag(c)) /\ Bag(c) \notin Range(idmap)
    BY <1>4 DEF RenameBag, InDict
  <2>3. DOMAIN idmap' = DOMAIN idmap /\ \A id \in DOMAIN idmap : idmap'[id] = IF idmap[id] = Bag(x) THEN Bag(c) ELSE idmap[id]
    BY <2>2 DEF DictRenamed
  <2>4. \A y, z : Bag(y) = Bag(z) => y = z
    BY ItemFacts
  <2>5. \A id \in DOMAIN idmap : idmap[id] # Bag(c)
    BY <2>2 DEF Range
  <2>6. CASE b = c
    <3>1. IdsIn(idmap', c) = IdsIn(idmap, x)
      BY <2>3, <2>5 DEF IdsIn
    <3> QED
      BY <1>f, <2>1, <2>6, <3>1
  <2>7. CASE b \in DOMAIN cfg.secrets \ {x}
    <3>1. Bag(b) # Bag(c) /\ Bag(b) # Bag(x)
      BY <2>1, <2>4, <2>7
    <3>2. IdsIn(idmap', b) = IdsIn(idmap, b)
      BY <2>3, <3>1 DEF IdsIn
    <3> QED
      BY <1>f, <2>1, <2>7, <3>2
  <2> QED
    BY <2>1, <2>6, <2>7
<1>5. BagChange
  BY <1>0, EditShapes
<1> QED
  BY <1>1, <1>2, <1>3, <1>4, <1>5 DEF BagChange

\* A save keeps the ids of the bags that have one, and mints one for the others.
LEMMA WriteFits ==
    ASSUME DictInv, BornInv, FitFacts, Running, NEW i \in DOMAIN saves, NEW inv, NEW ids, WriteBy(i, inv, ids),
           saves[i].old = {}, ~Taken
    PROVE  /\ \A n \in DOMAIN idOf' : \E id \in Used(minted') : idOf'[n] = {id}
           /\ \A n, m \in DOMAIN idOf' : n # m => idOf'[n] \cap idOf'[m] = {}
           /\ \A b \in DOMAIN cfg.secrets : /\ cfg.secrets[b].born \in DOMAIN idOf'
                                            /\ IdsIn(DictOf(ids), b) = idOf'[cfg.secrets[b].born]
<1> DEFINE s == cfg.secrets
           id(b) == ids[Bag(b)]
           old == idOf
           new == idOf'
           used == Used(minted')
<1>1. saves[i].phase = "write" /\ saves[i].snap.secrets = s
  BY DEF WriteBy, FitFacts
<1>2. inv \in NamesToIDs(idmap)
  BY DEF WriteBy, DictShared
<1>3. /\ minted \in Nat /\ minted' \in Nat /\ minted <= minted' /\ GoodIds(saves[i].snap, ids)
      /\ Range(ids) \subseteq used
      /\ \A x \in DOMAIN ids \cap DOMAIN inv : ids[x] = inv[x]
      /\ \A x \in DOMAIN ids \ DOMAIN inv : ids[x] \notin Used(minted)
  BY WriteFacts DEF DictInv
<1>4. IsInjective(ids) /\ \A b \in DOMAIN s : Bag(b) \in DOMAIN ids /\ id(b) \in used
  <2>1. \A b \in DOMAIN s : Bag(b) \in DOMAIN ids
    BY <1>1, <1>3, PartIds
  <2>2. \A b \in DOMAIN s : id(b) \in Range(ids)
    BY <2>1 DEF Range
  <2> QED
    BY <1>3, <2>1, <2>2 DEF GoodIds
<1>5. /\ DOMAIN inv = Range(idmap)
      /\ \A x \in DOMAIN inv : inv[x] \in DOMAIN idmap /\ idmap[inv[x]] = x
  BY <1>2, InverseFacts
<1>6. \A b \in DOMAIN s : IdsIn(idmap, b) = SavedAs(s[b].born)
  BY DEF FitFacts, Fits
<1>7. \A n \in DOMAIN old : \E x \in Used(minted) : old[n] = {x}
  BY DEF FitFacts
<1>8. \A n, m \in DOMAIN old : n # m => old[n] \cap old[m] = {}
  BY DEF FitFacts
<1>9. ASSUME NEW b \in DOMAIN s
      PROVE  /\ s[b].born \in DOMAIN old => old[s[b].born] = {id(b)}
             /\ s[b].born \notin DOMAIN old => id(b) \notin Used(minted)
  <2>1. CASE Bag(b) \in DOMAIN inv
    <3>1. id(b) = inv[Bag(b)]
      BY <1>3, <1>4, <2>1
    <3>2. id(b) \in IdsIn(idmap, b)
      BY <1>5, <2>1, <3>1 DEF IdsIn
    <3>3. id(b) \in SavedAs(s[b].born)
      BY <1>6, <3>2
    <3>4. s[b].born \in DOMAIN old /\ id(b) \in old[s[b].born]
      BY <3>3 DEF SavedAs
    <3> QED
      BY <1>7, <3>4
  <2>2. CASE Bag(b) \notin DOMAIN inv
    <3>1. IdsIn(idmap, b) = {}
      BY <1>5, <2>2 DEF IdsIn, Range
    <3>2. SavedAs(s[b].born) = {}
      BY <1>6, <3>1
    <3>3. s[b].born \notin DOMAIN old
      BY <1>7, <3>2 DEF SavedAs
    <3> QED
      BY <1>3, <1>4, <2>2, <3>3
  <2> QED
    BY <2>1, <2>2
<1>10. new = IdsNow(old, s, ids)
  BY <1>1 DEF WriteBy, IdsNow
<1>11. \A a, b \in DOMAIN s : s[a].born = s[b].born => a = b
  BY DEF BornInv, BornInOrder
<1> HIDE DEF s, old, new, used
<1>12. /\ \A b \in DOMAIN s : s[b].born \in DOMAIN new /\ new[s[b].born] = {id(b)}
       /\ \A n \in DOMAIN new : \/ \E b \in DOMAIN s : n = s[b].born
                                \/ n \in DOMAIN old /\ new[n] = old[n]
       /\ \A b \in DOMAIN s : IdsIn(DictOf(ids), b) = {id(b)}
  <2>1. Savable(old, s, ids)
    BY <1>4, <1>9, <1>11 DEF Savable
  <2>2. AreSaved(new, old, s, ids)
    BY <1>10, <2>1, IdsSaved
  <2> QED
    BY <2>2 DEF AreSaved
<1>13. Used(minted) \subseteq used
  BY <1>3, UsedGrows DEF used
<1>14. \A n \in DOMAIN new : \E x \in used : new[n] = {x}
  BY <1>4, <1>7, <1>12, <1>13
<1>15. ASSUME NEW n \in DOMAIN new, NEW m \in DOMAIN new, n # m, NEW x, x \in new[n], x \in new[m] PROVE FALSE
  <2>1. ASSUME NEW a \in DOMAIN s, NEW b \in DOMAIN s, n = s[a].born, m = s[b].born PROVE FALSE
    <3>1. x = id(a) /\ x = id(b)
      BY <1>12, <1>15, <2>1
    <3>2. Bag(a) = Bag(b)
      BY <1>4, <3>1 DEF IsInjective
    <3>3. a = b
      BY <3>2, ItemFacts
    <3> QED
      BY <1>15, <2>1, <3>3
  <2>2. ASSUME NEW a \in DOMAIN s, NEW k \in DOMAIN old, k # s[a].born, x = id(a), x \in old[k] PROVE FALSE
    <3>1. CASE s[a].born \in DOMAIN old
      <4>1. x \in old[s[a].born]
        BY <1>9, <2>2, <3>1
      <4> QED
        BY <1>8, <2>2, <3>1, <4>1
    <3>2. CASE s[a].born \notin DOMAIN old
      <4>1. x \notin Used(minted)
        BY <1>9, <2>2, <3>2
      <4> QED
        BY <1>7, <2>2, <4>1
    <3> QED
      BY <3>1, <3>2
  <2>3. CASE \E a \in DOMAIN s : n = s[a].born
    BY <1>12, <1>15, <2>1, <2>2, <2>3
  <2>4. CASE n \in DOMAIN old /\ new[n] = old[n]
    BY <1>8, <1>12, <1>15, <2>2, <2>4
  <2> QED
    BY <1>12, <2>3, <2>4
<1> QED
  BY <1>12, <1>14, <1>15 DEF s, new, used

\* The dictionary and the ids keep fitting each other.
LEMMA FitStep ==
    ASSUME DictInv, BornInv, SingleInv, FitInv, [Next]_vars
    PROVE  FitInv'
<1> SUFFICES ASSUME ~overlap', ~twice', ~reused' PROVE FitFacts'
  BY DEF FitInv
<1>0. saves \in Seq(Range(saves)) /\ (\A j \in DOMAIN saves : IsSave(saves[j], minted)) /\ minted \in Nat
  BY DEF DictInv
<1>n. Len(saves) \in Nat /\ DOMAIN saves = 1 .. Len(saves)
  BY <1>0, LenProperties
<1>f. ASSUME overlap' = overlap, twice' = twice, reused' = reused PROVE FitFacts
  BY <1>f DEF FitInv
<1>one. ASSUME twice' = twice, NEW i \in DOMAIN saves
        PROVE  saves[i].old = {} /\ \A j \in DOMAIN saves : j = i
  <2>1. Len(saves) <= 1 /\ saves[i].old = {}
    BY <1>one DEF SingleInv
  <2> QED
    BY <1>n, <2>1
<1>1. ASSUME UNCHANGED <<cfg, idmap, minted, idOf, saves, quit, overlap, twice, reused>> PROVE FitFacts'
  <2>1. FitFacts
    BY <1>1, <1>f
  <2> QED
    BY <1>1, <2>1 DEF FitFacts, Fits, Taken, SavedAs, Running
<1>2. CASE StillFrame \/ GetDirty \/ GetSaved
  BY <1>1, <1>2 DEF StillFrame, GetDirty, GetSaved, cfgVars, saveVars, loopVars, editVars
<1>3. CASE CfgStep /\ (EditFrame \/ ArnFrame)
  <2>1. /\ Running /\ saves = <<>> /\ ~overlap /\ UNCHANGED <<minted, idOf, saves, twice, quit>>
    BY <1>3 DEF EditFrame, ArnFrame, Busy, saveVars, loopVars
  <2>2. ~reused
    <3>1. IsShaped(cfg) /\ IsMap(idmap)
      BY DEF DictInv, IsDict, IsMap
    <3> QED
      BY <1>3, <3>1, EditShapes DEF BagChange, SameBags, AddBag, DeleteBag, RenameBag, Same
  <2>3. FitFacts
    BY <2>1, <2>2 DEF FitInv
  <2>4. DOMAIN saves = {}
    BY <2>1
  <2>5. Fits(idmap)
    BY <2>1, <2>3, <2>4 DEF FitFacts, Taken
  <2>6. Fits(idmap)'
    BY <1>3, <2>1, <2>5, EditFits
  <2> QED
    BY <2>1, <2>3, <2>4, <2>6 DEF FitFacts, Taken
<1>4. CASE NewMapping \/ DiscardMapping
  <2>1. UNCHANGED <<idmap, minted, idOf, saves, quit, overlap, twice, reused>>
    BY <1>4 DEF NewMapping, DiscardMapping, saveVars, loopVars, editVars
  <2>2. cfg'.secrets = cfg.secrets
    <3>1. IsShaped(cfg)
      BY DEF DictInv
    <3>2. \E m : cfg' = [cfg EXCEPT !.mappings = m]
      BY <1>4 DEF NewMapping, DiscardMapping
    <3> QED
      BY <3>1, <3>2, ShapedParts
  <2>3. FitFacts
    BY <1>f, <2>1
  <2> QED
    BY <2>1, <2>2, <2>3 DEF FitFacts, Fits, Taken, SavedAs, Running
<1>5. ASSUME UNCHANGED <<cfg, idmap, minted, idOf, quit>>, FitFacts, ~Taken' => ~Taken,
             \A j \in DOMAIN saves' :
                 \/ \E k \in DOMAIN saves : saves'[j] = saves[k]
                 \/ saves'[j].phase = "clone"
                 \/ saves'[j].phase = "write" /\ saves'[j].snap = cfg
      PROVE  FitFacts'
  <2>1. \A d : Fits(d)' <=> Fits(d)
    BY <1>5 DEF Fits, SavedAs
  <2>2. \A j \in DOMAIN saves' : saves'[j].phase = "write" => saves'[j].snap.secrets = cfg.secrets
    BY <1>5 DEF FitFacts
  <2>3. Running => /\ ~Taken => Fits(idmap)
                   /\ \A j \in DOMAIN saves' : saves'[j].phase = "take" => Fits(saves'[j].new)
    BY <1>5 DEF FitFacts
  <2>4. Running' => /\ ~Taken' => \A b \in DOMAIN cfg.secrets : IdsIn(idmap, b) = SavedAs(cfg.secrets[b].born)
                    /\ \A j \in DOMAIN saves' : saves'[j].phase = "take" =>
                          \A b \in DOMAIN cfg.secrets : IdsIn(saves'[j].new, b) = SavedAs(cfg.secrets[b].born)
    BY <1>5, <2>3 DEF Fits, Running
  <2> QED
    BY <1>5, <2>2, <2>4 DEF FitFacts, Fits, SavedAs
<1>6. ASSUME NEW kind, Start(kind) PROVE FitFacts'
  <2>1. /\ UNCHANGED <<cfg, idmap, minted, idOf, quit, overlap, reused>>
        /\ saves' = Append(saves, NewSave(kind)) /\ saves = <<>>
    BY <1>6 DEF Start, cfgVars, loopVars, editVars
  <2>2. ~twice
    BY <1>6 DEF Start
  <2>3. FitFacts
    BY <2>1, <2>2 DEF FitInv
  <2>4. DOMAIN saves = {}
    BY <2>1
  <2>5. \A j \in DOMAIN saves' : saves'[j].phase = "clone"
    BY <1>0, <2>1, <2>4, SeqAdded DEF NewSave
  <2>6. ~Taken
    BY <2>4 DEF Taken
  <2> QED
    BY <1>5, <2>1, <2>3, <2>5, <2>6
<1>7. ASSUME NEW i \in DOMAIN saves, Clone(i) PROVE FitFacts'
  <2>1. UNCHANGED <<cfg, idmap, minted, idOf, quit, overlap, twice, reused>> /\ saves[i].phase = "clone"
    BY <1>7 DEF Clone, Save, cfgVars, loopVars, editVars
  <2>2. /\ DOMAIN saves' = DOMAIN saves
        /\ \A j \in DOMAIN saves \ {i} : saves'[j] = saves[j]
        /\ saves'[i] = [kind |-> saves[i].kind, phase |-> "write", snap |-> cfg,
                        old |-> saves[i].old, new |-> saves[i].new]
    BY <1>0, <1>7, SavesChanged
  <2>3. saves'[i].phase = "write" /\ saves'[i].snap = cfg
    BY <2>2
  <2>4. ~Taken
    BY <1>one, <2>1 DEF Taken
  <2>5. FitFacts
    BY <1>f, <2>1
  <2>6. \A j \in DOMAIN saves' : \/ \E k \in DOMAIN saves : saves'[j] = saves[k]
                                 \/ saves'[j].phase = "write" /\ saves'[j].snap = cfg
    BY <2>2, <2>3
  <2> QED
    BY <1>5, <2>1, <2>4, <2>5, <2>6
<1>8. ASSUME NEW i \in DOMAIN saves, Fail(i) PROVE FitFacts'
  <2>1. UNCHANGED <<cfg, idmap, minted, idOf, quit, overlap, twice, reused>> /\ saves[i].phase # "take"
    BY <1>8 DEF Fail, cfgVars, editVars
  <2>2. \A j \in DOMAIN saves' : \E k \in DOMAIN saves \ {i} : saves'[j] = saves[k]
    BY <1>0, <1>8, SavesChanged
  <2>3. ~Taken
    BY <1>one, <2>1 DEF Taken
  <2>4. FitFacts
    BY <1>f, <2>1
  <2>5. \A j \in DOMAIN saves' : \E k \in DOMAIN saves : saves'[j] = saves[k]
    BY <2>2
  <2> QED
    BY <1>5, <2>1, <2>3, <2>4, <2>5
<1>9. ASSUME NEW i \in DOMAIN saves, WriteOut(i) PROVE FitFacts'
  <2>0. Running
    BY <1>9 DEF WriteOut, Save
  <2>1. PICK inv, ids : WriteBy(i, inv, ids)
    BY <1>9, WritesBy
  <2>2. UNCHANGED <<cfg, idmap, overlap, twice, reused, quit>> /\ saves[i].phase = "write"
    BY <2>1 DEF WriteBy, cfgVars
  <2>3. FitFacts /\ saves[i].old = {} /\ \A j \in DOMAIN saves : j = i
    BY <1>f, <1>one, <2>2
  <2>4. ~Taken
    BY <2>2, <2>3 DEF Taken
  <2>5. /\ \A n \in DOMAIN idOf' : \E id \in Used(minted') : idOf'[n] = {id}
        /\ \A n, m \in DOMAIN idOf' : n # m => idOf'[n] \cap idOf'[m] = {}
        /\ \A b \in DOMAIN cfg.secrets : /\ cfg.secrets[b].born \in DOMAIN idOf'
                                         /\ IdsIn(DictOf(ids), b) = idOf'[cfg.secrets[b].born]
    BY <2>0, <2>1, <2>3, <2>4, WriteFits
  <2>6. /\ DOMAIN saves' = DOMAIN saves
        /\ saves'[i] = [kind |-> saves[i].kind, phase |-> "take", snap |-> saves[i].snap,
                        old |-> saves[i].old, new |-> DictOf(ids)]
    BY <1>0, <2>1, SavesChanged
  <2>7. saves'[i].phase = "take" /\ saves'[i].new = DictOf(ids) /\ \A j \in DOMAIN saves' : j = i
    BY <2>3, <2>6
  <2>8. Taken'
    BY <2>6, <2>7 DEF Taken
  <2>9. \A j \in DOMAIN saves' : Fits(saves[j].new)'
    <3> SUFFICES ASSUME NEW b \in DOMAIN cfg'.secrets
                 PROVE  IdsIn(saves'[i].new, b) = SavedAs(cfg.secrets[b].born)'
      BY <2>7 DEF Fits, SavedAs
    <3> QED
      BY <2>2, <2>5, <2>7 DEF SavedAs
  <2> QED
    BY <2>5, <2>7, <2>8, <2>9 DEF FitFacts
<1>10. ASSUME NEW i \in DOMAIN saves, TakeOver(i) PROVE FitFacts'
  <2>1. /\ Running /\ UNCHANGED <<cfg, minted, idOf, overlap, twice, reused, quit>> /\ saves[i].phase = "take"
        /\ idmap' = saves[i].new
    BY <1>10 DEF TakeOver, Save, loopVars, editVars
  <2>2. FitFacts /\ \A j \in DOMAIN saves : j = i
    BY <1>f, <1>one, <2>1
  <2>3. \A j \in DOMAIN saves' : \E k \in DOMAIN saves \ {i} : TRUE
    BY <1>0, <1>10, SavesChanged
  <2>4. DOMAIN saves' = {}
    BY <2>2, <2>3
  <2>5. \A b \in DOMAIN cfg.secrets : IdsIn(saves[i].new, b) = SavedAs(cfg.secrets[b].born)
    BY <2>1, <2>2 DEF FitFacts, Fits
  <2>6. \A b \in DOMAIN cfg'.secrets : IdsIn(idmap', b) = SavedAs(cfg.secrets[b].born)'
    BY <2>1, <2>5 DEF SavedAs
  <2>7. Fits(idmap)'
    BY <2>6 DEF Fits, SavedAs
  <2> QED
    BY <2>1, <2>2, <2>4, <2>7 DEF FitFacts
<1>11. CASE EndFrame
  <2>1. UNCHANGED <<minted, idOf, overlap, twice, reused>> /\ saves' = <<>> /\ ~Running'
    BY <1>11 DEF EndFrame, Gone, QuitClean, GetQuit, Ends, editVars, Running, QuitMsgs
  <2>2. FitFacts /\ DOMAIN saves' = {}
    BY <1>f, <2>1
  <2> QED
    BY <2>1, <2>2 DEF FitFacts
<1>12. CfgStep => (CfgStep /\ (EditFrame \/ ArnFrame)) \/ NewMapping \/ DiscardMapping \/ StillFrame
  BY EditFrames
<1> QED
  BY <1>2, <1>3, <1>4, <1>6, <1>7, <1>8, <1>9, <1>10, <1>11, <1>12, Steps

\* The ids of the first file fit.
LEMMA FitsInit == Init => BornInv /\ SingleInv /\ FitInv
<1> SUFFICES ASSUME Init PROVE BornInv /\ SingleInv /\ FitInv
  OBVIOUS
<1> DEFINE s == Started.secrets
           ids == FirstIDs
           old == [n \in {} |-> {}]
           first == [n \in {s[b].born : b \in DOMAIN s} |-> {ids[Bag(b)] : b \in {x \in DOMAIN s : s[x].born = n}}]
<1>1. /\ cfg = Started /\ idmap = DictOf(ids) /\ minted = Cardinality(DOMAIN ids) /\ born = Cardinality(DOMAIN s)
      /\ saves = <<>> /\ idOf = first
  BY DEF Init, sealed
<1>2. /\ born \in Nat
      /\ \A b \in DOMAIN s : s[b].born \in 1 .. born
      /\ \A a, b \in DOMAIN s : s[a].born = s[b].born => a = b
  <2>1. IsFiniteSet(DOMAIN s)
    BY TuiAssumption, FS_Subset DEF IsConfig
  <2> QED
    BY <1>1, <2>1, TuiAssumption, FS_CardinalityType DEF BornInOrder
<1>3. DOMAIN saves = {} /\ Len(saves) = 0
  BY <1>1
<1>4. GoodIds(Started, ids) /\ Range(ids) \subseteq Used(minted)
  BY <1>1, FirstFacts
<1>5. IsInjective(ids) /\ \A b \in DOMAIN s : Bag(b) \in DOMAIN ids /\ ids[Bag(b)] \in Used(minted)
  <2>1. \A b \in DOMAIN s : Bag(b) \in DOMAIN ids
    BY <1>4, PartIds
  <2>2. \A b \in DOMAIN s : ids[Bag(b)] \in Range(ids)
    BY <2>1 DEF Range
  <2> QED
    BY <1>4, <2>1, <2>2 DEF GoodIds
<1>6. first = IdsNow(old, s, ids) /\ DOMAIN old = {}
  <2>1. DOMAIN old = {}
    OBVIOUS
  <2> HIDE DEF old, s, ids
  <2> QED
    BY <2>1 DEF IdsNow
<1> HIDE DEF s, ids, old, first
<1>7. AreSaved(first, old, s, ids)
  <2>1. Savable(old, s, ids)
    BY <1>2, <1>5, <1>6 DEF Savable
  <2> QED
    BY <1>6, <2>1, IdsSaved
<1>8. DOMAIN first \subseteq 1 .. born
  BY <1>2, <1>6, <1>7 DEF AreSaved
<1>9. BornInv
  BY <1>1, <1>2, <1>3, <1>8 DEF BornInv, BornInOrder, s
<1>10. SingleInv
  BY <1>3 DEF SingleInv
<1>11. \A n \in DOMAIN idOf : \E b \in DOMAIN s : n = s[b].born /\ idOf[n] = {ids[Bag(b)]}
  BY <1>1, <1>6, <1>7 DEF AreSaved
<1>12. \A n \in DOMAIN idOf : \E id \in Used(minted) : idOf[n] = {id}
  BY <1>5, <1>11
<1>13. \A n, m \in DOMAIN idOf : n # m => idOf[n] \cap idOf[m] = {}
  <2> SUFFICES ASSUME NEW n \in DOMAIN idOf, NEW m \in DOMAIN idOf, n # m, NEW x, x \in idOf[n], x \in idOf[m]
               PROVE  FALSE
    OBVIOUS
  <2>1. PICK a \in DOMAIN s : n = s[a].born /\ x = ids[Bag(a)]
    BY <1>11
  <2>2. PICK b \in DOMAIN s : m = s[b].born /\ x = ids[Bag(b)]
    BY <1>11
  <2>3. Bag(a) = Bag(b)
    BY <1>5, <2>1, <2>2 DEF IsInjective
  <2>4. a = b
    BY <2>3, ItemFacts
  <2> QED
    BY <2>1, <2>2, <2>4
<1>14. Fits(idmap)
  BY <1>1, <1>7 DEF Fits, SavedAs, AreSaved, s
<1>15. FitInv
  BY <1>3, <1>12, <1>13, <1>14 DEF FitInv, FitFacts
<1> QED
  BY <1>9, <1>10, <1>15

\* A bag keeps its id in all saves of a session, and no two bags share one
\* (the dictionary that renames are applied to and saves hand back) - unless
\* an edit or a second save ran beside a save, or a name was taken again that
\* a deletion had freed.
THEOREM IdsStable == Spec => []StableIds
<1>1. Init => BornInv /\ SingleInv /\ FitInv
  BY FitsInit
<1>2. DictInv /\ BornInv /\ [Next]_vars => BornInv'
  BY BornStep
<1>3. DictInv /\ SingleInv /\ [Next]_vars => SingleInv'
  BY SingleStep
<1>4. DictInv /\ BornInv /\ SingleInv /\ FitInv /\ [Next]_vars => FitInv'
  BY FitStep
<1>5. FitInv => StableIds
  <2> SUFFICES ASSUME FitInv, ~overlap, ~twice, ~reused, NEW n \in DOMAIN idOf, NEW m \in DOMAIN idOf
               PROVE  Cardinality(idOf[n]) <= 1 /\ (n # m => idOf[n] \cap idOf[m] = {})
    BY DEF StableIds
  <2>1. FitFacts
    BY DEF FitInv
  <2>2. PICK id : idOf[n] = {id}
    BY <2>1 DEF FitFacts
  <2>3. Cardinality(idOf[n]) = 1
    BY <2>2, FS_Singleton
  <2> QED
    BY <2>1, <2>3 DEF FitFacts
<1> QED
  BY <1>1, <1>2, <1>3, <1>4, <1>5, DictInvariant, PTL DEF Spec
=============================================================================
