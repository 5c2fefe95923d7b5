----------------------------- MODULE ConfigTui -----------------------------
(***************************************************************************)
(* One session of the config editor (jitenv-tui): a model loop that handles *)
(* key presses and messages one at a time, edits of the config in memory,   *)
(* and saves, which run beside the loop.  An edit changes the config at     *)
(* once and reports itself by a dirtyMsg; a save clones the config,         *)
(* validates, encodes and writes it, takes over the dictionary of ids and   *)
(* reports itself by a savedMsg or an errorMsg.  The loop handles messages  *)
(* in the order they arrive, between any two key presses.                   *)
(***************************************************************************)
EXTENDS ConfigCodec

CONSTANTS BagNames, KeyNames, SourceNames, Arns, Cmds,
          NewValues,    \* values typed into the editor
          RemoteKeys,   \* keys of the secret behind an ARN
          Started,      \* the config at the start of the session
          MaxEdits,     \* bound on edits of the config
          MaxSaves,     \* bound on saves started
          MaxVisits,    \* bound on sections opened
          MaxMappings,  \* bound on mappings
          MaxModals     \* bound on prompts open on top of each other

\* config.Config in memory.  A var is a literal or refers to a source, never
\* both (ValidateStructure).
MappingType == [kind : {"", "path", "cwd"}, cmds : SUBSET Cmds, vars : SUBSET VarType]

IsConfig(c) ==
    /\ DOMAIN c = {"sources", "secrets", "mappings", "agent"}
    /\ DOMAIN c.sources \subseteq SourceNames \cup {"local"}
    /\ \A s \in DOMAIN c.sources : "arns" \in DOMAIN c.sources[s] /\ c.sources[s].arns \subseteq Arns
    /\ DOMAIN c.secrets \subseteq BagNames
    /\ \A b \in DOMAIN c.secrets : /\ "kv" \in DOMAIN c.secrets[b]
                                   /\ DOMAIN c.secrets[b].kv \subseteq KeyNames
    /\ c.mappings \in Seq(MappingType)
    /\ \A i \in DOMAIN c.mappings : \A v \in c.mappings[i].vars : v.source # "" => v.value = ""

\* Its maps hold nothing beside their entries; bags are told apart by the order
\* in which they were created.
IsShaped(c) ==
    /\ c = [sources |-> c.sources, secrets |-> c.secrets, mappings |-> c.mappings, agent |-> c.agent]
    /\ c.sources = [s \in DOMAIN c.sources |-> c.sources[s]]
    /\ \A s \in DOMAIN c.sources :
          c.sources[s] = [type |-> c.sources[s].type, arns |-> c.sources[s].arns, param |-> c.sources[s].param]
    /\ c.secrets = [b \in DOMAIN c.secrets |-> c.secrets[b]]
    /\ \A b \in DOMAIN c.secrets :
          /\ c.secrets[b] = [born |-> c.secrets[b].born, kv |-> c.secrets[b].kv]
          /\ c.secrets[b].kv = [k \in DOMAIN c.secrets[b].kv |-> c.secrets[b].kv[k]]

\* n bags have been created, and those of c are among them.
BornInOrder(c, n) ==
    /\ \A b \in DOMAIN c.secrets : c.secrets[b].born \in 1 .. n
    /\ \A a, b \in DOMAIN c.secrets : c.secrets[a].born = c.secrets[b].born => a = b

\* Names that are typed are not empty; an empty key in a remote secret is left
\* out.  The config was valid when it was saved.
ASSUME TuiAssumption ==
    /\ {"", "local"} \cup BagNames \cup KeyNames \cup SourceNames \cup RemoteKeys \cup Arns \subseteq Name
    /\ {MaxEdits, MaxSaves, MaxVisits, MaxMappings, MaxModals} \subseteq Nat
    /\ IsFiniteSet(BagNames) /\ IsFiniteSet(KeyNames) /\ IsFiniteSet(SourceNames)
    /\ "" \notin KeyNames \cup RemoteKeys \cup SourceNames
    /\ IsConfig(Started) /\ IsShaped(Started) /\ Valid(Started)
    /\ BornInOrder(Started, Cardinality(DOMAIN Started.secrets))

VARIABLES
    cfg,      \* rootModel.cfg, decrypted and name-keyed
    idmap,    \* rootModel.cfg.IDMap
    minted,   \* number of ids minted
    born,     \* number of bags created
    file,     \* config.toml
    written,  \* the clone whose encoding is in the file
    saves,    \* saves in flight, in the order they were started
    started,  \* number of saves started
    msgs,     \* messages on their way to the loop
    dirty,    \* rootModel.dirty
    at,       \* the screen: menu, a section's list, mapping form, var tree
    visits,   \* number of sections opened
    modals,   \* what is open on top of it: help, the prompts for leaving
    form,     \* the mapping form
    tree,     \* rows of the var tree
    fetch,    \* the fetch of remote bags is under way
    edits,    \* number of edits
    quit,     \* how the session ended
    overlap,  \* something was edited while Busy
    twice,    \* two saves ran at the same time
    silent,   \* an edit since the last save did not report itself
    failed,   \* the save of the menu's "Save & quit" failed
    reused,   \* a name freed by a deletion was taken again before a save
    idOf      \* ids under which each bag was saved

cfgVars == <<cfg, idmap>>
saveVars == <<minted, file, written, idOf, saves, started, twice>>
loopVars == <<dirty, quit, failed>>
screenVars == <<at, visits, modals, form, tree, fetch>>
editVars == <<edits, born, overlap, silent, reused>>
vars == <<cfg, idmap, minted, born, file, written, saves, started, msgs, dirty,
          at, visits, modals, form, tree, fetch, edits, quit, overlap, twice, silent, failed, reused, idOf>>

NoForm == [idx |-> 0, creating |-> FALSE, pending |-> ""]
Blank == [kind |-> "", cmds |-> {}, vars |-> {}]
Literal(name, value) == [name |-> name, source |-> "", ref |-> "", key |-> "", value |-> value]
Ref(name, source, ref, key) ==
    [name |-> name, source |-> source, ref |-> ref, key |-> key, value |-> ""]

\* loadOrInit: the file was written by an earlier session.
FirstIDs == AllIDs(Started, [x \in {} |-> ""], 0)

ASSUME IdAssumption == Cardinality(DOMAIN FirstIDs) <= Len(Ids)

\* The dictionary in rootModel.cfg.Meta.NameMap, which no save replaces.
sealed == DictOf(FirstIDs)

Init ==
    /\ cfg = Started
    /\ idmap = sealed
    /\ minted = Cardinality(DOMAIN FirstIDs)
    /\ born = Cardinality(DOMAIN cfg.secrets)
    /\ file = EncodeWith(cfg, FirstIDs, idmap, idmap)
    /\ written = cfg
    /\ saves = <<>> /\ started = 0
    /\ msgs = {}
    /\ dirty = FALSE
    /\ at = "menu" /\ visits = 0 /\ modals = <<>> /\ form = NoForm /\ tree = <<>> /\ fetch = FALSE
    /\ edits = 0
    /\ quit = "no"
    /\ overlap = FALSE /\ twice = FALSE /\ silent = FALSE /\ failed = FALSE /\ reused = FALSE
    /\ idOf = [n \in {cfg.secrets[b].born : b \in DOMAIN cfg.secrets} |->
                 {FirstIDs[Bag(b)] : b \in {x \in DOMAIN cfg.secrets : cfg.secrets[x].born = n}}]

Running == quit = "no"
Sections == {"bags", "sources", "mappings", "settings"}

On(screen) == Running /\ modals = <<>> /\ at = screen

\* Screens are entered, and filled, as long as the bound leaves an edit to make
\* there.
Useful == edits < MaxEdits
Enter(screen) == Useful /\ at' = screen

\* The messages that end the loop once a save has run: the prompt's, the menu's.
QuitMsgs == {"saved_quit", "menu_quit"}

\* A save runs, or its report or the end of the loop is on its way.
Busy == saves # <<>> \/ msgs \cap (QuitMsgs \cup {"saved"}) # {}

\* The process ends: screens and saves are gone.
Ends(how) ==
    /\ quit' = how
    /\ saves' = <<>>
    /\ at' = "menu" /\ modals' = <<>> /\ form' = NoForm /\ tree' = <<>> /\ fetch' = FALSE
    /\ UNCHANGED <<cfgVars, minted, file, written, idOf, started, twice, dirty, failed,
                   editVars, visits>>

Gone(how) == Ends(how) /\ msgs' = {}

-----------------------------------------------------------------------------
(* Functions with one more, one less or one renamed argument.               *)

With(f, x, y) == [z \in DOMAIN f \cup {x} |-> IF z = x THEN y ELSE f[z]]
Without(f, x) == [z \in DOMAIN f \ {x} |-> f[z]]
Renamed(f, x, y) == With(Without(f, x), y, f[x])

\* The vars of every mapping.
MapVars(c, F(_)) ==
    [c EXCEPT !.mappings = [i \in DOMAIN c.mappings |->
        [c.mappings[i] EXCEPT !.vars = {F(v) : v \in @}]]]

-----------------------------------------------------------------------------
(* Every edit: cfg changes, a dirtyMsg is sent.                             *)

Edited(new) ==
    /\ edits < MaxEdits
    /\ edits' = edits + 1
    /\ cfg' = new
    /\ msgs' = msgs \cup {"dirty"}
    /\ overlap' = (overlap \/ Busy)
    /\ UNCHANGED <<saveVars, loopVars, silent>>

Same == UNCHANGED <<idmap, born, reused>>
Stay == UNCHANGED screenVars

\* The dictionary knows the name; it may be that of a bag deleted since.
InDict(item) == item \in Range(idmap)

(* Bags and keys.                                                          *)

\* ensureLocalSourceExists
WithLocalSource(sources) ==
    IF \E s \in DOMAIN sources : sources[s].type = "local" THEN sources
    ELSE With(sources, "local", [type |-> "local", arns |-> {}, param |-> ""])

AddBag(b) ==
    /\ On("bags") /\ Stay
    /\ b \notin DOMAIN cfg.secrets
    /\ Edited([cfg EXCEPT !.secrets = With(@, b, [born |-> born + 1, kv |-> [k \in {} |-> ""]]),
                          !.sources = WithLocalSource(@)])
    /\ born' = born + 1
    /\ reused' = (reused \/ InDict(Bag(b)))
    /\ UNCHANGED idmap

\* Mutant: references keep the old name.
BagRefNotRenamed(c, v, old, new) == v

\* rewriteLocalBagRefs
BagRefRenamed(c, v, old, new) ==
    IF v.ref = old /\ IsLocal(c.sources, v.source) THEN [v EXCEPT !.ref = new] ELSE v

\* Mutant: the dictionary keeps the old name.
DictNotRenamed(dict, old, new) == dict

\* renameIDMapSource, renameIDMapBag
DictRenamed(dict, old, new) == [id \in DOMAIN dict |-> IF dict[id] = old THEN new ELSE dict[id]]

RenameBag(old, new) ==
    /\ On("bags") /\ Stay
    /\ old \in DOMAIN cfg.secrets /\ new \notin DOMAIN cfg.secrets
    /\ LET F(v) == BagRefRenamed(cfg, v, old, new)
       IN  Edited(MapVars([cfg EXCEPT !.secrets = Renamed(@, old, new)], F))
    /\ idmap' = DictRenamed(idmap, Bag(old), Bag(new))
    /\ reused' = (reused \/ InDict(Bag(new)))
    /\ UNCHANGED born

\* Vars that refer to the bag stay.
DeleteBag(b) ==
    /\ On("bags") /\ Stay /\ Same
    /\ b \in DOMAIN cfg.secrets
    /\ Edited([cfg EXCEPT !.secrets = Without(@, b)])

PutKey(b, k, value) ==
    /\ On("bags") /\ Stay
    /\ b \in DOMAIN cfg.secrets
    /\ Edited([cfg EXCEPT !.secrets[b].kv = With(@, k, value)])
    /\ UNCHANGED <<idmap, born, reused>>

KeyRefRenamed(c, v, bag, old, new) ==
    IF v.ref = bag /\ v.key = old /\ IsLocal(c.sources, v.source)
    THEN [v EXCEPT !.key = new] ELSE v

\* renameIDMapKey: the bag is looked up by name, any id of it may be found.
DictKeyRenamed(dict, bag, old, new) ==
    {DictRenamed(dict, Key(id, old), Key(id, new)) : id \in {x \in DOMAIN dict : dict[x] = Bag(bag)}}

RenameKey(b, old, new, value) ==
    /\ On("bags") /\ Stay
    /\ b \in DOMAIN cfg.secrets
    /\ old \in DOMAIN cfg.secrets[b].kv /\ new \notin DOMAIN cfg.secrets[b].kv
    /\ LET F(v) == KeyRefRenamed(cfg, v, b, old, new)
       IN  Edited(MapVars([cfg EXCEPT !.secrets[b].kv = With(Without(@, old), new, value)], F))
    /\ idmap' \in IF InDict(Bag(b)) THEN DictKeyRenamed(idmap, b, old, new) ELSE {idmap}
    /\ UNCHANGED <<born, reused>>

DeleteKey(b, k) ==
    /\ On("bags") /\ Stay /\ Same
    /\ b \in DOMAIN cfg.secrets /\ k \in DOMAIN cfg.secrets[b].kv
    /\ Edited([cfg EXCEPT !.secrets[b].kv = Without(@, k)])

\* commitMerge: one policy for all keys the bag has already.
BulkImport(b, pairs, overwrite) ==
    /\ On("bags") /\ Stay /\ Same
    /\ b \in DOMAIN cfg.secrets
    /\ LET kv == cfg.secrets[b].kv
       IN  Edited([cfg EXCEPT !.secrets[b].kv =
              [k \in DOMAIN kv \cup DOMAIN pairs |->
                  IF k \in DOMAIN pairs /\ (overwrite \/ k \notin DOMAIN kv)
                  THEN pairs[k] ELSE kv[k]]])

(* Sources.                                                                *)

\* The params form: a new source, or new params of one.
WithParam(sources, s, param) ==
    With(sources, s, [type |-> "aws", param |-> param,
                      arns |-> IF s \in DOMAIN sources THEN sources[s].arns ELSE {}])

SaveSource(s, param) ==
    /\ On("sources") /\ Stay /\ Same
    /\ ~IsLocal(cfg.sources, s)
    /\ Edited([cfg EXCEPT !.sources = WithParam(@, s, param)])

\* openARNs commits the form as well, and says so to nobody.
OpenARNs(s, param) ==
    /\ On("sources") /\ Stay /\ Same
    /\ ~IsLocal(cfg.sources, s)
    /\ edits < MaxEdits
    /\ edits' = edits + 1
    /\ cfg' = [cfg EXCEPT !.sources = WithParam(@, s, param)]
    /\ overlap' = (overlap \/ Busy)
    /\ silent' = TRUE
    /\ UNCHANGED <<saveVars, loopVars, msgs>>

RenameSource(old, new) ==
    /\ On("sources") /\ Stay
    /\ old \in DOMAIN cfg.sources /\ new \notin DOMAIN cfg.sources
    /\ LET F(v) == IF v.source = old THEN [v EXCEPT !.source = new] ELSE v
       IN  Edited(MapVars([cfg EXCEPT !.sources = Renamed(@, old, new)], F))
    /\ idmap' = DictRenamed(idmap, Src(old), Src(new))
    /\ UNCHANGED <<born, reused>>

DeleteSource(s) ==
    /\ On("sources") /\ Stay /\ Same
    /\ s \in DOMAIN cfg.sources
    /\ Edited([cfg EXCEPT !.sources = Without(@, s)])

AddARN(s, arn) ==
    /\ On("sources") /\ Stay /\ Same
    /\ s \in DOMAIN cfg.sources /\ cfg.sources[s].type = "aws"
    /\ Edited([cfg EXCEPT !.sources[s].arns = @ \cup {arn}])

DeleteARN(s, arn) ==
    /\ On("sources") /\ Stay /\ Same
    /\ s \in DOMAIN cfg.sources /\ arn \in cfg.sources[s].arns
    /\ Edited([cfg EXCEPT !.sources[s].arns = @ \ {arn}])

SetAgent(value) ==
    /\ On("settings") /\ Stay /\ Same
    /\ Edited([cfg EXCEPT !.agent = value])

(* Mappings.                                                               *)

RemoveAt(seq, i) == SubSeq(seq, 1, i - 1) \o SubSeq(seq, i + 1, Len(seq))
Mapping == cfg.mappings[form.idx]
EffectiveKind == IF Mapping.kind # "" THEN Mapping.kind ELSE form.pending

\* createNewMapping appends an empty mapping before it opens the form.
NewMapping ==
    /\ On("mappings")
    /\ Len(cfg.mappings) < MaxMappings
    /\ cfg' = [cfg EXCEPT !.mappings = Append(@, Blank)]
    /\ Enter("form")
    /\ form' = [NoForm EXCEPT !.idx = Len(cfg.mappings) + 1, !.creating = TRUE]
    /\ UNCHANGED <<idmap, saveVars, loopVars, editVars, msgs, visits, modals, tree, fetch>>

EditMapping(i) ==
    /\ On("mappings")
    /\ i \in DOMAIN cfg.mappings
    /\ Enter("form")
    /\ form' = [NoForm EXCEPT !.idx = i]
    /\ UNCHANGED <<cfgVars, saveVars, loopVars, editVars, msgs, visits, modals, tree, fetch>>

DeleteMapping(i) ==
    /\ On("mappings") /\ Stay /\ Same
    /\ i \in DOMAIN cfg.mappings
    /\ Edited([cfg EXCEPT !.mappings = RemoveAt(@, i)])

IsEmpty == Mapping.kind = "" /\ Mapping.vars = {}
IsPartial ==
    /\ ~IsEmpty
    /\ \/ Mapping.kind = "" \/ Mapping.vars = {}
       \/ Mapping.kind = "cwd" /\ Mapping.cmds = {}

\* Mutant: the form stays open.
DiscardMappingStays ==
    /\ On("form") /\ Stay
    /\ form.creating /\ (IsEmpty \/ IsPartial)
    /\ cfg' = [cfg EXCEPT !.mappings = RemoveAt(@, form.idx)]
    /\ UNCHANGED <<idmap, saveVars, loopVars, editVars, msgs>>

\* Esc in the form: a new mapping that is empty is dropped, one that is not
\* complete may be; neither is reported.
DiscardMapping ==
    /\ On("form")
    /\ form.creating /\ (IsEmpty \/ IsPartial)
    /\ cfg' = [cfg EXCEPT !.mappings = RemoveAt(@, form.idx)]
    /\ at' = "mappings" /\ form' = NoForm
    /\ UNCHANGED <<idmap, saveVars, loopVars, editVars, msgs, visits, modals, tree, fetch>>

LeaveForm ==
    /\ On("form")
    /\ ~(form.creating /\ (IsEmpty \/ IsPartial))
    /\ at' = "mappings" /\ form' = NoForm
    /\ UNCHANGED <<cfgVars, saveVars, loopVars, editVars, msgs, visits, modals, tree, fetch>>

\* openKindMenu carries the target over; without one only the form changes.
SetKind(kind) ==
    /\ On("form") /\ Same
    /\ Edited([cfg EXCEPT !.mappings[form.idx].kind = IF @ = "" THEN "" ELSE kind,
                          !.mappings[form.idx].cmds = IF kind = "cwd" THEN @ ELSE {}])
    /\ form' = [form EXCEPT !.pending = kind]
    /\ UNCHANGED <<at, visits, modals, tree, fetch>>

\* An empty target leaves the mapping without a kind.
SetTarget(empty) ==
    /\ On("form") /\ Same /\ Stay
    /\ Edited([cfg EXCEPT !.mappings[form.idx].kind =
                  IF empty THEN "" ELSE IF EffectiveKind = "" THEN "path" ELSE EffectiveKind])

\* The commands list: by name, or those a scan of the folder suggests.
AddCommands(cmds) ==
    /\ On("form") /\ Same /\ Stay
    /\ EffectiveKind = "cwd"
    /\ cmds \ Mapping.cmds # {}
    /\ Edited([cfg EXCEPT !.mappings[form.idx].cmds = @ \cup cmds])

\* The folder picked for a scan becomes the target if there is none.
PickFolder ==
    /\ On("form") /\ Same /\ Stay
    /\ EffectiveKind = "cwd" /\ Mapping.kind = ""
    /\ Edited([cfg EXCEPT !.mappings[form.idx].kind = "cwd"])

RemoveCommand(cmd) ==
    /\ On("form") /\ Same /\ Stay
    /\ EffectiveKind = "cwd" /\ cmd \in Mapping.cmds
    /\ Edited([cfg EXCEPT !.mappings[form.idx].cmds = @ \ {cmd}])

-----------------------------------------------------------------------------
(* The var tree: one row per bag, local or remote, with its keys.           *)

Rows(c) ==
    LET locals == {s \in DOMAIN c.sources : c.sources[s].type = "local"}
        local == IF locals = {} THEN {} ELSE {CHOOSE s \in locals : TRUE}
    IN  (local \X DOMAIN c.secrets) \cup
        UNION {{s} \X c.sources[s].arns : s \in DOMAIN c.sources \ locals}

Selects(v, row) == v.source = row[1] /\ v.ref = row[2]
KeysIn(vs, row) == {v.key : v \in {w \in vs : Selects(w, row) /\ w.key # ""}}

\* loadFromMapping
TreeRow(c, vs, row) ==
    LET here == IsLocal(c.sources, row[1])
        keys == IF here THEN DOMAIN c.secrets[row[2]].kv ELSE {}
    IN  [all |-> \E v \in vs : Selects(v, row) /\ v.key = "" /\ v.name = "",
         shown |-> keys, sel |-> KeysIn(vs, row) \cap keys, loading |-> ~here]

OpenTree ==
    /\ On("form")
    /\ Enter("tree")
    /\ tree' = [row \in Rows(cfg) |-> TreeRow(cfg, Mapping.vars, row)]
    /\ fetch' = (\E s \in DOMAIN cfg.sources : ~IsLocal(cfg.sources, s))
    /\ UNCHANGED <<cfgVars, saveVars, loopVars, editVars, msgs, visits, modals, form>>

\* applyAsyncResults; the result is handed to the screen on top, which may be
\* another one by now.
Loaded(row, ok) ==
    IF ~tree[row].loading THEN tree[row]
    ELSE [tree[row] EXCEPT !.loading = FALSE,
             !.shown = IF ok THEN RemoteKeys ELSE {},
             !.sel = IF ok THEN KeysIn(Mapping.vars, row) \cap RemoteKeys ELSE {}]

BagsLoaded(ok) ==
    /\ Running /\ Useful /\ fetch
    /\ fetch' = FALSE
    /\ tree' = IF On("tree") THEN [row \in DOMAIN tree |-> Loaded(row, ok)] ELSE tree
    /\ UNCHANGED <<cfgVars, saveVars, loopVars, editVars, msgs, at, visits, modals, form>>

\* Mutant: all vars are built from the rows.
VarsOfRows(t, vs) ==
    {Ref("", row[1], row[2], "") : row \in {r \in DOMAIN t : t[r].all}}
    \cup UNION {{Ref(k, row[1], row[2], k) : k \in t[row].sel} :
                  row \in {r \in DOMAIN t : ~t[r].all}}

\* commit: the vars of every source that has a row are built from the rows.
VarsOf(t, vs) ==
    {v \in vs : \A row \in DOMAIN t : v.source # row[1]}
    \cup {Ref("", row[1], row[2], "") : row \in {r \in DOMAIN t : t[r].all}}
    \cup UNION {{Ref(k, row[1], row[2], k) : k \in t[row].sel} :
                  row \in {r \in DOMAIN t : ~t[r].all}}

Toggled(t) ==
    /\ On("tree") /\ Same
    /\ tree' = t
    /\ Edited([cfg EXCEPT !.mappings[form.idx].vars = VarsOf(t, @)])
    /\ UNCHANGED <<at, visits, modals, form, fetch>>

ToggleBag(row) ==
    Toggled([tree EXCEPT ![row].all = ~@,
                         ![row].sel = IF tree[row].all THEN @ ELSE {}])

ToggleKey(row, k) ==
    /\ ~tree[row].all /\ ~tree[row].loading
    /\ k \in tree[row].shown
    /\ Toggled([tree EXCEPT ![row].sel = IF k \in @ THEN @ \ {k} ELSE @ \cup {k}])

\* A result that comes later is dropped by the screen below.
LeaveTree ==
    /\ On("tree")
    /\ at' = "form" /\ tree' = <<>> /\ fetch' = FALSE
    /\ UNCHANGED <<cfgVars, saveVars, loopVars, editVars, msgs, visits, modals, form>>

-----------------------------------------------------------------------------
(* Saves.  saveCmd runs beside the loop; so does saveAndQuitCmd of the quit  *)
(* prompt, and the menu's "Save & quit" runs saveCmd and then quits.         *)

NewSave(kind) == [kind |-> kind, phase |-> "clone", snap |-> {}, old |-> {}, new |-> {}]

\* No more saves than edits: another one writes what is in the file already, or
\* repeats one that failed.
Start(kind) ==
    /\ started < MaxSaves /\ started < edits
    /\ started' = started + 1
    /\ saves' = Append(saves, NewSave(kind))
    /\ twice' = (twice \/ saves # <<>>)
    /\ UNCHANGED <<cfgVars, minted, file, written, idOf, loopVars, editVars, msgs>>

\* Ctrl+S, on any screen.
StartSave == Running /\ Start("save") /\ Stay

Top == IF modals = <<>> THEN "none" ELSE modals[Len(modals)]
Pop == modals' = SubSeq(modals, 1, Len(modals) - 1) /\ UNCHANGED <<at, visits, form, tree, fetch>>
Push(modal) ==
    /\ Len(modals) < MaxModals
    /\ modals' = Append(modals, modal)
    /\ UNCHANGED <<at, visits, form, tree, fetch>>

\* The prompt of Ctrl+C stays open while the save runs.  Of two saves that run
\* at a time the second one is a Ctrl+S.
PromptSave == Running /\ saves = <<>> /\ Top = "quit" /\ Start("quit") /\ Stay
MenuSave == Running /\ saves = <<>> /\ Top = "leave" /\ Start("menu") /\ Pop

Save(i, phase) == Running /\ i \in DOMAIN saves /\ saves[i].phase = phase

\* cloneForSave and Validate.  The clone shares the dictionary.
Clone(i) ==
    /\ Save(i, "clone")
    /\ Valid(cfg)
    /\ saves' = [saves EXCEPT ![i].phase = "write", ![i].snap = cfg]
    /\ UNCHANGED <<cfgVars, minted, file, written, idOf, started, twice, loopVars,
                   editVars, screenVars, msgs>>

\* Mutant: the error of a save is dropped, and it reports itself as done.
FailSaved(i) ==
    /\ Running /\ i \in DOMAIN saves /\ saves[i].phase \in {"clone", "write"}
    /\ saves' = RemoveAt(saves, i)
    /\ msgs' = msgs \cup {"saved"}
    /\ UNCHANGED <<cfgVars, minted, file, written, idOf, started, twice, loopVars,
                   editVars, screenVars>>

\* The config is not valid, or encrypting or writing fails.  The menu quits
\* all the same.
Fail(i) ==
    /\ Running /\ i \in DOMAIN saves /\ saves[i].phase \in {"clone", "write"}
    /\ saves' = RemoveAt(saves, i)
    /\ msgs' = IF saves[i].kind = "menu" THEN msgs \cup {"menu_quit"} ELSE msgs
    /\ failed' = (failed \/ saves[i].kind = "menu")
    /\ UNCHANGED <<cfgVars, minted, file, written, idOf, started, twice, dirty, quit,
                   editVars, screenVars>>

\* The dictionary object the clone points to: the live one, until another
\* save put its own in its place.
DictShared(save) == IF save.old = {} THEN idmap ELSE CHOOSE d \in save.old : TRUE

\* EncryptInPlace and AtomicSave.
WriteOut(i) ==
    /\ Save(i, "write")
    /\ \E inv \in NamesToIDs(DictShared(saves[i])) :
          LET snap == saves[i].snap
              ids == AllIDs(snap, inv, minted)
              bags == DOMAIN snap.secrets
          IN  /\ file' = EncodeWith(snap, ids, DictShared(saves[i]), sealed)
              /\ written' = snap
              /\ minted' = minted + Cardinality(DOMAIN ids \ DOMAIN inv)
              /\ minted' <= Len(Ids)   \* bound on ids minted
              /\ idOf' = [n \in DOMAIN idOf \cup {snap.secrets[b].born : b \in bags} |->
                            (IF n \in DOMAIN idOf THEN idOf[n] ELSE {}) \cup
                            {ids[Bag(b)] : b \in {x \in bags : snap.secrets[x].born = n}}]
              /\ saves' = [saves EXCEPT ![i].phase = "take", ![i].new = DictOf(ids)]
              /\ silent' = (silent /\ cfg # snap)
    /\ UNCHANGED <<cfgVars, started, twice, loopVars, edits, born, overlap, reused,
                   screenVars, msgs>>

\* The live config gets the new dictionary; the other clones keep the old one.
Reported(kind) == CASE kind = "save" -> {"saved"}
                    [] kind = "quit" -> {"saved_quit"}
                    [] kind = "menu" -> {"saved", "menu_quit"}

TakeOver(i) ==
    /\ Save(i, "take")
    /\ idmap' = saves[i].new
    /\ saves' = RemoveAt([j \in DOMAIN saves |->
          IF saves[j].phase # "clone" /\ saves[j].old = {}
          THEN [saves[j] EXCEPT !.old = {idmap}] ELSE saves[j]], i)
    /\ msgs' = msgs \cup Reported(saves[i].kind)
    /\ UNCHANGED <<cfg, minted, file, written, idOf, started, twice, loopVars,
                   editVars, screenVars>>

\* cloneForSave ranges over maps the loop writes: the runtime may end the
\* program with "concurrent map iteration and map write".
MapRace ==
    /\ Running /\ edits < MaxEdits
    /\ \E i \in DOMAIN saves : saves[i].phase = "clone"
    /\ Gone("crashed")

-----------------------------------------------------------------------------
(* The loop: messages, screens and leaving.                                 *)

GetDirty ==
    /\ Running /\ "dirty" \in msgs
    /\ dirty' = TRUE
    /\ msgs' = msgs \ {"dirty"}
    /\ UNCHANGED <<cfgVars, saveVars, quit, failed, editVars, screenVars>>

GetSaved ==
    /\ Running /\ "saved" \in msgs
    /\ dirty' = FALSE
    /\ msgs' = msgs \ {"saved"}
    /\ UNCHANGED <<cfgVars, saveVars, quit, failed, editVars, screenVars>>

\* The menu's save has reported itself before its quit is sent.
GetQuit(m) ==
    /\ Running /\ m \in msgs \cap QuitMsgs
    /\ m = "menu_quit" => "saved" \notin msgs
    /\ Ends(m)
    /\ msgs' = msgs \ {m}

\* A quit by a key is taken to end the loop at once.
QuitClean == Ends("clean") /\ UNCHANGED msgs

Shown == UNCHANGED <<cfgVars, saveVars, loopVars, editVars, msgs>>

\* quitOrConfirm
CtrlC ==
    /\ Running
    /\ \/ ~dirty /\ QuitClean
       \/ dirty /\ Top = "quit" /\ Gone("discarded")
       \/ dirty /\ Top # "quit" /\ Push("quit") /\ Shown

\* quitFlow of the menu
MenuQuit ==
    /\ On("menu")
    /\ \/ ~dirty /\ QuitClean
       \/ dirty /\ Push("leave") /\ Shown

Discard == Running /\ Top \in {"quit", "leave"} /\ Gone("discarded")

\* Cancel or Back in a prompt, any key in the help.  The help is modelled on
\* the one screen that can miss a message under it, the var tree.
CloseModal == Running /\ modals # <<>> /\ Pop /\ Shown
OpenHelp == On("tree") /\ Useful /\ fetch /\ Push("help") /\ Shown

OpenSection(section) ==
    /\ On("menu") /\ visits < MaxVisits
    /\ visits' = visits + 1
    /\ Enter(section)
    /\ UNCHANGED <<cfgVars, saveVars, loopVars, editVars, msgs, modals, form, tree, fetch>>

LeaveSection ==
    /\ Running /\ modals = <<>> /\ at \in Sections
    /\ at' = "menu"
    /\ Shown /\ UNCHANGED <<visits, modals, form, tree, fetch>>

-----------------------------------------------------------------------------
\* What is pasted into a bulk import, with one value throughout.
Pairs == {[k \in KeyNames |-> v] : v \in NewValues}

BagEdits ==
    \/ \E b \in BagNames : AddBag(b) \/ DeleteBag(b)
    \/ \E b, c \in BagNames : RenameBag(b, c)
    \/ \E b \in BagNames, k \in KeyNames, v \in NewValues : PutKey(b, k, v)
    \/ \E b \in DOMAIN cfg.secrets, l \in KeyNames : \E k \in DOMAIN cfg.secrets[b].kv :
          \E v \in NewValues \cup {cfg.secrets[b].kv[k]} : RenameKey(b, k, l, v)
    \/ \E b \in BagNames, k \in KeyNames : DeleteKey(b, k)
    \/ \E b \in BagNames, p \in Pairs, o \in BOOLEAN : BulkImport(b, p, o)

SourceEdits ==
    \/ \E s \in SourceNames, v \in NewValues : SaveSource(s, v) \/ OpenARNs(s, v)
    \/ \E s, t \in SourceNames : RenameSource(s, t)
    \/ \E s \in SourceNames : DeleteSource(s)
    \/ \E s \in SourceNames, a \in Arns : AddARN(s, a) \/ DeleteARN(s, a)

MappingEdits ==
    \/ NewMapping \/ DiscardMapping \/ LeaveForm \/ PickFolder
    \/ \E empty \in BOOLEAN : SetTarget(empty)
    \/ \E i \in 1 .. MaxMappings : EditMapping(i) \/ DeleteMapping(i)
    \/ \E kind \in {"path", "cwd"} : SetKind(kind)
    \/ \E cmds \in SUBSET Cmds : AddCommands(cmds)
    \/ \E cmd \in Cmds : RemoveCommand(cmd)

TreeEdits ==
    \/ OpenTree \/ LeaveTree
    \/ \E ok \in BOOLEAN : BagsLoaded(ok)
    \/ \E row \in DOMAIN tree : ToggleBag(row) \/ \E k \in tree[row].shown : ToggleKey(row, k)

Saving ==
    \/ StartSave \/ PromptSave \/ MenuSave \/ MapRace
    \/ \E i \in DOMAIN saves : Clone(i) \/ Fail(i) \/ WriteOut(i) \/ TakeOver(i)

Looping ==
    \/ GetDirty \/ GetSaved \/ CtrlC \/ MenuQuit \/ Discard \/ CloseModal \/ OpenHelp
    \/ LeaveSection \/ \E section \in Sections : OpenSection(section)
    \/ \E m \in QuitMsgs : GetQuit(m)

Next == BagEdits \/ SourceEdits \/ MappingEdits \/ TreeEdits \/ Saving \/ Looping
        \/ \E v \in NewValues : SetAgent(v)

Spec == Init /\ [][Next]_vars
-----------------------------------------------------------------------------
(* Properties.                                                             *)

\* Every variable has its type; a form is open on a mapping that exists, and
\* only there is a var tree (createNewMapping, discardEmpty and the screens'
\* indices into cfg.Mappings).
TuiTypeOK ==
    /\ DOMAIN cfg.secrets \subseteq BagNames
    /\ DOMAIN cfg.sources \subseteq SourceNames \cup {"local"}
    /\ idmap \in [DOMAIN idmap -> Range(idmap)]
    /\ msgs \subseteq {"dirty", "saved"} \cup QuitMsgs
    /\ at \in {"menu", "form", "tree"} \cup Sections
    /\ at \in {"form", "tree"} <=> form.idx # 0
    /\ form.idx \in 0 .. Len(cfg.mappings)
    /\ {dirty, fetch, overlap, twice, silent, failed, reused} \subseteq BOOLEAN
    /\ Len(saves) <= started /\ started <= MaxSaves
    /\ quit \in {"no", "crashed", "clean", "discarded"} \cup QuitMsgs

\* The file opens, unless the config that was cloned for the save has a value
\* that looks like an envelope, and then decodes to that config: EncryptInPlace
\* and DecryptInPlace agree on ids, references, the dictionary and the contexts
\* of params, bag values and the fields of vars, whatever was renamed, deleted
\* or added since the file was loaded.
RoundTrip ==
    /\ Loads(file) <=> ~HoldsEnvelope(written)
    /\ Loads(file) => Decode(file) = written

\* A mapping that was only opened for creation is not an edit.
Kept(c) ==
    IF c.mappings # <<>> /\ c.mappings[Len(c.mappings)] = Blank
    THEN [c EXCEPT !.mappings = RemoveAt(@, Len(@))] ELSE c

\* A session that ends without asking, or after a save, has its edits in the
\* file (quitOrConfirm, quitFlow, saveAndQuitCmd) - unless something was edited
\* beside a save, the ARN list was opened, the menu's save failed, or a
\* dirtyMsg is still on its way.  The file opens, unless a value in it looks
\* like an envelope.
NoSilentLoss ==
    /\ ~overlap /\ ~silent /\ ~failed /\ "dirty" \notin msgs
    /\ quit \in {"clean", "saved_quit", "menu_quit"}
    => HoldsEnvelope(cfg) \/ (Loads(file) /\ Decode(file) = Kept(cfg))

\* A bag keeps its id in all saves of a session, and no two bags share one
\* (the dictionary that renames are applied to and saves hand back) - unless
\* an edit or a second save ran beside a save, or a name was taken again that
\* a deletion had freed.
StableIds ==
    ~overlap /\ ~twice /\ ~reused =>
        \A n, m \in DOMAIN idOf :
            /\ Cardinality(idOf[n]) <= 1
            /\ n # m => idOf[n] \cap idOf[m] = {}

\* What the vars of a mapping inject.
Injected(c, i) == {<<v.name, ValuesOf(c, v)>> :
                      v \in {w \in c.mappings[i].vars : Resolves(c, w)}}

\* Renaming a bag, a source, or a key with its value changes no value that a
\* mapping injects (rewriteLocalBagRefs, rewriteSourceRefs,
\* rewriteLocalKeyRefs).
RenameKeepsValues ==
    [][/\ edits' # edits
       /\ \/ \E b, c \in BagNames : RenameBag(b, c)
          \/ \E s, t \in SourceNames : RenameSource(s, t)
          \/ \E b \in BagNames, k, l \in KeyNames :
                /\ b \in DOMAIN cfg.secrets /\ k \in DOMAIN cfg.secrets[b].kv
                /\ RenameKey(b, k, l, cfg.secrets[b].kv[k])
       => \A i \in DOMAIN cfg.mappings : Injected(cfg, i) \subseteq Injected(cfg', i)]_vars

\* A toggle in the var tree changes the vars of its own row only (commit) -
\* of the vars the tree can show: one of a key the row does not list (it is
\* not loaded, or gone), or with a name of its own, is not.
Shows(v) ==
    \/ \A row \in DOMAIN tree : v.source # row[1]
    \/ \E row \in DOMAIN tree :
          /\ Selects(v, row)
          /\ \/ v.key = "" /\ v.name = ""
             \/ v.key \in tree[row].shown /\ v.name = v.key /\ ~tree[row].all

ToggleKeepsOthers ==
    [][edits' # edits =>
       \A row \in DOMAIN tree :
          ToggleBag(row) \/ (\E k \in tree[row].shown : ToggleKey(row, k))
          => \A v \in Mapping.vars :
                Shows(v) /\ ~Selects(v, row) => v \in cfg'.mappings[form.idx].vars]_vars
=============================================================================
