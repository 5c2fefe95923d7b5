---------------------------- MODULE ConfigCodec ----------------------------
(***************************************************************************)
(* The two forms of a config: name-keyed in memory, keyed by opaque ids on  *)
(* disk, with the sealed dictionary Meta.NameMap between them; and what a   *)
(* save checks.  Pure operators, used by ConfigTui.                         *)
(*                                                                         *)
(* A dictionary is a function from ids to what they stand for: a source, a  *)
(* bag, or a key of the bag with a given id.  Sealing is abstracted to the  *)
(* context (AAD) a value is bound to, which has to be the same on opening.  *)
(* The vars of a mapping are a set: their order is left out, and with it    *)
(* the slot in their context.  A source has one param; extra fields of a    *)
(* var, sealed like the others, are left out.                               *)
(***************************************************************************)
EXTENDS Naturals, Sequences, FiniteSets, Functions

CONSTANTS
    Ids,       \* the ids newID can mint, in the order it does; all different
    Envelopes  \* values that look like an envelope (IsEnvelope) and open to nothing

ASSUME CodecAssumption ==
    /\ Ids \in Seq(STRING) /\ IsInjective(Ids)
    /\ Envelopes \cap (Range(Ids) \cup {""}) = {}

\* Names look neither like ids nor like envelopes.  A var is a literal or
\* refers to a source; an empty key stands for the whole bag.
Name == STRING \ (Range(Ids) \cup Envelopes)
VarType == [name : STRING, source : Name, ref : Name, key : Name, value : STRING]

Src(name) == <<"src", name>>
Bag(name) == <<"bag", name>>
Key(bagID, name) == <<"key", bagID, name>>

IsLocal(sources, name) == name \in DOMAIN sources /\ sources[name].type = "local"

-----------------------------------------------------------------------------
(* Encoding.                                                               *)

\* nameToID: with two ids of one name, either may come first.
NamesToIDs(dict) ==
    {[x \in Range(dict) |-> CHOOSE id \in first : dict[id] = x] :
        first \in {S \in SUBSET DOMAIN dict :
                     /\ Cardinality(S) = Cardinality(Range(dict))
                     /\ {dict[id] : id \in S} = Range(dict)}}

\* newID for the members of S, after n ids have been minted.
Minted(S, n) ==
    LET free == {Ids[i] : i \in n + 1 .. n + Cardinality(S)}
    IN  CHOOSE f \in [S -> free] : IsInjective(f)

\* Ids of the things in S: kept if the dictionary has them, minted if not.
Assign(S, inv, n) ==
    LET old == S \cap DOMAIN inv
        new == Minted(S \ old, n)
    IN  [x \in S |-> IF x \in old THEN inv[x] ELSE new[x]]

MintCount(S, inv) == Cardinality(S \ DOMAIN inv)

TopItems(c) == {Src(s) : s \in DOMAIN c.sources} \cup {Bag(b) : b \in DOMAIN c.secrets}
KeyItems(c, ids) == UNION {{Key(ids[Bag(b)], k) : k \in DOMAIN c.secrets[b].kv} :
                              b \in DOMAIN c.secrets}

\* translateVarNamesToIDs: names that are not known are left as they are.
VarToIDs(c, v, ids) ==
    IF v.source \notin DOMAIN c.sources THEN v
    ELSE IF ~IsLocal(c.sources, v.source) \/ v.ref \notin DOMAIN c.secrets
    THEN [v EXCEPT !.source = ids[Src(@)]]
    ELSE LET bag == ids[Bag(v.ref)]
         IN  [v EXCEPT !.source = ids[Src(@)], !.ref = bag,
                !.key = IF @ \in DOMAIN c.secrets[v.ref].kv THEN ids[Key(bag, @)] ELSE @]

\* The ids of everything in c, inv being the inverse of the dictionary that
\* the caller carries.
AllIDs(c, inv, n) ==
    LET top == Assign(TopItems(c), inv, n)
        keys == Assign(KeyItems(c, top), inv, n + MintCount(TopItems(c), inv))
    IN  [x \in DOMAIN top \cup DOMAIN keys |-> IF x \in DOMAIN top THEN top[x] ELSE keys[x]]

\* Mutant: a rename, which is in the carried dictionary already, seals nothing.
SealedDictCarried(dict, carried, sealed) == IF dict = carried THEN sealed ELSE dict

\* The dictionary is sealed anew only if it differs from the one the config
\* was loaded with, whatever the carried one says.
SealedDict(dict, carried, sealed) == IF dict = sealed THEN sealed ELSE dict

\* EncryptInPlace: the dictionary is rebuilt from what the config contains.
DictOf(ids) == [id \in Range(ids) |-> CHOOSE x \in DOMAIN ids : ids[x] = id]

\* Names give way to ids, values are still plain.
Translated(c, ids, carried, sealed) ==
    LET dict == DictOf(ids)
        sid(s) == ids[Src(s)]
        bid(b) == ids[Bag(b)]
    IN  [sources |-> [id \in {sid(s) : s \in DOMAIN c.sources} |->
                         c.sources[dict[id][2]]],
         secrets |-> [id \in {bid(b) : b \in DOMAIN c.secrets} |->
             LET bag == c.secrets[dict[id][2]]
             IN  [born |-> bag.born,
                  kv |-> [kid \in {ids[Key(id, k)] : k \in DOMAIN bag.kv} |->
                             bag.kv[dict[kid][3]]]]],
         mappings |-> [i \in DOMAIN c.mappings |->
             [c.mappings[i] EXCEPT !.vars = {VarToIDs(c, v, ids) : v \in @}]],
         agent |-> c.agent,
         nameMap |-> SealedDict(dict, carried, sealed)]

\* EncryptField, by its callers: what is empty, or looks sealed already, is
\* left as it is and so has no context.
Seal(aad, value) ==
    [aad |-> IF value = "" \/ value \in Envelopes THEN <<>> ELSE aad, value |-> value]

\* The contexts: SourceParamAAD, SecretAAD, VarFieldAAD.
SealSource(id, s) == [s EXCEPT !.param = Seal(<<"src", id>>, @)]
SealBag(id, bag) == [bag EXCEPT !.kv = [kid \in DOMAIN @ |-> Seal(<<"secret", id, kid>>, @[kid])]]
SealVar(i, v) == [f \in DOMAIN v |-> Seal(<<"var", i, f>>, v[f])]
SealMapping(i, m) == [m EXCEPT !.vars = {SealVar(i, v) : v \in @}]

SealConfig(d) ==
    [d EXCEPT !.sources = [id \in DOMAIN @ |-> SealSource(id, @[id])],
              !.secrets = [id \in DOMAIN @ |-> SealBag(id, @[id])],
              !.mappings = [i \in DOMAIN @ |-> SealMapping(i, @[i])]]

EncodeWith(c, ids, carried, sealed) == SealConfig(Translated(c, ids, carried, sealed))

-----------------------------------------------------------------------------
(* Decoding.                                                               *)

\* DecryptField, by its callers: what does not look sealed passes; what does
\* opens in the context it was sealed in.
Opens(aad, e) == IF e.aad = <<>> THEN e.value \notin Envelopes ELSE e.aad = aad

\* One value that does not open fails the load.
Loads(d) ==
    /\ \A id \in DOMAIN d.sources : Opens(<<"src", id>>, d.sources[id].param)
    /\ \A id \in DOMAIN d.secrets : \A kid \in DOMAIN d.secrets[id].kv :
          Opens(<<"secret", id, kid>>, d.secrets[id].kv[kid])
    /\ \A i \in DOMAIN d.mappings : \A v \in d.mappings[i].vars : \A f \in DOMAIN v :
          Opens(<<"var", i, f>>, v[f])

OpenSource(s) == [s EXCEPT !.param = @.value]
OpenBag(bag) == [bag EXCEPT !.kv = [kid \in DOMAIN @ |-> @[kid].value]]
OpenVar(v) == [f \in DOMAIN v |-> v[f].value]
OpenVars(m) == [m EXCEPT !.vars = {OpenVar(v) : v \in @}]

OpenConfig(d) ==
    [d EXCEPT !.sources = [id \in DOMAIN @ |-> OpenSource(@[id])],
              !.secrets = [id \in DOMAIN @ |-> OpenBag(@[id])],
              !.mappings = [i \in DOMAIN @ |-> OpenVars(@[i])]]

Known(dict, id, i) == IF id \in DOMAIN dict THEN dict[id][i] ELSE id

\* translateIDsToNames for a var: the type of its source is looked up by id.
VarToNames(d, v) ==
    LET named == [v EXCEPT !.source = Known(d.nameMap, @, 2)]
    IN  IF ~IsLocal(d.sources, v.source) THEN named
        ELSE [named EXCEPT !.ref = Known(d.nameMap, @, 2),
                           !.key = IF @ \in DOMAIN d.nameMap /\ d.nameMap[@][2] = v.ref
                                   THEN d.nameMap[@][3] ELSE @]

\* translateIDsToNames
Named(d) ==
    LET name(id) == Known(d.nameMap, id, 2)
        ids(S, n) == CHOOSE id \in S : name(id) = n
    IN  [sources |-> [n \in {name(id) : id \in DOMAIN d.sources} |->
                         d.sources[ids(DOMAIN d.sources, n)]],
         secrets |-> [n \in {name(id) : id \in DOMAIN d.secrets} |->
             LET id == ids(DOMAIN d.secrets, n)
                 kv == d.secrets[id].kv
             IN  [born |-> d.secrets[id].born,
                  kv |-> [k \in {Known(d.nameMap, kid, 3) : kid \in DOMAIN kv} |->
                             kv[CHOOSE x \in DOMAIN kv : Known(d.nameMap, x, 3) = k]]]],
         mappings |-> [i \in DOMAIN d.mappings |->
             [d.mappings[i] EXCEPT !.vars = {VarToNames(d, v) : v \in @}]],
         agent |-> d.agent]

\* DecryptInPlace of a config that loads.
Decode(d) == Named(OpenConfig(d))

\* A config with a value that looks like an envelope.
HoldsEnvelope(c) ==
    \/ \E s \in DOMAIN c.sources : c.sources[s].param \in Envelopes
    \/ \E b \in DOMAIN c.secrets : \E k \in DOMAIN c.secrets[b].kv : c.secrets[b].kv[k] \in Envelopes
    \/ \E i \in DOMAIN c.mappings : \E v \in c.mappings[i].vars : \E f \in DOMAIN v : v[f] \in Envelopes

-----------------------------------------------------------------------------
(* Checks before a save, and what a var stands for.                         *)

\* ValidateStructure, for one mapping.
ValidMapping(m) ==
    /\ m.kind # ""
    /\ (m.kind = "cwd") = (m.cmds # {})
    /\ m.vars # {}
    /\ \A v \in m.vars :
          IF v.value # "" THEN v.source = "" /\ v.name # ""
          ELSE v.source # "" /\ (v.key # "" => v.name # "")

\* ValidatePost: every var names a source that exists.
SourcesDefined(c) ==
    \A i \in DOMAIN c.mappings : \A v \in c.mappings[i].vars :
        v.value = "" => v.source \in DOMAIN c.sources

Valid(c) == (\A i \in DOMAIN c.mappings : ValidMapping(c.mappings[i])) /\ SourcesDefined(c)

\* The secrets a var of a local source stands for.
Resolves(c, v) ==
    /\ IsLocal(c.sources, v.source)
    /\ v.ref \in DOMAIN c.secrets
    /\ v.key # "" => v.key \in DOMAIN c.secrets[v.ref].kv

ValuesOf(c, v) ==
    LET kv == c.secrets[v.ref].kv
    IN  {kv[k] : k \in IF v.key = "" THEN DOMAIN kv ELSE {v.key}}
=============================================================================
