------------------------- MODULE ConfigCodecProofs -------------------------
(***************************************************************************)
(* The codec is lossless: for every config, whatever dictionary the caller  *)
(* carries, what EncryptInPlace writes is what DecryptInPlace reads.  The   *)
(* argument: ids are taken from the dictionary or minted, and either way no *)
(* two things share one, so the dictionary that is sealed inverts them.     *)
(***************************************************************************)
EXTENDS ConfigCodec, FiniteSetTheorems, FunctionTheorems, SequenceTheorems, TLAPS

\* The ids minted first.
Used(n) == {Ids[i] : i \in 1 .. n}

-----------------------------------------------------------------------------
(* Ids.                                                                     *)

\* The ids are different, and none of the first n is among the later ones.
LEMMA IdFacts ==
    /\ Len(Ids) \in Nat /\ DOMAIN Ids = 1 .. Len(Ids)
    /\ \A i, j \in 1 .. Len(Ids) : Ids[i] = Ids[j] => i = j
BY CodecAssumption, LenProperties DEF IsInjective

\* The ids minted next are among the ids used then, and not among those before.
LEMMA UsedFacts ==
    ASSUME NEW n \in Nat, NEW m \in Nat, n + m <= Len(Ids), NEW i \in n + 1 .. n + m
    PROVE  Ids[i] \in Used(n + m) /\ Ids[i] \notin Used(n) /\ Used(n) \subseteq Used(n + m)
<1>1. i \in 1 .. n + m /\ i \in 1 .. Len(Ids) /\ \A j \in 1 .. n : j \in 1 .. n + m /\ j \in 1 .. Len(Ids) /\ j # i
  BY IdFacts
<1> QED
  BY <1>1, IdFacts DEF Used

\* newID mints an id for each member of S, and no two the same.
LEMMA MintedFacts ==
    ASSUME NEW S, IsFiniteSet(S), NEW n \in Nat, n + Cardinality(S) <= Len(Ids)
    PROVE  /\ Minted(S, n) \in [S -> {Ids[i] : i \in n + 1 .. n + Cardinality(S)}]
           /\ IsInjective(Minted(S, n))
<1> DEFINE k == Cardinality(S)
           free == {Ids[i] : i \in n + 1 .. n + k}
<1>1. k \in Nat /\ ExistsBijection(1 .. k, S)
  BY FS_CardinalityType
<1>2. PICK g \in Bijection(S, 1 .. k) : TRUE
  BY <1>1, Fun_ExistsBijSymmetric DEF ExistsBijection
<1>3. g \in [S -> 1 .. k] /\ \A x, y \in S : g[x] = g[y] => x = y
  BY <1>2 DEF Bijection, Injection, IsInjective
<1> HIDE DEF k
<1> DEFINE f == [x \in S |-> Ids[n + g[x]]]
<1>4. \A x \in S : n + g[x] \in n + 1 .. n + k /\ n + g[x] \in 1 .. Len(Ids)
  BY <1>1, <1>3, IdFacts DEF k
<1>5. f \in [S -> free]
  BY <1>4
<1>6. ASSUME NEW x \in S, NEW y \in S, f[x] = f[y] PROVE x = y
  <2>1. n + g[x] = n + g[y]
    BY <1>4, <1>6, IdFacts
  <2>2. g[x] = g[y]
    BY <1>1, <1>3, <2>1
  <2> QED
    BY <1>3, <2>2
<1>7. IsInjective(f)
  BY <1>6 DEF IsInjective
<1>8. \E h \in [S -> free] : IsInjective(h)
  BY <1>5, <1>7
<1>9. Minted(S, n) = CHOOSE h \in [S -> free] : IsInjective(h)
  BY DEF Minted, k
<1> HIDE DEF free, f
<1>10. Minted(S, n) \in [S -> free] /\ IsInjective(Minted(S, n))
  BY <1>8, <1>9
<1> QED
  BY <1>10 DEF free, k

\* Everything in S gets an id of its own: the dictionary's, or one not used so
\* far.
LEMMA AssignFacts ==
    ASSUME NEW S, IsFiniteSet(S), NEW inv, IsInjective(inv), NEW n \in Nat,
           Range(inv) \subseteq Used(n), n + MintCount(S, inv) <= Len(Ids)
    PROVE  /\ MintCount(S, inv) \in Nat
           /\ Assign(S, inv, n) = [x \in S |-> Assign(S, inv, n)[x]]
           /\ \A x \in S \cap DOMAIN inv : Assign(S, inv, n)[x] = inv[x]
           /\ \A x \in S \ DOMAIN inv : /\ Assign(S, inv, n)[x] \in Used(n + MintCount(S, inv))
                                        /\ Assign(S, inv, n)[x] \notin Used(n)
           /\ \A x, y \in S : Assign(S, inv, n)[x] = Assign(S, inv, n)[y] => x = y
<1> DEFINE old == S \cap DOMAIN inv
           k == MintCount(S, inv)
           new == Minted(S \ old, n)
           a == Assign(S, inv, n)
<1>1. S \ old = S \ DOMAIN inv
  OBVIOUS
<1>2. IsFiniteSet(S \ old) /\ Cardinality(S \ old) = k /\ k \in Nat
  BY <1>1, FS_Difference, FS_CardinalityType DEF MintCount
<1>3. new \in [S \ old -> {Ids[i] : i \in n + 1 .. n + k}] /\ IsInjective(new)
  BY <1>2, MintedFacts
<1>4. a = [x \in S |-> IF x \in old THEN inv[x] ELSE new[x]]
  BY DEF Assign
<1> HIDE DEF k, new, a
<1>5. \A x \in S \ old : new[x] \in Used(n + k) /\ new[x] \notin Used(n)
  <2> SUFFICES ASSUME NEW x \in S \ old PROVE new[x] \in Used(n + k) /\ new[x] \notin Used(n)
    OBVIOUS
  <2>1. PICK i \in n + 1 .. n + k : new[x] = Ids[i]
    BY <1>3
  <2> QED
    BY <1>2, <2>1, UsedFacts DEF k
<1>6. \A x \in old : inv[x] \in Used(n)
  BY DEF Range
<1>7. ASSUME NEW x \in S, NEW y \in S, a[x] = a[y] PROVE x = y
  <2>1. CASE x \in old /\ y \in old
    BY <1>4, <1>7, <2>1 DEF IsInjective
  <2>2. CASE x \notin old /\ y \notin old
    BY <1>3, <1>4, <1>7, <2>2 DEF IsInjective
  <2>3. CASE x \in old /\ y \notin old
    BY <1>4, <1>5, <1>6, <1>7, <2>3
  <2>4. CASE x \notin old /\ y \in old
    BY <1>4, <1>5, <1>6, <1>7, <2>4
  <2> QED
    BY <2>1, <2>2, <2>3, <2>4
<1> QED
  BY <1>1, <1>2, <1>4, <1>5, <1>7 DEF a, k

\* Sources, bags and keys are different things.
LEMMA ItemFacts ==
    ASSUME NEW c, NEW ids
    PROVE  /\ TopItems(c) \cap KeyItems(c, ids) = {}
           /\ \A s : Src(s)[2] = s
           /\ \A b : Bag(b)[2] = b
           /\ \A b, k : Key(b, k)[2] = b /\ Key(b, k)[3] = k
           /\ \A s, b : Src(s) # Bag(b)
           /\ \A s, b, k : Src(s) # Key(b, k) /\ Bag(s) # Key(b, k)
<1>1. \A s, b, k : Src(s) # Key(b, k) /\ Bag(s) # Key(b, k)
  BY DEF Src, Bag, Key
<1>2. \A x \in KeyItems(c, ids) : \E b, k : x = Key(b, k)
  BY DEF KeyItems
<1>3. \A x \in TopItems(c) : \E s : x = Src(s) \/ x = Bag(s)
  BY DEF TopItems
<1>4. TopItems(c) \cap KeyItems(c, ids) = {}
  BY <1>1, <1>2, <1>3
<1> QED
  BY <1>1, <1>4 DEF Src, Bag, Key

\* A config of finitely many things.
Finite(c) ==
    /\ IsFiniteSet(DOMAIN c.sources) /\ IsFiniteSet(DOMAIN c.secrets)
    /\ \A b \in DOMAIN c.secrets : IsFiniteSet(DOMAIN c.secrets[b].kv)

\* So finitely many ids are needed.
LEMMA FiniteItems ==
    ASSUME NEW c, Finite(c), NEW ids
    PROVE  IsFiniteSet(TopItems(c)) /\ IsFiniteSet(KeyItems(c, ids))
<1> USE DEF Finite
<1> DEFINE f == [s \in DOMAIN c.sources |-> Src(s)]
           g == [b \in DOMAIN c.secrets |-> Bag(b)]
           K(b) == {Key(ids[Bag(b)], k) : k \in DOMAIN c.secrets[b].kv}
           h(b) == [k \in DOMAIN c.secrets[b].kv |-> Key(ids[Bag(b)], k)]
           e == [b \in DOMAIN c.secrets |-> K(b)]
<1>0. ASSUME NEW S, IsFiniteSet(S), NEW F, DOMAIN F = S, F = [x \in S |-> F[x]]
      PROVE  IsFiniteSet({F[x] : x \in S})
  <2>1. F \in Surjection(S, {F[x] : x \in S})
    BY <1>0 DEF Surjection
  <2> QED
    BY <1>0, <2>1, FS_Surjection
<1>1. IsFiniteSet({Src(s) : s \in DOMAIN c.sources})
  <2>1. IsFiniteSet({f[s] : s \in DOMAIN c.sources})
    <3>1. DOMAIN f = DOMAIN c.sources /\ f = [x \in DOMAIN c.sources |-> f[x]]
      OBVIOUS
    <3> HIDE DEF f
    <3> QED
      BY <1>0, <3>1
  <2>2. {f[s] : s \in DOMAIN c.sources} = {Src(s) : s \in DOMAIN c.sources}
    OBVIOUS
  <2> QED
    BY <2>1, <2>2
<1>2. IsFiniteSet({Bag(b) : b \in DOMAIN c.secrets})
  <2>1. IsFiniteSet({g[b] : b \in DOMAIN c.secrets})
    <3>1. DOMAIN g = DOMAIN c.secrets /\ g = [x \in DOMAIN c.secrets |-> g[x]]
      OBVIOUS
    <3> HIDE DEF g
    <3> QED
      BY <1>0, <3>1
  <2>2. {g[b] : b \in DOMAIN c.secrets} = {Bag(b) : b \in DOMAIN c.secrets}
    OBVIOUS
  <2> QED
    BY <2>1, <2>2
<1>3. ASSUME NEW b \in DOMAIN c.secrets PROVE IsFiniteSet(K(b))
  <2> DEFINE D == DOMAIN c.secrets[b].kv
             F == h(b)
  <2>1. DOMAIN F = D /\ F = [x \in D |-> F[x]] /\ IsFiniteSet(D)
    OBVIOUS
  <2>2. {F[k] : k \in D} = K(b)
    OBVIOUS
  <2>3. IsFiniteSet({F[k] : k \in D})
    <3> HIDE DEF F, D
    <3> QED
      BY <1>0, <2>1
  <2> QED
    BY <2>2, <2>3
<1>4. IsFiniteSet({K(b) : b \in DOMAIN c.secrets})
  <2>1. IsFiniteSet({e[b] : b \in DOMAIN c.secrets})
    <3>1. DOMAIN e = DOMAIN c.secrets /\ e = [x \in DOMAIN c.secrets |-> e[x]]
      OBVIOUS
    <3> HIDE DEF e
    <3> QED
      BY <1>0, <3>1
  <2>2. {e[b] : b \in DOMAIN c.secrets} = {K(b) : b \in DOMAIN c.secrets}
    OBVIOUS
  <2> QED
    BY <2>1, <2>2
<1>5. KeyItems(c, ids) = UNION {K(b) : b \in DOMAIN c.secrets}
  BY DEF KeyItems
<1> HIDE DEF K
<1>6. IsFiniteSet(KeyItems(c, ids))
  <2>1. \A T \in {K(b) : b \in DOMAIN c.secrets} : IsFiniteSet(T)
    BY <1>3
  <2> QED
    BY <1>4, <1>5, <2>1, FS_UNION
<1>7. IsFiniteSet(TopItems(c))
  BY <1>1, <1>2, FS_Union DEF TopItems
<1> QED
  BY <1>6, <1>7

\* nameToID inverts a dictionary.
LEMMA InverseFacts ==
    ASSUME NEW dict, NEW inv \in NamesToIDs(dict)
    PROVE  /\ DOMAIN inv = Range(dict) /\ IsInjective(inv)
           /\ \A x \in DOMAIN inv : inv[x] \in DOMAIN dict /\ dict[inv[x]] = x
<1>1. PICK S \in SUBSET DOMAIN dict : /\ {dict[id] : id \in S} = Range(dict)
                                      /\ inv = [x \in Range(dict) |-> CHOOSE id \in S : dict[id] = x]
  BY DEF NamesToIDs
<1>2. \A x \in Range(dict) : \E id \in S : dict[id] = x
  BY <1>1
<1>3. \A x \in DOMAIN inv : inv[x] \in S /\ dict[inv[x]] = x
  BY <1>1, <1>2
<1> QED
  BY <1>1, <1>3 DEF IsInjective

\* The ids of a config.
GoodIds(c, ids) ==
    /\ ids = [x \in TopItems(c) \cup KeyItems(c, ids) |-> ids[x]]
    /\ IsInjective(ids)
    /\ Range(ids) \subseteq Range(Ids)

\* The config takes its ids from inv and mints the rest, which makes m in all.
Takes(c, inv, n, ids, m) ==
    /\ ids = AllIDs(c, inv, n)
    /\ m = n + Cardinality(DOMAIN ids \ DOMAIN inv) /\ m <= Len(Ids)

\* Everything in a config gets an id of its own; what the dictionary knows keeps
\* the one it has.
LEMMA AllIDsFacts ==
    ASSUME NEW c, Finite(c), NEW inv, IsInjective(inv), NEW n \in Nat, Range(inv) \subseteq Used(n),
           NEW ids, NEW m, Takes(c, inv, n, ids, m)
    PROVE  /\ m \in Nat /\ n <= m /\ GoodIds(c, ids) /\ Range(ids) \subseteq Used(m)
           /\ \A x \in DOMAIN ids \cap DOMAIN inv : ids[x] = inv[x]
           /\ \A x \in DOMAIN ids \ DOMAIN inv : ids[x] \notin Used(n)
<1> USE DEF Takes
<1> DEFINE T == TopItems(c)
           top == Assign(T, inv, n)
           K == KeyItems(c, top)
           p == n + MintCount(T, inv)
           keys == Assign(K, inv, p)
<1>1. IsFiniteSet(T) /\ IsFiniteSet(K) /\ T \cap K = {}
  BY FiniteItems, ItemFacts
<1>2. DOMAIN top = T /\ DOMAIN keys = K
  BY DEF Assign
<1>3. ids = [x \in T \cup K |-> IF x \in T THEN top[x] ELSE keys[x]] /\ DOMAIN ids = T \cup K
  BY <1>2 DEF AllIDs
<1>4. /\ MintCount(T, inv) \in Nat /\ MintCount(K, inv) \in Nat
      /\ Cardinality(DOMAIN ids \ DOMAIN inv) = MintCount(T, inv) + MintCount(K, inv)
  <2> DEFINE A == T \ DOMAIN inv
             B == K \ DOMAIN inv
  <2>1. IsFiniteSet(A) /\ IsFiniteSet(B) /\ A \cap B = {}
    BY <1>1, FS_Difference
  <2>2. DOMAIN ids \ DOMAIN inv = A \cup B
    BY <1>3
  <2>3. Cardinality(A) \in Nat /\ Cardinality(B) \in Nat
    BY <2>1, FS_CardinalityType
  <2>4. Cardinality(A \cup B) = Cardinality(A) + Cardinality(B)
    <3>1. Cardinality(A \cap B) = 0
      BY <2>1, FS_EmptySet
    <3>2. Cardinality(A \cup B) = Cardinality(A) + Cardinality(B) - Cardinality(A \cap B)
      <4> HIDE DEF A, B
      <4> QED
        BY <2>1, FS_Union
    <3> HIDE DEF A, B
    <3> QED
      BY <2>3, <3>1, <3>2
  <2>5. MintCount(T, inv) = Cardinality(A) /\ MintCount(K, inv) = Cardinality(B)
    BY DEF MintCount
  <2> HIDE DEF A, B
  <2> QED
    BY <2>2, <2>3, <2>4, <2>5
<1>5. /\ m \in Nat /\ p \in Nat /\ n <= m /\ n <= p /\ p <= m /\ m = p + MintCount(K, inv)
      /\ p <= Len(Ids) /\ p + MintCount(K, inv) <= Len(Ids)
  BY <1>4, IdFacts
<1> HIDE DEF T, K, top, keys, p
<1>6. Used(n) \subseteq Used(p) /\ Used(p) \subseteq Used(m)
  <2>1. 1 .. n \subseteq 1 .. p /\ 1 .. p \subseteq 1 .. m
    BY <1>5
  <2> QED
    BY <2>1 DEF Used
<1>7. /\ \A x \in T \cap DOMAIN inv : top[x] = inv[x]
      /\ \A x \in T \ DOMAIN inv : top[x] \in Used(p) /\ top[x] \notin Used(n)
      /\ \A x, y \in T : top[x] = top[y] => x = y
  BY <1>1, <1>5, AssignFacts DEF p, top
<1>8. /\ \A x \in K \cap DOMAIN inv : keys[x] = inv[x]
      /\ \A x \in K \ DOMAIN inv : keys[x] \in Used(m) /\ keys[x] \notin Used(p)
      /\ \A x, y \in K : keys[x] = keys[y] => x = y
  <2>1. Range(inv) \subseteq Used(p)
    BY <1>6
  <2> QED
    BY <1>1, <1>5, <2>1, AssignFacts DEF keys
<1>9. \A x \in DOMAIN inv : inv[x] \in Used(n)
  BY DEF Range
<1>10. ASSUME NEW x \in T, NEW y \in K, top[x] = keys[y] PROVE FALSE
  <2>1. CASE y \in DOMAIN inv
    <3>1. keys[y] = inv[y] /\ inv[y] \in Used(n)
      BY <1>8, <1>9, <2>1
    <3>2. x \in DOMAIN inv /\ top[x] = inv[x]
      BY <1>7, <1>10, <3>1
    <3>3. x = y
      BY <1>10, <2>1, <3>1, <3>2 DEF IsInjective
    <3> QED
      BY <1>1, <3>3
  <2>2. CASE y \notin DOMAIN inv
    <3>1. top[x] \in Used(p)
      BY <1>6, <1>7, <1>9
    <3> QED
      BY <1>8, <1>10, <2>2, <3>1
  <2> QED
    BY <2>1, <2>2
<1>11. IsInjective(ids)
  <2> SUFFICES ASSUME NEW x \in DOMAIN ids, NEW y \in DOMAIN ids, ids[x] = ids[y] PROVE x = y
    BY DEF IsInjective
  <2> QED
    BY <1>3, <1>7, <1>8, <1>10
<1>12. \A x \in DOMAIN ids : ids[x] \in Used(m)
  BY <1>3, <1>6, <1>7, <1>8, <1>9
<1>13. K = KeyItems(c, ids)
  <2>1. \A b \in DOMAIN c.secrets : Bag(b) \in T
    BY DEF T, TopItems
  <2>2. \A b \in DOMAIN c.secrets : ids[Bag(b)] = top[Bag(b)]
    BY <1>3, <2>1
  <2> QED
    BY <2>2 DEF K, KeyItems
<1>14. Used(m) \subseteq Range(Ids)
  <2>1. 1 .. m \subseteq DOMAIN Ids
    BY <1>5, IdFacts
  <2> QED
    BY <2>1 DEF Used, Range
<1>15. Range(ids) \subseteq Used(m)
  BY <1>12 DEF Range
<1>16. GoodIds(c, ids)
  BY <1>3, <1>11, <1>13, <1>14, <1>15 DEF GoodIds, T
<1>17. \A x \in DOMAIN ids \cap DOMAIN inv : ids[x] = inv[x]
  BY <1>3, <1>7, <1>8
<1>18. \A x \in DOMAIN ids \ DOMAIN inv : ids[x] \notin Used(n)
  BY <1>3, <1>6, <1>7, <1>8
<1> QED
  BY <1>5, <1>15, <1>16, <1>17, <1>18

-----------------------------------------------------------------------------
(* Encoding and decoding.                                                   *)

\* A config in memory, its maps and records spelled out.
WellFormed(c) ==
    /\ c = [sources |-> c.sources, secrets |-> c.secrets, mappings |-> c.mappings, agent |-> c.agent]
    /\ c.sources = [s \in DOMAIN c.sources |-> c.sources[s]]
    /\ \A s \in DOMAIN c.sources :
          c.sources[s] = [type |-> c.sources[s].type, arns |-> c.sources[s].arns, param |-> c.sources[s].param]
    /\ c.secrets = [b \in DOMAIN c.secrets |-> c.secrets[b]]
    /\ \A b \in DOMAIN c.secrets :
          /\ c.secrets[b] = [born |-> c.secrets[b].born, kv |-> c.secrets[b].kv]
          /\ c.secrets[b].kv = [k \in DOMAIN c.secrets[b].kv |-> c.secrets[b].kv[k]]
    /\ c.mappings = [i \in DOMAIN c.mappings |-> c.mappings[i]]
    /\ \A i \in DOMAIN c.mappings :
          /\ c.mappings[i] = [kind |-> c.mappings[i].kind, cmds |-> c.mappings[i].cmds,
                              vars |-> c.mappings[i].vars]
          /\ c.mappings[i].vars \subseteq VarType

\* The sealed dictionary leads from every id back to what it stands for.
LEMMA DictFacts ==
    ASSUME NEW ids, IsInjective(ids)
    PROVE  /\ DOMAIN DictOf(ids) = Range(ids)
           /\ \A x \in DOMAIN ids : ids[x] \in Range(ids) /\ DictOf(ids)[ids[x]] = x
<1> SUFFICES ASSUME NEW x \in DOMAIN ids PROVE ids[x] \in Range(ids) /\ DictOf(ids)[ids[x]] = x
  BY DEF DictOf
<1>1. ids[x] \in Range(ids)
  BY DEF Range
<1>2. DictOf(ids)[ids[x]] = CHOOSE y \in DOMAIN ids : ids[y] = ids[x]
  BY <1>1 DEF DictOf
<1>3. \A y \in DOMAIN ids : ids[y] = ids[x] => y = x
  BY DEF IsInjective
<1> QED
  BY <1>1, <1>2, <1>3

\* The ids of the parts of a config.
LEMMA PartIds ==
    ASSUME NEW c, NEW ids, GoodIds(c, ids)
    PROVE  /\ \A s \in DOMAIN c.sources : Src(s) \in DOMAIN ids
           /\ \A b \in DOMAIN c.secrets : /\ Bag(b) \in DOMAIN ids
                                          /\ \A k \in DOMAIN c.secrets[b].kv : Key(ids[Bag(b)], k) \in DOMAIN ids
           /\ \A x \in DOMAIN ids : ids[x] \in Range(Ids)
<1>1. DOMAIN ids = TopItems(c) \cup KeyItems(c, ids)
  BY DEF GoodIds
<1>2. \A s \in DOMAIN c.sources : Src(s) \in TopItems(c)
  BY DEF TopItems
<1>3. \A b \in DOMAIN c.secrets : Bag(b) \in TopItems(c)
  BY DEF TopItems
<1>4. ASSUME NEW b \in DOMAIN c.secrets, NEW k \in DOMAIN c.secrets[b].kv
      PROVE  Key(ids[Bag(b)], k) \in KeyItems(c, ids)
  <2> DEFINE K(x) == {Key(ids[Bag(x)], l) : l \in DOMAIN c.secrets[x].kv}
  <2>1. Key(ids[Bag(b)], k) \in K(b)
    OBVIOUS
  <2>2. KeyItems(c, ids) = UNION {K(x) : x \in DOMAIN c.secrets}
    BY DEF KeyItems
  <2> HIDE DEF K
  <2> QED
    BY <2>1, <2>2
<1>5. \A x \in DOMAIN ids : ids[x] \in Range(Ids)
  BY DEF GoodIds, Range
<1> QED
  BY <1>1, <1>2, <1>3, <1>4, <1>5

\* The parts of a file, by the ids of c.
EncodedTop(c, ids, d) ==
    /\ d.nameMap = DictOf(ids) /\ d.agent = c.agent
    /\ DOMAIN d.sources = {ids[Src(s)] : s \in DOMAIN c.sources}
    /\ \A s \in DOMAIN c.sources : d.sources[ids[Src(s)]] = c.sources[s]
    /\ DOMAIN d.secrets = {ids[Bag(b)] : b \in DOMAIN c.secrets}

EncodedBags(c, ids, d) ==
    \A b \in DOMAIN c.secrets :
        LET id == ids[Bag(b)]
            kv == d.secrets[id].kv
        IN  /\ d.secrets[id].born = c.secrets[b].born
            /\ DOMAIN kv = {ids[Key(id, k)] : k \in DOMAIN c.secrets[b].kv}
            /\ \A k \in DOMAIN c.secrets[b].kv :
                  kv[ids[Key(id, k)]] = c.secrets[b].kv[k]

EncodedMappings(c, ids, d) ==
    d.mappings = [i \in DOMAIN c.mappings |->
        [c.mappings[i] EXCEPT !.vars = {VarToIDs(c, v, ids) : v \in @}]]

\* What is on disk.
LEMMA Encoded ==
    ASSUME NEW c, NEW ids, GoodIds(c, ids), NEW carried, NEW sealed,
           NEW d, d = Translated(c, ids, carried, sealed)
    PROVE  EncodedTop(c, ids, d) /\ EncodedBags(c, ids, d) /\ EncodedMappings(c, ids, d)
<1> DEFINE dict == DictOf(ids)
           bag(id) == c.secrets[dict[id][2]]
           sources == [id \in {ids[Src(s)] : s \in DOMAIN c.sources} |-> c.sources[dict[id][2]]]
           kvs(id) == [kid \in {ids[Key(id, k)] : k \in DOMAIN bag(id).kv} |-> bag(id).kv[dict[kid][3]]]
           secrets == [id \in {ids[Bag(b)] : b \in DOMAIN c.secrets} |->
                          [born |-> bag(id).born, kv |-> kvs(id)]]
<1>1. \A x \in DOMAIN ids : dict[ids[x]] = x
  BY DictFacts DEF GoodIds
<1>2. /\ d.nameMap = dict /\ d.agent = c.agent /\ d.sources = sources /\ d.secrets = secrets
      /\ d.mappings = [i \in DOMAIN c.mappings |->
            [c.mappings[i] EXCEPT !.vars = {VarToIDs(c, v, ids) : v \in @}]]
  BY DEF Translated, SealedDict
<1> HIDE DEF dict
<1>3. ASSUME NEW s \in DOMAIN c.sources PROVE sources[ids[Src(s)]] = c.sources[s]
  <2>1. dict[ids[Src(s)]][2] = s
    BY <1>1, PartIds, ItemFacts
  <2> QED
    BY <2>1
<1>4. ASSUME NEW b \in DOMAIN c.secrets
      PROVE  /\ bag(ids[Bag(b)]) = c.secrets[b]
             /\ secrets[ids[Bag(b)]] = [born |-> c.secrets[b].born, kv |-> kvs(ids[Bag(b)])]
  <2>1. dict[ids[Bag(b)]][2] = b
    BY <1>1, PartIds, ItemFacts
  <2>2. bag(ids[Bag(b)]) = c.secrets[b]
    BY <2>1
  <2> HIDE DEF kvs, bag
  <2> QED
    BY <2>2
<1>5. ASSUME NEW b \in DOMAIN c.secrets
      PROVE  /\ DOMAIN kvs(ids[Bag(b)]) = {ids[Key(ids[Bag(b)], k)] : k \in DOMAIN c.secrets[b].kv}
             /\ \A k \in DOMAIN c.secrets[b].kv :
                   kvs(ids[Bag(b)])[ids[Key(ids[Bag(b)], k)]] = c.secrets[b].kv[k]
  <2> DEFINE id == ids[Bag(b)]
  <2>1. kvs(id) = [kid \in {ids[Key(id, k)] : k \in DOMAIN c.secrets[b].kv} |->
                     c.secrets[b].kv[dict[kid][3]]]
    <3>1. bag(id) = c.secrets[b]
      BY <1>4
    <3> HIDE DEF bag, id
    <3> QED
      BY <3>1
  <2>2. \A k \in DOMAIN c.secrets[b].kv : dict[ids[Key(id, k)]][3] = k
    BY <1>1, PartIds, ItemFacts
  <2> HIDE DEF kvs, id
  <2>3. \A k \in DOMAIN c.secrets[b].kv :
           kvs(id)[ids[Key(id, k)]] = c.secrets[b].kv[k]
    BY <2>1, <2>2
  <2> QED
    BY <2>1, <2>3 DEF id
<1>6. DOMAIN sources = {ids[Src(s)] : s \in DOMAIN c.sources} /\ DOMAIN secrets = {ids[Bag(b)] : b \in DOMAIN c.secrets}
  OBVIOUS
<1>7. \A b \in DOMAIN c.secrets : /\ d.secrets[ids[Bag(b)]].born = c.secrets[b].born
                                  /\ d.secrets[ids[Bag(b)]].kv = kvs(ids[Bag(b)])
  <2> SUFFICES ASSUME NEW b \in DOMAIN c.secrets
               PROVE  /\ d.secrets[ids[Bag(b)]].born = c.secrets[b].born
                      /\ d.secrets[ids[Bag(b)]].kv = kvs(ids[Bag(b)])
    OBVIOUS
  <2>1. secrets[ids[Bag(b)]] = [born |-> c.secrets[b].born, kv |-> kvs(ids[Bag(b)])]
    BY <1>4
  <2>2. d.secrets[ids[Bag(b)]] = [born |-> c.secrets[b].born, kv |-> kvs(ids[Bag(b)])]
    BY <1>2, <2>1
  <2> HIDE DEF kvs, secrets
  <2> QED
    BY <2>2
<1> HIDE DEF kvs, secrets, sources
<1>8. ASSUME NEW b \in DOMAIN c.secrets
      PROVE  LET id == ids[Bag(b)]
                 kv == d.secrets[id].kv
             IN  /\ d.secrets[id].born = c.secrets[b].born
                 /\ DOMAIN kv = {ids[Key(id, k)] : k \in DOMAIN c.secrets[b].kv}
                 /\ \A k \in DOMAIN c.secrets[b].kv :
                       kv[ids[Key(id, k)]] = c.secrets[b].kv[k]
  <2>1. /\ d.secrets[ids[Bag(b)]].born = c.secrets[b].born
        /\ d.secrets[ids[Bag(b)]].kv = kvs(ids[Bag(b)])
    BY <1>7
  <2> QED
    BY <1>5, <2>1
<1>9. /\ DOMAIN d.sources = {ids[Src(s)] : s \in DOMAIN c.sources}
      /\ \A s \in DOMAIN c.sources : d.sources[ids[Src(s)]] = c.sources[s]
      /\ DOMAIN d.secrets = {ids[Bag(b)] : b \in DOMAIN c.secrets}
  BY <1>2, <1>3, <1>6
<1>10. EncodedTop(c, ids, d)
  BY <1>2, <1>9 DEF dict, EncodedTop
<1>11. EncodedBags(c, ids, d)
  BY <1>8 DEF EncodedBags
<1>12. EncodedMappings(c, ids, d)
  BY <1>2 DEF EncodedMappings
<1> QED
  BY <1>10, <1>11, <1>12

\* A var names what it named before.
LEMMA VarDecoded ==
    ASSUME NEW c, NEW ids, GoodIds(c, ids), NEW carried, NEW sealed,
           NEW d, d = Translated(c, ids, carried, sealed), NEW v \in VarType
    PROVE  VarToNames(d, VarToIDs(c, v, ids)) = v
<1> DEFINE u == VarToIDs(c, v, ids)
           nm == DictOf(ids)
<1>1. d.nameMap = nm /\ DOMAIN nm = Range(ids) /\ \A x \in DOMAIN ids : ids[x] \in DOMAIN nm /\ nm[ids[x]] = x
  <2>1. d.nameMap = nm
    BY Encoded DEF EncodedTop
  <2>2. IsInjective(ids)
    BY DEF GoodIds
  <2> QED
    BY <2>1, <2>2, DictFacts
<1>2. /\ DOMAIN d.sources = {ids[Src(s)] : s \in DOMAIN c.sources}
      /\ \A s \in DOMAIN c.sources : d.sources[ids[Src(s)]] = c.sources[s]
  BY Encoded DEF EncodedTop
<1>3. \A x \in Name : x \notin DOMAIN nm /\ x \notin DOMAIN d.sources
  <2>1. \A x \in DOMAIN d.sources : x \in Range(Ids)
    BY <1>2, PartIds
  <2> QED
    BY <1>1, <2>1 DEF Name, GoodIds
<1>4. /\ v.source \in Name /\ v.ref \in Name /\ v.key \in Name
      /\ v = [name |-> v.name, source |-> v.source, ref |-> v.ref, key |-> v.key, value |-> v.value]
  BY DEF VarType
<1> HIDE DEF nm
<1>5. CASE v.source \notin DOMAIN c.sources
  <2>1. u = v
    BY <1>5 DEF VarToIDs
  <2>2. ~IsLocal(d.sources, v.source) /\ Known(d.nameMap, v.source, 2) = v.source
    BY <1>1, <1>3, <1>4 DEF IsLocal, Known
  <2> QED
    BY <1>4, <2>1, <2>2 DEF VarToNames
<1>6. CASE v.source \in DOMAIN c.sources /\ ~IsLocal(c.sources, v.source)
  <2> DEFINE sid == ids[Src(v.source)]
  <2>1. u = [v EXCEPT !.source = sid]
    BY <1>4, <1>6 DEF VarToIDs
  <2>2. sid \in DOMAIN nm /\ nm[sid][2] = v.source /\ d.sources[sid] = c.sources[v.source]
    BY <1>1, <1>2, <1>6, PartIds, ItemFacts
  <2>3. ~IsLocal(d.sources, sid) /\ Known(d.nameMap, sid, 2) = v.source
    BY <1>1, <1>6, <2>2 DEF IsLocal, Known
  <2> HIDE DEF sid
  <2>4. u.source = sid /\ u = [name |-> v.name, source |-> sid, ref |-> v.ref, key |-> v.key, value |-> v.value]
    BY <1>4, <2>1
  <2> HIDE DEF u
  <2>5. VarToNames(d, u) = [u EXCEPT !.source = v.source]
    BY <2>3, <2>4 DEF VarToNames
  <2>6. [u EXCEPT !.source = v.source] =
           [name |-> v.name, source |-> v.source, ref |-> v.ref, key |-> v.key, value |-> v.value]
    BY <2>4
  <2> QED
    BY <1>4, <2>5, <2>6 DEF u
<1>7. CASE v.source \in DOMAIN c.sources /\ IsLocal(c.sources, v.source)
  <2> DEFINE sid == ids[Src(v.source)]
  <2>1. sid \in DOMAIN nm /\ nm[sid][2] = v.source /\ d.sources[sid] = c.sources[v.source] /\ sid \in DOMAIN d.sources
    BY <1>1, <1>2, <1>7, PartIds, ItemFacts
  <2>2. IsLocal(d.sources, sid) /\ Known(d.nameMap, sid, 2) = v.source
    BY <1>1, <1>7, <2>1 DEF IsLocal, Known
  <2>3. \E r, k : /\ u = [name |-> v.name, source |-> sid, ref |-> r, key |-> k, value |-> v.value]
                  /\ Known(nm, r, 2) = v.ref
                  /\ v.key = IF k \in DOMAIN nm /\ nm[k][2] = r THEN nm[k][3] ELSE k
    <3>1. CASE v.ref \notin DOMAIN c.secrets
      <4>1. u = [v EXCEPT !.source = sid]
        BY <1>4, <1>7, <3>1 DEF VarToIDs
      <4>2. u = [name |-> v.name, source |-> sid, ref |-> v.ref, key |-> v.key, value |-> v.value]
        BY <1>4, <4>1
      <4> QED
        BY <1>3, <1>4, <4>2 DEF Known
    <3>2. CASE v.ref \in DOMAIN c.secrets
      <4> DEFINE bag == ids[Bag(v.ref)]
                 kv == c.secrets[v.ref].kv
                 k == IF v.key \in DOMAIN kv THEN ids[Key(bag, v.key)] ELSE v.key
      <4>1. u = [v EXCEPT !.source = sid, !.ref = bag, !.key = k]
        BY <1>4, <1>7, <3>2 DEF VarToIDs
      <4>2. u = [name |-> v.name, source |-> sid, ref |-> bag, key |-> k, value |-> v.value]
        BY <1>4, <4>1
      <4>3. Known(nm, bag, 2) = v.ref
        BY <1>1, <3>2, PartIds, ItemFacts DEF Known
      <4>4. v.key = IF k \in DOMAIN nm /\ nm[k][2] = bag THEN nm[k][3] ELSE k
        <5>1. CASE v.key \in DOMAIN kv
          BY <1>1, <3>2, <5>1, PartIds, ItemFacts
        <5>2. CASE v.key \notin DOMAIN kv
          BY <1>3, <1>4, <5>2
        <5> QED
          BY <5>1, <5>2
      <4> QED
        BY <4>2, <4>3, <4>4
    <3> QED
      BY <3>1, <3>2
  <2> HIDE DEF sid
  <2>4. PICK r, k : /\ u = [name |-> v.name, source |-> sid, ref |-> r, key |-> k, value |-> v.value]
                    /\ Known(nm, r, 2) = v.ref
                    /\ v.key = IF k \in DOMAIN nm /\ nm[k][2] = r THEN nm[k][3] ELSE k
    BY <2>3
  <2> HIDE DEF u
  <2> DEFINE named == [u EXCEPT !.source = v.source]
  <2>5. u.source = sid /\ u.ref = r
    BY <2>4
  <2>6. named = [name |-> v.name, source |-> v.source, ref |-> r, key |-> k, value |-> v.value]
    BY <2>4
  <2>7. VarToNames(d, u) = [named EXCEPT !.ref = Known(nm, @, 2),
                              !.key = IF @ \in DOMAIN nm /\ nm[@][2] = r THEN nm[@][3] ELSE @]
    BY <1>1, <2>2, <2>5 DEF VarToNames
  <2> HIDE DEF named
  <2>8. VarToNames(d, u) = [name |-> v.name, source |-> v.source, ref |-> v.ref, key |-> v.key, value |-> v.value]
    BY <2>4, <2>6, <2>7
  <2> QED
    BY <1>4, <2>8 DEF u
<1> QED
  BY <1>5, <1>6, <1>7

\* The sources are those that were encoded.
LEMMA SourcesDecoded ==
    ASSUME NEW c, WellFormed(c), NEW ids, GoodIds(c, ids), NEW d, EncodedTop(c, ids, d)
    PROVE  [n \in {Known(d.nameMap, id, 2) : id \in DOMAIN d.sources} |->
              d.sources[CHOOSE id \in DOMAIN d.sources : Known(d.nameMap, id, 2) = n]] = c.sources
<1> DEFINE nm == d.nameMap
           D == DOMAIN d.sources
           pick(n) == CHOOSE id \in D : Known(nm, id, 2) = n
<1>1. D = {ids[Src(s)] : s \in DOMAIN c.sources} /\ \A s \in DOMAIN c.sources : d.sources[ids[Src(s)]] = c.sources[s]
  BY DEF EncodedTop
<1>2. \A s \in DOMAIN c.sources : Known(nm, ids[Src(s)], 2) = s
  <2>1. IsInjective(ids) /\ nm = DictOf(ids)
    BY DEF GoodIds, EncodedTop
  <2> QED
    BY <2>1, DictFacts, PartIds, ItemFacts DEF Known
<1>3. ASSUME NEW n \in DOMAIN c.sources PROVE pick(n) = ids[Src(n)]
  <2>1. ids[Src(n)] \in D /\ Known(nm, ids[Src(n)], 2) = n
    BY <1>1, <1>2
  <2>2. \A id \in D : Known(nm, id, 2) = n => id = ids[Src(n)]
    BY <1>1, <1>2
  <2> HIDE DEF D, nm
  <2> QED
    BY <2>1, <2>2
<1>4. {Known(nm, id, 2) : id \in D} = DOMAIN c.sources
  BY <1>1, <1>2
<1>5. \A n \in DOMAIN c.sources : d.sources[pick(n)] = c.sources[n]
  BY <1>1, <1>3
<1>6. [n \in DOMAIN c.sources |-> d.sources[pick(n)]] = c.sources
  <2>1. c.sources = [n \in DOMAIN c.sources |-> c.sources[n]]
    BY DEF WellFormed
  <2> HIDE DEF pick
  <2> QED
    BY <1>5, <2>1
<1> QED
  BY <1>4, <1>6

\* What translateIDsToNames makes of the bags.
DecodedValues(d, kv) ==
    [k \in {Known(d.nameMap, kid, 3) : kid \in DOMAIN kv} |->
        kv[CHOOSE x \in DOMAIN kv : Known(d.nameMap, x, 3) = k]]

DecodedBags(d) ==
    [n \in {Known(d.nameMap, id, 2) : id \in DOMAIN d.secrets} |->
        LET id == CHOOSE x \in DOMAIN d.secrets : Known(d.nameMap, x, 2) = n
        IN  [born |-> d.secrets[id].born, kv |-> DecodedValues(d, d.secrets[id].kv)]]

\* The values of a bag are those that were encoded.
LEMMA ValuesDecoded ==
    ASSUME NEW c, WellFormed(c), NEW ids, GoodIds(c, ids), NEW d, EncodedTop(c, ids, d), EncodedBags(c, ids, d),
           NEW b \in DOMAIN c.secrets, NEW id, id = ids[Bag(b)], NEW kv, kv = d.secrets[id].kv
    PROVE  DecodedValues(d, kv) = c.secrets[b].kv
<1> DEFINE nm == d.nameMap
           old == c.secrets[b].kv
           pick(k) == CHOOSE x \in DOMAIN kv : Known(nm, x, 3) = k
<1>1. /\ DOMAIN kv = {ids[Key(id, k)] : k \in DOMAIN old}
      /\ \A k \in DOMAIN old : kv[ids[Key(id, k)]] = old[k]
  BY DEF EncodedBags
<1>2. \A k \in DOMAIN old : Known(nm, ids[Key(id, k)], 3) = k
  <2>1. IsInjective(ids) /\ nm = DictOf(ids)
    BY DEF GoodIds, EncodedTop
  <2> QED
    BY <2>1, DictFacts, PartIds, ItemFacts DEF Known
<1>3. ASSUME NEW k \in DOMAIN old PROVE pick(k) = ids[Key(id, k)]
  <2>1. ids[Key(id, k)] \in DOMAIN kv /\ Known(nm, ids[Key(id, k)], 3) = k
    BY <1>1, <1>2
  <2>2. \A x \in DOMAIN kv : Known(nm, x, 3) = k => x = ids[Key(id, k)]
    BY <1>1, <1>2
  <2> HIDE DEF nm
  <2> QED
    BY <2>1, <2>2
<1>4. {Known(nm, kid, 3) : kid \in DOMAIN kv} = DOMAIN old
  BY <1>1, <1>2
<1>5. \A k \in DOMAIN old : kv[pick(k)] = old[k]
  BY <1>1, <1>3
<1>6. [k \in DOMAIN old |-> kv[pick(k)]] = old
  <2>1. old = [k \in DOMAIN old |-> old[k]]
    BY DEF WellFormed
  <2> HIDE DEF pick, old
  <2> QED
    BY <1>5, <2>1
<1> QED
  BY <1>4, <1>6 DEF DecodedValues

\* The bags are those that were encoded.
LEMMA BagsDecoded ==
    ASSUME NEW c, WellFormed(c), NEW ids, GoodIds(c, ids), NEW d, EncodedTop(c, ids, d), EncodedBags(c, ids, d)
    PROVE  DecodedBags(d) = c.secrets
<1> DEFINE nm == d.nameMap
           D == DOMAIN d.secrets
           pick(n) == CHOOSE x \in D : Known(nm, x, 2) = n
           bag(n) == [born |-> d.secrets[pick(n)].born, kv |-> DecodedValues(d, d.secrets[pick(n)].kv)]
<1>1. D = {ids[Bag(b)] : b \in DOMAIN c.secrets}
  BY DEF EncodedTop
<1>2. \A b \in DOMAIN c.secrets : Known(nm, ids[Bag(b)], 2) = b
  <2>1. IsInjective(ids) /\ nm = DictOf(ids)
    BY DEF GoodIds, EncodedTop
  <2> QED
    BY <2>1, DictFacts, PartIds, ItemFacts DEF Known
<1>3. ASSUME NEW n \in DOMAIN c.secrets PROVE pick(n) = ids[Bag(n)]
  <2>1. ids[Bag(n)] \in D /\ Known(nm, ids[Bag(n)], 2) = n
    BY <1>1, <1>2
  <2>2. \A id \in D : Known(nm, id, 2) = n => id = ids[Bag(n)]
    BY <1>1, <1>2
  <2> HIDE DEF D, nm
  <2> QED
    BY <2>1, <2>2
<1>4. {Known(nm, id, 2) : id \in D} = DOMAIN c.secrets
  BY <1>1, <1>2
<1>5. ASSUME NEW n \in DOMAIN c.secrets PROVE bag(n) = c.secrets[n]
  <2> DEFINE id == ids[Bag(n)]
             kv == d.secrets[id].kv
  <2>1. pick(n) = id
    BY <1>3
  <2>2. d.secrets[id].born = c.secrets[n].born
    BY DEF EncodedBags
  <2>3. DecodedValues(d, kv) = c.secrets[n].kv
    <3> HIDE DEF id, kv
    <3>1. id = ids[Bag(n)] /\ kv = d.secrets[id].kv
      BY DEF id, kv
    <3> QED
      BY <3>1, ValuesDecoded
  <2>4. c.secrets[n] = [born |-> c.secrets[n].born, kv |-> c.secrets[n].kv]
    BY DEF WellFormed
  <2>5. bag(n) = [born |-> d.secrets[id].born, kv |-> DecodedValues(d, kv)]
    <3> HIDE DEF pick
    <3> QED
      BY <2>1
  <2> HIDE DEF bag, id, kv
  <2> QED
    BY <2>2, <2>3, <2>4, <2>5
<1>6. [n \in DOMAIN c.secrets |-> bag(n)] = c.secrets
  <2>1. c.secrets = [n \in DOMAIN c.secrets |-> c.secrets[n]]
    BY DEF WellFormed
  <2> HIDE DEF bag
  <2> QED
    BY <1>5, <2>1
<1> QED
  BY <1>4, <1>6 DEF DecodedBags

\* The mappings are those that were encoded.
LEMMA MappingsDecoded ==
    ASSUME NEW c, WellFormed(c), NEW ids, GoodIds(c, ids), NEW carried, NEW sealed,
           NEW d, d = Translated(c, ids, carried, sealed)
    PROVE  [i \in DOMAIN d.mappings |-> [d.mappings[i] EXCEPT !.vars = {VarToNames(d, v) : v \in @}]] = c.mappings
<1> DEFINE ids_(i) == {VarToIDs(c, v, ids) : v \in c.mappings[i].vars}
           m(i) == [c.mappings[i] EXCEPT !.vars = ids_(i)]
           back(i) == [m(i) EXCEPT !.vars = {VarToNames(d, v) : v \in @}]
<1>1. d.mappings = [i \in DOMAIN c.mappings |-> m(i)]
  BY Encoded DEF EncodedMappings
<1>2. ASSUME NEW i \in DOMAIN c.mappings PROVE back(i) = c.mappings[i]
  <2>1. \A v \in c.mappings[i].vars : VarToNames(d, VarToIDs(c, v, ids)) = v
    BY VarDecoded DEF WellFormed
  <2>2. {VarToNames(d, u) : u \in ids_(i)} = c.mappings[i].vars
    BY <2>1
  <2>3. c.mappings[i] = [kind |-> c.mappings[i].kind, cmds |-> c.mappings[i].cmds, vars |-> c.mappings[i].vars]
    BY DEF WellFormed
  <2>4. m(i) = [kind |-> c.mappings[i].kind, cmds |-> c.mappings[i].cmds, vars |-> ids_(i)]
    <3> HIDE DEF ids_
    <3> QED
      BY <2>3
  <2> HIDE DEF m, ids_
  <2>5. back(i) = [kind |-> c.mappings[i].kind, cmds |-> c.mappings[i].cmds, vars |-> {VarToNames(d, u) : u \in ids_(i)}]
    BY <2>4
  <2> QED
    BY <2>2, <2>3, <2>5
<1> HIDE DEF m
<1>3. [i \in DOMAIN d.mappings |-> [d.mappings[i] EXCEPT !.vars = {VarToNames(d, v) : v \in @}]] =
         [i \in DOMAIN c.mappings |-> back(i)]
  BY <1>1
<1> HIDE DEF back
<1>4. [i \in DOMAIN c.mappings |-> back(i)] = [i \in DOMAIN c.mappings |-> c.mappings[i]]
  BY <1>2
<1>5. c.mappings = [i \in DOMAIN c.mappings |-> c.mappings[i]]
  BY DEF WellFormed
<1> QED
  BY <1>3, <1>4, <1>5

\* translateIDsToNames undoes the translation.
LEMMA NamedTranslated ==
    ASSUME NEW c, WellFormed(c), NEW ids, GoodIds(c, ids), NEW carried, NEW sealed
    PROVE  Named(Translated(c, ids, carried, sealed)) = c
<1> DEFINE d == Translated(c, ids, carried, sealed)
<1>1. EncodedTop(c, ids, d) /\ EncodedBags(c, ids, d)
  BY Encoded
<1>2. c = [sources |-> c.sources, secrets |-> c.secrets, mappings |-> c.mappings, agent |-> c.agent]
  BY DEF WellFormed
<1>3. [i \in DOMAIN d.mappings |-> [d.mappings[i] EXCEPT !.vars = {VarToNames(d, v) : v \in @}]] = c.mappings
  BY MappingsDecoded
<1> HIDE DEF d
<1>4. d.agent = c.agent
  BY <1>1 DEF EncodedTop
<1> DEFINE s == [n \in {Known(d.nameMap, id, 2) : id \in DOMAIN d.sources} |->
                   d.sources[CHOOSE id \in DOMAIN d.sources : Known(d.nameMap, id, 2) = n]]
           b == DecodedBags(d)
           m == [i \in DOMAIN d.mappings |-> [d.mappings[i] EXCEPT !.vars = {VarToNames(d, v) : v \in @}]]
<1>5. Named(d) = [sources |-> s, secrets |-> b, mappings |-> m, agent |-> d.agent]
  BY DEF Named, DecodedBags, DecodedValues
<1>6. s = c.sources
  BY <1>1, SourcesDecoded
<1>7. b = c.secrets
  BY <1>1, BagsDecoded
<1> HIDE DEF s, b, m
<1>8. m = c.mappings
  BY <1>3 DEF m
<1>9. Named(d) = c
  BY <1>2, <1>4, <1>5, <1>6, <1>7, <1>8
<1> QED
  BY <1>9 DEF d

-----------------------------------------------------------------------------
(* Sealing and opening.                                                     *)

Fields == {"name", "source", "ref", "key", "value"}

\* A file before it is sealed, its maps and records spelled out.
Spelled(d) ==
    /\ d = [sources |-> d.sources, secrets |-> d.secrets, mappings |-> d.mappings,
            agent |-> d.agent, nameMap |-> d.nameMap]
    /\ d.sources = [id \in DOMAIN d.sources |-> d.sources[id]]
    /\ \A id \in DOMAIN d.sources :
          d.sources[id] = [type |-> d.sources[id].type, arns |-> d.sources[id].arns, param |-> d.sources[id].param]
    /\ d.secrets = [id \in DOMAIN d.secrets |-> d.secrets[id]]
    /\ \A id \in DOMAIN d.secrets :
          /\ d.secrets[id] = [born |-> d.secrets[id].born, kv |-> d.secrets[id].kv]
          /\ d.secrets[id].kv = [kid \in DOMAIN d.secrets[id].kv |-> d.secrets[id].kv[kid]]
    /\ d.mappings = [i \in DOMAIN d.mappings |-> d.mappings[i]]
    /\ \A i \in DOMAIN d.mappings :
          /\ d.mappings[i] = [kind |-> d.mappings[i].kind, cmds |-> d.mappings[i].cmds, vars |-> d.mappings[i].vars]
          /\ \A v \in d.mappings[i].vars : v = [f \in Fields |-> v[f]]

\* What is sealed in a context opens in it, unless it looked sealed before.
LEMMA SealFacts ==
    ASSUME NEW aad, aad # <<>>, NEW x
    PROVE  Seal(aad, x).value = x /\ (Opens(aad, Seal(aad, x)) <=> x \notin Envelopes)
<1>1. "" \notin Envelopes
  BY CodecAssumption
<1> QED
  BY <1>1 DEF Seal, Opens

\* A context is not empty.
LEMMA Contexts == \A x, y, z : <<x, y>> # <<>> /\ <<x, y, z>> # <<>>
OBVIOUS

\* The parts of a sealed file.
SealedParts(d, e) ==
    /\ e = [sources |-> e.sources, secrets |-> e.secrets, mappings |-> e.mappings,
            agent |-> d.agent, nameMap |-> d.nameMap]
    /\ e.sources = [id \in DOMAIN d.sources |-> SealSource(id, d.sources[id])]
    /\ e.secrets = [id \in DOMAIN d.secrets |-> SealBag(id, d.secrets[id])]
    /\ e.mappings = [i \in DOMAIN d.mappings |-> SealMapping(i, d.mappings[i])]

LEMMA Sealed ==
    ASSUME NEW d, Spelled(d)
    PROVE  SealedParts(d, SealConfig(d))
<1> DEFINE s == [id \in DOMAIN d.sources |-> SealSource(id, d.sources[id])]
           b == [id \in DOMAIN d.secrets |-> SealBag(id, d.secrets[id])]
           m == [i \in DOMAIN d.mappings |-> SealMapping(i, d.mappings[i])]
           e == SealConfig(d)
<1>1. e = [[[d EXCEPT !.sources = s] EXCEPT !.secrets = b] EXCEPT !.mappings = m]
  BY DEF SealConfig
<1> HIDE DEF s, b, m, e
<1>2. d = [sources |-> d.sources, secrets |-> d.secrets, mappings |-> d.mappings,
           agent |-> d.agent, nameMap |-> d.nameMap]
  BY DEF Spelled
<1>3. e = [sources |-> s, secrets |-> b, mappings |-> m, agent |-> d.agent, nameMap |-> d.nameMap]
  BY <1>1, <1>2
<1>4. e.sources = s /\ e.secrets = b /\ e.mappings = m
  BY <1>3
<1> QED
  BY <1>3, <1>4 DEF SealedParts, s, b, m, e

\* A source, a bag and a mapping come back as they were, and open if none of
\* their values looked sealed.
LEMMA SourceSealed ==
    ASSUME NEW s, s = [type |-> s.type, arns |-> s.arns, param |-> s.param], NEW id
    PROVE  /\ OpenSource(SealSource(id, s)) = s
           /\ Opens(<<"src", id>>, SealSource(id, s).param) <=> s.param \notin Envelopes
<1> DEFINE e == Seal(<<"src", id>>, s.param)
<1>1. e.value = s.param /\ (Opens(<<"src", id>>, e) <=> s.param \notin Envelopes)
  BY SealFacts, Contexts
<1>2. SealSource(id, s) = [type |-> s.type, arns |-> s.arns, param |-> e]
  BY DEF SealSource
<1> HIDE DEF e
<1>3. OpenSource(SealSource(id, s)) = [type |-> s.type, arns |-> s.arns, param |-> e.value]
  BY <1>2 DEF OpenSource
<1> QED
  BY <1>1, <1>2, <1>3

LEMMA BagSealed ==
    ASSUME NEW b, b = [born |-> b.born, kv |-> b.kv], b.kv = [k \in DOMAIN b.kv |-> b.kv[k]], NEW id
    PROVE  /\ OpenBag(SealBag(id, b)) = b
           /\ DOMAIN SealBag(id, b).kv = DOMAIN b.kv
           /\ \A k \in DOMAIN b.kv : Opens(<<"secret", id, k>>, SealBag(id, b).kv[k]) <=> b.kv[k] \notin Envelopes
<1> DEFINE kv == [k \in DOMAIN b.kv |-> Seal(<<"secret", id, k>>, b.kv[k])]
<1>1. SealBag(id, b) = [born |-> b.born, kv |-> kv]
  <2>1. SealBag(id, b) = [b EXCEPT !.kv = kv]
    BY DEF SealBag
  <2> HIDE DEF kv
  <2> QED
    BY <2>1
<1>2. /\ DOMAIN kv = DOMAIN b.kv
      /\ \A k \in DOMAIN b.kv : kv[k].value = b.kv[k] /\ (Opens(<<"secret", id, k>>, kv[k]) <=> b.kv[k] \notin Envelopes)
  BY SealFacts, Contexts
<1> HIDE DEF kv
<1>3. OpenBag(SealBag(id, b)) = [born |-> b.born, kv |-> [k \in DOMAIN kv |-> kv[k].value]]
  BY <1>1 DEF OpenBag
<1>4. [k \in DOMAIN kv |-> kv[k].value] = b.kv
  BY <1>2
<1> QED
  BY <1>1, <1>2, <1>3, <1>4

LEMMA VarSealed ==
    ASSUME NEW v, v = [f \in Fields |-> v[f]], NEW i
    PROVE  /\ OpenVar(SealVar(i, v)) = v
           /\ DOMAIN SealVar(i, v) = Fields /\ DOMAIN v = Fields
           /\ \A f \in Fields : Opens(<<"var", i, f>>, SealVar(i, v)[f]) <=> v[f] \notin Envelopes
<1> DEFINE u == SealVar(i, v)
<1>1. DOMAIN v = Fields
  OBVIOUS
<1>2. u = [f \in Fields |-> Seal(<<"var", i, f>>, v[f])]
  BY <1>1 DEF SealVar
<1>3. /\ DOMAIN u = Fields
      /\ \A f \in Fields : u[f].value = v[f] /\ (Opens(<<"var", i, f>>, u[f]) <=> v[f] \notin Envelopes)
  BY <1>2, SealFacts, Contexts
<1> HIDE DEF u
<1>4. OpenVar(u) = [f \in Fields |-> v[f]]
  BY <1>3 DEF OpenVar
<1> QED
  BY <1>1, <1>3, <1>4 DEF u

LEMMA MappingSealed ==
    ASSUME NEW m, m = [kind |-> m.kind, cmds |-> m.cmds, vars |-> m.vars],
           \A v \in m.vars : v = [f \in Fields |-> v[f]], NEW i
    PROVE  /\ OpenVars(SealMapping(i, m)) = m
           /\ (\A v \in SealMapping(i, m).vars : \A f \in DOMAIN v : Opens(<<"var", i, f>>, v[f]))
              <=> ~\E v \in m.vars : \E f \in DOMAIN v : v[f] \in Envelopes
<1> DEFINE vs == {SealVar(i, v) : v \in m.vars}
<1>1. SealMapping(i, m) = [kind |-> m.kind, cmds |-> m.cmds, vars |-> vs]
  <2>1. SealMapping(i, m) = [m EXCEPT !.vars = vs]
    BY DEF SealMapping
  <2> HIDE DEF vs
  <2> QED
    BY <2>1
<1>2. \A v \in m.vars : /\ OpenVar(SealVar(i, v)) = v
                        /\ DOMAIN SealVar(i, v) = Fields /\ DOMAIN v = Fields
                        /\ \A f \in Fields : Opens(<<"var", i, f>>, SealVar(i, v)[f]) <=> v[f] \notin Envelopes
  BY VarSealed
<1>3. {OpenVar(u) : u \in vs} = m.vars
  BY <1>2
<1>4. (\A u \in vs : \A f \in DOMAIN u : Opens(<<"var", i, f>>, u[f]))
      <=> ~\E v \in m.vars : \E f \in DOMAIN v : v[f] \in Envelopes
  BY <1>2
<1> HIDE DEF vs
<1>5. OpenVars(SealMapping(i, m)) = [kind |-> m.kind, cmds |-> m.cmds, vars |-> {OpenVar(u) : u \in vs}]
  BY <1>1 DEF OpenVars
<1>6. OpenVars(SealMapping(i, m)) = m
  BY <1>3, <1>5
<1>7. SealMapping(i, m).vars = vs
  BY <1>1
<1> QED
  BY <1>4, <1>6, <1>7

\* A file that is sealed and opened is as it was, and it opens if nothing in it
\* looked sealed.
LEMMA OpenSealed ==
    ASSUME NEW d, Spelled(d), NEW e, e = SealConfig(d)
    PROVE  OpenConfig(e) = d /\ (Loads(e) <=> ~HoldsEnvelope(d))
<1>1. SealedParts(d, e)
  BY Sealed
<1>2. /\ e = [sources |-> e.sources, secrets |-> e.secrets, mappings |-> e.mappings,
              agent |-> d.agent, nameMap |-> d.nameMap]
      /\ DOMAIN e.sources = DOMAIN d.sources /\ DOMAIN e.secrets = DOMAIN d.secrets /\ DOMAIN e.mappings = DOMAIN d.mappings
      /\ \A id \in DOMAIN d.sources : e.sources[id] = SealSource(id, d.sources[id])
      /\ \A id \in DOMAIN d.secrets : e.secrets[id] = SealBag(id, d.secrets[id])
      /\ \A i \in DOMAIN d.mappings : e.mappings[i] = SealMapping(i, d.mappings[i])
  BY <1>1 DEF SealedParts
<1>3. ASSUME NEW id \in DOMAIN d.sources
      PROVE  /\ OpenSource(e.sources[id]) = d.sources[id]
             /\ Opens(<<"src", id>>, e.sources[id].param) <=> d.sources[id].param \notin Envelopes
  BY <1>2, SourceSealed DEF Spelled
<1>4. ASSUME NEW id \in DOMAIN d.secrets
      PROVE  /\ OpenBag(e.secrets[id]) = d.secrets[id]
             /\ DOMAIN e.secrets[id].kv = DOMAIN d.secrets[id].kv
             /\ \A k \in DOMAIN d.secrets[id].kv :
                   Opens(<<"secret", id, k>>, e.secrets[id].kv[k]) <=> d.secrets[id].kv[k] \notin Envelopes
  <2>1. /\ d.secrets[id] = [born |-> d.secrets[id].born, kv |-> d.secrets[id].kv]
        /\ d.secrets[id].kv = [k \in DOMAIN d.secrets[id].kv |-> d.secrets[id].kv[k]]
    BY DEF Spelled
  <2> QED
    BY <1>2, <2>1, BagSealed
<1>5. ASSUME NEW i \in DOMAIN d.mappings
      PROVE  /\ OpenVars(e.mappings[i]) = d.mappings[i]
             /\ (\A v \in e.mappings[i].vars : \A f \in DOMAIN v : Opens(<<"var", i, f>>, v[f]))
                <=> ~\E v \in d.mappings[i].vars : \E f \in DOMAIN v : v[f] \in Envelopes
  BY <1>2, MappingSealed DEF Spelled
<1>6. Loads(e) <=> ~HoldsEnvelope(d)
  BY <1>2, <1>3, <1>4, <1>5 DEF Loads, HoldsEnvelope
<1> DEFINE s == [id \in DOMAIN e.sources |-> OpenSource(e.sources[id])]
           b == [id \in DOMAIN e.secrets |-> OpenBag(e.secrets[id])]
           m == [i \in DOMAIN e.mappings |-> OpenVars(e.mappings[i])]
<1>7. s = d.sources /\ b = d.secrets /\ m = d.mappings
  <2>1. s = d.sources
    BY <1>2, <1>3 DEF Spelled
  <2>2. b = d.secrets
    BY <1>2, <1>4 DEF Spelled
  <2>3. m = d.mappings
    BY <1>2, <1>5 DEF Spelled
  <2> QED
    BY <2>1, <2>2, <2>3
<1>8. OpenConfig(e) = [[[e EXCEPT !.sources = s] EXCEPT !.secrets = b] EXCEPT !.mappings = m]
  BY DEF OpenConfig
<1> HIDE DEF s, b, m
<1>9. OpenConfig(e) = [sources |-> s, secrets |-> b, mappings |-> m, agent |-> d.agent, nameMap |-> d.nameMap]
  <2>1. \E x, y, z : e = [sources |-> x, secrets |-> y, mappings |-> z, agent |-> d.agent, nameMap |-> d.nameMap]
    BY <1>2
  <2>2. PICK x, y, z : e = [sources |-> x, secrets |-> y, mappings |-> z, agent |-> d.agent, nameMap |-> d.nameMap]
    BY <2>1
  <2> DEFINE g == [e EXCEPT !.sources = s]
             h == [g EXCEPT !.secrets = b]
  <2>3. g = [sources |-> s, secrets |-> y, mappings |-> z, agent |-> d.agent, nameMap |-> d.nameMap]
    BY <2>2
  <2>4. OpenConfig(e) = [h EXCEPT !.mappings = m]
    BY <1>8
  <2> HIDE DEF g
  <2>5. h = [sources |-> s, secrets |-> b, mappings |-> z, agent |-> d.agent, nameMap |-> d.nameMap]
    BY <2>3
  <2> HIDE DEF h
  <2> QED
    BY <2>4, <2>5
<1>10. d = [sources |-> d.sources, secrets |-> d.secrets, mappings |-> d.mappings,
            agent |-> d.agent, nameMap |-> d.nameMap]
  BY DEF Spelled
<1> QED
  BY <1>6, <1>7, <1>9, <1>10

-----------------------------------------------------------------------------
(* The whole way.                                                           *)

\* A translated var: its name and value stay, what it refers to is a name or an
\* id.
LEMMA VarTranslated ==
    ASSUME NEW c, NEW ids, GoodIds(c, ids), NEW v \in VarType
    PROVE  \E s, r, k : /\ {s, r, k} \subseteq Name \cup Range(Ids)
                        /\ VarToIDs(c, v, ids) = [name |-> v.name, source |-> s, ref |-> r, key |-> k, value |-> v.value]
<1>1. /\ v.source \in Name /\ v.ref \in Name /\ v.key \in Name
      /\ v = [name |-> v.name, source |-> v.source, ref |-> v.ref, key |-> v.key, value |-> v.value]
  BY DEF VarType
<1> DEFINE sid == ids[Src(v.source)]
           bag == ids[Bag(v.ref)]
           kv == c.secrets[v.ref].kv
           k == IF v.key \in DOMAIN kv THEN ids[Key(bag, v.key)] ELSE v.key
<1>2. /\ v.source \in DOMAIN c.sources => sid \in Range(Ids)
      /\ v.ref \in DOMAIN c.secrets => bag \in Range(Ids) /\ k \in Name \cup Range(Ids)
  BY <1>1, PartIds
<1>3. CASE v.source \notin DOMAIN c.sources
  <2>1. VarToIDs(c, v, ids) = v
    BY <1>3 DEF VarToIDs
  <2> QED
    BY <1>1, <2>1
<1>4. CASE v.source \in DOMAIN c.sources /\ (~IsLocal(c.sources, v.source) \/ v.ref \notin DOMAIN c.secrets)
  <2>1. VarToIDs(c, v, ids) = [v EXCEPT !.source = sid]
    BY <1>4 DEF VarToIDs
  <2> HIDE DEF sid
  <2>2. VarToIDs(c, v, ids) = [name |-> v.name, source |-> sid, ref |-> v.ref, key |-> v.key, value |-> v.value]
    BY <1>1, <2>1
  <2> QED
    BY <1>1, <1>2, <1>4, <2>2
<1>5. CASE v.source \in DOMAIN c.sources /\ IsLocal(c.sources, v.source) /\ v.ref \in DOMAIN c.secrets
  <2>1. VarToIDs(c, v, ids) = [v EXCEPT !.source = sid, !.ref = bag, !.key = k]
    BY <1>1, <1>5 DEF VarToIDs
  <2> HIDE DEF sid, bag, k
  <2>2. VarToIDs(c, v, ids) = [name |-> v.name, source |-> sid, ref |-> bag, key |-> k, value |-> v.value]
    BY <1>1, <2>1
  <2> QED
    BY <1>2, <1>5, <2>2
<1> QED
  BY <1>3, <1>4, <1>5

LEMMA VarFields ==
    ASSUME NEW c, NEW ids, GoodIds(c, ids), NEW v \in VarType
    PROVE  VarToIDs(c, v, ids) = [f \in Fields |-> VarToIDs(c, v, ids)[f]]
BY VarTranslated DEF Fields

LEMMA VarEnvelopes ==
    ASSUME NEW c, NEW ids, GoodIds(c, ids), NEW v \in VarType
    PROVE  (\E f \in DOMAIN VarToIDs(c, v, ids) : VarToIDs(c, v, ids)[f] \in Envelopes)
           <=> \E f \in DOMAIN v : v[f] \in Envelopes
<1>1. PICK s, r, k : /\ {s, r, k} \subseteq Name \cup Range(Ids)
                     /\ VarToIDs(c, v, ids) = [name |-> v.name, source |-> s, ref |-> r, key |-> k, value |-> v.value]
  BY VarTranslated
<1>2. \A x \in Name \cup Range(Ids) : x \notin Envelopes
  BY CodecAssumption DEF Name
<1>3. /\ v.source \in Name /\ v.ref \in Name /\ v.key \in Name
      /\ v = [name |-> v.name, source |-> v.source, ref |-> v.ref, key |-> v.key, value |-> v.value]
  BY DEF VarType
<1>4. (\E f \in DOMAIN v : v[f] \in Envelopes) <=> v.name \in Envelopes \/ v.value \in Envelopes
  BY <1>2, <1>3
<1> DEFINE u == [name |-> v.name, source |-> s, ref |-> r, key |-> k, value |-> v.value]
<1>5. (\E f \in DOMAIN u : u[f] \in Envelopes) <=> v.name \in Envelopes \/ v.value \in Envelopes
  BY <1>1, <1>2
<1> QED
  BY <1>1, <1>4, <1>5

\* A translated config is spelled out as the config is.
LEMMA TranslatedSpelled ==
    ASSUME NEW c, WellFormed(c), NEW ids, GoodIds(c, ids), NEW carried, NEW sealed,
           NEW d, d = Translated(c, ids, carried, sealed)
    PROVE  Spelled(d)
<1>1. EncodedTop(c, ids, d) /\ EncodedBags(c, ids, d) /\ EncodedMappings(c, ids, d)
  BY Encoded
<1>2. /\ d = [sources |-> d.sources, secrets |-> d.secrets, mappings |-> d.mappings,
              agent |-> d.agent, nameMap |-> d.nameMap]
      /\ d.sources = [id \in DOMAIN d.sources |-> d.sources[id]]
      /\ d.secrets = [id \in DOMAIN d.secrets |-> d.secrets[id]]
      /\ \A id \in DOMAIN d.secrets :
            /\ d.secrets[id] = [born |-> d.secrets[id].born, kv |-> d.secrets[id].kv]
            /\ d.secrets[id].kv = [kid \in DOMAIN d.secrets[id].kv |-> d.secrets[id].kv[kid]]
  BY DEF Translated
<1>3. \A id \in DOMAIN d.sources :
         d.sources[id] = [type |-> d.sources[id].type, arns |-> d.sources[id].arns, param |-> d.sources[id].param]
  BY <1>1 DEF EncodedTop, WellFormed
<1>4. d.mappings = [i \in DOMAIN d.mappings |-> d.mappings[i]] /\ DOMAIN d.mappings = DOMAIN c.mappings
  BY <1>1 DEF EncodedMappings
<1>5. ASSUME NEW i \in DOMAIN c.mappings
      PROVE  /\ d.mappings[i] = [kind |-> d.mappings[i].kind, cmds |-> d.mappings[i].cmds, vars |-> d.mappings[i].vars]
             /\ \A v \in d.mappings[i].vars : v = [f \in Fields |-> v[f]]
  <2> DEFINE vs == {VarToIDs(c, v, ids) : v \in c.mappings[i].vars}
  <2>1. c.mappings[i] = [kind |-> c.mappings[i].kind, cmds |-> c.mappings[i].cmds, vars |-> c.mappings[i].vars]
        /\ c.mappings[i].vars \subseteq VarType
    BY DEF WellFormed
  <2>2. d.mappings[i] = [c.mappings[i] EXCEPT !.vars = vs]
    BY <1>1 DEF EncodedMappings
  <2>3. \A v \in vs : v = [f \in Fields |-> v[f]]
    <3> SUFFICES ASSUME NEW v \in c.mappings[i].vars
                 PROVE  VarToIDs(c, v, ids) = [f \in Fields |-> VarToIDs(c, v, ids)[f]]
      OBVIOUS
    <3>1. v \in VarType
      BY <2>1
    <3> QED
      BY <3>1, VarFields
  <2> HIDE DEF vs
  <2>4. d.mappings[i] = [kind |-> c.mappings[i].kind, cmds |-> c.mappings[i].cmds, vars |-> vs]
    BY <2>1, <2>2
  <2> QED
    BY <2>3, <2>4
<1> QED
  BY <1>2, <1>3, <1>4, <1>5 DEF Spelled

\* Translation neither adds nor removes what looks like an envelope.
LEMMA TranslatedEnvelopes ==
    ASSUME NEW c, WellFormed(c), NEW ids, GoodIds(c, ids), NEW carried, NEW sealed,
           NEW d, d = Translated(c, ids, carried, sealed)
    PROVE  HoldsEnvelope(d) <=> HoldsEnvelope(c)
<1>1. EncodedTop(c, ids, d) /\ EncodedBags(c, ids, d) /\ EncodedMappings(c, ids, d)
  BY Encoded
<1>2. (\E s \in DOMAIN d.sources : d.sources[s].param \in Envelopes)
      <=> \E s \in DOMAIN c.sources : c.sources[s].param \in Envelopes
  BY <1>1 DEF EncodedTop
<1>3. (\E b \in DOMAIN d.secrets : \E k \in DOMAIN d.secrets[b].kv : d.secrets[b].kv[k] \in Envelopes)
      <=> \E b \in DOMAIN c.secrets : \E k \in DOMAIN c.secrets[b].kv : c.secrets[b].kv[k] \in Envelopes
  <2>1. DOMAIN d.secrets = {ids[Bag(b)] : b \in DOMAIN c.secrets}
    BY <1>1 DEF EncodedTop
  <2>2. ASSUME NEW b \in DOMAIN c.secrets
        PROVE  (\E k \in DOMAIN d.secrets[ids[Bag(b)]].kv : d.secrets[ids[Bag(b)]].kv[k] \in Envelopes)
               <=> \E k \in DOMAIN c.secrets[b].kv : c.secrets[b].kv[k] \in Envelopes
    BY <1>1 DEF EncodedBags
  <2> QED
    BY <2>1, <2>2
<1>4. ASSUME NEW i \in DOMAIN c.mappings
      PROVE  (\E v \in d.mappings[i].vars : \E f \in DOMAIN v : v[f] \in Envelopes)
             <=> \E v \in c.mappings[i].vars : \E f \in DOMAIN v : v[f] \in Envelopes
  <2> DEFINE vs == {VarToIDs(c, v, ids) : v \in c.mappings[i].vars}
  <2>1. c.mappings[i] = [kind |-> c.mappings[i].kind, cmds |-> c.mappings[i].cmds, vars |-> c.mappings[i].vars]
        /\ c.mappings[i].vars \subseteq VarType
    BY DEF WellFormed
  <2>2. d.mappings[i] = [c.mappings[i] EXCEPT !.vars = vs]
    BY <1>1 DEF EncodedMappings
  <2>3. d.mappings[i].vars = vs
    <3> HIDE DEF vs
    <3> QED
      BY <2>1, <2>2
  <2>4. \A v \in c.mappings[i].vars : (\E f \in DOMAIN VarToIDs(c, v, ids) : VarToIDs(c, v, ids)[f] \in Envelopes)
                                      <=> \E f \in DOMAIN v : v[f] \in Envelopes
    BY <2>1, VarEnvelopes
  <2> QED
    BY <2>3, <2>4
<1>5. DOMAIN d.mappings = DOMAIN c.mappings
  BY <1>1 DEF EncodedMappings
<1> QED
  BY <1>2, <1>3, <1>4, <1>5 DEF HoldsEnvelope

\* What EncryptInPlace writes opens unless a value of the config looks like an
\* envelope, and what opens DecryptInPlace turns back into the config, whatever
\* the ids and whichever dictionary was carried.
THEOREM DecodeEncode ==
    ASSUME NEW c, WellFormed(c), NEW ids, GoodIds(c, ids), NEW carried, NEW sealed
    PROVE  LET e == EncodeWith(c, ids, carried, sealed)
           IN  (Loads(e) <=> ~HoldsEnvelope(c)) /\ (Loads(e) => Decode(e) = c)
<1> DEFINE d == Translated(c, ids, carried, sealed)
           e == EncodeWith(c, ids, carried, sealed)
<1>1. e = SealConfig(d)
  BY DEF EncodeWith
<1>2. Spelled(d) /\ (HoldsEnvelope(d) <=> HoldsEnvelope(c)) /\ Named(d) = c
  BY TranslatedSpelled, TranslatedEnvelopes, NamedTranslated
<1> HIDE DEF d, e
<1>3. OpenConfig(e) = d /\ (Loads(e) <=> ~HoldsEnvelope(d))
  BY <1>1, <1>2, OpenSealed
<1>4. Decode(e) = c
  BY <1>2, <1>3 DEF Decode
<1> QED
  BY <1>2, <1>3, <1>4 DEF e
=============================================================================
