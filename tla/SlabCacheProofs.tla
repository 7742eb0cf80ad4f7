-------------------------- MODULE SlabCacheProofs --------------------------
(***************************************************************************)
(* Proofs about SlabCache for every capacity, every number of slabs and    *)
(* both kinds of cache.  The argument has three independent parts, each in *)
(* lemmas about the operators: popping and pushing a chunk keeps a chain   *)
(* sorted and complete, unlinking and linking a slab keeps the lists       *)
(* well linked, and the count of a slab follows its set of used chunks.    *)
(*                                                                         *)
(* A second invariant is about what the loops over the lists find.         *)
(* ListsAgree alone would allow slabs linked in a circle that no list head *)
(* reaches; a rank that grows along every list excludes it.  A loop that   *)
(* has come to the end of a list has then seen every slab that belongs on  *)
(* it.                                                                     *)
(***************************************************************************)
EXTENDS MCSlabCache, FiniteSetTheorems, WellFoundedInduction, TLAPS

Chain == [0 .. Sentinel -> 0 .. Sentinel]

Links == [next : [Nodes -> Slabs \cup {NULL}], prev : [Nodes -> Nodes \cup {NULL}]]

----------------------------------------------------------------------------
\* The chain of free chunks.

\* Chunks are integers between the base and the header behind the last one.
LEMMA ChunkOrder ==
    /\ Base \in Int /\ Sentinel \in Int /\ Base < Sentinel
    /\ \A c \in Chunks : c \in Int /\ Base < c /\ c < Sentinel
    /\ {Base, Sentinel} \cup Chunks = 0 .. Sentinel
  BY CapAssumption DEF Base, Sentinel, Chunks

\* Taking the first chunk of a non-empty chain yields its lowest chunk and
\* leaves the chain over the others.
LEMMA PopChain ==
    ASSUME NEW chain \in Chain, NEW F \in SUBSET Chunks, F # {}, ChainOver(chain, F)
    PROVE  /\ chain[Base] \in F
           /\ [chain EXCEPT ![Base] = chain[chain[Base]]] \in Chain
           /\ ChainOver([chain EXCEPT ![Base] = chain[chain[Base]]], F \ {chain[Base]})
  <1> DEFINE new == [chain EXCEPT ![Base] = chain[chain[Base]]]
  <1>1. PICK c : c = chain[Base]
    OBVIOUS
  <1>2. c \in F \cup {Sentinel} /\ \A r \in F : r <= Base \/ c <= r
    BY <1>1 DEF ChainOver
  <1>3. c \in F /\ \A r \in F : c <= r
    BY <1>2, ChunkOrder
  <1>4. /\ chain[c] \in F \cup {Sentinel}
        /\ c < chain[c]
        /\ \A r \in F : r <= c \/ chain[c] <= r
    BY <1>3 DEF ChainOver
  <1>5. chain[c] # c /\ Base < chain[c]
    BY <1>3, <1>4, ChunkOrder
  <1>6. /\ new \in Chain
        /\ new[Base] = chain[c]
        /\ \A p \in F : new[p] = chain[p]
    <2>1. Base \in 0 .. Sentinel /\ c \in 0 .. Sentinel /\ F \subseteq 0 .. Sentinel /\ Base \notin F
      BY <1>3, ChunkOrder
    <2>2. chain[c] \in 0 .. Sentinel
      BY <2>1 DEF Chain
    <2> QED
      BY <1>1, <2>1, <2>2 DEF Chain
  <1>7. ASSUME NEW p \in {Base} \cup (F \ {c})
        PROVE  /\ new[p] \in (F \ {c}) \cup {Sentinel}
               /\ p < new[p]
               /\ \A r \in F \ {c} : r <= p \/ new[p] <= r
    <2>1. CASE p = Base
      <3>1. \A r \in F \ {c} : ~(r <= c)
        BY <1>3, ChunkOrder
      <3> HIDE DEF new
      <3> QED BY <1>4, <1>5, <1>6, <2>1, <3>1
    <2>2. CASE p # Base
      <3>1. p \in F /\ p # c
        BY <2>2
      <3>2. chain[p] \in F \cup {Sentinel} /\ p < chain[p]
            /\ \A r \in F : r <= p \/ chain[p] <= r
        BY <3>1 DEF ChainOver
      <3>3. chain[p] # c
        BY <1>3, <3>1, <3>2, ChunkOrder
      <3> HIDE DEF new
      <3> QED BY <1>6, <3>1, <3>2, <3>3
    <2> QED BY <2>1, <2>2
  <1>8. ChainOver(new, F \ {c})
    <2> HIDE DEF new
    <2> QED BY <1>7 DEF ChainOver
  <1> QED BY <1>1, <1>3, <1>6, <1>8

\* Linking chunk c behind p, where p is the base or a free chunk below c and
\* the successor of p is above c, gives the chain over the chunks and c.
LEMMA PushChain ==
    ASSUME NEW chain \in Chain, NEW F \in SUBSET Chunks, ChainOver(chain, F),
           NEW c \in Chunks, c \notin F, NEW p \in {Base} \cup F,
           p < c, ~(chain[p] < c)
    PROVE  /\ [chain EXCEPT ![c] = chain[p], ![p] = c] \in Chain
           /\ ChainOver([chain EXCEPT ![c] = chain[p], ![p] = c], F \cup {c})
  <1> DEFINE new == [chain EXCEPT ![c] = chain[p], ![p] = c]
  <1>1. /\ chain[p] \in F \cup {Sentinel}
        /\ p < chain[p]
        /\ \A r \in F : r <= p \/ chain[p] <= r
    BY DEF ChainOver
  <1>2. c < chain[p] /\ p # c /\ p \in Int /\ c \in Int /\ chain[p] \in Int
    BY <1>1, ChunkOrder
  <1>3. /\ new \in Chain
        /\ new[c] = chain[p]
        /\ new[p] = c
        /\ \A q \in {Base} \cup F : q # p => new[q] = chain[q]
    <2>1. {Base, p, c, chain[p]} \cup F \subseteq 0 .. Sentinel /\ c \notin {Base} \cup F
      BY <1>1, ChunkOrder
    <2> QED BY <1>2, <2>1 DEF Chain
  <1>4. ASSUME NEW q \in {Base} \cup (F \cup {c})
        PROVE  /\ new[q] \in (F \cup {c}) \cup {Sentinel}
               /\ q < new[q]
               /\ \A r \in F \cup {c} : r <= q \/ new[q] <= r
    <2> HIDE DEF new
    <2>1. CASE q = c
      <3>1. \A r \in F : r <= c \/ chain[p] <= r
        BY <1>1, <1>2, ChunkOrder
      <3> QED BY <1>1, <1>2, <1>3, <2>1, <3>1
    <2>2. CASE q = p
      <3>1. \A r \in F : r <= p \/ c <= r
        BY <1>1, <1>2, ChunkOrder
      <3> QED BY <1>2, <1>3, <2>2, <3>1
    <2>3. CASE q # c /\ q # p
      <3>1. new[q] = chain[q] /\ q \in {Base} \cup F
        BY <1>3, <2>3
      <3>2. chain[q] \in F \cup {Sentinel} /\ q < chain[q]
            /\ \A r \in F : r <= q \/ chain[q] <= r
        BY <3>1 DEF ChainOver
      <3>3. q \in Int /\ chain[q] \in Int
        BY <3>1, <3>2, ChunkOrder
      <3>4. c <= q \/ chain[q] <= c
        <4>1. CASE q = Base
          BY <1>2, <2>3, <3>2, <3>3, <4>1, ChunkOrder
        <4>2. CASE q \in F /\ q <= p
          <5>1. q < p /\ p \in F
            BY <1>2, <2>3, <3>3, <4>2, ChunkOrder
          <5> QED BY <1>2, <3>2, <3>3, <5>1
        <4>3. CASE q \in F /\ chain[p] <= q
          BY <1>2, <3>3, <4>3
        <4> QED BY <1>1, <3>1, <4>1, <4>2, <4>3
      <3> QED BY <3>1, <3>2, <3>4
    <2> QED BY <2>1, <2>2, <2>3
  <1>5. ChainOver(new, F \cup {c})
    <2> HIDE DEF new
    <2> QED BY <1>4 DEF ChainOver
  <1> QED BY <1>3, <1>5

\* The chain of a new slab is the chain over all its chunks.
LEMMA NewChainOver == NewChain \in Chain /\ ChainOver(NewChain, Chunks)
  BY CapAssumption DEF NewChain, ChainOver, Chain, Chunks, Sentinel, Base

----------------------------------------------------------------------------
\* The lists of slabs.

\* A slab is neither a list head nor the null pointer.
LEMMA NodeKinds ==
    /\ NULL \notin Nodes
    /\ \A s \in Slabs : s \notin Heads
    /\ Heads \subseteq Nodes /\ Slabs \subseteq Nodes
  BY MaxSlabsAssumption DEF Nodes, Heads, FreeHead, PartialHead, FullHead, NULL, Slabs

\* Unlinking a slab leaves the other slabs well linked.
LEMMA Unlink ==
    ASSUME NEW l \in Links, NEW S \in SUBSET Slabs, NEW home,
           WellLinked(l, S, home), NEW s \in S
    PROVE  /\ slab_remove_from_cache(l, s) \in Links
           /\ WellLinked(slab_remove_from_cache(l, s), S \ {s}, home)
  <1> DEFINE m == slab_remove_from_cache(l, s)
  <1> USE NodeKinds
  <1>1. s # NULL /\ s \in Nodes /\ s \notin Heads
    OBVIOUS
  <1>2. /\ l.prev[s] \in Heads \cup S
        /\ l.next[l.prev[s]] = s
        /\ home[l.prev[s]] = home[s]
        /\ l.next[s] # NULL => l.next[s] \in S /\ l.prev[l.next[s]] = s
                               /\ home[l.next[s]] = home[s]
    BY DEF WellLinked
  <1>3. l.prev[s] \in Nodes /\ l.prev[s] # NULL
    BY <1>2
  <1>4. m = [next |-> [l.next EXCEPT ![l.prev[s]] = l.next[s]],
             prev |-> IF l.next[s] = NULL THEN l.prev
                      ELSE [l.prev EXCEPT ![l.next[s]] = l.prev[s]]]
    BY <1>1 DEF slab_remove_from_cache
  <1>5. m \in Links
    <2>1. l.next \in [Nodes -> Slabs \cup {NULL}] /\ l.prev \in [Nodes -> Nodes \cup {NULL}]
      BY DEF Links
    <2>2. [l.next EXCEPT ![l.prev[s]] = l.next[s]] \in [Nodes -> Slabs \cup {NULL}]
      BY <1>1, <2>1
    <2>3. [l.prev EXCEPT ![l.next[s]] = l.prev[s]] \in [Nodes -> Nodes \cup {NULL}]
      BY <1>1, <2>1
    <2> QED BY <1>4, <2>1, <2>2, <2>3 DEF Links
  <1>6. \A n \in Nodes : m.next[n] = IF n = l.prev[s] THEN l.next[s] ELSE l.next[n]
    BY <1>3, <1>4 DEF Links
  <1>7. \A n \in Nodes : m.prev[n] = IF n = l.next[s] /\ n # NULL THEN l.prev[s] ELSE l.prev[n]
    BY <1>1, <1>2, <1>4 DEF Links
  <1>8. ASSUME NEW t \in S \ {s}
        PROVE  /\ m.prev[t] \in Heads \cup (S \ {s})
               /\ m.next[m.prev[t]] = t
               /\ home[m.prev[t]] = home[t]
    <2>1. /\ l.prev[t] \in Heads \cup S
          /\ l.next[l.prev[t]] = t
          /\ home[l.prev[t]] = home[t]
      BY DEF WellLinked
    <2>2. CASE t = l.next[s]
      <3>0. t \in Nodes /\ t # NULL
        OBVIOUS
      <3>1. m.prev[t] = l.prev[s] /\ l.prev[t] = s
        BY <1>2, <1>7, <2>2, <3>0
      <3>2. l.prev[s] # s
        BY <1>2, <2>2
      <3> QED BY <1>2, <1>3, <1>6, <2>1, <2>2, <3>1, <3>2
    <2>3. CASE t # l.next[s]
      <3>1. m.prev[t] = l.prev[t] /\ l.prev[t] # s
        BY <1>7, <2>1, <2>3
      <3>2. l.prev[t] # l.prev[s]
        BY <1>2, <2>1
      <3> QED BY <1>6, <2>1, <3>1, <3>2
    <2> QED BY <2>2, <2>3
  <1>9. ASSUME NEW n \in Heads \cup (S \ {s}), m.next[n] # NULL
        PROVE  /\ m.next[n] \in S \ {s}
               /\ m.prev[m.next[n]] = n
               /\ home[m.next[n]] = home[n]
    <2>1. n \in Nodes /\ n # s
      BY <1>1
    <2>2. CASE n = l.prev[s]
      <3>1. m.next[n] = l.next[s] /\ l.next[s] # NULL /\ l.next[s] \in S
        BY <1>2, <1>6, <1>9, <2>1, <2>2
      <3>2. l.next[s] # s
        BY <1>2, <2>1, <2>2
      <3> QED BY <1>2, <1>7, <2>2, <3>1, <3>2
    <2>3. CASE n # l.prev[s]
      <3>1. m.next[n] = l.next[n]
        BY <1>6, <2>1, <2>3
      <3>2. l.next[n] \in S /\ l.prev[l.next[n]] = n /\ home[l.next[n]] = home[n]
        BY <1>9, <3>1 DEF WellLinked
      <3>3. l.next[n] # s /\ l.next[n] # l.next[s]
        BY <1>2, <2>1, <2>3, <3>2
      <3> QED BY <1>7, <3>1, <3>2, <3>3
    <2> QED BY <2>2, <2>3
  <1> QED BY <1>5, <1>8, <1>9 DEF WellLinked

\* Linking a slab in behind a head keeps the lists well linked, when the head
\* is the slab's home and no other slab changes home.
LEMMA LinkIn ==
    ASSUME NEW l \in Links, NEW S \in SUBSET Slabs, NEW old, NEW home,
           WellLinked(l, S, old), NEW s \in Slabs, s \notin S, NEW head \in Heads,
           \A n \in Heads \cup S : home[n] = old[n],
           home[s] = home[head]
    PROVE  /\ slab_insert_in_cache(l, head, s) \in Links
           /\ WellLinked(slab_insert_in_cache(l, head, s), S \cup {s}, home)
  <1> DEFINE m == slab_insert_in_cache(l, head, s)
  <1> USE NodeKinds
  <1>1. s # NULL /\ s \in Nodes /\ s \notin Heads /\ head \in Nodes /\ head # NULL
    OBVIOUS
  <1>2. l.next[head] # NULL => l.next[head] \in S /\ l.prev[l.next[head]] = head
                               /\ old[l.next[head]] = old[head]
    BY DEF WellLinked
  <1>3. m \in Links
    BY <1>1, <1>2 DEF Links, slab_insert_in_cache
  <1>4. \A n \in Nodes : m.next[n] = IF n = s THEN l.next[head]
                                     ELSE IF n = head THEN s ELSE l.next[n]
    BY <1>1 DEF Links, slab_insert_in_cache
  <1>5. \A n \in Nodes : m.prev[n] = IF n = l.next[head] /\ n # NULL THEN s
                                     ELSE IF n = s THEN head ELSE l.prev[n]
    BY <1>1, <1>2 DEF Links, slab_insert_in_cache
  <1>6. ASSUME NEW t \in S \cup {s}
        PROVE  /\ m.prev[t] \in Heads \cup (S \cup {s})
               /\ m.next[m.prev[t]] = t
               /\ home[m.prev[t]] = home[t]
    <2>1. CASE t = s
      BY <1>1, <1>2, <1>4, <1>5, <2>1
    <2>2. CASE t # s /\ t = l.next[head]
      BY <1>1, <1>2, <1>4, <1>5, <2>2
    <2>3. CASE t # s /\ t # l.next[head]
      <3>1. l.prev[t] \in Heads \cup S /\ l.next[l.prev[t]] = t /\ old[l.prev[t]] = old[t]
        BY <2>3 DEF WellLinked
      <3>2. m.prev[t] = l.prev[t] /\ l.prev[t] # s /\ l.prev[t] # head
        BY <1>1, <1>5, <2>3, <3>1
      <3> QED BY <1>4, <2>3, <3>1, <3>2
    <2> QED BY <2>1, <2>2, <2>3
  <1>7. ASSUME NEW n \in Heads \cup (S \cup {s}), m.next[n] # NULL
        PROVE  /\ m.next[n] \in S \cup {s}
               /\ m.prev[m.next[n]] = n
               /\ home[m.next[n]] = home[n]
    <2>1. CASE n = s
      BY <1>1, <1>2, <1>4, <1>5, <1>7, <2>1
    <2>2. CASE n = head
      BY <1>1, <1>2, <1>4, <1>5, <2>2
    <2>3. CASE n # s /\ n # head
      <3>1. m.next[n] = l.next[n] /\ n \in Heads \cup S
        BY <1>1, <1>4, <2>3
      <3>2. l.next[n] \in S /\ l.prev[l.next[n]] = n /\ old[l.next[n]] = old[n]
        BY <1>7, <3>1 DEF WellLinked
      <3>3. l.next[n] # s /\ l.next[n] # l.next[head]
        BY <1>2, <2>3, <3>2
      <3> QED BY <1>5, <3>1, <3>2, <3>3
    <2> QED BY <2>1, <2>2, <2>3
  <1> QED BY <1>3, <1>6, <1>7 DEF WellLinked

----------------------------------------------------------------------------
\* A cache in good order, as a predicate on its parts: l, nf and chain are the
\* links, counts and chains of n slabs, L the chunks taken for allocated, and
\* P those counted free that are not on a chain yet.

Used(L, s) == {c \in Chunks : <<s, c>> \in L}

HomeIn(nf, n) ==
    IF n \in Heads THEN n
    ELSE IF nf[n] = 0 THEN FullHead
    ELSE IF nf[n] = Cap THEN FreeHead ELSE PartialHead

HomeMap(nf) == [n \in Nodes |-> HomeIn(nf, n)]

CacheOK(l, nf, chain, n, L, P) ==
    /\ l \in Links
    /\ nf \in [Slabs -> 0 .. Cap]
    /\ chain \in [Slabs -> Chain]
    /\ n \in Slabs
    /\ L \subseteq (1 .. n) \X Chunks
    /\ \A s \in 1 .. n : nf[s] = Cap - Cardinality(Used(L, s))
    /\ \A s \in 1 .. n : ChainOver(chain[s], Chunks \ Used(L \cup P, s))
    /\ WellLinked(l, 1 .. n, HomeMap(nf))

\* Pairs are equal when their parts are.
LEMMA PairEq == \A s, c, t, d : <<t, d>> = <<s, c>> <=> t = s /\ d = c
  OBVIOUS

\* How the number of used chunks of a slab changes with the set.
LEMMA CountChunks ==
    ASSUME NEW U \in SUBSET Chunks
    PROVE  /\ Cardinality(U) \in 0 .. Cap
           /\ Cardinality(U) = Cap <=> U = Chunks
           /\ \A c \in U : Cardinality(U \ {c}) = Cardinality(U) - 1
           /\ \A c \in Chunks \ U : Cardinality(U \cup {c}) = Cardinality(U) + 1
  <1>1. IsFiniteSet(Chunks) /\ Cardinality(Chunks) = Cap
    BY CapAssumption, FS_Interval DEF Chunks
  <1>2. IsFiniteSet(U) /\ Cardinality(U) <= Cap /\ (Cardinality(U) = Cap => U = Chunks)
    BY <1>1, FS_Subset
  <1>3. Cardinality(U) \in Nat
    BY <1>2, FS_CardinalityType
  <1>4. \A c \in U : Cardinality(U \ {c}) = Cardinality(U) - 1
    BY <1>2, FS_RemoveElement
  <1>5. \A c \in Chunks \ U : Cardinality(U \cup {c}) = Cardinality(U) + 1
    BY <1>2, FS_AddElement
  <1> QED BY <1>1, <1>2, <1>3, <1>4, <1>5, CapAssumption

\* A new slab, linked in at the head of the free list.
LEMMA NewSlab ==
    ASSUME NEW l, NEW nf, NEW chain, NEW n, NEW L,
           CacheOK(l, nf, chain, n, L, {}), n < MaxSlabs
    PROVE  /\ CacheOK(slab_insert_in_cache(l, FreeHead, n + 1),
                      [nf EXCEPT ![n + 1] = Cap],
                      [chain EXCEPT ![n + 1] = NewChain], n + 1, L, {})
           /\ slab_insert_in_cache(l, FreeHead, n + 1).next[FreeHead] = n + 1
  <1> DEFINE s == n + 1
             nf2 == [nf EXCEPT ![s] = Cap]
             chain2 == [chain EXCEPT ![s] = NewChain]
             l2 == slab_insert_in_cache(l, FreeHead, s)
  <1>1. /\ s \in Slabs /\ s \notin 1 .. n /\ 1 .. s = (1 .. n) \cup {s}
        /\ 1 .. n \subseteq Slabs
    BY MaxSlabsAssumption DEF CacheOK, Slabs
  <1>2. nf2 \in [Slabs -> 0 .. Cap] /\ chain2 \in [Slabs -> Chain]
    BY <1>1, NewChainOver, CapAssumption DEF CacheOK
  <1>3. Used(L, s) = {} /\ Used(L \cup {}, s) = {}
    BY <1>1 DEF CacheOK, Used
  <1>4. \A t \in 1 .. s : nf2[t] = Cap - Cardinality(Used(L, t))
    <2>1. nf2[s] = Cap - Cardinality(Used(L, s))
      <3>1. nf2[s] = Cap
        BY <1>1 DEF CacheOK
      <3>2. Cardinality(Used(L, s)) = 0
        BY <1>3, FS_EmptySet
      <3> HIDE DEF nf2, s
      <3> QED BY <3>1, <3>2, CapAssumption
    <2>2. \A t \in 1 .. n : nf2[t] = nf[t]
      BY <1>1 DEF CacheOK
    <2> QED BY <1>1, <2>1, <2>2 DEF CacheOK
  <1>5. \A t \in 1 .. s : ChainOver(chain2[t], Chunks \ Used(L \cup {}, t))
    <2>1. chain2[s] = NewChain /\ \A t \in 1 .. n : chain2[t] = chain[t]
      BY <1>1 DEF CacheOK
    <2>2. Chunks \ Used(L \cup {}, s) = Chunks
      BY <1>3
    <2> QED BY <1>1, <2>1, <2>2, NewChainOver DEF CacheOK
  <1>6. l2 \in Links /\ WellLinked(l2, 1 .. s, HomeMap(nf2))
    <2>1. \A t \in Heads \cup 1 .. n : HomeMap(nf2)[t] = HomeMap(nf)[t]
      BY <1>1, NodeKinds DEF HomeMap, HomeIn, CacheOK
    <2>2. FreeHead \in Heads
      BY DEF Heads
    <2>3. HomeMap(nf2)[s] = HomeMap(nf2)[FreeHead]
      BY <1>1, <2>2, NodeKinds, CapAssumption DEF HomeMap, HomeIn, CacheOK
    <2>4. 1 .. n \in SUBSET Slabs /\ l \in Links /\ WellLinked(l, 1 .. n, HomeMap(nf))
      BY <1>1 DEF CacheOK
    <2>5. l2 \in Links /\ WellLinked(l2, (1 .. n) \cup {s}, HomeMap(nf2))
      <3>1. s \in Slabs /\ s \notin 1 .. n
        BY <1>1
      <3> HIDE DEF s, nf2
      <3> QED BY <2>1, <2>2, <2>3, <2>4, <3>1, LinkIn
    <2> HIDE DEF s, l2, nf2
    <2> QED BY <1>1, <2>5
  <1>7. l2.next[FreeHead] = s
    BY <1>1, NodeKinds DEF CacheOK, Links, slab_insert_in_cache, Heads
  <1>8. L \subseteq (1 .. s) \X Chunks
    BY <1>1 DEF CacheOK
  <1>9. CacheOK(l2, nf2, chain2, s, L, {})
    <2> HIDE DEF s, nf2, chain2, l2
    <2> QED BY <1>1, <1>2, <1>4, <1>5, <1>6, <1>8 DEF CacheOK
  <1> QED BY <1>7, <1>9

\* Moving a slab to the front of the list that is its new home.
LEMMA MoveSlab ==
    ASSUME NEW l \in Links, NEW S \in SUBSET Slabs, NEW old, NEW home,
           WellLinked(l, S, old), NEW s \in S, NEW head \in Heads,
           \A n \in Heads \cup (S \ {s}) : home[n] = old[n],
           home[s] = home[head]
    PROVE  /\ slab_insert_in_cache(slab_remove_from_cache(l, s), head, s) \in Links
           /\ WellLinked(slab_insert_in_cache(slab_remove_from_cache(l, s), head, s), S, home)
  <1> DEFINE m == slab_remove_from_cache(l, s)
             R == S \ {s}
  <1>1. m \in Links /\ WellLinked(m, R, old)
    BY Unlink
  <1>2. R \in SUBSET Slabs /\ s \in Slabs /\ s \notin R /\ R \cup {s} = S
    OBVIOUS
  <1> HIDE DEF m, R
  <1>3. \A n \in Heads \cup R : home[n] = old[n]
    BY DEF R
  <1>4. /\ slab_insert_in_cache(m, head, s) \in Links
        /\ WellLinked(slab_insert_in_cache(m, head, s), R \cup {s}, home)
    BY <1>1, <1>2, <1>3, LinkIn
  <1> QED BY <1>2, <1>4 DEF m

\* The lists depend on the homes of the slabs in them only.
LEMMA SameHomes ==
    ASSUME NEW l, NEW S, NEW old, NEW home, WellLinked(l, S, old),
           \A n \in Heads \cup S : home[n] = old[n]
    PROVE  WellLinked(l, S, home)
  BY DEF WellLinked

\* The links after slab_alloc_from_cache and slab_free took and gave a chunk.
LinksAfterTake(l, s, left) ==
    IF left = 0
    THEN slab_insert_in_cache(slab_remove_from_cache(l, l.next[PartialHead]), FullHead, s)
    ELSE IF left = Cap - 1
    THEN slab_insert_in_cache(slab_remove_from_cache(l, l.next[FreeHead]), PartialHead, s)
    ELSE l

LinksAfterGive(l, s, left) ==
    IF left = 1
    THEN slab_insert_in_cache(slab_remove_from_cache(l, s), PartialHead, s)
    ELSE IF left = Cap
    THEN slab_insert_in_cache(slab_remove_from_cache(l, s), FreeHead, s)
    ELSE l

\* Handing out the first chunk of the first partial or free slab.
LEMMA Take ==
    ASSUME NEW l, NEW nf, NEW chain, NEW n, NEW L,
           CacheOK(l, nf, chain, n, L, {}), NEW s, s # NULL,
           s = l.next[PartialHead] \/ s = l.next[FreeHead]
    PROVE  /\ s \in 1 .. n /\ chain[s][Base] \in Chunks /\ <<s, chain[s][Base]>> \notin L
           /\ CacheOK(LinksAfterTake(l, s, nf[s] - 1), [nf EXCEPT ![s] = nf[s] - 1],
                      [chain EXCEPT ![s][Base] = chain[s][chain[s][Base]]], n,
                      L \cup {<<s, chain[s][Base]>>}, {})
  <1>a. PICK left, c, m : /\ left = nf[s] - 1
                          /\ c = chain[s][Base]
                          /\ m = LinksAfterTake(l, s, left)
    OBVIOUS
  <1> USE <1>a
  <1> DEFINE S == 1 .. n
             M == L \cup {<<s, c>>}
             nf2 == [nf EXCEPT ![s] = left]
             chain2 == [chain EXCEPT ![s][Base] = chain[s][c]]
             old == HomeMap(nf)
             home == HomeMap(nf2)
  <1>0. S \in SUBSET Slabs /\ Heads \subseteq Nodes /\ PartialHead \in Heads
        /\ FreeHead \in Heads /\ FullHead \in Heads
    BY NodeKinds, MaxSlabsAssumption DEF CacheOK, Slabs, Heads
  <1>1. s \in S /\ (old[s] = PartialHead \/ old[s] = FreeHead)
        /\ (s = l.next[PartialHead] => old[s] = PartialHead)
        /\ (s = l.next[FreeHead] => old[s] = FreeHead)
    <2>1. \A h \in Heads : old[h] = h
      BY <1>0 DEF HomeMap, HomeIn
    <2>2. WellLinked(l, S, old)
      BY DEF CacheOK
    <2> HIDE DEF S, old
    <2> QED BY <1>0, <2>1, <2>2 DEF WellLinked
  <1>2. /\ nf[s] \in 1 .. Cap /\ left \in 0 .. Cap /\ left < Cap
        /\ (s = l.next[PartialHead] => left < Cap - 1)
        /\ (s = l.next[FreeHead] => left = Cap - 1)
    <2>1. nf[s] \in 0 .. Cap /\ s \in Nodes /\ s \notin Heads
      BY <1>0, <1>1, NodeKinds DEF CacheOK
    <2>2. old[s] = IF nf[s] = 0 THEN FullHead ELSE IF nf[s] = Cap THEN FreeHead ELSE PartialHead
      BY <2>1 DEF HomeMap, HomeIn
    <2> HIDE DEF old
    <2> QED BY <1>1, <2>1, <2>2, CapAssumption DEF FreeHead, PartialHead, FullHead
  <1>3. Used(L \cup {}, s) = Used(L, s) /\ Used(L, s) # Chunks
        /\ nf[s] = Cap - Cardinality(Used(L, s))
        /\ Used(L, s) \in SUBSET Chunks
    <2>1. nf[s] = Cap - Cardinality(Used(L, s)) /\ Used(L, s) \in SUBSET Chunks
      BY <1>1 DEF CacheOK, Used
    <2>2. Cardinality(Used(L, s)) # Cap
      BY <1>2, <2>1, CountChunks, CapAssumption
    <2>3. Used(L \cup {}, s) = Used(L, s)
      BY DEF Used
    <2> QED BY <2>1, <2>2, <2>3, CountChunks
  <1>4. /\ c \in Chunks \ Used(L, s)
        /\ [chain[s] EXCEPT ![Base] = chain[s][c]] \in Chain
        /\ ChainOver([chain[s] EXCEPT ![Base] = chain[s][c]], (Chunks \ Used(L, s)) \ {c})
    <2>1. chain[s] \in Chain /\ ChainOver(chain[s], Chunks \ Used(L, s))
      BY <1>0, <1>1, <1>3 DEF CacheOK
    <2>2. Chunks \ Used(L, s) # {} /\ Chunks \ Used(L, s) \in SUBSET Chunks
      BY <1>3
    <2> QED BY <2>1, <2>2, PopChain
  <1>5. <<s, c>> \notin L /\ M \subseteq S \X Chunks
    <2>1. L \subseteq S \X Chunks
      BY DEF CacheOK
    <2>2. <<s, c>> \notin L
      BY <1>4 DEF Used
    <2> HIDE DEF S
    <2> QED BY <1>1, <1>4, <2>1, <2>2
  <1>6. Used(M, s) = Used(L, s) \cup {c} /\ \A t \in S \ {s} : Used(M, t) = Used(L, t)
    <2>1. c \in Chunks
      BY <1>4
    <2>2. \A t \in S \ {s} : t # s
      OBVIOUS
    <2> HIDE DEF S
    <2>3. Used(M, s) = Used(L, s) \cup {c}
      BY <2>1, PairEq DEF Used
    <2>4. ASSUME NEW t \in S \ {s}
          PROVE  Used(M, t) = Used(L, t)
      BY <2>2, <2>4, PairEq DEF Used
    <2> QED BY <2>3, <2>4
  <1>7. nf2 \in [Slabs -> 0 .. Cap] /\ chain2 \in [Slabs -> Chain]
        /\ nf2[s] = left /\ (\A t \in S \ {s} : nf2[t] = nf[t])
        /\ chain2[s] = [chain[s] EXCEPT ![Base] = chain[s][c]]
        /\ (\A t \in S \ {s} : chain2[t] = chain[t])
    <2>1. nf \in [Slabs -> 0 .. Cap] /\ chain \in [Slabs -> Chain] /\ s \in Slabs
      BY <1>0, <1>1 DEF CacheOK
    <2> QED BY <1>0, <1>2, <1>4, <2>1
  <1>8. \A t \in S : nf2[t] = Cap - Cardinality(Used(M, t))
    <2>1. nf2[s] = Cap - Cardinality(Used(M, s))
      <3>1. Cardinality(Used(L, s)) \in Int
            /\ Cardinality(Used(L, s) \cup {c}) = Cardinality(Used(L, s)) + 1
        BY <1>3, <1>4, CountChunks
      <3> HIDE DEF nf2, M
      <3> QED BY <1>3, <1>6, <1>7, <3>1, CapAssumption
    <2>2. \A t \in S \ {s} : nf[t] = Cap - Cardinality(Used(L, t))
      BY DEF CacheOK
    <2> HIDE DEF nf2, M, S
    <2> QED BY <1>6, <1>7, <2>1, <2>2
  <1>9. \A t \in S : ChainOver(chain2[t], Chunks \ Used(M \cup {}, t))
    <2>1. \A t \in S \ {s} : ChainOver(chain[t], Chunks \ Used(L \cup {}, t))
      BY DEF CacheOK
    <2>2. \A t \in S \ {s} : Used(L \cup {}, t) = Used(L, t)
      BY DEF Used
    <2>3. \A t \in S : Used(M \cup {}, t) = Used(M, t)
      BY DEF Used
    <2>4. (Chunks \ Used(L, s)) \ {c} = Chunks \ Used(M, s)
      BY <1>6
    <2> HIDE DEF chain2, M, S
    <2> QED BY <1>4, <1>6, <1>7, <2>1, <2>2, <2>3, <2>4
  <1>10. m \in Links /\ WellLinked(m, S, home)
    <2>1. l \in Links /\ WellLinked(l, S, old) /\ nf \in [Slabs -> 0 .. Cap]
      BY DEF CacheOK
    <2>2. /\ \A t \in Heads \cup (S \ {s}) : home[t] = old[t]
          /\ home[s] = IF left = 0 THEN FullHead ELSE IF left = Cap THEN FreeHead ELSE PartialHead
          /\ \A h \in Heads : home[h] = h
      <3>1. s \in Slabs /\ s \notin Heads /\ left \in 0 .. Cap /\ nf2 = [nf EXCEPT ![s] = left]
            /\ Heads \cup (S \ {s}) \subseteq Nodes \ {s}
        BY <1>0, <1>1, <1>2, NodeKinds
      <3>2. nf2[s] = left /\ \A t \in S \ {s} : nf2[t] = nf[t]
        BY <1>7
      <3>3. \A t \in S \ {s} : t \in Nodes /\ t \notin Heads
        BY <1>0, NodeKinds
      <3> HIDE DEF S, nf2
      <3> QED BY <1>0, <3>1, <3>2, <3>3, NodeKinds DEF HomeMap, HomeIn
    <2> HIDE DEF S, old, home
    <2>3. CASE left = 0
      <3>1. s = l.next[PartialHead]
        BY <1>2, <2>3, CapAssumption
      <3>2. m = slab_insert_in_cache(slab_remove_from_cache(l, s), FullHead, s)
        BY <2>3, <3>1 DEF LinksAfterTake
      <3> QED BY <1>0, <1>1, <2>1, <2>2, <2>3, <3>2, MoveSlab
    <2>4. CASE left = Cap - 1
      <3>1. s = l.next[FreeHead] /\ left # 0 /\ left # Cap
        BY <1>2, <2>4, CapAssumption
      <3>2. m = slab_insert_in_cache(slab_remove_from_cache(l, s), PartialHead, s)
        BY <2>4, <3>1 DEF LinksAfterTake
      <3>3. home[s] = home[PartialHead]
        BY <1>0, <2>2, <3>1
      <3> QED BY <1>0, <1>1, <2>1, <2>2, <3>2, <3>3, MoveSlab
    <2>5. CASE left # 0 /\ left # Cap - 1
      <3>1. m = l /\ old[s] = PartialHead /\ home[s] = PartialHead
        BY <1>1, <1>2, <2>2, <2>5 DEF LinksAfterTake
      <3> QED BY <2>1, <2>2, <3>1, SameHomes
    <2> QED BY <2>3, <2>4, <2>5
  <1>11. CacheOK(m, nf2, chain2, n, M, {})
    <2>1. n \in Slabs
      BY DEF CacheOK
    <2> HIDE DEF nf2, chain2, M
    <2> QED BY <1>5, <1>7, <1>8, <1>9, <1>10, <2>1 DEF CacheOK
  <1> QED BY <1>1, <1>4, <1>5, <1>11

\* Counting an allocated chunk as free and moving its slab accordingly.
LEMMA Give ==
    ASSUME NEW l, NEW nf, NEW chain, NEW n, NEW L,
           CacheOK(l, nf, chain, n, L, {}), NEW s, NEW c, <<s, c>> \in L
    PROVE  CacheOK(LinksAfterGive(l, s, nf[s] + 1), [nf EXCEPT ![s] = nf[s] + 1], chain, n,
                   L \ {<<s, c>>}, {<<s, c>>})
  <1>a. PICK left, m : left = nf[s] + 1 /\ m = LinksAfterGive(l, s, left)
    OBVIOUS
  <1> USE <1>a
  <1> DEFINE S == 1 .. n
             M == L \ {<<s, c>>}
             nf2 == [nf EXCEPT ![s] = left]
             old == HomeMap(nf)
             home == HomeMap(nf2)
  <1>0. S \in SUBSET Slabs /\ Heads \subseteq Nodes /\ PartialHead \in Heads
        /\ FreeHead \in Heads /\ FullHead \in Heads
    BY NodeKinds, MaxSlabsAssumption DEF CacheOK, Slabs, Heads
  <1>1. s \in S /\ c \in Chunks /\ c \in Used(L, s)
    BY DEF CacheOK, Used
  <1>2. /\ nf[s] = Cap - Cardinality(Used(L, s))
        /\ Cardinality(Used(L, s)) \in 0 .. Cap
        /\ Cardinality(Used(L, s) \ {c}) = Cardinality(Used(L, s)) - 1
        /\ Cardinality(Used(L, s) \ {c}) \in 0 .. Cap
    <2>1. Used(L, s) \in SUBSET Chunks /\ Used(L, s) \ {c} \in SUBSET Chunks
      BY DEF Used
    <2> QED BY <1>1, <2>1, CountChunks DEF CacheOK
  <1>3. left \in 1 .. Cap /\ left = Cap - Cardinality(Used(L, s) \ {c}) /\ nf[s] # Cap
    BY <1>2, CapAssumption
  <1>4. M \subseteq S \X Chunks
    BY DEF CacheOK
  <1>5. Used(M, s) = Used(L, s) \ {c} /\ \A t \in S \ {s} : Used(M, t) = Used(L, t)
    <2>1. Used(M, s) = Used(L, s) \ {c}
      BY <1>1, PairEq DEF Used
    <2>2. ASSUME NEW t \in S, t # s
          PROVE  Used(M, t) = Used(L, t)
      BY <2>2, PairEq DEF Used
    <2> QED BY <2>1, <2>2
  <1>6. nf2 \in [Slabs -> 0 .. Cap]
        /\ nf2[s] = left /\ (\A t \in S \ {s} : nf2[t] = nf[t])
    <2>1. nf \in [Slabs -> 0 .. Cap] /\ s \in Slabs /\ left \in 0 .. Cap
      BY <1>0, <1>1, <1>3 DEF CacheOK
    <2> QED BY <1>0, <2>1
  <1>7. \A t \in S : nf2[t] = Cap - Cardinality(Used(M, t))
    <2>1. \A t \in S \ {s} : nf[t] = Cap - Cardinality(Used(L, t))
      BY DEF CacheOK
    <2> HIDE DEF nf2, M, S
    <2> QED BY <1>3, <1>5, <1>6, <2>1
  <1>8. \A t \in S : ChainOver(chain[t], Chunks \ Used(M \cup {<<s, c>>}, t))
    <2>1. M \cup {<<s, c>>} = L \cup {}
      OBVIOUS
    <2> HIDE DEF M
    <2> QED BY <2>1 DEF CacheOK
  <1>9. m \in Links /\ WellLinked(m, S, home)
    <2>1. l \in Links /\ WellLinked(l, S, old) /\ nf \in [Slabs -> 0 .. Cap]
      BY DEF CacheOK
    <2>2. /\ \A t \in Heads \cup (S \ {s}) : home[t] = old[t]
          /\ home[s] = IF left = 0 THEN FullHead ELSE IF left = Cap THEN FreeHead ELSE PartialHead
          /\ old[s] = IF nf[s] = 0 THEN FullHead ELSE IF nf[s] = Cap THEN FreeHead ELSE PartialHead
          /\ \A h \in Heads : home[h] = h
      <3>1. s \in Nodes /\ s \notin Heads /\ \A t \in S \ {s} : t \in Nodes /\ t \notin Heads
        BY <1>0, <1>1, NodeKinds
      <3>2. nf2[s] = left /\ \A t \in S \ {s} : nf2[t] = nf[t]
        BY <1>6
      <3> HIDE DEF S, nf2
      <3> QED BY <1>0, <3>1, <3>2 DEF HomeMap, HomeIn
    <2> HIDE DEF S, old, home
    <2>3. CASE left = 1
      <3>1. m = slab_insert_in_cache(slab_remove_from_cache(l, s), PartialHead, s)
            /\ home[s] = home[PartialHead]
        BY <1>0, <2>2, <2>3, CapAssumption DEF LinksAfterGive
      <3>2. \A t \in Heads \cup (S \ {s}) : home[t] = old[t]
        BY <2>2
      <3> QED BY <1>0, <1>1, <2>1, <3>1, <3>2, MoveSlab
    <2>4. CASE left = Cap
      <3>1. m = slab_insert_in_cache(slab_remove_from_cache(l, s), FreeHead, s)
            /\ home[s] = FreeHead
        BY <2>2, <2>4, CapAssumption DEF LinksAfterGive
      <3> QED BY <1>0, <1>1, <2>1, <2>2, <3>1, MoveSlab
    <2>5. CASE left # 1 /\ left # Cap
      <3>1. m = l /\ old[s] = PartialHead /\ home[s] = PartialHead
        BY <1>2, <1>3, <2>2, <2>5, CapAssumption DEF LinksAfterGive
      <3> QED BY <2>1, <2>2, <3>1, SameHomes
    <2> QED BY <2>3, <2>4, <2>5
  <1>10. n \in Slabs /\ chain \in [Slabs -> Chain]
    BY DEF CacheOK
  <1>11. CacheOK(m, nf2, chain, n, M, {<<s, c>>})
    <2> HIDE DEF nf2, M
    <2> QED BY <1>4, <1>6, <1>7, <1>8, <1>9, <1>10 DEF CacheOK
  <1> QED BY <1>11

\* Linking the pending chunk into the chain of its slab.
LEMMA PutOnChain ==
    ASSUME NEW l, NEW nf, NEW chain, NEW n, NEW L, NEW s \in 1 .. n, NEW c \in Chunks,
           CacheOK(l, nf, chain, n, L, {<<s, c>>}), <<s, c>> \notin L,
           NEW p \in {Base} \cup (Chunks \ Used(L \cup {<<s, c>>}, s)),
           p < c, ~(chain[s][p] < c)
    PROVE  CacheOK(l, nf, [chain EXCEPT ![s] = [chain[s] EXCEPT ![c] = chain[s][p], ![p] = c]],
                   n, L, {})
  <1> DEFINE P == {<<s, c>>}
             F == Chunks \ Used(L \cup P, s)
             new == [chain[s] EXCEPT ![c] = chain[s][p], ![p] = c]
             chain2 == [chain EXCEPT ![s] = new]
  <1>1. s \in Slabs /\ 1 .. n \subseteq Slabs /\ chain \in [Slabs -> Chain] /\ chain[s] \in Chain
    BY MaxSlabsAssumption DEF CacheOK, Slabs
  <1>2. c \notin F /\ F \in SUBSET Chunks /\ F \cup {c} = Chunks \ Used(L \cup {}, s)
    BY PairEq DEF Used
  <1>3. ChainOver(chain[s], F)
    BY DEF CacheOK
  <1>4. new \in Chain /\ ChainOver(new, F \cup {c})
    <2> HIDE DEF F
    <2> QED BY <1>1, <1>2, <1>3, PushChain DEF F
  <1>5. chain2 \in [Slabs -> Chain] /\ chain2[s] = new /\ \A t \in 1 .. n : t # s => chain2[t] = chain[t]
    <2> HIDE DEF new
    <2> QED BY <1>1, <1>4
  <1>6. ASSUME NEW t \in 1 .. n
        PROVE  ChainOver(chain2[t], Chunks \ Used(L \cup {}, t))
    <2>1. CASE t = s
      <3> HIDE DEF chain2, new, F
      <3> QED BY <1>2, <1>4, <1>5, <2>1
    <2>2. CASE t # s
      <3>1. Used(L \cup P, t) = Used(L \cup {}, t)
        BY <2>2, PairEq DEF Used
      <3>2. ChainOver(chain[t], Chunks \ Used(L \cup P, t))
        BY DEF CacheOK
      <3> HIDE DEF chain2, P
      <3> QED BY <1>5, <2>2, <3>1, <3>2
    <2> QED BY <2>1, <2>2
  <1>7. CacheOK(l, nf, chain2, n, L, {})
    <2> HIDE DEF chain2
    <2> QED BY <1>5, <1>6 DEF CacheOK
  <1> QED BY <1>7

----------------------------------------------------------------------------
\* The inductive invariant, stated with CacheOK.

Held == live \cup lost

GoodCache == CacheOK(links, numFree, nextFree, nslabs, Held, Pending)

CallTypes ==
    /\ pc \in {"idle", "find", "walk", "destroy", "destroyed"}
    /\ obj \in Slabs \X Chunks
    /\ cur \in Nat
    /\ list \in Heads
    /\ released \in [Slabs -> Nat]

LEMMA Shape == IInv <=> GoodCache /\ CallTypes /\ CallState
  <1>1. \A s : UsedChunks(s) = Used(Held, s) /\ FreeChunks(s) = Chunks \ Used(Held \cup Pending, s)
    BY DEF UsedChunks, FreeChunks, Used, Held
  <1>2. HomeMap(numFree) = [n \in Nodes |-> Home(n)]
    BY DEF HomeMap, HomeIn, Home
  <1>3. nslabs \in Slabs => (Allocated \X Chunks) \subseteq (Slabs \X Chunks)
    BY MaxSlabsAssumption DEF Allocated, Slabs
  <1>4. IInv => GoodCache /\ CallTypes /\ CallState
    BY <1>1, <1>2 DEF IInv, TypeOK, GoodCache, CallTypes, CallState, CacheOK, NumFreeExact,
                      FreeChainExact, ListsAgree, Links, Chain, Held, Allocated
  <1>5. GoodCache /\ CallTypes /\ CallState => IInv
    <2> SUFFICES ASSUME GoodCache, CallTypes, CallState PROVE IInv
      OBVIOUS
    <2>1. TypeOK
      BY <1>3 DEF TypeOK, GoodCache, CallTypes, CallState, CacheOK, Links, Chain
    <2>2. NumFreeExact /\ FreeChainExact /\ ListsAgree
      BY <1>1, <1>2 DEF GoodCache, CacheOK, NumFreeExact, FreeChainExact, ListsAgree, Allocated
    <2> QED BY <2>1, <2>2 DEF IInv
  <1> QED BY <1>4, <1>5

\* A cache just created is in good order.
LEMMA InitIInv == Init => IInv
  <1> SUFFICES ASSUME Init PROVE IInv
    OBVIOUS
  <1> USE CapAssumption, MaxSlabsAssumption
  <1>0. /\ 1 \in Slabs /\ 1 \in Nodes /\ 1 \notin Heads /\ Allocated = {1}
        /\ FreeHead \in Heads /\ PartialHead \in Heads
    BY DEF Init, Slabs, Nodes, Heads, FreeHead, PartialHead, FullHead, Allocated
  <1>1. links \in Links
    BY <1>0 DEF Init, Links, Nodes
  <1>2. numFree \in [Slabs -> 0 .. Cap] /\ nextFree \in [Slabs -> Chain] /\ nslabs \in Slabs
    <2>1. [c \in 0 .. Sentinel |-> 0] \in Chain
      BY ChunkOrder DEF Chain, Sentinel
    <2> QED BY <1>0, <2>1, NewChainOver DEF Init
  <1>3. Used(Held, 1) = {} /\ Used(Held \cup Pending, 1) = {}
    BY DEF Init, Used, Held, Pending
  <1>4. numFree[1] = Cap - Cardinality(Used(Held, 1))
    <2>1. numFree[1] = Cap
      BY <1>0 DEF Init
    <2> QED BY <1>3, <2>1, FS_EmptySet
  <1>5. ChainOver(nextFree[1], Chunks \ Used(Held \cup Pending, 1))
    <2>1. nextFree[1] = NewChain /\ Chunks \ Used(Held \cup Pending, 1) = Chunks
      BY <1>0, <1>3 DEF Init
    <2> QED BY <2>1, NewChainOver
  <1>6. WellLinked(links, {1}, HomeMap(numFree))
    <2>1. HomeMap(numFree)[1] = FreeHead /\ HomeMap(numFree)[FreeHead] = FreeHead
      BY <1>0 DEF HomeMap, HomeIn, Init, Nodes
    <2>2. /\ links.prev[1] = FreeHead /\ links.next[FreeHead] = 1
          /\ \A n \in Heads \cup {1} : n # FreeHead => links.next[n] = NULL
      BY <1>0 DEF Init, Nodes
    <2>3. 1 # NULL
      BY DEF NULL
    <2> QED BY <1>0, <2>1, <2>2, <2>3 DEF WellLinked
  <1>7. GoodCache
    <2>1. 1 .. nslabs = {1}
      BY DEF Init
    <2>2. Held = {}
      BY DEF Init, Held
    <2> QED BY <1>1, <1>2, <1>4, <1>5, <1>6, <2>1, <2>2 DEF GoodCache, CacheOK
  <1>8. CallTypes /\ CallState
    <2>1. NoObj \in Slabs \X Chunks
      BY <1>0 DEF NoObj, Chunks
    <2> QED BY <1>0, <2>1 DEF Init, CallTypes, CallState, NULL
  <1> QED BY <1>7, <1>8, Shape

\* Take, for the step TakeChunk.
LEMMA TakeStep ==
    ASSUME NEW l, NEW nf, NEW chain, NEW n, CacheOK(l, nf, chain, n, Held, {}),
           NEW s, s # NULL, s = l.next[PartialHead] \/ s = l.next[FreeHead],
           TakeChunk(s, l, nf, chain), lost' = lost
    PROVE  \E c \in Chunks :
             /\ s \in 1 .. n
             /\ <<s, c>> \notin Held
             /\ live' = live \cup {<<s, c>>}
             /\ CacheOK(links', numFree', nextFree', n, Held', {})
  <1> DEFINE c == chain[s][Base]
  <1>1. /\ nextFree' = [chain EXCEPT ![s][Base] = chain[s][c]]
        /\ numFree' = [nf EXCEPT ![s] = nf[s] - 1]
        /\ links' = LinksAfterTake(l, s, nf[s] - 1)
        /\ live' = live \cup {<<s, c>>}
    BY Zenon DEF TakeChunk, LinksAfterTake
  <1>2. /\ s \in 1 .. n /\ c \in Chunks /\ <<s, c>> \notin Held
        /\ CacheOK(LinksAfterTake(l, s, nf[s] - 1), [nf EXCEPT ![s] = nf[s] - 1],
                   [chain EXCEPT ![s][Base] = chain[s][c]], n, Held \cup {<<s, c>>}, {})
    BY Take
  <1>3. Held' = Held \cup {<<s, c>>}
    BY <1>1 DEF Held
  <1> QED BY <1>1, <1>2, <1>3, Zenon

\* An allocation keeps the cache in good order and hands out a free chunk.
LEMMA AllocStep ==
    ASSUME IInv, slab_alloc_from_cache
    PROVE  /\ IInv'
           /\ \E s \in Slabs, c \in Chunks :
                 <<s, c>> \notin live \cup lost /\ live' = live \cup {<<s, c>>}
  <1>1. /\ pc = "idle" /\ pc' = "idle"
        /\ UNCHANGED <<obj, cur, list, released, lost>>
        /\ Pending = {} /\ Pending' = {}
    BY DEF slab_alloc_from_cache, AllocFromPartial, AllocFromFree, AllocFromNewSlab, Pending
  <1>2. CacheOK(links, numFree, nextFree, nslabs, Held, {}) /\ CallTypes /\ CallState
    BY <1>1, Shape DEF GoodCache
  <1>3. \E s \in Slabs, c \in Chunks :
          /\ s \in 1 .. nslabs'
          /\ <<s, c>> \notin Held
          /\ live' = live \cup {<<s, c>>}
          /\ nslabs <= nslabs'
          /\ CacheOK(links', numFree', nextFree', nslabs', Held', {})
    <2>0. nslabs \in Slabs /\ nslabs \in Int /\ \A s \in 1 .. nslabs : s \in Slabs
      BY <1>2, MaxSlabsAssumption DEF CacheOK, Slabs
    <2>1. CASE AllocFromPartial
      <3> DEFINE s == links.next[PartialHead]
      <3>1. s # NULL /\ TakeChunk(s, links, numFree, nextFree) /\ nslabs' = nslabs /\ lost' = lost
        BY <2>1 DEF AllocFromPartial
      <3>2. PICK c \in Chunks : /\ s \in 1 .. nslabs
                               /\ <<s, c>> \notin Held
                               /\ live' = live \cup {<<s, c>>}
                               /\ CacheOK(links', numFree', nextFree', nslabs, Held', {})
        BY <1>2, <3>1, TakeStep
      <3> HIDE DEF s
      <3> QED BY <2>0, <3>1, <3>2
    <2>2. CASE AllocFromFree
      <3> DEFINE s == links.next[FreeHead]
      <3>1. s # NULL /\ TakeChunk(s, links, numFree, nextFree) /\ nslabs' = nslabs /\ lost' = lost
        BY <2>2 DEF AllocFromFree
      <3>2. PICK c \in Chunks : /\ s \in 1 .. nslabs
                               /\ <<s, c>> \notin Held
                               /\ live' = live \cup {<<s, c>>}
                               /\ CacheOK(links', numFree', nextFree', nslabs, Held', {})
        BY <1>2, <3>1, TakeStep
      <3> HIDE DEF s
      <3> QED BY <2>0, <3>1, <3>2
    <2>3. CASE AllocFromNewSlab
      <3> DEFINE s == nslabs + 1
                 l == slab_insert_in_cache(links, FreeHead, s)
                 nf == [numFree EXCEPT ![s] = Cap]
                 chain == [nextFree EXCEPT ![s] = NewChain]
      <3>1. nslabs < MaxSlabs /\ TakeChunk(s, l, nf, chain) /\ nslabs' = s /\ lost' = lost
        BY <2>3 DEF AllocFromNewSlab
      <3>2. CacheOK(l, nf, chain, s, Held, {}) /\ l.next[FreeHead] = s
        BY <1>2, <3>1, NewSlab
      <3>3. s # NULL /\ s \in Slabs /\ nslabs <= s
        BY <2>0, <3>1, MaxSlabsAssumption DEF NULL, Slabs
      <3> HIDE DEF s, l, nf, chain
      <3>4. PICK c \in Chunks : /\ s \in 1 .. s
                               /\ <<s, c>> \notin Held
                               /\ live' = live \cup {<<s, c>>}
                               /\ CacheOK(links', numFree', nextFree', s, Held', {})
        BY <3>1, <3>2, <3>3, TakeStep
      <3> QED BY <3>1, <3>3, <3>4
    <2> QED BY <2>1, <2>2, <2>3 DEF slab_alloc_from_cache
  <1>4. PICK s \in Slabs, c \in Chunks :
          /\ s \in 1 .. nslabs'
          /\ <<s, c>> \notin Held
          /\ live' = live \cup {<<s, c>>}
          /\ nslabs <= nslabs'
          /\ CacheOK(links', numFree', nextFree', nslabs', Held', {})
    BY <1>3
  <1>5. CallTypes'
    BY <1>1, <1>2 DEF CallTypes
  <1>6. CallState'
    <2>1. (live \cup lost)' \subseteq Allocated' \X Chunks
      BY <1>4 DEF CacheOK, Held, Allocated
    <2>2. (live \cap lost)' = {}
      BY <1>1, <1>2, <1>4 DEF CallState, Held
    <2> QED BY <1>1, <2>1, <2>2 DEF CallState
  <1>7. GoodCache'
    BY <1>1, <1>4 DEF GoodCache
  <1>8. IInv'
    BY <1>5, <1>6, <1>7, Shape, PTL
  <1> QED BY <1>4, <1>8 DEF Held

\* Giving an object back keeps the cache in good order, both when the chunk
\* becomes the first of its chain and when a walk down the chain begins.
LEMMA GiveStep ==
    ASSUME IInv, pc \in {"idle", "find"}, NEW s, NEW c, <<s, c>> \in live,
           GiveBack(s, c), UNCHANGED <<nslabs, released, lost>>
    PROVE  IInv'
  <1> DEFINE first == nextFree[s][Base]
             P == {<<s, c>>}
             F == Chunks \ Used(Held' \cup P, s)
  <1>1. Pending = {} /\ GoodCache /\ CallTypes /\ CallState
    BY Shape DEF Pending
  <1>2. s \in Allocated /\ c \in Chunks /\ s \in Slabs /\ <<s, c>> \in Slabs \X Chunks
        /\ s \in 1 .. nslabs /\ <<s, c>> \in Held /\ <<s, c>> \notin lost
    <2>1. s \in Allocated /\ c \in Chunks /\ <<s, c>> \notin lost
      BY <1>1 DEF CallState
    <2> QED BY <1>1, <2>1, MaxSlabsAssumption DEF GoodCache, CacheOK, Slabs, Held, Allocated
  <1>3. Held' = Held \ {<<s, c>>}
    BY <1>2 DEF GiveBack, Held
  <1>4. CacheOK(links', numFree', nextFree, nslabs', Held', P)
    <2>1. CacheOK(LinksAfterGive(links, s, numFree[s] + 1),
                  [numFree EXCEPT ![s] = numFree[s] + 1],
                  nextFree, nslabs, Held \ {<<s, c>>}, P)
      BY <1>1, <1>2, Give DEF GoodCache
    <2>2. links' = LinksAfterGive(links, s, numFree[s] + 1)
          /\ numFree' = [numFree EXCEPT ![s] = numFree[s] + 1]
      BY DEF GiveBack, LinksAfterGive
    <2> QED BY <1>3, <2>1, <2>2
  <1>5. /\ nextFree \in [Slabs -> Chain]
        /\ F \in SUBSET Chunks /\ ChainOver(nextFree[s], F)
        /\ first \in F \cup {Sentinel} /\ Base < first
    <2>1. nextFree \in [Slabs -> Chain] /\ ChainOver(nextFree[s], F)
      BY <1>2, <1>4 DEF CacheOK
    <2> QED BY <2>1 DEF ChainOver
  <1>6. /\ released' \in [Slabs -> Nat]
        /\ (live \cap lost)' = {}
        /\ (live \cup lost)' \subseteq Allocated' \X Chunks
    BY <1>1 DEF CallTypes, CallState, GiveBack, Allocated
  <1>7. CASE first = 0 \/ first > c
    <2>1. /\ nextFree' = [nextFree EXCEPT ![s][c] = first, ![s][Base] = c]
          /\ pc' = "idle" /\ obj' = NoObj /\ cur' = NULL /\ list' = PartialHead
      BY <1>7 DEF GiveBack, NoCall
    <2>2. /\ nextFree' = [nextFree EXCEPT ![s] = [nextFree[s] EXCEPT ![c] = first, ![Base] = c]]
      BY <1>2, <1>5, <2>1, ChunkOrder DEF Chain
    <2>3. Base < c /\ ~(nextFree[s][Base] < c)
      BY <1>2, <1>5, <1>7, ChunkOrder DEF Base
    <2>4. CacheOK(links', numFree', nextFree', nslabs', Held', {})
      <3>1. s \in 1 .. nslabs' /\ <<s, c>> \notin Held'
        BY <1>2, <1>3
      <3> QED BY <1>2, <1>4, <2>2, <2>3, <3>1, PutOnChain
    <2>5. CallTypes'
      <3>1. NoObj \in Slabs \X Chunks /\ PartialHead \in Heads
        BY CapAssumption, MaxSlabsAssumption DEF NoObj, Slabs, Chunks, Heads
      <3> QED BY <1>6, <2>1, <3>1 DEF CallTypes, NULL
    <2>6. CallState'
      BY <1>6, <2>1 DEF CallState
    <2>7. GoodCache'
      BY <2>1, <2>4 DEF GoodCache, Pending
    <2> QED BY <2>5, <2>6, <2>7, Shape, PTL
  <1>8. CASE ~(first = 0 \/ first > c)
    <2>1. /\ nextFree' = nextFree /\ pc' = "walk"
          /\ obj' = <<s, c>> /\ cur' = first /\ list' = list
      BY <1>8 DEF GiveBack
    <2>2. CallTypes'
      BY <1>1, <1>2, <1>5, <1>6, <2>1, ChunkOrder, CapAssumption DEF CallTypes, Sentinel, Chunks, Base
    <2>3. Pending' = P
      BY <2>1 DEF Pending
    <2>4. CallState'
      <3>1. first \in F /\ first < c
        <4>1. first \in Int /\ c \in Int /\ first <= c /\ c < Sentinel
          BY <1>2, <1>5, <1>8, ChunkOrder
        <4>2. first \in F
          BY <1>5, <4>1, ChunkOrder
        <4>3. c \notin F
          BY <1>2 DEF Used
        <4> HIDE DEF F, first
        <4> QED BY <4>1, <4>2, <4>3
      <3>2. FreeChunks(s)' = F
        BY <2>3 DEF FreeChunks, Used, Held
      <3>3. obj'[1] = s /\ obj'[2] = c
        BY <2>1
      <3>4. obj' \in Allocated' \X Chunks /\ obj' \notin (live \cup lost)'
        BY <1>2, <1>3, <2>1 DEF Allocated, Held
      <3>5. cur' \in FreeChunks(obj[1])' /\ cur' < obj'[2]
        <4> HIDE DEF F, first
        <4> QED BY <2>1, <3>1, <3>2, <3>3
      <3> QED BY <1>6, <2>1, <3>4, <3>5 DEF CallState
    <2>5. GoodCache'
      BY <1>4, <2>1, <2>3 DEF GoodCache
    <2> QED BY <2>2, <2>4, <2>5, Shape, PTL
  <1> QED BY <1>7, <1>8

\* One iteration of the walk moves to the next free chunk below the object.
LEMMA WalkStep == ASSUME IInv, FreeWalk PROVE IInv'
  <1> DEFINE s == obj[1]
             c == obj[2]
             q == nextFree[s][cur]
  <1>1. /\ pc = "walk" /\ q < c /\ cur' = q
        /\ UNCHANGED <<links, numFree, nextFree, nslabs, pc, obj, list, released, live, lost>>
    BY DEF FreeWalk
  <1>2. GoodCache /\ CallTypes /\ CallState /\ FreeChainExact
    BY Shape DEF IInv
  <1>3. s \in Allocated /\ c \in Chunks /\ cur \in FreeChunks(s)
    BY <1>1, <1>2 DEF CallState
  <1>4. q \in FreeChunks(s) \cup {Sentinel}
    BY <1>2, <1>3 DEF FreeChainExact, ChainOver
  <1>5. q \in FreeChunks(s) /\ q \in Nat
    BY <1>1, <1>3, <1>4, ChunkOrder DEF FreeChunks, Chunks
  <1>6. Pending' = Pending /\ Held' = Held /\ Allocated' = Allocated
    BY <1>1 DEF Pending, Held, Allocated
  <1>7. FreeChunks(obj[1])' = FreeChunks(obj[1])
    BY <1>1, <1>6 DEF FreeChunks
  <1>8. CallTypes' /\ CallState'
    BY <1>1, <1>2, <1>5, <1>6, <1>7 DEF CallTypes, CallState
  <1>9. GoodCache'
    BY <1>1, <1>2, <1>6 DEF GoodCache
  <1> QED BY <1>8, <1>9, Shape, PTL

\* The walk ends with the object linked in behind the chunk it stopped at.
LEMMA LinkStep == ASSUME IInv, FreeLink PROVE IInv'
  <1>1. PICK s, c : s = obj[1] /\ c = obj[2]
    OBVIOUS
  <1>2. /\ pc = "walk" /\ ~(nextFree[s][cur] < c)
        /\ nextFree' = [nextFree EXCEPT ![s][c] = nextFree[s][cur], ![s][cur] = c]
        /\ pc' = "idle" /\ obj' = NoObj /\ cur' = NULL /\ list' = PartialHead
        /\ UNCHANGED <<links, numFree, nslabs, released, live, lost>>
    BY <1>1 DEF FreeLink, NoCall
  <1>3. GoodCache /\ CallTypes /\ CallState
    BY Shape
  <1>4. /\ obj = <<s, c>> /\ s \in Allocated /\ c \in Chunks /\ cur \in FreeChunks(s)
        /\ cur < c /\ <<s, c>> \notin Held
    BY <1>1, <1>2, <1>3 DEF CallState, Held
  <1>5. Pending = {<<s, c>>} /\ Pending' = {} /\ Held' = Held /\ Allocated' = Allocated
    BY <1>2, <1>4 DEF Pending, Held, Allocated
  <1>6. cur \in Chunks \ Used(Held \cup {<<s, c>>}, s)
    BY <1>4, <1>5 DEF FreeChunks, Used, Held
  <1>7. CacheOK(links, numFree, nextFree, nslabs, Held, {<<s, c>>})
    BY <1>3, <1>5 DEF GoodCache
  <1>8. nextFree' = [nextFree EXCEPT ![s] = [nextFree[s] EXCEPT ![c] = nextFree[s][cur], ![cur] = c]]
    <2>1. nextFree \in [Slabs -> Chain] /\ s \in Slabs /\ c # cur
      BY <1>4, <1>7, ChunkOrder, MaxSlabsAssumption DEF CacheOK, Allocated, Slabs, FreeChunks
    <2>2. c \in 0 .. Sentinel /\ cur \in 0 .. Sentinel
      BY <1>4, <1>6, ChunkOrder
    <2> QED BY <1>2, <2>1, <2>2 DEF Chain
  <1>9. CacheOK(links, numFree, nextFree', nslabs, Held, {})
    <2>1. s \in 1 .. nslabs
      BY <1>4 DEF Allocated
    <2>2. cur \in {Base} \cup (Chunks \ Used(Held \cup {<<s, c>>}, s))
      BY <1>6
    <2>3. ~(nextFree[s][cur] < c)
      BY <1>2
    <2>4. CacheOK(links, numFree,
                  [nextFree EXCEPT ![s] = [nextFree[s] EXCEPT ![c] = nextFree[s][cur], ![cur] = c]],
                  nslabs, Held, {})
      BY <1>4, <1>7, <2>1, <2>2, <2>3, PutOnChain
    <2> QED BY <1>8, <2>4
  <1>10. GoodCache'
    BY <1>2, <1>5, <1>9 DEF GoodCache
  <1>11. CallTypes' /\ CallState'
    <2>1. NoObj \in Slabs \X Chunks /\ PartialHead \in Heads
      BY CapAssumption, MaxSlabsAssumption DEF NoObj, Slabs, Chunks, Heads
    <2> QED BY <1>2, <1>3, <1>5, <2>1 DEF CallTypes, CallState, NULL
  <1> QED BY <1>10, <1>11, Shape, PTL

\* The steps that follow the slab lists leave the cache as it is and stay
\* within the slabs.
LEMMA SearchStep ==
    ASSUME IInv,
           \/ \E s \in Slabs, c \in Chunks : FreeSeek(s, c)
           \/ FindNextSlab \/ FindNextList \/ FindMiss \/ slab_cache_destroy
    PROVE  IInv'
  <1>1. GoodCache /\ CallTypes /\ CallState /\ ListsAgree
    BY Shape DEF IInv
  <1>2. /\ UNCHANGED <<links, numFree, nextFree, nslabs>> /\ Held' = Held
        /\ Pending = {} /\ Pending' = {}
    BY <1>1 DEF FreeSeek, FindNextSlab, FindNextList, FindMiss, slab_cache_destroy, DestroyBegin,
                DestroySlab, DestroyNextList, DestroyEnd, Held, Pending, CallState
  <1>3. GoodCache'
    BY <1>1, <1>2 DEF GoodCache
  <1>4. \A n \in Heads \cup Allocated : links.next[n] \in Allocated \cup {NULL}
    BY <1>1 DEF ListsAgree, WellLinked
  <1>5. /\ Allocated' = Allocated /\ \A n \in Allocated \cup {NULL} : n \in Nat
        /\ PartialHead \in Heads /\ FreeHead \in Heads /\ FullHead \in Heads
    BY <1>2 DEF Allocated, NULL, Heads
  <1>6. NoObj \in Slabs \X Chunks
    BY CapAssumption, MaxSlabsAssumption DEF NoObj, Slabs, Chunks
  <1>7. CASE \E s \in Slabs, c \in Chunks : FreeSeek(s, c)
    <2>1. PICK s \in Slabs, c \in Chunks : FreeSeek(s, c)
      BY <1>7
    <2>2. CallTypes' /\ CallState'
      BY <1>1, <1>4, <1>5, <2>1 DEF CallTypes, CallState, FreeSeek
    <2> QED BY <1>3, <2>2, Shape, PTL
  <1>8. CASE FindNextSlab
    <2>1. CallTypes' /\ CallState'
      BY <1>1, <1>4, <1>5, <1>8 DEF CallTypes, CallState, FindNextSlab
    <2> QED BY <1>3, <2>1, Shape, PTL
  <1>9. CASE FindNextList
    <2>1. CallTypes' /\ CallState'
      BY <1>1, <1>4, <1>5, <1>9 DEF CallTypes, CallState, FindNextList
    <2> QED BY <1>3, <2>1, Shape, PTL
  <1>10. CASE FindMiss
    <2>1. CallTypes' /\ CallState'
      BY <1>1, <1>5, <1>6, <1>10 DEF CallTypes, CallState, FindMiss, NoCall, NULL
    <2> QED BY <1>3, <2>1, Shape, PTL
  <1>11. CASE DestroyBegin
    <2>1. CallTypes' /\ CallState'
      BY <1>1, <1>4, <1>5, <1>11 DEF CallTypes, CallState, DestroyBegin
    <2> QED BY <1>3, <2>1, Shape, PTL
  <1>12. CASE DestroySlab
    <2>1. cur \in Allocated /\ cur' = links.next[cur]
          /\ UNCHANGED <<pc, obj, list, live, lost, nslabs>> /\ pc = "destroy"
      BY <1>1, <1>12 DEF CallState, DestroySlab
    <2>2. released' \in [Slabs -> Nat]
      <3>1. cur \in Slabs
        BY <1>1, <2>1, MaxSlabsAssumption DEF GoodCache, CacheOK, Allocated, Slabs
      <3> QED BY <1>1, <1>12, <3>1 DEF CallTypes, DestroySlab
    <2>3. CallTypes' /\ CallState'
      BY <1>1, <1>4, <1>5, <2>1, <2>2 DEF CallTypes, CallState
    <2> QED BY <1>3, <2>3, Shape, PTL
  <1>13. CASE DestroyNextList
    <2>1. CallTypes' /\ CallState'
      BY <1>1, <1>4, <1>5, <1>13 DEF CallTypes, CallState, DestroyNextList
    <2> QED BY <1>3, <2>1, Shape, PTL
  <1>14. CASE DestroyEnd
    <2>1. CallTypes' /\ CallState'
      BY <1>1, <1>5, <1>14 DEF CallTypes, CallState, DestroyEnd
    <2> QED BY <1>3, <2>1, Shape, PTL
  <1> QED BY <1>7, <1>8, <1>9, <1>10, <1>11, <1>12, <1>13, <1>14 DEF slab_cache_destroy

----------------------------------------------------------------------------
\* The theorems.

\* Every step of the slab allocator preserves the invariant.
LEMMA NextIInv == IInv /\ [Next]_vars => IInv'
  <1> SUFFICES ASSUME IInv, [Next]_vars PROVE IInv'
    OBVIOUS
  <1>1. CASE slab_alloc_from_cache
    BY <1>1, AllocStep
  <1>2. CASE slab_free
    <2>1. ASSUME NEW s \in Slabs, NEW c \in Chunks, FreeDirect(s, c)
          PROVE  IInv'
      BY <2>1, GiveStep DEF FreeDirect
    <2>2. CASE FindHit
      <3>1. obj \in live /\ obj = <<obj[1], obj[2]>>
        BY <2>2 DEF IInv, CallState, TypeOK, FindHit
      <3> QED BY <2>2, <3>1, GiveStep DEF FindHit
    <2> QED BY <1>2, <2>1, <2>2, WalkStep, LinkStep, SearchStep DEF slab_free
  <1>3. CASE slab_cache_destroy
    BY <1>3, SearchStep
  <1>4. CASE UNCHANGED vars
    <2>1. GoodCache /\ CallTypes /\ CallState
      BY Shape
    <2>2. GoodCache' /\ CallTypes' /\ CallState'
      BY <1>4, <2>1 DEF vars, GoodCache, CallTypes, CallState, Held, Pending, FreeChunks, Allocated
    <2> QED BY <2>2, Shape, PTL
  <1> QED BY <1>1, <1>2, <1>3, <1>4 DEF Next

\* The inductive invariant holds throughout.
THEOREM Invariance == Spec => []IInv
  BY InitIInv, NextIInv, PTL DEF Spec

\* Pointers and counts of a slab cache keep their types: num_free never
\* passes below zero or above the capacity, for any capacity.
THEOREM TypeCorrect == Spec => []TypeOK
  <1>1. IInv => TypeOK
    BY DEF IInv
  <1> QED BY <1>1, Invariance, PTL

\* num_free of every slab is the number of its chunks no caller holds.
THEOREM CountsExact == Spec => []NumFreeExact
  <1>1. IInv => NumFreeExact
    BY DEF IInv
  <1> QED BY <1>1, Invariance, PTL

\* The chain of next_free pointers holds exactly the free chunks, in address
\* order, whatever the order in which slab_free got them.
THEOREM ChainsExact == Spec => []FreeChainExact
  <1>1. IInv => FreeChainExact
    BY DEF IInv
  <1> QED BY <1>1, Invariance, PTL

\* Every slab is linked into the list its num_free calls for.
THEOREM CacheConsistent == Spec => []ListsAgree
  <1>1. IInv => ListsAgree
    BY DEF IInv
  <1> QED BY <1>1, Invariance, PTL

\* slab_alloc_from_cache never hands out a chunk that a caller holds, nor the
\* header behind the last chunk.
THEOREM HandsOutOnce == Spec => NoDoubleHandout
  <1>1. IInv /\ [Next]_vars =>
          [slab_alloc_from_cache =>
             \E s \in Slabs, c \in Chunks :
                 /\ <<s, c>> \notin live \cup lost
                 /\ live' = live \cup {<<s, c>>}]_vars
    BY AllocStep
  <1> QED BY <1>1, Invariance, PTL DEF Spec, NoDoubleHandout

----------------------------------------------------------------------------
\* Lists without circles.

Ranks == [Nodes -> Nat]

\* r orders the slabs S: each comes after its predecessor in its list.
Ranked(l, S, r) == \A s \in S : r[l.prev[s]] < r[s]

Acyclic == \E r \in Ranks : Ranked(links, Allocated, r)

\* A set of natural numbers has a least element.
LEMMA LeastNumber ==
    ASSUME NEW S \in SUBSET Nat, S # {}
    PROVE  \E x \in S : \A y \in S : x <= y
  <1> DEFINE R == OpToRel(<, Nat)
  <1>1. PICK x \in S : \A y \in S : ~(<<y, x>> \in R)
    <2>1. IsWellFoundedOn(R, Nat)
      BY NatLessThanWellFounded
    <2> HIDE DEF R
    <2> QED BY <2>1, WFMin
  <1>2. \A y \in S : ~(y < x)
    BY <1>1 DEF OpToRel
  <1> QED BY <1>2

\* Unlinking a slab keeps the order of the others.
LEMMA UnlinkRanked ==
    ASSUME NEW l \in Links, NEW S \in SUBSET Slabs, NEW home,
           WellLinked(l, S, home), NEW s \in S, NEW r \in Ranks, Ranked(l, S, r)
    PROVE  Ranked(slab_remove_from_cache(l, s), S \ {s}, r)
  <1> DEFINE m == slab_remove_from_cache(l, s)
  <1> USE NodeKinds
  <1>1. /\ s # NULL
        /\ l.prev[s] \in Nodes
        /\ l.next[s] # NULL => l.next[s] \in S /\ l.prev[l.next[s]] = s
    BY DEF WellLinked
  <1>2. \A t \in S : m.prev[t] = IF t = l.next[s] THEN l.prev[s] ELSE l.prev[t]
    BY <1>1 DEF slab_remove_from_cache, Links
  <1>3. ASSUME NEW t \in S \ {s}
        PROVE  r[m.prev[t]] < r[t]
    <2>1. r[l.prev[t]] < r[t] /\ r[l.prev[s]] < r[s]
      BY DEF Ranked
    <2>2. r[t] \in Nat /\ r[s] \in Nat /\ r[l.prev[s]] \in Nat
      BY <1>1 DEF Ranks
    <2>3. CASE t = l.next[s]
      <3>1. m.prev[t] = l.prev[s] /\ l.prev[t] = s
        BY <1>1, <1>2, <2>3
      <3> HIDE DEF m
      <3> QED BY <2>1, <2>2, <3>1
    <2>4. CASE t # l.next[s]
      BY <1>2, <2>1, <2>4
    <2> QED BY <2>3, <2>4
  <1> QED BY <1>3 DEF Ranked

\* A slab linked in behind a head gets a rank between the head and the rest.
LEMMA LinkRanked ==
    ASSUME NEW l \in Links, NEW S \in SUBSET Slabs, NEW home,
           WellLinked(l, S, home), NEW s \in Slabs, s \notin S, NEW head \in Heads,
           NEW r \in Ranks, Ranked(l, S, r)
    PROVE  \E q \in Ranks : Ranked(slab_insert_in_cache(l, head, s), S \cup {s}, q)
  <1> DEFINE m == slab_insert_in_cache(l, head, s)
             q == [n \in Nodes |-> IF n = s THEN 2 * r[head] + 1 ELSE 2 * r[n]]
  <1> USE NodeKinds
  <1>1. s # NULL /\ s \in Nodes /\ s \notin Heads /\ head \in Nodes /\ head # NULL
    OBVIOUS
  <1>2. l.next[head] # NULL => l.next[head] \in S /\ l.prev[l.next[head]] = head
    BY DEF WellLinked
  <1>3. \A n \in Nodes : m.prev[n] = IF n = l.next[head] /\ n # NULL THEN s
                                     ELSE IF n = s THEN head ELSE l.prev[n]
    BY <1>1, <1>2 DEF Links, slab_insert_in_cache
  <1>4. q \in Ranks /\ q[s] = 2 * r[head] + 1 /\ (\A n \in Nodes \ {s} : q[n] = 2 * r[n])
        /\ \A n \in Nodes : r[n] \in Nat
    BY <1>1 DEF Ranks
  <1> HIDE DEF m, q
  <1>5. ASSUME NEW t \in S \cup {s}
        PROVE  q[m.prev[t]] < q[t]
    <2>1. CASE t = s
      BY <1>1, <1>2, <1>3, <1>4, <2>1
    <2>2. CASE t # s /\ t = l.next[head]
      <3>1. m.prev[t] = s /\ r[head] < r[t]
        BY <1>1, <1>2, <1>3, <2>2 DEF Ranked
      <3> QED BY <1>1, <1>4, <2>2, <3>1
    <2>3. CASE t # s /\ t # l.next[head]
      <3>1. l.prev[t] \in Heads \cup S /\ r[l.prev[t]] < r[t]
        BY <2>3 DEF WellLinked, Ranked
      <3>2. m.prev[t] = l.prev[t] /\ l.prev[t] # s /\ l.prev[t] \in Nodes
        BY <1>1, <1>3, <2>3, <3>1
      <3> QED BY <1>4, <2>3, <3>1, <3>2
    <2> QED BY <2>1, <2>2, <2>3
  <1> QED BY <1>4, <1>5 DEF Ranked, m

\* Moving a slab to the front of another list makes no circle.
LEMMA MoveRanked ==
    ASSUME NEW l \in Links, NEW S \in SUBSET Slabs, NEW home,
           WellLinked(l, S, home), NEW s \in S, NEW head \in Heads,
           \E r \in Ranks : Ranked(l, S, r)
    PROVE  \E r \in Ranks :
             Ranked(slab_insert_in_cache(slab_remove_from_cache(l, s), head, s), S, r)
  <1> DEFINE m == slab_remove_from_cache(l, s)
             R == S \ {s}
  <1>1. PICK r \in Ranks : Ranked(l, S, r)
    OBVIOUS
  <1>2. m \in Links /\ WellLinked(m, R, home) /\ Ranked(m, R, r)
    BY <1>1, Unlink, UnlinkRanked
  <1>3. R \in SUBSET Slabs /\ s \in Slabs /\ s \notin R /\ R \cup {s} = S
    OBVIOUS
  <1> HIDE DEF m, R
  <1>4. \E q \in Ranks : Ranked(slab_insert_in_cache(m, head, s), R \cup {s}, q)
    BY <1>2, <1>3, LinkRanked
  <1> QED BY <1>3, <1>4 DEF m

\* The first slab of the partial or of the free list has a chunk to give, and
\* the count of a partial slab differs from the capacity.
LEMMA FirstSlab ==
    ASSUME NEW l, NEW nf, NEW chain, NEW n, NEW L, NEW P,
           CacheOK(l, nf, chain, n, L, P), NEW s, s # NULL,
           s = l.next[PartialHead] \/ s = l.next[FreeHead]
    PROVE  /\ s \in 1 .. n /\ nf[s] \in 1 .. Cap
           /\ s = l.next[PartialHead] => nf[s] < Cap
           /\ s = l.next[FreeHead] => nf[s] = Cap
  <1> DEFINE S == 1 .. n
             home == HomeMap(nf)
  <1>0. S \in SUBSET Slabs /\ Heads \subseteq Nodes /\ PartialHead \in Heads
        /\ FreeHead \in Heads /\ FullHead \in Heads
    BY NodeKinds, MaxSlabsAssumption DEF CacheOK, Slabs, Heads
  <1>1. s \in S /\ (home[s] = PartialHead \/ home[s] = FreeHead)
        /\ (s = l.next[PartialHead] => home[s] = PartialHead)
        /\ (s = l.next[FreeHead] => home[s] = FreeHead)
    <2>1. \A h \in Heads : home[h] = h
      BY <1>0 DEF HomeMap, HomeIn
    <2>2. WellLinked(l, S, home)
      BY DEF CacheOK
    <2> HIDE DEF S, home
    <2> QED BY <1>0, <2>1, <2>2 DEF WellLinked
  <1>2. nf[s] \in 0 .. Cap /\ s \in Nodes /\ s \notin Heads
    BY <1>0, <1>1, NodeKinds DEF CacheOK
  <1>3. home[s] = IF nf[s] = 0 THEN FullHead ELSE IF nf[s] = Cap THEN FreeHead ELSE PartialHead
    BY <1>2 DEF HomeMap, HomeIn
  <1> HIDE DEF home
  <1> QED BY <1>1, <1>2, <1>3, CapAssumption DEF FreeHead, PartialHead, FullHead

\* Taking a chunk makes no circle.
LEMMA TakeRanked ==
    ASSUME NEW l, NEW nf, NEW chain, NEW n, NEW L, NEW P,
           CacheOK(l, nf, chain, n, L, P), NEW s, s # NULL,
           s = l.next[PartialHead] \/ s = l.next[FreeHead],
           \E r \in Ranks : Ranked(l, 1 .. n, r)
    PROVE  \E r \in Ranks : Ranked(LinksAfterTake(l, s, nf[s] - 1), 1 .. n, r)
  <1> DEFINE S == 1 .. n
             home == HomeMap(nf)
             left == nf[s] - 1
  <1>1. l \in Links /\ S \in SUBSET Slabs /\ WellLinked(l, S, home)
        /\ PartialHead \in Heads /\ FullHead \in Heads
    BY MaxSlabsAssumption DEF CacheOK, Slabs, Heads
  <1>2. /\ s \in S /\ nf[s] \in 1 .. Cap
        /\ s = l.next[PartialHead] => nf[s] < Cap
        /\ s = l.next[FreeHead] => nf[s] = Cap
    BY FirstSlab
  <1>3. CASE left = 0
    <2>1. s = l.next[PartialHead]
      BY <1>2, <1>3, CapAssumption
    <2>2. LinksAfterTake(l, s, left) =
            slab_insert_in_cache(slab_remove_from_cache(l, s), FullHead, s)
      BY <1>3, <2>1 DEF LinksAfterTake
    <2> HIDE DEF S, home, left
    <2>3. \E r \in Ranks : Ranked(l, S, r)
      BY DEF S
    <2>4. \E r \in Ranks : Ranked(LinksAfterTake(l, s, left), S, r)
      BY <1>1, <1>2, <2>2, <2>3, MoveRanked
    <2> QED BY <2>4 DEF S, left
  <1>4. CASE left # 0 /\ left = Cap - 1
    <2>1. s = l.next[FreeHead]
      BY <1>2, <1>4, CapAssumption
    <2>2. LinksAfterTake(l, s, left) =
            slab_insert_in_cache(slab_remove_from_cache(l, s), PartialHead, s)
      BY <1>4, <2>1 DEF LinksAfterTake
    <2> HIDE DEF S, home, left
    <2>3. \E r \in Ranks : Ranked(l, S, r)
      BY DEF S
    <2>4. \E r \in Ranks : Ranked(LinksAfterTake(l, s, left), S, r)
      BY <1>1, <1>2, <2>2, <2>3, MoveRanked
    <2> QED BY <2>4 DEF S, left
  <1>5. CASE left # 0 /\ left # Cap - 1
    BY <1>5 DEF LinksAfterTake
  <1> QED BY <1>3, <1>4, <1>5

\* Giving a chunk back makes no circle.
LEMMA GiveRanked ==
    ASSUME NEW l, NEW nf, NEW chain, NEW n, NEW L, NEW P,
           CacheOK(l, nf, chain, n, L, P), NEW s \in 1 .. n, NEW left,
           \E r \in Ranks : Ranked(l, 1 .. n, r)
    PROVE  \E r \in Ranks : Ranked(LinksAfterGive(l, s, left), 1 .. n, r)
  <1> DEFINE S == 1 .. n
             home == HomeMap(nf)
  <1>1. l \in Links /\ S \in SUBSET Slabs /\ WellLinked(l, S, home)
        /\ PartialHead \in Heads /\ FreeHead \in Heads
    BY MaxSlabsAssumption DEF CacheOK, Slabs, Heads
  <1>2. s \in S /\ \E r \in Ranks : Ranked(l, S, r)
    OBVIOUS
  <1> HIDE DEF S, home
  <1>3. \A h \in Heads : \E r \in Ranks :
          Ranked(slab_insert_in_cache(slab_remove_from_cache(l, s), h, s), S, r)
    BY <1>1, <1>2, MoveRanked
  <1>4. \E r \in Ranks : Ranked(LinksAfterGive(l, s, left), S, r)
    BY <1>1, <1>2, <1>3 DEF LinksAfterGive
  <1> QED BY <1>4 DEF S

\* No step links slabs in a circle.
LEMMA NextAcyclic == IInv /\ Acyclic /\ [Next]_vars => Acyclic'
  <1> SUFFICES ASSUME IInv, Acyclic, [Next]_vars PROVE Acyclic'
    OBVIOUS
  <1>1. GoodCache /\ CallTypes /\ CallState
    BY Shape
  <1>2. ASSUME NEW l, NEW nf, NEW chain, NEW n, NEW s, TakeChunk(s, l, nf, chain),
               CacheOK(l, nf, chain, n, Held, Pending), s # NULL,
               s = l.next[PartialHead] \/ s = l.next[FreeHead],
               \E r \in Ranks : Ranked(l, 1 .. n, r), nslabs' = n
        PROVE  Acyclic'
    <2>1. links' = LinksAfterTake(l, s, nf[s] - 1)
      BY <1>2, Zenon DEF TakeChunk, LinksAfterTake
    <2>2. \E r \in Ranks : Ranked(LinksAfterTake(l, s, nf[s] - 1), 1 .. n, r)
      BY <1>2, TakeRanked
    <2> QED BY <1>2, <2>1, <2>2 DEF Acyclic, Allocated
  <1>3. CASE AllocFromPartial
    <2>1. \E r \in Ranks : Ranked(links, 1 .. nslabs, r)
      BY DEF Acyclic, Allocated
    <2> QED BY <1>1, <1>2, <1>3, <2>1 DEF AllocFromPartial, GoodCache
  <1>4. CASE AllocFromFree
    <2>1. \E r \in Ranks : Ranked(links, 1 .. nslabs, r)
      BY DEF Acyclic, Allocated
    <2> QED BY <1>1, <1>2, <1>4, <2>1 DEF AllocFromFree, GoodCache
  <1>5. CASE AllocFromNewSlab
    <2> DEFINE s == nslabs + 1
               l == slab_insert_in_cache(links, FreeHead, s)
               nf == [numFree EXCEPT ![s] = Cap]
               chain == [nextFree EXCEPT ![s] = NewChain]
    <2>1. /\ nslabs < MaxSlabs /\ TakeChunk(s, l, nf, chain) /\ nslabs' = s
          /\ Pending = {}
      BY <1>5 DEF AllocFromNewSlab, Pending
    <2>2. CacheOK(l, nf, chain, s, Held, Pending) /\ l.next[FreeHead] = s
      BY <1>1, <2>1, NewSlab DEF GoodCache
    <2>3. /\ s \in Slabs /\ s # NULL /\ s \notin 1 .. nslabs /\ (1 .. nslabs) \cup {s} = 1 .. s
          /\ 1 .. nslabs \in SUBSET Slabs /\ FreeHead \in Heads
          /\ links \in Links /\ WellLinked(links, 1 .. nslabs, HomeMap(numFree))
      BY <1>1, <2>1, MaxSlabsAssumption DEF GoodCache, CacheOK, Slabs, NULL, Heads
    <2>4. PICK r \in Ranks : Ranked(links, 1 .. nslabs, r)
      BY DEF Acyclic, Allocated
    <2> HIDE DEF s, nf, chain
    <2>5. \E q \in Ranks : Ranked(l, (1 .. nslabs) \cup {s}, q)
      BY <2>3, <2>4, LinkRanked
    <2>6. \E q \in Ranks : Ranked(l, 1 .. s, q)
      BY <2>3, <2>5
    <2> HIDE DEF l
    <2> QED BY <1>2, <2>1, <2>2, <2>3, <2>6
  <1>6. ASSUME NEW s, NEW c, <<s, c>> \in live, GiveBack(s, c), nslabs' = nslabs
        PROVE  Acyclic'
    <2>1. links' = LinksAfterGive(links, s, numFree[s] + 1)
      BY <1>6 DEF GiveBack, LinksAfterGive
    <2>2. s \in 1 .. nslabs
      BY <1>1, <1>6 DEF CallState, Allocated
    <2>3. \E r \in Ranks : Ranked(links, 1 .. nslabs, r)
      BY DEF Acyclic, Allocated
    <2>4. \E r \in Ranks : Ranked(LinksAfterGive(links, s, numFree[s] + 1), 1 .. nslabs, r)
      BY <1>1, <2>2, <2>3, GiveRanked DEF GoodCache
    <2> QED BY <1>6, <2>1, <2>4 DEF Acyclic, Allocated
  <1>7. ASSUME NEW s \in Slabs, NEW c \in Chunks, FreeDirect(s, c)
        PROVE  Acyclic'
    BY <1>6, <1>7 DEF FreeDirect
  <1>8. CASE FindHit
    <2>1. obj \in live /\ obj = <<obj[1], obj[2]>>
      BY <1>1, <1>8 DEF CallState, CallTypes, FindHit
    <2> QED BY <1>6, <1>8, <2>1 DEF FindHit
  <1>9. CASE UNCHANGED <<links, nslabs>>
    BY <1>9 DEF Acyclic, Allocated
  <1>10. ASSUME NEW s \in Slabs, NEW c \in Chunks, FreeSeek(s, c)
         PROVE  UNCHANGED <<links, nslabs>>
    BY <1>10 DEF FreeSeek
  <1>11. ASSUME FindNextSlab \/ FindNextList \/ FindMiss \/ FreeWalk \/ FreeLink
                \/ slab_cache_destroy \/ UNCHANGED vars
         PROVE  UNCHANGED <<links, nslabs>>
    BY <1>11 DEF FindNextSlab, FindNextList, FindMiss, FreeWalk, FreeLink, slab_cache_destroy,
                 DestroyBegin, DestroySlab, DestroyNextList, DestroyEnd, vars
  <1> QED BY <1>3, <1>4, <1>5, <1>7, <1>8, <1>9, <1>10, <1>11
          DEF Next, slab_alloc_from_cache, slab_free

\* A cache just created has one slab behind one head.
LEMMA InitAcyclic == Init => Acyclic
  <1> SUFFICES ASSUME Init PROVE Acyclic
    OBVIOUS
  <1> DEFINE r == [n \in Nodes |-> IF n = 1 THEN 1 ELSE 0]
  <1>1. /\ 1 \in Nodes /\ FreeHead \in Nodes /\ FreeHead # 1
        /\ links.prev[1] = FreeHead /\ Allocated = {1}
    BY MaxSlabsAssumption DEF Init, Slabs, Nodes, Heads, FreeHead, Allocated
  <1>2. r \in Ranks /\ Ranked(links, Allocated, r)
    BY <1>1 DEF Ranks, Ranked
  <1> QED BY <1>2 DEF Acyclic

\* No list of the cache ever closes on itself.
THEOREM NoCircles == Spec => []Acyclic
  BY InitAcyclic, NextAcyclic, Invariance, PTL DEF Spec

----------------------------------------------------------------------------
\* Walking down a list.

\* Slabs D of list L, closed under next up to the end of the list, are all
\* the slabs of L: the one of least rank outside D has no predecessor.
LEMMA NoneLeft ==
    ASSUME NEW l, NEW S \in SUBSET Slabs, NEW home, WellLinked(l, S, home),
           NEW r \in Ranks, Ranked(l, S, r), NEW L \in Heads,
           \A h \in Heads : home[h] = h, NEW D \in SUBSET S,
           \A n \in D \cup {L} : l.next[n] \in D \cup {NULL}
    PROVE  \A s \in S : home[s] = L => s \in D
  <1> DEFINE B == {s \in S : home[s] = L /\ s \notin D}
             R == {r[s] : s \in B}
  <1> SUFFICES ASSUME B # {} PROVE FALSE
    OBVIOUS
  <1>1. R \in SUBSET Nat /\ R # {}
    BY NodeKinds DEF Ranks
  <1>2. PICK x \in R : \A y \in R : x <= y
    <2> HIDE DEF R
    <2> QED BY <1>1, LeastNumber
  <1>3. PICK s \in B : x = r[s]
    BY <1>2
  <1>4. s \in S /\ home[s] = L /\ s \notin D /\ s # NULL
    BY <1>3, NodeKinds
  <1>5. PICK p : p = l.prev[s]
    OBVIOUS
  <1>6. p \in Heads \cup S /\ l.next[p] = s /\ home[p] = L /\ r[p] < r[s]
    BY <1>4, <1>5 DEF WellLinked, Ranked
  <1>7. CASE p \in Heads
    BY <1>4, <1>6, <1>7
  <1>8. CASE p \in S /\ p \notin D
    <2>1. r[p] \in R /\ r[p] \in Nat /\ r[s] \in Nat
      BY <1>1, <1>3, <1>6, <1>8
    <2>2. x <= r[p]
      BY <1>2, <2>1
    <2> HIDE DEF R
    <2> QED BY <1>3, <1>6, <2>1, <2>2
  <1>9. CASE p \in D
    BY <1>4, <1>6, <1>9
  <1> QED BY <1>6, <1>7, <1>8, <1>9

\* What the lists of the cache look like to a loop.
LEMMA ListFacts ==
    ASSUME IInv
    PROVE  /\ Allocated \in SUBSET Slabs
           /\ WellLinked(links, Allocated, HomeMap(numFree))
           /\ \A h \in Heads : HomeMap(numFree)[h] = h
           /\ \A s \in Allocated :
                 HomeMap(numFree)[s] = IF numFree[s] = 0 THEN FullHead
                                       ELSE IF numFree[s] = Cap THEN FreeHead ELSE PartialHead
           /\ \A s \in Allocated : /\ s # NULL /\ s \notin Heads /\ s \in Nodes
                                   /\ numFree[s] \in 0 .. Cap
                                   /\ numFree[s] = Cap - Cardinality(UsedChunks(s))
                                   /\ UsedChunks(s) \in SUBSET Chunks
  <1>1. GoodCache
    BY Shape
  <1>2. Allocated \in SUBSET Slabs /\ WellLinked(links, Allocated, HomeMap(numFree))
    BY <1>1, MaxSlabsAssumption DEF GoodCache, CacheOK, Allocated, Slabs
  <1>3. \A s \in Allocated : s # NULL /\ s \notin Heads /\ s \in Nodes
    BY <1>2, NodeKinds
  <1>4. \A s \in Allocated : /\ numFree[s] \in 0 .. Cap
                             /\ numFree[s] = Cap - Cardinality(UsedChunks(s))
                             /\ UsedChunks(s) \in SUBSET Chunks
    BY <1>2 DEF IInv, TypeOK, NumFreeExact, UsedChunks
  <1>5. /\ \A h \in Heads : HomeMap(numFree)[h] = h
        /\ \A s \in Allocated :
                 HomeMap(numFree)[s] = IF numFree[s] = 0 THEN FullHead
                                       ELSE IF numFree[s] = Cap THEN FreeHead ELSE PartialHead
    BY <1>3, NodeKinds DEF HomeMap, HomeIn
  <1> QED BY <1>2, <1>3, <1>4, <1>5

\* The cache asks for memory only when every chunk it has is taken: with the
\* partial and the free list empty, every slab is full.
THEOREM GrowsWhenFull == Spec => GrowsOnlyWhenFull
  <1>1. ASSUME IInv, Acyclic, Next, nslabs' # nslabs
        PROVE  \A s \in Allocated : UsedChunks(s) = Chunks
    <2>1. links.next[PartialHead] = NULL /\ links.next[FreeHead] = NULL
      BY <1>1 DEF Next, slab_alloc_from_cache, AllocFromPartial, AllocFromFree, AllocFromNewSlab,
                  slab_free, FreeDirect, FreeSeek, FindHit, FindNextSlab, FindNextList, FindMiss,
                  FreeWalk, FreeLink, slab_cache_destroy, DestroyBegin, DestroySlab,
                  DestroyNextList, DestroyEnd
    <2>2. PICK r \in Ranks : Ranked(links, Allocated, r)
      BY <1>1 DEF Acyclic
    <2>3. /\ \A s \in Allocated : HomeMap(numFree)[s] # PartialHead
          /\ \A s \in Allocated : HomeMap(numFree)[s] # FreeHead
      <3> DEFINE home == HomeMap(numFree)
      <3>1. /\ Allocated \in SUBSET Slabs /\ WellLinked(links, Allocated, home)
            /\ \A h \in Heads : home[h] = h
        BY <1>1, ListFacts
      <3>2. {} \in SUBSET Allocated /\ PartialHead \in Heads /\ FreeHead \in Heads
        BY DEF Heads
      <3>3. ASSUME NEW L \in Heads, links.next[L] = NULL
            PROVE  \A s \in Allocated : home[s] # L
        <4>1. PICK D : D = {}
          OBVIOUS
        <4>2. D \in SUBSET Allocated /\ \A n \in D \cup {L} : links.next[n] \in D \cup {NULL}
          BY <3>3, <4>1
        <4> HIDE DEF home
        <4>3. \A s \in Allocated : home[s] = L => s \in D
          BY <2>2, <3>1, <3>3, <4>2, NoneLeft
        <4> QED BY <4>1, <4>3
      <3> HIDE DEF home
      <3>4. /\ \A s \in Allocated : home[s] # PartialHead
            /\ \A s \in Allocated : home[s] # FreeHead
        BY <2>1, <3>2, <3>3
      <3> QED BY <3>4 DEF home
    <2>4. ASSUME NEW s \in Allocated
          PROVE  UsedChunks(s) = Chunks
      <3>1. numFree[s] = 0
        BY <1>1, <2>3, ListFacts
      <3>2. UsedChunks(s) \in SUBSET Chunks /\ 0 = Cap - Cardinality(UsedChunks(s))
        BY <1>1, <3>1, ListFacts
      <3> QED BY <3>2, CountChunks, CapAssumption
    <2> QED BY <2>4
  <1>2. IInv /\ Acyclic /\ [Next]_vars =>
          [nslabs' # nslabs => \A s \in Allocated : UsedChunks(s) = Chunks]_vars
    BY <1>1
  <1> QED BY <1>2, Invariance, NoCircles, PTL DEF Spec, GrowsOnlyWhenFull

\* A loop down the list of head L has passed the slabs D and stands at c.
Front(l, S, home, D, L, c) ==
    /\ D \in SUBSET S /\ c \in S \cup {NULL} /\ c \notin D
    /\ \A t \in D : home[t] = L /\ l.prev[t] \in D \cup {L}
    /\ \A n \in D \cup {L} : l.next[n] \in D \cup {c}
    /\ c # NULL => home[c] = L /\ l.prev[c] \in D \cup {L}

\* slab_free looking for a header: it has passed no slab that could hold it.
FindState ==
    pc = "find" =>
        /\ Aligned /\ list \in {PartialHead, FullHead}
        /\ \E D \in SUBSET Allocated :
              /\ Front(links, Allocated, HomeMap(numFree), D, list, cur)
              /\ obj[2] # 1 => /\ obj[1] \notin D
                               /\ list = FullHead => HomeMap(numFree)[obj[1]] = FullHead

\* The lists slab_cache_destroy is done with when it is at the list of head L.
Earlier(L) == IF L = FreeHead THEN {}
              ELSE IF L = PartialHead THEN {FreeHead} ELSE {FreeHead, PartialHead}

\* slab_cache_destroy has released the slabs it has passed, once each.
DestroyState ==
    /\ pc = "destroy" =>
          \E D \in SUBSET Allocated :
             /\ Front(links, Allocated, HomeMap(numFree), D, list, cur)
             /\ \A s \in Slabs : released[s] =
                   IF s \in D \/ (s \in Allocated /\ HomeMap(numFree)[s] \in Earlier(list))
                   THEN 1 ELSE 0
    /\ pc \in {"idle", "find", "walk"} => \A s \in Slabs : released[s] = 0

LoopInv ==
    /\ IInv /\ Acyclic /\ FindState /\ DestroyState
    /\ DestroyReleasesAll /\ LosesOnlyFirstChunks

\* A loop begins at the first slab of the list, having passed none.
LEMMA FrontBegin ==
    ASSUME NEW l, NEW S \in SUBSET Slabs, NEW home, WellLinked(l, S, home),
           \A h \in Heads : home[h] = h, NEW L \in Heads
    PROVE  Front(l, S, home, {}, L, l.next[L])
  <1>1. l.next[L] \in S \cup {NULL}
        /\ (l.next[L] # NULL => home[l.next[L]] = L /\ l.prev[l.next[L]] = L)
    BY DEF WellLinked
  <1> QED BY <1>1 DEF Front

\* One iteration passes one more slab, which it has not passed before.
LEMMA FrontStep ==
    ASSUME NEW l, NEW S \in SUBSET Slabs, NEW home, WellLinked(l, S, home),
           NEW L \in Heads, NEW D, NEW c, c # NULL, Front(l, S, home, D, L, c)
    PROVE  Front(l, S, home, D \cup {c}, L, l.next[c])
  <1> DEFINE e == l.next[c]
             E == D \cup {c}
  <1>1. /\ D \in SUBSET S /\ c \in S /\ c \notin D
        /\ \A t \in D : home[t] = L /\ l.prev[t] \in D \cup {L}
        /\ \A n \in D \cup {L} : l.next[n] \in D \cup {c}
        /\ home[c] = L /\ l.prev[c] \in D \cup {L}
    BY DEF Front
  <1>2. c \notin Heads /\ c # L
    BY <1>1, NodeKinds
  <1>3. e # NULL => e \in S /\ l.prev[e] = c /\ home[e] = L
    BY <1>1 DEF WellLinked
  <1>4. e \notin E
    <2>1. NULL \notin E
      BY <1>1, NodeKinds
    <2>2. ASSUME e # NULL, e \in D PROVE FALSE
      BY <1>1, <1>2, <1>3, <2>2
    <2>3. ASSUME e # NULL, e = c PROVE FALSE
      BY <1>1, <1>2, <1>3, <2>3
    <2> QED BY <2>1, <2>2, <2>3
  <1> HIDE DEF e
  <1>5. \A n \in E \cup {L} : l.next[n] \in E \cup {e}
    BY <1>1 DEF e
  <1>6. \A t \in E : home[t] = L /\ l.prev[t] \in E \cup {L}
    BY <1>1
  <1>7. Front(l, S, home, E, L, e)
    <2>1. E \in SUBSET S /\ e \in S \cup {NULL}
      BY <1>1, <1>3
    <2>2. e # NULL => home[e] = L /\ l.prev[e] \in E \cup {L}
      BY <1>3
    <2> HIDE DEF E
    <2> QED BY <1>4, <1>5, <1>6, <2>1, <2>2 DEF Front
  <1> QED BY <1>7 DEF e

\* At the end of the list the loop has passed exactly the slabs of the list.
LEMMA FrontEnd ==
    ASSUME IInv, Acyclic, NEW L \in Heads, NEW D,
           Front(links, Allocated, HomeMap(numFree), D, L, NULL)
    PROVE  D = {s \in Allocated : HomeMap(numFree)[s] = L}
  <1> DEFINE home == HomeMap(numFree)
  <1>1. PICK r \in Ranks : Ranked(links, Allocated, r)
    BY DEF Acyclic
  <1>2. /\ Allocated \in SUBSET Slabs /\ WellLinked(links, Allocated, home)
        /\ \A h \in Heads : home[h] = h
    BY ListFacts
  <1>3. /\ D \in SUBSET Allocated /\ \A t \in D : home[t] = L
        /\ \A n \in D \cup {L} : links.next[n] \in D \cup {NULL}
    BY DEF Front
  <1> HIDE DEF home
  <1>4. \A s \in Allocated : home[s] = L => s \in D
    BY <1>1, <1>2, <1>3, NoneLeft
  <1> QED BY <1>3, <1>4 DEF home

\* A slab with an allocated object is not on the free list.
LEMMA LiveNotFree ==
    ASSUME IInv, obj \in live
    PROVE  obj[1] \in Allocated /\ obj[2] \in Chunks
           /\ HomeMap(numFree)[obj[1]] \in {PartialHead, FullHead}
  <1>1. PICK s, c : obj = <<s, c>> /\ s \in Allocated /\ c \in Chunks
    BY DEF IInv, CallState
  <1>2. c \in UsedChunks(s)
    BY <1>1 DEF UsedChunks
  <1>3. numFree[s] = Cap - Cardinality(UsedChunks(s)) /\ UsedChunks(s) \in SUBSET Chunks
    BY <1>1, ListFacts
  <1>4. numFree[s] # Cap
    <2>1. /\ Cardinality(UsedChunks(s)) \in 0 .. Cap
          /\ Cardinality(UsedChunks(s) \ {c}) = Cardinality(UsedChunks(s)) - 1
      BY <1>2, <1>3, CountChunks
    <2>2. Cardinality(UsedChunks(s) \ {c}) \in 0 .. Cap
      BY <1>3, CountChunks
    <2> QED BY <1>3, <2>1, <2>2, CapAssumption
  <1> QED BY <1>1, <1>4, ListFacts

\* The steps of a search: it ends without the header only for a first chunk.
LEMMA FindSteps ==
    ASSUME LoopInv,
           \/ \E s \in Slabs, c \in Chunks : FreeSeek(s, c)
           \/ FindNextSlab \/ FindNextList \/ FindMiss
    PROVE  FindState' /\ LosesOnlyFirstChunks'
  <1> DEFINE home == HomeMap(numFree)
  <1>1. /\ IInv /\ Acyclic /\ FindState /\ LosesOnlyFirstChunks
        /\ Allocated \in SUBSET Slabs /\ WellLinked(links, Allocated, home)
        /\ \A h \in Heads : home[h] = h
        /\ PartialHead \in Heads /\ FullHead \in Heads /\ PartialHead # FullHead
    BY ListFacts DEF LoopInv, Heads, PartialHead, FullHead
  <1>2. home' = home /\ Allocated' = Allocated /\ links' = links
    BY DEF FreeSeek, FindNextSlab, FindNextList, FindMiss, Allocated, HomeMap, HomeIn
  <1>a. {} \in SUBSET Allocated /\ obj[1] \notin {}
    OBVIOUS
  <1> HIDE DEF home
  <1>3. ASSUME NEW s \in Slabs, NEW c \in Chunks, FreeSeek(s, c)
        PROVE  FindState' /\ LosesOnlyFirstChunks'
    <2>1. /\ Aligned /\ list' = PartialHead /\ cur' = links.next[PartialHead] /\ lost' = lost
      BY <1>3 DEF FreeSeek
    <2>2. Front(links, Allocated, home, {}, PartialHead, links.next[PartialHead])
      BY <1>1, FrontBegin
    <2>3. \E D \in SUBSET Allocated' :
             /\ Front(links', Allocated', home', D, list', cur')
             /\ obj'[2] # 1 => obj'[1] \notin D /\ (list' = FullHead => home'[obj'[1]] = FullHead)
      <3>1. obj'[1] \notin {}
        OBVIOUS
      <3> QED BY <1>1, <1>2, <1>a, <2>1, <2>2, <3>1
    <2> QED BY <1>1, <2>1, <2>3 DEF FindState, LosesOnlyFirstChunks, home
  <1>4. ASSUME pc = "find"
        PROVE  /\ Aligned /\ list \in {PartialHead, FullHead}
               /\ obj[1] \in Allocated /\ obj[2] \in Chunks
               /\ home[obj[1]] \in {PartialHead, FullHead}
               /\ obj = <<obj[1], obj[2]>>
               /\ \E D \in SUBSET Allocated :
                     /\ Front(links, Allocated, home, D, list, cur)
                     /\ obj[2] # 1 => obj[1] \notin D /\ (list = FullHead => home[obj[1]] = FullHead)
    <2>1. obj \in live /\ obj \in Slabs \X Chunks
      BY <1>1, <1>4 DEF IInv, CallState, TypeOK
    <2> QED BY <1>1, <1>4, <2>1, LiveNotFree DEF FindState, home
  <1>5. CASE FindNextSlab
    <2>1. /\ pc = "find" /\ cur # NULL /\ ~Found /\ cur' = links.next[cur]
          /\ UNCHANGED <<obj, list, lost>>
      BY <1>5 DEF FindNextSlab
    <2>2. PICK D \in SUBSET Allocated :
             /\ Front(links, Allocated, home, D, list, cur)
             /\ obj[2] # 1 => obj[1] \notin D /\ (list = FullHead => home[obj[1]] = FullHead)
      BY <1>4, <2>1
    <2>3. list \in Heads
      BY <1>1, <1>4, <2>1
    <2>4. Front(links, Allocated, home, D \cup {cur}, list, links.next[cur])
      BY <1>1, <2>1, <2>2, <2>3, FrontStep
    <2>5. obj[2] # 1 => obj[1] # cur
      BY <1>4, <2>1, CapAssumption DEF Found, Chunks
    <2>6. D \cup {cur} \in SUBSET Allocated
      BY <2>4 DEF Front
    <2>7. \E E \in SUBSET Allocated' :
             /\ Front(links', Allocated', home', E, list', cur')
             /\ obj'[2] # 1 => obj'[1] \notin E /\ (list' = FullHead => home'[obj'[1]] = FullHead)
      <3>1. obj[2] # 1 => obj[1] \notin D \cup {cur}
        BY <2>2, <2>5
      <3>2. Front(links', Allocated', home', D \cup {cur}, list', cur')
        BY <1>2, <2>1, <2>4
      <3> QED BY <1>2, <2>1, <2>2, <2>6, <3>1, <3>2
    <2> QED BY <1>1, <1>4, <2>1, <2>7 DEF FindState, LosesOnlyFirstChunks, home
  <1>6. CASE FindNextList
    <2>1. /\ pc = "find" /\ cur = NULL /\ list = PartialHead
          /\ list' = FullHead /\ cur' = links.next[FullHead] /\ UNCHANGED <<obj, lost>>
      BY <1>6 DEF FindNextList
    <2>2. PICK D \in SUBSET Allocated :
             /\ Front(links, Allocated, home, D, PartialHead, NULL)
             /\ obj[2] # 1 => obj[1] \notin D
      BY <1>4, <2>1
    <2>3. D = {s \in Allocated : home[s] = PartialHead}
      BY <1>1, <2>2, FrontEnd DEF home
    <2>4. obj[2] # 1 => home[obj[1]] = FullHead
      BY <1>4, <2>1, <2>2, <2>3
    <2>5. Front(links, Allocated, home, {}, FullHead, links.next[FullHead])
      BY <1>1, FrontBegin
    <2>6. \E E \in SUBSET Allocated' :
             /\ Front(links', Allocated', home', E, list', cur')
             /\ obj'[2] # 1 => obj'[1] \notin E /\ (list' = FullHead => home'[obj'[1]] = FullHead)
      BY <1>2, <1>a, <2>1, <2>4, <2>5
    <2> QED BY <1>1, <1>4, <2>1, <2>6 DEF FindState, LosesOnlyFirstChunks, home
  <1>7. CASE FindMiss
    <2>1. /\ pc = "find" /\ cur = NULL /\ list = FullHead /\ pc' = "idle"
          /\ lost' = lost \cup {obj}
      BY <1>7 DEF FindMiss
    <2>2. PICK D \in SUBSET Allocated :
             /\ Front(links, Allocated, home, D, FullHead, NULL)
             /\ obj[2] # 1 => obj[1] \notin D /\ home[obj[1]] = FullHead
      BY <1>4, <2>1
    <2>3. D = {s \in Allocated : home[s] = FullHead}
      BY <1>1, <2>2, FrontEnd DEF home
    <2>4. obj[2] = 1 /\ Aligned /\ obj \in Slabs \X {1}
      BY <1>1, <1>4, <2>1, <2>2, <2>3
    <2> QED BY <1>1, <2>1, <2>4 DEF FindState, LosesOnlyFirstChunks
  <1> QED BY <1>3, <1>5, <1>6, <1>7

\* The steps of slab_cache_destroy: each slab is released as it is passed.
LEMMA DestroySteps ==
    ASSUME LoopInv, slab_cache_destroy
    PROVE  DestroyState' /\ DestroyReleasesAll'
  <1> DEFINE home == HomeMap(numFree)
             Done(rel, D, L) == \A s \in Slabs : rel[s] =
                                   IF s \in D \/ (s \in Allocated /\ home[s] \in Earlier(L))
                                   THEN 1 ELSE 0
  <1>1. /\ IInv /\ Acyclic /\ DestroyState
        /\ Allocated \in SUBSET Slabs /\ WellLinked(links, Allocated, home)
        /\ \A h \in Heads : home[h] = h
        /\ list \in Heads /\ released \in [Slabs -> Nat]
    BY ListFacts DEF LoopInv, IInv, TypeOK
  <1>2. /\ home' = home /\ Allocated' = Allocated /\ links' = links
        /\ pc \in {"idle", "destroy"}
    BY DEF slab_cache_destroy, DestroyBegin, DestroySlab, DestroyNextList, DestroyEnd,
           Allocated, HomeMap, HomeIn
  <1>3. /\ FreeHead \in Heads /\ PartialHead \in Heads /\ FullHead \in Heads
        /\ Earlier(FreeHead) = {} /\ Earlier(PartialHead) = {FreeHead}
        /\ Earlier(FullHead) = {FreeHead, PartialHead}
        /\ Heads = {FreeHead, PartialHead, FullHead}
    BY DEF Heads, Earlier, FreeHead, PartialHead, FullHead
  <1>4. \A s \in Allocated : home[s] \in Heads
    BY <1>1, <1>3, ListFacts
  <1>5. {} \in SUBSET Allocated
    OBVIOUS
  <1>6. ASSUME pc = "destroy"
        PROVE  \E D \in SUBSET Allocated :
                  Front(links, Allocated, home, D, list, cur) /\ Done(released, D, list)
    BY <1>1, <1>6 DEF DestroyState
  <1>7. ASSUME NEW D \in SUBSET Allocated, pc' = "destroy",
               Front(links, Allocated, home, D, list', cur'), Done(released', D, list')
        PROVE  DestroyState' /\ DestroyReleasesAll'
    BY <1>2, <1>7 DEF DestroyState, DestroyReleasesAll
  <1>8. CASE DestroyBegin
    <2>1. /\ pc = "idle" /\ pc' = "destroy" /\ list' = FreeHead
          /\ cur' = links.next[FreeHead] /\ released' = released
      BY <1>8 DEF DestroyBegin
    <2>2. Front(links, Allocated, home, {}, FreeHead, links.next[FreeHead])
      <3> HIDE DEF home
      <3> QED BY <1>1, <1>3, FrontBegin
    <2>3. Done(released', {}, list')
      <3>1. \A s \in Slabs : released[s] = 0
        BY <1>1, <2>1 DEF DestroyState
      <3> HIDE DEF home
      <3> QED BY <1>2, <1>3, <2>1, <3>1
    <2> HIDE DEF home, Done
    <2> QED BY <1>5, <1>7, <2>1, <2>2, <2>3
  <1>9. CASE DestroySlab
    <2>1. /\ pc = "destroy" /\ pc' = "destroy" /\ cur # NULL /\ list' = list
          /\ released' = [released EXCEPT ![cur] = released[cur] + 1]
          /\ cur' = links.next[cur]
      BY <1>9 DEF DestroySlab
    <2>2. PICK D \in SUBSET Allocated :
             Front(links, Allocated, home, D, list, cur) /\ Done(released, D, list)
      BY <1>6, <2>1
    <2>3. Front(links, Allocated, home, D \cup {cur}, list, links.next[cur])
      <3> HIDE DEF home
      <3> QED BY <1>1, <2>1, <2>2, FrontStep
    <2>4. cur \in Allocated /\ cur \notin D /\ home[cur] = list /\ D \cup {cur} \in SUBSET Allocated
      BY <2>1, <2>2, <2>3 DEF Front
    <2>5. list \notin Earlier(list)
      BY <1>1 DEF Earlier, Heads, FreeHead, PartialHead, FullHead
    <2>6. released[cur] = 0 /\ cur \in Slabs
      <3> HIDE DEF home
      <3> QED BY <1>1, <2>2, <2>4, <2>5
    <2>7. Done(released', D \cup {cur}, list')
      <3> HIDE DEF home
      <3>1. \A s \in Slabs : released'[s] = IF s = cur THEN 1 ELSE released[s]
        BY <1>1, <2>1, <2>6
      <3>2. \A s \in Slabs : released'[s] =
               IF s \in D \cup {cur} \/ (s \in Allocated /\ home[s] \in Earlier(list)) THEN 1 ELSE 0
        BY <2>2, <3>1
      <3> QED BY <1>2, <2>1, <3>2
    <2> HIDE DEF home, Done
    <2> QED BY <1>7, <2>1, <2>3, <2>4, <2>7
  <1>10. ASSUME pc = "destroy", cur = NULL
         PROVE  \A s \in Slabs : released[s] =
                   IF s \in Allocated /\ home[s] \in Earlier(list) \cup {list} THEN 1 ELSE 0
    <2>1. PICK D \in SUBSET Allocated :
             Front(links, Allocated, home, D, list, NULL) /\ Done(released, D, list)
      BY <1>6, <1>10
    <2>2. D = {s \in Allocated : home[s] = list}
      BY <1>1, <2>1, FrontEnd
    <2> HIDE DEF home
    <2> QED BY <2>1, <2>2
  <1>11. CASE DestroyNextList
    <2>1. /\ pc = "destroy" /\ pc' = "destroy" /\ cur = NULL /\ list # FullHead
          /\ list' = IF list = FreeHead THEN PartialHead ELSE FullHead
          /\ cur' = links.next[list'] /\ released' = released
      BY <1>11 DEF DestroyNextList
    <2>2. list' \in Heads /\ Earlier(list') = Earlier(list) \cup {list}
      BY <1>1, <1>3, <2>1
    <2>3. Front(links, Allocated, home, {}, list', links.next[list'])
      <3> HIDE DEF home
      <3> QED BY <1>1, <2>2, FrontBegin
    <2>4. Done(released', {}, list')
      <3>1. \A s \in Slabs : released[s] =
               IF s \in {} \/ (s \in Allocated /\ home[s] \in Earlier(list')) THEN 1 ELSE 0
        BY <1>10, <2>1, <2>2
      <3> HIDE DEF home
      <3> QED BY <1>2, <2>1, <3>1
    <2> HIDE DEF home, Done
    <2> QED BY <1>5, <1>7, <2>1, <2>3, <2>4
  <1>12. CASE DestroyEnd
    <2>1. /\ pc = "destroy" /\ pc' = "destroyed" /\ cur = NULL /\ list = FullHead
          /\ released' = released
      BY <1>12 DEF DestroyEnd
    <2>2. Earlier(list) \cup {list} = Heads
      BY <1>3, <2>1
    <2>3. \A s \in Slabs : released[s] = IF s \in Allocated THEN 1 ELSE 0
      BY <1>4, <1>10, <2>1, <2>2
    <2> QED BY <1>2, <2>1, <2>3 DEF DestroyState, DestroyReleasesAll
  <1> QED BY <1>8, <1>9, <1>11, <1>12 DEF slab_cache_destroy

\* Every step keeps what the loops have established.
LEMMA NextLoopInv == LoopInv /\ [Next]_vars => LoopInv'
  <1> SUFFICES ASSUME LoopInv, [Next]_vars PROVE LoopInv'
    OBVIOUS
  <1>1. IInv' /\ Acyclic'
    BY NextIInv, NextAcyclic DEF LoopInv
  <1>2. CASE slab_alloc_from_cache
    <2>1. pc = "idle" /\ pc' = "idle" /\ released' = released /\ lost' = lost
      BY <1>2 DEF slab_alloc_from_cache, AllocFromPartial, AllocFromFree, AllocFromNewSlab
    <2> QED BY <1>1, <2>1 DEF LoopInv, FindState, DestroyState, DestroyReleasesAll, LosesOnlyFirstChunks
  <1>3. ASSUME NEW s, NEW c, GiveBack(s, c), pc \in {"idle", "find"},
               UNCHANGED <<nslabs, released, lost>>
        PROVE  LoopInv'
    <2>1. pc' \in {"idle", "walk"}
      BY <1>3 DEF GiveBack
    <2> QED BY <1>1, <1>3, <2>1 DEF LoopInv, FindState, DestroyState, DestroyReleasesAll, LosesOnlyFirstChunks
  <1>4. ASSUME NEW s \in Slabs, NEW c \in Chunks, FreeDirect(s, c)
        PROVE  LoopInv'
    BY <1>3, <1>4 DEF FreeDirect
  <1>5. CASE FindHit
    BY <1>3, <1>5 DEF FindHit
  <1>6. CASE FreeWalk \/ FreeLink
    <2>1. /\ pc = "walk" /\ pc' \in {"walk", "idle"} /\ UNCHANGED <<released, lost>>
      BY <1>6 DEF FreeWalk, FreeLink
    <2> QED BY <1>1, <2>1 DEF LoopInv, FindState, DestroyState, DestroyReleasesAll, LosesOnlyFirstChunks
  <1>7. CASE \/ \E s \in Slabs, c \in Chunks : FreeSeek(s, c)
             \/ FindNextSlab \/ FindNextList \/ FindMiss
    <2>1. FindState' /\ LosesOnlyFirstChunks'
      BY <1>7, FindSteps
    <2>2. pc \in {"idle", "find"} /\ pc' \in {"idle", "find"} /\ released' = released
      BY <1>7 DEF FreeSeek, FindNextSlab, FindNextList, FindMiss
    <2> QED BY <1>1, <2>1, <2>2 DEF LoopInv, DestroyState, DestroyReleasesAll
  <1>8. CASE slab_cache_destroy
    <2>1. DestroyState' /\ DestroyReleasesAll'
      BY <1>8, DestroySteps
    <2>2. pc' \in {"destroy", "destroyed"} /\ lost' = lost
      BY <1>8 DEF slab_cache_destroy, DestroyBegin, DestroySlab, DestroyNextList, DestroyEnd
    <2> QED BY <1>1, <2>1, <2>2 DEF LoopInv, FindState, LosesOnlyFirstChunks
  <1>9. CASE UNCHANGED vars
    BY <1>1, <1>9 DEF LoopInv, FindState, DestroyState, DestroyReleasesAll, LosesOnlyFirstChunks,
                      vars, Allocated, HomeMap, HomeIn, Front
  <1> QED BY <1>2, <1>4, <1>5, <1>6, <1>7, <1>8, <1>9 DEF Next, slab_free

\* A cache just created has released and lost nothing.
LEMMA InitLoopInv == Init => LoopInv
  BY InitIInv, InitAcyclic
     DEF Init, LoopInv, FindState, DestroyState, DestroyReleasesAll, LosesOnlyFirstChunks

\* The loops over the slab lists see every slab of a list, each once.
THEOREM LoopInvariance == Spec => []LoopInv
  BY InitLoopInv, NextLoopInv, PTL DEF Spec

\* slab_cache_destroy returns every slab to the heap exactly once, however
\* the lists came to be.
THEOREM DestroyComplete == Spec => []DestroyReleasesAll
  <1>1. LoopInv => DestroyReleasesAll
    BY DEF LoopInv
  <1> QED BY <1>1, LoopInvariance, PTL

\* slab_free gives back every object it is called with, except that with
\* alignment it never finds the header of a slab's first chunk.
THEOREM FreeFindsTheRest == Spec => []LosesOnlyFirstChunks
  <1>1. LoopInv => LosesOnlyFirstChunks
    BY DEF LoopInv
  <1> QED BY <1>1, LoopInvariance, PTL

----------------------------------------------------------------------------
\* The cache implements an object pool.

\* Counted, for the counts nf of n slabs.
CountedIn(nf, n) == {x \in (1 .. n) \X Chunks : x[2] <= Cap - nf[x[1]]}

\* The pairs are finitely many.
LEMMA CountedFinite ==
    ASSUME NEW nf, NEW n \in Nat
    PROVE  IsFiniteSet(CountedIn(nf, n)) /\ Cardinality(CountedIn(nf, n)) \in Nat
  <1>1. IsFiniteSet((1 .. n) \X Chunks)
    <2>1. IsFiniteSet(1 .. n) /\ IsFiniteSet(Chunks)
      BY FS_Interval, CapAssumption DEF Chunks
    <2> QED BY <2>1, FS_Product
  <1>2. IsFiniteSet(CountedIn(nf, n))
    BY <1>1, FS_Subset DEF CountedIn
  <1> QED BY <1>2, FS_CardinalityType

\* Counting a chunk of slab s as taken adds one pair.
LEMMA CountTaken ==
    ASSUME NEW n \in Slabs, NEW nf \in [Slabs -> 0 .. Cap], NEW s \in 1 .. n, nf[s] \in 1 .. Cap
    PROVE  Cardinality(CountedIn([nf EXCEPT ![s] = nf[s] - 1], n)) = Cardinality(CountedIn(nf, n)) + 1
  <1> DEFINE new == [nf EXCEPT ![s] = nf[s] - 1]
             x == <<s, Cap - nf[s] + 1>>
  <1>1. s \in Slabs /\ Cap - nf[s] + 1 \in Chunks /\ n \in Nat /\ 1 .. n \subseteq Slabs
    BY CapAssumption, MaxSlabsAssumption DEF Slabs, Chunks
  <1>2. new[s] = nf[s] - 1 /\ \A t \in 1 .. n : t # s => new[t] = nf[t]
    BY <1>1
  <1>3. x \in (1 .. n) \X Chunks /\ x[1] = s /\ x[2] = Cap - nf[s] + 1
    BY <1>1
  <1> HIDE DEF new, x
  <1>4. ASSUME NEW t \in 1 .. n, NEW c \in Chunks
        PROVE  <<t, c>> \in CountedIn(new, n) <=> <<t, c>> \in CountedIn(nf, n) \/ <<t, c>> = x
    <2>1. c \in Int /\ nf[t] \in Int /\ nf[s] \in Int
      BY <1>1 DEF Chunks
    <2>2. CASE t = s
      <3>1. <<t, c>> = x <=> c = Cap - nf[s] + 1
        BY <2>2 DEF x
      <3>2. c <= Cap - new[s] <=> c <= Cap - nf[s] \/ c = Cap - nf[s] + 1
        BY <1>2, <2>1, CapAssumption
      <3> QED BY <2>2, <3>1, <3>2 DEF CountedIn
    <2>3. CASE t # s
      <3>1. <<t, c>> # x /\ new[t] = nf[t]
        BY <1>2, <2>3 DEF x
      <3> QED BY <3>1 DEF CountedIn
    <2> QED BY <2>2, <2>3
  <1>5. CountedIn(new, n) = CountedIn(nf, n) \cup {x}
    <2>1. CountedIn(new, n) \subseteq (1 .. n) \X Chunks /\ CountedIn(nf, n) \subseteq (1 .. n) \X Chunks
      BY DEF CountedIn
    <2>2. \A y \in (1 .. n) \X Chunks : y = <<y[1], y[2]>> /\ y[1] \in 1 .. n /\ y[2] \in Chunks
      OBVIOUS
    <2>3. \A y \in (1 .. n) \X Chunks : y \in CountedIn(new, n) <=> y \in CountedIn(nf, n) \/ y = x
      BY <1>4, <2>2
    <2> QED BY <1>3, <2>1, <2>3
  <1>6. x \notin CountedIn(nf, n)
    <2>1. ~(Cap - nf[s] + 1 <= Cap - nf[s])
      BY <1>1, CapAssumption
    <2> QED BY <1>3, <2>1 DEF CountedIn
  <1>7. Cardinality(CountedIn(nf, n) \cup {x}) = Cardinality(CountedIn(nf, n)) + 1
    BY <1>1, <1>6, CountedFinite, FS_AddElement
  <1> QED BY <1>5, <1>7 DEF new

\* Counting a chunk of slab s as free removes one.
LEMMA CountGiven ==
    ASSUME NEW n \in Slabs, NEW nf \in [Slabs -> 0 .. Cap], NEW s \in 1 .. n, nf[s] \in 0 .. Cap - 1
    PROVE  Cardinality(CountedIn([nf EXCEPT ![s] = nf[s] + 1], n)) = Cardinality(CountedIn(nf, n)) - 1
  <1> DEFINE new == [nf EXCEPT ![s] = nf[s] + 1]
  <1>1. s \in Slabs /\ n \in Nat
    BY MaxSlabsAssumption DEF Slabs
  <1>2. /\ new \in [Slabs -> 0 .. Cap] /\ new[s] \in 1 .. Cap
        /\ nf = [new EXCEPT ![s] = new[s] - 1]
    <2>1. nf[s] + 1 \in 1 .. Cap /\ (nf[s] + 1) - 1 = nf[s]
      BY CapAssumption
    <2>2. new \in [Slabs -> 0 .. Cap] /\ new[s] = nf[s] + 1
      BY <1>1, <2>1
    <2>3. [new EXCEPT ![s] = nf[s]] = nf
      BY <1>1
    <2> HIDE DEF new
    <2> QED BY <2>1, <2>2, <2>3
  <1> HIDE DEF new
  <1>3. Cardinality(CountedIn(nf, n)) = Cardinality(CountedIn(new, n)) + 1
    BY <1>2, CountTaken
  <1>4. Cardinality(CountedIn(new, n)) \in Nat
    BY <1>1, CountedFinite
  <1>5. Cardinality(CountedIn(new, n)) = Cardinality(CountedIn(nf, n)) - 1
    BY <1>3, <1>4
  <1> QED BY <1>5 DEF new

\* A new slab adds none.
LEMMA CountNew ==
    ASSUME NEW n \in Slabs, NEW nf \in [Slabs -> 0 .. Cap], n < MaxSlabs
    PROVE  CountedIn([nf EXCEPT ![n + 1] = Cap], n + 1) = CountedIn(nf, n)
  <1> DEFINE new == [nf EXCEPT ![n + 1] = Cap]
  <1>1. /\ 1 .. (n + 1) = (1 .. n) \cup {n + 1} /\ n + 1 \in Slabs /\ n + 1 \notin 1 .. n
        /\ 1 .. n \subseteq Slabs
    BY MaxSlabsAssumption DEF Slabs
  <1>2. new[n + 1] = Cap /\ \A t \in 1 .. n : new[t] = nf[t]
    BY <1>1
  <1>3. \A c \in Chunks : ~(c <= Cap - Cap)
    BY CapAssumption DEF Chunks
  <1> HIDE DEF new
  <1>4. CountedIn(new, n + 1) = CountedIn(nf, n)
    BY <1>1, <1>2, <1>3 DEF CountedIn
  <1> QED BY <1>4 DEF new

\* slab_alloc_from_cache is a Get of the pool.
LEMMA AllocGets ==
    ASSUME IInv, slab_alloc_from_cache
    PROVE  Pool!Get
  <1>1. /\ pc = "idle" /\ pc' = "idle" /\ lost' = lost /\ Pending = {}
    BY DEF slab_alloc_from_cache, AllocFromPartial, AllocFromFree, AllocFromNewSlab, Pending
  <1>2. PICK t \in Slabs, c \in Chunks : <<t, c>> \notin live \cup lost /\ live' = live \cup {<<t, c>>}
    BY AllocStep
  <1>3. CacheOK(links, numFree, nextFree, nslabs, Held, {}) /\ nslabs \in Slabs
        /\ numFree \in [Slabs -> 0 .. Cap]
    BY <1>1, Shape DEF GoodCache, CacheOK
  <1> DEFINE CountsUp ==
                Cardinality(CountedIn(numFree', nslabs')) = Cardinality(CountedIn(numFree, nslabs)) + 1
  <1>4. ASSUME NEW l, NEW nf, NEW chain, NEW n, NEW s, TakeChunk(s, l, nf, chain),
               CacheOK(l, nf, chain, n, Held, {}), s # NULL,
               s = l.next[PartialHead] \/ s = l.next[FreeHead], nslabs' = n,
               CountedIn(nf, n) = CountedIn(numFree, nslabs)
        PROVE  CountsUp
    <2>1. s \in 1 .. n /\ nf[s] \in 1 .. Cap
      BY <1>4, FirstSlab
    <2>a. n \in Slabs /\ nf \in [Slabs -> 0 .. Cap]
      BY <1>4 DEF CacheOK
    <2>2. numFree' = [nf EXCEPT ![s] = nf[s] - 1]
      BY <1>4 DEF TakeChunk
    <2>3. Cardinality(CountedIn([nf EXCEPT ![s] = nf[s] - 1], n)) = Cardinality(CountedIn(nf, n)) + 1
      BY <2>1, <2>a, CountTaken
    <2>4. Cardinality(CountedIn(numFree', nslabs')) = Cardinality(CountedIn(numFree, nslabs)) + 1
      BY <1>4, <2>2, <2>3
    <2> QED BY <2>4
  <1> HIDE DEF CountsUp
  <1>5. ASSUME AllocFromPartial PROVE CountsUp
    <2> DEFINE s == links.next[PartialHead]
    <2>1. s # NULL /\ TakeChunk(s, links, numFree, nextFree) /\ nslabs' = nslabs
      BY <1>5 DEF AllocFromPartial
    <2>2. s = links.next[PartialHead]
      OBVIOUS
    <2> HIDE DEF s
    <2> QED BY <1>3, <1>4, <2>1, <2>2
  <1>6. ASSUME AllocFromFree PROVE CountsUp
    <2> DEFINE s == links.next[FreeHead]
    <2>1. s # NULL /\ TakeChunk(s, links, numFree, nextFree) /\ nslabs' = nslabs
      BY <1>6 DEF AllocFromFree
    <2>2. s = links.next[FreeHead]
      OBVIOUS
    <2> HIDE DEF s
    <2> QED BY <1>3, <1>4, <2>1, <2>2
  <1>7. ASSUME AllocFromNewSlab PROVE CountsUp
    <2> DEFINE s == nslabs + 1
               l == slab_insert_in_cache(links, FreeHead, s)
               nf == [numFree EXCEPT ![s] = Cap]
               chain == [nextFree EXCEPT ![s] = NewChain]
    <2>1. nslabs < MaxSlabs /\ TakeChunk(s, l, nf, chain) /\ nslabs' = s
      BY <1>7 DEF AllocFromNewSlab
    <2>2. CacheOK(l, nf, chain, s, Held, {}) /\ l.next[FreeHead] = s
      BY <1>3, <2>1, NewSlab
    <2>3. s # NULL
      BY <1>3, MaxSlabsAssumption DEF NULL, Slabs
    <2>4. CountedIn(nf, s) = CountedIn(numFree, nslabs)
      BY <1>3, <2>1, CountNew
    <2> HIDE DEF s, l, nf, chain
    <2> QED BY <1>4, <2>1, <2>2, <2>3, <2>4
  <1>8. Cardinality(Counted)' = Cardinality(Counted) + 1
    <2>1. CountsUp
      BY <1>5, <1>6, <1>7 DEF slab_alloc_from_cache
    <2> QED BY <2>1 DEF CountsUp, CountedIn, Counted, Allocated
  <1>9. \E o \in (Slabs \X Chunks) \ (live \cup lost) : live' = live \cup {o}
    BY <1>2
  <1> QED BY <1>1, <1>8, <1>9 DEF Pool!Get

\* slab_free, once it has the chunk, is a Put.
LEMMA GivePuts ==
    ASSUME IInv, pc \in {"idle", "find"}, NEW s, NEW c, <<s, c>> \in live,
           GiveBack(s, c), UNCHANGED <<nslabs, lost>>
    PROVE  Pool!Put
  <1>1. GoodCache /\ CallTypes /\ CallState
    BY Shape
  <1>2. s \in Allocated /\ c \in Chunks
    BY <1>1 DEF CallState
  <1>3. nslabs \in Slabs /\ numFree \in [Slabs -> 0 .. Cap] /\ s \in 1 .. nslabs
    BY <1>1, <1>2 DEF GoodCache, CacheOK, Allocated
  <1>4. numFree[s] \in 0 .. Cap - 1
    <2>1. c \in UsedChunks(s)
      BY <1>2 DEF UsedChunks
    <2>2. /\ numFree[s] = Cap - Cardinality(UsedChunks(s)) /\ numFree[s] \in 0 .. Cap
          /\ UsedChunks(s) \in SUBSET Chunks /\ UsedChunks(s) \ {c} \in SUBSET Chunks
      BY <1>2, ListFacts
    <2>3. /\ Cardinality(UsedChunks(s)) \in 0 .. Cap
          /\ Cardinality(UsedChunks(s) \ {c}) \in 0 .. Cap
          /\ Cardinality(UsedChunks(s) \ {c}) = Cardinality(UsedChunks(s)) - 1
      BY <2>1, <2>2, CountChunks
    <2> QED BY <2>2, <2>3, CapAssumption
  <1>5. /\ numFree' = [numFree EXCEPT ![s] = numFree[s] + 1]
        /\ live' = live \ {<<s, c>>}
        /\ pc' \in {"idle", "walk"}
    BY DEF GiveBack
  <1>6. Cardinality(Counted)' = Cardinality(Counted) - 1
    <2>1. Cardinality(CountedIn(numFree', nslabs')) = Cardinality(CountedIn(numFree, nslabs)) - 1
      BY <1>3, <1>4, <1>5, CountGiven
    <2> QED BY <2>1 DEF CountedIn, Counted, Allocated
  <1>7. \E o \in live : live' = live \ {o}
    BY <1>5
  <1> QED BY <1>5, <1>6, <1>7 DEF Pool!Put

\* Every step of the cache is a step of the pool or leaves the pool as it is.
LEMMA StepRefines == IInv /\ [Next]_vars => [Pool!Next]_(Pool!vars)
  <1> SUFFICES ASSUME IInv, [Next]_vars PROVE Pool!Next \/ UNCHANGED Pool!vars
    OBVIOUS
  <1>1. CASE slab_alloc_from_cache
    BY <1>1, AllocGets DEF Pool!Next
  <1>2. ASSUME NEW s \in Slabs, NEW c \in Chunks, FreeDirect(s, c)
        PROVE  Pool!Next
    BY <1>2, GivePuts DEF FreeDirect, Pool!Next
  <1>3. CASE FindHit
    <2>1. obj \in live /\ obj = <<obj[1], obj[2]>>
      BY <1>3 DEF IInv, CallState, TypeOK, FindHit
    <2> QED BY <1>3, <2>1, GivePuts DEF FindHit, Pool!Next
  <1>4. ASSUME UNCHANGED <<numFree, nslabs>>
        PROVE  Cardinality(Counted)' = Cardinality(Counted)
    BY <1>4 DEF Counted, Allocated
  <1>5. CASE FindMiss
    <2>1. /\ pc = "find" /\ pc' = "idle" /\ obj \in live
          /\ live' = live \ {obj} /\ lost' = lost \cup {obj}
          /\ UNCHANGED <<numFree, nslabs>>
      BY <1>5 DEF IInv, CallState, FindMiss
    <2> QED BY <1>4, <2>1 DEF Pool!Lose, Pool!Next
  <1>6. CASE DestroyBegin
    <2>1. /\ pc = "idle" /\ pc' = "destroy" /\ UNCHANGED <<numFree, nslabs, live, lost>>
      BY <1>6 DEF DestroyBegin
    <2> QED BY <1>4, <2>1 DEF Pool!Close, Pool!Next
  <1>7. ASSUME \/ \E s \in Slabs, c \in Chunks : FreeSeek(s, c)
               \/ FindNextSlab \/ FindNextList \/ FreeWalk \/ FreeLink
               \/ DestroySlab \/ DestroyNextList \/ DestroyEnd \/ UNCHANGED vars
        PROVE  UNCHANGED Pool!vars
    <2>1. /\ UNCHANGED <<numFree, nslabs, live, lost>>
          /\ pc' \in {"destroy", "destroyed"} <=> pc \in {"destroy", "destroyed"}
      BY <1>7 DEF FreeSeek, FindNextSlab, FindNextList, FreeWalk, FreeLink, DestroySlab,
                  DestroyNextList, DestroyEnd, vars
    <2> QED BY <1>4, <2>1 DEF Pool!vars
  <1> QED BY <1>1, <1>2, <1>3, <1>5, <1>6, <1>7 DEF Next, slab_free, slab_cache_destroy

\* A new cache is an empty pool.
LEMMA InitRefines == Init => Pool!Init
  <1> SUFFICES ASSUME Init PROVE Pool!Init
    OBVIOUS
  <1>1. Allocated = {1} /\ 1 \in Slabs /\ numFree[1] = Cap
    BY MaxSlabsAssumption DEF Init, Allocated, Slabs
  <1>2. \A c \in Chunks : ~(c <= Cap - Cap)
    BY CapAssumption DEF Chunks
  <1>3. Counted = {}
    BY <1>1, <1>2 DEF Counted
  <1>4. Cardinality(Counted) = 0
    BY <1>3, FS_EmptySet
  <1> QED BY <1>4 DEF Init, Pool!Init

\* The cache implements an object pool: no object is handed out twice or
\* taken back twice, and the counts of the slabs follow the calls.
THEOREM PoolRefined == Spec => ImplementsPool
  BY InitRefines, StepRefines, Invariance, PTL DEF Spec, ImplementsPool, Pool!Spec

=============================================================================
