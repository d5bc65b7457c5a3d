-------------------------- MODULE DeepMemoryProofs --------------------------
(***************************************************************************)
(* DeepMemory, proved for every capacity, every number of events, and      *)
(* whatever the encoder finds alike: no store exceeds its capacity, a      *)
(* handle leads to the record it was given to, and what was promoted stays *)
(* known.                                                                  *)
(***************************************************************************)
EXTENDS DeepMemory, WellFoundedInduction, SequenceTheorems, TLAPS

(***************************************************************************)
(* The inductive invariant.  Ids of episodes, and so of sources, are in    *)
(* the past: the handle of a new episode is nobody else's.  What this      *)
(* consolidation has promoted is kept already before it is reported.       *)
(***************************************************************************)
IdsPast ==
    /\ \A i \in DOMAIN episodes : episodes[i].id < nextEvent
    /\ \A f \in DOMAIN facts : facts[f].sources \subseteq 0..nextEvent - 1

MemoryInv ==
    /\ MemoryTypeOK /\ IdsPast
    /\ pc = "ready" => queue = {}
    /\ HandlesSound
    /\ SourcesKept(reported) /\ SourcesKept(promoted) /\ SourcesAlike /\ FactsApart

Value == Contents \cup Key \cup Triggers \cup {Elsewhere}

-----------------------------------------------------------------------------
(***************************************************************************)
(* The operators of the model.                                             *)
(***************************************************************************)

\* The least element of a nonempty set of natural numbers.
LEMMA LeastPlace ==
    ASSUME NEW S \in SUBSET Nat, S # {}
    PROVE  Min(S) \in S
<1> DEFINE Below == {p \in Nat \X Nat : p[1] < p[2]}
<1>1. IsWellFoundedOn(Below, Nat)
  BY NatLessThanWellFounded DEF OpToRel
<1>2. \E n \in S : \A m \in S : ~(<<m, n>> \in Below)
  <2> HIDE DEF Below
  <2> QED
    BY <1>1, WFMin
<1>3. PICK n \in S : \A m \in S : ~(<<m, n>> \in Below)
  BY <1>2
<1>4. ASSUME NEW m \in S, m < n
      PROVE  FALSE
  <2>1. <<m, n>> \in Below
    BY <1>4
  <2> QED
    BY <1>3, <2>1
<1>5. \A m \in S : n <= m
  BY <1>4
<1> QED
  BY <1>5 DEF Min

\* An eviction takes one episode and keeps the others.
LEMMA RemoveAtFacts ==
    ASSUME NEW S, NEW s \in Seq(S), NEW i \in DOMAIN s
    PROVE  /\ RemoveAt(s, i) \in Seq(S)
           /\ Len(RemoveAt(s, i)) = Len(s) - 1
           /\ \A j \in DOMAIN RemoveAt(s, i) :
                 \E k \in DOMAIN s : RemoveAt(s, i)[j] = s[k]
<1> DEFINE front == SubSeq(s, 1, i - 1)
           back == SubSeq(s, i + 1, Len(s))
<1>1. i \in 1 .. Len(s) /\ Len(s) \in Nat
  OBVIOUS
<1>2. /\ front \in Seq(S) /\ Len(front) = i - 1
      /\ \A k \in 1 .. i - 1 : front[k] = s[k]
  BY <1>1
<1>3. /\ back \in Seq(S) /\ Len(back) = Len(s) - i
      /\ \A k \in 1 .. Len(s) - i : back[k] = s[i + k]
  BY <1>1
<1> HIDE DEF front, back
<1> DEFINE all == front \o back
<1>4. /\ all \in Seq(S) /\ Len(all) = Len(s) - 1
      /\ \A j \in 1 .. Len(s) - 1 :
            all[j] = IF j <= i - 1 THEN front[j] ELSE back[j - (i - 1)]
  <2>1. Len(front) + Len(back) = Len(s) - 1
    BY <1>1, <1>2, <1>3
  <2>2. front \in Seq(S) /\ back \in Seq(S)
    BY <1>2, <1>3
  <2>3. /\ all \in Seq(S) /\ Len(all) = Len(front) + Len(back)
        /\ \A j \in 1 .. Len(front) + Len(back) :
              all[j] = IF j <= Len(front) THEN front[j] ELSE back[j - Len(front)]
    BY <2>2, ConcatProperties, Zenon
  <2> HIDE DEF all
  <2> QED
    BY <1>2, <2>1, <2>3
<1> HIDE DEF all
<1>5. ASSUME NEW j \in 1 .. Len(s) - 1
      PROVE  \E k \in DOMAIN s : all[j] = s[k]
  <2>1. CASE j <= i - 1
    BY <1>1, <1>2, <1>4, <2>1
  <2>2. CASE ~(j <= i - 1)
    <3>1. j - (i - 1) \in 1 .. Len(s) - i /\ i + (j - (i - 1)) = j + 1
      BY <1>1, <2>2
    <3>2. all[j] = s[j + 1]
      BY <1>3, <1>4, <2>2, <3>1
    <3>3. j + 1 \in DOMAIN s
      BY <1>1
    <3> QED
      BY <3>2, <3>3
  <2> QED
    BY <2>1, <2>2
<1>6. DOMAIN all = 1 .. Len(s) - 1
  BY <1>1, <1>4
<1> QED
  BY <1>4, <1>5, <1>6 DEF RemoveAt, front, back, all

\* What is left when there is room for one more episode.
LEMMA RemainingFacts ==
    ASSUME MemoryTypeOK, NEW rest \in Remaining
    PROVE  /\ rest \in Seq(Event) /\ Len(rest) < EpisodicCap
           /\ \A j \in DOMAIN rest : \E k \in DOMAIN episodes : rest[j] = episodes[k]
<1>1. CASE Len(episodes) < EpisodicCap
  BY <1>1 DEF MemoryTypeOK, Remaining
<1>2. CASE ~(Len(episodes) < EpisodicCap)
  <2>1. PICK i \in LeastRehearsed : rest = RemoveAt(episodes, i)
    BY <1>2 DEF Remaining
  <2>2. i \in DOMAIN episodes /\ episodes \in Seq(Event)
    BY <2>1 DEF LeastRehearsed, MemoryTypeOK
  <2>3. Len(episodes) <= EpisodicCap /\ Len(episodes) \in Nat /\ EpisodicCap \in Nat
    BY <2>2, MemoryAssumption DEF MemoryTypeOK
  <2> QED
    BY <2>1, <2>2, <2>3, RemoveAtFacts
<1> QED
  BY <1>1, <1>2

\* A fact that is found is alike; if none is found, none is.
LEMMA ExistingFacts ==
    ASSUME NEW key
    PROVE  IF Existing(key) = 0
           THEN \A f \in 1 .. Len(facts) : <<facts[f].key, key>> \notin Alike
           ELSE /\ Existing(key) \in 1 .. Len(facts)
                /\ <<facts[Existing(key)].key, key>> \in Alike
<1> DEFINE I == {i \in 1 .. Len(facts) : <<facts[i].key, key>> \in Alike}
<1>1. Existing(key) = IF I # {} THEN Min(I) ELSE 0
  BY DEF Existing, SelectInSeq
<1>2. I \in SUBSET Nat /\ 0 \notin I
  OBVIOUS
<1>3. I # {} => Min(I) \in I
  BY <1>2, LeastPlace
<1> HIDE DEF I
<1>4. IF Existing(key) = 0 THEN I = {} ELSE Existing(key) \in I
  BY <1>1, <1>2, <1>3
<1> QED
  BY <1>4 DEF I

\* The facts after a promotion or an assertion: all have their keys and keep
\* their sources, and one, alike to the key, has these sources as well.
Merged(new, key, sources) ==
    /\ new \in Seq(Fact) /\ Len(facts) <= Len(new) /\ Len(new) <= SemanticCap
    /\ FactId(key) \in DOMAIN new
    /\ DOMAIN new = DOMAIN facts \cup {FactId(key)}
    /\ \A f \in DOMAIN facts :
          new[f].key = facts[f].key /\ facts[f].sources \subseteq new[f].sources
    /\ \A f \in DOMAIN facts : f # FactId(key) => new[f] = facts[f]
    /\ <<new[FactId(key)].key, key>> \in Alike
    /\ sources \subseteq new[FactId(key)].sources
    /\ \A id \in new[FactId(key)].sources :
          id \in sources \/ (FactId(key) \in DOMAIN facts /\ id \in facts[FactId(key)].sources)
    /\ FactsApart =>
          \A f, g \in DOMAIN new : f # g => <<new[f].key, new[g].key>> \notin Alike

\* Asserting is merging.
LEMMA AssertedFacts ==
    ASSUME MemoryTypeOK, ~SemanticFull, NEW key \in Key,
           NEW sources \in SUBSET (0 .. MaxEvents - 1)
    PROVE  Merged(Asserted(key, sources), key, sources)
<1> DEFINE new == Asserted(key, sources)
<1>1. /\ facts \in Seq(Fact) /\ Len(facts) \in Nat /\ DOMAIN facts = 1 .. Len(facts)
      /\ SemanticCap \in Nat /\ Len(facts) < SemanticCap
  BY MemoryAssumption DEF MemoryTypeOK, SemanticFull
<1>2. <<key, key>> \in Alike
  BY MemoryAssumption
<1>3. CASE Existing(key) = 0
  <2> DEFINE fact == [key |-> key, sources |-> sources]
  <2>1. fact \in Fact /\ fact.key = key /\ fact.sources = sources
    BY DEF Fact
  <2>2. new = Append(facts, fact) /\ FactId(key) = Len(facts) + 1
    BY <1>3 DEF Asserted, FactId
  <2> HIDE DEF fact, new
  <2>3. /\ new \in Seq(Fact) /\ Len(new) = Len(facts) + 1
        /\ new[Len(facts) + 1] = fact
        /\ \A f \in 1 .. Len(facts) : new[f] = facts[f]
        /\ DOMAIN new = 1 .. Len(facts) + 1
    BY <1>1, <2>1, <2>2
  <2>4. ASSUME NEW f \in 1 .. Len(facts)
        PROVE  <<facts[f].key, key>> \notin Alike /\ <<key, facts[f].key>> \notin Alike
    <3>1. facts[f] \in Fact
      BY <1>1
    <3>2. facts[f].key \in Key /\ <<facts[f].key, key>> \notin Alike
      BY <1>3, <3>1, ExistingFacts DEF Fact
    <3> QED
      BY <3>2, MemoryAssumption
  <2>5. ASSUME FactsApart, NEW f \in DOMAIN new, NEW g \in DOMAIN new, f # g
        PROVE  <<new[f].key, new[g].key>> \notin Alike
    <3>1. CASE f \in DOMAIN facts /\ g \in DOMAIN facts
      BY <1>1, <2>3, <2>5, <3>1 DEF FactsApart
    <3>2. CASE f \in DOMAIN facts /\ g = Len(facts) + 1
      BY <1>1, <2>1, <2>3, <2>4, <3>2
    <3>3. CASE f = Len(facts) + 1 /\ g \in DOMAIN facts
      BY <1>1, <2>1, <2>3, <2>4, <3>3
    <3> QED
      BY <1>1, <2>3, <2>5, <3>1, <3>2, <3>3
  <2>6. Merged(new, key, sources)
    <3>1. /\ Len(facts) <= Len(new) /\ Len(new) <= SemanticCap
          /\ FactId(key) \in DOMAIN new /\ DOMAIN new = DOMAIN facts \cup {FactId(key)}
          /\ FactId(key) \notin DOMAIN facts
      BY <1>1, <2>2, <2>3
    <3>2. new[FactId(key)] = fact
      BY <2>2, <2>3
    <3>3. \A f \in DOMAIN facts : new[f] = facts[f]
      BY <1>1, <2>3
    <3> QED
      BY <1>2, <2>1, <2>3, <2>5, <3>1, <3>2, <3>3 DEF Merged
  <2> QED
    BY <2>6 DEF new
<1>4. CASE Existing(key) # 0
  <2> DEFINE e == Existing(key)
  <2>1. e \in DOMAIN facts /\ <<facts[e].key, key>> \in Alike /\ FactId(key) = e
    BY <1>1, <1>4, ExistingFacts DEF FactId
  <2>2. new = [facts EXCEPT ![e].sources = @ \cup sources]
    BY <1>4 DEF Asserted
  <2>3. facts[e] \in Fact
    BY <1>1, <2>1
  <2> DEFINE fact == [facts[e] EXCEPT !.sources = @ \cup sources]
  <2>4. /\ fact \in Fact /\ fact.key = facts[e].key
        /\ fact.sources = facts[e].sources \cup sources
    BY <2>3 DEF Fact
  <2>5. new = [facts EXCEPT ![e] = fact]
    BY <2>2
  <2> HIDE DEF fact, new, e
  <2>6. /\ new \in Seq(Fact) /\ Len(new) = Len(facts) /\ DOMAIN new = DOMAIN facts
        /\ new[e] = fact /\ \A f \in DOMAIN facts : f # e => new[f] = facts[f]
    BY <1>1, <2>1, <2>4, <2>5
  <2>7. /\ DOMAIN new = DOMAIN facts \cup {FactId(key)}
        /\ FactId(key) \in DOMAIN new
        /\ Len(facts) <= Len(new) /\ Len(new) <= SemanticCap
    BY <1>1, <2>1, <2>6
  <2>8. \A f \in DOMAIN facts :
           new[f].key = facts[f].key /\ facts[f].sources \subseteq new[f].sources
    BY <2>4, <2>6
  <2>9. ASSUME FactsApart, NEW f \in DOMAIN new, NEW g \in DOMAIN new, f # g
        PROVE  <<new[f].key, new[g].key>> \notin Alike
    <3>1. new[f].key = facts[f].key /\ new[g].key = facts[g].key
      BY <2>6, <2>8
    <3> QED
      BY <2>6, <2>9, <3>1 DEF FactsApart
  <2>10. Merged(new, key, sources)
    BY <2>1, <2>4, <2>6, <2>7, <2>8, <2>9 DEF Merged
  <2> QED
    BY <2>10 DEF new
<1> QED
  BY <1>3, <1>4

\* The arena only gets longer.
Grown(new) ==
    /\ new \in Seq(Value) /\ Len(arena) <= Len(new) /\ Len(new) <= ArenaCap
    /\ \A h \in 1 .. Len(arena) : new[h] = arena[h]

\* A value is written to the next handle, or the arena is full.
LEMMA WrittenFacts ==
    ASSUME MemoryTypeOK, NEW value \in Value
    PROVE  /\ Grown(Written(value))
           /\ ~ArenaFull => /\ Len(Written(value)) = Len(arena) + 1
                            /\ Written(value)[Len(arena) + 1] = value
           /\ ArenaFull => Written(value) = arena
<1>1. arena \in Seq(Value) /\ Len(arena) \in Nat /\ Len(arena) <= ArenaCap /\ ArenaCap \in Nat
  BY MemoryAssumption DEF MemoryTypeOK, Value
<1>2. CASE ArenaFull
  BY <1>1, <1>2 DEF Written, Grown
<1>3. CASE ~ArenaFull
  <2>1. Written(value) = Append(arena, value) /\ Len(arena) < ArenaCap
    BY <1>1, <1>3 DEF Written, ArenaFull
  <2> QED
    BY <1>1, <1>3, <2>1 DEF Grown
<1> QED
  BY <1>2, <1>3

\* A table of handles with one more, into an arena with one more; or neither.
HandedOver(table, new, id, value) ==
    /\ new \in [DOMAIN new -> 1 .. Len(Written(value))]
    /\ DOMAIN new \subseteq DOMAIN table \cup {id}
    /\ \A r \in DOMAIN table :
          /\ r \in DOMAIN new
          /\ r # id => new[r] = table[r] /\ Written(value)[new[r]] = arena[table[r]]
    /\ ~ArenaFull =>
          id \in DOMAIN new /\ new[id] = Len(arena) + 1 /\ Written(value)[new[id]] = value
    /\ ArenaFull => new = table

\* Handing out is one more entry, for the next handle.
LEMMA HandedFacts ==
    ASSUME MemoryTypeOK, NEW table, table \in HandleTable(DOMAIN table),
           NEW id, NEW value \in Value
    PROVE  HandedOver(table, Handed(table, id), id, value)
<1>1. /\ Len(arena) \in Nat /\ Len(Written(value)) \in Nat
      /\ Len(arena) <= Len(Written(value))
      /\ \A h \in 1 .. Len(arena) : Written(value)[h] = arena[h]
  BY WrittenFacts DEF MemoryTypeOK, Grown, Value
<1>2. table \in [DOMAIN table -> 1 .. Len(arena)]
  BY DEF HandleTable
<1>3. CASE ArenaFull
  BY <1>1, <1>2, <1>3, WrittenFacts DEF Handed, HandedOver
<1>4. CASE ~ArenaFull
  <2> DEFINE new == [r \in DOMAIN table \cup {id} |->
                        IF r = id THEN Len(arena) + 1 ELSE table[r]]
  <2>1. Handed(table, id) = new
    BY <1>4 DEF Handed
  <2>2. /\ Len(Written(value)) = Len(arena) + 1
        /\ Written(value)[Len(arena) + 1] = value
    BY <1>4, WrittenFacts
  <2>3. /\ DOMAIN new = DOMAIN table \cup {id} /\ new[id] = Len(arena) + 1
        /\ \A r \in DOMAIN table : r # id => new[r] = table[r]
        /\ \A r \in DOMAIN new : r # id => r \in DOMAIN table
    OBVIOUS
  <2>4. new \in [DOMAIN new -> 1 .. Len(arena) + 1]
    <3>1. \A r \in DOMAIN new : new[r] \in 1 .. Len(arena) + 1
      BY <1>1, <1>2
    <3> QED
      BY <3>1
  <2> HIDE DEF new
  <2>5. \A r \in DOMAIN table : table[r] \in 1 .. Len(arena)
    BY <1>2
  <2> QED
    BY <1>1, <1>4, <2>1, <2>2, <2>3, <2>4, <2>5 DEF HandedOver
<1> QED
  BY <1>3, <1>4

\* When one table gets a handle, handles are as distinct as before.
LEMMA DistinctKept ==
    ASSUME MemoryTypeOK, HandlesDistinct, NEW t \in 1 .. 3, NEW id, NEW value \in Value,
           \A u \in 1 .. 3 :
               handles'[u] = IF u = t THEN Handed(handles[u], id) ELSE handles[u]
    PROVE  HandlesDistinct'
<1> DEFINE Old(u, r) == r \in DOMAIN handles[u] /\ handles'[u][r] = handles[u][r]
           New(u, r) == u = t /\ r = id /\ ~ArenaFull /\ handles'[u][r] = Len(arena) + 1
<1>1. DOMAIN handles = 1 .. 3 /\ DOMAIN handles' = 1 .. 3 /\ Len(arena) \in Nat
  BY DEF handles, MemoryTypeOK
<1>2. \A u \in 1 .. 3 : handles[u] \in HandleTable(DOMAIN handles[u])
  <2>1. \A u \in 1 .. 3 :
           handles[u] \in {episodicHandles, semanticHandles, proceduralHandles}
    BY DEF handles
  <2> QED
    BY <2>1 DEF MemoryTypeOK
<1>3. \A u \in 1 .. 3 : \A r \in DOMAIN handles[u] : handles[u][r] \in 1 .. Len(arena)
  BY <1>2 DEF HandleTable
<1>4. ASSUME NEW u \in 1 .. 3, NEW r \in DOMAIN handles'[u]
      PROVE  Old(u, r) \/ New(u, r)
  <2>1. CASE u # t \/ ArenaFull
    <3>1. handles'[u] = handles[u]
      BY <2>1 DEF Handed
    <3> QED
      BY <3>1
  <2>2. CASE u = t /\ ~ArenaFull
    <3> DEFINE old == handles[u]
    <3>1. handles'[u] = [q \in DOMAIN old \cup {id} |->
                            IF q = id THEN Len(arena) + 1 ELSE old[q]]
      BY <2>2 DEF Handed
    <3> HIDE DEF old
    <3>2. IF r = id THEN handles'[u][r] = Len(arena) + 1
          ELSE r \in DOMAIN old /\ handles'[u][r] = old[r]
      BY <3>1
    <3> QED
      BY <2>2, <3>2 DEF old
  <2> QED
    BY <2>1, <2>2
<1>5. ASSUME NEW u \in 1 .. 3, NEW v \in 1 .. 3,
             NEW r \in DOMAIN handles'[u], NEW s \in DOMAIN handles'[v],
             handles'[u][r] = handles'[v][s]
      PROVE  u = v /\ r = s
  <2>1. CASE Old(u, r) /\ Old(v, s)
    <3>1. handles[u][r] = handles[v][s] /\ r \in DOMAIN handles[u] /\ s \in DOMAIN handles[v]
      BY <1>5, <2>1
    <3>2. u \in DOMAIN handles /\ v \in DOMAIN handles
      BY <1>1
    <3> QED
      BY <3>1, <3>2 DEF HandlesDistinct
  <2>2. CASE Old(u, r) /\ New(v, s)
    <3>1. handles[u][r] = Len(arena) + 1 /\ handles[u][r] \in 1 .. Len(arena)
      BY <1>3, <1>5, <2>2
    <3> QED
      BY <1>1, <3>1
  <2>3. CASE New(u, r) /\ Old(v, s)
    <3>1. handles[v][s] = Len(arena) + 1 /\ handles[v][s] \in 1 .. Len(arena)
      BY <1>3, <1>5, <2>3
    <3> QED
      BY <1>1, <3>1
  <2>4. CASE New(u, r) /\ New(v, s)
    BY <2>4
  <2> QED
    BY <1>4, <2>1, <2>2, <2>3, <2>4
<1> QED
  BY <1>1, <1>5 DEF HandlesDistinct

-----------------------------------------------------------------------------
(***************************************************************************)
(* What is found, and what is kept, when a step concerns something else.   *)
(***************************************************************************)

\* A full arena stays full.
LEMMA FullKept ==
    ASSUME MemoryTypeOK, Grown(arena'), ArenaFull
    PROVE  ArenaFull'
BY MemoryAssumption DEF MemoryTypeOK, Grown, ArenaFull

\* An episode is found while the arena grows, whoever else is rehearsed or
\* evicted.
LEMMA EpisodesKept ==
    ASSUME MemoryTypeOK, EpisodesFound, Grown(arena'),
           episodicHandles' = episodicHandles,
           \A i \in DOMAIN episodes' :
              \E j \in DOMAIN episodes :
                  /\ episodes'[i].id = episodes[j].id
                  /\ episodes'[i].content = episodes[j].content
    PROVE  EpisodesFound'
<1> SUFFICES ASSUME NEW i \in DOMAIN episodes'
             PROVE  IF episodes'[i].id \in DOMAIN episodicHandles
                    THEN arena'[episodicHandles[episodes'[i].id]] = episodes'[i].content
                    ELSE ArenaFull'
  BY DEF EpisodesFound
<1>1. PICK j \in DOMAIN episodes :
         /\ episodes'[i].id = episodes[j].id
         /\ episodes'[i].content = episodes[j].content
  OBVIOUS
<1> DEFINE id == episodes[j].id
<1>2. CASE id \in DOMAIN episodicHandles
  <2>1. episodicHandles[id] \in 1 .. Len(arena)
    BY <1>2 DEF MemoryTypeOK, HandleTable
  <2>2. arena'[episodicHandles[id]] = arena[episodicHandles[id]]
    BY <2>1 DEF Grown
  <2> QED
    BY <1>1, <1>2, <2>2 DEF EpisodesFound
<1>3. CASE id \notin DOMAIN episodicHandles
  BY <1>1, <1>3, FullKept DEF EpisodesFound
<1> QED
  BY <1>2, <1>3

\* A fact is found while the arena grows; the call may end if it is so anyway.
LEMMA FactsKept ==
    ASSUME MemoryTypeOK, FactsFound, Grown(arena'),
           semanticHandles' = semanticHandles, facts' = facts,
           pc' = "ready" => pc = "ready" \/ ArenaFull \/ SemanticFull \/ Handless = {}
    PROVE  FactsFound'
<1> SUFFICES ASSUME NEW f \in DOMAIN facts
             PROVE  IF f \in DOMAIN semanticHandles
                    THEN arena'[semanticHandles[f]] = facts[f].key
                    ELSE pc' = "ready" => ArenaFull' \/ SemanticFull'
  BY DEF FactsFound
<1>1. CASE f \in DOMAIN semanticHandles
  <2>1. semanticHandles[f] \in 1 .. Len(arena)
    BY <1>1 DEF MemoryTypeOK, HandleTable
  <2>2. arena'[semanticHandles[f]] = arena[semanticHandles[f]]
    BY <2>1 DEF Grown
  <2> QED
    BY <1>1, <2>2 DEF FactsFound
<1>2. CASE f \notin DOMAIN semanticHandles
  BY <1>2, FullKept DEF FactsFound, Handless, SemanticFull
<1> QED
  BY <1>1, <1>2

\* A procedure is found while the arena grows.
LEMMA ProceduresKept ==
    ASSUME MemoryTypeOK, ProceduresFound, Grown(arena'),
           proceduralHandles' = proceduralHandles, procedures' = procedures
    PROVE  ProceduresFound'
<1> SUFFICES ASSUME NEW p \in DOMAIN procedures
             PROVE  IF p \in DOMAIN proceduralHandles
                    THEN arena'[proceduralHandles[p]] = procedures[p]
                    ELSE ArenaFull'
  BY DEF ProceduresFound
<1>1. CASE p \in DOMAIN proceduralHandles
  <2>1. proceduralHandles[p] \in 1 .. Len(arena)
    BY <1>1 DEF MemoryTypeOK, HandleTable
  <2>2. arena'[proceduralHandles[p]] = arena[proceduralHandles[p]]
    BY <2>1 DEF Grown
  <2> QED
    BY <1>1, <2>2 DEF ProceduresFound
<1>2. CASE p \notin DOMAIN proceduralHandles
  BY <1>2, FullKept DEF ProceduresFound
<1> QED
  BY <1>1, <1>2

\* A source is alike for good: its episode's handle, if any, does not change.
LEMMA AlikeKept ==
    ASSUME MemoryTypeOK, IdsPast, SourcesAlike, Grown(arena'), facts' = facts,
           \A id \in DOMAIN episodicHandles' : id < nextEvent =>
              id \in DOMAIN episodicHandles /\ episodicHandles'[id] = episodicHandles[id]
    PROVE  SourcesAlike'
<1> SUFFICES ASSUME NEW f \in DOMAIN facts,
                    NEW id \in facts[f].sources, id \in DOMAIN episodicHandles'
             PROVE  \E subject \in Subjects :
                       <<facts[f].key, <<subject, arena'[episodicHandles'[id]]>>>> \in Alike
  BY DEF SourcesAlike
<1>1. id < nextEvent
  BY DEF IdsPast, MemoryTypeOK
<1>2. id \in DOMAIN episodicHandles /\ episodicHandles'[id] = episodicHandles[id]
  BY <1>1
<1>3. episodicHandles[id] \in 1 .. Len(arena)
  BY <1>2 DEF MemoryTypeOK, HandleTable
<1>4. arena'[episodicHandles'[id]] = arena[episodicHandles[id]]
  BY <1>2, <1>3 DEF Grown
<1> QED
  BY <1>2, <1>4 DEF SourcesAlike

\* Handles stay handles while the arena grows.
LEMMA TableKept ==
    ASSUME MemoryTypeOK, Grown(arena'), NEW table, table \in HandleTable(DOMAIN table)
    PROVE  table \in [DOMAIN table -> 1 .. Len(arena')]
<1>1. Len(arena) \in Nat /\ Len(arena') \in Nat /\ Len(arena) <= Len(arena')
  BY DEF MemoryTypeOK, Grown
<1> QED
  BY <1>1 DEF HandleTable

-----------------------------------------------------------------------------
(***************************************************************************)
(* The steps.                                                              *)
(***************************************************************************)

\* Nothing is stored, nothing has a handle.
LEMMA InitInv == Init => MemoryInv
<1> SUFFICES ASSUME Init PROVE MemoryInv
  OBVIOUS
<1>1. Len(<<>>) = 0 /\ DOMAIN <<>> = {}
  OBVIOUS
<1>2. MemoryTypeOK
  <2>1. <<>> \in [{} -> 1 .. Len(arena)]
    OBVIOUS
  <2>2. 0 \in 0 .. MaxEvents /\ 0 <= EpisodicCap /\ 0 <= SemanticCap
        /\ 0 <= ProceduralCap /\ 0 <= ArenaCap
    BY MemoryAssumption
  <2> QED
    BY <1>1, <2>1, <2>2 DEF Init, MemoryTypeOK, HandleTable
<1>3. HandlesDistinct
  <2>1. \A t \in DOMAIN handles : handles[t] = <<>>
    BY DEF Init, handles
  <2> QED
    BY <1>1, <2>1 DEF HandlesDistinct
<1> QED
  BY <1>1, <1>2, <1>3 DEF Init, MemoryInv, IdsPast, HandlesSound, EpisodesFound,
     FactsFound, ProceduresFound, SourcesKept, SourcesAlike, FactsApart

\* An episode's fields.
LEMMA EpisodeFacts ==
    ASSUME MemoryTypeOK, NEW i \in DOMAIN episodes
    PROVE  /\ episodes[i] \in Event
           /\ episodes[i].id \in 0 .. MaxEvents - 1 /\ episodes[i].id \in Nat
           /\ KeyOf(episodes[i]) \in Key
<1>1. episodes[i] \in Event
  BY DEF MemoryTypeOK
<1>2. episodes[i].id \in 0 .. MaxEvents - 1
  BY <1>1 DEF Event
<1>3. KeyOf(episodes[i]) \in Key
  BY <1>1 DEF Event, KeyOf, Key
<1> QED
  BY <1>1, <1>2, <1>3

\* An allocation by others leaves every record as it was found.
LEMMA AllocateElsewhereStep == MemoryInv /\ AllocateElsewhere => MemoryInv'
<1> SUFFICES ASSUME MemoryInv, AllocateElsewhere PROVE MemoryInv'
  OBVIOUS
<1> USE DEF AllocateElsewhere, tiers, handles, consolidation
<1>1. Grown(arena')
  BY WrittenFacts DEF Written, Value, MemoryInv
<1>2. MemoryTypeOK'
  BY <1>1, TableKept DEF MemoryInv, MemoryTypeOK, Grown, Value, HandleTable
<1>3. EpisodesFound' /\ FactsFound' /\ ProceduresFound'
  BY <1>1, EpisodesKept, FactsKept, ProceduresKept DEF MemoryInv, HandlesSound
<1>4. HandlesDistinct'
  BY DEF MemoryInv, HandlesSound, HandlesDistinct
<1>5. SourcesAlike'
  BY <1>1, AlikeKept DEF MemoryInv
<1> QED
  BY <1>2, <1>3, <1>4, <1>5 DEF MemoryInv, IdsPast, HandlesSound, SourcesKept,
     FactsApart

\* The new episode has a new id, so no source and no handle is mistaken for its.
LEMMA RememberEventStep == MemoryInv /\ RememberEvent => MemoryInv'
<1> SUFFICES ASSUME MemoryInv, RememberEvent PROVE MemoryInv'
  OBVIOUS
<1>1. PICK content \in Contents, subject \in Subjects, rest \in Remaining :
         /\ episodes' = Append(rest, [id |-> nextEvent, content |-> content,
                                      subject |-> subject, rehearsals |-> 0])
         /\ arena' = Written(content)
         /\ episodicHandles' = Handed(episodicHandles, nextEvent)
  BY DEF RememberEvent, EventId
<1> DEFINE event == [id |-> nextEvent, content |-> content,
                     subject |-> subject, rehearsals |-> 0]
<1>2. /\ MemoryTypeOK /\ IdsPast /\ HandlesSound /\ SourcesAlike /\ FactsApart
      /\ pc = "ready" /\ queue = {}
      /\ nextEvent \in Nat /\ MaxEvents \in Nat /\ nextEvent < MaxEvents
      /\ nextEvent' = nextEvent + 1
      /\ facts' = facts /\ procedures' = procedures
      /\ semanticHandles' = semanticHandles /\ proceduralHandles' = proceduralHandles
      /\ pc' = pc /\ queue' = queue /\ promoted' = promoted /\ reported' = reported
  BY MemoryAssumption DEF RememberEvent, MemoryInv, MemoryTypeOK, consolidation
<1>3. content \in Value /\ Grown(arena')
      /\ HandedOver(episodicHandles, episodicHandles', nextEvent, content)
  BY <1>1, <1>2, WrittenFacts, HandedFacts DEF Value, MemoryTypeOK
<1>4. /\ event \in Event /\ event.id = nextEvent /\ event.content = content
      /\ rest \in Seq(Event) /\ Len(rest) < EpisodicCap
      /\ \A j \in DOMAIN rest : \E k \in DOMAIN episodes : rest[j] = episodes[k]
  <2>1. nextEvent \in 0 .. MaxEvents - 1 /\ 0 \in 0 .. MaxRehearsals
    BY <1>2, MemoryAssumption
  <2>2. event \in Event
    BY <2>1 DEF Event
  <2> QED
    BY <1>2, <2>2, RemainingFacts
<1> HIDE DEF event
<1>5. /\ episodes' \in Seq(Event) /\ Len(episodes') <= EpisodicCap
      /\ \A i \in DOMAIN episodes' :
            \/ episodes'[i] = event
            \/ \E k \in DOMAIN episodes : episodes'[i] = episodes[k]
  <2>1. Len(rest) \in Nat /\ EpisodicCap \in Nat /\ episodes' = Append(rest, event)
    BY <1>1, <1>4, MemoryAssumption DEF event
  <2> QED
    BY <1>4, <2>1
<1>6. MemoryTypeOK'
  <2>1. DOMAIN episodicHandles' \subseteq 0 .. nextEvent'-1
        /\ episodicHandles' \in [DOMAIN episodicHandles' -> 1 .. Len(arena')]
    <3>1. /\ DOMAIN episodicHandles' \subseteq DOMAIN episodicHandles \cup {nextEvent}
          /\ DOMAIN episodicHandles \subseteq 0 .. nextEvent - 1
      BY <1>2, <1>3 DEF HandedOver, MemoryTypeOK
    <3>2. 0 .. nextEvent - 1 \cup {nextEvent} \subseteq 0 .. nextEvent' - 1
      BY <1>2
    <3>3. episodicHandles' \in [DOMAIN episodicHandles' -> 1 .. Len(arena')]
      BY <1>1, <1>3 DEF HandedOver
    <3> QED
      BY <3>1, <3>2, <3>3
  <2>2. nextEvent' \in 0 .. MaxEvents /\ promoted \cup reported \subseteq 0 .. nextEvent'-1
    BY <1>2 DEF MemoryTypeOK
  <2>3. /\ semanticHandles \in [DOMAIN semanticHandles -> 1 .. Len(arena')]
        /\ proceduralHandles \in [DOMAIN proceduralHandles -> 1 .. Len(arena')]
    BY <1>2, <1>3, TableKept DEF MemoryTypeOK
  <2> QED
    BY <1>2, <1>3, <1>5, <2>1, <2>2, <2>3 DEF MemoryTypeOK, HandleTable, Grown, Value
<1>7. IdsPast'
  <2>1. \A k \in DOMAIN episodes : episodes[k].id < nextEvent'
    <3>1. \A k \in DOMAIN episodes : episodes[k].id \in Nat
      BY <1>2, EpisodeFacts
    <3> QED
      BY <1>2, <3>1 DEF IdsPast
  <2>2. event.id < nextEvent'
    BY <1>2, <1>4
  <2>3. \A i \in DOMAIN episodes' : episodes'[i].id < nextEvent'
    BY <1>5, <2>1, <2>2
  <2>4. 0 .. nextEvent - 1 \subseteq 0 .. nextEvent' - 1
    BY <1>2
  <2> QED
    BY <1>2, <2>3, <2>4 DEF IdsPast
<1>8. EpisodesFound'
  <2> SUFFICES ASSUME NEW i \in DOMAIN episodes'
               PROVE  IF episodes'[i].id \in DOMAIN episodicHandles'
                      THEN arena'[episodicHandles'[episodes'[i].id]] = episodes'[i].content
                      ELSE ArenaFull'
    BY DEF EpisodesFound
  <2>1. CASE episodes'[i] = event
    <3>1. CASE ArenaFull
      <4>1. nextEvent \notin 0 .. nextEvent - 1
        BY <1>2
      <4>2. nextEvent \notin DOMAIN episodicHandles' /\ ArenaFull'
        BY <1>2, <1>3, <3>1, <4>1, FullKept DEF HandedOver, MemoryTypeOK
      <4> QED
        BY <1>4, <2>1, <4>2
    <3>2. CASE ~ArenaFull
      BY <1>1, <1>3, <1>4, <2>1, <3>2 DEF HandedOver
    <3> QED
      BY <3>1, <3>2
  <2>2. ASSUME NEW k \in DOMAIN episodes, episodes'[i] = episodes[k]
        PROVE  IF episodes'[i].id \in DOMAIN episodicHandles'
               THEN arena'[episodicHandles'[episodes'[i].id]] = episodes'[i].content
               ELSE ArenaFull'
    <3>1. episodes[k].id < nextEvent /\ episodes[k].id # nextEvent
      BY <1>2, EpisodeFacts DEF IdsPast
    <3>2. CASE episodes[k].id \in DOMAIN episodicHandles
      BY <1>1, <1>2, <1>3, <2>2, <3>1, <3>2
         DEF HandedOver, EpisodesFound, HandlesSound
    <3>3. CASE episodes[k].id \notin DOMAIN episodicHandles
      BY <1>2, <1>3, <2>2, <3>1, <3>3, FullKept
         DEF HandedOver, EpisodesFound, HandlesSound
    <3> QED
      BY <3>2, <3>3
  <2> QED
    BY <1>5, <2>1, <2>2
<1>9. FactsFound' /\ ProceduresFound'
  BY <1>2, <1>3, FactsKept, ProceduresKept DEF HandlesSound
<1>10. HandlesDistinct'
  <2>1. \A u \in 1 .. 3 :
           handles'[u] = IF u = 1 THEN Handed(handles[u], nextEvent) ELSE handles[u]
    BY <1>1, <1>2 DEF handles
  <2> QED
    BY <1>2, <1>3, <2>1, DistinctKept DEF HandlesSound
<1>11. SourcesAlike'
  <2>1. \A id \in DOMAIN episodicHandles' : id < nextEvent =>
           id \in DOMAIN episodicHandles /\ episodicHandles'[id] = episodicHandles[id]
    BY <1>2, <1>3 DEF HandedOver
  <2> QED
    BY <1>2, <1>3, <2>1, AlikeKept
<1> QED
  BY <1>2, <1>6, <1>7, <1>8, <1>9, <1>10, <1>11 DEF MemoryInv, HandlesSound,
     SourcesKept, FactsApart

\* A rehearsal changes neither ids nor contents.
LEMMA RecallStep == MemoryInv /\ Recall => MemoryInv'
<1> SUFFICES ASSUME MemoryInv, Recall PROVE MemoryInv'
  OBVIOUS
<1>1. PICK best \in SUBSET DOMAIN episodes :
         /\ \A i \in best : episodes[i].rehearsals < MaxRehearsals
         /\ episodes' = [i \in DOMAIN episodes |->
                            IF i \in best
                            THEN [episodes[i] EXCEPT !.rehearsals = @ + 1]
                            ELSE episodes[i]]
  BY DEF Recall
<1>2. /\ MemoryTypeOK /\ IdsPast /\ HandlesSound /\ SourcesAlike /\ FactsApart
      /\ pc = "ready" /\ queue = {}
      /\ UNCHANGED <<nextEvent, facts, procedures, arena, episodicHandles,
                     semanticHandles, proceduralHandles, pc, queue, promoted, reported>>
  BY DEF Recall, MemoryInv, handles, consolidation
<1>3. Grown(arena')
  BY <1>2 DEF Grown, MemoryTypeOK, Value
<1>4. DOMAIN episodes' = 1 .. Len(episodes) /\ DOMAIN episodes = 1 .. Len(episodes)
      /\ Len(episodes) \in Nat
  BY <1>1, <1>2 DEF MemoryTypeOK
<1>5. ASSUME NEW i \in DOMAIN episodes
      PROVE  /\ episodes'[i] \in Event /\ episodes'[i].id = episodes[i].id
             /\ episodes'[i].content = episodes[i].content
  <2>1. episodes[i] \in Event
    BY <1>2, EpisodeFacts
  <2>2. CASE i \in best
    <3>1. episodes'[i] = [episodes[i] EXCEPT !.rehearsals = @ + 1]
      BY <1>1, <2>2
    <3>2. episodes[i].rehearsals + 1 \in 0 .. MaxRehearsals
      BY <1>1, <2>1, <2>2, MemoryAssumption DEF Event
    <3> QED
      BY <2>1, <3>1, <3>2 DEF Event
  <2>3. CASE i \notin best
    BY <1>1, <2>1, <2>3
  <2> QED
    BY <2>2, <2>3
<1>6. MemoryTypeOK'
  <2>1. episodes' \in Seq(Event) /\ Len(episodes') = Len(episodes)
    BY <1>1, <1>4, <1>5
  <2> QED
    BY <1>2, <2>1, <1>4 DEF MemoryTypeOK, HandleTable
<1>7. IdsPast'
  BY <1>2, <1>4, <1>5 DEF IdsPast
<1>8. EpisodesFound'
  BY <1>2, <1>3, <1>4, <1>5, EpisodesKept DEF HandlesSound
<1> QED
  BY <1>2, <1>6, <1>7, <1>8 DEF MemoryInv, HandlesSound, FactsFound, ProceduresFound,
     ArenaFull, SemanticFull, HandlesDistinct, handles, SourcesKept, SourcesAlike,
     FactsApart

\* A merge loses no source, and the sources it adds are of that key.
LEMMA MergedKept ==
    ASSUME MemoryTypeOK, IdsPast, SourcesAlike, Grown(arena'),
           NEW key \in Key, NEW sources, Merged(facts', key, sources),
           sources \subseteq 0 .. nextEvent - 1,
           \A id \in sources \cap DOMAIN episodicHandles :
              \E subject \in Subjects : key = <<subject, arena[episodicHandles[id]]>>,
           UNCHANGED <<episodes, nextEvent, episodicHandles, reported>>
    PROVE  IdsPast' /\ SourcesAlike' /\ (SourcesKept(reported) => SourcesKept(reported)')
<1> DEFINE merged == FactId(key)
<1>1. /\ DOMAIN facts' = DOMAIN facts \cup {merged}
      /\ merged \in DOMAIN facts'
      /\ \A f \in DOMAIN facts :
            facts'[f].key = facts[f].key /\ facts[f].sources \subseteq facts'[f].sources
      /\ \A f \in DOMAIN facts : f # merged => facts'[f] = facts[f]
      /\ <<facts'[merged].key, key>> \in Alike
      /\ \A id \in facts'[merged].sources :
            id \in sources \/ (merged \in DOMAIN facts /\ id \in facts[merged].sources)
  BY DEF Merged
<1> HIDE DEF merged
<1>2. ASSUME NEW f \in DOMAIN facts', NEW id \in facts'[f].sources
      PROVE  \/ f = merged /\ id \in sources
             \/ f \in DOMAIN facts /\ id \in facts[f].sources /\ facts'[f].key = facts[f].key
  BY <1>1
<1>3. IdsPast'
  BY <1>2 DEF IdsPast
<1>4. SourcesKept(reported) => SourcesKept(reported)'
  BY <1>1 DEF SourcesKept
<1>5. ASSUME NEW f \in DOMAIN facts',
             NEW id \in facts'[f].sources, id \in DOMAIN episodicHandles
      PROVE  \E subject \in Subjects :
                <<facts'[f].key, <<subject, arena'[episodicHandles[id]]>>>> \in Alike
  <2>1. arena'[episodicHandles[id]] = arena[episodicHandles[id]]
    <3>1. episodicHandles[id] \in 1 .. Len(arena)
      BY <1>5 DEF MemoryTypeOK, HandleTable
    <3> QED
      BY <3>1 DEF Grown
  <2>2. CASE f = merged /\ id \in sources
    <3>1. PICK subject \in Subjects : key = <<subject, arena[episodicHandles[id]]>>
      BY <1>5, <2>2
    <3> QED
      BY <1>1, <2>1, <2>2, <3>1
  <2>3. CASE /\ f \in DOMAIN facts /\ id \in facts[f].sources
             /\ facts'[f].key = facts[f].key
    BY <1>5, <2>1, <2>3 DEF SourcesAlike
  <2> QED
    BY <1>2, <2>2, <2>3
<1>6. SourcesAlike'
  BY <1>5 DEF SourcesAlike
<1> QED
  BY <1>3, <1>4, <1>6

\* A fact without a handle, stored just now or before, is handed one.
LEMMA FactHanded ==
    ASSUME MemoryTypeOK, FactsFound, Grown(arena'),
           NEW new \in DOMAIN facts', new \notin DOMAIN semanticHandles,
           arena' = Written(facts'[new].key),
           HandedOver(semanticHandles, semanticHandles', new, facts'[new].key),
           \A f \in DOMAIN facts : f \in DOMAIN facts' /\ facts'[f].key = facts[f].key,
           DOMAIN facts' \subseteq DOMAIN facts \cup {new},
           pc' = "ready" => ArenaFull \/ (pc = "ready" /\ ~SemanticFull)
    PROVE  /\ FactsFound'
           /\ semanticHandles' \in [DOMAIN semanticHandles' -> 1 .. Len(arena')]
           /\ DOMAIN semanticHandles' \subseteq DOMAIN facts'
<1>1. semanticHandles' \in [DOMAIN semanticHandles' -> 1 .. Len(arena')]
  BY DEF HandedOver
<1>2. DOMAIN semanticHandles' \subseteq DOMAIN facts'
  BY DEF HandedOver, MemoryTypeOK
<1>3. ASSUME NEW f \in DOMAIN facts'
      PROVE  IF f \in DOMAIN semanticHandles'
             THEN arena'[semanticHandles'[f]] = facts'[f].key
             ELSE pc' = "ready" => ArenaFull' \/ SemanticFull'
  <2>1. CASE f = new
    BY <2>1, FullKept DEF HandedOver
  <2>2. CASE f # new /\ f \in DOMAIN semanticHandles
    <3>1. f \in DOMAIN facts /\ arena[semanticHandles[f]] = facts[f].key
      BY <2>2 DEF FactsFound, MemoryTypeOK
    <3> QED
      BY <2>2, <3>1 DEF HandedOver
  <2>3. CASE f # new /\ f \notin DOMAIN semanticHandles
    <3>1. f \in DOMAIN facts /\ f \notin DOMAIN semanticHandles'
      BY <2>3 DEF HandedOver
    <3>2. pc' = "ready" => ArenaFull
      BY <2>3, <3>1 DEF FactsFound
    <3> QED
      BY <3>1, <3>2, FullKept
  <2> QED
    BY <2>1, <2>2, <2>3
<1> QED
  BY <1>1, <1>2, <1>3 DEF FactsFound

\* A fact asserted is merged or appended, and handed a handle if it has none.
LEMMA AssertFactStep == MemoryInv /\ AssertFact => MemoryInv'
<1> SUFFICES ASSUME MemoryInv, AssertFact PROVE MemoryInv'
  OBVIOUS
<1>1. PICK key \in Key :
         /\ facts' = Asserted(key, {})
         /\ IF FactId(key) \in DOMAIN semanticHandles
            THEN UNCHANGED <<arena, semanticHandles>>
            ELSE /\ arena' = Written(facts'[FactId(key)].key)
                 /\ semanticHandles' = Handed(semanticHandles, FactId(key))
  BY DEF AssertFact
<1> DEFINE id == FactId(key)
<1>2. /\ MemoryTypeOK /\ IdsPast /\ HandlesSound /\ SourcesAlike /\ FactsApart
      /\ SourcesKept(reported) /\ SourcesKept(promoted)
      /\ pc = "ready" /\ queue = {} /\ ~SemanticFull
      /\ UNCHANGED <<episodes, nextEvent, procedures, episodicHandles,
                     proceduralHandles, pc, queue, promoted, reported>>
  BY DEF AssertFact, MemoryInv, consolidation
<1>3. Merged(facts', key, {})
  BY <1>1, <1>2, AssertedFacts
<1>4. /\ id \in DOMAIN facts' /\ DOMAIN facts' = DOMAIN facts \cup {id}
      /\ \A f \in DOMAIN facts : facts'[f].key = facts[f].key
      /\ facts' \in Seq(Fact) /\ Len(facts') <= SemanticCap
      /\ facts'[id].key \in Value
  <2>1. id \in DOMAIN facts' /\ facts' \in Seq(Fact)
    BY <1>3 DEF Merged
  <2>2. facts'[id] \in Fact
    BY <2>1
  <2> QED
    BY <1>3, <2>1, <2>2 DEF Merged, Fact, Value
<1>5. Grown(arena')
  <2>1. CASE id \in DOMAIN semanticHandles
    BY <1>1, <1>2, <2>1 DEF Grown, MemoryTypeOK, Value
  <2>2. CASE id \notin DOMAIN semanticHandles
    BY <1>1, <1>2, <1>4, <2>2, WrittenFacts
  <2> QED
    BY <2>1, <2>2
<1>6. /\ FactsFound'
      /\ semanticHandles' \in [DOMAIN semanticHandles' -> 1 .. Len(arena')]
      /\ DOMAIN semanticHandles' \subseteq DOMAIN facts'
  <2>1. CASE id \in DOMAIN semanticHandles
    <3>1. arena' = arena /\ semanticHandles' = semanticHandles
      BY <1>1, <2>1
    <3>2. DOMAIN facts' = DOMAIN facts
      BY <1>2, <1>4, <2>1 DEF MemoryTypeOK
    <3>3. FactsFound'
      <4>1. ArenaFull' <=> ArenaFull
        BY <3>1 DEF ArenaFull
      <4> QED
        BY <1>2, <1>4, <3>1, <3>2, <4>1 DEF FactsFound, HandlesSound
    <3> QED
      BY <1>2, <3>1, <3>2, <3>3 DEF MemoryTypeOK, HandleTable
  <2>2. CASE id \notin DOMAIN semanticHandles
    <3>1. /\ arena' = Written(facts'[id].key)
          /\ HandedOver(semanticHandles, semanticHandles', id, facts'[id].key)
      BY <1>1, <1>2, <1>4, <2>2, HandedFacts DEF MemoryTypeOK
    <3> QED
      BY <1>2, <1>4, <1>5, <2>2, <3>1, FactHanded DEF HandlesSound
  <2> QED
    BY <2>1, <2>2
<1>7. HandlesDistinct'
  <2>1. CASE id \in DOMAIN semanticHandles
    BY <1>1, <1>2, <2>1 DEF HandlesDistinct, HandlesSound, handles
  <2>2. CASE id \notin DOMAIN semanticHandles
    <3>1. \A u \in 1 .. 3 :
             handles'[u] = IF u = 2 THEN Handed(handles[u], id) ELSE handles[u]
      BY <1>1, <1>2, <2>2 DEF handles
    <3> QED
      BY <1>2, <1>4, <3>1, DistinctKept DEF HandlesSound
  <2> QED
    BY <2>1, <2>2
<1>8. MemoryTypeOK'
  <2>1. /\ episodicHandles \in [DOMAIN episodicHandles -> 1 .. Len(arena')]
        /\ proceduralHandles \in [DOMAIN proceduralHandles -> 1 .. Len(arena')]
    BY <1>2, <1>5, TableKept DEF MemoryTypeOK
  <2> QED
    BY <1>2, <1>4, <1>5, <1>6, <2>1 DEF MemoryTypeOK, HandleTable, Grown, Value
<1>9. EpisodesFound' /\ ProceduresFound'
  BY <1>2, <1>5, EpisodesKept, ProceduresKept DEF HandlesSound
<1>10. IdsPast' /\ SourcesAlike' /\ SourcesKept(reported)'
  BY <1>2, <1>3, <1>5, MergedKept
<1>11. SourcesKept(promoted)' /\ FactsApart'
  BY <1>2, <1>3 DEF Merged, SourcesKept, FactsApart
<1> QED
  BY <1>2, <1>6, <1>7, <1>8, <1>9, <1>10, <1>11 DEF MemoryInv, HandlesSound

\* A procedure is stored before its handle is allocated, or is not.
LEMMA RegisterProcedureStep == MemoryInv /\ RegisterProcedure => MemoryInv'
<1> SUFFICES ASSUME MemoryInv, RegisterProcedure PROVE MemoryInv'
  OBVIOUS
<1>1. PICK trigger \in Triggers :
         procedures' = Append(procedures, trigger) /\ arena' = Written(trigger)
  BY DEF RegisterProcedure
<1> DEFINE place == Len(procedures) + 1
<1>2. /\ MemoryTypeOK /\ IdsPast /\ HandlesSound /\ SourcesAlike /\ FactsApart
      /\ pc = "ready" /\ queue = {} /\ Len(procedures) < ProceduralCap
      /\ proceduralHandles' = Handed(proceduralHandles, place)
      /\ UNCHANGED <<episodes, nextEvent, facts, episodicHandles, semanticHandles,
                     pc, queue, promoted, reported>>
  BY DEF RegisterProcedure, MemoryInv, consolidation
<1>3. /\ trigger \in Value /\ Grown(arena')
      /\ HandedOver(proceduralHandles, proceduralHandles', place, trigger)
  BY <1>1, <1>2, WrittenFacts, HandedFacts DEF Value, MemoryTypeOK
<1>4. /\ procedures \in Seq(Triggers) /\ Len(procedures) \in Nat
      /\ procedures' \in Seq(Triggers) /\ Len(procedures') = place
      /\ Len(procedures') <= ProceduralCap
      /\ DOMAIN procedures' = DOMAIN procedures \cup {place}
      /\ place \notin DOMAIN procedures /\ procedures'[place] = trigger
      /\ \A p \in DOMAIN procedures : procedures'[p] = procedures[p]
  BY <1>1, <1>2, MemoryAssumption DEF MemoryTypeOK
<1>5. DOMAIN proceduralHandles \subseteq DOMAIN procedures
  BY <1>2 DEF MemoryTypeOK
<1> HIDE DEF place
<1>6. MemoryTypeOK'
  <2>1. /\ DOMAIN proceduralHandles' \subseteq DOMAIN procedures'
        /\ proceduralHandles' \in [DOMAIN proceduralHandles' -> 1 .. Len(arena')]
    BY <1>1, <1>3, <1>4, <1>5 DEF HandedOver
  <2>2. /\ semanticHandles \in [DOMAIN semanticHandles -> 1 .. Len(arena')]
        /\ episodicHandles \in [DOMAIN episodicHandles -> 1 .. Len(arena')]
    BY <1>2, <1>3, TableKept DEF MemoryTypeOK
  <2> QED
    BY <1>2, <1>3, <1>4, <2>1, <2>2 DEF MemoryTypeOK, HandleTable, Grown, Value
<1>7. ProceduresFound'
  <2> SUFFICES ASSUME NEW p \in DOMAIN procedures'
               PROVE  IF p \in DOMAIN proceduralHandles'
                      THEN arena'[proceduralHandles'[p]] = procedures'[p]
                      ELSE ArenaFull'
    BY DEF ProceduresFound
  <2>1. CASE p = place
    BY <1>1, <1>2, <1>3, <1>4, <1>5, <2>1, FullKept DEF HandedOver
  <2>2. CASE p # place /\ p \in DOMAIN proceduralHandles
    BY <1>1, <1>2, <1>3, <1>4, <2>2 DEF HandedOver, ProceduresFound, HandlesSound
  <2>3. CASE p # place /\ p \notin DOMAIN proceduralHandles
    BY <1>2, <1>3, <1>4, <2>3, FullKept DEF HandedOver, ProceduresFound, HandlesSound
  <2> QED
    BY <2>1, <2>2, <2>3
<1>8. HandlesDistinct'
  <2>1. \A u \in 1 .. 3 :
           handles'[u] = IF u = 3 THEN Handed(handles[u], place) ELSE handles[u]
    BY <1>2 DEF handles, place
  <2> QED
    BY <1>2, <1>3, <2>1, DistinctKept DEF HandlesSound
<1>9. EpisodesFound' /\ FactsFound' /\ SourcesAlike'
  BY <1>2, <1>3, EpisodesKept, FactsKept, AlikeKept DEF HandlesSound
<1> QED
  BY <1>2, <1>6, <1>7, <1>8, <1>9 DEF MemoryInv, HandlesSound, IdsPast, SourcesKept,
     FactsApart

\* The steps of a consolidation that only decide what is next.
LEMMA QuietStep ==
    MemoryInv /\ (BeginConsolidation \/ PromotionFails \/ ReportConsolidation) => MemoryInv'
<1> SUFFICES ASSUME MemoryInv,
                    BeginConsolidation \/ PromotionFails \/ ReportConsolidation
             PROVE  MemoryInv'
  OBVIOUS
<1>1. /\ MemoryTypeOK /\ IdsPast /\ HandlesSound /\ SourcesAlike /\ FactsApart
      /\ SourcesKept(reported) /\ SourcesKept(promoted)
      /\ UNCHANGED <<episodes, nextEvent, facts, procedures, arena, episodicHandles,
                     semanticHandles, proceduralHandles>>
  BY DEF MemoryInv, BeginConsolidation, PromotionFails, ReportConsolidation, tiers, handles
<1>2. /\ pc' \in {"ready", "consolidate"} /\ queue' \subseteq DOMAIN episodes
      /\ pc' = "ready" => queue' = {} /\ (SemanticFull \/ Handless = {})
      /\ promoted' = {} /\ reported' \in {reported, reported \cup promoted}
  BY <1>1 DEF MemoryInv, BeginConsolidation, PromotionFails, ReportConsolidation
<1>3. Grown(arena')
  BY <1>1 DEF Grown, MemoryTypeOK, Value
<1>4. MemoryTypeOK'
  BY <1>1, <1>2 DEF MemoryTypeOK, HandleTable
<1>5. FactsFound'
  BY <1>1, <1>2, <1>3, FactsKept DEF HandlesSound
<1>6. SourcesKept(reported)' /\ SourcesKept(promoted)'
  BY <1>1, <1>2 DEF SourcesKept
<1> QED
  BY <1>1, <1>2, <1>4, <1>5, <1>6 DEF MemoryInv, IdsPast, HandlesSound, EpisodesFound,
     ProceduresFound, ArenaFull, HandlesDistinct, handles, SourcesAlike, FactsApart

\* The episode promoted is one that is stored: its handle tells what it said.
LEMMA PromoteStep == MemoryInv /\ Promote => MemoryInv'
<1> SUFFICES ASSUME MemoryInv, Promote PROVE MemoryInv'
  OBVIOUS
<1>1. PICK i \in queue :
         /\ facts' = Asserted(KeyOf(episodes[i]), {episodes[i].id})
         /\ promoted' = promoted \cup {episodes[i].id}
         /\ queue' = queue \ {i}
  BY DEF Promote
<1> DEFINE id == episodes[i].id
           key == KeyOf(episodes[i])
<1>2. /\ MemoryTypeOK /\ IdsPast /\ HandlesSound /\ SourcesAlike /\ FactsApart
      /\ SourcesKept(reported) /\ SourcesKept(promoted)
      /\ pc = "consolidate" /\ ~SemanticFull
      /\ UNCHANGED <<episodes, nextEvent, procedures, arena, episodicHandles,
                     semanticHandles, proceduralHandles, pc, reported>>
  BY DEF Promote, MemoryInv, handles
<1>3. i \in DOMAIN episodes
  BY <1>2 DEF MemoryTypeOK
<1>4. /\ episodes[i] \in Event /\ key \in Key
      /\ id \in 0 .. MaxEvents - 1 /\ id \in 0 .. nextEvent - 1
  BY <1>2, <1>3, EpisodeFacts DEF IdsPast, MemoryTypeOK
<1>5. Merged(facts', key, {id})
  BY <1>1, <1>2, <1>4, AssertedFacts
<1>6. Grown(arena')
  BY <1>2 DEF Grown, MemoryTypeOK, Value
<1>7. \A source \in {id} \cap DOMAIN episodicHandles :
         \E subject \in Subjects : key = <<subject, arena[episodicHandles[source]]>>
  <2>1. id \in DOMAIN episodicHandles => arena[episodicHandles[id]] = episodes[i].content
    BY <1>2, <1>3 DEF HandlesSound, EpisodesFound
  <2>2. key = <<episodes[i].subject, episodes[i].content>> /\ episodes[i].subject \in Subjects
    BY <1>4 DEF KeyOf, Event
  <2> QED
    BY <2>1, <2>2
<1> HIDE DEF id, key
<1>8. IdsPast' /\ SourcesAlike' /\ SourcesKept(reported)'
  BY <1>2, <1>4, <1>5, <1>6, <1>7, MergedKept
<1>9. SourcesKept(promoted)' /\ FactsApart'
  <2>1. /\ \A f \in DOMAIN facts : f \in DOMAIN facts' /\ facts[f].sources \subseteq facts'[f].sources
        /\ FactId(key) \in DOMAIN facts' /\ id \in facts'[FactId(key)].sources
    BY <1>5 DEF Merged
  <2>2. promoted' = promoted \cup {id}
    BY <1>1 DEF id
  <2>3. FactsApart'
    BY <1>2, <1>5 DEF Merged, FactsApart
  <2> QED
    BY <1>2, <2>1, <2>2, <2>3 DEF SourcesKept
<1>10. MemoryTypeOK'
  <2>1. /\ facts' \in Seq(Fact) /\ Len(facts') <= SemanticCap
        /\ DOMAIN facts \subseteq DOMAIN facts'
    BY <1>5 DEF Merged
  <2>2. promoted' \subseteq 0 .. nextEvent - 1 /\ queue' \subseteq DOMAIN episodes
    BY <1>1, <1>2, <1>4 DEF MemoryTypeOK, id
  <2> QED
    BY <1>2, <2>1, <2>2 DEF MemoryTypeOK, HandleTable
<1>11. FactsFound'
  <2>1. /\ DOMAIN semanticHandles \subseteq DOMAIN facts
        /\ \A f \in DOMAIN facts : facts'[f].key = facts[f].key
    BY <1>2, <1>5 DEF Merged, MemoryTypeOK
  <2> QED
    BY <1>2, <2>1 DEF FactsFound, HandlesSound
<1>12. EpisodesFound' /\ ProceduresFound' /\ HandlesDistinct'
  BY <1>2 DEF HandlesSound, EpisodesFound, ProceduresFound, ArenaFull, HandlesDistinct,
     handles
<1> QED
  BY <1>2, <1>8, <1>9, <1>10, <1>11, <1>12 DEF MemoryInv, HandlesSound

\* A fact without a handle gets one, or the call raises.
LEMMA HandOutStep == MemoryInv /\ HandOut => MemoryInv'
<1> SUFFICES ASSUME MemoryInv, HandOut PROVE MemoryInv'
  OBVIOUS
<1>1. PICK f \in Handless :
         /\ arena' = Written(facts[f].key)
         /\ semanticHandles' = Handed(semanticHandles, f)
  BY DEF HandOut
<1>2. /\ MemoryTypeOK /\ IdsPast /\ HandlesSound /\ SourcesAlike /\ FactsApart
      /\ SourcesKept(reported) /\ SourcesKept(promoted)
      /\ pc = "consolidate" /\ queue = {} /\ queue' = {}
      /\ pc' = IF ArenaFull THEN "ready" ELSE pc
      /\ promoted' = IF ArenaFull THEN {} ELSE promoted
      /\ UNCHANGED <<episodes, nextEvent, facts, procedures, episodicHandles,
                     proceduralHandles, reported>>
  BY DEF HandOut, MemoryInv, tiers
<1>3. f \in DOMAIN facts /\ f \notin DOMAIN semanticHandles /\ facts[f].key \in Value
  <2>1. f \in DOMAIN facts /\ f \notin DOMAIN semanticHandles
    BY DEF Handless
  <2>2. facts[f] \in Fact
    BY <1>2, <2>1 DEF MemoryTypeOK
  <2> QED
    BY <2>1, <2>2 DEF Fact, Value
<1>4. /\ Grown(arena')
      /\ HandedOver(semanticHandles, semanticHandles', f, facts[f].key)
  BY <1>1, <1>2, <1>3, WrittenFacts, HandedFacts DEF MemoryTypeOK
<1>5. /\ FactsFound'
      /\ semanticHandles' \in [DOMAIN semanticHandles' -> 1 .. Len(arena')]
      /\ DOMAIN semanticHandles' \subseteq DOMAIN facts'
  BY <1>1, <1>2, <1>3, <1>4, FactHanded DEF HandlesSound
<1>6. MemoryTypeOK'
  <2>1. /\ episodicHandles \in [DOMAIN episodicHandles -> 1 .. Len(arena')]
        /\ proceduralHandles \in [DOMAIN proceduralHandles -> 1 .. Len(arena')]
    BY <1>2, <1>4, TableKept DEF MemoryTypeOK
  <2> QED
    BY <1>2, <1>4, <1>5, <2>1 DEF MemoryTypeOK, HandleTable, Grown, Value
<1>7. HandlesDistinct'
  <2>1. \A u \in 1 .. 3 :
           handles'[u] = IF u = 2 THEN Handed(handles[u], f) ELSE handles[u]
    BY <1>1, <1>2 DEF handles
  <2> QED
    BY <1>2, <1>3, <2>1, DistinctKept DEF HandlesSound
<1>8. EpisodesFound' /\ ProceduresFound' /\ SourcesAlike'
  BY <1>2, <1>4, EpisodesKept, ProceduresKept, AlikeKept DEF HandlesSound
<1>9. IdsPast' /\ SourcesKept(reported)' /\ SourcesKept(promoted)' /\ FactsApart'
  BY <1>2 DEF IdsPast, SourcesKept, FactsApart
<1> QED
  BY <1>2, <1>5, <1>6, <1>7, <1>8, <1>9 DEF MemoryInv, HandlesSound

\* A step that changes nothing.
LEMMA StutterStep == MemoryInv /\ UNCHANGED vars => MemoryInv'
<1> SUFFICES ASSUME MemoryInv, UNCHANGED vars PROVE MemoryInv'
  OBVIOUS
<1>1. UNCHANGED <<episodes, nextEvent, facts, procedures, arena, episodicHandles,
                  semanticHandles, proceduralHandles, pc, queue, promoted, reported>>
  BY DEF vars, tiers, handles, consolidation
<1>2. MemoryTypeOK'
  BY <1>1 DEF MemoryInv, MemoryTypeOK, HandleTable
<1>3. EpisodesFound' /\ FactsFound' /\ ProceduresFound'
  BY <1>1 DEF MemoryInv, HandlesSound, EpisodesFound, FactsFound, ProceduresFound,
     ArenaFull, SemanticFull
<1>4. HandlesDistinct'
  BY <1>1 DEF MemoryInv, HandlesSound, HandlesDistinct, handles
<1>5. SourcesKept(reported)' /\ SourcesKept(promoted)' /\ SourcesAlike' /\ FactsApart'
  BY <1>1 DEF MemoryInv, SourcesKept, SourcesAlike, FactsApart
<1> QED
  BY <1>1, <1>2, <1>3, <1>4, <1>5 DEF MemoryInv, IdsPast, HandlesSound

\* The invariant is inductive.
LEMMA MemoryInvNext == MemoryInv /\ [Next]_vars => MemoryInv'
BY AllocateElsewhereStep, RememberEventStep, RecallStep, AssertFactStep,
   RegisterProcedureStep, QuietStep, PromoteStep, HandOutStep, StutterStep DEF Next

-----------------------------------------------------------------------------
(***************************************************************************)
(* What holds in every state.                                              *)
(***************************************************************************)

\* The inductive invariant: ids are those of the past, handles lead to what
\* they were given to, and what was promoted is kept before it is reported.
THEOREM MemoryInvariance == Spec => []MemoryInv
BY InitInv, MemoryInvNext, PTL DEF Spec

\* No store exceeds its capacity and no handle points outside of the arena,
\* in whichever order the stores fill up.
THEOREM MemoryTyped == Spec => []MemoryTypeOK
<1>1. MemoryInv => MemoryTypeOK
  BY DEF MemoryInv
<1> QED
  BY <1>1, MemoryInvariance, PTL

\* A record's handle leads to its vector and is no other record's, whatever
\* was evicted, merged or left without a handle by a call that raised.
THEOREM HandlesLeadHome == Spec => []HandlesSound
<1>1. MemoryInv => HandlesSound
  BY DEF MemoryInv
<1> QED
  BY <1>1, MemoryInvariance, PTL

\* What a consolidation returned as promoted is a source of a fact for good,
\* and a fact is alike to what each of its sources said and to no other fact.
THEOREM PromotedStaysKnown == Spec => []PromotionsStand
<1>1. MemoryInv => PromotionsStand
  BY DEF MemoryInv, PromotionsStand
<1> QED
  BY <1>1, MemoryInvariance, PTL

=============================================================================
