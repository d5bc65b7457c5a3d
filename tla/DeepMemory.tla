----------------------------- MODULE DeepMemory -----------------------------
(***************************************************************************)
(* The three-tier memory (shared/deep_memory.py) and the bridge that gives *)
(* each record a handle in the arena shared with the rest of the process   *)
(* (bridges/memory_architecture_bridge.py, shared/arena_manager.py).       *)
(*                                                                         *)
(* Every call is synchronous, but none is all or nothing: a record is      *)
(* stored before its handle is allocated, a consolidation asserts facts    *)
(* one by one and hands out handles afterwards, and each of these steps    *)
(* raises when a store is full.  Episodes are evicted, facts are merged    *)
(* with facts that are almost the same, handles are never given back.      *)
(*                                                                         *)
(* What the encoder finds alike is a relation on keys, not an equivalence. *)
(* How a query ranks records is left open.                                 *)
(***************************************************************************)
EXTENDS Integers, FiniteSets, SequencesExt

CONSTANTS
    Contents, Subjects, Triggers,
    Alike,              \* pairs of keys with a cosine of at least 0.98
    EpisodicCap, SemanticCap, ProceduralCap, ArenaCap,
    Threshold,          \* rehearsals that make an episode a candidate
    Elsewhere,          \* what other components write to the arena
    MaxEvents,          \* bound: events stored
    MaxRehearsals       \* bound: rehearsals of an episode

\* A fact's text is "subject: fact".
Key == Subjects \X Contents

ASSUME MemoryAssumption ==
    /\ Alike \subseteq Key \X Key
    /\ \A k, l \in Key : <<k, l>> \in Alike => <<l, k>> \in Alike
    /\ \A k \in Key : <<k, k>> \in Alike        \* vectors have length one
    /\ EpisodicCap \in Nat \ {0} /\ SemanticCap \in Nat \ {0}
    /\ ProceduralCap \in Nat \ {0} /\ ArenaCap \in Nat \ {0}
    /\ Threshold \in Nat /\ MaxEvents \in Nat /\ MaxRehearsals \in Nat
    /\ Elsewhere \notin Contents \cup Key \cup Triggers

VARIABLES
    episodes,       \* EpisodicMemory._records
    nextEvent,      \* EpisodicMemory._next_id
    facts,          \* SemanticMemory._records: a fact's id is its place
    procedures,     \* ProceduralMemory._records, likewise
    arena,          \* what was written to each handle of the CCE arena
    episodicHandles, semanticHandles, proceduralHandles,
    pc,             \* "ready" for a call, or inside of "consolidate"
    queue,          \* places of the candidates still to be promoted
    promoted,       \* ids promoted by this consolidation
    reported        \* ids that consolidations have returned

tiers == <<episodes, nextEvent, facts, procedures>>
handles == <<episodicHandles, semanticHandles, proceduralHandles>>
consolidation == <<pc, queue, promoted, reported>>
vars == <<tiers, arena, handles, consolidation>>

Init ==
    /\ episodes = <<>> /\ nextEvent = 0 /\ facts = <<>> /\ procedures = <<>>
    /\ arena = <<>>
    /\ episodicHandles = <<>> /\ semanticHandles = <<>> /\ proceduralHandles = <<>>
    /\ pc = "ready" /\ queue = {} /\ promoted = {} /\ reported = {}

(***************************************************************************)
(* ArenaManager.alloc_cce: the next handle, or an exception.               *)
(***************************************************************************)
ArenaFull == Len(arena) >= ArenaCap

\* The arena, and a tier's table of handles, after a record was to get one.
Written(value) == IF ArenaFull THEN arena ELSE Append(arena, value)

Handed(table, id) ==
    IF ArenaFull THEN table
    ELSE [r \in DOMAIN table \cup {id} |->
             IF r = id THEN Len(arena) + 1 ELSE table[r]]

\* Any other user of the arena: concepts, skills, vectors of the core.
AllocateElsewhere ==
    /\ pc = "ready"
    /\ ~ArenaFull
    /\ arena' = Append(arena, Elsewhere)
    /\ UNCHANGED <<tiers, handles, consolidation>>

(***************************************************************************)
(* remember_event.  At capacity one of the least rehearsed episodes goes;  *)
(* which of them is a matter of the clock.  The episode stays, and the     *)
(* evicted one is gone, also when there is no handle for it.               *)
(***************************************************************************)
LeastRehearsed ==
    {i \in DOMAIN episodes :
        \A j \in DOMAIN episodes : episodes[i].rehearsals <= episodes[j].rehearsals}

\* Mutant of Remaining: the store makes room one episode late.
RemainingLate ==
    IF Len(episodes) <= EpisodicCap THEN {episodes}
    ELSE {RemoveAt(episodes, i) : i \in LeastRehearsed}

Remaining ==
    IF Len(episodes) < EpisodicCap THEN {episodes}
    ELSE {RemoveAt(episodes, i) : i \in LeastRehearsed}

\* Mutant of EventId: an episode is numbered by its place.
EventIdByPlace(rest) == Len(rest)

\* Ids of evicted episodes are not used again.
EventId(rest) == nextEvent

RememberEvent ==
    /\ pc = "ready"
    /\ nextEvent < MaxEvents
    /\ \E content \in Contents, subject \in Subjects, rest \in Remaining :
          /\ episodes' = Append(rest, [id |-> EventId(rest), content |-> content,
                                       subject |-> subject, rehearsals |-> 0])
          /\ arena' = Written(content)
          /\ episodicHandles' = Handed(episodicHandles, EventId(rest))
    /\ nextEvent' = nextEvent + 1
    /\ UNCHANGED <<facts, procedures, semanticHandles, proceduralHandles, consolidation>>

\* recall: the best k are rehearsed.
Recall ==
    /\ pc = "ready"
    /\ \E best \in SUBSET DOMAIN episodes :
          /\ best # {}
          /\ \A i \in best : episodes[i].rehearsals < MaxRehearsals
          /\ episodes' = [i \in DOMAIN episodes |->
                             IF i \in best
                             THEN [episodes[i] EXCEPT !.rehearsals = @ + 1]
                             ELSE episodes[i]]
    /\ UNCHANGED <<nextEvent, facts, procedures, arena, handles, consolidation>>

(***************************************************************************)
(* SemanticMemory.assert_fact: the first fact that is alike takes the      *)
(* sources, otherwise there is one more fact.                              *)
(***************************************************************************)
SemanticFull == Len(facts) >= SemanticCap

\* Mutant of Existing: facts of one subject are taken for one.
ExistingOfSubject(key) == SelectInSeq(facts, LAMBDA fact : fact.key[1] = key[1])

Existing(key) == SelectInSeq(facts, LAMBDA fact : <<fact.key, key>> \in Alike)

Asserted(key, sources) ==
    IF Existing(key) = 0
    THEN Append(facts, [key |-> key, sources |-> sources])
    ELSE [facts EXCEPT ![Existing(key)].sources = @ \cup sources]

FactId(key) == IF Existing(key) = 0 THEN Len(facts) + 1 ELSE Existing(key)

\* At capacity assert_fact raises, also for a fact that is already there.
AssertFact ==
    /\ pc = "ready"
    /\ ~SemanticFull
    /\ \E key \in Key :
          /\ facts' = Asserted(key, {})
          /\ IF FactId(key) \in DOMAIN semanticHandles
             THEN UNCHANGED <<arena, semanticHandles>>
             ELSE /\ arena' = Written(facts'[FactId(key)].key)
                  /\ semanticHandles' = Handed(semanticHandles, FactId(key))
    /\ UNCHANGED <<episodes, nextEvent, procedures, episodicHandles, proceduralHandles,
                   consolidation>>

\* register_procedure; at capacity nothing changes.
RegisterProcedure ==
    /\ pc = "ready"
    /\ Len(procedures) < ProceduralCap
    /\ \E trigger \in Triggers :
          /\ procedures' = Append(procedures, trigger)
          /\ arena' = Written(trigger)
    /\ proceduralHandles' = Handed(proceduralHandles, Len(procedures) + 1)
    /\ UNCHANGED <<episodes, nextEvent, facts, episodicHandles, semanticHandles, consolidation>>

(***************************************************************************)
(* consolidate.  The candidates are promoted in order and stay where they  *)
(* are; then every fact without a handle is given one, whoever asserted    *)
(* it.                                                                     *)
(***************************************************************************)
BeginConsolidation ==
    /\ pc = "ready"
    /\ queue' = {i \in DOMAIN episodes : episodes[i].rehearsals >= Threshold}
    /\ promoted' = {}
    /\ pc' = "consolidate"
    /\ UNCHANGED <<tiers, arena, handles, reported>>

KeyOf(episode) == <<episode.subject, episode.content>>

Promote ==
    /\ pc = "consolidate"
    /\ ~SemanticFull
    /\ \E i \in queue :
          /\ \A j \in queue : i <= j
          /\ facts' = Asserted(KeyOf(episodes[i]), {episodes[i].id})
          /\ promoted' = promoted \cup {episodes[i].id}
          /\ queue' = queue \ {i}
    /\ UNCHANGED <<episodes, nextEvent, procedures, arena, handles, pc, reported>>

\* assert_fact raises, and the facts of this call are left without handles.
PromotionFails ==
    /\ pc = "consolidate"
    /\ queue # {}
    /\ SemanticFull
    /\ pc' = "ready"
    /\ queue' = {}
    /\ promoted' = {}
    /\ UNCHANGED <<tiers, arena, handles, reported>>

Handless == DOMAIN facts \ DOMAIN semanticHandles

\* Facts are given handles in order; allocation may raise.
HandOut ==
    /\ pc = "consolidate"
    /\ queue = {}
    /\ \E f \in Handless :
          /\ \A other \in Handless : f <= other
          /\ arena' = Written(facts[f].key)
          /\ semanticHandles' = Handed(semanticHandles, f)
    /\ pc' = IF ArenaFull THEN "ready" ELSE pc
    /\ promoted' = IF ArenaFull THEN {} ELSE promoted
    /\ UNCHANGED <<tiers, episodicHandles, proceduralHandles, queue, reported>>

ReportConsolidation ==
    /\ pc = "consolidate"
    /\ queue = {}
    /\ Handless = {}
    /\ reported' = reported \cup promoted
    /\ promoted' = {}
    /\ pc' = "ready"
    /\ UNCHANGED <<tiers, arena, handles, queue>>

Next ==
    \/ AllocateElsewhere
    \/ RememberEvent \/ Recall
    \/ AssertFact \/ RegisterProcedure
    \/ BeginConsolidation \/ Promote \/ PromotionFails \/ HandOut \/ ReportConsolidation

Spec == Init /\ [][Next]_vars

-----------------------------------------------------------------------------
Event ==
    [id : 0..MaxEvents - 1, content : Contents, subject : Subjects,
     rehearsals : 0..MaxRehearsals]

Fact ==
    [key : Key, sources : SUBSET (0..MaxEvents - 1)]

HandleTable(ids) ==
    [ids -> 1..Len(arena)]

\* Every variable has its type, no store exceeds its capacity, and only what
\* is stored, or was, has a handle.
MemoryTypeOK ==
    /\ nextEvent \in 0..MaxEvents
    /\ episodes \in Seq(Event) /\ Len(episodes) <= EpisodicCap
    /\ facts \in Seq(Fact) /\ Len(facts) <= SemanticCap
    /\ procedures \in Seq(Triggers) /\ Len(procedures) <= ProceduralCap
    /\ arena \in Seq(Contents \cup Key \cup Triggers \cup {Elsewhere})
    /\ Len(arena) <= ArenaCap
    /\ episodicHandles \in HandleTable(DOMAIN episodicHandles)
    /\ DOMAIN episodicHandles \subseteq 0..nextEvent - 1
    /\ semanticHandles \in HandleTable(DOMAIN semanticHandles)
    /\ DOMAIN semanticHandles \subseteq DOMAIN facts
    /\ proceduralHandles \in HandleTable(DOMAIN proceduralHandles)
    /\ DOMAIN proceduralHandles \subseteq DOMAIN procedures
    /\ pc \in {"ready", "consolidate"}
    /\ queue \subseteq DOMAIN episodes
    /\ promoted \cup reported \subseteq 0..nextEvent - 1

\* Between calls a record has no handle only if a store is full, and stores
\* never get emptier.
EpisodesFound ==
    \A i \in DOMAIN episodes :
        IF episodes[i].id \in DOMAIN episodicHandles
        THEN arena[episodicHandles[episodes[i].id]] = episodes[i].content
        ELSE ArenaFull

FactsFound ==
    \A f \in DOMAIN facts :
        IF f \in DOMAIN semanticHandles
        THEN arena[semanticHandles[f]] = facts[f].key
        ELSE pc = "ready" => ArenaFull \/ SemanticFull

ProceduresFound ==
    \A p \in DOMAIN procedures :
        IF p \in DOMAIN proceduralHandles
        THEN arena[proceduralHandles[p]] = procedures[p]
        ELSE ArenaFull

HandlesDistinct ==
    \A t, u \in DOMAIN handles :
        \A r \in DOMAIN handles[t], s \in DOMAIN handles[u] :
            handles[t][r] = handles[u][s] => t = u /\ r = s

(***************************************************************************)
(* A handle that is found for a record leads to that record's vector, and  *)
(* is no other record's of any tier, whatever was evicted or merged and    *)
(* whoever else uses the arena.                                            *)
(***************************************************************************)
HandlesSound ==
    EpisodesFound /\ FactsFound /\ ProceduresFound /\ HandlesDistinct

SourcesKept(ids) ==
    \A id \in ids : \E f \in DOMAIN facts : id \in facts[f].sources

SourcesAlike ==
    \A f \in DOMAIN facts : \A id \in facts[f].sources \cap DOMAIN episodicHandles :
        \E subject \in Subjects :
            <<facts[f].key, <<subject, arena[episodicHandles[id]]>>>> \in Alike

FactsApart ==
    \A f, g \in DOMAIN facts : f # g => <<facts[f].key, facts[g].key>> \notin Alike

(***************************************************************************)
(* What a consolidation has returned as promoted is known for good, though *)
(* the episode may be evicted: it is a source of a fact.  Every fact is    *)
(* alike to what each of its sources said, and to no other fact, also when *)
(* promotions that failed are repeated.                                    *)
(***************************************************************************)
PromotionsStand ==
    SourcesKept(reported) /\ SourcesAlike /\ FactsApart

=============================================================================
