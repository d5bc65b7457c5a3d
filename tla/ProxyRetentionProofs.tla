------------------------ MODULE ProxyRetentionProofs ------------------------
(***************************************************************************)
(* What ProxyRetention keeps for any candidates, budgets, seeds and        *)
(* crashes, and that retention happens once.                               *)
(***************************************************************************)
EXTENDS ProxyRetention, TLAPS

-----------------------------------------------------------------------------
(***************************************************************************)
(* The inductive invariant, in parts.                                      *)
(***************************************************************************)
\* What is in memory is backed too.
MemoryBacked == pc # "idle" => Backed(mem)

\* The proxy at work is of the generation to come, then of the last one.
Dated ==
    /\ pc \in Ranked \ {"save accepted"} =>
           proxy.generation = Len(mem.accepted) + 1
    /\ pc = "save accepted" =>
           mem.accepted # <<>> /\ proxy.generation = Len(mem.accepted)

\* How far the memory is ahead of a readable file.
InStep ==
    pc # "idle" /\ disk # Torn =>
        /\ pc # "save accepted" =>
               mem.accepted = disk.accepted /\ mem.retained = disk.retained
        /\ pc = "save accepted" =>
               /\ Len(mem.accepted) = Len(disk.accepted) + 1
               /\ disk.retained # NoProxy => mem.retained = disk.retained

\* The judgments on disk are of generations on disk.
Consulted ==
    /\ consulted \subseteq SeedLabels
    /\ disk = Torn => consulted = {}
    /\ disk # Torn =>
           \A l \in consulted : l.proxy.generation <= Len(disk.accepted)

RetentionInv ==
    /\ RetentionTypeOK
    /\ RetainedBacked
    /\ MemoryBacked
    /\ Dated
    /\ InStep
    /\ Consulted

-----------------------------------------------------------------------------
(***************************************************************************)
(* Histories.                                                              *)
(***************************************************************************)
LEMMA EmptyIsHistory ==
    ASSUME NEW past \in Seq(Candidate)
    PROVE  History(past) \in Histories /\ Backed(History(past))
  BY DEF History, Histories, Backed

LEMMA FreshIsHistory == History(<<>>) \in Histories /\ Backed(History(<<>>))
<1>1. <<>> \in Seq(Candidate)
  OBVIOUS
<1> QED
  BY <1>1, EmptyIsHistory

LEMMA Lengths ==
    ASSUME NEW h \in Histories
    PROVE  Len(h.accepted) \in Nat
<1>1. h.accepted \in Seq(Candidate)
  BY DEF Histories
<1> QED
  BY <1>1

LEMMA InventedIsProxy ==
    ASSUME NEW h \in Histories, NEW tasks \in 1 .. MaxTasks
    PROVE  /\ Invented(h, tasks) \in Proxies
           /\ Invented(h, tasks).generation = Len(h.accepted) + 1
<1>1. /\ Len(h.accepted) \in Nat
      /\ h.rejected \in Nat /\ h.explored \in Nat /\ h.archive \in Nat
  BY DEF Histories
<1>2. StateSize(h) \in Nat /\ Archived(h) \in Nat
  BY <1>1 DEF StateSize, Archived
<1> QED
  BY <1>1, <1>2 DEF Invented, Proxies, NextGenerationOf

\* A history that grows elsewhere stays backed.
LEMMA BackedElsewhere ==
    ASSUME NEW h, NEW g, Backed(h), g.accepted = h.accepted,
           g.retained = h.retained, g.events = h.events
    PROVE  Backed(g)
  BY DEF Backed

(***************************************************************************)
(* The heart: a proxy of a later generation has seeds of its own, on which *)
(* the retained one was never scored.                                      *)
(***************************************************************************)
LEMMA OwnSeeds ==
    ASSUME RetentionInv, pc = "judge", mem.retained # NoProxy
    PROVE  ~Promoted(mem.retained)
<1>1. mem.retained.proxy.generation \in DOMAIN mem.accepted
  BY DEF RetentionInv, MemoryBacked, Backed
<1>2. proxy.generation = Len(mem.accepted) + 1
  BY DEF RetentionInv, Dated, Ranked
<1>3. mem.accepted \in Seq(Candidate)
  BY DEF RetentionInv, RetentionTypeOK, Histories
<1>4. proxy # mem.retained.proxy
  BY <1>1, <1>2, <1>3
<1>5. [proxy |-> proxy, favored |-> favored, half |-> 1] \in Labels(proxy, favored)
  BY DEF Labels
<1>6. \A l \in Labels(mem.retained.proxy, mem.retained.favored) :
          l.proxy = mem.retained.proxy
  BY DEF Labels
<1>7. ~(Labels(proxy, favored) \subseteq
            Labels(mem.retained.proxy, mem.retained.favored))
  BY <1>4, <1>5, <1>6
<1> QED
  BY <1>7 DEF Promoted

\* What a judgment leaves in memory.
LEMMA Judgment ==
    ASSUME RetentionInv, pc = "judge"
    PROVE  /\ Judged(mem) \in Histories
           /\ Backed(Judged(mem))
           /\ Judged(mem).accepted = Append(mem.accepted, favored)
           /\ mem.retained # NoProxy => Judged(mem).retained = mem.retained
<1> DEFINE event == [proxy |-> proxy, results |-> results]
           better == [proxy |-> proxy, results |-> results,
                      generation |-> proxy.generation, favored |-> favored]
           kept == [mem EXCEPT !.retained = better, !.events = Append(@, event)]
<1>1. /\ mem \in Histories /\ proxy \in Proxies /\ favored \in Candidate
      /\ results \in Results
  BY DEF RetentionInv, RetentionTypeOK, Ranked
<1>2. event \in Events /\ better \in Retained
  BY <1>1 DEF Events, Retained, Proxies
<1>3. /\ mem.accepted \in Seq(Candidate) /\ mem.events \in Seq(Events)
      /\ Len(mem.accepted) \in Nat
  BY <1>1 DEF Histories
<1>4. proxy.generation = Len(mem.accepted) + 1
  BY DEF RetentionInv, Dated, Ranked
<1>5. /\ Append(mem.accepted, favored) \in Seq(Candidate)
      /\ Append(mem.accepted, favored)[proxy.generation] = favored
      /\ proxy.generation \in DOMAIN Append(mem.accepted, favored)
  BY <1>1, <1>3, <1>4
<1>6. CASE Promoted(mem.retained)
  <2>1. mem.retained = NoProxy /\ \A half \in 1 .. 2 : results[half] > 0
    BY <1>6, OwnSeeds DEF Promoted
  <2>2. Judged(mem) = [kept EXCEPT !.accepted = Append(@, favored)]
    BY <1>6 DEF Judged
  <2>3. Append(mem.events, event) \in Seq(Events)
    BY <1>2, <1>3
  <2>4. Judged(mem) =
            [accepted |-> Append(mem.accepted, favored), rejected |-> mem.rejected,
             explored |-> mem.explored, archive |-> mem.archive,
             retained |-> better, events |-> Append(mem.events, event)]
    BY <1>1, <2>2 DEF Histories
  <2>5. Judged(mem) \in Histories
    BY <1>1, <1>2, <1>5, <2>3, <2>4 DEF Histories
  <2>6. /\ Len(Append(mem.events, event)) > 0
        /\ Append(mem.events, event)[Len(Append(mem.events, event))] = event
    BY <1>3
  <2>7. Backed(Judged(mem))
    BY <1>5, <2>1, <2>4, <2>6 DEF Backed
  <2> QED
    BY <2>1, <2>4, <2>5, <2>7
<1>7. CASE ~Promoted(mem.retained)
  <2>1. Judged(mem) = [mem EXCEPT !.accepted = Append(@, favored)]
    BY <1>7 DEF Judged
  <2>2. Judged(mem) =
            [accepted |-> Append(mem.accepted, favored), rejected |-> mem.rejected,
             explored |-> mem.explored, archive |-> mem.archive,
             retained |-> mem.retained, events |-> mem.events]
    BY <1>1, <2>1 DEF Histories
  <2>3. Judged(mem) \in Histories
    BY <1>1, <1>5, <2>2 DEF Histories
  <2>4. Backed(mem)
    BY DEF RetentionInv, MemoryBacked
  <2>5. \A i \in DOMAIN mem.accepted :
            /\ i \in DOMAIN Append(mem.accepted, favored)
            /\ Append(mem.accepted, favored)[i] = mem.accepted[i]
    BY <1>1, <1>3
  <2>6. Backed(Judged(mem))
    BY <2>2, <2>4, <2>5 DEF Backed
  <2> QED
    BY <2>2, <2>3, <2>6
<1> QED
  BY <1>6, <1>7

-----------------------------------------------------------------------------
(***************************************************************************)
(* The invariant holds at the start and in every step.                     *)
(***************************************************************************)
LEMMA InitHolds == Init => RetentionInv
<1> SUFFICES ASSUME Init PROVE RetentionInv
  OBVIOUS
<1>1. <<>> \in Seq(Candidate) /\ Past \in Seq(Candidate)
  BY RetentionAssumption
<1>2. /\ History(Past) \in Histories /\ Backed(History(Past))
      /\ History(<<>>) \in Histories
  BY <1>1, EmptyIsHistory
<1>3. RetentionTypeOK
  BY <1>2 DEF Init, RetentionTypeOK, Ranked
<1>4. RetainedBacked /\ MemoryBacked
  BY <1>2 DEF Init, RetainedBacked, MemoryBacked
<1>5. Dated /\ InStep
  BY DEF Init, Dated, InStep, Ranked
<1>6. Consulted
  BY DEF Init, Consulted
<1> QED
  BY <1>3, <1>4, <1>5, <1>6 DEF RetentionInv

LEMMA StartKeeps == RetentionInv /\ Start => RetentionInv'
<1> SUFFICES ASSUME RetentionInv, Start PROVE RetentionInv'
  OBVIOUS
<1>1. /\ History(<<>>) \in Histories /\ Backed(History(<<>>))
  BY FreshIsHistory
<1>2. /\ mem' \in Histories /\ Backed(mem')
      /\ disk # Torn => mem' = disk
  BY <1>1 DEF Start, Loaded, RetentionInv, RetentionTypeOK, RetainedBacked
<1>3. RetentionTypeOK'
  BY <1>2, RetentionAssumption DEF Start, RetentionInv, RetentionTypeOK, Ranked, Running
<1>4. RetainedBacked' /\ MemoryBacked'
  BY <1>2 DEF Start, RetentionInv, RetainedBacked, MemoryBacked
<1>5. Dated' /\ InStep' /\ Consulted'
  BY <1>2 DEF Start, RetentionInv, Dated, InStep, Consulted, Ranked
<1> QED
  BY <1>3, <1>4, <1>5 DEF RetentionInv

LEMMA RankKeeps ==
    ASSUME RetentionInv, NEW offered \in SUBSET Candidate,
           NEW tasks \in 1 .. MaxTasks, Rank(offered, tasks)
    PROVE  RetentionInv'
<1>1. /\ proxy' \in Proxies
      /\ proxy'.generation = Len(mem.accepted) + 1
  BY InventedIsProxy DEF Rank, RetentionInv, RetentionTypeOK
<1>2. RetentionTypeOK'
  BY <1>1, RetentionAssumption DEF Rank, RetentionInv, RetentionTypeOK, Ranked, Running
<1>3. RetainedBacked' /\ MemoryBacked'
  BY DEF Rank, RetentionInv, RetainedBacked, MemoryBacked
<1>4. Dated' /\ InStep' /\ Consulted'
  BY <1>1 DEF Rank, RetentionInv, Dated, InStep, Consulted, Ranked
<1> QED
  BY <1>2, <1>3, <1>4 DEF RetentionInv

\* An attempt adds signatures, and a record if it is turned down.
LEMMA AttemptKeeps ==
    ASSUME RetentionInv, NEW c \in Candidate, Reject(c) \/ Accept(c)
    PROVE  RetentionInv'
<1>1. /\ pc = "candidate" /\ budget > 0
      /\ mem \in Histories /\ proxy \in Proxies
  BY DEF Reject, Accept, MayAttempt, RetentionInv, RetentionTypeOK, Ranked
<1>2. Signed \in Histories
  <2>1. /\ mem.archive \in Nat /\ proxy.tasks \in 1 .. MaxTasks
        /\ mem.archive + proxy.tasks \in Nat
    BY <1>1, RetentionAssumption DEF Histories, Proxies
  <2>2. Signed =
            [accepted |-> mem.accepted, rejected |-> mem.rejected,
             explored |-> mem.explored, archive |-> mem.archive + proxy.tasks,
             retained |-> mem.retained, events |-> mem.events]
    BY <1>1 DEF Signed, Histories
  <2> QED
    BY <1>1, <2>1, <2>2 DEF Histories
<1>3. /\ mem' \in Histories
      /\ mem'.accepted = mem.accepted /\ mem'.retained = mem.retained
      /\ mem'.events = mem.events
  <2>1. Signed.accepted = mem.accepted /\ Signed.retained = mem.retained
        /\ Signed.events = mem.events
    BY <1>1 DEF Signed, Histories
  <2>2. CASE Accept(c)
    BY <1>2, <2>1, <2>2 DEF Accept
  <2>3. CASE Reject(c)
    <3>1. mem' =
              [accepted |-> Signed.accepted, rejected |-> Signed.rejected + 1,
               explored |-> Signed.explored, archive |-> Signed.archive,
               retained |-> Signed.retained, events |-> Signed.events]
      BY <1>2, <2>3 DEF Reject, Histories
    <3>2. Signed.rejected + 1 \in Nat
      BY <1>2 DEF Histories
    <3> QED
      BY <1>2, <2>1, <3>1, <3>2 DEF Histories
  <2> QED
    BY <2>2, <2>3
<1>4. Backed(mem')
  BY <1>1, <1>3, BackedElsewhere DEF RetentionInv, MemoryBacked
<1>5. RetentionTypeOK'
  <2>1. budget - 1 \in Nat
    BY <1>1 DEF RetentionInv, RetentionTypeOK
  <2>2. CASE Reject(c)
    BY <1>1, <1>3, <2>1, <2>2
    DEF Reject, RetentionInv, RetentionTypeOK, Ranked, Running
  <2>3. CASE Accept(c)
    BY <1>1, <1>3, <2>1, <2>3
    DEF Accept, RetentionInv, RetentionTypeOK, Ranked, Running
  <2> QED
    BY <2>2, <2>3
<1>6. RetainedBacked' /\ MemoryBacked'
  BY <1>4 DEF Reject, Accept, RetentionInv, RetainedBacked, MemoryBacked
<1>7. Dated' /\ InStep' /\ Consulted'
  BY <1>1, <1>3 DEF Reject, Accept, RetentionInv, Dated, InStep, Consulted, Ranked
<1> QED
  BY <1>5, <1>6, <1>7 DEF RetentionInv

LEMMA EvaluateKeeps == RetentionInv /\ Evaluate => RetentionInv'
<1> SUFFICES ASSUME RetentionInv, Evaluate PROVE RetentionInv'
  OBVIOUS
<1>1. RetentionTypeOK'
  BY DEF Evaluate, RetentionInv, RetentionTypeOK, Ranked, Running
<1>2. RetainedBacked' /\ MemoryBacked'
  BY DEF Evaluate, RetentionInv, RetainedBacked, MemoryBacked
<1>3. Dated' /\ InStep' /\ Consulted'
  BY DEF Evaluate, RetentionInv, Dated, InStep, Consulted, Ranked
<1> QED
  BY <1>1, <1>2, <1>3 DEF RetentionInv

LEMMA JudgeKeeps == RetentionInv /\ Judge => RetentionInv'
<1> SUFFICES ASSUME RetentionInv, Judge PROVE RetentionInv'
  OBVIOUS
<1>1. /\ mem' \in Histories
      /\ Backed(mem')
      /\ mem'.accepted = Append(mem.accepted, favored)
      /\ mem.retained # NoProxy => mem'.retained = mem.retained
  BY Judgment DEF Judge
<1>2. /\ mem.accepted \in Seq(Candidate)
      /\ favored \in Candidate
  BY DEF Judge, RetentionInv, RetentionTypeOK, Histories
<1>3. Len(mem'.accepted) = Len(mem.accepted) + 1 /\ mem'.accepted # <<>>
  BY <1>1, <1>2
<1>4. RetentionTypeOK'
  BY <1>1 DEF Judge, process, RetentionInv, RetentionTypeOK, Ranked, Running
<1>5. RetainedBacked' /\ MemoryBacked'
  BY <1>1 DEF Judge, RetentionInv, RetainedBacked, MemoryBacked
<1>6. Dated' /\ InStep' /\ Consulted'
  BY <1>1, <1>3 DEF Judge, process, RetentionInv, Dated, InStep, Consulted, Ranked
<1> QED
  BY <1>4, <1>5, <1>6 DEF RetentionInv

LEMMA SaveKeeps ==
    ASSUME RetentionInv, SaveRejected \/ SaveAccepted \/ SaveExplored
    PROVE  RetentionInv'
<1>1. /\ disk' = mem /\ mem' = mem /\ mem \in Histories /\ mem # Torn
      /\ pc # "idle" /\ pc' # "idle" /\ pc' # "save accepted"
  BY MarkersAssumption DEF SaveRejected, SaveAccepted, SaveExplored, RetentionInv,
     RetentionTypeOK
<1>2. RetentionTypeOK'
  <2>1. mem' \in Histories /\ disk' \in Histories
    BY <1>1
  <2>2. CASE SaveRejected
    BY <2>1, <2>2 DEF SaveRejected, process, RetentionInv, RetentionTypeOK, Ranked, Running
  <2>3. CASE SaveAccepted
    BY <2>1, <2>3 DEF SaveAccepted, Forget, RetentionInv, RetentionTypeOK, Ranked, Running
  <2>4. CASE SaveExplored
    BY <2>1, <2>4 DEF SaveExplored, process, RetentionInv, RetentionTypeOK, Ranked, Running
  <2> QED
    BY <2>2, <2>3, <2>4
<1>3. RetainedBacked' /\ MemoryBacked'
  BY <1>1 DEF RetentionInv, RetainedBacked, MemoryBacked
<1>4. Dated'
  BY <1>1 DEF SaveRejected, SaveAccepted, SaveExplored, process, RetentionInv, Dated, Ranked
<1>5. InStep'
  BY <1>1 DEF InStep
<1>6. Consulted'
  <2>1. Len(mem.accepted) \in Nat
    BY <1>1, Lengths
  <2>2. \A l \in consulted : l.proxy.generation <= Len(mem.accepted)
    <3>1. CASE disk = Torn
      BY <3>1 DEF RetentionInv, Consulted
    <3>2. CASE disk # Torn /\ pc # "save accepted"
      BY <1>1, <3>2 DEF RetentionInv, Consulted, InStep
    <3>3. CASE disk # Torn /\ pc = "save accepted"
      <4>1. \A l \in consulted : l.proxy.generation <= Len(disk.accepted)
        BY <3>3 DEF RetentionInv, Consulted
      <4>2. Len(mem.accepted) = Len(disk.accepted) + 1
        BY <3>3 DEF RetentionInv, InStep
      <4>3. Len(disk.accepted) \in Nat
        BY <3>3, Lengths DEF RetentionInv, RetentionTypeOK
      <4>4. \A l \in consulted : l \in SeedLabels
        BY DEF RetentionInv, Consulted
      <4> QED
        BY <4>1, <4>2, <4>3, <4>4 DEF SeedLabels, Proxies
    <3> QED
      BY <3>1, <3>2, <3>3
  <2>3. CASE SaveAccepted
    <3>1. \A l \in Labels(proxy, favored) : l.proxy.generation = Len(mem.accepted)
      BY <2>3 DEF Labels, SaveAccepted, RetentionInv, Dated
    <3>2. consulted' = consulted \cup Labels(proxy, favored)
      BY <2>3 DEF SaveAccepted
    <3>3. Labels(proxy, favored) \subseteq SeedLabels
      BY <2>3 DEF SaveAccepted, Labels, SeedLabels, RetentionInv, RetentionTypeOK, Ranked
    <3>4. \A l \in consulted' : l.proxy.generation <= Len(mem.accepted)
      BY <2>1, <2>2, <3>1, <3>2
    <3>5. consulted' \subseteq SeedLabels
      BY <3>2, <3>3 DEF RetentionInv, Consulted
    <3> QED
      BY <1>1, <3>4, <3>5 DEF Consulted
  <2>4. CASE SaveRejected \/ SaveExplored
    BY <1>1, <2>2, <2>4 DEF SaveRejected, SaveExplored, RetentionInv, Consulted
  <2> QED
    BY <2>3, <2>4
<1> QED
  BY <1>2, <1>3, <1>4, <1>5, <1>6 DEF RetentionInv

LEMMA LastGenerationKeeps == RetentionInv /\ LastGeneration => RetentionInv'
<1> SUFFICES ASSUME RetentionInv, LastGeneration PROVE RetentionInv'
  OBVIOUS
<1>1. RetentionTypeOK'
  BY DEF LastGeneration, Forget, RetentionInv, RetentionTypeOK, Ranked, Running
<1>2. RetainedBacked' /\ MemoryBacked'
  BY DEF LastGeneration, RetentionInv, RetainedBacked, MemoryBacked
<1>3. Dated' /\ InStep' /\ Consulted'
  BY DEF LastGeneration, RetentionInv, Dated, InStep, Consulted, Ranked
<1> QED
  BY <1>1, <1>2, <1>3 DEF RetentionInv

LEMMA ExploreKeeps ==
    ASSUME RetentionInv, NEW n \in 1 .. MaxExplored, Explore(n)
    PROVE  RetentionInv'
<1>1. /\ mem' \in Histories
      /\ mem'.accepted = mem.accepted /\ mem'.retained = mem.retained
      /\ mem'.events = mem.events
  <2>1. mem \in Histories /\ mem.explored + n \in Nat
    <3>1. mem \in Histories
      BY DEF RetentionInv, RetentionTypeOK
    <3>2. mem.explored \in Nat /\ n \in Nat
      BY <3>1, RetentionAssumption DEF Histories
    <3> QED
      BY <3>1, <3>2
  <2>2. mem' =
            [accepted |-> mem.accepted, rejected |-> mem.rejected,
             explored |-> mem.explored + n, archive |-> mem.archive,
             retained |-> mem.retained, events |-> mem.events]
    BY <2>1 DEF Explore, Histories
  <2> QED
    BY <2>1, <2>2 DEF Histories
<1>2. Backed(mem')
  BY <1>1, BackedElsewhere DEF Explore, RetentionInv, MemoryBacked
<1>3. RetentionTypeOK'
  BY <1>1 DEF Explore, process, RetentionInv, RetentionTypeOK, Ranked, Running
<1>4. RetainedBacked' /\ MemoryBacked'
  BY <1>2 DEF Explore, RetentionInv, RetainedBacked, MemoryBacked
<1>5. Dated' /\ InStep' /\ Consulted'
  BY <1>1 DEF Explore, RetentionInv, Dated, InStep, Consulted, Ranked
<1> QED
  BY <1>3, <1>4, <1>5 DEF RetentionInv

LEMMA FinishKeeps == RetentionInv /\ Finish => RetentionInv'
<1> SUFFICES ASSUME RetentionInv, Finish PROVE RetentionInv'
  OBVIOUS
<1>1. mem' \in Histories
  BY FreshIsHistory DEF Finish, Exit
<1>2. RetentionTypeOK'
  BY <1>1 DEF Finish, Exit, Forget, RetentionInv, RetentionTypeOK, Ranked, Running
<1>3. RetainedBacked' /\ MemoryBacked'
  BY DEF Finish, Exit, RetentionInv, RetainedBacked, MemoryBacked
<1>4. Dated' /\ InStep' /\ Consulted'
  BY DEF Finish, Exit, RetentionInv, Dated, InStep, Consulted, Ranked
<1> QED
  BY <1>2, <1>3, <1>4 DEF RetentionInv

LEMMA CrashKeeps == RetentionInv /\ Crash => RetentionInv'
<1> SUFFICES ASSUME RetentionInv, Crash PROVE RetentionInv'
  OBVIOUS
<1>1. /\ mem' \in Histories /\ disk' \in Histories \cup {Torn} /\ pc' = "idle"
      /\ \/ disk' = disk /\ consulted' = consulted
         \/ disk' = Torn /\ consulted' = {}
  BY FreshIsHistory DEF Crash, Exit, RetentionInv, RetentionTypeOK
<1>2. RetentionTypeOK'
  <2>1. /\ proxy' = NoProxy /\ favored' = NoProxy /\ untried' = {}
        /\ budget' = 0 /\ left' = 0
        /\ runs' \in Nat /\ crashes' \in Nat
    <3>1. crashes \in Nat /\ runs \in Nat /\ crashes' = crashes + 1 /\ runs' = runs
      BY DEF Crash, RetentionInv, RetentionTypeOK
    <3>2. proxy' = NoProxy /\ favored' = NoProxy /\ untried' = {} /\ budget' = 0
      BY DEF Crash, Exit, Forget
    <3>3. left' = 0
      BY DEF Crash, Exit
    <3> QED
      BY <3>1, <3>2, <3>3
  <2> QED
    BY <1>1, <2>1 DEF RetentionTypeOK, Ranked
<1>3. RetainedBacked' /\ MemoryBacked'
  BY <1>1 DEF RetentionInv, RetainedBacked, MemoryBacked
<1>4. Dated' /\ InStep'
  BY <1>1 DEF Dated, InStep, Ranked
<1>5. Consulted'
  BY <1>1 DEF RetentionInv, Consulted
<1> QED
  BY <1>2, <1>3, <1>4, <1>5 DEF RetentionInv

LEMMA StepKeeps == RetentionInv /\ [Next]_vars => RetentionInv'
<1> SUFFICES ASSUME RetentionInv, [Next]_vars PROVE RetentionInv'
  OBVIOUS
<1>1. CASE Next
  BY <1>1, StartKeeps, RankKeeps, AttemptKeeps, EvaluateKeeps, JudgeKeeps, SaveKeeps,
     LastGenerationKeeps, ExploreKeeps, FinishKeeps, CrashKeeps DEF Next
<1>2. CASE UNCHANGED vars
  <2>1. UNCHANGED <<pc, mem, disk, proxy, untried, budget, left, favored, results,
                    runs, crashes, consulted>>
    BY <1>2 DEF vars, process
  <2>2. RetentionTypeOK'
    BY <2>1 DEF RetentionInv, RetentionTypeOK
  <2>3. RetainedBacked' /\ MemoryBacked' /\ Dated' /\ InStep' /\ Consulted'
    BY <2>1 DEF RetentionInv, RetainedBacked, MemoryBacked, Dated, InStep, Consulted
  <2> QED
    BY <2>2, <2>3 DEF RetentionInv
<1> QED
  BY <1>1, <1>2

-----------------------------------------------------------------------------
(***************************************************************************)
(* RetentionInv is an invariant: the judgment, memory and file, and the    *)
(* generations of proxies agree over any number of runs and crashes.       *)
(***************************************************************************)
THEOREM RetentionInvariance == Spec => []RetentionInv
  BY InitHolds, StepKeeps, PTL DEF Spec

(***************************************************************************)
(* Types, for any candidates and budgets of run.                           *)
(***************************************************************************)
THEOREM RetentionTypes == Spec => []RetentionTypeOK
<1>1. RetentionInv => RetentionTypeOK
  BY DEF RetentionInv
<1> QED
  BY <1>1, RetentionInvariance, PTL

(***************************************************************************)
(* A saved retained proxy always has the acceptance and the event it came  *)
(* from (save_state after the judgment and after the acceptance).          *)
(***************************************************************************)
THEOREM BackingStands == Spec => []RetainedBacked
<1>1. RetentionInv => RetainedBacked
  BY DEF RetentionInv
<1> QED
  BY <1>1, RetentionInvariance, PTL

(***************************************************************************)
(* proxy_unseen_seed_labels: the labels of a judgment were never those of  *)
(* one on disk.                                                            *)
(***************************************************************************)
THEOREM SeedsStayUnseen == Spec => []SeedsUnseen
<1>1. RetentionInv => SeedsUnseen
  <2> SUFFICES ASSUME RetentionInv, pc = "delayed", NEW l \in Labels(proxy, favored),
                      l \in consulted
               PROVE  FALSE
    BY DEF SeedsUnseen
  <2>1. l.proxy.generation = Len(mem.accepted) + 1
    BY DEF Labels, RetentionInv, Dated, Ranked
  <2>2. disk # Torn /\ l.proxy.generation <= Len(disk.accepted)
    BY DEF RetentionInv, Consulted
  <2>3. mem.accepted = disk.accepted /\ Len(mem.accepted) \in Nat
    BY <2>2 DEF RetentionInv, InStep, RetentionTypeOK, Histories
  <2> QED
    BY <2>1, <2>2, <2>3
<1> QED
  BY <1>1, RetentionInvariance, PTL

LEMMA RetentionStep ==
    ASSUME RetentionInv, [Next]_vars, disk # Torn, disk' # Torn,
           disk.retained # NoProxy
    PROVE  disk'.retained = disk.retained
<1>1. CASE SaveRejected \/ SaveAccepted \/ SaveExplored
  <2>1. disk' = mem /\ pc # "idle"
    BY <1>1 DEF SaveRejected, SaveAccepted, SaveExplored
  <2> QED
    BY <2>1 DEF RetentionInv, InStep
<1>2. CASE Next /\ ~(SaveRejected \/ SaveAccepted \/ SaveExplored)
  BY <1>2 DEF Next, Start, Rank, Reject, Accept, Evaluate, Judge, LastGeneration,
     Explore, Finish, Crash
<1>3. CASE UNCHANGED vars
  BY <1>3 DEF vars
<1> QED
  BY <1>1, <1>2, <1>3

(***************************************************************************)
(* The first proxy retained is the last, for any candidates and scores.    *)
(***************************************************************************)
THEOREM Plateau == Spec => RetainedForGood
<1>1. RetentionInv /\ [Next]_vars
      => [disk # Torn /\ disk' # Torn /\ disk.retained # NoProxy
          => disk'.retained = disk.retained]_vars
  BY RetentionStep
<1> QED
  BY <1>1, RetentionInvariance, PTL DEF Spec, RetainedForGood
=============================================================================
