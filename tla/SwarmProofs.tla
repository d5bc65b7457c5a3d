---------------------------- MODULE SwarmProofs -----------------------------
(***************************************************************************)
(* Swarm, proved for every number of agents, rounds, interval and grace:   *)
(* workers replay what the ledger says and each wall once, outsiders are   *)
(* spared until grace, drift is bounded, the wall broadcast is kept, and   *)
(* every step brings a run nearer to its end.                              *)
(***************************************************************************)
EXTENDS Swarm, SequenceTheorems, WellFoundedInduction, TLAPS

(***************************************************************************)
(* The inductive invariant.  The ledger: a wall is with its makers or with *)
(* all.  The window: since a wall that somebody misses came of age, no     *)
(* round has been one of reconciliation, so the rounds since are at most   *)
(* what round % Interval counts.  The visit: what the cursor has passed.   *)
(***************************************************************************)
LedgerOK ==
    \A i \in DOMAIN ledger :
        /\ ledger[i].makers # {}
        /\ ledger[i].applied \in {ledger[i].makers, Agents}
        /\ ledger[i].round <= round

Window ==
    Interval > 0 =>
        \A i \in DOMAIN ledger :
            ledger[i].applied # Agents /\ Aged(ledger[i])
                => round - (ledger[i].round + Grace) <= round % Interval

Visited ==
    /\ pc = "reconcile" /\ Due =>
          \A i \in DOMAIN ledger :
              i < cursor /\ Aged(ledger[i]) => ledger[i].applied = Agents
    /\ pc = "close" /\ Due =>
          \A i \in DOMAIN ledger : Aged(ledger[i]) => ledger[i].applied = Agents
    /\ pc \in {"collect", "consensus", "heretics", "close"} => cursor = 1

Distinct ==
    \A a \in Agents : \A p, q \in DOMAIN walls[a] : p # q => walls[a][p] # walls[a][q]

Held(a, i) == \E p \in DOMAIN walls[a] : walls[a][p] = i

HeldAsApplied ==
    \A a \in Agents : \A i \in DOMAIN ledger : a \in ledger[i].applied <=> Held(a, i)

InLedger == \A a \in Agents : \A p \in DOMAIN walls[a] : walls[a][p] \in DOMAIN ledger

SwarmInv ==
    /\ TypeOK
    /\ LedgerOK
    /\ SparedUntilGrace
    /\ Window
    /\ Visited
    /\ Distinct
    /\ HeldAsApplied
    /\ InLedger
    /\ LateOnlyByReconciliation

-----------------------------------------------------------------------------
(***************************************************************************)
(* Counting modulo the interval goes up by one until it comes to zero.     *)
(***************************************************************************)
LEMMA ModStep ==
    ASSUME NEW n \in Nat, NEW k \in Nat \ {0}, (n + 1) % k # 0
    PROVE  (n + 1) % k = (n % k) + 1
<1> DEFINE q == n \div k
           r == n % k
           u == (n + 1) \div k
           v == (n + 1) % k
<1>1. q \in Int /\ u \in Int /\ r \in 0..(k - 1) /\ v \in 0..(k - 1)
  OBVIOUS
<1>2. n = k * q + r /\ n + 1 = k * u + v
  OBVIOUS
<1> HIDE DEF q, r, u, v
<1>3. k * (u - q) = r + 1 - v
  BY <1>1, <1>2
<1>4. u - q = 0
  <2>1. ASSUME u - q >= 1 PROVE FALSE
    <3>1. k * (u - q) >= k
      BY <2>1, <1>1
    <3> QED
      BY <3>1, <1>1, <1>3 DEF v
  <2>2. ASSUME u - q <= -1 PROVE FALSE
    <3>1. k * (u - q) <= -k
      BY <2>2, <1>1
    <3> QED
      BY <3>1, <1>1, <1>3
  <2> QED
    BY <2>1, <2>2, <1>1
<1>5. v = r + 1
  BY <1>1, <1>3, <1>4
<1> QED
  BY <1>5 DEF v, r

Content == [round : {-1} \cup Nat, of : SUBSET Agents]
Entry == [round : Nat, makers : SUBSET Agents, applied : SUBSET Agents, about : Content]

(***************************************************************************)
(* What the type invariant says of one entry and of one agent's walls.     *)
(***************************************************************************)
LEMMA LedgerTypes ==
    ASSUME TypeOK
    PROVE  /\ Len(ledger) \in Nat
           /\ DOMAIN ledger = 1..Len(ledger)
           /\ \A i \in DOMAIN ledger :
                 /\ ledger[i] \in Entry
                 /\ ledger[i].round \in Nat
                 /\ ledger[i].makers \subseteq Agents
                 /\ ledger[i].applied \subseteq Agents
                 /\ ledger[i].about \in Content
<1>1. ledger \in Seq(Entry)
  BY DEF TypeOK, Entry, Content
<1>2. \A i \in DOMAIN ledger : ledger[i] \in Entry
  BY <1>1
<1>3. Len(ledger) \in Nat /\ DOMAIN ledger = 1..Len(ledger)
  BY <1>1
<1> QED
  BY <1>2, <1>3 DEF Entry

LEMMA AppendTypes ==
    ASSUME NEW s \in Seq(Nat), NEW e \in Nat
    PROVE  /\ Append(s, e) \in Seq(Nat)
           /\ Len(s) \in Nat
           /\ DOMAIN s = 1..Len(s)
           /\ DOMAIN Append(s, e) = 1..(Len(s) + 1)
           /\ \A p \in 1..Len(s) : Append(s, e)[p] = s[p]
           /\ Append(s, e)[Len(s) + 1] = e
  OBVIOUS

(***************************************************************************)
(* The two steps that touch the walls.  A new wall goes to its makers and  *)
(* takes the next place; an entry of age goes to those that miss it.       *)
(***************************************************************************)
LEMMA ContradictedKeeps ==
    ASSUME SwarmInv, NEW makers \in SUBSET Baseline, NEW folded \in BOOLEAN,
           Contradicted(makers, folded)
    PROVE  SwarmInv'
<1> DEFINE n == Len(ledger)
           new == [round |-> round, makers |-> makers, applied |-> makers,
                   about |-> VError(makers, folded)]
<1> USE DEF SwarmInv
<1>1. /\ makers \in SUBSET Agents
      /\ makers # {}
      /\ Baseline \subseteq Agents
  BY DEF Contradicted, Clique, Baseline
<1>2. /\ core' \in [round : {-1} \cup Nat, of : SUBSET Agents]
      /\ VError(makers, folded) \in [round : {-1} \cup Nat, of : SUBSET Agents]
  BY <1>1, SwarmAssumption DEF Contradicted, TypeOK, Logged, VError, NoCore
<1>3. /\ ledger' = Append(ledger, new)
      /\ n \in Nat
      /\ DOMAIN ledger = 1..n
      /\ DOMAIN ledger' = 1..(n + 1)
      /\ ledger'[n + 1] = new
      /\ \A i \in 1..n : ledger'[i] = ledger[i]
  BY DEF Contradicted, TypeOK
<1>4. \A a \in Agents :
          /\ walls[a] \in Seq(Nat)
          /\ walls'[a] = IF a \in makers THEN Append(walls[a], n + 1) ELSE walls[a]
  BY DEF Contradicted, Told, TypeOK
<1>5. \A a \in Agents :
          /\ \A p \in DOMAIN walls[a] : p \in DOMAIN walls'[a] /\ walls'[a][p] = walls[a][p]
          /\ \A p \in DOMAIN walls'[a] :
                \/ p \in DOMAIN walls[a]
                \/ a \in makers /\ walls'[a][p] = n + 1 /\ p = Len(walls[a]) + 1
          /\ a \in makers =>
                /\ Len(walls[a]) + 1 \in DOMAIN walls'[a]
                /\ walls'[a][Len(walls[a]) + 1] = n + 1
          /\ DOMAIN walls[a] = 1..Len(walls[a])
          /\ Len(walls[a]) \in Nat
  <2> TAKE a \in Agents
  <2>1. CASE a \in makers
    <3>1. walls'[a] = Append(walls[a], n + 1)
      BY <1>4, <2>1
    <3>2. walls[a] \in Seq(Nat) /\ n + 1 \in Nat
      BY <1>3, <1>4
    <3> QED
      BY <2>1, <3>1, <3>2, AppendTypes
  <2>2. CASE a \notin makers
    BY <1>3, <1>4, <2>2
  <2> QED
    BY <2>1, <2>2
<1>6. \A a \in Agents : \A p \in DOMAIN walls[a] : walls[a][p] \in 1..n
  BY <1>3 DEF InLedger
<1> HIDE DEF new, n
<1>7. TypeOK'
  <2>1. ledger' \in Seq([round : Nat, makers : SUBSET Agents, applied : SUBSET Agents,
                         about : [round : {-1} \cup Nat, of : SUBSET Agents]])
    BY <1>1, <1>2, <1>3, SwarmAssumption DEF new, TypeOK
  <2>2. walls' \in [Agents -> Seq(Nat)]
    <3>1. \A a \in Agents : walls'[a] \in Seq(Nat)
      <4> TAKE a \in Agents
      <4>1. walls[a] \in Seq(Nat) /\ n + 1 \in Nat
        BY <1>3, <1>4
      <4>2. Append(walls[a], n + 1) \in Seq(Nat)
        BY <4>1, AppendTypes
      <4> QED
        BY <1>4, <4>1, <4>2
    <3> QED
      BY <3>1 DEF Contradicted
  <2> QED
    BY <1>2, <2>1, <2>2 DEF TypeOK, Contradicted, roundVars
<1>8. LedgerOK'
  BY <1>1, <1>3, SwarmAssumption DEF LedgerOK, TypeOK, Contradicted, roundVars, new
<1>9. SparedUntilGrace'
  BY <1>3 DEF SparedUntilGrace, Contradicted, roundVars, new
<1>10. Window'
  BY <1>3, SwarmAssumption DEF Window, Aged, Contradicted, roundVars, new, TypeOK
<1>11. Visited'
  BY DEF Visited, Contradicted
<1>12. Distinct'
  <2> SUFFICES ASSUME NEW a \in Agents, NEW p \in DOMAIN walls'[a], NEW q \in DOMAIN walls'[a],
                      p # q
               PROVE  walls'[a][p] # walls'[a][q]
    BY DEF Distinct
  <2> QED
    BY <1>3, <1>5, <1>6 DEF Distinct
<1>13. HeldAsApplied'
  <2> SUFFICES ASSUME NEW a \in Agents, NEW i \in 1..(n + 1)
               PROVE  a \in ledger'[i].applied <=> Held(a, i)'
    BY <1>3 DEF HeldAsApplied
  <2>1. CASE i = n + 1
    <3>1. Held(a, i)' <=> a \in makers
      BY <1>3, <1>5, <1>6, <2>1 DEF Held
    <3> QED
      BY <1>3, <2>1, <3>1 DEF new
  <2>2. CASE i \in 1..n
    <3>1. Held(a, i)' <=> Held(a, i)
      BY <1>3, <1>5, <2>2 DEF Held
    <3> QED
      BY <1>3, <2>2, <3>1 DEF HeldAsApplied
  <2> QED
    BY <1>3, <2>1, <2>2
<1>14. InLedger'
  BY <1>3, <1>5, <1>6 DEF InLedger
<1>15. LateOnlyByReconciliation'
  <2> SUFFICES ASSUME NEW a \in Agents, NEW p \in DOMAIN walls'[a], NEW q \in DOMAIN walls'[a],
                      p < q, walls'[a][q] < walls'[a][p]
               PROVE  a \notin ledger'[walls'[a][q]].makers
    BY DEF LateOnlyByReconciliation
  <2>1. p \in DOMAIN walls[a] /\ q \in DOMAIN walls[a]
    BY <1>3, <1>5, <1>6
  <2> QED
    BY <1>3, <1>5, <1>6, <2>1 DEF LateOnlyByReconciliation
<1> QED
  BY <1>7, <1>8, <1>9, <1>10, <1>11, <1>12, <1>13, <1>14, <1>15

LEMMA ReconcileKeeps ==
    ASSUME SwarmInv, ReconcileWall
    PROVE  SwarmInv'
<1> USE DEF SwarmInv
<1>1. CASE ~Aged(ledger[cursor])
  <2>1. UNCHANGED <<pc, round, idle, heard, progress, core, ledger, walls>>
        /\ cursor' = cursor + 1
    BY <1>1 DEF ReconcileWall, roundVars
  <2>2. TypeOK'
    BY <2>1 DEF TypeOK
  <2>3. Visited'
    BY <1>1, <2>1 DEF Visited, Due, Aged, ReconcileWall, TypeOK
  <2>4. /\ LedgerOK' /\ SparedUntilGrace' /\ Window' /\ Distinct'
        /\ HeldAsApplied' /\ InLedger' /\ LateOnlyByReconciliation'
    BY <2>1 DEF LedgerOK, SparedUntilGrace, Window, Aged, Distinct, HeldAsApplied, Held,
                InLedger, LateOnlyByReconciliation
  <2> QED
    BY <2>2, <2>3, <2>4
<1>2. CASE Aged(ledger[cursor])
  <2>1. /\ cursor \in DOMAIN ledger
        /\ DOMAIN ledger' = DOMAIN ledger
        /\ ledger' = [ledger EXCEPT ![cursor] = Spread(ledger[cursor])]
        /\ ledger'[cursor].applied = Agents
        /\ \A i \in DOMAIN ledger :
              /\ ledger'[i].round = ledger[i].round
              /\ ledger'[i].makers = ledger[i].makers
              /\ ledger'[i].about = ledger[i].about
              /\ i # cursor => ledger'[i] = ledger[i]
    BY <1>2 DEF ReconcileWall, TypeOK, Spread
  <2>2. \A a \in Agents :
            /\ walls[a] \in Seq(Nat)
            /\ walls'[a] = IF a \in ledger[cursor].applied THEN walls[a]
                           ELSE Append(walls[a], cursor)
    BY <1>2 DEF ReconcileWall, Missed, TypeOK
  <2>3. UNCHANGED <<pc, round, idle, heard, progress, core>> /\ cursor' = cursor + 1
    BY DEF ReconcileWall, roundVars
  <2>4. \A a \in Agents :
            /\ \A p \in DOMAIN walls[a] :
                  p \in DOMAIN walls'[a] /\ walls'[a][p] = walls[a][p]
            /\ \A p \in DOMAIN walls'[a] :
                  \/ p \in DOMAIN walls[a]
                  \/ /\ a \notin ledger[cursor].applied
                     /\ walls'[a][p] = cursor
                     /\ p = Len(walls[a]) + 1
            /\ a \notin ledger[cursor].applied =>
                  /\ Len(walls[a]) + 1 \in DOMAIN walls'[a]
                  /\ walls'[a][Len(walls[a]) + 1] = cursor
            /\ DOMAIN walls[a] = 1..Len(walls[a])
            /\ Len(walls[a]) \in Nat
    <3> TAKE a \in Agents
    <3>1. cursor \in Nat
      BY DEF TypeOK
    <3>2. CASE a \in ledger[cursor].applied
      BY <2>2, <3>2
    <3>3. CASE a \notin ledger[cursor].applied
      <4>1. walls'[a] = Append(walls[a], cursor) /\ walls[a] \in Seq(Nat)
        BY <2>2, <3>3
      <4> QED
        BY <3>1, <3>3, <4>1, AppendTypes
    <3> QED
      BY <3>2, <3>3
  <2>5. \A a \in Agents : a \in ledger[cursor].applied <=> Held(a, cursor)
    BY <2>1 DEF HeldAsApplied
  <2>6. TypeOK'
    <3>1. ledger' \in Seq([round : Nat, makers : SUBSET Agents, applied : SUBSET Agents,
                           about : [round : {-1} \cup Nat, of : SUBSET Agents]])
      <4>1. ledger \in Seq(Entry)
        BY DEF TypeOK, Entry, Content
      <4>2. Spread(ledger[cursor]) \in Entry
        BY <2>1, LedgerTypes DEF Spread, Entry
      <4>3. [ledger EXCEPT ![cursor] = Spread(ledger[cursor])] \in Seq(Entry)
        BY <4>1, <4>2, <2>1
      <4> QED
        BY <2>1, <4>3 DEF Entry, Content
    <3>2. walls' \in [Agents -> Seq(Nat)]
      <4>0. cursor \in Nat
        BY DEF TypeOK
      <4>1. \A a \in Agents : walls'[a] \in Seq(Nat)
        <5> TAKE a \in Agents
        <5>1. walls[a] \in Seq(Nat)
          BY <2>2
        <5>2. Append(walls[a], cursor) \in Seq(Nat)
          BY <4>0, <5>1, AppendTypes
        <5> QED
          BY <2>2, <5>1, <5>2
      <4> QED
        BY <1>2, <4>1 DEF ReconcileWall
    <3> QED
      BY <2>3, <3>1, <3>2 DEF TypeOK
  <2>7. LedgerOK'
    BY <2>1, <2>3 DEF LedgerOK
  <2>8. SparedUntilGrace'
    <3> SUFFICES ASSUME NEW i \in DOMAIN ledger, ledger'[i].applied # ledger'[i].makers
                 PROVE  round >= ledger[i].round + Grace
      BY <2>1, <2>3 DEF SparedUntilGrace
    <3>1. CASE i = cursor
      <4>1. round \in Nat /\ ledger[cursor].round \in Nat /\ Grace \in Nat
        BY <2>1, LedgerTypes, SwarmAssumption DEF TypeOK
      <4>2. round - ledger[cursor].round >= Grace
        BY <1>2 DEF Aged
      <4> QED
        BY <3>1, <4>1, <4>2
    <3>2. CASE i # cursor
      BY <2>1, <3>2 DEF SparedUntilGrace
    <3> QED
      BY <3>1, <3>2
  <2>9. Window'
    BY <2>1, <2>3 DEF Window, Aged
  <2>10. Visited'
    BY <2>1, <2>3 DEF Visited, Due, Aged, ReconcileWall, TypeOK
  <2>11. Distinct'
    <3> SUFFICES ASSUME NEW a \in Agents, NEW p \in DOMAIN walls'[a],
                        NEW q \in DOMAIN walls'[a], p # q
                 PROVE  walls'[a][p] # walls'[a][q]
      BY DEF Distinct
    <3>1. CASE p \in DOMAIN walls[a] /\ q \in DOMAIN walls[a]
      BY <2>4, <3>1 DEF Distinct
    <3>2. CASE p \in DOMAIN walls[a] /\ q \notin DOMAIN walls[a]
      BY <2>4, <2>5, <3>2 DEF Held
    <3>3. CASE p \notin DOMAIN walls[a] /\ q \in DOMAIN walls[a]
      BY <2>4, <2>5, <3>3 DEF Held
    <3>4. CASE p \notin DOMAIN walls[a] /\ q \notin DOMAIN walls[a]
      BY <2>4, <3>4
    <3> QED
      BY <3>1, <3>2, <3>3, <3>4
  <2>12. HeldAsApplied'
    <3> SUFFICES ASSUME NEW a \in Agents, NEW i \in DOMAIN ledger
                 PROVE  a \in ledger'[i].applied <=> Held(a, i)'
      BY <2>1 DEF HeldAsApplied
    <3>1. CASE i = cursor
      <4>1. Held(a, i)'
        <5>1. Held(a, cursor) => \E p \in DOMAIN walls'[a] : walls'[a][p] = cursor
          BY <2>4 DEF Held
        <5>2. ~Held(a, cursor) => \E p \in DOMAIN walls'[a] : walls'[a][p] = cursor
          BY <2>4, <2>5
        <5>3. \E p \in DOMAIN walls'[a] : walls'[a][p] = i
          BY <3>1, <5>1, <5>2
        <5> QED
          BY <3>1, <5>3 DEF Held
      <4> QED
        BY <2>1, <3>1, <4>1
    <3>2. CASE i # cursor
      <4>1. Held(a, i)' <=> Held(a, i)
        BY <2>4, <3>2 DEF Held
      <4> QED
        BY <2>1, <3>2, <4>1 DEF HeldAsApplied
    <3> QED
      BY <3>1, <3>2
  <2>13. InLedger'
    BY <2>1, <2>4 DEF InLedger
  <2>14. LateOnlyByReconciliation'
    <3> SUFFICES ASSUME NEW a \in Agents, NEW p \in DOMAIN walls'[a],
                        NEW q \in DOMAIN walls'[a], p < q, walls'[a][q] < walls'[a][p]
                 PROVE  a \notin ledger'[walls'[a][q]].makers
      BY DEF LateOnlyByReconciliation
    <3>1. CASE q \in DOMAIN walls[a]
      <4>1. p \in DOMAIN walls[a]
        BY <2>4, <3>1
      <4>2. walls[a][q] \in DOMAIN ledger
        BY <3>1 DEF InLedger
      <4> QED
        BY <2>1, <2>4, <3>1, <4>1, <4>2 DEF LateOnlyByReconciliation
    <3>2. CASE q \notin DOMAIN walls[a]
      <4>1. a \notin ledger[cursor].applied /\ walls'[a][q] = cursor
        BY <2>4, <3>2
      <4>2. ledger[cursor].makers \subseteq Agents /\ a \notin ledger[cursor].makers
        BY <2>1, <4>1, LedgerTypes DEF LedgerOK
      <4> QED
        BY <2>1, <4>1, <4>2
    <3> QED
      BY <3>1, <3>2
  <2> QED
    BY <2>6, <2>7, <2>8, <2>9, <2>10, <2>11, <2>12, <2>13, <2>14
<1> QED
  BY <1>1, <1>2

(***************************************************************************)
(* The end of a round makes every wall one round older.                    *)
(***************************************************************************)
LEMMA EndRoundKeeps ==
    ASSUME SwarmInv, EndRound
    PROVE  SwarmInv'
<1> USE DEF SwarmInv
<1>1. /\ UNCHANGED <<heard, core, ledger, walls, cursor>>
      /\ round' \in {round, round + 1}
      /\ pc' \in {"done", "collect"}
      /\ pc' = "collect" => round' = round + 1 /\ round + 1 # MaxRounds
      /\ pc' = "done" => round' = round
      /\ idle' \in Nat
      /\ progress' = FALSE
      /\ pc = "close"
  BY DEF EndRound, wallVars, TypeOK
<1>2. TypeOK'
  <2>1. round \in 0 .. MaxRounds - 1 /\ MaxRounds \in Nat \ {0}
    BY SwarmAssumption DEF TypeOK
  <2>2. round' \in 0 .. MaxRounds - 1
    BY <1>1, <2>1
  <2>3. pc' \in {"collect", "consensus", "heretics", "reconcile", "close", "done", "aborted"}
    BY <1>1
  <2> QED
    BY <1>1, <2>2, <2>3 DEF TypeOK
<1>3. LedgerOK' /\ SparedUntilGrace'
  <2>1. \A i \in DOMAIN ledger : ledger[i].round \in Nat
    BY LedgerTypes
  <2> QED
    BY <1>1, <2>1, SwarmAssumption DEF LedgerOK, SparedUntilGrace, TypeOK
<1>4. Window'
  <2> SUFFICES ASSUME Interval > 0, NEW i \in DOMAIN ledger,
                      ledger[i].applied # Agents, Aged(ledger[i])'
               PROVE  round' - (ledger[i].round + Grace) <= round' % Interval
    BY <1>1 DEF Window
  <2>1. round \in Nat /\ ledger[i].round \in Nat /\ Grace \in Nat /\ Interval \in Nat \ {0}
    BY LedgerTypes, SwarmAssumption DEF TypeOK
  <2>2. CASE round' = round
    BY <1>1, <2>2 DEF Window, Aged
  <2>3. CASE round' = round + 1 /\ Aged(ledger[i])
    <3>1. ~Due
      BY <1>1, <2>3 DEF Visited
    <3>2. (round + 1) % Interval = (round % Interval) + 1
      BY <2>1, <3>1, ModStep DEF Due
    <3>3. round - (ledger[i].round + Grace) <= round % Interval
      BY <2>3 DEF Window
    <3>4. round % Interval \in Nat
      BY <2>1
    <3> QED
      BY <2>1, <2>3, <3>2, <3>3, <3>4
  <2>4. CASE round' = round + 1 /\ ~Aged(ledger[i])
    <3>1. round + 1 - ledger[i].round = Grace
      BY <1>1, <2>1, <2>4 DEF Aged
    <3>2. (round + 1) % Interval \in Nat
      BY <2>1
    <3> QED
      BY <2>1, <2>4, <3>1, <3>2
  <2> QED
    BY <1>1, <2>2, <2>3, <2>4
<1>5. Visited'
  <2>1. cursor = 1
    BY <1>1 DEF Visited, TypeOK
  <2> QED
    BY <1>1, <2>1 DEF Visited
<1>6. Distinct' /\ HeldAsApplied' /\ InLedger' /\ LateOnlyByReconciliation'
  BY <1>1 DEF Distinct, HeldAsApplied, Held, InLedger, LateOnlyByReconciliation
<1> QED
  BY <1>2, <1>3, <1>4, <1>5, <1>6

LEMMA InitKeeps == Init => SwarmInv
<1> SUFFICES ASSUME Init PROVE SwarmInv
  OBVIOUS
<1>1. TypeOK
  <2>1. heard \in [Agents -> 0..MaxCandidates]
    BY SwarmAssumption DEF Init, Silence
  <2>2. ledger = <<>> /\ walls = [a \in Agents |-> <<>>]
    BY DEF Init
  <2> QED
    <3>1. ledger \in Seq([round : Nat, makers : SUBSET Agents, applied : SUBSET Agents,
                           about : [round : {-1} \cup Nat, of : SUBSET Agents]])
      BY <2>2
    <3>2. walls \in [Agents -> Seq(Nat)]
      BY <2>2
    <3>3. round \in 0 .. MaxRounds - 1
      BY SwarmAssumption DEF Init
    <3>4. core \in [round : {-1} \cup Nat, of : SUBSET Agents]
      BY DEF Init, NoCore
    <3>5. /\ pc \in {"collect", "consensus", "heretics", "reconcile", "close", "done", "aborted"}
          /\ idle \in Nat /\ cursor \in Nat \ {0}
      BY DEF Init
    <3>6. progress \in BOOLEAN
      BY DEF Init
    <3> QED
      BY <2>1, <3>1, <3>2, <3>3, <3>4, <3>5, <3>6 DEF TypeOK
<1>2. /\ LedgerOK /\ SparedUntilGrace /\ Window /\ Visited /\ Distinct
      /\ HeldAsApplied /\ InLedger /\ LateOnlyByReconciliation
  BY DEF Init, LedgerOK, SparedUntilGrace, Window, Visited, Distinct, HeldAsApplied,
         InLedger, LateOnlyByReconciliation
<1> QED
  BY <1>1, <1>2 DEF SwarmInv

(***************************************************************************)
(* Steps that leave the ledger, the walls and the round alone.             *)
(***************************************************************************)
LEMMA OthersKeep ==
    ASSUME SwarmInv, UNCHANGED <<round, ledger, walls>>, TypeOK', Visited'
    PROVE  SwarmInv'
BY DEF SwarmInv, LedgerOK, SparedUntilGrace, Window, Aged, Distinct, HeldAsApplied, Held,
       InLedger, LateOnlyByReconciliation

LEMMA StepKeeps == SwarmInv /\ [Next]_vars => SwarmInv'
<1> SUFFICES ASSUME SwarmInv, [Next]_vars PROVE SwarmInv'
  OBVIOUS
<1>0. TypeOK /\ Visited
  BY DEF SwarmInv
<1>1. CASE Collect
  <2>1. UNCHANGED <<round, ledger, walls>> /\ TypeOK'
    BY <1>0, <1>1 DEF Collect, TypeOK, roundVars, wallVars
  <2>2. Visited'
    BY <1>0, <1>1 DEF Collect, Visited, wallVars
  <2> QED
    BY <2>1, <2>2, OthersKeep
<1>2. CASE NoConsensus
  <2>1. UNCHANGED <<round, ledger, walls>> /\ TypeOK'
    BY <1>0, <1>2 DEF NoConsensus, TypeOK, roundVars, wallVars
  <2>2. Visited'
    BY <1>0, <1>2 DEF NoConsensus, Visited, wallVars
  <2> QED
    BY <2>1, <2>2, OthersKeep
<1>3. ASSUME NEW makers \in SUBSET Baseline, NEW folded \in BOOLEAN, NEW fit \in BOOLEAN,
             Satisfied(makers, folded, fit)
      PROVE  SwarmInv'
  <2>1. Baseline \subseteq Agents
    BY DEF Baseline
  <2>2. Logged(makers, folded) \in [round : {-1} \cup Nat, of : SUBSET Agents]
    BY <1>0, <2>1, SwarmAssumption DEF Logged, TypeOK
  <2>3. UNCHANGED <<round, ledger, walls>> /\ TypeOK'
    BY <1>0, <1>3, <2>2 DEF Satisfied, TypeOK, roundVars, wallVars
  <2>4. Visited'
    BY <1>0, <1>3 DEF Satisfied, Visited, wallVars
  <2> QED
    BY <2>3, <2>4, OthersKeep
<1>4. ASSUME NEW makers \in SUBSET Baseline, NEW folded \in BOOLEAN,
             Contradicted(makers, folded)
      PROVE  SwarmInv'
  BY <1>4, ContradictedKeeps
<1>5. CASE Heretics
  <2>1. core' \in [round : {-1} \cup Nat, of : SUBSET Agents]
    BY <1>0, <1>5, SwarmAssumption DEF Heretics, Logged, TypeOK
  <2>2. heard' \in [Agents -> 0..MaxCandidates]
    BY <1>5, SwarmAssumption DEF Heretics, Silence
  <2>3. UNCHANGED <<round, ledger, walls>> /\ TypeOK'
    BY <1>0, <1>5, <2>1, <2>2 DEF Heretics, TypeOK, roundVars, wallVars
  <2>4. Visited'
    <3>1. cursor' = 1 /\ pc' = "reconcile" /\ DOMAIN ledger' \subseteq Nat \ {0}
      BY <1>0, <1>5, LedgerTypes DEF Heretics, Visited, wallVars
    <3> QED
      BY <3>1 DEF Visited
  <2> QED
    BY <2>3, <2>4, OthersKeep
<1>6. CASE ReconcileWall
  BY <1>6, ReconcileKeeps
<1>7. CASE Reconciled
  <2>1. UNCHANGED <<round, ledger, walls>> /\ TypeOK'
    BY <1>0, <1>7 DEF Reconciled, TypeOK, roundVars
  <2>2. Visited'
    <3>1. cursor \in Nat /\ Len(ledger) \in Nat /\ DOMAIN ledger = 1..Len(ledger)
      BY <1>0, LedgerTypes DEF TypeOK
    <3> QED
      BY <1>0, <1>7, <3>1 DEF Reconciled, Visited, roundVars, Due, Aged
  <2> QED
    BY <2>1, <2>2, OthersKeep
<1>8. CASE EndRound
  BY <1>8, EndRoundKeeps
<1>9. CASE Abort
  <2>1. UNCHANGED <<round, ledger, walls>> /\ TypeOK'
    BY <1>0, <1>9 DEF Abort, TypeOK, roundVars, wallVars
  <2>2. Visited'
    BY <1>9 DEF Abort, Visited
  <2> QED
    BY <2>1, <2>2, OthersKeep
<1>10. CASE UNCHANGED vars
  <2>1. UNCHANGED <<round, ledger, walls>> /\ TypeOK' /\ Visited'
    BY <1>0, <1>10 DEF vars, TypeOK, Visited, Due, Aged
  <2> QED
    BY <2>1, OthersKeep
<1> QED
  BY <1>1, <1>2, <1>3, <1>4, <1>5, <1>6, <1>7, <1>8, <1>9, <1>10 DEF Next

\* The inductive invariant holds in every state of every swarm.
THEOREM SwarmInvariance == Spec => []SwarmInv
  BY InitKeeps, StepKeeps, PTL DEF Spec

\* The variables keep their types, and the round its bound.
THEOREM SwarmTypes == Spec => []TypeOK
<1>1. SwarmInv => TypeOK
  BY DEF SwarmInv
<1> QED
  BY <1>1, SwarmInvariance, PTL

\* What a worker replays is what the ledger says, each wall once.
THEOREM ReplaysMatch == Spec => []ReplayMatchesLedger
<1>1. SwarmInv => ReplayMatchesLedger
  <2> SUFFICES ASSUME SwarmInv, NEW a \in Agents
               PROVE  /\ \A p, q \in DOMAIN walls[a] : p # q => walls[a][p] # walls[a][q]
                      /\ \A i \in DOMAIN ledger :
                            a \in ledger[i].applied <=> i \in Range(walls[a])
                      /\ Range(walls[a]) \subseteq DOMAIN ledger
    BY DEF ReplayMatchesLedger
  <2>1. \A i : Held(a, i) <=> i \in Range(walls[a])
    BY DEF Held, Range
  <2> QED
    BY <2>1 DEF SwarmInv, Distinct, HeldAsApplied, InLedger, Range
<1> QED
  BY <1>1, SwarmInvariance, PTL

\* No agent outside the clique gets a wall within its grace period.
THEOREM OutsidersSpared == Spec => []SparedUntilGrace
<1>1. SwarmInv => SparedUntilGrace
  BY DEF SwarmInv
<1> QED
  BY <1>1, SwarmInvariance, PTL

\* No agent lacks a wall for Grace + Interval rounds.
THEOREM DriftStaysBounded == Spec => []DriftBounded
<1>1. SwarmInv => DriftBounded
  <2> SUFFICES ASSUME SwarmInv, Interval > 0, NEW i \in DOMAIN ledger,
                      ledger[i].applied # Agents
               PROVE  round - ledger[i].round < Grace + Interval
    BY DEF DriftBounded
  <2>1. TypeOK /\ Window
    BY DEF SwarmInv
  <2>2. round \in Nat /\ ledger[i].round \in Nat /\ Grace \in Nat /\ Interval \in Nat \ {0}
    BY <2>1, LedgerTypes, SwarmAssumption DEF TypeOK
  <2>3. round % Interval \in 0..(Interval - 1)
    BY <2>2
  <2>4. CASE Aged(ledger[i])
    <3>1. round - (ledger[i].round + Grace) <= round % Interval
      BY <2>1, <2>4 DEF Window
    <3> HIDE DEF TypeOK
    <3> QED
      BY <2>2, <2>3, <3>1
  <2>5. CASE ~Aged(ledger[i])
    BY <2>2, <2>5 DEF Aged
  <2> QED
    BY <2>4, <2>5
<1> QED
  BY <1>1, SwarmInvariance, PTL

\* Walls that come out of order come by reconciliation.
THEOREM OrderKept == Spec => []LateOnlyByReconciliation
<1>1. SwarmInv => LateOnlyByReconciliation
  BY DEF SwarmInv
<1> QED
  BY <1>1, SwarmInvariance, PTL

-----------------------------------------------------------------------------
(***************************************************************************)
(* The refinement: a contradiction publishes, an entry that is reconciled  *)
(* spreads, everything else is invisible.                                  *)
(***************************************************************************)
shown == <<Len(ledger), [a \in Agents |-> Range(walls[a])]>>

LEMMA AppendRange ==
    ASSUME NEW s \in Seq(Nat), NEW e \in Nat
    PROVE  Range(Append(s, e)) = Range(s) \cup {e}
<1>1. ASSUME NEW x \in Range(Append(s, e)) PROVE x \in Range(s) \cup {e}
  BY <1>1, AppendTypes DEF Range
<1>2. ASSUME NEW x \in Range(s) PROVE x \in Range(Append(s, e))
  BY <1>2, AppendTypes DEF Range
<1>3. e \in Range(Append(s, e))
  BY AppendTypes DEF Range
<1> QED
  BY <1>1, <1>2, <1>3

LEMMA PublishSimulated ==
    ASSUME SwarmInv, NEW makers \in SUBSET Baseline, NEW folded \in BOOLEAN,
           Contradicted(makers, folded)
    PROVE  Broadcast!Next
<1>1. TypeOK /\ Len(ledger) \in Nat
  BY LedgerTypes DEF SwarmInv
<1>2. Len(ledger') = Len(ledger) + 1
  BY <1>1 DEF Contradicted, TypeOK
<1>3. ASSUME NEW a \in Agents
      PROVE  Range(walls'[a]) = IF a \in makers THEN Range(walls[a]) \cup {Len(ledger) + 1}
                                ELSE Range(walls[a])
  <2>1. walls[a] \in Seq(Nat) /\ Len(ledger) + 1 \in Nat
    BY <1>1 DEF TypeOK
  <2>2. walls'[a] = IF a \in makers THEN Append(walls[a], Len(ledger) + 1) ELSE walls[a]
    BY DEF Contradicted, Told
  <2> QED
    BY <2>1, <2>2, AppendRange
<1>4. makers \in SUBSET Agents /\ makers # {}
  BY DEF Contradicted, Clique, Baseline
<1>5. Broadcast!Publish(makers)
  BY <1>2, <1>3, <1>4 DEF Broadcast!Publish
<1> QED
  BY <1>4, <1>5 DEF Broadcast!Next

LEMMA SpreadSimulated ==
    ASSUME SwarmInv, ReconcileWall
    PROVE  Broadcast!Next \/ UNCHANGED shown
<1>1. TypeOK /\ HeldAsApplied /\ Len(ledger) \in Nat /\ DOMAIN ledger = 1..Len(ledger)
  BY LedgerTypes DEF SwarmInv
<1>2. CASE ~Aged(ledger[cursor])
  BY <1>2 DEF ReconcileWall, shown
<1>3. CASE Aged(ledger[cursor])
  <2>1. cursor \in 1..Len(ledger) /\ Len(ledger') = Len(ledger)
    <3>1. cursor \in 1..Len(ledger) /\ ledger \in Seq(Entry)
      BY <1>1, <1>3 DEF ReconcileWall, TypeOK, Entry, Content
    <3>2. Spread(ledger[cursor]) \in Entry
      BY <1>1, <3>1, LedgerTypes DEF Spread, Entry
    <3>3. ledger' = [ledger EXCEPT ![cursor] = Spread(ledger[cursor])]
      BY <1>3 DEF ReconcileWall
    <3> QED
      BY <3>1, <3>2, <3>3, ExceptSeq
  <2>2. ASSUME NEW a \in Agents
        PROVE  Range(walls'[a]) = Range(walls[a]) \cup {cursor}
    <3>1. walls[a] \in Seq(Nat) /\ cursor \in Nat
      BY <1>1 DEF TypeOK
    <3>2. walls'[a] = IF a \in Missed(ledger[cursor]) THEN Append(walls[a], cursor)
                      ELSE walls[a]
      BY <1>3 DEF ReconcileWall
    <3>3. CASE a \in Missed(ledger[cursor])
      BY <3>1, <3>2, <3>3, AppendRange
    <3>4. CASE a \notin Missed(ledger[cursor])
      <4>1. Held(a, cursor)
        BY <1>1, <2>1, <3>4 DEF HeldAsApplied, Missed
      <4>2. cursor \in Range(walls[a])
        BY <4>1 DEF Held, Range
      <4> QED
        BY <3>2, <3>4, <4>2
    <3> QED
      BY <3>3, <3>4
  <2>3. Broadcast!Spread(cursor)
    BY <2>1, <2>2 DEF Broadcast!Spread
  <2> QED
    BY <2>1, <2>3 DEF Broadcast!Next
<1> QED
  BY <1>2, <1>3

LEMMA BroadcastSimulated == SwarmInv /\ [Next]_vars => [Broadcast!Next]_shown
<1> SUFFICES ASSUME SwarmInv, [Next]_vars PROVE Broadcast!Next \/ UNCHANGED shown
  BY DEF shown
<1>1. CASE \E makers \in SUBSET Baseline : \E folded \in BOOLEAN :
              Contradicted(makers, folded)
  BY <1>1, PublishSimulated
<1>2. CASE ReconcileWall
  BY <1>2, SpreadSimulated
<1>3. CASE \/ Collect \/ NoConsensus \/ Heretics \/ Reconciled \/ EndRound \/ Abort
           \/ \E makers \in SUBSET Baseline : \E folded, fit \in BOOLEAN :
                 Satisfied(makers, folded, fit)
           \/ UNCHANGED vars
  <2>1. UNCHANGED <<ledger, walls>>
    BY <1>3 DEF Collect, NoConsensus, Heretics, Reconciled, EndRound, Abort, Satisfied,
                wallVars, vars
  <2> QED
    BY <2>1 DEF shown
<1> QED
  BY <1>1, <1>2, <1>3 DEF Next

\* Walls are known to their makers, then to all in one step, and never lost.
THEOREM SwarmRefinement == Spec => WallsAreBroadcast
<1>1. Init => Broadcast!Init
  <2> SUFFICES ASSUME Init PROVE Broadcast!Init
    OBVIOUS
  <2>1. Len(ledger) = 0
    BY DEF Init
  <2>2. \A a \in Agents : Range(walls[a]) = {}
    BY DEF Init, Range
  <2> QED
    BY <2>1, <2>2 DEF Broadcast!Init
<1>2. SwarmInv /\ [Next]_vars => [Broadcast!Next]_<<Len(ledger), [a \in Agents |-> Range(walls[a])]>>
  BY BroadcastSimulated DEF shown
<1> QED
  BY <1>1, <1>2, SwarmInvariance, PTL DEF Spec, WallsAreBroadcast, Broadcast!Spec,
                                          Broadcast!knownVars

\* What an agent gets late is the wall its makers got.
THEOREM WallsStand == Spec => SameWallForAll
<1>1. SwarmInv /\ [Next]_vars => [\A i \in DOMAIN ledger : ledger'[i].about = ledger[i].about]_vars
  <2> SUFFICES ASSUME SwarmInv, [Next]_vars, NEW i \in DOMAIN ledger
               PROVE  ledger'[i].about = ledger[i].about
    OBVIOUS
  <2>1. TypeOK
    BY DEF SwarmInv
  <2>2. CASE \E makers \in SUBSET Baseline : \E folded \in BOOLEAN :
                Contradicted(makers, folded)
    BY <2>1, <2>2 DEF Contradicted, TypeOK
  <2>3. CASE ReconcileWall
    <3>1. CASE Aged(ledger[cursor])
      <4>1. cursor \in DOMAIN ledger
            /\ ledger' = [ledger EXCEPT ![cursor] = Spread(ledger[cursor])]
        BY <2>1, <2>3, <3>1 DEF ReconcileWall, TypeOK
      <4>2. Spread(ledger[cursor]).about = ledger[cursor].about
        BY DEF Spread
      <4> QED
        BY <2>1, <4>1, <4>2 DEF TypeOK
    <3>2. CASE ~Aged(ledger[cursor])
      BY <2>3, <3>2 DEF ReconcileWall
    <3> QED
      BY <3>1, <3>2
  <2>4. CASE \/ Collect \/ NoConsensus \/ Heretics \/ Reconciled \/ EndRound \/ Abort
             \/ \E makers \in SUBSET Baseline : \E folded, fit \in BOOLEAN :
                   Satisfied(makers, folded, fit)
             \/ UNCHANGED vars
    BY <2>4 DEF Collect, NoConsensus, Heretics, Reconciled, EndRound, Abort, Satisfied,
                wallVars, vars
  <2> QED
    BY <2>2, <2>3, <2>4 DEF Next
<1> QED
  BY <1>1, SwarmInvariance, PTL DEF Spec, SameWallForAll

-----------------------------------------------------------------------------
(***************************************************************************)
(* A run comes to its end.  What is left of it are stages, six of which    *)
(* make a round, and within the reconciliation the walls not looked at:    *)
(* how many there are is not known before the round in question.           *)
(***************************************************************************)
Stage ==
    CASE pc = "collect" -> 5
      [] pc = "consensus" -> 4
      [] pc = "heretics" -> 3
      [] pc = "reconcile" -> 2
      [] pc = "close" -> 1
      [] OTHER -> 0

StagesLeft == 6 * (MaxRounds - round) + Stage

WallsLeft ==
    IF pc = "reconcile" /\ cursor <= Len(ledger) THEN Len(ledger) - cursor + 1 ELSE 0

Left == <<StagesLeft, WallsLeft>>

Less == {p \in Nat \X Nat : p[1] < p[2]}
Shorter == LexPairOrdering(Less, Less, Nat, Nat)

\* Every step brings the run nearer to its end: neither progress, which sets
\* the count of idle rounds back, nor a new wall throws it back.
RunShrinks == [][(<<Left', Left>> \in Shorter)]_vars

LEMMA ShorterIsWellFounded == IsWellFoundedOn(Shorter, Nat \X Nat)
<1>1. IsWellFoundedOn(Less, Nat)
  BY NatLessThanWellFounded DEF OpToRel, Less
<1> QED
  BY <1>1, WFLexPairOrdering DEF Shorter

LEMMA PairShorter ==
    ASSUME NEW a1 \in Nat, NEW a2 \in Nat, NEW b1 \in Nat, NEW b2 \in Nat,
           b1 < a1 \/ (b1 = a1 /\ b2 < a2)
    PROVE  <<<<b1, b2>>, <<a1, a2>>>> \in Shorter
<1> DEFINE ss == <<<<b1, b2>>, <<a1, a2>>>>
<1>1. /\ ss \in (Nat \X Nat) \X (Nat \X Nat)
      /\ ss[1][1] = b1 /\ ss[1][2] = b2 /\ ss[2][1] = a1 /\ ss[2][2] = a2
  OBVIOUS
<1>2. <<b1, a1>> \in Less \/ (b1 = a1 /\ <<b2, a2>> \in Less)
  BY DEF Less
<1> HIDE DEF ss
<1>3. ss \in Shorter
  BY <1>1, <1>2, Zenon DEF Shorter, LexPairOrdering
<1> QED
  BY <1>3 DEF ss

LeftOK == StagesLeft \in Nat /\ WallsLeft \in Nat

LEMMA LeftFacts == TypeOK => LeftOK
<1> SUFFICES ASSUME TypeOK PROVE LeftOK
  OBVIOUS
<1>1. Stage \in Nat
  BY DEF Stage
<1>2. round \in Nat /\ MaxRounds \in Nat /\ round < MaxRounds
  BY SwarmAssumption DEF TypeOK
<1>3. cursor \in Nat /\ Len(ledger) \in Nat
  BY LedgerTypes DEF TypeOK
<1> QED
  BY <1>1, <1>2, <1>3 DEF LeftOK, StagesLeft, WallsLeft

\* A step within a round, to a stage that comes later.
LEMMA StageShrinks ==
    ASSUME TypeOK, LeftOK, LeftOK', round' = round, Stage' < Stage
    PROVE  <<Left', Left>> \in Shorter
<1>1. round \in Nat /\ MaxRounds \in Nat /\ Stage \in Nat /\ Stage' \in Nat
  BY SwarmAssumption DEF TypeOK, Stage
<1>2. /\ StagesLeft = 6 * (MaxRounds - round) + Stage
      /\ StagesLeft' = 6 * (MaxRounds - round) + Stage'
  BY DEF StagesLeft
<1>3. \A m, r, s, t \in Nat : t < s => 6 * (m - r) + t < 6 * (m - r) + s
  OBVIOUS
<1>4. StagesLeft' < StagesLeft
  BY <1>1, <1>2, <1>3
<1> QED
  BY <1>4, PairShorter DEF LeftOK, Left

LEMMA StepShrinks ==
    ASSUME TypeOK, LeftOK, LeftOK', Next
    PROVE  <<Left', Left>> \in Shorter
<1>1. CASE Collect \/ NoConsensus \/ Heretics \/ Reconciled \/ Abort
  <2>1. round' = round
    BY <1>1 DEF Collect, NoConsensus, Heretics, Reconciled, Abort, roundVars
  <2>2. CASE Abort
    BY <2>1, <2>2, StageShrinks DEF Abort, Stage, TypeOK
  <2>3. CASE ~Abort
    <3>1. <<pc, pc'>> \in {<<"collect", "consensus">>, <<"consensus", "heretics">>,
                            <<"heretics", "reconcile">>, <<"reconcile", "close">>}
      BY <1>1, <2>3 DEF Collect, NoConsensus, Heretics, Reconciled
    <3>2. Stage' < Stage
      BY <3>1 DEF Stage
    <3> QED
      BY <2>1, <3>2, StageShrinks
  <2> QED
    BY <2>2, <2>3
<1>2. ASSUME NEW makers, NEW folded, NEW fit, Satisfied(makers, folded, fit)
      PROVE  <<Left', Left>> \in Shorter
  <2>1. round' = round /\ Stage' < Stage
    BY <1>2 DEF Satisfied, roundVars, Stage
  <2> QED
    BY <2>1, StageShrinks
<1>3. ASSUME NEW makers, NEW folded, Contradicted(makers, folded)
      PROVE  <<Left', Left>> \in Shorter
  <2>1. round' = round /\ Stage' < Stage
    BY <1>3 DEF Contradicted, roundVars, Stage
  <2> QED
    BY <2>1, StageShrinks
<1>4. CASE ReconcileWall
  <2>1. /\ UNCHANGED <<pc, round>> /\ pc = "reconcile"
        /\ cursor <= Len(ledger) /\ cursor' = cursor + 1
    BY <1>4 DEF ReconcileWall, roundVars
  <2>2. Len(ledger') = Len(ledger) /\ Len(ledger) \in Nat /\ cursor \in Nat
    BY <1>4, LedgerTypes DEF ReconcileWall, TypeOK
  <2>3. StagesLeft' = StagesLeft
    BY <2>1 DEF StagesLeft, Stage
  <2>4. WallsLeft' < WallsLeft
    BY <2>1, <2>2 DEF WallsLeft
  <2> QED
    BY <2>3, <2>4, PairShorter DEF LeftOK, Left
<1>5. CASE EndRound
  <2>1. CASE round' = round
    <3>1. Stage' < Stage
      BY <1>5, <2>1, SwarmAssumption DEF EndRound, Stage, TypeOK
    <3> QED
      BY <2>1, <3>1, StageShrinks
  <2>2. CASE round' # round
    <3>1. round' = round + 1 /\ Stage = 1 /\ Stage' = 5
      BY <1>5, <2>2 DEF EndRound, Stage
    <3>2. round \in Nat /\ MaxRounds \in Nat
      BY SwarmAssumption DEF TypeOK
    <3>3. StagesLeft' < StagesLeft
      BY <3>1, <3>2 DEF StagesLeft
    <3> QED
      BY <3>3, PairShorter DEF LeftOK, Left
  <2> QED
    BY <2>1, <2>2
<1> QED
  BY <1>1, <1>2, <1>3, <1>4, <1>5 DEF Next

(***************************************************************************)
(* No run goes on for ever: what is left of it are two numbers, the first  *)
(* of which weighs more; every step makes the pair less, whatever agents   *)
(* find, and that cannot go on without end.                                *)
(***************************************************************************)
THEOREM SwarmRunsAreFinite ==
    /\ IsWellFoundedOn(Shorter, Nat \X Nat)
    /\ Spec => [](Left \in Nat \X Nat)
    /\ Spec => RunShrinks
<1>1. LeftOK => Left \in Nat \X Nat
  BY DEF LeftOK, Left
<1>2. TypeOK /\ LeftOK /\ LeftOK' /\ [Next]_vars => [(<<Left', Left>> \in Shorter)]_vars
  BY StepShrinks
<1>3. Spec => [](Left \in Nat \X Nat)
  BY <1>1, LeftFacts, SwarmTypes, PTL
<1>4. Spec => RunShrinks
  BY <1>2, LeftFacts, SwarmTypes, PTL DEF Spec, RunShrinks
<1> QED
  BY <1>3, <1>4, ShorterIsWellFounded
=============================================================================
