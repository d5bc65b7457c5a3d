---------------------------- MODULE CausalChain ----------------------------
(***************************************************************************)
(* CausalChainTracker: the log of what led to what (skill born, goal       *)
(* created for it, goal achieved) and the chains the log is cut into.      *)
(*                                                                         *)
(* An event's identifier is its place in the log: the code's counter grows *)
(* by one with every event.  A chain is the sequence of its events'        *)
(* identifiers.  Scores, rewards and fitness are left out: an achievement  *)
(* is recorded only for a reward above 0.1 (Emergence).                    *)
(***************************************************************************)
EXTENDS Integers, SequencesExt

VARIABLES
    log,        \* _events
    chains      \* _chains, in the order of their creation

trackerVars == <<log, chains>>

NoCause == 0
EventId == DOMAIN log

TrackerInit ==
    /\ log = <<>>
    /\ chains = <<>>

(***************************************************************************)
(* _append_event.  The new event goes to the end of the first chain that   *)
(* holds its cause, wherever in that chain the cause stands.               *)
(***************************************************************************)
Holder(id) == SelectInSeq(chains, LAMBDA chain : id \in Range(chain))

\* Mutant of Linked: only the end of a chain can be continued.
LinkedAtTheEnd(cause, id) ==
    LET tail == SelectInSeq(chains, LAMBDA chain : Last(chain) = cause)
    IN  IF cause = NoCause THEN Append(chains, <<id>>)
        ELSE IF cause \notin EventId THEN chains
        ELSE IF tail = 0 THEN Append(chains, <<cause, id>>)
        ELSE [chains EXCEPT ![tail] = Append(@, id)]

\* Mutant of Linked: an event without a cause continues the latest chain.
LinkedToLatest(cause, id) ==
    LET held == IF cause = NoCause THEN Len(chains) ELSE Holder(cause)
    IN  IF held = 0 THEN Append(chains, <<id>>)
        ELSE [chains EXCEPT ![held] = Append(@, id)]

Linked(cause, id) ==
    IF cause = NoCause THEN Append(chains, <<id>>)
    ELSE IF cause \notin EventId THEN chains
    ELSE IF Holder(cause) = 0 THEN Append(chains, <<cause, id>>)
    ELSE [chains EXCEPT ![Holder(cause)] = Append(@, id)]

Recorded(event) ==
    /\ log' = Append(log, event)
    /\ chains' = Linked(event.cause, Len(log) + 1)

(***************************************************************************)
(* max_chain_depth, and what it is said to be: the number of events on the *)
(* longest path of causes.  Back[k] follows k causes back.                 *)
(***************************************************************************)
MaxChainDepth == Max({0} \cup {Len(chains[c]) : c \in DOMAIN chains})

Back[k \in Nat] ==
    IF k = 0 THEN [id \in EventId |-> id]
    ELSE [id \in EventId |->
            LET before == Back[k - 1][id]
            IN  IF before = NoCause THEN NoCause ELSE log[before].cause]

CausalDepth ==
    Max({0} \cup {k \in 1..Len(log) : \E id \in EventId : Back[k - 1][id] # NoCause})

(***************************************************************************)
(* verify_chain, on a chain of at least two events.                        *)
(***************************************************************************)
Verified(chain) ==
    /\ \A i \in DOMAIN chain : chain[i] \in EventId
    /\ \A i \in 2..Len(chain) :
          LET event == log[chain[i]]
          IN  /\ log[chain[i - 1]].round <= event.round
              /\ event.cause # NoCause
              /\ event.cause \in EventId
              /\ log[event.cause].round <= event.round
              /\ event.cause # chain[i]
=============================================================================
