-------------------------- MODULE InvalidationLog ---------------------------
(***************************************************************************)
(* The invalidation logs of several nodes (crdt.rs).  A node invalidates   *)
(* keys, sends copies of its log, merges the copies it gets, and purges.   *)
(* A copy may be merged late, twice, after a newer one, or never.          *)
(*                                                                         *)
(* A log keeps one entry per key.  What it stands for is a set of          *)
(* invalidations that only merging and purging change: `known`.            *)
(*                                                                         *)
(* A cached entry is judged by the clock of the node that inserted it.     *)
(* One insertion is followed here, with the nodes that have heard of it    *)
(* since, by any chain of merges.                                          *)
(***************************************************************************)
EXTENDS Naturals, FiniteSets

CONSTANTS
    Nodes,
    Keys,
    None,         \* no entry, no insertion
    CounterBound, \* bound: on the counters of clocks
    SentBound     \* bound: on the copies ever sent

Clocks == [timestamp : Nat, counter : Nat]
Entries == [clock : Clocks, node : Nodes]
Events == [key : Keys, clock : Clocks, node : Nodes]
Insertions == [key : Keys, clock : Clocks, seen : SUBSET Events]

ASSUME LogAssumption ==
    /\ CounterBound \in Nat
    /\ SentBound \in Nat
    /\ None \notin Entries \cup Insertions

VARIABLES
    log,       \* of each node: key -> entry, or None
    clock,     \* of each node
    sent,      \* the copies sent, each with its node's history
    known,     \* history: the invalidations a node's log stands for
    inserted,  \* history: the insertion that is followed, or None
    heard,     \* history: the nodes that have heard of it
    later      \* history: invalidations of its key by a node that had

vars == <<log, clock, sent, known, inserted, heard, later>>

Clock(ts, n) == [timestamp |-> ts, counter |-> n]

\* The derived order: the timestamp decides, then the counter.
Later(c, d) ==
    \/ c.timestamp > d.timestamp
    \/ c.timestamp = d.timestamp /\ c.counter > d.counter

Tick(c) == [c EXCEPT !.counter = @ + 1]

\* Mutant: the other clock is not looked at.
OwnNext(c, d) == Tick(c)

\* The later of the two clocks, one further.
Merged(c, d) == IF Later(c, d) THEN Tick(c) ELSE Tick(d)

Init ==
    /\ log = [n \in Nodes |-> [k \in Keys |-> None]]
    /\ clock = [n \in Nodes |-> Clock(0, 0)]
    /\ sent = {}
    /\ known = [n \in Nodes |-> {}]
    /\ inserted = None
    /\ heard = {}
    /\ later = {}

-----------------------------------------------------------------------------
Event(k, c, n) == [key |-> k, clock |-> c, node |-> n]

Invalidate(n, k) ==
    LET c == Tick(clock[n])
        event == Event(k, c, n)
    IN  /\ c.counter <= CounterBound
        /\ clock' = [clock EXCEPT ![n] = c]
        /\ log' = [log EXCEPT ![n][k] = [clock |-> c, node |-> n]]
        /\ known' = [known EXCEPT ![n] = @ \cup {event}]
        /\ later' = IF n \in heard /\ k = inserted.key THEN later \cup {event} ELSE later
        /\ UNCHANGED <<sent, inserted, heard>>

\* Mutant: the remote entry always wins.
RemoteWins(mine, theirs) == IF theirs = None THEN mine ELSE theirs

\* The entry that a merge leaves: a local one that is as late stays.
Winner(mine, theirs) ==
    IF theirs = None \/ (mine # None /\ ~Later(theirs.clock, mine.clock))
    THEN mine ELSE theirs

Merge(n, s) ==
    /\ Merged(clock[n], s.clock).counter <= CounterBound
    /\ clock' = [clock EXCEPT ![n] = Merged(@, s.clock)]
    /\ log' = [log EXCEPT ![n] = [k \in Keys |-> Winner(@[k], s.log[k])]]
    /\ known' = [known EXCEPT ![n] = @ \cup s.known]
    /\ heard' = IF s.heard THEN heard \cup {n} ELSE heard
    /\ UNCHANGED <<sent, inserted, later>>

\* What is kept: entries at the threshold or after it.
Purge(n, c) ==
    /\ log' = [log EXCEPT ![n] = [k \in Keys |->
                  IF @[k] # None /\ Later(c, @[k].clock) THEN None ELSE @[k]]]
    /\ known' = [known EXCEPT ![n] = {e \in @ : ~Later(c, e.clock)}]
    /\ UNCHANGED <<clock, sent, inserted, heard, later>>

-----------------------------------------------------------------------------
(* What happens around the logs: the network, and a cache that inserts.    *)
(* A copy stays in `sent`: it may be merged again, and need not ever be.   *)

Send(n) ==
    /\ Cardinality(sent) < SentBound
    /\ sent' = sent \cup
         {[log |-> log[n], clock |-> clock[n], known |-> known[n], heard |-> n \in heard]}
    /\ UNCHANGED <<log, clock, known, inserted, heard, later>>

Insert(n, k) ==
    /\ inserted = None
    /\ inserted' = [key |-> k, clock |-> clock[n], seen |-> known[n]]
    /\ heard' = {n}
    /\ UNCHANGED <<log, clock, sent, known, later>>

Next ==
    \E n \in Nodes :
        \/ \E k \in Keys : Invalidate(n, k) \/ Insert(n, k)
        \/ \E s \in sent : Merge(n, s)
        \/ \E i \in 1 .. CounterBound : Purge(n, Clock(0, i))
        \/ Send(n)

Spec == Init /\ [][Next]_vars

-----------------------------------------------------------------------------
\* Mutant: an entry as old as the invalidation is stale.
NotAfter(entry, c) == entry # None /\ ~Later(c, entry.clock)

\* is_stale, for the entry of a key and the clock of an insertion.
IsStale(entry, c) == entry # None /\ Later(entry.clock, c)

Copies ==
    [log : [Keys -> Entries \cup {None}], clock : Clocks,
     known : SUBSET Events, heard : BOOLEAN]

\* Logs and the copies of them keep their types.
TypeOK ==
    /\ log \in [Nodes -> [Keys -> Entries \cup {None}]]
    /\ clock \in [Nodes -> Clocks]
    /\ known \in [Nodes -> SUBSET Events]
    /\ sent \subseteq Copies
    /\ inserted \in Insertions \cup {None}
    /\ heard \subseteq Nodes
    /\ later \subseteq Events

\* A log is a set of invalidations (crdt.rs, merge and purge_before): whatever
\* copies were merged, late, twice or out of order, and whatever was purged, a
\* log shows for each key the latest of the invalidations it stands for.
LogShowsLatest ==
    \A n \in Nodes, k \in Keys :
        LET events == {e \in known[n] : e.key = k}
        IN  IF events = {} THEN log[n][k] = None
            ELSE /\ log[n][k] # None
                 /\ Event(k, log[n][k].clock, log[n][k].node) \in events
                 /\ \A e \in events : ~Later(e.clock, log[n][k].clock)

\* What was invalidated after its insertion is stale (crdt.rs, is_stale): if a
\* node that had heard of the insertion invalidated its key, every node whose
\* log stands for that invalidation judges the entry stale.
StaleIfInvalidatedAfter ==
    \A n \in Nodes :
        known[n] \cap later # {} => IsStale(log[n][inserted.key], inserted.clock)

\* What was only invalidated before its insertion is not stale (crdt.rs,
\* is_stale): invalidations the inserting node's log stood for do not count.
FreshIfInvalidatedBefore ==
    inserted # None =>
        \A n \in Nodes :
            {e \in known[n] : e.key = inserted.key} \subseteq inserted.seen
                => ~IsStale(log[n][inserted.key], inserted.clock)

\* "Merging is idempotent and commutative" (crdt.rs, InvalidationLog): nodes
\* that have merged the same invalidations have the same entries.
LogsAgree ==
    \A n, m \in Nodes : known[n] = known[m] => log[n] = log[m]

=============================================================================
