---------------------------- MODULE LinearCache -----------------------------
(***************************************************************************)
(* What the whole cache promises to threads that call it at once: each     *)
(* call takes effect in one step between its invocation and its return, on *)
(* one map that never holds more than its capacity, and that forgets a key *)
(* only for a new one and only once it holds `room` keys.                  *)
(*                                                                         *)
(* Two calls promise less: len and is_empty look at one part of the map    *)
(* after another, so their answer need not be that of any one moment, and  *)
(* here it is only bounded.                                                *)
(***************************************************************************)
EXTENDS BoundedMap

CONSTANTS
    Threads,
    Capacities,   \* the capacities a cache may be built with
    NoCall,       \* of a thread that is not in a call; no answer
    Yes, No       \* the answers true and false

Truth(b) == IF b THEN Yes ELSE No

Calls ==
    [op : {"get", "remove", "contains"}, key : Keys]
        \cup [op : {"put"}, key : Keys, value : Values]
        \cup [op : {"len", "is_empty", "reset"}]

VARIABLES
    store,
    capacity,
    room,     \* below this many keys nothing is forgotten
    phase,    \* of each thread: "idle", "called" or "answered"
    call,     \* the call it is in
    answer    \* its answer

vars == <<store, capacity, room, phase, call, answer>>

Init ==
    /\ store = EmptyMap
    /\ capacity \in Capacities
    /\ room \in 0 .. capacity
    /\ phase = [t \in Threads |-> "idle"]
    /\ call = [t \in Threads |-> NoCall]
    /\ answer = [t \in Threads |-> NoCall]

Invoke(t, c) ==
    /\ phase[t] = "idle"
    /\ phase' = [phase EXCEPT ![t] = "called"]
    /\ call' = [call EXCEPT ![t] = c]
    /\ UNCHANGED <<store, capacity, room, answer>>

Answer(t, a) ==
    /\ phase[t] = "called"
    /\ phase' = [phase EXCEPT ![t] = "answered"]
    /\ answer' = [answer EXCEPT ![t] = a]
    /\ UNCHANGED <<capacity, room, call>>

Get(t) ==
    /\ call[t].op = "get"
    /\ Answer(t, store[call[t].key])
    /\ UNCHANGED store

Contains(t) ==
    /\ call[t].op = "contains"
    /\ Answer(t, Truth(call[t].key \in Held(store)))
    /\ UNCHANGED store

Remove(t) ==
    /\ call[t].op = "remove"
    /\ Answer(t, store[call[t].key])
    /\ store' = Forget(store, call[t].key)

Put(t) ==
    LET k == call[t].key
        stored(m) == Store(m, k, call[t].value)
    IN  /\ call[t].op = "put"
        /\ Answer(t, NoCall)
        /\ \/ store' = stored(store) /\ HeldCount(store') <= capacity
           \/ /\ k \notin Held(store)
              /\ HeldCount(store) >= room
              /\ \E lost \in Held(store) : store' = stored(Forget(store, lost))
           \/ capacity = 0 /\ UNCHANGED store

Scan(t) ==
    /\ \/ call[t].op = "len" /\ \E n \in 0 .. capacity : Answer(t, n)
       \/ call[t].op = "is_empty" /\ \E b \in {Yes, No} : Answer(t, b)
    /\ UNCHANGED store

Reset(t) ==
    /\ call[t].op = "reset"
    /\ Answer(t, NoCall)
    /\ UNCHANGED store

Return(t) ==
    /\ phase[t] = "answered"
    /\ phase' = [phase EXCEPT ![t] = "idle"]
    /\ call' = [call EXCEPT ![t] = NoCall]
    /\ answer' = [answer EXCEPT ![t] = NoCall]
    /\ UNCHANGED <<store, capacity, room>>

\* clear takes the cache for itself: no other call is under way.
Clear ==
    /\ \A t \in Threads : phase[t] = "idle"
    /\ store' = EmptyMap
    /\ UNCHANGED <<capacity, room, phase, call, answer>>

Next ==
    \/ \E t \in Threads :
         \/ \E c \in Calls : Invoke(t, c)
         \/ /\ phase[t] = "called"
            /\ Get(t) \/ Contains(t) \/ Remove(t) \/ Put(t) \/ Scan(t) \/ Reset(t)
         \/ Return(t)
    \/ Clear

Spec == Init /\ [][Next]_vars

=============================================================================
