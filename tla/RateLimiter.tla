---------------------------- MODULE RateLimiter ----------------------------
(***************************************************************************)
(* FixedWindowLimiter of backend/auth/ratelimit.py as the API uses it: every  *)
(* check runs to its end on the event loop of one process, so a check is one   *)
(* step.  What it promises is about the admissions it grants over time, which  *)
(* the history variables keep and the program does not.                       *)
(***************************************************************************)
EXTENDS Integers, Sequences, FiniteSets

CONSTANTS
    Keys,           \* verified subjects
    Limit,          \* self._limit, at least 1
    Window,         \* self._window
    MaxKeys,        \* self._max_keys
    MaxTime,        \* bound: the clock
    MaxAdmitted     \* bound: admissions of one key

VARIABLES
    clock,      \* monotonic()
    hits,       \* self._hits: a deque of times for every key that has one
    admitted,   \* history: the times of a key's admissions by this process
    cleared     \* history: how many of them preceded the last loss of all deques

vars == <<clock, hits, admitted, cleared>>

ASSUME LimiterAssumption ==
    /\ Limit \in Nat \ {0} /\ Window \in Nat \ {0} /\ MaxKeys \in Nat
    /\ MaxTime \in Nat /\ MaxAdmitted \in Nat

Init ==
    /\ clock = 0
    /\ hits = [k \in {} |-> <<>>]
    /\ admitted = [k \in Keys |-> <<>>]
    /\ cleared = [k \in Keys |-> 0]

Expired(t) == clock - t >= Window

\* Past max_keys the keys whose windows have fully expired are dropped, and if that
\* is not enough, all of them.
Full(ks) == Cardinality(ks) > MaxKeys
Live_OldestHit == {k \in DOMAIN hits : hits[k] # <<>> /\ ~Expired(hits[k][1])}
Live == {k \in DOMAIN hits : hits[k] # <<>> /\ ~Expired(hits[k][Len(hits[k])])}
Cleared == Full(DOMAIN hits) /\ Full(Live)
Kept == IF Cleared THEN {} ELSE IF Full(DOMAIN hits) THEN Live ELSE DOMAIN hits

\* What is left of a key's deque without its expired head: one sequence.
Deque(k) == IF k \in Kept THEN hits[k] ELSE <<>>
Heads(d) ==
    {n \in 0 .. Len(d) :
        /\ \A i \in 1 .. n : Expired(d[i])
        /\ n < Len(d) => ~Expired(d[n + 1])}
Remaining(k) == {SubSeq(Deque(k), n + 1, Len(Deque(k))) : n \in Heads(Deque(k))}

Put(k, d) ==
    /\ hits' = [j \in Kept \cup {k} |-> IF j = k THEN d ELSE hits[j]]
    /\ cleared' = IF Cleared THEN [j \in Keys |-> Len(admitted[j])] ELSE cleared
    /\ clock' = clock

\* check(key) returns True.
Admit_OneMore(k) ==
    /\ Len(admitted[k]) < MaxAdmitted
    /\ \E d \in Remaining(k) :
          /\ Len(d) <= Limit
          /\ Put(k, Append(d, clock))
    /\ admitted' = [admitted EXCEPT ![k] = Append(@, clock)]
Admit(k) ==
    /\ Len(admitted[k]) < MaxAdmitted
    /\ \E d \in Remaining(k) :
          /\ Len(d) < Limit
          /\ Put(k, Append(d, clock))
    /\ admitted' = [admitted EXCEPT ![k] = Append(@, clock)]

\* check(key) returns False: the attempt is not recorded.
Refuse_Recorded(k) ==
    /\ \E d \in Remaining(k) :
          /\ Len(d) >= Limit
          /\ Put(k, Append(Tail(d), clock))
    /\ UNCHANGED admitted
Refuse(k) ==
    /\ \E d \in Remaining(k) :
          /\ Len(d) >= Limit
          /\ Put(k, d)
    /\ UNCHANGED admitted

Tick ==
    /\ clock < MaxTime
    /\ clock' = clock + 1
    /\ UNCHANGED <<hits, admitted, cleared>>

\* The process is started again: its memory, and with it what it promises, is new.
Restart ==
    /\ hits' = [k \in {} |-> <<>>]
    /\ admitted' = [k \in Keys |-> <<>>]
    /\ cleared' = [k \in Keys |-> 0]
    /\ clock' = clock

Next ==
    \/ \E k \in Keys : Admit(k) \/ Refuse(k)
    \/ Tick
    \/ Restart

Spec == Init /\ [][Next]_vars

-----------------------------------------------------------------------------
TypeOK ==
    /\ clock \in Nat
    /\ DOMAIN hits \subseteq Keys
    /\ \A k \in DOMAIN hits : hits[k] \in Seq(Nat)
    /\ admitted \in [Keys -> Seq(Nat)]
    /\ cleared \in [Keys -> Nat]

\* A key's admissions are in order, and the deque of a key is the end of them: what
\* it no longer holds has expired, or was lost with all the deques.
Suffix(d, a, m) == Len(d) = Len(a) - m /\ \A i \in 1 .. Len(d) : d[i] = a[m + i]
Forgotten(k, m) == \A i \in cleared[k] + 1 .. m : Expired(admitted[k][i])
HistoryOK ==
    \A k \in Keys :
        /\ \A i \in 1 .. Len(admitted[k]) :
              /\ admitted[k][i] <= clock
              /\ \A j \in i .. Len(admitted[k]) : admitted[k][i] <= admitted[k][j]
        /\ cleared[k] <= Len(admitted[k])
        /\ k \notin DOMAIN hits => Forgotten(k, Len(admitted[k]))
        /\ k \in DOMAIN hits =>
              /\ Len(hits[k]) \in 1 .. Limit
              /\ \E m \in cleared[k] .. Len(admitted[k]) :
                    Suffix(hits[k], admitted[k], m) /\ Forgotten(k, m)

Inv == TypeOK /\ HistoryOK

\* docs/authentication.md, "Rate limiting": in every stretch of Window a subject is
\* admitted at most Limit times, if its deque was not lost in between.
RateIsBounded ==
    \A k \in Keys : \A i \in cleared[k] + 1 .. Len(admitted[k]) - Limit :
        admitted[k][i + Limit] - admitted[k][i] >= Window

\* The limiter remembers at most one key more than max_keys.
MemoryIsBounded == IsFiniteSet(DOMAIN hits) /\ Cardinality(DOMAIN hits) <= MaxKeys + 1

\* Whoever is refused really was admitted Limit times within the last Window:
\* refused attempts, other keys and dropped deques never count.
RefusalIsDeserved ==
    \A k \in Keys : \A d \in Remaining(k) : Len(d) >= Limit =>
        /\ Len(admitted[k]) >= Limit
        /\ ~Expired(admitted[k][Len(admitted[k]) - Limit + 1])
=============================================================================
