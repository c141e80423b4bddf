------------------------- MODULE RateLimiter_proofs -------------------------
(***************************************************************************)
(* Proofs about RateLimiter: the admissions of a subject are spread out, and   *)
(* refusals deserved, for every limit, window and number of remembered keys.   *)
(*                                                                          *)
(* The invariant relates a deque, which forgets, to the history of admissions: *)
(* it is the end of that history, and what is no longer in it has expired.     *)
(***************************************************************************)
EXTENDS RateLimiter, FiniteSetTheorems, SequenceTheorems, TLAPS

\* d is the end of a, and what a had before it, after the first c, has expired.
Track(d, a, c) ==
    \E m \in c .. Len(a) : Suffix(d, a, m) /\ \A i \in c + 1 .. m : Expired(a[i])
Ordered(a) ==
    \A i \in 1 .. Len(a) : a[i] <= clock /\ \A j \in i .. Len(a) : a[i] <= a[j]
KeyOK(k) ==
    /\ Ordered(admitted[k])
    /\ cleared[k] \in 0 .. Len(admitted[k])
    /\ k \notin DOMAIN hits => Track(<<>>, admitted[k], cleared[k])
    /\ k \in DOMAIN hits =>
          Len(hits[k]) \in 1 .. Limit /\ Track(hits[k], admitted[k], cleared[k])

\* Nothing is left to remember exactly if all that counts has expired.
LEMMA TrackNothing ==
    ASSUME NEW a \in Seq(Nat), NEW c \in 0 .. Len(a)
    PROVE  Track(<<>>, a, c) <=> \A i \in c + 1 .. Len(a) : Expired(a[i])
<1> DEFINE n == Len(a)
<1>1. n \in Nat /\ n \in c .. n /\ Len(<<>>) = 0
  OBVIOUS
<1>2. \A m \in c .. n : Suffix(<<>>, a, m) <=> m = n
  BY <1>1 DEF Suffix
<1>3. QED
  BY <1>1, <1>2 DEF Track

LEMMA HistoryIs ==
    ASSUME TypeOK
    PROVE  HistoryOK <=> \A k \in Keys : KeyOK(k)
<1> SUFFICES ASSUME NEW k \in Keys
             PROVE  KeyOK(k) <=>
        /\ \A i \in 1 .. Len(admitted[k]) :
              /\ admitted[k][i] <= clock
              /\ \A j \in i .. Len(admitted[k]) : admitted[k][i] <= admitted[k][j]
        /\ cleared[k] <= Len(admitted[k])
        /\ k \notin DOMAIN hits => Forgotten(k, Len(admitted[k]))
        /\ k \in DOMAIN hits =>
              /\ Len(hits[k]) \in 1 .. Limit
              /\ \E m \in cleared[k] .. Len(admitted[k]) :
                    Suffix(hits[k], admitted[k], m) /\ Forgotten(k, m)
  BY DEF HistoryOK
<1>1. admitted[k] \in Seq(Nat) /\ cleared[k] \in Nat /\ Len(admitted[k]) \in Nat
  BY DEF TypeOK
<1>2. cleared[k] \in 0 .. Len(admitted[k]) <=> cleared[k] <= Len(admitted[k])
  BY <1>1
<1>3. cleared[k] <= Len(admitted[k]) =>
         (Track(<<>>, admitted[k], cleared[k]) <=> Forgotten(k, Len(admitted[k])))
  BY <1>1, <1>2, TrackNothing DEF Forgotten
<1>4. QED
  BY <1>2, <1>3 DEF KeyOK, Ordered, Track, Forgotten

\* How much of a key's history counts after this check.
Counted(k) == IF Cleared THEN Len(admitted[k]) ELSE cleared[k]

\* What is remembered of a key after the dropping of keys still tracks its history.
LEMMA DequeOf ==
    ASSUME TypeOK, HistoryOK, NEW k \in Keys
    PROVE  /\ Deque(k) \in Seq(Nat) /\ Len(Deque(k)) \in 0 .. Limit
           /\ Track(Deque(k), admitted[k], Counted(k))
           /\ Counted(k) \in 0 .. Len(admitted[k])
           /\ Kept \subseteq DOMAIN hits
           /\ k \in Kept => Deque(k) = hits[k] /\ Len(hits[k]) \in 1 .. Limit
           /\ k \notin Kept => Deque(k) = <<>>
<1> DEFINE a == admitted[k]  c == cleared[k]
<1>1. a \in Seq(Nat) /\ Len(a) \in Nat /\ KeyOK(k) /\ clock \in Nat
  BY HistoryIs DEF TypeOK
<1>2. c \in 0 .. Len(a) /\ Counted(k) \in 0 .. Len(a) /\ Len(a) \in 0 .. Len(a)
  BY <1>1 DEF KeyOK, Counted
<1>3. Kept \subseteq DOMAIN hits
  BY DEF Kept, Live
<1>4. CASE k \in Kept
  <2>1. ~Cleared /\ k \in DOMAIN hits /\ Deque(k) = hits[k]
    BY <1>3, <1>4 DEF Kept, Deque
  <2>2. hits[k] \in Seq(Nat) /\ Len(hits[k]) \in 1 .. Limit /\ Track(hits[k], a, c)
    BY <1>1, <2>1 DEF TypeOK, KeyOK
  <2>3. Len(hits[k]) \in 0 .. Limit
    BY <2>2
  <2>4. QED
    BY <1>2, <1>3, <1>4, <2>1, <2>2, <2>3 DEF Counted
<1>5. CASE k \notin Kept
  <2>1. Deque(k) = <<>> /\ <<>> \in Seq(Nat) /\ Len(<<>>) \in 0 .. Limit
    BY <1>5, LimiterAssumption DEF Deque
  <2>2. CASE Cleared
    <3>1. \A i \in Len(a) + 1 .. Len(a) : Expired(a[i])
      BY <1>1
    <3>2. QED
      BY <1>1, <1>2, <1>3, <1>5, <2>1, <2>2, <3>1, TrackNothing DEF Counted
  <2>3. CASE ~Cleared /\ k \notin DOMAIN hits
    BY <1>1, <1>2, <1>3, <1>5, <2>1, <2>3 DEF Counted, KeyOK
  <2>4. CASE ~Cleared /\ k \in DOMAIN hits
    <3>1. k \notin Live /\ hits[k] \in Seq(Nat) /\ Len(hits[k]) \in 1 .. Limit
      BY <1>1, <1>5, <2>4 DEF Kept, KeyOK, TypeOK
    <3>2. PICK m \in c .. Len(a) : Suffix(hits[k], a, m)
      BY <1>1, <2>4 DEF KeyOK, Track
    <3>3. hits[k] # <<>> /\ Expired(hits[k][Len(hits[k])])
      BY <2>4, <3>1 DEF Live
    <3>4. Len(hits[k]) \in 1 .. Len(hits[k]) /\ m + Len(hits[k]) = Len(a) /\ Len(a) \in 1 .. Len(a)
      BY <1>1, <1>2, <3>1, <3>2 DEF Suffix
    <3>5. Expired(a[Len(a)])
      BY <3>2, <3>3, <3>4 DEF Suffix
    <3>6. ASSUME NEW i \in c + 1 .. Len(a) PROVE Expired(a[i])
      <4>1. i \in 1 .. Len(a) /\ Len(a) \in i .. Len(a)
        BY <1>1, <1>2
      <4>2. a[i] <= a[Len(a)] /\ a[i] \in Nat /\ a[Len(a)] \in Nat
        <5>1. a[i] <= a[Len(a)]
          BY <1>1, <4>1 DEF KeyOK, Ordered
        <5>2. \A j \in 1 .. Len(a) : a[j] \in Nat
          BY <1>1
        <5>3. QED
          BY <3>4, <4>1, <5>1, <5>2
      <4>3. QED
        <5>1. PICK x \in Nat, y \in Nat : x = a[i] /\ y = a[Len(a)]
          BY <4>2
        <5>2. x <= y /\ clock - y >= Window
          BY <3>5, <4>2, <5>1 DEF Expired
        <5>3. clock - x >= Window
          BY <1>1, <5>2, LimiterAssumption
        <5>4. QED
          BY <5>1, <5>3 DEF Expired
    <3>7. QED
      BY <1>1, <1>2, <1>3, <1>5, <2>1, <2>4, <3>6, TrackNothing DEF Counted
  <2>5. QED
    BY <2>2, <2>3, <2>4
<1>6. QED
  BY <1>4, <1>5

\* Taking off an expired head keeps track.
LEMMA RemainingOf ==
    ASSUME TypeOK, HistoryOK, NEW k \in Keys, NEW d \in Remaining(k)
    PROVE  /\ d \in Seq(Nat) /\ Len(d) \in 0 .. Limit
           /\ Track(d, admitted[k], Counted(k))
           /\ \A i \in 1 .. Len(d) : ~Expired(d[i])
<1> DEFINE a == admitted[k]  c == Counted(k)
<1>1. PICK w : w = Deque(k)
  OBVIOUS
<1>2. w \in Seq(Nat) /\ Len(w) \in 0 .. Limit /\ c \in 0 .. Len(a) /\ Limit \in Nat
  BY <1>1, DequeOf, LimiterAssumption
<1>3. a \in Seq(Nat) /\ Len(a) \in Nat /\ KeyOK(k) /\ clock \in Nat
  BY HistoryIs DEF TypeOK
<1>4. PICK m \in c .. Len(a) : Suffix(w, a, m) /\ \A i \in c + 1 .. m : Expired(a[i])
  BY <1>1, DequeOf DEF Track
<1>5. PICK n \in 0 .. Len(w) :
         /\ \A i \in 1 .. n : Expired(w[i])
         /\ n < Len(w) => ~Expired(w[n + 1])
         /\ d = SubSeq(w, n + 1, Len(w))
  BY <1>1 DEF Remaining, Heads
<1>6. PICK l \in Nat : l = Len(w)
  BY <1>2
<1>7. n + 1 \in 1 .. l + 1 /\ l \in (n + 1) - 1 .. l /\ l - (n + 1) + 1 = l - n
  BY <1>5, <1>6
<1>8. /\ d \in Seq(Nat) /\ Len(d) = l - n
      /\ \A i \in 1 .. l - n : d[i] = w[(n + 1) + i - 1]
  <2>1. n + 1 \in 1 .. Len(w) + 1 /\ Len(w) \in (n + 1) - 1 .. Len(w)
    BY <1>6, <1>7
  <2>2. /\ SubSeq(w, n + 1, Len(w)) \in Seq(Nat)
        /\ Len(SubSeq(w, n + 1, Len(w))) = Len(w) - (n + 1) + 1
        /\ \A i \in 1 .. Len(w) - (n + 1) + 1 :
              SubSeq(w, n + 1, Len(w))[i] = w[(n + 1) + i - 1]
    BY <1>2, <2>1, SubSeqProperties
  <2>3. QED
    BY <1>5, <1>6, <1>7, <2>2
<1>9. \A i \in 1 .. l - n : (n + 1) + i - 1 = n + i /\ n + i \in 1 .. l
  BY <1>5, <1>6
<1>10. \A i \in 1 .. Len(d) : d[i] = w[n + i] /\ n + i \in 1 .. l
  BY <1>8, <1>9
<1>11. l = Len(a) - m /\ \A i \in 1 .. l : w[i] = a[m + i]
  BY <1>4, <1>6 DEF Suffix
<1>12. m + n \in c .. Len(a) /\ Len(d) = Len(a) - (m + n)
  BY <1>2, <1>3, <1>5, <1>6, <1>8, <1>11
<1>13. \A i \in 1 .. Len(d) : m + (n + i) = (m + n) + i
  BY <1>2, <1>3, <1>8
<1>14. Suffix(d, a, m + n)
  BY <1>10, <1>11, <1>12, <1>13 DEF Suffix
<1>15. ASSUME NEW i \in c + 1 .. m + n PROVE Expired(a[i])
  <2>1. CASE i <= m
    BY <1>2, <1>4, <2>1
  <2>2. CASE i > m
    <3>1. i - m \in 1 .. n /\ m + (i - m) = i /\ i - m \in 1 .. l
      BY <1>2, <1>5, <1>6, <2>2
    <3>2. QED
      BY <1>5, <1>11, <3>1
  <2>3. QED
    BY <1>2, <2>1, <2>2
<1>16. ASSUME NEW i \in 1 .. Len(d) PROVE ~Expired(d[i])
  <2>1. n < l /\ n + 1 \in 1 .. l /\ n + i \in 1 .. l /\ ~Expired(w[n + 1])
    BY <1>5, <1>6, <1>8
  <2>2. /\ m + (n + 1) \in 1 .. Len(a) /\ m + (n + i) \in m + (n + 1) .. Len(a)
        /\ m + (n + i) \in 1 .. Len(a)
    <3>1. m \in Nat /\ n \in Nat /\ Len(a) \in Nat /\ l = Len(a) - m
      BY <1>2, <1>3, <1>5, <1>11
    <3>2. i \in Nat /\ i >= 1
      OBVIOUS
    <3>3. n + 1 <= l /\ n + i <= l
      BY <1>5, <2>1
    <3>4. QED
      BY <3>1, <3>2, <3>3
  <2>3. a[m + (n + 1)] <= a[m + (n + i)]
    BY <1>3, <2>2 DEF KeyOK, Ordered
  <2>4. w[n + 1] = a[m + (n + 1)] /\ d[i] = a[m + (n + i)]
    BY <1>10, <1>11, <2>1
  <2>5. a[m + (n + 1)] \in Nat /\ a[m + (n + i)] \in Nat
    <3>1. \A j \in 1 .. Len(a) : a[j] \in Nat
      BY <1>3
    <3>2. QED
      BY <2>2, <3>1
  <2>6. QED
    <3>1. ~(clock - a[m + (n + 1)] >= Window)
      BY <2>1, <2>4 DEF Expired
    <3>2. PICK x \in Nat, y \in Nat : x = a[m + (n + 1)] /\ y = a[m + (n + i)]
      BY <2>5
    <3>3. x <= y /\ ~(clock - x >= Window)
      BY <2>3, <3>1, <3>2
    <3>4. ~(clock - y >= Window)
      BY <1>3, <3>3, LimiterAssumption
    <3>5. QED
      BY <2>4, <3>2, <3>4 DEF Expired
<1>17. Len(d) \in 0 .. Limit
  <2>1. Len(d) = l - n
    BY <1>8
  <2>2. l \in 0 .. Limit /\ n \in 0 .. l /\ Limit \in Nat
    BY <1>2, <1>5, <1>6
  <2>3. QED
    BY <2>1, <2>2
<1>18. QED
  BY <1>8, <1>12, <1>14, <1>15, <1>16, <1>17 DEF Track

-----------------------------------------------------------------------------
\* The history after a check, from what it comes to of every key.
LEMMA HistoryNext ==
    ASSUME clock' = clock, TypeOK',
           \A j \in Keys :
              /\ Ordered(admitted'[j])
              /\ cleared'[j] \in 0 .. Len(admitted'[j])
              /\ j \notin DOMAIN hits' => Track(<<>>, admitted'[j], cleared'[j])
              /\ j \in DOMAIN hits' =>
                    Len(hits'[j]) \in 1 .. Limit /\ Track(hits'[j], admitted'[j], cleared'[j])
    PROVE  HistoryOK'
<1> SUFFICES ASSUME NEW j \in Keys
             PROVE  /\ \A i \in 1 .. Len(admitted'[j]) :
                          /\ admitted'[j][i] <= clock
                          /\ \A n \in i .. Len(admitted'[j]) : admitted'[j][i] <= admitted'[j][n]
                    /\ cleared'[j] <= Len(admitted'[j])
                    /\ j \notin DOMAIN hits' =>
                          \A i \in cleared'[j] + 1 .. Len(admitted'[j]) : Expired(admitted'[j][i])
                    /\ j \in DOMAIN hits' =>
                          /\ Len(hits'[j]) \in 1 .. Limit
                          /\ \E m \in cleared'[j] .. Len(admitted'[j]) :
                                /\ Suffix(hits'[j], admitted'[j], m)
                                /\ \A i \in cleared'[j] + 1 .. m : Expired(admitted'[j][i])
  BY DEF HistoryOK, Forgotten, Suffix, Expired
<1>1. admitted'[j] \in Seq(Nat) /\ Len(admitted'[j]) \in Nat
  BY DEF TypeOK
<1>2. Ordered(admitted'[j]) /\ cleared'[j] \in 0 .. Len(admitted'[j])
  OBVIOUS
<1>3. j \notin DOMAIN hits' =>
         \A i \in cleared'[j] + 1 .. Len(admitted'[j]) : Expired(admitted'[j][i])
  BY <1>1, <1>2, TrackNothing
<1>4. cleared'[j] <= Len(admitted'[j])
  BY <1>1, <1>2
<1>5. QED
  BY <1>2, <1>3, <1>4 DEF Ordered, Track

\* A check that leaves deque d and history b for key k, and drops others.
LEMMA PutInv ==
    ASSUME Inv, NEW k \in Keys, NEW d \in Seq(Nat), Len(d) \in 1 .. Limit, Put(k, d),
           NEW b \in Seq(Nat), admitted' = [admitted EXCEPT ![k] = b], Ordered(b),
           Counted(k) \in 0 .. Len(b), Track(d, b, Counted(k))
    PROVE  Inv'
<1>1. TypeOK /\ HistoryOK /\ clock' = clock
  BY DEF Inv, Put
<1>2. /\ DOMAIN hits' = Kept \cup {k} /\ hits'[k] = d
      /\ \A j \in Kept : j # k => hits'[j] = hits[j]
      /\ \A j \in Keys : cleared'[j] = Counted(j)
  BY <1>1 DEF Put, Counted, TypeOK
<1>3. admitted'[k] = b /\ \A j \in Keys : j # k => admitted'[j] = admitted[j]
  BY <1>1 DEF TypeOK
<1>4. ASSUME NEW j \in Keys
      PROVE  /\ Deque(j) \in Seq(Nat) /\ Len(Deque(j)) \in 0 .. Limit
             /\ Track(Deque(j), admitted[j], Counted(j)) /\ Counted(j) \in 0 .. Len(admitted[j])
             /\ Kept \subseteq DOMAIN hits
             /\ j \in Kept => Deque(j) = hits[j] /\ Len(hits[j]) \in 1 .. Limit
             /\ j \notin Kept => Deque(j) = <<>>
             /\ Ordered(admitted[j]) /\ Len(admitted[j]) \in Nat
  <2>1. Ordered(admitted[j]) /\ Len(admitted[j]) \in Nat
    BY <1>1, HistoryIs DEF KeyOK, TypeOK
  <2>2. QED
    BY <1>1, <2>1, DequeOf
<1>5. TypeOK'
  <2>1. DOMAIN hits' \subseteq Keys /\ \A j \in DOMAIN hits' : hits'[j] \in Seq(Nat)
    BY <1>1, <1>2, <1>4 DEF TypeOK
  <2>2. cleared' \in [Keys -> Nat]
    <3>1. \A j \in Keys : Len(admitted[j]) \in Nat
      BY <1>4
    <3>2. QED
      BY <1>1, <3>1 DEF Put, TypeOK
  <2>3. admitted' \in [Keys -> Seq(Nat)]
    BY <1>1 DEF TypeOK
  <2>4. QED
    BY <1>1, <2>1, <2>2, <2>3 DEF TypeOK
<1>6. HistoryOK'
  <2>1. ASSUME NEW j \in Keys
        PROVE  /\ Ordered(admitted'[j])
               /\ cleared'[j] \in 0 .. Len(admitted'[j])
               /\ j \notin DOMAIN hits' => Track(<<>>, admitted'[j], cleared'[j])
               /\ j \in DOMAIN hits' =>
                     Len(hits'[j]) \in 1 .. Limit /\ Track(hits'[j], admitted'[j], cleared'[j])
    <3>1. CASE j = k
      BY <1>2, <1>3, <3>1
    <3>2. CASE j # k
      BY <1>2, <1>3, <1>4, <3>2
    <3>3. QED
      BY <3>1, <3>2
  <2>2. QED
    BY <1>1, <1>5, <2>1, HistoryNext
<1>7. QED
  BY <1>5, <1>6 DEF Inv

\* A deque that is never empty is what a check leaves.
LEMMA AdmitHistory ==
    ASSUME Inv, NEW k \in Keys, NEW d \in Remaining(k), Len(d) < Limit,
           NEW b, b = Append(admitted[k], clock)
    PROVE  /\ b \in Seq(Nat) /\ Len(b) = Len(admitted[k]) + 1 /\ Len(admitted[k]) \in Nat
           /\ \A i \in 1 .. Len(admitted[k]) : b[i] = admitted[k][i]
           /\ b[Len(b)] = clock /\ Ordered(b)
           /\ Append(d, clock) \in Seq(Nat) /\ Len(Append(d, clock)) \in 1 .. Limit
           /\ Counted(k) \in 0 .. Len(b) /\ Track(Append(d, clock), b, Counted(k))
<1> DEFINE a == admitted[k]  c == Counted(k)
<1>1. /\ TypeOK /\ HistoryOK /\ a \in Seq(Nat) /\ clock \in Nat /\ Ordered(a)
      /\ c \in 0 .. Len(a)
  BY HistoryIs, DequeOf DEF Inv, TypeOK, KeyOK
<1>2. PICK n \in Nat : n = Len(a)
  BY <1>1
<1>3. /\ b \in Seq(Nat) /\ Len(b) = n + 1 /\ (\A i \in 1 .. n : b[i] = a[i]) /\ b[n + 1] = clock
  BY <1>1, <1>2
<1>4. d \in Seq(Nat) /\ Len(d) \in 0 .. Limit
  BY <1>1, RemainingOf
<1>5. PICK m \in c .. Len(a) : Suffix(d, a, m) /\ \A i \in c + 1 .. m : Expired(a[i])
  BY <1>1, RemainingOf DEF Track
<1>6. PICK e : e = Append(d, clock)
  OBVIOUS
<1>7. PICK l \in Nat : l = Len(d)
  BY <1>4
<1>8. e \in Seq(Nat) /\ Len(e) = l + 1 /\ (\A i \in 1 .. l : e[i] = d[i]) /\ e[l + 1] = clock
  BY <1>1, <1>4, <1>6, <1>7
<1>9. l = n - m /\ (\A i \in 1 .. l : d[i] = a[m + i]) /\ m \in 0 .. n
  BY <1>1, <1>2, <1>5, <1>7 DEF Suffix
<1>10. Ordered(b)
  <2> SUFFICES ASSUME NEW i \in 1 .. n + 1
               PROVE  b[i] <= clock /\ \A j \in i .. n + 1 : b[i] <= b[j]
    BY <1>3 DEF Ordered
  <2>1. CASE i = n + 1
    <3>1. \A j \in i .. n + 1 : j = n + 1
      BY <2>1
    <3>2. QED
      BY <1>1, <1>3, <2>1, <3>1
  <2>2. CASE i # n + 1
    <3>1. i \in 1 .. n
      BY <2>2
    <3>2. a[i] <= clock /\ \A j \in i .. n : a[i] <= a[j]
      BY <1>1, <1>2, <3>1 DEF Ordered
    <3>3. \A j \in i .. n + 1 : j = n + 1 \/ (j \in i .. n /\ j \in 1 .. n)
      BY <3>1
    <3>4. QED
      BY <1>3, <3>1, <3>2, <3>3
  <2>3. QED
    BY <2>1, <2>2
<1>11. Suffix(e, b, m)
  <2>1. l + 1 = (n + 1) - m
    BY <1>9
  <2>2. ASSUME NEW i \in 1 .. l + 1 PROVE e[i] = b[m + i]
    <3>1. CASE i = l + 1
      <4>1. m + i = n + 1
        BY <1>9, <3>1
      <4>2. QED
        BY <1>3, <1>8, <3>1, <4>1
    <3>2. CASE i # l + 1
      <4>1. i \in 1 .. l /\ m + i \in 1 .. n
        BY <1>9, <3>2
      <4>2. QED
        BY <1>3, <1>8, <1>9, <4>1
    <3>3. QED
      BY <3>1, <3>2
  <2>3. QED
    BY <1>3, <1>8, <2>1, <2>2 DEF Suffix
<1>12. m \in c .. n + 1 /\ \A i \in c + 1 .. m : i \in 1 .. n /\ Expired(b[i])
  <2>1. m \in c .. n + 1 /\ \A i \in c + 1 .. m : i \in 1 .. n
    BY <1>1, <1>2, <1>5
  <2>2. QED
    BY <1>3, <1>5, <2>1
<1>13. Track(e, b, c)
  BY <1>3, <1>11, <1>12 DEF Track
<1>14. c \in 0 .. n + 1 /\ l + 1 \in 1 .. Limit
  BY <1>1, <1>2, <1>4, <1>7, LimiterAssumption
<1>15. QED
  BY <1>2, <1>3, <1>6, <1>8, <1>10, <1>13, <1>14

LEMMA AdmitInv ==
    ASSUME Inv, NEW k \in Keys, Admit(k) PROVE Inv'
<1>1. PICK d \in Remaining(k) : Len(d) < Limit /\ Put(k, Append(d, clock))
  BY DEF Admit
<1>2. PICK b : b = Append(admitted[k], clock)
  OBVIOUS
<1>3. admitted' = [admitted EXCEPT ![k] = b]
  BY <1>2 DEF Admit
<1>4. QED
  BY <1>1, <1>2, <1>3, AdmitHistory, PutInv

LEMMA RefuseInv ==
    ASSUME Inv, NEW k \in Keys, Refuse(k) PROVE Inv'
<1>1. PICK d \in Remaining(k) : Len(d) >= Limit /\ Put(k, d)
  BY DEF Refuse
<1>2. TypeOK /\ HistoryOK /\ admitted[k] \in Seq(Nat) /\ Ordered(admitted[k])
  BY HistoryIs DEF Inv, TypeOK, KeyOK
<1>3. /\ d \in Seq(Nat) /\ Len(d) \in 0 .. Limit /\ Track(d, admitted[k], Counted(k))
      /\ Counted(k) \in 0 .. Len(admitted[k])
  BY <1>2, RemainingOf, DequeOf
<1>4. Len(d) \in 1 .. Limit
  BY <1>1, <1>3, LimiterAssumption
<1>5. admitted' = [admitted EXCEPT ![k] = admitted[k]]
  BY <1>2 DEF Refuse, TypeOK
<1>6. QED
  BY <1>1, <1>2, <1>3, <1>4, <1>5, PutInv

LEMMA TickInv ==
    ASSUME Inv, Tick PROVE Inv'
<1>1. /\ TypeOK /\ HistoryOK /\ hits' = hits /\ admitted' = admitted /\ cleared' = cleared
      /\ clock' = clock + 1 /\ clock \in Nat
  BY DEF Inv, Tick, TypeOK
<1>2. \A k \in Keys : \A i \in 1 .. Len(admitted[k]) : admitted[k][i] \in Nat
  BY <1>1 DEF TypeOK
<1>3. \A x \in Nat : Expired(x) => clock' - x >= Window
  BY <1>1, LimiterAssumption DEF Expired
<1>4. \A x \in Nat : x <= clock => x <= clock'
  BY <1>1
<1>5. TypeOK'
  BY <1>1 DEF TypeOK
<1>6. ASSUME NEW k \in Keys, NEW m \in 0 .. Len(admitted[k]), Forgotten(k, m)
      PROVE  \A i \in cleared[k] + 1 .. m : clock' - admitted[k][i] >= Window
  <2>1. cleared[k] \in Nat /\ admitted[k] \in Seq(Nat) /\ Len(admitted[k]) \in Nat
    BY <1>1 DEF TypeOK
  <2>2. \A i \in cleared[k] + 1 .. m : i \in 1 .. Len(admitted[k])
    BY <2>1
  <2>3. QED
    BY <1>2, <1>3, <1>6, <2>2 DEF Forgotten
<1>7. HistoryOK'
  <2> SUFFICES ASSUME NEW k \in Keys
               PROVE  /\ \A i \in 1 .. Len(admitted[k]) :
                            /\ admitted[k][i] <= clock'
                            /\ \A j \in i .. Len(admitted[k]) : admitted[k][i] <= admitted[k][j]
                      /\ cleared[k] <= Len(admitted[k])
                      /\ k \notin DOMAIN hits =>
                            \A i \in cleared[k] + 1 .. Len(admitted[k]) :
                               clock' - admitted[k][i] >= Window
                      /\ k \in DOMAIN hits =>
                            /\ Len(hits[k]) \in 1 .. Limit
                            /\ \E m \in cleared[k] .. Len(admitted[k]) :
                                  /\ Suffix(hits[k], admitted[k], m)
                                  /\ \A i \in cleared[k] + 1 .. m : clock' - admitted[k][i] >= Window
    BY <1>1, ZenonT(30) DEF HistoryOK, Forgotten, Suffix, Expired
  <2>1. cleared[k] \in Nat /\ Len(admitted[k]) \in Nat
    BY <1>1 DEF TypeOK
  <2>2. \A i \in 1 .. Len(admitted[k]) :
           /\ admitted[k][i] <= clock'
           /\ \A j \in i .. Len(admitted[k]) : admitted[k][i] <= admitted[k][j]
    BY <1>1, <1>2, <1>4 DEF HistoryOK
  <2>3. cleared[k] <= Len(admitted[k]) /\ Len(admitted[k]) \in 0 .. Len(admitted[k])
    BY <1>1, <2>1 DEF HistoryOK
  <2>4. k \notin DOMAIN hits =>
           \A i \in cleared[k] + 1 .. Len(admitted[k]) : clock' - admitted[k][i] >= Window
    BY <1>1, <1>6, <2>3 DEF HistoryOK
  <2>5. ASSUME k \in DOMAIN hits
        PROVE  /\ Len(hits[k]) \in 1 .. Limit
               /\ \E m \in cleared[k] .. Len(admitted[k]) :
                     /\ Suffix(hits[k], admitted[k], m)
                     /\ \A i \in cleared[k] + 1 .. m : clock' - admitted[k][i] >= Window
    <3>1. PICK m \in cleared[k] .. Len(admitted[k]) :
             Suffix(hits[k], admitted[k], m) /\ Forgotten(k, m)
      BY <1>1, <2>5 DEF HistoryOK
    <3>2. m \in 0 .. Len(admitted[k])
      BY <2>1
    <3>3. Len(hits[k]) \in 1 .. Limit
      BY <1>1, <2>5 DEF HistoryOK
    <3>4. QED
      BY <1>6, <3>1, <3>2, <3>3
  <2>6. QED
    BY <2>2, <2>3, <2>4, <2>5
<1>8. QED
  BY <1>5, <1>7 DEF Inv

\* A process that has just been started: nothing remembered, nothing admitted.
LEMMA NewInv ==
    ASSUME clock' \in Nat, hits' = [k \in {} |-> <<>>], admitted' = [k \in Keys |-> <<>>],
           cleared' = [k \in Keys |-> 0]
    PROVE  Inv'
<1>1. TypeOK'
  BY DEF TypeOK
<1>2. \A k \in Keys : admitted'[k] = <<>> /\ cleared'[k] = 0 /\ k \notin DOMAIN hits'
  OBVIOUS
<1>3. Len(<<>>) = 0
  OBVIOUS
<1>4. HistoryOK'
  BY <1>2, <1>3 DEF HistoryOK, Forgotten
<1>5. QED
  BY <1>1, <1>4 DEF Inv

LEMMA InitInv ==
    ASSUME Init PROVE Inv
<1>1. TypeOK
  BY DEF Init, TypeOK
<1>2. \A k \in Keys : admitted[k] = <<>> /\ cleared[k] = 0 /\ k \notin DOMAIN hits
  BY DEF Init
<1>3. HistoryOK
  BY <1>2 DEF HistoryOK, Forgotten
<1>4. QED
  BY <1>1, <1>3 DEF Inv

LEMMA NextInv ==
    ASSUME Inv, [Next]_vars PROVE Inv'
<1>1. CASE UNCHANGED vars
  BY <1>1 DEF vars, Inv, TypeOK, HistoryOK, Forgotten, Suffix, Expired
<1>2. CASE Restart
  BY <1>2, NewInv DEF Restart, Inv, TypeOK
<1>3. CASE \E k \in Keys : Admit(k) \/ Refuse(k)
  BY <1>3, AdmitInv, RefuseInv
<1>4. CASE Tick
  BY <1>4, TickInv
<1>5. QED
  BY <1>1, <1>2, <1>3, <1>4 DEF Next

\* Spec => []Inv: a deque is always the end of its subject's admissions, and what it
\* no longer holds has expired or was lost with all the deques.
THEOREM Invariance == Spec => []Inv
<1>1. QED
  BY InitInv, NextInv, PTL DEF Spec

-----------------------------------------------------------------------------
\* The admission that would be one too many in a window finds Limit live hits.
LEMMA RateStep ==
    ASSUME Inv, RateIsBounded, [Next]_vars PROVE RateIsBounded'
<1> DEFINE Spread(a, c) == \A i \in c + 1 .. Len(a) - Limit : a[i + Limit] - a[i] >= Window
<1>1. TypeOK /\ HistoryOK
  BY DEF Inv
<1>2. \A k \in Keys : /\ admitted[k] \in Seq(Nat) /\ Len(admitted[k]) \in Nat
                      /\ cleared[k] \in 0 .. Len(admitted[k]) /\ Counted(k) \in 0 .. Len(admitted[k])
                      /\ Spread(admitted[k], cleared[k])
  <2>1. \A k \in Keys : Spread(admitted[k], cleared[k])
    BY DEF RateIsBounded
  <2>2. \A k \in Keys : cleared[k] \in 0 .. Len(admitted[k])
    BY <1>1, HistoryIs DEF KeyOK
  <2>3. \A k \in Keys : Counted(k) \in 0 .. Len(admitted[k])
    BY <1>1, DequeOf
  <2>4. QED
    BY <1>1, <2>1, <2>2, <2>3 DEF TypeOK
<1>3. \A k \in Keys : Spread(admitted[k], Counted(k))
  <2> SUFFICES ASSUME NEW k \in Keys PROVE Spread(admitted[k], Counted(k))
    OBVIOUS
  <2>1. CASE Cleared
    <3>1. \A i \in Len(admitted[k]) + 1 .. Len(admitted[k]) - Limit : FALSE
      BY <1>2, LimiterAssumption
    <3>2. QED
      BY <2>1, <3>1 DEF Counted
  <2>2. CASE ~Cleared
    BY <1>2, <2>2 DEF Counted
  <2>3. QED
    BY <2>1, <2>2
<1>4. ASSUME NEW k \in Keys, Admit(k) PROVE RateIsBounded'
  <2>1. PICK d \in Remaining(k) : Len(d) < Limit /\ Put(k, Append(d, clock))
    BY <1>4 DEF Admit
  <2>2. PICK b : b = Append(admitted[k], clock)
    OBVIOUS
  <2>3. /\ Len(b) = Len(admitted[k]) + 1
        /\ \A i \in 1 .. Len(admitted[k]) : b[i] = admitted[k][i]
        /\ b[Len(b)] = clock
    BY <2>1, <2>2, AdmitHistory
  <2>4. \A j \in Keys : /\ cleared'[j] = Counted(j)
                        /\ admitted'[j] = IF j = k THEN b ELSE admitted[j]
    BY <1>1, <1>4, <2>1, <2>2 DEF Admit, Put, Counted, TypeOK
  <2>5. PICK n \in Nat, c \in Nat : c <= n /\ n = Len(admitted[k]) /\ c = Counted(k)
    BY <1>2
  <2>6. PICK m \in c .. n : Suffix(d, admitted[k], m) /\ \A i \in c + 1 .. m : Expired(admitted[k][i])
    BY <1>1, <2>5, RemainingOf DEF Track
  <2>7. PICK l \in 0 .. Limit : l = Len(d)
    BY <1>1, RemainingOf
  <2>8. l < Limit /\ l = n - m /\ Limit \in Nat
    BY <2>1, <2>5, <2>6, <2>7, LimiterAssumption DEF Suffix
  <2>9. Spread(b, c)
    <3>0. Len(b) = n + 1
      BY <2>3, <2>5
    <3> SUFFICES ASSUME NEW i \in c + 1 .. (n + 1) - Limit
                 PROVE  b[i + Limit] - b[i] >= Window
      BY <3>0
    <3>1. CASE i + Limit = n + 1
      <4>1. i \in 1 .. n /\ i \in c + 1 .. m
        BY <2>8, <3>1
      <4>2. Expired(admitted[k][i]) /\ b[i] = admitted[k][i]
        BY <2>3, <2>5, <2>6, <4>1
      <4>3. b[i + Limit] = clock
        BY <2>3, <3>0, <3>1
      <4>4. QED
        BY <4>2, <4>3 DEF Expired
    <3>2. CASE i + Limit # n + 1
      <4>1. i \in c + 1 .. n - Limit /\ i \in 1 .. n /\ i + Limit \in 1 .. n
        BY <2>8, <3>2
      <4>2. admitted[k][i + Limit] - admitted[k][i] >= Window
        BY <1>3, <2>5, <4>1
      <4>3. QED
        BY <2>3, <2>5, <4>1, <4>2
    <3>3. QED
      BY <3>1, <3>2
  <2>10. \A j \in Keys : Spread(admitted'[j], cleared'[j])
    BY <1>3, <2>4, <2>5, <2>9
  <2>11. QED
    BY <2>10 DEF RateIsBounded
<1>5. ASSUME NEW k \in Keys, Refuse(k) PROVE RateIsBounded'
  <2>1. \A j \in Keys : cleared'[j] = Counted(j) /\ admitted'[j] = admitted[j]
    BY <1>1, <1>5 DEF Refuse, Put, Counted, TypeOK
  <2>2. \A j \in Keys : Spread(admitted'[j], cleared'[j])
    BY <1>3, <2>1
  <2>3. QED
    BY <2>2 DEF RateIsBounded
<1>6. CASE Restart
  <2>1. \A k \in Keys : admitted'[k] = <<>> /\ cleared'[k] = 0
    BY <1>6 DEF Restart
  <2>2. Len(<<>>) = 0 /\ \A i \in 0 + 1 .. 0 - Limit : FALSE
    BY LimiterAssumption
  <2>3. QED
    BY <2>1, <2>2 DEF RateIsBounded
<1>7. CASE Tick \/ UNCHANGED vars
  BY <1>7 DEF Tick, vars, RateIsBounded
<1>8. QED
  BY <1>4, <1>5, <1>6, <1>7 DEF Next

\* In every stretch of Window a subject is admitted at most Limit times, unless all
\* deques were lost in between (FixedWindowLimiter.check).
THEOREM RateBound == Spec => []RateIsBounded
<1>1. Init => RateIsBounded
  <2>1. Len(<<>>) = 0 /\ \A i \in 0 + 1 .. 0 - Limit : FALSE
    BY LimiterAssumption
  <2>2. QED
    BY <2>1 DEF Init, RateIsBounded
<1>2. QED
  BY <1>1, RateStep, Invariance, PTL DEF Spec

\* Whoever is refused really was admitted Limit times within the last Window
\* (FixedWindowLimiter.check returns False).
THEOREM DeservedRefusals == Spec => []RefusalIsDeserved
<1>1. ASSUME Inv PROVE RefusalIsDeserved
  <2> SUFFICES ASSUME NEW k \in Keys, NEW d \in Remaining(k), Len(d) >= Limit
               PROVE  /\ Len(admitted[k]) >= Limit
                      /\ ~Expired(admitted[k][Len(admitted[k]) - Limit + 1])
    BY DEF RefusalIsDeserved
  <2>1. TypeOK /\ HistoryOK
    BY <1>1 DEF Inv
  <2>2. /\ Len(d) \in 0 .. Limit /\ Track(d, admitted[k], Counted(k))
        /\ \A i \in 1 .. Len(d) : ~Expired(d[i])
    BY <2>1, RemainingOf
  <2>3. PICK n \in Nat, c \in Nat : c <= n /\ n = Len(admitted[k]) /\ c = Counted(k)
    BY <2>1, DequeOf DEF TypeOK
  <2>4. PICK m \in c .. n : Suffix(d, admitted[k], m)
    BY <2>2, <2>3 DEF Track
  <2>5. Len(d) = Limit /\ Limit \in Nat \ {0}
    BY <2>2, LimiterAssumption
  <2>6. Limit = n - m /\ \A i \in 1 .. Limit : d[i] = admitted[k][m + i]
    BY <2>3, <2>4, <2>5 DEF Suffix
  <2>7. 1 \in 1 .. Limit /\ n >= Limit /\ n - Limit + 1 = m + 1
    BY <2>5, <2>6
  <2>8. QED
    BY <2>2, <2>3, <2>5, <2>6, <2>7
<1>2. QED
  BY <1>1, Invariance, PTL

\* At most one key more than max_keys is remembered (FixedWindowLimiter.check).
THEOREM MemoryBound == Spec => []MemoryIsBounded
<1>1. Init => MemoryIsBounded
  BY FS_EmptySet, LimiterAssumption DEF Init, MemoryIsBounded
<1>2. ASSUME MemoryIsBounded, [Next]_vars PROVE MemoryIsBounded'
  <2>1. ASSUME NEW k \in Keys, NEW d, Put(k, d) PROVE MemoryIsBounded'
    <3>1. DOMAIN hits' = Kept \cup {k}
      BY <2>1 DEF Put
    <3>2. IsFiniteSet(Live) /\ Live \subseteq DOMAIN hits
      BY <1>2, FS_Subset DEF Live, MemoryIsBounded
    <3>3. IsFiniteSet({}) /\ Cardinality({}) = 0
      BY FS_EmptySet
    <3>4. IsFiniteSet(Kept)
      BY <1>2, <3>2, <3>3 DEF Kept, MemoryIsBounded
    <3>5. /\ Cardinality(DOMAIN hits) \in Nat /\ Cardinality(Live) \in Nat
          /\ Cardinality(Kept) \in Nat
      BY <1>2, <3>2, <3>4, FS_CardinalityType DEF MemoryIsBounded
    <3>6. Cardinality(Kept) <= MaxKeys
      BY <3>3, <3>5, LimiterAssumption DEF Kept, Cleared, Full
    <3>7. /\ IsFiniteSet(Kept \cup {k})
          /\ Cardinality(Kept \cup {k}) = Cardinality(Kept)
             \/ Cardinality(Kept \cup {k}) = Cardinality(Kept) + 1
      BY <3>4, FS_AddElement
    <3>8. QED
      BY <3>1, <3>5, <3>6, <3>7, LimiterAssumption DEF MemoryIsBounded
  <2>2. CASE Restart
    BY <2>2, FS_EmptySet, LimiterAssumption DEF Restart, MemoryIsBounded
  <2>3. CASE Tick \/ UNCHANGED vars
    BY <1>2, <2>3 DEF Tick, vars, MemoryIsBounded
  <2>4. ASSUME NEW k \in Keys, Admit(k) \/ Refuse(k) PROVE MemoryIsBounded'
    BY <2>1, <2>4 DEF Admit, Refuse
  <2>5. QED
    BY <1>2, <2>2, <2>3, <2>4 DEF Next
<1>3. QED
  BY <1>1, <1>2, PTL DEF Spec
=============================================================================
