-------------------------- MODULE ResourcesProofs --------------------------
(***************************************************************************)
(* Theorems about Resources, for any set of threads, any capacity of the   *)
(* queue, and a logger that may or may not die: the types, the order in    *)
(* which locks are taken, the absence of races, and that the threads never *)
(* come to a standstill while the logger lives.                            *)
(*                                                                         *)
(* The argument: what a thread has taken and not given back is determined  *)
(* by how far it is in its round; so that it is enough to look at the      *)
(* rounds, one by one.                                                     *)
(***************************************************************************)
EXTENDS Resources, TLAPS

Op == [do : {"take", "give", "use", "send"}, of : Locks \cup Data \cup {"g_mq"}]

\* The lock that guards the data d.
Guard == [d \in Data |-> CASE d = "bus"       -> "g_sem"
                           [] d = "g_power"   -> "g_power_mutex"
                           [] d = "g_thermal" -> "g_thermal_mutex"
                           [] d = "g_comms"   -> "g_comms_mutex"]

\* The locks taken and not given in the first i operations of the round r.
HeldAt(r, i) ==
  {l \in Locks : \E j \in 1..i : /\ r[j] = Take(l)
                                 /\ \A k \in j..i : r[k] # Give(l)}

\* What is right with an operation for which the locks H are held.
Right(op, H) ==
  \/ \E l \in Locks : op = Take(l) /\ \A k \in H : Rank[k] < Rank[l]
  \/ \E l \in Locks : op = Give(l) /\ l \in H
  \/ \E d \in Data : op = Use(d) /\ (Guard[d] \in H \/ d = "g_comms")
  \/ op = Send

\* A round in which each operation is right, and all that is taken is given.
Fine(r) ==
  /\ r \in Seq(Op)
  /\ \A i \in 1..Len(r) : Right(r[i], HeldAt(r, i - 1))
  /\ HeldAt(r, Len(r)) = {}

-----------------------------------------------------------------------------
(***************************************************************************)
(* Operations and rounds                                                   *)
(***************************************************************************)
\* The operations are of four kinds, and those of a kind differ by their object.
LEMMA Ops ==
  /\ \A l \in Locks : Take(l) \in Op /\ Give(l) \in Op
  /\ \A d \in Data : Use(d) \in Op
  /\ Send \in Op
  /\ \A l, m : Take(l) # Give(m) /\ Take(l) # Use(m) /\ Give(l) # Use(m)
  /\ \A l : Take(l) # Send /\ Give(l) # Send /\ Use(l) # Send
  /\ \A l, m : (Take(l) = Take(m) => l = m) /\ (Give(l) = Give(m) => l = m)
  /\ \A l, m : Use(l) = Use(m) => l = m
  BY DEF Take, Give, Use, Send, Op

\* Nothing is held before the first operation.
LEMMA HeldAtStart == \A r : HeldAt(r, 0) = {}
  BY DEF HeldAt

\* What one more operation does to what is held.
LEMMA HeldAtNext ==
  ASSUME NEW r, NEW i \in Nat
  PROVE  /\ \A l \in Locks : r[i + 1] = Take(l)
              => HeldAt(r, i + 1) = HeldAt(r, i) \cup {l}
         /\ \A l \in Locks : r[i + 1] = Give(l)
              => HeldAt(r, i + 1) = HeldAt(r, i) \ {l}
         /\ (\A l \in Locks : r[i + 1] # Take(l) /\ r[i + 1] # Give(l))
              => HeldAt(r, i + 1) = HeldAt(r, i)
<1>1. ASSUME NEW l \in Locks
      PROVE  l \in HeldAt(r, i + 1) <=>
               /\ r[i + 1] # Give(l)
               /\ r[i + 1] = Take(l) \/ l \in HeldAt(r, i)
  <2>1. ASSUME l \in HeldAt(r, i + 1)
        PROVE  /\ r[i + 1] # Give(l)
               /\ r[i + 1] = Take(l) \/ l \in HeldAt(r, i)
    <3>1. PICK j \in 1..(i + 1) :
            r[j] = Take(l) /\ \A k \in j..(i + 1) : r[k] # Give(l)
      BY <2>1 DEF HeldAt
    <3>2. i + 1 \in j..(i + 1)
      OBVIOUS
    <3>3. CASE j = i + 1
      BY <3>1, <3>2, <3>3
    <3>4. CASE j # i + 1
      <4>1. j \in 1..i /\ \A k \in j..i : k \in j..(i + 1)
        BY <3>4
      <4>2. l \in HeldAt(r, i)
        BY <3>1, <4>1 DEF HeldAt
      <4>3. QED
        BY <3>1, <3>2, <4>2
    <3>5. QED
      BY <3>3, <3>4
  <2>2. ASSUME r[i + 1] # Give(l), r[i + 1] = Take(l)
        PROVE  l \in HeldAt(r, i + 1)
    <3>1. i + 1 \in 1..(i + 1) /\ \A k \in (i + 1)..(i + 1) : k = i + 1
      OBVIOUS
    <3>2. QED
      BY <2>2, <3>1 DEF HeldAt
  <2>3. ASSUME r[i + 1] # Give(l), l \in HeldAt(r, i)
        PROVE  l \in HeldAt(r, i + 1)
    <3>1. PICK j \in 1..i : r[j] = Take(l) /\ \A k \in j..i : r[k] # Give(l)
      BY <2>3 DEF HeldAt
    <3>2. j \in 1..(i + 1) /\ \A k \in j..(i + 1) : k \in j..i \/ k = i + 1
      OBVIOUS
    <3>3. QED
      BY <2>3, <3>1, <3>2 DEF HeldAt
  <2>4. QED
    BY <2>1, <2>2, <2>3
<1>2. HeldAt(r, i) \subseteq Locks /\ HeldAt(r, i + 1) \subseteq Locks
  BY DEF HeldAt
<1>3. QED
  BY <1>1, <1>2, Ops

\* The same, for the operation at place j of a round.
LEMMA HeldAfter ==
  ASSUME NEW r, NEW i \in Nat, NEW j \in Nat, j = i + 1, NEW l \in Locks
  PROVE  /\ r[j] = Take(l) => HeldAt(r, j) = HeldAt(r, i) \cup {l}
         /\ r[j] = Give(l) => HeldAt(r, j) = HeldAt(r, i) \ {l}
  BY HeldAtNext

\* The other operations take and give nothing.
LEMMA HeldThrough ==
  ASSUME NEW r, NEW i \in Nat, NEW j \in Nat, j = i + 1, NEW d,
         r[j] = Use(d) \/ r[j] = Send
  PROVE  HeldAt(r, j) = HeldAt(r, i)
  BY HeldAtNext, Ops

\* A round that begins by taking a lock.
LEMMA HeldFirst ==
  ASSUME NEW r, NEW l \in Locks, r[1] = Take(l)
  PROVE  HeldAt(r, 1) = {l}
<1>1. 1..1 = {1}
  OBVIOUS
<1>2. \A m \in Locks :
        m \in HeldAt(r, 1) <=> r[1] = Take(m) /\ r[1] # Give(m)
  <2>1. ASSUME NEW m \in Locks
        PROVE  m \in HeldAt(r, 1) <=> \E j \in {1} : /\ r[j] = Take(m)
                                                 /\ \A k \in j..1 : r[k] # Give(m)
    BY <1>1 DEF HeldAt
  <2>2. QED
    BY <1>1, <2>1
<1>3. HeldAt(r, 1) \subseteq Locks
  BY DEF HeldAt
<1>4. QED
  BY <1>2, <1>3, Ops

\* What is held depends on no later operation.
LEMMA HeldAtPrefix ==
  ASSUME NEW r, NEW s, NEW i \in Nat, \A j \in 1..i : r[j] = s[j]
  PROVE  HeldAt(r, i) = HeldAt(s, i)
<1>1. \A j \in 1..i : \A k \in j..i : k \in 1..i
  OBVIOUS
<1>2. QED
  BY <1>1 DEF HeldAt

\* A round after which nothing is held can be followed by another.
LEMMA FineConcat ==
  ASSUME NEW r, NEW s, Fine(r), Fine(s)
  PROVE  Fine(r \o s)
<1> DEFINE c == r \o s
           n == Len(r)
<1>1. /\ r \in Seq(Op) /\ s \in Seq(Op) /\ c \in Seq(Op)
      /\ n \in Nat /\ Len(s) \in Nat /\ Len(c) = n + Len(s)
      /\ \A j \in 1..n : c[j] = r[j]
      /\ \A j \in 1..Len(s) : c[n + j] = s[j]
  BY DEF Fine
<1> HIDE DEF c
<1>2. \A i \in 0..n : HeldAt(c, i) = HeldAt(r, i)
  <2>1. ASSUME NEW i \in 0..n PROVE HeldAt(c, i) = HeldAt(r, i)
    <3>1. i \in Nat /\ \A j \in 1..i : c[j] = r[j]
      BY <1>1
    <3>2. QED
      BY <3>1, HeldAtPrefix
  <2>2. QED
    BY <2>1
<1>3. HeldAt(c, n) = {}
  BY <1>1, <1>2 DEF Fine
<1>4. \A i \in 0..Len(s) : HeldAt(c, n + i) = HeldAt(s, i)
  <2>1. ASSUME NEW i \in 0..Len(s), NEW l \in Locks, l \in HeldAt(c, n + i)
        PROVE  l \in HeldAt(s, i)
    <3>1. PICK j \in 1..(n + i) :
            c[j] = Take(l) /\ \A k \in j..(n + i) : c[k] # Give(l)
      BY <2>1 DEF HeldAt
    <3>2. CASE j \in 1..n
      <4>1. \A k \in j..n : k \in j..(n + i)
        BY <1>1
      <4>2. l \in HeldAt(c, n)
        BY <3>1, <3>2, <4>1 DEF HeldAt
      <4>3. QED
        BY <1>3, <4>2
    <3>3. CASE j \notin 1..n
      <4> DEFINE m == j - n
      <4>1. m \in 1..i /\ m \in 1..Len(s) /\ j = n + m
        BY <1>1, <3>3
      <4>2. s[m] = Take(l)
        BY <1>1, <3>1, <4>1
      <4>3. ASSUME NEW k \in m..i PROVE s[k] # Give(l)
        <5>1. n + k \in j..(n + i) /\ k \in 1..Len(s)
          BY <1>1, <4>1
        <5>2. QED
          BY <1>1, <3>1, <5>1
      <4>4. QED
        BY <4>1, <4>2, <4>3 DEF HeldAt
    <3>4. QED
      BY <3>2, <3>3
  <2>2. ASSUME NEW i \in 0..Len(s), NEW l \in Locks, l \in HeldAt(s, i)
        PROVE  l \in HeldAt(c, n + i)
    <3>1. PICK m \in 1..i : s[m] = Take(l) /\ \A k \in m..i : s[k] # Give(l)
      BY <2>2 DEF HeldAt
    <3>2. n + m \in 1..(n + i) /\ c[n + m] = Take(l)
      BY <1>1, <3>1
    <3>3. ASSUME NEW k \in (n + m)..(n + i) PROVE c[k] # Give(l)
      <4> DEFINE q == k - n
      <4>1. q \in m..i /\ q \in 1..Len(s) /\ k = n + q
        BY <1>1
      <4>2. QED
        BY <1>1, <3>1, <4>1
    <3>4. QED
      BY <3>2, <3>3 DEF HeldAt
  <2>3. ASSUME NEW i \in 0..Len(s)
        PROVE  HeldAt(c, n + i) \subseteq Locks /\ HeldAt(s, i) \subseteq Locks
    BY DEF HeldAt
  <2>4. QED
    BY <2>1, <2>2, <2>3
<1>5. ASSUME NEW i \in 1..Len(c) PROVE Right(c[i], HeldAt(c, i - 1))
  <2>1. CASE i \in 1..n
    <3>1. i - 1 \in 0..n /\ c[i] = r[i]
      BY <1>1, <2>1
    <3>2. QED
      BY <1>2, <2>1, <3>1 DEF Fine
  <2>2. CASE i \notin 1..n
    <3> DEFINE m == i - n
    <3>1. m \in 1..Len(s) /\ m - 1 \in 0..Len(s) /\ i = n + m
            /\ i - 1 = n + (m - 1)
      BY <1>1, <2>2
    <3>2. c[i] = s[m] /\ HeldAt(c, i - 1) = HeldAt(s, m - 1)
      BY <1>1, <1>4, <3>1
    <3>3. QED
      BY <3>1, <3>2 DEF Fine
  <2>3. QED
    BY <2>1, <2>2
<1>6. HeldAt(c, Len(c)) = {}
  BY <1>1, <1>4 DEF Fine
<1>7. QED
  BY <1>1, <1>5, <1>6 DEF Fine, c

\* The empty round.
LEMMA FineEmpty == Fine(<< >>)
  BY HeldAtStart DEF Fine

\* A report sent with nothing held.
LEMMA FineSend == Fine(<<Send>>)
<1> DEFINE r == <<Send>>
<1>1. r \in Seq(Op) /\ Len(r) = 1 /\ r[1] = Send
  BY Ops
<1>2. HeldAt(r, 0) = {} /\ HeldAt(r, 1) = {}
  BY <1>1, HeldAtStart, 0 = -1 + 1, HeldThrough, SMTT(30)
<1>3. QED
  BY <1>1, <1>2 DEF Fine, Right

\* Data used with its lock held.
LEMMA FineGuarded ==
  ASSUME NEW d \in Data, NEW l \in Locks, l = Guard[d]
  PROVE  Fine(Guarded(l, d))
<1> DEFINE r == Guarded(l, d)
<1>1. /\ r \in Seq(Op) /\ Len(r) = 3
      /\ r[1] = Take(l) /\ r[2] = Use(d) /\ r[3] = Give(l)
  BY Ops DEF Guarded
<1> HIDE DEF r
<1>2. HeldAt(r, 0) = {}
  BY HeldAtStart
<1>3. HeldAt(r, 1) = {l}
  BY <1>1, HeldFirst
<1>4. HeldAt(r, 2) = {l}
  <2>1. HeldAt(r, 2) = HeldAt(r, 1)
    BY <1>1, 2 = 1 + 1, HeldThrough, SMTT(30)
  <2>2. QED
    BY <1>3, <2>1
<1>5. HeldAt(r, 3) = {}
  <2>1. HeldAt(r, 3) = HeldAt(r, 2) \ {l}
    BY <1>1, 3 = 2 + 1, HeldAfter, SMTT(30)
  <2>2. QED
    BY <1>4, <2>1
<1>6. Right(r[1], {}) /\ Right(r[2], {l}) /\ Right(r[3], {l})
  BY <1>1 DEF Right
<1>7. ASSUME NEW i \in 1..Len(r) PROVE Right(r[i], HeldAt(r, i - 1))
  <2>1. CASE i = 1
    <3>1. i - 1 = 0
      BY <2>1
    <3>2. QED
      BY <1>2, <1>6, <2>1, <3>1
  <2>2. CASE i = 2
    <3>1. i - 1 = 1
      BY <2>2
    <3>2. QED
      BY <1>3, <1>6, <2>2, <3>1
  <2>3. CASE i = 3
    <3>1. i - 1 = 2
      BY <2>3
    <3>2. QED
      BY <1>4, <1>6, <2>3, <3>1
  <2>4. QED
    BY <1>1, <2>1, <2>2, <2>3
<1>8. QED
  BY <1>1, <1>5, <1>7 DEF Fine, r

\* Two operations under one lock: reports sent, data used that it guards, or
\* data used without a guard.
LEMMA FineUnder ==
  ASSUME NEW l \in Locks, NEW a, NEW b,
         \A op \in {a, b} :
           \/ op = Send
           \/ \E d \in Data : op = Use(d) /\ (Guard[d] = l \/ d = "g_comms")
  PROVE  Fine(<<Take(l), a, b, Give(l)>>)
<1> DEFINE r == <<Take(l), a, b, Give(l)>>
<1>0. (\E d : a = Use(d) \/ a = Send) /\ (\E d : b = Use(d) \/ b = Send)
  OBVIOUS
<1>1. /\ r \in Seq(Op) /\ Len(r) = 4 /\ r[1] = Take(l) /\ r[2] = a
      /\ r[3] = b /\ r[4] = Give(l)
  BY Ops
<1> HIDE DEF r
<1>2. HeldAt(r, 0) = {}
  BY HeldAtStart
<1>3. HeldAt(r, 1) = {l}
  BY <1>1, HeldFirst
<1>4. HeldAt(r, 2) = {l}
  <2>1. HeldAt(r, 2) = HeldAt(r, 1)
    BY <1>0, <1>1, 2 = 1 + 1, HeldThrough, SMTT(30)
  <2>2. QED
    BY <1>3, <2>1
<1>5. HeldAt(r, 3) = {l}
  <2>1. HeldAt(r, 3) = HeldAt(r, 2)
    BY <1>0, <1>1, 3 = 2 + 1, HeldThrough, SMTT(30)
  <2>2. QED
    BY <1>4, <2>1
<1>6. HeldAt(r, 4) = {}
  <2>1. HeldAt(r, 4) = HeldAt(r, 3) \ {l}
    BY <1>1, 4 = 3 + 1, HeldAfter, SMTT(30)
  <2>2. QED
    BY <1>5, <2>1
<1>7. Right(r[1], {}) /\ Right(r[2], {l}) /\ Right(r[3], {l}) /\ Right(r[4], {l})
  BY <1>1 DEF Right
<1>8. ASSUME NEW i \in 1..Len(r) PROVE Right(r[i], HeldAt(r, i - 1))
  <2>1. CASE i = 1
    <3>1. i - 1 = 0
      BY <2>1
    <3>2. QED
      BY <1>2, <1>7, <2>1, <3>1
  <2>2. CASE i = 2
    <3>1. i - 1 = 1
      BY <2>2
    <3>2. QED
      BY <1>3, <1>7, <2>2, <3>1
  <2>3. CASE i = 3
    <3>1. i - 1 = 2
      BY <2>3
    <3>2. QED
      BY <1>4, <1>7, <2>3, <3>1
  <2>4. CASE i = 4
    <3>1. i - 1 = 3
      BY <2>4
    <3>2. QED
      BY <1>5, <1>7, <2>4, <3>1
  <2>5. QED
    BY <1>1, <2>1, <2>2, <2>3, <2>4
<1>9. QED
  BY <1>1, <1>6, <1>8 DEF Fine, r

\* The elements of a sequence of six.
LEMMA SixElements ==
  ASSUME NEW S, NEW a \in S, NEW b \in S, NEW c \in S, NEW d \in S,
         NEW e \in S, NEW f \in S, NEW r, r = <<a, b, c, d, e, f>>
  PROVE  /\ r \in Seq(S) /\ Len(r) = 6 /\ r[1] = a /\ r[2] = b /\ r[3] = c
         /\ r[4] = d /\ r[5] = e /\ r[6] = f
  OBVIOUS

\* The publication of a subsystem: its mutex inside the semaphore.
LEMMA FinePublication ==
  ASSUME NEW l \in Locks, NEW d \in Data, l = Guard[d], l # "g_sem"
  PROVE  Fine(<<Take("g_sem"), Take(l), Use(d), Use("bus"), Give(l),
                Give("g_sem")>>)
<1> DEFINE g == "g_sem"
           r == <<Take(g), Take(l), Use(d), Use("bus"), Give(l), Give(g)>>
<1>0. /\ g \in Locks /\ "bus" \in Data /\ Guard["bus"] = g
      /\ Rank[g] < Rank[l]
  BY DEF Locks, Data, Guard, Rank
<1>1. /\ r \in Seq(Op) /\ Len(r) = 6 /\ r[1] = Take(g) /\ r[2] = Take(l)
      /\ r[3] = Use(d) /\ r[4] = Use("bus") /\ r[5] = Give(l)
      /\ r[6] = Give(g)
  <2>1. /\ Take(g) \in Op /\ Take(l) \in Op /\ Use(d) \in Op
        /\ Use("bus") \in Op /\ Give(l) \in Op /\ Give(g) \in Op
    BY <1>0, Ops
  <2>2. QED
    BY <2>1, SixElements
<1> HIDE DEF r
<1>2. HeldAt(r, 0) = {}
  BY HeldAtStart
<1>3. HeldAt(r, 1) = {g}
  BY <1>0, <1>1, HeldFirst
<1>4. HeldAt(r, 2) = {g, l}
  <2>1. HeldAt(r, 2) = HeldAt(r, 1) \cup {l}
    BY <1>1, 2 = 1 + 1, HeldAfter, SMTT(30)
  <2>2. QED
    BY <1>3, <2>1
<1>5. HeldAt(r, 3) = {g, l}
  <2>1. HeldAt(r, 3) = HeldAt(r, 2)
    BY <1>1, 3 = 2 + 1, HeldThrough, SMTT(30)
  <2>2. QED
    BY <1>4, <2>1
<1>6. HeldAt(r, 4) = {g, l}
  <2>1. HeldAt(r, 4) = HeldAt(r, 3)
    BY <1>1, 4 = 3 + 1, HeldThrough, SMTT(30)
  <2>2. QED
    BY <1>5, <2>1
<1>7. HeldAt(r, 5) = {g}
  <2>1. HeldAt(r, 5) = HeldAt(r, 4) \ {l}
    BY <1>1, 5 = 4 + 1, HeldAfter, SMTT(30)
  <2>2. QED
    BY <1>6, <2>1
<1>8. HeldAt(r, 6) = {}
  <2>1. HeldAt(r, 6) = HeldAt(r, 5) \ {g}
    BY <1>0, <1>1, 6 = 5 + 1, HeldAfter, SMTT(30)
  <2>2. QED
    BY <1>7, <2>1, <1>0
<1>9. /\ Right(r[1], {}) /\ Right(r[2], {g}) /\ Right(r[3], {g, l})
      /\ Right(r[4], {g, l}) /\ Right(r[5], {g, l}) /\ Right(r[6], {g})
  BY <1>0, <1>1 DEF Right
<1>10. ASSUME NEW i \in 1..Len(r) PROVE Right(r[i], HeldAt(r, i - 1))
  <2>1. CASE i = 1
    <3>1. i - 1 = 0
      BY <2>1
    <3>2. QED
      BY <1>2, <1>9, <2>1, <3>1
  <2>2. CASE i = 2
    <3>1. i - 1 = 1
      BY <2>2
    <3>2. QED
      BY <1>3, <1>9, <2>2, <3>1
  <2>3. CASE i = 3
    <3>1. i - 1 = 2
      BY <2>3
    <3>2. QED
      BY <1>4, <1>9, <2>3, <3>1
  <2>4. CASE i = 4
    <3>1. i - 1 = 3
      BY <2>4
    <3>2. QED
      BY <1>5, <1>9, <2>4, <3>1
  <2>5. CASE i = 5
    <3>1. i - 1 = 4
      BY <2>5
    <3>2. QED
      BY <1>6, <1>9, <2>5, <3>1
  <2>6. CASE i = 6
    <3>1. i - 1 = 5
      BY <2>6
    <3>2. QED
      BY <1>7, <1>9, <2>6, <3>1
  <2>7. QED
    BY <1>1, <2>1, <2>2, <2>3, <2>4, <2>5, <2>6
<1>11. QED
  BY <1>1, <1>8, <1>10 DEF Fine, r

\* Each access to shared data of one subsystem is fine by itself.
LEMMA FineParts ==
  Fine(OnBus) /\ Fine(InPower) /\ Fine(InThermal) /\ Fine(InComms)
<1>1. /\ \A d \in Data : Guard[d] \in Locks
      /\ Guard["bus"] = "g_sem" /\ Guard["g_power"] = "g_power_mutex"
      /\ Guard["g_thermal"] = "g_thermal_mutex"
      /\ Guard["g_comms"] = "g_comms_mutex"
      /\ {"bus", "g_power", "g_thermal", "g_comms"} = Data
  BY DEF Guard, Data, Locks
<1>2. QED
  BY <1>1, FineGuarded DEF OnBus, InPower, InThermal, InComms

\* Every round of every thread is fine.
LEMMA FineRounds ==
  ASSUME NEW t \in Threads, NEW r \in Rounds(t)
  PROVE  Fine(r)
<1>1. CASE t = "watchdog"
  <2>1. r = OnBus \/ r = OnBus \o OnBus
    BY <1>1 DEF Rounds, WatchdogRounds
  <2>2. QED
    BY <2>1, FineParts, FineConcat
<1>2. CASE t = "solar"
  BY <1>2, FineParts DEF Rounds, SolarRounds
<1>3. CASE t = "battery"
  <2>1. \/ r = InPower \/ r = InPower \o <<Send>>
        \/ r = <<Take("g_power_mutex"), Use("g_power"), Send,
                 Give("g_power_mutex")>>
    BY <1>3 DEF Rounds, BatteryRounds
  <2>2. Fine(<<Take("g_power_mutex"), Use("g_power"), Send,
               Give("g_power_mutex")>>)
    <3>1. "g_power_mutex" \in Locks /\ "g_power" \in Data
            /\ Guard["g_power"] = "g_power_mutex"
      BY DEF Locks, Data, Guard
    <3>2. QED
      BY <3>1, FineUnder
  <2>3. QED
    BY <2>1, <2>2, FineParts, FineSend, FineConcat
<1>4. CASE t = "power_writer"
  <2>1. "g_power_mutex" \in Locks /\ "g_power" \in Data
          /\ Guard["g_power"] = "g_power_mutex"
    BY DEF Locks, Data, Guard
  <2>2. r = <<Take("g_sem"), Take("g_power_mutex"), Use("g_power"), Use("bus"),
             Give("g_power_mutex"), Give("g_sem")>>
    BY <1>4 DEF Rounds, PowerWriterRounds
  <2>3. QED
    BY <2>1, <2>2, FinePublication
<1>5. CASE t = "sensor"
  <2>1. r = InThermal \/ r = InThermal \o <<Send>>
    BY <1>5 DEF Rounds, SensorRounds
  <2>2. QED
    BY <2>1, FineParts, FineSend, FineConcat
<1>6. CASE t = "heater"
  BY <1>6, FineParts DEF Rounds, HeaterRounds
<1>7. CASE t = "thermal_writer"
  <2>1. "g_thermal_mutex" \in Locks /\ "g_thermal" \in Data
          /\ Guard["g_thermal"] = "g_thermal_mutex"
    BY DEF Locks, Data, Guard
  <2>2. r = <<Take("g_sem"), Take("g_thermal_mutex"), Use("g_thermal"),
             Use("bus"), Give("g_thermal_mutex"), Give("g_sem")>>
    BY <1>7 DEF Rounds, ThermalWriterRounds
  <2>3. QED
    BY <2>1, <2>2, FinePublication
<1>8. CASE t = "uplink"
  <2>1. r = InComms \/ \E h \in {OnBus, <<Send>>, << >>} :
          r = InComms \o h \o InComms
    BY <1>8 DEF Rounds, UplinkRounds
  <2>2. \A h \in {OnBus, <<Send>>, << >>} : Fine(h)
    BY FineParts, FineSend, FineEmpty
  <2>3. ASSUME NEW h, Fine(h) PROVE Fine(InComms \o h \o InComms)
    <3>1. Fine(InComms \o h)
      BY <2>3, FineParts, FineConcat
    <3>2. QED
      BY <3>1, FineParts, FineConcat
  <2>4. QED
    BY <2>1, <2>2, <2>3, FineParts
<1>9. CASE t = "downlink"
  <2>1. \/ r = InComms \/ r = InComms \o <<Send>> \/ r = InComms \o ShowLink
        \/ r = InComms \o <<Send>> \o ShowLink
    BY <1>9 DEF Rounds, DownlinkRounds
  <2>2. Fine(ShowLink)
    <3>1. /\ "g_sem" \in Locks /\ "g_comms" \in Data /\ "bus" \in Data
          /\ Guard["bus"] = "g_sem"
      BY DEF Locks, Data, Guard
    <3>2. QED
      BY <3>1, FineUnder DEF ShowLink
  <2>3. Fine(InComms \o <<Send>>) /\ Fine(InComms \o ShowLink)
    BY <2>2, FineParts, FineSend, FineConcat
  <2>4. Fine(InComms \o <<Send>> \o ShowLink)
    BY <2>2, <2>3, FineConcat
  <2>5. QED
    BY <2>1, <2>3, <2>4, FineParts
<1>10. QED
  BY <1>1, <1>2, <1>3, <1>4, <1>5, <1>6, <1>7, <1>8, <1>9 DEF Threads

-----------------------------------------------------------------------------
(***************************************************************************)
(* The invariant                                                           *)
(***************************************************************************)
\* What thread t has still to do are the operations of some fine round from
\* the i-th on, and it holds what that round holds by then.
Follows(t) ==
  \E r \in Seq(Op) : \E i \in 0..Len(r) :
    /\ Fine(r)
    /\ Len(todo[t]) = Len(r) - i
    /\ \A k \in 1..Len(todo[t]) : todo[t][k] = r[i + k]
    /\ Held(t) = HeldAt(r, i)

\* The types and, for each thread, the round it follows.
Inv == TypeOK /\ \A t \in Running : Follows(t)

\* A thread is not the value that stands for none.
LEMMA ThreadIsSomebody == \A t \in Running : t \in Threads /\ t # Nobody
  BY ResourcesAssumption DEF Threads, Nobody

\* The next operation of a thread is the next one of the round it follows.
LEMMA NextIsRight ==
  ASSUME TypeOK, NEW t \in Running, Follows(t), ~Asleep(t)
  PROVE  Right(Head(todo[t]), Held(t)) /\ Head(todo[t]) \in Op
<1>1. /\ todo[t] \in Seq(Op) /\ todo[t] # << >>
  BY DEF TypeOK, Op, Asleep
<1>2. /\ Head(todo[t]) = todo[t][1] /\ Len(todo[t]) \in Nat
      /\ 1 \in 1..Len(todo[t]) /\ Head(todo[t]) \in Op
  BY <1>1
<1>3. PICK r \in Seq(Op) : \E i \in 0..Len(r) :
        /\ Fine(r)
        /\ Len(todo[t]) = Len(r) - i
        /\ \A k \in 1..Len(todo[t]) : todo[t][k] = r[i + k]
        /\ Held(t) = HeldAt(r, i)
  BY DEF Follows
<1>4. PICK i \in 0..Len(r) :
        /\ Fine(r)
        /\ Len(todo[t]) = Len(r) - i
        /\ \A k \in 1..Len(todo[t]) : todo[t][k] = r[i + k]
        /\ Held(t) = HeldAt(r, i)
  BY <1>3
<1>5. todo[t][1] = r[i + 1]
  BY <1>2, <1>4
<1>6. i + 1 \in 1..Len(r) /\ (i + 1) - 1 = i
  BY <1>2, <1>4
<1>7. Right(r[i + 1], HeldAt(r, (i + 1) - 1))
  BY <1>4, <1>6 DEF Fine
<1>8. QED
  BY <1>2, <1>4, <1>5, <1>6, <1>7

\* A thread that has done its next operation goes on with the same round.
LEMMA Advance ==
  ASSUME TypeOK, NEW t \in Running, Follows(t), ~Asleep(t), Done(t),
         \A l \in Locks : Head(todo[t]) = Take(l) => Held(t)' = Held(t) \cup {l},
         \A l \in Locks : Head(todo[t]) = Give(l) => Held(t)' = Held(t) \ {l},
         (\A l \in Locks : Head(todo[t]) # Take(l) /\ Head(todo[t]) # Give(l))
           => Held(t)' = Held(t)
  PROVE  Follows(t)'
<1>1. /\ todo[t] \in Seq(Op) /\ todo[t] # << >> /\ todo'[t] = Tail(todo[t])
  BY DEF TypeOK, Op, Asleep, Done
<1>2. /\ Head(todo[t]) = todo[t][1] /\ Len(todo[t]) \in Nat
      /\ 1 \in 1..Len(todo[t]) /\ Len(todo'[t]) = Len(todo[t]) - 1
      /\ \A k \in 1..Len(todo'[t]) : todo'[t][k] = todo[t][k + 1]
  BY <1>1
<1>3. PICK r \in Seq(Op) : \E i \in 0..Len(r) :
        /\ Fine(r)
        /\ Len(todo[t]) = Len(r) - i
        /\ \A k \in 1..Len(todo[t]) : todo[t][k] = r[i + k]
        /\ Held(t) = HeldAt(r, i)
  BY DEF Follows
<1>4. PICK i \in 0..Len(r) :
        /\ Fine(r)
        /\ Len(todo[t]) = Len(r) - i
        /\ \A k \in 1..Len(todo[t]) : todo[t][k] = r[i + k]
        /\ Held(t) = HeldAt(r, i)
  BY <1>3
<1>5. Head(todo[t]) = r[i + 1] /\ i \in Nat
  BY <1>2, <1>4
<1>6. Held(t)' = HeldAt(r, i + 1)
  <2>1. /\ \A l \in Locks : r[i + 1] = Take(l)
             => HeldAt(r, i + 1) = HeldAt(r, i) \cup {l}
        /\ \A l \in Locks : r[i + 1] = Give(l)
             => HeldAt(r, i + 1) = HeldAt(r, i) \ {l}
        /\ (\A l \in Locks : r[i + 1] # Take(l) /\ r[i + 1] # Give(l))
             => HeldAt(r, i + 1) = HeldAt(r, i)
    BY <1>5, HeldAtNext
  <2>2. HeldAt(r, i) = Held(t) /\ Head(todo[t]) = r[i + 1]
    BY <1>4, <1>5
  <2>3. CASE \E l \in Locks : r[i + 1] = Take(l)
    <3>1. PICK l \in Locks : r[i + 1] = Take(l)
      BY <2>3
    <3>2. HeldAt(r, i + 1) = Held(t) \cup {l}
      BY <2>1, <2>2, <3>1
    <3>3. QED
      BY <2>2, <3>1, <3>2
  <2>4. CASE \E l \in Locks : r[i + 1] = Give(l)
    <3>1. PICK l \in Locks : r[i + 1] = Give(l)
      BY <2>4
    <3>2. HeldAt(r, i + 1) = Held(t) \ {l}
      BY <2>1, <2>2, <3>1
    <3>3. QED
      BY <2>2, <3>1, <3>2
  <2>5. CASE \A l \in Locks : r[i + 1] # Take(l) /\ r[i + 1] # Give(l)
    BY <2>1, <2>2, <2>5
  <2>6. QED
    BY <2>3, <2>4, <2>5
<1>7. /\ i + 1 \in 0..Len(r) /\ Len(todo'[t]) = Len(r) - (i + 1)
  BY <1>2, <1>4
<1>8. \A k \in 1..Len(todo'[t]) : todo'[t][k] = r[(i + 1) + k]
  <2>1. ASSUME NEW k \in 1..Len(todo'[t])
        PROVE  todo'[t][k] = r[(i + 1) + k]
    <3>1. k + 1 \in 1..Len(todo[t]) /\ i + (k + 1) = (i + 1) + k
      BY <1>2, <1>5
    <3>2. QED
      BY <1>2, <1>4, <3>1
  <2>2. QED
    BY <2>1
<1>9. QED
  BY <1>4, <1>6, <1>7, <1>8 DEF Follows

\* A thread that does nothing, and whose locks nobody touches.
LEMMA Stands ==
  ASSUME NEW t, Follows(t), todo'[t] = todo[t], Held(t)' = Held(t)
  PROVE  Follows(t)'
  BY DEF Follows

\* A thread at rest holds nothing.
LEMMA AsleepHoldsNothing ==
  ASSUME NEW t \in Running, Follows(t), Asleep(t)
  PROVE  Held(t) = {}
<1>1. Len(todo[t]) = 0
  BY DEF Asleep
<1>2. PICK r \in Seq(Op) : \E i \in 0..Len(r) :
        Fine(r) /\ Len(todo[t]) = Len(r) - i /\ Held(t) = HeldAt(r, i)
  BY DEF Follows
<1>3. PICK i \in 0..Len(r) :
        Fine(r) /\ Len(todo[t]) = Len(r) - i /\ Held(t) = HeldAt(r, i)
  BY <1>2
<1>4. i = Len(r)
  BY <1>1, <1>3
<1>5. QED
  BY <1>3, <1>4 DEF Fine

\* Nobody has begun a round.
LEMMA InvInit == Init => Inv
<1>1. SUFFICES ASSUME Init PROVE Inv
  OBVIOUS
<1>2. TypeOK
  BY <1>1, ResourcesAssumption DEF Init, TypeOK
<1>3. ASSUME NEW t \in Running PROVE Follows(t)
  <2>1. todo[t] = << >> /\ Held(t) = {}
    BY <1>1, ThreadIsSomebody DEF Init, Held
  <2>2. << >> \in Seq(Op) /\ 0 \in 0..Len(<< >>) /\ Len(<< >>) = 0
    OBVIOUS
  <2>3. Fine(<< >>) /\ Held(t) = HeldAt(<< >>, 0)
    BY <2>1, FineEmpty, HeldAtStart
  <2>4. \E i \in 0..Len(<< >>) :
          /\ Fine(<< >>)
          /\ Len(todo[t]) = Len(<< >>) - i
          /\ \A k \in 1..Len(todo[t]) : todo[t][k] = << >>[i + k]
          /\ Held(t) = HeldAt(<< >>, i)
    <3>1. Len(todo[t]) = Len(<< >>) - 0 /\ 1..Len(todo[t]) = {}
      BY <2>1
    <3>2. QED
      BY <2>2, <2>3, <3>1
  <2>5. QED
    BY <2>2, <2>4 DEF Follows
<1>4. QED
  BY <1>2, <1>3 DEF Inv

\* The beginning of a round keeps the invariant.
LEMMA InvTestLoop ==
  ASSUME Inv, NEW t \in Running, TestLoop(t)
  PROVE  Inv'
<1>1. PICK r \in Rounds(t) : todo' = [todo EXCEPT ![t] = r]
  BY DEF TestLoop
<1>2. Fine(r) /\ r \in Seq(Op) /\ Len(r) \in Nat
  BY ThreadIsSomebody, FineRounds DEF Fine
<1>3. todo \in [Running -> Seq(Op)] /\ UNCHANGED <<owner, queued, logger, obc, told>>
  BY DEF Inv, TypeOK, TestLoop, Op
<1>4. TypeOK'
  BY <1>1, <1>2, <1>3 DEF Inv, TypeOK, Op
<1>5. \A u \in Running : Held(u)' = Held(u)
  BY <1>3 DEF Held
<1>6. Held(t) = {}
  BY AsleepHoldsNothing DEF Inv, TestLoop
<1>7. Follows(t)'
  <2>1. todo'[t] = r
    BY <1>1, <1>3
  <2>2. /\ 0 \in 0..Len(r) /\ Len(r) = Len(r) - 0
        /\ \A k \in 1..Len(r) : 0 + k = k
    BY <1>2
  <2>3. Held(t)' = HeldAt(r, 0)
    BY <1>5, <1>6, HeldAtStart
  <2>4. QED
    BY <1>2, <2>1, <2>2, <2>3 DEF Follows
<1>8. \A u \in Running \ {t} : Follows(u)'
  BY <1>1, <1>3, <1>5, Stands DEF Inv
<1>9. QED
  BY <1>4, <1>7, <1>8 DEF Inv

\* An operation on anything but a lock keeps the invariant.
LEMMA InvUse ==
  ASSUME Inv, NEW t \in Running, UseData(t) \/ SendReport(t)
  PROVE  Inv'
<1>1. /\ ~Asleep(t) /\ Done(t) /\ UNCHANGED <<owner, logger, obc, told>>
      /\ Head(todo[t]).do \in {"use", "send"}
  BY DEF UseData, SendReport, Due, Send, Asleep
<1>2. todo \in [Running -> Seq(Op)] /\ todo' = [todo EXCEPT ![t] = Tail(@)]
  BY <1>1 DEF Inv, TypeOK, Op, Done
<1>3. todo' \in [Running -> Seq(Op)]
  BY <1>1, <1>2 DEF Asleep
<1>4. queued' \in 0..MQ_MAX_MESSAGES
  BY ResourcesAssumption DEF Inv, TypeOK, UseData, SendReport
<1>5. TypeOK'
  BY <1>1, <1>3, <1>4 DEF Inv, TypeOK, Op
<1>6. \A u \in Running : Held(u)' = Held(u)
  BY <1>1 DEF Held
<1>7. \A l \in Locks : Head(todo[t]) # Take(l) /\ Head(todo[t]) # Give(l)
  BY <1>1 DEF Take, Give
<1>8. Follows(t)'
  BY <1>1, <1>6, <1>7, Advance DEF Inv
<1>9. \A u \in Running \ {t} : Follows(u)'
  BY <1>2, <1>6, Stands DEF Inv
<1>10. QED
  BY <1>5, <1>8, <1>9 DEF Inv

\* Taking a lock that nobody holds keeps the invariant.
LEMMA InvTake ==
  ASSUME Inv, NEW t \in Running, NEW l \in Locks, TakeLock(t, l)
  PROVE  Inv'
<1>1. /\ ~Asleep(t) /\ Done(t) /\ Head(todo[t]) = Take(l) /\ owner[l] = Nobody
      /\ owner' = [owner EXCEPT ![l] = t] /\ UNCHANGED <<queued, logger, obc, told>>
  BY DEF TakeLock, Due, Asleep
<1>2. todo \in [Running -> Seq(Op)] /\ todo' = [todo EXCEPT ![t] = Tail(@)]
        /\ owner \in [Locks -> Running \cup {Nobody}]
  BY <1>1 DEF Inv, TypeOK, Op, Done
<1>3. todo' \in [Running -> Seq(Op)]
  BY <1>1, <1>2 DEF Asleep
<1>4. TypeOK'
  BY <1>1, <1>2, <1>3 DEF Inv, TypeOK, Op
<1>5. Held(t)' = Held(t) \cup {l}
  BY <1>1, <1>2 DEF Held
<1>6. \A u \in Running \ {t} : Held(u)' = Held(u)
  BY <1>1, <1>2, ThreadIsSomebody DEF Held
<1>7. \A k \in Locks : /\ Head(todo[t]) = Take(k) => k = l
                      /\ Head(todo[t]) # Give(k)
  BY <1>1, Ops
<1>8. Follows(t)'
  <2>1. \A k \in Locks :
          Head(todo[t]) = Take(k) => Held(t)' = Held(t) \cup {k}
    BY <1>5, <1>7
  <2>2. QED
    BY <1>1, <1>7, <2>1, Advance DEF Inv
<1>9. \A u \in Running \ {t} : Follows(u)'
  BY <1>2, <1>6, Stands DEF Inv
<1>10. QED
  BY <1>4, <1>8, <1>9 DEF Inv

\* Giving back a lock keeps the invariant: its owner is the one who gives it.
LEMMA InvGive ==
  ASSUME Inv, NEW t \in Running, NEW l \in Locks, GiveLock(t, l)
  PROVE  Inv'
<1>1. /\ ~Asleep(t) /\ Done(t) /\ Head(todo[t]) = Give(l)
      /\ owner' = [owner EXCEPT ![l] = Nobody]
      /\ UNCHANGED <<queued, logger, obc, told>>
  BY DEF GiveLock, Due, Asleep
<1>2. todo \in [Running -> Seq(Op)] /\ todo' = [todo EXCEPT ![t] = Tail(@)]
        /\ owner \in [Locks -> Running \cup {Nobody}]
  BY <1>1 DEF Inv, TypeOK, Op, Done
<1>3. todo' \in [Running -> Seq(Op)]
  BY <1>1, <1>2 DEF Asleep
<1>4. TypeOK'
  BY <1>1, <1>2, <1>3 DEF Inv, TypeOK, Op
<1>5. owner[l] = t
  <2>1. Right(Give(l), Held(t))
    BY <1>1, NextIsRight DEF Inv
  <2>2. l \in Held(t)
    BY <2>1, Ops DEF Right
  <2>3. QED
    BY <2>2 DEF Held
<1>6. Held(t)' = Held(t) \ {l}
  BY <1>1, <1>2, ThreadIsSomebody DEF Held
<1>7. \A u \in Running \ {t} : Held(u)' = Held(u)
  BY <1>1, <1>2, <1>5, ThreadIsSomebody DEF Held
<1>8. \A k \in Locks : /\ Head(todo[t]) = Give(k) => k = l
                      /\ Head(todo[t]) # Take(k)
  BY <1>1, Ops
<1>9. Follows(t)'
  <2>1. \A k \in Locks :
          Head(todo[t]) = Give(k) => Held(t)' = Held(t) \ {k}
    BY <1>6, <1>8
  <2>2. QED
    BY <1>1, <1>8, <2>1, Advance DEF Inv
<1>10. \A u \in Running \ {t} : Follows(u)'
  BY <1>2, <1>7, Stands DEF Inv
<1>11. QED
  BY <1>4, <1>9, <1>10 DEF Inv

\* The logger, the OBC and the signals do not touch what threads hold.
LEMMA InvOther ==
  ASSUME Inv,
         \/ Receive \/ LoggerGoes \/ Interrupt \/ BroadcastShutdown
         \/ WaitChildren \/ Terminated \/ UNCHANGED vars
         \/ \E p \in Subsystems : HandleSigterm(p)
  PROVE  Inv'
<1>1. UNCHANGED <<todo, owner>>
  BY DEF Receive, LoggerGoes, Interrupt, BroadcastShutdown, WaitChildren,
         Terminated, HandleSigterm, vars
<1>2. queued' \in 0..MQ_MAX_MESSAGES
  BY ResourcesAssumption
     DEF Receive, LoggerGoes, Interrupt, BroadcastShutdown, WaitChildren,
         Terminated, HandleSigterm, vars, Inv, TypeOK
<1>3. /\ logger' \in {"up", "gone"}
      /\ obc' \in {"up", "asked", "stopping", "down"}
      /\ told' \subseteq Subsystems
  BY DEF Receive, LoggerGoes, Interrupt, BroadcastShutdown, WaitChildren,
         Terminated, HandleSigterm, vars, Inv, TypeOK
<1>4. TypeOK'
  BY <1>1, <1>2, <1>3 DEF Inv, TypeOK
<1>5. \A t \in Running : todo'[t] = todo[t] /\ Held(t)' = Held(t)
  BY <1>1 DEF Held
<1>6. QED
  BY <1>4, <1>5, Stands DEF Inv

\* Every step keeps the invariant.
LEMMA InvStep == Inv /\ [Next]_vars => Inv'
<1>1. SUFFICES ASSUME Inv, [Next]_vars PROVE Inv'
  OBVIOUS
<1>2. CASE \E t \in Running : TestLoop(t)
  BY <1>1, <1>2, InvTestLoop
<1>3. CASE \E t \in Running : Operation(t)
  BY <1>1, <1>3, InvUse, InvTake, InvGive DEF Operation
<1>4. QED
  BY <1>1, <1>2, <1>3, InvOther DEF Next

\* The invariant holds of every behaviour.
LEMMA Invariant == Spec => []Inv
  BY InvInit, InvStep, PTL DEF Spec

-----------------------------------------------------------------------------
(***************************************************************************)
(* What follows from the invariant                                         *)
(***************************************************************************)
\* The variables stay in their domains, the queue within its capacity.
THEOREM TypeCorrect == Spec => []TypeOK
<1>1. Inv => TypeOK
  BY DEF Inv
<1>2. QED
  BY <1>1, Invariant, PTL

\* A thread about to take a lock holds only locks that come before it.
LEMMA TakesInOrder ==
  ASSUME Inv, NEW t \in Running, NEW l \in Locks, Due(t, Take(l)), NEW k \in Held(t)
  PROVE  Rank[k] < Rank[l]
<1>1. Right(Take(l), Held(t))
  BY NextIsRight DEF Inv, Due, Asleep
<1>2. QED
  BY <1>1, Ops DEF Right

(***************************************************************************)
(* Whichever threads run, locks are taken in one order, so that no circle  *)
(* of threads that wait for each other can form.                           *)
(***************************************************************************)
THEOREM LocksInOrder == Spec => []LockOrder
<1>1. Inv => LockOrder
  BY TakesInOrder DEF LockOrder
<1>2. QED
  BY <1>1, Invariant, PTL

\* A thread about to use data, other than g_comms, owns the lock that guards
\* them.
LEMMA UserOwns ==
  ASSUME Inv, NEW t \in Running, NEW d \in Data \ {"g_comms"}, Due(t, Use(d))
  PROVE  owner[Guard[d]] = t
<1>1. Right(Use(d), Held(t))
  BY NextIsRight DEF Inv, Due, Asleep
<1>2. Guard[d] \in Held(t)
  BY <1>1, Ops DEF Right
<1>3. QED
  BY <1>2 DEF Held

\* No two threads ever use the same data, other than g_comms, at once,
\* whichever threads run.
THEOREM NoRaces == Spec => []RaceFree
<1>1. Inv => RaceFree
  BY UserOwns DEF RaceFree
<1>2. QED
  BY <1>1, Invariant, PTL

\* Who waits for a lock waits for a thread that is in its round.
LEMMA OwnerIsAwake ==
  ASSUME Inv, NEW l \in Locks, owner[l] # Nobody
  PROVE  owner[l] \in Running /\ ~Asleep(owner[l]) /\ l \in Held(owner[l])
<1>1. owner[l] \in Running
  BY DEF Inv, TypeOK
<1>2. l \in Held(owner[l])
  BY DEF Held
<1>3. QED
  BY <1>1, <1>2, AsleepHoldsNothing DEF Inv

\* A thread that cannot go on waits for a slot or for a lock.
LEMMA WhoWaits ==
  ASSUME Inv, NEW t \in Running, ~Asleep(t), ~CanGo(t)
  PROVE  \/ Due(t, Send) /\ queued = MQ_MAX_MESSAGES
         \/ \E l \in Locks : Due(t, Take(l)) /\ owner[l] # Nobody
<1>1. Right(Head(todo[t]), Held(t))
  BY NextIsRight DEF Inv
<1>2. queued \in 0..MQ_MAX_MESSAGES /\ MQ_MAX_MESSAGES \in Nat
  BY ResourcesAssumption DEF Inv, TypeOK
<1>3. CASE Head(todo[t]) = Send
  BY <1>2, <1>3 DEF CanGo, Send, Due, Asleep
<1>4. ASSUME NEW l \in Locks, Head(todo[t]) = Take(l)
      PROVE  Due(t, Take(l)) /\ owner[l] # Nobody
  BY <1>4 DEF CanGo, Take, Due, Asleep
<1>5. CASE \E l \in Locks : Head(todo[t]) = Give(l)
  BY <1>5 DEF CanGo, Give
<1>6. CASE \E d \in Data : Head(todo[t]) = Use(d)
  BY <1>6 DEF CanGo, Use
<1>7. QED
  BY <1>1, <1>3, <1>4, <1>5, <1>6 DEF Right

(***************************************************************************)
(* Whichever threads run, they never all wait for each other: a chain of   *)
(* waiting threads ends, because the ranks of the locks they wait for rise,*)
(* in a thread that can go on or waits for a slot of the queue.            *)
(***************************************************************************)
THEOREM NeverAtStandstill == Spec => []NoStandstill
<1>1. Inv => NoStandstill
  <2>1. SUFFICES ASSUME Inv, NEW t \in Running, ~Asleep(t),
                        \A u \in Running : ~CanGo(u),
                        ~(logger = "up" /\ queued > 0), ~Clogged
                 PROVE  FALSE
    BY DEF NoStandstill
  <2>2. \A u \in Running : ~(Due(u, Send) /\ queued = MQ_MAX_MESSAGES)
    <3>1. logger \in {"up", "gone"} /\ (queued = MQ_MAX_MESSAGES => queued > 0)
      BY <2>1, ResourcesAssumption DEF Inv, TypeOK
    <3>2. QED
      BY <2>1, <3>1 DEF Clogged
  <2>3. \A u \in Running : ~Asleep(u) =>
          \E l \in Locks : Due(u, Take(l)) /\ owner[l] # Nobody
    BY <2>1, <2>2, WhoWaits
  <2>4. PICK l \in Locks : Due(t, Take(l)) /\ owner[l] # Nobody
    BY <2>1, <2>3
  <2> DEFINE u == owner[l]
  <2>5. u \in Running /\ ~Asleep(u) /\ l \in Held(u)
    BY <2>1, <2>4, OwnerIsAwake
  <2>6. PICK m \in Locks : Due(u, Take(m)) /\ owner[m] # Nobody
    BY <2>3, <2>5
  <2> DEFINE v == owner[m]
  <2>7. v \in Running /\ ~Asleep(v) /\ m \in Held(v)
    BY <2>1, <2>6, OwnerIsAwake
  <2>8. PICK n \in Locks : Due(v, Take(n)) /\ owner[n] # Nobody
    BY <2>3, <2>7
  <2>9. Rank[l] < Rank[m] /\ Rank[m] < Rank[n]
    BY <2>1, <2>5, <2>6, <2>7, <2>8, TakesInOrder
  <2>10. {Rank[l], Rank[m], Rank[n]} \subseteq {1, 2}
    BY DEF Rank
  <2>11. QED
    BY <2>9, <2>10
<1>2. QED
  BY <1>1, Invariant, PTL
=============================================================================
