--------------------------- MODULE ResolverProofs ---------------------------
(***************************************************************************)
(* Proofs about the resolver, for every table size, every number of        *)
(* retries and every number of queries.                                    *)
(*                                                                         *)
(* The properties are about queries, the code works on slots.  RInv ties   *)
(* the two: every query that was made is in at most one slot, a slot that  *)
(* is open has a pending query, and what was sent for it is what the       *)
(* retry counter of the slot says.                                         *)
(***************************************************************************)
EXTENDS Resolver, WellFoundedInduction, NaturalsInduction, TLAPS

(* Queries not made yet have no history.                                   *)
Unissued ==
    \A q \in Queries : q > issued => query[q].sent = 0 /\ query[q].calls = 0 /\ query[q].end = "none"

(* A query is in at most one slot, and has been made.                      *)
Owners ==
    /\ \A i \in Slots : names[i].query <= issued
    /\ \A i, j \in Slots : names[i].query = names[j].query /\ names[i].query # NoQuery => i = j

(* An open slot has a name, and its counters say what was sent for it.     *)
Progress ==
    \A i \in Slots :
        /\ names[i].state \in Open => names[i].name \in Names
        /\ names[i].state = "NEW" => query[names[i].query].sent = 0
        /\ names[i].state = "ASKING" =>
              names[i].retries < MAX_RETRIES /\ query[names[i].query].sent = names[i].retries + 1

RInv ==
    /\ TypeOK
    /\ Unissued
    /\ Owners
    /\ Progress
    /\ PendingInTable
    /\ CalledAtMostOnce
    /\ QuestionsBounded

-----------------------------------------------------------------------------
(* A set of slots that is not empty has a first one.                       *)
LEMMA FirstSlot ==
    ASSUME NEW S, S \subseteq Slots, S # {}
    PROVE  Min(S) \in S /\ \A j \in S : Min(S) <= j
<1> DEFINE R == OpToRel(<, Nat)
<1>1. S \subseteq Nat
  BY ResolverAssumption DEF Slots
<1>2. IsWellFoundedOn(R, Nat)
  BY NatLessThanWellFounded
<1>3. \A x, y \in Nat : y < x => <<y, x>> \in R
  BY DEF OpToRel
<1> HIDE DEF R
<1>4. PICK x \in S : \A y \in S : ~ (<<y, x>> \in R)
  BY <1>1, <1>2, WFMin
<1>5. \A y \in S : ~ (y < x)
  BY <1>1, <1>3, <1>4, Zenon
<1>6. \A y \in S : x <= y
  BY <1>1, <1>5
<1>7. QED
  BY <1>6 DEF Min

(* resolv_query finds a slot in the table.                                 *)
LEMMA VictimInTable == VictimSlot \in Slots
<1> DEFINE unused == {i \in Slots : names[i].state = "UNUSED"}
           age(i) == seqno - names[i].seqno
           oldest == {i \in Slots : age(i) > 0 /\ \A j \in Slots : age(j) <= age(i)}
<1>1. unused # {} => Min(unused) \in Slots
  BY FirstSlot
<1>2. oldest # {} => Min(oldest) \in Slots
  BY FirstSlot
<1>3. 0 \in Slots
  BY ResolverAssumption DEF Slots
<1>4. QED
  BY <1>1, <1>2, <1>3 DEF VictimSlot

(* The invariant holds after resolv_init.                                  *)
LEMMA InitRInv == Init => RInv
<1> SUFFICES ASSUME Init PROVE RInv
  OBVIOUS
<1>1. TypeOK
  BY ResolverAssumption DEF Init, TypeOK, Slot, Record, Entry, States, Queries, NoQuery, NoName
<1>2. Unissued /\ CalledAtMostOnce /\ QuestionsBounded
  BY ResolverAssumption DEF Init, Unissued, CalledAtMostOnce, QuestionsBounded, Queries
<1>3. Owners /\ Progress /\ PendingInTable
  BY DEF Init, Owners, Progress, PendingInTable, Holds, Entry, Open, NoQuery
<1>4. QED
  BY <1>1, <1>2, <1>3 DEF RInv

-----------------------------------------------------------------------------
(* The types of what a state of RInv consists of.                          *)
LEMMA Types ==
    ASSUME RInv
    PROVE  /\ names \in [Slots -> Slot] /\ query \in [Queries -> Record]
           /\ issued \in 0 .. MaxQueries /\ Queries \subseteq Nat /\ NoQuery \notin Queries
           /\ \A i \in Slots : names[i].query \in Queries \cup {NoQuery}
  BY ResolverAssumption DEF RInv, TypeOK, Slot, Queries, NoQuery

(* resolv_query preserves the invariant: the query that was in the slot    *)
(* is evicted if it was pending, and the new one is in no other slot.      *)
LEMMA QueryRInv ==
    ASSUME RInv, NEW n \in Names, resolv_query(n)
    PROVE  RInv'
<1> DEFINE v == VictimSlot
           q == issued + 1
           old == names[v].query
<1>1. v \in Slots
  BY VictimInTable
<1>2. q \in Queries /\ q \in Nat /\ q # NoQuery /\ issued' = q
  BY Types, ResolverAssumption DEF resolv_query, Queries, NoQuery
<1>3. names' = [names EXCEPT ![v] = [@ EXCEPT !.name = n, !.state = "NEW", !.seqno = seqno, !.query = q]]
  BY <1>1, Types DEF resolv_query
<1>4. names[v].state \in Open => old \in Queries /\ query[old].end = "pending"
  BY <1>1 DEF RInv, PendingInTable
<1>5. old # q /\ \A j \in Slots : names[j].query # q
  BY <1>1, <1>2, Types DEF RInv, Owners
<1>6. query' = [(IF names[v].state \in Open THEN [query EXCEPT ![old].end = "evicted"] ELSE query)
                   EXCEPT ![q].name = n, ![q].end = "pending"]
  BY DEF resolv_query, Ended
<1> HIDE DEF v, q, old
<1>7. names' \in [Slots -> Slot]
  <2>1. names[v] \in Slot /\ seqno \in 0 .. SeqBase - 1
    BY <1>1 DEF RInv, TypeOK
  <2>2. [names[v] EXCEPT !.name = n, !.state = "NEW", !.seqno = seqno, !.query = q] \in Slot
    BY <1>2, <2>1 DEF Slot, States
  <2>3. QED
    BY <1>1, <1>3, <2>2, Types
<1>8. /\ names'[v].state = "NEW" /\ names'[v].query = q /\ names'[v].name = n
      /\ \A j \in Slots : j # v => names'[j] = names[j]
  BY <1>1, <1>3, Types DEF Slot
<1>9. query' \in [Queries -> Record]
  <2> DEFINE m == IF names[v].state \in Open THEN [query EXCEPT ![old].end = "evicted"] ELSE query
  <2>1. old \in Queries => [query[old] EXCEPT !.end = "evicted"] \in Record
    BY Types DEF Record
  <2>2. m \in [Queries -> Record]
    BY <1>4, <2>1, Types
  <2> HIDE DEF m
  <2>3. [m[q] EXCEPT !.name = n, !.end = "pending"] \in Record
    BY <1>2, <2>2 DEF Record
  <2>4. query' = [m EXCEPT ![q] = [m[q] EXCEPT !.name = n, !.end = "pending"]]
    BY <1>2, <1>6, <2>2 DEF m
  <2>5. QED
    BY <1>2, <2>2, <2>3, <2>4
<1>10. /\ query'[q].name = n /\ query'[q].end = "pending"
       /\ query'[q].sent = 0 /\ query'[q].calls = 0
  BY <1>2, <1>4, <1>5, <1>6, Types DEF Record, RInv, Unissued, q
<1>11. \A r \in Queries : r # q =>
          /\ query'[r].name = query[r].name /\ query'[r].sent = query[r].sent
          /\ query'[r].calls = query[r].calls
          /\ query'[r].end = IF names[v].state \in Open /\ r = old THEN "evicted" ELSE query[r].end
  BY <1>2, <1>4, <1>6, Types DEF Record
<1>12. \A j \in Slots : j # v => names[j].query # q /\ (names[j].state \in Open => names[j].query # old)
  BY <1>1, <1>5, Types DEF RInv, Owners, PendingInTable, old
<1>13. TypeOK'
  <2>1. seqno' \in 0 .. SeqBase - 1
    BY ResolverAssumption DEF RInv, TypeOK, resolv_query
  <2>2. packets' = packets
    BY DEF resolv_query
  <2>3. \A j \in Slots : names'[j].state = "ASKING" => names'[j].tmr \in 1 .. MAX_RETRIES - 1
    BY <1>8 DEF RInv, TypeOK
  <2>4. QED
    BY <1>2, <1>7, <1>9, <2>1, <2>2, <2>3, Types DEF RInv, TypeOK, Queries
<1>14. Unissued'
  BY <1>2, <1>4, <1>11, Types DEF RInv, Unissued, q
<1>15. Owners'
  <2>1. issued \in Nat /\ \A j \in Slots : names[j].query \in Nat /\ names[j].query <= issued
    BY Types DEF RInv, Owners, NoQuery
  <2>2. \A j \in Slots : names[j].query <= q
    BY <2>1 DEF q
  <2>3. QED
    BY <1>1, <1>2, <1>5, <1>8, <2>2 DEF RInv, Owners
<1>16. Progress'
  BY <1>1, <1>8, <1>10, <1>11, <1>12 DEF RInv, Progress, PendingInTable, Open
<1>17. PendingInTable'
  <2>1. \A r \in Queries : query'[r].end = "pending" => \E j \in Slots : Holds(j, r)'
    <3> SUFFICES ASSUME NEW r \in Queries, query'[r].end = "pending"
                 PROVE  \E j \in Slots : Holds(j, r)'
      OBVIOUS
    <3>1. CASE r = q
      BY <1>1, <1>8, <3>1 DEF Holds, Open
    <3>2. CASE r # q
      <4>1. query[r].end = "pending" /\ ~(names[v].state \in Open /\ r = old)
        BY <1>11, <3>2
      <4>2. PICK j \in Slots : Holds(j, r)
        BY <4>1 DEF RInv, PendingInTable
      <4>3. j # v
        BY <4>1, <4>2 DEF Holds, old
      <4>4. QED
        BY <1>8, <4>2, <4>3 DEF Holds
    <3>3. QED
      BY <3>1, <3>2
  <2>2. \A r \in Queries, j, k \in Slots : Holds(j, r)' /\ Holds(k, r)' => j = k
    BY <1>1, <1>5, <1>8 DEF RInv, PendingInTable, Holds
  <2>3. \A j \in Slots : names'[j].state \in Open =>
          /\ names'[j].query \in Queries
          /\ query'[names'[j].query].end = "pending" /\ query'[names'[j].query].name = names'[j].name
    <3> SUFFICES ASSUME NEW j \in Slots, names'[j].state \in Open
                 PROVE  /\ names'[j].query \in Queries
                        /\ query'[names'[j].query].end = "pending"
                        /\ query'[names'[j].query].name = names'[j].name
      OBVIOUS
    <3>1. CASE j = v
      BY <1>2, <1>8, <1>10, <3>1
    <3>2. CASE j # v
      <4>1. names'[j] = names[j]
        BY <1>8, <3>2
      <4>2. /\ names[j].query \in Queries /\ names[j].query # q /\ names[j].query # old
            /\ query[names[j].query].end = "pending" /\ query[names[j].query].name = names[j].name
        BY <1>12, <3>2, <4>1 DEF RInv, PendingInTable
      <4>3. QED
        BY <1>11, <4>1, <4>2
    <3>3. QED
      BY <3>1, <3>2
  <2>4. QED
    BY <2>1, <2>2, <2>3 DEF PendingInTable
<1>18. CalledAtMostOnce' /\ QuestionsBounded'
  <2>1. \A r \in Queries : r # q =>
          query'[r].calls <= (IF query'[r].end = "called" THEN 1 ELSE 0) /\ query'[r].sent <= MAX_RETRIES
    BY <1>4, <1>11 DEF RInv, CalledAtMostOnce, QuestionsBounded
  <2>2. QED
    BY <1>10, <2>1, ResolverAssumption DEF CalledAtMostOnce, QuestionsBounded
<1>19. QED
  BY <1>13, <1>14, <1>15, <1>16, <1>17, <1>18 DEF RInv

-----------------------------------------------------------------------------
(* One poll by uIP, slot by slot: what resolv_periodic does to an open     *)
(* slot and to its query.                                                  *)
Untouched(i) == names'[i] = names[i] /\ query'[names[i].query] = query[names[i].query]

Delayed(i) ==
    /\ names[i].state = "ASKING" /\ names[i].tmr > 1
    /\ names'[i] = [names[i] EXCEPT !.tmr = @ - 1]
    /\ query'[names[i].query] = query[names[i].query]

GivenUp(i) ==
    /\ names[i].state = "ASKING"
    /\ names'[i] = [names[i] EXCEPT !.tmr = 0, !.retries = MAX_RETRIES, !.state = "ERROR"]
    /\ query'[names[i].query] =
          [query[names[i].query] EXCEPT !.calls = @ + 1, !.end = "called"]

Sent(i) ==
    /\ names[i].state = "ASKING" => names[i].retries + 1 # MAX_RETRIES
    /\ names'[i] = Asked(i)
    /\ query'[names[i].query] = [query[names[i].query] EXCEPT !.sent = @ + 1]

(* resolv_periodic does one of four things to each open slot, and nothing  *)
(* to the others and to queries that are in no open slot.                  *)
LEMMA PollBySlot ==
    ASSUME RInv, resolv_periodic
    PROVE  /\ names' = [i \in Slots |-> names'[i]]
           /\ query' = [q \in Queries |-> query'[q]]
           /\ \A i \in Slots : names[i].state \in Open =>
                 Untouched(i) \/ Delayed(i) \/ GivenUp(i) \/ Sent(i)
           /\ \A i \in Slots : names[i].state \notin Open => names'[i] = names[i]
           /\ \A q \in Queries : (\A i \in Slots : ~Holds(i, q)) => query'[q] = query[q]
<1> DEFINE due == {i \in Slots : Due(i)}
           send == Min(due)
           expired == {names[i].query : i \in Expired}
           asked == IF due = {} THEN NoQuery ELSE names[send].query
<1>1. /\ names' = [i \in Slots |-> IF i \in Passed THEN Waited(i)
                                    ELSE IF i = send THEN Asked(i) ELSE names[i]]
      /\ query' = [q \in Queries |-> IF q \in expired THEN CallBack(q)[q]
                                      ELSE IF q = asked THEN [query[q] EXCEPT !.sent = @ + 1]
                                      ELSE query[q]]
  BY DEF resolv_periodic
<1>2. due # {} => send \in Slots /\ Due(send) /\ \A j \in Slots : Due(j) => send <= j
  BY FirstSlot
<1>3. due = {} => \A i \in Slots : i \in Passed
  BY ResolverAssumption DEF Passed, Slots
<1>4. due # {} => send \notin Passed
  BY <1>2 DEF Passed, Slots
<1> HIDE DEF due, send, expired, asked
<1>5. \A i \in Slots : Due(i) => names[i].state \in Open
  BY DEF Due, Open
<1>6. \A i, j \in Slots : names[i].state \in Open /\ names[j].query = names[i].query => i = j
  BY Types DEF RInv, Owners, PendingInTable
<1>7. \A i \in Slots : names[i].state \in Open => names[i].query \in Queries
  BY DEF RInv, PendingInTable
<1>8. \A i \in Slots : names[i].state \in Open => (names[i].query \in expired <=> i \in Expired)
  BY <1>6 DEF expired, Expired, Passed
<1>9. \A i \in Slots : names[i].state \in Open => (names[i].query = asked <=> due # {} /\ i = send)
  BY <1>2, <1>6, <1>7, Types DEF asked
<1>10. ASSUME NEW i \in Slots, names[i].state \in Open
       PROVE  Untouched(i) \/ Delayed(i) \/ GivenUp(i) \/ Sent(i)
  <2>1. names[i] \in Slot /\ names[i].query \in Queries
    BY <1>7, <1>10, Types
  <2>2. CASE i \in Passed
    <3>1. ~Due(i)
      BY <2>2, ResolverAssumption DEF Passed, Slots
    <3>2. names[i].state = "ASKING" /\ names[i].tmr \in 1 .. MAX_RETRIES - 1
      BY <1>10, <3>1 DEF Due, Open, RInv, TypeOK
    <3>3. names[i].query # asked /\ names'[i] = Waited(i)
      BY <1>1, <1>4, <1>9, <1>10, <2>2
    <3>4. CASE TimedOut(i)
      <4>1. query'[names[i].query] = CallBack(names[i].query)[names[i].query]
        BY <1>1, <1>8, <1>10, <2>1, <2>2, <3>2, <3>4 DEF Expired
      <4>2. CallBack(names[i].query)[names[i].query] =
              [query[names[i].query] EXCEPT !.calls = @ + 1, !.end = "called"]
        BY <1>10, <2>1, Types DEF CallBack, Record, RInv, PendingInTable
      <4>3. GivenUp(i)
        BY <3>2, <3>3, <3>4, <4>1, <4>2 DEF GivenUp, Waited
      <4>4. QED
        BY <4>3
    <3>5. CASE ~TimedOut(i)
      <4>1. names[i].tmr > 1
        BY <3>1, <3>2, <3>5, ResolverAssumption DEF Due
      <4>2. query'[names[i].query] = query[names[i].query]
        BY <1>1, <1>8, <1>10, <2>1, <3>3, <3>5 DEF Expired
      <4>3. Delayed(i)
        BY <3>2, <3>3, <3>5, <4>1, <4>2 DEF Delayed, Waited
      <4>4. QED
        BY <4>3
    <3>6. QED
      BY <3>4, <3>5
  <2>3. CASE i \notin Passed
    <3>1. due # {} /\ names[i].query \notin expired
      BY <1>3, <1>8, <1>10, <2>3 DEF Expired
    <3>2. CASE i = send
      <4>1. Due(i)
        BY <1>2, <3>1, <3>2
      <4>2. names[i].state = "ASKING" => names[i].retries + 1 # MAX_RETRIES
        BY <4>1 DEF Due, TimedOut
      <4>3. Sent(i)
        BY <1>1, <1>9, <1>10, <2>1, <2>3, <3>1, <3>2, <4>2 DEF Sent
      <4>4. QED
        BY <4>3
    <3>3. CASE i # send
      BY <1>1, <1>9, <1>10, <2>1, <2>3, <3>1, <3>3 DEF Untouched
    <3>4. QED
      BY <3>2, <3>3
  <2>4. QED
    BY <2>2, <2>3
<1>11. ASSUME NEW i \in Slots, names[i].state \notin Open
       PROVE  names'[i] = names[i]
  <2>1. i \in Passed => Waited(i) = names[i]
    BY <1>11 DEF Waited, Open
  <2>2. i \notin Passed => i # send
    BY <1>2, <1>3, <1>5, <1>11
  <2>3. QED
    BY <1>1, <2>1, <2>2
<1>12. ASSUME NEW q \in Queries, \A i \in Slots : ~Holds(i, q)
       PROVE  query'[q] = query[q]
  <2>1. q \notin expired
    BY <1>12 DEF expired, Expired, Passed, Holds, Open
  <2>2. q # asked
    BY <1>2, <1>5, <1>12, Types DEF asked, Holds
  <2>3. QED
    BY <1>1, <2>1, <2>2
<1>13. QED
  BY <1>1, <1>10, <1>11, <1>12

(* An open slot after a poll: still open, with its counters in step, or    *)
(* given up, with its callback called.                                     *)
StillOpen(i) ==
    LET q == names[i].query IN
    /\ names'[i].state \in Open
    /\ query'[q].end = query[q].end /\ query'[q].calls = query[q].calls /\ query'[q].sent \in Nat
    /\ names'[i].state = "NEW" => query'[q].sent = 0
    /\ names'[i].state = "ASKING" =>
          /\ names'[i].tmr \in 1 .. MAX_RETRIES - 1 /\ names'[i].retries < MAX_RETRIES
          /\ query'[q].sent = names'[i].retries + 1

Ending(i) ==
    LET q == names[i].query IN
    /\ names'[i].state = "ERROR"
    /\ query'[q].end = "called" /\ query'[q].calls = query[q].calls + 1
    /\ query'[q].sent = query[q].sent

(* The records that resolv_periodic and resolv_newdata write: a slot with  *)
(* a timer, a count and a state, and a query that was called back.         *)
SlotWith(s, state, tmr, retries) == [s EXCEPT !.state = state, !.tmr = tmr, !.retries = retries]
Called(r) == [r EXCEPT !.calls = @ + 1, !.end = "called"]

LEMMA SlotUpdate ==
    ASSUME NEW s \in Slot, NEW state \in States, NEW tmr \in 0 .. MAX_RETRIES,
           NEW retries \in 0 .. MAX_RETRIES
    PROVE  LET t == SlotWith(s, state, tmr, retries) IN
           /\ t \in Slot /\ t.state = state /\ t.tmr = tmr /\ t.retries = retries
           /\ t.query = s.query /\ t.name = s.name /\ t.ipaddr = s.ipaddr
  BY DEF SlotWith, Slot

LEMMA CalledRecord ==
    ASSUME NEW r \in Record
    PROVE  LET t == Called(r) IN
           /\ t \in Record /\ t.calls = r.calls + 1 /\ t.end = "called"
           /\ t.name = r.name /\ t.sent = r.sent
<1>1. r.calls + 1 \in Nat
  BY DEF Record
<1> DEFINE c == r.calls + 1
<1> HIDE DEF c
<1>2. [r EXCEPT !.calls = c, !.end = "called"] \in Record
  BY <1>1 DEF Record, c
<1>3. QED
  BY <1>2 DEF Called, Record, c

(* The four things that resolv_periodic does to a slot keep its counters   *)
(* within bounds and in step with the history of its query.                *)
LEMMA PolledSlot ==
    ASSUME RInv, NEW i \in Slots, names[i].state \in Open,
           Untouched(i) \/ Delayed(i) \/ GivenUp(i) \/ Sent(i)
    PROVE  /\ names'[i] \in Slot /\ query'[names[i].query] \in Record
           /\ names'[i].query = names[i].query /\ names'[i].name = names[i].name
           /\ query'[names[i].query].name = query[names[i].query].name
           /\ StillOpen(i) \/ Ending(i)
<1> DEFINE q == names[i].query
<1>1. /\ names[i] \in Slot /\ query[q] \in Record
      /\ MAX_RETRIES \in Nat /\ MAX_RETRIES > 1
  BY Types, ResolverAssumption DEF RInv, PendingInTable
<1>2. /\ names[i].state = "NEW" => query[q].sent = 0
      /\ names[i].state = "ASKING" =>
            /\ names[i].tmr \in 1 .. MAX_RETRIES - 1 /\ names[i].retries < MAX_RETRIES
            /\ query[q].sent = names[i].retries + 1
  BY DEF RInv, TypeOK, Progress
<1> HIDE DEF q
<1>3. CASE Untouched(i)
  BY <1>1, <1>2, <1>3 DEF Untouched, StillOpen, Record, q
<1>4. CASE Delayed(i)
  BY <1>1, <1>2, <1>4 DEF Delayed, StillOpen, Slot, Record, Open, q
<1>5. CASE GivenUp(i)
  <2>1. /\ names'[i] \in Slot /\ names'[i].state = "ERROR"
        /\ names'[i].query = names[i].query /\ names'[i].name = names[i].name
    <3>1. names'[i] = SlotWith(names[i], "ERROR", 0, MAX_RETRIES)
      BY <1>1, <1>5 DEF GivenUp, SlotWith, Slot
    <3>2. "ERROR" \in States /\ 0 \in 0 .. MAX_RETRIES /\ MAX_RETRIES \in 0 .. MAX_RETRIES
      BY <1>1 DEF States
    <3>3. QED
      BY <1>1, <3>1, <3>2, SlotUpdate
  <2>2. query'[q] = Called(query[q])
    BY <1>5 DEF GivenUp, Called, q
  <2>3. /\ query'[q] \in Record /\ query'[q].name = query[q].name /\ query'[q].sent = query[q].sent
        /\ query'[q].end = "called" /\ query'[q].calls = query[q].calls + 1
    BY <1>1, <2>2, CalledRecord
  <2>4. QED
    BY <2>1, <2>3 DEF Ending, q
<1>6. CASE Sent(i)
  <2>1. query'[q] = [query[q] EXCEPT !.sent = @ + 1]
    BY <1>6 DEF Sent, q
  <2>2. /\ query'[q] \in Record /\ query'[q].name = query[q].name /\ query'[q].sent = query[q].sent + 1
        /\ query'[q].end = query[q].end /\ query'[q].calls = query[q].calls /\ query'[q].sent \in Nat
    BY <1>1, <2>1 DEF Record
  <2>3. CASE names[i].state = "NEW"
    <3>1. names'[i] = SlotWith(names[i], "ASKING", 1, 0)
      BY <1>6, <2>3 DEF Sent, Asked, SlotWith
    <3>2. /\ names'[i] \in Slot /\ names'[i].query = names[i].query /\ names'[i].name = names[i].name
          /\ names'[i].state = "ASKING" /\ names'[i].tmr = 1 /\ names'[i].retries = 0
      <4>1. "ASKING" \in States /\ 0 \in 0 .. MAX_RETRIES /\ 1 \in 0 .. MAX_RETRIES
        BY <1>1 DEF States
      <4>2. QED
        BY <1>1, <3>1, <4>1, SlotUpdate
    <3>3. QED
      BY <1>1, <1>2, <2>2, <2>3, <3>2 DEF StillOpen, Open, q
  <2>4. CASE names[i].state = "ASKING"
    <3>1. names'[i] = [names[i] EXCEPT !.retries = @ + 1, !.tmr = names[i].retries + 1]
      BY <1>6, <2>4 DEF Sent, Asked
    <3>2. names[i].retries \in Nat /\ names[i].retries + 1 < MAX_RETRIES
      BY <1>1, <1>2, <1>6, <2>4 DEF Sent, Slot
    <3>3. /\ names'[i] \in Slot /\ names'[i].query = names[i].query /\ names'[i].name = names[i].name
          /\ names'[i].state = "ASKING" /\ names'[i].tmr = names[i].retries + 1
          /\ names'[i].retries = names[i].retries + 1
      <4> DEFINE k == names[i].retries + 1
      <4>1. names'[i] = SlotWith(names[i], "ASKING", k, k)
        BY <1>1, <2>4, <3>1 DEF SlotWith, Slot
      <4>2. "ASKING" \in States /\ k \in 0 .. MAX_RETRIES
        BY <1>1, <3>2 DEF States
      <4> HIDE DEF k
      <4>3. /\ names'[i] \in Slot /\ names'[i].query = names[i].query /\ names'[i].name = names[i].name
            /\ names'[i].state = "ASKING" /\ names'[i].tmr = k /\ names'[i].retries = k
        BY <1>1, <4>1, <4>2, SlotUpdate
      <4>4. QED
        BY <4>3 DEF k
    <3>4. QED
      BY <1>1, <1>2, <2>2, <2>4, <3>2, <3>3 DEF StillOpen, Open, q
  <2>5. QED
    BY <2>3, <2>4 DEF Open
<1>7. QED
  BY <1>3, <1>4, <1>5, <1>6

(* resolv_periodic preserves the invariant.                                *)
LEMMA PollRInv ==
    ASSUME RInv, resolv_periodic
    PROVE  RInv'
<1>1. /\ names' = [i \in Slots |-> names'[i]] /\ query' = [q \in Queries |-> query'[q]]
      /\ \A i \in Slots : names[i].state \notin Open => names'[i] = names[i]
      /\ \A q \in Queries : (\A i \in Slots : ~Holds(i, q)) => query'[q] = query[q]
  BY PollBySlot
<1>2. \A i \in Slots : names[i].state \in Open =>
         /\ names'[i] \in Slot /\ query'[names[i].query] \in Record
         /\ names'[i].query = names[i].query /\ names'[i].name = names[i].name
         /\ query'[names[i].query].name = query[names[i].query].name
         /\ StillOpen(i) \/ Ending(i)
  BY PollBySlot, PolledSlot
<1>3. \A i \in Slots : names[i].state \in Open =>
         /\ names[i].query \in Queries /\ query[names[i].query].end = "pending"
         /\ query[names[i].query].name = names[i].name /\ names[i].name \in Names
  BY DEF RInv, PendingInTable, Progress
<1>4. \A i \in Slots : names'[i].query = names[i].query /\ names'[i].name = names[i].name
  BY <1>1, <1>2
<1>5. \A i \in Slots : names'[i].state \in Open => names[i].state \in Open /\ StillOpen(i)
  BY <1>1, <1>2 DEF Ending, Open
<1>6. \A q \in Queries :
         query'[q] = query[q] \/ \E i \in Slots : Holds(i, q)
  BY <1>1
<1>7. seqno' = seqno /\ issued' = issued
  BY DEF resolv_periodic
<1>8. TypeOK'
  <2>1. names' \in [Slots -> Slot]
    <3>1. \A i \in Slots : names'[i] \in Slot
      BY <1>1, <1>2, Types
    <3>2. QED
      BY <1>1, <3>1
  <2>2. query' \in [Queries -> Record]
    <3>1. \A q \in Queries : query'[q] \in Record
      BY <1>2, <1>6, Types DEF Holds
    <3>2. QED
      BY <1>1, <3>1
  <2>3. packets' \subseteq [id : Slots, name : Names]
    <3> DEFINE due == {i \in Slots : Due(i)}
    <3>1. due # {} => Min(due) \in due
      BY FirstSlot
    <3>2. \A i \in due : i \in Slots /\ names[i].name \in Names
      BY <1>3 DEF Due, Open
    <3>3. packets' = IF due = {} THEN packets
                     ELSE packets \cup {[id |-> Min(due), name |-> names[Min(due)].name]}
      BY DEF resolv_periodic
    <3> HIDE DEF due
    <3>4. QED
      BY <3>1, <3>2, <3>3 DEF RInv, TypeOK
  <2>4. \A i \in Slots : names'[i].state = "ASKING" => names'[i].tmr \in 1 .. MAX_RETRIES - 1
    BY <1>5 DEF StillOpen, Open
  <2>5. QED
    BY <1>7, <2>1, <2>2, <2>3, <2>4 DEF RInv, TypeOK
<1>9. Owners'
  BY <1>4, <1>7 DEF RInv, Owners
<1>10. Unissued'
  <2>1. \A q \in Queries : q > issued => \A i \in Slots : ~Holds(i, q)
    BY Types DEF RInv, Owners, Holds
  <2>2. QED
    BY <1>1, <1>7, <2>1 DEF RInv, Unissued
<1>11. Progress'
  BY <1>3, <1>4, <1>5 DEF Progress, StillOpen, Open
<1>12. PendingInTable'
  <2>1. ASSUME NEW q \in Queries, query'[q].end = "pending"
        PROVE  \E i \in Slots : Holds(i, q)'
    <3>1. PICK i \in Slots : Holds(i, q)
      BY <1>6, <2>1 DEF RInv, PendingInTable
    <3>2. StillOpen(i)
      BY <1>2, <2>1, <3>1 DEF Holds, Ending
    <3>3. QED
      BY <1>4, <3>1, <3>2 DEF Holds, StillOpen
  <2>2. \A q \in Queries, i, j \in Slots : Holds(i, q)' /\ Holds(j, q)' => i = j
    BY <1>4, <1>5 DEF RInv, PendingInTable, Holds
  <2>3. ASSUME NEW i \in Slots, names'[i].state \in Open
        PROVE  /\ names'[i].query \in Queries /\ query'[names'[i].query].end = "pending"
               /\ query'[names'[i].query].name = names'[i].name
    BY <1>2, <1>3, <1>4, <1>5, <2>3 DEF StillOpen
  <2>4. QED
    BY <2>1, <2>2, <2>3 DEF PendingInTable
<1>13. CalledAtMostOnce'
  <2> SUFFICES ASSUME NEW q \in Queries
               PROVE  query'[q].calls <= (IF query'[q].end = "called" THEN 1 ELSE 0)
    BY DEF CalledAtMostOnce
  <2>1. query[q].calls \in Nat /\ query[q].calls <= (IF query[q].end = "called" THEN 1 ELSE 0)
    BY Types DEF RInv, CalledAtMostOnce, Record
  <2>2. CASE query'[q] = query[q]
    BY <2>1, <2>2
  <2>3. CASE \E i \in Slots : Holds(i, q)
    BY <1>2, <1>3, <2>1, <2>3 DEF Holds, StillOpen, Ending
  <2>4. QED
    BY <1>6, <2>2, <2>3
<1>14. QuestionsBounded'
  <2> SUFFICES ASSUME NEW q \in Queries
               PROVE  query'[q].sent <= MAX_RETRIES
    BY DEF QuestionsBounded
  <2>1. query[q].sent <= MAX_RETRIES
    BY DEF RInv, QuestionsBounded
  <2>2. CASE query'[q] = query[q]
    BY <2>1, <2>2
  <2>3. CASE \E i \in Slots : Holds(i, q)
    <3>1. PICK i \in Slots : Holds(i, q)
      BY <2>3
    <3>2. CASE StillOpen(i)
      <4>1. names'[i] \in Slot
        BY <1>2, <3>1 DEF Holds
      <4>2. QED
        BY <3>1, <3>2, <4>1, ResolverAssumption DEF Holds, StillOpen, Slot, Open
    <3>3. CASE Ending(i)
      BY <2>1, <3>1, <3>3 DEF Holds, Ending
    <3>4. QED
      BY <1>2, <3>1, <3>2, <3>3 DEF Holds
  <2>4. QED
    BY <1>6, <2>2, <2>3
<1>15. QED
  BY <1>8, <1>9, <1>10, <1>11, <1>12, <1>13, <1>14 DEF RInv

-----------------------------------------------------------------------------
(* An accepted answer closes the slot and its query, and changes no other. *)
LEMMA AnswerCloses ==
    ASSUME RInv, NEW p \in packets, NEW kind \in Answers, resolv_newdata(p, kind), Accepts(p.id)
    PROVE  LET i == p.id
               q == names[i].query
           IN  /\ i \in Slots /\ q \in Queries
               /\ names' \in [Slots -> Slot] /\ query' \in [Queries -> Record]
               /\ names'[i].state \in {"DONE", "ERROR"} /\ names'[i].query = q
               /\ \A j \in Slots : j # i => names'[j] = names[j]
               /\ query'[q].end \in {"called", "unanswered"} /\ query'[q].sent = query[q].sent
               /\ query'[q].end = "called" => query'[q].calls = query[q].calls + 1
               /\ query'[q].end = "unanswered" => query'[q].calls = query[q].calls
               /\ \A r \in Queries : r # q => query'[r] = query[r]
<1> DEFINE i == p.id
           q == names[i].query
<1>1. p.id \in Slots /\ p.name \in Names
  BY DEF RInv, TypeOK
<1>2. /\ names \in [Slots -> Slot] /\ query \in [Queries -> Record]
      /\ names[i] \in Slot /\ q \in Queries /\ query[q] \in Record /\ query[q].end = "pending"
  BY <1>1, Types DEF Accepts, RInv, PendingInTable, Open
<1>3. ASSUME query' = CallBack(q)
      PROVE  /\ query' \in [Queries -> Record] /\ query'[q].end = "called"
             /\ query'[q].calls = query[q].calls + 1 /\ query'[q].sent = query[q].sent
             /\ \A r \in Queries : r # q => query'[r] = query[r]
  <2>1. query' = [query EXCEPT ![q] = Called(query[q])]
    BY <1>2, <1>3 DEF CallBack, Called
  <2>2. QED
    BY <1>2, <2>1, CalledRecord
<1>4. CASE kind = "error"
  <2>1. names' = [names EXCEPT ![i] = [names[i] EXCEPT !.state = "ERROR"]] /\ query' = CallBack(q)
    BY <1>4 DEF resolv_newdata
  <2>2. [names[i] EXCEPT !.state = "ERROR"] \in Slot
    BY <1>2 DEF Slot, States
  <2>3. names' \in [Slots -> Slot] /\ \A j \in Slots : j # i => names'[j] = names[j]
    BY <1>1, <1>2, <2>1, <2>2
  <2>4. names'[i].state = "ERROR" /\ names'[i].query = q
    BY <1>1, <1>2, <2>1 DEF Slot
  <2> HIDE DEF i, q
  <2>5. QED
    BY <1>1, <1>2, <1>3, <2>1, <2>3, <2>4 DEF i, q
<1>5. CASE kind = "address"
  <2>1. /\ names' = [names EXCEPT ![i] = [names[i] EXCEPT !.state = "DONE", !.ipaddr = p.name]]
        /\ query' = CallBack(q)
    BY <1>1, <1>2, <1>5 DEF resolv_newdata
  <2>2. [names[i] EXCEPT !.state = "DONE", !.ipaddr = p.name] \in Slot
    BY <1>1, <1>2 DEF Slot, States
  <2>3. names' \in [Slots -> Slot] /\ \A j \in Slots : j # i => names'[j] = names[j]
    BY <1>1, <1>2, <2>1, <2>2
  <2>4. names'[i].state = "DONE" /\ names'[i].query = q /\ names'[i].ipaddr = p.name
    BY <1>1, <1>2, <2>1 DEF Slot
  <2> HIDE DEF i, q
  <2>5. QED
    BY <1>1, <1>2, <1>3, <2>1, <2>3, <2>4 DEF i, q
<1>6. CASE kind = "other"
  <2>1. /\ names' = [names EXCEPT ![i] = [names[i] EXCEPT !.state = "DONE"]]
        /\ query' = [query EXCEPT ![q] = [query[q] EXCEPT !.end = "unanswered"]]
    BY <1>6 DEF resolv_newdata, Ended
  <2>2. [names[i] EXCEPT !.state = "DONE"] \in Slot /\ [query[q] EXCEPT !.end = "unanswered"] \in Record
    BY <1>2 DEF Slot, States, Record
  <2>3. /\ names' \in [Slots -> Slot] /\ \A j \in Slots : j # i => names'[j] = names[j]
        /\ query' \in [Queries -> Record] /\ \A r \in Queries : r # q => query'[r] = query[r]
    BY <1>1, <1>2, <2>1, <2>2
  <2>4. names'[i].state = "DONE" /\ names'[i].query = q
    BY <1>1, <1>2, <2>1 DEF Slot
  <2>5. /\ query'[q].end = "unanswered" /\ query'[q].calls = query[q].calls
        /\ query'[q].sent = query[q].sent
    BY <1>2, <2>1 DEF Record
  <2> HIDE DEF i, q
  <2>6. QED
    BY <1>1, <1>2, <2>3, <2>4, <2>5 DEF i, q
<1>7. QED
  BY <1>4, <1>5, <1>6 DEF resolv_newdata

(* resolv_newdata preserves the invariant, for answers of every kind and   *)
(* however late they are.                                                  *)
LEMMA NewdataRInv ==
    ASSUME RInv, NEW p \in packets, NEW kind \in Answers, resolv_newdata(p, kind)
    PROVE  RInv'
<1>1. seqno' = seqno /\ issued' = issued /\ packets' \subseteq packets
  BY DEF resolv_newdata
<1>2. CASE ~Accepts(p.id)
  <2>1. names' = names /\ query' = query
    BY <1>2 DEF resolv_newdata
  <2>2. TypeOK'
    BY <1>1, <2>1 DEF RInv, TypeOK
  <2>3. QED
    BY <1>1, <2>1, <2>2 DEF RInv, Unissued, Owners, Progress, PendingInTable, Holds,
                            CalledAtMostOnce, QuestionsBounded
<1>3. CASE Accepts(p.id)
  <2> DEFINE i == p.id
             q == names[i].query
  <2>1. /\ i \in Slots /\ q \in Queries
        /\ names' \in [Slots -> Slot] /\ query' \in [Queries -> Record]
        /\ names'[i].state \in {"DONE", "ERROR"} /\ names'[i].query = q
        /\ \A j \in Slots : j # i => names'[j] = names[j]
        /\ query'[q].end \in {"called", "unanswered"} /\ query'[q].sent = query[q].sent
        /\ query'[q].end = "called" => query'[q].calls = query[q].calls + 1
        /\ query'[q].end = "unanswered" => query'[q].calls = query[q].calls
        /\ \A r \in Queries : r # q => query'[r] = query[r]
    BY <1>3, AnswerCloses
  <2>2. names[i].state = "ASKING" /\ names[i].state \in Open /\ query[q].end = "pending" /\ q <= issued
    BY <1>3, <2>1 DEF Accepts, Open, RInv, PendingInTable, Owners
  <2>3. \A j \in Slots : j # i => names[j].query # q
    BY <2>1, Types DEF RInv, Owners
  <2> HIDE DEF i, q
  <2>4. \A j \in Slots : names'[j].state \in Open => j # i /\ names'[j] = names[j]
    BY <2>1 DEF Open
  <2>5. TypeOK'
    <3>1. \A j \in Slots : names'[j].state = "ASKING" => names'[j].tmr \in 1 .. MAX_RETRIES - 1
      BY <2>4 DEF RInv, TypeOK, Open
    <3>2. QED
      BY <1>1, <2>1, <3>1 DEF RInv, TypeOK
  <2>6. Unissued'
    BY <1>1, <2>1, <2>2, Types DEF RInv, Unissued
  <2>7. Owners'
    BY <1>1, <2>1, <2>2, <2>3 DEF RInv, Owners
  <2>8. Progress'
    <3>1. \A j \in Slots : names'[j].state \in Open =>
             names[j].query \in Queries /\ query'[names[j].query] = query[names[j].query]
      BY <2>1, <2>3, <2>4 DEF RInv, PendingInTable
    <3>2. QED
      BY <2>4, <3>1 DEF RInv, Progress, Open
  <2>9. PendingInTable'
    <3>1. ASSUME NEW r \in Queries, query'[r].end = "pending"
          PROVE  \E j \in Slots : Holds(j, r)'
      <4>1. r # q /\ query[r].end = "pending"
        BY <2>1, <3>1
      <4>2. PICK j \in Slots : Holds(j, r)
        BY <4>1 DEF RInv, PendingInTable
      <4>3. j # i
        BY <4>1, <4>2 DEF Holds, q
      <4>4. QED
        BY <2>1, <4>2, <4>3 DEF Holds
    <3>2. \A r \in Queries, j, k \in Slots : Holds(j, r)' /\ Holds(k, r)' => j = k
      BY <2>4 DEF RInv, PendingInTable, Holds
    <3>3. \A j \in Slots : names'[j].state \in Open =>
            /\ names'[j].query \in Queries
            /\ query'[names'[j].query].end = "pending" /\ query'[names'[j].query].name = names'[j].name
      BY <2>1, <2>3, <2>4 DEF RInv, PendingInTable
    <3>4. QED
      BY <3>1, <3>2, <3>3 DEF PendingInTable
  <2>10. CalledAtMostOnce'
    <3>1. query[q].calls \in Nat /\ query[q].calls <= 0
      BY <2>1, <2>2, Types DEF RInv, CalledAtMostOnce, Record
    <3>2. QED
      BY <2>1, <3>1 DEF RInv, CalledAtMostOnce
  <2>11. QuestionsBounded'
    BY <2>1 DEF RInv, QuestionsBounded
  <2>12. QED
    BY <2>5, <2>6, <2>7, <2>8, <2>9, <2>10, <2>11 DEF RInv
<1>4. QED
  BY <1>2, <1>3

(* RInv is inductive.                                                      *)
LEMMA NextRInv == RInv /\ [Next]_vars => RInv'
<1> SUFFICES ASSUME RInv, [Next]_vars PROVE RInv'
  OBVIOUS
<1>1. CASE Next
  BY <1>1, QueryRInv, PollRInv, NewdataRInv DEF Next
<1>2. CASE UNCHANGED vars
  BY <1>2 DEF vars, RInv, TypeOK, Unissued, Owners, Progress, PendingInTable, Holds,
              CalledAtMostOnce, QuestionsBounded
<1>3. QED
  BY <1>1, <1>2

LEMMA AlwaysRInv == Spec => []RInv
  BY InitRInv, NextRInv, PTL DEF Spec

-----------------------------------------------------------------------------
(* The counters of every slot keep within their bounds; the timer of a     *)
(* name being asked for is never decremented from 0 by resolv_periodic.    *)
THEOREM TimerNeverWraps == Spec => []TypeOK
<1>1. RInv => TypeOK
  BY DEF RInv
<1>2. QED
  BY <1>1, AlwaysRInv, PTL

(* Every query that was made and neither answered nor evicted is in one    *)
(* slot that is still polled: resolv_query, resolv_periodic and            *)
(* resolv_newdata lose none.                                               *)
THEOREM NoQueryLost == Spec => []PendingInTable
<1>1. RInv => PendingInTable
  BY DEF RInv
<1>2. QED
  BY <1>1, AlwaysRInv, PTL

(* The callback is called at most once, by resolv_periodic or by           *)
(* resolv_newdata, and not after the query lost its slot.                  *)
THEOREM CallbackOnce == Spec => []CalledAtMostOnce
<1>1. RInv => CalledAtMostOnce
  BY DEF RInv
<1>2. QED
  BY <1>1, AlwaysRInv, PTL

(* resolv_periodic sends at most MAX_RETRIES questions for one query.      *)
THEOREM RetriesBounded == Spec => []QuestionsBounded
<1>1. RInv => QuestionsBounded
  BY DEF RInv
<1>2. QED
  BY <1>1, AlwaysRInv, PTL

=============================================================================
