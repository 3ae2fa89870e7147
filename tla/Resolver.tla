------------------------------ MODULE Resolver ------------------------------
(***************************************************************************)
(* The DNS resolver (protocols/dns/resolv.c, dns_net.c): a table of names  *)
(* being asked for and found, polled by uIP, over an unreliable network.   *)
(* Questions and answers may be lost, delayed, duplicated and reordered.   *)
(*                                                                         *)
(* The address of a name is written as the name.  A query has a callback, *)
(* which does not itself call resolv_query (no client of src/ does); for   *)
(* one without (dns_ecmd.c), calls counts the calls that would be made.    *)
(* What ended a query first is kept: a callback does not change it.        *)
(***************************************************************************)
EXTENDS Integers, FiniteSetsExt

CONSTANTS
    RESOLV_ENTRIES,
    MAX_RETRIES,
    SeqBase,      \* 256, the values of seqno
    Names,
    MaxQueries,   \* bound on the number of calls of resolv_query
    Answers       \* the kinds of answers that servers give

Slots == 0 .. RESOLV_ENTRIES - 1
Queries == 1 .. MaxQueries
NoQuery == 0
NoName == 0

ASSUME ResolverAssumption ==
    /\ RESOLV_ENTRIES \in Nat \ {0} /\ MAX_RETRIES \in Nat \ {0, 1}
    /\ SeqBase \in Nat \ {0} /\ MaxQueries \in Nat
    /\ Names \subseteq Nat \ {NoName}
    /\ Answers \subseteq {"address", "error", "other"}

VARIABLES
    names,    \* the table of struct namemap; query stands for the callback
    seqno,
    packets,  \* questions sent: the slot, as the id of the message, and the name
    issued,   \* the number of queries made
    query     \* for each query: its name, the questions sent, what became of it

vars == <<names, seqno, packets, issued, query>>

States == {"UNUSED", "NEW", "ASKING", "DONE", "ERROR"}
Entry(state, tmr, retries, seq, name, ip, q) ==
    [state |-> state, tmr |-> tmr, retries |-> retries, seqno |-> seq,
     name |-> name, ipaddr |-> ip, query |-> q]

Open == {"NEW", "ASKING"}

Init ==
    /\ names = [i \in Slots |-> Entry("DONE", 0, 0, 0, NoName, NoName, NoQuery)]
    /\ seqno = 0
    /\ packets = {}
    /\ issued = 0
    /\ query = [q \in Queries |-> [name |-> NoName, sent |-> 0, calls |-> 0, end |-> "none"]]

-----------------------------------------------------------------------------
(* The slot for a new name: an unused one, or the first of those with the  *)
(* greatest seqno - names[i].seqno.  The difference is computed in int: it *)
(* is negative for the slots filled before seqno last wrapped.             *)
VictimSlot ==
    LET unused == {i \in Slots : names[i].state = "UNUSED"}
        age(i) == seqno - names[i].seqno
        oldest == {i \in Slots : age(i) > 0 /\ \A j \in Slots : age(j) <= age(i)}
    IN  IF unused # {} THEN Min(unused)
        ELSE IF oldest # {} THEN Min(oldest)
        ELSE 0

Ended(q, end) == [query EXCEPT ![q].end = end]

resolv_query(name) ==
    LET i   == VictimSlot
        old == names[i].query
        q   == issued + 1
    IN  /\ issued < MaxQueries
        /\ issued' = q
        /\ names' = [names EXCEPT ![i].name = name, ![i].state = "NEW", ![i].seqno = seqno,
                                  ![i].query = q]
        /\ seqno' = (seqno + 1) % SeqBase
        /\ query' = [(IF names[i].state \in Open THEN Ended(old, "evicted") ELSE query)
                        EXCEPT ![q].name = name, ![q].end = "pending"]
        /\ UNCHANGED packets

-----------------------------------------------------------------------------
(* The callback of a query, with an address or NULL.                       *)
CallBack(q) ==
    [query EXCEPT ![q].calls = @ + 1, ![q].end = IF @ = "pending" THEN "called" ELSE @]

(* resolv_periodic walks through the table up to the first slot whose      *)
(* question is due, and sends that one.                                    *)
TimedOutLate(i) == names[i].tmr = 1 /\ names[i].retries = MAX_RETRIES    \* a mutant
TimedOut(i) == names[i].tmr = 1 /\ names[i].retries + 1 = MAX_RETRIES

DueOnlyAgain(i) == names[i].state = "ASKING" /\ names[i].tmr = 1 /\ ~TimedOut(i)    \* a mutant
Due(i) ==
    \/ names[i].state = "NEW"
    \/ names[i].state = "ASKING" /\ names[i].tmr = 1 /\ ~TimedOut(i)

Passed == {i \in Slots : \A j \in 0 .. i : ~Due(j)}

WaitedOn(i) ==      \* a mutant: the state is left as it was
    IF names[i].state # "ASKING" THEN names[i]
    ELSE IF TimedOut(i) THEN [names[i] EXCEPT !.tmr = 0, !.retries = MAX_RETRIES]
    ELSE [names[i] EXCEPT !.tmr = @ - 1]
Waited(i) ==
    IF names[i].state # "ASKING" THEN names[i]
    ELSE IF TimedOut(i) THEN [names[i] EXCEPT !.tmr = 0, !.retries = MAX_RETRIES, !.state = "ERROR"]
    ELSE [names[i] EXCEPT !.tmr = @ - 1]

Asked(i) ==
    IF names[i].state = "NEW"
    THEN [names[i] EXCEPT !.state = "ASKING", !.tmr = 1, !.retries = 0]
    ELSE [names[i] EXCEPT !.retries = @ + 1, !.tmr = names[i].retries + 1]

Expired == {i \in Passed : names[i].state = "ASKING" /\ TimedOut(i)}

resolv_periodic ==
    LET due == {i \in Slots : Due(i)}
        send == Min(due)
        expired == {names[i].query : i \in Expired}
        asked == IF due = {} THEN NoQuery ELSE names[send].query
    IN  /\ names' = [i \in Slots |-> IF i \in Passed THEN Waited(i)
                                     ELSE IF i = send THEN Asked(i) ELSE names[i]]
        /\ query' = [q \in Queries |->
                        IF q \in expired THEN CallBack(q)[q]
                        ELSE IF q = asked THEN [query[q] EXCEPT !.sent = @ + 1]
                        ELSE query[q]]
        /\ packets' = IF due = {} THEN packets
                      ELSE packets \cup {[id |-> send, name |-> names[send].name]}
        /\ UNCHANGED <<seqno, issued>>

(* resolv_newdata: an answer of some kind to a question that was sent; it  *)
(* may arrive again.  An answer without an address leaves the slot DONE,   *)
(* with the address of the name it was last used for.                      *)
AcceptsAlways(i) == names[i].query # NoQuery    \* a mutant
Accepts(i) == names[i].state = "ASKING"

resolv_newdata(p, kind) ==
    LET i == p.id
        q == names[i].query
    IN  /\ packets' \in {packets, packets \ {p}}
        /\ \/ /\ ~Accepts(i)
              /\ UNCHANGED <<names, query>>
           \/ /\ Accepts(i)
              /\ kind = "error"
              /\ names' = [names EXCEPT ![i].state = "ERROR"]
              /\ query' = CallBack(q)
           \/ /\ Accepts(i)
              /\ kind = "address"
              /\ names' = [names EXCEPT ![i].state = "DONE", ![i].ipaddr = p.name]
              /\ query' = CallBack(q)
           \/ /\ Accepts(i)
              /\ kind = "other"
              /\ names' = [names EXCEPT ![i].state = "DONE"]
              /\ query' = Ended(q, "unanswered")
        /\ UNCHANGED <<seqno, issued>>

Next ==
    \/ \E n \in Names : resolv_query(n)
    \/ resolv_periodic
    \/ \E p \in packets, kind \in Answers : resolv_newdata(p, kind)

Spec == Init /\ [][Next]_vars

(* uIP polls every UDP connection periodically.                            *)
FairSpec == Spec /\ WF_vars(resolv_periodic)

-----------------------------------------------------------------------------
Slot == [state : States, tmr : 0 .. MAX_RETRIES, retries : 0 .. MAX_RETRIES,
         seqno : 0 .. SeqBase - 1, name : Names \cup {NoName}, ipaddr : Names \cup {NoName},
         query : Queries \cup {NoQuery}]
Record == [name : Names \cup {NoName}, sent : Nat, calls : Nat,
           end : {"none", "pending", "evicted", "called", "unanswered"}]

(* The table, and the counters within their bounds: the timer of a slot    *)
(* that is being asked for never runs below 1, where it would wrap.        *)
TypeOK ==
    /\ names \in [Slots -> Slot]
    /\ seqno \in 0 .. SeqBase - 1
    /\ packets \subseteq [id : Slots, name : Names]
    /\ issued \in 0 .. MaxQueries
    /\ query \in [Queries -> Record]
    /\ \A i \in Slots : names[i].state = "ASKING" => names[i].tmr \in 1 .. MAX_RETRIES - 1

(* A query that is neither answered nor evicted is in one slot, open; an   *)
(* open slot belongs to such a query, and to the name it asked for.        *)
Holds(i, q) == names[i].query = q /\ names[i].state \in Open
PendingInTable ==
    /\ \A q \in Queries : query[q].end = "pending" => \E i \in Slots : Holds(i, q)
    /\ \A q \in Queries, i, j \in Slots : Holds(i, q) /\ Holds(j, q) => i = j
    /\ \A i \in Slots : names[i].state \in Open =>
          /\ names[i].query \in Queries
          /\ query[names[i].query].end = "pending" /\ query[names[i].query].name = names[i].name

(* The callback of a query is called at most once, whatever duplicates and *)
(* late answers arrive, and never after the query was evicted or ended by  *)
(* an answer without an address (resolv_newdata, resolv_periodic).         *)
CalledAtMostOnce ==
    \A q \in Queries : query[q].calls <= (IF query[q].end = "called" THEN 1 ELSE 0)

(* A name is asked for at most MAX_RETRIES times for one query, by however *)
(* many polls and in whichever slot (resolv_periodic).                     *)
QuestionsBounded == \A q \in Queries : query[q].sent <= MAX_RETRIES

(* Every query comes to an end: a callback with an address or NULL, being  *)
(* evicted by a later query, or an answer in which there is no address.    *)
EveryQueryEnds ==
    \A q \in Queries : query[q].end = "pending" ~> query[q].end # "pending"
=============================================================================
