--------------------------- MODULE EventStreamProofs ------------------------
(***************************************************************************)
(* The slots of the event streams, the order of what a client is sent and  *)
(* the losses it is told of: for any number of clients and events, every   *)
(* ring and every limit.                                                   *)
(***************************************************************************)
EXTENDS EventStream, DataLemmas

Entries == [id : 1..MaxEvents, kind : Kinds]
Stream  == [position : Nat, lastId : Nat, filter : Queries \cup {"none"}]
Log     == [from : Nat, floor : Nat, ids : Seq(Nat), lost : Nat]

\* The ids in the channel rise.
Rising(ch) ==
    /\ ch \in Seq(Entries)
    /\ \A i, j \in 1..Len(ch) : i < j => ch[i].id < ch[j].id

\* The id is one of those before the client's position.
Passed(ch, s, g, id) == \E i \in g.from..(s.position - 1) : ch[i].id = id

\* A client with stream s and log g over the channel ch.
ClientAt(ch, s, g) ==
    /\ s \in Stream /\ g \in Log
    /\ g.from >= 1 /\ g.from <= s.position /\ s.position <= Len(ch) + 1
    /\ g.floor <= s.lastId
    /\ s.lastId = g.floor \/ Passed(ch, s, g, s.lastId)
    /\ \A j \in 1..Len(g.ids) : /\ g.floor < g.ids[j] /\ g.ids[j] <= s.lastId
                                /\ Passed(ch, s, g, g.ids[j])
    /\ \A i, j \in 1..Len(g.ids) : i < j => g.ids[i] < g.ids[j]

\* What the constants are.
LEMMA Constants ==
    /\ MaxClients \in Nat /\ MaxClients >= 1 /\ Capacity \in Nat /\ Capacity >= 1
    /\ MaxEvents \in Nat /\ LastIds \subseteq Nat /\ IsFiniteSet(Clients)
  BY HubAssumption

\* The parts of a stream and of a log.
LEMMA Parts ==
    /\ \A s \in Stream : s.position \in Nat /\ s.lastId \in Nat
    /\ \A g \in Log : g.from \in Nat /\ g.floor \in Nat /\ g.ids \in Seq(Nat) /\ g.lost \in Nat
  BY DEF Stream, Log

\* What is in the channel has an id.
LEMMA EntryIds ==
    ASSUME NEW ch, Rising(ch)
    PROVE  /\ Len(ch) \in Nat
           /\ \A i \in 1..Len(ch) : ch[i] \in Entries /\ ch[i].id \in Nat
<1>1. ch \in Seq(Entries)
  BY DEF Rising
<1>2. \A e \in Entries : e.id \in Nat
  BY Constants DEF Entries
<1>3. QED
  BY <1>1, <1>2

\* What is due is finite, and lies before the position.
LEMMA DueFinite ==
    ASSUME NEW ch, NEW s, NEW g, ClientAt(ch, s, g)
    PROVE  /\ IsFiniteSet(Due(ch, s, g)) /\ IsFiniteSet(Got(ch, s, g))
           /\ IsFiniteSet(Due(ch, s, g) \ Got(ch, s, g))
           /\ Due(ch, s, g) \subseteq g.from..(s.position - 1)
<1>1. g.from \in Nat /\ s.position \in Nat
  BY Parts DEF ClientAt
<1>2. IsFiniteSet(g.from..(s.position - 1))
  BY <1>1, FS_Interval, SMTT(40)
<1>3. Due(ch, s, g) \subseteq g.from..(s.position - 1) /\ Got(ch, s, g) \subseteq Due(ch, s, g)
  BY DEF Due, Got
<1>4. QED
  BY <1>2, <1>3, FS_Subset

-----------------------------------------------------------------------------
(* Order *)

\* An event more in the channel changes nothing for a client.
LEMMA OrderPublished ==
    ASSUME NEW ch, NEW s, NEW g, NEW e \in Entries, Rising(ch), ClientAt(ch, s, g)
    PROVE  ClientAt(Append(ch, e), s, g)
<1> DEFINE r == Append(ch, e)
<1>1. ch \in Seq(Entries) /\ s.position \in Nat /\ g.from \in Nat
  BY Parts DEF Rising, ClientAt
<1>2. Len(r) = Len(ch) + 1 /\ Len(ch) \in Nat /\ \A i \in 1..Len(ch) : r[i] = ch[i]
  BY <1>1
<1> HIDE DEF r
<1>3. s.position <= Len(ch) + 1 /\ g.from >= 1
  BY DEF ClientAt
<1>4. \A i \in g.from..(s.position - 1) : i \in 1..Len(ch)
  BY <1>1, <1>2, <1>3
<1>5. \A id : Passed(ch, s, g, id) => Passed(r, s, g, id)
  BY <1>2, <1>4 DEF Passed
<1>6. s.position <= Len(r) + 1
  BY <1>1, <1>2, <1>3
<1>7. ClientAt(r, s, g)
  BY <1>5, <1>6 DEF ClientAt
<1>8. QED
  BY <1>7 DEF r

\* A client moves on, past what it is not sent.
LEMMA OrderMoved ==
    ASSUME NEW ch, NEW s, NEW g, NEW p \in Nat, NEW n \in Nat,
           Rising(ch), ClientAt(ch, s, g), s.position <= p, p <= Len(ch) + 1
    PROVE  ClientAt(ch, [s EXCEPT !.position = p], [g EXCEPT !.lost = n])
<1> DEFINE t == [s EXCEPT !.position = p]
           h == [g EXCEPT !.lost = n]
<1>1. s \in Stream /\ g \in Log
  BY DEF ClientAt
<1>2. t \in Stream /\ t.position = p /\ t.lastId = s.lastId
  BY <1>1 DEF Stream
<1>3. h \in Log /\ h.from = g.from /\ h.floor = g.floor /\ h.ids = g.ids
  BY <1>1 DEF Log
<1>4. s.position \in Nat /\ g.from \in Nat
  BY <1>1, Parts
<1> HIDE DEF t, h
<1>5. \A id : Passed(ch, s, g, id) => Passed(ch, t, h, id)
  <2>1. \A i \in g.from..(s.position - 1) : i \in g.from..(p - 1)
    BY <1>4
  <2>2. QED
    BY <1>2, <1>3, <2>1 DEF Passed
<1>6. g.from <= p
  BY <1>4 DEF ClientAt
<1>7. ClientAt(ch, t, h)
  BY <1>2, <1>3, <1>5, <1>6 DEF ClientAt
<1>8. QED
  BY <1>7 DEF t, h

\* A client is sent the event at its position.
LEMMA OrderSent ==
    ASSUME NEW ch, NEW s, NEW g, Rising(ch), ClientAt(ch, s, g), s.position <= Len(ch),
           ch[s.position].id > s.lastId
    PROVE  ClientAt(ch, [s EXCEPT !.position = @ + 1, !.lastId = ch[s.position].id],
                        [g EXCEPT !.ids = Append(@, ch[s.position].id)])
<1> DEFINE id == ch[s.position].id
           t == [s EXCEPT !.position = @ + 1, !.lastId = id]
           h == [g EXCEPT !.ids = Append(@, id)]
           ids == Append(g.ids, id)
<1>1. s \in Stream /\ g \in Log
  BY DEF ClientAt
<1>2. /\ s.position \in Nat /\ s.lastId \in Nat /\ g.from \in Nat /\ g.floor \in Nat
      /\ g.ids \in Seq(Nat)
  BY <1>1, Parts
<1>3. s.position \in 1..Len(ch) /\ id \in Nat
  <2>1. Len(ch) \in Nat /\ s.position >= 1
    BY <1>2, EntryIds DEF ClientAt
  <2>2. QED
    BY <1>2, <2>1, EntryIds
<1> HIDE DEF id
<1>4. t \in Stream /\ t.position = s.position + 1 /\ t.lastId = id
  <2> DEFINE F == Queries \cup {"none"}
             p == s.position + 1
  <2>1. t = [s EXCEPT !.position = p, !.lastId = id] /\ p \in Nat
    BY <1>2
  <2>2. s \in [position : Nat, lastId : Nat, filter : F]
    BY <1>1 DEF Stream
  <2> HIDE DEF t, F, p
  <2>3. t \in [position : Nat, lastId : Nat, filter : F] /\ t.position = p /\ t.lastId = id
    BY <1>3, <2>1, <2>2
  <2>4. QED
    BY <2>3 DEF F, p, Stream
<1>5. /\ ids \in Seq(Nat) /\ Len(ids) = Len(g.ids) + 1 /\ ids[Len(g.ids) + 1] = id
      /\ Len(g.ids) \in Nat /\ \A j \in 1..Len(g.ids) : ids[j] = g.ids[j] /\ g.ids[j] \in Nat
  <2> DEFINE before == g.ids
  <2>1. before \in Seq(Nat) /\ id \in Nat
    BY <1>2, <1>3
  <2> HIDE DEF before
  <2>2. /\ Append(before, id) \in Seq(Nat) /\ Len(before) \in Nat
        /\ Len(Append(before, id)) = Len(before) + 1 /\ Append(before, id)[Len(before) + 1] = id
        /\ \A j \in 1..Len(before) : Append(before, id)[j] = before[j] /\ before[j] \in Nat
    BY <2>1, Appended, Zenon
  <2>3. QED
    BY <2>2, Zenon DEF before
<1>6. h \in Log /\ h.from = g.from /\ h.floor = g.floor /\ h.ids = ids
  BY <1>1, <1>5 DEF Log
<1> HIDE DEF t, h, ids
<1>7. \A x : Passed(ch, s, g, x) => Passed(ch, t, h, x)
  <2>1. \A i \in g.from..(s.position - 1) : i \in g.from..((s.position + 1) - 1)
    BY <1>2
  <2>2. QED
    BY <1>4, <1>6, <2>1 DEF Passed
<1>8. Passed(ch, t, h, id)
  <2>1. s.position \in g.from..((s.position + 1) - 1)
    BY <1>2 DEF ClientAt
  <2>2. QED
    BY <1>4, <1>6, <2>1 DEF Passed, id
<1>9. s.lastId < id
  BY <1>2, <1>3 DEF id
<1>10. ASSUME NEW j \in 1..Len(ids)
       PROVE  g.floor < ids[j] /\ ids[j] <= id /\ Passed(ch, t, h, ids[j])
  <2>1. CASE j \in 1..Len(g.ids)
    <3>1. g.floor < g.ids[j] /\ g.ids[j] <= s.lastId /\ Passed(ch, s, g, g.ids[j])
      BY <2>1 DEF ClientAt
    <3>2. ids[j] = g.ids[j] /\ g.ids[j] \in Nat /\ Passed(ch, t, h, g.ids[j])
      BY <1>5, <1>7, <2>1, <3>1
    <3>3. g.ids[j] <= id
      BY <1>2, <1>3, <1>9, <3>1, <3>2
    <3>4. QED
      BY <3>1, <3>2, <3>3
  <2>2. CASE j = Len(g.ids) + 1
    <3>1. g.floor <= s.lastId
      BY DEF ClientAt
    <3>2. QED
      BY <1>2, <1>3, <1>5, <1>8, <1>9, <2>2, <3>1
  <2>3. QED
    BY <1>5, <2>1, <2>2
<1>11. ASSUME NEW i \in 1..Len(ids), NEW j \in 1..Len(ids), i < j PROVE ids[i] < ids[j]
  <2>1. i \in 1..Len(g.ids) /\ ids[i] = g.ids[i] /\ g.ids[i] <= s.lastId /\ g.ids[i] \in Nat
    BY <1>5, <1>11 DEF ClientAt
  <2>2. CASE j \in 1..Len(g.ids)
    BY <1>5, <1>11, <2>1, <2>2 DEF ClientAt
  <2>3. CASE j = Len(g.ids) + 1
    BY <1>2, <1>3, <1>5, <1>9, <2>1, <2>3, SMTT(40)
  <2>4. QED
    BY <1>5, <2>2, <2>3
<1>12. /\ h.from >= 1 /\ h.from <= t.position /\ t.position <= Len(ch) + 1
       /\ h.floor <= t.lastId
  <2>1. g.from >= 1 /\ g.from <= s.position /\ g.floor <= s.lastId
    BY DEF ClientAt
  <2>2. QED
    BY <1>2, <1>3, <1>4, <1>6, <1>9, <2>1
<1>13. ClientAt(ch, t, h)
  BY <1>4, <1>6, <1>8, <1>10, <1>11, <1>12 DEF ClientAt
<1>14. QED
  BY <1>13 DEF t, h, id

-----------------------------------------------------------------------------
(* Losses *)

\* What a client was sent lies before its position, so that nothing at or
\* behind the position has the id of something it was sent.
LEMMA SentBefore ==
    ASSUME NEW ch, NEW s, NEW g, Rising(ch), ClientAt(ch, s, g),
           NEW i \in 1..Len(ch), s.position <= i, NEW j \in 1..Len(g.ids)
    PROVE  g.ids[j] < ch[i].id
<1>1. PICK k \in g.from..(s.position - 1) : ch[k].id = g.ids[j]
  BY DEF ClientAt, Passed
<1>2. s.position \in Nat /\ g.from \in Nat /\ g.from >= 1 /\ Len(ch) \in Nat
  BY Parts, EntryIds DEF ClientAt
<1>3. k \in 1..Len(ch) /\ k < i
  BY <1>1, <1>2
<1>4. QED
  BY <1>1, <1>3 DEF Rising

\* What is published is due to nobody before he comes to it.
LEMMA LossPublished ==
    ASSUME NEW ch, NEW s, NEW g, NEW e \in Entries, Rising(ch), ClientAt(ch, s, g),
           LossesTold(ch, s, g)
    PROVE  LossesTold(Append(ch, e), s, g)
<1> DEFINE r == Append(ch, e)
<1>1. ch \in Seq(Entries) /\ s.position \in Nat /\ g.from \in Nat
  BY Parts DEF Rising, ClientAt
<1>2. Len(ch) \in Nat /\ \A i \in 1..Len(ch) : r[i] = ch[i]
  BY <1>1
<1> HIDE DEF r
<1>3. \A i \in g.from..(s.position - 1) : r[i] = ch[i]
  <2>1. s.position <= Len(ch) + 1 /\ g.from >= 1
    BY DEF ClientAt
  <2>2. QED
    BY <1>1, <1>2, <2>1
<1>4. Due(r, s, g) = Due(ch, s, g)
  BY <1>3 DEF Due
<1>5. \A i \in Due(ch, s, g) : r[i] = ch[i]
  BY <1>3 DEF Due
<1>6. Got(r, s, g) = Got(ch, s, g)
  BY <1>4, <1>5 DEF Got
<1>7. LossesTold(r, s, g)
  BY <1>4, <1>6, Zenon DEF LossesTold
<1>8. QED
  BY <1>7 DEF r

\* A client moves on to p, and is told of as many losses as there were places
\* in between where something was due.
LEMMA LossMoved ==
    ASSUME NEW ch, NEW s, NEW g, NEW p \in Nat, NEW n \in Nat,
           Rising(ch), ClientAt(ch, s, g), LossesTold(ch, s, g),
           s.position <= p, p <= Len(ch) + 1,
           \/ n = g.lost + (p - s.position)
           \/ /\ n = g.lost
              /\ Due(ch, [s EXCEPT !.position = p], [g EXCEPT !.lost = n]) = Due(ch, s, g)
    PROVE  LossesTold(ch, [s EXCEPT !.position = p], [g EXCEPT !.lost = n])
<1> DEFINE t == [s EXCEPT !.position = p]
           h == [g EXCEPT !.lost = n]
           due == Due(ch, s, g)
           got == Got(ch, s, g)
           due2 == Due(ch, t, h)
           got2 == Got(ch, t, h)
<1>1. s \in Stream /\ g \in Log
  BY DEF ClientAt
<1>2. t.position = p /\ t.filter = s.filter
  BY <1>1 DEF Stream
<1>3. h.from = g.from /\ h.floor = g.floor /\ h.ids = g.ids /\ h.lost = n
  BY <1>1 DEF Log
<1>4. /\ s.position \in Nat /\ g.from \in Nat /\ g.from >= 1 /\ g.from <= s.position
      /\ g.lost \in Nat /\ g.ids \in Seq(Nat) /\ Len(ch) \in Nat
  BY <1>1, Parts, EntryIds DEF ClientAt
<1> HIDE DEF t, h
<1>5. due2 \subseteq due \cup (s.position..(p - 1)) /\ due \subseteq due2
  <2>1. \A i \in g.from..(p - 1) : i \in g.from..(s.position - 1) \/ i \in s.position..(p - 1)
    BY <1>4
  <2>2. \A i \in g.from..(s.position - 1) : i \in g.from..(p - 1)
    BY <1>4
  <2>3. QED
    BY <1>2, <1>3, <2>1, <2>2 DEF Due
<1>6. got2 = got
  <2>1. ASSUME NEW i \in s.position..(p - 1), NEW j \in 1..Len(g.ids) PROVE g.ids[j] # ch[i].id
    <3>1. i \in 1..Len(ch) /\ s.position <= i
      BY <1>4
    <3>2. g.ids[j] < ch[i].id
      BY <3>1, SentBefore
    <3>3. ch[i].id \in Nat
      BY <3>1, EntryIds
    <3>4. g.ids[j] \in Nat
      <4>1. g.ids \in Seq(Nat) /\ j \in 1..Len(g.ids)
        BY <1>4
      <4>2. QED
        BY <4>1, ElementOfSeq
    <3>5. QED
      BY <3>2, <3>3, <3>4
  <2> HIDE DEF due, due2
  <2>2. got = {i \in due : \E j \in 1..Len(g.ids) : g.ids[j] = ch[i].id}
    BY DEF Got, due
  <2>3. got2 = {i \in due2 : \E j \in 1..Len(g.ids) : g.ids[j] = ch[i].id}
    BY <1>3 DEF Got, due2
  <2>4. QED
    BY <1>5, <2>1, <2>2, <2>3
<1>7. IsFiniteSet(due) /\ IsFiniteSet(got) /\ IsFiniteSet(due \ got)
  BY DueFinite
<1>8. Cardinality(due \ got) <= g.lost /\ Cardinality(got) = Len(g.ids)
  BY DEF LossesTold
<1>9. Cardinality(due2 \ got2) <= n
  <2>1. CASE n = g.lost + (p - s.position)
    <3> DEFINE M == s.position..(p - 1)
    <3>1. IsFiniteSet(M) /\ Cardinality(M) = p - s.position
      <4>1. PICK a \in Int, b \in Int : a = s.position /\ b = p - 1
        BY <1>4
      <4>2. IsFiniteSet(a..b) /\ Cardinality(a..b) = IF a > b THEN 0 ELSE b - a + 1
        BY FS_Interval
      <4>3. QED
        BY <1>4, <4>1, <4>2, SMTT(40)
    <3>2. due2 \ got2 \subseteq (due \ got) \cup M
      BY <1>5, <1>6
    <3> HIDE DEF M, due, got, due2, got2
    <3>3. /\ IsFiniteSet((due \ got) \cup M)
          /\ Cardinality((due \ got) \cup M)
               = Cardinality(due \ got) + Cardinality(M) - Cardinality((due \ got) \cap M)
      BY <1>7, <3>1, FS_Union
    <3>4. Cardinality((due \ got) \cap M) \in Nat /\ Cardinality(due \ got) \in Nat
      <4>1. IsFiniteSet((due \ got) \cap M)
        BY <3>1, FS_Subset
      <4>2. QED
        BY <1>7, <4>1, FS_CardinalityType
    <3>5. IsFiniteSet(due2 \ got2) /\ Cardinality(due2 \ got2) <= Cardinality((due \ got) \cup M)
      BY <3>2, <3>3, FS_Subset
    <3>6. Cardinality(due2 \ got2) \in Nat
      BY <3>5, FS_CardinalityType
    <3>7. QED
      BY <1>4, <1>8, <2>1, <3>1, <3>3, <3>4, <3>5, <3>6
  <2>2. CASE n = g.lost /\ due2 = due
    BY <1>6, <1>8, <2>2
  <2>3. QED
    BY <2>1, <2>2 DEF t, h
<1>10. LossesTold(ch, t, h)
  BY <1>3, <1>6, <1>8, <1>9 DEF LossesTold
<1>11. QED
  BY <1>10 DEF t, h

\* A client that is not sent the event at its position was not due it.
LEMMA SkippedNotDue ==
    ASSUME NEW ch, NEW s, NEW g, Rising(ch), ClientAt(ch, s, g), s.position <= Len(ch),
           ~(ch[s.position].id > s.lastId /\ <<s.filter, ch[s.position].kind>> \in Asked)
    PROVE  Due(ch, [s EXCEPT !.position = s.position + 1], g) = Due(ch, s, g)
<1> DEFINE p == s.position
           t == [s EXCEPT !.position = p + 1]
<1>1. s \in Stream /\ g \in Log
  BY DEF ClientAt
<1>2. t.position = p + 1 /\ t.filter = s.filter
  BY <1>1 DEF Stream
<1>3. /\ p \in Nat /\ g.from \in Nat /\ g.from >= 1 /\ g.from <= p /\ g.floor \in Nat
      /\ s.lastId \in Nat /\ Len(ch) \in Nat
  BY <1>1, Parts, EntryIds DEF ClientAt
<1>4. p \in 1..Len(ch) /\ ch[p].id \in Nat
  BY <1>3, EntryIds
<1>5. ~(ch[p].id > g.floor /\ <<s.filter, ch[p].kind>> \in Asked)
  <2>1. CASE s.lastId = g.floor
    BY <2>1
  <2>2. CASE Passed(ch, s, g, s.lastId)
    <3>1. PICK k \in g.from..(p - 1) : ch[k].id = s.lastId
      BY <2>2 DEF Passed
    <3>2. k \in 1..Len(ch) /\ k < p
      BY <1>3, <3>1
    <3>3. ch[k].id < ch[p].id
      BY <1>4, <3>2 DEF Rising
    <3>4. ch[p].id > s.lastId
      BY <1>3, <1>4, <3>1, <3>3
    <3>5. QED
      BY <3>4
  <2>3. QED
    BY <2>1, <2>2 DEF ClientAt
<1> HIDE DEF t
<1>6. \A i \in g.from..((p + 1) - 1) : i \in g.from..(p - 1) \/ i = p
  BY <1>3
<1>7. \A i \in g.from..(p - 1) : i \in g.from..((p + 1) - 1)
  BY <1>3
<1>8. Due(ch, t, g) = Due(ch, s, g)
  BY <1>2, <1>5, <1>6, <1>7 DEF Due
<1>9. QED
  BY <1>8 DEF t

\* A client is sent the event at its position, which is due to it.
LEMMA LossSent ==
    ASSUME NEW ch, NEW s, NEW g, Rising(ch), ClientAt(ch, s, g), LossesTold(ch, s, g),
           s.position <= Len(ch), ch[s.position].id > s.lastId,
           <<s.filter, ch[s.position].kind>> \in Asked
    PROVE  LossesTold(ch, [s EXCEPT !.position = @ + 1, !.lastId = ch[s.position].id],
                          [g EXCEPT !.ids = Append(@, ch[s.position].id)])
<1> DEFINE p == s.position
           id == ch[p].id
           t == [s EXCEPT !.position = @ + 1, !.lastId = id]
           h == [g EXCEPT !.ids = Append(@, id)]
           ids == Append(g.ids, id)
           due == Due(ch, s, g)
           got == Got(ch, s, g)
           due2 == Due(ch, t, h)
           got2 == Got(ch, t, h)
<1>1. s \in Stream /\ g \in Log
  BY DEF ClientAt
<1>2. /\ p \in Nat /\ g.from \in Nat /\ g.from >= 1 /\ g.from <= p /\ g.floor \in Nat
      /\ s.lastId \in Nat /\ Len(ch) \in Nat /\ g.ids \in Seq(Nat) /\ g.floor <= s.lastId
      /\ g.lost \in Nat
  BY <1>1, Parts, EntryIds DEF ClientAt
<1>3. p \in 1..Len(ch) /\ id \in Nat /\ id > g.floor
  <2>1. p \in 1..Len(ch)
    BY <1>2
  <2>2. QED
    BY <1>2, <2>1, EntryIds
<1> HIDE DEF id
<1>4. t.position = p + 1 /\ t.filter = s.filter
  BY <1>1, <1>2 DEF Stream
<1>5. h.from = g.from /\ h.floor = g.floor /\ h.ids = ids /\ h.lost = g.lost
  BY <1>1 DEF Log
<1>6. /\ Len(ids) = Len(g.ids) + 1 /\ ids[Len(g.ids) + 1] = id /\ Len(g.ids) \in Nat
      /\ \A j \in 1..Len(g.ids) : ids[j] = g.ids[j] /\ g.ids[j] \in Nat
  <2> DEFINE before == g.ids
  <2>1. before \in Seq(Nat) /\ id \in Nat
    BY <1>2, <1>3
  <2> HIDE DEF before
  <2>2. /\ Append(before, id) \in Seq(Nat) /\ Len(before) \in Nat
        /\ Len(Append(before, id)) = Len(before) + 1 /\ Append(before, id)[Len(before) + 1] = id
        /\ \A j \in 1..Len(before) : Append(before, id)[j] = before[j] /\ before[j] \in Nat
    BY <2>1, Appended, Zenon
  <2>3. QED
    BY <2>2, Zenon DEF before
<1>a. <<s.filter, ch[p].kind>> \in Asked
  OBVIOUS
<1> HIDE DEF t, h, ids
<1>7. due2 = due \cup {p} /\ p \notin due
  <2>1. \A i \in g.from..((p + 1) - 1) : i \in g.from..(p - 1) \/ i = p
    BY <1>2
  <2>2. /\ \A i \in g.from..(p - 1) : i \in g.from..((p + 1) - 1)
        /\ p \in g.from..((p + 1) - 1) /\ p \notin g.from..(p - 1)
    BY <1>2
  <2>3. QED
    BY <1>3, <1>4, <1>5, <1>a, <2>1, <2>2 DEF Due, id
<1>8. \A i \in due : i \in 1..Len(ch) /\ i < p
  <2>1. due \subseteq g.from..(p - 1)
    BY DueFinite
  <2>2. QED
    BY <1>2, <2>1
<1>9. \A i \in due : ch[i].id # id
  <2>1. \A i \in due : ch[i].id < id /\ ch[i].id \in Nat
    BY <1>3, <1>8, EntryIds DEF Rising, id
  <2>2. QED
    BY <1>3, <2>1
<1>10. got2 = got \cup {p}
  <2> HIDE DEF due, due2
  <2>1. got = {i \in due : \E j \in 1..Len(g.ids) : g.ids[j] = ch[i].id}
    BY DEF Got, due
  <2>2. got2 = {i \in due2 : \E j \in 1..Len(ids) : ids[j] = ch[i].id}
    BY <1>5 DEF Got, due2
  <2>3. \A j \in 1..Len(ids) : j \in 1..Len(g.ids) \/ j = Len(g.ids) + 1
    BY <1>6
  <2>4. /\ \A j \in 1..Len(g.ids) : j \in 1..Len(ids)
        /\ Len(g.ids) + 1 \in 1..Len(ids)
    BY <1>6
  <2>5. ch[p].id = id
    BY DEF id
  <2>6. ASSUME NEW i \in got2 PROVE i \in got \cup {p}
    <3>1. PICK j \in 1..Len(ids) : ids[j] = ch[i].id
      BY <2>2
    <3>2. CASE i \in due
      <4>1. j \in 1..Len(g.ids)
        BY <1>6, <1>9, <2>3, <3>1, <3>2
      <4>2. QED
        BY <1>6, <2>1, <3>1, <3>2, <4>1
    <3>3. QED
      BY <1>7, <2>2, <3>2
  <2>7. ASSUME NEW i \in got PROVE i \in got2
    BY <1>6, <1>7, <2>1, <2>2, <2>4
  <2>8. p \in got2
    BY <1>6, <1>7, <2>2, <2>4, <2>5
  <2> HIDE DEF got, got2
  <2>9. QED
    BY <2>6, <2>7, <2>8
<1>11. IsFiniteSet(got) /\ p \notin got
  <2>1. got \subseteq due
    BY DEF Got
  <2>2. IsFiniteSet(got)
    BY DueFinite
  <2>3. QED
    BY <1>7, <2>1, <2>2
<1>12. Cardinality(due \ got) <= g.lost /\ Cardinality(got) = Len(g.ids)
  BY DEF LossesTold
<1>13. due2 \ got2 = due \ got
  BY <1>7, <1>10
<1> HIDE DEF due, got, due2, got2
<1>14. Cardinality(got2) = Len(g.ids) + 1
  BY <1>10, <1>11, <1>12, FS_AddElement
<1>15. LossesTold(ch, t, h)
  BY <1>5, <1>6, <1>12, <1>13, <1>14 DEF LossesTold, due2, got2
<1>16. QED
  BY <1>15 DEF t, h, id

-----------------------------------------------------------------------------
(* The inductive invariant *)

\* The stream and the log of a client, and their absence.
ClientOK(c) ==
    IF stage[c] = "streaming"
    THEN ClientAt(channel, stream[c], log[c])
    ELSE stream[c] = NoStream /\ log[c] = NoLog

\* An id in the channel was given out.
IdsGiven == \A i \in 1..Len(channel) : channel[i].id < nextEventId

AllOK == \A c \in Clients : ClientOK(c)

\* The inductive invariant: the counter covers the holders of slots, ids rise
\* along the channel, and every stream stands where its log says.
HubInv ==
    /\ TypeOK
    /\ Rising(channel) /\ IdsGiven
    /\ StreamsWithinLimit
    /\ AllOK

\* All of TypeOK that is not about streams.
BaseOK ==
    /\ connected \in 0..MaxClients
    /\ nextEventId \in 1..(MaxEvents + 1)
    /\ stage \in [Clients -> Stages]
    /\ shutdown \in BOOLEAN
    /\ stream \in [Clients -> Stream] /\ log \in [Clients -> Log]

\* The types of streams follow from the rest.
LEMMA BaseSuffices ==
    (BaseOK /\ Rising(channel) /\ AllOK) => TypeOK
<1> SUFFICES ASSUME BaseOK, Rising(channel), AllOK PROVE TypeOK
  OBVIOUS
<1>1. channel \in Seq(Entries) /\ Len(channel) \in Nat
  BY DEF Rising
<1>2. ASSUME NEW c \in Clients PROVE stream[c].position \in 1..(Len(channel) + 1)
  <2>1. stream[c].position \in Nat
    BY Parts DEF BaseOK
  <2>2. CASE stage[c] = "streaming"
    <3>1. ClientAt(channel, stream[c], log[c])
      BY <2>2 DEF AllOK, ClientOK
    <3>2. log[c].from \in Nat /\ log[c].from >= 1 /\ log[c].from <= stream[c].position
          /\ stream[c].position <= Len(channel) + 1
      BY <3>1, Parts DEF ClientAt
    <3>3. QED
      BY <1>1, <2>1, <3>2
  <2>3. CASE stage[c] # "streaming"
    <3>1. stream[c].position = 1
      BY <2>3 DEF AllOK, ClientOK, NoStream
    <3>2. QED
      BY <1>1, <3>1
  <2>4. QED
    BY <2>2, <2>3
<1>3. QED
  BY <1>1, <1>2 DEF BaseOK, TypeOK, Entries, Stream, Log

\* The empty stream and the empty log have their types.
LEMMA NothingTyped == NoStream \in Stream /\ NoLog \in Log
<1>1. <<>> \in Seq(Nat)
  OBVIOUS
<1>2. QED
  BY <1>1 DEF NoStream, NoLog, Stream, Log

\* The holders of slots are finitely many.
LEMMA HoldersFinite == IsFiniteSet(Holders) /\ Cardinality(Holders) \in Nat
<1>1. IsFiniteSet(Holders)
  BY Constants, FS_Subset DEF Holders
<1>2. QED
  BY <1>1, FS_CardinalityType

\* Everything starts empty.
LEMMA HubInitially == Init => HubInv
<1> SUFFICES ASSUME Init PROVE HubInv
  OBVIOUS
<1>1. Rising(channel) /\ IdsGiven
  <2>1. channel = <<>> /\ <<>> \in Seq(Entries) /\ Len(<<>>) = 0
    BY DEF Init
  <2>2. QED
    BY <2>1 DEF Rising, IdsGiven
<1>2. BaseOK
  <2>1. 0 \in 0..MaxClients /\ 1 \in 1..(MaxEvents + 1)
    BY Constants
  <2>2. stream \in [Clients -> Stream] /\ log \in [Clients -> Log]
    BY NothingTyped DEF Init
  <2>3. QED
    BY <2>1, <2>2 DEF Init, BaseOK, Stages
<1>3. AllOK
  BY DEF Init, AllOK, ClientOK
<1>4. StreamsWithinLimit
  <2>1. Holders = {}
    BY DEF Init, Holders
  <2>2. QED
    BY <2>1, FS_EmptySet DEF StreamsWithinLimit, Init
<1>5. QED
  BY <1>1, <1>2, <1>3, <1>4, BaseSuffices DEF HubInv

\* An event is published.
LEMMA HubPublish ==
    ASSUME HubInv, NEW k \in Kinds, Publish(k)
    PROVE  HubInv'
<1>1. /\ nextEventId \in 1..MaxEvents /\ nextEventId' = nextEventId + 1
      /\ UNCHANGED <<connected, stage, stream, shutdown, log>>
  BY Constants DEF HubInv, TypeOK, Publish
<1>b. BaseOK
  BY DEF HubInv, TypeOK, BaseOK, Stream, Log
<1>2. BaseOK'
  <2>1. nextEventId' \in 1..(MaxEvents + 1)
    BY <1>1, Constants
  <2>2. QED
    BY <1>b, <1>1, <2>1 DEF BaseOK
<1>3. StreamsWithinLimit'
  BY <1>1 DEF HubInv, StreamsWithinLimit, Holders
<1>4. CASE channel' = channel
  <2>1. Rising(channel)'
    BY <1>4 DEF HubInv, Rising
  <2>2. IdsGiven'
    <3>1. \A i \in 1..Len(channel) : channel[i].id \in Nat /\ channel[i].id < nextEventId
      BY EntryIds DEF HubInv, IdsGiven
    <3>2. QED
      BY <1>1, <1>4, <3>1 DEF IdsGiven
  <2>3. AllOK'
    BY <1>1, <1>4 DEF HubInv, AllOK, ClientOK
  <2>t. ((BaseOK /\ Rising(channel) /\ AllOK) => TypeOK)'
    BY BaseSuffices, PTL
  <2>4. QED
    BY <1>2, <1>3, <2>1, <2>2, <2>3, <2>t DEF HubInv
<1>5. CASE channel' = Append(channel, [id |-> nextEventId, kind |-> k])
  <2> DEFINE e == [id |-> nextEventId, kind |-> k]
  <2>1. e \in Entries /\ e.id = nextEventId
    BY <1>1 DEF Entries
  <2>2. channel' = Append(channel, e)
    BY <1>5
  <2> HIDE DEF e
  <2>3. Rising(channel) /\ IdsGiven /\ channel \in Seq(Entries)
    BY DEF HubInv, Rising
  <2>4. /\ channel' \in Seq(Entries) /\ Len(channel') = Len(channel) + 1 /\ Len(channel) \in Nat
        /\ channel'[Len(channel) + 1] = e
        /\ \A i \in 1..Len(channel) : channel'[i] = channel[i]
    BY <2>1, <2>2, <2>3
  <2>5. \A i \in 1..Len(channel) : channel[i].id \in Nat /\ channel[i].id < nextEventId
    BY <2>3, EntryIds DEF IdsGiven
  <2>6. ASSUME NEW i \in 1..Len(channel'), NEW j \in 1..Len(channel'), i < j
        PROVE  channel'[i].id < channel'[j].id
    <3>1. i \in 1..Len(channel)
      BY <2>4, <2>6
    <3>2. CASE j \in 1..Len(channel)
      BY <2>3, <2>4, <2>6, <3>1, <3>2 DEF Rising
    <3>3. CASE j = Len(channel) + 1
      BY <2>1, <2>4, <2>5, <3>1, <3>3
    <3>4. QED
      BY <2>4, <3>2, <3>3
  <2>7. Rising(channel)'
    BY <2>4, <2>6 DEF Rising
  <2>8. IdsGiven'
    <3> SUFFICES ASSUME NEW i \in 1..Len(channel') PROVE channel'[i].id < nextEventId'
      BY DEF IdsGiven
    <3>1. CASE i \in 1..Len(channel)
      BY <1>1, <2>4, <2>5, <3>1
    <3>2. CASE i = Len(channel) + 1
      BY <1>1, <2>1, <2>4, <3>2
    <3>3. QED
      BY <2>4, <3>1, <3>2
  <2>9. ASSUME NEW c \in Clients PROVE ClientOK(c)'
    <3>1. CASE stage[c] = "streaming"
      <4>1. ClientAt(channel, stream[c], log[c])
        BY <3>1 DEF HubInv, AllOK, ClientOK
      <4>2. ClientAt(channel', stream[c], log[c])
        BY <2>1, <2>2, <2>3, <4>1, OrderPublished
      <4>3. QED
        BY <1>1, <3>1, <4>2 DEF ClientOK
    <3>2. CASE stage[c] # "streaming"
      BY <1>1, <3>2 DEF HubInv, AllOK, ClientOK
    <3>3. QED
      BY <3>1, <3>2
  <2>t. ((BaseOK /\ Rising(channel) /\ AllOK) => TypeOK)'
    BY BaseSuffices, PTL
  <2>10. QED
    BY <1>2, <1>3, <2>7, <2>8, <2>9, <2>t DEF HubInv, AllOK
<1>6. QED
  BY <1>4, <1>5 DEF Publish

\* A step leaves the other clients as they are.
OthersSame(c) ==
    \A d \in Clients \ {c} : stage'[d] = stage[d] /\ stream'[d] = stream[d] /\ log'[d] = log[d]

\* It is enough to look at the client of a step.
LEMMA HubClient ==
    ASSUME HubInv, NEW c \in Clients, channel' = channel, nextEventId' = nextEventId,
           BaseOK', StreamsWithinLimit', OthersSame(c), ClientOK(c)'
    PROVE  HubInv'
<1>1. Rising(channel)' /\ IdsGiven'
  BY DEF HubInv, Rising, IdsGiven
<1>2. ASSUME NEW d \in Clients \ {c} PROVE ClientOK(d)'
  BY DEF HubInv, AllOK, ClientOK, OthersSame
<1>3. AllOK'
  BY <1>2 DEF AllOK
<1>4. ((BaseOK /\ Rising(channel) /\ AllOK) => TypeOK)'
  BY BaseSuffices, PTL
<1>5. QED
  BY <1>1, <1>3, <1>4 DEF HubInv

\* The handler takes a slot or refuses, before there is a stream.
LEMMA HubHandles ==
    ASSUME HubInv, NEW c \in Clients, Admit(c) \/ Refuse(c) \/ RejectQuery(c) \/ Retry(c)
    PROVE  HubInv'
<1>b. BaseOK
  BY DEF HubInv, TypeOK, BaseOK, Stream, Log
<1>1. /\ UNCHANGED <<nextEventId, channel, stream, shutdown, log>>
      /\ stage[c] # "streaming" /\ stage'[c] # "streaming"
      /\ \A d \in Clients \ {c} : stage'[d] = stage[d]
      /\ stage' \in [Clients -> Stages]
  BY <1>b DEF Admit, Refuse, RejectQuery, Retry, BaseOK, Stages
<1>2. OthersSame(c)
  BY <1>1 DEF OthersSame
<1>3. ClientOK(c)'
  BY <1>1 DEF HubInv, AllOK, ClientOK
<1>4. connected' \in 0..MaxClients /\ StreamsWithinLimit'
  <2>f. IsFiniteSet(Holders) /\ Cardinality(Holders) \in Nat /\ Cardinality(Holders) <= connected
        /\ connected \in 0..MaxClients
    BY <1>b, HoldersFinite DEF HubInv, StreamsWithinLimit, BaseOK
  <2>1. CASE Admit(c)
    <3>1. stage[c] = "away" /\ stage'[c] = "admitted" /\ connected < MaxClients
          /\ connected' = connected + 1
      BY <1>b, <2>1 DEF Admit, BaseOK
    <3>2. Holders' = Holders \cup {c} /\ c \notin Holders
      BY <1>1, <3>1 DEF Holders
    <3>3. Cardinality(Holders') = Cardinality(Holders) + 1
      BY <2>f, <3>2, FS_AddElement
    <3>4. QED
      BY <2>f, <3>1, <3>3, Constants DEF StreamsWithinLimit
  <2>2. CASE Refuse(c) \/ RejectQuery(c) \/ Retry(c)
    <3>1. connected' = connected /\ stage'[c] \in {"refused", "away"}
      BY <1>b, <2>2 DEF Refuse, RejectQuery, Retry, BaseOK
    <3>2. Holders' \subseteq Holders
      BY <1>1, <3>1 DEF Holders
    <3>3. Cardinality(Holders') <= Cardinality(Holders) /\ Cardinality(Holders') \in Nat
      BY <2>f, <3>2, FS_Subset, FS_CardinalityType
    <3>4. QED
      BY <2>f, <3>1, <3>3 DEF StreamsWithinLimit
  <2>3. QED
    BY <2>1, <2>2
<1>5. BaseOK'
  BY <1>b, <1>1, <1>4 DEF BaseOK
<1>6. QED
  BY <1>1, <1>2, <1>3, <1>4, <1>5, HubClient

\* A client is subscribed at the end of the channel.
LEMMA FreshClient ==
    ASSUME NEW ch, NEW q \in Queries, NEW id \in Nat, Rising(ch)
    PROVE  LET s == [position |-> Len(ch) + 1, lastId |-> id, filter |-> q]
               g == [NoLog EXCEPT !.from = Len(ch) + 1, !.floor = id]
           IN  s \in Stream /\ g \in Log /\ ClientAt(ch, s, g) /\ LossesTold(ch, s, g)
<1> DEFINE s == [position |-> Len(ch) + 1, lastId |-> id, filter |-> q]
           g == [NoLog EXCEPT !.from = Len(ch) + 1, !.floor = id]
<1>1. Len(ch) \in Nat
  BY EntryIds
<1>2. s \in Stream /\ s.position = Len(ch) + 1 /\ s.lastId = id
  BY <1>1 DEF Stream
<1>3. <<>> \in Seq(Nat) /\ Len(<<>>) = 0
  OBVIOUS
<1>4. g \in Log /\ g.from = Len(ch) + 1 /\ g.floor = id /\ g.ids = <<>> /\ g.lost = 0
  <2>1. PICK p \in Nat : p = Len(ch) + 1
    BY <1>1
  <2>2. NoLog \in Log /\ NoLog.ids = <<>> /\ NoLog.lost = 0
    BY NothingTyped DEF NoLog
  <2>3. g = [NoLog EXCEPT !.from = p, !.floor = id]
    BY <2>1
  <2> HIDE DEF g
  <2>4. g \in Log /\ g.from = p /\ g.floor = id /\ g.ids = NoLog.ids /\ g.lost = NoLog.lost
    BY <2>2, <2>3 DEF Log
  <2>5. QED
    BY <2>1, <2>2, <2>4
<1> HIDE DEF s, g
<1>5. ClientAt(ch, s, g)
  BY <1>1, <1>2, <1>3, <1>4 DEF ClientAt
<1>6. Due(ch, s, g) = {} /\ Got(ch, s, g) = {}
  <2>1. g.from..(s.position - 1) = {}
    BY <1>1, <1>2, <1>4
  <2>2. QED
    BY <2>1 DEF Due, Got
<1>7. LossesTold(ch, s, g)
  BY <1>3, <1>4, <1>6, FS_EmptySet DEF LossesTold
<1>8. QED
  BY <1>2, <1>4, <1>5, <1>7 DEF s, g

\* The handler subscribes a client.
LEMMA HubSubscribes ==
    ASSUME HubInv, NEW c \in Clients, NEW q \in Queries, NEW id \in LastIds, Subscribe(c, q, id)
    PROVE  /\ HubInv' /\ OthersSame(c) /\ channel' = channel
           /\ LossesTold(channel', stream'[c], log'[c])
<1> DEFINE s == [position |-> Len(channel) + 1, lastId |-> id, filter |-> q]
           g == [NoLog EXCEPT !.from = Len(channel) + 1, !.floor = id]
<1>b. BaseOK /\ Rising(channel) /\ id \in Nat
  BY Constants DEF HubInv, TypeOK, BaseOK, Stream, Log
<1>0. s \in Stream /\ g \in Log /\ ClientAt(channel, s, g) /\ LossesTold(channel, s, g)
  BY <1>b, FreshClient
<1>a. /\ stage[c] = "admitted" /\ UNCHANGED <<connected, nextEventId, channel, shutdown>>
      /\ stage' = [stage EXCEPT ![c] = "streaming"]
      /\ stream' = [stream EXCEPT ![c] = s] /\ log' = [log EXCEPT ![c] = g]
  BY DEF Subscribe
<1> HIDE DEF s, g
<1>1. /\ stage'[c] = "streaming" /\ stream'[c] = s /\ log'[c] = g
      /\ \A d \in Clients \ {c} : stage'[d] = stage[d] /\ stream'[d] = stream[d] /\ log'[d] = log[d]
      /\ stage' \in [Clients -> Stages] /\ stream' \in [Clients -> Stream] /\ log' \in [Clients -> Log]
  BY <1>b, <1>0, <1>a DEF BaseOK, Stages
<1>2. OthersSame(c)
  BY <1>1 DEF OthersSame
<1>3. ClientOK(c)'
  BY <1>0, <1>a, <1>1 DEF ClientOK
<1>4. StreamsWithinLimit'
  <2>1. Holders' = Holders
    BY <1>a, <1>1 DEF Holders
  <2>2. QED
    BY <1>a, <2>1 DEF HubInv, StreamsWithinLimit
<1>5. BaseOK'
  BY <1>b, <1>a, <1>1 DEF BaseOK
<1>6. QED
  BY <1>0, <1>a, <1>1, <1>2, <1>3, <1>4, <1>5, HubClient

\* A stream ends, and its slot is free.
LEMMA HubReleases ==
    ASSUME HubInv, NEW c \in Clients, stage[c] = "streaming", Release(c)
    PROVE  HubInv' /\ OthersSame(c) /\ channel' = channel /\ stage'[c] = "away"
<1>b. BaseOK
  BY DEF HubInv, TypeOK, BaseOK, Stream, Log
<1>a. /\ UNCHANGED <<nextEventId, channel, shutdown>> /\ connected' = connected - 1
      /\ stage' = [stage EXCEPT ![c] = "away"]
      /\ stream' = [stream EXCEPT ![c] = NoStream] /\ log' = [log EXCEPT ![c] = NoLog]
  BY DEF Release
<1>1. /\ stage'[c] = "away" /\ stream'[c] = NoStream /\ log'[c] = NoLog
      /\ \A d \in Clients \ {c} : stage'[d] = stage[d] /\ stream'[d] = stream[d] /\ log'[d] = log[d]
      /\ stage' \in [Clients -> Stages] /\ stream' \in [Clients -> Stream] /\ log' \in [Clients -> Log]
  BY <1>b, <1>a, NothingTyped DEF BaseOK, Stages
<1>2. OthersSame(c)
  BY <1>1 DEF OthersSame
<1>3. ClientOK(c)'
  BY <1>1 DEF ClientOK
<1>4. connected' \in 0..MaxClients /\ StreamsWithinLimit'
  <2>1. Holders' = Holders \ {c} /\ c \in Holders
    BY <1>1 DEF Holders
  <2>2. IsFiniteSet(Holders) /\ Cardinality(Holders) \in Nat /\ Cardinality(Holders) <= connected
        /\ connected \in 0..MaxClients
    BY <1>b, HoldersFinite DEF HubInv, StreamsWithinLimit, BaseOK
  <2>3. Cardinality(Holders \ {c}) = Cardinality(Holders) - 1 /\ Cardinality(Holders \ {c}) \in Nat
    BY <2>1, <2>2, FS_RemoveElement, FS_CardinalityType
  <2>4. QED
    BY <1>a, <2>1, <2>2, <2>3, Constants DEF StreamsWithinLimit
<1>5. BaseOK'
  BY <1>b, <1>a, <1>1, <1>4 DEF BaseOK
<1>6. QED
  BY <1>a, <1>1, <1>2, <1>3, <1>4, <1>5, HubClient

\* A poll moves the stream of a client on.
LEMMA HubMoves ==
    ASSUME HubInv, NEW c \in Clients, stage[c] = "streaming", NEW t, NEW h,
           ClientAt(channel, t, h),
           stream' = [stream EXCEPT ![c] = t], log' = [log EXCEPT ![c] = h],
           UNCHANGED <<connected, nextEventId, channel, stage, shutdown>>
    PROVE  HubInv' /\ OthersSame(c) /\ stream'[c] = t /\ log'[c] = h
<1>b. BaseOK
  BY DEF HubInv, TypeOK, BaseOK, Stream, Log
<1>0. t \in Stream /\ h \in Log
  BY DEF ClientAt
<1>1. /\ stream'[c] = t /\ log'[c] = h
      /\ \A d \in Clients \ {c} : stage'[d] = stage[d] /\ stream'[d] = stream[d] /\ log'[d] = log[d]
      /\ stream' \in [Clients -> Stream] /\ log' \in [Clients -> Log]
  BY <1>b, <1>0 DEF BaseOK
<1>2. OthersSame(c)
  BY <1>1 DEF OthersSame
<1>3. ClientOK(c)'
  BY <1>1 DEF ClientOK
<1>4. StreamsWithinLimit'
  BY DEF HubInv, StreamsWithinLimit, Holders
<1>5. BaseOK'
  BY <1>b, <1>1 DEF BaseOK
<1>6. QED
  BY <1>1, <1>2, <1>3, <1>4, <1>5, HubClient

\* What a poll of the client's stream leads to: the stream t and the log h.
Polled(c, t, h) ==
    /\ ClientAt(channel, t, h)
    /\ stream' = [stream EXCEPT ![c] = t] /\ log' = [log EXCEPT ![c] = h]
    /\ UNCHANGED <<connected, nextEventId, channel, stage, shutdown>>
    /\ (Matching = Asked /\ LossesTold(channel, stream[c], log[c])) => LossesTold(channel, t, h)

\* recv returns an event, which is sent or skipped.
LEMMA ReceivePolls ==
    ASSUME HubInv, NEW c \in Clients, Receive(c)
    PROVE  \E t, h : Polled(c, t, h)
<1> DEFINE s == stream[c]
           g == log[c]
           event == channel[s.position]
<1>b. /\ BaseOK /\ Rising(channel)
      /\ stage[c] = "streaming" /\ s.position <= Len(channel)
      /\ UNCHANGED <<connected, nextEventId, channel, stage, shutdown>>
  BY DEF HubInv, TypeOK, BaseOK, Stream, Log, Receive
<1>1. ClientAt(channel, s, g)
  BY <1>b DEF HubInv, AllOK, ClientOK
<1>2. s \in Stream /\ g \in Log
  BY <1>1 DEF ClientAt
<1>3. CASE Passes(c, event)
  <2> DEFINE t == [s EXCEPT !.position = @ + 1, !.lastId = event.id]
             h == [g EXCEPT !.ids = Append(@, event.id)]
  <2>1. event.id > s.lastId /\ <<s.filter, event.kind>> \in Matching
    BY <1>3 DEF Passes
  <2>2. ClientAt(channel, t, h)
    BY <1>b, <1>1, <2>1, OrderSent
  <2>3. stream' = [stream EXCEPT ![c] = t] /\ log' = [log EXCEPT ![c] = h]
    BY <1>3 DEF Receive
  <2>4. ASSUME Matching = Asked, LossesTold(channel, s, g) PROVE LossesTold(channel, t, h)
    BY <1>b, <1>1, <2>1, <2>4, LossSent
  <2> HIDE DEF t, h
  <2>5. Polled(c, t, h)
    BY <1>b, <2>2, <2>3, <2>4 DEF Polled
  <2>6. QED
    BY <2>5
<1>4. CASE ~Passes(c, event)
  <2> DEFINE p == s.position + 1
             t == [s EXCEPT !.position = p]
             n == g.lost
             h == [g EXCEPT !.lost = n]
  <2>1. ~(event.id > s.lastId /\ <<s.filter, event.kind>> \in Matching)
    BY <1>4 DEF Passes
  <2>2. p \in Nat /\ s.position \in Nat /\ s.position <= p /\ p <= Len(channel) + 1 /\ n \in Nat
    BY <1>b, <1>2, Parts, EntryIds
  <2>3. h = g
    BY <1>2 DEF Log
  <2>4. ClientAt(channel, t, h)
    <3> HIDE DEF p, n
    <3>1. QED
      BY <1>b, <1>1, <2>2, OrderMoved
  <2>5. stream' = [stream EXCEPT ![c] = t] /\ log' = [log EXCEPT ![c] = h]
    <3>1. stream' = [stream EXCEPT ![c] = t]
      BY <1>4 DEF Receive
    <3>2. log' = log
      BY <1>4 DEF Receive
    <3>3. log = [log EXCEPT ![c] = g]
      BY <1>b DEF BaseOK
    <3> HIDE DEF h, t, g
    <3>4. QED
      BY <2>3, <3>1, <3>2, <3>3
  <2>6. ASSUME Matching = Asked, LossesTold(channel, s, g) PROVE LossesTold(channel, t, h)
    <3>1. ~(event.id > s.lastId /\ <<s.filter, event.kind>> \in Asked)
      BY <2>1, <2>6
    <3>2. Due(channel, t, g) = Due(channel, s, g)
      BY <1>b, <1>1, <3>1, SkippedNotDue
    <3>3. Due(channel, t, h) = Due(channel, s, g)
      <4> HIDE DEF h, t
      <4>1. QED
        BY <2>3, <3>2
    <3>4. n = g.lost
      OBVIOUS
    <3> HIDE DEF p, n
    <3>5. QED
      BY <1>b, <1>1, <2>2, <2>6, <3>3, <3>4, LossMoved
  <2> HIDE DEF t, h
  <2>7. Polled(c, t, h)
    BY <1>b, <2>4, <2>5, <2>6 DEF Polled
  <2>8. QED
    BY <2>7
<1>5. QED
  BY <1>3, <1>4

\* recv tells of the overwritten events.
LEMMA LagPolls ==
    ASSUME HubInv, NEW c \in Clients, Lag(c)
    PROVE  \E t, h : Polled(c, t, h)
<1> DEFINE s == stream[c]
           g == log[c]
           p == Oldest
           n == g.lost + (p - s.position)
           t == [s EXCEPT !.position = p]
           h == [g EXCEPT !.lost = n]
<1>b. /\ BaseOK /\ Rising(channel)
      /\ stage[c] = "streaming" /\ s.position < p
      /\ UNCHANGED <<connected, nextEventId, channel, stage, shutdown>>
  BY DEF HubInv, TypeOK, BaseOK, Stream, Log, Lag
<1>1. ClientAt(channel, s, g)
  BY <1>b DEF HubInv, AllOK, ClientOK
<1>2. s \in Stream /\ g \in Log
  BY <1>1 DEF ClientAt
<1>3. p \in Nat /\ p <= Len(channel) + 1
  BY <1>b, Constants, EntryIds DEF Oldest
<1>4. s.position \in Nat /\ g.lost \in Nat
  BY <1>2, Parts
<1> HIDE DEF p
<1>5. n \in Nat /\ s.position <= p
  BY <1>b, <1>3, <1>4, SMTT(40)
<1>6. stream' = [stream EXCEPT ![c] = t] /\ log' = [log EXCEPT ![c] = h]
  BY <1>b DEF Lag, BaseOK, p
<1>7. n = g.lost + (p - s.position)
  OBVIOUS
<1> HIDE DEF n
<1>8. ClientAt(channel, t, h)
  BY <1>b, <1>1, <1>3, <1>5, OrderMoved
<1>9. ASSUME LossesTold(channel, s, g) PROVE LossesTold(channel, t, h)
  BY <1>b, <1>1, <1>3, <1>5, <1>7, <1>9, LossMoved
<1> HIDE DEF t, h
<1>10. Polled(c, t, h)
  BY <1>b, <1>6, <1>8, <1>9 DEF Polled
<1>11. QED
  BY <1>10

\* Nothing but the watch changes, or nothing at all.
LEMMA HubIdle ==
    ASSUME HubInv, Shutdown \/ UNCHANGED vars
    PROVE  HubInv'
<1>1. /\ UNCHANGED <<connected, nextEventId, channel, stage, stream, log>>
      /\ shutdown' \in BOOLEAN
  BY DEF Shutdown, vars, HubInv, TypeOK
<1>2. TypeOK'
  BY <1>1 DEF HubInv, TypeOK
<1>3. Rising(channel)' /\ IdsGiven' /\ StreamsWithinLimit'
  BY <1>1 DEF HubInv, Rising, IdsGiven, StreamsWithinLimit, Holders
<1>4. AllOK'
  BY <1>1 DEF HubInv, AllOK, ClientOK
<1>5. QED
  BY <1>2, <1>3, <1>4 DEF HubInv

\* Every step keeps the invariant.
LEMMA HubStep == HubInv /\ [Next]_vars => HubInv'
<1> SUFFICES ASSUME HubInv, [Next]_vars PROVE HubInv'
  OBVIOUS
<1>1. ASSUME NEW k \in Kinds, Publish(k) PROVE HubInv'
  BY <1>1, HubPublish
<1>2. ASSUME NEW c \in Clients, Handle(c) PROVE HubInv'
  <2>1. CASE Admit(c) \/ Refuse(c) \/ RejectQuery(c)
    BY <2>1, HubHandles
  <2>2. ASSUME NEW q \in Queries, NEW id \in LastIds, Subscribe(c, q, id) PROVE HubInv'
    BY <2>2, HubSubscribes
  <2>3. QED
    BY <1>2, <2>1, <2>2 DEF Handle
<1>3. ASSUME NEW c \in Clients, Receive(c) \/ Lag(c) PROVE HubInv'
  <2>1. PICK t, h : Polled(c, t, h)
    BY <1>3, ReceivePolls, LagPolls
  <2>2. stage[c] = "streaming"
    BY <1>3 DEF Receive, Lag
  <2>3. QED
    BY <2>1, <2>2, HubMoves DEF Polled
<1>4. ASSUME NEW c \in Clients, EndOnShutdown(c) \/ Disconnect(c) PROVE HubInv'
  BY <1>4, HubReleases DEF EndOnShutdown, Disconnect
<1>5. ASSUME NEW c \in Clients, Retry(c) PROVE HubInv'
  BY <1>5, HubHandles
<1>6. CASE Shutdown \/ UNCHANGED vars
  BY <1>6, HubIdle
<1>7. QED
  BY <1>1, <1>2, <1>3, <1>4, <1>5, <1>6 DEF Next, Poll

\* The ids a client was sent rise from where it asked to begin.
LEMMA InOrder == HubInv => StreamsConsistent
<1> SUFFICES ASSUME HubInv PROVE StreamsConsistent
  OBVIOUS
<1>1. ASSUME NEW c \in Clients
      PROVE  /\ \A i, j \in 1..Len(log[c].ids) : i < j => log[c].ids[i] < log[c].ids[j]
             /\ \A i \in 1..Len(log[c].ids) : log[c].floor < log[c].ids[i]
  <2>1. CASE stage[c] = "streaming"
    <3>1. ClientAt(channel, stream[c], log[c])
      BY <2>1 DEF HubInv, AllOK, ClientOK
    <3>2. QED
      BY <3>1 DEF ClientAt
  <2>2. CASE stage[c] # "streaming"
    <3>1. log[c].ids = <<>>
      BY <2>2 DEF HubInv, AllOK, ClientOK, NoLog
    <3>2. QED
      BY <3>1
  <2>3. QED
    BY <2>1, <2>2
<1>2. DeliveredInOrder
  BY <1>1 DEF DeliveredInOrder
<1>3. QED
  BY <1>2 DEF HubInv, StreamsConsistent

\* There are never more streams than the counter says and the counter never
\* passes max_clients, and every client is sent rising ids above its
\* Last-Event-ID, however clients come, fall behind, leave and are refused.
THEOREM StreamsCorrect == Spec => []StreamsConsistent
<1>1. Init => HubInv
  BY HubInitially
<1>2. HubInv /\ [Next]_vars => HubInv'
  BY HubStep
<1>3. HubInv => StreamsConsistent
  BY InOrder
<1>4. QED
  BY <1>1, <1>2, <1>3, PTL DEF Spec

-----------------------------------------------------------------------------
(* No silent loss *)

\* A client that is told its losses still is after a step.
LEMMA LossesStep ==
    ASSUME HubInv, Matching = Asked, NoSilentLoss, [Next]_vars
    PROVE  NoSilentLoss'
<1> SUFFICES ASSUME NEW d \in Clients, stage'[d] = "streaming"
             PROVE  LossesTold(channel', stream'[d], log'[d])
  BY DEF NoSilentLoss, Streaming
<1>0. stage[d] = "streaming" => /\ LossesTold(channel, stream[d], log[d])
                                /\ ClientAt(channel, stream[d], log[d])
  BY DEF NoSilentLoss, Streaming, HubInv, AllOK, ClientOK
<1>s. stage \in [Clients -> Stages] /\ Rising(channel)
  BY DEF HubInv, TypeOK
<1>k. ASSUME stage'[d] = stage[d], stream'[d] = stream[d], log'[d] = log[d], channel' = channel
      PROVE  LossesTold(channel', stream'[d], log'[d])
  BY <1>0, <1>k
<1>1. ASSUME NEW k \in Kinds, Publish(k) PROVE LossesTold(channel', stream'[d], log'[d])
  <2> DEFINE e == [id |-> nextEventId, kind |-> k]
  <2>1. UNCHANGED <<stage, stream, log>> /\ (channel' = channel \/ channel' = Append(channel, e))
    BY <1>1 DEF Publish
  <2>2. e \in Entries
    <3>1. nextEventId \in 1..MaxEvents
      BY <1>1, Constants DEF Publish, HubInv, TypeOK
    <3>2. QED
      BY <3>1 DEF Entries
  <2> HIDE DEF e
  <2>3. LossesTold(Append(channel, e), stream[d], log[d])
    BY <1>0, <1>s, <2>1, <2>2, LossPublished
  <2>4. QED
    BY <1>0, <2>1, <2>3
<1>2. ASSUME NEW c \in Clients, Admit(c) \/ Refuse(c) \/ RejectQuery(c) \/ Retry(c)
      PROVE  LossesTold(channel', stream'[d], log'[d])
  <2>1. UNCHANGED <<channel, stream, log>> /\ stage'[d] = stage[d]
    BY <1>s, <1>2 DEF Admit, Refuse, RejectQuery, Retry
  <2>2. QED
    BY <1>k, <2>1
<1>3. ASSUME NEW c \in Clients, NEW q \in Queries, NEW id \in LastIds, Subscribe(c, q, id)
      PROVE  LossesTold(channel', stream'[d], log'[d])
  <2>1. OthersSame(c) /\ channel' = channel /\ LossesTold(channel', stream'[c], log'[c])
    BY <1>3, HubSubscribes
  <2>2. QED
    BY <1>k, <2>1 DEF OthersSame
<1>4. ASSUME NEW c \in Clients, Receive(c) \/ Lag(c)
      PROVE  LossesTold(channel', stream'[d], log'[d])
  <2>1. PICK t, h : Polled(c, t, h)
    BY <1>4, ReceivePolls, LagPolls
  <2>2. stage[c] = "streaming"
    BY <1>4 DEF Receive, Lag
  <2>3. OthersSame(c) /\ stream'[c] = t /\ log'[c] = h /\ channel' = channel
    BY <2>1, <2>2, HubMoves DEF Polled
  <2>4. CASE d = c
    <3>1. LossesTold(channel, stream[c], log[c])
      BY <1>0, <2>2, <2>4
    <3>2. LossesTold(channel, t, h)
      BY <2>1, <3>1 DEF Polled
    <3>3. QED
      BY <2>3, <2>4, <3>2
  <2>5. CASE d # c
    BY <1>k, <2>3, <2>5 DEF OthersSame
  <2>6. QED
    BY <2>4, <2>5
<1>5. ASSUME NEW c \in Clients, EndOnShutdown(c) \/ Disconnect(c)
      PROVE  LossesTold(channel', stream'[d], log'[d])
  <2>1. OthersSame(c) /\ channel' = channel /\ stage'[c] = "away"
    BY <1>5, HubReleases DEF EndOnShutdown, Disconnect
  <2>2. QED
    BY <1>k, <2>1 DEF OthersSame
<1>6. CASE Shutdown \/ UNCHANGED vars
  <2>1. UNCHANGED <<channel, stage, stream, log>>
    BY <1>6 DEF Shutdown, vars
  <2>2. QED
    BY <1>k, <2>1
<1>7. QED
  BY <1>1, <1>2, <1>3, <1>4, <1>5, <1>6 DEF Next, Handle, Poll

\* The filters let through what the queries mean.  Whether they do is a fact
\* about EventOf and QueryOf alone.
FiltersAgree == Matching = Asked

\* No silent loss: where the filters let through what the queries mean, a
\* stream sends its client every event it asked for, once, except as many as
\* it warns about, whatever the ring's capacity and however far the client
\* falls behind.
THEOREM NoLossUntold == FiltersAgree => (Spec => []NoSilentLoss)
<1> SUFFICES ASSUME FiltersAgree PROVE Spec => []NoSilentLoss
  OBVIOUS
<1> DEFINE Inv == HubInv /\ NoSilentLoss
<1>1. Init => Inv
  <2>1. Init => NoSilentLoss
    BY DEF Init, NoSilentLoss, Streaming
  <2>2. QED
    BY <2>1, HubInitially
<1>2. Inv /\ [Next]_vars => Inv'
  BY HubStep, LossesStep DEF FiltersAgree
<1>3. Inv => NoSilentLoss
  OBVIOUS
<1> HIDE DEF Inv
<1>4. QED
  BY <1>1, <1>2, <1>3, PTL DEF Spec
=============================================================================
