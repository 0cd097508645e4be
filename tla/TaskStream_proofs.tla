-------------------------- MODULE TaskStream_proofs --------------------------
(***************************************************************************)
(* Theorems about TaskEventLog and TaskStream for every set of tasks and   *)
(* clients, every size an event may have, all ceilings and all bounds.     *)
(* First the log: what an append leaves of it. Then the streams.           *)
(***************************************************************************)
EXTENDS TaskStream, ListLemmas

Event == [sequence : Nat, final : BOOLEAN, size : Nat]
SizeOf == [e \in Event |-> e.size]

------------------------------------------------------------------------------
(* The log.                                                                *)

LogType ==
  /\ events \in [Task -> Seq(Event)]
  /\ order \in Seq(Task)
  /\ sizes \in [Task -> Nat]
  /\ totalBytes \in Nat

OrderOnce == \A i, j \in 1..Len(order) : order[i] = order[j] => i = j

LogInv == LogType /\ OrderOnce /\ AccountingHonest /\ CeilingsKept

LEMMA CeilingsType == MaxEventsPerTask \in Nat \ {0} /\ MaxTasks \in Nat \ {0}
                        /\ MaxBytesTotal \in Nat \ {0}
BY TaskEventLogAssumption

LEMMA SizeType == SizeOf \in [Event -> Nat]
BY DEF SizeOf, Event

LEMMA BytesAreWeighed ==
  ASSUME NEW bucket \in Seq(Event)
  PROVE  Bytes(bucket) = Weighed(bucket, SizeOf) /\ Bytes(bucket) \in Nat
<1>1. [i \in DOMAIN bucket |-> bucket[i].size] = [i \in 1..Len(bucket) |-> SizeOf[bucket[i]]]
  BY LenProperties, ElementOfSeq DEF SizeOf
<1>2. Bytes(bucket) = Weighed(bucket, SizeOf)
  BY <1>1 DEF Bytes, Weighed, Weights
<1>3. Weighed(bucket, SizeOf) \in Nat
  BY SizeType, WeighedType
<1> QED BY <1>2, <1>3

LEMMA RetainedIsWeighed ==
  ASSUME NEW keys \in Seq(Task), sizes \in [Task -> Nat]
  PROVE  RetainedBy(keys) = Weighed(keys, sizes) /\ RetainedBy(keys) \in Nat
<1>1. [i \in DOMAIN keys |-> sizes[keys[i]]] = [i \in 1..Len(keys) |-> sizes[keys[i]]]
  BY LenProperties
<1> QED BY <1>1, WeighedType DEF RetainedBy, Weighed, Weights

(* Dropping the n oldest leaves the rest, and gives back what they took.   *)
LEMMA DropFacts ==
  ASSUME NEW bucket \in Seq(Event), NEW n \in 0..Len(bucket)
  PROVE  /\ DropOldest(bucket, n) \in Seq(Event)
         /\ Len(DropOldest(bucket, n)) = Len(bucket) - n
         /\ \A i \in 1..(Len(bucket) - n) : DropOldest(bucket, n)[i] = bucket[n + i]
         /\ Freed(bucket, n) \in Nat
         /\ Bytes(DropOldest(bucket, n)) = Bytes(bucket) - Freed(bucket, n)
<1>1. Len(bucket) \in Nat /\ n \in Nat /\ n <= Len(bucket)
      /\ \A i \in 1..Len(bucket) : bucket[i] \in Event
  BY ElementOfSeq
<1>2. /\ SubSeq(bucket, n + 1, Len(bucket)) \in Seq(Event)
      /\ Len(SubSeq(bucket, n + 1, Len(bucket))) = Len(bucket) - n
      /\ \A i \in 1..(Len(bucket) - n) : SubSeq(bucket, n + 1, Len(bucket))[i] = bucket[n + i]
  BY CutFacts
<1>3. /\ SubSeq(bucket, 1, n) \in Seq(Event)
      /\ Weighed(bucket, SizeOf) = Weighed(SubSeq(bucket, 1, n), SizeOf)
                                     + Weighed(SubSeq(bucket, n + 1, Len(bucket)), SizeOf)
  BY SizeType, WeighedSplit
<1>4. /\ Bytes(bucket) = Weighed(bucket, SizeOf) /\ Bytes(bucket) \in Nat
      /\ Bytes(SubSeq(bucket, 1, n)) = Weighed(SubSeq(bucket, 1, n), SizeOf)
      /\ Bytes(SubSeq(bucket, 1, n)) \in Nat
      /\ Bytes(SubSeq(bucket, n + 1, Len(bucket))) =
           Weighed(SubSeq(bucket, n + 1, Len(bucket)), SizeOf)
      /\ Bytes(SubSeq(bucket, n + 1, Len(bucket))) \in Nat
  BY <1>2, <1>3, BytesAreWeighed
<1>5. Bytes(SubSeq(bucket, n + 1, Len(bucket))) = Bytes(bucket) - Bytes(SubSeq(bucket, 1, n))
  BY <1>3, <1>4
<1> QED BY <1>2, <1>4, <1>5 DEF DropOldest, Freed

LEMMA GrownFacts ==
  ASSUME NEW bucket \in Seq(Event), NEW event \in Event
  PROVE  /\ Append(bucket, event) \in Seq(Event)
         /\ Len(Append(bucket, event)) = Len(bucket) + 1
         /\ Append(bucket, event)[Len(bucket) + 1] = event
         /\ \A i \in 1..Len(bucket) : Append(bucket, event)[i] = bucket[i]
         /\ Bytes(Append(bucket, event)) = Bytes(bucket) + event.size
<1>1. Append(bucket, event) \in Seq(Event)
  OBVIOUS
<1>2. Weighed(Append(bucket, event), SizeOf) = Weighed(bucket, SizeOf) + SizeOf[event]
  BY SizeType, WeighedAppend
<1>3. SizeOf[event] = event.size
  BY DEF SizeOf
<1>4. /\ Bytes(bucket) = Weighed(bucket, SizeOf)
      /\ Bytes(Append(bucket, event)) = Weighed(Append(bucket, event), SizeOf)
  BY <1>1, BytesAreWeighed
<1>5. Bytes(Append(bucket, event)) = Bytes(bucket) + event.size
  BY <1>2, <1>3, <1>4
<1> QED BY <1>1, <1>5, AppendProperties

(* A loop of at most `most` rounds ends at its condition or at `most`.     *)
LEMMA RoundsFacts ==
  ASSUME NEW most \in Nat, NEW done
  PROVE  /\ Rounds(most, done) \in 0..most
         /\ Rounds(most, done) \in done \/ Rounds(most, done) = most
<1> DEFINE S == (done \cap 0..most) \cup {most}
<1>1. S \in SUBSET Nat /\ S # {} /\ most \in 0..most
  OBVIOUS
<1>2. Min(S) \in S
  BY <1>1, LeastMember
<1> QED BY <1>1, <1>2 DEF Rounds

(* The key that was written to comes last, the others keep their order.    *)
LEMMA KeysFacts ==
  ASSUME LogInv, NEW t \in Task
  PROVE  LET keys == Append(Among(order, Task \ {t}), t) IN
           /\ keys \in Seq(Task) /\ Len(keys) > 0 /\ keys[Len(keys)] = t
           /\ \A i, j \in 1..Len(keys) : keys[i] = keys[j] => i = j
           /\ ToSet(keys) = ToSet(order) \cup {t}
           /\ RetainedBy(keys) = RetainedBy(order) + (IF t \in ToSet(order) THEN 0 ELSE sizes[t])
<1> DEFINE keys == Append(Among(order, Task \ {t}), t)
<1>1. keys = MovedLast(Task, order, t)
  BY DEF MovedLast
<1>2. order \in Seq(Task) /\ sizes \in [Task -> Nat] /\ NoneTwice(order) /\ sizes[t] \in Nat
  BY DEF LogInv, LogType, OrderOnce, NoneTwice
<1> HIDE DEF keys
<1>3. /\ keys \in Seq(Task) /\ Len(keys) > 0 /\ keys[Len(keys)] = t
      /\ NoneTwice(keys) /\ ToSet(keys) = ToSet(order) \cup {t}
  <2> DEFINE moved == MovedLast(Task, order, t)
  <2>1. /\ moved \in Seq(Task) /\ Len(moved) > 0 /\ moved[Len(moved)] = t
        /\ NoneTwice(moved) /\ ToSet(moved) = ToSet(order) \cup {t}
    BY <1>2, MovedLastFacts
  <2> QED BY <1>1, <2>1
<1>4. Weighed(keys, sizes) = Weighed(order, sizes) + (IF t \in ToSet(order) THEN 0 ELSE sizes[t])
  BY <1>1, <1>2, MovedLastWeighed
<1>5. RetainedBy(keys) = Weighed(keys, sizes) /\ RetainedBy(order) = Weighed(order, sizes)
  BY <1>2, <1>3, RetainedIsWeighed
<1> QED BY <1>3, <1>4, <1>5 DEF NoneTwice, keys

LEMMA NothingRetained == Bytes(<<>>) = 0
<1>1. <<>> \in Seq(Event)
  OBVIOUS
<1>2. Bytes(<<>>) = Weighed(<<>>, SizeOf)
  BY <1>1, BytesAreWeighed
<1> QED BY <1>2, WeighedNothing

(* What append() leaves of the log: all of the invariant, the newest       *)
(* events of the task that was written to, and of every other task all or  *)
(* nothing.                                                                *)
Suffix(t, event) ==
  \E k \in 0..Len(events[t]) :
    /\ Len(events'[t]) = Len(events[t]) + 1 - k
    /\ \A i \in 1..(Len(events[t]) + 1 - k) : events'[t][i] = Append(events[t], event)[k + i]

AllOrNothing(t) == \A u \in Task \ {t} : events'[u] = events[u] \/ events'[u] = <<>>

LEMMA RecordFacts ==
  ASSUME LogInv, NEW t \in Task, NEW event \in Event, Record(t, event)
  PROVE  LogInv' /\ Suffix(t, event) /\ AllOrNothing(t)
<1> DEFINE
     bucket == events[t]
     grown == Append(bucket, event)
     over == IF Len(grown) > MaxEventsPerTask THEN Len(grown) - MaxEventsPerTask ELSE 0
     capped == DropOldest(grown, over)
     cappedSize == sizes[t] + event.size - Freed(grown, over)
     total == totalBytes + event.size - Freed(grown, over)
     keys == Append(Among(order, Task \ {t}), t)
     n == Forgotten(keys, total)
     gone == SubSeq(keys, 1, n)
     left == total - RetainedBy(gone)
     excess == IF left <= MaxBytesTotal THEN 0
               ELSE Rounds(Len(capped) - 1,
                      {m \in 0..Len(capped) : cappedSize - Freed(capped, m) <= MaxBytesTotal})
     final == DropOldest(capped, excess)
     finalSize == cappedSize - Freed(capped, excess)
     rest == SubSeq(keys, n + 1, Len(keys))
<1>1. /\ events' = [u \in Task |-> CASE u = t -> final
                                      [] u \in ToSet(gone) -> <<>>
                                      [] OTHER -> events[u]]
      /\ sizes' = [u \in Task |-> CASE u = t -> finalSize
                                     [] u \in ToSet(gone) -> 0
                                     [] OTHER -> sizes[u]]
      /\ order' = SubSeq(keys, Len(gone) + 1, Len(keys))
      /\ totalBytes' = left - Freed(capped, excess)
  <2> DEFINE Settled(cp, cs, kk, gg, ll, ex) ==
        /\ events' = [u \in Task |-> CASE u = t -> DropOldest(cp, ex)
                                       [] u \in ToSet(gg) -> <<>>
                                       [] OTHER -> events[u]]
        /\ sizes' = [u \in Task |-> CASE u = t -> cs - Freed(cp, ex)
                                      [] u \in ToSet(gg) -> 0
                                      [] OTHER -> sizes[u]]
        /\ order' = SubSeq(kk, Len(gg) + 1, Len(kk))
        /\ totalBytes' = ll - Freed(cp, ex)
  <2> DEFINE Late(ll, cp, cs) ==
        IF ll <= MaxBytesTotal THEN 0
        ELSE Rounds(Len(cp) - 1, {m \in 0..Len(cp) : cs - Freed(cp, m) <= MaxBytesTotal})
  <2>1. \E cp \in {capped}, cs \in {cappedSize}, tt \in {total}, kk \in {keys} :
          \E gg \in {SubSeq(kk, 1, Forgotten(kk, tt))} :
          \E ll \in {tt - RetainedBy(gg)} :
          \E ex \in {Late(ll, cp, cs)} : Settled(cp, cs, kk, gg, ll, ex)
    BY DEF Record
  <2>2. Settled(capped, cappedSize, keys, gone, left, Late(left, capped, cappedSize))
    <3> HIDE DEF Settled, Late, capped, cappedSize, total, keys
    <3> QED BY <2>1
  <2> QED BY <2>2
<1>2. /\ events \in [Task -> Seq(Event)] /\ order \in Seq(Task)
      /\ sizes \in [Task -> Nat] /\ totalBytes \in Nat
      /\ bucket \in Seq(Event) /\ event.size \in Nat /\ sizes[t] \in Nat /\ sizes[t] = Bytes(bucket)
      /\ totalBytes = RetainedBy(order)
  BY DEF LogInv, LogType, AccountingHonest, Event
<1>3. /\ MaxEventsPerTask \in Nat \ {0} /\ MaxTasks \in Nat \ {0} /\ MaxBytesTotal \in Nat \ {0}
  BY CeilingsType
<1>4. /\ grown \in Seq(Event) /\ Len(grown) = Len(bucket) + 1 /\ Len(bucket) \in Nat
      /\ Bytes(grown) = sizes[t] + event.size
  BY <1>2, GrownFacts
<1>5. Len(bucket) <= MaxEventsPerTask /\ Len(order) <= MaxTasks
  BY DEF LogInv, CeilingsKept
<1> HIDE DEF grown
<1>6. over \in 0..Len(grown) /\ over <= Len(bucket) /\ over \in Nat
      /\ Len(grown) - over >= 1 /\ Len(grown) - over <= MaxEventsPerTask
  BY <1>3, <1>4, <1>5
<1> HIDE DEF over, bucket
<1>7. /\ capped \in Seq(Event) /\ Len(capped) = Len(grown) - over
      /\ \A i \in 1..(Len(grown) - over) : capped[i] = grown[over + i]
      /\ Freed(grown, over) \in Nat
      /\ Bytes(capped) = Bytes(grown) - Freed(grown, over)
      /\ Bytes(capped) \in Nat
  BY <1>4, <1>6, DropFacts, BytesAreWeighed
<1>8. cappedSize = Bytes(capped) /\ cappedSize \in Nat
  BY <1>2, <1>4, <1>7
<1>9. /\ keys \in Seq(Task) /\ Len(keys) > 0 /\ keys[Len(keys)] = t
      /\ \A i, j \in 1..Len(keys) : keys[i] = keys[j] => i = j
      /\ ToSet(keys) = ToSet(order) \cup {t}
      /\ RetainedBy(keys) = RetainedBy(order) + (IF t \in ToSet(order) THEN 0 ELSE sizes[t])
  BY KeysFacts
<1> HIDE DEF keys
<1>10. RetainedBy(keys) = totalBytes
  <2>1. t \notin ToSet(order) => sizes[t] = 0
    BY <1>2, NothingRetained DEF LogInv, AccountingHonest, bucket
  <2> QED BY <1>2, <1>9, <2>1
<1>11. total = RetainedBy(keys) - sizes[t] + cappedSize
  BY <1>2, <1>7, <1>10
<1> HIDE DEF total, cappedSize
<1>12. Len(keys) \in Nat /\ Len(keys) - 1 \in Nat
  BY <1>9
<1>13. /\ n \in 0..(Len(keys) - 1)
       /\ \/ Len(keys) - n <= MaxTasks /\ total - RetainedBy(SubSeq(keys, 1, n)) <= MaxBytesTotal
          \/ n = Len(keys) - 1
  <2> DEFINE enough == {m \in 0..Len(keys) : /\ Len(keys) - m <= MaxTasks
                                             /\ total - RetainedBy(SubSeq(keys, 1, m)) <= MaxBytesTotal}
  <2>1. n = Rounds(Len(keys) - 1, enough)
    BY DEF Forgotten
  <2>2. Rounds(Len(keys) - 1, enough) \in 0..(Len(keys) - 1)
        /\ (Rounds(Len(keys) - 1, enough) \in enough \/ Rounds(Len(keys) - 1, enough) = Len(keys) - 1)
    <3> HIDE DEF enough
    <3> QED BY <1>12, RoundsFacts
  <2> HIDE DEF n
  <2> QED BY <2>1, <2>2
<1> HIDE DEF n
<1>14. /\ gone \in Seq(Task) /\ Len(gone) = n /\ \A i \in 1..n : gone[i] = keys[i]
       /\ rest \in Seq(Task) /\ Len(rest) = Len(keys) - n
       /\ \A i \in 1..(Len(keys) - n) : rest[i] = keys[n + i]
       /\ n \in 0..Len(keys)
  <2>1. n \in 0..Len(keys)
    BY <1>12, <1>13
  <2> QED BY <1>9, <2>1, CutFacts
<1>15. /\ Weighed(keys, sizes) = Weighed(gone, sizes) + Weighed(rest, sizes)
       /\ Weighed(keys, sizes) = RetainedBy(keys) /\ Weighed(gone, sizes) = RetainedBy(gone)
       /\ RetainedBy(keys) \in Nat /\ RetainedBy(gone) \in Nat /\ Weighed(rest, sizes) \in Nat
  <2>1. sizes \in [Task -> Nat] /\ keys \in Seq(Task) /\ n \in 0..Len(keys)
        /\ gone \in Seq(Task) /\ rest \in Seq(Task)
    BY <1>2, <1>9, <1>14
  <2>2. Weighed(keys, sizes) = Weighed(gone, sizes) + Weighed(rest, sizes)
    BY <2>1, WeighedSplit
  <2> HIDE DEF gone, rest
  <2>3. /\ Weighed(keys, sizes) = RetainedBy(keys) /\ Weighed(gone, sizes) = RetainedBy(gone)
        /\ RetainedBy(keys) \in Nat /\ RetainedBy(gone) \in Nat
    BY <2>1, RetainedIsWeighed
  <2>4. Weighed(rest, sizes) \in Nat
    BY <2>1, WeighedType
  <2> QED BY <2>2, <2>3, <2>4
<1> HIDE DEF gone, rest
<1>16. Len(rest) >= 1 /\ rest[Len(rest)] = t /\ Len(rest) \in Nat
  <2>1. Len(keys) - n \in 1..(Len(keys) - n) /\ n + (Len(keys) - n) = Len(keys)
    BY <1>12, <1>13
  <2> QED BY <1>9, <1>14, <2>1
<1>17. Weighed(rest, sizes) >= sizes[t] /\ (Len(rest) = 1 => Weighed(rest, sizes) = sizes[t])
  <2> DEFINE front == SubSeq(rest, 1, Len(rest) - 1)
  <2>1. front \in Seq(Task) /\ Weighed(rest, sizes) = Weighed(front, sizes) + sizes[t]
    <3>1. sizes \in [Task -> Nat] /\ rest \in Seq(Task)
      BY <1>2, <1>14
    <3>2. Len(rest) > 0
      BY <1>16
    <3>3. front \in Seq(Task) /\ Weighed(rest, sizes) = Weighed(front, sizes) + sizes[rest[Len(rest)]]
      BY <3>1, <3>2, WeighedLast
    <3> QED BY <1>16, <3>3
  <2>2. Weighed(front, sizes) \in Nat
    BY <1>2, <2>1, WeighedType
  <2>3. Len(rest) = 1 => Weighed(front, sizes) = 0
    <3> HAVE Len(rest) = 1
    <3>1. front = <<>>
      BY <1>14
    <3> QED BY <3>1, WeighedNothing
  <2> HIDE DEF front
  <2> QED BY <1>2, <2>1, <2>2, <2>3
<1>18. left = Weighed(rest, sizes) - sizes[t] + cappedSize /\ left \in Nat
  <2>1. left = total - RetainedBy(gone)
    OBVIOUS
  <2> HIDE DEF left
  <2> QED BY <1>2, <1>8, <1>11, <1>15, <1>17, <2>1
<1>19. left > MaxBytesTotal => Len(rest) = 1
  <2>1. SubSeq(keys, 1, n) = gone
    BY DEF gone
  <2>2. n = Len(keys) - 1 => Len(rest) = 1
    <3>1. \A l, m \in Int : m = l - 1 => l - m = 1
      OBVIOUS
    <3> QED BY <1>12, <1>14, <3>1
  <2>3. left = total - RetainedBy(gone) /\ left \in Nat
    BY <1>18
  <2> HIDE DEF left
  <2>4. left > MaxBytesTotal => ~ (total - RetainedBy(gone) <= MaxBytesTotal)
    BY <1>3, <2>3
  <2> QED BY <1>13, <2>1, <2>2, <2>4
<1> HIDE DEF left
<1>20. /\ excess \in 0..(Len(capped) - 1)
       /\ \/ left <= MaxBytesTotal /\ excess = 0
          \/ left > MaxBytesTotal /\ cappedSize - Freed(capped, excess) <= MaxBytesTotal
          \/ left > MaxBytesTotal /\ excess = Len(capped) - 1
  <2> DEFINE enough == {m \in 0..Len(capped) : cappedSize - Freed(capped, m) <= MaxBytesTotal}
  <2>1. Len(capped) - 1 \in Nat
    BY <1>4, <1>6, <1>7
  <2>2. Rounds(Len(capped) - 1, enough) \in 0..(Len(capped) - 1)
        /\ (Rounds(Len(capped) - 1, enough) \in enough \/ Rounds(Len(capped) - 1, enough) = Len(capped) - 1)
    <3> HIDE DEF enough, capped
    <3> QED BY <2>1, RoundsFacts
  <2>3. excess = IF left <= MaxBytesTotal THEN 0 ELSE Rounds(Len(capped) - 1, enough)
    OBVIOUS
  <2> HIDE DEF excess, capped
  <2> QED BY <1>3, <1>18, <2>1, <2>2, <2>3
<1>21. /\ final \in Seq(Event) /\ Len(final) = Len(capped) - excess /\ Len(final) >= 1
       /\ \A i \in 1..(Len(capped) - excess) : final[i] = capped[excess + i]
       /\ Freed(capped, excess) \in Nat
       /\ Bytes(final) = Bytes(capped) - Freed(capped, excess) /\ Bytes(final) \in Nat
  <2> HIDE DEF excess, capped
  <2>1. Len(capped) \in Nat /\ excess \in 0..Len(capped) /\ Len(capped) - excess >= 1
    BY <1>4, <1>6, <1>7, <1>20
  <2> QED BY <1>7, <2>1, DropFacts, BytesAreWeighed
<1>22. finalSize = Bytes(final) /\ finalSize \in Nat
  BY <1>8, <1>21
<1>23. totalBytes' = Weighed(rest, sizes) - sizes[t] + finalSize
  <2> HIDE DEF excess, capped
  <2> QED BY <1>1, <1>2, <1>8, <1>15, <1>18, <1>21
<1>24. order' = rest
  BY <1>1, <1>14 DEF rest
<1> HIDE DEF final, finalSize, excess, capped
<1>25. \A i \in 1..n, j \in 1..(Len(keys) - n) : keys[i] # keys[n + j]
  <2> TAKE i \in 1..n, j \in 1..(Len(keys) - n)
  <2>1. i \in 1..Len(keys) /\ n + j \in 1..Len(keys) /\ i # n + j
    BY <1>12, <1>13
  <2> QED BY <1>9, <2>1
<1>26. \A u \in ToSet(gone) : u # t /\ u \notin ToSet(rest)
  <2> SUFFICES ASSUME NEW i \in 1..Len(gone)
               PROVE  gone[i] # t /\ gone[i] \notin ToSet(rest)
    BY <1>14, LenProperties DEF ToSet
  <2>1. \A j \in 1..Len(rest) : gone[i] # rest[j]
    BY <1>14, <1>25
  <2> QED BY <1>14, <1>16, <2>1, LenProperties DEF ToSet
<1>27. /\ \A u \in ToSet(keys) : u \in ToSet(gone) \/ u \in ToSet(rest)
       /\ ToSet(rest) \subseteq ToSet(keys) /\ t \in ToSet(rest) /\ ToSet(gone) \subseteq ToSet(keys)
  <2>1. ToSet(keys) = {keys[i] : i \in 1..Len(keys)} /\ ToSet(gone) = {gone[i] : i \in 1..n}
        /\ ToSet(rest) = {rest[i] : i \in 1..(Len(keys) - n)}
    BY <1>9, <1>14, LenProperties DEF ToSet
  <2>2. ASSUME NEW i \in 1..Len(keys)
        PROVE  keys[i] \in ToSet(gone) \/ keys[i] \in ToSet(rest)
    <3>1. CASE i <= n
      <4>1. i \in 1..n
        BY <1>13, <3>1
      <4> QED BY <1>14, <2>1, <4>1
    <3>2. CASE i > n
      <4>1. i - n \in 1..(Len(keys) - n) /\ n + (i - n) = i
        BY <1>12, <1>13, <3>2
      <4>2. rest[i - n] = keys[i]
        BY <1>14, <4>1
      <4> QED BY <2>1, <4>1, <4>2
    <3> QED BY <1>12, <1>13, <3>1, <3>2
  <2>3. ASSUME NEW i \in 1..(Len(keys) - n)
        PROVE  rest[i] \in ToSet(keys)
    <3>1. n + i \in 1..Len(keys) /\ rest[i] = keys[n + i]
      BY <1>12, <1>13, <1>14
    <3> QED BY <2>1, <3>1
  <2>4. ASSUME NEW i \in 1..n
        PROVE  gone[i] \in ToSet(keys)
    <3>1. i \in 1..Len(keys) /\ gone[i] = keys[i]
      BY <1>12, <1>13, <1>14
    <3> QED BY <2>1, <3>1
  <2>5. Len(rest) \in 1..(Len(keys) - n)
    BY <1>14, <1>16
  <2> QED BY <1>16, <2>1, <2>2, <2>3, <2>4, <2>5
<1>28. /\ events'[t] = final /\ sizes'[t] = finalSize
       /\ \A u \in Task : u # t /\ u \in ToSet(gone) => events'[u] = <<>> /\ sizes'[u] = 0
       /\ \A u \in Task : u # t /\ u \notin ToSet(gone) => events'[u] = events[u] /\ sizes'[u] = sizes[u]
  <2>1. events'[t] = final /\ sizes'[t] = finalSize
    <3>1. t \notin ToSet(gone)
      BY <1>26
    <3> QED BY <1>1, <3>1
  <2>2. ASSUME NEW u \in Task, u # t, u \in ToSet(gone)
        PROVE  events'[u] = <<>> /\ sizes'[u] = 0
    BY <1>1, <2>2
  <2>3. ASSUME NEW u \in Task, u # t, u \notin ToSet(gone)
        PROVE  events'[u] = events[u] /\ sizes'[u] = sizes[u]
    BY <1>1, <2>3
  <2> QED BY <2>1, <2>2, <2>3
<1>29. events' \in [Task -> Seq(Event)] /\ sizes' \in [Task -> Nat]
  <2>1. events' = [u \in Task |-> events'[u]] /\ sizes' = [u \in Task |-> sizes'[u]]
    BY <1>1
  <2>2. \A u \in Task : events'[u] \in Seq(Event) /\ sizes'[u] \in Nat
    <3> TAKE u \in Task
    <3>1. CASE u = t
      BY <1>21, <1>22, <1>28, <3>1
    <3>2. CASE u # t /\ u \in ToSet(gone)
      <4>1. events'[u] = <<>> /\ sizes'[u] = 0
        BY <1>28, <3>2
      <4>2. <<>> \in Seq(Event) /\ 0 \in Nat
        OBVIOUS
      <4> QED BY <4>1, <4>2
    <3>3. CASE u # t /\ u \notin ToSet(gone)
      BY <1>2, <1>28, <3>3
    <3> QED BY <3>1, <3>2, <3>3
  <2> QED BY <2>1, <2>2
<1>30. \A u \in Task : sizes'[u] = Bytes(events'[u])
  <2>1. \A u \in Task : sizes[u] = Bytes(events[u])
    BY DEF LogInv, AccountingHonest
  <2> QED BY <1>22, <1>28, <2>1, NothingRetained
<1>31. RetainedBy(order)' = Weighed(rest, sizes')
  <2>1. DOMAIN order' = 1..Len(rest)
    BY <1>14, <1>24, LenProperties
  <2> QED BY <1>24, <2>1 DEF RetainedBy, Weighed, Weights
<1>32. \A i \in 1..(Len(rest) - 1) : sizes[rest[i]] = sizes'[rest[i]]
  <2> TAKE i \in 1..(Len(rest) - 1)
  <2>1. i \in 1..Len(rest) /\ i \in 1..(Len(keys) - n) /\ Len(rest) \in 1..(Len(keys) - n) /\ i # Len(rest)
    BY <1>12, <1>13, <1>14, <1>16
  <2>2. n + i \in 1..Len(keys) /\ n + Len(rest) \in 1..Len(keys) /\ n + i # n + Len(rest)
    BY <1>12, <1>13, <2>1
  <2>3. rest[i] # t
    BY <1>9, <1>14, <1>16, <2>1, <2>2
  <2>4. rest[i] \in ToSet(rest) /\ rest[i] \in Task
    BY <1>14, <2>1, LenProperties, ElementOfSeq DEF ToSet
  <2> QED BY <1>26, <1>28, <2>3, <2>4
<1>33. totalBytes' = RetainedBy(order)'
  <2>1. sizes \in [Task -> Nat] /\ sizes' \in [Task -> Nat] /\ rest \in Seq(Task) /\ Len(rest) > 0
    <3>1. Len(rest) > 0
      BY <1>16
    <3> QED BY <1>2, <1>14, <1>29, <3>1
  <2>2. Weighed(rest, sizes') = Weighed(rest, sizes) - sizes[rest[Len(rest)]] + sizes'[rest[Len(rest)]]
    <3> DEFINE h == sizes'
    <3>1. SameButLast(rest, sizes, h)
      BY <1>32 DEF SameButLast
    <3>2. sizes \in [Task -> Nat] /\ h \in [Task -> Nat]
      BY <2>1
    <3> HIDE DEF h
    <3>3. Weighed(rest, h) = Weighed(rest, sizes) - sizes[rest[Len(rest)]] + h[rest[Len(rest)]]
      BY <2>1, <3>1, <3>2, WeighedReweighed
    <3> QED BY <3>3 DEF h
  <2> QED BY <1>16, <1>23, <1>28, <1>31, <2>2
<1>34. \A u \in Task : events'[u] # <<>> <=> u \in ToSet(order')
  <2>1. \A u \in Task : events[u] # <<>> <=> u \in ToSet(order)
    BY DEF LogInv, AccountingHonest
  <2>2. final # <<>>
    BY <1>21
  <2> TAKE u \in Task
  <2>3. CASE u = t
    BY <1>24, <1>27, <1>28, <2>2, <2>3
  <2>4. CASE u # t /\ u \in ToSet(gone)
    BY <1>24, <1>26, <1>28, <2>4
  <2>5. CASE u # t /\ u \notin ToSet(gone)
    <3>1. u \in ToSet(rest) <=> u \in ToSet(order)
      BY <1>9, <1>27, <2>5
    <3> QED BY <1>24, <1>28, <2>1, <2>5, <3>1
  <2> QED BY <2>3, <2>4, <2>5
<1>35. AccountingHonest'
  BY <1>30, <1>33, <1>34 DEF AccountingHonest
<1>36. LogType'
  <2>1. RetainedBy(order)' \in Nat
    <3>1. rest \in Seq(Task) /\ sizes' \in [Task -> Nat]
      BY <1>14, <1>29
    <3>2. Weighed(rest, sizes') \in Nat
      BY <3>1, WeighedType
    <3> QED BY <1>31, <3>2
  <2> QED BY <1>14, <1>24, <1>29, <1>33, <2>1 DEF LogType
<1>37. OrderOnce'
  <2>1. \A i, j \in 1..Len(rest) : rest[i] = rest[j] => i = j
    <3> TAKE i, j \in 1..Len(rest)
    <3>1. n + i \in 1..Len(keys) /\ n + j \in 1..Len(keys) /\ (n + i = n + j => i = j)
          /\ i \in 1..(Len(keys) - n) /\ j \in 1..(Len(keys) - n)
      BY <1>12, <1>13, <1>14
    <3> QED BY <1>9, <1>14, <3>1
  <2> QED BY <1>24, <2>1 DEF OrderOnce
<1>38. Len(order') <= MaxTasks
  BY <1>3, <1>12, <1>13, <1>14, <1>24
<1>39. \A u \in Task : Len(events'[u]) <= MaxEventsPerTask
  <2>1. \A u \in Task : Len(events[u]) <= MaxEventsPerTask
    BY DEF LogInv, CeilingsKept
  <2>2. Len(final) <= MaxEventsPerTask
    BY <1>3, <1>4, <1>6, <1>7, <1>20, <1>21
  <2> QED BY <1>3, <1>28, <2>1, <2>2
<1>40. totalBytes' <= MaxBytesTotal \/ (order' = <<t>> /\ Len(events'[t]) = 1)
  <2>1. totalBytes' = left - Freed(capped, excess)
    BY <1>1 DEF left, excess, capped
  <2>2. CASE left <= MaxBytesTotal
    BY <1>3, <1>18, <1>21, <2>1, <2>2
  <2>3. CASE left > MaxBytesTotal /\ cappedSize - Freed(capped, excess) <= MaxBytesTotal
    <3>1. left = cappedSize
      BY <1>2, <1>8, <1>17, <1>18, <1>19, <2>3
    <3> QED BY <2>1, <2>3, <3>1
  <2>4. CASE left > MaxBytesTotal /\ excess = Len(capped) - 1
    <3>1. Len(final) = 1
      BY <1>4, <1>6, <1>7, <1>21, <2>4
    <3>2. rest = <<t>>
      <4>1. Len(rest) = 1 /\ rest[1] = t /\ rest \in Seq(Task)
        BY <1>14, <1>16, <1>19, <2>4
      <4>2. <<t>> \in Seq(Task) /\ Len(<<t>>) = 1 /\ <<t>>[1] = t
        OBVIOUS
      <4>3. \A i \in 1..Len(rest) : rest[i] = <<t>>[i]
        BY <4>1, <4>2
      <4> QED BY <4>1, <4>2, <4>3, SeqEqual
    <3> QED BY <1>24, <1>28, <3>1, <3>2
  <2> QED BY <1>20, <2>2, <2>3, <2>4
<1>41. CeilingsKept'
  BY <1>38, <1>39, <1>40 DEF CeilingsKept
<1>42. Suffix(t, event)
  <2>1. over + excess \in 0..Len(events[t]) /\ over + excess \in Nat
        /\ Len(capped) - excess = Len(events[t]) + 1 - (over + excess)
    BY <1>4, <1>6, <1>7, <1>20 DEF bucket
  <2>2. ASSUME NEW i \in 1..(Len(capped) - excess)
        PROVE  final[i] = grown[over + excess + i]
    <3>1. /\ excess + i \in 1..Len(capped) /\ excess + i \in 1..(Len(grown) - over)
          /\ over + (excess + i) = over + excess + i
      BY <1>4, <1>6, <1>7, <1>20
    <3>2. final[i] = capped[excess + i]
      BY <1>21
    <3> QED BY <1>7, <3>1, <3>2
  <2>3. grown = Append(events[t], event)
    BY DEF grown, bucket
  <2> QED BY <1>21, <1>28, <2>1, <2>2, <2>3 DEF Suffix
<1>43. AllOrNothing(t)
  BY <1>28 DEF AllOrNothing
<1> QED BY <1>35, <1>36, <1>37, <1>41, <1>42, <1>43 DEF LogInv

------------------------------------------------------------------------------
(* The streams. `RunTo` is an unbroken run of sequence numbers up to n.    *)

RunTo(list, n) ==
  /\ Len(list) <= n
  /\ \A i \in 1..Len(list) : list[i].sequence = n - Len(list) + i

QueueEntry == [sequence : Nat, final : BOOLEAN]

ProducerType ==
  /\ saved \in 0..MaxSequence /\ emitted \in 0..saved /\ fanned \in 0..emitted
  /\ finished \in BOOLEAN /\ (~finished => saved < MaxSequence)
  /\ noise \in [Neighbour -> Nat]

ClientType ==
  /\ conn \in [Client -> Connected \cup {"off", "done"}]
  /\ queue \in [Client -> Seq(QueueEntry)]
  /\ resumeFrom \in [Client -> Nat] /\ cursor \in [Client -> Nat]
  /\ replay \in [Client -> Seq(Event)] /\ cut \in [Client -> BOOLEAN]
  /\ lastId \in [Client -> Nat] /\ covered \in [Client -> 0..MaxSequence]
  /\ delivered \in [Client -> SUBSET (1..MaxSequence)]
  /\ informed \in [Client -> BOOLEAN]

\* Whatever was evicted, a bucket runs up to the newest event of its task.
Runs ==
  /\ RunTo(events[Observed], emitted)
  /\ \A t \in Neighbour : RunTo(events[t], noise[t])

\* Where the replay of a client ends: the cursor it will have.
Reach(c) == IF conn[c] = "resuming" THEN CaughtUpTo(replay[c], resumeFrom[c]) ELSE cursor[c]
\* Where it starts: the first event of it has the next number.
Base(c) == Reach(c) - Len(replay[c])

Resuming == {"resuming", "replaying"}

\* What a connection has in hand lies ahead of what its client has seen.
Ahead(c) ==
  /\ lastId[c] <= emitted
  /\ conn[c] \in {"subscribed", "resuming"} => resumeFrom[c] = lastId[c]
  /\ conn[c] \in Resuming => /\ RunTo(replay[c], Reach(c)) /\ Reach(c) <= emitted
                             /\ lastId[c] <= Base(c)
  /\ conn[c] \in {"snapshot", "live"} => lastId[c] <= cursor[c]
  /\ cursor[c] <= emitted
  /\ \A i \in 1..Len(queue[c]) : queue[c][i].sequence <= fanned

StreamInv ==
  /\ LogInv /\ Runs /\ ProducerType /\ ClientType
  /\ \A c \in Client : Ahead(c)
  /\ FreshStreamInformed

\* The events a live queue holds are the newest; those up to Low came before
\* the connection, or have been taken from the queue.
Low(c) == fanned - Len(queue[c])

\* No event falls between what the client has, its replay, and its queue.
Joined(c) ==
  /\ GapFree(c)
  /\ conn[c] \in Connected => RunTo(queue[c], fanned)
  /\ conn[c] \in Connected \ {"subscribed"} => Low(c) <= Reach(c)
  /\ conn[c] = "resuming" => /\ resumeFrom[c] > 0
                             /\ Base(c) = lastId[c] \/ Base(c) <= Earliest(Observed) - 1
  /\ conn[c] = "replaying" => Base(c) = lastId[c] \/ (cut[c] /\ Base(c) <= covered[c])
  /\ conn[c] = "snapshot" => SnapshotSent(c) \/ cursor[c] = lastId[c]
  /\ conn[c] = "live" => cursor[c] = lastId[c]

GapInv == ~forgotten => /\ emitted > 0 => events[Observed] # <<>>
                        /\ \A c \in Client : Joined(c)
------------------------------------------------------------------------------
(* What the reads of the log return when the history is an unbroken run.   *)

LEMMA EndsFacts ==
  ASSUME NEW t, NEW n \in Nat, events[t] \in Seq(Event), RunTo(events[t], n)
  PROVE  /\ events[t] = <<>> => Earliest(t) = 0 /\ Latest(t) = 0
         /\ events[t] # <<>> => Earliest(t) = n - Len(events[t]) + 1 /\ Latest(t) = n
         /\ Earliest(t) \in 0..(n + 1) /\ Latest(t) \in 0..n
<1>1. events[t] = <<>> => Earliest(t) = 0 /\ Latest(t) = 0
  BY DEF Earliest, Latest
<1>2. ASSUME events[t] # <<>>
      PROVE  /\ Earliest(t) = n - Len(events[t]) + 1 /\ Latest(t) = n
             /\ Earliest(t) \in 0..(n + 1) /\ Latest(t) \in 0..n
  <2> DEFINE p == events[t]
             l == Len(p)
  <2>1. l \in Nat /\ l >= 1 /\ l <= n
    BY <1>2 DEF RunTo
  <2>2. Head(p) = p[1] /\ Last(p) = p[l]
    BY <1>2 DEF Last
  <2>3. \A i \in 1..l : p[i].sequence = n - l + i
    BY DEF RunTo
  <2> HIDE DEF l
  <2>4. p[1].sequence = n - l + 1 /\ p[l].sequence = n - l + l
    BY <2>1, <2>3
  <2>5. Earliest(t) = p[1].sequence /\ Latest(t) = p[l].sequence
    BY <1>2, <2>2 DEF Earliest, Latest
  <2> HIDE DEF p
  <2>6. Earliest(t) = n - l + 1 /\ Latest(t) = n
    BY <2>1, <2>4, <2>5
  <2>7. Earliest(t) \in 0..(n + 1) /\ Latest(t) \in 0..n
    BY <2>1, <2>6
  <2>8. l = Len(events[t])
    BY DEF l, p
  <2> QED BY <2>6, <2>7, <2>8
<1>3. 0 \in 0..(n + 1) /\ 0 \in 0..n
  OBVIOUS
<1> QED BY <1>1, <1>2, <1>3

LEMMA ReplayFacts ==
  ASSUME NEW t, NEW n \in Nat, NEW after \in 0..n, events[t] \in Seq(Event), RunTo(events[t], n)
  PROVE  LET missed == Replay(t, after) IN
           /\ missed \in Seq(Event) /\ RunTo(missed, n)
           /\ n - Len(missed) >= after
           /\ n - Len(missed) = after \/ n - Len(missed) = n - Len(events[t])
           /\ missed = <<>> => n = after \/ events[t] = <<>>
<1> DEFINE p == events[t]
           l == Len(p)
           kept == {e \in ToSet(p) : e.sequence > after}
           k == IF n - l >= after THEN 0 ELSE after - (n - l)
           missed == Among(p, kept)
<1>1. l \in Nat /\ l <= n /\ p \in Seq(Event) /\ k \in 0..l
  BY DEF RunTo
<1>2. \A i \in 1..l : p[i].sequence = n - l + i
  BY DEF RunTo
<1>3. \A i \in 1..l : p[i] \in ToSet(p)
  BY <1>1, LenProperties DEF ToSet
<1>4. KeptBeyond(p, kept, k)
  <2> SUFFICES ASSUME NEW i \in 1..Len(p)
               PROVE  p[i] \in kept <=> i > k
    BY DEF KeptBeyond
  <2>1. p[i] \in kept <=> n - l + i > after
    BY <1>2, <1>3
  <2>2. n - l + i > after <=> i > k
    <3> HIDE DEF l
    <3>1. i \in Nat /\ i >= 1
      OBVIOUS
    <3> QED BY <1>1, <3>1
  <2> QED BY <2>1, <2>2
<1> HIDE DEF kept, k
<1>5. /\ missed \in Seq(Event) /\ Len(missed) = l - k
      /\ \A i \in 1..(l - k) : missed[i] = p[k + i]
  BY <1>1, <1>4, AmongSuffix
<1> HIDE DEF missed
<1>6. RunTo(missed, n)
  <2>1. Len(missed) <= n
    BY <1>1, <1>5
  <2>2. ASSUME NEW i \in 1..Len(missed)
        PROVE  missed[i].sequence = n - Len(missed) + i
    <3> HIDE DEF p, l
    <3>1. i \in 1..(l - k) /\ k + i \in 1..l /\ n - l + (k + i) = n - Len(missed) + i
      BY <1>1, <1>5
    <3>2. missed[i] = p[k + i]
      BY <1>5, <3>1
    <3> QED BY <1>2, <3>1, <3>2
  <2> QED BY <2>1, <2>2 DEF RunTo
<1>7. /\ n - Len(missed) >= after
      /\ n - Len(missed) = after \/ n - Len(missed) = n - Len(events[t])
  <2> HIDE DEF p, l
  <2>1. n - Len(missed) = n - l + k
    BY <1>1, <1>5
  <2>2. n - l + k >= after /\ (n - l + k = after \/ n - l + k = n - l)
    BY <1>1 DEF k
  <2> QED BY <2>1, <2>2 DEF l, p
<1>8. missed = <<>> => n = after \/ events[t] = <<>>
  <2> HAVE missed = <<>>
  <2>1. Len(missed) = 0
    OBVIOUS
  <2>2. l = 0 => p = <<>>
    BY <1>1
  <2>3. n = after \/ l = 0
    <3> HIDE DEF p, l
    <3> QED BY <1>1, <1>5, <2>1 DEF k
  <2> QED BY <2>2, <2>3
<1>9. Replay(t, after) = missed
  BY DEF Replay, missed, kept
<1> QED BY <1>5, <1>6, <1>7, <1>8, <1>9

(* The history stays an unbroken run when the next event is appended.      *)
LEMMA RunStep ==
  ASSUME NEW t, NEW n \in Nat, NEW event \in Event, event.sequence = n + 1,
         events[t] \in Seq(Event), RunTo(events[t], n), Suffix(t, event)
  PROVE  RunTo(events'[t], n + 1) /\ Len(events'[t]) >= 1 /\ Len(events'[t]) <= Len(events[t]) + 1
<1> DEFINE p == events[t]
           l == Len(p)
           q == events'[t]
<1>1. l \in Nat /\ l <= n /\ p \in Seq(Event)
  BY DEF RunTo
<1>2. \A i \in 1..l : p[i].sequence = n - l + i
  BY DEF RunTo
<1>3. PICK k \in 0..l : /\ Len(q) = l + 1 - k
                        /\ \A i \in 1..(l + 1 - k) : q[i] = Append(p, event)[k + i]
  BY DEF Suffix
<1>4. /\ Append(p, event)[l + 1] = event
      /\ \A i \in 1..l : Append(p, event)[i] = p[i]
  BY <1>1, GrownFacts
<1> HIDE DEF p, l, q
<1>5. Len(q) <= n + 1 /\ Len(q) >= 1 /\ Len(q) <= l + 1
  BY <1>1, <1>3
<1>6. ASSUME NEW i \in 1..Len(q)
      PROVE  q[i].sequence = (n + 1) - Len(q) + i
  <2>1. i \in 1..(l + 1 - k) /\ k + i \in 1..(l + 1)
        /\ (n + 1) - Len(q) + i = n - l + (k + i)
    BY <1>1, <1>3
  <2>2. q[i] = Append(p, event)[k + i]
    BY <1>3, <2>1
  <2>3. CASE k + i = l + 1
    <3>1. q[i].sequence = n + 1
      BY <1>4, <2>2, <2>3
    <3>2. n - l + (k + i) = n + 1
      BY <1>1, <2>3
    <3> QED BY <2>1, <3>1, <3>2
  <2>4. CASE k + i \in 1..l
    <3>1. q[i] = p[k + i]
      BY <1>4, <2>2, <2>4
    <3> QED BY <1>2, <2>1, <2>4, <3>1
  <2>5. k + i = l + 1 \/ k + i \in 1..l
    BY <1>1, <2>1
  <2> QED BY <2>3, <2>4, <2>5
<1>7. RunTo(q, n + 1)
  BY <1>5, <1>6 DEF RunTo
<1> QED BY <1>5, <1>7 DEF p, l, q

------------------------------------------------------------------------------
(* The steps that write to the log.                                        *)

LEMMA BoundsType ==
  /\ MaxSequence \in Nat \ {0} /\ QueueSize \in Nat \ {0} /\ Size \subseteq Nat /\ Observed \in Task
BY TaskStreamAssumption

LEMMA LogStays ==
  ASSUME LogInv, Runs, ProducerType, UNCHANGED <<logVars, producer, noise>>
  PROVE  LogInv' /\ Runs' /\ ProducerType'
<1>1. /\ events' = events /\ order' = order /\ sizes' = sizes /\ totalBytes' = totalBytes
      /\ saved' = saved /\ emitted' = emitted /\ fanned' = fanned /\ finished' = finished
      /\ noise' = noise
  BY DEF logVars, producer
<1>2. LogType' /\ OrderOnce'
  BY <1>1 DEF LogInv, LogType, OrderOnce
<1>3. AccountingHonest'
  BY <1>1 DEF LogInv, AccountingHonest, RetainedBy
<1>4. CeilingsKept'
  BY <1>1 DEF LogInv, CeilingsKept
<1>5. Runs'
  BY <1>1 DEF Runs
<1>6. ProducerType'
  BY <1>1 DEF ProducerType
<1> QED BY <1>2, <1>3, <1>4, <1>5, <1>6 DEF LogInv

LEMMA EmitAppendLog ==
  ASSUME StreamInv, NEW size \in Size, EmitAppend(size)
  PROVE  /\ LogInv' /\ Runs' /\ ProducerType' /\ events'[Observed] # <<>>
         /\ Earliest(Observed)' >= Earliest(Observed)
<1> DEFINE event == [sequence |-> emitted + 1, final |-> finished, size |-> size]
<1>1. /\ emitted < saved /\ emitted' = emitted + 1 /\ Record(Observed, event)
      /\ saved' = saved /\ fanned' = fanned /\ finished' = finished /\ noise' = noise
  BY DEF EmitAppend, Due
<1>2. LogInv /\ Runs /\ ProducerType /\ emitted \in Nat /\ finished \in BOOLEAN
  BY DEF StreamInv, ProducerType
<1>3. event \in Event /\ event.sequence = emitted + 1
  BY <1>2, BoundsType DEF Event
<1> HIDE DEF event
<1>4. LogInv' /\ Suffix(Observed, event) /\ AllOrNothing(Observed)
  BY <1>1, <1>2, <1>3, BoundsType, RecordFacts
<1>5. events[Observed] \in Seq(Event) /\ RunTo(events[Observed], emitted)
  BY <1>2, BoundsType DEF LogInv, LogType, Runs
<1>6. RunTo(events'[Observed], emitted + 1) /\ Len(events'[Observed]) >= 1
      /\ Len(events'[Observed]) <= Len(events[Observed]) + 1
  BY <1>2, <1>3, <1>4, <1>5, RunStep
<1>7. \A t \in Neighbour : RunTo(events'[t], noise[t])
  <2> TAKE t \in Neighbour
  <2>1. RunTo(events[t], noise[t]) /\ noise[t] \in Nat
    BY <1>2 DEF Runs, ProducerType
  <2>2. RunTo(<<>>, noise[t])
    BY <2>1 DEF RunTo
  <2>3. events'[t] = events[t] \/ events'[t] = <<>>
    BY <1>4 DEF AllOrNothing, Neighbour
  <2> QED BY <2>1, <2>2, <2>3
<1>8. Runs'
  BY <1>1, <1>6, <1>7 DEF Runs
<1>9. ProducerType'
  BY <1>1, <1>2 DEF ProducerType
<1>10. events'[Observed] \in Seq(Event) /\ events'[Observed] # <<>>
  BY <1>4, <1>6, BoundsType DEF LogInv, LogType
<1>11. Earliest(Observed)' >= Earliest(Observed)
  <2> DEFINE p == events[Observed]
             q == events'[Observed]
  <2>1. Earliest(Observed)' = Head(q).sequence
    BY <1>10 DEF Earliest
  <2>2. Head(q).sequence = (emitted + 1) - Len(q) + 1
    <3>1. Len(q) \in Nat /\ Len(q) >= 1 /\ Head(q) = q[1]
      BY <1>6, <1>10
    <3>2. q[1].sequence = (emitted + 1) - Len(q) + 1
      BY <1>6, <3>1 DEF RunTo
    <3> QED BY <3>1, <3>2
  <2>3. /\ p = <<>> => Earliest(Observed) = 0
        /\ p # <<>> => Earliest(Observed) = emitted - Len(p) + 1
    BY <1>2, <1>5, EndsFacts
  <2>4. Len(q) <= Len(p) + 1 /\ Len(q) <= emitted + 1 /\ Len(p) \in Nat /\ Len(q) \in Nat
    BY <1>5, <1>6, <1>10 DEF RunTo
  <2> HIDE DEF p, q
  <2> QED BY <1>2, <2>1, <2>2, <2>3, <2>4
<1> QED BY <1>4, <1>8, <1>9, <1>10, <1>11

LEMMA OtherTaskEmitsLog ==
  ASSUME StreamInv, NEW t \in Neighbour, NEW size \in Size, OtherTaskEmits(t, size)
  PROVE  /\ LogInv' /\ Runs' /\ ProducerType'
         /\ events'[Observed] = events[Observed] \/ events'[Observed] = <<>>
<1> DEFINE event == [sequence |-> noise[t] + 1, final |-> FALSE, size |-> size]
<1>1. /\ noise' = [noise EXCEPT ![t] = @ + 1] /\ Record(t, event)
      /\ saved' = saved /\ emitted' = emitted /\ fanned' = fanned /\ finished' = finished
  BY DEF OtherTaskEmits, producer
<1>2. /\ LogInv /\ Runs /\ ProducerType /\ noise \in [Neighbour -> Nat] /\ noise[t] \in Nat
      /\ t \in Task /\ t # Observed /\ emitted \in Nat
  BY DEF StreamInv, ProducerType, Neighbour
<1>3. event \in Event /\ event.sequence = noise[t] + 1
  BY <1>2, BoundsType DEF Event
<1> HIDE DEF event
<1>4. LogInv' /\ Suffix(t, event) /\ AllOrNothing(t)
  BY <1>1, <1>2, <1>3, RecordFacts
<1>5. events[t] \in Seq(Event) /\ RunTo(events[t], noise[t])
  BY <1>2 DEF LogInv, LogType, Runs
<1>6. RunTo(events'[t], noise[t] + 1)
  BY <1>2, <1>3, <1>4, <1>5, RunStep
<1>7. events'[Observed] = events[Observed] \/ events'[Observed] = <<>>
  BY <1>2, <1>4, BoundsType DEF AllOrNothing
<1>8. RunTo(events'[Observed], emitted)
  <2>1. RunTo(<<>>, emitted)
    BY <1>2 DEF RunTo
  <2>2. RunTo(events[Observed], emitted)
    BY <1>2 DEF Runs
  <2> QED BY <1>7, <2>1, <2>2
<1>9. \A u \in Neighbour : RunTo(events'[u], noise'[u])
  <2> TAKE u \in Neighbour
  <2>1. CASE u = t
    <3>1. noise'[u] = noise[t] + 1
      BY <1>1, <1>2, <2>1
    <3> QED BY <1>6, <2>1, <3>1
  <2>2. CASE u # t
    <3>1. RunTo(events[u], noise[u]) /\ noise[u] \in Nat /\ noise'[u] = noise[u]
      BY <1>1, <1>2, <2>2 DEF Runs
    <3>2. RunTo(<<>>, noise[u])
      BY <3>1 DEF RunTo
    <3>3. events'[u] = events[u] \/ events'[u] = <<>>
      BY <1>4, <2>2 DEF AllOrNothing, Neighbour
    <3> QED BY <3>1, <3>2, <3>3
  <2> QED BY <2>1, <2>2
<1>10. Runs'
  BY <1>1, <1>8, <1>9 DEF Runs
<1>11. ProducerType'
  BY <1>1, <1>2 DEF ProducerType
<1> QED BY <1>4, <1>7, <1>10, <1>11

------------------------------------------------------------------------------
(* The steps of one client's connection. The others keep what they hold.   *)

Held(c) ==
  <<conn[c], queue[c], resumeFrom[c], cursor[c], replay[c], cut[c],
    lastId[c], delivered[c], covered[c], informed[c]>>

\* Has the log kept a place for the streamed task?
Retained == emitted > 0 => events[Observed] # <<>>

Progress(c) ==
  /\ UNCHANGED <<logVars, producer, noise, forgotten>>
  /\ ClientType'
  /\ \A d \in Client \ {c} : Held(d)' = Held(d)
  /\ Ahead(c)'
  /\ conn'[c] = "done" /\ resumeFrom'[c] = 0 => informed'[c]
  /\ lastId'[c] >= lastId[c]
  /\ Retained /\ Joined(c) => Joined(c)'

LEMMA HeldIsKept ==
  ASSUME NEW d, Held(d)' = Held(d)
  PROVE  /\ conn'[d] = conn[d] /\ queue'[d] = queue[d] /\ resumeFrom'[d] = resumeFrom[d]
         /\ cursor'[d] = cursor[d] /\ replay'[d] = replay[d] /\ cut'[d] = cut[d]
         /\ lastId'[d] = lastId[d] /\ delivered'[d] = delivered[d]
         /\ covered'[d] = covered[d] /\ informed'[d] = informed[d]
BY DEF Held

LEMMA ClientFacts ==
  ASSUME StreamInv, NEW c \in Client
  PROVE  /\ emitted \in Nat /\ fanned \in Nat /\ saved \in Nat /\ finished \in BOOLEAN
         /\ fanned <= emitted /\ emitted <= saved /\ saved <= MaxSequence
         /\ conn[c] \in Connected \cup {"off", "done"} /\ queue[c] \in Seq(QueueEntry)
         /\ resumeFrom[c] \in Nat /\ cursor[c] \in Nat /\ replay[c] \in Seq(Event)
         /\ cut[c] \in BOOLEAN /\ lastId[c] \in Nat /\ covered[c] \in Nat
         /\ informed[c] \in BOOLEAN /\ delivered[c] \in SUBSET (1..MaxSequence)
         /\ Ahead(c) /\ ClientType /\ Len(queue[c]) \in Nat /\ Len(replay[c]) \in Nat
<1>1. ProducerType /\ ClientType /\ Ahead(c)
  BY DEF StreamInv
<1> QED BY <1>1, BoundsType DEF ProducerType, ClientType

LEMMA ObservedFacts ==
  ASSUME StreamInv
  PROVE  /\ events[Observed] \in Seq(Event) /\ RunTo(events[Observed], emitted) /\ emitted \in Nat
         /\ events[Observed] = <<>> => Earliest(Observed) = 0 /\ Latest(Observed) = 0
         /\ events[Observed] # <<>> => /\ Earliest(Observed) = emitted - Len(events[Observed]) + 1
                                       /\ Latest(Observed) = emitted
         /\ Earliest(Observed) \in 0..(emitted + 1) /\ Latest(Observed) \in 0..emitted
<1>1. events[Observed] \in Seq(Event) /\ RunTo(events[Observed], emitted) /\ emitted \in Nat
  BY BoundsType DEF StreamInv, LogInv, LogType, Runs, ProducerType
<1> QED BY <1>1, EndsFacts

LEMMA ConnectStep ==
  ASSUME StreamInv, NEW c \in Client, Connect(c)
  PROVE  Progress(c)
<1>1. /\ conn[c] = "off"
      /\ conn' = [conn EXCEPT ![c] = "subscribed"]
      /\ resumeFrom' = [resumeFrom EXCEPT ![c] = lastId[c]]
      /\ queue' = [queue EXCEPT ![c] = <<>>]
      /\ cursor' = cursor /\ replay' = replay /\ cut' = cut /\ lastId' = lastId
      /\ delivered' = delivered /\ covered' = covered /\ informed' = informed
      /\ UNCHANGED <<logVars, producer, noise, forgotten>>
  BY DEF Connect, received
<1>2. emitted' = emitted /\ fanned' = fanned
  BY <1>1 DEF producer
<1>3. \A d \in Client \ {c} : Held(d)' = Held(d)
  BY <1>1, ClientFacts DEF Held, ClientType
<1>4. ClientType'
  BY <1>1, ClientFacts DEF ClientType, Connected, Reading
<1>5. /\ conn'[c] = "subscribed" /\ resumeFrom'[c] = lastId[c] /\ queue'[c] = <<>>
      /\ cursor'[c] = cursor[c] /\ lastId'[c] = lastId[c]
      /\ delivered'[c] = delivered[c] /\ covered'[c] = covered[c]
  BY <1>1, ClientFacts DEF ClientType
<1>6. Ahead(c)'
  BY <1>2, <1>5, ClientFacts DEF Ahead, Resuming
<1>7. Joined(c) => Joined(c)'
  <2>1. RunTo(queue'[c], fanned')
    BY <1>2, <1>5, ClientFacts DEF RunTo
  <2>2. GapFree(c) => GapFree(c)'
    BY <1>5 DEF GapFree
  <2> QED BY <1>5, <2>1, <2>2 DEF Joined
<1> QED BY <1>1, <1>3, <1>4, <1>5, <1>6, <1>7, ClientFacts DEF Progress

LEMMA ReadLatestStep ==
  ASSUME StreamInv, NEW c \in Client, ReadLatest(c)
  PROVE  Progress(c)
<1>1. /\ conn[c] = "subscribed" /\ resumeFrom[c] = 0
      /\ conn' = [conn EXCEPT ![c] = "snapshot"]
      /\ cursor' = [cursor EXCEPT ![c] = Latest(Observed)]
      /\ replay' = [replay EXCEPT ![c] = <<>>]
      /\ cut' = [cut EXCEPT ![c] = FALSE]
      /\ resumeFrom' = resumeFrom /\ queue' = queue /\ lastId' = lastId
      /\ delivered' = delivered /\ covered' = covered /\ informed' = informed
      /\ UNCHANGED <<logVars, producer, noise, forgotten>>
  BY DEF ReadLatest, received
<1>2. emitted' = emitted /\ fanned' = fanned
  BY <1>1 DEF producer
<1>3. \A d \in Client \ {c} : Held(d)' = Held(d)
  BY <1>1, ClientFacts DEF Held, ClientType
<1>4. ClientType'
  BY <1>1, ClientFacts, ObservedFacts DEF ClientType, Connected, Reading
<1>5. /\ conn'[c] = "snapshot" /\ resumeFrom'[c] = 0 /\ queue'[c] = queue[c]
      /\ cursor'[c] = Latest(Observed) /\ lastId'[c] = lastId[c]
      /\ delivered'[c] = delivered[c] /\ covered'[c] = covered[c]
  BY <1>1, ClientFacts DEF ClientType
<1>6. lastId[c] = 0 /\ Latest(Observed) \in 0..emitted
  BY <1>1, ClientFacts, ObservedFacts DEF Ahead
<1>7. Ahead(c)'
  BY <1>2, <1>5, <1>6, ClientFacts DEF Ahead, Resuming
<1>8. Retained /\ Joined(c) => Joined(c)'
  <2> SUFFICES ASSUME Retained, Joined(c)
               PROVE  Joined(c)'
    OBVIOUS
  <2>1. RunTo(queue'[c], fanned')
    BY <1>1, <1>2, <1>5 DEF Joined, Connected, Reading
  <2>2. GapFree(c)'
    BY <1>5 DEF GapFree, Joined
  <2>3. Low(c) <= Latest(Observed)
    BY ClientFacts, ObservedFacts DEF Low, Retained
  <2>4. Low(c)' <= Reach(c)'
    BY <1>2, <1>5, <2>3 DEF Low, Reach
  <2>5. SnapshotSent(c)'
    BY <1>5 DEF SnapshotSent
  <2> QED BY <1>5, <2>1, <2>2, <2>4, <2>5 DEF Joined
<1> QED BY <1>1, <1>3, <1>4, <1>5, <1>7, <1>8, ClientFacts DEF Progress

LEMMA ReadHistoryStep ==
  ASSUME StreamInv, NEW c \in Client, ReadHistory(c)
  PROVE  Progress(c)
<1> DEFINE missed == Replay(Observed, resumeFrom[c])
<1>1. /\ conn[c] = "subscribed" /\ resumeFrom[c] > 0
      /\ conn' = [conn EXCEPT ![c] = "resuming"]
      /\ replay' = [replay EXCEPT ![c] = missed]
      /\ cursor' = cursor /\ cut' = cut
      /\ resumeFrom' = resumeFrom /\ queue' = queue /\ lastId' = lastId
      /\ delivered' = delivered /\ covered' = covered /\ informed' = informed
      /\ UNCHANGED <<logVars, producer, noise, forgotten>>
  BY DEF ReadHistory, received
<1>2. emitted' = emitted /\ fanned' = fanned /\ events' = events
  BY <1>1 DEF producer, logVars
<1>3. \A d \in Client \ {c} : Held(d)' = Held(d)
  BY <1>1, ClientFacts DEF Held, ClientType
<1>4. resumeFrom[c] = lastId[c] /\ resumeFrom[c] \in 0..emitted
  BY <1>1, ClientFacts DEF Ahead
<1>5. /\ missed \in Seq(Event) /\ RunTo(missed, emitted)
      /\ emitted - Len(missed) >= resumeFrom[c]
      /\ \/ emitted - Len(missed) = resumeFrom[c]
         \/ emitted - Len(missed) = emitted - Len(events[Observed])
      /\ missed = <<>> => emitted = resumeFrom[c] \/ events[Observed] = <<>>
  <2>1. events[Observed] \in Seq(Event) /\ RunTo(events[Observed], emitted) /\ emitted \in Nat
    BY ObservedFacts
  <2> QED BY <1>4, <2>1, ReplayFacts
<1> HIDE DEF missed
<1>6. ClientType'
  BY <1>1, <1>5, ClientFacts DEF ClientType, Connected, Reading
<1>7. /\ conn'[c] = "resuming" /\ resumeFrom'[c] = resumeFrom[c] /\ queue'[c] = queue[c]
      /\ replay'[c] = missed /\ cursor'[c] = cursor[c] /\ lastId'[c] = lastId[c]
      /\ delivered'[c] = delivered[c] /\ covered'[c] = covered[c]
  BY <1>1, ClientFacts DEF ClientType
<1>8. Reach(c)' = CaughtUpTo(missed, resumeFrom[c])
  BY <1>7 DEF Reach
<1>9. /\ missed = <<>> => Reach(c)' = resumeFrom[c] /\ Len(missed) = 0
      /\ missed # <<>> => Reach(c)' = emitted /\ Len(missed) >= 1
      /\ Len(missed) \in Nat
  <2>1. missed # <<>> => Last(missed) = missed[Len(missed)] /\ Len(missed) >= 1
    BY <1>5 DEF Last
  <2>2. missed # <<>> => missed[Len(missed)].sequence = emitted
    <3> HAVE missed # <<>>
    <3>1. Len(missed) \in Nat /\ Len(missed) \in 1..Len(missed)
      BY <1>5, <2>1
    <3>2. missed[Len(missed)].sequence = emitted - Len(missed) + Len(missed)
      BY <1>5, <3>1 DEF RunTo
    <3> QED BY <3>1, <3>2, ClientFacts
  <2> QED BY <1>5, <1>8, <2>1, <2>2 DEF CaughtUpTo
<1>10. Base(c)' = Reach(c)' - Len(missed)
  BY <1>7 DEF Base
<1>11. /\ RunTo(missed, Reach(c)') /\ Reach(c)' <= emitted /\ Reach(c)' \in Nat
       /\ lastId[c] <= Base(c)'
  <2>1. CASE missed = <<>>
    <3>1. RunTo(<<>>, resumeFrom[c])
      BY <1>4 DEF RunTo
    <3> QED BY <1>4, <1>9, <1>10, <2>1, <3>1, ClientFacts
  <2>2. CASE missed # <<>>
    BY <1>4, <1>5, <1>9, <1>10, <2>2, ClientFacts
  <2> QED BY <2>1, <2>2
<1>12. Ahead(c)'
  BY <1>2, <1>4, <1>7, <1>11, ClientFacts DEF Ahead, Resuming
<1>13. Retained /\ Joined(c) => Joined(c)'
  <2> SUFFICES ASSUME Retained, Joined(c)
               PROVE  Joined(c)'
    OBVIOUS
  <2>1. RunTo(queue'[c], fanned')
    BY <1>1, <1>2, <1>7 DEF Joined, Connected, Reading
  <2>2. GapFree(c)'
    BY <1>7 DEF GapFree, Joined
  <2>3. Low(c)' <= fanned /\ fanned <= emitted /\ Low(c)' \in Int
    BY <1>2, <1>7, ClientFacts DEF Low
  <2>4. Low(c)' <= Reach(c)' /\ (Base(c)' = lastId[c] \/ Base(c)' <= Earliest(Observed) - 1)
    <3>1. CASE missed = <<>>
      <4>1. emitted = resumeFrom[c]
        BY <1>1, <1>4, <1>5, <3>1, ClientFacts DEF Retained
      <4> QED BY <1>4, <1>9, <1>10, <2>3, <3>1, <4>1, ClientFacts
    <3>2. CASE missed # <<>>
      <4>1. Low(c)' <= Reach(c)'
        BY <1>2, <1>7, <1>9, <2>3, <3>2, ClientFacts DEF Low
      <4>2. CASE emitted - Len(missed) = resumeFrom[c]
        BY <1>4, <1>9, <1>10, <3>2, <4>1, <4>2
      <4>3. CASE emitted - Len(missed) = emitted - Len(events[Observed])
        <5>1. events[Observed] # <<>>
          BY <1>5, <1>9, <3>2, <4>3, ClientFacts
        <5> QED BY <1>9, <1>10, <3>2, <4>1, <4>3, <5>1, ClientFacts, ObservedFacts
      <4> QED BY <1>5, <4>2, <4>3
    <3> QED BY <3>1, <3>2
  <2>5. Earliest(Observed)' = Earliest(Observed)
    BY <1>2 DEF Earliest
  <2> QED BY <1>1, <1>7, <2>1, <2>2, <2>4, <2>5 DEF Joined
<1> QED BY <1>1, <1>3, <1>6, <1>7, <1>12, <1>13, ClientFacts DEF Progress

LEMMA ReadEarliestStep ==
  ASSUME StreamInv, NEW c \in Client, ReadEarliest(c)
  PROVE  Progress(c)
<1> DEFINE truncated == Truncated(Observed, resumeFrom[c])
<1>1. /\ conn[c] = "resuming"
      /\ cut' = [cut EXCEPT ![c] = truncated]
      /\ cursor' = [cursor EXCEPT ![c] = CaughtUpTo(replay[c], resumeFrom[c])]
      /\ covered' = IF truncated THEN [covered EXCEPT ![c] = Earliest(Observed) - 1] ELSE covered
      /\ conn' = [conn EXCEPT ![c] = IF truncated \/ replay[c] # <<>>
                                     THEN "replaying" ELSE "snapshot"]
      /\ resumeFrom' = resumeFrom /\ queue' = queue /\ replay' = replay /\ lastId' = lastId
      /\ delivered' = delivered /\ informed' = informed
      /\ UNCHANGED <<logVars, producer, noise, forgotten>>
  BY DEF ReadEarliest
<1>2. emitted' = emitted /\ fanned' = fanned /\ events' = events
  BY <1>1 DEF producer, logVars
<1>3. \A d \in Client \ {c} : Held(d)' = Held(d)
  BY <1>1, ClientFacts DEF Held, ClientType
<1>4. Reach(c) = CaughtUpTo(replay[c], resumeFrom[c])
  BY <1>1 DEF Reach
<1>5. /\ resumeFrom[c] = lastId[c] /\ RunTo(replay[c], Reach(c)) /\ Reach(c) <= emitted
      /\ lastId[c] <= Base(c) /\ Base(c) = Reach(c) - Len(replay[c])
      /\ replay[c] = <<>> => Reach(c) = lastId[c] /\ Len(replay[c]) = 0
  BY <1>1, <1>4, ClientFacts DEF Ahead, Resuming, Base, CaughtUpTo
<1>6. Reach(c) \in Nat
  <2>1. replay[c] # <<>> => Last(replay[c]) \in Event
    BY ClientFacts DEF Last
  <2> QED BY <1>4, <2>1, ClientFacts DEF CaughtUpTo, Event
<1>7. truncated \in BOOLEAN /\ (truncated => Earliest(Observed) - 1 \in 0..emitted
                                             /\ Earliest(Observed) - 1 > lastId[c])
      /\ (~truncated => Earliest(Observed) - 1 <= lastId[c])
  BY <1>5, ObservedFacts, ClientFacts DEF Truncated
<1> HIDE DEF truncated
<1>8. ClientType'
  <2>1. ClientType /\ (truncated => Earliest(Observed) - 1 \in 0..MaxSequence)
    BY <1>7, ClientFacts, BoundsType
  <2> QED BY <1>1, <1>4, <1>6, <1>7, <2>1 DEF ClientType, Connected, Reading
<1>9. /\ conn'[c] = IF truncated \/ replay[c] # <<>> THEN "replaying" ELSE "snapshot"
      /\ resumeFrom'[c] = resumeFrom[c] /\ queue'[c] = queue[c]
      /\ replay'[c] = replay[c] /\ cursor'[c] = Reach(c) /\ lastId'[c] = lastId[c]
      /\ delivered'[c] = delivered[c] /\ cut'[c] = truncated
      /\ covered'[c] = IF truncated THEN Earliest(Observed) - 1 ELSE covered[c]
  BY <1>1, <1>4, ClientFacts DEF ClientType
<1>10. Reach(c)' = Reach(c) /\ Base(c)' = Base(c)
  <2>1. Reach(c)' = cursor'[c]
    BY <1>9 DEF Reach
  <2> QED BY <1>9, <2>1 DEF Base
<1>11. Ahead(c)'
  <2>1. \A i \in 1..Len(queue[c]) : queue[c][i].sequence <= fanned
    BY ClientFacts DEF Ahead
  <2> QED BY <1>2, <1>5, <1>6, <1>9, <1>10, <2>1, ClientFacts DEF Ahead, Resuming
<1>12. Retained /\ Joined(c) => Joined(c)'
  <2> SUFFICES ASSUME Retained, Joined(c)
               PROVE  Joined(c)'
    OBVIOUS
  <2>1. RunTo(queue'[c], fanned')
    BY <1>1, <1>2, <1>9 DEF Joined, Connected, Reading
  <2>2. GapFree(c)'
    <3>1. GapFree(c)
      BY DEF Joined
    <3>2. CASE truncated
      BY <1>7, <1>9, <3>2, ClientFacts, ObservedFacts DEF GapFree
    <3>3. CASE ~truncated
      BY <1>9, <3>1, <3>3 DEF GapFree
    <3> QED BY <3>2, <3>3
  <2>3. Low(c)' <= Reach(c)'
    <3>1. Low(c) <= Reach(c)
      BY <1>1 DEF Joined, Connected, Reading
    <3> QED BY <1>2, <1>9, <1>10, <3>1 DEF Low
  <2>4. Base(c) = lastId[c] \/ Base(c) <= Earliest(Observed) - 1
    BY <1>1 DEF Joined
  <2>5. CASE truncated
    <3>1. Base(c) <= Earliest(Observed) - 1
      BY <1>5, <1>6, <1>7, <2>4, <2>5, ClientFacts, ObservedFacts
    <3> QED BY <1>9, <1>10, <2>1, <2>2, <2>3, <2>5, <3>1 DEF Joined
  <2>6. CASE ~truncated
    <3>1. Base(c) = lastId[c]
      <4>1. /\ Base(c) \in Int /\ lastId[c] \in Int /\ Earliest(Observed) \in Int
            /\ lastId[c] <= Base(c) /\ Earliest(Observed) - 1 <= lastId[c]
        BY <1>5, <1>6, <1>7, <2>6, ClientFacts, ObservedFacts
      <4> QED BY <2>4, <4>1
    <3>2. CASE replay[c] # <<>>
      BY <1>9, <1>10, <2>1, <2>2, <2>3, <2>6, <3>1, <3>2 DEF Joined
    <3>3. CASE replay[c] = <<>>
      BY <1>5, <1>9, <2>1, <2>2, <2>3, <2>6, <3>3 DEF Joined
    <3> QED BY <3>2, <3>3
  <2> QED BY <1>7, <2>5, <2>6
<1>13. conn'[c] # "done" /\ lastId'[c] >= lastId[c]
  BY <1>9, ClientFacts
<1> QED BY <1>1, <1>3, <1>8, <1>11, <1>12, <1>13 DEF Progress

LEMMA SendReplayStep ==
  ASSUME StreamInv, NEW c \in Client, SendReplay(c)
  PROVE  Progress(c)
<1>1. /\ conn[c] = "replaying" /\ Reach(c) = cursor[c] /\ Base(c) = cursor[c] - Len(replay[c])
      /\ RunTo(replay[c], cursor[c]) /\ cursor[c] <= emitted /\ lastId[c] <= Base(c)
  BY ClientFacts DEF SendReplay, Reach, Base, Ahead, Resuming
<1>2. /\ queue' = queue /\ resumeFrom' = resumeFrom /\ cursor' = cursor /\ cut' = cut
      /\ UNCHANGED <<logVars, producer, noise, forgotten>>
  BY DEF SendReplay
<1>3. emitted' = emitted /\ fanned' = fanned /\ events' = events
  BY <1>2 DEF producer, logVars
<1>4. CASE replay[c] = <<>>
  <2>1. /\ conn' = [conn EXCEPT ![c] = "snapshot"] /\ replay' = replay /\ lastId' = lastId
        /\ delivered' = delivered /\ covered' = covered /\ informed' = informed
    BY <1>4 DEF SendReplay, received
  <2>2. \A d \in Client \ {c} : Held(d)' = Held(d)
    BY <1>2, <2>1, ClientFacts DEF Held, ClientType
  <2>3. ClientType'
    BY <1>2, <2>1, ClientFacts DEF ClientType, Connected, Reading
  <2>4. conn'[c] = "snapshot"
    BY <2>1, ClientFacts DEF ClientType
  <2>5. Base(c) = cursor[c] /\ Len(replay[c]) = 0
    BY <1>1, <1>4, ClientFacts
  <2>6. Ahead(c)'
    <3>1. \A i \in 1..Len(queue[c]) : queue[c][i].sequence <= fanned
      BY ClientFacts DEF Ahead
    <3> QED BY <1>1, <1>2, <1>3, <2>1, <2>4, <2>5, <3>1, ClientFacts DEF Ahead, Resuming
  <2>7. Joined(c) => Joined(c)'
    <3> SUFFICES ASSUME Joined(c)
                 PROVE  Joined(c)'
      OBVIOUS
    <3>1. GapFree(c)' /\ RunTo(queue'[c], fanned')
      BY <1>1, <1>2, <1>3, <2>1 DEF Joined, GapFree, Connected, Reading
    <3>2. Low(c)' <= Reach(c)'
      BY <1>1, <1>2, <1>3, <2>4 DEF Joined, Low, Reach, Connected, Reading
    <3>3. SnapshotSent(c)' \/ cursor'[c] = lastId'[c]
      BY <1>1, <1>2, <2>1, <2>5 DEF Joined, SnapshotSent
    <3> QED BY <2>4, <3>1, <3>2, <3>3 DEF Joined
  <2>8. lastId'[c] >= lastId[c]
    BY <2>1, ClientFacts
  <2> QED BY <1>2, <2>2, <2>3, <2>4, <2>6, <2>7, <2>8 DEF Progress
<1>5. CASE replay[c] # <<>>
  <2> DEFINE event == Head(replay[c])
  <2>1. /\ lastId' = [lastId EXCEPT ![c] = event.sequence]
        /\ delivered' = [delivered EXCEPT ![c] = @ \cup {event.sequence}]
        /\ informed' = [informed EXCEPT ![c] = @ \/ event.final]
        /\ covered' = covered /\ conn' = conn
        /\ replay' = [replay EXCEPT ![c] = Tail(@)]
    BY <1>5 DEF SendReplay, SendEvent
  <2>2. /\ event \in Event /\ event.sequence = Base(c) + 1 /\ Base(c) + 1 <= cursor[c]
        /\ Tail(replay[c]) \in Seq(Event) /\ Len(Tail(replay[c])) = Len(replay[c]) - 1
        /\ RunTo(Tail(replay[c]), cursor[c]) /\ Base(c) \in Nat
    <3> DEFINE p == replay[c]
               n == cursor[c]
    <3>1. p \in Seq(Event) /\ Len(p) \in Nat /\ Len(p) >= 1 /\ Len(p) <= n /\ n \in Nat
          /\ Base(c) = n - Len(p)
      BY <1>1, <1>5, ClientFacts DEF RunTo
    <3>2. \A i \in 1..Len(p) : p[i].sequence = n - Len(p) + i
      BY <1>1 DEF RunTo
    <3>3. event = p[1] /\ event \in Event
      BY <1>5, <3>1
    <3>4. Tail(p) \in Seq(Event) /\ Len(Tail(p)) = Len(p) - 1
          /\ \A i \in 1..(Len(p) - 1) : Tail(p)[i] = p[i + 1]
      BY <1>5, <3>1
    <3> HIDE DEF p, n, event
    <3>5. ASSUME NEW i \in 1..Len(Tail(p))
          PROVE  Tail(p)[i].sequence = n - Len(Tail(p)) + i
      <4>1. i \in 1..(Len(p) - 1) /\ i + 1 \in 1..Len(p)
            /\ n - Len(p) + (i + 1) = n - Len(Tail(p)) + i
        BY <3>1, <3>4
      <4> QED BY <3>2, <3>4, <4>1
    <3>6. RunTo(Tail(p), n)
      BY <3>1, <3>4, <3>5 DEF RunTo
    <3>7. event.sequence = n - Len(p) + 1 /\ n - Len(p) + 1 <= n /\ n - Len(p) \in Nat
      BY <3>1, <3>2, <3>3
    <3> QED BY <3>1, <3>3, <3>4, <3>6, <3>7 DEF p, n
  <2> HIDE DEF event
  <2>3. \A d \in Client \ {c} : Held(d)' = Held(d)
    BY <1>2, <2>1, ClientFacts DEF Held, ClientType
  <2>4. event.sequence \in 1..MaxSequence /\ event.sequence \in Nat /\ event.final \in BOOLEAN
    BY <1>1, <2>2, ClientFacts, BoundsType DEF Event
  <2>5. ClientType'
    BY <1>2, <2>1, <2>2, <2>4, ClientFacts DEF ClientType
  <2>6. /\ conn'[c] = "replaying" /\ lastId'[c] = event.sequence /\ replay'[c] = Tail(replay[c])
        /\ delivered'[c] = delivered[c] \cup {event.sequence}
    BY <1>1, <2>1, ClientFacts DEF ClientType
  <2>7. Reach(c)' = cursor[c] /\ Base(c)' = Base(c) + 1
    <3>1. Reach(c)' = cursor[c]
      BY <1>2, <2>6 DEF Reach
    <3>2. Base(c)' = cursor[c] - Len(Tail(replay[c]))
      BY <2>6, <3>1 DEF Base
    <3> QED BY <1>1, <2>2, <3>1, <3>2, ClientFacts
  <2>8. Ahead(c)'
    <3>1. \A i \in 1..Len(queue[c]) : queue[c][i].sequence <= fanned
      BY ClientFacts DEF Ahead
    <3> QED BY <1>1, <1>2, <1>3, <2>2, <2>4, <2>6, <2>7, <3>1, ClientFacts DEF Ahead, Resuming
  <2>9. Joined(c) => Joined(c)'
    <3> SUFFICES ASSUME Joined(c)
                 PROVE  Joined(c)'
      OBVIOUS
    <3>1. RunTo(queue'[c], fanned')
      BY <1>1, <1>2, <1>3 DEF Joined, Connected, Reading
    <3>2. Low(c)' <= Reach(c)'
      BY <1>1, <1>2, <1>3, <2>7 DEF Joined, Low, Connected, Reading
    <3>3. GapFree(c) /\ (Base(c) = lastId[c] \/ (cut[c] /\ Base(c) <= covered[c]))
      BY <1>1 DEF Joined
    <3>4. GapFree(c)'
      <4> SUFFICES ASSUME NEW n \in 1..lastId'[c]
                   PROVE  n \in delivered'[c] \/ n <= covered'[c]
        BY DEF GapFree
      <4>1. n = event.sequence \/ n \in 1..Base(c)
        BY <2>2, <2>6
      <4>2. CASE n = event.sequence
        BY <2>6, <4>2
      <4>3. CASE n \in 1..Base(c)
        <5>1. CASE Base(c) = lastId[c]
          BY <2>1, <2>6, <3>3, <4>3, <5>1 DEF GapFree
        <5>2. CASE Base(c) <= covered[c]
          BY <2>1, <2>2, <4>3, <5>2, ClientFacts
        <5> QED BY <3>3, <5>1, <5>2
      <4> QED BY <4>1, <4>2, <4>3
    <3>5. Base(c)' = lastId'[c]
      BY <2>2, <2>6, <2>7
    <3> QED BY <2>6, <3>1, <3>2, <3>4, <3>5 DEF Joined
  <2>10. lastId'[c] >= lastId[c]
    BY <1>1, <2>2, <2>6, ClientFacts
  <2> QED BY <1>2, <2>3, <2>5, <2>6, <2>8, <2>9, <2>10 DEF Progress
<1> QED BY <1>4, <1>5

LEMMA SnapshotStep ==
  ASSUME StreamInv, NEW c \in Client, Snapshot(c)
  PROVE  Progress(c)
<1>1. /\ conn[c] = "snapshot"
      /\ conn' = [conn EXCEPT ![c] = IF finished THEN "done" ELSE "live"]
      /\ queue' = queue /\ resumeFrom' = resumeFrom /\ cursor' = cursor /\ replay' = replay
      /\ cut' = cut /\ delivered' = delivered
      /\ UNCHANGED <<logVars, producer, noise, forgotten>>
  BY DEF Snapshot, generator, received
<1>2. emitted' = emitted /\ fanned' = fanned /\ events' = events
  BY <1>1 DEF producer, logVars
<1>3. \/ /\ SnapshotSent(c)
         /\ lastId' = [lastId EXCEPT ![c] = cursor[c]]
         /\ covered' = [covered EXCEPT ![c] = saved]
         /\ informed' = [informed EXCEPT ![c] = @ \/ finished]
      \/ ~SnapshotSent(c) /\ lastId' = lastId /\ covered' = covered /\ informed' = informed
  BY DEF Snapshot, received
<1>4. \A d \in Client \ {c} : Held(d)' = Held(d)
  BY <1>1, <1>3, ClientFacts DEF Held, ClientType
<1>5. ClientType'
  <2>1. saved \in 0..MaxSequence /\ finished \in BOOLEAN /\ cursor[c] \in Nat /\ ClientType
    BY ClientFacts, BoundsType
  <2>2. /\ lastId' \in [Client -> Nat] /\ covered' \in [Client -> 0..MaxSequence]
        /\ informed' \in [Client -> BOOLEAN]
    BY <1>3, <2>1 DEF ClientType
  <2> QED BY <1>1, <2>1, <2>2 DEF ClientType, Connected, Reading
<1>6. /\ conn'[c] = IF finished THEN "done" ELSE "live"
      /\ queue'[c] = queue[c] /\ cursor'[c] = cursor[c]
      /\ SnapshotSent(c) => lastId'[c] = cursor[c] /\ covered'[c] = saved
                            /\ (finished => informed'[c])
      /\ ~SnapshotSent(c) => lastId'[c] = lastId[c] /\ covered'[c] = covered[c]
      /\ delivered'[c] = delivered[c] /\ resumeFrom'[c] = resumeFrom[c]
  BY <1>1, <1>3, ClientFacts DEF ClientType
<1>7. lastId[c] <= cursor[c] /\ cursor[c] <= emitted
  BY <1>1, ClientFacts DEF Ahead
<1>8. lastId'[c] = cursor[c] \/ lastId'[c] = lastId[c]
  BY <1>6
<1>9. Ahead(c)'
  <2>1. \A i \in 1..Len(queue[c]) : queue[c][i].sequence <= fanned
    BY ClientFacts DEF Ahead
  <2> QED BY <1>2, <1>6, <1>7, <1>8, <2>1, ClientFacts DEF Ahead, Resuming
<1>10. conn'[c] = "done" /\ resumeFrom'[c] = 0 => informed'[c]
  BY <1>6 DEF SnapshotSent
<1>11. Joined(c) => Joined(c)'
  <2> SUFFICES ASSUME Joined(c)
               PROVE  Joined(c)'
    OBVIOUS
  <2>1. RunTo(queue'[c], fanned') /\ Low(c) <= cursor[c]
    BY <1>1, <1>2 DEF Joined, Connected, Reading, Reach
  <2>2. Low(c)' <= Reach(c)'
    BY <1>2, <1>6, <2>1 DEF Low, Reach
  <2>3. GapFree(c)'
    <3>1. CASE SnapshotSent(c)
      <4>1. lastId'[c] = cursor[c] /\ covered'[c] = saved /\ cursor[c] <= saved
        BY <1>6, <1>7, <3>1, ClientFacts
      <4> QED BY <4>1, ClientFacts DEF GapFree
    <3>2. CASE ~SnapshotSent(c)
      BY <1>6, <3>2 DEF Joined, GapFree
    <3> QED BY <3>1, <3>2
  <2>4. cursor'[c] = lastId'[c]
    BY <1>1, <1>6 DEF Joined
  <2> QED BY <1>6, <2>1, <2>2, <2>3, <2>4 DEF Joined
<1>12. lastId'[c] >= lastId[c]
  BY <1>7, <1>8, ClientFacts
<1> QED BY <1>1, <1>4, <1>5, <1>9, <1>10, <1>11, <1>12 DEF Progress

(* The queue loses its oldest event.                                       *)
LEMMA TailFacts ==
  ASSUME NEW q \in Seq(QueueEntry), q # <<>>
  PROVE  /\ Head(q) = q[1] /\ Head(q) \in QueueEntry /\ 1 \in 1..Len(q)
         /\ Tail(q) \in Seq(QueueEntry) /\ Len(Tail(q)) = Len(q) - 1
         /\ \A i \in 1..(Len(q) - 1) : Tail(q)[i] = q[i + 1] /\ i + 1 \in 1..Len(q)
         /\ \A n \in Nat : RunTo(q, n) => RunTo(Tail(q), n) /\ Head(q).sequence = n - Len(q) + 1
<1>1. Len(q) \in Nat /\ Len(q) >= 1 /\ Head(q) = q[1] /\ Head(q) \in QueueEntry
  OBVIOUS
<1>2. Tail(q) \in Seq(QueueEntry) /\ Len(Tail(q)) = Len(q) - 1
      /\ \A i \in 1..(Len(q) - 1) : Tail(q)[i] = q[i + 1]
  OBVIOUS
<1>3. \A i \in 1..(Len(q) - 1) : i + 1 \in 1..Len(q)
  BY <1>1
<1>4. ASSUME NEW n \in Nat, RunTo(q, n)
      PROVE  RunTo(Tail(q), n) /\ Head(q).sequence = n - Len(q) + 1
  <2>1. Len(q) <= n /\ \A i \in 1..Len(q) : q[i].sequence = n - Len(q) + i
    BY <1>4 DEF RunTo
  <2>2. Head(q).sequence = n - Len(q) + 1
    BY <1>1, <2>1
  <2>3. ASSUME NEW i \in 1..Len(Tail(q))
        PROVE  Tail(q)[i].sequence = n - Len(Tail(q)) + i
    <3>1. i \in 1..(Len(q) - 1) /\ i + 1 \in 1..Len(q) /\ n - Len(q) + (i + 1) = n - Len(Tail(q)) + i
      BY <1>1, <1>2
    <3> QED BY <1>2, <2>1, <3>1
  <2>4. RunTo(Tail(q), n)
    BY <1>1, <1>2, <2>1, <2>3 DEF RunTo
  <2> QED BY <2>2, <2>4
<1> QED BY <1>1, <1>2, <1>3, <1>4

LEMMA SendLiveStep ==
  ASSUME StreamInv, NEW c \in Client, SendLive(c)
  PROVE  Progress(c)
<1> DEFINE event == Head(queue[c])
<1>1. /\ conn[c] = "live" /\ queue[c] # <<>>
      /\ queue' = [queue EXCEPT ![c] = Tail(@)]
      /\ resumeFrom' = resumeFrom /\ replay' = replay /\ cut' = cut
      /\ UNCHANGED <<logVars, producer, noise, forgotten>>
  BY DEF SendLive
<1>2. emitted' = emitted /\ fanned' = fanned /\ events' = events
  BY <1>1 DEF producer, logVars
<1>3. /\ event \in QueueEntry /\ event.sequence \in Nat /\ event.final \in BOOLEAN
      /\ event.sequence <= fanned /\ fanned <= emitted
      /\ Tail(queue[c]) \in Seq(QueueEntry) /\ Len(Tail(queue[c])) = Len(queue[c]) - 1
      /\ \A i \in 1..(Len(queue[c]) - 1) : Tail(queue[c])[i].sequence <= fanned
  <2>1. /\ event = queue[c][1] /\ event \in QueueEntry /\ 1 \in 1..Len(queue[c])
        /\ Tail(queue[c]) \in Seq(QueueEntry) /\ Len(Tail(queue[c])) = Len(queue[c]) - 1
        /\ \A i \in 1..(Len(queue[c]) - 1) : Tail(queue[c])[i] = queue[c][i + 1]
                                             /\ i + 1 \in 1..Len(queue[c])
    BY <1>1, ClientFacts, TailFacts
  <2>2. \A i \in 1..Len(queue[c]) : queue[c][i].sequence <= fanned
    BY ClientFacts DEF Ahead
  <2> QED BY <2>1, <2>2, ClientFacts DEF QueueEntry
<1>4. Joined(c) => /\ GapFree(c) /\ RunTo(queue'[c], fanned) /\ Low(c)' = Low(c) + 1
                   /\ event.sequence = Low(c) + 1 /\ Low(c) <= cursor[c] /\ cursor[c] = lastId[c]
                   /\ Low(c) \in Int
  <2> HAVE Joined(c)
  <2>1. RunTo(queue[c], fanned) /\ Low(c) <= cursor[c] /\ cursor[c] = lastId[c] /\ GapFree(c)
    BY <1>1 DEF Joined, Connected, Reading, Reach
  <2>2. RunTo(Tail(queue[c]), fanned) /\ event.sequence = fanned - Len(queue[c]) + 1
    BY <1>1, <2>1, ClientFacts, TailFacts
  <2>3. queue'[c] = Tail(queue[c])
    BY <1>1, ClientFacts DEF ClientType
  <2> QED BY <1>2, <1>3, <2>1, <2>2, <2>3, ClientFacts DEF Low
<1>5. lastId[c] <= cursor[c] /\ cursor[c] <= emitted
  BY <1>1, ClientFacts DEF Ahead
<1> HIDE DEF event
<1>6. queue'[c] = Tail(queue[c]) /\ resumeFrom'[c] = resumeFrom[c]
  BY <1>1, ClientFacts DEF ClientType
<1>7. CASE AlreadySent(c, event)
  <2>1. /\ cursor' = cursor /\ conn' = conn /\ lastId' = lastId
        /\ delivered' = delivered /\ covered' = covered /\ informed' = informed
    BY <1>7 DEF SendLive, received, event
  <2>2. \A d \in Client \ {c} : Held(d)' = Held(d)
    BY <1>1, <2>1, ClientFacts DEF Held, ClientType
  <2>3. ClientType'
    BY <1>1, <1>3, <2>1, ClientFacts DEF ClientType
  <2>4. Ahead(c)'
    BY <1>1, <1>2, <1>3, <1>5, <1>6, <2>1, ClientFacts DEF Ahead, Resuming
  <2>5. Joined(c) => Joined(c)'
    <3> SUFFICES ASSUME Joined(c)
                 PROVE  Joined(c)'
      OBVIOUS
    <3>1. Low(c)' <= Reach(c)'
      <4>1. event.sequence <= cursor[c]
        BY <1>7 DEF AlreadySent
      <4> QED BY <1>1, <1>4, <2>1, <4>1 DEF Reach
    <3>2. GapFree(c)'
      BY <1>4, <2>1 DEF GapFree
    <3> QED BY <1>1, <1>2, <1>4, <2>1, <3>1, <3>2 DEF Joined
  <2>6. conn'[c] # "done" /\ lastId'[c] >= lastId[c]
    BY <1>1, <2>1, ClientFacts
  <2> QED BY <1>1, <2>2, <2>3, <2>4, <2>5, <2>6 DEF Progress
<1>8. CASE ~AlreadySent(c, event)
  <2>1. /\ cursor' = [cursor EXCEPT ![c] = event.sequence]
        /\ lastId' = [lastId EXCEPT ![c] = event.sequence]
        /\ delivered' = [delivered EXCEPT ![c] = @ \cup {event.sequence}]
        /\ informed' = [informed EXCEPT ![c] = @ \/ event.final]
        /\ covered' = covered
        /\ conn' = [conn EXCEPT ![c] = IF event.final THEN "done" ELSE "live"]
    BY <1>8 DEF SendLive, SendEvent, event
  <2>2. \A d \in Client \ {c} : Held(d)' = Held(d)
    BY <1>1, <2>1, ClientFacts DEF Held, ClientType
  <2>3. event.sequence > cursor[c] /\ event.sequence \in 1..MaxSequence
    BY <1>3, <1>8, ClientFacts, BoundsType DEF AlreadySent
  <2>4. ClientType'
    BY <1>1, <1>3, <2>1, <2>3, ClientFacts DEF ClientType, Connected, Reading
  <2>5. /\ cursor'[c] = event.sequence /\ lastId'[c] = event.sequence
        /\ delivered'[c] = delivered[c] \cup {event.sequence} /\ covered'[c] = covered[c]
        /\ conn'[c] = IF event.final THEN "done" ELSE "live"
        /\ (event.final => informed'[c])
    BY <2>1, ClientFacts DEF ClientType
  <2>6. Ahead(c)'
    BY <1>1, <1>2, <1>3, <1>6, <2>5, ClientFacts DEF Ahead, Resuming
  <2>7. Joined(c) => Joined(c)'
    <3> SUFFICES ASSUME Joined(c)
                 PROVE  Joined(c)'
      OBVIOUS
    <3>1. event.sequence = cursor[c] + 1 /\ Low(c)' = cursor[c] + 1
      BY <1>3, <1>4, <2>3, ClientFacts
    <3>2. Low(c)' <= Reach(c)'
      BY <2>5, <3>1, ClientFacts DEF Reach
    <3>3. GapFree(c)'
      <4> SUFFICES ASSUME NEW n \in 1..lastId'[c]
                   PROVE  n \in delivered'[c] \/ n <= covered'[c]
        BY DEF GapFree
      <4>1. n = event.sequence \/ n \in 1..lastId[c]
        BY <1>4, <2>5, <3>1, ClientFacts
      <4>2. \A m \in 1..lastId[c] : m \in delivered[c] \/ m <= covered[c]
        BY <1>4 DEF GapFree
      <4> QED BY <2>5, <4>1, <4>2
    <3> QED BY <1>2, <1>4, <2>5, <3>2, <3>3 DEF Joined
  <2>8. conn'[c] = "done" => informed'[c]
    BY <2>5
  <2>9. lastId'[c] >= lastId[c]
    BY <1>3, <1>5, <2>3, <2>5, ClientFacts
  <2> QED BY <1>1, <2>2, <2>4, <2>6, <2>7, <2>8, <2>9 DEF Progress
<1> QED BY <1>7, <1>8

LEMMA DropStep ==
  ASSUME StreamInv, NEW c \in Client, Drop(c)
  PROVE  Progress(c)
<1>1. /\ conn' = [conn EXCEPT ![c] = "off"]
      /\ queue' = [queue EXCEPT ![c] = <<>>]
      /\ resumeFrom' = [resumeFrom EXCEPT ![c] = 0]
      /\ cursor' = [cursor EXCEPT ![c] = 0]
      /\ replay' = [replay EXCEPT ![c] = <<>>]
      /\ cut' = [cut EXCEPT ![c] = FALSE]
      /\ lastId' = lastId /\ delivered' = delivered /\ covered' = covered /\ informed' = informed
      /\ UNCHANGED <<logVars, producer, noise, forgotten>>
  BY DEF Drop, received
<1>2. emitted' = emitted /\ fanned' = fanned
  BY <1>1 DEF producer
<1>3. \A d \in Client \ {c} : Held(d)' = Held(d)
  BY <1>1, ClientFacts DEF Held, ClientType
<1>4. ClientType'
  BY <1>1, ClientFacts DEF ClientType
<1>5. /\ conn'[c] = "off" /\ queue'[c] = <<>> /\ cursor'[c] = 0 /\ lastId'[c] = lastId[c]
      /\ delivered'[c] = delivered[c] /\ covered'[c] = covered[c]
  BY <1>1, ClientFacts DEF ClientType
<1>6. Ahead(c)'
  BY <1>2, <1>5, ClientFacts DEF Ahead, Resuming
<1>7. Joined(c) => Joined(c)'
  <2>1. GapFree(c) => GapFree(c)'
    BY <1>5 DEF GapFree
  <2> QED BY <1>5, <2>1 DEF Joined, Connected, Reading
<1> QED BY <1>1, <1>3, <1>4, <1>5, <1>6, <1>7, ClientFacts DEF Progress

LEMMA ClientStep ==
  ASSUME StreamInv, NEW c \in Client, Connect(c) \/ Serve(c) \/ Drop(c)
  PROVE  Progress(c)
BY ConnectStep, ReadLatestStep, ReadHistoryStep, ReadEarliestStep, SendReplayStep,
   SnapshotStep, SendLiveStep, DropStep DEF Serve

------------------------------------------------------------------------------
(* The invariants.                                                         *)

LEMMA AheadStays ==
  ASSUME StreamInv, NEW d \in Client, Held(d)' = Held(d),
         emitted' \in Nat, emitted' >= emitted, fanned' = fanned
  PROVE  Ahead(d)'
<1>1. /\ conn'[d] = conn[d] /\ queue'[d] = queue[d] /\ resumeFrom'[d] = resumeFrom[d]
      /\ cursor'[d] = cursor[d] /\ replay'[d] = replay[d] /\ lastId'[d] = lastId[d]
  BY HeldIsKept
<1>2. Reach(d)' = Reach(d) /\ Base(d)' = Base(d)
  BY <1>1 DEF Reach, Base
<1>3. Reach(d) <= emitted => Reach(d) \in Int
  <2>1. replay[d] # <<>> => Last(replay[d]) \in Event
    BY ClientFacts DEF Last
  <2> QED BY <2>1, ClientFacts DEF Reach, CaughtUpTo, Event
<1>4. /\ lastId[d] <= emitted'
      /\ cursor[d] <= emitted'
      /\ Reach(d) <= emitted => Reach(d) <= emitted'
  BY <1>3, ClientFacts DEF Ahead
<1> QED BY <1>1, <1>2, <1>4, ClientFacts DEF Ahead

LEMMA JoinedStays ==
  ASSUME StreamInv, NEW d \in Client, Held(d)' = Held(d), fanned' = fanned,
         Earliest(Observed)' \in Int, Earliest(Observed)' >= Earliest(Observed), Joined(d)
  PROVE  Joined(d)'
<1>1. /\ conn'[d] = conn[d] /\ queue'[d] = queue[d] /\ resumeFrom'[d] = resumeFrom[d]
      /\ cursor'[d] = cursor[d] /\ replay'[d] = replay[d] /\ cut'[d] = cut[d]
      /\ lastId'[d] = lastId[d] /\ delivered'[d] = delivered[d] /\ covered'[d] = covered[d]
  BY HeldIsKept
<1>2. Reach(d)' = Reach(d) /\ Base(d)' = Base(d) /\ Low(d)' = Low(d)
  BY <1>1 DEF Reach, Base, Low
<1>3. GapFree(d)' /\ (SnapshotSent(d)' <=> SnapshotSent(d))
  BY <1>1 DEF Joined, GapFree, SnapshotSent
<1>4. conn[d] = "resuming" /\ Base(d) <= Earliest(Observed) - 1 => Base(d) <= Earliest(Observed)' - 1
  <2> HAVE conn[d] = "resuming" /\ Base(d) <= Earliest(Observed) - 1
  <2>1. replay[d] # <<>> => Last(replay[d]) \in Event
    BY ClientFacts DEF Last
  <2>2. Base(d) \in Int
    BY <2>1, ClientFacts DEF Base, Reach, CaughtUpTo, Event
  <2> QED BY <2>2, ObservedFacts
<1>5. conn[d] \in Connected => RunTo(queue[d], fanned)
  BY DEF Joined
<1>6. conn[d] \in Connected \ {"subscribed"} => Low(d) <= Reach(d)
  BY DEF Joined
<1>7. conn[d] = "resuming" => /\ resumeFrom[d] > 0
                              /\ Base(d) = lastId[d] \/ Base(d) <= Earliest(Observed)' - 1
  BY <1>4 DEF Joined
<1>8. /\ conn[d] = "replaying" => Base(d) = lastId[d] \/ (cut[d] /\ Base(d) <= covered[d])
      /\ conn[d] = "snapshot" => SnapshotSent(d) \/ cursor[d] = lastId[d]
      /\ conn[d] = "live" => cursor[d] = lastId[d]
  BY DEF Joined
<1> QED BY <1>1, <1>2, <1>3, <1>5, <1>6, <1>7, <1>8 DEF Joined

\* One client moves.
LEMMA ProgressIsSafe ==
  ASSUME StreamInv, NEW c \in Client, Progress(c)
  PROVE  StreamInv' /\ (\A d \in Client : lastId'[d] >= lastId[d]) /\ (GapInv => GapInv')
<1>1. /\ emitted' = emitted /\ fanned' = fanned /\ events' = events /\ forgotten' = forgotten
      /\ LogInv' /\ Runs' /\ ProducerType'
  BY LogStays DEF Progress, producer, logVars, StreamInv
<1>2. \A d \in Client \ {c} : Held(d)' = Held(d)
  BY DEF Progress
<1>3. \A d \in Client : Ahead(d)'
  <2> TAKE d \in Client
  <2>1. CASE d = c
    BY <2>1 DEF Progress
  <2>2. CASE d # c
    <3>1. Held(d)' = Held(d) /\ emitted' \in Nat /\ emitted' >= emitted
      BY <1>1, <1>2, <2>2, ClientFacts
    <3> QED BY <1>1, <3>1, AheadStays
  <2> QED BY <2>1, <2>2
<1>4. FreshStreamInformed'
  <2> SUFFICES ASSUME NEW d \in Client, conn'[d] = "done", resumeFrom'[d] = 0
               PROVE  informed'[d]
    BY DEF FreshStreamInformed
  <2>1. CASE d = c
    BY <2>1 DEF Progress
  <2>2. CASE d # c
    BY <1>2, <2>2, HeldIsKept DEF StreamInv, FreshStreamInformed
  <2> QED BY <2>1, <2>2
<1>5. \A d \in Client : lastId'[d] >= lastId[d]
  <2> TAKE d \in Client
  <2>1. CASE d = c
    BY <2>1 DEF Progress
  <2>2. CASE d # c
    BY <1>2, <2>2, HeldIsKept, ClientFacts
  <2> QED BY <2>1, <2>2
<1>6. GapInv => GapInv'
  <2> SUFFICES ASSUME GapInv, ~forgotten
               PROVE  (emitted' > 0 => events'[Observed] # <<>>) /\ \A d \in Client : Joined(d)'
    BY <1>1 DEF GapInv
  <2>1. Retained /\ \A d \in Client : Joined(d)
    BY DEF GapInv, Retained
  <2>2. Earliest(Observed)' = Earliest(Observed) /\ Earliest(Observed) \in Int
    BY <1>1, ObservedFacts DEF Earliest
  <2>3. ASSUME NEW d \in Client
        PROVE  Joined(d)'
    <3>1. CASE d = c
      BY <2>1, <3>1 DEF Progress
    <3>2. CASE d # c
      <4>1. Held(d)' = Held(d) /\ Joined(d) /\ Earliest(Observed)' \in Int
            /\ Earliest(Observed)' >= Earliest(Observed)
        BY <1>2, <2>1, <2>2, <3>2
      <4> QED BY <1>1, <4>1, JoinedStays
    <3> QED BY <3>1, <3>2
  <2> QED BY <1>1, <2>1, <2>3 DEF Retained
<1>7. ClientType'
  BY DEF Progress
<1> QED BY <1>1, <1>3, <1>4, <1>5, <1>6, <1>7 DEF StreamInv

\* No client moves.
LEMMA ClientsStay ==
  ASSUME StreamInv, UNCHANGED <<conn, generator, received>>,
         emitted' \in Nat, emitted' >= emitted, fanned' = fanned,
         LogInv', Runs', ProducerType'
  PROVE  /\ StreamInv' /\ (\A d \in Client : lastId'[d] >= lastId[d])
         /\ \A d \in Client : Held(d)' = Held(d)
<1>1. /\ conn' = conn /\ queue' = queue /\ resumeFrom' = resumeFrom /\ cursor' = cursor
      /\ replay' = replay /\ cut' = cut /\ lastId' = lastId /\ delivered' = delivered
      /\ covered' = covered /\ informed' = informed
  BY DEF generator, received
<1>2. \A d \in Client : Held(d)' = Held(d)
  BY <1>1 DEF Held
<1>3. \A d \in Client : Ahead(d)'
  BY <1>2, AheadStays
<1>4. ClientType'
  BY <1>1 DEF StreamInv, ClientType
<1>5. FreshStreamInformed'
  BY <1>1 DEF StreamInv, FreshStreamInformed
<1>6. \A d \in Client : lastId'[d] >= lastId[d]
  BY <1>1, ClientFacts
<1> QED BY <1>2, <1>3, <1>4, <1>5, <1>6 DEF StreamInv

LEMMA SaveStep ==
  ASSUME StreamInv, NEW last \in BOOLEAN, Save(last)
  PROVE  StreamInv' /\ (\A d \in Client : lastId'[d] >= lastId[d]) /\ (GapInv => GapInv')
<1>1. /\ saved' = saved + 1 /\ finished' = last /\ ~finished
      /\ (last \/ saved + 1 < MaxSequence)
      /\ emitted' = emitted /\ fanned' = fanned /\ noise' = noise /\ forgotten' = forgotten
      /\ UNCHANGED logVars /\ UNCHANGED <<conn, generator, received>>
  BY DEF Save
<1>2. ProducerType /\ LogInv /\ Runs
  BY DEF StreamInv
<1>3. ProducerType'
  BY <1>1, <1>2, BoundsType DEF ProducerType
<1>4. events' = events /\ order' = order /\ sizes' = sizes /\ totalBytes' = totalBytes
  BY <1>1 DEF logVars
<1>5. LogInv' /\ Runs'
  <2>1. LogType' /\ OrderOnce'
    BY <1>2, <1>4 DEF LogInv, LogType, OrderOnce
  <2>2. AccountingHonest'
    BY <1>2, <1>4 DEF LogInv, AccountingHonest, RetainedBy
  <2>3. CeilingsKept'
    BY <1>2, <1>4 DEF LogInv, CeilingsKept
  <2>4. Runs'
    BY <1>1, <1>2, <1>4 DEF Runs
  <2> QED BY <2>1, <2>2, <2>3, <2>4 DEF LogInv
<1>6. emitted' \in Nat /\ emitted' >= emitted
  BY <1>1, <1>2 DEF ProducerType
<1>7. StreamInv' /\ (\A d \in Client : lastId'[d] >= lastId[d]) /\ \A d \in Client : Held(d)' = Held(d)
  BY <1>1, <1>3, <1>5, <1>6, ClientsStay
<1>8. Earliest(Observed)' = Earliest(Observed) /\ Earliest(Observed) \in Int
  BY <1>4, ObservedFacts DEF Earliest
<1>9. GapInv => GapInv'
  <2> SUFFICES ASSUME GapInv, ~forgotten
               PROVE  (emitted' > 0 => events'[Observed] # <<>>) /\ \A d \in Client : Joined(d)'
    BY <1>1 DEF GapInv
  <2>1. \A d \in Client : Joined(d)'
    BY <1>1, <1>7, <1>8, JoinedStays DEF GapInv
  <2> QED BY <1>1, <1>4, <2>1 DEF GapInv
<1> QED BY <1>7, <1>9

LEMMA EmitAppendStep ==
  ASSUME StreamInv, NEW size \in Size, EmitAppend(size)
  PROVE  StreamInv' /\ (\A d \in Client : lastId'[d] >= lastId[d]) /\ (GapInv => GapInv')
<1>1. /\ emitted' = emitted + 1 /\ fanned' = fanned /\ forgotten' = forgotten
      /\ UNCHANGED <<conn, generator, received>>
  BY DEF EmitAppend
<1>2. /\ LogInv' /\ Runs' /\ ProducerType' /\ events'[Observed] # <<>>
      /\ Earliest(Observed)' >= Earliest(Observed)
  BY EmitAppendLog
<1>3. emitted \in Nat
  BY DEF StreamInv, ProducerType
<1>4. emitted' \in Nat /\ emitted' >= emitted
  BY <1>1, <1>3
<1>5. StreamInv' /\ (\A d \in Client : lastId'[d] >= lastId[d]) /\ \A d \in Client : Held(d)' = Held(d)
  BY <1>1, <1>2, <1>4, ClientsStay
<1>6. Earliest(Observed)' \in Int
  <2>1. events'[Observed] \in Seq(Event) /\ RunTo(events'[Observed], emitted')
    BY <1>2, BoundsType DEF LogInv, LogType, Runs
  <2>2. /\ Head(events'[Observed]) \in Event
    BY <1>2, <2>1
  <2> QED BY <1>2, <2>2 DEF Earliest, Event
<1>7. GapInv => GapInv'
  <2> SUFFICES ASSUME GapInv, ~forgotten
               PROVE  \A d \in Client : Joined(d)'
    BY <1>1, <1>2 DEF GapInv
  <2> QED BY <1>1, <1>2, <1>5, <1>6, JoinedStays DEF GapInv
<1> QED BY <1>5, <1>7

LEMMA OtherTaskEmitsStep ==
  ASSUME StreamInv, NEW t \in Neighbour, NEW size \in Size, OtherTaskEmits(t, size)
  PROVE  StreamInv' /\ (\A d \in Client : lastId'[d] >= lastId[d]) /\ (GapInv => GapInv')
<1>1. /\ emitted' = emitted /\ fanned' = fanned
      /\ forgotten' = (forgotten \/ (events[Observed] # <<>> /\ events'[Observed] = <<>>))
      /\ UNCHANGED <<conn, generator, received>>
  BY DEF OtherTaskEmits, producer
<1>2. /\ LogInv' /\ Runs' /\ ProducerType'
      /\ events'[Observed] = events[Observed] \/ events'[Observed] = <<>>
  BY OtherTaskEmitsLog
<1>3. emitted' \in Nat /\ emitted' >= emitted
  BY <1>1 DEF StreamInv, ProducerType
<1>4. StreamInv' /\ (\A d \in Client : lastId'[d] >= lastId[d]) /\ \A d \in Client : Held(d)' = Held(d)
  BY <1>1, <1>2, <1>3, ClientsStay
<1>5. GapInv => GapInv'
  <2> SUFFICES ASSUME GapInv, ~forgotten'
               PROVE  (emitted' > 0 => events'[Observed] # <<>>) /\ \A d \in Client : Joined(d)'
    BY DEF GapInv
  <2>1. ~forgotten /\ events'[Observed] = events[Observed]
    BY <1>1, <1>2
  <2>2. Earliest(Observed)' = Earliest(Observed) /\ Earliest(Observed) \in Int
    BY <2>1, ObservedFacts DEF Earliest
  <2>3. \A d \in Client : Joined(d)'
    BY <1>1, <1>4, <2>1, <2>2, JoinedStays DEF GapInv
  <2> QED BY <1>1, <2>1, <2>3 DEF GapInv
<1> QED BY <1>4, <1>5

\* A task that emits no more events than a live queue holds.
QueueSuffices == MaxSequence <= QueueSize

LEMMA EmitFanOutStep ==
  ASSUME StreamInv, EmitFanOut
  PROVE  /\ StreamInv' /\ (\A d \in Client : lastId'[d] >= lastId[d])
         /\ (QueueSuffices /\ GapInv => GapInv')
<1> DEFINE event == [sequence |-> fanned + 1, final |-> finished]
           Takes(c) == conn[c] \in Connected /\ Len(queue[c]) < QueueSize
<1>1. /\ fanned < emitted /\ fanned' = fanned + 1
      /\ queue' = [c \in Client |-> IF Takes(c) THEN Append(queue[c], event) ELSE queue[c]]
      /\ saved' = saved /\ emitted' = emitted /\ finished' = finished
      /\ noise' = noise /\ forgotten' = forgotten /\ conn' = conn
      /\ events' = events /\ order' = order /\ sizes' = sizes /\ totalBytes' = totalBytes
      /\ resumeFrom' = resumeFrom /\ cursor' = cursor /\ replay' = replay /\ cut' = cut
      /\ lastId' = lastId /\ delivered' = delivered /\ covered' = covered /\ informed' = informed
  BY DEF EmitFanOut, logVars, received
<1>2. /\ ProducerType /\ ClientType /\ LogInv /\ Runs /\ FreshStreamInformed
      /\ fanned \in Nat /\ emitted \in Nat /\ finished \in BOOLEAN
  BY DEF StreamInv, ProducerType
<1>3. event \in QueueEntry /\ event.sequence = fanned + 1
  BY <1>2 DEF QueueEntry
<1> HIDE DEF event
<1>4. LogInv' /\ Runs'
  <2>1. LogType' /\ OrderOnce'
    BY <1>1, <1>2 DEF LogInv, LogType, OrderOnce
  <2>2. AccountingHonest'
    BY <1>1, <1>2 DEF LogInv, AccountingHonest, RetainedBy
  <2>3. CeilingsKept'
    BY <1>1, <1>2 DEF LogInv, CeilingsKept
  <2>4. Runs'
    BY <1>1, <1>2 DEF Runs
  <2> QED BY <2>1, <2>2, <2>3, <2>4 DEF LogInv
<1>5. ProducerType'
  BY <1>1, <1>2 DEF ProducerType
<1>6. \A c \in Client : /\ queue[c] \in Seq(QueueEntry) /\ Len(queue[c]) \in Nat
                        /\ Append(queue[c], event) \in Seq(QueueEntry)
                        /\ Len(Append(queue[c], event)) = Len(queue[c]) + 1
                        /\ Append(queue[c], event)[Len(queue[c]) + 1] = event
                        /\ \A i \in 1..Len(queue[c]) : Append(queue[c], event)[i] = queue[c][i]
  BY <1>2, <1>3 DEF ClientType
<1>7. \A c \in Client : queue'[c] = IF Takes(c) THEN Append(queue[c], event) ELSE queue[c]
  BY <1>1
<1> HIDE DEF Takes
<1>8. ClientType'
  <2>1. \A c \in Client : queue'[c] \in Seq(QueueEntry)
    BY <1>6, <1>7
  <2>2. queue' \in [Client -> Seq(QueueEntry)]
    BY <1>1, <2>1
  <2> QED BY <1>1, <1>2, <2>2 DEF ClientType
<1>9. \A c \in Client : Ahead(c)'
  <2> TAKE c \in Client
  <2>1. \A i \in 1..Len(queue[c]) : queue[c][i].sequence \in Nat /\ queue[c][i].sequence <= fanned
    <3>1. \A i \in 1..Len(queue[c]) : queue[c][i] \in QueueEntry
      BY <1>6, ElementOfSeq
    <3> QED BY <3>1, ClientFacts DEF Ahead, QueueEntry
  <2>2. \A i \in 1..Len(queue'[c]) : queue'[c][i].sequence <= fanned + 1
    <3>1. CASE Takes(c)
      <4> TAKE i \in 1..Len(queue'[c])
      <4>1. queue'[c] = Append(queue[c], event)
        BY <1>7, <3>1
      <4>2. i = Len(queue[c]) + 1 \/ i \in 1..Len(queue[c])
        BY <1>6, <4>1
      <4>3. queue'[c][i].sequence = fanned + 1 \/ queue'[c][i].sequence <= fanned
        BY <1>3, <1>6, <2>1, <4>1, <4>2
      <4>4. queue'[c][i].sequence \in Nat
        BY <1>2, <1>3, <1>6, <2>1, <4>1, <4>2
      <4> QED BY <1>2, <4>3, <4>4
    <3>2. CASE ~Takes(c)
      BY <1>2, <1>7, <2>1, <3>2
    <3> QED BY <3>1, <3>2
  <2>3. Reach(c)' = Reach(c) /\ Base(c)' = Base(c)
    BY <1>1 DEF Reach, Base
  <2> QED BY <1>1, <2>2, <2>3, ClientFacts DEF Ahead
<1>10. FreshStreamInformed'
  BY <1>1, <1>2 DEF FreshStreamInformed
<1>11. \A d \in Client : lastId'[d] >= lastId[d]
  BY <1>1, ClientFacts
<1>12. QueueSuffices /\ GapInv => GapInv'
  <2> SUFFICES ASSUME QueueSuffices, GapInv, ~forgotten, NEW c \in Client
               PROVE  Joined(c)'
    BY <1>1 DEF GapInv
  <2>1. Joined(c)
    BY DEF GapInv
  <2>2. GapFree(c)'
    BY <1>1, <2>1 DEF Joined, GapFree
  <2>3. Reach(c)' = Reach(c) /\ Base(c)' = Base(c) /\ Earliest(Observed)' = Earliest(Observed)
        /\ (SnapshotSent(c)' <=> SnapshotSent(c))
    BY <1>1 DEF Reach, Base, Earliest, SnapshotSent
  <2>4. conn[c] \in Connected => RunTo(queue'[c], fanned + 1) /\ Low(c)' = Low(c)
    <3> HAVE conn[c] \in Connected
    <3>1. Len(queue[c]) <= fanned /\ \A i \in 1..Len(queue[c]) : queue[c][i].sequence = fanned - Len(queue[c]) + i
      BY <2>1 DEF Joined, RunTo
    <3>2. Len(queue[c]) < QueueSize
      BY <1>1, <1>2, <1>6, <3>1, ClientFacts, BoundsType DEF QueueSuffices
    <3>3. queue'[c] = Append(queue[c], event)
      BY <1>7, <3>2 DEF Takes
    <3> DEFINE p == queue[c]
               q == Append(p, event)
    <3>4. Len(p) \in Nat /\ Len(q) = Len(p) + 1 /\ q[Len(p) + 1] = event
          /\ \A i \in 1..Len(p) : q[i] = p[i]
      BY <1>6
    <3> HIDE DEF p, q
    <3>5. ASSUME NEW i \in 1..Len(q)
          PROVE  q[i].sequence = (fanned + 1) - Len(q) + i
      <4>1. CASE i = Len(p) + 1
        BY <1>2, <1>3, <3>4, <4>1
      <4>2. CASE i \in 1..Len(p)
        <5>1. q[i].sequence = fanned - Len(p) + i
          BY <3>1, <3>4, <4>2 DEF p
        <5> QED BY <1>2, <3>4, <4>2, <5>1
      <4> QED BY <3>4, <4>1, <4>2
    <3>6. RunTo(q, fanned + 1)
      <4>1. Len(q) <= fanned + 1
        BY <1>2, <3>1, <3>4 DEF p
      <4> QED BY <3>5, <4>1 DEF RunTo
    <3>7. Low(c)' = Low(c)
      <4>1. Low(c)' = (fanned + 1) - Len(q)
        BY <1>1, <3>3 DEF Low, q, p
      <4>2. Low(c) = fanned - Len(p)
        BY DEF Low, p
      <4> QED BY <1>2, <3>4, <4>1, <4>2
    <3> QED BY <3>3, <3>6, <3>7 DEF q, p
  <2>5. /\ conn[c] \in Connected \ {"subscribed"} => Low(c) <= Reach(c)
        /\ conn[c] = "resuming" => /\ resumeFrom[c] > 0
                                   /\ Base(c) = lastId[c] \/ Base(c) <= Earliest(Observed) - 1
        /\ conn[c] = "replaying" => Base(c) = lastId[c] \/ (cut[c] /\ Base(c) <= covered[c])
        /\ conn[c] = "snapshot" => SnapshotSent(c) \/ cursor[c] = lastId[c]
        /\ conn[c] = "live" => cursor[c] = lastId[c]
    BY <2>1 DEF Joined
  <2> QED BY <1>1, <2>2, <2>3, <2>4, <2>5 DEF Joined
<1> QED BY <1>4, <1>5, <1>8, <1>9, <1>10, <1>11, <1>12 DEF StreamInv

LEMMA StreamInit ==
  ASSUME Init
  PROVE  StreamInv /\ GapInv
<1>1. /\ events = [t \in Task |-> <<>>] /\ order = <<>> /\ sizes = [t \in Task |-> 0]
      /\ totalBytes = 0 /\ saved = 0 /\ emitted = 0 /\ fanned = 0 /\ finished = FALSE
      /\ noise = [t \in Neighbour |-> 0]
      /\ conn = [c \in Client |-> "off"] /\ queue = [c \in Client |-> <<>>]
      /\ resumeFrom = [c \in Client |-> 0] /\ cursor = [c \in Client |-> 0]
      /\ replay = [c \in Client |-> <<>>] /\ cut = [c \in Client |-> FALSE]
      /\ lastId = [c \in Client |-> 0] /\ delivered = [c \in Client |-> {}]
      /\ covered = [c \in Client |-> 0] /\ informed = [c \in Client |-> FALSE]
  BY DEF Init, LogInit
<1>2. <<>> \in Seq(Event) /\ <<>> \in Seq(Task) /\ <<>> \in Seq(QueueEntry) /\ Len(<<>>) = 0
      /\ ToSet(<<>>) = {}
  BY DEF ToSet
<1>3. LogType /\ OrderOnce
  BY <1>1, <1>2 DEF LogType, OrderOnce
<1>4. AccountingHonest
  <2>1. sizes \in [Task -> Nat] /\ order \in Seq(Task)
    BY <1>1, <1>2
  <2>2. RetainedBy(order) = Weighed(order, sizes)
    BY <2>1, RetainedIsWeighed
  <2>3. RetainedBy(order) = 0
    BY <1>1, <2>2, WeighedNothing
  <2>4. \A t \in Task : sizes[t] = 0 /\ events[t] = <<>>
    BY <1>1
  <2> QED BY <1>1, <1>2, <2>3, <2>4, NothingRetained DEF AccountingHonest
<1>5. CeilingsKept
  BY <1>1, <1>2, CeilingsType DEF CeilingsKept
<1>6. Runs
  BY <1>1, <1>2, BoundsType DEF Runs, RunTo, Neighbour
<1>7. ProducerType /\ ClientType
  <2>1. ProducerType
    <3>1. saved \in 0..MaxSequence /\ saved < MaxSequence
      BY <1>1, BoundsType
    <3>2. emitted \in 0..saved /\ fanned \in 0..emitted
      BY <1>1
    <3>3. finished \in BOOLEAN /\ noise \in [Neighbour -> Nat]
      BY <1>1
    <3> QED BY <3>1, <3>2, <3>3 DEF ProducerType
  <2>2. /\ 0 \in Nat /\ 0 \in 0..MaxSequence /\ "off" \in Connected \cup {"off", "done"}
        /\ {} \in SUBSET (1..MaxSequence)
    BY BoundsType
  <2>3. ClientType
    BY <1>1, <1>2, <2>2 DEF ClientType
  <2> QED BY <2>1, <2>3
<1>8. \A c \in Client : Ahead(c)
  BY <1>1, <1>2 DEF Ahead, Resuming
<1>9. FreshStreamInformed
  BY <1>1 DEF FreshStreamInformed
<1>10. GapInv
  <2>1. \A c \in Client : GapFree(c)
    BY <1>1 DEF GapFree
  <2>2. \A c \in Client : Joined(c)
    BY <1>1, <2>1 DEF Joined, Connected, Reading
  <2> QED BY <1>1, <2>2 DEF GapInv
<1> QED BY <1>3, <1>4, <1>5, <1>6, <1>7, <1>8, <1>9, <1>10 DEF StreamInv, LogInv

LEMMA StreamStep ==
  ASSUME StreamInv, [Next]_vars
  PROVE  /\ StreamInv' /\ (\A d \in Client : lastId'[d] >= lastId[d])
         /\ (QueueSuffices /\ GapInv => GapInv')
<1>1. CASE \E last \in BOOLEAN : Save(last)
  BY <1>1, SaveStep
<1>2. CASE EmitFanOut
  BY <1>2, EmitFanOutStep
<1>3. CASE \E size \in Size : EmitAppend(size)
  BY <1>3, EmitAppendStep
<1>4. CASE \E t \in Neighbour, size \in Size : OtherTaskEmits(t, size)
  BY <1>4, OtherTaskEmitsStep
<1>5. CASE \E c \in Client : Connect(c) \/ Serve(c) \/ Drop(c)
  <2>1. PICK c \in Client : Connect(c) \/ Serve(c) \/ Drop(c)
    BY <1>5
  <2>2. Progress(c)
    BY <2>1, ClientStep
  <2> QED BY <2>2, ProgressIsSafe
<1>6. CASE UNCHANGED vars
  <2>1. UNCHANGED <<logVars, producer, noise>> /\ forgotten' = forgotten
        /\ UNCHANGED <<conn, generator, received>> /\ events' = events
        /\ emitted' = emitted /\ fanned' = fanned
    BY <1>6 DEF vars, producer, logVars
  <2>2. LogInv' /\ Runs' /\ ProducerType'
    BY <2>1, LogStays DEF StreamInv
  <2>3. emitted' \in Nat /\ emitted' >= emitted
    BY <2>1 DEF StreamInv, ProducerType
  <2>4. StreamInv' /\ (\A d \in Client : lastId'[d] >= lastId[d]) /\ \A d \in Client : Held(d)' = Held(d)
    BY <2>1, <2>2, <2>3, ClientsStay
  <2>5. Earliest(Observed)' = Earliest(Observed) /\ Earliest(Observed) \in Int
    BY <2>1, ObservedFacts DEF Earliest
  <2>6. GapInv => GapInv'
    <3> SUFFICES ASSUME GapInv, ~forgotten
                 PROVE  (emitted' > 0 => events'[Observed] # <<>>) /\ \A d \in Client : Joined(d)'
      BY <2>1 DEF GapInv
    <3>1. \A d \in Client : Joined(d)'
      BY <2>1, <2>4, <2>5, JoinedStays DEF GapInv
    <3> QED BY <2>1, <3>1 DEF GapInv
  <2> QED BY <2>4, <2>6
<1>7. Next \/ UNCHANGED vars
  OBVIOUS
<1> QED BY <1>1, <1>2, <1>3, <1>4, <1>5, <1>6, <1>7 DEF Next, Emit

------------------------------------------------------------------------------
(* The theorems.                                                           *)

LEMMA StreamInvAlways == Spec => []StreamInv
BY StreamInit, StreamStep, PTL DEF Spec

(* TaskManager._emit, subscribe and stream_events keep to their types and  *)
(* bounds: no id a client saw, and no cursor, is beyond what was emitted.  *)
THEOREM StreamTypes == Spec => []TypeOK
<1>1. StreamInv => TypeOK
  <2> SUFFICES ASSUME StreamInv
               PROVE  TypeOK
    OBVIOUS
  <2>1. ProducerType /\ ClientType
    BY DEF StreamInv
  <2>2. \A c \in Client : lastId[c] \in 0..MaxSequence /\ cursor[c] \in 0..MaxSequence
    BY ClientFacts, BoundsType DEF Ahead
  <2>3. lastId \in [Client -> 0..MaxSequence] /\ cursor \in [Client -> 0..MaxSequence]
    BY <2>1, <2>2 DEF ClientType
  <2> QED BY <2>1, <2>3 DEF TypeOK, ProducerType, ClientType
<1> QED BY <1>1, StreamInvAlways, PTL

(* InMemoryTaskEventLog.append: on no path of evictions does the running   *)
(* total of bytes part from what is retained.                              *)
THEOREM BytesAddUp == Spec => []AccountingHonest
<1>1. StreamInv => AccountingHonest
  BY DEF StreamInv, LogInv
<1> QED BY <1>1, StreamInvAlways, PTL

(* InMemoryTaskEventLog.append: after every append the log is within all   *)
(* three of its ceilings, a sole oversized event apart.                    *)
THEOREM LogIsBounded == Spec => []CeilingsKept
<1>1. StreamInv => CeilingsKept
  BY DEF StreamInv, LogInv
<1> QED BY <1>1, StreamInvAlways, PTL

(* InMemoryTaskEventLog: eviction leaves an unbroken run of sequence       *)
(* numbers of every task, up to the newest, so that the oldest one tells   *)
(* what is missing.                                                        *)
THEOREM HistoryIsARun == Spec => []HistoryContiguous
<1>1. StreamInv => HistoryContiguous
  <2> SUFFICES ASSUME StreamInv, NEW t \in Task
               PROVE  RunTo(events[t], Newest(t))
    BY DEF HistoryContiguous, RunTo
  <2> QED BY DEF StreamInv, Runs, Newest, Neighbour
<1> QED BY <1>1, StreamInvAlways, PTL

(* stream_events: a stream opened without Last-Event-ID that ended by      *)
(* itself has shown the outcome.                                           *)
THEOREM FreshStreamsAreInformed == Spec => []FreshStreamInformed
<1>1. StreamInv => FreshStreamInformed
  BY DEF StreamInv
<1> QED BY <1>1, StreamInvAlways, PTL

(* stream_events: whatever was replayed, snapshotted or overflowed, the    *)
(* id of the last frame a client saw only grows, over all its connections. *)
THEOREM IdsOnlyGrow == Spec => IdsNeverGoBack
<1>1. StreamInv /\ [Next]_vars => [\A c \in Client : lastId'[c] >= lastId[c]]_vars
  BY StreamStep
<1> QED BY <1>1, StreamInvAlways, PTL DEF Spec, IdsNeverGoBack

(* stream_events over resume and subscribe: as long as no live queue can   *)
(* overflow and the log has not lost the task, a client that comes and     *)
(* goes as it likes has received every event up to its id, or a snapshot   *)
(* or a truncated frame that stands for it.                                *)
THEOREM NothingIsLostSilently ==
  ASSUME QueueSuffices
  PROVE  Spec => []NoSilentGapWhileRetained
<1>1. StreamInv /\ GapInv /\ [Next]_vars => GapInv'
  BY StreamStep
<1>2. GapInv => NoSilentGapWhileRetained
  BY DEF GapInv, Joined, NoSilentGapWhileRetained, NoSilentGap
<1>3. Init => GapInv
  BY StreamInit
<1> QED BY <1>1, <1>2, <1>3, StreamInvAlways, PTL DEF Spec
==============================================================================
