------------------------- MODULE StreamReplay_proofs -------------------------
(***************************************************************************)
(* Theorems about StreamReplay for every set of streams, every size a      *)
(* frame may have and all ceilings.  First the buffer, as functions of its *)
(* value: what a record does to it.  Then the endpoints.                   *)
(***************************************************************************)
EXTENDS StreamReplay, ListLemmas

Frame == [sequence : Nat, position : Nat, size : Nat]
SizeOf == [f \in Frame |-> f.size]
Buffer == [streams : Seq(Stream), frames : [Stream -> Seq(Frame)], bytes : [Stream -> Nat],
           total : Int, sequences : [Stream -> Nat]]

------------------------------------------------------------------------------
(* The buffer.                                                             *)

LEMMA LimitsType ==
  /\ MaxFrames \in Nat \ {0} /\ MaxStreams \in Nat \ {0}
  /\ MaxStreamBytes \in Nat \ {0} /\ MaxTotalBytes \in Nat \ {0} /\ Size \subseteq Nat
BY StreamReplayAssumption

LEMMA SizeType == SizeOf \in [Frame -> Nat]
BY DEF SizeOf, Frame

LEMMA MeasureIsWeighed ==
  ASSUME NEW frames \in Seq(Frame)
  PROVE  Measure(frames) = Weighed(frames, SizeOf) /\ Measure(frames) \in Nat
<1>1. [n \in DOMAIN frames |-> frames[n].size] = [i \in 1..Len(frames) |-> SizeOf[frames[i]]]
  BY LenProperties, ElementOfSeq DEF SizeOf
<1>2. Measure(frames) = Weighed(frames, SizeOf)
  BY <1>1 DEF Measure, Weighed, Weights
<1>3. Weighed(frames, SizeOf) \in Nat
  BY SizeType, WeighedType
<1> QED BY <1>2, <1>3

LEMMA TakenIsWeighed ==
  ASSUME NEW b \in Buffer, NEW streams \in Seq(Stream)
  PROVE  Taken(b, streams) = Weighed(streams, b.bytes) /\ Taken(b, streams) \in Nat
<1>1. [k \in DOMAIN streams |-> b.bytes[streams[k]]] = [i \in 1..Len(streams) |-> b.bytes[streams[i]]]
  BY LenProperties
<1>2. b.bytes \in [Stream -> Nat]
  BY DEF Buffer
<1>3. Weighed(streams, b.bytes) \in Nat
  BY <1>2, WeighedType
<1> QED BY <1>1, <1>3 DEF Taken, Weighed, Weights

LEMMA NothingMeasured == Measure(<<>>) = 0
<1>1. <<>> \in Seq(Frame)
  OBVIOUS
<1>2. Measure(<<>>) = Weighed(<<>>, SizeOf)
  BY <1>1, MeasureIsWeighed
<1> QED BY <1>2, WeighedNothing

\* The accounting: the streams of the buffer are those it retains frames of,
\* each once, and its counts are what these frames measure.
Sound(b) ==
  /\ b \in Buffer
  /\ NoneTwice(b.streams)
  /\ \A s \in Stream : b.frames[s] # <<>> <=> s \in ToSet(b.streams)
  /\ \A s \in Stream : b.bytes[s] = Measure(b.frames[s])
  /\ b.total = Taken(b, b.streams)

\* The same, while s is being written to.
SoundFor(b, s) == Sound(b) /\ Len(b.streams) > 0 /\ b.streams[Len(b.streams)] = s

\* `after` is `before` without some of its oldest frames.
Shortened(before, after) ==
  \E k \in 0..(Len(before) - 1) :
    /\ Len(after) = Len(before) - k
    /\ \A i \in 1..(Len(before) - k) : after[i] = before[k + i]

LEMMA BufferFacts ==
  ASSUME NEW b \in Buffer
  PROVE  /\ b.streams \in Seq(Stream) /\ b.frames \in [Stream -> Seq(Frame)]
         /\ b.bytes \in [Stream -> Nat] /\ b.total \in Int /\ b.sequences \in [Stream -> Nat]
BY DEF Buffer

LEMMA ShortenedType ==
  ASSUME NEW before \in Seq(Frame), NEW after \in Seq(Frame), Shortened(before, after)
  PROVE  Len(after) >= 1 /\ Len(after) <= Len(before) /\ after # <<>>
         /\ after[Len(after)] = before[Len(before)]
<1>1. PICK k \in 0..(Len(before) - 1) :
        /\ Len(after) = Len(before) - k
        /\ \A i \in 1..(Len(before) - k) : after[i] = before[k + i]
  BY DEF Shortened
<1>2. Len(before) \in Nat /\ Len(after) \in Nat /\ k \in Nat /\ k <= Len(before) - 1
  OBVIOUS
<1>3. Len(after) >= 1 /\ Len(after) <= Len(before)
  BY <1>1, <1>2
<1>4. Len(after) \in 1..(Len(before) - k) /\ k + Len(after) = Len(before)
  BY <1>1, <1>2
<1>5. after[Len(after)] = before[k + Len(after)]
  BY <1>1, <1>4
<1> QED BY <1>3, <1>4, <1>5

LEMMA ShortenedTwice ==
  ASSUME NEW f \in Seq(Frame), NEW g \in Seq(Frame), NEW h \in Seq(Frame),
         Shortened(f, g), Shortened(g, h)
  PROVE  Shortened(f, h)
<1>1. PICK k \in 0..(Len(f) - 1) :
        Len(g) = Len(f) - k /\ \A i \in 1..(Len(f) - k) : g[i] = f[k + i]
  BY DEF Shortened
<1>2. PICK m \in 0..(Len(g) - 1) :
        Len(h) = Len(g) - m /\ \A i \in 1..(Len(g) - m) : h[i] = g[m + i]
  BY DEF Shortened
<1>3. Len(f) \in Nat /\ Len(g) \in Nat /\ Len(h) \in Nat /\ k \in Nat /\ m \in Nat
  OBVIOUS
<1>4. k + m \in 0..(Len(f) - 1) /\ Len(h) = Len(f) - (k + m)
  BY <1>1, <1>2, <1>3
<1>5. ASSUME NEW i \in 1..(Len(f) - (k + m))
      PROVE  h[i] = f[(k + m) + i]
  <2>1. i \in 1..(Len(g) - m) /\ m + i \in 1..(Len(f) - k) /\ k + (m + i) = (k + m) + i
    BY <1>1, <1>2, <1>3, <1>4
  <2>2. h[i] = g[m + i] /\ g[m + i] = f[k + (m + i)]
    BY <1>1, <1>2, <2>1
  <2> QED BY <2>1, <2>2
<1> QED BY <1>4, <1>5 DEF Shortened

(* record(), before it trims.                                              *)
LEMMA AppendedFacts ==
  ASSUME NEW b, Sound(b), NEW s \in Stream, NEW frame \in Frame
  PROVE  LET a == Appended(b, s, frame) IN
           /\ SoundFor(a, s)
           /\ a.frames[s] = Append(b.frames[s], frame)
           /\ \A u \in Stream \ {s} : a.frames[u] = b.frames[u]
           /\ a.sequences[s] = frame.sequence
           /\ \A u \in Stream \ {s} : a.sequences[u] = b.sequences[u]
<1> DEFINE a == Appended(b, s, frame)
           keys == MovedLast(Stream, b.streams, s)
<1>1. b \in Buffer /\ NoneTwice(b.streams) /\ b.streams \in Seq(Stream)
      /\ b.frames \in [Stream -> Seq(Frame)] /\ b.bytes \in [Stream -> Nat]
      /\ b.sequences \in [Stream -> Nat] /\ b.total = Taken(b, b.streams)
  BY BufferFacts DEF Sound
<1>2. /\ a.streams = keys
      /\ a.frames = [b.frames EXCEPT ![s] = Append(@, frame)]
      /\ a.bytes = [b.bytes EXCEPT ![s] = @ + frame.size]
      /\ a.total = b.total + frame.size
      /\ a.sequences = [b.sequences EXCEPT ![s] = frame.sequence]
      /\ a = [streams |-> a.streams, frames |-> a.frames, bytes |-> a.bytes,
              total |-> a.total, sequences |-> a.sequences]
  <2> DEFINE frames == Append(b.frames[s], frame)
             bytes == b.bytes[s] + frame.size
             total == b.total + frame.size
             sequence == frame.sequence
  <2>1. a = [b EXCEPT !.streams = keys, !.frames[s] = frames, !.bytes[s] = bytes,
                      !.total = total, !.sequences[s] = sequence]
    BY DEF Appended, MovedLast
  <2> HIDE DEF a, keys, frames, bytes, total, sequence
  <2>2. /\ a.streams = keys /\ a.frames = [b.frames EXCEPT ![s] = frames]
        /\ a.bytes = [b.bytes EXCEPT ![s] = bytes] /\ a.total = total
        /\ a.sequences = [b.sequences EXCEPT ![s] = sequence]
        /\ a = [streams |-> a.streams, frames |-> a.frames, bytes |-> a.bytes,
                total |-> a.total, sequences |-> a.sequences]
    BY <1>1, <2>1 DEF Buffer
  <2> QED BY <2>2 DEF frames, bytes, total, sequence
<1> HIDE DEF a
<1>3. /\ keys \in Seq(Stream) /\ Len(keys) > 0 /\ keys[Len(keys)] = s
      /\ NoneTwice(keys) /\ ToSet(keys) = ToSet(b.streams) \cup {s}
  BY <1>1, MovedLastFacts
<1>4. Weighed(keys, b.bytes) =
        Weighed(b.streams, b.bytes) + (IF s \in ToSet(b.streams) THEN 0 ELSE b.bytes[s])
  BY <1>1, MovedLastWeighed
<1> HIDE DEF keys
<1>5. frame.size \in Nat /\ frame.sequence \in Nat
  BY DEF Frame
<1>6. b.total = Weighed(b.streams, b.bytes) /\ b.total \in Nat
  BY <1>1, TakenIsWeighed
<1>7. s \notin ToSet(b.streams) => b.bytes[s] = 0
  BY NothingMeasured DEF Sound
<1>8. /\ a.frames \in [Stream -> Seq(Frame)] /\ a.bytes \in [Stream -> Nat]
      /\ a.sequences \in [Stream -> Nat] /\ a.total \in Int
  BY <1>1, <1>2, <1>5, <1>6
<1>9. a \in Buffer
  BY <1>2, <1>3, <1>8 DEF Buffer
<1>10. Weighed(keys, b.bytes) = b.total
  BY <1>1, <1>4, <1>6, <1>7
<1>11. SameButLast(keys, b.bytes, a.bytes)
  <2> SUFFICES ASSUME NEW i \in 1..(Len(keys) - 1)
               PROVE  b.bytes[keys[i]] = a.bytes[keys[i]]
    BY DEF SameButLast
  <2>1. i \in 1..Len(keys) /\ Len(keys) \in 1..Len(keys) /\ i # Len(keys)
    BY <1>3
  <2>2. keys[i] # s /\ keys[i] \in Stream
    BY <1>3, <2>1, ElementOfSeq DEF NoneTwice
  <2> QED BY <1>1, <1>2, <2>2
<1>12. Weighed(keys, a.bytes) = Weighed(keys, b.bytes) - b.bytes[s] + a.bytes[s]
  BY <1>1, <1>3, <1>8, <1>11, WeighedReweighed
<1>13. a.total = Taken(a, a.streams)
  <2>1. Taken(a, a.streams) = Weighed(keys, a.bytes)
    BY <1>2, <1>3, <1>9, TakenIsWeighed
  <2>2. a.bytes[s] = b.bytes[s] + frame.size /\ b.bytes[s] \in Nat
    BY <1>1, <1>2
  <2> QED BY <1>2, <1>5, <1>6, <1>10, <1>12, <2>1, <2>2
<1>14. /\ a.frames[s] = Append(b.frames[s], frame)
       /\ \A u \in Stream \ {s} : a.frames[u] = b.frames[u]
       /\ a.sequences[s] = frame.sequence
       /\ \A u \in Stream \ {s} : a.sequences[u] = b.sequences[u]
  BY <1>1, <1>2
<1>15. b.frames[s] \in Seq(Frame)
  BY <1>1
<1>16. \A u \in Stream : a.frames[u] # <<>> <=> u \in ToSet(a.streams)
  <2>1. a.frames[s] # <<>>
    BY <1>14, <1>15
  <2> QED BY <1>2, <1>3, <1>14, <2>1 DEF Sound
<1>17. \A u \in Stream : a.bytes[u] = Measure(a.frames[u])
  <2> TAKE u \in Stream
  <2>1. CASE u = s
    <3>1. Append(b.frames[s], frame) \in Seq(Frame)
      BY <1>15
    <3>2. Weighed(Append(b.frames[s], frame), SizeOf) = Weighed(b.frames[s], SizeOf) + SizeOf[frame]
      BY <1>15, SizeType, WeighedAppend
    <3>3. Measure(a.frames[s]) = Measure(b.frames[s]) + frame.size
      BY <1>14, <1>15, <3>1, <3>2, MeasureIsWeighed DEF SizeOf
    <3> QED BY <1>1, <1>2, <2>1, <3>3 DEF Sound
  <2>2. CASE u # s
    BY <1>1, <1>2, <1>14, <2>2 DEF Sound
  <2> QED BY <2>1, <2>2
<1>18. SoundFor(a, s)
  BY <1>2, <1>3, <1>9, <1>13, <1>16, <1>17 DEF SoundFor, Sound
<1> QED BY <1>14, <1>18 DEF a

(* _drop_oldest, n times, of the stream that is written to.                *)
LEMMA DropOldestFacts ==
  ASSUME NEW b, NEW s \in Stream, SoundFor(b, s), NEW n \in 0..(Len(b.frames[s]) - 1)
  PROVE  LET a == DropOldest(b, s, n) IN
           /\ SoundFor(a, s)
           /\ Shortened(b.frames[s], a.frames[s])
           /\ Len(a.frames[s]) = Len(b.frames[s]) - n
           /\ \A u \in Stream \ {s} : a.frames[u] = b.frames[u]
           /\ a.sequences = b.sequences /\ a.streams = b.streams
           /\ Oldest(b, s, n) \in Nat
           /\ a.bytes[s] = b.bytes[s] - Oldest(b, s, n)
           /\ a.total = b.total - Oldest(b, s, n)
<1> DEFINE a == DropOldest(b, s, n)
           f == b.frames[s]
           front == SubSeq(f, 1, n)
           back == SubSeq(f, n + 1, Len(f))
           freed == Oldest(b, s, n)
<1>1. /\ b \in Buffer /\ NoneTwice(b.streams) /\ b.streams \in Seq(Stream)
      /\ b.frames \in [Stream -> Seq(Frame)] /\ b.bytes \in [Stream -> Nat]
      /\ b.sequences \in [Stream -> Nat] /\ b.total = Taken(b, b.streams) /\ f \in Seq(Frame)
      /\ Len(b.streams) > 0 /\ b.streams[Len(b.streams)] = s
  BY BufferFacts DEF SoundFor, Sound
<1>2. /\ a.streams = b.streams
      /\ a.frames = [b.frames EXCEPT ![s] = back]
      /\ a.bytes = [b.bytes EXCEPT ![s] = @ - freed]
      /\ a.total = b.total - freed
      /\ a.sequences = b.sequences
      /\ a = [streams |-> a.streams, frames |-> a.frames, bytes |-> a.bytes,
              total |-> a.total, sequences |-> a.sequences]
  <2>1. a = [b EXCEPT !.frames[s] = back, !.bytes[s] = @ - freed, !.total = @ - freed]
    BY DEF DropOldest
  <2> HIDE DEF a, back, freed, f
  <2> QED BY <1>1, <2>1 DEF Buffer
<1> HIDE DEF a
<1>3. n \in 0..Len(f) /\ n <= Len(f) - 1 /\ Len(f) \in Nat /\ n \in Nat
  BY <1>1
<1> HIDE DEF f
<1>4. /\ front \in Seq(Frame) /\ back \in Seq(Frame) /\ Len(back) = Len(f) - n
      /\ \A i \in 1..(Len(f) - n) : back[i] = f[n + i]
  BY <1>1, <1>3, CutFacts
<1>5. Weighed(f, SizeOf) = Weighed(front, SizeOf) + Weighed(back, SizeOf)
  BY <1>1, <1>3, SizeType, WeighedSplit
<1> HIDE DEF front, back
<1>6. freed = Measure(front)
  BY DEF Oldest, front, f
<1> HIDE DEF freed
<1>7. freed \in Nat /\ Measure(back) \in Nat /\ Measure(back) = b.bytes[s] - freed
  <2>1. Measure(f) = Weighed(f, SizeOf) /\ Measure(front) = Weighed(front, SizeOf)
        /\ Measure(back) = Weighed(back, SizeOf) /\ Measure(front) \in Nat /\ Measure(back) \in Nat
    BY <1>1, <1>4, MeasureIsWeighed
  <2>2. b.bytes[s] = Measure(f)
    BY DEF SoundFor, Sound, f
  <2> QED BY <1>5, <1>6, <2>1, <2>2
<1>8. b.bytes[s] - freed \in Nat
  BY <1>7
<1>9. /\ a.frames \in [Stream -> Seq(Frame)] /\ a.bytes \in [Stream -> Nat] /\ a.total \in Int
  <2>1. a.frames \in [Stream -> Seq(Frame)]
    BY <1>1, <1>2, <1>4
  <2>2. a.bytes \in [Stream -> Nat]
    BY <1>1, <1>2, <1>8
  <2>3. b.total \in Int
    BY <1>1, BufferFacts
  <2> QED BY <1>2, <1>7, <2>1, <2>2, <2>3
<1>10. a \in Buffer
  BY <1>1, <1>2, <1>9 DEF Buffer
<1>11. SameButLast(b.streams, b.bytes, a.bytes)
  <2> SUFFICES ASSUME NEW i \in 1..(Len(b.streams) - 1)
               PROVE  b.bytes[b.streams[i]] = a.bytes[b.streams[i]]
    BY DEF SameButLast
  <2>1. i \in 1..Len(b.streams) /\ Len(b.streams) \in 1..Len(b.streams) /\ i # Len(b.streams)
    BY <1>1
  <2>2. b.streams[i] # s /\ b.streams[i] \in Stream
    BY <1>1, <2>1, ElementOfSeq DEF NoneTwice
  <2> QED BY <1>1, <1>2, <2>2
<1>12. Weighed(b.streams, a.bytes) = Weighed(b.streams, b.bytes) - b.bytes[s] + a.bytes[s]
  BY <1>1, <1>9, <1>11, WeighedReweighed
<1>13. a.total = Taken(a, a.streams)
  <2>1. Taken(a, a.streams) = Weighed(b.streams, a.bytes)
    BY <1>1, <1>2, <1>10, TakenIsWeighed
  <2>2. Taken(b, b.streams) = Weighed(b.streams, b.bytes) /\ Taken(b, b.streams) \in Nat
    BY <1>1, TakenIsWeighed
  <2>3. a.bytes[s] = b.bytes[s] - freed /\ b.bytes[s] \in Nat
    BY <1>1, <1>2
  <2> QED BY <1>1, <1>2, <1>7, <1>12, <2>1, <2>2, <2>3
<1>14. a.frames[s] = back /\ \A u \in Stream \ {s} : a.frames[u] = b.frames[u]
  BY <1>1, <1>2
<1>15. back # <<>>
  BY <1>3, <1>4
<1>16. \A u \in Stream : a.frames[u] # <<>> <=> u \in ToSet(a.streams)
  <2>1. f # <<>>
    BY <1>3
  <2> QED BY <1>2, <1>14, <1>15, <2>1 DEF SoundFor, Sound, f
<1>17. \A u \in Stream : a.bytes[u] = Measure(a.frames[u])
  <2> TAKE u \in Stream
  <2>1. CASE u = s
    BY <1>1, <1>2, <1>7, <1>14, <2>1
  <2>2. CASE u # s
    BY <1>1, <1>2, <1>14, <2>2 DEF SoundFor, Sound
  <2> QED BY <2>1, <2>2
<1>18. SoundFor(a, s)
  BY <1>1, <1>2, <1>10, <1>13, <1>16, <1>17 DEF SoundFor, Sound
<1>19. Shortened(f, a.frames[s]) /\ Len(a.frames[s]) = Len(f) - n
  BY <1>3, <1>4, <1>14 DEF Shortened
<1>20. a.bytes[s] = b.bytes[s] - freed
  BY <1>1, <1>2
<1> QED BY <1>2, <1>7, <1>14, <1>18, <1>19, <1>20 DEF a, f, freed

LEMMA SoundTypes ==
  ASSUME NEW b, NEW s \in Stream, SoundFor(b, s)
  PROVE  /\ b \in Buffer /\ b.streams \in Seq(Stream) /\ NoneTwice(b.streams)
         /\ b.frames \in [Stream -> Seq(Frame)] /\ b.bytes \in [Stream -> Nat]
         /\ b.sequences \in [Stream -> Nat] /\ b.total \in Nat
         /\ b.frames[s] \in Seq(Frame) /\ Len(b.frames[s]) \in Nat /\ Len(b.frames[s]) >= 1
         /\ Len(b.streams) \in Nat /\ Len(b.streams) >= 1
<1>1. b \in Buffer /\ b.total = Taken(b, b.streams) /\ NoneTwice(b.streams)
      /\ Len(b.streams) > 0 /\ b.streams[Len(b.streams)] = s
  BY DEF SoundFor, Sound
<1>2. /\ b.streams \in Seq(Stream) /\ b.frames \in [Stream -> Seq(Frame)]
      /\ b.bytes \in [Stream -> Nat] /\ b.sequences \in [Stream -> Nat]
  BY <1>1, BufferFacts
<1>3. b.total \in Nat
  BY <1>1, <1>2, TakenIsWeighed
<1>4. Len(b.streams) \in Nat /\ Len(b.streams) >= 1
  BY <1>1, <1>2
<1>5. s \in ToSet(b.streams)
  <2>1. Len(b.streams) \in DOMAIN b.streams
    BY <1>2, <1>4, LenProperties
  <2> QED BY <1>1, <2>1 DEF ToSet
<1>6. b.frames[s] # <<>> /\ b.frames[s] \in Seq(Frame)
  BY <1>2, <1>5 DEF SoundFor, Sound
<1>7. Len(b.frames[s]) \in Nat /\ Len(b.frames[s]) >= 1
  BY <1>6, EmptySeq
<1> QED BY <1>1, <1>2, <1>3, <1>4, <1>6, <1>7

(* _trim_stream and _trim_bytes.                                           *)
LEMMA TrimStreamFacts ==
  ASSUME NEW b, NEW s \in Stream, SoundFor(b, s), NEW count \in Nat, NEW limit \in Nat
  PROVE  LET a == TrimStream(b, s, count, limit) IN
           /\ SoundFor(a, s)
           /\ Shortened(b.frames[s], a.frames[s])
           /\ (Len(a.frames[s]) <= count /\ a.bytes[s] <= limit) \/ Len(a.frames[s]) = 1
           /\ \A u \in Stream \ {s} : a.frames[u] = b.frames[u]
           /\ a.sequences = b.sequences /\ a.streams = b.streams
           /\ a.bytes[s] <= b.bytes[s] /\ a.total - a.bytes[s] = b.total - b.bytes[s]
<1> DEFINE length == Len(b.frames[s])
           Fits(n) == length - n <= count /\ b.bytes[s] - Oldest(b, s, n) <= limit
           enough == {n \in 0..(length - 1) : n = length - 1 \/ Fits(n)}
           n == Min(enough)
           a == DropOldest(b, s, n)
<1>1. length \in Nat /\ length >= 1 /\ b.bytes[s] \in Nat /\ b.total \in Nat
  BY SoundTypes
<1>2. TrimStream(b, s, count, limit) = a
  BY DEF TrimStream
<1> HIDE DEF length, Fits
<1>3. enough \in SUBSET Nat /\ enough # {}
  <2>1. length - 1 \in enough
    BY <1>1
  <2> QED BY <1>1, <2>1
<1>4. n \in enough
  BY <1>3, LeastMember
<1>5. n \in 0..(length - 1) /\ (n = length - 1 \/ Fits(n))
  BY <1>4
<1> HIDE DEF enough, n
<1>6. n \in 0..(Len(b.frames[s]) - 1)
  BY <1>5 DEF length
<1>7. /\ SoundFor(a, s)
      /\ Shortened(b.frames[s], a.frames[s])
      /\ Len(a.frames[s]) = length - n
      /\ \A u \in Stream \ {s} : a.frames[u] = b.frames[u]
      /\ a.sequences = b.sequences /\ a.streams = b.streams
      /\ Oldest(b, s, n) \in Nat
      /\ a.bytes[s] = b.bytes[s] - Oldest(b, s, n)
      /\ a.total = b.total - Oldest(b, s, n)
  BY <1>6, DropOldestFacts DEF length
<1> HIDE DEF a
<1>8. a.bytes[s] <= b.bytes[s] /\ a.total - a.bytes[s] = b.total - b.bytes[s]
  BY <1>1, <1>7
<1>9. (Len(a.frames[s]) <= count /\ a.bytes[s] <= limit) \/ Len(a.frames[s]) = 1
  <2>1. CASE n = length - 1
    BY <1>1, <1>7, <2>1
  <2>2. CASE Fits(n)
    BY <1>7, <2>2 DEF Fits
  <2> QED BY <1>5, <2>1, <2>2
<1> QED BY <1>2, <1>7, <1>8, <1>9

(* _forget, of the n least recently written streams.                       *)
KeptOrGone(b, a, u) ==
  \/ a.frames[u] = b.frames[u] /\ a.bytes[u] = b.bytes[u] /\ a.sequences[u] = b.sequences[u]
  \/ a.frames[u] = <<>> /\ a.bytes[u] = 0 /\ a.sequences[u] = 0

LEMMA ForgetFacts ==
  ASSUME NEW b, NEW s \in Stream, SoundFor(b, s), NEW n \in 0..(Len(b.streams) - 1)
  PROVE  LET a == Forget(b, n) IN
           /\ SoundFor(a, s)
           /\ Len(a.streams) = Len(b.streams) - n
           /\ a.total = b.total - LeastRecent(b, n)
           /\ a.frames[s] = b.frames[s] /\ a.bytes[s] = b.bytes[s]
           /\ a.sequences[s] = b.sequences[s]
           /\ \A u \in Stream : KeptOrGone(b, a, u)
<1> DEFINE a == Forget(b, n)
           p == b.streams
           front == SubSeq(p, 1, n)
           back == SubSeq(p, n + 1, Len(p))
           gone == ToSet(front)
           freed == LeastRecent(b, n)
<1>1. /\ b \in Buffer /\ p \in Seq(Stream) /\ NoneTwice(p)
      /\ b.frames \in [Stream -> Seq(Frame)] /\ b.bytes \in [Stream -> Nat]
      /\ b.sequences \in [Stream -> Nat] /\ b.total \in Nat
      /\ Len(p) \in Nat /\ Len(p) >= 1
  BY SoundTypes
<1>2. p[Len(p)] = s /\ b.total = Taken(b, p)
  BY DEF SoundFor, Sound
<1>3. /\ a.streams = back
      /\ a.frames = [u \in Stream |-> IF u \in gone THEN <<>> ELSE b.frames[u]]
      /\ a.total = b.total - freed
      /\ a.bytes = [u \in Stream |-> IF u \in gone THEN 0 ELSE b.bytes[u]]
      /\ a.sequences = [u \in Stream |-> IF u \in gone THEN 0 ELSE b.sequences[u]]
      /\ a = [streams |-> a.streams, frames |-> a.frames, bytes |-> a.bytes,
              total |-> a.total, sequences |-> a.sequences]
  <2>1. a = [b EXCEPT !.streams = back,
                      !.frames = [u \in Stream |-> IF u \in gone THEN <<>> ELSE @[u]],
                      !.total = @ - freed,
                      !.bytes = [u \in Stream |-> IF u \in gone THEN 0 ELSE @[u]],
                      !.sequences = [u \in Stream |-> IF u \in gone THEN 0 ELSE @[u]]]
    BY DEF Forget
  <2> HIDE DEF a, back, gone, freed, p
  <2> QED BY <1>1, <2>1 DEF Buffer
<1> HIDE DEF a
<1>4. n \in 0..Len(p) /\ n <= Len(p) - 1 /\ n \in Nat
  BY <1>1
<1>5. freed = Taken(b, front)
  BY DEF LeastRecent
<1> HIDE DEF freed, p
<1>6. /\ front \in Seq(Stream) /\ Len(front) = n
      /\ back \in Seq(Stream) /\ Len(back) = Len(p) - n
      /\ \A i \in 1..(Len(p) - n) : back[i] = p[n + i]
  BY <1>1, <1>4, CutFacts
<1>7. /\ NoneTwice(back) /\ gone \cap ToSet(back) = {} /\ gone \cup ToSet(back) = ToSet(p)
  BY <1>1, <1>4, CutApart
<1>8. Weighed(p, b.bytes) = Weighed(front, b.bytes) + Weighed(back, b.bytes)
  BY <1>1, <1>4, WeighedSplit
<1> HIDE DEF front, back, gone
<1>9. Len(back) > 0 /\ back[Len(back)] = s
  <2>1. Len(back) \in 1..(Len(p) - n) /\ n + Len(back) = Len(p)
    BY <1>1, <1>4, <1>6
  <2> QED BY <1>2, <1>6, <2>1
<1>10. s \notin gone
  <2>1. Len(back) \in DOMAIN back
    BY <1>6, <1>9, LenProperties
  <2>2. s \in ToSet(back)
    BY <1>9, <2>1 DEF ToSet
  <2> QED BY <1>7, <2>2
<1>11. a.frames \in [Stream -> Seq(Frame)] /\ a.bytes \in [Stream -> Nat]
       /\ a.sequences \in [Stream -> Nat]
  BY <1>1, <1>3
<1>12. /\ b.total = Weighed(p, b.bytes) /\ freed = Weighed(front, b.bytes) /\ freed \in Nat
       /\ Weighed(back, b.bytes) \in Nat
  <2>1. Weighed(back, b.bytes) \in Nat
    BY <1>1, <1>6, WeighedType
  <2> QED BY <1>1, <1>2, <1>5, <1>6, <2>1, TakenIsWeighed
<1>13. a \in Buffer
  <2>1. a.total \in Int /\ a.streams \in Seq(Stream)
    BY <1>1, <1>3, <1>6, <1>12
  <2> QED BY <1>3, <1>11, <2>1 DEF Buffer
<1>14. a.total = Taken(a, a.streams)
  <2>1. Taken(a, back) = Weighed(back, a.bytes)
    BY <1>6, <1>13, TakenIsWeighed
  <2>2. \A i \in 1..Len(back) : back[i] \in Stream /\ back[i] \notin gone
    <3>1. \A i \in 1..Len(back) : back[i] \in ToSet(back)
      BY <1>6, LenProperties DEF ToSet
    <3> QED BY <1>6, <1>7, <3>1, ElementOfSeq
  <2>3. \A i \in 1..Len(back) : b.bytes[back[i]] = a.bytes[back[i]]
    BY <1>3, <2>2
  <2>4. Weighed(back, b.bytes) = Weighed(back, a.bytes)
    <3>1. Weights(back, b.bytes) = Weights(back, a.bytes)
      BY <2>3 DEF Weights
    <3> QED BY <3>1 DEF Weighed
  <2> QED BY <1>3, <1>8, <1>12, <2>1, <2>4
<1>15. \A u \in Stream : /\ u \in gone => a.frames[u] = <<>> /\ a.bytes[u] = 0 /\ a.sequences[u] = 0
                         /\ u \notin gone => /\ a.frames[u] = b.frames[u]
                                             /\ a.bytes[u] = b.bytes[u]
                                             /\ a.sequences[u] = b.sequences[u]
  BY <1>3
<1>16. \A u \in Stream : b.frames[u] # <<>> <=> u \in ToSet(p)
  BY DEF SoundFor, Sound, p
<1>17. \A u \in Stream : b.bytes[u] = Measure(b.frames[u])
  BY DEF SoundFor, Sound
<1>18. \A u \in Stream : a.frames[u] # <<>> <=> u \in ToSet(a.streams)
  BY <1>3, <1>7, <1>15, <1>16
<1>19. \A u \in Stream : a.bytes[u] = Measure(a.frames[u])
  BY <1>15, <1>17, NothingMeasured
<1>20. SoundFor(a, s)
  BY <1>3, <1>7, <1>9, <1>13, <1>14, <1>18, <1>19 DEF SoundFor, Sound
<1>21. \A u \in Stream : KeptOrGone(b, a, u)
  BY <1>15 DEF KeptOrGone
<1>22. Len(a.streams) = Len(b.streams) - n
  BY <1>3, <1>6 DEF p
<1> QED BY <1>3, <1>10, <1>15, <1>20, <1>21, <1>22 DEF a, freed

(* _trim_total.                                                            *)
LEMMA TrimTotalFacts ==
  ASSUME NEW b, NEW s \in Stream, SoundFor(b, s)
  PROVE  LET a == TrimTotal(b, s) IN
           /\ SoundFor(a, s)
           /\ Shortened(b.frames[s], a.frames[s])
           /\ a.bytes[s] <= b.bytes[s] /\ a.sequences[s] = b.sequences[s]
           /\ \A u \in Stream \ {s} : KeptOrGone(b, a, u)
           /\ Len(a.streams) <= MaxStreams
           /\ a.total <= MaxTotalBytes \/ (Len(a.streams) = 1 /\ Len(a.frames[s]) = 1)
<1> DEFINE length == Len(b.streams)
           Fits(n) == length - n <= MaxStreams /\ b.total - LeastRecent(b, n) <= MaxTotalBytes
           enough == {n \in 0..(length - 1) : n = length - 1 \/ Fits(n)}
           evicted == Min(enough)
           rest == Forget(b, evicted)
           trimmed == TrimStream(rest, s, Len(rest.frames[s]), MaxTotalBytes)
           a == TrimTotal(b, s)
<1>1. length \in Nat /\ length >= 1 /\ b.bytes[s] \in Nat /\ b.total \in Nat
      /\ b.frames[s] \in Seq(Frame) /\ Len(b.frames[s]) >= 1
  BY SoundTypes
<1>2. a = IF rest.total > MaxTotalBytes THEN trimmed ELSE rest
  BY DEF TrimTotal
<1> HIDE DEF length, Fits, a
<1>3. enough \in SUBSET Nat /\ enough # {}
  <2>1. length - 1 \in 0..(length - 1) /\ 0..(length - 1) \subseteq Nat
    BY <1>1
  <2>2. length - 1 \in enough /\ enough \subseteq 0..(length - 1)
    BY <2>1
  <2> QED BY <2>1, <2>2
<1>4. evicted \in enough
  BY <1>3, LeastMember
<1>5. evicted \in 0..(length - 1) /\ (evicted = length - 1 \/ Fits(evicted))
  BY <1>4
<1> HIDE DEF enough, evicted
<1>6. evicted \in 0..(Len(b.streams) - 1)
  BY <1>5 DEF length
<1>7. /\ SoundFor(rest, s)
      /\ Len(rest.streams) = length - evicted
      /\ rest.total = b.total - LeastRecent(b, evicted)
      /\ rest.frames[s] = b.frames[s] /\ rest.bytes[s] = b.bytes[s]
      /\ rest.sequences[s] = b.sequences[s]
      /\ \A u \in Stream : KeptOrGone(b, rest, u)
  BY <1>6, ForgetFacts DEF length
<1> HIDE DEF rest
<1>8. rest.total \in Nat /\ rest.streams \in Seq(Stream) /\ rest.bytes[s] \in Nat
      /\ Len(rest.frames[s]) \in Nat
  BY <1>7, SoundTypes
<1>9. MaxStreams \in Nat /\ MaxStreams >= 1 /\ MaxTotalBytes \in Nat
  BY LimitsType
<1>10. /\ Len(rest.streams) <= MaxStreams
       /\ rest.total > MaxTotalBytes => Len(rest.streams) = 1
  <2>1. CASE evicted = length - 1
    BY <1>1, <1>7, <1>9, <2>1
  <2>2. CASE Fits(evicted)
    BY <1>7, <1>8, <1>9, <2>2 DEF Fits
  <2> QED BY <1>5, <2>1, <2>2
<1>11. CASE ~ (rest.total > MaxTotalBytes)
  <2>1. a = rest /\ rest.total <= MaxTotalBytes
    BY <1>2, <1>8, <1>9, <1>11
  <2>2. Shortened(b.frames[s], b.frames[s])
    <3>1. 0 \in 0..(Len(b.frames[s]) - 1) /\ Len(b.frames[s]) = Len(b.frames[s]) - 0
      BY <1>1
    <3>2. \A i \in 1..(Len(b.frames[s]) - 0) : b.frames[s][i] = b.frames[s][0 + i]
      BY <1>1
    <3> QED BY <3>1, <3>2 DEF Shortened
  <2>3. rest.bytes[s] <= b.bytes[s]
    BY <1>1, <1>7
  <2> QED BY <1>7, <1>10, <2>1, <2>2, <2>3 DEF a
<1>12. CASE rest.total > MaxTotalBytes
  <2>1. a = trimmed /\ Len(rest.streams) = 1
    BY <1>2, <1>10, <1>12
  <2>2. /\ SoundFor(trimmed, s)
        /\ Shortened(rest.frames[s], trimmed.frames[s])
        /\ (Len(trimmed.frames[s]) <= Len(rest.frames[s]) /\ trimmed.bytes[s] <= MaxTotalBytes)
             \/ Len(trimmed.frames[s]) = 1
        /\ \A u \in Stream \ {s} : trimmed.frames[u] = rest.frames[u]
        /\ trimmed.sequences = rest.sequences /\ trimmed.streams = rest.streams
        /\ trimmed.bytes[s] <= rest.bytes[s]
        /\ trimmed.total - trimmed.bytes[s] = rest.total - rest.bytes[s]
    BY <1>7, <1>8, <1>9, TrimStreamFacts
  <2> HIDE DEF trimmed
  <2>3. \A u \in Stream \ {s} : trimmed.bytes[u] = rest.bytes[u]
    BY <1>7, <2>2 DEF SoundFor, Sound
  <2>4. rest.total = rest.bytes[s]
    <3>1. rest \in Buffer /\ rest.bytes \in [Stream -> Nat]
      BY <1>7, SoundTypes
    <3>2. rest.total = Weighed(rest.streams, rest.bytes) /\ rest.streams[1] = s
      BY <1>7, <1>8, <2>1, <3>1, TakenIsWeighed DEF SoundFor, Sound
    <3> DEFINE none == SubSeq(rest.streams, 1, 0)
    <3>3. none \in Seq(Stream) /\ none = <<>> /\ rest.streams = Append(none, s)
      BY <1>8, <2>1, <3>2
    <3> HIDE DEF none
    <3>4. Weighed(Append(none, s), rest.bytes) = Weighed(none, rest.bytes) + rest.bytes[s]
      BY <3>1, <3>3, WeighedAppend
    <3> QED BY <1>8, <3>2, <3>3, <3>4, WeighedNothing
  <2>5. trimmed.total \in Nat /\ trimmed.bytes \in [Stream -> Nat]
    BY <2>2, SoundTypes
  <2>6. trimmed.total = trimmed.bytes[s]
    BY <1>8, <2>2, <2>4, <2>5
  <2>7. trimmed.total <= MaxTotalBytes \/ (Len(trimmed.streams) = 1 /\ Len(trimmed.frames[s]) = 1)
    BY <2>1, <2>2, <2>6
  <2>8. \A u \in Stream \ {s} : KeptOrGone(b, trimmed, u)
    BY <1>7, <2>2, <2>3 DEF KeptOrGone
  <2>9. Shortened(b.frames[s], trimmed.frames[s]) /\ trimmed.bytes[s] <= b.bytes[s]
        /\ trimmed.sequences[s] = b.sequences[s] /\ Len(trimmed.streams) <= MaxStreams
    BY <1>7, <1>10, <2>2
  <2> QED BY <2>1, <2>2, <2>7, <2>8, <2>9 DEF a
<1> QED BY <1>11, <1>12

\* What one stream may take.
Within(b, s) ==
  b.frames[s] # <<>> => /\ Len(b.frames[s]) <= MaxFrames
                        /\ b.bytes[s] <= MaxStreamBytes \/ Len(b.frames[s]) = 1

(* record().                                                               *)
LEMMA RecordFacts ==
  ASSUME NEW b, Sound(b), \A u \in Stream : Within(b, u), NEW s \in Stream, NEW frame \in Frame
  PROVE  LET a == Record(b, s, frame) IN
           /\ SoundFor(a, s)
           /\ \A u \in Stream : Within(a, u)
           /\ Shortened(Append(b.frames[s], frame), a.frames[s])
           /\ a.sequences[s] = frame.sequence
           /\ \A u \in Stream \ {s} : KeptOrGone(b, a, u)
           /\ Len(a.streams) <= MaxStreams
           /\ a.total <= MaxTotalBytes \/ (Len(a.streams) = 1 /\ Len(a.frames[s]) = 1)
<1> DEFINE c == Appended(b, s, frame)
           d == TrimStream(c, s, MaxFrames, MaxStreamBytes)
           a == TrimTotal(d, s)
<1>1. MaxFrames \in Nat /\ MaxFrames >= 1 /\ MaxStreamBytes \in Nat
  BY LimitsType
<1>2. /\ SoundFor(c, s)
      /\ c.frames[s] = Append(b.frames[s], frame)
      /\ \A u \in Stream \ {s} : c.frames[u] = b.frames[u]
      /\ c.sequences[s] = frame.sequence
      /\ \A u \in Stream \ {s} : c.sequences[u] = b.sequences[u]
  BY AppendedFacts
<1> HIDE DEF c
<1>3. /\ SoundFor(d, s)
      /\ Shortened(c.frames[s], d.frames[s])
      /\ (Len(d.frames[s]) <= MaxFrames /\ d.bytes[s] <= MaxStreamBytes) \/ Len(d.frames[s]) = 1
      /\ \A u \in Stream \ {s} : d.frames[u] = c.frames[u]
      /\ d.sequences = c.sequences
  BY <1>1, <1>2, TrimStreamFacts
<1> HIDE DEF d
<1>4. /\ SoundFor(a, s)
      /\ Shortened(d.frames[s], a.frames[s])
      /\ a.bytes[s] <= d.bytes[s] /\ a.sequences[s] = d.sequences[s]
      /\ \A u \in Stream \ {s} : KeptOrGone(d, a, u)
      /\ Len(a.streams) <= MaxStreams
      /\ a.total <= MaxTotalBytes \/ (Len(a.streams) = 1 /\ Len(a.frames[s]) = 1)
  BY <1>3, TrimTotalFacts
<1>5. Record(b, s, frame) = a
  BY DEF Record, d, c
<1> HIDE DEF a
<1>6. /\ c.frames[s] \in Seq(Frame) /\ d.frames[s] \in Seq(Frame) /\ a.frames[s] \in Seq(Frame)
      /\ d.bytes[s] \in Nat /\ a.bytes[s] \in Nat
  BY <1>2, <1>3, <1>4, SoundTypes
<1>7. Shortened(c.frames[s], a.frames[s])
  BY <1>3, <1>4, <1>6, ShortenedTwice
<1>8. Within(a, s)
  <2>1. Len(a.frames[s]) >= 1 /\ Len(a.frames[s]) <= Len(d.frames[s])
    BY <1>4, <1>6, ShortenedType
  <2>2. Len(a.frames[s]) \in Nat /\ Len(d.frames[s]) \in Nat
    BY <1>6
  <2>3. Len(d.frames[s]) <= MaxFrames
    BY <1>1, <1>3
  <2>4. Len(a.frames[s]) <= MaxFrames
    BY <1>1, <2>1, <2>2, <2>3
  <2>5. CASE d.bytes[s] <= MaxStreamBytes
    <3>1. a.bytes[s] <= MaxStreamBytes
      BY <1>1, <1>4, <1>6, <2>5
    <3> QED BY <2>4, <3>1 DEF Within
  <2>6. CASE Len(d.frames[s]) = 1
    <3>1. \A m, n \in Nat : m >= 1 /\ m <= n /\ n = 1 => m = 1
      OBVIOUS
    <3>2. Len(a.frames[s]) = 1
      BY ONLY <2>1, <2>2, <2>6, <3>1
    <3> QED BY <2>4, <3>2 DEF Within
  <2> QED BY <1>3, <2>5, <2>6
<1>9. ASSUME NEW u \in Stream \ {s}
      PROVE  KeptOrGone(b, a, u)
  <2>1. d.frames[u] = b.frames[u] /\ d.sequences[u] = b.sequences[u]
    BY <1>2, <1>3
  <2>2. d.bytes[u] = b.bytes[u]
    BY <1>3, <2>1 DEF SoundFor, Sound
  <2>3. KeptOrGone(d, a, u)
    BY <1>4
  <2> QED BY <2>1, <2>2, <2>3 DEF KeptOrGone
<1>10. \A u \in Stream \ {s} : Within(a, u)
  BY <1>9 DEF KeptOrGone, Within
<1> QED BY <1>2, <1>3, <1>4, <1>5, <1>7, <1>8, <1>9, <1>10

------------------------------------------------------------------------------
(* The endpoints.                                                          *)

\* The frames of s that are retained are the last of its answer, numbered one
\* after the other.
RunOf(s) ==
  LET f == buffer.frames[s] IN
    /\ Len(f) <= produced[s] /\ Len(f) <= buffer.sequences[s]
    /\ \A n \in 1..Len(f) : /\ f[n].position = produced[s] - Len(f) + n
                            /\ f[n].sequence = buffer.sequences[s] - Len(f) + n

\* A stream that was not evicted while it ran is numbered by position, for its
\* client too.
Numbered(s) ==
  s \notin forgotten =>
    /\ s \in open \/ buffer.frames[s] # <<>> => buffer.sequences[s] = produced[s]
    /\ reader[s].id = reader[s].position
    /\ reader[s].position <= produced[s]

EndpointType ==
  /\ produced \in [Stream -> Nat]
  /\ reader \in [Stream -> [position : Nat, id : Nat, connected : BOOLEAN]]

Ceilings(b) ==
  /\ \A s \in Stream : Within(b, s)
  /\ Len(b.streams) <= MaxStreams
  /\ b.total <= MaxTotalBytes \/ \E s \in Stream : b.streams = <<s>> /\ Len(b.frames[s]) = 1

ReplayInv ==
  /\ EndpointType
  /\ Sound(buffer) /\ Ceilings(buffer)
  /\ \A s \in Stream : RunOf(s)
  /\ \A s \in Stream : Numbered(s)
  /\ ReplayIsHonest

LEMMA InitReplay == Init => ReplayInv
<1> SUFFICES ASSUME Init PROVE ReplayInv
  OBVIOUS
<1>1. /\ buffer.streams = <<>> /\ buffer.frames = [s \in Stream |-> <<>>]
      /\ buffer.bytes = [s \in Stream |-> 0] /\ buffer.total = 0
      /\ buffer.sequences = [s \in Stream |-> 0]
      /\ buffer = [streams |-> buffer.streams, frames |-> buffer.frames, bytes |-> buffer.bytes,
                   total |-> buffer.total, sequences |-> buffer.sequences]
      /\ produced = [s \in Stream |-> 0] /\ reply.found = FALSE
      /\ reader = [s \in Stream |-> [position |-> 0, id |-> 0, connected |-> TRUE]]
  BY DEF Init
<1>2. buffer \in Buffer
  <2>1. /\ <<>> \in Seq(Stream) /\ [s \in Stream |-> <<>>] \in [Stream -> Seq(Frame)]
        /\ [s \in Stream |-> 0] \in [Stream -> Nat]
    OBVIOUS
  <2>2. /\ buffer.streams \in Seq(Stream) /\ buffer.frames \in [Stream -> Seq(Frame)]
        /\ buffer.bytes \in [Stream -> Nat] /\ buffer.total \in Int
        /\ buffer.sequences \in [Stream -> Nat]
    BY <1>1, <2>1
  <2> QED BY <1>1, <2>2 DEF Buffer
<1>3. ToSet(<<>>) = {} /\ NoneTwice(<<>>)
  BY DEF ToSet, NoneTwice
<1>4. Taken(buffer, <<>>) = 0
  <2>1. <<>> \in Seq(Stream)
    OBVIOUS
  <2> QED BY <1>2, <2>1, TakenIsWeighed, WeighedNothing
<1>5. Sound(buffer)
  BY <1>1, <1>2, <1>3, <1>4, NothingMeasured DEF Sound
<1>6. Ceilings(buffer)
  BY <1>1, LimitsType DEF Ceilings, Within
<1>7. EndpointType
  BY <1>1 DEF EndpointType
<1>8. \A s \in Stream : RunOf(s)
  BY <1>1 DEF RunOf
<1>9. \A s \in Stream : Numbered(s)
  BY <1>1 DEF Numbered
<1> QED BY <1>1, <1>5, <1>6, <1>7, <1>8, <1>9 DEF ReplayInv, ReplayIsHonest

\* What a record does to the stream it is for.
LEMMA ProduceRecords ==
  ASSUME ReplayInv, NEW s \in Stream, Produce(s)
  PROVE  \E frame \in Frame :
           /\ frame.sequence = buffer.sequences[s] + 1 /\ frame.position = produced[s] + 1
           /\ SoundFor(buffer', s) /\ Ceilings(buffer')
           /\ Shortened(Append(buffer.frames[s], frame), buffer'.frames[s])
           /\ buffer'.sequences[s] = frame.sequence
           /\ \A u \in Stream \ {s} : KeptOrGone(buffer, buffer', u)
           /\ reader' = IF reader[s].connected
                          THEN [reader EXCEPT ![s].position = frame.position,
                                              ![s].id = frame.sequence]
                          ELSE reader
<1>1. produced \in [Stream -> Nat] /\ Sound(buffer) /\ \A u \in Stream : Within(buffer, u)
  BY DEF ReplayInv, EndpointType, Ceilings
<1>2. buffer.sequences \in [Stream -> Nat]
  BY <1>1, BufferFacts DEF Sound
<1>3. produced'[s] = produced[s] + 1
  BY <1>1 DEF Produce
<1>4. PICK size \in Size :
        LET sequence == buffer.sequences[s] + 1
        IN  /\ buffer' = Record(buffer, s, [sequence |-> sequence, position |-> produced'[s],
                                            size |-> size])
            /\ reader' = IF reader[s].connected
                           THEN [reader EXCEPT ![s].position = produced'[s], ![s].id = sequence]
                           ELSE reader
  BY DEF Produce
<1> DEFINE frame == [sequence |-> buffer.sequences[s] + 1, position |-> produced[s] + 1,
                     size |-> size]
           a == Record(buffer, s, frame)
<1>5. frame \in Frame
  BY <1>1, <1>2, LimitsType DEF Frame
<1>6. frame.sequence = buffer.sequences[s] + 1 /\ frame.position = produced[s] + 1
  OBVIOUS
<1>7. buffer' = a
  BY <1>3, <1>4
<1>8. reader' = IF reader[s].connected
                  THEN [reader EXCEPT ![s].position = frame.position, ![s].id = frame.sequence]
                  ELSE reader
  BY <1>3, <1>4
<1> HIDE DEF frame
<1>9. /\ SoundFor(a, s)
      /\ \A u \in Stream : Within(a, u)
      /\ Shortened(Append(buffer.frames[s], frame), a.frames[s])
      /\ a.sequences[s] = frame.sequence
      /\ \A u \in Stream \ {s} : KeptOrGone(buffer, a, u)
      /\ Len(a.streams) <= MaxStreams
      /\ a.total <= MaxTotalBytes \/ (Len(a.streams) = 1 /\ Len(a.frames[s]) = 1)
  BY <1>1, <1>5, RecordFacts
<1> HIDE DEF a
<1>10. Len(a.streams) = 1 => a.streams = <<s>>
  BY <1>9, SoundTypes DEF SoundFor
<1>11. Ceilings(a)
  BY <1>9, <1>10 DEF Ceilings
<1> QED BY <1>5, <1>6, <1>7, <1>8, <1>9, <1>11

LEMMA ProduceReplay ==
  ASSUME ReplayInv, NEW s \in Stream, Produce(s)
  PROVE  ReplayInv'
<1>1. /\ produced \in [Stream -> Nat]
      /\ reader \in [Stream -> [position : Nat, id : Nat, connected : BOOLEAN]]
      /\ \A u \in Stream : RunOf(u)
      /\ \A u \in Stream : Numbered(u)
      /\ ReplayIsHonest /\ Sound(buffer)
  BY DEF ReplayInv, EndpointType
<1>2. /\ s \in open /\ open' = open /\ reply' = reply
      /\ produced' = [produced EXCEPT ![s] = @ + 1]
      /\ forgotten' = forgotten \cup {t \in open : buffer'.sequences[t] < buffer.sequences[t]}
  BY DEF Produce
<1>3. PICK frame \in Frame :
        /\ frame.sequence = buffer.sequences[s] + 1 /\ frame.position = produced[s] + 1
        /\ SoundFor(buffer', s) /\ Ceilings(buffer')
        /\ Shortened(Append(buffer.frames[s], frame), buffer'.frames[s])
        /\ buffer'.sequences[s] = frame.sequence
        /\ \A u \in Stream \ {s} : KeptOrGone(buffer, buffer', u)
        /\ reader' = IF reader[s].connected
                       THEN [reader EXCEPT ![s].position = frame.position,
                                           ![s].id = frame.sequence]
                       ELSE reader
  BY ProduceRecords
<1>4. /\ buffer.frames \in [Stream -> Seq(Frame)] /\ buffer.sequences \in [Stream -> Nat]
      /\ buffer'.frames[s] \in Seq(Frame)
  BY <1>1, <1>3, BufferFacts, SoundTypes DEF Sound
<1>5. /\ produced' \in [Stream -> Nat] /\ produced'[s] = produced[s] + 1
      /\ \A u \in Stream \ {s} : produced'[u] = produced[u]
  BY <1>1, <1>2
<1>6. /\ reader' \in [Stream -> [position : Nat, id : Nat, connected : BOOLEAN]]
      /\ \A u \in Stream \ {s} : reader'[u] = reader[u]
      /\ \/ reader'[s] = reader[s]
         \/ reader'[s].position = frame.position /\ reader'[s].id = frame.sequence
  <2>1. frame.position \in Nat /\ frame.sequence \in Nat
    BY DEF Frame
  <2>2. CASE reader[s].connected
    BY <1>1, <1>3, <2>1, <2>2
  <2>3. CASE ~ reader[s].connected
    BY <1>1, <1>3, <2>3
  <2> QED BY <2>2, <2>3
<1>7. EndpointType'
  BY <1>5, <1>6 DEF EndpointType
<1>8. Sound(buffer')
  BY <1>3 DEF SoundFor
<1>9. ASSUME NEW u \in Stream PROVE RunOf(u)'
  <2>1. CASE u = s
    <3> DEFINE f == buffer.frames[s]
               g == buffer'.frames[s]
               h == Append(f, frame)
    <3>1. /\ f \in Seq(Frame) /\ g \in Seq(Frame) /\ Len(f) \in Nat
          /\ h \in Seq(Frame) /\ Len(h) = Len(f) + 1 /\ h[Len(f) + 1] = frame
          /\ \A i \in 1..Len(f) : h[i] = f[i]
      BY <1>4
    <3>2. /\ Len(f) <= produced[s] /\ Len(f) <= buffer.sequences[s]
          /\ \A n \in 1..Len(f) : /\ f[n].position = produced[s] - Len(f) + n
                                  /\ f[n].sequence = buffer.sequences[s] - Len(f) + n
      BY <1>1 DEF RunOf
    <3>3. PICK k \in 0..(Len(h) - 1) :
            Len(g) = Len(h) - k /\ \A i \in 1..(Len(h) - k) : g[i] = h[k + i]
      BY <1>3 DEF Shortened
    <3>4. produced[s] \in Nat /\ buffer.sequences[s] \in Nat /\ k \in Nat
      BY <1>1, <1>4
    <3>5. buffer'.sequences[s] = buffer.sequences[s] + 1
      BY <1>3
    <3> HIDE DEF f, g, h
    <3>6. Len(g) = Len(f) + 1 - k
      BY <3>1, <3>3
    <3>7. Len(g) <= produced'[s] /\ Len(g) <= buffer'.sequences[s]
      BY <1>5, <3>1, <3>2, <3>4, <3>5, <3>6
    <3>8. ASSUME NEW n \in 1..Len(g)
          PROVE  /\ g[n].position = produced'[s] - Len(g) + n
                 /\ g[n].sequence = buffer'.sequences[s] - Len(g) + n
      <4>1. n \in 1..(Len(h) - k) /\ g[n] = h[k + n] /\ n \in Nat
        BY <3>3
      <4>2. CASE k + n \in 1..Len(f)
        <5>1. g[n] = f[k + n]
          BY <3>1, <4>1, <4>2
        <5>2. f[k + n].position = produced[s] - Len(f) + (k + n)
              /\ f[k + n].sequence = buffer.sequences[s] - Len(f) + (k + n)
          BY <3>2, <4>2
        <5>3. \A x, l, m \in Nat : x - l + (k + m) = (x + 1) - (l + 1 - k) + m
          BY <3>4
        <5>4. /\ produced[s] - Len(f) + (k + n) = (produced[s] + 1) - (Len(f) + 1 - k) + n
              /\ buffer.sequences[s] - Len(f) + (k + n) =
                   (buffer.sequences[s] + 1) - (Len(f) + 1 - k) + n
          BY <3>1, <3>4, <4>1, <5>3
        <5> QED BY <1>5, <3>5, <3>6, <5>1, <5>2, <5>4
      <4>3. CASE k + n = Len(f) + 1
        <5>1. g[n] = frame /\ n = Len(g)
          BY <3>1, <3>4, <3>6, <4>1, <4>3
        <5>2. \A x, l \in Nat : x + 1 = (x + 1) - l + l
          OBVIOUS
        <5>3. Len(g) \in Nat
          BY <3>1
        <5>4. /\ produced[s] + 1 = (produced[s] + 1) - Len(g) + n
              /\ buffer.sequences[s] + 1 = (buffer.sequences[s] + 1) - Len(g) + n
          BY <3>4, <5>1, <5>2, <5>3
        <5> QED BY <1>3, <1>5, <3>5, <5>1, <5>4
      <4> QED BY <3>1, <3>4, <4>1, <4>2, <4>3
    <3> QED BY <2>1, <3>7, <3>8 DEF RunOf, g
  <2>2. CASE u # s
    <3>1. KeptOrGone(buffer, buffer', u) /\ produced'[u] = produced[u] /\ produced[u] \in Nat
      BY <1>1, <1>3, <1>5, <2>2
    <3>2. RunOf(u)
      BY <1>1
    <3>3. CASE buffer'.frames[u] = buffer.frames[u] /\ buffer'.sequences[u] = buffer.sequences[u]
      BY <3>1, <3>2, <3>3 DEF RunOf
    <3>4. CASE buffer'.frames[u] = <<>> /\ buffer'.sequences[u] = 0
      BY <3>1, <3>4 DEF RunOf
    <3> QED BY <3>1, <3>3, <3>4 DEF KeptOrGone
  <2> QED BY <2>1, <2>2
<1>10. ASSUME NEW u \in Stream PROVE Numbered(u)'
  <2> SUFFICES ASSUME u \notin forgotten'
               PROVE  /\ u \in open' \/ buffer'.frames[u] # <<>> =>
                           buffer'.sequences[u] = produced'[u]
                      /\ reader'[u].id = reader'[u].position
                      /\ reader'[u].position <= produced'[u]
    BY DEF Numbered
  <2>1. u \notin forgotten /\ (u \in open => ~ (buffer'.sequences[u] < buffer.sequences[u]))
    BY <1>2
  <2>2. /\ u \in open \/ buffer.frames[u] # <<>> => buffer.sequences[u] = produced[u]
        /\ reader[u].id = reader[u].position /\ reader[u].position <= produced[u]
    BY <1>1, <2>1 DEF Numbered
  <2>3. produced[u] \in Nat /\ reader[u].position \in Nat /\ buffer.sequences[u] \in Nat
    BY <1>1, <1>4
  <2>4. CASE u = s
    <3>1. buffer.sequences[s] = produced[s] /\ frame.sequence = produced[s] + 1
      BY <1>2, <1>3, <2>2, <2>4
    <3>2. buffer'.sequences[s] = produced'[s]
      BY <1>3, <1>5, <3>1
    <3>3. reader'[s].id = reader'[s].position /\ reader'[s].position <= produced'[s]
      BY <1>3, <1>5, <1>6, <2>2, <2>3, <2>4, <3>1
    <3> QED BY <2>4, <3>2, <3>3
  <2>5. CASE u # s
    <3>1. KeptOrGone(buffer, buffer', u) /\ produced'[u] = produced[u] /\ reader'[u] = reader[u]
      BY <1>3, <1>5, <1>6, <2>5
    <3>2. CASE buffer'.frames[u] = buffer.frames[u] /\ buffer'.sequences[u] = buffer.sequences[u]
      BY <1>2, <2>2, <3>1, <3>2
    <3>3. CASE buffer'.frames[u] = <<>> /\ buffer'.sequences[u] = 0
      BY <1>2, <2>1, <2>2, <2>3, <3>1, <3>3
    <3> QED BY <3>1, <3>2, <3>3 DEF KeptOrGone
  <2> QED BY <2>4, <2>5
<1>11. ReplayIsHonest'
  BY <1>1, <1>2 DEF ReplayIsHonest
<1> QED BY <1>3, <1>7, <1>8, <1>9, <1>10, <1>11 DEF ReplayInv

\* What stays what it was as long as the buffer is not written to.
LEMMA ReadOnly ==
  ASSUME ReplayInv, buffer' = buffer, produced' = produced, forgotten' = forgotten
  PROVE  Sound(buffer') /\ Ceilings(buffer') /\ \A s \in Stream : RunOf(s)'
<1>1. Sound(buffer) /\ Ceilings(buffer) /\ \A s \in Stream : RunOf(s)
  BY DEF ReplayInv
<1> QED BY <1>1 DEF RunOf

LEMMA ReaderAlone ==
  ASSUME ReplayInv, buffer' = buffer, produced' = produced, forgotten' = forgotten,
         reply' = reply, open' \subseteq open,
         reader' \in [Stream -> [position : Nat, id : Nat, connected : BOOLEAN]],
         \A s \in Stream : reader'[s].id = reader[s].id /\ reader'[s].position = reader[s].position
  PROVE  ReplayInv'
<1>1. Sound(buffer') /\ Ceilings(buffer') /\ \A s \in Stream : RunOf(s)'
  BY ReadOnly
<1>2. produced \in [Stream -> Nat] /\ ReplayIsHonest /\ \A s \in Stream : Numbered(s)
  BY DEF ReplayInv, EndpointType
<1>3. EndpointType' /\ ReplayIsHonest'
  BY <1>2 DEF EndpointType, ReplayIsHonest
<1>4. \A s \in Stream : Numbered(s)'
  BY <1>2 DEF Numbered
<1> QED BY <1>1, <1>3, <1>4 DEF ReplayInv

LEMMA DisconnectReplay ==
  ASSUME ReplayInv, NEW s \in Stream, Disconnect(s)
  PROVE  ReplayInv'
<1>1. reader \in [Stream -> [position : Nat, id : Nat, connected : BOOLEAN]]
  BY DEF ReplayInv, EndpointType
<1>2. /\ buffer' = buffer /\ produced' = produced /\ forgotten' = forgotten
      /\ reply' = reply /\ open' \subseteq open
      /\ reader' = [reader EXCEPT ![s].connected = FALSE]
  BY DEF Disconnect
<1>3. reader' \in [Stream -> [position : Nat, id : Nat, connected : BOOLEAN]]
  BY <1>1, <1>2
<1>4. \A u \in Stream : reader'[u].id = reader[u].id /\ reader'[u].position = reader[u].position
  BY <1>1, <1>2
<1> QED BY <1>2, <1>3, <1>4, ReaderAlone

LEMMA CloseReplay ==
  ASSUME ReplayInv, NEW s \in Stream, Close(s)
  PROVE  ReplayInv'
<1>1. reader \in [Stream -> [position : Nat, id : Nat, connected : BOOLEAN]]
  BY DEF ReplayInv, EndpointType
<1>2. /\ buffer' = buffer /\ produced' = produced /\ forgotten' = forgotten
      /\ reply' = reply /\ open' \subseteq open /\ reader' = reader
  BY DEF Close
<1> QED BY <1>1, <1>2, ReaderAlone

\* Frames that are numbered one after the other, up to last.
NumberedTo(f, last) == \A n \in 1..Len(f) : f[n].sequence = last - Len(f) + n

\* The frames after an id are the end of what is retained.
LEMMA SinceFacts ==
  ASSUME NEW b \in Buffer, NEW s \in Stream, NEW since \in Nat, NEW last \in Nat,
         Len(b.frames[s]) <= last, since <= last, NumberedTo(b.frames[s], last)
  PROVE  \E k \in 0..Len(b.frames[s]) :
           /\ Since(b, s, since) \in Seq(Frame)
           /\ Len(Since(b, s, since)) = Len(b.frames[s]) - k
           /\ \A i \in 1..(Len(b.frames[s]) - k) : Since(b, s, since)[i] = b.frames[s][k + i]
           /\ since < last - Len(b.frames[s]) => k = 0
           /\ since >= last - Len(b.frames[s]) => k = since - (last - Len(b.frames[s]))
<1> DEFINE f == b.frames[s]
           after == {frame \in ToSet(f) : frame.sequence > since}
           k == IF since < last - Len(f) THEN 0 ELSE since - (last - Len(f))
<1>1. f \in Seq(Frame) /\ Len(f) \in Nat
  BY BufferFacts
<1>2. /\ Len(f) <= last
      /\ \A n \in 1..Len(f) : f[n].sequence = last - Len(f) + n
  BY DEF NumberedTo
<1>3. Since(b, s, since) = Among(f, after)
  BY DEF Since
<1> HIDE DEF f
<1>4. /\ k \in 0..Len(f) /\ (since < last - Len(f) => k = 0)
      /\ (since >= last - Len(f) => k = since - (last - Len(f)))
  BY <1>1, <1>2
<1>5. \A n \in 1..Len(f) : last - Len(f) + n > since <=> n > k
  BY <1>1, <1>2
<1> HIDE DEF k
<1>6. \A n \in 1..Len(f) : f[n] \in after <=> n > k
  <2>1. \A n \in 1..Len(f) : f[n] \in ToSet(f)
    BY <1>1, LenProperties DEF ToSet
  <2> QED BY <1>2, <1>5, <2>1
<1> HIDE DEF after
<1>7. KeptBeyond(f, after, k)
  BY <1>6 DEF KeptBeyond
<1>8. /\ Among(f, after) \in Seq(Frame)
      /\ Len(Among(f, after)) = Len(f) - k
      /\ \A i \in 1..(Len(f) - k) : Among(f, after)[i] = f[k + i]
  BY <1>1, <1>4, <1>7, AmongSuffix
<1> QED BY <1>3, <1>4, <1>8 DEF f

\* Whatever the ids, what is sent is frames.
LEMMA SinceType ==
  ASSUME NEW b \in Buffer, NEW s \in Stream, NEW since \in Nat
  PROVE  Since(b, s, since) \in Seq(Frame)
<1> DEFINE f == b.frames[s]
           after == {frame \in ToSet(f) : frame.sequence > since}
<1>1. f \in Seq(Frame)
  BY BufferFacts
<1>2. Since(b, s, since) = Among(f, after)
  BY DEF Since
<1> HIDE DEF f, after
<1>3. LET a == Among(f, after) IN
        /\ a \in Seq(Frame)
        /\ ToSet(a) = ToSet(f) \cap after
        /\ \A i, j \in 1..Len(a) : i < j =>
             \E k, l \in 1..Len(f) : k < l /\ f[k] = a[i] /\ f[l] = a[j]
  BY <1>1, AmongFacts
<1> QED BY <1>2, <1>3

\* What is sent to a client whose stream was not evicted while it ran.
LEMMA ReplayTells ==
  ASSUME ReplayInv, NEW s \in Stream, s \notin forgotten, buffer.frames[s] # <<>>
  PROVE  LET since == reader[s].id
             frames == Since(buffer, s, since)
         IN  /\ frames \in Seq(Frame)
             /\ \A n \in 1..Len(frames) :
                  /\ frames[n].position = produced[s] - Len(frames) + n
                  /\ frames[n].sequence = frames[n].position
             /\ Len(frames) <= produced[s]
             /\ since > 0 => (Truncated(buffer, s, since) <=> produced[s] - since - Len(frames) > 0)
<1> DEFINE f == buffer.frames[s]
           since == reader[s].id
           frames == Since(buffer, s, since)
           last == produced[s]
<1>1. /\ produced \in [Stream -> Nat]
      /\ reader \in [Stream -> [position : Nat, id : Nat, connected : BOOLEAN]]
      /\ buffer \in Buffer /\ RunOf(s) /\ Numbered(s)
  BY DEF ReplayInv, EndpointType, Sound
<1>2. last \in Nat /\ since \in Nat /\ since <= last /\ buffer.sequences[s] = last
  BY <1>1 DEF Numbered
<1>3. f \in Seq(Frame) /\ Len(f) \in Nat /\ Len(f) >= 1
  <2>1. f \in Seq(Frame)
    BY <1>1, BufferFacts
  <2> QED BY <2>1, EmptySeq
<1>4. /\ Len(f) <= last
      /\ \A n \in 1..Len(f) : f[n].position = last - Len(f) + n /\ f[n].sequence = last - Len(f) + n
  BY <1>1, <1>2 DEF RunOf
<1> HIDE DEF since, last
<1>5. PICK k \in 0..Len(f) :
        /\ frames \in Seq(Frame)
        /\ Len(frames) = Len(f) - k
        /\ \A i \in 1..(Len(f) - k) : frames[i] = f[k + i]
        /\ since < last - Len(f) => k = 0
        /\ since >= last - Len(f) => k = since - (last - Len(f))
  <2>1. NumberedTo(buffer.frames[s], last)
    BY <1>4 DEF NumberedTo
  <2> QED BY <1>1, <1>2, <1>4, <2>1, SinceFacts
<1>6. Truncated(buffer, s, since) <=> since > 0 /\ f[1].sequence > since + 1
  BY DEF Truncated
<1> HIDE DEF f, frames
<1>7. k \in Nat /\ k <= Len(f)
  BY <1>3
<1>8. ASSUME NEW n \in 1..Len(frames)
      PROVE  /\ frames[n].position = last - Len(frames) + n
             /\ frames[n].sequence = frames[n].position
  <2>1. n \in 1..(Len(f) - k) /\ k + n \in 1..Len(f) /\ n \in Nat
    BY <1>3, <1>5, <1>7
  <2>2. /\ frames[n] = f[k + n] /\ f[k + n].position = last - Len(f) + (k + n)
        /\ f[k + n].sequence = last - Len(f) + (k + n)
    BY <1>4, <1>5, <2>1
  <2>3. last - Len(f) + (k + n) = last - (Len(f) - k) + n
    BY <1>2, <1>3, <1>7, <2>1
  <2> QED BY <1>5, <2>2, <2>3
<1>9. Len(frames) <= last
  BY <1>2, <1>3, <1>4, <1>5, <1>7
<1>10. f[1].sequence = last - Len(f) + 1
  BY <1>3, <1>4
<1>11. f[1].sequence > since + 1 <=> last - since - Len(frames) > 0
  <2>1. CASE since < last - Len(f)
    <3>1. Len(frames) = Len(f)
      BY <1>3, <1>5, <2>1
    <3> QED BY <1>2, <1>3, <1>10, <2>1, <3>1
  <2>2. CASE since >= last - Len(f)
    <3>1. Len(frames) = Len(f) - (since - (last - Len(f)))
      BY <1>5, <2>2
    <3>2. last - since - Len(frames) = 0
      BY <1>2, <1>3, <3>1
    <3> QED BY <1>2, <1>3, <1>10, <2>2, <3>2
  <2> QED BY <1>2, <1>3, <2>1, <2>2
<1>12. since > 0 => (Truncated(buffer, s, since) <=> last - since - Len(frames) > 0)
  BY <1>6, <1>11
<1> QED BY <1>5, <1>8, <1>9, <1>12 DEF frames, since, last

LEMMA ReplayReplay ==
  ASSUME ReplayInv, NEW s \in Stream, Replay(s)
  PROVE  ReplayInv'
<1> DEFINE since == reader[s].id
           frames == Since(buffer, s, since)
<1>1. /\ produced \in [Stream -> Nat]
      /\ reader \in [Stream -> [position : Nat, id : Nat, connected : BOOLEAN]]
      /\ buffer \in Buffer /\ \A u \in Stream : Numbered(u)
  BY DEF ReplayInv, EndpointType, Sound
<1>2. buffer' = buffer /\ produced' = produced /\ forgotten' = forgotten /\ open' = open
  BY DEF Replay
<1>3. /\ buffer.frames[s] = <<>> => reply' = [found |-> FALSE] /\ reader' = reader
      /\ buffer.frames[s] # <<>> =>
           /\ reply' = [found |-> TRUE, stream |-> s, since |-> reader[s].position,
                        now |-> produced[s], truncated |-> Truncated(buffer, s, since),
                        positions |-> [n \in DOMAIN frames |-> frames[n].position]]
           /\ reader' = IF frames = <<>> THEN reader
                          ELSE [reader EXCEPT ![s].position = Last(frames).position,
                                              ![s].id = Last(frames).sequence]
  BY DEF Replay
<1>4. Sound(buffer') /\ Ceilings(buffer') /\ \A u \in Stream : RunOf(u)'
  BY <1>2, ReadOnly
<1>5. since \in Nat
  BY <1>1
<1> HIDE DEF since
<1>6. frames \in Seq(Frame)
  BY <1>1, <1>5, SinceType
<1>7. s \notin forgotten /\ buffer.frames[s] # <<>> =>
        /\ \A n \in 1..Len(frames) : /\ frames[n].position = produced[s] - Len(frames) + n
                                     /\ frames[n].sequence = frames[n].position
        /\ Len(frames) <= produced[s]
        /\ since > 0 => (Truncated(buffer, s, since) <=> produced[s] - since - Len(frames) > 0)
  BY ReplayTells DEF since
<1> HIDE DEF frames
<1>8. /\ reader' \in [Stream -> [position : Nat, id : Nat, connected : BOOLEAN]]
      /\ \A u \in Stream \ {s} : reader'[u] = reader[u]
      /\ \/ reader'[s] = reader[s]
         \/ /\ buffer.frames[s] # <<>> /\ frames # <<>>
            /\ reader'[s].position = Last(frames).position
            /\ reader'[s].id = Last(frames).sequence
  <2>1. CASE reader' = reader
    BY <1>1, <2>1
  <2>2. CASE reader' # reader
    <3>1. /\ buffer.frames[s] # <<>> /\ frames # <<>>
          /\ reader' = [reader EXCEPT ![s].position = Last(frames).position,
                                      ![s].id = Last(frames).sequence]
      BY <1>3, <2>2
    <3>2. Len(frames) \in 1..Len(frames)
      BY <1>6, <3>1, EmptySeq
    <3>3. Last(frames) \in Frame
      BY <1>6, <3>2, ElementOfSeq DEF Last
    <3>4. Last(frames).position \in Nat /\ Last(frames).sequence \in Nat
      BY <3>3 DEF Frame
    <3> QED BY <1>1, <3>1, <3>4
  <2> QED BY <2>1, <2>2
<1>9. EndpointType'
  BY <1>1, <1>2, <1>8 DEF EndpointType
<1>10. ASSUME NEW u \in Stream PROVE Numbered(u)'
  <2> SUFFICES ASSUME u \notin forgotten
               PROVE  /\ u \in open \/ buffer.frames[u] # <<>> => buffer.sequences[u] = produced[u]
                      /\ reader'[u].id = reader'[u].position
                      /\ reader'[u].position <= produced[u]
    BY <1>2 DEF Numbered
  <2>1. /\ u \in open \/ buffer.frames[u] # <<>> => buffer.sequences[u] = produced[u]
        /\ reader[u].id = reader[u].position /\ reader[u].position <= produced[u]
    BY <1>1 DEF Numbered
  <2>2. CASE reader'[u] = reader[u]
    BY <2>1, <2>2
  <2>3. CASE reader'[u] # reader[u]
    <3>1. /\ u = s /\ buffer.frames[s] # <<>> /\ frames # <<>>
          /\ reader'[s].position = Last(frames).position
          /\ reader'[s].id = Last(frames).sequence
      BY <1>8, <2>3
    <3>2. Len(frames) \in Nat /\ Len(frames) \in 1..Len(frames)
      BY <1>6, <3>1, EmptySeq
    <3>3. /\ Last(frames).position = produced[s] - Len(frames) + Len(frames)
          /\ Last(frames).sequence = Last(frames).position
      BY <1>7, <3>1, <3>2 DEF Last
    <3>4. produced[s] \in Nat
      BY <1>1
    <3>5. Last(frames).position = produced[s]
      BY <3>2, <3>3, <3>4
    <3> QED BY <2>1, <3>1, <3>3, <3>4, <3>5
  <2> QED BY <2>2, <2>3
<1>11. ReplayIsHonest'
  <2>1. CASE buffer.frames[s] = <<>>
    <3>1. reply'.found = FALSE
      BY <1>3, <2>1
    <3> QED BY <3>1 DEF ReplayIsHonest
  <2>2. CASE buffer.frames[s] # <<>>
    <3> DEFINE positions == [n \in DOMAIN frames |-> frames[n].position]
    <3>1. /\ reply'.stream = s /\ reply'.since = reader[s].position /\ reply'.now = produced[s]
          /\ reply'.truncated = Truncated(buffer, s, since) /\ reply'.positions = positions
      BY <1>3, <2>2
    <3>2. /\ Len(positions) = Len(frames) /\ DOMAIN positions = 1..Len(frames)
          /\ \A n \in 1..Len(frames) : positions[n] = frames[n].position
      BY <1>6, LenProperties
    <3> HIDE DEF positions
    <3>3. CASE s \in forgotten
      BY <1>2, <3>1, <3>3 DEF ReplayIsHonest
    <3>4. CASE s \notin forgotten
      <4>1. reader[s].position = since
        BY <1>1, <3>4 DEF Numbered, since
      <4>2. \A n \in 1..Len(frames) : positions[n] = produced[s] - Len(positions) + n
        BY <1>7, <2>2, <3>2, <3>4
      <4>3. since > 0 => (Truncated(buffer, s, since) <=> produced[s] - since - Len(positions) > 0)
        BY <1>7, <2>2, <3>2, <3>4
      <4> QED BY <3>1, <3>2, <4>1, <4>2, <4>3 DEF ReplayIsHonest
    <3> QED BY <3>3, <3>4
  <2> QED BY <2>1, <2>2
<1> QED BY <1>4, <1>9, <1>10, <1>11 DEF ReplayInv

LEMMA NextReplay == ReplayInv /\ [Next]_vars => ReplayInv'
<1> SUFFICES ASSUME ReplayInv, [Next]_vars PROVE ReplayInv'
  OBVIOUS
<1>1. CASE Next
  <2>1. PICK s \in Stream : Produce(s) \/ Disconnect(s) \/ Close(s) \/ Replay(s)
    BY <1>1 DEF Next
  <2> QED BY <2>1, ProduceReplay, DisconnectReplay, CloseReplay, ReplayReplay
<1>2. CASE UNCHANGED vars
  <2>1. /\ buffer' = buffer /\ produced' = produced /\ forgotten' = forgotten
        /\ reply' = reply /\ open' = open /\ reader' = reader
    BY <1>2 DEF vars
  <2>2. reader \in [Stream -> [position : Nat, id : Nat, connected : BOOLEAN]]
    BY DEF ReplayInv, EndpointType
  <2> QED BY <2>1, <2>2, ReaderAlone
<1> QED BY <1>1, <1>2

LEMMA ReplayInvariant == Spec => []ReplayInv
<1> QED BY InitReplay, NextReplay, PTL DEF Spec

------------------------------------------------------------------------------
(* The theorems.                                                           *)

\* streaming/replay.py, record: the byte counts are at every moment what the
\* retained frames measure, and all ceilings hold, of a stream and of the whole,
\* but for one frame that is larger than a ceiling alone: whatever is recorded,
\* trimmed and evicted, in whatever order.
THEOREM AccountsAreKept == Spec => []BudgetKept
<1>1. ReplayInv => BudgetKept
  <2> SUFFICES ASSUME ReplayInv PROVE BudgetKept
    OBVIOUS
  <2> DEFINE retained == {s \in Stream : buffer.frames[s] # <<>>}
  <2>1. Sound(buffer) /\ Ceilings(buffer)
    BY DEF ReplayInv
  <2>2. buffer.streams \in Seq(Stream)
    BY <2>1, BufferFacts DEF Sound
  <2>3. DOMAIN buffer.streams = 1..Len(buffer.streams) /\ ToSet(buffer.streams) \subseteq Stream
    BY <2>2, LenProperties, ElementOfSeq DEF ToSet
  <2>4. ToSet(buffer.streams) = retained
    BY <2>1, <2>3 DEF Sound
  <2>5. \A i, j \in DOMAIN buffer.streams : buffer.streams[i] = buffer.streams[j] => i = j
    BY <2>1, <2>3 DEF Sound, NoneTwice
  <2>6. /\ \A s \in Stream : buffer.bytes[s] = Measure(buffer.frames[s])
        /\ buffer.total = Taken(buffer, buffer.streams)
    BY <2>1 DEF Sound
  <2>7. \A s \in retained : /\ Len(buffer.frames[s]) <= MaxFrames
                            /\ buffer.bytes[s] <= MaxStreamBytes \/ Len(buffer.frames[s]) = 1
    BY <2>1 DEF Ceilings, Within
  <2>8. /\ Len(buffer.streams) <= MaxStreams
        /\ \/ buffer.total <= MaxTotalBytes
           \/ \E s \in Stream : buffer.streams = <<s>> /\ Len(buffer.frames[s]) = 1
    BY <2>1 DEF Ceilings
  <2> QED BY <2>4, <2>5, <2>6, <2>7, <2>8 DEF BudgetKept
<1> QED BY <1>1, ReplayInvariant, PTL

\* replay_invoke_stream: a client that comes back for a stream that was not
\* evicted while it ran is sent exactly the retained frames it lacks, in order
\* and up to the newest; if it had received any before, it is told "truncated"
\* exactly when some it lacks are gone.
THEOREM RepliesAreHonest == Spec => []ReplayIsHonest
<1>1. ReplayInv => ReplayIsHonest
  BY DEF ReplayInv
<1> QED BY <1>1, ReplayInvariant, PTL

\* invoke_stream: the frame a generator just produced is retained, and is the
\* last of its stream, whatever had to go for it.
THEOREM NewestSurvives == Spec => NewestIsRetained
<1>1. ASSUME ReplayInv, ReplayInv', [Next]_vars
      PROVE  [\A s \in Stream : produced'[s] # produced[s] =>
                /\ buffer'.frames[s] # <<>>
                /\ Last(buffer'.frames[s]).position = produced'[s]]_vars
  <2> SUFFICES ASSUME NEW s \in Stream, produced'[s] # produced[s]
               PROVE  /\ buffer'.frames[s] # <<>>
                      /\ Last(buffer'.frames[s]).position = produced'[s]
    OBVIOUS
  <2>1. produced \in [Stream -> Nat] /\ produced' # produced
    BY <1>1 DEF ReplayInv, EndpointType
  <2>2. PICK t \in Stream : Produce(t)
    <3>1. PICK t \in Stream : Produce(t) \/ Disconnect(t) \/ Close(t) \/ Replay(t)
      BY <1>1, <2>1 DEF Next, vars
    <3> QED BY <2>1, <3>1 DEF Disconnect, Close, Replay
  <2>3. s = t
    BY <2>1, <2>2 DEF Produce
  <2>4. SoundFor(buffer', s)
    BY <1>1, <2>2, <2>3, ProduceRecords
  <2>5. buffer'.frames[s] \in Seq(Frame) /\ Len(buffer'.frames[s]) >= 1
        /\ Len(buffer'.frames[s]) \in Nat
    BY <2>4, SoundTypes
  <2>6. RunOf(s)' /\ produced'[s] \in Nat
    BY <1>1, <2>1 DEF ReplayInv, EndpointType
  <2>7. Len(buffer'.frames[s]) \in 1..Len(buffer'.frames[s])
    BY <2>5
  <2>8. buffer'.frames[s][Len(buffer'.frames[s])].position =
          produced'[s] - Len(buffer'.frames[s]) + Len(buffer'.frames[s])
    BY <2>6, <2>7 DEF RunOf
  <2>9. produced'[s] - Len(buffer'.frames[s]) + Len(buffer'.frames[s]) = produced'[s]
    BY <2>5, <2>6
  <2> QED BY <2>5, <2>8, <2>9 DEF Last
<1> QED BY <1>1, ReplayInvariant, PTL DEF Spec, NewestIsRetained
==============================================================================
