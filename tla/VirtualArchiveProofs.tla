------------------------ MODULE VirtualArchiveProofs ------------------------
(***************************************************************************)
(* Proofs about the virtual archive: for every manifest, every Range       *)
(* header and every width of the fields, a download that ends well has     *)
(* sent exactly the announced bytes, in order and without a gap.           *)
(***************************************************************************)
EXTENDS VirtualArchive, TLAPS

IInv == TypeOK /\ ArchiveInv /\ HashedWhole

(* The manifest and the layout do not change once the range is asked for. *)
Positioned == Streaming \ {"ok"}

(* Lemma: writing the part of a segment that lies in the range turns "all  *)
(* before a is written" into "all before b is written", and what is        *)
(* written continues where the last piece ended.                           *)
LEMMA WriteAdvances ==
  ASSUME NEW a \in Nat, NEW b \in Nat, a <= b,
         start \in Nat, end \in Nat, start <= end,
         piece \in [from : Nat, to : Nat],
         written = Within(a), written = piece.to - start, Write(a, b)
  PROVE  /\ written' = Within(b)
         /\ written' \in Nat
         /\ piece' \in [from : Nat, to : Nat]
         /\ written' = piece'.to - start
         /\ written <= written' /\ written' <= end - start
         /\ piece' = piece \/ piece' \in [from : {piece.to}, to : (piece.to + 1)..end]
<1>1. CASE Overlaps(a, b)
  <2>1. /\ From(a) \in Nat /\ To(b) \in Nat /\ From(a) < To(b) /\ To(b) <= end
        /\ start <= From(a)
    BY <1>1 DEF Overlaps, From, To
  <2>2. piece.to \in Nat /\ piece.to = From(a)
    BY <1>1 DEF Overlaps, From, To, Within
  <2>3. written' = Within(b) /\ written' = To(b) - start
    BY <1>1 DEF Write, Overlaps, From, To, Within
  <2>4. piece' = [from |-> From(a), to |-> To(b)]
    BY <1>1 DEF Write
  <2>5. piece'.to = To(b) /\ piece' \in [from : Nat, to : Nat]
    BY <2>1, <2>4
  <2>6. piece' \in [from : {piece.to}, to : (piece.to + 1)..end]
    BY <2>1, <2>2, <2>4
  <2>7. written \in Nat /\ written <= written' /\ written' <= end - start /\ written' \in Nat
    BY <2>1, <2>2, <2>3
  <2> QED
    BY <2>3, <2>5, <2>6, <2>7
<1>2. CASE ~Overlaps(a, b)
  <2>1. written' = written /\ piece' = piece
    BY <1>2 DEF Write, outVars
  <2>2. Within(a) = Within(b)
    BY <1>2 DEF Overlaps, From, To, Within
  <2>3. Within(a) \in Nat /\ Within(a) <= end - start
    BY DEF Within
  <2>4. written' \in Nat /\ written <= written' /\ written' <= end - start
    BY <2>1, <2>3
  <2>5. written' = Within(b) /\ written' = piece'.to - start
    BY <2>1, <2>2
  <2> QED
    BY <2>1, <2>4, <2>5
<1> QED
  BY <1>1, <1>2

(* Lemma: a write that breaks off stays in the range, too. *)
LEMMA BreakStaysInside ==
  ASSUME NEW a \in Nat, NEW b \in Nat, a <= b,
         start \in Nat, end \in Nat, start <= end,
         piece \in [from : Nat, to : Nat],
         written = Within(a), written = piece.to - start, WriteBreaks(a, b)
  PROVE  /\ written' \in Nat
         /\ piece' \in [from : Nat, to : Nat]
         /\ written' = piece'.to - start
         /\ written <= written' /\ written' <= end - start
         /\ piece' = piece \/ piece' \in [from : {piece.to}, to : (piece.to + 1)..end]
<1>1. /\ From(a) \in Nat /\ To(b) \in Nat /\ From(a) < To(b) /\ To(b) <= end
      /\ start <= From(a)
  BY DEF WriteBreaks, Overlaps, From, To
<1>2. piece.to \in Nat /\ piece.to = From(a) /\ written = From(a) - start
  BY DEF WriteBreaks, Overlaps, From, To, Within
<1>3. PICK to \in From(a)..To(b) :
        IF to = From(a)
        THEN UNCHANGED outVars
        ELSE /\ piece' = [from |-> From(a), to |-> to]
             /\ written' = written + (to - From(a))
  BY DEF WriteBreaks
<1>4. CASE to = From(a)
  <2>1. written' = written /\ piece' = piece
    BY <1>3, <1>4 DEF outVars
  <2> QED
    BY <2>1, <1>1, <1>2
<1>5. CASE to # From(a)
  <2>1. piece' = [from |-> From(a), to |-> to] /\ written' = written + (to - From(a))
    BY <1>3, <1>5
  <2>2. to \in Nat /\ From(a) < to /\ to <= end
    BY <1>1, <1>5
  <2>3. piece'.to = to /\ piece' \in [from : Nat, to : Nat]
    BY <2>1, <2>2, <1>1
  <2>4. piece' \in [from : {piece.to}, to : (piece.to + 1)..end]
    BY <2>1, <2>2, <1>1, <1>2
  <2> QED
    BY <2>1, <2>2, <2>3, <2>4, <1>1, <1>2
<1> QED
  BY <1>4, <1>5

(* Lemma: where the segments of the entry at hand lie. *)
LEMMA SegmentsInOrder ==
  ASSUME IInv, phase \in {"header", "data", "descriptor"}
  PROVE  /\ k \in DOMAIN layout /\ k <= Len(entries)
         /\ Here.headerAt \in Nat /\ Here.dataAt \in Nat
         /\ Here.descriptorAt \in Nat
         /\ Here.headerAt <= Here.dataAt /\ Here.dataAt <= Here.descriptorAt
         /\ Here.dataAt = Here.headerAt + HeaderLen(entries[k])
         /\ DescriptorLen \in Nat /\ HeaderLen(entries[k]) \in Nat
<1>1. k \in DOMAIN layout /\ k <= Len(entries) /\ k \in 1..Len(entries)
  BY DEF IInv, TypeOK, ArchiveInv, LayoutInv, Streaming
<1>2. layout[k] \in Placed /\ entries[k] \in Entry
  BY <1>1 DEF IInv, TypeOK
<1>3. /\ Placeable(entries[k])
      /\ layout[k].dataAt = layout[k].headerAt + HeaderLen(entries[k])
      /\ layout[k].descriptorAt = layout[k].dataAt + entries[k].size
  BY <1>1 DEF IInv, ArchiveInv, LayoutInv, Contiguous
<1>4. HeaderLen(entries[k]) \in Nat /\ DescriptorLen \in Nat
  BY <1>2 DEF HeaderLen, DescriptorLen, Entry
<1>5. entries[k].size \in Nat
  BY <1>2, <1>3 DEF Placeable, Entry
<1> QED
  BY <1>1, <1>2, <1>3, <1>4, <1>5 DEF Here, Placed
-----------------------------------------------------------------------------
(* Lemma: the initial states satisfy the invariant. *)
LEMMA InitHolds == Init => IInv
<1> SUFFICES ASSUME Init PROVE IInv
  OBVIOUS
<1>1. entries \in Seq(Entry)
  BY ArchiveAssumption DEF Init
<1>2. TypeOK
  <2>1. layout \in Seq(Placed) /\ piece \in [from : Nat, to : Nat]
    BY DEF Init
  <2>2. computed \subseteq Nat /\ phase \in Phase
    BY DEF Init, Phase
  <2>3. /\ cursor \in Nat /\ cdSize \in Nat /\ size \in Nat /\ tail \in Nat
        /\ announced \in Nat /\ start \in Nat /\ end \in Nat /\ written \in Nat
        /\ k \in Nat \ {0}
    BY DEF Init
  <2>4. zip64 \in BOOLEAN
    BY DEF Init
  <2> QED
    BY <1>1, <2>1, <2>2, <2>3, <2>4, Zenon DEF TypeOK
<1>3. LayoutInv
  BY <1>1 DEF Init, LayoutInv, Contiguous, LayoutEnd, Streaming
<1>4. StreamInv /\ HashedWhole
  BY DEF Init, StreamInv, HashedWhole, Streaming
<1> QED
  BY <1>2, <1>3, <1>4 DEF IInv, ArchiveInv

(* Lemma: the steps of NewVirtualArchive keep the invariant. *)
LEMMA LayoutKeeps == IInv /\ Layout => IInv'
<1> SUFFICES ASSUME IInv, Layout PROVE IInv'
  OBVIOUS
<1> USE ArchiveAssumption
<1>1. CASE Place
  <2> DEFINE e == entries[k]
             l == [headerAt |-> cursor, dataAt |-> cursor + HeaderLen(e),
                   descriptorAt |-> cursor + HeaderLen(e) + e.size,
                   zip64 |-> cursor > Max32]
  <2>1. /\ phase = "place" /\ phase' = "place" /\ k \in 1..Len(entries)
        /\ Len(layout) = k - 1 /\ layout \in Seq(Placed)
        /\ entries \in Seq(Entry) /\ cursor \in Nat
    BY <1>1 DEF Place, IInv, TypeOK, ArchiveInv, LayoutInv
  <2>2. e \in Entry /\ Placeable(e) /\ e.size \in Nat /\ HeaderLen(e) \in Nat
    <3>1. e \in Entry
      BY <2>1
    <3>2. Placeable(e)
      BY <1>1 DEF Place
    <3> QED
      BY <3>1, <3>2 DEF Placeable, Entry, HeaderLen
  <2>3. l \in Placed
    BY <2>1, <2>2 DEF Placed
  <2>4. /\ layout' = Append(layout, l)
        /\ cursor' = l.descriptorAt + DescriptorLen
        /\ entries' = entries /\ k' = k + 1
    BY <1>1 DEF Place
  <2> HIDE DEF l
  <2>5. /\ layout' \in Seq(Placed) /\ Len(layout') = k
        /\ layout'[k] = l
        /\ \A i \in 1..(k - 1) : layout'[i] = layout[i]
        /\ DOMAIN layout' = 1..k /\ DOMAIN layout = 1..(k - 1)
    BY <2>1, <2>3, <2>4
  <2>6. TypeOK'
    <3>1. cursor' \in Nat
      BY <2>3, <2>4 DEF Placed, DescriptorLen
    <3> QED
      BY <1>1, <2>1, <2>4, <2>5, <3>1 DEF Place, IInv, TypeOK, rangeVars, outVars
  <2>7. Contiguous'
    <3> SUFFICES ASSUME NEW i \in 1..k
                 PROVE  /\ Placeable(entries[i])
                        /\ layout'[i].dataAt = layout'[i].headerAt + HeaderLen(entries[i])
                        /\ layout'[i].descriptorAt = layout'[i].dataAt + entries[i].size
                        /\ layout'[i].headerAt = IF i = 1 THEN 0
                              ELSE layout'[i - 1].descriptorAt + DescriptorLen
                        /\ layout'[i].zip64 <=> layout'[i].headerAt > Max32
      BY <2>4, <2>5 DEF Contiguous, Placeable, HeaderLen, DescriptorLen
    <3>1. CASE i < k
      <4>1. i \in DOMAIN layout /\ layout'[i] = layout[i]
            /\ (i # 1 => layout'[i - 1] = layout[i - 1])
        BY <2>1, <2>5, <3>1
      <4> QED
        BY <4>1 DEF IInv, ArchiveInv, LayoutInv, Contiguous
    <3>2. CASE i = k
      <4>1. cursor = IF k = 1 THEN 0 ELSE layout[k - 1].descriptorAt + DescriptorLen
        BY <2>1 DEF IInv, ArchiveInv, LayoutInv, LayoutEnd
      <4>2. k # 1 => layout'[k - 1] = layout[k - 1]
        BY <2>1, <2>5
      <4>3. layout'[i] = l /\ entries[i] = e /\ (i = 1 <=> k = 1)
        BY <2>5, <3>2
      <4>4. cursor = IF i = 1 THEN 0
                     ELSE layout'[i - 1].descriptorAt + DescriptorLen
        BY <3>2, <4>1, <4>2
      <4>5. /\ l.headerAt = cursor /\ l.dataAt = l.headerAt + HeaderLen(e)
            /\ l.descriptorAt = l.dataAt + e.size
            /\ l.zip64 <=> l.headerAt > Max32
        BY DEF l
      <4> HIDE DEF e
      <4> QED
        BY <2>2, <4>3, <4>4, <4>5
    <3> QED
      BY <3>1, <3>2, <2>1
  <2>8. LayoutInv'
    <3>1. cursor' = LayoutEnd'
      BY <2>1, <2>4, <2>5 DEF LayoutEnd, DescriptorLen
    <3> QED
      BY <2>1, <2>4, <2>5, <2>7, <3>1 DEF LayoutInv, Streaming
  <2>9. StreamInv' /\ HashedWhole'
    BY <1>1, <2>1 DEF Place, IInv, ArchiveInv, StreamInv, HashedWhole, Streaming,
                      rangeVars, outVars
  <2> QED
    BY <2>6, <2>8, <2>9 DEF IInv, ArchiveInv
<1>2. CASE PlaceFails
  <2>1. TypeOK'
    BY <1>2 DEF PlaceFails, IInv, TypeOK, Phase, layoutVars, rangeVars, outVars
  <2>2. LayoutInv'
    BY <1>2 DEF PlaceFails, IInv, ArchiveInv, LayoutInv, Contiguous, LayoutEnd,
                Placeable, HeaderLen, Streaming, layoutVars
  <2>3. StreamInv' /\ HashedWhole'
    BY <1>2 DEF PlaceFails, IInv, TypeOK, ArchiveInv, StreamInv, HashedWhole,
                Streaming, layoutVars, rangeVars, outVars
  <2> QED
    BY <2>1, <2>2, <2>3 DEF IInv, ArchiveInv
<1>3. CASE AllPlaced
  <2>1. TypeOK'
    BY <1>3 DEF AllPlaced, IInv, TypeOK, Phase, layoutVars, rangeVars, outVars
  <2>2. Len(layout) = Len(entries)
    BY <1>3 DEF AllPlaced, IInv, TypeOK, ArchiveInv, LayoutInv
  <2>3. LayoutInv'
    BY <1>3, <2>2 DEF AllPlaced, IInv, ArchiveInv, LayoutInv, Contiguous,
                LayoutEnd, Placeable, HeaderLen, Streaming, layoutVars
  <2>4. StreamInv' /\ HashedWhole'
    BY <1>3 DEF AllPlaced, IInv, ArchiveInv, StreamInv, HashedWhole, Streaming,
                layoutVars, rangeVars, outVars
  <2> QED
    BY <2>1, <2>3, <2>4 DEF IInv, ArchiveInv
<1>4. CASE Measure
  <2>1. /\ k \in DOMAIN layout /\ k \in DOMAIN entries
        /\ phase = "measure" /\ phase' = "measure"
    BY <1>4 DEF Measure, IInv, TypeOK, ArchiveInv, LayoutInv
  <2>2. RecordLen(entries[k], layout[k]) \in Nat
    <3>1. entries[k] \in Entry
      BY <2>1 DEF IInv, TypeOK
    <3> QED
      BY <3>1 DEF RecordLen, Entry
  <2>3. TypeOK'
    BY <1>4, <2>1, <2>2 DEF Measure, IInv, TypeOK, rangeVars, outVars
  <2>4. LayoutInv'
    BY <1>4, <2>1 DEF Measure, IInv, ArchiveInv, LayoutInv, Contiguous, LayoutEnd,
                Placeable, HeaderLen, Streaming
  <2>5. StreamInv' /\ HashedWhole'
    BY <1>4, <2>1 DEF Measure, IInv, ArchiveInv, StreamInv, HashedWhole, Streaming,
                rangeVars, outVars
  <2> QED
    BY <2>3, <2>4, <2>5 DEF IInv, ArchiveInv
<1>5. CASE Seal
  <2>1. EndRecordsLen(zip64') \in Nat /\ zip64' \in BOOLEAN
    BY <1>5 DEF Seal, EndRecordsLen
  <2>2. TypeOK'
    <3>1. size' \in Nat
      <4>1. size' = cursor + cdSize + EndRecordsLen(zip64')
        BY <1>5 DEF Seal
      <4>2. cursor \in Nat /\ cdSize \in Nat
        BY DEF IInv, TypeOK
      <4> QED
        BY <2>1, <4>1, <4>2
    <3> QED
      <4>1. phase' \in Phase
        BY <1>5 DEF Seal, Phase
      <4>2. UNCHANGED <<entries, layout, cursor, cdSize, announced, start, end,
                        k, computed, tail, piece, written>>
        BY <1>5 DEF Seal, rangeVars, outVars
      <4> QED
        BY <2>1, <3>1, <4>1, <4>2 DEF IInv, TypeOK
  <2>3. /\ size' = cursor + cdSize + EndRecordsLen(zip64')
        /\ zip64' \/ (Len(layout) <= Max16 /\ cursor <= Max32 /\ cdSize <= Max32)
    BY <1>5 DEF Seal, IInv, TypeOK
  <2>4. LayoutInv'
    BY <1>5, <2>3 DEF Seal, IInv, ArchiveInv, LayoutInv, Contiguous, LayoutEnd,
                Placeable, HeaderLen, EndRecordsLen, Streaming
  <2>5. StreamInv' /\ HashedWhole'
    BY <1>5 DEF Seal, IInv, ArchiveInv, StreamInv, HashedWhole, Streaming,
                rangeVars, outVars
  <2> QED
    BY <2>2, <2>4, <2>5 DEF IInv, ArchiveInv
<1> QED
  BY <1>1, <1>2, <1>3, <1>4, <1>5 DEF Layout

(* Lemma: whatever the Range header asks for, the stream starts with       *)
(* nothing written and a range inside the archive.                         *)
LEMMA StreamStarts ==
  ASSUME IInv, NEW first \in Nat, NEW after \in Nat,
         first <= after, after <= size, Stream(first, after)
  PROVE  IInv'
<1>1. /\ phase = "range" /\ phase' = "open" /\ k' = 1
      /\ start' = first /\ end' = after /\ announced' = after - first
      /\ UNCHANGED <<entries, layout, cursor, cdSize, zip64, size, computed,
                     tail, written>>
  BY DEF Stream, layoutVars, IInv, TypeOK
<1>2. piece' = [from |-> first, to |-> first]
  BY <1>1 DEF Stream
<1>3. computed = {} /\ written = 0
  BY <1>1 DEF IInv, ArchiveInv, StreamInv
<1>4. TypeOK'
  <2>1. /\ piece' \in [from : Nat, to : Nat] /\ start' \in Nat /\ end' \in Nat
        /\ announced' \in Nat /\ phase' \in Phase /\ k' \in Nat \ {0}
    BY <1>1, <1>2 DEF Phase
  <2> QED
    BY <1>1, <2>1 DEF IInv, TypeOK
<1>5. LayoutInv'
  BY <1>1 DEF IInv, ArchiveInv, LayoutInv, Contiguous, LayoutEnd, Placeable,
              HeaderLen, EndRecordsLen, Streaming
<1>6. Reached' = 0
  <2>1. CASE layout = <<>>
    <3>1. ~(k' <= Len(layout'))
      BY <1>1, <2>1
    <3>2. Reached' = cursor
      BY <1>1, <3>1 DEF Reached
    <3> QED
      BY <2>1, <3>2 DEF IInv, ArchiveInv, LayoutInv, LayoutEnd
  <2>2. CASE layout # <<>>
    <3>1. 1 \in DOMAIN layout /\ 1 <= Len(layout)
      BY <2>2 DEF IInv, TypeOK
    <3>2. Reached' = layout[1].headerAt
      BY <1>1, <3>1 DEF Reached, Here
    <3> QED
      BY <3>1, <3>2 DEF IInv, ArchiveInv, LayoutInv, Contiguous
  <2> QED
    BY <2>1, <2>2
<1>7. StreamInv' /\ HashedWhole'
  <2>1. Within(Reached)' = 0
    BY <1>1, <1>6 DEF Within
  <2> QED
    BY <1>1, <1>2, <1>3, <2>1 DEF StreamInv, HashedWhole, Streaming
<1> QED
  BY <1>4, <1>5, <1>7 DEF IInv, ArchiveInv

(* Lemma: parseArchiveRange and the limits of StreamRange keep it. *)
LEMMA AskKeeps == IInv /\ Ask => IInv'
<1> SUFFICES ASSUME IInv, Ask PROVE IInv'
  OBVIOUS
<1>1. size \in Nat
  BY DEF IInv, TypeOK
<1>2. CASE AskAll
  BY <1>1, <1>2, StreamStarts DEF AskAll
<1>3. CASE RefuseRange
  <2>1. TypeOK'
    BY <1>3 DEF RefuseRange, IInv, TypeOK, Phase, layoutVars, rangeVars, outVars
  <2>2. LayoutInv'
    BY <1>3 DEF RefuseRange, IInv, ArchiveInv, LayoutInv, Contiguous, LayoutEnd,
                Placeable, HeaderLen, Streaming, layoutVars
  <2>3. StreamInv' /\ HashedWhole'
    BY <1>3 DEF RefuseRange, IInv, TypeOK, ArchiveInv, StreamInv, HashedWhole,
                Streaming, layoutVars, rangeVars, outVars
  <2> QED
    BY <2>1, <2>2, <2>3 DEF IInv, ArchiveInv
<1>4. ASSUME NEW n \in Positions, AskLast(n) PROVE IInv'
  <2>1. n \in Nat
    BY <1>4, ArchiveAssumption DEF AskLast
  <2>2. PICK m \in Nat : m <= size /\ Stream(size - m, size)
    <3> DEFINE m == IF n > size THEN size ELSE n
    <3>1. m \in Nat /\ m <= size
      BY <1>1, <2>1
    <3>2. Stream(size - m, size)
      BY <1>4 DEF AskLast
    <3> QED
      BY <3>1, <3>2
  <2>3. size - m \in Nat /\ size - m <= size
    BY <1>1, <2>2
  <2> QED
    BY <1>1, <2>2, <2>3, StreamStarts
<1>5. ASSUME NEW n \in Positions, AskFrom(n) PROVE IInv'
  <2>1. n \in Nat /\ n <= size /\ Stream(n, size)
    BY <1>1, <1>5, ArchiveAssumption DEF AskFrom
  <2> QED
    BY <1>1, <2>1, StreamStarts
<1>6. ASSUME NEW first \in Positions, NEW last \in Positions,
             AskBetween(first, last)
      PROVE  IInv'
  <2>1. first \in Nat /\ last \in Nat /\ first <= last /\ first < size
    BY <1>6, ArchiveAssumption DEF AskBetween
  <2>2. PICK after \in Nat : first <= after /\ after <= size /\ Stream(first, after)
    <3> DEFINE after == (IF last >= size THEN size - 1 ELSE last) + 1
    <3>1. after \in Nat /\ first <= after /\ after <= size
      BY <1>1, <2>1
    <3>2. Stream(first, after)
      BY <1>6 DEF AskBetween
    <3> QED
      BY <3>1, <3>2
  <2> QED
    BY <2>1, <2>2, StreamStarts
<1> QED
  BY <1>2, <1>3, <1>4, <1>5, <1>6 DEF Ask
-----------------------------------------------------------------------------
(* Lemma: the layout is left alone while the range is streamed. *)
LEMMA LayoutStays ==
  ASSUME IInv, UNCHANGED layoutVars, phase \in Streaming,
         phase' \in Streaming \cup {"error"},
         phase' \in {"header", "data", "descriptor"} => k' <= Len(layout)
  PROVE  LayoutInv'
<1>1. UNCHANGED <<entries, layout, cursor, cdSize, zip64, size>>
  BY DEF layoutVars
<1>2. LayoutInv
  BY DEF IInv, ArchiveInv
<1>3. Contiguous' /\ cursor' = LayoutEnd'
  BY <1>1, <1>2 DEF LayoutInv, Contiguous, LayoutEnd, Placeable, HeaderLen
<1>4. phase' # "place" /\ phase' # "measure" /\ phase' # "range"
  BY DEF Streaming
<1>5. Len(layout) = Len(entries)
  BY <1>2 DEF LayoutInv
<1>6. /\ size = cursor + cdSize + EndRecordsLen(zip64)
      /\ zip64 \/ (Len(layout) <= Max16 /\ cursor <= Max32 /\ cdSize <= Max32)
  BY <1>2 DEF LayoutInv
<1> QED
  BY <1>1, <1>3, <1>4, <1>5, <1>6 DEF LayoutInv, EndRecordsLen

(* Lemma: a step that streams on keeps the invariant if it leaves          *)
(* everything before the next position written.                            *)
LEMMA StreamsOn ==
  ASSUME IInv, UNCHANGED <<layoutVars, rangeVars>>,
         phase \in Positioned, phase' \in Streaming,
         phase' \in {"header", "data", "descriptor"} => k' <= Len(layout),
         k' \in Nat \ {0}, tail' \in Nat, computed' \subseteq DOMAIN layout,
         HashedWhole',
         written' = Within(Reached'),
         written' \in Nat, piece' \in [from : Nat, to : Nat],
         written' = piece'.to - start, written' <= end - start
  PROVE  IInv'
<1>1. UNCHANGED <<entries, layout, cursor, cdSize, zip64, size, announced, start, end>>
  BY DEF layoutVars, rangeVars
<1>2. TypeOK'
  <2>1. phase' \in Phase
    BY DEF Phase, Streaming
  <2>2. computed' \subseteq Nat
    BY DEF IInv, TypeOK
  <2> QED
    BY <1>1, <2>1, <2>2 DEF IInv, TypeOK
<1>3. LayoutInv'
  BY LayoutStays DEF Positioned
<1>4. StreamInv'
  <2>1. /\ start <= end /\ end <= size /\ announced = end - start
    BY DEF IInv, ArchiveInv, StreamInv, Positioned
  <2>2. Within(Reached)' = Within(Reached')
    BY <1>1 DEF Within
  <2>3. phase' \notin {"place", "measure", "range"}
    BY DEF Streaming
  <2> QED
    BY <1>1, <2>1, <2>2, <2>3 DEF StreamInv
<1> QED
  BY <1>2, <1>3, <1>4 DEF IInv, ArchiveInv

(* Lemma: a step that breaks off keeps it if it stays inside the range. *)
LEMMA BreaksOff ==
  ASSUME IInv, UNCHANGED <<layoutVars, rangeVars, k, computed, tail>>,
         phase \in Positioned, phase' = "error",
         written' \in Nat, piece' \in [from : Nat, to : Nat],
         written' = piece'.to - start, written' <= end - start,
         written <= written'
  PROVE  IInv'
<1>1. UNCHANGED <<entries, layout, cursor, cdSize, zip64, size, announced, start,
                  end, k, computed, tail>>
  BY DEF layoutVars, rangeVars
<1>2. TypeOK'
  <2>1. phase' \in Phase
    BY DEF Phase
  <2> QED
    BY <1>1, <2>1 DEF IInv, TypeOK
<1>3. LayoutInv'
  BY LayoutStays DEF Positioned
<1>4. StreamInv'
  BY <1>1 DEF IInv, ArchiveInv, StreamInv, Positioned, Streaming
<1>5. HashedWhole'
  <2> SUFFICES ASSUME NEW i \in computed
               PROVE  start <= layout[i].dataAt
                      /\ layout[i].descriptorAt <= start + written'
    BY <1>1 DEF HashedWhole
  <2>1. /\ i \in DOMAIN layout
        /\ start <= layout[i].dataAt
        /\ layout[i].descriptorAt <= start + written
    <3>1. i \in DOMAIN layout
      BY DEF IInv, ArchiveInv, StreamInv, Positioned
    <3> QED
      BY <3>1 DEF IInv, HashedWhole
  <2>2. layout[i].descriptorAt \in Nat /\ start \in Nat /\ written \in Nat
    <3>1. layout[i] \in Placed /\ start \in Nat /\ written \in Nat
      BY <2>1 DEF IInv, TypeOK
    <3> QED
      BY <3>1 DEF Placed
  <2> QED
    BY <2>1, <2>2
<1> QED
  BY <1>2, <1>3, <1>4, <1>5 DEF IInv, ArchiveInv

(* What all steps of StreamRange rely on. *)
LEMMA StreamFacts ==
  ASSUME IInv, phase \in Positioned
  PROVE  /\ start \in Nat /\ end \in Nat /\ start <= end /\ end <= size
         /\ cursor \in Nat /\ size \in Nat /\ cursor < size
         /\ piece \in [from : Nat, to : Nat] /\ written \in Nat
         /\ written = piece.to - start /\ written <= end - start
         /\ written = Within(Reached)
         /\ computed \subseteq DOMAIN layout
<1>1. /\ start \in Nat /\ end \in Nat /\ cursor \in Nat /\ cdSize \in Nat
      /\ size \in Nat /\ piece \in [from : Nat, to : Nat] /\ written \in Nat
  BY DEF IInv, TypeOK
<1>2. size = cursor + cdSize + EndRecordsLen(zip64) /\ EndRecordsLen(zip64) > 0
      /\ EndRecordsLen(zip64) \in Nat
  BY DEF IInv, ArchiveInv, LayoutInv, Positioned, EndRecordsLen
<1>3. cursor < size
  BY <1>1, <1>2
<1>4. /\ start <= end /\ end <= size
      /\ written = piece.to - start /\ written <= end - start
      /\ written = Within(Reached)
      /\ computed \subseteq DOMAIN layout
  BY DEF IInv, ArchiveInv, StreamInv, Positioned
<1> QED
  BY <1>1, <1>3, <1>4

(* Lemma: as more is written, the files hashed so far stay hashed. *)
LEMMA HashedStays ==
  ASSUME IInv, phase \in Positioned, UNCHANGED <<layoutVars, rangeVars>>,
         written' \in Nat, written <= written', computed' = computed
  PROVE  HashedWhole'
<1>1. UNCHANGED <<layout, start, computed>>
  BY DEF layoutVars, rangeVars
<1> SUFFICES ASSUME NEW i \in computed
             PROVE  start <= layout[i].dataAt
                    /\ layout[i].descriptorAt <= start + written'
  BY <1>1 DEF HashedWhole
<1>2. i \in DOMAIN layout
  BY StreamFacts
<1>3. start <= layout[i].dataAt /\ layout[i].descriptorAt <= start + written
  BY DEF IInv, HashedWhole
<1>4. layout[i].descriptorAt \in Nat /\ start \in Nat /\ written \in Nat
  <2>1. layout[i] \in Placed /\ start \in Nat /\ written \in Nat
    BY <1>2 DEF IInv, TypeOK
  <2> QED
    BY <2>1 DEF Placed
<1> QED
  BY <1>3, <1>4

(* Lemma: what a segment's part of the range leaves behind. *)
LEMMA AfterWrite ==
  ASSUME IInv, phase \in Positioned, NEW a \in Nat, NEW b \in Nat, a <= b,
         Reached = a, Write(a, b)
  PROVE  /\ written' = Within(b) /\ written' \in Nat
         /\ piece' \in [from : Nat, to : Nat]
         /\ written' = piece'.to - start
         /\ written <= written' /\ written' <= end - start
BY StreamFacts, WriteAdvances

(* Lemma: a write that breaks off leaves the invariant of an error. *)
LEMMA AfterBreak ==
  ASSUME IInv, phase \in Positioned, NEW a \in Nat, NEW b \in Nat, a <= b,
         Reached = a, WriteBreaks(a, b),
         UNCHANGED <<layoutVars, rangeVars, k, computed, tail>>
  PROVE  IInv'
<1>1. phase' = "error"
  BY DEF WriteBreaks
<1> QED
  BY <1>1, StreamFacts, BreakStaysInside, BreaksOff

(* Lemma: the steps of StreamRange keep the invariant. *)
LEMMA StreamKeeps == IInv /\ StreamStep => IInv'
<1> SUFFICES ASSUME IInv, StreamStep PROVE IInv'
  OBVIOUS
<1>0. phase \in Positioned
  BY DEF StreamStep, Open, OpenFails, WriteHeader, WriteHeaderFails, CopyData,
         CopyDataFails, WriteDescriptor, WriteDescriptorFails, EntriesDone,
         WriteRecord, WriteRecordFails, WriteEndRecords, WriteTail,
         WriteTailFails, Positioned, Streaming
<1> USE <1>0
<1>1. CASE Open
  <2>1. /\ phase = "open" /\ phase' = "header" /\ k <= Len(layout)
        /\ UNCHANGED <<layoutVars, rangeVars, k, computed, tail, outVars>>
    BY <1>1 DEF Open
  <2>2. Reached' = Reached
    BY <2>1 DEF Reached, Here, layoutVars
  <2>3. written' = Within(Reached') /\ written' = written /\ piece' = piece
    BY <2>1, <2>2, StreamFacts DEF outVars
  <2>4. HashedWhole' /\ k' \in Nat \ {0} /\ tail' \in Nat
    BY <2>1, <2>3, StreamFacts, HashedStays DEF IInv, TypeOK
  <2> QED
    BY <2>1, <2>3, <2>4, StreamFacts, StreamsOn DEF Streaming
<1>2. CASE OpenFails
  <2>1. written' = written /\ piece' = piece
    BY <1>2 DEF OpenFails, outVars
  <2> QED
    BY <1>2, <2>1, StreamFacts, BreaksOff DEF OpenFails
<1>3. CASE WriteHeader
  <2>1. /\ phase = "header" /\ phase' = "data"
        /\ UNCHANGED <<layoutVars, rangeVars, k, computed, tail>>
        /\ Write(Here.headerAt, Here.headerAt + HeaderLen(entries[k]))
    BY <1>3 DEF WriteHeader
  <2>2. Reached = Here.headerAt /\ Reached' = Here.headerAt + HeaderLen(entries[k])
    BY <2>1, SegmentsInOrder DEF Reached, Here, layoutVars
  <2>3. /\ written' = Within(Reached') /\ written' \in Nat
        /\ piece' \in [from : Nat, to : Nat] /\ written' = piece'.to - start
        /\ written <= written' /\ written' <= end - start
    <3> DEFINE a == Here.headerAt
               b == a + HeaderLen(entries[k])
    <3>1. a \in Nat /\ b \in Nat /\ a <= b
      BY <2>1, SegmentsInOrder
    <3>2. phase \in Positioned /\ Reached = a /\ Reached' = b /\ Write(a, b)
      BY <2>1, <2>2 DEF Positioned, Streaming
    <3> HIDE DEF a, b
    <3> QED
      BY <3>1, <3>2, AfterWrite
  <2>4. HashedWhole' /\ k' \in Nat \ {0} /\ tail' \in Nat /\ k' <= Len(layout)
    BY <2>1, <2>3, HashedStays, SegmentsInOrder DEF IInv, TypeOK
  <2> QED
    BY <2>1, <2>3, <2>4, StreamFacts, StreamsOn DEF Streaming
<1>4. CASE WriteHeaderFails
  BY <1>4, SegmentsInOrder, AfterBreak DEF WriteHeaderFails, Reached
<1>5. CASE CopyData
  <2>1. /\ phase = "data" /\ phase' = "descriptor"
        /\ UNCHANGED <<layoutVars, rangeVars, k, tail>>
        /\ Write(Here.dataAt, Here.descriptorAt)
    BY <1>5 DEF CopyData
  <2>2. Reached = Here.dataAt /\ Reached' = Here.descriptorAt
    BY <2>1 DEF Reached, Here, layoutVars
  <2>3. /\ written' = Within(Reached') /\ written' \in Nat
        /\ piece' \in [from : Nat, to : Nat] /\ written' = piece'.to - start
        /\ written <= written' /\ written' <= end - start
    BY <2>1, <2>2, SegmentsInOrder, AfterWrite
  <2>4. k \in DOMAIN layout /\ k' \in Nat \ {0} /\ tail' \in Nat /\ k' <= Len(layout)
    BY <2>1, SegmentsInOrder DEF IInv, TypeOK
  <2>5. computed' \subseteq DOMAIN layout
    BY <1>5, <2>4, StreamFacts DEF CopyData
  <2>6. HashedWhole'
    <3>1. CASE computed' = computed
      BY <2>1, <2>3, <3>1, HashedStays
    <3>2. CASE computed' = computed \cup {k} /\ Whole(Here)
                 /\ Overlaps(Here.dataAt, Here.descriptorAt)
      <4> SUFFICES ASSUME NEW i \in computed'
                   PROVE  start <= layout[i].dataAt
                          /\ layout[i].descriptorAt <= start + written'
        BY <2>1 DEF HashedWhole, layoutVars, rangeVars
      <4>1. CASE i = k
        <5>1. start <= Here.dataAt /\ Here.descriptorAt <= end
          BY <3>2 DEF Whole
        <5>2. written' = Here.descriptorAt - start
          <6> DEFINE d == Here.descriptorAt
          <6>1. d \in Nat /\ start \in Nat /\ end \in Nat /\ start <= d /\ d <= end
            <7>1. start \in Nat /\ end \in Nat
              BY StreamFacts
            <7>2. Here.dataAt \in Nat /\ d \in Nat /\ Here.dataAt <= d
              BY <2>1, SegmentsInOrder
            <7> QED
              BY <5>1, <7>1, <7>2
          <6>2. written' = Within(d)
            BY <2>2, <2>3
          <6> HIDE DEF d
          <6>3. Within(d) = d - start
            BY <6>1 DEF Within
          <6> QED
            BY <6>2, <6>3 DEF d
        <5> QED
          BY <4>1, <5>1, <5>2, SegmentsInOrder, StreamFacts, <2>1 DEF Here
      <4>2. CASE i \in computed
        <5>1. layout[i] \in Placed /\ start \in Nat /\ written \in Nat
          BY <4>2, StreamFacts DEF IInv, TypeOK
        <5>2. layout[i].descriptorAt \in Nat
          BY <5>1 DEF Placed
        <5>3. start <= layout[i].dataAt /\ layout[i].descriptorAt <= start + written
          BY <4>2 DEF IInv, HashedWhole
        <5> QED
          BY <5>1, <5>2, <5>3, <2>3
      <4> QED
        BY <3>2, <4>1, <4>2
    <3> QED
      BY <1>5, <3>1, <3>2 DEF CopyData
  <2> QED
    BY <2>1, <2>3, <2>4, <2>5, <2>6, StreamsOn DEF Streaming
<1>6. CASE CopyDataFails
  BY <1>6, SegmentsInOrder, AfterBreak DEF CopyDataFails, Reached
<1>7. CASE WriteDescriptor
  <2>1. /\ phase = "descriptor" /\ phase' = "open" /\ k' = k + 1
        /\ UNCHANGED <<layoutVars, rangeVars, computed, tail>>
        /\ Write(Here.descriptorAt, Here.descriptorAt + DescriptorLen)
    BY <1>7 DEF WriteDescriptor
  <2>2. Reached = Here.descriptorAt
    BY <2>1 DEF Reached
  <2>3. Reached' = Here.descriptorAt + DescriptorLen
    <3>1. k \in DOMAIN layout /\ layout \in Seq(Placed) /\ layout # <<>>
      BY <2>1, SegmentsInOrder DEF IInv, TypeOK
    <3>2. CASE k + 1 <= Len(layout)
      <4>1. k + 1 \in DOMAIN layout /\ k + 1 # 1 /\ (k + 1) - 1 = k
        BY <3>1, <3>2
      <4>2. layout[k + 1].headerAt = layout[k].descriptorAt + DescriptorLen
        BY <4>1 DEF IInv, ArchiveInv, LayoutInv, Contiguous
      <4>3. Reached' = layout[k + 1].headerAt
        BY <2>1, <3>2 DEF Reached, Here, layoutVars
      <4> QED
        BY <4>2, <4>3 DEF Here
    <3>3. CASE ~(k + 1 <= Len(layout))
      <4>1. k = Len(layout)
        BY <3>1, <3>3
      <4>2. cursor = layout[k].descriptorAt + DescriptorLen
        BY <3>1, <4>1 DEF IInv, ArchiveInv, LayoutInv, LayoutEnd
      <4>3. Reached' = cursor
        BY <2>1, <3>3 DEF Reached, layoutVars
      <4> QED
        BY <4>2, <4>3 DEF Here
    <3> QED
      BY <3>2, <3>3
  <2>4. /\ written' = Within(Reached') /\ written' \in Nat
        /\ piece' \in [from : Nat, to : Nat] /\ written' = piece'.to - start
        /\ written <= written' /\ written' <= end - start
    <3>1. Here.descriptorAt + DescriptorLen \in Nat
          /\ Here.descriptorAt <= Here.descriptorAt + DescriptorLen
      BY <2>1, SegmentsInOrder
    <3> QED
      BY <2>1, <2>2, <2>3, <3>1, SegmentsInOrder, AfterWrite
  <2>5. HashedWhole' /\ k' \in Nat \ {0} /\ tail' \in Nat
    BY <2>1, <2>4, HashedStays DEF IInv, TypeOK
  <2> QED
    BY <2>1, <2>4, <2>5, StreamFacts, StreamsOn DEF Streaming
<1>8. CASE WriteDescriptorFails
  <2>1. Here.descriptorAt + DescriptorLen \in Nat
        /\ Here.descriptorAt <= Here.descriptorAt + DescriptorLen
    BY <1>8, SegmentsInOrder DEF WriteDescriptorFails
  <2> QED
    BY <1>8, <2>1, SegmentsInOrder, AfterBreak DEF WriteDescriptorFails, Reached
<1>9. CASE EntriesDone
  <2>1. /\ phase = "open" /\ ~(k <= Len(layout)) /\ k' = 1
        /\ phase' = IF Overlaps(cursor, size) THEN "directory" ELSE "ok"
        /\ UNCHANGED <<layoutVars, rangeVars, computed, tail, outVars>>
    <3>1. k \in Nat /\ Len(layout) \in Nat
      BY DEF IInv, TypeOK
    <3> QED
      BY <1>9, <3>1 DEF EntriesDone
  <2>2. Reached = cursor /\ written' = written /\ piece' = piece
    BY <2>1 DEF Reached, outVars
  <2>3. written' = Within(Reached')
    <3>1. CASE Overlaps(cursor, size)
      <4>1. Reached' = cursor
        BY <2>1, <3>1 DEF Reached, layoutVars
      <4> QED
        BY <2>2, <4>1, StreamFacts
    <3>2. CASE ~Overlaps(cursor, size)
      <4>1. Reached' = size
        BY <2>1, <3>2 DEF Reached, layoutVars
      <4>2. Within(cursor) = Within(size)
        BY <3>2, StreamFacts DEF Overlaps, From, To, Within
      <4> QED
        BY <2>2, <4>1, <4>2, StreamFacts
    <3> QED
      BY <3>1, <3>2
  <2>4. HashedWhole' /\ k' \in Nat \ {0} /\ tail' \in Nat
    BY <2>1, <2>2, HashedStays, StreamFacts DEF IInv, TypeOK
  <2> QED
    BY <2>1, <2>2, <2>3, <2>4, StreamFacts, StreamsOn DEF Streaming
<1>10. CASE WriteRecord \/ WriteEndRecords
  <2>1. /\ phase = "directory" /\ phase' \in {"directory", "tail"}
        /\ UNCHANGED <<layoutVars, rangeVars, computed, outVars>>
        /\ k' \in {k, k + 1}
    BY <1>10 DEF WriteRecord, WriteEndRecords
  <2>2. Reached = cursor /\ Reached' = cursor
        /\ written' = written /\ piece' = piece
    BY <2>1 DEF Reached, layoutVars, outVars
  <2>3. tail' \in Nat
    <3>1. tail \in Nat /\ EndRecordsLen(zip64) \in Nat
      BY DEF IInv, TypeOK, EndRecordsLen
    <3>2. CASE WriteEndRecords
      BY <3>1, <3>2 DEF WriteEndRecords
    <3>3. CASE WriteRecord
      <4>1. k \in DOMAIN entries
        BY <3>3 DEF WriteRecord, IInv, TypeOK, ArchiveInv, LayoutInv, Streaming
      <4>2. entries[k] \in Entry
        BY <4>1 DEF IInv, TypeOK
      <4>3. RecordLen(entries[k], layout[k]) \in Nat
        BY <4>2 DEF RecordLen, Entry
      <4> QED
        BY <3>1, <3>3, <4>3 DEF WriteRecord
    <3> QED
      BY <1>10, <3>2, <3>3
  <2>4. HashedWhole' /\ k' \in Nat \ {0}
    BY <2>1, <2>2, HashedStays, StreamFacts DEF IInv, TypeOK
  <2> QED
    BY <2>1, <2>2, <2>3, <2>4, StreamFacts, StreamsOn DEF Streaming
<1>11. CASE WriteRecordFails
  <2>1. written' = written /\ piece' = piece
    BY <1>11 DEF WriteRecordFails, outVars
  <2> QED
    BY <1>11, <2>1, StreamFacts, BreaksOff DEF WriteRecordFails
<1>12. CASE WriteTail
  <2>1. /\ phase = "tail" /\ phase' = "ok" /\ Write(cursor, size)
        /\ UNCHANGED <<layoutVars, rangeVars, k, computed, tail>>
    BY <1>12 DEF WriteTail
  <2>2. Reached = cursor /\ Reached' = size
    BY <2>1 DEF Reached, layoutVars
  <2>3. /\ written' = Within(Reached') /\ written' \in Nat
        /\ piece' \in [from : Nat, to : Nat] /\ written' = piece'.to - start
        /\ written <= written' /\ written' <= end - start
    BY <2>1, <2>2, StreamFacts, AfterWrite
  <2>4. HashedWhole' /\ k' \in Nat \ {0} /\ tail' \in Nat
    BY <2>1, <2>3, HashedStays DEF IInv, TypeOK
  <2> QED
    BY <2>1, <2>3, <2>4, StreamFacts, StreamsOn DEF Streaming
<1>13. CASE WriteTailFails
  BY <1>13, StreamFacts, AfterBreak DEF WriteTailFails, Reached
<1> QED
  BY <1>1, <1>2, <1>3, <1>4, <1>5, <1>6, <1>7, <1>8, <1>9, <1>10, <1>11,
     <1>12, <1>13 DEF StreamStep
-----------------------------------------------------------------------------
(* The invariant holds in every reachable state. *)
THEOREM Invariance == Spec => []IInv
<1>1. Init => IInv
  BY InitHolds
<1>2. IInv /\ [Next]_vars => IInv'
  <2> SUFFICES ASSUME IInv, [Next]_vars PROVE IInv'
    OBVIOUS
  <2>1. CASE UNCHANGED vars
    BY <2>1 DEF vars, layoutVars, rangeVars, outVars, IInv, TypeOK, ArchiveInv,
                LayoutInv, StreamInv, HashedWhole, Contiguous, LayoutEnd, Reached,
                Here, Within, Placeable, HeaderLen, EndRecordsLen
  <2>2. CASE Rest
    BY <2>1, <2>2 DEF Rest
  <2> QED
    BY <2>1, <2>2, LayoutKeeps, AskKeeps, StreamKeeps DEF Next
<1> QED
  BY <1>1, <1>2, PTL DEF Spec

(* Type correctness of the virtual archive. *)
THEOREM TypeCorrect == Spec => []TypeOK
BY Invariance, PTL DEF IInv

(* The layout adds up, and at every moment of a transfer the bytes written *)
(* are those of the range that lie before the point reached (lines         *)
(* 134-209), for every manifest and every Range header.                    *)
THEOREM KeepsPosition == Spec => []ArchiveInv
BY Invariance, PTL DEF IInv

-----------------------------------------------------------------------------
(* The length of the directory.  Two loops add up the same lengths, one    *)
(* for the layout and one for the bytes; sums says what they have at k.    *)
Adds(sums, n, es, ls) ==
  /\ sums \in [0..n -> Nat] /\ sums[0] = 0
  /\ \A i \in 1..n : sums[i] = sums[i - 1] + RecordLen(es[i], ls[i])

Measured == {"range", "open", "header", "data", "descriptor", "directory"}

TailInv ==
  /\ phase = "place" => cdSize = 0
  /\ phase \in {"place", "measure"} \cup (Measured \ {"directory"}) => tail = 0
  /\ phase = "measure" =>
       /\ k - 1 <= Len(layout)
       /\ \E sums : Adds(sums, k - 1, entries, layout) /\ cdSize = sums[k - 1]
  /\ phase \in Measured => \E sums :
       /\ Adds(sums, Len(layout), entries, layout) /\ cdSize = sums[Len(layout)]
       /\ phase = "directory" => k - 1 <= Len(layout) /\ tail = sums[k - 1]
  /\ phase = "tail" => tail = cdSize + EndRecordsLen(zip64)

LEMMA Typed ==
  ASSUME IInv
  PROVE  /\ cdSize \in Nat /\ tail \in Nat /\ k \in Nat \ {0} /\ Len(layout) \in Nat
         /\ entries \in Seq(Entry) /\ layout \in Seq(Placed)
         /\ phase \in Measured \cup {"measure"} =>
              \A i \in 1..Len(layout) : RecordLen(entries[i], layout[i]) \in Nat
<1>1. /\ cdSize \in Nat /\ tail \in Nat /\ k \in Nat \ {0}
      /\ entries \in Seq(Entry) /\ layout \in Seq(Placed) /\ Len(layout) \in Nat
  BY DEF IInv, TypeOK
<1>2. phase \in Measured \cup {"measure"} => Len(layout) = Len(entries)
  BY DEF IInv, ArchiveInv, LayoutInv, Measured, Streaming
<1>3. ASSUME Len(layout) = Len(entries), NEW i \in 1..Len(layout)
      PROVE  RecordLen(entries[i], layout[i]) \in Nat
  <2>1. entries[i] \in Entry
    BY <1>1, <1>3
  <2>2. QED
    BY <2>1 DEF RecordLen, Entry
<1>4. QED
  BY <1>1, <1>2, <1>3

LEMMA AddsMore ==
  ASSUME NEW n \in Nat, NEW sums, Adds(sums, n, entries, layout),
         RecordLen(entries[n + 1], layout[n + 1]) \in Nat
  PROVE  \E more : /\ Adds(more, n + 1, entries, layout)
                   /\ more[n + 1] = sums[n] + RecordLen(entries[n + 1], layout[n + 1])
<1> DEFINE len == RecordLen(entries[n + 1], layout[n + 1])
           more == [i \in 0..n + 1 |-> IF i = n + 1 THEN sums[n] + len ELSE sums[i]]
<1>1. sums \in [0..n -> Nat] /\ sums[0] = 0
  BY DEF Adds
<1> HIDE DEF len
<1>2. /\ more \in [0..n + 1 -> Nat] /\ more[0] = 0 /\ more[n + 1] = sums[n] + len
      /\ \A i \in 0..n : more[i] = sums[i]
  BY <1>1 DEF len
<1> HIDE DEF more
<1>3. ASSUME NEW i \in 1..n + 1
      PROVE  more[i] = more[i - 1] + RecordLen(entries[i], layout[i])
  <2>1. i - 1 \in 0..n /\ more[i - 1] = sums[i - 1]
    BY <1>2
  <2>2. CASE i = n + 1
    BY <1>2, <2>1, <2>2 DEF len
  <2>3. CASE i # n + 1
    <3>1. i \in 1..n /\ more[i] = sums[i]
      BY <1>2, <2>3
    <3>2. QED
      BY <2>1, <3>1 DEF Adds
  <2>4. QED
    BY <2>2, <2>3
<1>4. Adds(more, n + 1, entries, layout)
  BY <1>2, <1>3 DEF Adds
<1>5. QED
  BY <1>2, <1>4 DEF len

LEMMA TailStep == IInv /\ TailInv /\ [Next]_vars => TailInv'
<1> SUFFICES ASSUME IInv, TailInv, [Next]_vars PROVE TailInv'
  OBVIOUS
<1>1. /\ cdSize \in Nat /\ tail \in Nat /\ k \in Nat \ {0} /\ Len(layout) \in Nat
      /\ phase \in Measured \cup {"measure"} =>
           \A i \in 1..Len(layout) : RecordLen(entries[i], layout[i]) \in Nat
  BY Typed
<1>2. CASE Place \/ PlaceFails
  BY <1>2 DEF TailInv, Place, PlaceFails, Measured
<1>3. CASE AllPlaced
  <2>1. Adds([i \in {0} |-> 0], 0, entries, layout)
    BY DEF Adds
  <2>2. UNCHANGED <<entries, layout>> /\ k' = 1 /\ cdSize' = 0
    BY <1>3 DEF AllPlaced, layoutVars, TailInv
  <2>3. \E sums : Adds(sums, k' - 1, entries', layout') /\ cdSize' = sums[k' - 1]
    BY <2>1, <2>2
  <2>4. QED
    BY <1>1, <1>3, <2>2, <2>3 DEF TailInv, AllPlaced, layoutVars, Measured
<1>4. CASE Measure
  <2>1. PICK sums : Adds(sums, k - 1, entries, layout) /\ cdSize = sums[k - 1]
    BY <1>4 DEF Measure, TailInv
  <2>2. k - 1 \in Nat /\ (k - 1) + 1 = k /\ k \in 1..Len(layout)
    BY <1>1, <1>4 DEF Measure
  <2>3. RecordLen(entries[k], layout[k]) \in Nat
    BY <1>1, <1>4, <2>2 DEF Measure
  <2>4. PICK more : /\ Adds(more, k, entries, layout)
                    /\ more[k] = cdSize + RecordLen(entries[k], layout[k])
    BY <2>1, <2>2, <2>3, AddsMore
  <2>5. UNCHANGED <<entries, layout>> /\ k' - 1 = k
    BY <1>1, <1>4 DEF Measure
  <2>6. Adds(more, k, entries', layout') /\ cdSize' = more[k]
    BY <1>4, <2>4, <2>5 DEF Measure
  <2>7. \E s : Adds(s, k' - 1, entries', layout') /\ cdSize' = s[k' - 1]
    BY <2>5, <2>6
  <2>8. QED
    BY <1>4, <2>2, <2>5, <2>7 DEF TailInv, Measure, Measured
<1>5. CASE Seal
  <2>1. PICK sums : Adds(sums, k - 1, entries, layout) /\ cdSize = sums[k - 1]
    BY <1>5 DEF Seal, TailInv
  <2>2. k - 1 = Len(layout)
    BY <1>1, <1>5 DEF Seal, TailInv
  <2>3. UNCHANGED <<entries, layout, cdSize>>
    BY <1>5 DEF Seal
  <2>4. Adds(sums, Len(layout'), entries', layout') /\ cdSize' = sums[Len(layout')]
    BY <2>1, <2>2, <2>3
  <2>5. QED
    BY <1>5, <2>4 DEF TailInv, Seal, Measured
<1>6. ASSUME UNCHANGED <<entries, layout, cdSize, tail>>,
             phase \in Measured \ {"directory"},
             phase' \in (Measured \ {"directory"}) \cup {"ok", "error"}
      PROVE  TailInv'
  <2>1. /\ tail = 0
        /\ \E sums : /\ Adds(sums, Len(layout), entries, layout)
                     /\ cdSize = sums[Len(layout)]
    BY <1>6 DEF TailInv
  <2>2. \E sums : /\ Adds(sums, Len(layout'), entries', layout')
                  /\ cdSize' = sums[Len(layout')]
    BY <1>6, <2>1
  <2>3. QED
    BY <1>6, <2>1, <2>2 DEF TailInv, Measured
<1>7. CASE Ask
  <2>1. UNCHANGED <<entries, layout, cdSize, tail>> /\ phase = "range"
        /\ phase' \in {"open", "error"}
    BY <1>7 DEF Ask, AskAll, AskLast, AskFrom, AskBetween, Stream, RefuseRange, layoutVars
  <2>2. QED
    BY <1>6, <2>1 DEF Measured
<1>8. CASE Open \/ OpenFails \/ WriteHeader \/ WriteHeaderFails \/ CopyData
             \/ CopyDataFails \/ WriteDescriptor \/ WriteDescriptorFails
  <2>1. /\ UNCHANGED <<entries, layout, cdSize, tail>>
        /\ phase \in {"open", "header", "data", "descriptor"}
        /\ phase' \in {"open", "header", "data", "descriptor", "error"}
    BY <1>8 DEF Open, OpenFails, WriteHeader, WriteHeaderFails, CopyData, CopyDataFails,
                WriteDescriptor, WriteDescriptorFails, WriteBreaks, layoutVars
  <2>2. QED
    BY <1>6, <2>1 DEF Measured
<1>9. CASE EntriesDone
  <2>1. /\ phase = "open" /\ phase' \in {"directory", "ok"} /\ k' = 1
        /\ UNCHANGED <<entries, layout, cdSize, tail>>
    BY <1>9 DEF EntriesDone, layoutVars
  <2>2. tail = 0
    BY <2>1 DEF TailInv, Measured
  <2>3. PICK sums : Adds(sums, Len(layout), entries, layout) /\ cdSize = sums[Len(layout)]
    BY <2>1 DEF TailInv, Measured
  <2>4. /\ Adds(sums, Len(layout'), entries', layout')
        /\ cdSize' = sums[Len(layout')] /\ tail' = sums[k' - 1]
    <3>1. sums[0] = 0 /\ k' - 1 = 0
      BY <2>1, <2>3 DEF Adds
    <3>2. QED
      BY <2>1, <2>2, <2>3, <3>1
  <2>5. k' - 1 <= Len(layout')
    BY <1>1, <2>1
  <2>6. QED
    BY <2>1, <2>4, <2>5 DEF TailInv, Measured
<1>10. CASE WriteRecord
  <2>1. /\ phase = "directory" /\ phase' = "directory" /\ k <= Len(layout) /\ k' = k + 1
        /\ tail' = tail + RecordLen(entries[k], layout[k])
        /\ UNCHANGED <<entries, layout, cdSize>>
    BY <1>10 DEF WriteRecord, layoutVars
  <2>2. PICK sums : /\ Adds(sums, Len(layout), entries, layout)
                    /\ cdSize = sums[Len(layout)]
                    /\ tail = sums[k - 1]
    BY <2>1 DEF TailInv, Measured
  <2>3. k \in 1..Len(layout) /\ k' - 1 = k /\ k' - 1 <= Len(layout')
    BY <1>1, <2>1
  <2>4. tail' = sums[k]
    BY <2>1, <2>2, <2>3 DEF Adds
  <2>5. /\ Adds(sums, Len(layout'), entries', layout')
        /\ cdSize' = sums[Len(layout')] /\ tail' = sums[k' - 1]
    BY <2>1, <2>2, <2>3, <2>4
  <2>6. QED
    BY <2>1, <2>3, <2>5 DEF TailInv, Measured
<1>11. CASE WriteEndRecords
  <2>1. /\ phase = "directory" /\ phase' = "tail" /\ k > Len(layout)
        /\ tail' = tail + EndRecordsLen(zip64) /\ UNCHANGED <<cdSize, zip64>>
    BY <1>11 DEF WriteEndRecords, layoutVars
  <2>2. PICK sums : /\ cdSize = sums[Len(layout)]
                    /\ k - 1 <= Len(layout) /\ tail = sums[k - 1]
    BY <2>1 DEF TailInv, Measured
  <2>3. tail = cdSize
    <3>1. k - 1 = Len(layout)
      BY <1>1, <2>1, <2>2
    <3>2. QED
      BY <2>2, <3>1
  <2>4. tail' = cdSize' + EndRecordsLen(zip64')
    BY <2>1, <2>3
  <2>5. QED
    BY <2>1, <2>4 DEF TailInv, Measured
<1>12. CASE WriteRecordFails \/ WriteTail \/ WriteTailFails
  BY <1>12 DEF TailInv, WriteRecordFails, WriteTail, WriteTailFails, WriteBreaks, Measured
<1>13. CASE UNCHANGED vars
  <2>1. UNCHANGED <<entries, layout, cdSize, zip64, tail, k, phase>>
    BY <1>13 DEF vars, layoutVars
  <2>2. QED
    BY <2>1 DEF TailInv
<1>14. CASE Rest
  BY <1>13, <1>14 DEF Rest
<1>15. QED
  BY <1>2, <1>3, <1>4, <1>5, <1>7, <1>8, <1>9, <1>10, <1>11, <1>12, <1>13, <1>14
  DEF Next, Layout, StreamStep

(* The central directory that buildTail makes has the length that the      *)
(* layout was sealed with, for every manifest and every width.             *)
THEOREM TailIsAsLong == Spec => []TailFits
<1>1. Init => TailInv
  BY DEF Init, TailInv, Measured
<1>2. IInv /\ TailInv => TailFits
  <2> SUFFICES ASSUME IInv, TailInv, phase = "tail" PROVE tail = size - cursor
    BY DEF TailFits
  <2>1. size = cursor + cdSize + EndRecordsLen(zip64)
    BY DEF IInv, ArchiveInv, LayoutInv, Streaming
  <2>2. cursor \in Nat /\ cdSize \in Nat /\ zip64 \in BOOLEAN
    BY DEF IInv, TypeOK
  <2>3. tail = cdSize + EndRecordsLen(zip64) /\ EndRecordsLen(zip64) \in Nat
    BY <2>2 DEF TailInv, EndRecordsLen
  <2>4. QED
    BY <2>1, <2>2, <2>3
<1>3. QED
  BY <1>1, <1>2, TailStep, Invariance, PTL DEF Spec

(* Lemma: at its end the whole range has been sent. *)
LEMMA WholeRangeSent ==
  IInv /\ phase = "ok" =>
    written = announced /\ piece.to = end /\ piece.to = start + announced
<1> SUFFICES ASSUME IInv, phase = "ok"
             PROVE  /\ written = announced /\ piece.to = end
                    /\ piece.to = start + announced
  OBVIOUS
<1>1. /\ start <= end /\ end <= size /\ announced = end - start
      /\ written = Within(Reached) /\ written = piece.to - start
  BY DEF IInv, ArchiveInv, StreamInv, Streaming
<1>2. Reached = size
  BY DEF Reached
<1>3. start \in Nat /\ end \in Nat /\ size \in Nat /\ piece.to \in Nat
  BY DEF IInv, TypeOK
<1>4. Within(size) = end - start
  BY <1>1, <1>3 DEF Within
<1>5. written = end - start
  BY <1>1, <1>2, <1>4
<1>6. written = piece.to - start /\ announced = end - start
  BY <1>1
<1> QED
  BY <1>3, <1>5, <1>6

(* A download that ends well has sent exactly the announced bytes, in      *)
(* order, for every manifest and every Range header.                       *)
THEOREM SendsExactly == Spec => []ExactlyAnnounced
<1>1. IInv => ExactlyAnnounced
  BY WholeRangeSent DEF ExactlyAnnounced, IInv, ArchiveInv, StreamInv
<1> QED
  BY <1>1, Invariance, PTL

(* A CRC is taken from a stream only when the whole file was sent. *)
THEOREM HashesWholeFiles == Spec => []HashedWhole
BY Invariance, PTL DEF IInv

(* Lemma: a number of the end records is read back unless it is stored     *)
(* plain and at the limit.                                                 *)
LEMMA EndReadsBack ==
  ASSUME NEW value \in Nat, NEW max \in Nat, zip64 \in BOOLEAN,
         zip64 \/ value <= max
  PROVE  ReadEnd(value, max) = value <=> zip64 \/ value # max
<1>1. CASE zip64
  BY <1>1 DEF ReadEnd, Field
<1>2. CASE ~zip64
  <2>1. value % (max + 1) = value
    BY <1>2
  <2>2. Field(value, max, zip64) = value /\ value # Unreadable
    BY <1>2, <2>1 DEF Field, Unreadable
  <2> QED
    BY <1>2, <2>2 DEF ReadEnd
<1> QED
  BY <1>1, <1>2

(* Lemma: what a reader finds out about an entry is right unless its size  *)
(* or its offset is exactly the limit.                                     *)
LEMMA EntryReadsBack ==
  ASSUME NEW i, Max32 \in Nat,
         entries[i].size \in Nat, entries[i].size <= Max32,
         layout[i].headerAt \in Nat,
         layout[i].zip64 <=> layout[i].headerAt > Max32,
         layout[i].zip64 \in BOOLEAN
  PROVE  (/\ ReadSize(i) = entries[i].size /\ ReadCompressed(i) = entries[i].size
          /\ ReadOffset(i) = layout[i].headerAt)
         <=> entries[i].size # Max32 /\ layout[i].headerAt # Max32
<1> DEFINE s == entries[i].size
           h == layout[i].headerAt
<1>1. SizeField(i) = s
  <2>1. s % (Max32 + 1) = s
    OBVIOUS
  <2> QED
    BY <2>1 DEF SizeField, Field
<1>2. Len(Extra(i)) = IF layout[i].zip64 THEN 1 ELSE 0
  BY DEF Extra
<1>3. CASE s = Max32
  <2>1. ReadCompressed(i) = Unreadable
    BY <1>1, <1>2, <1>3 DEF ReadCompressed, Nth
  <2>2. ReadCompressed(i) # s
    BY <2>1 DEF Unreadable
  <2> QED
    BY <1>3, <2>2
<1>4. CASE s # Max32
  <2>1. ReadSize(i) = s /\ ReadCompressed(i) = s
    BY <1>1, <1>4 DEF ReadSize, ReadCompressed
  <2>2. CASE layout[i].zip64
    <3>1. OffsetField(i) = Max32
      BY <2>2 DEF OffsetField, Field
    <3>2. Extra(i) = <<h>>
      BY <2>2 DEF Extra
    <3>3. Nth(Extra(i), 1) = h
      BY <3>2 DEF Nth
    <3>4. ReadOffset(i) = h
      BY <1>1, <1>4, <3>1, <3>3 DEF ReadOffset
    <3> QED
      BY <1>4, <2>1, <2>2, <3>4
  <2>3. CASE ~layout[i].zip64
    <3>1. h % (Max32 + 1) = h
      BY <2>3
    <3>2. OffsetField(i) = h
      BY <2>3, <3>1 DEF OffsetField, Field
    <3>3. Nth(Extra(i), 1) = Unreadable
      BY <1>2, <2>3 DEF Nth
    <3>4. ReadOffset(i) = IF h # Max32 THEN h ELSE Unreadable
      BY <1>1, <1>4, <3>2, <3>3 DEF ReadOffset
    <3> QED
      BY <1>4, <2>1, <3>4 DEF Unreadable
  <2> QED
    BY <2>2, <2>3
<1> QED
  BY <1>3, <1>4

(* A reader that has nothing but the file reads every count, offset and    *)
(* length of the directory back, whatever the widths of the fields, from   *)
(* exactly the archives that have no number at the limit of its field.     *)
THEOREM DirectoryIsReadable == Spec => []DirectoryReadable
<1>1. IInv => DirectoryReadable
  <2> SUFFICES ASSUME IInv, phase \in Streaming
               PROVE  ReadsBack <=> ~AtLimit
    BY DEF DirectoryReadable
  <2>1. /\ zip64 \in BOOLEAN /\ Len(layout) \in Nat /\ cursor \in Nat
        /\ cdSize \in Nat /\ Max16 \in Nat /\ Max32 \in Nat
    BY ArchiveAssumption DEF IInv, TypeOK
  <2>2. zip64 \/ (Len(layout) <= Max16 /\ cursor <= Max32 /\ cdSize <= Max32)
    BY DEF IInv, ArchiveInv, LayoutInv
  <2>3. /\ ReadEnd(Len(layout), Max16) = Len(layout)
             <=> zip64 \/ Len(layout) # Max16
        /\ ReadEnd(cursor, Max32) = cursor <=> zip64 \/ cursor # Max32
        /\ ReadEnd(cdSize, Max32) = cdSize <=> zip64 \/ cdSize # Max32
    BY <2>1, <2>2, EndReadsBack
  <2>4. ASSUME NEW i \in DOMAIN layout
        PROVE  (/\ ReadSize(i) = entries[i].size
                /\ ReadCompressed(i) = entries[i].size
                /\ ReadOffset(i) = layout[i].headerAt)
               <=> entries[i].size # Max32 /\ layout[i].headerAt # Max32
    <3>1. layout[i] \in Placed /\ i \in DOMAIN entries
      BY DEF IInv, TypeOK, ArchiveInv, LayoutInv
    <3>2. entries[i] \in Entry
      BY <3>1 DEF IInv, TypeOK
    <3>3. /\ Placeable(entries[i])
          /\ layout[i].zip64 <=> layout[i].headerAt > Max32
      BY DEF IInv, ArchiveInv, LayoutInv, Contiguous
    <3>4. layout[i].headerAt \in Nat /\ layout[i].zip64 \in BOOLEAN
      BY <3>1 DEF Placed
    <3>5. entries[i].size \in Nat /\ entries[i].size <= Max32
      BY <3>2, <3>3 DEF Placeable, Entry
    <3> QED
      BY <2>1, <3>3, <3>4, <3>5, EntryReadsBack
  <2> QED
    BY <2>3, <2>4 DEF ReadsBack, AtLimit
<1> QED
  BY <1>1, Invariance, PTL
-----------------------------------------------------------------------------
(* The refinement: what the client sees *)

(* Lemma: a write in the middle of the answer sends one piece, or none. *)
LEMMA WriteSends ==
  ASSUME IInv, IInv', phase \in Positioned, UNCHANGED rangeVars,
         NEW a \in Nat, NEW b \in Nat, a <= b, Reached = a,
         Write(a, b) \/ WriteBreaks(a, b)
  PROVE  piece' = piece \/ Promise!SendUpTo(start + announced)
<1>1. piece' = piece \/ piece' \in [from : {piece.to}, to : (piece.to + 1)..end]
  BY StreamFacts, WriteAdvances, BreakStaysInside
<1>2. start + announced = end
  BY StreamFacts DEF IInv, ArchiveInv, StreamInv, Positioned
<1> QED
  BY <1>1, <1>2 DEF Promise!SendUpTo

(* Lemma: while the layout is computed the client sees nothing. *)
LEMMA LayoutIsPending ==
  ASSUME IInv, Layout PROVE [Promise!Next]_(Promise!answerVars)
<1>1. UNCHANGED <<announced, start, piece>>
  BY DEF Layout, Place, PlaceFails, AllPlaced, Measure, Seal, rangeVars, outVars
<1>2. phase \in {"place", "measure"} /\ phase' \in {"place", "measure", "range", "error"}
  BY DEF Layout, Place, PlaceFails, AllPlaced, Measure, Seal
<1>3. StatusMap = "pending"
  BY <1>2 DEF StatusMap, Streaming
<1>4. CASE phase' = "error"
  <2>1. StatusMap' = "error"
    BY <1>4 DEF StatusMap, Streaming
  <2> QED
    BY <1>1, <1>3, <2>1 DEF Promise!Next, Promise!Break
<1>5. CASE phase' # "error"
  <2>1. StatusMap' = "pending"
    BY <1>2, <1>5 DEF StatusMap, Streaming
  <2> QED
    BY <1>1, <1>3, <2>1 DEF Promise!answerVars
<1> QED
  BY <1>4, <1>5

(* Lemma: a Range header is refused, or leads to an announcement. *)
LEMMA AskAnnounces ==
  ASSUME IInv, IInv', Ask PROVE [Promise!Next]_(Promise!answerVars)
<1>1. phase = "range" /\ StatusMap = "pending"
  <2>1. phase = "range"
    BY DEF Ask, AskAll, AskLast, AskFrom, AskBetween, Stream, RefuseRange
  <2> QED
    BY <2>1 DEF StatusMap, Streaming
<1>2. CASE RefuseRange
  <2>1. StatusMap' = "error" /\ UNCHANGED <<announced, start, piece>>
    BY <1>2 DEF RefuseRange, StatusMap, Streaming, rangeVars, outVars
  <2> QED
    BY <1>1, <2>1 DEF Promise!Next, Promise!Break
<1>3. ASSUME NEW first, NEW after, Stream(first, after)
      PROVE  Promise!Announce
  <2>1. phase' = "open" /\ piece' = [from |-> start', to |-> start']
    BY <1>3 DEF Stream
  <2>2. StatusMap' = "sending"
    BY <2>1 DEF StatusMap, Streaming
  <2>3. announced' \in Nat /\ start' \in Nat
    BY DEF IInv, TypeOK
  <2> QED
    BY <1>1, <2>1, <2>2, <2>3 DEF Promise!Announce
<1>4. Ask => RefuseRange \/ \E first, after : Stream(first, after)
  BY DEF Ask, AskAll, AskLast, AskFrom, AskBetween
<1> QED
  BY <1>2, <1>3, <1>4 DEF Promise!Next

(* Lemma: every step of StreamRange sends a piece or nothing, completes the *)
(* answer or breaks it off.                                                 *)
LEMMA StreamSends ==
  ASSUME IInv, IInv', StreamStep PROVE [Promise!Next]_(Promise!answerVars)
<1>0. phase \in Positioned
  BY DEF StreamStep, Open, OpenFails, WriteHeader, WriteHeaderFails, CopyData,
         CopyDataFails, WriteDescriptor, WriteDescriptorFails, EntriesDone,
         WriteRecord, WriteRecordFails, WriteEndRecords, WriteTail,
         WriteTailFails, Positioned, Streaming
<1>1. StatusMap = "sending"
  BY <1>0 DEF StatusMap, Positioned, Streaming
<1>2. UNCHANGED rangeVars /\ UNCHANGED <<announced, start>>
  BY DEF StreamStep, Open, OpenFails, WriteHeader, WriteHeaderFails, CopyData,
         CopyDataFails, WriteDescriptor, WriteDescriptorFails, EntriesDone,
         WriteRecord, WriteRecordFails, WriteEndRecords, WriteTail,
         WriteTailFails, rangeVars
<1>3. piece' = piece \/ Promise!SendUpTo(start + announced)
  <2>1. CASE WriteHeader \/ WriteHeaderFails
    <3>1. phase = "header" /\ Reached = Here.headerAt
      BY <2>1 DEF WriteHeader, WriteHeaderFails, Reached
    <3>2. /\ Here.headerAt \in Nat /\ Here.headerAt + HeaderLen(entries[k]) \in Nat
          /\ Here.headerAt <= Here.headerAt + HeaderLen(entries[k])
      BY <3>1, SegmentsInOrder
    <3> QED
      BY <1>0, <1>2, <2>1, <3>1, <3>2, WriteSends DEF WriteHeader, WriteHeaderFails
  <2>2. CASE CopyData \/ CopyDataFails
    <3>1. phase = "data" /\ Reached = Here.dataAt
      BY <2>2 DEF CopyData, CopyDataFails, Reached
    <3> QED
      BY <1>0, <1>2, <2>2, <3>1, SegmentsInOrder, WriteSends DEF CopyData, CopyDataFails
  <2>3. CASE WriteDescriptor \/ WriteDescriptorFails
    <3>1. phase = "descriptor" /\ Reached = Here.descriptorAt
      BY <2>3 DEF WriteDescriptor, WriteDescriptorFails, Reached
    <3>2. /\ Here.descriptorAt \in Nat /\ Here.descriptorAt + DescriptorLen \in Nat
          /\ Here.descriptorAt <= Here.descriptorAt + DescriptorLen
      BY <3>1, SegmentsInOrder
    <3> QED
      BY <1>0, <1>2, <2>3, <3>1, <3>2, WriteSends
         DEF WriteDescriptor, WriteDescriptorFails
  <2>4. CASE WriteTail \/ WriteTailFails
    <3>1. phase = "tail" /\ Reached = cursor
      BY <2>4 DEF WriteTail, WriteTailFails, Reached
    <3> QED
      BY <1>0, <1>2, <2>4, <3>1, StreamFacts, WriteSends DEF WriteTail, WriteTailFails
  <2> QED
    BY <2>1, <2>2, <2>3, <2>4
       DEF StreamStep, Open, OpenFails, EntriesDone, WriteRecord, WriteRecordFails,
           WriteEndRecords, outVars
<1>4. phase' \in Streaming \cup {"error"}
  BY DEF StreamStep, Open, OpenFails, WriteHeader, WriteHeaderFails, CopyData,
         CopyDataFails, WriteDescriptor, WriteDescriptorFails, EntriesDone,
         WriteRecord, WriteRecordFails, WriteEndRecords, WriteTail,
         WriteTailFails, WriteBreaks, Streaming
<1>5. CASE phase' = "error"
  <2>1. StatusMap' = "error"
    BY <1>5 DEF StatusMap, Streaming
  <2> QED
    BY <1>1, <1>2, <1>3, <2>1 DEF Promise!Next, Promise!Break
<1>6. CASE phase' = "ok"
  <2>1. StatusMap' = "ok"
    BY <1>6 DEF StatusMap, Streaming
  <2>2. piece'.to = start' + announced'
    <3>1. (IInv /\ phase = "ok" =>
             written = announced /\ piece.to = end /\ piece.to = start + announced)'
      BY WholeRangeSent, PTL
    <3> QED
      BY <1>6, <3>1
  <2> QED
    BY <1>1, <1>2, <1>3, <2>1, <2>2 DEF Promise!Next, Promise!Complete
<1>7. CASE phase' \notin {"ok", "error"}
  <2>1. StatusMap' = "sending"
    BY <1>4, <1>7 DEF StatusMap, Streaming
  <2> QED
    BY <1>1, <1>2, <1>3, <2>1 DEF Promise!Next, Promise!Send, Promise!answerVars
<1> QED
  BY <1>5, <1>6, <1>7

(* The download implements RangeAnswer: for every manifest and every Range *)
(* header the announced range is sent in order, without a gap, and never   *)
(* beyond its end, and the answer is complete only when all of it was.     *)
THEOREM KeepsAnswer == Spec => ImplementsAnswer
<1>1. Init => Promise!Init
  BY DEF Init, Promise!Init, StatusMap, Streaming
<1>2. IInv /\ IInv' /\ [Next]_vars => [Promise!Next]_(Promise!answerVars)
  <2> SUFFICES ASSUME IInv, IInv', [Next]_vars
               PROVE  [Promise!Next]_(Promise!answerVars)
    OBVIOUS
  <2>1. CASE UNCHANGED vars
    BY <2>1 DEF vars, rangeVars, outVars, Promise!answerVars, StatusMap
  <2>2. CASE Rest
    BY <2>1, <2>2 DEF Rest
  <2> QED
    BY <2>1, <2>2, LayoutIsPending, AskAnnounces, StreamSends DEF Next
<1> QED
  BY <1>1, <1>2, Invariance, PTL DEF Spec, ImplementsAnswer, Promise!Spec
=============================================================================
