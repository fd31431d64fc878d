--------------------------- MODULE VirtualArchive ---------------------------
(***************************************************************************)
(* The virtual ZIP archive (src/internal/zipstream/virtual.go) as one      *)
(* download uses it (serveSelectionArchive, src/internal/app/server.go):   *)
(* the layout is computed entry by entry without any file being read, the  *)
(* Range header is resolved against its size, and StreamRange then writes  *)
(* the part of every header, file, descriptor and of the central directory *)
(* that lies in the range.  Bytes are their positions in the archive.      *)
(***************************************************************************)
EXTENDS Integers, Sequences

CONSTANTS
  Selections,  (* the manifests an archive is made for *)
  Positions,   (* numbers that occur in a Range header *)
  Max16,       (* maxUint16Value, 65535 in the code *)
  Max32        (* maxUint32Value, 4294967295 in the code *)

Entry == [name : Nat, size : Int]  (* length of the path, announced size *)

ASSUME ArchiveAssumption ==
  /\ Selections \subseteq Seq(Entry)
  /\ Positions \subseteq Int
  /\ Max16 \in Nat \ {0} /\ Max32 \in Nat \ {0}

VARIABLES
  phase,     (* where the download is *)
  entries,   (* the manifest *)
  layout,    (* one virtualEntry for every entry placed so far *)
  cursor,    (* next free position; in the end centralDirectoryStart *)
  cdSize,    (* centralDirectorySize *)
  zip64,
  size,      (* Size() *)
  announced, (* Content-Length *)
  start, end,
  k,         (* index of the entry a loop is at *)
  computed,  (* entries whose CRC was computed on the way *)
  tail,      (* length of the tail that buildTail has made so far *)
  piece,     (* the positions written last: from (included), to *)
  written    (* bytes written *)

layoutVars == <<entries, layout, cursor, cdSize, zip64, size>>
rangeVars  == <<announced, start, end>>
outVars    == <<piece, written>>
vars       == <<phase, layoutVars, rangeVars, k, computed, tail, outVars>>

Phase == {"place", "measure", "range", "open", "header", "data", "descriptor",
          "directory", "tail", "ok", "error"}
Placed == [headerAt : Nat, dataAt : Nat, descriptorAt : Nat, zip64 : BOOLEAN]

TypeOK ==
  /\ phase \in Phase
  /\ entries \in Seq(Entry)
  /\ layout \in Seq(Placed)
  /\ cursor \in Nat /\ cdSize \in Nat /\ size \in Nat
  /\ zip64 \in BOOLEAN
  /\ announced \in Nat /\ start \in Nat /\ end \in Nat
  /\ k \in Nat \ {0}
  /\ computed \subseteq Nat
  /\ tail \in Nat
  /\ piece \in [from : Nat, to : Nat]
  /\ written \in Nat

Init ==
  /\ phase = "place"
  /\ entries \in Selections
  /\ layout = <<>> /\ cursor = 0 /\ cdSize = 0 /\ size = 0 /\ zip64 = FALSE
  /\ announced = 0 /\ start = 0 /\ end = 0
  /\ k = 1
  /\ computed = {} /\ tail = 0
  /\ piece = [from |-> 0, to |-> 0] /\ written = 0
-----------------------------------------------------------------------------
(* NewVirtualArchive *)

HeaderLen(e)     == 30 + e.name
DescriptorLen    == 16
RecordLen(e, l)  == 46 + e.name + IF l.zip64 THEN 12 ELSE 0
EndRecordsLen(z) == IF z THEN 56 + 20 + 22 ELSE 22

(* Variant: only the upper limit is checked. *)
PlaceableUnsigned(e) == e.size <= Max32

Placeable(e) == 0 <= e.size /\ e.size <= Max32

(* The next entry is placed behind the last one. *)
Place ==
  /\ phase = "place" /\ k <= Len(entries) /\ Placeable(entries[k])
  /\ LET data == cursor + HeaderLen(entries[k])
         descriptor == data + entries[k].size
     IN /\ layout' = Append(layout,
             [headerAt |-> cursor, dataAt |-> data,
              descriptorAt |-> descriptor, zip64 |-> cursor > Max32])
        /\ cursor' = descriptor + DescriptorLen
  /\ k' = k + 1
  /\ UNCHANGED <<phase, entries, cdSize, zip64, size, rangeVars, computed, tail,
                 outVars>>

(* A size that is negative or does not fit the 32-bit fields: no archive. *)
PlaceFails ==
  /\ phase = "place" /\ k <= Len(entries) /\ ~Placeable(entries[k])
  /\ phase' = "error"
  /\ UNCHANGED <<layoutVars, rangeVars, k, computed, tail, outVars>>

AllPlaced ==
  /\ phase = "place" /\ k > Len(entries)
  /\ phase' = "measure" /\ k' = 1
  /\ UNCHANGED <<layoutVars, rangeVars, computed, tail, outVars>>

(* Variant: the extra field of a far entry is not counted. *)
MeasureNarrow ==
  /\ phase = "measure" /\ k <= Len(layout)
  /\ cdSize' = cdSize + 46 + entries[k].name
  /\ k' = k + 1
  /\ UNCHANGED <<phase, entries, layout, cursor, zip64, size, rangeVars,
                 computed, tail, outVars>>

Measure ==
  /\ phase = "measure" /\ k <= Len(layout)
  /\ cdSize' = cdSize + RecordLen(entries[k], layout[k])
  /\ k' = k + 1
  /\ UNCHANGED <<phase, entries, layout, cursor, zip64, size, rangeVars,
                 computed, tail, outVars>>

(* Variant: the number of entries is not looked at. *)
SealUncounted ==
  /\ phase = "measure" /\ k > Len(layout)
  /\ zip64' = \/ cursor > Max32 \/ cdSize > Max32
              \/ \E i \in DOMAIN layout : layout[i].zip64
  /\ size' = cursor + cdSize + EndRecordsLen(zip64')
  /\ phase' = "range"
  /\ UNCHANGED <<entries, layout, cursor, cdSize, rangeVars, k, computed, tail,
                 outVars>>

Seal ==
  /\ phase = "measure" /\ k > Len(layout)
  /\ zip64' = \/ Len(layout) > Max16 \/ cursor > Max32 \/ cdSize > Max32
              \/ \E i \in DOMAIN layout : layout[i].zip64
  /\ size' = cursor + cdSize + EndRecordsLen(zip64')
  /\ phase' = "range"
  /\ UNCHANGED <<entries, layout, cursor, cdSize, rangeVars, k, computed, tail,
                 outVars>>
-----------------------------------------------------------------------------
(* parseArchiveRange, and the limits StreamRange sets once more *)

Stream(first, after) ==
  LET upper == IF after < 0 \/ after > size THEN size ELSE after
      lower == IF first < 0 THEN 0 ELSE first
  IN /\ phase = "range"
     /\ announced' = after - first
     /\ end' = upper
     /\ start' = IF lower > upper THEN upper ELSE lower
     /\ piece' = [from |-> start', to |-> start']
     /\ phase' = "open" /\ k' = 1
     /\ UNCHANGED <<layoutVars, computed, tail, written>>

(* No Range header. *)
AskAll == Stream(0, size)

(* bytes=-n *)
AskLast(n) ==
  /\ n > 0
  /\ Stream(size - (IF n > size THEN size ELSE n), size)

(* bytes=first- *)
AskFrom(first) ==
  /\ 0 <= first /\ first < size
  /\ Stream(first, size)

(* Variant: the last position is taken for an end. *)
AskBetweenExclusive(first, last) ==
  /\ 0 <= first /\ first < size /\ first <= last
  /\ Stream(first, last + 2)

(* bytes=first-last *)
AskBetween(first, last) ==
  /\ 0 <= first /\ first < size /\ first <= last
  /\ Stream(first, (IF last >= size THEN size - 1 ELSE last) + 1)

(* Another unit, more than one range, or out of bounds: status 416. *)
RefuseRange ==
  /\ phase = "range"
  /\ phase' = "error"
  /\ UNCHANGED <<layoutVars, rangeVars, k, computed, tail, outVars>>
-----------------------------------------------------------------------------
(* StreamRange *)

From(a) == IF start > a THEN start ELSE a
To(b)   == IF end < b THEN end ELSE b

(* overlap: positions a to b (excluded) have a part in the range. *)
Overlaps(a, b) == start < b /\ end > a /\ From(a) < To(b)

(* Variant: the range decides whether a segment is written, not how much. *)
WriteUncut(a, b) ==
  IF Overlaps(a, b)
  THEN /\ piece' = [from |-> a, to |-> b]
       /\ written' = written + (b - a)
  ELSE UNCHANGED outVars

(* The part of a to b that lies in the range is written. *)
Write(a, b) ==
  IF Overlaps(a, b)
  THEN /\ piece' = [from |-> From(a), to |-> To(b)]
       /\ written' = written + (To(b) - From(a))
  ELSE UNCHANGED outVars

(* The client or the source breaks off somewhere in that part. *)
WriteBreaks(a, b) ==
  /\ phase' = "error"
  /\ Overlaps(a, b)
  /\ \E to \in From(a)..To(b) :
       IF to = From(a)
       THEN UNCHANGED outVars
       ELSE /\ piece' = [from |-> From(a), to |-> to]
            /\ written' = written + (to - From(a))

Here == layout[k]
Whole(l) == start <= l.dataAt /\ l.descriptorAt <= end

(* The context is alive, and the file's part of the range, if there is     *)
(* one, can be opened.                                                     *)
Open ==
  /\ phase = "open" /\ k <= Len(layout)
  /\ phase' = "header"
  /\ UNCHANGED <<layoutVars, rangeVars, k, computed, tail, outVars>>

(* The context is done, or the source cannot open the file. *)
OpenFails ==
  /\ phase = "open" /\ k <= Len(layout)
  /\ phase' = "error"
  /\ UNCHANGED <<layoutVars, rangeVars, k, computed, tail, outVars>>

WriteHeader ==
  /\ phase = "header"
  /\ Write(Here.headerAt, Here.headerAt + HeaderLen(entries[k]))
  /\ phase' = "data"
  /\ UNCHANGED <<layoutVars, rangeVars, k, computed, tail>>

WriteHeaderFails ==
  /\ phase = "header"
  /\ WriteBreaks(Here.headerAt, Here.headerAt + HeaderLen(entries[k]))
  /\ UNCHANGED <<layoutVars, rangeVars, k, computed, tail>>

(* Variant: a file is hashed as soon as its first byte is in the range. *)
CopyDataHashingPart ==
  /\ phase = "data"
  /\ Write(Here.dataAt, Here.descriptorAt)
  /\ computed' = IF Overlaps(Here.dataAt, Here.descriptorAt)
                    /\ start <= Here.dataAt
                 THEN computed \cup {k} ELSE computed
  /\ phase' = "descriptor"
  /\ UNCHANGED <<layoutVars, rangeVars, k, tail>>

(* The file's part is copied; a file that is copied as a whole is hashed. *)
CopyData ==
  /\ phase = "data"
  /\ Write(Here.dataAt, Here.descriptorAt)
  /\ computed' = IF Overlaps(Here.dataAt, Here.descriptorAt) /\ Whole(Here)
                 THEN computed \cup {k} ELSE computed
  /\ phase' = "descriptor"
  /\ UNCHANGED <<layoutVars, rangeVars, k, tail>>

(* The source has fewer bytes, or fails, or the client is gone. *)
CopyDataFails ==
  /\ phase = "data"
  /\ WriteBreaks(Here.dataAt, Here.descriptorAt)
  /\ UNCHANGED <<layoutVars, rangeVars, k, computed, tail>>

(* The CRC for the descriptor is at hand or can be resolved. *)
WriteDescriptor ==
  /\ phase = "descriptor"
  /\ Write(Here.descriptorAt, Here.descriptorAt + DescriptorLen)
  /\ phase' = "open" /\ k' = k + 1
  /\ UNCHANGED <<layoutVars, rangeVars, computed, tail>>

WriteDescriptorFails ==
  /\ phase = "descriptor"
  /\ WriteBreaks(Here.descriptorAt, Here.descriptorAt + DescriptorLen)
  /\ UNCHANGED <<layoutVars, rangeVars, k, computed, tail>>

(* The loop over the entries ends; is there something of the tail to send? *)
EntriesDone ==
  /\ phase = "open" /\ k > Len(layout)
  /\ phase' = IF Overlaps(cursor, size) THEN "directory" ELSE "ok"
  /\ k' = 1
  /\ UNCHANGED <<layoutVars, rangeVars, computed, tail, outVars>>

(* buildTail: the record of one entry. *)
WriteRecord ==
  /\ phase = "directory" /\ k <= Len(layout)
  /\ tail' = tail + RecordLen(entries[k], layout[k])
  /\ k' = k + 1
  /\ UNCHANGED <<phase, layoutVars, rangeVars, computed, outVars>>

(* The CRC of an entry outside the range has to be read from the source. *)
WriteRecordFails ==
  /\ phase = "directory" /\ k <= Len(layout)
  /\ k \notin computed
  /\ phase' = "error"
  /\ UNCHANGED <<layoutVars, rangeVars, k, computed, tail, outVars>>

WriteEndRecords ==
  /\ phase = "directory" /\ k > Len(layout)
  /\ tail' = tail + EndRecordsLen(zip64)
  /\ phase' = "tail"
  /\ UNCHANGED <<layoutVars, rangeVars, k, computed, outVars>>

WriteTail ==
  /\ phase = "tail"
  /\ Write(cursor, size)
  /\ phase' = "ok"
  /\ UNCHANGED <<layoutVars, rangeVars, k, computed, tail>>

WriteTailFails ==
  /\ phase = "tail"
  /\ WriteBreaks(cursor, size)
  /\ UNCHANGED <<layoutVars, rangeVars, k, computed, tail>>

(* The handler has returned. *)
Rest ==
  /\ phase \in {"ok", "error"}
  /\ UNCHANGED vars

Layout == Place \/ PlaceFails \/ AllPlaced \/ Measure \/ Seal

Ask ==
  \/ AskAll \/ RefuseRange
  \/ \E n \in Positions : AskLast(n) \/ AskFrom(n)
  \/ \E first, last \in Positions : AskBetween(first, last)

StreamStep ==
  \/ Open \/ OpenFails \/ WriteHeader \/ WriteHeaderFails
  \/ CopyData \/ CopyDataFails \/ WriteDescriptor \/ WriteDescriptorFails
  \/ EntriesDone \/ WriteRecord \/ WriteRecordFails \/ WriteEndRecords
  \/ WriteTail \/ WriteTailFails

Next == Layout \/ Ask \/ StreamStep \/ Rest

Spec == Init /\ [][Next]_vars
-----------------------------------------------------------------------------
(* Why the pieces fit: the layout has no gap, and every step leaves all    *)
(* positions of the range before a certain one written.                    *)

LayoutEnd == IF layout = <<>> THEN 0
             ELSE layout[Len(layout)].descriptorAt + DescriptorLen

Contiguous ==
  \A i \in DOMAIN layout :
    /\ Placeable(entries[i])
    /\ layout[i].dataAt = layout[i].headerAt + HeaderLen(entries[i])
    /\ layout[i].descriptorAt = layout[i].dataAt + entries[i].size
    /\ layout[i].headerAt = IF i = 1 THEN 0
                            ELSE layout[i - 1].descriptorAt + DescriptorLen
    /\ layout[i].zip64 <=> layout[i].headerAt > Max32

(* The position up to which a step finds everything written *)
Reached ==
  CASE phase = "open" /\ k <= Len(layout) -> Here.headerAt
    [] phase = "header" -> Here.headerAt
    [] phase = "data" -> Here.dataAt
    [] phase = "descriptor" -> Here.descriptorAt
    [] phase = "ok" -> size
    [] OTHER -> cursor

Within(position) == IF position <= start THEN 0
                    ELSE IF position >= end THEN end - start
                    ELSE position - start

Streaming == {"open", "header", "data", "descriptor", "directory", "tail", "ok"}

LayoutInv ==
  /\ Contiguous
  /\ cursor = LayoutEnd
  /\ phase = "place" => Len(layout) = k - 1 /\ k <= Len(entries) + 1
  /\ phase \in Streaming \cup {"measure", "range"} =>
       Len(layout) = Len(entries)
  /\ phase \in {"header", "data", "descriptor"} => k <= Len(layout)
  /\ phase \in Streaming \cup {"range"} =>
       /\ size = cursor + cdSize + EndRecordsLen(zip64)
       /\ zip64 \/ (Len(layout) <= Max16 /\ cursor <= Max32 /\ cdSize <= Max32)

StreamInv ==
  /\ phase \in {"place", "measure", "range"} =>
       computed = {} /\ written = 0 /\ piece.to = 0 /\ start = 0 /\ end = 0
  /\ phase \in Streaming \cup {"error"} =>
       /\ written = piece.to - start
       /\ written <= end - start
       /\ computed \subseteq DOMAIN layout
  /\ phase \in Streaming =>
       /\ start <= end /\ end <= size
       /\ announced = end - start
       /\ written = Within(Reached)

ArchiveInv == LayoutInv /\ StreamInv
-----------------------------------------------------------------------------
(* A download that ends well has sent exactly as many bytes as its         *)
(* Content-Length announced before the first file was opened, whichever    *)
(* range was asked for; and what it sends it sends in order, no position   *)
(* twice and none left out (lines 134-209).                                *)
ExactlyAnnounced ==
  /\ phase = "ok" => written = announced /\ piece.to = end
  /\ phase \in Streaming \cup {"error"} => written = piece.to - start

(* The central directory that buildTail makes is as long as the layout     *)
(* reckoned with when the size was announced: else the slice in            *)
(* writeLiteralSubrange would be out of bounds, or bytes would be missing. *)
TailFits == phase = "tail" => tail = size - cursor

(* What the 16-bit and 32-bit fields of the directory hold: a 64-bit       *)
(* number leaves the field at its maximum, the mark that its value stands  *)
(* in the ZIP64 record, or in the extra field of the entry.                *)
Field(value, max, zip) == IF zip THEN max ELSE value % (max + 1)
SizeField(i)   == Field(entries[i].size, Max32, FALSE)
OffsetField(i) == Field(layout[i].headerAt, Max32, layout[i].zip64)
Extra(i)       == IF layout[i].zip64 THEN <<layout[i].headerAt>> ELSE <<>>

(* What a reader of the ZIP format makes of them.  It knows nothing but    *)
(* the file: a field at its maximum has its value in the ZIP64 record when *)
(* there is one, and in an entry the values of all fields at their maximum *)
(* follow each other in the extra field: size, compressed size, offset.    *)
Unreadable == -1

ReadEnd(value, max) ==
  LET field == Field(value, max, zip64)
  IN IF field # max THEN field ELSE IF zip64 THEN value ELSE Unreadable

Nth(extra, n) == IF n <= Len(extra) THEN extra[n] ELSE Unreadable

ReadSize(i) == IF SizeField(i) # Max32 THEN SizeField(i) ELSE Nth(Extra(i), 1)
ReadCompressed(i) ==
  IF SizeField(i) # Max32 THEN SizeField(i) ELSE Nth(Extra(i), 2)
ReadOffset(i) ==
  IF OffsetField(i) # Max32 THEN OffsetField(i)
  ELSE Nth(Extra(i), IF SizeField(i) = Max32 THEN 3 ELSE 1)

ReadsBack ==
  /\ ReadEnd(Len(layout), Max16) = Len(layout)
  /\ ReadEnd(cursor, Max32) = cursor
  /\ ReadEnd(cdSize, Max32) = cdSize
  /\ \A i \in DOMAIN layout :
       /\ ReadSize(i) = entries[i].size /\ ReadCompressed(i) = entries[i].size
       /\ ReadOffset(i) = layout[i].headerAt

(* The layout compares with > where the format has no room for the limit   *)
(* itself (lines 63, 75, 87-89): a number exactly at it is stored plain.   *)
AtLimit ==
  \/ ~zip64 /\ (Len(layout) = Max16 \/ cursor = Max32 \/ cdSize = Max32)
  \/ \E i \in DOMAIN layout :
       entries[i].size = Max32 \/ layout[i].headerAt = Max32

(* A reader that is given nothing but the file finds the central           *)
(* directory, knows how long it is and how many entries it has, and finds  *)
(* every local header and the length of every file (lines 286-375), for    *)
(* exactly those archives that have no number at the limit of its field.   *)
DirectoryReadable == phase \in Streaming => (ReadsBack <=> ~AtLimit)

(* A CRC is taken from the stream, and stored for all later downloads of   *)
(* the blob (line 184), only when every byte of the file was sent in this  *)
(* very download.                                                          *)
HashedWhole ==
  \A i \in computed :
    /\ start <= layout[i].dataAt
    /\ layout[i].descriptorAt <= start + written

(* What the client sees of the download *)
StatusMap ==
  CASE phase \in {"ok", "error"} -> phase
    [] phase \in Streaming \ {"ok"} -> "sending"
    [] OTHER -> "pending"

Promise == INSTANCE RangeAnswer WITH status <- StatusMap, first <- start

(* The download keeps the promise of RangeAnswer: it announces a range and *)
(* sends it in order and without a gap, or breaks off (lines 574-669).     *)
ImplementsAnswer == Promise!Spec
=============================================================================
