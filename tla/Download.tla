------------------------------ MODULE Download ------------------------------
(***************************************************************************)
(* Downloads of one selection of one commit, and what they share           *)
(* (src/internal/app/server.go, crc_cache.go, src/internal/cache/          *)
(* manifest.go): the cached manifest, the CRC of every blob, and the       *)
(* flights in which one request hashes a blob while others wait for it.    *)
(* A client whose download breaks off asks for the rest with a Range       *)
(* header and appends it to what it has.  VirtualArchive has the layout    *)
(* byte by byte; here an archive is a sequence of units: a header, a byte  *)
(* of a file, a descriptor, a record or the end of the directory.          *)
(***************************************************************************)
EXTENDS Integers, Sequences, SequencesExt

CONSTANTS
  Client,
  FileCount,    (* the files selected, numbered in the order of their paths *)
  BlobOf,       (* [File -> blob] *)
  Listed,       (* [File -> size in the tree], of an LFS file its pointer's *)
  Length,       (* [File -> size], what the media endpoint sends *)
  Troubles,     (* what can go wrong, see below *)
  MaxRequests,  (* bound: requests of a client *)
  None

File == 1..FileCount

(* The pointer of an LFS file is not empty.  Troubles:                     *)
(* "cut":    a client leaves while its request lists the files;            *)
(* "sizes":  the size of a file cannot be resolved;                        *)
(* "source": the source fails when an answer has already begun.            *)
ASSUME DownloadAssumption ==
  /\ FileCount \in Nat
  /\ Listed \in [File -> Nat] /\ Length \in [File -> Nat]
  /\ \A f \in File : Listed[f] <= Length[f] /\ (Listed[f] = 0 => Length[f] = 0)
  /\ \A f, g \in File : BlobOf[f] = BlobOf[g] =>
       Listed[f] = Listed[g] /\ Length[f] = Length[g]
  /\ Troubles \subseteq {"cut", "sizes", "source"}
  /\ MaxRequests \in Nat \ {0}
  /\ None \notin Client

VARIABLES
  manifest,  (* the entry of the manifest cache: the size of every file *)
  crcs,      (* values of the crcCache *)
  leader,    (* who hashes a blob in the singleflight group *)
  pc,        (* where a client's request is *)
  job,       (* what the handler of the request knows *)
  got,       (* the units a client has *)
  requests   (* requests of a client so far *)

shared == <<manifest, crcs, leader>>
vars == <<shared, pc, job, got, requests>>

Blob == {BlobOf[f] : f \in File}

Sizes == UNION {{Listed[f], Length[f]} : f \in File}

(* The CRC of the first n bytes of a file *)
CRC(f, n) == [blob |-> BlobOf[f], length |-> n]
CRCs == {CRC(f, n) : f \in File, n \in Sizes}

Manifests == UNION {[S -> Sizes] : S \in SUBSET File}
-----------------------------------------------------------------------------
(* An archive *)

Unit(kind, f, n) == [kind |-> kind, file |-> f, n |-> n, crc |-> None]
JSON == Unit("json", 0, 0)

FileUnits(f, n) ==
  <<Unit("header", f, 0)>> \o [i \in 1..n |-> Unit("byte", f, i)]
    \o <<Unit("descriptor", f, n)>>

(* The units of the archive of m, without their CRCs *)
Files(m) ==
  FlattenSeq([f \in File |-> IF f \in DOMAIN m THEN FileUnits(f, m[f]) ELSE <<>>])

Records(m) ==
  FlattenSeq([f \in File |->
    IF f \in DOMAIN m THEN <<Unit("record", f, m[f])>> ELSE <<>>])

Plan(m) == Files(m) \o Records(m) \o <<Unit("end", 0, Cardinality(DOMAIN m))>>

WithCRC(unit, crc) ==
  IF unit.kind \in {"descriptor", "record"}
  THEN [unit EXCEPT !.crc = crc[unit.file]] ELSE unit

(* The archive with the CRCs of the bytes that are in it *)
Archive(m) ==
  LET plan == Plan(m)
  IN [i \in DOMAIN plan |-> WithCRC(plan[i], [f \in DOMAIN m |-> CRC(f, m[f])])]
-----------------------------------------------------------------------------
Running == {"lookup", "list", "sizes", "layout", "send", "miss", "hash", "wait"}
Ended == {"idle", "done", "failed"}

NoFiles == [f \in {} |-> 0]

(* gone: the client reads no more; sel: the manifest; from: how many units *)
(* the client had when it asked; computed: CRCs computed while streaming;  *)
(* known: CRCs at hand for the descriptor or the directory.                *)
NoJob == [gone |-> FALSE, sel |-> NoFiles, from |-> 0, computed |-> NoFiles,
          known |-> NoFiles]

TypeOK ==
  /\ manifest \in Manifests \cup {None}
  /\ crcs \in [Blob -> CRCs \cup {None}]
  /\ leader \in [Blob -> Client \cup {None}]
  /\ pc \in [Client -> Running \cup Ended]
  /\ requests \in [Client -> 0..MaxRequests]
  /\ \A c \in Client :
       /\ job[c].sel \in Manifests
       /\ job[c].from \in 0..Len(got[c])
       /\ \A f \in DOMAIN job[c].computed :
            job[c].computed[f] = CRC(f, job[c].sel[f])
       /\ DOMAIN job[c].known \subseteq DOMAIN job[c].sel

Init ==
  /\ manifest = None
  /\ crcs = [b \in Blob |-> None]
  /\ leader = [b \in Blob |-> None]
  /\ pc = [c \in Client |-> "idle"]
  /\ job = [c \in Client |-> NoJob]
  /\ got = [c \in Client |-> <<>>]
  /\ requests = [c \in Client |-> 0]

(* The map of CRCs with that of f in it *)
Noting(crcOf, f, crc) ==
  [g \in DOMAIN crcOf \cup {f} |-> IF g = f THEN crc ELSE crcOf[g]]

Goto(c, place) == pc' = [pc EXCEPT ![c] = place]

(* The handlers of cs return without having sent everything. *)
Fail(cs) ==
  /\ pc' = [c \in Client |-> IF c \in cs THEN "failed" ELSE pc[c]]
  /\ job' = [c \in Client |-> IF c \in cs THEN NoJob ELSE job[c]]
-----------------------------------------------------------------------------
(* The client *)

(* The first request has no Range header, a later one asks for the rest. *)
Request(c) ==
  /\ pc[c] \in {"idle", "failed"}
  /\ requests[c] < MaxRequests
  /\ Goto(c, "lookup")
  /\ job' = [job EXCEPT ![c].from = Len(got[c])]
  /\ requests' = [requests EXCEPT ![c] = @ + 1]
  /\ UNCHANGED <<shared, got>>

(* The connection breaks: the request's context is done. *)
Leave(c) ==
  /\ pc[c] \in Running /\ ~job[c].gone
  /\ pc[c] \in {"lookup", "list", "sizes"} => "cut" \in Troubles
  /\ job' = [job EXCEPT ![c].gone = TRUE]
  /\ UNCHANGED <<shared, pc, got, requests>>
-----------------------------------------------------------------------------
(* buildSelectionForCommit, the manifest cache *)

(* The entry expires, or another selection takes its place. *)
Expire ==
  /\ manifest # None
  /\ manifest' = None
  /\ UNCHANGED <<crcs, leader, pc, job, got, requests>>

HitManifest(c) ==
  /\ pc[c] = "lookup" /\ manifest # None
  /\ job' = [job EXCEPT ![c].sel = manifest]
  /\ Goto(c, "layout")
  /\ UNCHANGED <<shared, got, requests>>

MissManifest(c) ==
  /\ pc[c] = "lookup" /\ manifest = None
  /\ Goto(c, "list")
  /\ UNCHANGED <<shared, job, got, requests>>

ListFiles(c) ==
  /\ pc[c] = "list"
  /\ job' = [job EXCEPT ![c].sel = Listed]
  /\ Goto(c, "sizes")
  /\ UNCHANGED <<shared, got, requests>>

(* The loop over the rows ends early when the context is done, and nobody  *)
(* asks the rows why.                                                      *)
ListFilesCutShort(c) ==
  /\ pc[c] = "list" /\ job[c].gone
  /\ \E S \in SUBSET File : job' = [job EXCEPT ![c].sel = [f \in S |-> Listed[f]]]
  /\ Goto(c, "sizes")
  /\ UNCHANGED <<shared, got, requests>>

ListFilesFails(c) ==
  /\ pc[c] = "list"
  /\ Fail({c})
  /\ UNCHANGED <<shared, got, requests>>

ResolveSizes(c) ==
  /\ pc[c] = "sizes"
  /\ job' = [job EXCEPT ![c].sel = [f \in DOMAIN @ |-> Length[f]]]
  /\ manifest' = job'[c].sel
  /\ Goto(c, "layout")
  /\ UNCHANGED <<crcs, leader, got, requests>>

(* A failure is logged, and the manifest goes on with the listed sizes. *)
ResolveSizesFails(c) ==
  /\ pc[c] = "sizes" /\ DOMAIN job[c].sel # {}
  /\ job[c].gone \/ "sizes" \in Troubles
  /\ manifest' = job[c].sel
  /\ Goto(c, "layout")
  /\ UNCHANGED <<crcs, leader, job, got, requests>>
-----------------------------------------------------------------------------
(* serveSelectionArchive *)

At(c) == Len(got[c]) + 1
Unsent(c) == At(c) <= Len(Plan(job[c].sel))
Current(c) == Plan(job[c].sel)[At(c)]

StartStream(c) ==
  /\ pc[c] = "layout"
  /\ job[c].from = 0 \/ Unsent(c)
  /\ Goto(c, "send")
  /\ UNCHANGED <<shared, job, got, requests>>

(* 416: the Range begins behind the end. *)
RefuseRange(c) ==
  /\ pc[c] = "layout"
  /\ job[c].from # 0 /\ ~Unsent(c)
  /\ Fail({c})
  /\ UNCHANGED <<shared, got, requests>>

(* Whether any byte of this answer was sent decides between a status code  *)
(* and an error text that goes where the archive's next bytes belong, if   *)
(* Content-Length leaves room for it.                                      *)
Begun(c) == Len(got[c]) > job[c].from /\ ~job[c].gone

AppendErrorText(cs) ==
  got' = [d \in Client |-> IF d \in cs THEN Append(got[d], JSON) ELSE got[d]]

MayBreak(c) == "source" \in Troubles \/ Len(got[c]) = job[c].from

(* The file cannot be opened or breaks off. *)
SourceFails(c) ==
  /\ pc[c] = "send" /\ Unsent(c)
  /\ Current(c).kind \in {"header", "byte"} /\ job[c].sel[Current(c).file] > 0
  /\ MayBreak(c)
  /\ UNCHANGED got \/ (Begun(c) /\ AppendErrorText({c}))
  /\ Fail({c})
  /\ UNCHANGED <<shared, requests>>

(* A write fails, or the next look at the context. *)
Abort(c) ==
  /\ pc[c] \in {"layout", "send"} /\ job[c].gone
  /\ Fail({c})
  /\ UNCHANGED <<shared, got, requests>>

SendHeader(c) ==
  /\ pc[c] = "send" /\ ~job[c].gone /\ Unsent(c)
  /\ Current(c).kind = "header"
  /\ got' = [got EXCEPT ![c] = Append(@, Current(c))]
  /\ UNCHANGED <<shared, pc, job, requests>>

(* A byte in the middle of a file *)
SendByte(c) ==
  /\ pc[c] = "send" /\ ~job[c].gone /\ Unsent(c)
  /\ Current(c).kind = "byte" /\ Current(c).n < job[c].sel[Current(c).file]
  /\ got' = [got EXCEPT ![c] = Append(@, Current(c))]
  /\ UNCHANGED <<shared, pc, job, requests>>

SentWhole(c) == job[c].from <= Len(got[c]) - Current(c).n + 1

(* Variant: a file is hashed from where the range begins. *)
SendLastByteHashingPart(c) ==
  /\ pc[c] = "send" /\ ~job[c].gone /\ Unsent(c)
  /\ Current(c).kind = "byte" /\ Current(c).n = job[c].sel[Current(c).file]
  /\ got' = [got EXCEPT ![c] = Append(@, Current(c))]
  /\ LET f == Current(c).file
         crc == CRC(f, IF SentWhole(c) THEN Current(c).n
                       ELSE Len(got[c]) + 1 - job[c].from)
     IN crcs' = [crcs EXCEPT ![BlobOf[f]] = crc]
  /\ UNCHANGED <<manifest, leader, pc, job, requests>>

(* With the last byte of a file that was sent as a whole its CRC is known  *)
(* and stored for the blob.                                                *)
SendLastByte(c) ==
  /\ pc[c] = "send" /\ ~job[c].gone /\ Unsent(c)
  /\ Current(c).kind = "byte" /\ Current(c).n = job[c].sel[Current(c).file]
  /\ got' = [got EXCEPT ![c] = Append(@, Current(c))]
  /\ LET f == Current(c).file
         crc == CRC(f, Current(c).n)
     IN IF SentWhole(c)
        THEN /\ job' = [job EXCEPT ![c].computed = Noting(@, f, crc)]
             /\ crcs' = [crcs EXCEPT ![BlobOf[f]] = crc]
        ELSE UNCHANGED <<job, crcs>>
  /\ UNCHANGED <<manifest, leader, pc, requests>>
-----------------------------------------------------------------------------
(* The CRCs for descriptors and directory: resolveEntryCRC, crcCache       *)

(* The files whose CRC the next unit needs: buildTail wants all of them    *)
(* before the first byte of the directory is sent.                         *)
Needed(c) ==
  LET unit == Current(c)
  IN {f \in DOMAIN job[c].sel :
        /\ Unsent(c)
        /\ \/ unit.kind = "descriptor" /\ unit.file = f
           \/ unit.kind \in {"record", "end"}}
Missing(c) == Needed(c) \ DOMAIN job[c].known
Wanted(c) == Min(Missing(c))
WantsCRC(c, b) == Missing(c) # {} /\ BlobOf[Wanted(c)] = b

Know(c, crc) == job' = [job EXCEPT ![c].known = Noting(@, Wanted(c), crc)]

UseComputed(c) ==
  /\ pc[c] = "send" /\ Missing(c) # {}
  /\ Wanted(c) \in DOMAIN job[c].computed
  /\ Know(c, job[c].computed[Wanted(c)])
  /\ UNCHANGED <<shared, pc, got, requests>>

(* Variant: the cache is asked first. *)
UseCachedFirst(c) ==
  /\ pc[c] = "send" /\ Missing(c) # {}
  /\ crcs[BlobOf[Wanted(c)]] # None
  /\ Know(c, crcs[BlobOf[Wanted(c)]])
  /\ UNCHANGED <<shared, pc, got, requests>>

UseCached(c) ==
  /\ pc[c] = "send" /\ Missing(c) # {}
  /\ Wanted(c) \notin DOMAIN job[c].computed
  /\ crcs[BlobOf[Wanted(c)]] # None
  /\ Know(c, crcs[BlobOf[Wanted(c)]])
  /\ UNCHANGED <<shared, pc, got, requests>>

MissCRC(c) ==
  /\ pc[c] = "send" /\ Missing(c) # {}
  /\ Wanted(c) \notin DOMAIN job[c].computed
  /\ crcs[BlobOf[Wanted(c)]] = None
  /\ Goto(c, "miss")
  /\ UNCHANGED <<shared, job, got, requests>>

(* Nobody hashes the blob: this request does, unless the CRC has come in. *)
LeadFlight(c) ==
  LET b == BlobOf[Wanted(c)]
  IN /\ pc[c] = "miss" /\ leader[b] = None
     /\ IF crcs[b] # None
        THEN Goto(c, "send") /\ Know(c, crcs[b]) /\ UNCHANGED leader
        ELSE /\ Goto(c, "hash")
             /\ leader' = [leader EXCEPT ![b] = c]
             /\ UNCHANGED job
     /\ UNCHANGED <<manifest, crcs, got, requests>>

JoinFlight(c) ==
  /\ pc[c] = "miss" /\ leader[BlobOf[Wanted(c)]] # None
  /\ Goto(c, "wait")
  /\ UNCHANGED <<shared, job, got, requests>>

(* All who share the flight that c leads *)
Flight(c) == {c} \cup {d \in Client : pc[d] = "wait"
                         /\ WantsCRC(d, BlobOf[Wanted(c)])}

(* The whole file has been read, whatever size the manifest has for it. *)
HashFile(c) ==
  LET b == BlobOf[Wanted(c)]
      crc == CRC(Wanted(c), Length[Wanted(c)])
  IN /\ pc[c] = "hash"
     /\ crcs' = [crcs EXCEPT ![b] = crc]
     /\ leader' = [leader EXCEPT ![b] = None]
     /\ pc' = [d \in Client |-> IF d \in Flight(c) THEN "send" ELSE pc[d]]
     /\ job' = [d \in Client |->
          IF d \in Flight(c)
          THEN [job[d] EXCEPT !.known = Noting(@, Wanted(d), crc)]
          ELSE job[d]]
     /\ UNCHANGED <<manifest, got, requests>>

(* Variant: the others go on waiting. *)
HashFileCancelledAlone(c) ==
  /\ pc[c] = "hash" /\ job[c].gone
  /\ leader' = [leader EXCEPT ![BlobOf[Wanted(c)]] = None]
  /\ Fail({c})
  /\ UNCHANGED <<manifest, crcs, got, requests>>

(* Variant: the CRC of the bytes read so far is stored, here of none. *)
HashFileCancelledStored(c) ==
  /\ pc[c] = "hash" /\ job[c].gone
  /\ leader' = [leader EXCEPT ![BlobOf[Wanted(c)]] = None]
  /\ crcs' = [crcs EXCEPT ![BlobOf[Wanted(c)]] = CRC(Wanted(c), 0)]
  /\ Fail(Flight(c))
  /\ UNCHANGED <<manifest, got, requests>>

(* Variant: a cancellation is reported like any other error. *)
HashFileCancelledLoudly(c) ==
  /\ pc[c] = "hash" /\ job[c].gone
  /\ leader' = [leader EXCEPT ![BlobOf[Wanted(c)]] = None]
  /\ Fail(Flight(c))
  /\ AppendErrorText({d \in Flight(c) : Begun(d)})
  /\ UNCHANGED <<manifest, crcs, requests>>

(* The leader's client is gone: the others fail with it.  No error text is *)
(* sent, for the error is the leader's cancellation.                       *)
HashFileCancelled(c) ==
  /\ pc[c] = "hash" /\ job[c].gone
  /\ leader' = [leader EXCEPT ![BlobOf[Wanted(c)]] = None]
  /\ Fail(Flight(c))
  /\ UNCHANGED <<manifest, crcs, got, requests>>

(* The source fails: all fail, and each of them sends the error text. *)
HashFileFails(c) ==
  /\ pc[c] = "hash"
  /\ \A d \in Flight(c) : MayBreak(d)
  /\ leader' = [leader EXCEPT ![BlobOf[Wanted(c)]] = None]
  /\ Fail(Flight(c))
  /\ \E told \in SUBSET {d \in Flight(c) : Begun(d)} : AppendErrorText(told)
  /\ UNCHANGED <<manifest, crcs, requests>>

SendDescriptor(c) ==
  /\ pc[c] = "send" /\ ~job[c].gone /\ Unsent(c)
  /\ Current(c).kind = "descriptor" /\ Missing(c) = {}
  /\ got' = [got EXCEPT ![c] = Append(@, WithCRC(Current(c), job[c].known))]
  /\ job' = [job EXCEPT ![c].known = NoFiles]
  /\ UNCHANGED <<shared, pc, requests>>

(* buildTail is done: the tail goes out unit by unit. *)
SendTail(c) ==
  /\ pc[c] = "send" /\ ~job[c].gone /\ Unsent(c)
  /\ Current(c).kind \in {"record", "end"} /\ Missing(c) = {}
  /\ got' = [got EXCEPT ![c] = Append(@, WithCRC(Current(c), job[c].known))]
  /\ UNCHANGED <<shared, pc, job, requests>>

Finish(c) ==
  /\ pc[c] = "send" /\ ~Unsent(c)
  /\ Goto(c, "done")
  /\ job' = [job EXCEPT ![c].gone = FALSE, ![c].computed = NoFiles,
                        ![c].known = NoFiles]
  /\ UNCHANGED <<shared, got, requests>>

(* Nothing is left to do: every client has its archive or has given up. *)
Rest ==
  /\ \A c \in Client :
       pc[c] = "done" \/ (pc[c] = "failed" /\ requests[c] = MaxRequests)
  /\ UNCHANGED vars

Select(c) ==
  \/ HitManifest(c) \/ MissManifest(c)
  \/ ListFiles(c) \/ ListFilesCutShort(c) \/ ListFilesFails(c)
  \/ ResolveSizes(c) \/ ResolveSizesFails(c)

Serve(c) ==
  \/ StartStream(c) \/ RefuseRange(c) \/ SourceFails(c) \/ Abort(c)
  \/ SendHeader(c) \/ SendByte(c) \/ SendLastByte(c)
  \/ SendDescriptor(c) \/ SendTail(c) \/ Finish(c)

FindCRC(c) ==
  \/ UseComputed(c) \/ UseCached(c) \/ MissCRC(c)
  \/ LeadFlight(c) \/ JoinFlight(c)
  \/ HashFile(c) \/ HashFileCancelled(c) \/ HashFileFails(c)

Handle(c) == Select(c) \/ Serve(c) \/ FindCRC(c)

Next ==
  \/ Expire \/ Rest
  \/ \E c \in Client : Request(c) \/ Leave(c) \/ Handle(c)

Spec == Init /\ [][Next]_vars
-----------------------------------------------------------------------------
(* One answer that is sent from beginning to end is an archive in itself:  *)
(* every descriptor and every record has the CRC and the size of the bytes *)
(* that were sent for the file, whatever the caches hold and whoever else  *)
(* fills them.                                                             *)
WholeAnswersConsistent ==
  \A c \in Client :
    pc[c] = "done" /\ job[c].from = 0 => got[c] = Archive(job[c].sel)

(* What a client has put together from several answers, of requests that   *)
(* broke off anywhere, is the archive of the selection.                    *)
ResumedIsArchive ==
  \A c \in Client : pc[c] = "done" => got[c] = Archive(Length)

(* A cached CRC is that of the whole file: a later answer that cannot      *)
(* compute the CRC trusts it.                                              *)
CachedCRCsTrue ==
  \A f \in File : crcs[BlobOf[f]] \in {None, CRC(f, Length[f])}

(* The manifest that is stored for the selection lists all of its files. *)
ManifestComplete == manifest # None => DOMAIN manifest = File

(* Nobody waits for a CRC that nobody computes: whoever leads a flight is  *)
(* at it, so that all who share it go on when it ends, however it ends.    *)
FlightsAreLed ==
  /\ \A b \in Blob : leader[b] # None =>
       pc[leader[b]] = "hash" /\ BlobOf[Wanted(leader[b])] = b
  /\ \A c \in Client : pc[c] = "wait" => leader[BlobOf[Wanted(c)]] # None

WholeArchive == Archive(Length)

StatusMap ==
  [c \in Client |-> IF pc[c] \in Running THEN "busy" ELSE pc[c]]

Transfer == INSTANCE ArchiveTransfer WITH Whole <- WholeArchive, status <- StatusMap

(* The handlers, caches and flights together keep the promise of           *)
(* ArchiveTransfer: at every moment what a client has, of however many     *)
(* answers, is a beginning of the archive, and nothing that another        *)
(* client, the caches or a flight do adds to it or takes from it           *)
(* (serveSelectionArchive, StreamRange, Resolve).                          *)
ImplementsTransfer == Transfer!Spec
=============================================================================
