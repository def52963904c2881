------------------------- MODULE TableUpload_proofs -------------------------
(***************************************************************************)
(* Theorems about uploads, for files, chunks and numbers of uploads of any *)
(* size. A counter's keys are fresh because every row it has numbered is   *)
(* at most the number it has reached under that spelling of the table; the *)
(* keys of a table are bounded, so that the greatest one, with which a     *)
(* counter begins, exists.                                                 *)
(***************************************************************************)
EXTENDS TableUpload, FoldLemmas, SequenceTheorems

AnyJob == [file : Files, chunk : Nat \ {0}, limit : Nat,
           mode : {"commit", "rollback", "dryrun"}, name : Names]

LEMMA FileIs ==
  ASSUME job \in AnyJob
  PROVE  /\ File.class \in {"csv", "xlsx", "ldif"}
         /\ File.class # "ldif" => File.rows \in Seq(Seq(Nat))
         /\ File.class = "ldif" => File.lines \in Seq(LdifLines)
         /\ job.chunk \in Nat \ {0} /\ job.name \in Names
BY DEF AnyJob, Files, File

FileSize == IF File.class = "ldif" THEN Len(File.lines) ELSE Len(File.rows)

LEMMA FileSizeIs == job \in AnyJob => FileSize \in Nat
BY FileIs DEF FileSize

-----------------------------------------------------------------------------
(* Records: of a row of a table, and of an entry of an ldif file.          *)

\* A cell that has reached a record is not empty.
LEMMA CellsOfRecord ==
  ASSUME NEW names, NEW row \in Seq(Nat)
  PROVE  \A c \in DOMAIN RecordOf(names, row) : RecordOf(names, row)[c] \in Nat \ {0}
<1> DEFINE filled == {x \in DOMAIN row : row[x] # Empty}
           under(c) == {x \in filled : names[x] = c}
<1>1. RecordOf(names, row) = [c \in {names[x] : x \in filled} |-> row[Max(under(c))]]
  BY DEF RecordOf
<1>2. ASSUME NEW x \in filled PROVE row[Max(under(names[x]))] \in Nat \ {0}
  <2> DEFINE S == under(names[x])
  <2>1. S \subseteq 1 .. Len(row) /\ S # {} /\ Len(row) \in Nat
    BY <1>2
  <2>2. \A y \in S : row[y] \in Nat \ {0}
    BY DEF Empty
  <2> HIDE DEF S
  <2>3. Max(S) \in S
    BY <2>1, MaxIn
  <2> QED
    BY <2>2, <2>3 DEF S
<1> HIDE DEF filled, under
<1> QED
  BY <1>1, <1>2

\* A key a record has of its own is a number above 0.
OwnKeyOK(record) == HasOwnKey(record) => record[KeyName] \in Nat \ {0}

\* The chunk: rows of a table, or at most one record of an ldif file.
ChunkOK(c) ==
  IF File.class # "ldif" THEN c \in Seq(Seq(Nat))
  ELSE c = << >> \/ \E record : c = <<record>> /\ ~HasOwnKey(record)

LEMMA ParsedOK ==
  ASSUME job \in AnyJob, ChunkOK(chunk), chunk # << >>
  PROVE  OwnKeyOK(Parsed.record)
<1>1. CASE File.class = "ldif"
  <2>1. PICK record : chunk = <<record>> /\ ~HasOwnKey(record)
    BY <1>1 DEF ChunkOK
  <2>2. Parsed.record = record
    BY <1>1, <2>1 DEF Parsed
  <2> QED
    BY <2>1, <2>2 DEF OwnKeyOK
<1>2. CASE File.class # "ldif"
  <2> DEFINE row == Head(chunk)
  <2>1. row \in Seq(Nat)
    BY <1>2 DEF ChunkOK
  <2>2. PICK names : Parsed.record = RecordOf(names, row)
    BY <1>2, FileIs DEF Parsed, CsvRow, XlsxRow
  <2> HIDE DEF row
  <2> QED
    BY <2>1, <2>2, CellsOfRecord DEF OwnKeyOK, HasOwnKey
<1> QED
  BY <1>1, <1>2

LEMMA ChunkTail ==
  ASSUME job \in AnyJob, ChunkOK(chunk), chunk # << >>
  PROVE  /\ ChunkOK(Tail(chunk))
         /\ Len(chunk) \in Nat \ {0} /\ Len(Tail(chunk)) = Len(chunk) - 1
<1>1. CASE File.class = "ldif"
  <2>1. PICK record : chunk = <<record>> /\ ~HasOwnKey(record)
    BY <1>1 DEF ChunkOK
  <2>2. Tail(chunk) = << >> /\ Len(chunk) = 1
    BY <2>1
  <2> QED
    BY <1>1, <2>2 DEF ChunkOK
<1>2. CASE File.class # "ldif"
  BY <1>2 DEF ChunkOK
<1> QED
  BY <1>1, <1>2

\* The entry that is being read: it has no key, its pending attribute has a
\* name, and a record is under way in it or not.
EntryFields == {"record", "attr", "value", "base64", "results", "ended"}

EntryOK(e) ==
  /\ e = [f \in EntryFields |-> e[f]]
  /\ ~HasOwnKey(e.record) /\ e.attr \in Attrs \cup {NoAttr}
  /\ e.base64 \in BOOLEAN /\ e.ended \in BOOLEAN
  /\ e.attr = NoAttr => e.value = << >> /\ ~e.base64

UnderWay(e) == IF e.record = NoRecord /\ e.attr = NoAttr THEN 0 ELSE 1

LEMMA UnderWayIs == \A e : UnderWay(e) \in {0, 1}
BY DEF UnderWay

LEMMA NewEntryOK ==
  EntryOK(NewEntry) /\ NewEntry.results = << >> /\ UnderWay(NewEntry) = 0
<1>1. ~HasOwnKey(NoRecord)
  BY DEF HasOwnKey, NoRecord
<1> QED
  BY <1>1 DEF EntryOK, EntryFields, NewEntry, UnderWay

LEMMA ParseAttributeIs ==
  ASSUME NEW e, EntryOK(e)
  PROVE  LET p == ParseAttribute(e)
         IN /\ EntryOK(p) /\ p.attr = NoAttr
            /\ p.results = e.results /\ p.ended = e.ended
            /\ p.record # NoRecord => UnderWay(e) = 1
<1> DEFINE value == IF e.base64 /\ Contains(e.value, Garbled) THEN << >> ELSE e.value
           before == IF e.attr \in DOMAIN e.record THEN e.record[e.attr] ELSE << >>
           record == IF e.attr = NoAttr \/ value = << >> THEN e.record
                     ELSE Put(e.record, e.attr, Append(before, value))
           p == [e EXCEPT !.attr = NoAttr, !.value = << >>, !.base64 = FALSE,
                          !.record = record]
<1>1. e = [f \in EntryFields |-> e[f]]
  BY DEF EntryOK
<1>2. ParseAttribute(e) = p
  BY <1>1 DEF ParseAttribute, EntryFields
<1>3. ~HasOwnKey(record)
  BY DEF EntryOK, HasOwnKey, Put, Attrs
<1>4. record # NoRecord => UnderWay(e) = 1
  BY DEF UnderWay
<1> HIDE DEF record
<1>5. /\ p = [f \in EntryFields |-> p[f]] /\ p.attr = NoAttr
      /\ p.value = << >> /\ p.base64 = FALSE /\ p.record = record
      /\ p.results = e.results /\ p.ended = e.ended
  BY <1>1 DEF EntryFields
<1> HIDE DEF p
<1>6. EntryOK(p)
  BY <1>3, <1>5 DEF EntryOK
<1> QED
  BY <1>2, <1>4, <1>5, <1>6

LEMMA DeliverIs ==
  ASSUME NEW e, EntryOK(e), e.attr = NoAttr
  PROVE  LET d == Deliver(e)
         IN /\ EntryOK(d) /\ UnderWay(d) = 0
            /\ IF e.record = NoRecord THEN d.results = << >>
               ELSE d.results = <<e.record>>
<1> DEFINE results == IF e.record = NoRecord THEN << >> ELSE <<e.record>>
           d == [e EXCEPT !.record = NoRecord, !.results = results]
<1>1. Deliver(e) = d
  BY DEF Deliver
<1>2. ~HasOwnKey(NoRecord)
  BY DEF HasOwnKey, NoRecord
<1> HIDE DEF results
<1>3. e = [f \in EntryFields |-> e[f]]
  BY DEF EntryOK
<1>4. /\ d = [f \in EntryFields |-> d[f]] /\ d.attr = e.attr
      /\ d.value = e.value /\ d.base64 = e.base64 /\ d.record = NoRecord
      /\ d.results = results /\ d.ended = e.ended
  BY <1>3 DEF EntryFields
<1> HIDE DEF d
<1>5. EntryOK(d) /\ UnderWay(d) = 0
  BY <1>2, <1>4 DEF EntryOK, UnderWay
<1> QED
  BY <1>1, <1>4, <1>5 DEF results

\* What a line, or the end of the file, makes of an entry without results: at
\* most one record, and only if there was one under way.
Step(e, d, read) ==
  /\ EntryOK(d)
  /\ d.results = << >> \/ \E record : d.results = <<record>> /\ ~HasOwnKey(record)
  /\ Len(d.results) \in Nat
  /\ Len(d.results) + UnderWay(d) <= UnderWay(e) + read

LEMMA LastRecord ==
  ASSUME NEW e, EntryOK(e)
  PROVE  Step(e, LdifEnd(e), 0)
<1> DEFINE p == ParseAttribute(e)
<1>1. EntryOK(p) /\ p.attr = NoAttr /\ (p.record # NoRecord => UnderWay(e) = 1)
  BY ParseAttributeIs
<1>2. UnderWay(e) \in {0, 1} /\ ~HasOwnKey(p.record)
  BY <1>1, UnderWayIs DEF EntryOK
<1> HIDE DEF p
<1> DEFINE d == Deliver(p)
<1>3. /\ EntryOK(d) /\ UnderWay(d) = 0
      /\ IF p.record = NoRecord THEN d.results = << >> ELSE d.results = <<p.record>>
  BY <1>1, DeliverIs
<1>4. LdifEnd(e) = d
  BY DEF LdifEnd, p
<1> HIDE DEF d
<1>5. CASE p.record = NoRecord
  <2>1. d.results = << >> /\ Len(<< >>) = 0
    BY <1>3, <1>5
  <2> QED
    BY <1>2, <1>3, <1>4, <2>1 DEF Step
<1>6. CASE p.record # NoRecord
  <2>1. d.results = <<p.record>> /\ Len(<<p.record>>) = 1
    BY <1>3, <1>6
  <2> QED
    BY <1>1, <1>2, <1>3, <1>4, <1>6, <2>1 DEF Step
<1> QED
  BY <1>5, <1>6

LEMMA NextLine ==
  ASSUME NEW e, EntryOK(e), e.results = << >>, NEW line \in LdifLines
  PROVE  Step(e, LdifLine(e, line), 1)
<1>1. UnderWay(e) \in {0, 1} /\ Len(<< >>) = 0
  BY UnderWayIs
<1>2. Step(e, e, 1)
  BY <1>1 DEF Step
<1>3. e = [f \in EntryFields |-> e[f]]
  BY DEF EntryOK
<1>4. CASE LdifLine(e, line) = [e EXCEPT !.ended = TRUE]
  <2> DEFINE d == [e EXCEPT !.ended = TRUE]
  <2>1. /\ d = [f \in EntryFields |-> d[f]] /\ d.record = e.record /\ d.attr = e.attr
        /\ d.value = e.value /\ d.base64 = e.base64 /\ d.results = e.results
        /\ d.ended = TRUE
    BY <1>3 DEF EntryFields
  <2> HIDE DEF d
  <2>2. EntryOK(d) /\ UnderWay(d) = UnderWay(e)
    BY <2>1 DEF EntryOK, UnderWay
  <2> QED
    BY <1>1, <1>4, <2>1, <2>2 DEF Step, d
<1>5. CASE line.kind = "blank" /\ LdifLine(e, line) = Deliver(ParseAttribute(e))
  <2>1. Step(e, LdifLine(e, line), 0)
    BY <1>5, LastRecord DEF LdifEnd
  <2> HIDE DEF LdifLine
  <2> QED
    BY <1>1, <2>1, UnderWayIs DEF Step
<1>6. CASE e.attr # NoAttr /\ LdifLine(e, line) = [e EXCEPT !.value = @ \o line.val]
  <2> DEFINE value == e.value \o line.val
             d == [e EXCEPT !.value = value]
  <2> HIDE DEF value
  <2>1. /\ d = [f \in EntryFields |-> d[f]] /\ d.record = e.record /\ d.attr = e.attr
        /\ d.base64 = e.base64 /\ d.results = e.results /\ d.ended = e.ended
    BY <1>3 DEF EntryFields
  <2>3. LdifLine(e, line) = d
    BY <1>3, <1>6 DEF EntryFields, value
  <2> HIDE DEF d
  <2>2. EntryOK(d) /\ UnderWay(d) = UnderWay(e)
    BY <1>6, <2>1 DEF EntryOK, UnderWay
  <2> QED
    BY <1>1, <2>1, <2>2, <2>3 DEF Step
<1>7. CASE /\ line.kind = "attr"
           /\ LdifLine(e, line) =
                [ParseAttribute(e) EXCEPT !.attr = line.attr, !.value = line.val,
                                          !.base64 = line.base64]
  <2> DEFINE p == ParseAttribute(e)
             d == [p EXCEPT !.attr = line.attr, !.value = line.val,
                            !.base64 = line.base64]
  <2>1. line.attr \in Attrs /\ line.base64 \in BOOLEAN /\ NoAttr \notin Attrs
    BY <1>7 DEF LdifLines, Attrs
  <2>2. EntryOK(p) /\ p.results = << >>
    BY ParseAttributeIs
  <2> HIDE DEF p
  <2>3. p = [f \in EntryFields |-> p[f]]
    BY <2>2 DEF EntryOK
  <2>4. /\ d = [f \in EntryFields |-> d[f]] /\ d.record = p.record
        /\ d.attr = line.attr /\ d.base64 = line.base64
        /\ d.results = p.results /\ d.ended = p.ended
    BY <2>3 DEF EntryFields
  <2>5. LdifLine(e, line) = d
    BY <1>7 DEF p
  <2> HIDE DEF d
  <2>6. EntryOK(d) /\ UnderWay(d) = 1
    BY <2>1, <2>2, <2>4 DEF EntryOK, UnderWay
  <2> QED
    BY <1>1, <2>2, <2>4, <2>5, <2>6 DEF Step
<1> DEFINE closed == [e EXCEPT !.ended = TRUE]
           delivered == Deliver(ParseAttribute(e))
           longer == [e EXCEPT !.value = @ \o line.val]
           further == [ParseAttribute(e) EXCEPT !.attr = line.attr, !.value = line.val,
                                                !.base64 = line.base64]
<1>8. LdifLine(e, line) =
        CASE e.ended -> e
          [] line.kind = "blank" /\ e.record = NoRecord -> closed
          [] line.kind = "blank" /\ e.record # NoRecord -> delivered
          [] line.kind = "more" /\ e.attr # NoAttr -> longer
          [] line.kind = "attr" -> further
          [] OTHER -> e
  BY DEF LdifLine
<1> HIDE DEF closed, delivered, longer, further
<1>9. \/ LdifLine(e, line) = e
      \/ LdifLine(e, line) = closed
      \/ line.kind = "blank" /\ LdifLine(e, line) = delivered
      \/ e.attr # NoAttr /\ LdifLine(e, line) = longer
      \/ line.kind = "attr" /\ LdifLine(e, line) = further
  BY <1>8
<1> HIDE DEF LdifLine
<1> QED
  BY <1>2, <1>4, <1>5, <1>6, <1>7, <1>9 DEF closed, delivered, longer, further

-----------------------------------------------------------------------------
(* What an upload reads: the file, the chunk and the entry.                *)

Outcomes == {"nothing", "sql", "value", "transaction"}

Phases == {"idle", "reading", "leaving", "done"}

ReadInv ==
  /\ job \in AnyJob /\ phase \in Phases
  /\ ChunkOK(chunk) /\ EntryOK(entry) /\ entry.results = << >>

LEMMA EmptyChunk == ChunkOK(<< >>) /\ Len(<< >>) = 0
BY DEF ChunkOK

LEMMA JobStays == job' = job => (File' = File /\ \A c : ChunkOK(c)' <=> ChunkOK(c))
BY DEF File, ChunkOK, HasOwnKey

LEMMA Respelled ==
  ASSUME job \in AnyJob, Respell
  PROVE  job' \in AnyJob /\ File' = File /\ job'.chunk = job.chunk
<1>1. PICK n \in Names : job' = [job EXCEPT !.name = n]
  BY DEF Respell
<1> QED
  BY <1>1 DEF AnyJob, File

\* The rows of a chunk are rows of the file.
LEMMA TakenRows ==
  ASSUME ReadInv, ReadChunk, position \in Nat, position <= Len(File.rows)
  PROVE  /\ chunk' \in Seq(Seq(Nat)) /\ position' = position + Len(chunk')
         /\ position' <= Len(File.rows)
<1> DEFINE all == File.rows
           rows == SubSeq(all, position + 1, Len(all))
           size == ChunkSize
           taken == IF Len(rows) > size THEN SubSeq(rows, 1, size) ELSE rows
<1>1. all \in Seq(Seq(Nat)) /\ Len(all) \in Nat
  BY FileIs DEF ReadChunk, ReadInv
<1>2. size \in Nat
  BY FileIs DEF ReadInv, ChunkSize
<1> HIDE DEF all, size
<1>3. rows \in Seq(Seq(Nat)) /\ Len(rows) = Len(all) - position
  BY <1>1 DEF all
<1>4. chunk' = taken /\ position' = position + Len(taken)
  BY DEF ReadChunk, PositionAfter, all, size
<1> HIDE DEF rows
<1>5. taken \in Seq(Seq(Nat)) /\ Len(taken) <= Len(rows) /\ Len(taken) \in Nat
  BY <1>2, <1>3
<1> HIDE DEF taken
<1> QED
  BY <1>1, <1>3, <1>4, <1>5 DEF all

LEMMA ReadStep ==
  ASSUME ReadInv, ReadLine, position \in Nat, position <= Len(File.lines)
  PROVE  /\ ChunkOK(chunk') /\ EntryOK(entry') /\ entry'.results = << >>
         /\ position' \in Nat /\ position' <= Len(File.lines)
         /\ Len(chunk') + UnderWay(entry') + position
              <= UnderWay(entry) + position'
         /\ Len(chunk') \in Nat
<1> DEFINE atEnd == position = Len(File.lines) \/ entry.ended
           line == File.lines[position + 1]
           e == IF atEnd THEN LdifEnd(entry) ELSE LdifLine(entry, line)
           read == IF atEnd THEN 0 ELSE 1
           emptied == [e EXCEPT !.results = << >>]
<1>1. File.class = "ldif" /\ File.lines \in Seq(LdifLines) /\ Len(File.lines) \in Nat
  BY FileIs DEF ReadLine, ReadInv
<1>2. Step(entry, e, read)
  <2>1. CASE atEnd
    BY <2>1, LastRecord DEF ReadInv
  <2>2. CASE ~atEnd
    <3>1. line \in LdifLines
      BY <1>1, <2>2
    <3> HIDE DEF line
    <3> QED
      BY <2>2, <3>1, NextLine DEF ReadInv
  <2> QED
    BY <2>1, <2>2
<1>3. chunk' = e.results /\ entry' = emptied /\ position' = position + read
  BY DEF ReadLine
<1>4. read \in Nat /\ position + read <= Len(File.lines)
  BY <1>1
<1> HIDE DEF read, e
<1>5. e = [f \in EntryFields |-> e[f]]
  BY <1>2 DEF Step, EntryOK
<1>6. /\ emptied = [f \in EntryFields |-> emptied[f]]
      /\ emptied.record = e.record /\ emptied.attr = e.attr /\ emptied.value = e.value
      /\ emptied.base64 = e.base64 /\ emptied.ended = e.ended /\ emptied.results = << >>
  BY <1>5 DEF EntryFields
<1> HIDE DEF emptied
<1>7. EntryOK(emptied) /\ UnderWay(emptied) = UnderWay(e)
  BY <1>2, <1>6 DEF Step, EntryOK, UnderWay
<1>8. ChunkOK(e.results)
  BY <1>1, <1>2 DEF Step, ChunkOK
<1> QED
  BY <1>2, <1>3, <1>4, <1>6, <1>7, <1>8, UnderWayIs DEF Step

LEMMA ReadInit == Init => ReadInv
<1> SUFFICES ASSUME Init PROVE ReadInv
  OBVIOUS
<1>1. job \in AnyJob
  BY JobsAssumption DEF Init, AnyJob
<1> QED
  BY <1>1, EmptyChunk, NewEntryOK DEF Init, ReadInv, Phases

\* An upload that ends counts its refusals up to the bound.
LEMMA Exited ==
  ASSUME NEW outcome \in Outcomes, NEW n \in 0 .. MaxFaults, Exit(outcome, n)
  PROVE  faults' \in 0 .. MaxFaults /\ raised' \in Outcomes /\ phase' \in {"idle", "done"}
BY BoundsAssumption DEF Exit, TransactionEnds, TransactionRefused, Outcomes

\* What the loop does with a row, whatever the row is.
LEMMA RowTaken ==
  ASSUME RowOfLoop
  PROVE  /\ phase = "reading" /\ chunk # << >> /\ chunk' = Tail(chunk)
         /\ UNCHANGED <<job, position, entry, lastChunk, uploads, outside>>
         /\ \/ SkipRow(Parsed) \/ Insert(Parsed) \/ KeyTaken(Parsed)
            \/ InsertRefused(Parsed) \/ BadValue(Parsed)
         /\ phase' \in Phases
BY DEF RowOfLoop, SkipRow, Insert, KeyTaken, InsertRefused, BadValue, NextRow, Exit,
       Phases

LEMMA ReadNext ==
  ASSUME ReadInv, [Next]_vars,
         position \in Nat,
         position <= FileSize
  PROVE  ReadInv'
<1>1. CASE Begin
  BY <1>1, EmptyChunk, NewEntryOK, JobStays DEF Begin, ReadInv, Phases
<1>2. CASE BeginRefused \/ OutsideInsert \/ UNCHANGED vars
  BY <1>2, JobStays DEF BeginRefused, OutsideInsert, vars, importer, ReadInv
<1>3. CASE ReadChunk
  <2>1. File.class # "ldif"
    BY <1>3 DEF ReadChunk
  <2>2. chunk' \in Seq(Seq(Nat))
    BY <1>3, <2>1, TakenRows DEF FileSize
  <2>3. ChunkOK(chunk')
    BY <2>1, <2>2 DEF ChunkOK
  <2>4. UNCHANGED <<job, phase, entry>>
    BY <1>3 DEF ReadChunk
  <2> QED
    BY <2>3, <2>4, JobStays DEF ReadInv, ChunkOK, File
<1>4. CASE ReadLine
  <2>1. File.class = "ldif"
    BY <1>4 DEF ReadLine
  <2>2. ChunkOK(chunk') /\ EntryOK(entry') /\ entry'.results = << >>
    BY <1>4, <2>1, ReadStep DEF FileSize
  <2>3. UNCHANGED <<job, phase>>
    BY <1>4 DEF ReadLine
  <2> QED
    BY <2>2, <2>3 DEF ReadInv, ChunkOK, File
<1>5. CASE RowOfLoop
  <2>1. ChunkOK(Tail(chunk)) /\ chunk' = Tail(chunk)
    BY <1>5, RowTaken, ChunkTail DEF ReadInv
  <2>2. UNCHANGED <<job, entry>> /\ phase' \in Phases
    BY <1>5, RowTaken
  <2> QED
    BY <2>1, <2>2 DEF ReadInv, ChunkOK, File
<1>6. CASE Leave
  BY <1>6, JobStays DEF Leave, Exit, importer, ReadInv, Phases
<1>7. CASE Respell
  <2>1. job' \in AnyJob /\ File' = File
    BY <1>7, Respelled DEF ReadInv
  <2>2. UNCHANGED <<chunk, entry, phase>>
    BY <1>7 DEF Respell, importer
  <2> QED
    BY <2>1, <2>2 DEF ReadInv, ChunkOK
<1> QED
  BY <1>1, <1>2, <1>3, <1>4, <1>5, <1>6, <1>7 DEF Next, Upload

-----------------------------------------------------------------------------
(* How many records are read and inserted.                                 *)

CountInv ==
  /\ position \in Nat /\ inserted \in Nat
  /\ Len(chunk) + inserted + UnderWay(entry) <= position
  /\ position <= FileSize
  /\ uploads \in 0 .. MaxUploads /\ outside \in 0 .. MaxOutside
  /\ faults \in 0 .. MaxFaults
  /\ lastChunk \in BOOLEAN /\ raised \in Outcomes

LEMMA CountInit == Init => CountInv
<1> SUFFICES ASSUME Init PROVE CountInv
  OBVIOUS
<1>1. job \in AnyJob
  BY ReadInit DEF ReadInv
<1>2. FileSize \in Nat
  BY <1>1, FileSizeIs
<1>3. position = 0 /\ inserted = 0 /\ Len(chunk) = 0 /\ UnderWay(entry) = 0
  BY EmptyChunk, NewEntryOK DEF Init
<1>4. /\ uploads = 0 /\ outside = 0 /\ faults = 0 /\ lastChunk \in BOOLEAN
      /\ raised = "nothing"
  BY DEF Init
<1>5. uploads \in 0 .. MaxUploads /\ outside \in 0 .. MaxOutside /\ faults \in 0 .. MaxFaults
  BY <1>4, BoundsAssumption
<1> QED
  BY <1>2, <1>3, <1>4, <1>5 DEF CountInv, Outcomes

LEMMA CountNext ==
  ASSUME ReadInv, CountInv, [Next]_vars
  PROVE  CountInv'
<1>1. CASE Begin
  <2>1. FileSize \in Nat
    BY FileSizeIs DEF ReadInv
  <2>2. FileSize' = FileSize
    BY <1>1 DEF Begin, File, FileSize
  <2>3. uploads' \in 0 .. MaxUploads
    BY <1>1, BoundsAssumption DEF Begin, CountInv
  <2>4. position' = 0 /\ inserted' = 0 /\ Len(chunk') = 0 /\ UnderWay(entry') = 0
    BY <1>1, EmptyChunk, NewEntryOK DEF Begin
  <2>5. lastChunk' \in BOOLEAN /\ raised' = "nothing" /\ UNCHANGED <<outside, faults>>
    BY <1>1 DEF Begin
  <2> QED
    BY <2>1, <2>2, <2>3, <2>4, <2>5 DEF CountInv, Outcomes
<1>2. CASE BeginRefused
  <2>1. uploads' \in 0 .. MaxUploads
    BY <1>2, BoundsAssumption DEF BeginRefused, CountInv
  <2> QED
    BY <1>2, <2>1 DEF BeginRefused, importer, CountInv, FileSize, File
<1>3. CASE UNCHANGED vars
  BY <1>3 DEF vars, importer, CountInv, FileSize, File
<1>4. CASE OutsideInsert
  <2>1. outside' \in 0 .. MaxOutside
    BY <1>4, BoundsAssumption DEF OutsideInsert, CountInv
  <2> QED
    BY <1>4, <2>1 DEF OutsideInsert, importer, CountInv, FileSize, File
<1>5. CASE ReadChunk
  <2>1. /\ position \in Nat /\ position <= Len(File.rows) /\ File.class # "ldif"
        /\ Len(chunk) = 0
    BY <1>5, EmptyChunk DEF ReadChunk, Reading, CountInv, FileSize
  <2>2. /\ chunk' \in Seq(Seq(Nat)) /\ position' = position + Len(chunk')
        /\ position' <= Len(File.rows)
    BY <1>5, <2>1, TakenRows
  <2>3. Len(chunk') \in Nat
    BY <2>2
  <2>4. UNCHANGED <<inserted, entry, uploads, outside, faults, raised>> /\ File' = File
    BY <1>5 DEF ReadChunk, File
  <2>5. lastChunk' \in BOOLEAN
    BY <1>5 DEF ReadChunk, IsLast
  <2> QED
    BY <2>1, <2>2, <2>3, <2>4, <2>5, UnderWayIs DEF CountInv, FileSize
<1>6. CASE ReadLine
  <2>1. /\ position \in Nat /\ position <= Len(File.lines) /\ File.class = "ldif"
        /\ Len(chunk) = 0
    BY <1>6, EmptyChunk DEF ReadLine, Reading, CountInv, FileSize
  <2>2. /\ position' \in Nat /\ position' <= Len(File.lines) /\ Len(chunk') \in Nat
        /\ Len(chunk') + UnderWay(entry') + position <= UnderWay(entry) + position'
    BY <1>6, <2>1, ReadStep
  <2>3. UNCHANGED <<inserted, uploads, outside, faults, raised>> /\ File' = File
    BY <1>6 DEF ReadLine, File
  <2>4. lastChunk' \in BOOLEAN
    BY <1>6 DEF ReadLine
  <2>5. UnderWay(entry) \in Nat /\ UnderWay(entry') \in Nat
    BY UnderWayIs
  <2>6. Len(chunk') + inserted' + UnderWay(entry') <= position'
    BY <2>1, <2>2, <2>3, <2>5 DEF CountInv
  <2> QED
    BY <2>1, <2>2, <2>3, <2>4, <2>6 DEF CountInv, FileSize
<1>7. CASE RowOfLoop
  <2>1. Len(chunk) \in Nat \ {0} /\ Len(chunk') = Len(chunk) - 1
    BY <1>7, RowTaken, ChunkTail DEF ReadInv
  <2>2. UNCHANGED <<job, position, entry, lastChunk, uploads, outside>>
    BY <1>7, RowTaken
  <2>3. inserted' \in {inserted, inserted + 1}
    BY <1>7, RowTaken DEF SkipRow, Insert, KeyTaken, InsertRefused, BadValue
  <2>4. faults' \in 0 .. MaxFaults /\ raised' \in Outcomes
    <3>1. CASE SkipRow(Parsed) \/ Insert(Parsed)
      BY <3>1 DEF SkipRow, Insert, CountInv
    <3>2. CASE KeyTaken(Parsed)
      BY <3>2, Exited DEF KeyTaken, CountInv, Outcomes
    <3>3. CASE InsertRefused(Parsed)
      <4>1. faults + 1 \in 0 .. MaxFaults /\ Exit("sql", faults + 1)
        BY <3>3, BoundsAssumption DEF InsertRefused, CountInv
      <4> QED
        BY <4>1, Exited DEF Outcomes
    <3>4. CASE BadValue(Parsed)
      BY <3>4, Exited DEF BadValue, CountInv, Outcomes
    <3> QED
      BY <1>7, RowTaken, <3>1, <3>2, <3>3, <3>4
  <2>5. FileSize' = FileSize /\ UnderWay(entry)' = UnderWay(entry) /\ UnderWay(entry) \in Nat
    BY <2>2, UnderWayIs DEF File, FileSize
  <2> QED
    BY <2>1, <2>2, <2>3, <2>4, <2>5 DEF CountInv
<1>8. CASE Leave
  <2>1. faults' \in 0 .. MaxFaults /\ raised' \in Outcomes
    BY <1>8, Exited DEF Leave, CountInv, Outcomes
  <2> QED
    BY <1>8, <2>1 DEF Leave, importer, CountInv, FileSize, File
<1>9. CASE Respell
  <2>1. File' = File
    BY <1>9, Respelled DEF ReadInv
  <2>2. FileSize' = FileSize
    BY <2>1 DEF FileSize
  <2> QED
    BY <1>9, <2>2 DEF Respell, importer, CountInv
<1> QED
  BY <1>1, <1>2, <1>3, <1>4, <1>5, <1>6, <1>7, <1>8, <1>9 DEF Next, Upload

-----------------------------------------------------------------------------
(***************************************************************************)
(* Keys. Those of a table are bounded; a row that a counter has numbered   *)
(* has at most the number the counter of its spelling has reached.         *)
(***************************************************************************)
Bounded(rows) == \E m \in Nat : DOMAIN rows \subseteq 1 .. m

Numbered(rows, reached) ==
  \A k \in DOMAIN rows :
    rows[k].origin = "counter" =>
      rows[k].name \in DOMAIN reached /\ k <= reached[rows[k].name]

Counts(reached) ==
  DOMAIN reached \subseteq Names /\ \A n \in DOMAIN reached : reached[n] \in Nat

KeyInv ==
  /\ Bounded(table) /\ Bounded(open) /\ Counts(counters)
  /\ Numbered(table, counters) /\ Numbered(open, counters)
  /\ phase \in {"reading", "leaving"} => job.name \in DOMAIN counters
  /\ CounterKeysFresh

LEMMA BoundedKeys ==
  ASSUME NEW rows, Bounded(rows)
  PROVE  DOMAIN rows \subseteq Nat \ {0}
BY DEF Bounded

LEMMA BoundedPut ==
  ASSUME NEW rows, Bounded(rows), NEW k \in Nat \ {0}, NEW row
  PROVE  Bounded(Put(rows, k, row))
<1>1. PICK m \in Nat : DOMAIN rows \subseteq 1 .. m
  BY DEF Bounded
<1>2. DOMAIN Put(rows, k, row) \subseteq 1 .. m + k /\ m + k \in Nat
  BY <1>1 DEF Put
<1> QED
  BY <1>2 DEF Bounded

LEMMA BoundedAll ==
  ASSUME Bounded(table), Bounded(open)
  PROVE  Bounded(AllRows) /\ MaxKey \in Nat
<1>1. PICK m \in Nat, n \in Nat : DOMAIN table \subseteq 1 .. m /\ DOMAIN open \subseteq 1 .. n
  BY DEF Bounded
<1>2. Keys \subseteq 1 .. m + n /\ m + n \in Nat
  BY <1>1 DEF Keys
<1>3. DOMAIN AllRows = Keys
  BY DEF AllRows
<1>4. MaxKey \in Nat
  <2>1. CASE Keys = {}
    BY <2>1 DEF MaxKey
  <2>2. CASE Keys # {}
    <3> HIDE DEF Keys
    <3>1. Max(Keys) \in Keys
      BY <1>2, <2>2, MaxIn
    <3>2. MaxKey = Max(Keys)
      BY <2>2 DEF MaxKey, Max
    <3>3. Keys \subseteq Nat
      BY <1>2
    <3> QED
      BY <3>1, <3>2, <3>3
  <2> QED
    BY <2>1, <2>2
<1> QED
  BY <1>2, <1>3, <1>4 DEF Bounded

LEMMA NumberedAll ==
  ASSUME Numbered(table, counters), Numbered(open, counters)
  PROVE  Numbered(AllRows, counters)
BY DEF Numbered, AllRows, Keys

LEMMA NumberedGrows ==
  ASSUME NEW rows, NEW reached, NEW further, Numbered(rows, reached), Bounded(rows),
         Counts(reached), Counts(further), DOMAIN reached \subseteq DOMAIN further,
         \A n \in DOMAIN reached : reached[n] <= further[n]
  PROVE  Numbered(rows, further)
<1> SUFFICES ASSUME NEW k \in DOMAIN rows, rows[k].origin = "counter"
             PROVE  rows[k].name \in DOMAIN further /\ k <= further[rows[k].name]
  BY DEF Numbered
<1>1. rows[k].name \in DOMAIN reached /\ k <= reached[rows[k].name] /\ k \in Nat
  BY BoundedKeys DEF Numbered
<1> QED
  BY <1>1 DEF Counts

LEMMA NumberedPut ==
  ASSUME NEW rows, NEW reached, Numbered(rows, reached), NEW k, NEW row,
         row.origin = "counter" => row.name \in DOMAIN reached /\ k <= reached[row.name]
  PROVE  Numbered(Put(rows, k, row), reached)
BY DEF Numbered, Put

\* The counter of the upload moves on, or stays.
LEMMA Drawing ==
  ASSUME Counts(counters), job.name \in DOMAIN counters, NEW r, Draw(r)
  PROVE  /\ Counts(counters') /\ DOMAIN counters' = DOMAIN counters
         /\ \A n \in DOMAIN counters : counters[n] <= counters'[n]
         /\ ~HasOwnKey(r) => counters'[job.name] = Drawn
         /\ Drawn \in Nat \ {0}
BY DEF Counts, Draw, Drawn

LEMMA KeyNumber ==
  ASSUME Counts(counters), job.name \in DOMAIN counters, NEW r, OwnKeyOK(r)
  PROVE  Key(r) \in Nat \ {0}
BY DEF Counts, Key, Drawn, OwnKeyOK

\* An upload ends: the rows of the transaction join the table, are gone, or stay.
LEMMA EndedKeys ==
  ASSUME KeyInv, NEW outcome, NEW n, Exit(outcome, n)
  PROVE  /\ Bounded(table') /\ Bounded(open')
         /\ Numbered(table', counters) /\ Numbered(open', counters)
<1>1. Bounded(<< >>) /\ Numbered(<< >>, counters)
  BY DEF Bounded, Numbered
<1>2. Bounded(AllRows) /\ Numbered(AllRows, counters)
  BY BoundedAll, NumberedAll DEF KeyInv
<1>3. \/ UNCHANGED <<table, open>>
      \/ table' \in {AllRows, table} /\ open' = << >>
  BY DEF Exit, TransactionEnds, TransactionRefused, EndTransaction
<1> QED
  BY <1>1, <1>2, <1>3 DEF KeyInv

LEMMA KeyInit == Init => KeyInv
BY DEF Init, KeyInv, Bounded, Counts, Numbered, CounterKeysFresh

LEMMA KeyRow ==
  ASSUME ReadInv, KeyInv, RowOfLoop
  PROVE  KeyInv'
<1> DEFINE r == Parsed.record
<1>1. /\ phase = "reading" /\ chunk # << >> /\ job' = job
      /\ \/ SkipRow(Parsed) \/ Insert(Parsed) \/ KeyTaken(Parsed)
         \/ InsertRefused(Parsed) \/ BadValue(Parsed)
  BY RowTaken
<1>2. OwnKeyOK(r)
  BY <1>1, ParsedOK DEF ReadInv
<1>3. /\ job.name \in DOMAIN counters /\ Counts(counters)
      /\ Bounded(table) /\ Bounded(open)
      /\ Numbered(table, counters) /\ Numbered(open, counters)
      /\ CounterKeysFresh
  BY <1>1 DEF KeyInv
<1>4. Key(r) \in Nat \ {0}
  BY <1>2, <1>3, KeyNumber
<1> HIDE DEF r
<1>5. ASSUME Draw(r)
      PROVE  /\ Counts(counters') /\ job'.name \in DOMAIN counters'
             /\ ~HasOwnKey(r) => counters'[job.name] = Drawn
             /\ \A rows : Bounded(rows) /\ Numbered(rows, counters) =>
                            Numbered(rows, counters')
  <2>1. /\ Counts(counters') /\ DOMAIN counters' = DOMAIN counters
        /\ \A n \in DOMAIN counters : counters[n] <= counters'[n]
        /\ ~HasOwnKey(r) => counters'[job.name] = Drawn
    BY <1>3, <1>5, Drawing
  <2> QED
    BY <1>1, <1>3, <2>1, NumberedGrows
<1>6. CASE SkipRow(Parsed)
  BY <1>6 DEF SkipRow, KeyInv, CounterKeysFresh
<1>7. CASE Insert(Parsed)
  <2> DEFINE row == RowFrom(IF HasOwnKey(r) THEN "file" ELSE "counter", job.name, r)
  <2>1. /\ Draw(r) /\ UNCHANGED <<table, clash>>
        /\ \/ open' = open
           \/ open' = Put(open, Key(r), row)
    BY <1>7 DEF Insert, r
  <2>2. row.origin = "counter" =>
          row.name \in DOMAIN counters' /\ Key(r) <= counters'[row.name]
    BY <1>1, <1>4, <1>5, <2>1 DEF RowFrom, Key
  <2> HIDE DEF row
  <2>3. Numbered(open, counters') /\ Numbered(table, counters')
    BY <1>3, <1>5, <2>1
  <2>4. Bounded(open') /\ Numbered(open', counters')
    BY <1>3, <1>4, <2>1, <2>2, <2>3, BoundedPut, NumberedPut
  <2>5. CounterKeysFresh'
    BY <1>3, <2>1 DEF CounterKeysFresh
  <2> QED
    BY <1>3, <1>5, <2>1, <2>3, <2>4, <2>5 DEF KeyInv
<1>8. ASSUME NEW outcome, NEW n, Draw(r), Exit(outcome, n), CounterKeysFresh'
      PROVE  KeyInv'
  <2>2. /\ Bounded(table') /\ Bounded(open')
        /\ Numbered(table', counters) /\ Numbered(open', counters)
    BY <1>8, EndedKeys
  <2>3. Numbered(table', counters') /\ Numbered(open', counters')
    BY <1>5, <1>8, <2>2
  <2> QED
    BY <1>5, <1>8, <2>2, <2>3 DEF KeyInv
<1>9. CASE KeyTaken(Parsed)
  <2> DEFINE c == [row |-> AllRows[Key(r)], name |-> job.name]
  <2>1. /\ Draw(r) /\ Exit("sql", faults) /\ Key(r) \in Keys
        /\ clash' = IF HasOwnKey(r) THEN clash ELSE clash \cup {c}
    BY <1>9 DEF KeyTaken, r
  <2>2. ASSUME ~HasOwnKey(r), c.row.origin = "counter", c.row.name = job.name
        PROVE  FALSE
    <3>1. Numbered(AllRows, counters) /\ DOMAIN AllRows = Keys
      BY <1>3, NumberedAll DEF AllRows
    <3>2. Key(r) <= counters[job.name]
      BY <2>1, <2>2, <3>1 DEF Numbered
    <3>3. Key(r) = counters[job.name] + 1 /\ counters[job.name] \in Nat
      BY <1>3, <2>2 DEF Key, Drawn, Counts
    <3> QED
      BY <3>2, <3>3
  <2>3. ~HasOwnKey(r) => ~(c.row.origin = "counter" /\ c.row.name = c.name)
    BY <2>2
  <2> HIDE DEF c
  <2>4. CounterKeysFresh'
    BY <1>3, <2>1, <2>3 DEF CounterKeysFresh
  <2> QED
    BY <1>8, <2>1, <2>4
<1>10. CASE InsertRefused(Parsed)
  <2>1. Draw(r) /\ Exit("sql", faults + 1) /\ clash' = clash
    BY <1>10 DEF InsertRefused, r
  <2>2. CounterKeysFresh'
    BY <1>3, <2>1 DEF CounterKeysFresh
  <2> QED
    BY <1>8, <2>1, <2>2
<1>11. CASE BadValue(Parsed)
  <2>1. Exit("value", faults) /\ UNCHANGED <<counters, clash>>
    BY <1>11 DEF BadValue
  <2>3. /\ Bounded(table') /\ Bounded(open')
        /\ Numbered(table', counters) /\ Numbered(open', counters)
    BY <2>1, EndedKeys
  <2> QED
    BY <1>1, <1>3, <2>1, <2>3 DEF KeyInv, CounterKeysFresh
<1> QED
  BY <1>1, <1>6, <1>7, <1>9, <1>10, <1>11

LEMMA KeyNext ==
  ASSUME ReadInv, KeyInv, [Next]_vars
  PROVE  KeyInv'
<1>1. CASE Begin
  <2>1. counters' = CounterRead /\ UNCHANGED <<job, table, open, clash>>
    BY <1>1 DEF Begin
  <2>2. MaxKey \in Nat /\ job.name \in Names
    BY BoundedAll, FileIs DEF KeyInv, ReadInv
  <2>3. /\ Counts(counters') /\ DOMAIN counters \subseteq DOMAIN counters'
        /\ \A n \in DOMAIN counters : counters'[n] = counters[n]
        /\ job.name \in DOMAIN counters'
    BY <2>1, <2>2 DEF CounterRead, Put, Counts, KeyInv
  <2>4. \A n \in DOMAIN counters : counters[n] <= counters'[n]
    BY <2>3 DEF KeyInv, Counts
  <2>5. Numbered(table, counters') /\ Numbered(open, counters')
    BY <2>3, <2>4, NumberedGrows DEF KeyInv
  <2> QED
    BY <2>1, <2>3, <2>5 DEF KeyInv, CounterKeysFresh
<1>2. CASE BeginRefused \/ ReadChunk \/ ReadLine \/ UNCHANGED vars
  BY <1>2 DEF BeginRefused, ReadChunk, ReadLine, vars, KeyInv, CounterKeysFresh
<1>3. CASE RowOfLoop
  BY <1>3, KeyRow
<1>4. CASE Leave
  <2>1. /\ UNCHANGED <<job, counters, clash>> /\ phase' \in {"idle", "done"}
        /\ Exit("nothing", faults)
    BY <1>4 DEF Leave, Exit
  <2>2. /\ Bounded(table') /\ Bounded(open')
        /\ Numbered(table', counters) /\ Numbered(open', counters)
    BY <2>1, EndedKeys
  <2> QED
    BY <2>1, <2>2 DEF KeyInv, CounterKeysFresh
<1>5. CASE OutsideInsert
  <2> DEFINE k == IF DOMAIN table = {} THEN 1
                  ELSE 1 + CHOOSE n \in DOMAIN table : \A l \in DOMAIN table : n >= l
             row == RowFrom("outside", NoName, NoRecord)
  <2>1. k \in Nat \ {0}
    <3> DEFINE S == DOMAIN table
    <3>1. CASE S = {}
      BY <3>1
    <3>2. CASE S # {}
      <4>1. PICK m \in Nat : S \subseteq 1 .. m
        BY DEF KeyInv, Bounded
      <4> HIDE DEF S
      <4>2. Max(S) \in S
        BY <3>2, <4>1, MaxIn
      <4>4. S \subseteq Nat
        BY <4>1
      <4>3. (CHOOSE n \in S : \A l \in S : n >= l) \in Nat
        BY <4>2, <4>4 DEF Max
      <4> QED
        BY <3>2, <4>3 DEF S
    <3> QED
      BY <3>1, <3>2
  <2>2. table' = Put(table, k, row) /\ UNCHANGED <<job, phase, counters, open, clash>>
    BY <1>5 DEF OutsideInsert
  <2>3. row.origin # "counter"
    BY DEF RowFrom
  <2> HIDE DEF k, row
  <2>4. Bounded(table') /\ Numbered(table', counters)
    BY <2>1, <2>2, <2>3, BoundedPut, NumberedPut DEF KeyInv
  <2> QED
    BY <2>2, <2>4 DEF KeyInv, CounterKeysFresh
<1>6. CASE Respell
  BY <1>6 DEF Respell, KeyInv, CounterKeysFresh
<1> QED
  BY <1>1, <1>2, <1>3, <1>4, <1>5, <1>6 DEF Next, Upload

-----------------------------------------------------------------------------
LEMMA UploadInvariant == Spec => [](ReadInv /\ CountInv /\ KeyInv)
<1> DEFINE Inv == ReadInv /\ CountInv /\ KeyInv
<1>1. Init => Inv
  BY ReadInit, CountInit, KeyInit
<1>2. Inv /\ [Next]_vars => Inv'
  <2> SUFFICES ASSUME Inv, [Next]_vars PROVE Inv'
    OBVIOUS
  <2>1. /\ position \in Nat
        /\ position <= FileSize
    BY DEF CountInv
  <2> QED
    BY <2>1, ReadNext, CountNext, KeyNext
<1> QED
  BY <1>1, <1>2, PTL DEF Spec

\* The shape of the variables; among them that no more records are inserted, or
\* wait to be, than were read from the file.
THEOREM UploadTypeCorrect == Spec => []TypeOK
<1>1. ReadInv /\ CountInv /\ KeyInv => TypeOK
  <2> SUFFICES ASSUME ReadInv, CountInv, KeyInv PROVE TypeOK
    OBVIOUS
  <2>1. job.name \in Names /\ job.chunk \in Nat \ {0}
    BY FileIs DEF ReadInv
  <2>2. Len(chunk) \in Nat
    BY ChunkTail, EmptyChunk DEF ReadInv
  <2>3. Len(chunk) + inserted <= position
    BY <2>2, UnderWayIs DEF CountInv
  <2>4. entry.attr = NoAttr => entry.value = << >> /\ ~entry.base64
    BY DEF ReadInv, EntryOK
  <2>5. DOMAIN table \subseteq Nat /\ DOMAIN open \subseteq Nat
    BY BoundedKeys DEF KeyInv
  <2> QED
    BY <2>1, <2>3, <2>4, <2>5 
       DEF ReadInv, Phases, CountInv, FileSize, KeyInv, Counts, TypeOK, Outcomes
<1> QED
  BY <1>1, UploadInvariant, PTL

\* A counter never gives a key twice, for any number of uploads, spellings and
\* rows of others: what is in the way of its key is not a row it has numbered.
THEOREM CounterNeverRepeats == Spec => []CounterKeysFresh
<1>1. KeyInv => CounterKeysFresh
  BY DEF KeyInv
<1> QED
  BY <1>1, UploadInvariant, PTL

=============================================================================
