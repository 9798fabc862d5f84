------------------------- MODULE DiskManagerProofs -------------------------
(***************************************************************************)
(* Lemmas about the operators of DiskManager: each takes a well-formed     *)
(* file to a well-formed file, and says what it does to the blocks and to  *)
(* the header.  The proofs about DiskFiles and BufferPool rest on them.    *)
(***************************************************************************)
EXTENDS DiskManager, TLAPS

\* g is f after a call that wrote no block: nothing that was allocated on
\* disk is lost, and the header the process sees loses one block at most,
\* the one whose header the stream still buffered.
Follows(g, f) ==
    /\ f.state = "ready" => g.state = "ready"
    /\ g.saved.usedBlocks >= f.saved.usedBlocks
    /\ g.header.usedBlocks >= f.header.usedBlocks - 1
    /\ g.header.usedBlocks < f.header.usedBlocks =>
        g.stream # "good" /\ f.header # f.saved

\* The call that made g of f handed out no block.
NoNewBlock(g, f) == g.header.usedBlocks <= f.header.usedBlocks

LEMMA MissingFileOK == FileOK(MissingFile)
  BY DiskAssumption
  DEF FileOK, File, MissingFile, EmptyHeader, Header, Stream, StreamOK,
      EmptyOK, HeaderOK, BufferedOK, FreshOK

LEMMA CreateFileOK ==
  ASSUME NEW f, FileOK(f), NEW isLog \in BOOLEAN, NEW outcome
  PROVE  LET g == CreateFile(f, isLog, outcome).file
         IN  FileOK(g) /\ Follows(g, f) /\ g.block = f.block /\ g.header = f.header
<1> DEFINE g == CreateFile(f, isLog, outcome).file
<1>1. CASE f.state # "missing"
  <2>1. g = f
    BY <1>1 DEF CreateFile
  <2> QED
    BY <2>1 DEF FileOK, File, Header, BufferedOK, Follows
<1>2. CASE f.state = "missing" /\ outcome = "create"
  <2>1. g = [f EXCEPT !.state = "headless"]
    BY <1>2 DEF CreateFile
  <2> QED
    BY <1>2, <2>1
    DEF FileOK, File, Header, StreamOK, EmptyOK, HeaderOK, BufferedOK, FreshOK, Follows
<1>3. CASE f.state = "missing" /\ outcome # "create"
  <2>1. g = [f EXCEPT !.state = "ready", !.size = 1]
    BY <1>3 DEF CreateFile
  <2>2. f.header = EmptyHeader /\ f.saved = EmptyHeader /\ f.stream = "closed"
    BY <1>3 DEF FileOK, EmptyOK, StreamOK
  <2>3. g \in File /\ g.saved = f.saved /\ g.block = f.block
    <3>1. f \in File
      BY DEF FileOK
    <3> HIDE DEF g
    <3> QED
      BY <2>1, <3>1 DEF File
  <2>4. StreamOK(g) /\ EmptyOK(g) /\ FreshOK(g)
    BY <1>3, <2>1, <2>2, <2>3 DEF FileOK, File, StreamOK, EmptyOK, FreshOK
  <2>5. HeaderOK(g, g.header) /\ HeaderOK(g, g.saved) /\ BufferedOK(g)
    BY <2>1, <2>2 DEF FileOK, File, EmptyHeader, HeaderOK, BufferedOK
  <2>6. Follows(g, f) /\ g.header = f.header
    BY <1>3, <2>1 DEF FileOK, File, Header, BufferedOK, Follows
  <2> QED
    BY <2>3, <2>4, <2>5, <2>6 DEF FileOK
<1> QED
  BY <1>1, <1>2, <1>3

LEMMA OpenFileOK ==
  ASSUME NEW f, FileOK(f)
  PROVE  LET g == OpenTableFile(f).file
         IN  FileOK(g) /\ Follows(g, f) /\ g.block = f.block
  BY DEF OpenTableFile, FileOK, File, Header, Stream, StreamOK,
         EmptyOK, HeaderOK, BufferedOK, FreshOK, Follows

LEMMA CloseFileOK ==
  ASSUME NEW f, FileOK(f)
  PROVE  LET g == CloseTableFile(f).file
         IN  FileOK(g) /\ Follows(g, f) /\ g.block = f.block
             /\ g.header = f.header
<1> DEFINE g == CloseTableFile(f).file
<1>1. CASE f.stream = "closed"
  <2>1. g = f
    BY <1>1 DEF CloseTableFile
  <2> QED
    BY <2>1 DEF FileOK, File, Header, BufferedOK, Follows
<1>2. CASE f.stream # "closed"
  <2>1. g = [f EXCEPT !.stream = "closed", !.saved = f.header, !.header = f.header]
    BY <1>2 DEF CloseTableFile, FileOK, StreamOK
  <2>2. g \in File
    <3>1. f \in File
      BY DEF FileOK
    <3> HIDE DEF g
    <3> QED
      BY <2>1, <3>1 DEF File, Stream
  <2>5. StreamOK(g) /\ EmptyOK(g) /\ FreshOK(g)
    BY <1>2, <2>1 DEF FileOK, File, Blocks, Header, StreamOK, EmptyOK, BufferedOK, FreshOK
  <2>3. HeaderOK(g, g.header) /\ HeaderOK(g, g.saved) /\ BufferedOK(g)
    BY <2>1 DEF FileOK, File, Header, HeaderOK, BufferedOK
  <2>4. Follows(g, f) /\ g.block = f.block /\ g.header = f.header
    BY <2>1 DEF FileOK, File, Header, BufferedOK, Follows
  <2> QED
    BY <2>2, <2>3, <2>4, <2>5 DEF FileOK
<1> QED
  BY <1>1, <1>2

LEMMA AbandonFileOK ==
  ASSUME NEW f, FileOK(f)
  PROVE  LET g == Abandon(f)
         IN  FileOK(g) /\ Follows(g, f) /\ g.block = f.block /\ NoNewBlock(g, f)
<1> DEFINE g == Abandon(f)
<1>1. g = [f EXCEPT !.stream = "closed", !.header = f.saved]
  BY DEF Abandon
<1>2. g \in File /\ StreamOK(g) /\ EmptyOK(g) /\ FreshOK(g)
  BY <1>1 DEF FileOK, File, Header, Stream, StreamOK, EmptyOK, FreshOK
<1>3. HeaderOK(g, g.header) /\ HeaderOK(g, g.saved) /\ BufferedOK(g)
  BY <1>1 DEF FileOK, File, Header, HeaderOK, BufferedOK
<1>4. Follows(g, f) /\ g.block = f.block /\ NoNewBlock(g, f)
  BY <1>1 DEF FileOK, File, Header, Stream, BufferedOK, Follows, NoNewBlock
<1> QED
  BY <1>2, <1>3, <1>4 DEF FileOK

LEMMA FailStreamOK ==
  ASSUME NEW f, FileOK(f), f.header = f.saved, f.state # "missing"
  PROVE  LET g == FailStream(f)
         IN  FileOK(g) /\ Follows(g, f) /\ g.block = f.block
             /\ g.header = f.header /\ g.saved = f.saved /\ NoNewBlock(g, f)
<1> DEFINE g == FailStream(f)
<1>1. g = [f EXCEPT !.stream = "failed"] /\ f \in File
  BY DEF FailStream, FileOK
<1> HIDE DEF g
<1>2. g \in File /\ g.header = f.header /\ g.saved = f.saved /\ g.block = f.block
      /\ g.state = f.state /\ g.size = f.size
  BY <1>1 DEF File, Stream
<1>3. StreamOK(g) /\ EmptyOK(g) /\ FreshOK(g)
  BY <1>2 DEF FileOK, StreamOK, EmptyOK, FreshOK
<1>4. HeaderOK(g, g.header) /\ HeaderOK(g, g.saved) /\ BufferedOK(g)
  BY <1>2 DEF FileOK, HeaderOK, BufferedOK
<1>5. Follows(g, f) /\ NoNewBlock(g, f)
  BY <1>1, <1>2 DEF File, Header, Follows, NoNewBlock
<1> QED
  BY <1>2, <1>3, <1>4, <1>5 DEF FileOK, g

LEMMA ReadHeaderOK ==
  ASSUME NEW f, FileOK(f), f.stream # "closed", NEW outcome
  PROVE  LET r == ReadTableFileHeader(f, outcome)
         IN  /\ FileOK(r.file) /\ Follows(r.file, f) /\ r.file.block = f.block
             /\ NoNewBlock(r.file, f)
             /\ r.ok \in BOOLEAN
             /\ r.ok => /\ f.state = "ready"
                        /\ r.file.state = "ready"
                        /\ r.file.stream = "good"
                        /\ r.file.header = f.header
                        /\ r.file.saved = f.header
<1> DEFINE r == ReadTableFileHeader(f, outcome)
           g == r.file
<1>0. f \in File /\ f.state # "missing"
  BY DEF FileOK, StreamOK
<1>1. CASE f.state = "headless" \/ f.stream = "failed"
  <2>1. r = [ok |-> FALSE, file |-> FailStream(f)]
    BY <1>1 DEF ReadTableFileHeader, FailStream
  <2>2. f.header = f.saved
    BY <1>1 DEF FileOK, StreamOK, EmptyOK
  <2> QED
    BY <2>1, <2>2, <1>0, FailStreamOK
<1>2. CASE /\ ~(f.state = "headless" \/ f.stream = "failed")
           /\ f.header # f.saved /\ outcome = "header"
  <2>1. r.ok = FALSE /\ g = [f EXCEPT !.stream = "failed", !.header = f.saved]
    BY <1>2 DEF ReadTableFileHeader
  <2> HIDE DEF r
  <2>2. /\ g \in File /\ g.header = f.saved /\ g.saved = f.saved /\ g.block = f.block
        /\ g.state = f.state /\ g.size = f.size /\ g.stream = "failed"
    BY <1>0, <2>1 DEF File, Stream
  <2>3. StreamOK(g) /\ EmptyOK(g) /\ FreshOK(g)
    BY <1>0, <2>2 DEF FileOK, StreamOK, EmptyOK, FreshOK
  <2>4. HeaderOK(g, g.header) /\ HeaderOK(g, g.saved) /\ BufferedOK(g)
    BY <1>0, <2>2 DEF FileOK, HeaderOK, BufferedOK, File, Header
  <2>5. Follows(g, f) /\ NoNewBlock(g, f)
    <3>1. f.saved.usedBlocks \in Nat /\ f.header.usedBlocks \in Nat
      BY <1>0 DEF File, Header
    <3>2. /\ f.header.usedBlocks <= f.saved.usedBlocks + 1
          /\ f.saved.usedBlocks <= f.header.usedBlocks
      BY DEF FileOK, BufferedOK
    <3> QED
      BY <1>2, <2>2, <3>1, <3>2 DEF Follows, NoNewBlock
  <2>6. FileOK(g)
    BY <2>2, <2>3, <2>4 DEF FileOK
  <2> QED
    BY <2>1, <2>2, <2>5, <2>6 DEF r
<1>3. CASE /\ ~(f.state = "headless" \/ f.stream = "failed")
           /\ ~(f.header # f.saved /\ outcome = "header")
  <2>1. r.ok = TRUE /\ g = [f EXCEPT !.saved = f.header]
    BY <1>3 DEF ReadTableFileHeader
  <2> HIDE DEF r
  <2>2. /\ g \in File /\ g.header = f.header /\ g.saved = f.header /\ g.block = f.block
        /\ g.state = f.state /\ g.size = f.size /\ g.stream = f.stream
    BY <1>0, <2>1 DEF File
  <2>3. f.state = "ready" /\ f.stream = "good"
    BY <1>0, <1>3 DEF File, Stream
  <2>4. StreamOK(g) /\ EmptyOK(g)
    BY <2>2, <2>3 DEF StreamOK, EmptyOK
  <2>5. HeaderOK(g, g.header) /\ HeaderOK(g, g.saved)
    BY <2>2 DEF FileOK, HeaderOK
  <2>6. /\ f.saved.usedBlocks \in Nat /\ f.header.usedBlocks \in Nat
        /\ f.saved.usedBlocks <= f.header.usedBlocks
    BY <1>0 DEF File, Header, FileOK, BufferedOK
  <2>7. FreshOK(g) /\ BufferedOK(g) /\ Follows(g, f) /\ NoNewBlock(g, f)
    BY <2>2, <2>6 DEF FileOK, FreshOK, BufferedOK, Follows, NoNewBlock, Blocks
  <2>8. FileOK(g)
    BY <2>2, <2>4, <2>5, <2>7 DEF FileOK
  <2> QED
    BY <2>1, <2>2, <2>3, <2>7, <2>8 DEF r
<1> QED
  BY <1>1, <1>2, <1>3

LEMMA AccessOK ==
  ASSUME NEW f, FileOK(f), NEW outcome
  PROVE  LET a == Access(f, outcome)
         IN  /\ FileOK(a.file) /\ Follows(a.file, f) /\ a.file.block = f.block
             /\ NoNewBlock(a.file, f)
             /\ a.ok \in BOOLEAN
             /\ a.ok => /\ f.state = "ready"
                        /\ a.file.state = "ready"
                        /\ a.file.stream = "good"
                        /\ a.file.header = f.header
                        /\ a.file.saved = f.header
<1> DEFINE a == Access(f, outcome)
           o == OpenTableFile(f)
<1>1. CASE o.rc # "OK"
  <2>1. a = [ok |-> FALSE, file |-> f]
    BY <1>1 DEF Access
  <2>2. Follows(f, f) /\ NoNewBlock(f, f)
    BY DEF Follows, NoNewBlock, FileOK, File, Header
  <2> QED
    BY <2>1, <2>2
<1>2. CASE o.rc = "OK"
  <2>1. a = ReadTableFileHeader(o.file, outcome)
    BY <1>2 DEF Access
  <2>2. FileOK(o.file) /\ o.file.block = f.block
    BY OpenFileOK
  <2>3. /\ o.file = [f EXCEPT !.stream = IF @ = "closed" THEN "good" ELSE @]
        /\ f.state # "missing" /\ f \in File
    BY <1>2 DEF OpenTableFile, FileOK
  <2>4. o.file.stream # "closed" /\ o.file.header = f.header /\ o.file.saved = f.saved
        /\ o.file.state = f.state
    BY <2>3 DEF File, Stream
  <2>5. f.stream = "closed" => f.header = f.saved
    BY DEF FileOK, StreamOK
  <2> HIDE DEF o
  <2>6. /\ FileOK(a.file) /\ Follows(a.file, o.file) /\ a.file.block = o.file.block
        /\ NoNewBlock(a.file, o.file)
        /\ a.ok \in BOOLEAN
        /\ a.ok => /\ o.file.state = "ready"
                   /\ a.file.state = "ready"
                   /\ a.file.stream = "good"
                   /\ a.file.header = o.file.header
                   /\ a.file.saved = o.file.header
    BY <2>1, <2>2, <2>4, ReadHeaderOK
  <2> HIDE DEF a
  <2> QED
    BY <2>2, <2>4, <2>6 DEF Follows, NoNewBlock, a
<1> QED
  BY <1>1, <1>2

\* allocBlock hands out the block the header counts next, and leaves every
\* block as it was.
LEMMA AllocBlockOK ==
  ASSUME NEW f, FileOK(f), NEW outcome
  PROVE  LET r == AllocBlock(f, outcome)
         IN  /\ FileOK(r.file) /\ Follows(r.file, f) /\ r.file.block = f.block
             /\ r.file.header.usedBlocks <= f.header.usedBlocks + 1
             /\ r.file.header.usedBlocks > f.header.usedBlocks =>
                    r.blockNum = f.header.usedBlocks
<1> DEFINE r == AllocBlock(f, outcome)
           a == Access(f, outcome)
           extend == NeedsExtension(a.file.header)
<1>1. /\ FileOK(a.file) /\ Follows(a.file, f) /\ a.file.block = f.block
      /\ NoNewBlock(a.file, f)
      /\ a.ok \in BOOLEAN
      /\ a.ok => /\ f.state = "ready"
                 /\ a.file.state = "ready"
                 /\ a.file.stream = "good"
                 /\ a.file.header = f.header
                 /\ a.file.saved = f.header
  BY AccessOK
<1>2. /\ f \in File /\ a.file \in File
      /\ f.header.usedBlocks \in Nat /\ a.file.header.usedBlocks \in Nat
      /\ f.saved.usedBlocks \in Nat
      /\ f.saved.usedBlocks <= f.header.usedBlocks
  BY <1>1 DEF FileOK, File, Header, BufferedOK
<1>3. a.file.header.usedBlocks <= f.header.usedBlocks
  BY <1>1 DEF NoNewBlock
<1>4. CASE ~a.ok
  <2>1. r = [rc |-> "FILE_NOT_FOUND", file |-> a.file, blockNum |-> -1]
    BY <1>4 DEF AllocBlock
  <2> QED
    BY <1>1, <1>2, <1>3, <2>1
<1>5. CASE a.ok /\ extend /\ outcome = "append"
  <2>1. r = [rc |-> "FILE_NOT_FOUND", file |-> FailStream(a.file), blockNum |-> -1]
    BY <1>5 DEF AllocBlock
  <2> HIDE DEF a
  <2>2. LET g == FailStream(a.file)
        IN  FileOK(g) /\ Follows(g, a.file) /\ g.block = a.file.block
            /\ g.header = a.file.header /\ g.saved = a.file.saved
    BY <1>1, <1>5, FailStreamOK
  <2> HIDE DEF r
  <2>3. FileOK(r.file) /\ Follows(r.file, a.file) /\ r.file.block = f.block
        /\ r.file.header = f.header /\ r.file.saved = f.header
    BY <1>1, <1>5, <2>1, <2>2
  <2>4. Follows(r.file, f)
    BY <1>1, <1>2, <1>5, <2>3 DEF Follows
  <2> QED
    BY <1>2, <2>3, <2>4 DEF r
<1>6. CASE a.ok /\ ~(extend /\ outcome = "append")
  <2> DEFINE n == f.header.usedBlocks + 1
             g == r.file
  <2>1. /\ g = [a.file EXCEPT !.header = GrownHeader(a.file.header),
                              !.size   = IF extend THEN @ + 1 ELSE @]
        /\ r.blockNum = f.header.usedBlocks
    BY <1>1, <1>6 DEF AllocBlock
  <2>2. a.file.size \in Nat /\ a.file.header.totalBlocks \in Nat
    BY <1>2 DEF File, Header
  <2>3. /\ GrownHeader(a.file.header) \in Header
        /\ GrownHeader(a.file.header).usedBlocks = n
    BY <1>1, <1>2, <1>6, <2>2 DEF GrownHeader, Header
  <2> HIDE DEF r, a
  <2>4. /\ g \in File /\ g.header = GrownHeader(a.file.header) /\ g.saved = a.file.saved
        /\ g.block = a.file.block /\ g.state = "ready" /\ g.stream = "good"
        /\ g.size = IF extend THEN a.file.size + 1 ELSE a.file.size
    <3> DEFINE h == GrownHeader(a.file.header)
               e == a.file
               z == IF extend THEN e.size + 1 ELSE e.size
    <3>1. z \in Nat /\ h \in Header /\ e \in File
      BY <1>2, <2>2, <2>3
    <3>2. g = [e EXCEPT !.header = h, !.size = z] /\ e.state = "ready" /\ e.stream = "good"
      BY <1>1, <1>6, <2>1
    <3> HIDE DEF h, z, e, g
    <3>3. /\ g \in File /\ g.header = h /\ g.saved = e.saved /\ g.block = e.block
          /\ g.state = "ready" /\ g.stream = "good" /\ g.size = z
      BY <3>1, <3>2 DEF File
    <3> QED
      BY <3>3 DEF h, z, e
  <2>5. a.file.header.usedBlocks < a.file.header.totalBlocks
        /\ a.file.header.totalBlocks <= a.file.size
    BY <1>1, <1>6 DEF FileOK, HeaderOK
  <2>6. HeaderOK(g, g.header)
    BY <1>2, <2>2, <2>4, <2>5 DEF HeaderOK, GrownHeader, NeedsExtension
  <2>7. HeaderOK(g, g.saved)
    BY <1>1, <1>2, <1>6, <2>2, <2>4, <2>5 DEF HeaderOK
  <2>8. StreamOK(g) /\ EmptyOK(g) /\ FreshOK(g)
    BY <1>1, <2>4 DEF FileOK, StreamOK, EmptyOK, FreshOK
  <2>9. BufferedOK(g) /\ Follows(g, f)
    BY <1>1, <1>2, <1>6, <2>3, <2>4 DEF BufferedOK, Follows
  <2>10. FileOK(g) /\ g.block = f.block /\ g.header.usedBlocks = n
    BY <1>1, <2>3, <2>4, <2>6, <2>7, <2>8, <2>9 DEF FileOK
  <2> QED
    BY <1>2, <2>1, <2>9, <2>10 DEF r
<1> QED
  BY <1>4, <1>5, <1>6

LEMMA FreeBlockOK ==
  ASSUME NEW f, FileOK(f), NEW b, NEW outcome
  PROVE  LET g == FreeBlock(f, b, outcome).file
         IN  FileOK(g) /\ Follows(g, f) /\ g.block = f.block
<1>1. CASE f.stream = "closed"
  <2>1. FreeBlock(f, b, outcome).file = f
    BY <1>1 DEF FreeBlock
  <2>2. Follows(f, f)
    BY DEF Follows, FileOK, File, Header
  <2> QED
    BY <2>1, <2>2
<1>2. CASE f.stream # "closed"
  <2>1. FreeBlock(f, b, outcome).file = ReadTableFileHeader(f, outcome).file
    BY <1>2 DEF FreeBlock
  <2> QED
    BY <1>2, <2>1, ReadHeaderOK
<1> QED
  BY <1>1, <1>2

\* readBlock changes no block.  When it succeeds the buffer holds the block,
\* which the file on disk records as used; when it fails for another reason
\* than a failed read, the buffer is untouched.
LEMMA ReadBlockOK ==
  ASSUME NEW f, FileOK(f), NEW b \in Blocks, NEW buf \in Contents, NEW outcome
  PROVE  LET r == ReadBlock(f, b, buf, outcome)
         IN  /\ FileOK(r.file) /\ Follows(r.file, f) /\ r.file.block = f.block
             /\ NoNewBlock(r.file, f)
             /\ r.data \in Contents
             /\ r.rc = "OK" => /\ r.data = f.block[b]
                              /\ r.file.state = "ready"
                              /\ b < r.file.saved.usedBlocks
             /\ r.rc # "OK" /\ outcome # "read" => r.data = buf
<1> DEFINE r == ReadBlock(f, b, buf, outcome)
           a == Access(f, outcome)
<1>1. /\ FileOK(a.file) /\ Follows(a.file, f) /\ a.file.block = f.block
      /\ NoNewBlock(a.file, f)
      /\ a.ok \in BOOLEAN
      /\ a.ok => /\ f.state = "ready"
                 /\ a.file.state = "ready"
                 /\ a.file.stream = "good"
                 /\ a.file.header = f.header
                 /\ a.file.saved = f.header
  BY AccessOK
<1>2. /\ a.file \in File /\ a.file.size \in Nat
      /\ a.file.header.usedBlocks \in Nat /\ a.file.header.totalBlocks \in Nat
      /\ f.saved.usedBlocks \in Nat /\ f.saved.usedBlocks <= f.header.usedBlocks
      /\ f.header.usedBlocks \in Nat
      /\ f.block \in [Blocks -> Contents]
  BY <1>1 DEF FileOK, File, Header, BufferedOK
<1>3. a.ok => /\ a.file.header.usedBlocks < a.file.header.totalBlocks
              /\ a.file.header.totalBlocks <= a.file.size
  BY <1>1 DEF FileOK, HeaderOK
<1>4. CASE ~a.ok
  <2>1. r = [rc |-> "FILE_NOT_FOUND", file |-> a.file, data |-> buf]
    BY <1>4 DEF ReadBlock
  <2> HIDE DEF a
  <2> QED
    BY <1>1, <2>1
<1>5. CASE a.ok /\ ~IsUsed(a.file, b)
  <2>1. r = [rc |-> "BLOCK_NOT_FOUND", file |-> a.file, data |-> buf]
    BY <1>5 DEF ReadBlock
  <2> HIDE DEF a
  <2> QED
    BY <1>1, <2>1
<1>6. CASE a.ok /\ IsUsed(a.file, b) /\ (b >= a.file.size \/ outcome = "read")
  <2>1. r = [rc |-> "FILE_NOT_FOUND", file |-> FailStream(a.file), data |-> Garbage]
    BY <1>6 DEF ReadBlock
  <2>2. outcome = "read"
    BY <1>2, <1>3, <1>6 DEF IsUsed, Blocks
  <2> HIDE DEF a
  <2>3. LET g == FailStream(a.file)
        IN  FileOK(g) /\ Follows(g, a.file) /\ g.block = a.file.block
            /\ g.header = a.file.header /\ g.saved = a.file.saved
    BY <1>1, <1>6, FailStreamOK
  <2> HIDE DEF r
  <2>4. FileOK(r.file) /\ Follows(r.file, a.file) /\ r.file.block = f.block
        /\ r.file.header = f.header /\ r.file.saved = f.header
        /\ r.data = Garbage /\ r.rc = "FILE_NOT_FOUND"
    BY <1>1, <1>6, <2>1, <2>3
  <2>5. Follows(r.file, f)
    BY <1>1, <1>2, <1>6, <2>4 DEF Follows
  <2> QED
    BY <1>2, <2>2, <2>4, <2>5, DiskAssumption DEF r, NoNewBlock
<1>7. CASE a.ok /\ IsUsed(a.file, b) /\ ~(b >= a.file.size \/ outcome = "read")
  <2>1. r = [rc |-> "OK", file |-> a.file, data |-> a.file.block[b]]
    BY <1>7 DEF ReadBlock
  <2> HIDE DEF a
  <2> QED
    BY <1>1, <1>2, <1>7, <2>1 DEF IsUsed
<1> QED
  BY <1>1, <1>4, <1>5, <1>6, <1>7

\* writeBlock replaces one used block and nothing else, or fails and changes
\* no block.
LEMMA WriteBlockOK ==
  ASSUME NEW f, FileOK(f), NEW b \in Blocks, NEW data \in Contents, NEW outcome
  PROVE  LET r == WriteBlock(f, b, data, outcome)
         IN  /\ FileOK(r.file) /\ Follows(r.file, f) /\ NoNewBlock(r.file, f)
             /\ r.rc = "OK" => /\ r.file.block = [f.block EXCEPT ![b] = data]
                              /\ r.file.state = "ready"
                              /\ b < r.file.saved.usedBlocks
             /\ r.rc # "OK" => r.file.block = f.block
<1> DEFINE r == WriteBlock(f, b, data, outcome)
           a == Access(f, outcome)
<1>1. /\ FileOK(a.file) /\ Follows(a.file, f) /\ a.file.block = f.block
      /\ NoNewBlock(a.file, f)
      /\ a.ok \in BOOLEAN
      /\ a.ok => /\ f.state = "ready"
                 /\ a.file.state = "ready"
                 /\ a.file.stream = "good"
                 /\ a.file.header = f.header
                 /\ a.file.saved = f.header
  BY AccessOK
<1>2. /\ a.file \in File
      /\ a.file.header.usedBlocks \in Nat
      /\ f.saved.usedBlocks \in Nat /\ f.saved.usedBlocks <= f.header.usedBlocks
      /\ f.header.usedBlocks \in Nat
  BY <1>1 DEF FileOK, File, Header, BufferedOK
<1>3. CASE ~a.ok
  <2>1. r = [rc |-> "FILE_NOT_FOUND", file |-> a.file]
    BY <1>3 DEF WriteBlock
  <2> HIDE DEF a
  <2> QED
    BY <1>1, <2>1
<1>4. CASE a.ok /\ ~IsUsed(a.file, b)
  <2>1. r = [rc |-> "INVALID_BLOCK", file |-> a.file]
    BY <1>4 DEF WriteBlock
  <2> HIDE DEF a
  <2> QED
    BY <1>1, <2>1
<1>5. CASE a.ok /\ IsUsed(a.file, b) /\ outcome = "write"
  <2>1. r = [rc |-> "FILE_NOT_FOUND", file |-> FailStream(a.file)]
    BY <1>5 DEF WriteBlock
  <2> HIDE DEF a
  <2>2. LET g == FailStream(a.file)
        IN  FileOK(g) /\ Follows(g, a.file) /\ g.block = a.file.block
            /\ g.header = a.file.header /\ g.saved = a.file.saved
    BY <1>1, <1>5, FailStreamOK
  <2> HIDE DEF r
  <2>3. FileOK(r.file) /\ Follows(r.file, a.file) /\ r.file.block = f.block
        /\ r.file.header = f.header /\ r.file.saved = f.header
        /\ r.rc = "FILE_NOT_FOUND"
    BY <1>1, <1>5, <2>1, <2>2
  <2>4. Follows(r.file, f)
    BY <1>1, <1>2, <1>5, <2>3 DEF Follows
  <2> QED
    BY <1>2, <2>3, <2>4 DEF r, NoNewBlock
<1>6. CASE a.ok /\ IsUsed(a.file, b) /\ outcome # "write"
  <2> DEFINE e == a.file
             g == r.file
  <2>1. g = [e EXCEPT !.block[b] = data] /\ r.rc = "OK"
    BY <1>6 DEF WriteBlock
  <2>2. e \in File /\ b < e.saved.usedBlocks
    BY <1>1, <1>2, <1>6 DEF IsUsed
  <2> HIDE DEF a, e, r, g
  <2>3. /\ g.state = e.state /\ g.stream = e.stream /\ g.header = e.header
        /\ g.saved = e.saved /\ g.size = e.size
        /\ g.block = [e.block EXCEPT ![b] = data]
        /\ g \in File
    BY <2>1, <2>2 DEF File
  <2>4. StreamOK(g) /\ EmptyOK(g) /\ BufferedOK(g) /\ HeaderOK(g, g.header)
        /\ HeaderOK(g, g.saved)
    BY <1>1, <2>3 DEF FileOK, StreamOK, EmptyOK, BufferedOK, HeaderOK, e
  <2>5. e.saved.usedBlocks \in Nat /\ e.block \in [Blocks -> Contents] /\ FreshOK(e)
    BY <1>1, <2>2 DEF File, Header, FileOK, e
  <2>6. FreshOK(g)
    BY <2>2, <2>3, <2>5 DEF FreshOK, Blocks
  <2>7. Follows(g, f) /\ g.state = "ready" /\ NoNewBlock(g, f)
    BY <1>1, <1>2, <1>6, <2>3 DEF Follows, NoNewBlock, e
  <2> QED
    BY <1>1, <2>1, <2>2, <2>3, <2>4, <2>6, <2>7 DEF FileOK, e, g, r
<1> QED
  BY <1>1, <1>3, <1>4, <1>5, <1>6

=============================================================================
