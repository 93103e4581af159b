---------------------------- MODULE WriterProofs ----------------------------
(***************************************************************************)
(* Proofs about the two writers. ProfileWriter: nothing is written past    *)
(* the buffer for any sizes of messages, and the file holds the messages   *)
(* in order, whenever the buffer is flushed or replaced. LogWriter: every  *)
(* log file announces the methods that its frames name, and the lines in   *)
(* it are those of the line number table, for tables of any length.        *)
(***************************************************************************)
EXTENDS ProfileWriter, LogWriter, Induction, FiniteSetTheorems, SequenceTheorems, TLAPS

-----------------------------------------------------------------------------
(* ProfileWriter: the buffer *)

\* Any further message can be asked for without wrapping.
Fits(capacity) ==
    /\ capacity \in Nat
    /\ \A sz \in ByteSizes : capacity + sz + MIN_FREE_BUFF < Word
BufferInv == data_offset \in Nat /\ data_offset <= data_capacity /\ Fits(data_capacity)

\* uint32_t arithmetic that stays below 2^32 is arithmetic.
LEMMA NoWrap == ASSUME NEW n \in Nat, n < Word PROVE n % Word = n
  BY BuffAssumption

\* ensure_freebuff leaves room for the object and four varints around it.
LEMMA Ensured ==
    ASSUME BufferInv, NEW sz \in ByteSizes
    PROVE  LET buff == ensure_freebuff(sz)
           IN  buff.offset \in Nat /\ buff.offset + sz + MIN_FREE_BUFF <= buff.capacity /\ Fits(buff.capacity)
<1> DEFINE buff == ensure_freebuff(sz)
           min == sz + MIN_FREE_BUFF
<1> SUFFICES buff.offset \in Nat /\ buff.offset + min <= buff.capacity /\ Fits(buff.capacity)
  BY BuffAssumption DEF Fits
<1>1. /\ sz \in Nat /\ MIN_FREE_BUFF \in Nat /\ Word \in Nat /\ data_offset \in Nat /\ data_capacity \in Nat
      /\ data_offset <= data_capacity /\ data_capacity + min < Word /\ 3 * min < Word
  BY BuffAssumption DEF BufferInv, Fits
<1>2. min % Word = min /\ (data_offset + min) % Word = data_offset + min /\ (min * 2) % Word = min * 2
  <2>1. min \in Nat /\ min < Word /\ data_offset + min \in Nat /\ data_offset + min < Word
        /\ min * 2 \in Nat /\ min * 2 < Word
    BY <1>1
  <2> HIDE DEF min
  <2> QED BY <2>1, NoWrap
<1>3. buff = IF data_offset + min > data_capacity
             THEN [file |-> file \o data, data |-> <<>>, offset |-> 0,
                   capacity |-> IF min > data_capacity THEN min * 2 ELSE data_capacity]
             ELSE [file |-> file, data |-> data, offset |-> data_offset, capacity |-> data_capacity]
  BY <1>2 DEF ensure_freebuff
<1> HIDE DEF buff
<1>4. CASE data_offset + min > data_capacity /\ min > data_capacity
  <2>1. buff.offset = 0 /\ buff.capacity = min * 2
    BY <1>3, <1>4
  <2>2. ASSUME NEW s \in ByteSizes PROVE min * 2 + s + MIN_FREE_BUFF < Word
    <3>1. s \in Nat /\ 3 * (s + MIN_FREE_BUFF) < Word
      BY BuffAssumption
    <3> QED BY <1>1, <3>1
  <2>3. Fits(min * 2)
    BY <1>1, <2>2 DEF Fits
  <2> QED BY <1>1, <2>1, <2>3
<1>5. CASE data_offset + min > data_capacity /\ ~(min > data_capacity)
  <2>1. buff.offset = 0 /\ buff.capacity = data_capacity
    BY <1>3, <1>5
  <2> QED BY <1>1, <1>5, <2>1 DEF BufferInv
<1>6. CASE ~(data_offset + min > data_capacity)
  <2>1. buff.offset = data_offset /\ buff.capacity = data_capacity
    BY <1>3, <1>6
  <2> QED BY <1>1, <1>6, <2>1 DEF BufferInv
<1> QED BY <1>4, <1>5, <1>6

\* What is written then stays within the buffer.
LEMMA WriteFits ==
    ASSUME BufferInv, NEW sz \in ByteSizes, NEW pieces, NEW varints \in 0..MIN_FREE_BUFF,
           write_unchecked(ensure_freebuff(sz), pieces, sz + varints)
    PROVE  BufferInv'
<1> DEFINE buff == ensure_freebuff(sz)
<1>1. buff.offset \in Nat /\ buff.offset + sz + MIN_FREE_BUFF <= buff.capacity /\ Fits(buff.capacity)
  BY Ensured
<1>2. data_offset' = (buff.offset + (sz + varints)) % Word /\ data_capacity' = buff.capacity
  BY DEF write_unchecked
<1> HIDE DEF buff
<1>3. sz \in Nat /\ MIN_FREE_BUFF \in Nat /\ Word \in Nat /\ buff.capacity \in Nat
      /\ buff.capacity + sz + MIN_FREE_BUFF < Word
  BY <1>1, BuffAssumption DEF Fits
<1>4. buff.offset + (sz + varints) \in Nat /\ buff.offset + (sz + varints) <= buff.capacity
      /\ buff.offset + (sz + varints) < Word
  BY <1>1, <1>3
<1>5. data_offset' = buff.offset + (sz + varints)
  BY <1>2, <1>4, NoWrap
<1> QED BY <1>1, <1>2, <1>4, <1>5 DEF BufferInv, Fits

\* Nothing is written past the end of the buffer, for any sizes of messages
\* that the assumption keeps away from 2^32.
THEOREM WithinBufferAlways == FileSpec => []WithinBuffer
<1>1. ASSUME FileInit PROVE BufferInv
  BY <1>1, BuffAssumption DEF FileInit, BufferInv, Fits
<1>2. ASSUME BufferInv, [FileNext]_fileVars PROVE BufferInv'
  <2>1. ASSUME NEW sz \in ByteSizes, write_header(sz) PROVE BufferInv'
    <3>1. \A n \in 3..(3 * MaxVarint) : n \in 0..MIN_FREE_BUFF
      BY BuffAssumption
    <3> QED BY <1>2, <2>1, <3>1, WriteFits DEF write_header
  <2>2. ASSUME NEW sz \in ByteSizes, append_wse(sz) PROVE BufferInv'
    <3>1. \A n \in 2..(2 * MaxVarint) : n \in 0..MIN_FREE_BUFF
      BY BuffAssumption
    <3> QED BY <1>2, <2>2, <3>1, WriteFits DEF append_wse
  <2>3. CASE Close \/ UNCHANGED fileVars
    BY <1>2, <2>3 DEF Close, fileVars, BufferInv, Fits
  <2> QED BY <1>2, <2>1, <2>2, <2>3 DEF FileNext
<1>3. BufferInv => WithinBuffer
  BY DEF BufferInv, WithinBuffer
<1> QED BY <1>1, <1>2, <1>3, PTL DEF FileSpec

-----------------------------------------------------------------------------
(* ProfileWriter: what is in the file *)

Parts == {"version", "size", "object", "checksum"}
Plain == [of : Nat, part : Parts, covers : {<<>>}]
Pieces == [of : Nat, part : Parts, covers : Seq(Plain)]

\* w holds the messages 1 to n.
Holds(w, n) ==
    /\ Len(w) = Before(n + 1)
    /\ \A i \in 1..n : \A j \in DOMAIN Message(i) : w[Before(i) + j] = Message(i)[j]

\* Before the header nothing has been written that its checksum could cover.
FileInv ==
    /\ open \in BOOLEAN /\ header_written \in BOOLEAN /\ count \in Nat
    /\ file \in Seq(Pieces) /\ data \in Seq(Pieces)
    /\ ~header_written => count = 0 /\ data = <<>> /\ adler = <<>>
    /\ header_written => count >= 1
    /\ Holds(Written, count)

\* The pieces of a message.
LEMMA MessagePieces ==
    ASSUME NEW i \in Nat \ {0}
    PROVE  /\ i = 1 => Message(i) = LET body == <<Piece(i, "version"), Piece(i, "size"), Piece(i, "object")>>
                                    IN  Append(body, Sum(i, body))
           /\ i # 1 => Message(i) = LET body == <<Piece(i, "size"), Piece(i, "object")>>
                                    IN  Append(body, Sum(i, body))
           /\ Message(i) \in Seq(Pieces)
           /\ Len(Message(i)) = Before(i + 1) - Before(i)
<1> DEFINE p == Piece(i, "size")
           q == Piece(i, "object")
           v == Piece(i, "version")
<1>1. p \in Plain /\ q \in Plain /\ v \in Plain
  BY DEF Piece, Plain, Parts
<1>2. Plain \subseteq Pieces
  <2>1. <<>> \in Seq(Plain)
    BY EmptySeq
  <2> QED BY <2>1 DEF Plain, Pieces
<1>3. ASSUME NEW c \in Seq(Plain) PROVE Sum(i, c) \in Pieces
  BY DEF Sum, Pieces, Parts
<1> HIDE DEF p, q, v
<1>4. <<p, q>> \in Seq(Plain) /\ <<v, p, q>> \in Seq(Plain) /\ <<v>> \o <<p, q>> = <<v, p, q>>
  <2>1. <<v>> \in Seq(Plain) /\ <<p, q>> \in Seq(Plain) /\ <<v, p, q>> \in Seq(Plain)
    BY <1>1
  <2>2. Len(<<v>>) = 1 /\ Len(<<p, q>>) = 2 /\ Len(<<v, p, q>>) = 3
    OBVIOUS
  <2>3. /\ <<v>> \o <<p, q>> \in Seq(Plain) /\ Len(<<v>> \o <<p, q>>) = 3
        /\ \A k \in 1..3 : (<<v>> \o <<p, q>>)[k] = IF k <= 1 THEN <<v>>[k] ELSE <<p, q>>[k - 1]
    BY <2>1, <2>2, ConcatProperties
  <2>4. \A k \in 1..3 : (<<v>> \o <<p, q>>)[k] = <<v, p, q>>[k]
    BY <2>3
  <2>5. <<v>> \o <<p, q>> = <<v, p, q>>
    BY <2>1, <2>2, <2>3, <2>4, SeqEqual
  <2> QED BY <2>1, <2>5
<1>5. <<>> \o <<p, q>> = <<p, q>>
  BY <1>1
<1>6. ASSUME i = 1 PROVE Message(i) = Append(<<v, p, q>>, Sum(i, <<v, p, q>>))
  <2>1. Message(i) = Append(<<v>> \o <<p, q>>, Sum(i, <<v>> \o <<p, q>>))
    BY <1>6 DEF Message, p, q, v
  <2> QED BY <1>4, <2>1
<1>7. ASSUME i # 1 PROVE Message(i) = Append(<<p, q>>, Sum(i, <<p, q>>))
  <2>1. Message(i) = Append(<<>> \o <<p, q>>, Sum(i, <<>> \o <<p, q>>))
    BY <1>7 DEF Message, p, q
  <2> QED BY <1>5, <2>1
<1>8. Message(i) \in Seq(Pieces) /\ Len(Message(i)) = IF i = 1 THEN 4 ELSE 3
  <2>1. PICK c \in Pieces : c = Sum(i, <<v, p, q>>)
    BY <1>3, <1>4
  <2>2. PICK d \in Pieces : d = Sum(i, <<p, q>>)
    BY <1>3, <1>4
  <2>3. p \in Pieces /\ q \in Pieces /\ v \in Pieces
    BY <1>1, <1>2
  <2>4. <<v, p, q>> \in Seq(Pieces) /\ Len(<<v, p, q>>) = 3 /\ <<p, q>> \in Seq(Pieces) /\ Len(<<p, q>>) = 2
    BY <2>3
  <2>5. Append(<<v, p, q>>, c) \in Seq(Pieces) /\ Len(Append(<<v, p, q>>, c)) = 4
    BY <2>4
  <2>6. Append(<<p, q>>, d) \in Seq(Pieces) /\ Len(Append(<<p, q>>, d)) = 3
    BY <2>4
  <2> QED BY <1>6, <1>7, <2>1, <2>2, <2>5, <2>6
<1>9. Before(i + 1) - Before(i) = IF i = 1 THEN 4 ELSE 3
  BY DEF Before
<1> QED BY <1>6, <1>7, <1>8, <1>9 DEF p, q, v

\* The next message goes to the end of what is there.
LEMMA HoldsMore ==
    ASSUME NEW w \in Seq(Pieces), NEW n \in Nat, Holds(w, n)
    PROVE  Holds(w \o Message(n + 1), n + 1)
<1> DEFINE m == Message(n + 1)
<1>1. m \in Seq(Pieces) /\ Len(m) = Before((n + 1) + 1) - Before(n + 1)
  <2>1. n + 1 \in Nat \ {0}
    OBVIOUS
  <2> QED BY <2>1, MessagePieces
<1>2. Len(w) = Before(n + 1) /\ Before(n + 1) \in Nat /\ Before((n + 1) + 1) \in Nat
  BY DEF Holds, Before
<1>3. /\ Len(w \o m) = Len(w) + Len(m)
      /\ \A k \in 1..(Len(w) + Len(m)) : (w \o m)[k] = IF k <= Len(w) THEN w[k] ELSE m[k - Len(w)]
  <2> HIDE DEF m
  <2> QED BY <1>1, ConcatProperties
<1>4. ASSUME NEW i \in 1..n, NEW j \in DOMAIN Message(i)
      PROVE  (w \o m)[Before(i) + j] = Message(i)[j]
  <2>1. i \in Nat \ {0}
    OBVIOUS
  <2>2. Message(i) \in Seq(Pieces) /\ Len(Message(i)) = Before(i + 1) - Before(i)
    BY <2>1, MessagePieces
  <2>3. j \in 1..Len(Message(i)) /\ Len(Message(i)) \in Nat
    BY <2>2
  <2>4. Before(i) \in Nat /\ Before(i + 1) \in Nat /\ Before(i + 1) <= Before(n + 1)
    BY DEF Before
  <2>5. Before(i) + j \in 1..Len(w) /\ Len(w) \in Nat /\ Len(m) \in Nat
    <3>1. Len(m) \in Nat
      BY <1>1
    <3> HIDE DEF m
    <3>2. Before(i) + j <= Before(i + 1)
      BY <2>2, <2>3, <2>4
    <3>3. Before(i) + j \in 1..Before(n + 1)
      BY <2>3, <2>4, <3>2, <1>2
    <3> QED BY <1>2, <3>1, <3>3
  <2>6. (w \o m)[Before(i) + j] = w[Before(i) + j]
    <3> HIDE DEF m
    <3> QED BY <1>3, <2>5
  <2> QED BY <2>6 DEF Holds
<1>5. ASSUME NEW j \in DOMAIN m PROVE (w \o m)[Before(n + 1) + j] = m[j]
  <2> HIDE DEF m
  <2>1. j \in 1..Len(m) /\ Len(m) \in Nat
    BY <1>1, <1>5
  <2>2. PICK k : k = Before(n + 1) + j
    OBVIOUS
  <2>3. k \in 1..(Len(w) + Len(m)) /\ ~(k <= Len(w)) /\ k - Len(w) = j
    BY <1>2, <2>1, <2>2
  <2>4. (w \o m)[k] = m[k - Len(w)]
    BY <1>3, <2>3
  <2> QED BY <2>2, <2>3, <2>4
<1>6. Len(w \o m) = Before((n + 1) + 1)
  <2> HIDE DEF m
  <2> QED BY <1>1, <1>2, <1>3
<1>7. ASSUME NEW i \in 1..(n + 1), NEW j \in DOMAIN Message(i)
      PROVE  (w \o m)[Before(i) + j] = Message(i)[j]
  <2>1. CASE i = n + 1
    BY <1>5, <1>7, <2>1
  <2>2. CASE i # n + 1
    <3>1. i \in 1..n
      BY <2>2
    <3> QED BY <1>4, <3>1
  <2> QED BY <2>1, <2>2
<1> QED BY <1>6, <1>7 DEF Holds

\* ensure_freebuff moves pieces from the buffer to the file and loses none.
LEMMA Flushed ==
    ASSUME FileInv, NEW sz
    PROVE  LET buff == ensure_freebuff(sz)
           IN  /\ buff.file \in Seq(Pieces) /\ buff.data \in Seq(Pieces)
               /\ buff.file \o buff.data = file \o data
               /\ data = <<>> => buff.data = <<>>
<1>1. file \in Seq(Pieces) /\ data \in Seq(Pieces) /\ file \o data \in Seq(Pieces)
  BY DEF FileInv
<1>2. (file \o data) \o <<>> = file \o data /\ <<>> \in Seq(Pieces)
  BY <1>1, ConcatEmptySeq, EmptySeq
<1> DEFINE buff == ensure_freebuff(sz)
<1>3. \/ buff.file = file \o data /\ buff.data = <<>>
      \/ buff.file = file /\ buff.data = data
  BY DEF ensure_freebuff
<1> HIDE DEF buff
<1>4. /\ buff.file \in Seq(Pieces) /\ buff.data \in Seq(Pieces)
      /\ buff.file \o buff.data = file \o data
      /\ data = <<>> => buff.data = <<>>
  BY <1>1, <1>2, <1>3
<1> QED BY <1>4 DEF buff

\* A write adds its message.
LEMMA WriteHolds ==
    ASSUME FileInv, open, open', NEW sz, NEW bytes, count' = count + 1,
           write_unchecked(ensure_freebuff(sz), Message(count + 1), bytes)
    PROVE  file' \in Seq(Pieces) /\ data' \in Seq(Pieces) /\ Holds(Written', count')
<1> DEFINE buff == ensure_freebuff(sz)
           m == Message(count + 1)
<1>1. /\ buff.file \in Seq(Pieces) /\ buff.data \in Seq(Pieces)
      /\ buff.file \o buff.data = file \o data
  BY Flushed
<1>2. file' = buff.file /\ data' = buff.data \o m
  BY DEF write_unchecked
<1>3. m \in Seq(Pieces)
  <2>1. count + 1 \in Nat \ {0}
    BY DEF FileInv
  <2> QED BY <2>1, MessagePieces
<1> HIDE DEF buff
<1>4. data' \in Seq(Pieces) /\ file' \in Seq(Pieces) /\ file' \o data' = (file \o data) \o m
  <2> HIDE DEF m
  <2>1. buff.file \o (buff.data \o m) = (buff.file \o buff.data) \o m
    <3>1. ASSUME NEW x \in Seq(Pieces), NEW y \in Seq(Pieces), NEW z \in Seq(Pieces)
          PROVE  (x \o y) \o z = x \o (y \o z)
      BY ConcatAssociative, SMTT(30)
    <3> QED BY <1>1, <1>3, <3>1
  <2>2. buff.data \o m \in Seq(Pieces)
    BY <1>1, <1>3, ConcatProperties
  <2> QED BY <1>1, <1>2, <2>1, <2>2
<1>5. Holds(file \o data, count) /\ file \o data \in Seq(Pieces) /\ count \in Nat
  BY DEF FileInv, Written
<1>6. Holds((file \o data) \o m, count + 1)
  BY <1>5, HoldsMore
<1>7. Written' = (file \o data) \o m
  BY <1>4 DEF Written
<1> HIDE DEF m
<1> QED BY <1>4, <1>6, <1>7

\* The file and the buffer together hold the messages in the order of the
\* calls, complete and with a checksum of their own, and after the destructor
\* the file does, whatever the sizes.
THEOREM ReadBackAlways == FileSpec => []ReadBack
<1>1. ASSUME FileInit PROVE FileInv
  <2>1. file \in Seq(Pieces) /\ data \in Seq(Pieces) /\ file \o data = <<>> /\ count = 0
    BY <1>1 DEF FileInit
  <2>2. Holds(Written, count)
    BY <1>1, <2>1 DEF FileInit, Written, Holds, Before
  <2>3. open \in BOOLEAN /\ header_written \in BOOLEAN /\ ~header_written /\ data = <<>> /\ adler = <<>>
    BY <1>1 DEF FileInit
  <2> QED BY <2>1, <2>2, <2>3 DEF FileInv
<1>2. ASSUME FileInv, [FileNext]_fileVars PROVE FileInv'
  <2>1. ASSUME NEW sz \in ByteSizes, write_header(sz) PROVE FileInv'
    <3> DEFINE buff == ensure_freebuff(sz)
               body == <<Piece(1, "version"), Piece(1, "size"), Piece(1, "object")>>
    <3>1. count = 0 /\ data = <<>> /\ adler = <<>> /\ open /\ open' /\ count' = 1 /\ header_written' = TRUE
      BY <1>2, <2>1 DEF write_header, FileInv
    <3>2. buff.data = <<>>
      BY <1>2, <3>1, Flushed
    <3>3. adler \o buff.data \o body = body
      <4>1. body \in Seq(Pieces)
        BY DEF Piece, Pieces, Parts
      <4>2. <<>> \o <<>> = <<>> /\ <<>> \o body = body
        <5> HIDE DEF body
        <5> QED BY <4>1
      <4> HIDE DEF buff, body
      <4> QED BY <3>1, <3>2, <4>2
    <3>4. PICK varints \in 3..(3 * MaxVarint) :
              write_unchecked(buff, Append(body, Sum(1, adler \o buff.data \o body)), sz + varints)
      BY <2>1, <3>1 DEF write_header
    <3>5. Message(count + 1) = Append(body, Sum(1, body))
      <4>1. count + 1 = 1 /\ 1 \in Nat \ {0}
        BY <3>1
      <4>2. Message(1) = Append(body, Sum(1, body))
        BY <4>1, MessagePieces
      <4> QED BY <4>1, <4>2
    <3>6. write_unchecked(buff, Message(count + 1), sz + varints)
      <4> HIDE DEF buff, body
      <4> QED BY <3>3, <3>4, <3>5
    <3>7. count' = count + 1
      BY <3>1
    <3>8. file' \in Seq(Pieces) /\ data' \in Seq(Pieces) /\ Holds(Written', count')
      BY <1>2, <3>1, <3>6, <3>7, WriteHolds
    <3> QED BY <3>1, <3>8 DEF FileInv
  <2>2. ASSUME NEW sz \in ByteSizes, append_wse(sz) PROVE FileInv'
    <3> DEFINE i == count + 1
               body == <<Piece(i, "size"), Piece(i, "object")>>
    <3>1. count \in Nat /\ count >= 1 /\ open /\ open' /\ count' = count + 1 /\ header_written' = TRUE
      BY <1>2, <2>2 DEF append_wse, FileInv
    <3>2. PICK varints \in 2..(2 * MaxVarint) :
              write_unchecked(ensure_freebuff(sz), Append(body, Sum(i, body)), sz + varints)
      BY <2>2 DEF append_wse
    <3>3. Message(count + 1) = Append(body, Sum(i, body))
      <4>1. i \in Nat \ {0} /\ i # 1
        BY <3>1
      <4> QED BY <4>1, MessagePieces
    <3>4. file' \in Seq(Pieces) /\ data' \in Seq(Pieces) /\ Holds(Written', count')
      BY <1>2, <3>1, <3>2, <3>3, WriteHolds
    <3> QED BY <3>1, <3>4 DEF FileInv
  <2>3. CASE Close
    <3>1. Written' = Written /\ file' \in Seq(Pieces)
      BY <1>2, <2>3 DEF Close, Written, FileInv
    <3> QED BY <1>2, <2>3, <3>1 DEF Close, FileInv
  <2>4. CASE UNCHANGED fileVars
    BY <1>2, <2>4 DEF fileVars, FileInv, Written
  <2> QED BY <1>2, <2>1, <2>2, <2>3, <2>4 DEF FileNext
<1>3. FileInv => ReadBack
  BY DEF FileInv, ReadBack, Holds
<1> QED BY <1>1, <1>2, <1>3, PTL DEF FileSpec

-----------------------------------------------------------------------------
(* LogWriter: methods *)

\* The records that a file can hold.
Frames == UNION {recordFrame(bci, m) : bci \in Bcis, m \in Methods}
Records == {TraceStart(n) : n \in NumFrames} \cup {NewMethod(m) : m \in Methods} \cup Frames

\* The places in s where m is announced.
News(s, m) == {j \in DOMAIN s : s[j] = NewMethod(m)}

\* The file s names known methods only, and announces those that have a name
\* once, right after the first frame.
Explained(s, known, anonymous) ==
    /\ \A i \in DOMAIN s : s[i].tag \in FrameTags => s[i].method \in known
    /\ \A m \in Methods : m \notin known \ anonymous => News(s, m) = {}
    /\ \A m \in known \ anonymous : \E j \in DOMAIN s :
           /\ News(s, m) = {j}
           /\ \A i \in DOMAIN s : s[i].tag \in FrameTags /\ s[i].method = m => j <= i + 1

LogInv ==
    /\ output \in Seq(Records) /\ knownMethods \subseteq Methods /\ nameless \subseteq knownMethods
    /\ Explained(output, knownMethods, nameless)

\* A frame's record.
LEMMA FrameRecord ==
    ASSUME NEW bci \in Bcis, NEW m \in Methods, NEW f \in recordFrame(bci, m)
    PROVE  f \in Records /\ f.tag \in FrameTags /\ f.method = m /\ f.tag # "NEW_METHOD"
<1>1. f \in Records
  BY DEF Records, Frames
<1> QED BY <1>1 DEF recordFrame, FrameTags

\* What a sequence is after an append.
LEMMA Appended ==
    ASSUME NEW S, NEW s \in Seq(S), NEW r \in S
    PROVE  /\ Append(s, r) \in Seq(S) /\ Len(s) \in Nat /\ DOMAIN s = 1..Len(s)
           /\ Len(Append(s, r)) = Len(s) + 1
           /\ DOMAIN Append(s, r) = DOMAIN s \cup {Len(s) + 1} /\ Len(s) + 1 \notin DOMAIN s
           /\ \A i \in DOMAIN s : Append(s, r)[i] = s[i]
           /\ Append(s, r)[Len(s) + 1] = r
<1>1. Append(s, r) \in Seq(S) /\ Len(s) \in Nat /\ DOMAIN s = 1..Len(s) /\ Len(Append(s, r)) = Len(s) + 1
  OBVIOUS
<1>2. DOMAIN Append(s, r) = 1..(Len(s) + 1)
  BY <1>1
<1>3. 1..(Len(s) + 1) = 1..Len(s) \cup {Len(s) + 1}
  BY <1>1
<1>4. \A i \in 1..Len(s) : Append(s, r)[i] = s[i]
  OBVIOUS
<1>5. Append(s, r)[Len(s) + 1] = r
  OBVIOUS
<1> QED BY <1>1, <1>2, <1>3, <1>4, <1>5

\* A record that announces nothing and names no unknown method.
LEMMA ExplainedMore ==
    ASSUME NEW s \in Seq(Records), NEW known, NEW anonymous, Explained(s, known, anonymous),
           NEW r \in Records, r.tag # "NEW_METHOD", r.tag \in FrameTags => r.method \in known
    PROVE  Explained(Append(s, r), known, anonymous)
<1> DEFINE w == Append(s, r)
           e == Len(s) + 1
<1>1. /\ w \in Seq(Records) /\ DOMAIN w = DOMAIN s \cup {e} /\ w[e] = r /\ e \notin DOMAIN s
      /\ \A i \in DOMAIN s : w[i] = s[i]
      /\ e \in Nat /\ \A i \in DOMAIN s : i \in Nat /\ i < e
  BY Appended
<1>2. ASSUME NEW m PROVE News(w, m) = News(s, m)
  <2>1. r # NewMethod(m)
    BY DEF NewMethod
  <2> HIDE DEF w, e
  <2> QED BY <1>1, <2>1 DEF News
<1> HIDE DEF w, e
<1>3. \A i \in DOMAIN w : w[i].tag \in FrameTags => w[i].method \in known
  BY <1>1 DEF Explained
<1>4. \A m \in Methods : m \notin known \ anonymous => News(w, m) = {}
  BY <1>2 DEF Explained
<1>5. ASSUME NEW m \in known \ anonymous
      PROVE  \E j \in DOMAIN w : /\ News(w, m) = {j}
                                 /\ \A i \in DOMAIN w : w[i].tag \in FrameTags /\ w[i].method = m => j <= i + 1
  <2>1. PICK j \in DOMAIN s :
            /\ News(s, m) = {j}
            /\ \A i \in DOMAIN s : s[i].tag \in FrameTags /\ s[i].method = m => j <= i + 1
    BY DEF Explained
  <2>2. j \in DOMAIN w /\ News(w, m) = {j}
    BY <1>1, <1>2, <2>1
  <2>3. ASSUME NEW i \in DOMAIN w, w[i].tag \in FrameTags /\ w[i].method = m PROVE j <= i + 1
    <3>1. CASE i \in DOMAIN s
      BY <1>1, <2>1, <2>3, <3>1
    <3>2. CASE i = e
      BY <1>1, <2>1, <3>2
    <3> QED BY <1>1, <3>1, <3>2
  <2> QED BY <2>2, <2>3
<1> QED BY <1>3, <1>4, <1>5 DEF Explained, w

\* A frame of a method that was not known, and its announcement.
LEMMA ExplainedNew ==
    ASSUME NEW s \in Seq(Records), NEW known \in SUBSET Methods, NEW anonymous \in SUBSET known,
           Explained(s, known, anonymous),
           NEW m \in Methods, m \notin known,
           NEW f \in Records, f.tag # "NEW_METHOD", f.tag \in FrameTags, f.method = m
    PROVE  Explained(Append(Append(s, f), NewMethod(m)), known \cup {m}, anonymous)
<1> DEFINE v == Append(s, f)
           w == Append(v, NewMethod(m))
           e == Len(s) + 1
<1>1. /\ v \in Seq(Records) /\ Len(v) = e /\ DOMAIN v = DOMAIN s \cup {e} /\ v[e] = f /\ e \notin DOMAIN s
      /\ \A i \in DOMAIN s : v[i] = s[i]
      /\ e \in Nat /\ \A i \in DOMAIN s : i \in Nat /\ i < e
  BY Appended
<1> HIDE DEF v, e
<1>2. NewMethod(m) \in Records
  BY DEF Records
<1>3. /\ DOMAIN w = DOMAIN v \cup {e + 1} /\ w[e + 1] = NewMethod(m) /\ e + 1 \notin DOMAIN v
      /\ \A i \in DOMAIN v : w[i] = v[i]
  BY <1>1, <1>2, Appended
<1> HIDE DEF w
<1>4. NewMethod(m).tag \notin FrameTags /\ \A x : f # NewMethod(x)
  BY DEF NewMethod, FrameTags
<1>5. \A x : NewMethod(x) = NewMethod(m) => x = m
  <2>1. \A x : NewMethod(x).method = x
    BY DEF NewMethod
  <2> QED BY <2>1
<1>6. ASSUME NEW x, x # m PROVE News(w, x) = News(s, x)
  BY <1>1, <1>3, <1>4, <1>5, <1>6 DEF News
<1>7. News(w, m) = {e + 1}
  <2>1. News(s, m) = {}
    BY DEF Explained
  <2> QED BY <1>1, <1>3, <1>4, <2>1 DEF News
<1>8. \A i \in DOMAIN w : w[i].tag \in FrameTags => w[i].method \in known \cup {m}
  BY <1>1, <1>3, <1>4 DEF Explained
<1>9. \A x \in Methods : x \notin (known \cup {m}) \ anonymous => News(w, x) = {}
  <2>1. m \notin anonymous
    OBVIOUS
  <2> QED BY <1>6, <2>1 DEF Explained
<1>10. ASSUME NEW x \in (known \cup {m}) \ anonymous
       PROVE  \E j \in DOMAIN w : /\ News(w, x) = {j}
                                  /\ \A i \in DOMAIN w : w[i].tag \in FrameTags /\ w[i].method = x => j <= i + 1
  <2>1. CASE x = m
    <3>1. ASSUME NEW i \in DOMAIN w, w[i].tag \in FrameTags, w[i].method = m PROVE i = e
      BY <1>1, <1>3, <1>4, <3>1 DEF Explained
    <3>2. e + 1 \in DOMAIN w /\ \A i \in DOMAIN w : w[i].tag \in FrameTags /\ w[i].method = m => e + 1 <= i + 1
      BY <1>1, <1>3, <3>1
    <3> QED BY <1>7, <2>1, <3>2
  <2>2. CASE x # m
    <3>1. PICK j \in DOMAIN s :
              /\ News(s, x) = {j}
              /\ \A i \in DOMAIN s : s[i].tag \in FrameTags /\ s[i].method = x => j <= i + 1
      BY <2>2 DEF Explained
    <3>2. j \in DOMAIN w /\ News(w, x) = {j}
      BY <1>1, <1>3, <1>6, <2>2, <3>1
    <3>3. ASSUME NEW i \in DOMAIN w, w[i].tag \in FrameTags /\ w[i].method = x PROVE j <= i + 1
      <4>1. i \in DOMAIN s
        BY <1>1, <1>3, <1>4, <2>2, <3>3
      <4> QED BY <1>1, <1>3, <3>1, <3>3, <4>1
    <3> QED BY <3>2, <3>3
  <2> QED BY <2>1, <2>2
<1> QED BY <1>8, <1>9, <1>10 DEF Explained, w, v

\* The records are the same set after a step: the tables of methods stay.
LEMMA RecordsKept == ASSUME table' = table PROVE Records' = Records
  BY DEF Records, Frames, recordFrame, getLineNo

\* Every step keeps the file explained.
LEMMA LogStep == LogInv /\ [LogNext]_logVars => LogInv'
<1> SUFFICES ASSUME LogInv, [LogNext]_logVars PROVE LogInv'
  OBVIOUS
<1>0. Records' = Records
  BY RecordsKept DEF LogNext, logVars, recordTraceStart, RecordFrame, NewLog
<1>1. ASSUME NEW n \in NumFrames, recordTraceStart(n) PROVE LogInv'
  <2>1. output' = Append(output, TraceStart(n)) /\ UNCHANGED <<knownMethods, nameless>>
    BY <1>1 DEF recordTraceStart
  <2>2. TraceStart(n) \in Records /\ TraceStart(n).tag # "NEW_METHOD" /\ TraceStart(n).tag \notin FrameTags
    BY DEF Records, TraceStart, FrameTags
  <2>3. Explained(output', knownMethods, nameless)
    BY <2>1, <2>2, ExplainedMore DEF LogInv
  <2>4. output' \in Seq(Records)
    BY <2>1, <2>2, Appended DEF LogInv
  <2> QED BY <1>0, <2>1, <2>3, <2>4 DEF LogInv
<1>2. ASSUME NEW bci \in Bcis, NEW m \in Methods, RecordFrame(bci, m) PROVE LogInv'
  <2>1. PICK f \in recordFrame(bci, m) : inspectMethod(m, f)
    BY <1>2 DEF RecordFrame
  <2>2. f \in Records /\ f.tag \in FrameTags /\ f.method = m /\ f.tag # "NEW_METHOD"
    BY FrameRecord
  <2>3. CASE m \in knownMethods
    <3>1. output' = Append(output, f) /\ UNCHANGED <<knownMethods, nameless>>
      BY <2>1, <2>3 DEF inspectMethod
    <3>2. Explained(output', knownMethods, nameless)
      BY <2>2, <2>3, <3>1, ExplainedMore DEF LogInv
    <3>3. output' \in Seq(Records)
      BY <2>2, <3>1, Appended DEF LogInv
    <3> QED BY <1>0, <3>1, <3>2, <3>3 DEF LogInv
  <2>4. CASE m \notin knownMethods
    <3>1. PICK news \in {<<NewMethod(m)>>, <<>>} :
              /\ output' = Append(output, f) \o news
              /\ nameless' = IF news = <<>> THEN nameless \cup {m} ELSE nameless
      BY <2>1, <2>4 DEF inspectMethod, lookupFrameInformation
    <3>2. knownMethods' = knownMethods \cup {m}
      BY <2>1, <2>4 DEF inspectMethod
    <3>3. Append(output, f) \in Seq(Records) /\ NewMethod(m) \in Records
      BY <2>2, Appended DEF LogInv, Records
    <3>4. CASE news = <<>>
      <4>1. output' = Append(output, f) /\ nameless' = nameless \cup {m}
        BY <3>1, <3>3, <3>4, ConcatEmptySeq
      <4>2. Explained(output, knownMethods', nameless')
        <5>1. knownMethods' \ nameless' = knownMethods \ nameless
          BY <2>4, <3>2, <4>1
        <5> QED BY <3>2, <5>1 DEF LogInv, Explained
      <4>3. Explained(output', knownMethods', nameless')
        <5>1. m \in knownMethods'
          BY <3>2
        <5> QED BY <2>2, <4>1, <4>2, <5>1, ExplainedMore DEF LogInv
      <4> QED BY <1>0, <3>2, <3>3, <4>1, <4>3 DEF LogInv
    <3>5. CASE news = <<NewMethod(m)>>
      <4>1. nameless' = nameless
        BY <3>1, <3>5
      <4>2. output' = Append(Append(output, f), NewMethod(m))
        <5>1. \A u \in Seq(Records) : u \o <<NewMethod(m)>> = Append(u, NewMethod(m))
          BY <3>3
        <5> QED BY <3>1, <3>3, <3>5, <5>1
      <4>3. output' \in Seq(Records)
        BY <3>3, <4>2, Appended
      <4>4. Explained(output', knownMethods', nameless')
        BY <2>2, <2>4, <3>2, <4>1, <4>2, ExplainedNew DEF LogInv
      <4> QED BY <1>0, <3>2, <4>1, <4>3, <4>4 DEF LogInv
    <3> QED BY <3>1, <3>4, <3>5
  <2> QED BY <2>3, <2>4
<1>3. CASE NewLog
  <2>1. output' = <<>> /\ knownMethods' = {} /\ nameless' = {}
    BY <1>3 DEF NewLog
  <2>2. Explained(output', knownMethods', nameless')
    BY <2>1 DEF Explained, News
  <2>3. output' \in Seq(Records)
    BY <2>1, EmptySeq
  <2> QED BY <1>0, <2>1, <2>2, <2>3 DEF LogInv
<1>4. CASE UNCHANGED logVars
  BY <1>0, <1>4 DEF logVars, LogInv
<1> QED BY <1>1, <1>2, <1>3, <1>4 DEF LogNext

\* The first log file is empty.
LEMMA LogStart == LogInit => LogInv
<1> SUFFICES ASSUME LogInit PROVE LogInv
  OBVIOUS
<1>1. output = <<>> /\ knownMethods = {} /\ nameless = {}
  BY DEF LogInit
<1>2. Explained(output, knownMethods, nameless)
  BY <1>1 DEF Explained, News
<1>3. output \in Seq(Records)
  BY <1>1, EmptySeq
<1> QED BY <1>1, <1>2, <1>3 DEF LogInv

\* Every log file announces each method that its frames name once, no later
\* than right after the first of them, unless its names could not be looked up.
THEOREM MethodsAnnouncedAlways == LogSpec => []MethodsAnnounced
<1>1. ASSUME LogInv PROVE MethodsAnnounced
  <2> SUFFICES ASSUME NEW i \in DOMAIN output, output[i].tag \in FrameTags, NEW m, m = output[i].method
               PROVE  IF m \in nameless THEN News(output, m) = {}
                      ELSE Cardinality(News(output, m)) = 1 /\ Max(News(output, m)) <= i + 1
    BY DEF MethodsAnnounced, News
  <2>1. m \in knownMethods /\ m \in Methods
    BY <1>1 DEF LogInv, Explained
  <2>2. CASE m \in nameless
    BY <1>1, <2>1, <2>2 DEF LogInv, Explained
  <2>3. CASE m \notin nameless
    <3>1. PICK j \in DOMAIN output : News(output, m) = {j} /\ j <= i + 1
      BY <1>1, <2>1, <2>3 DEF LogInv, Explained
    <3>2. j \in Int
      BY <1>1 DEF LogInv
    <3>3. Max({j}) = j
      BY <3>2 DEF Max
    <3>4. Cardinality({j}) = 1
      BY FS_Singleton
    <3> QED BY <2>3, <3>1, <3>3, <3>4
  <2> QED BY <2>2, <2>3
<1> QED BY <1>1, LogStart, LogStep, PTL DEF LogSpec

-----------------------------------------------------------------------------
(* LogWriter: line numbers *)

\* Line number tables as bci2line sees them.
Entries == [start : Int, line : Int]

\* The states of the binary search, and the result of one given those of the
\* states that it leads to.
SearchStates(n) == {p \in (0..n) \X (0..n) : p[2] < n /\ p[2] + 2 * p[1] <= n}
Searched(bci, t, g, p) ==
    IF p[1] = 0 THEN p[2]
    ELSE IF bci = t[p[2] + p[1] + 1].start THEN p[2] + p[1]
    ELSE g[<<p[1] \div 2, IF bci > t[p[2] + p[1] + 1].start THEN p[2] + p[1] ELSE p[2]>>]

\* The binary search goes from one of its states to another, with a smaller half.
LEMMA SearchMoves ==
    ASSUME NEW n \in Nat, NEW p \in SearchStates(n), p[1] # 0
    PROVE  /\ p[2] + p[1] \in 0..(n - 1)
           /\ p[1] \div 2 < p[1]
           /\ <<p[1] \div 2, p[2] + p[1]>> \in SearchStates(n)
           /\ <<p[1] \div 2, p[2]>> \in SearchStates(n)
<1>1. /\ p[1] \in 1..n /\ p[2] \in 0..n /\ p[2] < n /\ p[2] + 2 * p[1] <= n
  BY DEF SearchStates
<1>2. /\ p[1] \div 2 \in 0..n /\ 2 * (p[1] \div 2) <= p[1] /\ p[1] \div 2 < p[1]
  BY <1>1
<1>3. /\ p[2] + p[1] \in 0..n /\ p[2] + p[1] < n
      /\ p[2] + p[1] + 2 * (p[1] \div 2) <= n /\ p[2] + 2 * (p[1] \div 2) <= n
  BY <1>1, <1>2
<1> QED BY <1>1, <1>2, <1>3 DEF SearchStates

\* The binary search ends in every state.
LEMMA SearchDefined ==
    ASSUME NEW t, Len(t) \in Nat, NEW bci
    PROVE  \E g : g = [p \in SearchStates(Len(t)) |-> Searched(bci, t, g, p)]
<1> DEFINE n == Len(t)
           S == SearchStates(n)
           start(p) == t[p[2] + p[1] + 1].start
           Stop == {p \in S : p[1] = 0 \/ bci = start(p)}
           base == [p \in S |-> IF p[1] = 0 THEN p[2] ELSE p[2] + p[1]]
           step == [p \in S |-> <<p[1] \div 2, IF bci > start(p) THEN p[2] + p[1] ELSE p[2]>>]
           m == [p \in S |-> p[1]]
<1>1. m \in [S -> 0..n]
  BY DEF SearchStates
<1>2. ASSUME NEW p \in S \ Stop PROVE step[p] \in S /\ m[step[p]] < m[p]
  <2>1. p[1] # 0
    OBVIOUS
  <2>2. CASE bci > start(p)
    BY <2>1, <2>2, SearchMoves
  <2>3. CASE ~(bci > start(p))
    BY <2>1, <2>3, SearchMoves
  <2> QED BY <2>2, <2>3
<1>3. PICK g : g = [p \in S |-> IF p \in Stop THEN base[p] ELSE g[step[p]]]
  <2>1. Descends(S, Stop, step, m, n)
    <3> HIDE DEF S, Stop, step, m
    <3> QED BY <1>1, <1>2 DEF Descends
  <2> HIDE DEF n, S, Stop, base, step, m
  <2> QED BY <2>1, LoopDefined DEF Results
<1>4. ASSUME NEW p \in S PROVE (IF p \in Stop THEN base[p] ELSE g[step[p]]) = Searched(bci, t, g, p)
  BY DEF Searched
<1>5. [p \in S |-> IF p \in Stop THEN base[p] ELSE g[step[p]]] = [p \in S |-> Searched(bci, t, g, p)]
  <2> HIDE DEF S, Stop, base, step
  <2> QED BY <1>4
<1> QED BY <1>3, <1>5

\* The approximated index is one of the table's, and nothing before it is
\* after bci.
LEMMA ApproximateBefore ==
    ASSUME NEW t \in Seq(Entries), t # <<>>, NEW bci \in Int
    PROVE  /\ approximate(bci, t) \in 0..(Len(t) - 1)
           /\ approximate(bci, t) = 0 \/ t[approximate(bci, t) + 1].start <= bci
<1> DEFINE n == Len(t)
           S == SearchStates(n)
           m == [p \in S |-> p[1]]
           Early(i) == i \in 0..(n - 1) /\ (i = 0 \/ t[i + 1].start <= bci)
<1>1. n \in Nat \ {0} /\ \A i \in 0..(n - 1) : t[i + 1].start \in Int
  <2>1. \A i \in 1..n : t[i] \in Entries
    OBVIOUS
  <2>2. \A i \in 0..(n - 1) : i + 1 \in 1..n
    OBVIOUS
  <2> QED BY <2>1, <2>2, EmptySeq DEF Entries
<1>2. PICK g : g = [p \in S |-> Searched(bci, t, g, p)] /\ approximate(bci, t) = g[<<n \div 2, 0>>]
  <2>1. \E f : f = [p \in S |-> Searched(bci, t, f, p)]
    BY <1>1, SearchDefined
  <2>2. approximate(bci, t) = (CHOOSE f : f = [p \in S |-> Searched(bci, t, f, p)])[<<n \div 2, 0>>]
    BY DEF approximate, SearchStates, Searched
  <2> HIDE DEF S
  <2> QED BY <2>1, <2>2
<1> HIDE DEF n
<1> DEFINE T == {p \in S : Early(p[2]) => Early(g[p])}
<1>3. ASSUME NEW p \in S, \A q \in S : m[q] < m[p] => q \in T PROVE p \in T
  <2> SUFFICES ASSUME Early(p[2]) PROVE Early(g[p])
    OBVIOUS
  <2>1. g[p] = Searched(bci, t, g, p)
    BY <1>2
  <2>2. CASE p[1] = 0
    BY <2>1, <2>2 DEF Searched
  <2>3. CASE p[1] # 0
    <3> DEFINE i == p[2] + p[1]
               start == t[i + 1].start
               q == <<p[1] \div 2, IF bci > start THEN i ELSE p[2]>>
    <3>1. i \in 0..(n - 1) /\ start \in Int
      BY <1>1, <2>3, SearchMoves
    <3>2. CASE bci = start
      <4>1. g[p] = i
        BY <2>1, <2>3, <3>2 DEF Searched
      <4> QED BY <3>1, <3>2, <4>1
    <3>3. CASE bci # start
      <4>1. g[p] = g[q]
        BY <2>1, <2>3, <3>3 DEF Searched
      <4>2. q \in S /\ m[q] < m[p]
        BY <1>1, <2>3, SearchMoves
      <4>3. Early(q[2])
        BY <3>1
      <4>4. q \in T
        BY <1>3, <4>2
      <4> QED BY <4>1, <4>3, <4>4
    <3> QED BY <3>2, <3>3
  <2> QED BY <2>2, <2>3
<1>4. m \in [S -> Nat]
  BY DEF SearchStates
<1>5. S \subseteq T
  <2> HIDE DEF S, m, T
  <2> QED BY <1>3, <1>4, MeasureInduction
<1>6. <<n \div 2, 0>> \in S
  BY <1>1 DEF SearchStates
<1>7. Early(g[<<n \div 2, 0>>])
  BY <1>1, <1>5, <1>6
<1> QED BY <1>2, <1>7 DEF n

\* The result of the scan at i given that at i + 1.
Scanned(bci, t, start_index, g, i) ==
    IF i < Len(t) /\ bci = t[i + 1].start THEN t[i + 1].line
    ELSE IF i < Len(t) /\ bci > t[i + 1].start THEN g[i + 1]
    ELSE IF i = start_index THEN -102 ELSE t[i].line

\* The scan ends.
LEMMA ScanDefined ==
    ASSUME NEW t, Len(t) \in Nat, NEW bci, NEW start_index
    PROVE  \E g : g = [i \in 0..Len(t) |-> Scanned(bci, t, start_index, g, i)]
<1> DEFINE n == Len(t)
           S == 0..n
           Stop == {i \in S : ~(i < n /\ bci # t[i + 1].start /\ bci > t[i + 1].start)}
           base == [i \in S |-> IF i < n /\ bci = t[i + 1].start THEN t[i + 1].line
                                ELSE IF i = start_index THEN -102 ELSE t[i].line]
           step == [i \in S |-> i + 1]
           m == [i \in S |-> n - i]
<1>1. m \in [S -> 0..n] /\ \A i \in S \ Stop : step[i] \in S /\ m[step[i]] < m[i]
  OBVIOUS
<1>2. PICK g : g = [i \in S |-> IF i \in Stop THEN base[i] ELSE g[step[i]]]
  <2>1. Descends(S, Stop, step, m, n)
    <3> HIDE DEF S, Stop, step, m
    <3> QED BY <1>1 DEF Descends
  <2> HIDE DEF n, S, Stop, base, step, m
  <2> QED BY <2>1, LoopDefined DEF Results
<1>3. ASSUME NEW i \in S PROVE (IF i \in Stop THEN base[i] ELSE g[step[i]]) = Scanned(bci, t, start_index, g, i)
  BY DEF Scanned
<1>4. [i \in S |-> IF i \in Stop THEN base[i] ELSE g[step[i]]] = [i \in S |-> Scanned(bci, t, start_index, g, i)]
  <2> HIDE DEF S, Stop, base, step
  <2> QED BY <1>3
<1> QED BY <1>2, <1>4

\* The scan from an index before which nothing is after bci finds a nearest
\* entry.
LEMMA ScanRight ==
    ASSUME NEW t \in Seq(Entries), t # <<>>, Sorted(t), NEW bci \in Int,
           NEW s \in 0..(Len(t) - 1), s = 0 \/ t[s + 1].start <= bci
    PROVE  scanFrom(bci, t, s) \in Reference(bci, t)
<1> DEFINE n == Len(t)
           S == 0..n
           m == [i \in S |-> n - i]
<1>1. n \in Nat \ {0} /\ DOMAIN t = 1..n /\ \A i \in 1..n : t[i].start \in Int
  <2>1. \A i \in 1..n : t[i] \in Entries
    OBVIOUS
  <2> QED BY <2>1, EmptySeq DEF Entries
<1>2. PICK g : g = [i \in S |-> Scanned(bci, t, s, g, i)] /\ scanFrom(bci, t, s) = g[s]
  <2>1. \E f : f = [i \in S |-> Scanned(bci, t, s, f, i)]
    BY <1>1, ScanDefined
  <2>2. scanFrom(bci, t, s) = (CHOOSE f : f = [i \in S |-> Scanned(bci, t, s, f, i)])[s]
    BY DEF scanFrom, Scanned
  <2> HIDE DEF S
  <2> QED BY <2>1, <2>2
<1>3. ASSUME NEW i \in Nearest(bci, t) PROVE t[i].line \in Reference(bci, t)
  BY <1>3 DEF Reference, Nearest
<1>4. \A i, j \in 1..n : i <= j => t[i].start <= t[j].start
  BY <1>1 DEF Sorted
<1> DEFINE T == {i \in S : i >= s /\ (i > s => t[i].start < bci) => g[i] \in Reference(bci, t)}
<1>5. ASSUME NEW i \in S, \A j \in S : m[j] < m[i] => j \in T PROVE i \in T
  <2> SUFFICES ASSUME i >= s, i > s => t[i].start < bci PROVE g[i] \in Reference(bci, t)
    OBVIOUS
  <2>1. g[i] = Scanned(bci, t, s, g, i)
    BY <1>2
  <2>2. CASE i < n /\ bci = t[i + 1].start
    <3>1. g[i] = t[i + 1].line
      BY <2>1, <2>2 DEF Scanned
    <3>2. i + 1 \in Nearest(bci, t)
      BY <1>1, <2>2 DEF Nearest, Covering
    <3> QED BY <1>3, <3>1, <3>2
  <2>3. CASE i < n /\ bci # t[i + 1].start /\ bci > t[i + 1].start
    <3>1. g[i] = g[i + 1]
      BY <2>1, <2>3 DEF Scanned
    <3>2. i + 1 \in S /\ m[i + 1] < m[i]
      BY <1>1, <2>3
    <3>3. i + 1 \in T
      BY <1>5, <3>2
    <3>4. i + 1 >= s /\ t[i + 1].start < bci
      BY <1>1, <2>3
    <3> QED BY <3>1, <3>3, <3>4
  <2>4. CASE ~(i < n /\ bci = t[i + 1].start) /\ ~(i < n /\ bci > t[i + 1].start)
    <3>1. g[i] = IF i = s THEN -102 ELSE t[i].line
      BY <2>1, <2>4 DEF Scanned
    <3>2. i < n => bci < t[i + 1].start
      BY <1>1, <2>4
    <3>3. CASE i = s
      <4>1. s = 0 /\ bci < t[1].start
        BY <1>1, <3>2, <3>3
      <4>2. Covering(bci, t) = {}
        BY <1>1, <1>4, <4>1 DEF Covering
      <4> QED BY <3>1, <3>3, <4>2 DEF Reference
    <3>4. CASE i # s
      <4>1. i \in 1..n /\ t[i].start < bci
        BY <1>1, <3>4
      <4>2. ASSUME NEW j \in Covering(bci, t) PROVE t[j].start <= t[i].start
        <5>1. j \in 1..n /\ t[j].start <= bci
          BY <1>1 DEF Covering
        <5>2. j <= i
          <6> SUFFICES ASSUME j > i PROVE FALSE
            BY <4>1, <5>1
          <6>1. i < n /\ i + 1 \in 1..n /\ i + 1 <= j
            BY <4>1, <5>1
          <6>2. t[i + 1].start <= t[j].start
            BY <1>4, <5>1, <6>1
          <6> QED BY <1>1, <3>2, <5>1, <6>1, <6>2
        <5> QED BY <1>4, <4>1, <5>1, <5>2
      <4>3. i \in Nearest(bci, t)
        BY <1>1, <4>1, <4>2 DEF Nearest, Covering
      <4> QED BY <1>3, <3>1, <3>4, <4>3
    <3> QED BY <3>3, <3>4
  <2> QED BY <2>2, <2>3, <2>4
<1>6. m \in [S -> Nat]
  BY <1>1
<1>7. S \subseteq T
  <2> HIDE DEF S, m, T
  <2> QED BY <1>5, <1>6, MeasureInduction
<1>8. s \in T
  BY <1>1, <1>7
<1> QED BY <1>2, <1>8

\* bci2line finds a nearest entry in every sorted table.
LEMMA LineRight ==
    ASSUME NEW t \in Seq(Entries), Sorted(t), NEW bci \in Int
    PROVE  bci2line(bci, t) \in Reference(bci, t)
<1>1. CASE t = <<>>
  BY <1>1 DEF bci2line, Reference
<1>2. CASE t # <<>>
  <2>1. Len(t) # 0
    BY <1>2, EmptySeq
  <2>2. scanFrom(bci, t, approximate(bci, t)) \in Reference(bci, t)
    BY <1>2, ApproximateBefore, ScanRight
  <2> QED BY <2>1, <2>2 DEF bci2line
<1> QED BY <1>1, <1>2

\* The line number tables are sorted.
LEMMA TablesSorted == ASSUME NEW t \in Tables PROVE t \in Seq(Entries) /\ Sorted(t)
<1>1. Sorted(t)
  BY DEF Tables
<1>2. PICK n \in 0..MaxEntries : t \in {[i \in 1..n |-> [start |-> f[i], line |-> i]] : f \in [1..n -> Starts]}
  BY DEF Tables
<1>3. PICK f \in [1..n -> Starts] : t = [i \in 1..n |-> [start |-> f[i], line |-> i]]
  BY <1>2
<1>4. \A i \in 1..n : f[i] \in Int
  <2>1. \A i \in 1..n : f[i] \in Starts
    OBVIOUS
  <2>2. Starts \subseteq Int
    BY LogAssumption
  <2> QED BY <2>1, <2>2
<1>5. t \in [1..n -> Entries]
  BY <1>3, <1>4 DEF Entries
<1>6. n \in Nat
  BY LogAssumption
<1> QED BY <1>1, <1>5, <1>6

\* Every line in every log file is one that the line number table gives for
\* the byte code index, or says that there is no table, however long the table
\* is and wherever the binary search in bci2line ended.
THEOREM LinesAlwaysRight == LogSpec => []LinesRight
<1> DEFINE Inv == LogInv /\ table \in Tables
<1>1. LogInit => Inv
  BY LogStart DEF LogInit
<1>2. Inv /\ [LogNext]_logVars => Inv'
  <2>1. [LogNext]_logVars => table' = table
    BY DEF LogNext, logVars, recordTraceStart, RecordFrame, NewLog
  <2>2. table' = table => Tables' = Tables
    OBVIOUS
  <2> QED BY <2>1, <2>2, LogStep
<1>3. ASSUME Inv PROVE LinesRight
  <2> SUFFICES ASSUME NEW r \in Records, r.tag = "FRAME_FULL"
               PROVE  r.line \in {ERR_NO_LINE_INFO} \cup Reference(r.bci, table)
    BY <1>3 DEF LinesRight, LogInv
  <2>1. r \in Frames
    BY DEF Records, TraceStart, NewMethod
  <2>2. PICK bci \in Bcis, m \in Methods : r \in recordFrame(bci, m)
    BY <2>1 DEF Frames
  <2>3. r.bci = bci /\ r.line \in getLineNo(bci)
    BY <2>2 DEF recordFrame
  <2>4. bci2line(bci, table) \in Reference(bci, table)
    BY <1>3, TablesSorted, LineRight, LogAssumption
  <2> QED BY <2>3, <2>4 DEF getLineNo
<1> QED BY <1>1, <1>2, <1>3, PTL DEF LogSpec
=============================================================================
