--------------------------- MODULE DebugInfoProofs ---------------------------
(***************************************************************************)
(* The encoding of debug offsets is exact on the range of its 4-byte form, *)
(* the buffer never overflows, and a lookup finds the mark it should.      *)
(***************************************************************************)
EXTENDS DebugInfo, SequenceTheorems, TLAPS

\* The values whose bits all fit one of the first three forms.
Exact == {data \in Int : -268435456 <= data /\ data <= FourByteHigh}

\* The sign bit and the bits above it are restored from the value read.
LEMMA SignedBack ==
    ASSUME NEW data \in Int, NEW size \in Nat \ {0}, -size <= data, data < size
    PROVE  Signed(2 * (data % size) + Sign(data), size) = data
  <1>1. CASE data >= 0
    <2>1. data % size = data
      BY <1>1
    <2> QED
      BY <1>1, <2>1 DEF Signed, Sign
  <1>2. CASE data < 0
    <2>1. data % size = data + size
      BY <1>2
    <2> QED
      BY <1>2, <2>1 DEF Signed, Sign
  <1> QED
    BY <1>1, <1>2

\* The two parts of a number cut for the two-byte form make it up again.
LEMMA CutTwo ==
    ASSUME NEW data \in Int
    PROVE  data % 8192 = 128 * ((data \div 128) % 64) + (data % 128)
  BY SMTT(30)

\* The same for the four parts of a number cut for the four-byte form.
LEMMA CutFour ==
    ASSUME NEW data \in Int
    PROVE  data % 268435456 = 8388608 * ((data \div 8388608) % 32)
                              + 32768 * ((data \div 32768) % 256)
                              + 128 * ((data \div 128) % 256) + (data % 128)
  <1>1. /\ data \div 32768 = (data \div 128) \div 256
        /\ data \div 8388608 = (data \div 32768) \div 256
    BY SMTT(30)
  <1>2. /\ data \div 128 = 256 * (data \div 32768) + ((data \div 128) % 256)
        /\ data \div 32768 = 256 * (data \div 8388608) + ((data \div 32768) % 256)
        /\ data = 128 * (data \div 128) + (data % 128)
    BY <1>1, SMTT(30)
  <1>3. data \div 8388608 = 32 * (data \div 268435456) + ((data \div 8388608) % 32)
    BY SMTT(30)
  <1>4. data = 268435456 * (data \div 268435456) + (data % 268435456)
    BY SMTT(30)
  <1> QED
    BY <1>2, <1>3, <1>4, SMTT(30)

\* UncompressInt undoes CompressInt for every value of the 1-, 2- and 4-byte
\* forms whose upper bits the forms keep.
THEOREM RoundTrip ==
    ASSUME NEW data \in Exact
    PROVE  UncompressInt(CompressInt(data)) = data
  <1>1. CASE -64 <= data /\ data < 64
    <2>1. CompressInt(data)[1] = LowBits(data, 64)
      BY <1>1, SMTT(30) DEF CompressInt
    <2>2. LowBits(data, 64) < 128
      BY <1>1, SMTT(30) DEF LowBits, Sign, Exact
    <2> QED
      BY <1>1, <2>1, <2>2, SignedBack, SMTT(30) DEF UncompressInt, LowBits, FormLength, Exact
  <1>2. CASE ~(-64 <= data /\ data < 64) /\ -8192 <= data /\ data < 8192
    <2> DEFINE top == (data \div 128) % 64
    <2>1. CompressInt(data) = <<128 + top, LowBits(data, 128)>>
      BY <1>2, SMTT(30) DEF CompressInt
    <2>2. top \in 0..63 /\ LowBits(data, 128) \in Nat
      BY SMTT(30) DEF LowBits, Sign, Exact
    <2>3. top * 256 + LowBits(data, 128) = 2 * (data % 8192) + Sign(data)
      BY CutTwo, SMTT(30) DEF LowBits, Sign, Exact
    <2> HIDE DEF top
    <2>4. /\ CompressInt(data)[1] = 128 + top
          /\ CompressInt(data)[2] = LowBits(data, 128)
          /\ FormLength(128 + top) = 2
          /\ (128 + top) % 64 = top
      BY <2>1, <2>2, SMTT(30) DEF FormLength
    <2>5. UncompressInt(CompressInt(data)) = Signed(top * 256 + LowBits(data, 128), 8192)
      BY <2>4, SMTT(30) DEF UncompressInt
    <2> QED
      BY <1>2, <2>3, <2>5, SignedBack, SMTT(30) DEF Exact
  <1>3. CASE ~(-8192 <= data /\ data < 8192)
    <2> DEFINE top == (data \div 8388608) % 32
               low == Bits(data, 32768) * 65536 + Bits(data, 128) * 256 + LowBits(data, 128)
    <2>1. CompressInt(data) = <<192 + top, Bits(data, 32768), Bits(data, 128), LowBits(data, 128)>>
      BY <1>3, SMTT(30) DEF CompressInt, Exact, FourByteLow
    <2>2. top \in 0..31 /\ low \in Nat
      BY SMTT(30) DEF LowBits, Sign, Bits, Exact
    <2>3. top * 16777216 + low = 2 * (data % 268435456) + Sign(data)
      BY CutFour, SMTT(30) DEF LowBits, Sign, Bits, Exact
    <2>4. top * 16777216 + low = top * 16777216 + Bits(data, 32768) * 65536
                                  + Bits(data, 128) * 256 + LowBits(data, 128)
      BY <2>2, SMTT(30) DEF LowBits, Sign, Bits, Exact
    <2> HIDE DEF top, low
    <2>5. /\ CompressInt(data)[1] = 192 + top
          /\ CompressInt(data)[2] = Bits(data, 32768)
          /\ CompressInt(data)[3] = Bits(data, 128)
          /\ CompressInt(data)[4] = LowBits(data, 128)
          /\ FormLength(192 + top) = 4
          /\ (192 + top) % 32 = top
      BY <2>1, <2>2, SMTT(30) DEF FormLength
    <2>6. UncompressInt(CompressInt(data)) = Signed(top * 16777216 + low, 268435456)
      BY <2>4, <2>5, SMTT(30) DEF UncompressInt
    <2> DEFINE size == 268435456
    <2>7. size \in Nat \ {0} /\ data \in Int /\ -size <= data /\ data < size
      BY SMTT(30) DEF Exact, FourByteHigh
    <2> HIDE DEF size
    <2>8. Signed(2 * (data % size) + Sign(data), size) = data
      BY <2>7, SignedBack
    <2> QED
      BY <2>3, <2>6, <2>8, SMTT(30) DEF size
  <1> QED
    BY <1>1, <1>2, <1>3, SMTT(30) DEF Exact

-----------------------------------------------------------------------------
\* No form is longer than five bytes, and the two end marks are one byte each.
LEMMA FormLengths ==
    /\ \A data \in Int : CompressInt(data) \in Seq(Int) /\ Len(CompressInt(data)) <= 5
    /\ CompressInt(-1) \in Seq(Int) /\ Len(CompressInt(-1)) = 1
    /\ CompressInt(-2) \in Seq(Int) /\ Len(CompressInt(-2)) = 1
  <1>1. ASSUME NEW data \in Int
        PROVE  CompressInt(data) \in Seq(Int) /\ Len(CompressInt(data)) <= 5
    <2>1. /\ \A w \in {64, 128} : LowBits(data, w) \in Int
          /\ \A w \in {128, 32768, 8388608} : Bits(data, w) \in Int
          /\ 128 + ((data \div 128) % 64) \in Int
          /\ 192 + ((data \div 8388608) % 32) \in Int
          /\ 224 + Sign(data) \in Int
      BY SMTT(30) DEF LowBits, Bits, Sign
    <2> QED
      BY <2>1, SMTT(30) DEF CompressInt
  <1> QED
    BY <1>1, SMTT(30) DEF CompressInt

\* Appending bytes to bytes.
LEMMA Appended ==
    ASSUME NEW s \in Seq(Int), NEW t \in Seq(Int)
    PROVE  s \o t \in Seq(Int) /\ Len(s \o t) = Len(s) + Len(t)
  OBVIOUS

\* The inductive invariant: BufferFits with the types it needs.
BufferInv ==
    /\ debugData \in Seq(Int)
    /\ debugList \in Seq(Seq(Int))
    /\ native \in Nat
    /\ marks \in Seq(Offset \X Nat)
    /\ BufferFits

\* A pair and the end of the block fit in what WriteCacheDebug left free.
LEMMA WriteFits ==
    ASSUME BufferInv, NEW offset \in Int, NEW nativeOffset \in Int,
           WriteCacheDebug(offset, nativeOffset)
    PROVE  debugData' \in Seq(Int) /\ debugList' \in Seq(Seq(Int)) /\ BufferFits'
  <1> DEFINE data == debugData \o CompressInt(offset) \o CompressInt(nativeOffset)
  <1>1. /\ data \in Seq(Int)
        /\ Len(data) <= Len(debugData) + 10
    BY FormLengths DEF BufferInv
  <1>2. Len(data) + 1 <= BufSize
    BY <1>1, DebugAssumption DEF BufferInv, BufferFits
  <1>3. /\ data \o CompressInt(-2) \in Seq(Int)
        /\ Len(data \o CompressInt(-2)) = Len(data) + 1
    <2> HIDE DEF data
    <2>1. CompressInt(-2) \in Seq(Int) /\ Len(CompressInt(-2)) = 1
      BY FormLengths
    <2> QED
      BY <1>1, <2>1, Appended
  <1>4. CASE Len(data) + 5 * 2 + 1 > BufSize
    <2>1. debugData' = <<>> /\ debugList' = Append(debugList, data \o CompressInt(-2))
      BY <1>4 DEF WriteCacheDebug
    <2> HIDE DEF data
    <2> QED
      BY <1>2, <1>3, <2>1, DebugAssumption DEF BufferInv, BufferFits
  <1>5. CASE ~(Len(data) + 5 * 2 + 1 > BufSize)
    <2>1. debugData' = data /\ debugList' = debugList
      BY <1>5 DEF WriteCacheDebug
    <2> HIDE DEF data
    <2> QED
      BY <1>1, <1>5, <2>1, DebugAssumption DEF BufferInv, BufferFits
  <1> QED
    BY <1>4, <1>5

\* The last pair and its end marks fit as well.
LEMMA EndFits ==
    ASSUME BufferInv, end_method
    PROVE  BufferInv'
  <1> DEFINE data == debugData \o CompressInt(-1) \o CompressInt(-1)
             last == IF Len(data) + 5 * 2 + 1 > BufSize THEN data \o CompressInt(-2) ELSE data
  <1>1. CompressInt(-1) \in Seq(Int) /\ Len(CompressInt(-1)) = 1
    BY FormLengths
  <1>2. data \in Seq(Int) /\ Len(data) = Len(debugData) + 2
    <2> DEFINE end == CompressInt(-1)
    <2> HIDE DEF end
    <2>1. end \in Seq(Int) /\ Len(end) = 1
      BY <1>1 DEF end
    <2>2. debugData \in Seq(Int) /\ Len(debugData) \in Nat
      BY DEF BufferInv
    <2>3. debugData \o end \in Seq(Int) /\ Len(debugData \o end) = Len(debugData) + 1
      BY <2>1, <2>2, Appended
    <2>4. /\ (debugData \o end) \o end \in Seq(Int)
          /\ Len((debugData \o end) \o end) = Len(debugData) + 2
      BY <2>1, <2>2, <2>3, Appended
    <2> QED
      BY <2>4 DEF end
  <1>3. last \in Seq(Int) /\ Len(last) <= Len(debugData) + 3
    <2> HIDE DEF data
    <2>1. CompressInt(-2) \in Seq(Int) /\ Len(CompressInt(-2)) = 1
      BY FormLengths
    <2>2. Len(debugData) \in Nat
      BY DEF BufferInv
    <2>3. data \o CompressInt(-2) \in Seq(Int) /\ Len(data \o CompressInt(-2)) = Len(data) + 1
      BY <1>2, <2>1, Appended
    <2> QED
      BY <1>2, <2>2, <2>3
  <1>4. /\ debugList' = IF debugList # <<>> \/ debugData # <<>>
                        THEN Append(debugList, last) ELSE debugList
        /\ debugData' = <<>> /\ native' = native /\ marks' = marks
    BY DEF end_method
  <1> HIDE DEF last, data
  <1> QED
    BY <1>3, <1>4, DebugAssumption DEF BufferInv, BufferFits

\* Every action of the cache keeps the buffer within its size.
LEMMA BufferStep ==
    ASSUME BufferInv, [Next]_vars
    PROVE  BufferInv'
  <1>1. ASSUME NEW offset \in Offset, NEW gap \in Gap, mark_bytecode(offset, gap)
        PROVE  BufferInv'
    <2>1. offset \in Int /\ native' \in Nat /\ marks' \in Seq(Offset \X Nat)
      BY <1>1, DebugAssumption DEF mark_bytecode, BufferInv
    <2>2. WriteCacheDebug(offset, native')
      BY <1>1 DEF mark_bytecode
    <2> QED
      BY <2>1, <2>2, WriteFits DEF BufferInv
  <1>2. CASE start_method
    BY <1>2, DebugAssumption DEF start_method, BufferInv, BufferFits
  <1>3. CASE end_method
    BY <1>3, EndFits
  <1>4. CASE (\E offset \in Lookups : get_bytecode(offset)) \/ GetNextDebug
    BY <1>4 DEF get_bytecode, GetNextDebug, BufferInv, BufferFits
  <1>5. CASE UNCHANGED vars
    BY <1>5 DEF vars, BufferInv, BufferFits
  <1> QED
    BY <1>1, <1>2, <1>3, <1>4, <1>5 DEF Next

\* So it is within its size always.
LEMMA BufferHolds == Spec => []BufferInv
  <1>1. Init => BufferInv
    BY DebugAssumption DEF Init, BufferInv, BufferFits
  <1> QED
    BY <1>1, BufferStep, PTL DEF Spec

\* Whatever pairs are marked, WriteCacheDebug stays inside debugData and every
\* flushed block is at most as long as its reader believes.
THEOREM BufferNeverOverflows == Spec => []BufferFits
  <1>1. BufferInv => BufferFits
    BY DEF BufferInv
  <1> QED
    BY <1>1, BufferHolds, PTL

\* Offsets below 2^28 are read back as they were marked, which is what the
\* violation for larger offsets leaves of the promise of UncompressInt.
THEOREM SmallOffsetsReadBack ==
    ASSUME Offset \subseteq Exact
    PROVE  Spec => []ReadsBackWhatWasMarked
  <1>1. BufferInv => ReadsBackWhatWasMarked
    <2> SUFFICES ASSUME BufferInv, NEW i \in 1..Len(marks)
                 PROVE  UncompressInt(CompressInt(marks[i][1])) = marks[i][1]
      BY DEF ReadsBackWhatWasMarked
    <2>1. marks[i][1] \in Exact
      BY DEF BufferInv
    <2> QED
      BY <2>1, RoundTrip
  <1> QED
    BY <1>1, BufferHolds, PTL

-----------------------------------------------------------------------------
(***************************************************************************)
(* What a lookup finds.  The blocks of the list, and the buffer before it  *)
(* is flushed, are the marks written one after the other; an end mark      *)
(* follows.  Codes says so without a recursive definition: there is one    *)
(* remainder of the bytes per mark.                                        *)
(***************************************************************************)
Pair(mark) == CompressInt(mark[1]) \o CompressInt(mark[2])

Put(mark, bytes) == Pair(mark) \o bytes

Codes(bytes, m, low, high, end) ==
    \E rest \in [low..high -> Seq(Int)] :
        /\ rest[low] = bytes /\ rest[high] = end
        /\ \A k \in low..(high - 1) : rest[k] = Put(m[k + 1], rest[k + 1])

\* A mark that can be read back and is not taken for the end of anything.
Mark == (Exact \ {-1, -2}) \X {n \in Exact : n >= 0}

\* A value can be read at the front of bytes, and the first value is as told.
Begins(bytes, value, after) ==
    /\ bytes \in Seq(Int) /\ bytes # <<>>
    /\ FormLength(bytes[1]) <= Len(bytes)
    /\ UncompressInt(bytes) = value
    /\ after \in Seq(Int) /\ Rest(bytes) = after

\* The first byte of a form tells its length.
LEMMA FormRight ==
    ASSUME NEW data \in Exact
    PROVE  /\ CompressInt(data) \in Seq(Int) /\ CompressInt(data) # <<>>
           /\ FormLength(CompressInt(data)[1]) = Len(CompressInt(data))
  <1>1. /\ LowBits(data, 64) \in Int /\ LowBits(data, 128) \in Int
        /\ Bits(data, 128) \in Int /\ Bits(data, 32768) \in Int
        /\ (data \div 128) % 64 \in 0..63 /\ (data \div 8388608) % 32 \in 0..31
    BY SMTT(30) DEF LowBits, Bits, Sign, Exact
  <1>2. -64 <= data /\ data < 64 => LowBits(data, 64) < 128
    BY SMTT(30) DEF LowBits, Sign, Exact
  <1>3. CASE -64 <= data /\ data < 64
    <2>1. CompressInt(data) = <<LowBits(data, 64)>>
      BY <1>3 DEF CompressInt
    <2> QED
      BY <1>1, <1>2, <1>3, <2>1 DEF FormLength
  <1>4. CASE ~(-64 <= data /\ data < 64) /\ -8192 <= data /\ data < 8192
    <2>1. CompressInt(data) = <<128 + ((data \div 128) % 64), LowBits(data, 128)>>
      BY <1>4 DEF CompressInt
    <2> QED
      BY <1>1, <2>1 DEF FormLength
  <1>5. CASE ~(-8192 <= data /\ data < 8192)
    <2>1. CompressInt(data) = <<192 + ((data \div 8388608) % 32), Bits(data, 32768),
                                Bits(data, 128), LowBits(data, 128)>>
      BY <1>5 DEF CompressInt, Exact, FourByteLow
    <2> QED
      BY <1>1, <2>1 DEF FormLength
  <1> QED
    BY <1>3, <1>4, <1>5 DEF Exact

\* UncompressInt looks at the bytes of the first form only, and the reader is
\* behind them afterwards.
LEMMA ReadFront ==
    ASSUME NEW data \in Exact, NEW more \in Seq(Int)
    PROVE  Begins(CompressInt(data) \o more, data, more)
  <1> DEFINE form == CompressInt(data)
             bytes == form \o more
  <1>1. form \in Seq(Int) /\ form # <<>> /\ FormLength(form[1]) = Len(form)
    BY FormRight
  <1>2. UncompressInt(form) = data
    BY RoundTrip
  <1> HIDE DEF form
  <1>3. /\ bytes \in Seq(Int) /\ Len(bytes) = Len(form) + Len(more)
        /\ \A i \in 1..Len(form) : bytes[i] = form[i]
        /\ \A i \in 1..Len(more) : bytes[Len(form) + i] = more[i]
        /\ Len(form) \in Nat \ {0} /\ Len(more) \in Nat
    BY <1>1
  <1> HIDE DEF bytes
  <1>4. bytes # <<>> /\ bytes[1] = form[1] /\ FormLength(bytes[1]) <= Len(bytes)
    BY <1>1, <1>3
  <1>5. UncompressInt(bytes) = UncompressInt(form)
    <2>1. Len(form) \in {1, 2, 4, 5}
      BY <1>1 DEF FormLength
    <2>2. \A i \in 1..Len(form) : bytes[i] = form[i]
      BY <1>3
    <2> DEFINE ch == form[1]
    <2>3. bytes[1] = ch /\ FormLength(ch) = Len(form)
      BY <1>1, <1>4
    <2>4. CASE Len(form) = 1
      BY <2>2, <2>3, <2>4 DEF UncompressInt
    <2>5. CASE Len(form) = 2
      BY <2>2, <2>3, <2>5 DEF UncompressInt
    <2>6. CASE Len(form) = 4
      BY <2>2, <2>3, <2>6 DEF UncompressInt
    <2>7. CASE Len(form) = 5
      BY <2>2, <2>3, <2>7 DEF UncompressInt
    <2> QED
      BY <2>1, <2>4, <2>5, <2>6, <2>7
  <1>6. Rest(bytes) = more
    <2>1. Rest(bytes) = SubSeq(bytes, Len(form) + 1, Len(bytes))
      BY <1>1, <1>4 DEF Rest
    <2> DEFINE first == Len(form) + 1
               last == Len(bytes)
               tail == SubSeq(bytes, first, last)
    <2>2. first \in Int /\ last \in Int /\ \A i \in first..last : bytes[i] \in Int
      BY <1>3
    <2>3. last - first + 1 = Len(more) /\ \A i \in 1..Len(more) : bytes[first + i - 1] = more[i]
      BY <1>3
    <2> HIDE DEF first, last
    <2>4. /\ tail \in Seq(Int)
          /\ Len(tail) = IF first <= last THEN last - first + 1 ELSE 0
          /\ \A i \in 1..(last - first + 1) : tail[i] = bytes[first + i - 1]
      <3>1. tail \in Seq(Int)
        BY <2>2, SubSeqProperties
      <3>2. Len(tail) = IF first <= last THEN last - first + 1 ELSE 0
        BY <2>2, SubSeqProperties
      <3>3. \A i \in 1..(last - first + 1) : tail[i] = bytes[first + i - 1]
        BY <2>2, SubSeqProperties
      <3> QED
        BY <3>1, <3>2, <3>3
    <2>5. Len(tail) = Len(more) /\ \A i \in 1..Len(tail) : tail[i] = more[i]
      BY <2>2, <2>3, <2>4, <1>3
    <2> HIDE DEF tail
    <2>6. tail = more
      BY <2>4, <2>5, SeqEqual
    <2> QED
      BY <2>1, <2>6 DEF tail, first, last
  <1> QED
    BY <1>2, <1>3, <1>4, <1>5, <1>6 DEF Begins, form, bytes

\* What WriteCacheDebug writes of a mark is a sequence of bytes.
LEMMA PairIsBytes ==
    ASSUME NEW mark \in Mark
    PROVE  Pair(mark) \in Seq(Int) /\ Pair(mark) # <<>>
  <1>1. mark[1] \in Exact /\ mark[2] \in Exact
    BY DEF Mark
  <1> DEFINE one == CompressInt(mark[1])
             two == CompressInt(mark[2])
  <1>2. one \in Seq(Int) /\ one # <<>> /\ two \in Seq(Int) /\ two # <<>>
    BY <1>1, FormRight
  <1> HIDE DEF one, two
  <1>3. one \o two \in Seq(Int) /\ one \o two # <<>>
    BY <1>2
  <1> QED
    BY <1>3 DEF Pair, one, two

\* So are the values that end a block and a list.
LEMMA EndsAreBytes ==
    ASSUME NEW data \in {-1, -2}
    PROVE  data \in Exact /\ CompressInt(data) \in Seq(Int)
  <1>1. data \in Exact
    BY DEF Exact, FourByteHigh
  <1> QED
    BY <1>1, FormRight

\* It does not matter in which order bytes are put together.
LEMMA Regroup ==
    ASSUME NEW s \in Seq(Int), NEW t \in Seq(Int), NEW u \in Seq(Int)
    PROVE  (s \o t) \o u = s \o (t \o u)
  <1> DEFINE left == (s \o t) \o u
             right == s \o (t \o u)
  <1>1. left \in Seq(Int) /\ right \in Seq(Int)
    OBVIOUS
  <1>2. Len(left) = Len(right) /\ \A i \in 1..Len(left) : left[i] = right[i]
    BY SMTT(30)
  <1> HIDE DEF left, right
  <1>3. left = right
    BY <1>1, <1>2, SeqEqual
  <1> QED
    BY <1>3 DEF left, right

\* Bytes written after others are behind every remainder of these.
LEMMA CodesBefore ==
    ASSUME NEW bytes, NEW m \in Seq(Mark), NEW low \in Nat, NEW high \in low..Len(m),
           NEW end, NEW more \in Seq(Int), Codes(bytes, m, low, high, end)
    PROVE  Codes(bytes \o more, m, low, high, end \o more)
  <1>1. PICK rest \in [low..high -> Seq(Int)] :
           /\ rest[low] = bytes /\ rest[high] = end
           /\ \A k \in low..(high - 1) : rest[k] = Put(m[k + 1], rest[k + 1])
    BY DEF Codes
  <1> DEFINE new == [k \in low..high |-> rest[k] \o more]
  <1>2. new \in [low..high -> Seq(Int)]
    BY <1>1
  <1>3. new[low] = bytes \o more /\ new[high] = end \o more
    BY <1>1
  <1>4. ASSUME NEW k \in low..(high - 1)
        PROVE  new[k] = Put(m[k + 1], new[k + 1])
    <2>1. Pair(m[k + 1]) \in Seq(Int)
      <3>1. m[k + 1] \in Mark
        BY ElementOfSeq
      <3> QED
        BY <3>1, PairIsBytes
    <2>2. k \in low..high /\ k + 1 \in low..high
      OBVIOUS
    <2>3. rest[k + 1] \in Seq(Int) /\ rest[k] = Put(m[k + 1], rest[k + 1])
      BY <1>1, <2>2
    <2>4. Put(m[k + 1], rest[k + 1]) \o more = Put(m[k + 1], rest[k + 1] \o more)
      <3> DEFINE pair == Pair(m[k + 1])
                 after == rest[k + 1]
      <3>1. pair \in Seq(Int) /\ after \in Seq(Int)
        BY <2>1, <2>3
      <3> HIDE DEF pair, after
      <3>2. (pair \o after) \o more = pair \o (after \o more)
        BY <3>1, Regroup, Zenon
      <3>3. /\ Put(m[k + 1], rest[k + 1]) = pair \o after
            /\ Put(m[k + 1], rest[k + 1] \o more) = pair \o (after \o more)
        BY DEF pair, after, Put
      <3> QED
        BY <3>2, <3>3
    <2>5. new[k] = rest[k] \o more /\ new[k + 1] = rest[k + 1] \o more
      BY <2>2
    <2> HIDE DEF new
    <2> QED
      BY <2>3, <2>4, <2>5
  <1> HIDE DEF new
  <1> QED
    BY <1>2, <1>3, <1>4 DEF Codes

\* A pair at the end is one mark more.
LEMMA CodesMore ==
    ASSUME NEW bytes, NEW m \in Seq(Mark), NEW low \in 0..Len(m),
           NEW mark \in Mark, Codes(bytes, m, low, Len(m), Pair(mark))
    PROVE  Codes(bytes, Append(m, mark), low, Len(m) + 1, <<>>)
  <1>1. PICK rest \in [low..Len(m) -> Seq(Int)] :
           /\ rest[low] = bytes /\ rest[Len(m)] = Pair(mark)
           /\ \A k \in low..(Len(m) - 1) : rest[k] = Put(m[k + 1], rest[k + 1])
    BY DEF Codes
  <1> DEFINE new == [k \in low..(Len(m) + 1) |-> IF k <= Len(m) THEN rest[k] ELSE <<>>]
             next == Append(m, mark)
  <1>2. new \in [low..(Len(m) + 1) -> Seq(Int)]
    BY <1>1
  <1>3. new[low] = bytes /\ new[Len(m) + 1] = <<>>
    BY <1>1
  <1>4. \A k \in 1..Len(m) : next[k] = m[k]
    BY AppendProperties
  <1>5. next[Len(m) + 1] = mark
    BY AppendProperties
  <1>6. ASSUME NEW k \in low..(Len(m) + 1 - 1)
        PROVE  new[k] = Put(next[k + 1], new[k + 1])
    <2>1. CASE k = Len(m)
      <3>1. Put(mark, <<>>) = Pair(mark)
        BY PairIsBytes, ConcatEmptySeq DEF Put
      <3>2. new[k] = rest[Len(m)] /\ new[k + 1] = <<>> /\ next[k + 1] = mark
        BY <1>5, <2>1
      <3> QED
        BY <1>1, <3>1, <3>2
    <2>2. CASE k < Len(m)
      <3>1. new[k] = rest[k] /\ new[k + 1] = rest[k + 1] /\ next[k + 1] = m[k + 1]
        BY <1>4, <2>2
      <3> QED
        BY <1>1, <2>2, <3>1
    <2> QED
      BY <2>1, <2>2
  <1> HIDE DEF new, next
  <1>7. Codes(bytes, next, low, Len(m) + 1, <<>>)
    <2> DEFINE high == Len(m) + 1
    <2>1. /\ new \in [low..high -> Seq(Int)] /\ new[low] = bytes /\ new[high] = <<>>
          /\ \A k \in low..(high - 1) : new[k] = Put(next[k + 1], new[k + 1])
      BY <1>2, <1>3, <1>6
    <2> HIDE DEF high
    <2>2. Codes(bytes, next, low, high, <<>>)
      BY <2>1 DEF Codes
    <2> QED
      BY <2>2 DEF high
  <1> QED
    BY <1>7 DEF next

\* What was written does not change with marks that come later.
LEMMA CodesKept ==
    ASSUME NEW bytes, NEW m, NEW n, NEW low \in Nat, NEW high \in Nat, NEW end,
           \A k \in 1..high : n[k] = m[k], Codes(bytes, m, low, high, end)
    PROVE  Codes(bytes, n, low, high, end)
  <1>1. PICK rest \in [low..high -> Seq(Int)] :
           /\ rest[low] = bytes /\ rest[high] = end
           /\ \A k \in low..(high - 1) : rest[k] = Put(m[k + 1], rest[k + 1])
    BY DEF Codes
  <1>2. \A k \in low..(high - 1) : rest[k] = Put(n[k + 1], rest[k + 1])
    BY <1>1
  <1> QED
    BY <1>1, <1>2 DEF Codes

\* Nothing, written for no mark.
LEMMA CodesNone ==
    ASSUME NEW m, NEW low \in Nat
    PROVE  Codes(<<>>, m, low, low, <<>>)
  <1> DEFINE rest == [k \in low..low |-> <<>>]
  <1>1. rest \in [low..low -> Seq(Int)] /\ rest[low] = <<>>
    OBVIOUS
  <1>2. \A k \in low..(low - 1) : rest[k] = Put(m[k + 1], rest[k + 1])
    OBVIOUS
  <1> HIDE DEF rest
  <1> QED
    BY <1>1, <1>2 DEF Codes

\* The bytes are the end once all is read.
LEMMA CodesEnd ==
    ASSUME NEW bytes, NEW m, NEW low, NEW end, Codes(bytes, m, low, low, end)
    PROVE  bytes = end
  BY DEF Codes

\* Until then they begin with the next mark.
LEMMA CodesNext ==
    ASSUME NEW bytes, NEW m, NEW low \in Nat, NEW high \in Nat, low < high,
           NEW end, Codes(bytes, m, low, high, end)
    PROVE  \E after \in Seq(Int) : /\ bytes = Put(m[low + 1], after)
                                   /\ Codes(after, m, low + 1, high, end)
  <1>1. PICK rest \in [low..high -> Seq(Int)] :
           /\ rest[low] = bytes /\ rest[high] = end
           /\ \A k \in low..(high - 1) : rest[k] = Put(m[k + 1], rest[k + 1])
    BY DEF Codes
  <1> DEFINE new == [k \in (low + 1)..high |-> rest[k]]
  <1>2. new \in [(low + 1)..high -> Seq(Int)]
    BY <1>1
  <1>3. new[low + 1] = rest[low + 1] /\ new[high] = end
    BY <1>1
  <1>4. \A k \in (low + 1)..(high - 1) : new[k] = Put(m[k + 1], new[k + 1])
    BY <1>1
  <1>5. rest[low + 1] \in Seq(Int) /\ bytes = Put(m[low + 1], rest[low + 1])
    BY <1>1
  <1> HIDE DEF new
  <1>6. Codes(rest[low + 1], m, low + 1, high, end)
    BY <1>2, <1>3, <1>4 DEF Codes
  <1> QED
    BY <1>5, <1>6

\* No bytes are no marks.
LEMMA CodesEmpty ==
    ASSUME NEW m \in Seq(Mark), NEW low \in Nat, NEW high \in low..Len(m), NEW end,
           Codes(<<>>, m, low, high, end)
    PROVE  low = high
  <1> SUFFICES ASSUME low < high PROVE FALSE
    OBVIOUS
  <1>1. PICK after \in Seq(Int) : <<>> = Put(m[low + 1], after)
    BY CodesNext
  <1>2. m[low + 1] \in Mark
    BY ElementOfSeq
  <1> DEFINE pair == Pair(m[low + 1])
  <1>3. pair \in Seq(Int) /\ pair # <<>>
    BY <1>2, PairIsBytes
  <1>4. <<>> = pair \o after
    BY <1>1 DEF Put
  <1> HIDE DEF pair
  <1>5. pair \o after = <<>> => pair = <<>>
    BY <1>3, ConcatEqualIffEmpty
  <1> QED
    BY <1>3, <1>4, <1>5

-----------------------------------------------------------------------------
(***************************************************************************)
(* The inductive invariant of the lookup.  The blocks cut the marks into   *)
(* runs: block j holds the marks behind cut[j] up to cut[j + 1].           *)
(***************************************************************************)
FullEnd == {CompressInt(-2)}

LastEnd == {CompressInt(-1) \o CompressInt(-1),
            (CompressInt(-1) \o CompressInt(-1)) \o CompressInt(-2)}

\* The last block of a published list ends the list, the others their block.
EndsOf(state, j, blocks) == IF state = "write" \/ j < blocks THEN FullEnd ELSE LastEnd

BlockCodes(bytes, m, low, high, ends) ==
    /\ low <= high
    /\ \E end \in ends : Codes(bytes, m, low, high, end)

ListCodes(cut, blocks, m, state) ==
    /\ cut \in [1..(Len(blocks) + 1) -> 0..Len(m)]
    /\ cut[1] = 0
    /\ \A j \in 1..Len(blocks) :
          BlockCodes(blocks[j], m, cut[j], cut[j + 1], EndsOf(state, j, Len(blocks)))

\* Nothing that was marked is neither in the list nor in the buffer.
AllWritten(cut) ==
    IF pc = "write" THEN Codes(debugData, marks, cut[Len(debugList) + 1], Len(marks), <<>>)
                    ELSE cut[Len(debugList) + 1] = Len(marks)

OffsetOf(m, k) == IF k = 0 THEN NoOffset ELSE m[k][1]

\* A lookup has read k marks, the last of them in block j, none of them too far.
ReaderAt(cut, j, k) ==
    /\ j \in 1..Len(debugList) /\ k \in cut[j]..cut[j + 1]
    /\ list = SubSeq(debugList, j, Len(debugList))
    /\ BlockCodes(reader, marks, k, cut[j + 1], EndsOf(pc, j, Len(debugList)))
    /\ prevOfs = OffsetOf(marks, k)
    /\ \A i \in 1..k : marks[i][2] <= wanted

ReaderInv(cut) ==
    pc = "query" =>
        /\ wanted \in Int
        /\ \/ list = <<>> /\ marks = <<>> /\ prevOfs = NoOffset
           \/ \E j, k \in Nat : ReaderAt(cut, j, k)

MarkedInv ==
    /\ marks \in Seq(Mark)
    /\ \A i \in 1..Len(marks) : marks[i][2] <= native
    /\ \A i \in 1..Len(marks) : \A j \in i..Len(marks) : marks[i][2] <= marks[j][2]

AnswerInv == answer # NoAnswer => pc = "published" /\ answer[2] = BytecodeAt(answer[1])

Written(cut) == ListCodes(cut, debugList, marks, pc) /\ AllWritten(cut)

OffsetsInv ==
    /\ BufferInv /\ MarkedInv /\ AnswerInv
    /\ pc \in {"write", "published", "query"}
    /\ \E cut : Written(cut) /\ ReaderInv(cut)

\* The marks of m stay the first of n.
Extends(m, n) == Len(m) <= Len(n) /\ \A k \in 1..Len(m) : n[k] = m[k]

\* Marks that come later do not change the blocks that were flushed.
LEMMA ListKept ==
    ASSUME NEW m \in Seq(Mark), NEW n \in Seq(Mark), Extends(m, n), NEW state,
           NEW blocks \in Seq(Seq(Int)), NEW cut, ListCodes(cut, blocks, m, state)
    PROVE  ListCodes(cut, blocks, n, state)
  <1>1. cut \in [1..(Len(blocks) + 1) -> 0..Len(n)]
    BY DEF ListCodes, Extends
  <1>2. ASSUME NEW j \in 1..Len(blocks)
        PROVE  BlockCodes(blocks[j], n, cut[j], cut[j + 1], EndsOf(state, j, Len(blocks)))
    <2> DEFINE low == cut[j]
               high == cut[j + 1]
               ends == EndsOf(state, j, Len(blocks))
               block == blocks[j]
    <2>1. low \in Nat /\ high \in Nat /\ high <= Len(m)
      <3>1. cut \in [1..(Len(blocks) + 1) -> 0..Len(m)]
        BY DEF ListCodes
      <3>2. j \in 1..(Len(blocks) + 1) /\ j + 1 \in 1..(Len(blocks) + 1) /\ Len(m) \in Nat
        OBVIOUS
      <3>3. low \in 0..Len(m) /\ high \in 0..Len(m)
        BY <3>1, <3>2
      <3> QED
        BY <3>2, <3>3
    <2>2. BlockCodes(block, m, low, high, ends)
      BY DEF ListCodes
    <2> HIDE DEF low, high, ends, block
    <2>3. \A k \in 1..high : n[k] = m[k]
      <3>1. 1..high \subseteq 1..Len(m)
        BY <2>1
      <3> QED
        BY <3>1 DEF Extends
    <2>4. low <= high
      BY <2>2 DEF BlockCodes
    <2>5. PICK end \in ends : Codes(block, m, low, high, end)
      BY <2>2 DEF BlockCodes
    <2>6. Codes(block, n, low, high, end)
      BY <2>1, <2>3, <2>5, CodesKept
    <2>7. BlockCodes(block, n, low, high, ends)
      BY <2>4, <2>5, <2>6 DEF BlockCodes
    <2> QED
      BY <2>7 DEF low, high, ends, block
  <1>3. cut[1] = 0
    BY DEF ListCodes
  <1> QED
    BY <1>1, <1>2, <1>3 DEF ListCodes

\* A block that holds the marks left is put behind the others.
LEMMA ListMore ==
    ASSUME NEW m \in Seq(Mark), NEW blocks \in Seq(Seq(Int)), NEW block \in Seq(Int),
           NEW state, NEW cut, ListCodes(cut, blocks, m, "write"), NEW end,
           end \in EndsOf(state, Len(blocks) + 1, Len(blocks) + 1),
           Codes(block, m, cut[Len(blocks) + 1], Len(m), end)
    PROVE  \E new : /\ ListCodes(new, Append(blocks, block), m, state)
                    /\ new[Len(blocks) + 2] = Len(m)
  <1> DEFINE size == Len(blocks)
             new == [j \in 1..(size + 2) |-> IF j <= size + 1 THEN cut[j] ELSE Len(m)]
             next == Append(blocks, block)
  <1>1. cut \in [1..(size + 1) -> 0..Len(m)] /\ cut[1] = 0 /\ size \in Nat /\ Len(m) \in Nat
    BY DEF ListCodes
  <1>2. /\ Len(next) = size + 1 /\ next[size + 1] = block
        /\ \A j \in 1..size : next[j] = blocks[j]
    BY AppendProperties
  <1>3. \A j \in 1..size : BlockCodes(blocks[j], m, cut[j], cut[j + 1], FullEnd)
    BY DEF ListCodes, EndsOf
  <1>4. end \in EndsOf(state, size + 1, size + 1) /\ Codes(block, m, cut[size + 1], Len(m), end)
    OBVIOUS
  <1> HIDE DEF size, next
  <1>5. new \in [1..(size + 2) -> 0..Len(m)] /\ new[1] = 0 /\ new[size + 2] = Len(m)
    BY <1>1
  <1>6. ASSUME NEW j \in 1..(size + 1)
        PROVE  BlockCodes(next[j], m, new[j], new[j + 1], EndsOf(state, j, size + 1))
    <2>1. CASE j <= size
      <3>1. j \in 1..size /\ EndsOf(state, j, size + 1) = FullEnd
        BY <1>1, <2>1 DEF EndsOf
      <3>2. new[j] = cut[j] /\ new[j + 1] = cut[j + 1]
        BY <1>1, <3>1
      <3> QED
        BY <1>2, <1>3, <3>1, <3>2
    <2>2. CASE j = size + 1
      <3>1. new[j] = cut[size + 1] /\ new[j + 1] = Len(m) /\ next[j] = block
        BY <1>1, <1>2, <2>2
      <3>2. cut[size + 1] <= Len(m)
        BY <1>1
      <3> DEFINE low == cut[size + 1]
                 ends == EndsOf(state, size + 1, size + 1)
      <3> HIDE DEF new, ends
      <3>3. BlockCodes(block, m, low, Len(m), ends)
        BY <1>4, <3>2 DEF BlockCodes, ends
      <3> QED
        BY <2>2, <3>1, <3>3 DEF ends
    <2> QED
      BY <1>1, <2>1, <2>2
  <1> HIDE DEF new
  <1>7. new \in [1..(Len(next) + 1) -> 0..Len(m)]
    BY <1>1, <1>2, <1>5
  <1>8. ListCodes(new, next, m, state)
    BY <1>2, <1>5, <1>6, <1>7 DEF ListCodes
  <1> QED
    BY <1>5, <1>8 DEF next, size

\* In a method shorter than the offsets that can be read back a new mark is a
\* mark, and it is behind the others.
LEMMA MarkedMore ==
    ASSUME BufferInv, MarkedInv, Offset \subseteq Exact \ {-1, -2},
           NEW offset \in Offset, NEW gap \in Gap, mark_bytecode(offset, gap),
           native' <= FourByteHigh
    PROVE  /\ <<offset, native'>> \in Mark /\ marks' = Append(marks, <<offset, native'>>)
           /\ MarkedInv' /\ Extends(marks, marks')
  <1>1. native' = native + gap /\ marks' = Append(marks, <<offset, native'>>)
    BY DEF mark_bytecode
  <1>2. native \in Nat /\ native' \in Nat /\ native <= native'
    BY <1>1, DebugAssumption DEF BufferInv
  <1> DEFINE mark == <<offset, native'>>
  <1>3. mark \in Mark /\ mark[2] = native'
    <2>1. native' \in Exact
      BY <1>2 DEF Exact
    <2> QED
      BY <1>2, <2>1 DEF Mark
  <1>4. marks' = Append(marks, mark)
    BY <1>1
  <1> HIDE DEF mark
  <1>5. marks \in Seq(Mark) /\ Len(marks) \in Nat
    BY DEF MarkedInv
  <1>6. /\ marks' \in Seq(Mark) /\ Len(marks') = Len(marks) + 1
        /\ marks'[Len(marks) + 1] = mark
        /\ \A k \in 1..Len(marks) : marks'[k] = marks[k]
    BY <1>3, <1>4, <1>5, AppendProperties
  <1>7. \A k \in 1..Len(marks) : marks[k][2] \in Nat
    <2> TAKE k \in 1..Len(marks)
    <2>1. marks[k] \in Mark
      BY <1>5, ElementOfSeq
    <2> QED
      BY <2>1 DEF Mark, Exact
  <1>8. \A i \in 1..Len(marks') : marks'[i][2] <= native'
    <2> TAKE i \in 1..Len(marks')
    <2>1. CASE i = Len(marks) + 1
      BY <1>2, <1>3, <1>6, <2>1
    <2>2. CASE i \in 1..Len(marks)
      <3>1. marks'[i][2] = marks[i][2] /\ marks[i][2] <= native /\ marks[i][2] \in Nat
        BY <1>6, <1>7, <2>2 DEF MarkedInv
      <3> QED
        BY <1>2, <3>1
    <2> QED
      BY <1>5, <1>6, <2>1, <2>2
  <1>9. ASSUME NEW i \in 1..Len(marks'), NEW j \in i..Len(marks')
        PROVE  marks'[i][2] <= marks'[j][2]
    <2>1. CASE j = Len(marks) + 1
      BY <1>3, <1>6, <1>8, <2>1
    <2>2. CASE j # Len(marks) + 1
      <3>1. i \in 1..Len(marks) /\ j \in i..Len(marks) /\ j \in 1..Len(marks)
        BY <1>5, <1>6, <2>2
      <3>2. marks[i][2] <= marks[j][2]
        BY <3>1 DEF MarkedInv
      <3> QED
        BY <1>6, <3>1, <3>2
    <2> QED
      BY <2>1, <2>2
  <1>10. Extends(marks, marks')
    BY <1>5, <1>6 DEF Extends
  <1>11. MarkedInv'
    BY <1>6, <1>8, <1>9 DEF MarkedInv
  <1> QED
    BY <1>3, <1>4, <1>10, <1>11 DEF mark

\* WriteCacheDebug writes the mark behind what is in the buffer, which begins
\* the next block when it is flushed.
LEMMA WriteKeeps ==
    ASSUME BufferInv, MarkedInv, pc = "write", NEW cut, Written(cut),
           NEW mark \in Mark, marks' = Append(marks, mark), MarkedInv',
           Extends(marks, marks'), WriteCacheDebug(mark[1], mark[2]), pc' = pc
    PROVE  \E new : Written(new)'
  <1> DEFINE one == CompressInt(mark[1])
             two == CompressInt(mark[2])
             data == (debugData \o one) \o two
             full == CompressInt(-2)
             size == Len(debugList)
             low == cut[size + 1]
  <1>1. /\ debugData \in Seq(Int) /\ debugList \in Seq(Seq(Int))
        /\ marks \in Seq(Mark) /\ marks' \in Seq(Mark) /\ Len(marks') = Len(marks) + 1
    BY AppendProperties DEF BufferInv, MarkedInv
  <1>2. one \in Seq(Int) /\ two \in Seq(Int) /\ full \in Seq(Int)
    <2>1. mark[1] \in Exact /\ mark[2] \in Exact
      BY DEF Mark
    <2> QED
      BY <2>1, FormRight, EndsAreBytes
  <1>3. /\ ListCodes(cut, debugList, marks, "write")
        /\ Codes(debugData, marks, low, Len(marks), <<>>)
    BY DEF Written, AllWritten
  <1>4. size \in Nat /\ Len(marks) \in Nat /\ low \in 0..Len(marks)
    <2>1. cut \in [1..(Len(debugList) + 1) -> 0..Len(marks)]
      BY <1>3 DEF ListCodes
    <2>2. Len(debugList) \in Nat /\ Len(marks) \in Nat
      BY <1>1
    <2> QED
      BY <2>1, <2>2
  <1>5. IF Len(data) + 5 * 2 + 1 > BufSize
        THEN debugData' = <<>> /\ debugList' = Append(debugList, data \o full)
        ELSE debugData' = data /\ debugList' = debugList
    BY DEF WriteCacheDebug
  <1>6. Pair(mark) = one \o two
    BY DEF Pair
  <1>7. low \in Nat /\ Len(marks) \in low..Len(marks) /\ <<>> \in Seq(Int)
    BY <1>4
  <1> HIDE DEF one, two, data, full, low
  <1>8. Codes(data, marks, low, Len(marks), Pair(mark))
    <2>1. Codes(debugData \o one, marks, low, Len(marks), <<>> \o one)
      BY <1>1, <1>2, <1>3, <1>7, CodesBefore
    <2>2. <<>> \o one = one
      BY <1>2, ConcatEmptySeq
    <2>3. Codes(debugData \o one, marks, low, Len(marks), one)
      BY <2>1, <2>2
    <2>4. Codes((debugData \o one) \o two, marks, low, Len(marks), one \o two)
      BY <1>1, <1>2, <1>7, <2>3, CodesBefore
    <2> QED
      BY <1>6, <2>4 DEF data
  <1>9. Codes(data, marks', low, Len(marks'), <<>>)
    <2>1. Codes(data, Append(marks, mark), low, Len(marks) + 1, <<>>)
      BY <1>1, <1>4, <1>8, CodesMore
    <2> QED
      BY <1>1, <2>1
  <1>10. ListCodes(cut, debugList, marks', "write")
    BY <1>1, <1>3, ListKept
  <1>11. CASE Len(data) + 5 * 2 + 1 > BufSize
    <2> DEFINE block == data \o full
    <2>1. debugData' = <<>> /\ debugList' = Append(debugList, block)
      BY <1>5, <1>11
    <2>2. low \in Nat /\ Len(marks') \in low..Len(marks')
      BY <1>1, <1>4
    <2>3. Codes(block, marks', low, Len(marks'), full)
      <3>1. Codes(data \o full, marks', low, Len(marks'), <<>> \o full)
        BY <1>1, <1>2, <1>9, <2>2, CodesBefore
      <3>2. <<>> \o full = full
        BY <1>2, ConcatEmptySeq
      <3> QED
        BY <3>1, <3>2
    <2>4. block \in Seq(Int)
      <3>1. data \in Seq(Int)
        BY <1>1, <1>2 DEF data
      <3> QED
        BY <1>2, <3>1
    <2>5. full \in EndsOf("write", size + 1, size + 1)
      BY DEF EndsOf, FullEnd, full
    <2> HIDE DEF block
    <2>6. PICK new : /\ ListCodes(new, Append(debugList, block), marks', "write")
                     /\ new[Len(debugList) + 2] = Len(marks')
      BY <1>1, <1>10, <2>3, <2>4, <2>5, ListMore DEF low
    <2>7. Len(debugList') + 1 = Len(debugList) + 2
      BY <1>1, <2>1, <2>4, AppendProperties
    <2>8. Codes(<<>>, marks', Len(marks'), Len(marks'), <<>>)
      BY <1>1, CodesNone
    <2>9. ListCodes(new, debugList', marks', pc')
      BY <2>1, <2>6
    <2>10. AllWritten(new)'
      BY <2>1, <2>6, <2>7, <2>8 DEF AllWritten
    <2> QED
      BY <2>9, <2>10 DEF Written
  <1>12. CASE ~(Len(data) + 5 * 2 + 1 > BufSize)
    <2>1. debugData' = data /\ debugList' = debugList
      BY <1>5, <1>12
    <2>2. ListCodes(cut, debugList', marks', pc')
      BY <1>10, <2>1
    <2>3. AllWritten(cut)'
      BY <1>9, <2>1 DEF AllWritten, low
    <2> QED
      BY <2>2, <2>3 DEF Written
  <1> QED
    BY <1>11, <1>12

\* The list that end_method leaves holds all marks, if there is one.
LEMMA EndKeeps ==
    ASSUME BufferInv, MarkedInv, NEW cut, Written(cut), end_method
    PROVE  \E new : Written(new)'
  <1> DEFINE end == CompressInt(-1)
             full == CompressInt(-2)
             data == (debugData \o end) \o end
             size == Len(debugList)
             low == cut[size + 1]
             last == IF Len(data) + 5 * 2 + 1 > BufSize THEN data \o full ELSE data
  <1>1. /\ debugData \in Seq(Int) /\ debugList \in Seq(Seq(Int)) /\ marks \in Seq(Mark)
        /\ end \in Seq(Int) /\ full \in Seq(Int)
    BY EndsAreBytes DEF BufferInv, MarkedInv
  <1>2. /\ pc = "write" /\ pc' = "published" /\ marks' = marks
        /\ debugList' = IF debugList # <<>> \/ debugData # <<>>
                        THEN Append(debugList, last) ELSE debugList
    BY DEF end_method
  <1>3. /\ ListCodes(cut, debugList, marks, "write")
        /\ Codes(debugData, marks, low, Len(marks), <<>>)
    BY <1>2 DEF Written, AllWritten
  <1>4. size \in Nat /\ Len(marks) \in Nat /\ low \in 0..Len(marks) /\ cut[1] = 0
    <2>1. cut \in [1..(Len(debugList) + 1) -> 0..Len(marks)] /\ cut[1] = 0
      BY <1>3 DEF ListCodes
    <2>2. Len(debugList) \in Nat /\ Len(marks) \in Nat
      BY <1>1
    <2> QED
      BY <2>1, <2>2
  <1>5. CASE ~(debugList # <<>> \/ debugData # <<>>)
    <2>1. debugList = <<>> /\ debugList' = <<>> /\ debugData = <<>> /\ Len(debugList) = 0
      BY <1>2, <1>5
    <2>2. low = 0
      BY <1>4, <2>1
    <2> HIDE DEF low
    <2>3. Len(marks) = 0
      BY <1>1, <1>3, <1>4, <2>1, <2>2, CodesEmpty
    <2>4. ListCodes(cut, debugList', marks', pc')
      BY <1>2, <1>3, <2>1 DEF ListCodes
    <2>5. AllWritten(cut)'
      BY <1>2, <1>4, <2>1, <2>3 DEF AllWritten
    <2> QED
      BY <2>4, <2>5 DEF Written
  <1>6. CASE debugList # <<>> \/ debugData # <<>>
    <2>1. debugList' = Append(debugList, last)
      BY <1>2, <1>6
    <2>2. low \in Nat /\ Len(marks) \in low..Len(marks) /\ <<>> \in Seq(Int)
      BY <1>4
    <2> HIDE DEF end, full, low
    <2>3. Codes(data, marks, low, Len(marks), end \o end)
      <3>1. Codes(debugData \o end, marks, low, Len(marks), <<>> \o end)
        BY <1>1, <1>3, <2>2, CodesBefore
      <3>2. <<>> \o end = end
        BY <1>1, ConcatEmptySeq
      <3>3. Codes(debugData \o end, marks, low, Len(marks), end)
        BY <3>1, <3>2
      <3> QED
        BY <1>1, <2>2, <3>3, CodesBefore
    <2>4. data \in Seq(Int)
      BY <1>1
    <2> HIDE DEF data
    <2>5. Codes(data \o full, marks, low, Len(marks), (end \o end) \o full)
      BY <1>1, <2>2, <2>3, CodesBefore
    <2>6. last \in Seq(Int)
      BY <1>1, <2>4
    <2>7. PICK tail \in LastEnd : Codes(last, marks, low, Len(marks), tail)
      BY <2>3, <2>5 DEF LastEnd, end, full
    <2>8. tail \in EndsOf("published", size + 1, size + 1)
      BY <1>4, <2>7 DEF EndsOf
    <2> HIDE DEF last
    <2>9. PICK new : /\ ListCodes(new, Append(debugList, last), marks, "published")
                     /\ new[Len(debugList) + 2] = Len(marks)
      BY <1>1, <1>3, <2>6, <2>7, <2>8, ListMore DEF low
    <2>10. Len(debugList') + 1 = Len(debugList) + 2
      BY <1>1, <2>1, <2>6, AppendProperties
    <2>11. ListCodes(new, debugList', marks', pc')
      BY <1>2, <2>1, <2>9
    <2>12. AllWritten(new)'
      BY <1>2, <2>9, <2>10 DEF AllWritten
    <2> QED
      BY <2>11, <2>12 DEF Written
  <1> QED
    BY <1>5, <1>6

-----------------------------------------------------------------------------
\* A mark not read yet is at the front: first its bytecode offset, behind that
\* its native offset, behind that the rest of the block.
NextMark(bytes, m, k, high, ends) ==
    \E after \in Seq(Int), native_and_after \in Seq(Int) :
        /\ Begins(bytes, m[k + 1][1], native_and_after)
        /\ Begins(native_and_after, m[k + 1][2], after)
        /\ BlockCodes(after, m, k + 1, high, ends)

\* UncompressInt reads it in two calls, which leave the reader at the next one.
LEMMA MarkIsNext ==
    ASSUME NEW bytes, NEW m \in Seq(Mark), NEW k \in Nat, NEW high \in Nat, NEW ends,
           k < high, high <= Len(m), BlockCodes(bytes, m, k, high, ends)
    PROVE  NextMark(bytes, m, k, high, ends)
  <1>1. PICK end \in ends : Codes(bytes, m, k, high, end)
    BY DEF BlockCodes
  <1>2. PICK after \in Seq(Int) : /\ bytes = Put(m[k + 1], after)
                                  /\ Codes(after, m, k + 1, high, end)
    BY <1>1, CodesNext
  <1> DEFINE one == CompressInt(m[k + 1][1])
             two == CompressInt(m[k + 1][2])
  <1>3. m[k + 1][1] \in Exact /\ m[k + 1][2] \in Exact
    <2>1. k + 1 \in 1..Len(m)
      OBVIOUS
    <2>2. m[k + 1] \in Mark
      BY <2>1, ElementOfSeq
    <2> QED
      BY <2>2 DEF Mark
  <1>4. one \in Seq(Int) /\ two \in Seq(Int)
    BY <1>3, FormRight
  <1>5. bytes = (one \o two) \o after
    BY <1>2 DEF Put, Pair
  <1>6. Begins(two \o after, m[k + 1][2], after)
    BY <1>2, <1>3, ReadFront
  <1>7. two \o after \in Seq(Int)
    BY <1>2, <1>4
  <1>8. Begins(one \o (two \o after), m[k + 1][1], two \o after)
    BY <1>3, <1>7, ReadFront
  <1>9. bytes = one \o (two \o after)
    <2> HIDE DEF one, two
    <2>1. (one \o two) \o after = one \o (two \o after)
      BY <1>2, <1>4, Regroup, Zenon
    <2> QED
      BY <1>5, <2>1
  <1>10. BlockCodes(after, m, k + 1, high, ends)
    <2>1. k + 1 <= high
      OBVIOUS
    <2> QED
      BY <1>1, <1>2, <2>1 DEF BlockCodes
  <1> HIDE DEF one, two
  <1>11. Begins(bytes, m[k + 1][1], two \o after)
    BY <1>8, <1>9
  <1> QED
    BY <1>2, <1>6, <1>7, <1>10, <1>11 DEF NextMark

\* After the last mark of a block its end is at the front.
LEMMA EndIsNext ==
    ASSUME NEW bytes, NEW m, NEW k, NEW ends, BlockCodes(bytes, m, k, k, ends)
    PROVE  /\ ends = FullEnd => \E after : Begins(bytes, -2, after)
           /\ ends = LastEnd => \E after : Begins(bytes, -1, after)
  <1> DEFINE end == CompressInt(-1)
             full == CompressInt(-2)
  <1>1. end \in Seq(Int) /\ full \in Seq(Int) /\ -1 \in Exact /\ -2 \in Exact
    BY EndsAreBytes
  <1>2. PICK tail \in ends : bytes = tail
    BY CodesEnd DEF BlockCodes
  <1>3. ASSUME ends = FullEnd PROVE \E after : Begins(bytes, -2, after)
    <2>1. bytes = full
      BY <1>2, <1>3 DEF FullEnd
    <2> DEFINE none == SubSeq(full, 2, 1)
    <2>2. none \in Seq(Int) /\ none = <<>>
      BY <1>1
    <2> HIDE DEF none
    <2>3. Begins(full \o none, -2, none)
      BY <1>1, <2>2, ReadFront
    <2> HIDE DEF full
    <2>4. full \o none = full
      BY <1>1, <2>2, ConcatEmptySeq
    <2> QED
      BY <2>1, <2>3, <2>4
  <1>4. ASSUME ends = LastEnd PROVE \E after : Begins(bytes, -1, after)
    <2>1. bytes = end \o end \/ bytes = (end \o end) \o full
      BY <1>2, <1>4 DEF LastEnd
    <2>2. Begins(end \o end, -1, end)
      BY <1>1, ReadFront
    <2> HIDE DEF full
    <2>3. Begins(end \o (end \o full), -1, end \o full)
      <3>1. end \o full \in Seq(Int)
        BY <1>1
      <3> QED
        BY <1>1, <3>1, ReadFront
    <2> HIDE DEF end
    <2>4. (end \o end) \o full = end \o (end \o full)
      BY <1>1, Regroup, Zenon
    <2>5. CASE bytes = end \o end
      BY <2>2, <2>5
    <2>6. CASE bytes = (end \o end) \o full
      <3>1. Begins(bytes, -1, end \o full)
        BY <2>3, <2>4, <2>6
      <3> QED
        BY <3>1
    <2> QED
      BY <2>1, <2>5, <2>6
  <1> QED
    BY <1>3, <1>4

\* Where the native offsets pass what is looked up, the answer is the mark before.
LEMMA AnswerFound ==
    ASSUME MarkedInv, NEW k \in 0..Len(marks), NEW offset \in Int,
           \A i \in 1..k : marks[i][2] <= offset,
           k < Len(marks) => marks[k + 1][2] > offset
    PROVE  BytecodeAt(offset) = OffsetOf(marks, k)
  <1> DEFINE before == {i \in 1..Len(marks) : marks[i][2] <= offset}
  <1>1. Len(marks) \in Nat /\ \A i \in 1..Len(marks) : marks[i][2] \in Int
    <2>1. marks \in Seq(Mark)
      BY DEF MarkedInv
    <2>2. ASSUME NEW i \in 1..Len(marks) PROVE marks[i][2] \in Int
      <3>1. marks[i] \in Mark
        BY <2>1, ElementOfSeq
      <3> QED
        BY <3>1 DEF Mark, Exact
    <2> QED
      BY <2>1, <2>2
  <1>2. before = 1..k
    <2>1. ASSUME NEW i \in 1..Len(marks), i > k PROVE ~(marks[i][2] <= offset)
      <3>1. k + 1 \in 1..Len(marks) /\ i \in (k + 1)..Len(marks) /\ k < Len(marks)
        BY <1>1, <2>1
      <3>2. marks[k + 1][2] <= marks[i][2]
        BY <3>1 DEF MarkedInv
      <3>3. marks[k + 1][2] \in Int /\ marks[i][2] \in Int
        BY <1>1, <3>1
      <3> QED
        BY <3>1, <3>2, <3>3
    <2> QED
      BY <1>1, <2>1
  <1>3. BytecodeAt(offset) = IF before = {} THEN NoOffset
                             ELSE marks[CHOOSE i \in before : \A j \in before : j <= i][1]
    BY DEF BytecodeAt
  <1> HIDE DEF before
  <1>4. CASE k = 0
    BY <1>2, <1>3, <1>4 DEF OffsetOf
  <1>5. CASE k # 0
    <2>1. k \in before /\ before # {}
      BY <1>2, <1>5
    <2>2. (CHOOSE i \in before : \A j \in before : j <= i) = k
      BY <1>2, <2>1
    <2> QED
      BY <1>3, <1>5, <2>1, <2>2 DEF OffsetOf
  <1> QED
    BY <1>4, <1>5

\* What a lookup that has read k marks meets next: a mark, or the end of its
\* block, or the end of the list after the last mark.
Front(cut, j, k) ==
    \/ /\ k < cut[j + 1] /\ cut[j + 1] <= Len(marks)
       /\ NextMark(reader, marks, k, cut[j + 1], EndsOf(pc, j, Len(debugList)))
    \/ /\ k = cut[j + 1] /\ j < Len(debugList)
       /\ \E after : Begins(reader, -2, after)
    \/ /\ k = cut[j + 1] /\ k = Len(marks)
       /\ \E after : Begins(reader, -1, after)

\* GetNextDebug finds one of the three, as long as the blocks are what was marked.
LEMMA Reading ==
    ASSUME BufferInv, MarkedInv, pc = "query", NEW cut, Written(cut),
           NEW j, NEW k \in Nat, ReaderAt(cut, j, k)
    PROVE  /\ Front(cut, j, k) /\ k <= Len(marks) /\ list # <<>>
           /\ j \in 1..Len(debugList) /\ cut[j + 1] \in k..Len(marks)
  <1> DEFINE size == Len(debugList)
             high == cut[j + 1]
             ends == EndsOf(pc, j, size)
  <1>1. /\ size \in Nat /\ Len(marks) \in Nat /\ marks \in Seq(Mark)
        /\ debugList \in Seq(Seq(Int))
    BY DEF BufferInv, MarkedInv
  <1>2. cut \in [1..(size + 1) -> 0..Len(marks)] /\ cut[size + 1] = Len(marks)
    BY DEF Written, ListCodes, AllWritten
  <1>3. /\ j \in 1..size /\ k \in cut[j]..high
        /\ list = SubSeq(debugList, j, size)
        /\ BlockCodes(reader, marks, k, high, ends)
    BY DEF ReaderAt
  <1> HIDE DEF size
  <1>4. j \in 1..(size + 1) /\ j + 1 \in 1..(size + 1)
    BY <1>1, <1>3
  <1>5. high \in 0..Len(marks) /\ cut[j] \in 0..Len(marks)
    BY <1>2, <1>4
  <1>6. list # <<>>
    <2>1. Len(SubSeq(debugList, j, size)) = size - j + 1
      BY <1>1, <1>3 DEF size
    <2>2. Len(list) > 0 /\ Len(<<>>) = 0
      BY <1>1, <1>3, <2>1
    <2> QED
      BY <2>2
  <1>7. ends = IF j < size THEN FullEnd ELSE LastEnd
    BY DEF EndsOf
  <1> HIDE DEF high, ends
  <1>8. k <= high /\ high <= Len(marks) /\ high \in Nat
    BY <1>3, <1>5
  <1>9. CASE k < high
    <2>1. NextMark(reader, marks, k, high, ends)
      BY <1>1, <1>3, <1>8, <1>9, MarkIsNext
    <2> QED
      BY <1>1, <1>3, <1>6, <1>8, <1>9, <2>1 DEF Front, high, ends, size
  <1>10. CASE k = high /\ j < size
    <2>1. \E after : Begins(reader, -2, after)
      BY <1>3, <1>7, <1>10, EndIsNext
    <2> QED
      BY <1>1, <1>3, <1>6, <1>8, <1>10, <2>1 DEF Front, high, ends, size
  <1>11. CASE k = high /\ j = size
    <2>1. \E after : Begins(reader, -1, after)
      BY <1>3, <1>7, <1>11, <1>1, EndIsNext
    <2>2. k = Len(marks)
      BY <1>2, <1>11 DEF high
    <2> QED
      BY <1>1, <1>3, <1>6, <1>8, <1>11, <2>1, <2>2 DEF Front, high, ends, size
  <1>12. k < high \/ (k = high /\ j < size) \/ (k = high /\ j = size)
    BY <1>1, <1>3, <1>8
  <1> QED
    BY <1>9, <1>10, <1>11, <1>12, Zenon

\* The answer of a lookup that ends is right.
LEMMA AnswerRight ==
    ASSUME OffsetsInv, GetNextDebug, pc' = "published"
    PROVE  AnswerInv'
  <1>1. PICK cut : Written(cut) /\ ReaderInv(cut)
    BY DEF OffsetsInv
  <1>2. /\ pc = "query" /\ marks' = marks /\ wanted \in Int
        /\ BufferInv /\ MarkedInv
    BY <1>1 DEF GetNextDebug, OffsetsInv, ReaderInv
  <1>3. SUFFICES ASSUME NEW k \in 0..Len(marks), Return(prevOfs),
                        prevOfs = OffsetOf(marks, k),
                        \A i \in 1..k : marks[i][2] <= wanted,
                        k < Len(marks) => marks[k + 1][2] > wanted
                 PROVE  AnswerInv'
    <2>1. CASE list = <<>> /\ marks = <<>> /\ prevOfs = NoOffset
      <3>1. Return(prevOfs) /\ 0 \in 0..Len(marks) /\ Len(marks) = 0
        BY <2>1 DEF GetNextDebug
      <3>2. prevOfs = OffsetOf(marks, 0) /\ \A i \in 1..0 : marks[i][2] <= wanted
        BY <2>1 DEF OffsetOf
      <3> QED
        BY <1>3, <3>1, <3>2
    <2>2. ASSUME NEW j \in Nat, NEW k \in Nat, ReaderAt(cut, j, k)
          PROVE  AnswerInv'
      <3>1. /\ Front(cut, j, k) /\ k <= Len(marks) /\ list # <<>>
            /\ j \in 1..Len(debugList) /\ cut[j + 1] \in k..Len(marks)
        BY <1>1, <1>2, <2>2, Reading
      <3>2. prevOfs = OffsetOf(marks, k) /\ \A i \in 1..k : marks[i][2] <= wanted
        BY <2>2 DEF ReaderAt
      <3>3. k \in 0..Len(marks) /\ Len(marks) \in Nat
        BY <1>2, <3>1 DEF MarkedInv
      <3>4. EndOfList \/ NextPair \/ NextBlock
        BY <3>1 DEF GetNextDebug
      <3>5. ~NextBlock
        BY <1>2 DEF NextBlock
      <3>6. CASE EndOfList
        <4>1. UncompressInt(reader) = -1 /\ Return(prevOfs)
          BY <3>6 DEF EndOfList
        <4>2. k = Len(marks)
          <5>1. CASE k < cut[j + 1] /\ cut[j + 1] <= Len(marks)
                     /\ NextMark(reader, marks, k, cut[j + 1], EndsOf(pc, j, Len(debugList)))
            <6>1. marks[k + 1][1] = -1
              BY <4>1, <5>1 DEF NextMark, Begins
            <6>2. k + 1 \in 1..Len(marks) /\ marks \in Seq(Mark)
              BY <1>2, <3>1, <3>3, <5>1 DEF MarkedInv
            <6>3. marks[k + 1] \in Mark
              BY <6>2, ElementOfSeq
            <6> QED
              BY <6>1, <6>3 DEF Mark
          <5>2. ASSUME NEW after, Begins(reader, -2, after)
                PROVE  FALSE
            BY <4>1, <5>2 DEF Begins
          <5> QED
            BY <3>1, <5>1, <5>2 DEF Front
        <4> QED
          BY <1>3, <3>2, <3>3, <4>1, <4>2
      <3>7. CASE NextPair
        <4>1. /\ UncompressInt(reader) # -1 /\ UncompressInt(reader) # -2
              /\ UncompressInt(Rest(reader)) > wanted
              /\ Return(prevOfs)
          BY <1>2, <3>7 DEF NextPair
        <4>2. k < cut[j + 1]
              /\ NextMark(reader, marks, k, cut[j + 1], EndsOf(pc, j, Len(debugList)))
          BY <3>1, <4>1 DEF Front, Begins
        <4>3. UncompressInt(Rest(reader)) = marks[k + 1][2]
          BY <4>2 DEF NextMark, Begins
        <4> QED
          BY <1>3, <3>2, <3>3, <4>1, <4>3
      <3> QED
        BY <3>4, <3>5, <3>6, <3>7
    <2> QED
      BY <1>1, <1>2, <2>1, <2>2 DEF ReaderInv
  <1>4. answer' = <<wanted, prevOfs>>
    BY <1>3 DEF Return
  <1>5. BytecodeAt(wanted) = OffsetOf(marks, k)
    BY <1>2, <1>3, AnswerFound
  <1>6. answer'[1] = wanted /\ answer'[2] = prevOfs
    BY <1>4
  <1>7. (BytecodeAt(answer[1]))' = BytecodeAt(wanted)
    BY <1>2, <1>6 DEF BytecodeAt
  <1> QED
    BY <1>3, <1>5, <1>6, <1>7 DEF AnswerInv

\* A turn of the lookup reads the next mark, goes to the next block or ends.
LEMMA TurnKeeps ==
    ASSUME OffsetsInv, NEW cut, Written(cut), ReaderInv(cut), GetNextDebug
    PROVE  /\ pc' \in {"query", "published"} /\ (pc' = "query" => answer' = answer)
           /\ Written(cut)' /\ ReaderInv(cut)'
  <1>1. /\ pc = "query" /\ BufferInv /\ MarkedInv
        /\ marks' = marks /\ debugList' = debugList /\ debugData' = debugData
    BY DEF OffsetsInv, GetNextDebug
  <1>2. ASSUME NEW value, Return(value)
        PROVE  /\ pc' \in {"query", "published"} /\ (pc' = "query" => answer' = answer)
               /\ Written(cut)' /\ ReaderInv(cut)'
    <2>1. pc' = "published"
      BY <1>2 DEF Return
    <2>2. \A j, n : EndsOf(pc', j, n) = EndsOf(pc, j, n)
      BY <1>1, <2>1 DEF EndsOf
    <2>3. ListCodes(cut, debugList', marks', pc')
      BY <1>1, <2>2 DEF Written, ListCodes
    <2>4. AllWritten(cut)'
      BY <1>1, <2>1 DEF Written, AllWritten
    <2> QED
      BY <2>1, <2>3, <2>4 DEF Written, ReaderInv
  <1>3. ASSUME UNCHANGED <<pc, wanted, answer>>
        PROVE  Written(cut)' /\ pc' = "query" /\ answer' = answer /\ wanted' = wanted
    BY <1>1, <1>3 DEF Written, AllWritten
  <1>4. CASE list = <<>>
    <2>1. Return(prevOfs)
      BY <1>4 DEF GetNextDebug
    <2> QED
      BY <1>2, <2>1
  <1>5. CASE list # <<>>
    <2>1. PICK j \in Nat, k \in Nat : ReaderAt(cut, j, k)
      BY <1>1, <1>5 DEF ReaderInv
    <2> DEFINE size == Len(debugList)
               high == cut[j + 1]
    <2>2. /\ Front(cut, j, k) /\ k <= Len(marks) /\ j \in 1..size /\ high \in k..Len(marks)
      BY <1>1, <2>1, Reading
    <2>3. size \in Nat /\ Len(marks) \in Nat /\ debugList \in Seq(Seq(Int)) /\ marks \in Seq(Mark)
      BY <1>1 DEF BufferInv, MarkedInv
    <2>4. /\ k \in cut[j]..high
          /\ list = SubSeq(debugList, j, size)
          /\ prevOfs = OffsetOf(marks, k)
          /\ \A i \in 1..k : marks[i][2] <= wanted
      BY <2>1 DEF ReaderAt
    <2>5. wanted \in Int
      BY <1>1 DEF ReaderInv
    <2>6. EndOfList \/ NextPair \/ NextBlock
      BY <1>5 DEF GetNextDebug
    <2>7. CASE EndOfList
      BY <1>2, <2>7 DEF EndOfList
    <2>8. CASE NextPair
      <3> DEFINE ofs == UncompressInt(reader)
                 after == Rest(reader)
      <3>1. /\ ofs # -1 /\ ofs # -2
            /\ IF UncompressInt(after) > wanted
               THEN Return(prevOfs)
               ELSE prevOfs' = ofs /\ reader' = Rest(after) /\ UNCHANGED <<pc, list, wanted, answer>>
        BY <2>8 DEF NextPair
      <3>2. CASE UncompressInt(after) > wanted
        BY <1>2, <3>1, <3>2
      <3>3. CASE ~(UncompressInt(after) > wanted)
        <4>1. /\ prevOfs' = ofs /\ reader' = Rest(after)
              /\ UNCHANGED <<pc, list, wanted, answer>>
          BY <3>1, <3>3
        <4>2. k < high /\ NextMark(reader, marks, k, high, EndsOf(pc, j, size))
          BY <2>2, <3>1 DEF Front, Begins
        <4>3. /\ ofs = marks[k + 1][1] /\ UncompressInt(after) = marks[k + 1][2]
              /\ BlockCodes(Rest(after), marks, k + 1, high, EndsOf(pc, j, size))
          BY <4>2 DEF NextMark, Begins
        <4>4. k + 1 \in 1..Len(marks) /\ k + 1 \in Nat
          BY <2>2, <2>3, <4>2
        <4>5. marks[k + 1][2] \in Int
          <5>1. marks[k + 1] \in Mark
            BY <2>3, <4>4, ElementOfSeq
          <5> QED
            BY <5>1 DEF Mark, Exact
        <4>6. \A i \in 1..(k + 1) : marks[i][2] <= wanted
          <5> TAKE i \in 1..(k + 1)
          <5>1. CASE i = k + 1
            BY <2>5, <3>3, <4>3, <4>5, <5>1
          <5>2. CASE i \in 1..k
            BY <2>4, <5>2
          <5> QED
            BY <5>1, <5>2
        <4>7. prevOfs' = OffsetOf(marks, k + 1)
          BY <4>1, <4>3 DEF OffsetOf
        <4>8. k + 1 \in cut[j]..high
          <5>1. cut[j] \in Int
            <6>1. cut \in [1..(size + 1) -> 0..Len(marks)]
              BY DEF Written, ListCodes
            <6>2. j \in 1..(size + 1)
              BY <2>2, <2>3
            <6> QED
              BY <2>3, <6>1, <6>2
          <5> QED
            BY <2>2, <2>3, <2>4, <4>2, <5>1
        <4>9. ReaderAt(cut, j, k + 1)'
          BY <1>1, <2>2, <2>4, <4>1, <4>3, <4>6, <4>7, <4>8 DEF ReaderAt
        <4>10. Written(cut)' /\ pc' = "query" /\ answer' = answer /\ wanted' = wanted
          BY <1>3, <4>1
        <4>11. ReaderInv(cut)'
          BY <2>5, <4>4, <4>9, <4>10 DEF ReaderInv
        <4> QED
          BY <4>10, <4>11
      <3> QED
        BY <3>2, <3>3
    <2>9. CASE NextBlock
      <3>1. /\ UncompressInt(reader) = -2 /\ list' = Tail(list)
            /\ reader' = IF Tail(list) = <<>> THEN <<>> ELSE Head(Tail(list))
            /\ UNCHANGED <<pc, wanted, prevOfs, answer>>
        BY <2>9 DEF NextBlock
      <3>2. k = high /\ j < size
        <4>1. ASSUME NextMark(reader, marks, k, high, EndsOf(pc, j, size)), k < high
              PROVE  FALSE
          <5>1. marks[k + 1][1] = -2
            BY <3>1, <4>1 DEF NextMark, Begins
          <5>2. k + 1 \in 1..Len(marks)
            BY <2>2, <2>3, <4>1
          <5>3. marks[k + 1] \in Mark
            BY <2>3, <5>2, ElementOfSeq
          <5> QED
            BY <5>1, <5>3 DEF Mark
        <4>2. ASSUME NEW after, Begins(reader, -1, after)
              PROVE  FALSE
          BY <3>1, <4>2 DEF Begins
        <4> QED
          BY <2>2, <4>1, <4>2 DEF Front
      <3>3. /\ j + 1 \in 1..size /\ j + 1 \in Nat /\ size \in j..size
        BY <2>2, <2>3, <3>2
      <3>4. Tail(list) = SubSeq(debugList, j + 1, size)
        BY <2>2, <2>3, <2>4, <3>3, HeadTailOfSubSeq
      <3>5. Head(Tail(list)) = debugList[j + 1] /\ Tail(list) # <<>>
        <4>1. Head(SubSeq(debugList, j + 1, size)) = debugList[j + 1]
          BY <2>3, <3>3, HeadTailOfSubSeq
        <4>2. Len(SubSeq(debugList, j + 1, size)) = size - j
          BY <2>3, <3>3
        <4>3. Len(Tail(list)) > 0 /\ Len(<<>>) = 0
          BY <2>3, <3>2, <3>3, <3>4, <4>2
        <4>4. Tail(list) # <<>>
          BY <4>3
        <4> QED
          BY <3>4, <4>1, <4>4
      <3>6. reader' = debugList[j + 1] /\ list' = SubSeq(debugList, j + 1, size)
        BY <3>1, <3>4, <3>5
      <3>7. BlockCodes(debugList[j + 1], marks, cut[j + 1], cut[j + 1 + 1],
                       EndsOf(pc, j + 1, size))
        BY <3>3 DEF Written, ListCodes
      <3>8. k \in cut[j + 1]..cut[j + 1 + 1]
        <4>1. cut[j + 1] <= cut[j + 1 + 1]
          BY <3>7 DEF BlockCodes
        <4>2. cut[j + 1 + 1] \in Int
          <5>1. cut \in [1..(size + 1) -> 0..Len(marks)]
            BY DEF Written, ListCodes
          <5>2. j + 1 + 1 \in 1..(size + 1)
            BY <2>3, <3>3
          <5>3. cut[j + 1 + 1] \in 0..Len(marks)
            BY <5>1, <5>2
          <5> QED
            BY <2>3, <5>3
        <4> QED
          BY <3>2, <4>1, <4>2
      <3>9. ReaderAt(cut, j + 1, k)'
        BY <1>1, <2>4, <3>1, <3>2, <3>3, <3>6, <3>7, <3>8 DEF ReaderAt
      <3>10. Written(cut)' /\ pc' = "query" /\ answer' = answer /\ wanted' = wanted
        BY <1>3, <3>1
      <3>11. ReaderInv(cut)'
        BY <2>5, <3>3, <3>9, <3>10 DEF ReaderInv
      <3> QED
        BY <3>10, <3>11
    <2> QED
      BY <2>6, <2>7, <2>8, <2>9
  <1> QED
    BY <1>4, <1>5

\* A lookup begins before the first mark.
LEMMA LookupBegins ==
    ASSUME OffsetsInv, NEW cut, Written(cut), NEW offset \in Lookups, get_bytecode(offset)
    PROVE  Written(cut)' /\ ReaderInv(cut)'
  <1> DEFINE size == Len(debugList)
  <1>1. /\ pc = "published" /\ pc' = "query" /\ wanted' = offset /\ list' = debugList
        /\ reader' = IF debugList = <<>> THEN <<>> ELSE Head(debugList)
        /\ prevOfs' = NoOffset
        /\ marks' = marks /\ debugData' = debugData /\ debugList' = debugList
    BY DEF get_bytecode
  <1>2. BufferInv /\ MarkedInv
    BY DEF OffsetsInv
  <1>3. /\ size \in Nat /\ Len(marks) \in Nat /\ debugList \in Seq(Seq(Int)) /\ marks \in Seq(Mark)
        /\ offset \in Int
    BY <1>2 DEF BufferInv, MarkedInv, Lookups
  <1>4. \A j, n : EndsOf(pc', j, n) = EndsOf(pc, j, n)
    BY <1>1 DEF EndsOf
  <1>5. Written(cut)'
    <2>1. ListCodes(cut, debugList', marks', pc')
      BY <1>1, <1>4 DEF Written, ListCodes
    <2>2. AllWritten(cut)'
      BY <1>1 DEF Written, AllWritten
    <2> QED
      BY <2>1, <2>2 DEF Written
  <1>6. /\ cut \in [1..(size + 1) -> 0..Len(marks)] /\ cut[1] = 0
        /\ cut[size + 1] = Len(marks)
    BY <1>1 DEF Written, ListCodes, AllWritten
  <1>7. CASE debugList = <<>>
    <2>1. size = 0
      BY <1>7
    <2>2. Len(marks) = 0
      BY <1>6, <2>1
    <2>3. marks = <<>>
      BY <1>3, <2>2
    <2> QED
      BY <1>1, <1>3, <1>5, <1>7, <2>3 DEF ReaderInv
  <1>8. CASE debugList # <<>>
    <2>1. 1 \in 1..size /\ 1 \in Nat /\ 0 \in Nat
      BY <1>3, <1>8
    <2>2. list' = SubSeq(debugList, 1, size)
      <3>1. SubSeq(debugList, 1, size) = debugList
        BY <1>3, SubSeqFull
      <3> QED
        BY <1>1, <3>1
    <2>3. reader' = debugList[1]
      BY <1>1, <1>3, <1>8
    <2>4. BlockCodes(debugList[1], marks, cut[1], cut[1 + 1], EndsOf(pc, 1, size))
      BY <2>1 DEF Written, ListCodes
    <2>5. 0 \in cut[1]..cut[1 + 1]
      <3>1. cut[1] <= cut[1 + 1]
        BY <2>4 DEF BlockCodes
      <3>2. 1 + 1 \in 1..(size + 1)
        BY <1>3, <2>1
      <3>3. cut[1 + 1] \in 0..Len(marks)
        BY <1>6, <3>2
      <3> QED
        BY <1>3, <1>6, <3>1, <3>3
    <2>6. prevOfs' = OffsetOf(marks', 0) /\ \A i \in 1..0 : marks'[i][2] <= wanted'
      BY <1>1 DEF OffsetOf
    <2>7. BlockCodes(reader', marks', 0, cut[1 + 1], EndsOf(pc', 1, size))
      BY <1>1, <1>4, <1>6, <2>3, <2>4
    <2>8. ReaderAt(cut, 1, 0)'
      BY <1>1, <2>1, <2>2, <2>5, <2>6, <2>7 DEF ReaderAt
    <2> QED
      BY <1>1, <1>3, <1>5, <2>1, <2>8 DEF ReaderInv
  <1> QED
    BY <1>7, <1>8

\* Every action keeps the invariant, while the method is shorter than 2^28 bytes.
LEMMA OffsetsStep ==
    ASSUME Offset \subseteq Exact \ {-1, -2}, OffsetsInv, [Next]_vars,
           (native <= FourByteHigh)'
    PROVE  OffsetsInv'
  <1>1. PICK cut : Written(cut) /\ ReaderInv(cut)
    BY DEF OffsetsInv
  <1>2. BufferInv /\ MarkedInv /\ AnswerInv /\ pc \in {"write", "published", "query"}
    BY DEF OffsetsInv
  <1>3. BufferInv'
    BY <1>2, BufferStep
  <1>4. ASSUME NEW offset \in Offset, NEW gap \in Gap, mark_bytecode(offset, gap)
        PROVE  OffsetsInv'
    <2> DEFINE mark == <<offset, native'>>
    <2>1. /\ pc = "write" /\ pc' = "write" /\ answer' = answer
          /\ WriteCacheDebug(offset, native')
      BY <1>4 DEF mark_bytecode, queryVars
    <2>2. mark \in Mark /\ marks' = Append(marks, mark) /\ MarkedInv' /\ Extends(marks, marks')
      BY <1>2, <1>4, MarkedMore
    <2>3. WriteCacheDebug(mark[1], mark[2])
      BY <2>1
    <2> HIDE DEF mark
    <2>4. PICK new : Written(new)'
      BY <1>1, <1>2, <2>1, <2>2, <2>3, WriteKeeps
    <2>5. AnswerInv' /\ ReaderInv(new)'
      BY <1>2, <2>1 DEF AnswerInv, ReaderInv
    <2> QED
      BY <1>3, <2>1, <2>2, <2>4, <2>5 DEF OffsetsInv
  <1>5. CASE start_method
    <2> DEFINE new == [j \in 1..1 |-> 0]
    <2>1. /\ pc = "write" /\ pc' = "write" /\ answer' = answer
          /\ marks' = <<>> /\ debugData' = <<>> /\ debugList' = <<>>
      BY <1>5 DEF start_method, queryVars
    <2>2. MarkedInv'
      BY <2>1 DEF MarkedInv
    <2>3. new \in [1..1 -> 0..0] /\ new[1] = 0
      OBVIOUS
    <2> HIDE DEF new
    <2>4. ListCodes(new, debugList', marks', pc')
      BY <2>1, <2>3 DEF ListCodes
    <2>5. AllWritten(new)'
      <3>1. Codes(<<>>, <<>>, 0, 0, <<>>)
        BY CodesNone
      <3> QED
        BY <2>1, <2>3, <3>1 DEF AllWritten
    <2>6. AnswerInv' /\ ReaderInv(new)'
      BY <1>2, <2>1 DEF AnswerInv, ReaderInv
    <2> QED
      BY <1>3, <2>1, <2>2, <2>4, <2>5, <2>6 DEF OffsetsInv, Written
  <1>6. CASE end_method
    <2>1. pc = "write" /\ pc' = "published" /\ answer' = answer /\ marks' = marks
          /\ native' = native
      BY <1>6 DEF end_method, queryVars
    <2>2. PICK new : Written(new)'
      BY <1>1, <1>2, <1>6, EndKeeps
    <2>3. MarkedInv'
      BY <1>2, <2>1 DEF MarkedInv
    <2>4. AnswerInv' /\ ReaderInv(new)'
      BY <1>2, <2>1 DEF AnswerInv, ReaderInv
    <2> QED
      BY <1>3, <2>1, <2>2, <2>3, <2>4 DEF OffsetsInv
  <1>7. ASSUME NEW offset \in Lookups, get_bytecode(offset)
        PROVE  OffsetsInv'
    <2>1. pc' = "query" /\ answer' = NoAnswer /\ marks' = marks /\ native' = native
      BY <1>7 DEF get_bytecode
    <2>2. Written(cut)' /\ ReaderInv(cut)'
      BY <1>1, <1>7, LookupBegins
    <2>3. MarkedInv' /\ AnswerInv'
      BY <1>2, <2>1 DEF MarkedInv, AnswerInv
    <2> QED
      BY <1>3, <2>1, <2>2, <2>3 DEF OffsetsInv
  <1>8. CASE GetNextDebug
    <2>1. pc = "query" /\ marks' = marks /\ native' = native
      BY <1>8 DEF GetNextDebug
    <2>2. /\ pc' \in {"query", "published"} /\ (pc' = "query" => answer' = answer)
          /\ Written(cut)' /\ ReaderInv(cut)'
      BY <1>1, <1>8, TurnKeeps
    <2>3. MarkedInv'
      BY <1>2, <2>1 DEF MarkedInv
    <2>4. AnswerInv'
      <3>1. CASE pc' = "query"
        BY <1>2, <2>1, <2>2, <3>1 DEF AnswerInv
      <3>2. CASE pc' = "published"
        BY <1>8, <3>2, AnswerRight
      <3> QED
        BY <2>2, <3>1, <3>2
    <2> QED
      BY <1>3, <2>2, <2>3, <2>4 DEF OffsetsInv
  <1>9. CASE UNCHANGED vars
    <2>1. Written(cut)' /\ ReaderInv(cut)'
      BY <1>1, <1>9 DEF vars, Written, AllWritten, ReaderInv, ReaderAt
    <2>2. MarkedInv' /\ AnswerInv' /\ pc' = pc
      BY <1>2, <1>9 DEF vars, MarkedInv, AnswerInv, BytecodeAt
    <2> QED
      BY <1>2, <1>3, <2>1, <2>2 DEF OffsetsInv
  <1> QED
    BY <1>4, <1>5, <1>6, <1>7, <1>8, <1>9 DEF Next

\* A new method has no marks and no blocks.
LEMMA OffsetsBegin == Init => OffsetsInv
  <1> SUFFICES ASSUME Init PROVE OffsetsInv
    OBVIOUS
  <1> DEFINE cut == [j \in 1..1 |-> 0]
  <1>1. /\ marks = <<>> /\ debugData = <<>> /\ debugList = <<>> /\ pc = "write"
        /\ answer = NoAnswer
    BY DEF Init
  <1>2. BufferInv
    BY DebugAssumption DEF Init, BufferInv, BufferFits
  <1>3. MarkedInv /\ AnswerInv
    BY <1>1 DEF MarkedInv, AnswerInv
  <1>4. cut \in [1..1 -> 0..0] /\ cut[1] = 0
    OBVIOUS
  <1> HIDE DEF cut
  <1>5. ListCodes(cut, debugList, marks, pc)
    BY <1>1, <1>4 DEF ListCodes
  <1>6. AllWritten(cut)
    <2>1. Codes(<<>>, <<>>, 0, 0, <<>>)
      BY CodesNone
    <2> QED
      BY <1>1, <1>4, <2>1 DEF AllWritten
  <1>7. ReaderInv(cut)
    BY <1>1 DEF ReaderInv
  <1> QED
    BY <1>1, <1>2, <1>3, <1>5, <1>6, <1>7 DEF OffsetsInv, Written

\* What the reader is about to read is inside of the block.
LEMMA ReadsInside ==
    ASSUME OffsetsInv
    PROVE  LookupRight
  <1>1. PICK cut : Written(cut) /\ ReaderInv(cut)
    BY DEF OffsetsInv
  <1>2. BufferInv /\ MarkedInv /\ AnswerInv
    BY DEF OffsetsInv
  <1>3. ReaderInBlock
    <2>1. SUFFICES ASSUME pc = "query", list # <<>>
                   PROVE  /\ reader # <<>>
                          /\ FormLength(reader[1]) <= Len(reader)
                          /\ UncompressInt(reader) \notin {-1, -2} =>
                               /\ Rest(reader) # <<>>
                               /\ FormLength(Rest(reader)[1]) <= Len(Rest(reader))
      BY DEF ReaderInBlock
    <2>2. PICK j \in Nat, k \in Nat : ReaderAt(cut, j, k)
      BY <1>1, <2>1 DEF ReaderInv
    <2>3. Front(cut, j, k)
      BY <1>1, <1>2, <2>1, <2>2, Reading
    <2>4. CASE NextMark(reader, marks, k, cut[j + 1], EndsOf(pc, j, Len(debugList)))
      BY <2>4 DEF NextMark, Begins
    <2>5. ASSUME NEW after, Begins(reader, -1, after) \/ Begins(reader, -2, after)
          PROVE  /\ reader # <<>>
                 /\ FormLength(reader[1]) <= Len(reader)
                 /\ UncompressInt(reader) \in {-1, -2}
      BY <2>5 DEF Begins
    <2> QED
      BY <2>3, <2>4, <2>5 DEF Front
  <1> QED
    BY <1>2, <1>3 DEF LookupRight, AnswerInv

\* As long as the native offsets are below 2^28, as those of the exact form are,
\* _jit_cache_get_bytecode finds the last mark at or before a native offset,
\* however the marks spread over the blocks and however large the buffer is.  The
\* offsets -1 and -2 are the end marks of the encoding and are no offsets.
THEOREM AlwaysLookedUpRight ==
    ASSUME Offset \subseteq Exact \ {-1, -2}
    PROVE  Spec /\ [](native <= FourByteHigh) => []LookupRight
  <1>1. Init => OffsetsInv
    BY OffsetsBegin
  <1>2. OffsetsInv /\ [Next]_vars /\ (native <= FourByteHigh)' => OffsetsInv'
    BY OffsetsStep
  <1>3. OffsetsInv => LookupRight
    BY ReadsInside
  <1> QED
    BY <1>1, <1>2, <1>3, PTL DEF Spec

=============================================================================
