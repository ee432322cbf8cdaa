------------------------------ MODULE DebugInfo ------------------------------
(***************************************************************************)
(* The offsets a method carries (jit/jit-cache.c): the code generator      *)
(* marks pairs (bytecode offset, native offset), CompressInt packs them    *)
(* into the buffer cache->debugData, a full buffer is flushed to a block   *)
(* of the method's debug list, and _jit_cache_get_bytecode walks the list  *)
(* of a published method to map a native offset back.                      *)
(*                                                                         *)
(* Bytes are modelled exactly, since the property is about them.  A "long" *)
(* is taken from the range of jit_int, the type of the argument of         *)
(* jit_insn_mark_offset and of every native offset in a page block.        *)
(* Where the blocks lie is the business of CodeCache.                      *)
(***************************************************************************)
EXTENDS Integers, Sequences

CONSTANTS
    BufSize,    \* JIT_CACHE_DEBUG_SIZE
    Offset,     \* bytecode offsets given to jit_insn_mark_offset
    Gap,        \* bytes of code between two marks
    MaxMarks    \* bound on the marks of one translation

NoOffset == -1  \* JIT_CACHE_NO_OFFSET, as the int the callers see

ASSUME DebugAssumption ==
    /\ BufSize \in Nat /\ BufSize >= 11
    /\ Offset \subseteq Int
    /\ Gap \subseteq Nat
    /\ MaxMarks \in Nat

-----------------------------------------------------------------------------
(***************************************************************************)
(* CompressInt.  The bits of "data" are spread over 1, 2, 4 or 5 bytes;    *)
(* the lowest bit of the last byte is the sign.                            *)
(***************************************************************************)
Sign(data) == IF data < 0 THEN 1 ELSE 0

LowBits(data, width) == 2 * (data % width) + Sign(data)

Bits(data, shift) == (data \div shift) % 256

FourByteLow == -536870912   \* -(1L << 29)
FourByteHigh == 268435455   \* (1L << 28) - 1

CompressInt(data) ==
    IF -64 <= data /\ data < 64
    THEN <<LowBits(data, 64)>>
    ELSE IF -8192 <= data /\ data < 8192
    THEN <<128 + ((data \div 128) % 64), LowBits(data, 128)>>
    ELSE IF FourByteLow <= data /\ data <= FourByteHigh
    THEN <<192 + ((data \div 8388608) % 32), Bits(data, 32768), Bits(data, 128),
           LowBits(data, 128)>>
    ELSE <<224 + Sign(data), Bits(data, 8388608), Bits(data, 32768), Bits(data, 128),
           LowBits(data, 128)>>

(***************************************************************************)
(* UncompressInt reads the value at the front of the bytes s.  The form is *)
(* chosen by the first byte; the sign bit fills the upper bits, except in  *)
(* the five-byte form, which returns the 32 bits as they are.              *)
(***************************************************************************)
FormLength(ch) == IF ch < 128 THEN 1 ELSE IF ch < 192 THEN 2 ELSE IF ch < 224 THEN 4 ELSE 5

Signed_ForgetsSign(value, size) == value \div 2

Signed(value, size) == IF value % 2 = 0 THEN value \div 2 ELSE value \div 2 - size

UncompressInt(s) ==
    CASE FormLength(s[1]) = 1 -> Signed(s[1], 64)
      [] FormLength(s[1]) = 2 -> Signed((s[1] % 64) * 256 + s[2], 8192)
      [] FormLength(s[1]) = 4 ->
           Signed((s[1] % 32) * 16777216 + s[2] * 65536 + s[3] * 256 + s[4], 268435456)
      [] FormLength(s[1]) = 5 ->
           (IF s[2] < 128 THEN s[2] ELSE s[2] - 256) * 16777216
             + s[3] * 65536 + s[4] * 256 + s[5]

Rest(s) == SubSeq(s, FormLength(s[1]) + 1, Len(s))

-----------------------------------------------------------------------------
VARIABLES
    marks,      \* ghost: the pairs marked in this translation
    native,     \* bytes of code emitted so far
    debugData,  \* the bytes in the buffer
    debugList,  \* the blocks from firstDebug to lastDebug
    pc,         \* "write", "published" or "query"
    list,       \* iter->list, as the blocks not yet finished
    reader,     \* the bytes of the first of them not yet read
    wanted,     \* the native offset looked up
    prevOfs,    \* the offset of the last pair at or before it
    answer      \* the answer to the last lookup, or NoAnswer

vars == <<marks, native, debugData, debugList, pc, list, reader, wanted, prevOfs, answer>>
queryVars == <<list, reader, wanted, prevOfs, answer>>

NoAnswer == <<>>

(***************************************************************************)
(* WriteCacheDebug: append a pair; when the largest pair might not fit any *)
(* more, end the block with -2 and flush it.                               *)
(***************************************************************************)
WriteCacheDebug_OneShort(offset, nativeOffset) ==
    LET data == debugData \o CompressInt(offset) \o CompressInt(nativeOffset)
    IN  IF Len(data) + 10 > BufSize
        THEN /\ debugData' = <<>>
             /\ debugList' = Append(debugList, data \o CompressInt(-2))
        ELSE /\ debugData' = data
             /\ UNCHANGED debugList

WriteCacheDebug_NoEndOfBlock(offset, nativeOffset) ==
    LET data == debugData \o CompressInt(offset) \o CompressInt(nativeOffset)
    IN  IF Len(data) + 5 * 2 + 1 > BufSize
        THEN /\ debugData' = <<>>
             /\ debugList' = Append(debugList, data)
        ELSE /\ debugData' = data
             /\ UNCHANGED debugList

WriteCacheDebug(offset, nativeOffset) ==
    LET data == debugData \o CompressInt(offset) \o CompressInt(nativeOffset)
    IN  IF Len(data) + 5 * 2 + 1 > BufSize
        THEN /\ debugData' = <<>>
             /\ debugList' = Append(debugList, data \o CompressInt(-2))
        ELSE /\ debugData' = data
             /\ UNCHANGED debugList

Init ==
    /\ marks = <<>>
    /\ native = 0
    /\ debugData = <<>>
    /\ debugList = <<>>
    /\ pc = "write"
    /\ list = <<>> /\ reader = <<>>
    /\ wanted = 0
    /\ prevOfs = NoOffset
    /\ answer = NoAnswer

(***************************************************************************)
(* _jit_cache_mark_bytecode after "gap" more bytes of code.                *)
(***************************************************************************)
mark_bytecode(offset, gap) ==
    /\ pc = "write"
    /\ Len(marks) < MaxMarks
    /\ native' = native + gap
    /\ marks' = Append(marks, <<offset, native'>>)
    /\ WriteCacheDebug(offset, native')
    /\ UNCHANGED <<pc, queryVars>>

(***************************************************************************)
(* The position overflowed: _jit_cache_start_method clears the debug data  *)
(* and the function is translated from its beginning.                      *)
(***************************************************************************)
start_method_KeepsBuffer ==
    /\ pc = "write"
    /\ marks' = <<>>
    /\ native' = 0
    /\ debugList' = <<>>
    /\ UNCHANGED <<debugData, pc, queryVars>>

start_method ==
    /\ pc = "write"
    /\ marks' = <<>>
    /\ native' = 0
    /\ debugData' = <<>>
    /\ debugList' = <<>>
    /\ UNCHANGED <<pc, queryVars>>

(***************************************************************************)
(* _jit_cache_end_method, when the last block finds room: the pair         *)
(* (-1, -1) ends the list, if there is one, and the buffer is flushed.     *)
(***************************************************************************)
end_method ==
    /\ pc = "write"
    /\ pc' = "published"
    /\ LET data == debugData \o CompressInt(-1) \o CompressInt(-1)
           last == IF Len(data) + 5 * 2 + 1 > BufSize THEN data \o CompressInt(-2) ELSE data
       IN  debugList' = IF debugList # <<>> \/ debugData # <<>>
                        THEN Append(debugList, last) ELSE debugList
    /\ debugData' = <<>>
    /\ UNCHANGED <<marks, native, queryVars>>

-----------------------------------------------------------------------------
(***************************************************************************)
(* _jit_cache_get_bytecode of a program counter in the method, with        *)
(* exact = 0, the only value its callers pass.  InitDebugIter finds the    *)
(* list of the method.                                                     *)
(***************************************************************************)
get_bytecode(offset) ==
    /\ pc = "published"
    /\ pc' = "query"
    /\ wanted' = offset
    /\ list' = debugList
    /\ reader' = IF debugList = <<>> THEN <<>> ELSE Head(debugList)
    /\ prevOfs' = NoOffset
    /\ answer' = NoAnswer
    /\ UNCHANGED <<marks, native, debugData, debugList>>

Return(value) ==
    /\ pc' = "published"
    /\ answer' = <<wanted, value>>
    /\ list' = <<>> /\ reader' = <<>>
    /\ wanted' = 0 /\ prevOfs' = NoOffset

EndOfList ==
    /\ UncompressInt(reader) = -1
    /\ Return(prevOfs)

NextPair ==
    LET ofs == UncompressInt(reader)
        after == Rest(reader)
        nativeOfs == UncompressInt(after)
    IN  /\ ofs # -1 /\ ofs # -2
        /\ IF nativeOfs > wanted
           THEN Return(prevOfs)
           ELSE /\ prevOfs' = ofs
                /\ reader' = Rest(after)
                /\ UNCHANGED <<pc, list, wanted, answer>>

NextBlock ==
    /\ UncompressInt(reader) = -2
    /\ list' = Tail(list)
    /\ reader' = IF Tail(list) = <<>> THEN <<>> ELSE Head(Tail(list))
    /\ UNCHANGED <<pc, wanted, prevOfs, answer>>

(***************************************************************************)
(* GetNextDebug and the body of the loop around it.                        *)
(***************************************************************************)
GetNextDebug ==
    /\ pc = "query"
    /\ IF list = <<>> THEN Return(prevOfs) ELSE EndOfList \/ NextPair \/ NextBlock
    /\ UNCHANGED <<marks, native, debugData, debugList>>

\* The program counters worth looking up: those at a mark and next to one.
Lookups == {0, native} \cup
           ({marks[i][2] + d : i \in 1..Len(marks), d \in {-1, 1}} \cap 0..native)

Next ==
    \/ \E offset \in Offset, gap \in Gap : mark_bytecode(offset, gap)
    \/ start_method
    \/ end_method
    \/ \E offset \in Lookups : get_bytecode(offset)
    \/ GetNextDebug

Spec == Init /\ [][Next]_vars

-----------------------------------------------------------------------------
Byte == 0..255

\* Type invariant: the buffers hold bytes and the answers are offsets.
TypeOK ==
    /\ \A i \in 1..Len(marks) : marks[i][1] \in Offset /\ marks[i][2] \in 0..native
    /\ debugData \in Seq(Byte)
    /\ debugList \in Seq(Seq(Byte))
    /\ pc \in {"write", "published", "query"}
    /\ list \in Seq(Seq(Byte))
    /\ reader \in Seq(Byte)
    /\ wanted \in 0..native
    /\ prevOfs \in Int
    /\ answer # NoAnswer => answer[1] \in 0..native

\* WriteCacheDebug and FlushCacheDebug never write past the end of debugData,
\* and a buffered block is always one the next pair still fits in.
BufferFits ==
    /\ Len(debugData) + 11 <= BufSize
    /\ \A i \in 1..Len(debugList) : Len(debugList[i]) <= BufSize

\* The reader of GetNextDebug, which is told that every block has
\* JIT_CACHE_DEBUG_SIZE bytes, stops before the end of the block.
ReaderInBlock ==
    pc = "query" /\ list # <<>> =>
        /\ reader # <<>>
        /\ FormLength(reader[1]) <= Len(reader)
        /\ UncompressInt(reader) \notin {-1, -2} =>
             /\ Rest(reader) # <<>>
             /\ FormLength(Rest(reader)[1]) <= Len(Rest(reader))

\* What a lookup has to find: the last mark at or before a native offset.
BytecodeAt(offset) ==
    LET before == {i \in 1..Len(marks) : marks[i][2] <= offset}
    IN  IF before = {} THEN NoOffset
        ELSE marks[CHOOSE i \in before : \A j \in before : j <= i][1]

\* _jit_cache_get_bytecode answers with the bytecode offset of the last mark
\* at or before the native offset, for every way the marks spread over blocks,
\* and reads no byte behind a block to find it.
LookupRight ==
    /\ ReaderInBlock
    /\ answer # NoAnswer => answer[2] = BytecodeAt(answer[1])

\* "Uncompress a value that was compressed by "CompressInt"" (jit-cache.c):
\* reading a mark back gives the offset that was given to mark_bytecode.
ReadsBackWhatWasMarked ==
    \A i \in 1..Len(marks) : UncompressInt(CompressInt(marks[i][1])) = marks[i][1]

=============================================================================
