----------------------------- MODULE FileBuffer -----------------------------
(***************************************************************************)
(* FileBuffer_Read (djmount/file_buffer.c): one read of a file whose        *)
(* content is text in memory, or is fetched by a HTTP range request.        *)
(*                                                                         *)
(* A byte of the file is its position, and a byte of an error page is        *)
(* Garbage.  size_t and off_t have the same width w, as on a 64-bit machine: *)
(* OffMax is 2^(w-1) - 1, and in an expression with a size_t everything is   *)
(* unsigned.                                                                *)
(***************************************************************************)
EXTENDS Integers, Sequences

CONSTANTS
  OffMax,     \* the largest off_t
  MaxLength,  \* bound: length of files
  Asked       \* bound: the sizes of reads

SizeMax == 2 * OffMax + 1

ASSUME OffMaxAssumption == OffMax \in Nat
ASSUME LengthAssumption == MaxLength \in 0 .. OffMax
ASSUME AskedAssumption  == Asked \subseteq 1 .. SizeMax

VARIABLES
  kind,           \* where the content is: "text" or "url"
  length,         \* of the file
  fileSize,       \* file->file_size
  honours,        \* the server honours ranges; else it may send all it has
  pc,
  offset, asked,  \* arguments of the read
  size,           \* the argument after it was adjusted to file_size
  entity,         \* what the server still has to send
  buffer,         \* the bytes copied
  rc              \* n, the result: a number of bytes or an error; 0 at the beginning

file == <<kind, length, fileSize, honours>>
vars == <<file, pc, offset, asked, size, entity, buffer, rc>>

Garbage   == -1
EIO       == -5
ENOMEM    == -12
EOVERFLOW == -75

Unsigned(x)    == x % (SizeMax + 1)
ExactRead      == fileSize >= 0
Smaller(a, b)  == IF a < b THEN a ELSE b
Bytes(lo, hi)  == [i \in 1 .. hi - lo + 1 |-> lo + i - 1]
Content        == Bytes(0, length - 1)

(* Text has its own size.  A server tells any size of a file, or none:       *)
(* djmount then has a default, or -1.                                       *)
SizesFor(k, len) ==
  IF k = "text" THEN {len} ELSE -1 .. OffMax

Init ==
  /\ kind \in {"text", "url"}
  /\ length \in 0 .. MaxLength
  /\ fileSize \in SizesFor(kind, length)
  /\ honours \in BOOLEAN
  /\ pc = "idle"
  /\ offset = 0 /\ asked = 0 /\ size = 0
  /\ entity = << >> /\ buffer = << >>
  /\ rc = 0

Return(result) ==
  /\ pc' = "done"
  /\ rc' = result

(* A call of FileBuffer_Read.                                               *)
Call(k, off, sz) ==
  /\ pc \in {"idle", "done"}
  /\ kind = k
  /\ offset' = off /\ asked' = sz
  /\ entity' = << >>
  /\ UNCHANGED file

(* The part of a text that is asked for is copied.                          *)
ReadText(off, sz) ==
  LET n == IF off < fileSize THEN Smaller(sz, fileSize - off) ELSE 0 IN
  /\ Call("text", off, sz)
  /\ size' = sz
  /\ buffer' = SubSeq(Content, off + 1, off + n)
  /\ Return(n)

Overflows(off, sz) == off > SizeMax - sz

Overflow(off, sz) ==
  /\ Call("url", off, sz)
  /\ Overflows(off, sz)
  /\ size' = sz /\ buffer' = << >>
  /\ Return(EOVERFLOW)

(* The request is adjusted to the file size, if known.  fileSize - sz is    *)
(* unsigned: it is huge when the size asked for is larger than the file.    *)
Adjusted(off, sz) ==
  IF fileSize >= 0 /\ off > Unsigned(fileSize - sz)
  THEN IF fileSize > off THEN fileSize - off ELSE 0
  ELSE sz

ReadURL(off, sz) ==
  /\ Call("url", off, sz)
  /\ ~Overflows(off, sz)
  /\ size' = Adjusted(off, sz)
  /\ buffer' = << >>
  /\ pc' = "open" /\ rc' = 0

(* Mutant of LastByte: the range ends one byte too early.                   *)
LastByteTooSmall == Unsigned(offset + size - 2)

LastByte == Unsigned(offset + size - 1)

(* What the server may send; the status of the answer is not looked at.  A  *)
(* server that does not honour the range sends all, or nothing, or breaks   *)
(* off and nothing tells that more should come.                             *)
RangeAsked == Bytes(offset, Smaller(LastByte, length - 1))

Entities ==
  IF honours
  THEN { IF offset < length THEN RangeAsked ELSE << Garbage >> }
  ELSE { Content } \cup { SubSeq(RangeAsked, 1, n) : n \in 0 .. Len(RangeAsked) - 1 }

(* UpnpOpenHttpGetEx refuses an empty range, and may fail.                  *)
Open ==
  /\ pc = "open"
  /\ offset <= LastByte
  /\ entity' \in Entities
  /\ pc' = "read"
  /\ UNCHANGED <<file, offset, asked, size, buffer, rc>>

(* An error of libupnp is told as one of two.                               *)
Fails ==
  /\ \E error \in {EIO, ENOMEM} : Return(error)
  /\ UNCHANGED <<file, offset, asked, size, entity, buffer>>

OpenFails == pc = "open" /\ Fails

(* UpnpReadHttpGet copies some bytes, none only at the end: FileBuffer_Read  *)
(* counts on no more than this.                                             *)
Chunks ==
  LET most == Smaller(size - Len(buffer), Len(entity)) IN
  IF most = 0 THEN {0} ELSE 1 .. most

(* Mutant of Finished: the loop does not stop when nothing is read.         *)
LastWhenFull(n) == ~ExactRead \/ Len(buffer) + n >= size

Finished(n) == n = 0 \/ ~ExactRead \/ Len(buffer) + n >= size

Read ==
  /\ pc = "read"
  /\ \E n \in Chunks :
       /\ buffer' = buffer \o SubSeq(entity, 1, n)
       /\ entity' = SubSeq(entity, n + 1, Len(entity))
       /\ IF Finished(n) THEN Return(Len(buffer) + n) ELSE UNCHANGED <<pc, rc>>
  /\ UNCHANGED <<file, offset, asked, size>>

ReadFails == pc = "read" /\ Fails

Next ==
  \/ \E off \in 0 .. OffMax, sz \in Asked :
       ReadText(off, sz) \/ Overflow(off, sz) \/ ReadURL(off, sz)
  \/ Open \/ OpenFails \/ Read \/ ReadFails

Spec == Init /\ [][Next]_vars
-----------------------------------------------------------------------------
(* Properties.                                                              *)

(* Every variable keeps its type.                                           *)
TypeOK ==
  /\ kind \in {"text", "url"}
  /\ length \in Nat /\ fileSize \in Nat \cup {-1} /\ honours \in BOOLEAN
  /\ pc \in {"idle", "open", "read", "done"}
  /\ offset \in Nat /\ asked \in Nat /\ size \in Nat
  /\ entity \in Seq(Nat \cup {Garbage})
  /\ buffer \in Seq(Nat \cup {Garbage})
  /\ rc \in Nat \cup {EIO, ENOMEM, EOVERFLOW}

PartOfFile ==
  \A i \in 1 .. Len(buffer) : offset + i <= length /\ buffer[i] = offset + i - 1

(* Where a read ends at the latest: at the end of the file, or at the size   *)
(* that was told when that is smaller.                                      *)
ToldEnd == Smaller(length, fileSize)

(* What is read of a text, or within the file from a server that honours    *)
(* ranges, are the bytes of the file from the offset on, as many as rc says, *)
(* whatever size the server told and however the answer came in pieces; and *)
(* no server makes it copy more than the buffer of the caller takes.  A file *)
(* for which FileBuffer_HasExactRead is true gives all the bytes asked for,  *)
(* up to its end or to the size that was told.                              *)
ReadsFile ==
  /\ Len(buffer) <= asked
  /\ pc = "done" /\ rc >= 0 /\ (kind = "text" \/ (honours /\ offset < length)) =>
       /\ PartOfFile /\ Len(buffer) = rc
       /\ ExactRead /\ offset < ToldEnd => rc >= Smaller(asked, ToldEnd - offset)
=============================================================================
