-------------------------- MODULE FileBufferProofs --------------------------
(***************************************************************************)
(* A read of a file gives the bytes of the file, whatever the widths of its *)
(* integers, its size and the pieces that the answer comes in (FileBuffer);  *)
(* and the parser of answers, which takes the heads of chunks out of its     *)
(* buffer as they come, gives it the bytes of the entity, whatever form the  *)
(* answer has and wherever the network cuts it (FileGet).                   *)
(***************************************************************************)
EXTENDS FileGet, SequenceTheorems, TLAPS

Byte == Nat \cup {Garbage}

-----------------------------------------------------------------------------
(* Words.                                                                   *)

(* A number that fits is its own unsigned value; a negative one wraps.      *)
LEMMA UnsignedFacts ==
  ASSUME NEW x \in Int
  PROVE  /\ Unsigned(x) \in 0 .. SizeMax
         /\ x \in 0 .. SizeMax => Unsigned(x) = x
         /\ x \in -SizeMax .. -1 => Unsigned(x) = x + SizeMax + 1
  <1>1. Unsigned(x) \in 0 .. SizeMax
    BY OffMaxAssumption DEF Unsigned, SizeMax
  <1>2. x \in 0 .. SizeMax => Unsigned(x) = x
    BY OffMaxAssumption DEF Unsigned, SizeMax
  <1>3. x \in -SizeMax .. -1 => Unsigned(x) = x + SizeMax + 1
    BY OffMaxAssumption DEF Unsigned, SizeMax
  <1>4. QED
    BY <1>1, <1>2, <1>3

(* The sizes that a file may have.                                          *)
SizesOK ==
  /\ kind \in {"text", "url"}
  /\ length \in 0 .. MaxLength
  /\ fileSize \in SizesFor(kind, length)

LEMMA SizesFacts ==
  ASSUME SizesOK
  PROVE  /\ length \in Nat /\ length <= OffMax
         /\ fileSize \in -1 .. OffMax
         /\ kind = "text" => fileSize = length
  BY OffMaxAssumption, LengthAssumption DEF SizesOK, SizesFor

(* The adjusted request asks for no more than the caller did, and leaves out *)
(* no byte of the file within the size that was told, although the           *)
(* subtraction may wrap.                                                    *)
LEMMA AdjustedFacts ==
  ASSUME SizesOK, NEW off \in 0 .. OffMax, NEW sz \in Asked, ~Overflows(off, sz)
  PROVE  /\ Adjusted(off, sz) \in 0 .. sz
         /\ Adjusted(off, sz) > 0 \/ off > 0
         /\ ExactRead /\ off < ToldEnd =>
              Adjusted(off, sz) >= Smaller(sz, ToldEnd - off)
  <1>1. /\ sz \in 1 .. SizeMax /\ SizeMax \in Nat /\ off \in Nat
        /\ SizeMax = 2 * OffMax + 1 /\ OffMax \in Nat
        /\ off + sz <= SizeMax
    BY AskedAssumption, OffMaxAssumption DEF SizeMax, Overflows
  <1>2. /\ length \in Nat /\ length <= OffMax
        /\ fileSize \in -1 .. OffMax
    BY SizesFacts
  <1>3. CASE fileSize >= 0 /\ off > Unsigned(fileSize - sz)
    <2>1. fileSize >= sz /\ off > fileSize - sz
      <3>1. fileSize - sz \in Int
        BY <1>1, <1>2
      <3>2. ASSUME fileSize < sz PROVE FALSE
        <4>1. fileSize - sz \in -SizeMax .. -1
          BY <1>1, <1>2, <1>3, <3>2
        <4>2. Unsigned(fileSize - sz) = fileSize - sz + SizeMax + 1
          BY <3>1, <4>1, UnsignedFacts
        <4>3. QED
          BY <1>1, <1>2, <1>3, <4>2
      <3>3. fileSize - sz \in 0 .. SizeMax
        BY <1>1, <1>2, <3>2
      <3>4. QED
        BY <1>1, <1>2, <1>3, <3>1, <3>2, <3>3, UnsignedFacts
    <2>2. Adjusted(off, sz) = IF fileSize > off THEN fileSize - off ELSE 0
      BY <1>3 DEF Adjusted
    <2>3. QED
      BY <1>1, <1>2, <2>1, <2>2 DEF Smaller, ToldEnd
  <1>4. CASE ~(fileSize >= 0 /\ off > Unsigned(fileSize - sz))
    BY <1>1, <1>2, <1>4 DEF Adjusted, Smaller, ToldEnd
  <1>5. QED
    BY <1>3, <1>4

-----------------------------------------------------------------------------
(* Sequences of bytes.                                                      *)

LEMMA BytesFacts ==
  ASSUME NEW lo \in Nat, NEW hi \in Int
  PROVE  /\ Bytes(lo, hi) \in Seq(Nat)
         /\ Len(Bytes(lo, hi)) = IF lo <= hi THEN hi - lo + 1 ELSE 0
         /\ \A i \in 1 .. Len(Bytes(lo, hi)) : Bytes(lo, hi)[i] = lo + i - 1
  <1>1. PICK n \in Nat : n = IF lo <= hi THEN hi - lo + 1 ELSE 0
    <2>1. (IF lo <= hi THEN hi - lo + 1 ELSE 0) \in Nat
      OBVIOUS
    <2>2. QED
      BY <2>1
  <1>2. 1 .. hi - lo + 1 = 1 .. n
    BY <1>1
  <1>3. Bytes(lo, hi) = [i \in 1 .. n |-> lo + i - 1]
    BY <1>2 DEF Bytes
  <1>4. \A i \in 1 .. n : lo + i - 1 \in Nat
    OBVIOUS
  <1>5. Bytes(lo, hi) \in [1 .. n -> Nat]
    BY <1>3, <1>4
  <1>6. Bytes(lo, hi) \in Seq(Nat) /\ Len(Bytes(lo, hi)) = n
    <2>1. Bytes(lo, hi) \in Seq(Nat)
      BY <1>5, SeqDef
    <2>2. DOMAIN Bytes(lo, hi) = 1 .. n
      BY <1>5
    <2>3. Len(Bytes(lo, hi)) \in Nat /\ DOMAIN Bytes(lo, hi) = 1 .. Len(Bytes(lo, hi))
      BY <2>1, LenProperties
    <2>4. QED
      BY <2>1, <2>2, <2>3
  <1>7. QED
    BY <1>1, <1>3, <1>6

LEMMA SubSeqFacts ==
  ASSUME NEW S, NEW s \in Seq(S), NEW m \in Nat, NEW n \in Nat, n <= Len(s), m <= n
  PROVE  /\ SubSeq(s, m + 1, n) \in Seq(S)
         /\ Len(SubSeq(s, m + 1, n)) = n - m
         /\ \A i \in 1 .. n - m : SubSeq(s, m + 1, n)[i] = s[m + i]
  <1>1. Len(s) \in Nat
    BY LenProperties
  <1>2. \A i \in m + 1 .. n : i \in 1 .. Len(s)
    BY <1>1
  <1>3. \A i \in m + 1 .. n : s[i] \in S
    BY <1>2, ElementOfSeq
  <1>4. QED
    BY <1>1, <1>3, SubSeqProperties

-----------------------------------------------------------------------------
(***************************************************************************)
(* The invariant.                                                          *)
(***************************************************************************)

(* A read by the network that began: what it asks for does not wrap.        *)
RequestOK ==
  pc \in {"open", "read"} =>
    /\ kind = "url"
    /\ offset \in 0 .. OffMax /\ asked \in Asked
    /\ ~Overflows(offset, asked)
    /\ size = Adjusted(offset, asked)

(* What has been copied of the file, and what still comes of it.            *)
Comes ==
  /\ Len(buffer) + Len(entity) = Smaller(size, length - offset)
  /\ \A i \in 1 .. Len(entity) : entity[i] = offset + Len(buffer) + i - 1

Progress ==
  /\ Len(buffer) <= asked
  /\ pc = "open" => buffer = << >>
  /\ pc = "read" => /\ Len(buffer) <= size
                    /\ honours /\ offset < length => PartOfFile /\ Comes

(* The inductive invariant: the bytes copied and those that still come make *)
(* up the part of the file that was asked for.                              *)
IInv == TypeOK /\ SizesOK /\ RequestOK /\ Progress /\ ReadsFile

LEMMA InitInv ==
  ASSUME Init PROVE IInv
  <1>1. /\ pc = "idle" /\ offset = 0 /\ asked = 0 /\ size = 0 /\ rc = 0
        /\ entity = << >> /\ buffer = << >> /\ honours \in BOOLEAN
    BY DEF Init
  <1>2. SizesOK
    BY DEF Init, SizesOK
  <1>3. TypeOK
    BY <1>1, <1>2, SizesFacts DEF TypeOK, SizesOK
  <1>4. QED
    BY <1>1, <1>2, <1>3 DEF IInv, RequestOK, Progress, ReadsFile

LEMMA UnchangedInv ==
  ASSUME IInv, UNCHANGED vars PROVE IInv'
  BY DEF IInv, vars, file, TypeOK, SizesOK, SizesFor, RequestOK, Overflows, Adjusted,
         Progress, Comes, PartOfFile, ReadsFile, ExactRead, ToldEnd, Smaller

(* A step that leaves the file and does not begin a request keeps the sizes. *)
LEMMA SizesKept ==
  ASSUME SizesOK, UNCHANGED file
  PROVE  SizesOK' /\ (ExactRead' <=> ExactRead)
  BY DEF SizesOK, SizesFor, file, ExactRead

LEMMA TextStep ==
  ASSUME IInv, NEW off \in 0 .. OffMax, NEW sz \in Asked, ReadText(off, sz)
  PROVE  IInv'
  <1>1. PICK n : n = IF off < fileSize THEN Smaller(sz, fileSize - off) ELSE 0
    OBVIOUS
  <1>2. /\ kind = "text" /\ offset' = off /\ asked' = sz /\ size' = sz
        /\ entity' = << >> /\ UNCHANGED file
        /\ buffer' = SubSeq(Content, off + 1, off + n)
        /\ pc' = "done" /\ rc' = n
    BY <1>1 DEF ReadText, Call, Return
  <1>3. /\ sz \in Nat \ {0} /\ off \in Nat /\ length \in Nat /\ fileSize = length
    BY <1>2, SizesFacts, AskedAssumption, OffMaxAssumption DEF IInv, SizesOK
  <1>4. /\ n \in 0 .. sz
        /\ off < length => n = Smaller(sz, length - off)
        /\ off >= length => n = 0
        /\ n > 0 => off + n <= length
    BY <1>1, <1>3 DEF Smaller
  <1>5. /\ Content \in Seq(Nat) /\ Len(Content) = length
        /\ \A i \in 1 .. length : Content[i] = i - 1
    <2>1. PICK hi \in Int : hi = length - 1
      BY <1>3
    <2>2. /\ Bytes(0, hi) \in Seq(Nat)
          /\ Len(Bytes(0, hi)) = IF 0 <= hi THEN hi - 0 + 1 ELSE 0
          /\ \A i \in 1 .. Len(Bytes(0, hi)) : Bytes(0, hi)[i] = 0 + i - 1
      BY BytesFacts
    <2>3. Content = Bytes(0, hi)
      BY <2>1 DEF Content
    <2>4. Len(Content) = length
      BY <1>3, <2>1, <2>2, <2>3
    <2>5. \A i \in 1 .. length : Content[i] = 0 + i - 1
      BY <2>2, <2>3, <2>4
    <2>6. QED
      BY <1>3, <2>2, <2>3, <2>4, <2>5
  <1>6. /\ buffer' \in Seq(Nat) /\ Len(buffer') = n
        /\ \A i \in 1 .. n : buffer'[i] = off + i - 1 /\ off + i <= length
    <2>1. CASE n = 0
      <3>1. buffer' = << >>
        BY <1>2, <1>3, <2>1, SubSeqEmpty
      <3>2. QED
        BY <2>1, <3>1
    <2>2. CASE n > 0
      <3>1. off + n \in Nat /\ off + n <= Len(Content) /\ off <= off + n
        BY <1>3, <1>4, <1>5, <2>2
      <3>2. /\ buffer' \in Seq(Nat) /\ Len(buffer') = n
            /\ \A i \in 1 .. n : buffer'[i] = Content[off + i]
        <4>1. PICK m \in Nat : m = off + n
          BY <3>1
        <4>2. /\ SubSeq(Content, off + 1, m) \in Seq(Nat)
              /\ Len(SubSeq(Content, off + 1, m)) = m - off
              /\ \A i \in 1 .. m - off : SubSeq(Content, off + 1, m)[i] = Content[off + i]
          <5>1. off \in Nat /\ off <= m /\ m <= Len(Content) /\ Content \in Seq(Nat)
            BY <1>3, <1>5, <3>1, <4>1
          <5>2. QED
            BY <5>1, SubSeqFacts
        <4>3. m - off = n
          BY <1>3, <1>4, <4>1
        <4>4. buffer' = SubSeq(Content, off + 1, m)
          BY <1>2, <4>1
        <4>5. QED
          BY <4>2, <4>3, <4>4
      <3>3. \A i \in 1 .. n : off + i \in 1 .. length
        BY <1>3, <1>4, <3>1, <1>5
      <3>4. \A i \in 1 .. n : Content[off + i] = off + i - 1
        BY <1>3, <1>4, <1>5, <3>3
      <3>5. \A i \in 1 .. n : off + i <= length
        BY <1>3, <1>4, <3>3
      <3>6. QED
        BY <3>2, <3>4, <3>5
    <2>3. QED
      BY <1>4, <2>1, <2>2
  <1>7. SizesOK' /\ (ExactRead' <=> ExactRead)
    BY <1>2, SizesKept DEF IInv
  <1>8. TypeOK'
    <2>1. buffer' \in Seq(Byte) /\ entity' \in Seq(Byte)
      BY <1>2, <1>6, SeqMonotonic DEF Byte
    <2>2. QED
      BY <1>2, <1>3, <1>4, <2>1 DEF IInv, TypeOK, file, Byte
  <1>9. PartOfFile'
    BY <1>2, <1>6 DEF PartOfFile, file
  <1>10. ReadsFile'
    <2>1. ToldEnd' = length
      BY <1>2, <1>3 DEF ToldEnd, Smaller, file
    <2>2. off < length => n >= Smaller(sz, length - off)
      BY <1>3, <1>4 DEF Smaller
    <2>3. QED
      BY <1>2, <1>3, <1>4, <1>6, <1>9, <2>1, <2>2 DEF ReadsFile, file
  <1>11. QED
    BY <1>2, <1>3, <1>4, <1>6, <1>7, <1>8, <1>10 DEF IInv, RequestOK, Progress

LEMMA OverflowStep ==
  ASSUME IInv, NEW off \in 0 .. OffMax, NEW sz \in Asked, Overflow(off, sz)
  PROVE  IInv'
  <1>1. /\ offset' = off /\ asked' = sz /\ size' = sz
        /\ entity' = << >> /\ UNCHANGED file /\ buffer' = << >>
        /\ pc' = "done" /\ rc' = EOVERFLOW
    BY DEF Overflow, Call, Return
  <1>2. sz \in Nat /\ off \in Nat
    BY AskedAssumption, OffMaxAssumption
  <1>3. SizesOK'
    BY <1>1, SizesKept DEF IInv
  <1>4. TypeOK'
    BY <1>1, <1>2 DEF IInv, TypeOK, file
  <1>5. QED
    BY <1>1, <1>2, <1>3, <1>4
       DEF IInv, RequestOK, Progress, ReadsFile, EOVERFLOW

LEMMA URLStep ==
  ASSUME IInv, NEW off \in 0 .. OffMax, NEW sz \in Asked, ReadURL(off, sz)
  PROVE  IInv'
  <1>1. /\ kind = "url" /\ offset' = off /\ asked' = sz /\ size' = Adjusted(off, sz)
        /\ entity' = << >> /\ UNCHANGED file /\ buffer' = << >>
        /\ pc' = "open" /\ rc' = 0 /\ ~Overflows(off, sz)
    BY DEF ReadURL, Call
  <1>2. sz \in Nat /\ off \in Nat
    BY AskedAssumption, OffMaxAssumption
  <1>3. SizesOK'
    BY <1>1, SizesKept DEF IInv
  <1>4. Adjusted(off, sz) \in Nat
    BY <1>1, <1>2, AdjustedFacts DEF IInv
  <1>5. TypeOK'
    BY <1>1, <1>2, <1>4 DEF IInv, TypeOK, file
  <1>6. RequestOK'
    BY <1>1 DEF RequestOK, Overflows, Adjusted, file
  <1>7. QED
    BY <1>1, <1>2, <1>3, <1>5, <1>6 DEF IInv, Progress, ReadsFile

(* What the server may send are bytes; within the file, from a server that  *)
(* honours ranges, the bytes that were asked for.                           *)
LEMMA EntitiesFacts ==
  ASSUME IInv, pc = "open", NEW e \in Entities
  PROVE  /\ e \in Seq(Byte)
         /\ honours /\ offset < length =>
              /\ Len(e) = Smaller(size, length - offset)
              /\ \A i \in 1 .. Len(e) : e[i] = offset + i - 1
  <1>1. /\ offset \in 0 .. OffMax /\ asked \in Asked /\ size = Adjusted(offset, asked)
        /\ offset \in Nat /\ asked \in 1 .. SizeMax /\ SizeMax \in Nat
        /\ offset + asked <= SizeMax
        /\ length \in Nat
    <2>1. /\ offset \in 0 .. OffMax /\ asked \in Asked /\ size = Adjusted(offset, asked)
          /\ ~Overflows(offset, asked)
      BY DEF IInv, RequestOK
    <2>2. SizeMax \in Nat
      BY OffMaxAssumption DEF SizeMax
    <2>3. offset \in Nat /\ asked \in 1 .. SizeMax
      BY <2>1, OffMaxAssumption, AskedAssumption
    <2>4. offset + asked <= SizeMax
      BY <2>1, <2>2, <2>3 DEF Overflows
    <2>5. length \in Nat
      BY SizesFacts DEF IInv
    <2>6. QED
      BY <2>1, <2>2, <2>3, <2>4, <2>5
  <1>2. size \in Nat /\ size <= asked /\ offset + size > 0
    BY <1>1, AdjustedFacts DEF IInv, RequestOK
  <1>3. LastByte \in Nat /\ LastByte = offset + size - 1
    <2>1. PICK x \in Int : x = offset + size - 1
      BY <1>1, <1>2
    <2>2. LastByte = Unsigned(x)
      BY <2>1 DEF LastByte
    <2>3. Unsigned(x) \in Nat /\ (x \in 0 .. SizeMax => Unsigned(x) = x)
      BY <1>1, UnsignedFacts
    <2>4. x \in 0 .. SizeMax
      BY <1>1, <1>2, <2>1
    <2>5. QED
      BY <2>1, <2>2, <2>3, <2>4
  <1>4. PICK hi \in Int : hi = Smaller(LastByte, length - 1)
    BY <1>1, <1>3 DEF Smaller
  <1>5. PICK r : r = RangeAsked
    OBVIOUS
  <1>6. /\ r \in Seq(Nat)
        /\ Len(r) = IF offset <= hi THEN hi - offset + 1 ELSE 0
        /\ \A i \in 1 .. Len(r) : r[i] = offset + i - 1
    <2>1. r = Bytes(offset, hi)
      BY <1>4, <1>5 DEF RangeAsked
    <2>2. QED
      BY <1>1, <2>1, BytesFacts
  <1>7. CASE honours
    <2>1. e = IF offset < length THEN r ELSE << Garbage >>
      BY <1>5, <1>7 DEF Entities
    <2>2. CASE offset < length
      <3>1. e = r
        BY <2>1, <2>2
      <3>2. Len(e) = Smaller(size, length - offset)
        <4>1. PICK l : l = LastByte
          OBVIOUS
        <4>2. l = offset + size - 1 /\ hi = IF l < length - 1 THEN l ELSE length - 1
          BY <1>3, <1>4, <2>2, <4>1 DEF Smaller
        <4>3. hi - offset + 1 = IF size < length - offset THEN size ELSE length - offset
          BY <1>1, <1>2, <2>2, <4>2
        <4>4. (IF offset <= hi THEN hi - offset + 1 ELSE 0) = hi - offset + 1
          BY <1>1, <1>2, <1>4, <2>2, <4>3
        <4>5. QED
          BY <1>6, <3>1, <4>3, <4>4 DEF Smaller
      <3>3. e \in Seq(Byte)
        BY <1>6, <3>1, SeqMonotonic DEF Byte
      <3>4. QED
        BY <1>6, <3>1, <3>2, <3>3
    <2>3. CASE ~(offset < length)
      <3>1. e = << Garbage >>
        BY <2>1, <2>3
      <3>2. e \in Seq(Byte)
        BY <3>1 DEF Byte
      <3>3. QED
        BY <2>3, <3>2
    <2>4. QED
      BY <2>2, <2>3
  <1>8. CASE ~honours
    <2>1. CASE e = Content
      <3>1. PICK last \in Int : last = length - 1
        BY <1>1
      <3>2. Bytes(0, last) \in Seq(Nat)
        BY BytesFacts
      <3>3. e \in Seq(Nat)
        BY <2>1, <3>1, <3>2 DEF Content
      <3>4. QED
        BY <1>8, <3>3, SeqMonotonic DEF Byte
    <2>2. ASSUME NEW n \in 0 .. Len(r) - 1, e = SubSeq(r, 1, n)
          PROVE  e \in Seq(Byte)
      <3>1. Len(r) \in Nat
        BY <1>6, LenProperties
      <3>2. n \in Nat /\ n <= Len(r) /\ 0 \in Nat /\ 0 <= n
        BY <3>1
      <3>3. SubSeq(r, 0 + 1, n) \in Seq(Nat)
        BY <1>6, <3>2, SubSeqFacts
      <3>4. e \in Seq(Nat)
        BY <2>2, <3>3
      <3>5. QED
        BY <3>4, SeqMonotonic DEF Byte
    <2>3. e = Content \/ \E n \in 0 .. Len(r) - 1 : e = SubSeq(r, 1, n)
      BY <1>5, <1>8 DEF Entities
    <2>4. QED
      BY <1>8, <2>1, <2>2, <2>3
  <1>9. QED
    BY <1>7, <1>8

LEMMA OpenStep ==
  ASSUME IInv, Open PROVE IInv'
  <1>1. /\ pc = "open" /\ pc' = "read" /\ entity' \in Entities
        /\ UNCHANGED <<file, offset, asked, size, buffer, rc>>
    BY DEF Open
  <1>2. PICK e \in Entities : e = entity'
    BY <1>1
  <1>3. /\ e \in Seq(Byte)
        /\ honours /\ offset < length =>
              /\ Len(e) = Smaller(size, length - offset)
              /\ \A i \in 1 .. Len(e) : e[i] = offset + i - 1
    BY <1>1, EntitiesFacts
  <1>4. SizesOK'
    BY <1>1, SizesKept DEF IInv
  <1>5. TypeOK'
    BY <1>1, <1>2, <1>3 DEF IInv, TypeOK, file, Byte
  <1>6. RequestOK'
    BY <1>1 DEF IInv, RequestOK, Overflows, Adjusted, file
  <1>7. buffer' = << >> /\ Len(buffer') = 0 /\ size' \in Nat /\ asked' \in Nat
    BY <1>1 DEF IInv, Progress, TypeOK
  <1>8. honours' /\ offset' < length' => PartOfFile' /\ Comes'
    <2>1. PartOfFile'
      BY <1>7 DEF PartOfFile
    <2>2. ASSUME honours, offset < length PROVE Comes'
      <3>1. /\ UNCHANGED <<size, length, offset>>
            /\ offset \in Nat /\ Len(e) \in Nat
        BY <1>1, <1>3, LenProperties DEF file, IInv, TypeOK
      <3>2. 0 + Len(e) = Smaller(size, length - offset)
        BY <1>3, <2>2, <3>1
      <3>3. \A i \in 1 .. Len(e) : e[i] = offset + 0 + i - 1
        BY <1>3, <2>2, <3>1
      <3>4. QED
        BY <1>2, <1>7, <3>1, <3>2, <3>3 DEF Comes, Smaller
    <2>3. QED
      BY <1>1, <2>1, <2>2 DEF file
  <1>9. QED
    BY <1>1, <1>4, <1>5, <1>6, <1>7, <1>8 DEF IInv, Progress, ReadsFile

(* A request that fails leaves what was copied, and tells an error.         *)
LEMMA FailStep ==
  ASSUME IInv, OpenFails \/ ReadFails PROVE IInv'
  <1>1. /\ pc \in {"open", "read"} /\ pc' = "done" /\ rc' \in {EIO, ENOMEM}
        /\ UNCHANGED <<file, offset, asked, size, entity, buffer>>
    BY DEF OpenFails, ReadFails, Fails, Return
  <1>2. SizesOK'
    BY <1>1, SizesKept DEF IInv
  <1>3. TypeOK'
    BY <1>1 DEF IInv, TypeOK, file
  <1>4. Len(buffer') <= asked'
    BY <1>1 DEF IInv, Progress
  <1>5. QED
    BY <1>1, <1>2, <1>3, <1>4 DEF IInv, RequestOK, Progress, ReadsFile, EIO, ENOMEM

LEMMA ReadStep ==
  ASSUME IInv, Read PROVE IInv'
  <1>1. /\ pc = "read" /\ UNCHANGED <<file, offset, asked, size>>
        /\ offset \in 0 .. OffMax /\ asked \in Asked /\ size = Adjusted(offset, asked)
        /\ offset \in Nat /\ asked \in Nat /\ length \in Nat /\ kind = "url"
    BY SizesFacts DEF Read, IInv, TypeOK, RequestOK
  <1>2. /\ size \in Nat /\ size <= asked
        /\ ExactRead /\ offset < ToldEnd => size >= Smaller(asked, ToldEnd - offset)
    <2>1. asked \in Nat /\ ~Overflows(offset, asked) /\ SizesOK
      BY <1>1 DEF IInv, RequestOK
    <2>2. QED
      BY <1>1, <2>1, AdjustedFacts
  <1>3. PICK n \in Chunks :
          /\ buffer' = buffer \o SubSeq(entity, 1, n)
          /\ entity' = SubSeq(entity, n + 1, Len(entity))
          /\ IF Finished(n) THEN Return(Len(buffer) + n) ELSE UNCHANGED <<pc, rc>>
    BY DEF Read
  <1>4. PICK b \in Seq(Byte), e \in Seq(Byte) : b = buffer /\ e = entity
    BY DEF IInv, TypeOK, Byte
  <1>5. Len(b) \in Nat /\ Len(e) \in Nat /\ Len(b) <= size
    BY <1>1, <1>4, LenProperties DEF IInv, Progress
  <1>6. /\ n \in Nat /\ n <= Len(e) /\ Len(b) + n <= size
        /\ n = 0 => Len(b) = size \/ Len(e) = 0
    <2>1. PICK most : most = Smaller(size - Len(b), Len(e))
      OBVIOUS
    <2>2. n \in IF most = 0 THEN {0} ELSE 1 .. most
      BY <1>4, <2>1 DEF Chunks
    <2>3. /\ most \in Nat /\ most <= Len(e) /\ Len(b) + most <= size
          /\ most = 0 => Len(b) = size \/ Len(e) = 0
      BY <1>2, <1>5, <2>1 DEF Smaller
    <2>4. QED
      BY <1>2, <1>5, <2>2, <2>3
  <1>7. PICK c : c = SubSeq(e, 1, n)
    OBVIOUS
  <1>8. /\ c \in Seq(Byte) /\ Len(c) = n
        /\ \A i \in 1 .. n : c[i] = e[i]
    <2>1. /\ SubSeq(e, 0 + 1, n) \in Seq(Byte)
          /\ Len(SubSeq(e, 0 + 1, n)) = n - 0
          /\ \A i \in 1 .. n - 0 : SubSeq(e, 0 + 1, n)[i] = e[0 + i]
      BY <1>6, SubSeqFacts
    <2>2. 0 + 1 = 1 /\ n - 0 = n /\ \A i \in 1 .. n : 0 + i = i
      BY <1>6
    <2>3. c = SubSeq(e, 0 + 1, n)
      BY <1>7, <2>2
    <2>4. QED
      BY <2>1, <2>2, <2>3
  <1>9. PICK d : d = SubSeq(e, n + 1, Len(e))
    OBVIOUS
  <1>10. /\ d \in Seq(Byte) /\ Len(d) = Len(e) - n
         /\ \A i \in 1 .. Len(d) : d[i] = e[n + i]
    BY <1>5, <1>6, <1>9, SubSeqFacts
  <1>11. PICK f : f = b \o c
    OBVIOUS
  <1>12. /\ f \in Seq(Byte) /\ Len(f) = Len(b) + n
         /\ \A i \in 1 .. Len(f) : f[i] = IF i <= Len(b) THEN b[i] ELSE c[i - Len(b)]
    <2>1. /\ b \o c \in Seq(Byte)
          /\ Len(b \o c) = Len(b) + Len(c)
          /\ \A i \in 1 .. Len(b) + Len(c) :
               (b \o c)[i] = IF i <= Len(b) THEN b[i] ELSE c[i - Len(b)]
      BY <1>8, ConcatProperties
    <2>2. QED
      BY <1>8, <1>11, <2>1
  <1>13. buffer' = f /\ entity' = d
    BY <1>3, <1>4, <1>7, <1>9, <1>11
  <1>14. SizesOK' /\ (ExactRead' <=> ExactRead)
    BY <1>1, SizesKept DEF IInv
  <1>15. Len(f) <= size' /\ Len(f) <= asked' /\ Len(f) \in Nat
    BY <1>1, <1>2, <1>5, <1>6, <1>12
  <1>16. ASSUME honours, offset < length
         PROVE  /\ PartOfFile' /\ Comes'
                /\ Len(b) + Len(e) = Smaller(size, length - offset)
    <2>1. /\ \A i \in 1 .. Len(b) : offset + i <= length /\ b[i] = offset + i - 1
          /\ Len(b) + Len(e) = Smaller(size, length - offset)
          /\ \A i \in 1 .. Len(e) : e[i] = offset + Len(b) + i - 1
      BY <1>1, <1>4, <1>16 DEF IInv, Progress, PartOfFile, Comes
    <2>2. Len(b) + Len(e) <= length - offset
      BY <1>1, <2>1 DEF Smaller
    <2>3. \A i \in 1 .. Len(f) : offset + i <= length
      BY <1>1, <1>5, <1>6, <1>12, <2>2
    <2>4. \A i \in 1 .. Len(f) : f[i] = offset + i - 1
      <3>1. TAKE i \in 1 .. Len(f)
      <3>2. CASE i <= Len(b)
        <4>1. i \in 1 .. Len(b)
          BY <1>5, <3>2
        <4>2. QED
          BY <1>12, <2>1, <3>2, <4>1
      <3>3. CASE ~(i <= Len(b))
        <4>1. PICK j : j = i - Len(b)
          OBVIOUS
        <4>2. j \in 1 .. n /\ j \in 1 .. Len(e) /\ offset + Len(b) + j - 1 = offset + i - 1
          BY <1>1, <1>5, <1>6, <1>12, <3>3, <4>1
        <4>3. f[i] = c[j]
          BY <1>12, <3>3, <4>1
        <4>4. QED
          BY <1>8, <2>1, <4>2, <4>3
      <3>4. QED
        BY <3>2, <3>3
    <2>5. UNCHANGED <<offset, length, size>>
      BY <1>1 DEF file
    <2>6. PartOfFile'
      BY <1>13, <2>3, <2>4, <2>5 DEF PartOfFile
    <2>7. Len(f) + Len(d) = Smaller(size, length - offset)
      BY <1>5, <1>6, <1>10, <1>12, <2>1
    <2>8. \A i \in 1 .. Len(d) : d[i] = offset + Len(f) + i - 1
      <3>1. TAKE i \in 1 .. Len(d)
      <3>2. PICK j : j = n + i
        OBVIOUS
      <3>3. j \in 1 .. Len(e) /\ offset + Len(b) + j - 1 = offset + Len(f) + i - 1
        <4>1. PICK m \in Nat : m = Len(d)
          BY <1>10, LenProperties
        <4>2. m = Len(e) - n /\ i \in 1 .. m
          BY <1>10, <4>1
        <4>3. j \in 1 .. Len(e)
          BY <1>5, <1>6, <3>2, <4>2
        <4>4. offset + Len(b) + j - 1 = offset + Len(f) + i - 1
          BY <1>1, <1>5, <1>6, <1>12, <3>2, <4>2
        <4>5. QED
          BY <4>3, <4>4
      <3>4. d[i] = e[j]
        BY <1>10, <3>2
      <3>5. QED
        BY <2>1, <3>3, <3>4
    <2>9. Comes'
      <3>1. (length - offset)' = length - offset
        BY <2>5
      <3>2. QED
        BY <1>13, <2>5, <2>7, <2>8 DEF Comes, Smaller
    <2>10. QED
      BY <2>1, <2>6, <2>9
  <1>17. CASE Finished(n)
    <2>1. pc' = "done" /\ rc' = Len(b) + n
      BY <1>3, <1>4, <1>17 DEF Return
    <2>2. TypeOK'
      BY <1>1, <1>5, <1>6, <1>12, <1>10, <1>13, <2>1 DEF IInv, TypeOK, file, Byte
    <2>3. ASSUME honours, offset < length, ExactRead, offset < ToldEnd
          PROVE  rc' >= Smaller(asked, ToldEnd - offset)
      <3>1. n = 0 \/ Len(b) + n >= size
        BY <1>4, <1>17, <2>3 DEF Finished
      <3>2. PICK told \in Nat : told = ToldEnd /\ told <= length
        BY <1>1, <2>3, SizesFacts DEF IInv, ToldEnd, Smaller, ExactRead
      <3>3. rc' = Smaller(size, length - offset)
        BY <1>1, <1>2, <1>5, <1>6, <1>16, <2>1, <2>3, <3>1 DEF Smaller
      <3>4. size >= Smaller(asked, told - offset) /\ offset < told
        BY <1>2, <2>3, <3>2
      <3>5. rc' >= Smaller(asked, told - offset)
        BY <1>1, <1>2, <3>2, <3>3, <3>4 DEF Smaller
      <3>6. QED
        BY <3>2, <3>5
    <2>4. ReadsFile'
      <3>1. UNCHANGED <<honours, offset, length, asked, kind>> /\ ToldEnd' = ToldEnd
        BY <1>1 DEF file, ToldEnd, Smaller
      <3>2. Len(buffer') <= asked' /\ Len(buffer') = rc'
        BY <1>12, <1>13, <1>15, <2>1
      <3>3. honours' /\ offset' < length' =>
               /\ PartOfFile'
               /\ ExactRead' /\ offset' < ToldEnd' => rc' >= Smaller(asked', ToldEnd' - offset')
        BY <1>14, <1>16, <2>3, <3>1
      <3>4. QED
        BY <1>1, <3>1, <3>2, <3>3 DEF ReadsFile, Smaller
    <2>5. QED
      BY <1>13, <1>14, <1>15, <2>1, <2>2, <2>4 DEF IInv, RequestOK, Progress
  <1>18. CASE ~Finished(n)
    <2>1. UNCHANGED <<pc, rc>>
      BY <1>3, <1>18
    <2>2. TypeOK'
      BY <1>1, <1>12, <1>10, <1>13, <2>1 DEF IInv, TypeOK, file, Byte
    <2>3. RequestOK'
      BY <1>1, <2>1 DEF IInv, RequestOK, Overflows, Adjusted, file
    <2>4. UNCHANGED <<honours, offset, length>>
      BY <1>1 DEF file
    <2>5. honours' /\ offset' < length' => PartOfFile' /\ Comes'
      BY <1>16, <2>4
    <2>6. QED
      BY <1>1, <1>13, <1>14, <1>15, <2>1, <2>2, <2>3, <2>5
         DEF IInv, Progress, ReadsFile
  <1>19. QED
    BY <1>17, <1>18

LEMMA NextInv ==
  ASSUME IInv, [Next]_vars PROVE IInv'
  <1>1. ASSUME NEW off \in 0 .. OffMax, NEW sz \in Asked,
               ReadText(off, sz) \/ Overflow(off, sz) \/ ReadURL(off, sz)
        PROVE  IInv'
    BY <1>1, TextStep, OverflowStep, URLStep
  <1>2. CASE Open \/ OpenFails \/ Read \/ ReadFails
    BY <1>2, OpenStep, FailStep, ReadStep
  <1>3. CASE UNCHANGED vars
    BY <1>3, UnchangedInv
  <1>4. QED
    BY <1>1, <1>2, <1>3 DEF Next

LEMMA Invariance == Spec => []IInv
  <1>1. Init => IInv
    BY InitInv
  <1>2. IInv /\ [Next]_vars => IInv'
    BY NextInv
  <1>3. QED
    BY <1>1, <1>2, PTL DEF Spec

-----------------------------------------------------------------------------
(* Every variable keeps its type: no size is negative, and no conversion    *)
(* loses what it must keep.                                                 *)
THEOREM TypeCorrect == Spec => []TypeOK
  <1>1. IInv => TypeOK
    BY DEF IInv
  <1>2. QED
    BY <1>1, Invariance, PTL

(* FileBuffer_Read copies the bytes of the file from the offset on, as many *)
(* as it says, never more than the caller has room for, and all that were   *)
(* asked for up to the end of a file of known size: whatever the width of   *)
(* off_t, the offset, the sizes told, and the pieces that the bytes come in. *)
THEOREM ReadIsExact == Spec => []ReadsFile
  <1>1. IInv => ReadsFile
    BY DEF IInv
  <1>2. QED
    BY <1>1, Invariance, PTL

-----------------------------------------------------------------------------
(***************************************************************************)
(* Answers.                                                                *)
(***************************************************************************)

Kinds == {"CR", "LF", "line", "chunked", "length", "other", "digit", "byte"}
Toks  == [is : Kinds, of : Byte]

ByteToken(x) == Token("byte", x)

(* What the tokens are, and that they differ.                               *)
LEMMA TokenFacts ==
  /\ CR \in Toks /\ LF \in Toks /\ Chunked \in Toks /\ Other \in Toks
  /\ \A x \in Byte : /\ Line(x) \in Toks /\ Length(x) \in Toks
                     /\ ByteToken(x) \in Toks /\ Digit(x) \in Toks
  /\ CR # LF
  /\ CR.is = "CR" /\ LF.is = "LF" /\ Chunked.is = "chunked" /\ Other.is = "other"
  /\ \A x \in Byte : /\ Line(x).is = "line" /\ Length(x).is = "length" /\ Length(x).of = x
                     /\ ByteToken(x).is = "byte" /\ ByteToken(x).of = x
                     /\ Digit(x).is = "digit" /\ Digit(x).of = x
                     /\ x # 0 => Line(x) # Line(0)
  BY DEF Toks, Kinds, Token, CR, LF, Chunked, Other, Line, Length, ByteToken, Digit, Byte

(* w is m followed by s.                                                    *)
IsJoin(w, m, s) == w = m \o s /\ \E S : m \in Seq(S) /\ s \in Seq(S)

(* What is joined keeps its places, or moves by what comes before it.       *)
LEMMA JoinFacts ==
  ASSUME NEW w, NEW m, NEW s, IsJoin(w, m, s)
  PROVE  /\ Len(m) \in Nat /\ Len(s) \in Nat
         /\ Len(w) = Len(m) + Len(s)
         /\ \A i \in 1 .. Len(m) : w[i] = m[i]
         /\ \A i \in 1 .. Len(s) : w[Len(m) + i] = s[i]
  <1>1. PICK S : m \in Seq(S) /\ s \in Seq(S)
    BY DEF IsJoin
  <1>2. PICK p \in Nat : p = Len(m)
    BY <1>1, LenProperties
  <1>3. PICK q \in Nat : q = Len(s)
    BY <1>1, LenProperties
  <1>4. /\ w \in Seq(S) /\ Len(w) = p + q
        /\ \A i \in 1 .. p + q : w[i] = IF i <= p THEN m[i] ELSE s[i - p]
    BY <1>1, <1>2, <1>3, ConcatProperties DEF IsJoin
  <1>5. \A i \in 1 .. p : w[i] = m[i]
    BY <1>4
  <1>6. ASSUME NEW i \in 1 .. q PROVE w[p + i] = s[i]
    <2>1. PICK j : j = p + i
      OBVIOUS
    <2>2. j \in 1 .. p + q /\ ~(j <= p) /\ j - p = i
      BY <2>1
    <2>3. w[j] = s[j - p]
      BY <1>4, <2>2
    <2>4. QED
      BY <2>1, <2>2, <2>3
  <1>7. QED
    BY <1>2, <1>3, <1>4, <1>5, <1>6

(* a is the part of s that follows m places and ends at n.                  *)
IsPart(a, s, m, n) ==
  /\ \E S : s \in Seq(S)
  /\ m \in Nat /\ n \in Nat /\ m <= n /\ n <= Len(s)
  /\ a = SubSeq(s, m + 1, n)

(* A part of a sequence, place by place.                                    *)
LEMMA PartFacts ==
  ASSUME NEW a, NEW s, NEW m \in Nat, NEW n \in Nat, IsPart(a, s, m, n)
  PROVE  /\ Len(a) = n - m
         /\ \A i \in 1 .. n - m : a[i] = s[m + i]
  <1>1. PICK S : s \in Seq(S)
    BY DEF IsPart
  <1>2. QED
    BY <1>1, SubSeqFacts DEF IsPart

(* What joins and parts of sequences are made of.                           *)
LEMMA PieceTypes ==
  ASSUME NEW S, NEW m \in Seq(S), NEW s \in Seq(S)
  PROVE  /\ Len(m) \in Nat
         /\ m \o s \in Seq(S)
         /\ IsJoin(m \o s, m, s)
         /\ \A i, j \in Nat : i <= j /\ j <= Len(m) =>
              /\ SubSeq(m, i + 1, j) \in Seq(S)
              /\ IsPart(SubSeq(m, i + 1, j), m, i, j)
  <1>1. Len(m) \in Nat
    BY LenProperties
  <1>2. m \o s \in Seq(S)
    BY ConcatProperties
  <1>3. IsJoin(m \o s, m, s)
    BY DEF IsJoin
  <1>4. ASSUME NEW i \in Nat, NEW j \in Nat, i <= j, j <= Len(m)
        PROVE  /\ SubSeq(m, i + 1, j) \in Seq(S)
               /\ IsPart(SubSeq(m, i + 1, j), m, i, j)
    <2>1. SubSeq(m, i + 1, j) \in Seq(S)
      BY <1>4, SubSeqFacts
    <2>2. IsPart(SubSeq(m, i + 1, j), m, i, j)
      BY <1>4 DEF IsPart
    <2>3. QED
      BY <2>1, <2>2
  <1>5. QED
    BY <1>1, <1>2, <1>3, <1>4

(* Two ways to join three parts.                                            *)
Joined(a, b, c) == (a \o b) \o c = a \o (b \o c)

LEMMA JoinsOn ==
  ASSUME NEW S, NEW a \in Seq(S), NEW b \in Seq(S), NEW c \in Seq(S)
  PROVE  Joined(a, b, c)
  BY ConcatAssociative DEF Joined

(* The first n of what has not been received join what has been.            *)
SameJoin(c, b, m, s)   == c \o b = m \o s
IsMoved(c, b, m, s, n) == c = m \o SubSeq(s, 1, n) /\ b = SubSeq(s, n + 1, Len(s))

LEMMA MoveFacts ==
  ASSUME NEW S, NEW m \in Seq(S), NEW s \in Seq(S), NEW n \in Nat, n <= Len(s),
         NEW c, NEW b, IsMoved(c, b, m, s, n)
  PROVE  c \in Seq(S) /\ b \in Seq(S) /\ Len(c) = Len(m) + n /\ SameJoin(c, b, m, s)
  <1>1. PICK h \in Nat : h = Len(s)
    BY LenProperties
  <1>2. PICK z \in Nat : z = 0
    OBVIOUS
  <1>3. PICK a : a = SubSeq(s, 1, n)
    OBVIOUS
  <1>4. b = SubSeq(s, n + 1, h) /\ c = m \o a
    BY <1>1, <1>3 DEF IsMoved
  <1>5. a = SubSeq(s, z + 1, n)
    BY <1>2, <1>3
  <1>6. a \in Seq(S) /\ Len(a) = n
    <2>1. SubSeq(s, z + 1, n) \in Seq(S) /\ Len(SubSeq(s, z + 1, n)) = n - z
      BY <1>2, SubSeqFacts
    <2>2. QED
      BY <1>2, <1>5, <2>1
  <1>7. b \in Seq(S)
    <2>1. n <= h /\ h <= Len(s)
      BY <1>1
    <2>2. QED
      BY <1>4, <2>1, SubSeqFacts
  <1>8. a \o b = s
    <2>1. 1 \in 1 .. Len(s) + 1 /\ n \in 1 - 1 .. Len(s) /\ h \in n .. Len(s)
      BY <1>1
    <2>2. a \o b = SubSeq(s, 1, h)
      BY <1>3, <1>4, <2>1, ConcatAdjacentSubSeq
    <2>3. QED
      BY <1>1, <2>2, SubSeqFull
  <1>9. (m \o a) \o b = m \o (a \o b)
    <2>1. a \in Seq(S) /\ b \in Seq(S) /\ m \in Seq(S)
      BY <1>6, <1>7
    <2>2. Joined(m, a, b)
      BY <2>1, JoinsOn
    <2>3. QED
      BY <2>2, Zenon DEF Joined
  <1>10. m \o a \in Seq(S) /\ Len(m \o a) = Len(m) + n
    BY <1>6, ConcatProperties
  <1>11. QED
    BY <1>4, <1>7, <1>8, <1>9, <1>10 DEF SameJoin

(* d is m without the n places that follow the first f.                     *)
IsRest(d, m, f, n) == d = SubSeq(m, 1, f) \o SubSeq(m, f + n + 1, Len(m))

(* The first f places of v are those of w.                                  *)
Same(v, w, f) == \A i \in 1 .. f : v[i] = w[i]

(* What follows the first f places of w is in v, n places earlier.          *)
Shifted(v, w, f, n) ==
  /\ f \in Nat /\ n \in Nat /\ n <= f /\ Len(w) \in Nat
  /\ \A i \in f + 1 .. Len(w) : v[i - n] = w[i]

(* What is taken out of the buffer brings what follows nearer.              *)
LEMMA DeleteFacts ==
  ASSUME NEW S, NEW m \in Seq(S), NEW s \in Seq(S), NEW f \in Nat, NEW n \in Nat,
         f + n <= Len(m), NEW d, IsRest(d, m, f, n)
  PROVE  /\ d \in Seq(S) /\ Len(d) = Len(m) - n
         /\ Len(d \o s) = Len(m \o s) - n
         /\ Same(d \o s, m \o s, f)
         /\ Shifted(d \o s, m \o s, f + n, n)
  <1>1. PICK a : a = SubSeq(m, 1, f)
    OBVIOUS
  <1>2. PICK k \in Nat : k = Len(m)
    BY LenProperties
  <1>3. PICK h \in Nat : h = Len(s)
    BY LenProperties
  <1>4. PICK g \in Nat : g = f + n
    OBVIOUS
  <1>5. PICK b : b = SubSeq(m, g + 1, k)
    OBVIOUS
  <1>6. PICK z \in Nat : z = 0
    OBVIOUS
  <1>7. z <= f /\ f <= k /\ g <= k
    BY <1>2, <1>4, <1>6
  <1>8. a \in Seq(S) /\ IsPart(a, m, z, f)
    <2>1. a = SubSeq(m, z + 1, f)
      BY <1>1, <1>6
    <2>2. SubSeq(m, z + 1, f) \in Seq(S) /\ IsPart(SubSeq(m, z + 1, f), m, z, f)
      BY <1>2, <1>7, PieceTypes
    <2>3. QED
      BY <2>1, <2>2
  <1>9. b \in Seq(S) /\ IsPart(b, m, g, k)
    <2>1. SubSeq(m, g + 1, k) \in Seq(S) /\ IsPart(SubSeq(m, g + 1, k), m, g, k)
      BY <1>2, <1>7, PieceTypes
    <2>2. QED
      BY <1>5, <2>1
  <1>10. Len(a) = f /\ \A i \in 1 .. f : a[i] = m[i]
    <2>1. IsPart(a, m, z, f)
      BY <1>8
    <2>2. Len(a) = f - z /\ \A i \in 1 .. f - z : a[i] = m[z + i]
      BY <2>1, PartFacts
    <2>3. f - z = f /\ \A i \in 1 .. f : z + i = i
      BY <1>6
    <2>4. QED
      BY <2>2, <2>3
  <1>11. PICK q \in Nat : q = k - g
    <2>1. k - g \in Nat
      BY <1>7
    <2>2. QED
      BY <2>1
  <1>12. Len(b) = q /\ \A i \in 1 .. q : b[i] = m[g + i]
    BY <1>9, <1>11, PartFacts
  <1>13. d = a \o b
    BY <1>1, <1>2, <1>4, <1>5 DEF IsRest
  <1>14. d \in Seq(S) /\ IsJoin(d, a, b)
    BY <1>8, <1>9, <1>10, <1>12, <1>13, PieceTypes
  <1>15. PICK l \in Nat : l = k - n
    <2>1. k - n \in Nat
      BY <1>4, <1>7
    <2>2. QED
      BY <2>1
  <1>16. Len(d) = l
    <2>1. Len(d) = f + q
      BY <1>10, <1>12, <1>14, JoinFacts
    <2>2. QED
      BY <1>4, <1>7, <1>11, <1>15, <2>1
  <1>17. PICK w : w = m \o s
    OBVIOUS
  <1>18. PICK v : v = d \o s
    OBVIOUS
  <1>19. IsJoin(w, m, s)
    BY <1>2, <1>3, <1>17, PieceTypes
  <1>20. IsJoin(v, d, s)
    BY <1>3, <1>14, <1>16, <1>18, PieceTypes
  <1>21. Len(w) = k + h /\ Len(v) = l + h
    BY <1>2, <1>3, <1>16, <1>19, <1>20, JoinFacts
  <1>22. /\ \A i \in 1 .. f : d[i] = a[i]
         /\ \A i \in 1 .. q : d[f + i] = b[i]
    <2>1. IsJoin(d, a, b)
      BY <1>14
    <2>2. \A i \in 1 .. Len(a) : d[i] = a[i]
      BY <2>1, JoinFacts
    <2>3. \A i \in 1 .. Len(b) : d[Len(a) + i] = b[i]
      BY <2>1, JoinFacts
    <2>4. QED
      BY <1>10, <1>12, <2>2, <2>3
  <1>23. /\ \A i \in 1 .. k : w[i] = m[i]
         /\ \A i \in 1 .. h : w[k + i] = s[i]
    <2>1. IsJoin(w, m, s)
      BY <1>19
    <2>2. /\ \A i \in 1 .. Len(m) : w[i] = m[i]
          /\ \A i \in 1 .. Len(s) : w[Len(m) + i] = s[i]
      BY <2>1, JoinFacts
    <2>3. QED
      BY <2>2, <1>2, <1>3
  <1>24. /\ \A i \in 1 .. l : v[i] = d[i]
         /\ \A i \in 1 .. h : v[l + i] = s[i]
    <2>1. IsJoin(v, d, s)
      BY <1>20
    <2>2. /\ \A i \in 1 .. Len(d) : v[i] = d[i]
          /\ \A i \in 1 .. Len(s) : v[Len(d) + i] = s[i]
      BY <2>1, JoinFacts
    <2>3. QED
      BY <2>2, <1>3, <1>16
  <1>25. ASSUME NEW i \in 1 .. f PROVE v[i] = w[i]
    <2>1. i \in 1 .. l /\ i \in 1 .. k
      BY <1>4, <1>7, <1>15
    <2>2. v[i] = d[i] /\ d[i] = a[i] /\ w[i] = m[i]
      BY <1>22, <1>23, <1>24, <2>1
    <2>3. QED
      BY <1>10, <2>2
  <1>26. ASSUME NEW i \in g + 1 .. Len(w) PROVE v[i - n] = w[i]
    <2>1. CASE i <= k
      <3>1. PICK j : j = i - g
        OBVIOUS
      <3>2. PICK fj : fj = f + j
        OBVIOUS
      <3>3. j \in 1 .. q /\ fj = i - n /\ fj \in 1 .. l /\ g + j = i /\ i \in 1 .. k
        BY <1>4, <1>7, <1>11, <1>15, <2>1, <3>1, <3>2
      <3>4. v[fj] = d[fj] /\ d[f + j] = b[j] /\ w[i] = m[i]
        BY <1>22, <1>23, <1>24, <3>3
      <3>5. b[j] = m[g + j]
        BY <1>12, <3>3
      <3>6. QED
        BY <3>2, <3>3, <3>4, <3>5
    <2>2. CASE i > k
      <3>1. PICK j : j = i - k
        OBVIOUS
      <3>2. j \in 1 .. h /\ k + j = i /\ l + j = i - n
        BY <1>4, <1>7, <1>15, <1>21, <2>2, <3>1
      <3>3. v[l + j] = s[j] /\ w[k + j] = s[j]
        BY <1>23, <1>24, <3>2
      <3>4. QED
        BY <3>2, <3>3
    <2>3. QED
      BY <1>2, <1>4, <1>21, <2>1, <2>2
  <1>27. Len(v) = Len(w) - n
    BY <1>15, <1>21
  <1>28. Same(v, w, f)
    BY <1>25 DEF Same
  <1>29. Shifted(v, w, g, n)
    <2>1. g \in Nat /\ n <= g /\ Len(w) \in Nat
      BY <1>4, <1>21
    <2>2. QED
      BY <1>26, <2>1 DEF Shifted
  <1>30. QED
    BY <1>2, <1>4, <1>14, <1>15, <1>16, <1>17, <1>18, <1>27, <1>28, <1>29
-----------------------------------------------------------------------------
(***************************************************************************)
(* Chunks.                                                                 *)
(***************************************************************************)

Width(n) == IF n < Base THEN 1 ELSE 2

(* After p places of w there are: the head of a chunk of n bytes; n bytes of *)
(* b after the first g, and an end of line; what follows the last chunk.    *)
HeadAt(w, p, n) ==
  /\ n < Base => w[p + 1] = Digit(n)
  /\ n >= Base => w[p + 1] = Digit(n \div Base) /\ w[p + 2] = Digit(n % Base)
  /\ w[p + Width(n) + 1] = CR /\ w[p + Width(n) + 2] = LF

BytesAt(w, p, b, g, n) == \A i \in 1 .. n : w[p + i] = ByteToken(b[g + i])

ChunkAt(w, p, b, g, n) ==
  /\ BytesAt(w, p, b, g, n)
  /\ w[p + n + 1] = CR /\ w[p + n + 2] = LF

EndAt(w, p) ==
  \/ Len(w) = p + 2 /\ w[p + 1] = CR /\ w[p + 2] = LF
  \/ /\ Len(w) = p + 5 /\ w[p + 1] = Other
     /\ w[p + 2] = CR /\ w[p + 3] = LF /\ w[p + 4] = CR /\ w[p + 5] = LF

(* From p to q there is a chunk of the bytes of b after d, up to e.         *)
LinkAt(w, b, p, q, d, e) ==
  /\ d < e /\ e - d <= MaxChunk
  /\ HeadAt(w, p, e - d)
  /\ ChunkAt(w, p + Width(e - d) + 2, b, d, e - d)
  /\ q = p + Width(e - d) + 2 + (e - d) + 2

(* D is the set of ends of chunks, the first at g, and at is their places.  *)
Links(w, b, sent, p, g, D, at) ==
  /\ D \in SUBSET Nat /\ at \in [Nat -> Nat]
  /\ g \in D /\ sent \in D /\ at[g] = p
  /\ \A d \in D : g <= d /\ d <= sent /\ at[d] <= Len(w)
  /\ \A c, d \in D : c <= d => at[c] <= at[d]
  /\ \A d \in D : d # sent => \E e \in D : LinkAt(w, b, at[d], at[e], d, e)

Stop(w, b, sent, ended, q) ==
  IF ended THEN sent = Len(b) /\ HeadAt(w, q, 0) /\ EndAt(w, q + 3)
           ELSE Len(w) = q

(* After p places of w come the bytes of b after the first g in chunks, as  *)
(* many as were sent.                                                       *)
Chain(w, b, sent, ended, p, g) ==
  \E D, at :
    Links(w, b, sent, p, g, D, at) /\ Stop(w, b, sent, ended, at[sent])

(* What is after the places taken out moves back by them.                   *)
LEMMA PlaceShift ==
  ASSUME NEW v, NEW w, NEW f \in Nat, NEW n \in Nat, Shifted(v, w, f, n),
         NEW i \in Nat, f < i, i <= Len(w)
  PROVE  v[i - n] = w[i]
  BY DEF Shifted

(* A size has one digit or two.                                             *)
LEMMA WidthFacts ==
  ASSUME NEW n \in Nat PROVE Width(n) \in {1, 2}
  BY DEF Width

(* So do the head of a chunk, a chunk, and both of them.                    *)
LEMMA HeadShift ==
  ASSUME NEW v, NEW w, NEW f \in Nat, NEW n \in Nat, Shifted(v, w, f, n),
         NEW p \in Nat, f <= p, NEW k \in Nat, HeadAt(w, p, k), p + Width(k) + 2 <= Len(w)
  PROVE  HeadAt(v, p - n, k)
  <1>1. PICK h \in {1, 2} : h = Width(k)
    BY WidthFacts
  <1>2. h = IF k < Base THEN 1 ELSE 2
    BY <1>1 DEF Width
  <1>3. Len(w) \in Nat /\ \A i \in f + 1 .. Len(w) : v[i - n] = w[i]
    BY DEF Shifted
  <1>4. /\ k < Base => w[p + 1] = Digit(k)
        /\ k >= Base => w[p + 1] = Digit(k \div Base) /\ w[p + 2] = Digit(k % Base)
        /\ w[p + h + 1] = CR /\ w[p + h + 2] = LF
    BY <1>1 DEF HeadAt
  <1>5. p + h + 2 <= Len(w)
    BY <1>1
  <1>6. /\ p + 1 \in f + 1 .. Len(w)
        /\ k >= Base => p + 2 \in f + 1 .. Len(w)
        /\ p + h + 1 \in f + 1 .. Len(w) /\ p + h + 2 \in f + 1 .. Len(w)
    BY <1>2, <1>3, <1>5
  <1>7. /\ v[p + 1 - n] = w[p + 1]
        /\ k >= Base => v[p + 2 - n] = w[p + 2]
        /\ v[p + h + 1 - n] = w[p + h + 1] /\ v[p + h + 2 - n] = w[p + h + 2]
    BY <1>3, <1>6
  <1>8. /\ p + 1 - n = p - n + 1 /\ p + 2 - n = p - n + 2
        /\ p + h + 1 - n = p - n + h + 1 /\ p + h + 2 - n = p - n + h + 2
    <2>1. h \in Nat
      BY <1>1
    <2>2. p + 1 - n = p - n + 1 /\ p + 2 - n = p - n + 2
      OBVIOUS
    <2>3. p + h + 1 - n = p - n + h + 1
      BY <2>1
    <2>4. p + h + 2 - n = p - n + h + 2
      BY <2>1
    <2>5. QED
      BY <2>2, <2>3, <2>4
  <1>9. /\ k < Base => v[p - n + 1] = Digit(k)
        /\ k >= Base => v[p - n + 1] = Digit(k \div Base) /\ v[p - n + 2] = Digit(k % Base)
        /\ v[p - n + h + 1] = CR /\ v[p - n + h + 2] = LF
    BY <1>4, <1>7, <1>8
  <1>10. QED
    BY <1>1, <1>9 DEF HeadAt

LEMMA ChunkShift ==
  ASSUME NEW v, NEW w, NEW f \in Nat, NEW n \in Nat, Shifted(v, w, f, n),
         NEW p \in Nat, f <= p, NEW b, NEW g \in Nat, NEW k \in Nat,
         ChunkAt(w, p, b, g, k), p + k + 2 <= Len(w)
  PROVE  ChunkAt(v, p - n, b, g, k)
  <1>1. Len(w) \in Nat /\ \A i \in f + 1 .. Len(w) : v[i - n] = w[i]
    BY DEF Shifted
  <1>2. ASSUME NEW i \in 1 .. k PROVE v[p - n + i] = ByteToken(b[g + i])
    <2>1. PICK j : j = p + i
      OBVIOUS
    <2>2. j \in f + 1 .. Len(w) /\ j - n = p - n + i
      BY <1>1, <2>1
    <2>3. w[p + i] = ByteToken(b[g + i])
      BY DEF ChunkAt, BytesAt
    <2>4. QED
      BY <1>1, <2>1, <2>2, <2>3
  <1>3. v[p - n + k + 1] = CR /\ v[p - n + k + 2] = LF
    <2>1. w[p + k + 1] = CR /\ w[p + k + 2] = LF
      BY DEF ChunkAt
    <2>2. PICK j : j = p + k + 1
      OBVIOUS
    <2>3. PICK l : l = p + k + 2
      OBVIOUS
    <2>4. /\ j \in f + 1 .. Len(w) /\ j - n = p - n + k + 1
          /\ l \in f + 1 .. Len(w) /\ l - n = p - n + k + 2
      BY <1>1, <2>2, <2>3
    <2>5. v[j - n] = w[j] /\ v[l - n] = w[l]
      BY <1>1, <2>4
    <2>6. QED
      BY <2>1, <2>2, <2>3, <2>4, <2>5
  <1>4. BytesAt(v, p - n, b, g, k)
    BY <1>2 DEF BytesAt
  <1>5. QED
    BY <1>3, <1>4 DEF ChunkAt

LEMMA LinkShift ==
  ASSUME NEW v, NEW w, NEW f \in Nat, NEW n \in Nat, Shifted(v, w, f, n),
         NEW p \in Nat, f <= p, NEW q \in Nat, q <= Len(w), NEW b, NEW d \in Nat, NEW e \in Nat,
         LinkAt(w, b, p, q, d, e)
  PROVE  LinkAt(v, b, p - n, q - n, d, e)
  <1>1. d < e /\ e - d <= MaxChunk
    BY DEF LinkAt
  <1>2. PICK k \in Nat : k = e - d
    <2>1. e - d \in Nat
      BY <1>1
    <2>2. QED
      BY <2>1
  <1>3. PICK h \in {1, 2} : h = Width(k)
    BY WidthFacts
  <1>4. PICK r \in Nat : r = p + h + 2
    OBVIOUS
  <1>5. HeadAt(w, p, k) /\ ChunkAt(w, r, b, d, k) /\ q = r + k + 2
    BY <1>2, <1>3, <1>4 DEF LinkAt
  <1>6. Len(w) \in Nat
    BY DEF Shifted
  <1>7. HeadAt(v, p - n, k)
    <2>1. p + Width(k) + 2 <= Len(w)
      <3>1. r <= Len(w)
        BY <1>4, <1>5, <1>6
      <3>2. p + Width(k) + 2 = r
        BY <1>3, <1>4
      <3>3. QED
        BY <3>1, <3>2
    <2>2. QED
      BY <1>5, <2>1, HeadShift
  <1>8. ChunkAt(v, r - n, b, d, k)
    <2>1. f <= r /\ r + k + 2 <= Len(w)
      BY <1>4, <1>5, <1>6
    <2>2. QED
      BY <1>5, <2>1, ChunkShift
  <1>9. /\ r - n = p - n + Width(k) + 2
        /\ q - n = p - n + Width(k) + 2 + k + 2
    <2>1. r - n = p - n + h + 2 /\ q - n = p - n + h + 2 + k + 2
      BY <1>4, <1>5
    <2>2. QED
      BY <1>3, <2>1
  <1>10. ChunkAt(v, p - n + Width(k) + 2, b, d, k)
    BY <1>8, <1>9
  <1>11. QED
    BY <1>1, <1>2, <1>7, <1>9, <1>10 DEF LinkAt

(* How long the end of an answer in chunks is, and that it moves too.       *)
LEMMA EndLength ==
  ASSUME NEW w, NEW p \in Nat, Len(w) \in Nat, EndAt(w, p)
  PROVE  p + 2 <= Len(w)
  BY DEF EndAt

LEMMA EndShift ==
  ASSUME NEW v, NEW w, NEW f \in Nat, NEW n \in Nat, Shifted(v, w, f, n),
         Len(v) = Len(w) - n, NEW p \in Nat, f <= p, EndAt(w, p)
  PROVE  EndAt(v, p - n)
  <1>1. Len(w) \in Nat /\ \A i \in f + 1 .. Len(w) : v[i - n] = w[i]
    BY DEF Shifted
  <1>2. CASE Len(w) = p + 2 /\ w[p + 1] = CR /\ w[p + 2] = LF
    <2>1. p + 1 \in f + 1 .. Len(w) /\ p + 2 \in f + 1 .. Len(w)
      BY <1>2
    <2>2. v[p + 1 - n] = w[p + 1] /\ v[p + 2 - n] = w[p + 2]
      BY <1>1, <2>1
    <2>3. p + 1 - n = p - n + 1 /\ p + 2 - n = p - n + 2 /\ Len(v) = p - n + 2
      BY <1>2
    <2>4. QED
      BY <1>2, <2>2, <2>3 DEF EndAt
  <1>3. CASE /\ Len(w) = p + 5 /\ w[p + 1] = Other
             /\ w[p + 2] = CR /\ w[p + 3] = LF /\ w[p + 4] = CR /\ w[p + 5] = LF
    <2>1. ASSUME NEW i \in 1 .. 5 PROVE v[p + i - n] = w[p + i]
      <3>1. PICK j \in Nat : j = p + i
        OBVIOUS
      <3>2. f < j /\ j <= Len(w)
        <4>1. Len(w) = p + 5 /\ i \in 1 .. 5
          BY <1>3
        <4>2. f \in Nat /\ p \in Nat /\ f <= p
          OBVIOUS
        <4>3. QED
          BY ONLY <3>1, <4>1, <4>2
      <3>3. v[j - n] = w[j]
        BY <3>2, PlaceShift
      <3>4. QED
        BY <3>1, <3>3
    <2>2. /\ v[p + 1 - n] = w[p + 1] /\ v[p + 2 - n] = w[p + 2] /\ v[p + 3 - n] = w[p + 3]
          /\ v[p + 4 - n] = w[p + 4] /\ v[p + 5 - n] = w[p + 5]
      BY <2>1
    <2>3. /\ p + 1 - n = p - n + 1 /\ p + 2 - n = p - n + 2 /\ p + 3 - n = p - n + 3
          /\ p + 4 - n = p - n + 4 /\ p + 5 - n = p - n + 5
          /\ Len(v) = p - n + 5
      BY <1>3
    <2>4. QED
      BY <1>3, <2>2, <2>3 DEF EndAt
  <1>4. QED
    BY <1>2, <1>3 DEF EndAt

(* The places of the ends of chunks, n places earlier.                      *)
Earlier(at, D, n) == [x \in Nat |-> IF x \in D THEN at[x] - n ELSE 0]

(* The links of a chain are still there when what precedes them is shorter  *)
(* or when more follows; those of the first chunks may be forgotten.        *)
LEMMA LinksShift ==
  ASSUME NEW v, NEW w, NEW f \in Nat, NEW n \in Nat, Shifted(v, w, f, n),
         Len(w) - n <= Len(v), Len(v) \in Nat,
         NEW b, NEW sent \in Nat, NEW p \in Nat, f <= p, NEW g \in Nat, NEW D, NEW at,
         Links(w, b, sent, p, g, D, at)
  PROVE  /\ Links(v, b, sent, p - n, g, D, Earlier(at, D, n))
         /\ Earlier(at, D, n)[sent] = at[sent] - n
  <1>1. /\ D \in SUBSET Nat /\ at \in [Nat -> Nat]
        /\ g \in D /\ sent \in D /\ at[g] = p
        /\ \A d \in D : g <= d /\ d <= sent /\ p <= at[d] /\ at[d] <= Len(w)
        /\ \A d \in D : d # sent => \E e \in D : LinkAt(w, b, at[d], at[e], d, e)
    BY DEF Links
  <1>2. \A c, d \in D : c <= d => at[c] <= at[d]
    BY DEF Links
  <1>3. Len(w) \in Nat /\ n <= f
    BY DEF Shifted
  <1>4. PICK at2 : at2 = Earlier(at, D, n)
    OBVIOUS
  <1>5. ASSUME NEW d \in D PROVE /\ d \in Nat /\ at[d] \in Nat /\ at[d] - n \in Nat
                                 /\ at2[d] = at[d] - n
    <2>1. d \in Nat
      BY <1>1
    <2>2. PICK x \in Nat : x = at[d]
      BY <1>1, <2>1
    <2>3. p <= x
      BY <1>1, <2>2
    <2>4. x - n \in Nat
      BY <1>3, <2>3
    <2>5. at2[d] = at[d] - n
      BY <1>4, <2>1 DEF Earlier
    <2>6. QED
      BY <2>1, <2>2, <2>4, <2>5
  <1>6. at2 \in [Nat -> Nat]
    <2>1. \A x \in Nat : (IF x \in D THEN at[x] - n ELSE 0) \in Nat
      BY <1>5
    <2>2. QED
      BY <1>4, <2>1 DEF Earlier
  <1>7. ASSUME NEW d \in D PROVE p - n <= at2[d] /\ at2[d] <= Len(v)
    <2>1. PICK x \in Nat : x = at[d]
      BY <1>5
    <2>2. p <= x /\ x <= Len(w)
      BY <1>1, <2>1
    <2>3. p - n <= x - n /\ x - n <= Len(v)
      BY <1>3, <2>2
    <2>4. QED
      BY <1>5, <2>1, <2>3
  <1>8. ASSUME NEW d \in D, d # sent PROVE \E e \in D : LinkAt(v, b, at2[d], at2[e], d, e)
    <2>1. PICK e \in D : LinkAt(w, b, at[d], at[e], d, e)
      BY <1>1, <1>8
    <2>2. PICK x \in Nat : x = at[d]
      BY <1>5
    <2>3. PICK y \in Nat : y = at[e]
      BY <1>5
    <2>4. d \in Nat /\ e \in Nat /\ f <= x /\ y <= Len(w) /\ LinkAt(w, b, x, y, d, e)
      <3>1. p <= x /\ y <= Len(w)
        BY <1>1, <2>2, <2>3
      <3>2. f <= x
        BY <3>1
      <3>3. QED
        BY <1>5, <2>1, <2>2, <2>3, <3>1, <3>2
    <2>5. LinkAt(v, b, x - n, y - n, d, e)
      BY <2>4, LinkShift
    <2>6. at2[d] = x - n /\ at2[e] = y - n
      BY <1>5, <2>2, <2>3
    <2>7. QED
      BY <2>5, <2>6
  <1>9. at2[g] = p - n /\ at2[sent] = at[sent] - n
    BY <1>1, <1>5
  <1>10. ASSUME NEW c \in D, NEW d \in D, c <= d PROVE at2[c] <= at2[d]
    <2>1. PICK x \in Nat : x = at[c]
      BY <1>5
    <2>2. PICK y \in Nat : y = at[d]
      BY <1>5
    <2>3. x <= y
      BY <1>2, <1>10, <2>1, <2>2
    <2>4. x - n <= y - n
      BY <2>3
    <2>5. QED
      BY <1>5, <2>1, <2>2, <2>4
  <1>11. Links(v, b, sent, p - n, g, D, at2)
    BY <1>1, <1>6, <1>7, <1>8, <1>9, <1>10 DEF Links
  <1>12. QED
    BY <1>9, <1>11, <1>4

(* Hence all the chunks that come after do.                                 *)
LEMMA ChainShift ==
  ASSUME NEW v, NEW w, NEW f \in Nat, NEW n \in Nat, Shifted(v, w, f, n),
         Len(v) = Len(w) - n, Len(v) \in Nat,
         NEW b, NEW sent \in Nat, NEW ended, NEW p \in Nat, f <= p, NEW g \in Nat,
         Chain(w, b, sent, ended, p, g)
  PROVE  Chain(v, b, sent, ended, p - n, g)
  <1>1. PICK D, at :
          Links(w, b, sent, p, g, D, at) /\ Stop(w, b, sent, ended, at[sent])
    BY DEF Chain
  <1>2. PICK at2 : at2 = Earlier(at, D, n)
    OBVIOUS
  <1>3. Len(w) \in Nat /\ n <= f
    BY DEF Shifted
  <1>4. Links(v, b, sent, p - n, g, D, at2) /\ at2[sent] = at[sent] - n
    <2>1. Len(w) - n <= Len(v)
      BY <1>3
    <2>2. Links(w, b, sent, p, g, D, at)
      BY <1>1
    <2>3. /\ Links(v, b, sent, p - n, g, D, Earlier(at, D, n))
          /\ Earlier(at, D, n)[sent] = at[sent] - n
      BY <2>1, <2>2, LinksShift
    <2>4. QED
      BY <1>2, <2>3
  <1>5. PICK q \in Nat : q = at[sent]
    BY <1>1 DEF Links
  <1>6. f <= q
    BY <1>1, <1>5 DEF Links
  <1>7. CASE ended
    <2>1. sent = Len(b) /\ HeadAt(w, q, 0) /\ EndAt(w, q + 3)
      BY <1>1, <1>5, <1>7 DEF Stop
    <2>2. PICK z \in Nat : z = 0
      OBVIOUS
    <2>3. PICK r \in Nat : r = q + 3
      OBVIOUS
    <2>4. EndAt(v, r - n)
      BY <1>6, <2>1, <2>3, EndShift
    <2>5. Width(z) \in {1, 2} /\ (z < Base => Width(z) = 1)
      BY WidthFacts DEF Width
    <2>6. z < Base
      BY <2>2, BaseAssumption
    <2>7. r + 2 <= Len(w)
      <3>1. EndAt(w, r)
        BY <2>1, <2>3
      <3>2. QED
        BY <1>3, <3>1, EndLength
    <2>8. HeadAt(v, q - n, z)
      <3>1. q + Width(z) + 2 <= Len(w)
        BY <1>3, <2>3, <2>5, <2>6, <2>7
      <3>2. HeadAt(w, q, z)
        BY <2>1, <2>2
      <3>3. QED
        BY <1>6, <3>1, <3>2, HeadShift
    <2>9. r - n = q - n + 3
      BY <2>3
    <2>10. Stop(v, b, sent, ended, q - n)
      BY <1>7, <2>1, <2>2, <2>4, <2>8, <2>9 DEF Stop
    <2>11. QED
      <3>1. Stop(v, b, sent, ended, at2[sent])
        BY <1>4, <1>5, <2>10
      <3>2. QED
        BY <1>4, <3>1 DEF Chain
  <1>8. CASE ~ended
    <2>1. Len(w) = q
      BY <1>1, <1>5, <1>8 DEF Stop
    <2>2. Len(v) = at2[sent]
      BY <1>4, <1>5, <2>1
    <2>3. Stop(v, b, sent, ended, at2[sent])
      BY <1>8, <2>2 DEF Stop
    <2>4. QED
      BY <1>4, <2>3 DEF Chain
  <1>9. QED
    BY <1>7, <1>8

(* Chunks that come after p places are within what is sent.                 *)
LEMMA ChainBounds ==
  ASSUME NEW w, NEW b, NEW sent \in Nat, NEW ended, NEW p \in Nat, NEW g \in Nat,
         Len(w) \in Nat, Chain(w, b, sent, ended, p, g)
  PROVE  g <= sent /\ p <= Len(w)
  <1>1. PICK D, at : Links(w, b, sent, p, g, D, at)
    BY DEF Chain
  <1>2. QED
    BY <1>1 DEF Links

(* At the end of a chain there is nothing yet, or the last chunk.           *)
LEMMA ChainEnds ==
  ASSUME NEW w, NEW b, NEW sent \in Nat, NEW ended, NEW p \in Nat,
         Chain(w, b, sent, ended, p, sent)
  PROVE  Stop(w, b, sent, ended, p)
  <1>1. PICK D, at : Links(w, b, sent, p, sent, D, at) /\ Stop(w, b, sent, ended, at[sent])
    BY DEF Chain
  <1>2. QED
    BY <1>1 DEF Links

(* Before, there is a chunk that another one follows.                       *)
LEMMA ChainGoesOn ==
  ASSUME NEW w, NEW b, NEW sent \in Nat, NEW ended, NEW p \in Nat, NEW g \in Nat,
         Len(w) \in Nat, Chain(w, b, sent, ended, p, g), g # sent
  PROVE  \E e \in Nat, q \in Nat :
           /\ g < e /\ e <= sent /\ q <= Len(w)
           /\ LinkAt(w, b, p, q, g, e) /\ Chain(w, b, sent, ended, q, e)
  <1>1. PICK D, at : Links(w, b, sent, p, g, D, at) /\ Stop(w, b, sent, ended, at[sent])
    BY DEF Chain
  <1>2. /\ D \in SUBSET Nat /\ at \in [Nat -> Nat]
        /\ g \in D /\ sent \in D /\ at[g] = p
        /\ \A d \in D : g <= d /\ d <= sent /\ at[d] <= Len(w)
        /\ \A c, d \in D : c <= d => at[c] <= at[d]
        /\ \A d \in D : d # sent => \E e \in D : LinkAt(w, b, at[d], at[e], d, e)
    BY <1>1 DEF Links
  <1>3. PICK e \in D : LinkAt(w, b, at[g], at[e], g, e)
    BY <1>2
  <1>4. e \in Nat /\ at[e] \in Nat /\ g < e /\ e <= sent /\ at[e] <= Len(w)
    BY <1>2, <1>3 DEF LinkAt
  <1>5. PICK F : F = {d \in D : e <= d}
    OBVIOUS
  <1>6. Links(w, b, sent, at[e], e, F, at)
    <2>1. F \in SUBSET Nat /\ F \subseteq D
      BY <1>2, <1>5
    <2>2. e \in F /\ sent \in F
      BY <1>2, <1>4, <1>5
    <2>3. \A d \in F : e <= d /\ d <= sent /\ at[d] <= Len(w)
      BY <1>2, <1>5
    <2>4. \A c, d \in F : c <= d => at[c] <= at[d]
      BY <1>2, <2>1
    <2>5. ASSUME NEW d \in F, d # sent PROVE \E x \in F : LinkAt(w, b, at[d], at[x], d, x)
      <3>1. PICK x \in D : LinkAt(w, b, at[d], at[x], d, x)
        BY <1>2, <2>1, <2>5
      <3>2. d < x
        BY <3>1 DEF LinkAt
      <3>3. x \in F
        BY <1>2, <1>4, <1>5, <2>1, <3>2
      <3>4. QED
        BY <3>1, <3>3
    <2>6. QED
      BY <1>2, <2>1, <2>2, <2>3, <2>4, <2>5 DEF Links
  <1>7. Chain(w, b, sent, ended, at[e], e)
    BY <1>1, <1>6 DEF Chain
  <1>8. LinkAt(w, b, p, at[e], g, e)
    BY <1>2, <1>3
  <1>9. QED
    BY <1>4, <1>7, <1>8

(* Nothing has been sent in chunks yet.                                     *)
LEMMA ChainNone ==
  ASSUME NEW w, NEW b, NEW p \in Nat, Len(w) = p
  PROVE  Chain(w, b, 0, FALSE, p, 0)
  <1>1. PICK at : at = [x \in Nat |-> p]
    OBVIOUS
  <1>2. at \in [Nat -> Nat] /\ at[0] = p /\ {0} \in SUBSET Nat
    BY <1>1
  <1>3. Links(w, b, 0, p, 0, {0}, at)
    BY <1>2 DEF Links
  <1>4. Stop(w, b, 0, FALSE, at[0])
    BY <1>2 DEF Stop
  <1>5. QED
    BY <1>3, <1>4 DEF Chain

(* Another chunk is sent.                                                   *)
LEMMA ChainGrows ==
  ASSUME NEW w, NEW v, NEW l \in Nat, NEW k \in Nat, Len(w) = l, Len(v) = k,
         NEW z \in Nat, z = 0, Shifted(v, w, z, z), l <= k,
         NEW b, NEW sent \in Nat, NEW to \in Nat, sent < to, NEW p \in Nat, NEW g \in Nat,
         Chain(w, b, sent, FALSE, p, g), LinkAt(v, b, l, k, sent, to)
  PROVE  Chain(v, b, to, FALSE, p, g)
  <1>1. PICK D, at : Links(w, b, sent, p, g, D, at) /\ Stop(w, b, sent, FALSE, at[sent])
    BY DEF Chain
  <1>2. /\ D \in SUBSET Nat /\ at \in [Nat -> Nat]
        /\ g \in D /\ sent \in D /\ at[g] = p
        /\ \A d \in D : g <= d /\ d <= sent /\ at[d] <= l
        /\ \A c, d \in D : c <= d => at[c] <= at[d]
        /\ \A d \in D : d # sent => \E e \in D : LinkAt(w, b, at[d], at[e], d, e)
    BY <1>1 DEF Links
  <1>3. at[sent] = l
    BY <1>1 DEF Stop
  <1>4. PICK F : F = D \cup {to}
    OBVIOUS
  <1>5. PICK at2 : at2 = [at EXCEPT ![to] = k]
    OBVIOUS
  <1>6. at2 \in [Nat -> Nat] /\ at2[to] = k /\ \A d \in Nat : d # to => at2[d] = at[d]
    BY <1>2, <1>5
  <1>7. to \notin D /\ \A d \in D : d \in Nat /\ d < to /\ d # to /\ at2[d] = at[d] /\ at[d] \in Nat
    <2>1. ASSUME NEW d \in D
          PROVE  d \in Nat /\ d < to /\ d # to /\ at2[d] = at[d] /\ at[d] \in Nat
      <3>1. d \in Nat /\ d <= sent
        BY <1>2
      <3>2. d < to /\ d # to
        BY <3>1
      <3>3. QED
        BY <1>2, <1>6, <3>1, <3>2
    <2>2. QED
      BY <2>1
  <1>8. \A d \in F : g <= d /\ d <= to /\ at2[d] <= k
    <2>1. ASSUME NEW d \in D PROVE g <= d /\ d <= to /\ at2[d] <= k
      <3>1. PICK x \in Nat : x = at[d]
        BY <1>7
      <3>2. x <= k
        BY <1>2, <3>1
      <3>3. g <= d /\ d < to /\ d \in Nat
        BY <1>2, <1>7
      <3>4. QED
        BY <1>7, <3>1, <3>2, <3>3
    <2>2. g <= to /\ at2[to] <= k
      BY <1>2, <1>6, <1>7
    <2>3. QED
      BY <1>4, <2>1, <2>2
  <1>9. ASSUME NEW c \in F, NEW d \in F, c <= d PROVE at2[c] <= at2[d]
    <2>1. CASE d = to
      BY <1>6, <1>8, <2>1
    <2>2. CASE d # to
      <3>1. d \in D
        BY <1>4, <2>2
      <3>2. c # to
        BY <1>7, <1>9, <3>1
      <3>3. c \in D
        BY <1>4, <3>2
      <3>4. QED
        BY <1>2, <1>7, <1>9, <3>1, <3>3
    <2>3. QED
      BY <2>1, <2>2
  <1>10. ASSUME NEW d \in F, d # to PROVE \E e \in F : LinkAt(v, b, at2[d], at2[e], d, e)
    <2>1. d \in D
      BY <1>4, <1>10
    <2>2. CASE d = sent
      <3>1. LinkAt(v, b, at2[d], at2[to], d, to)
        BY <1>3, <1>6, <1>7, <2>1, <2>2
      <3>2. QED
        BY <1>4, <3>1
    <2>3. CASE d # sent
      <3>1. PICK e \in D : LinkAt(w, b, at[d], at[e], d, e)
        BY <1>2, <2>1, <2>3
      <3>2. PICK x \in Nat : x = at[d]
        BY <1>7, <2>1
      <3>3. PICK y \in Nat : y = at[e]
        BY <1>7
      <3>4. y <= Len(w) /\ z <= x
        BY <1>2, <3>3
      <3>5. d \in Nat /\ e \in Nat /\ LinkAt(w, b, x, y, d, e)
        BY <1>7, <2>1, <3>1, <3>2, <3>3
      <3>6. LinkAt(v, b, x - z, y - z, d, e)
        BY <3>4, <3>5, LinkShift
      <3>7. x - z = x /\ y - z = y
        OBVIOUS
      <3>8. LinkAt(v, b, at2[d], at2[e], d, e)
        BY <1>7, <2>1, <3>2, <3>3, <3>6, <3>7
      <3>9. QED
        BY <1>4, <3>8
    <2>4. QED
      BY <2>2, <2>3
  <1>11. Links(v, b, to, p, g, F, at2)
    <2>1. F \in SUBSET Nat /\ g \in F /\ to \in F
      BY <1>2, <1>4
    <2>2. at2[g] = p
      BY <1>2, <1>7
    <2>3. QED
      BY <1>6, <1>8, <1>9, <1>10, <2>1, <2>2 DEF Links
  <1>12. Stop(v, b, to, FALSE, at2[to])
    BY <1>6 DEF Stop
  <1>13. QED
    BY <1>11, <1>12 DEF Chain

(* The last chunk is sent.                                                  *)
LEMMA ChainCloses ==
  ASSUME NEW w, NEW v, NEW l \in Nat, Len(w) = l, Len(v) \in Nat, l <= Len(v),
         NEW z \in Nat, z = 0, Shifted(v, w, z, z),
         NEW b, NEW sent \in Nat, NEW p \in Nat, NEW g \in Nat,
         Chain(w, b, sent, FALSE, p, g),
         sent = Len(b), HeadAt(v, l, 0), EndAt(v, l + 3)
  PROVE  Chain(v, b, sent, TRUE, p, g)
  <1>1. PICK D, at : Links(w, b, sent, p, g, D, at) /\ Stop(w, b, sent, FALSE, at[sent])
    BY DEF Chain
  <1>2. at[sent] = l
    BY <1>1 DEF Stop
  <1>3. Links(v, b, sent, p - z, g, D, Earlier(at, D, z)) /\ Earlier(at, D, z)[sent] = at[sent] - z
    <2>1. z <= p /\ Len(w) - z <= Len(v)
      OBVIOUS
    <2>2. QED
      BY <1>1, <2>1, LinksShift
  <1>4. PICK at2 : at2 = Earlier(at, D, z)
    OBVIOUS
  <1>5. p - z = p /\ at[sent] - z = l
    BY <1>2
  <1>6. Links(v, b, sent, p, g, D, at2) /\ at2[sent] = l
    BY <1>3, <1>4, <1>5
  <1>7. Stop(v, b, sent, TRUE, at2[sent])
    BY <1>6 DEF Stop
  <1>8. QED
    BY <1>6, <1>7 DEF Chain
-----------------------------------------------------------------------------
(***************************************************************************)
(* The scanner.                                                            *)
(***************************************************************************)

(* What is in the buffer is a part of w.                                    *)
Received(w) ==
  /\ Len(msg) \in Nat /\ Len(w) \in Nat /\ Len(msg) <= Len(w)
  /\ \A i \in 1 .. Len(msg) : msg[i] = w[i]

(* A place of the buffer.                                                   *)
LEMMA ReceivedPlace ==
  ASSUME NEW w, Received(w), NEW k \in Nat, 0 < k, k <= Len(msg)
  PROVE  msg[k] = w[k]
  BY DEF Received

(* What the scanner finds: an end of line in its two forms, or none.        *)
LEMMA EndsWithLF ==
  ASSUME NEW w, Received(w), NEW k \in Nat, 0 < k, w[k] = LF
  PROVE  EndOfLine(k) = IF k <= Len(msg) THEN 1 ELSE 0
  <1>1. PICK l \in Nat : l = Len(msg)
    BY DEF Received
  <1>2. CASE k <= l
    <2>1. msg[k] = LF
      BY <1>1, <1>2, ReceivedPlace
    <2>2. QED
      BY <1>1, <1>2, <2>1, TokenFacts DEF EndOfLine
  <1>3. CASE k > l
    BY <1>1, <1>3 DEF EndOfLine, Incomplete
  <1>4. QED
    BY <1>1, <1>2, <1>3

LEMMA EndsWithCRLF ==
  ASSUME NEW w, Received(w), NEW k \in Nat, 0 < k, w[k] = CR, w[k + 1] = LF
  PROVE  EndOfLine(k) = IF k + 1 <= Len(msg) THEN 2 ELSE 0
  <1>1. PICK l \in Nat : l = Len(msg)
    BY DEF Received
  <1>2. CR # LF
    BY TokenFacts
  <1>3. CASE k < l
    <2>1. msg[k] = CR
      BY <1>1, <1>3, ReceivedPlace
    <2>2. msg[k + 1] = LF
      <3>1. PICK j \in Nat : j = k + 1
        OBVIOUS
      <3>2. msg[j] = w[j]
        BY <1>1, <1>3, <3>1, ReceivedPlace
      <3>3. QED
        BY <3>1, <3>2
    <2>3. QED
      BY <1>1, <1>2, <1>3, <2>1, <2>2 DEF EndOfLine
  <1>4. CASE k = l
    <2>1. msg[k] = CR
      BY <1>1, <1>4, ReceivedPlace
    <2>2. QED
      BY <1>1, <1>2, <1>4, <2>1 DEF EndOfLine, Incomplete
  <1>5. CASE k > l
    BY <1>1, <1>5 DEF EndOfLine, Incomplete
  <1>6. QED
    BY <1>1, <1>3, <1>4, <1>5

LEMMA EndsNot ==
  ASSUME NEW w, Received(w), NEW k \in Nat, 0 < k, w[k] \notin {CR, LF}
  PROVE  EndOfLine(k) = IF k <= Len(msg) THEN -1 ELSE 0
  <1>1. PICK l \in Nat : l = Len(msg)
    BY DEF Received
  <1>2. CASE k <= l
    <2>1. msg[k] # CR /\ msg[k] # LF
      BY <1>1, <1>2, ReceivedPlace
    <2>2. QED
      BY <1>1, <1>2, <2>1 DEF EndOfLine, NoMatch
  <1>3. CASE k > l
    BY <1>1, <1>3 DEF EndOfLine, Incomplete
  <1>4. QED
    BY <1>1, <1>2, <1>3

(* A status line, and headers before the entity and after it.               *)
LEMMA StatusScanned ==
  ASSUME NEW w, Received(w), NEW k \in Nat, 0 < k, w[k].is = "line", w[k + 1] = LF
  PROVE  StatusLine(k) = IF k + 1 <= Len(msg) THEN 2 ELSE 0
  <1>1. PICK l \in Nat : l = Len(msg)
    BY DEF Received
  <1>2. PICK j \in Nat : j = k + 1
    OBVIOUS
  <1>3. EndOfLine(j) = IF j <= l THEN 1 ELSE 0
    BY <1>1, <1>2, EndsWithLF
  <1>4. CASE k <= l
    <2>1. msg[k].is = "line"
      BY <1>1, <1>4, ReceivedPlace
    <2>2. StatusLine(k) = IF EndOfLine(j) > 0 THEN 1 + EndOfLine(j) ELSE EndOfLine(j)
      BY <1>1, <1>2, <1>4, <2>1 DEF StatusLine
    <2>3. QED
      BY <1>1, <1>2, <1>3, <1>4, <2>2
  <1>5. CASE k > l
    BY <1>1, <1>5 DEF StatusLine, Incomplete
  <1>6. QED
    BY <1>1, <1>4, <1>5

LEMMA HeaderScanned ==
  ASSUME NEW w, Received(w), NEW k \in Nat, 0 < k, w[k].is \in {"chunked", "length", "other"},
         w[k + 1] = LF, w[k + 2] = LF
  PROVE  HeaderLine(k) = IF k + 2 <= Len(msg) THEN 2 ELSE 0
  <1>1. PICK l \in Nat : l = Len(msg)
    BY DEF Received
  <1>2. PICK j \in Nat : j = k + 1
    OBVIOUS
  <1>3. PICK i \in Nat : i = k + 2
    OBVIOUS
  <1>4. EndOfLine(j) = IF j <= l THEN 1 ELSE 0
    BY <1>1, <1>2, EndsWithLF
  <1>5. EndOfLine(i) = IF i <= l THEN 1 ELSE 0
    BY <1>1, <1>3, EndsWithLF
  <1>6. PICK n \in Int : n = EndOfLine(j)
    BY <1>4
  <1>7. CASE k <= l
    <2>1. msg[k].is \in {"chunked", "length", "other"}
      BY <1>1, <1>7, ReceivedPlace
    <2>2. HeaderLine(k) = IF n > 0 /\ EndOfLine(k + 1 + n) = 0 THEN 0
                          ELSE IF n > 0 THEN 1 + n ELSE n
      BY <1>1, <1>2, <1>6, <1>7, <2>1 DEF HeaderLine, Incomplete
    <2>3. CASE j <= l
      <3>1. n = 1 /\ k + 1 + n = i
        BY <1>2, <1>3, <1>4, <1>6, <2>3
      <3>2. HeaderLine(k) = IF EndOfLine(i) = 0 THEN 0 ELSE 2
        BY <2>2, <3>1
      <3>3. QED
        BY <1>1, <1>3, <1>5, <3>2
    <2>4. CASE j > l
      <3>1. n = 0
        BY <1>4, <1>6, <2>4
      <3>2. QED
        BY <1>1, <1>2, <2>2, <2>4, <3>1
    <2>5. QED
      BY <2>3, <2>4
  <1>8. CASE k > l
    BY <1>1, <1>8 DEF HeaderLine, Incomplete
  <1>9. QED
    BY <1>1, <1>7, <1>8

LEMMA TrailerScanned ==
  ASSUME NEW w, Received(w), NEW k \in Nat, 0 < k, w[k] = Other,
         w[k + 1] = CR, w[k + 2] = LF, w[k + 3] = CR, w[k + 4] = LF
  PROVE  HeaderLine(k) = IF k + 4 <= Len(msg) THEN 3 ELSE 0
  <1>1. PICK l \in Nat : l = Len(msg)
    BY DEF Received
  <1>2. PICK j \in Nat : j = k + 1
    OBVIOUS
  <1>3. PICK i \in Nat : i = k + 3
    OBVIOUS
  <1>4. EndOfLine(j) = IF j + 1 <= l THEN 2 ELSE 0
    <2>1. w[j] = CR /\ w[j + 1] = LF
      <3>1. j + 1 = k + 2
        BY <1>2
      <3>2. QED
        BY <1>2, <3>1
    <2>2. QED
      BY <1>1, <1>2, <2>1, EndsWithCRLF
  <1>5. EndOfLine(i) = IF i + 1 <= l THEN 2 ELSE 0
    <2>1. w[i] = CR /\ w[i + 1] = LF
      <3>1. i + 1 = k + 4
        BY <1>3
      <3>2. QED
        BY <1>3, <3>1
    <2>2. QED
      BY <1>1, <1>3, <2>1, EndsWithCRLF
  <1>6. PICK n \in Int : n = EndOfLine(j)
    BY <1>4
  <1>7. CASE k <= l
    <2>1. msg[k].is = "other"
      BY <1>1, <1>7, ReceivedPlace, TokenFacts
    <2>2. HeaderLine(k) = IF n > 0 /\ EndOfLine(k + 1 + n) = 0 THEN 0
                          ELSE IF n > 0 THEN 1 + n ELSE n
      BY <1>1, <1>2, <1>6, <1>7, <2>1 DEF HeaderLine, Incomplete
    <2>3. CASE j + 1 <= l
      <3>1. n = 2 /\ k + 1 + n = i
        BY <1>2, <1>3, <1>4, <1>6, <2>3
      <3>2. HeaderLine(k) = IF EndOfLine(i) = 0 THEN 0 ELSE 3
        BY <2>2, <3>1
      <3>3. QED
        BY <1>1, <1>3, <1>5, <3>2
    <2>4. CASE j + 1 > l
      <3>1. n = 0
        BY <1>4, <1>6, <2>4
      <3>2. QED
        BY <1>1, <1>2, <2>2, <2>4, <3>1
    <2>5. QED
      BY <2>3, <2>4
  <1>8. CASE k > l
    BY <1>1, <1>8 DEF HeaderLine, Incomplete
  <1>9. QED
    BY <1>1, <1>7, <1>8

(* The least place is where it is known to be.                              *)
LEMMA LeastIs ==
  ASSUME NEW T \in SUBSET Int, NEW m \in T, \A j \in T : m <= j
  PROVE  Least(T) = m
  <1>1. \E i \in T : \A j \in T : i <= j
    OBVIOUS
  <1>2. PICK x : x = Least(T)
    OBVIOUS
  <1>3. x \in T /\ \A j \in T : x <= j
    BY <1>1, <1>2 DEF Least
  <1>4. x \in Int /\ m \in Int /\ x <= m /\ m <= x
    BY <1>3
  <1>5. QED
    BY <1>2, <1>4

(* A number ends at the first token that is no digit, or goes on.           *)
LEMMA NumberEnds ==
  ASSUME NEW w, Received(w), NEW k \in Nat, 0 < k, k <= Len(msg), NEW m \in Nat, k < m,
         \A i \in k .. m - 1 : w[i].is = "digit", w[m].is # "digit"
  PROVE  NumberEnd(k) = IF m <= Len(msg) THEN m ELSE Len(msg) + 1
  <1>1. PICK l \in Nat : l = Len(msg)
    BY DEF Received
  <1>2. PICK T : T = {i \in k .. l + 1 : i = l + 1 \/ msg[i].is # "digit"}
    OBVIOUS
  <1>3. PICK x \in Nat : x = IF m <= l THEN m ELSE l + 1
    OBVIOUS
  <1>4. T \in SUBSET Int
    BY <1>2
  <1>5. x \in T
    <2>1. CASE m <= l
      <3>1. msg[m] = w[m]
        BY <1>1, <2>1, ReceivedPlace
      <3>2. QED
        BY <1>2, <1>3, <2>1, <3>1
    <2>2. CASE ~(m <= l)
      BY <1>1, <1>2, <1>3, <2>2
    <2>3. QED
      BY <2>1, <2>2
  <1>6. ASSUME NEW j \in T PROVE x <= j
    <2>1. SUFFICES ASSUME j < x PROVE FALSE
      BY <1>2, <1>3
    <2>2. j \in Nat /\ k <= j /\ j <= l /\ j < m
      BY <1>2, <1>3, <2>1
    <2>3. msg[j] = w[j]
      BY <1>1, <2>2, ReceivedPlace
    <2>4. j \in k .. m - 1 /\ msg[j].is # "digit"
      BY <1>2, <2>2
    <2>5. QED
      BY <2>3, <2>4
  <1>7. Least(T) = x
    BY <1>4, <1>5, <1>6, LeastIs
  <1>8. QED
    BY <1>1, <1>2, <1>3, <1>7 DEF NumberEnd

(* The size of a chunk is read when its line is there.                      *)
LEMMA SizeScanned ==
  ASSUME NEW w, Received(w), NEW k \in Nat, 0 < k, NEW m \in Nat, k < m,
         \A i \in k .. m - 1 : w[i].is = "digit", w[m] = CR, w[m + 1] = LF
  PROVE  /\ SizeLine(k) = IF m + 1 <= Len(msg) THEN m + 2 - k ELSE 0
         /\ m + 1 <= Len(msg) => NumberEnd(k) = m
  <1>1. PICK l \in Nat : l = Len(msg)
    BY DEF Received
  <1>2. CASE k > l
    BY <1>1, <1>2 DEF SizeLine, Incomplete
  <1>3. CASE k <= l
    <2>1. w[m].is # "digit"
      BY TokenFacts
    <2>2. NumberEnd(k) = IF m <= l THEN m ELSE l + 1
      BY <1>1, <1>3, <2>1, NumberEnds
    <2>3. EndOfLine(m) = IF m + 1 <= l THEN 2 ELSE 0
      BY <1>1, EndsWithCRLF
    <2>4. msg[k].is = "digit"
      <3>1. msg[k] = w[k]
        BY <1>1, <1>3, ReceivedPlace
      <3>2. k \in k .. m - 1
        OBVIOUS
      <3>3. QED
        BY <3>1, <3>2
    <2>5. PICK T : T = {i \in NumberEnd(k) .. l : EndOfLine(i) > 0}
      OBVIOUS
    <2>6. SizeLine(k) = IF T = {} THEN 0 ELSE Least(T) + EndOfLine(Least(T)) - k
      BY <1>1, <1>3, <2>4, <2>5 DEF SizeLine, Incomplete
    <2>7. CASE m + 1 <= l
      <3>1. m \in T /\ T \in SUBSET Int /\ \A j \in T : m <= j
        BY <2>2, <2>3, <2>5, <2>7
      <3>2. Least(T) = m
        BY <3>1, LeastIs
      <3>3. QED
        BY <1>1, <2>2, <2>3, <2>6, <2>7, <3>1, <3>2
    <2>8. CASE m = l
      <3>1. T = {}
        <4>1. ASSUME NEW i \in T PROVE FALSE
          <5>1. i = m /\ EndOfLine(i) > 0
            BY <2>2, <2>5, <2>8, <4>1
          <5>2. QED
            BY <2>3, <2>8, <5>1
        <4>2. QED
          BY <4>1
      <3>2. QED
        BY <1>1, <2>6, <2>8, <3>1
    <2>9. CASE m > l
      <3>1. T = {}
        BY <2>2, <2>5, <2>9
      <3>2. QED
        BY <1>1, <2>6, <2>9, <3>1
    <2>10. QED
      BY <1>1, <2>7, <2>8, <2>9
  <1>4. QED
    BY <1>1, <1>2, <1>3

(* The value of one digit, and of two.                                      *)
LEMMA ValueOfOne ==
  ASSUME NEW k \in Nat, NumberEnd(k) = k + 1, msg[k].of \in Nat
  PROVE  Value(k) = msg[k].of
  <1>1. PICK D : D = k - 1 .. k + 1 - 1
    OBVIOUS
  <1>2. PICK x \in Nat : x = msg[k].of
    OBVIOUS
  <1>3. PICK up :
          up = CHOOSE f : f = [i \in D |-> IF i = k - 1 THEN 0 ELSE Base * f[i - 1] + msg[i].of]
    OBVIOUS
  <1>4. Value(k) = up[k + 1 - 1]
    BY <1>1, <1>3 DEF Value
  <1>5. PICK g : g = [i \in D |-> IF i = k - 1 THEN 0 ELSE x]
    OBVIOUS
  <1>6. D = {k - 1, k} /\ k # k - 1
    BY <1>1
  <1>7. g[k - 1] = 0
    BY <1>5, <1>6
  <1>8. Base * 0 + x = x
    BY BaseAssumption
  <1>9. g = [i \in D |-> IF i = k - 1 THEN 0 ELSE Base * g[i - 1] + msg[i].of]
    <2>1. \A i \in D : i # k - 1 => Base * g[i - 1] + msg[i].of = x
      BY <1>2, <1>6, <1>7, <1>8
    <2>2. QED
      BY <1>5, <2>1
  <1>10. up = [i \in D |-> IF i = k - 1 THEN 0 ELSE Base * up[i - 1] + msg[i].of]
    BY <1>3, <1>9
  <1>11. up[k - 1] = 0 /\ up[k] = Base * up[k - 1] + msg[k].of
    BY <1>6, <1>10
  <1>12. QED
    BY <1>2, <1>4, <1>8, <1>11

(* The value of a size of two digits.                                       *)
LEMMA ValueOfTwo ==
  ASSUME NEW k \in Nat, NumberEnd(k) = k + 2, msg[k].of \in Nat, msg[k + 1].of \in Nat
  PROVE  Value(k) = Base * msg[k].of + msg[k + 1].of
  <1>1. PICK D : D = k - 1 .. k + 2 - 1
    OBVIOUS
  <1>2. PICK x \in Nat : x = msg[k].of
    OBVIOUS
  <1>3. PICK y \in Nat : y = msg[k + 1].of
    OBVIOUS
  <1>4. PICK up :
          up = CHOOSE f : f = [i \in D |-> IF i = k - 1 THEN 0 ELSE Base * f[i - 1] + msg[i].of]
    OBVIOUS
  <1>5. Value(k) = up[k + 2 - 1]
    BY <1>1, <1>4 DEF Value
  <1>6. PICK z : z = Base * x + y
    OBVIOUS
  <1>7. PICK g : g = [i \in D |-> IF i = k - 1 THEN 0 ELSE IF i = k THEN x ELSE z]
    OBVIOUS
  <1>8. D = {k - 1, k, k + 1} /\ k # k - 1 /\ k + 1 # k - 1 /\ k + 1 # k
    BY <1>1
  <1>9. g[k - 1] = 0 /\ g[k] = x
    BY <1>7, <1>8
  <1>10. Base * 0 + x = x
    BY BaseAssumption
  <1>11. g = [i \in D |-> IF i = k - 1 THEN 0 ELSE Base * g[i - 1] + msg[i].of]
    <2>1. k + 1 - 1 = k
      OBVIOUS
    <2>2. \A i \in D : i # k - 1 =>
            Base * g[i - 1] + msg[i].of = IF i = k THEN x ELSE z
      BY <1>2, <1>3, <1>6, <1>8, <1>9, <1>10, <2>1
    <2>3. QED
      BY <1>7, <2>2
  <1>12. up = [i \in D |-> IF i = k - 1 THEN 0 ELSE Base * up[i - 1] + msg[i].of]
    BY <1>4, <1>11
  <1>13. /\ up[k - 1] = 0 /\ up[k] = Base * up[k - 1] + msg[k].of
         /\ up[k + 1] = Base * up[k] + msg[k + 1].of
    <2>1. k + 1 - 1 = k
      OBVIOUS
    <2>2. QED
      BY <1>8, <1>12, <2>1
  <1>14. k + 2 - 1 = k + 1
    OBVIOUS
  <1>15. QED
    BY <1>2, <1>3, <1>5, <1>10, <1>13, <1>14

(* Two digits are enough for the sizes of chunks.                           *)
LEMMA TwoDigits ==
  ASSUME NEW n \in Nat
  PROVE  /\ n \div Base \in Nat /\ n % Base \in Nat
         /\ Base * (n \div Base) + (n % Base) = n
  BY BaseAssumption

(* The head of a chunk is read when its line is there.                      *)
LEMMA HeadScanned ==
  ASSUME NEW w, Received(w), NEW p \in Nat, NEW n \in Nat, HeadAt(w, p, n)
  PROVE  /\ SizeLine(p + 1) = IF p + Width(n) + 2 <= Len(msg) THEN Width(n) + 2 ELSE 0
         /\ p + Width(n) + 2 <= Len(msg) => Value(p + 1) = n
  <1>1. PICK l \in Nat : l = Len(msg)
    BY DEF Received
  <1>2. PICK k \in Nat : k = p + 1
    OBVIOUS
  <1>3. CASE n < Base
    <2>1. Width(n) = 1
      BY <1>3 DEF Width
    <2>2. PICK m \in Nat : m = p + 2
      OBVIOUS
    <2>3. w[k] = Digit(n) /\ w[m] = CR /\ w[m + 1] = LF
      <3>1. w[p + 1] = Digit(n) /\ w[p + 1 + 1] = CR /\ w[p + 1 + 2] = LF
        BY <1>3, <2>1 DEF HeadAt
      <3>2. p + 1 + 1 = m /\ p + 1 + 2 = m + 1
        BY <2>2
      <3>3. QED
        BY <1>2, <3>1, <3>2
    <2>4. \A i \in k .. m - 1 : w[i].is = "digit"
      <3>1. \A i \in k .. m - 1 : i = k
        BY <1>2, <2>2
      <3>2. w[k].is = "digit"
        BY <2>3 DEF Digit, Token
      <3>3. QED
        BY <3>1, <3>2
    <2>5. /\ SizeLine(k) = IF m + 1 <= l THEN m + 2 - k ELSE 0
          /\ m + 1 <= l => NumberEnd(k) = m
      <3>1. 0 < k /\ k < m
        BY <1>2, <2>2
      <3>2. QED
        BY <1>1, <2>3, <2>4, <3>1, SizeScanned
    <2>6. m + 1 <= l => Value(k) = n
      <3>1. SUFFICES ASSUME m + 1 <= l PROVE Value(k) = n
        OBVIOUS
      <3>2. msg[k] = w[k]
        BY <1>1, <1>2, <2>2, <3>1, ReceivedPlace
      <3>3. msg[k].of = n
        BY <2>3, <3>2 DEF Digit, Token
      <3>4. NumberEnd(k) = k + 1
        BY <1>2, <2>2, <2>5, <3>1
      <3>5. QED
        BY <3>3, <3>4, ValueOfOne
    <2>7. QED
      BY <1>1, <1>2, <2>1, <2>2, <2>5, <2>6
  <1>4. CASE ~(n < Base)
    <2>1. Width(n) = 2
      BY <1>4 DEF Width
    <2>2. PICK m \in Nat : m = p + 3
      OBVIOUS
    <2>3. PICK a \in Nat : a = n \div Base
      BY TwoDigits
    <2>4. PICK b \in Nat : b = n % Base
      BY TwoDigits
    <2>5. w[k] = Digit(a) /\ w[k + 1] = Digit(b) /\ w[m] = CR /\ w[m + 1] = LF
      <3>1. /\ w[p + 1] = Digit(n \div Base) /\ w[p + 2] = Digit(n % Base)
            /\ w[p + 2 + 1] = CR /\ w[p + 2 + 2] = LF
        <4>1. n >= Base
          BY <1>4, BaseAssumption
        <4>2. QED
          BY <2>1, <4>1 DEF HeadAt
      <3>2. p + 2 + 1 = m /\ p + 2 + 2 = m + 1 /\ p + 2 = k + 1
        BY <1>2, <2>2
      <3>3. QED
        BY <1>2, <2>3, <2>4, <3>1, <3>2
    <2>6. \A i \in k .. m - 1 : w[i].is = "digit"
      <3>1. \A i \in k .. m - 1 : i = k \/ i = k + 1
        BY <1>2, <2>2
      <3>2. w[k].is = "digit" /\ w[k + 1].is = "digit"
        BY <2>5 DEF Digit, Token
      <3>3. QED
        BY <3>1, <3>2
    <2>7. /\ SizeLine(k) = IF m + 1 <= l THEN m + 2 - k ELSE 0
          /\ m + 1 <= l => NumberEnd(k) = m
      <3>1. 0 < k /\ k < m
        BY <1>2, <2>2
      <3>2. QED
        BY <1>1, <2>5, <2>6, <3>1, SizeScanned
    <2>8. m + 1 <= l => Value(k) = n
      <3>1. SUFFICES ASSUME m + 1 <= l PROVE Value(k) = n
        OBVIOUS
      <3>2. msg[k] = w[k]
        BY <1>1, <1>2, <2>2, <3>1, ReceivedPlace
      <3>3. msg[k + 1] = w[k + 1]
        <4>1. PICK j \in Nat : j = k + 1
          OBVIOUS
        <4>2. msg[j] = w[j]
          BY <1>1, <1>2, <2>2, <3>1, <4>1, ReceivedPlace
        <4>3. QED
          BY <4>1, <4>2
      <3>4. msg[k].of = a /\ msg[k + 1].of = b
        BY <2>5, <3>2, <3>3 DEF Digit, Token
      <3>5. NumberEnd(k) = k + 2
        BY <1>2, <2>2, <2>7, <3>1
      <3>6. Value(k) = Base * a + b
        BY <3>4, <3>5, ValueOfTwo
      <3>7. QED
        BY <2>3, <2>4, <3>6, TwoDigits
    <2>9. QED
      BY <1>1, <1>2, <2>1, <2>2, <2>7, <2>8
  <1>5. QED
    BY <1>3, <1>4

(* What should be the head of a chunk is none.                              *)
LEMMA WrongScanned ==
  ASSUME NEW w, Received(w), NEW k \in Nat, 0 < k, w[k] = Other
  PROVE  SizeLine(k) = IF k <= Len(msg) THEN -1 ELSE 0
  <1>1. PICK l \in Nat : l = Len(msg)
    BY DEF Received
  <1>2. CASE k <= l
    <2>1. msg[k] = Other
      BY <1>1, <1>2, ReceivedPlace
    <2>2. msg[k].is # "digit"
      BY <2>1, TokenFacts
    <2>3. QED
      BY <1>1, <1>2, <2>2 DEF SizeLine, NoMatch
  <1>3. CASE k > l
    BY <1>1, <1>3 DEF SizeLine, Incomplete
  <1>4. QED
    BY <1>1, <1>2, <1>3
-----------------------------------------------------------------------------
(***************************************************************************)
(* What servers send.                                                      *)
(***************************************************************************)

(* The bytes of an entity, and the head of a chunk, as they are sent.       *)
LEMMA BytesOfFacts ==
  ASSUME NEW b \in Seq(Byte)
  PROVE  /\ BytesOf(b) \in Seq(Toks) /\ Len(BytesOf(b)) = Len(b)
         /\ \A i \in 1 .. Len(b) : BytesOf(b)[i] = ByteToken(b[i])
  <1>1. PICK n \in Nat : n = Len(b)
    BY LenProperties
  <1>2. DOMAIN b = 1 .. n
    BY <1>1, LenProperties
  <1>3. PICK c : c = BytesOf(b)
    OBVIOUS
  <1>4. c = [i \in 1 .. n |-> ByteToken(b[i])]
    BY <1>2, <1>3 DEF BytesOf, ByteToken
  <1>5. \A i \in 1 .. n : ByteToken(b[i]) \in Toks
    <2>1. \A i \in 1 .. n : b[i] \in Byte
      BY <1>1, ElementOfSeq
    <2>2. QED
      BY <2>1, TokenFacts
  <1>6. c \in [1 .. n -> Toks]
    BY <1>4, <1>5
  <1>7. c \in Seq(Toks)
    BY <1>6, SeqDef
  <1>8. Len(c) = n
    <2>1. Len(c) \in Nat /\ DOMAIN c = 1 .. Len(c)
      BY <1>7, LenProperties
    <2>2. QED
      BY <1>6, <1>7, <2>1
  <1>9. QED
    BY <1>1, <1>3, <1>4, <1>7, <1>8

LEMMA ChunkHeadFacts ==
  ASSUME NEW n \in Nat, NEW c, c = ChunkHead(n)
  PROVE  /\ c \in Seq(Toks) /\ Len(c) = Width(n) + 2
         /\ n < Base => c[1] = Digit(n) /\ c[2] = CR /\ c[3] = LF
         /\ n >= Base => /\ c[1] = Digit(n \div Base) /\ c[2] = Digit(n % Base)
                        /\ c[3] = CR /\ c[4] = LF
  <1>1. CASE n < Base
    <2>1. c = <<Digit(n), CR, LF>>
      BY <1>1 DEF ChunkHead
    <2>2. Digit(n) \in Toks /\ CR \in Toks /\ LF \in Toks
      BY TokenFacts DEF Byte
    <2>3. c \in Seq(Toks) /\ Len(c) = 3 /\ c[1] = Digit(n) /\ c[2] = CR /\ c[3] = LF
      BY <2>1, <2>2
    <2>4. ~(n >= Base)
      BY <1>1, BaseAssumption
    <2>5. QED
      BY <1>1, <2>3, <2>4 DEF Width
  <1>2. CASE ~(n < Base)
    <2>1. PICK a \in Nat : a = n \div Base
      BY TwoDigits
    <2>2. PICK b \in Nat : b = n % Base
      BY TwoDigits
    <2>3. c = <<Digit(a), Digit(b), CR, LF>>
      BY <1>2, <2>1, <2>2 DEF ChunkHead
    <2>4. Digit(a) \in Toks /\ Digit(b) \in Toks /\ CR \in Toks /\ LF \in Toks
      BY TokenFacts DEF Byte
    <2>5. /\ c \in Seq(Toks) /\ Len(c) = 4
          /\ c[1] = Digit(a) /\ c[2] = Digit(b) /\ c[3] = CR /\ c[4] = LF
      BY <2>3, <2>4
    <2>6. QED
      BY <1>2, <2>1, <2>2, <2>5 DEF Width
  <1>3. QED
    BY <1>1, <1>2

(* What joins a sequence is found after it.                                 *)
LEMMA HeadJoins ==
  ASSUME NEW v, NEW p \in Nat, NEW n \in Nat, NEW c, c = ChunkHead(n),
         \A i \in 1 .. Len(c) : v[p + i] = c[i]
  PROVE  HeadAt(v, p, n)
  <1>1. PICK h \in {1, 2} : h = Width(n)
    BY WidthFacts
  <1>2. Len(c) = h + 2
    BY <1>1, ChunkHeadFacts
  <1>3. CASE n < Base
    <2>1. c[1] = Digit(n) /\ c[2] = CR /\ c[3] = LF /\ h = 1
      BY <1>1, <1>3, ChunkHeadFacts DEF Width
    <2>2. v[p + 1] = c[1] /\ v[p + 2] = c[2] /\ v[p + 3] = c[3]
      BY <1>2, <2>1
    <2>3. p + h + 1 = p + 2 /\ p + h + 2 = p + 3 /\ ~(n >= Base)
      BY <1>3, <2>1, BaseAssumption
    <2>4. QED
      BY <1>1, <2>1, <2>2, <2>3 DEF HeadAt
  <1>4. CASE ~(n < Base)
    <2>1. n >= Base
      BY <1>4, BaseAssumption
    <2>2. /\ c[1] = Digit(n \div Base) /\ c[2] = Digit(n % Base)
          /\ c[3] = CR /\ c[4] = LF /\ h = 2
      BY <1>1, <1>4, <2>1, ChunkHeadFacts DEF Width
    <2>3. v[p + 1] = c[1] /\ v[p + 2] = c[2] /\ v[p + 3] = c[3] /\ v[p + 4] = c[4]
      BY <1>2, <2>2
    <2>4. p + h + 1 = p + 3 /\ p + h + 2 = p + 4
      BY <2>2
    <2>5. QED
      BY <1>1, <1>4, <2>2, <2>3, <2>4 DEF HeadAt
  <1>5. QED
    BY <1>3, <1>4

(* A chunk of n bytes: its head, the bytes of a and an end of line.         *)
IsChunk(c, a, n) ==
  /\ Len(c) = Width(n) + 2 + n + 2
  /\ \A i \in 1 .. Width(n) + 2 : c[i] = ChunkHead(n)[i]
  /\ \A i \in 1 .. n : c[Width(n) + 2 + i] = ByteToken(a[i])
  /\ c[Width(n) + 2 + n + 1] = CR /\ c[Width(n) + 2 + n + 2] = LF

(* What a server sends as a chunk is one.                                    *)
LEMMA ChunkFacts ==
  ASSUME NEW a, NEW n \in Nat, a \in Seq(Byte), Len(a) = n, NEW c, c = Chunk(a)
  PROVE  c \in Seq(Toks) /\ IsChunk(c, a, n)
  <1>1. PICK h \in Nat : h = Width(n) + 2
    BY WidthFacts
  <1>2. PICK x : x = ChunkHead(n)
    OBVIOUS
  <1>3. PICK y : y = BytesOf(a)
    OBVIOUS
  <1>4. PICK z : z = <<CR, LF>>
    OBVIOUS
  <1>5. PICK xy : xy = x \o y
    OBVIOUS
  <1>6. x \in Seq(Toks) /\ Len(x) = h
    BY <1>1, <1>2, ChunkHeadFacts
  <1>7. y \in Seq(Toks) /\ Len(y) = n /\ \A i \in 1 .. n : y[i] = ByteToken(a[i])
    BY <1>3, BytesOfFacts
  <1>8. z \in Seq(Toks) /\ Len(z) = 2 /\ z[1] = CR /\ z[2] = LF
    BY <1>4, TokenFacts
  <1>9. xy \in Seq(Toks) /\ IsJoin(xy, x, y)
    BY <1>5, <1>6, <1>7, PieceTypes
  <1>10. PICK hn \in Nat : hn = h + n
    OBVIOUS
  <1>11. /\ Len(xy) = hn
         /\ \A i \in 1 .. h : xy[i] = x[i]
         /\ \A i \in 1 .. n : xy[h + i] = y[i]
    <2>1. IsJoin(xy, x, y)
      BY <1>9
    <2>2. /\ Len(xy) = Len(x) + Len(y)
          /\ \A i \in 1 .. Len(x) : xy[i] = x[i]
          /\ \A i \in 1 .. Len(y) : xy[Len(x) + i] = y[i]
      BY <2>1, JoinFacts
    <2>3. QED
      BY <2>2, <1>6, <1>7, <1>10
  <1>12. c = xy \o z
    BY <1>2, <1>3, <1>4, <1>5 DEF Chunk
  <1>13. c \in Seq(Toks) /\ IsJoin(c, xy, z)
    BY <1>8, <1>9, <1>11, <1>12, PieceTypes
  <1>14. /\ Len(c) = hn + 2
         /\ \A i \in 1 .. hn : c[i] = xy[i]
         /\ \A i \in 1 .. 2 : c[hn + i] = z[i]
    <2>1. IsJoin(c, xy, z)
      BY <1>13
    <2>2. /\ Len(c) = Len(xy) + Len(z)
          /\ \A i \in 1 .. Len(xy) : c[i] = xy[i]
          /\ \A i \in 1 .. Len(z) : c[Len(xy) + i] = z[i]
      BY <2>1, JoinFacts
    <2>3. QED
      BY <2>2, <1>8, <1>11
  <1>15. \A i \in 1 .. h : c[i] = x[i]
    BY <1>10, <1>11, <1>14
  <1>16. ASSUME NEW i \in 1 .. n PROVE c[h + i] = ByteToken(a[i])
    <2>1. PICK j \in Nat : j = h + i
      OBVIOUS
    <2>2. j \in 1 .. hn
      BY <1>10, <2>1
    <2>3. c[j] = xy[j] /\ xy[h + i] = y[i]
      BY <1>11, <1>14, <2>2
    <2>4. QED
      BY <1>7, <2>1, <2>3
  <1>17. c[hn + 1] = CR /\ c[hn + 2] = LF
    BY <1>8, <1>14
  <1>18. QED
    <2>1. IsChunk(c, a, n)
      BY <1>1, <1>2, <1>10, <1>14, <1>15, <1>16, <1>17 DEF IsChunk
    <2>2. QED
      BY <1>13, <2>1

(* What is received or sent before stays where it is.                       *)
LEMMA JoinShifts ==
  ASSUME NEW w, NEW c, NEW v, IsJoin(v, w, c), NEW z \in Nat, z = 0
  PROVE  Shifted(v, w, z, z)
  <1>1. PICK l \in Nat : l = Len(w)
    BY JoinFacts
  <1>2. \A i \in 1 .. l : v[i] = w[i]
    BY <1>1, JoinFacts
  <1>3. \A i \in z + 1 .. l : v[i - z] = w[i]
    <2>1. ASSUME NEW i \in z + 1 .. l PROVE v[i - z] = w[i]
      <3>1. i - z = i /\ i \in 1 .. l
        OBVIOUS
      <3>2. QED
        BY <1>2, <3>1
    <2>2. QED
      BY <2>1
  <1>4. QED
    BY <1>1, <1>3 DEF Shifted

(* A chunk that is sent follows those that were.                            *)
LEMMA ChunkJoins ==
  ASSUME NEW b \in Seq(Byte), NEW d \in Nat, NEW e \in Nat, d < e, e <= Len(b),
         e - d <= MaxChunk,
         NEW l \in Nat, NEW v, NEW c, Len(v) = l + Len(c),
         \A i \in 1 .. Len(c) : v[l + i] = c[i],
         c = Chunk(SubSeq(b, d + 1, e))
  PROVE  /\ c \in Seq(Toks)
         /\ LinkAt(v, b, l, Len(v), d, e) /\ l <= Len(v)
  <1>1. PICK n \in Nat : n = e - d
    <2>1. e - d \in Nat
      OBVIOUS
    <2>2. QED
      BY <2>1
  <1>2. PICK a : a = SubSeq(b, d + 1, e)
    OBVIOUS
  <1>3. a \in Seq(Byte) /\ Len(a) = n /\ \A i \in 1 .. n : a[i] = b[d + i]
    <2>1. d <= e
      OBVIOUS
    <2>2. QED
      BY <1>1, <1>2, <2>1, SubSeqFacts
  <1>4. PICK h \in Nat : h = Width(n) + 2
    BY WidthFacts
  <1>5. PICK x : x = ChunkHead(n)
    OBVIOUS
  <1>6. /\ c \in Seq(Toks) /\ Len(c) = h + n + 2
        /\ \A i \in 1 .. h : c[i] = x[i]
        /\ \A i \in 1 .. n : c[h + i] = ByteToken(a[i])
        /\ c[h + n + 1] = CR /\ c[h + n + 2] = LF
    <2>1. c = Chunk(a)
      BY <1>2
    <2>2. a \in Seq(Byte) /\ Len(a) = n
      BY <1>3
    <2>3. c \in Seq(Toks) /\ IsChunk(c, a, n)
      BY <2>1, <2>2, ChunkFacts
    <2>4. QED
      BY <1>4, <1>5, <2>3 DEF IsChunk
  <1>7. /\ Len(v) = l + (h + n + 2)
        /\ \A i \in 1 .. h + n + 2 : v[l + i] = c[i]
    <2>1. Len(c) = h + n + 2
      BY <1>6
    <2>2. QED
      BY <2>1
  <1>8. Len(x) = h
    BY <1>4, <1>5, ChunkHeadFacts
  <1>9. HeadAt(v, l, n)
    <2>1. ASSUME NEW i \in 1 .. h PROVE v[l + i] = x[i]
      <3>1. i \in 1 .. h + n + 2
        OBVIOUS
      <3>2. QED
        BY <1>6, <1>7, <3>1
    <2>2. QED
      BY <1>5, <1>8, <2>1, HeadJoins
  <1>10. PICK r \in Nat : r = l + h
    OBVIOUS
  <1>11. ChunkAt(v, r, b, d, n)
    <2>1. ASSUME NEW i \in 1 .. n PROVE v[r + i] = ByteToken(b[d + i])
      <3>1. PICK j \in Nat : j = h + i
        OBVIOUS
      <3>2. j \in 1 .. h + n + 2 /\ r + i = l + j
        BY <1>10, <3>1
      <3>3. v[l + j] = c[h + i]
        BY <1>7, <3>1, <3>2
      <3>4. QED
        BY <1>3, <1>6, <3>2, <3>3
    <2>2. v[r + n + 1] = CR /\ v[r + n + 2] = LF
      <3>1. PICK j \in Nat : j = h + n + 1
        OBVIOUS
      <3>2. PICK k \in Nat : k = h + n + 2
        OBVIOUS
      <3>3. /\ j \in 1 .. h + n + 2 /\ r + n + 1 = l + j
            /\ k \in 1 .. h + n + 2 /\ r + n + 2 = l + k
        BY <1>10, <3>1, <3>2
      <3>4. v[l + j] = CR /\ v[l + k] = LF
        BY <1>6, <1>7, <3>1, <3>2, <3>3
      <3>5. QED
        BY <3>3, <3>4
    <2>3. BytesAt(v, r, b, d, n)
      BY <2>1 DEF BytesAt
    <2>4. QED
      BY <2>2, <2>3 DEF ChunkAt
  <1>12. l + Width(n) + 2 = r /\ Len(v) = r + n + 2 /\ l <= Len(v)
    <2>1. PICK g \in {1, 2} : g = Width(n)
      BY WidthFacts
    <2>2. h = g + 2 /\ Len(v) = l + (h + n + 2)
      BY <1>4, <1>7, <2>1
    <2>3. l + g + 2 = r /\ Len(v) = r + n + 2 /\ l <= Len(v)
      BY <1>10, <2>2
    <2>4. QED
      BY <2>1, <2>3
  <1>13. LinkAt(v, b, l, Len(v), d, e)
    BY <1>1, <1>9, <1>11, <1>12 DEF LinkAt
  <1>14. QED
    BY <1>6, <1>12, <1>13

(* So does the last one, with what follows it.                              *)
LEMMA LastFacts ==
  ASSUME NEW c \in LastChunk
  PROVE  /\ c \in Seq(Toks)
         /\ c[1] = Digit(0) /\ c[2] = CR /\ c[3] = LF
         /\ \/ Len(c) = 5 /\ c[4] = CR /\ c[5] = LF
            \/ /\ Len(c) = 8 /\ c[4] = Other
               /\ c[5] = CR /\ c[6] = LF /\ c[7] = CR /\ c[8] = LF
  <1>1. Digit(0) \in Toks /\ CR \in Toks /\ LF \in Toks /\ Other \in Toks
    BY TokenFacts DEF Byte
  <1>2. CASE c = <<Digit(0), CR, LF, CR, LF>>
    BY <1>1, <1>2
  <1>3. CASE c = <<Digit(0), CR, LF, Other, CR, LF, CR, LF>>
    BY <1>1, <1>3
  <1>4. QED
    BY <1>2, <1>3 DEF LastChunk

LEMMA LastJoins ==
  ASSUME NEW c \in LastChunk, NEW l \in Nat, NEW v, Len(v) = l + Len(c),
         \A i \in 1 .. Len(c) : v[l + i] = c[i]
  PROVE  HeadAt(v, l, 0) /\ EndAt(v, l + 3) /\ Len(v) \in Nat /\ l <= Len(v)
  <1>1. PICK n \in {5, 8} : n = Len(c)
    BY LastFacts
  <1>2. /\ c[1] = Digit(0) /\ c[2] = CR /\ c[3] = LF
        /\ \/ n = 5 /\ c[4] = CR /\ c[5] = LF
           \/ /\ n = 8 /\ c[4] = Other
              /\ c[5] = CR /\ c[6] = LF /\ c[7] = CR /\ c[8] = LF
    BY <1>1, LastFacts
  <1>3. Len(v) = l + n /\ \A i \in 1 .. n : v[l + i] = c[i]
    BY <1>1
  <1>4. \A i \in 1 .. 5 : v[l + i] = c[i]
    BY <1>1, <1>3
  <1>5. v[l + 1] = Digit(0) /\ v[l + 2] = CR /\ v[l + 3] = LF
    BY <1>4, <1>2
  <1>6. HeadAt(v, l, 0)
    <2>1. 0 < Base /\ ~(0 >= Base)
      BY BaseAssumption
    <2>2. Width(0) = 1
      BY <2>1 DEF Width
    <2>3. l + 1 + 1 = l + 2 /\ l + 1 + 2 = l + 3
      OBVIOUS
    <2>4. QED
      BY <1>5, <2>1, <2>2, <2>3 DEF HeadAt
  <1>7. CASE n = 5
    <2>1. c[4] = CR /\ c[5] = LF
      BY <1>7, <1>2
    <2>2. v[l + 4] = c[4] /\ v[l + 5] = c[5] /\ c[4] = CR /\ c[5] = LF
      BY <1>4, <2>1
    <2>3. l + 3 + 1 = l + 4 /\ l + 3 + 2 = l + 5 /\ Len(v) = l + 3 + 2
      BY <1>3, <1>7
    <2>4. QED
      BY <1>3, <1>6, <2>2, <2>3 DEF EndAt
  <1>8. CASE n = 8
    <2>1. \A i \in 1 .. 8 : v[l + i] = c[i]
      BY <1>3, <1>8
    <2>2. /\ v[l + 4] = Other /\ v[l + 5] = CR /\ v[l + 6] = LF
          /\ v[l + 7] = CR /\ v[l + 8] = LF
      <3>1. c[4] = Other /\ c[5] = CR /\ c[6] = LF /\ c[7] = CR /\ c[8] = LF
        BY <1>8, <1>2
      <3>2. /\ v[l + 4] = c[4] /\ v[l + 5] = c[5] /\ v[l + 6] = c[6]
            /\ v[l + 7] = c[7] /\ v[l + 8] = c[8]
        BY <2>1
      <3>3. QED
        BY <3>1, <3>2
    <2>3. /\ l + 3 + 1 = l + 4 /\ l + 3 + 2 = l + 5 /\ l + 3 + 3 = l + 6
          /\ l + 3 + 4 = l + 7 /\ l + 3 + 5 = l + 8 /\ Len(v) = l + 3 + 5
      BY <1>3, <1>8
    <2>4. QED
      BY <1>3, <1>6, <2>2, <2>3 DEF EndAt
  <1>9. QED
    BY <1>1, <1>7, <1>8
-----------------------------------------------------------------------------
(***************************************************************************)
(* The invariant of an answer that is received and parsed.                  *)
(***************************************************************************)

(* What is before the entity of the answer a.                               *)
Named(a)  == a.form \in {"length", "chunked", "wrong"}
TopLen(a) == IF Named(a) THEN 5 ELSE 3
Status(a) == IF a.form = "none" THEN Line(0) ELSE Line(1)
Header(a) == IF a.form = "length" THEN Length(Len(a.body)) ELSE Chunked
Told(a)   == IF Named(a) THEN {Status(a), Header(a)} ELSE {Status(a)}

TopAt(w, a) ==
  /\ w[1] = Status(a) /\ w[2] = LF
  /\ IF Named(a) THEN w[3] = Header(a) /\ w[4] = LF /\ w[5] = LF ELSE w[3] = LF

(* An entity that is sent at once, and what follows the first g bytes of one *)
(* in any form, after p places.                                             *)
Whole(w, a) ==
  Len(w) = TopLen(a) + Len(a.body) /\ BytesAt(w, TopLen(a), a.body, 0, Len(a.body))

NoSize(w) == Len(w) = 6 /\ w[6] = Other

RestAt(w, a, p, g) ==
  /\ a.form \in {"length", "close"} => Whole(w, a)
  /\ a.form = "chunked" => Chain(w, a.body, a.sent, a.ended, p, g)
  /\ a.form = "wrong" => NoSize(w) /\ g = 0

AnswerOK(a) ==
  /\ a.body \in Seq(Byte) /\ a.form \in {"length", "close", "chunked", "wrong", "none"}
  /\ a.sent \in Nat /\ a.sent <= Len(a.body) /\ a.ended \in BOOLEAN
  /\ a.form = "none" => a.body = << >>

AnswerTypes ==
  /\ msg \in Seq(Toks) /\ stream \in Seq(Toks) /\ AnswerOK(answer)
  /\ cursor \in Nat /\ start \in Nat /\ entityLength \in Nat
  /\ chunkSize \in Nat /\ entityOffset \in Nat

(* The headers are not all parsed, or it is not known how the entity is read.*)
Early(w) ==
  /\ method = "unknown" /\ step # "opened"
  /\ TopAt(w, answer) /\ RestAt(w, answer, TopLen(answer), 0)
  /\ entityLength = 0 /\ entityOffset = 0 /\ okOnClose = FALSE
  /\ \/ position = "line" /\ cursor = 0
     \/ position = "headers" /\ cursor = 2 /\ headers = {Status(answer)}
     \/ /\ position = "headers" /\ Named(answer)
        /\ cursor = 4 /\ headers = Told(answer)
     \/ /\ position = "entity" /\ step = "parse"
        /\ cursor = TopLen(answer) /\ headers = Told(answer) /\ cursor <= Len(msg)

(* Some of the entity is in the buffer, where it starts.                    *)
Known(w) ==
  /\ start = TopLen(answer) /\ entityLength <= Len(answer.body)
  /\ entityOffset <= entityLength
  /\ start + entityLength <= Len(msg)
  /\ BytesAt(w, start, answer.body, 0, entityLength)

Ways(w) ==
  \/ /\ method = "unknown" /\ answer.form = "none" /\ position = "complete"
  \/ /\ method = "length" /\ answer.form = "length"
     /\ headers = Told(answer) /\ Whole(w, answer)
  \/ /\ method = "close" /\ answer.form = "close" /\ Whole(w, answer)
     /\ step = "receive" => entityLength = Len(msg) - start
  \/ /\ method = "chunked" /\ answer.form \in {"chunked", "wrong"}
     /\ position = "entity" /\ cursor = start + entityLength
     /\ RestAt(w, answer, cursor, entityLength)
  \/ /\ method = "chunk" /\ answer.form = "chunked"
     /\ position = "entity" /\ cursor = start + entityLength
     /\ chunkSize > 0 /\ entityLength + chunkSize <= Len(answer.body)
     /\ ChunkAt(w, cursor, answer.body, entityLength, chunkSize)
     /\ RestAt(w, answer, cursor + chunkSize + 2, entityLength + chunkSize)
  \/ /\ method = "trailer" /\ answer.form = "chunked" /\ answer.ended
     /\ entityLength = Len(answer.body)
     /\ position = "entity" => EndAt(w, cursor)

Late(w) ==
  /\ position \in {"entity", "complete"}
  /\ position = "complete" => entityLength = Len(answer.body)
  /\ okOnClose => method = "close"
  /\ Known(w) /\ Ways(w)

Live == AnswerTypes /\ (Early(msg \o stream) \/ Late(msg \o stream))

Released0 ==
  /\ position = "line" /\ method = "unknown" /\ msg = << >> /\ cursor = 0
  /\ headers = {} /\ start = 0 /\ entityLength = 0 /\ chunkSize = 0
  /\ entityOffset = 0 /\ okOnClose = FALSE

Connected == step \in {"parse", "receive", "opened"}

HttpInv ==
  /\ step = "closed" => Released0
  /\ Connected => Live

(* The answer is to the request that FileBuffer_Read made.                  *)
GetInv ==
  /\ step \in {"closed", "failed"} \/ Connected
  /\ pc \in {"idle", "done"} => step = "closed"
  /\ pc = "open" /\ Connected => answer.body \in Entities /\ offset <= LastByte
  /\ pc = "read" => step \notin {"closed", "opened"}
  /\ pc = "read" /\ Connected =>
       /\ Late(msg \o stream)
       /\ entity = SubSeq(answer.body, entityOffset + 1, Len(answer.body))
-----------------------------------------------------------------------------
(* What is in the buffer and what comes after it.                           *)
LEMMA BufferFacts ==
  ASSUME AnswerTypes, NEW w, w = msg \o stream
  PROVE  /\ w \in Seq(Toks) /\ IsJoin(w, msg, stream) /\ Received(w)
         /\ Len(w) \in Nat /\ Len(msg) \in Nat /\ Len(stream) \in Nat
         /\ Len(w) = Len(msg) + Len(stream)
  <1>1. msg \in Seq(Toks) /\ stream \in Seq(Toks)
    BY DEF AnswerTypes
  <1>2. w \in Seq(Toks) /\ IsJoin(w, msg, stream)
    BY <1>1, PieceTypes
  <1>3. IsJoin(w, msg, stream)
    BY <1>2
  <1>4. PICK l \in Nat : l = Len(msg)
    BY <1>3, JoinFacts
  <1>5. PICK k \in Nat : k = Len(stream)
    BY <1>3, JoinFacts
  <1>6. Len(w) = l + k
    BY <1>3, <1>4, <1>5, JoinFacts
  <1>7. \A i \in 1 .. Len(msg) : msg[i] = w[i]
    BY <1>3, JoinFacts
  <1>8. Received(w)
    BY <1>4, <1>5, <1>6, <1>7 DEF Received
  <1>9. QED
    BY <1>2, <1>4, <1>5, <1>6, <1>8

(* What an answer has before its entity.                                    *)
LEMMA AnswerFacts ==
  ASSUME NEW a, AnswerOK(a)
  PROVE  /\ Len(a.body) \in Nat
         /\ TopLen(a) = IF Named(a) THEN 5 ELSE 3
         /\ Status(a).is = "line" /\ (Status(a) = Line(0) <=> a.form = "none")
         /\ Named(a) => /\ Header(a).is \in {"chunked", "length"}
                       /\ Header(a) \notin {CR, LF}
  <1>1. Len(a.body) \in Nat
    <2>1. a.body \in Seq(Byte)
      BY DEF AnswerOK
    <2>2. QED
      BY <2>1, LenProperties
  <1>2. Line(0).is = "line" /\ Line(1).is = "line" /\ Line(1) # Line(0)
    BY DEF Line, Token
  <1>3. Length(Len(a.body)).is = "length" /\ Chunked.is = "chunked"
    BY DEF Length, Chunked, Token
  <1>4. CR.is = "CR" /\ LF.is = "LF"
    BY DEF CR, LF, Token
  <1>5. Status(a).is = "line" /\ (Status(a) = Line(0) <=> a.form = "none")
    BY <1>2 DEF Status
  <1>6. Header(a).is \in {"chunked", "length"}
    BY <1>3 DEF Header
  <1>7. Header(a) \notin {CR, LF}
    BY <1>4, <1>6
  <1>8. QED
    BY <1>1, <1>5, <1>6, <1>7 DEF TopLen

(* While the headers are received nothing else changes.                     *)
LEMMA EarlyWaits ==
  ASSUME AnswerTypes, NEW w, Early(w), position # "entity", step' = "receive",
         UNCHANGED <<answer, stream, position, method, msg, cursor, headers, start,
                     entityLength, chunkSize, entityOffset, okOnClose>>
  PROVE  AnswerTypes' /\ Early(w)'
  <1>1. AnswerTypes'
    BY DEF AnswerTypes
  <1>2. Early(w)'
    BY DEF Early
  <1>3. QED
    BY <1>1, <1>2

(* The status line is parsed, or more is received.                          *)
LEMMA LineParsed ==
  ASSUME AnswerTypes, NEW w, Received(w), Early(w), ParseResponseLine
  PROVE  step' # "failed" /\ AnswerTypes' /\ Early(w)'
  <1>1. /\ position = "line" /\ step = "parse" /\ cursor = 0
        /\ w[1] = Status(answer) /\ w[2] = LF
    BY DEF ParseResponseLine, Parsing, Early, TopAt
  <1>2. Status(answer).is = "line"
    BY AnswerFacts DEF AnswerTypes
  <1>3. PICK k \in Nat : k = 1
    OBVIOUS
  <1>4. PICK n \in Int : n = StatusLine(k)
    <2>1. 0 < k /\ w[k].is = "line" /\ w[k + 1] = LF
      BY <1>1, <1>2, <1>3
    <2>2. StatusLine(k) = IF k + 1 <= Len(msg) THEN 2 ELSE 0
      BY <2>1, StatusScanned
    <2>3. QED
      BY <2>2
  <1>5. n = IF 2 <= Len(msg) THEN 2 ELSE 0
    <2>1. 0 < k /\ w[k].is = "line" /\ w[k + 1] = LF /\ k + 1 = 2
      BY <1>1, <1>2, <1>3
    <2>2. QED
      BY <1>4, <2>1, StatusScanned
  <1>6. cursor + 1 = k
    BY <1>1, <1>3
  <1>7. CASE n > 0
    <2>1. /\ cursor' = 2 /\ headers' = {msg[k]} /\ position' = "headers"
          /\ UNCHANGED <<answer, stream, step, method, msg, start, entityLength,
                         chunkSize, entityOffset, okOnClose>>
      <3>1. n = 2 /\ StatusLine(cursor + 1) = n
        <4>1. n = 2
          BY <1>5, <1>7
        <4>2. StatusLine(cursor + 1) = n
          BY <1>4, <1>6
        <4>3. QED
          BY <4>1, <4>2
      <3>2. cursor' = cursor + n /\ headers' = {msg[cursor + 1]} /\ position' = "headers"
        BY <1>7, <3>1 DEF ParseResponseLine
      <3>3. UNCHANGED <<answer, stream, step, method, msg, start, entityLength,
                        chunkSize, entityOffset, okOnClose>>
        BY <1>7, <3>1 DEF ParseResponseLine
      <3>4. QED
        BY <1>1, <1>6, <3>1, <3>2, <3>3
    <2>2. msg[k] = Status(answer)
      <3>1. 2 <= Len(msg) /\ Len(msg) \in Nat
        BY <1>5, <1>7 DEF Received
      <3>2. msg[k] = w[k]
        BY <1>3, <3>1, ReceivedPlace
      <3>3. QED
        BY <1>1, <1>3, <3>2
    <2>3. AnswerTypes'
      BY <2>1 DEF AnswerTypes
    <2>4. Early(w)'
      BY <1>1, <2>1, <2>2 DEF Early
    <2>5. QED
      BY <1>1, <2>1, <2>3, <2>4
  <1>8. CASE ~(n > 0)
    <2>1. /\ step' = "receive"
          /\ UNCHANGED <<answer, stream, position, method, msg, cursor, headers, start,
                         entityLength, chunkSize, entityOffset, okOnClose>>
      <3>1. NotMatched(n)
        BY <1>4, <1>6, <1>8 DEF ParseResponseLine
      <3>2. n = 0
        BY <1>5, <1>8
      <3>3. QED
        BY <3>1, <3>2 DEF NotMatched, ParseResponseLine, Incomplete
    <2>2. QED
      BY <1>1, <2>1, EarlyWaits
  <1>9. QED
    BY <1>7, <1>8

(* A header before the entity is parsed.                                    *)
LEMMA HeaderParsed ==
  ASSUME AnswerTypes, NEW w, Received(w), Early(w), ParseHeader
  PROVE  step' # "failed" /\ AnswerTypes' /\ Early(w)'
  <1>1. position = "headers" /\ step = "parse" /\ EndOfLine(cursor + 1) = -1
    BY DEF ParseHeader, InHeaders, Parsing, Reading, Early, NoMatch
  <1>2. AnswerOK(answer) /\ cursor \in Nat
    BY DEF AnswerTypes
  <1>3. PICK k \in Nat : k = cursor + 1
    BY <1>2
  <1>4. w[k] # LF
    <2>1. SUFFICES ASSUME w[k] = LF PROVE FALSE
      OBVIOUS
    <2>2. 0 < k
      BY <1>2, <1>3
    <2>3. EndOfLine(k) = IF k <= Len(msg) THEN 1 ELSE 0
      BY <2>1, <2>2, EndsWithLF
    <2>4. EndOfLine(k) = -1
      BY <1>1, <1>3
    <2>5. QED
      BY <2>3, <2>4
  <1>5. /\ Named(answer) /\ cursor = 2 /\ headers = {Status(answer)}
        /\ w[3] = Header(answer) /\ w[4] = LF /\ w[5] = LF
    <2>1. CASE cursor = 4 /\ Named(answer)
      <3>1. k = 5 /\ w[5] = LF
        BY <1>3, <2>1 DEF Early, TopAt
      <3>2. QED
        BY <1>4, <3>1
    <2>2. CASE cursor = 2 /\ headers = {Status(answer)}
      <3>1. k = 3
        BY <1>3, <2>2
      <3>2. IF Named(answer) THEN w[3] = Header(answer) /\ w[4] = LF /\ w[5] = LF
                             ELSE w[3] = LF
        BY DEF Early, TopAt
      <3>3. QED
        BY <1>4, <2>2, <3>1, <3>2
    <2>3. QED
      BY <1>1, <2>1, <2>2 DEF Early
  <1>6. Header(answer).is \in {"chunked", "length"}
    BY <1>2, <1>5, AnswerFacts
  <1>7. k = 3
    BY <1>3, <1>5
  <1>8. HeaderLine(k) = IF k + 2 <= Len(msg) THEN 2 ELSE 0
    <2>1. 0 < k /\ k + 1 = 4 /\ k + 2 = 5
      BY <1>7
    <2>2. w[k].is \in {"chunked", "length", "other"}
      BY <1>5, <1>6, <1>7
    <2>3. w[k + 1] = LF /\ w[k + 2] = LF
      BY <1>5, <2>1
    <2>4. QED
      BY <2>1, <2>2, <2>3, HeaderScanned
  <1>9. PICK n \in Int : n = HeaderLine(k)
    BY <1>8
  <1>10. n = IF k + 2 <= Len(msg) THEN 2 ELSE 0
    BY <1>8, <1>9
  <1>11. HeaderLine(cursor + 1) = n
    BY <1>3, <1>9
  <1>12. CASE n > 0
    <2>1. n = 2 /\ k + 2 <= Len(msg)
      BY <1>10, <1>12
    <2>2. /\ cursor' = cursor + n /\ headers' = headers \cup {msg[cursor + 1]}
          /\ UNCHANGED <<answer, stream, step, position, method, msg, start, entityLength,
                         chunkSize, entityOffset, okOnClose>>
      BY <1>11, <1>12 DEF ParseHeader
    <2>3. msg[k] = w[k]
      <3>1. 0 < k /\ k <= Len(msg)
        <4>1. Len(msg) \in Nat
          BY DEF Received
        <4>2. QED
          BY <1>7, <2>1, <4>1
      <3>2. QED
        BY <3>1, ReceivedPlace
    <2>4. msg[cursor + 1] = Header(answer)
      BY <1>3, <1>5, <1>7, <2>3
    <2>5. cursor' = 4
      BY <1>5, <2>1, <2>2
    <2>6. headers' = Told(answer)
      BY <1>5, <2>2, <2>4 DEF Told
    <2>7. AnswerTypes'
      BY <2>2, <2>5 DEF AnswerTypes
    <2>8. Early(w)'
      BY <1>1, <1>5, <2>2, <2>5, <2>6 DEF Early
    <2>9. QED
      BY <1>1, <2>2, <2>7, <2>8
  <1>13. CASE ~(n > 0)
    <2>1. n = 0
      BY <1>10, <1>13
    <2>2. NotMatched(n)
      BY <1>11, <1>13 DEF ParseHeader
    <2>3. /\ step' = "receive"
          /\ UNCHANGED <<answer, stream, position, method, msg, cursor, headers, start,
                         entityLength, chunkSize, entityOffset, okOnClose>>
      BY <2>1, <2>2 DEF NotMatched, ParseHeader, Incomplete
    <2>4. QED
      BY <1>1, <2>3, EarlyWaits
  <1>14. QED
    BY <1>12, <1>13

(* The headers before the entity end.                                       *)
LEMMA HeadersEnded ==
  ASSUME AnswerTypes, NEW w, Received(w), Early(w), EndHeaders
  PROVE  step' # "failed" /\ AnswerTypes' /\ Early(w)'
  <1>1. position = "headers" /\ step = "parse" /\ EndOfLine(cursor + 1) # -1
    BY DEF EndHeaders, InHeaders, Parsing, Reading, Early, NoMatch
  <1>2. AnswerOK(answer) /\ cursor \in Nat
    BY DEF AnswerTypes
  <1>3. PICK k \in Nat : k = cursor + 1
    BY <1>2
  <1>4. ASSUME w[k] # LF PROVE k = 3 /\ w[k] \notin {CR, LF} /\ Named(answer)
    <2>1. CASE cursor = 4 /\ Named(answer)
      <3>1. k = 5 /\ w[5] = LF
        BY <1>3, <2>1 DEF Early, TopAt
      <3>2. QED
        BY <1>4, <3>1
    <2>2. CASE cursor = 2 /\ headers = {Status(answer)}
      <3>1. k = 3
        BY <1>3, <2>2
      <3>2. IF Named(answer) THEN w[3] = Header(answer) ELSE w[3] = LF
        BY DEF Early, TopAt
      <3>3. Named(answer) => Header(answer) \notin {CR, LF}
        BY <1>2, AnswerFacts
      <3>4. QED
        BY <1>4, <3>1, <3>2, <3>3
    <2>3. QED
      BY <1>1, <2>1, <2>2 DEF Early
  <1>5. ASSUME w[k] = LF PROVE k = TopLen(answer) /\ headers = Told(answer)
    <2>1. CASE cursor = 4 /\ Named(answer) /\ headers = Told(answer)
      BY <1>3, <2>1 DEF TopLen
    <2>2. CASE cursor = 2 /\ headers = {Status(answer)}
      <3>1. k = 3
        BY <1>3, <2>2
      <3>2. ~Named(answer)
        <4>1. Named(answer) => w[3] = Header(answer) /\ Header(answer) # LF
          <5>1. Named(answer) => w[3] = Header(answer)
            BY DEF Early, TopAt
          <5>2. Named(answer) => Header(answer) \notin {CR, LF}
            BY <1>2, AnswerFacts
          <5>3. QED
            BY <5>1, <5>2
        <4>2. QED
          BY <1>5, <3>1, <4>1
      <3>3. QED
        BY <2>2, <3>1, <3>2 DEF TopLen, Told
    <2>3. QED
      BY <1>1, <2>1, <2>2 DEF Early
  <1>6. 0 < k /\ Len(msg) \in Nat
    BY <1>2, <1>3 DEF Received
  <1>7. PICK n \in Int : /\ n = EndOfLine(k)
                         /\ n \in {0, 1, -1}
                         /\ n = 1 => w[k] = LF /\ k <= Len(msg)
    <2>1. CASE w[k] = LF
      <3>1. EndOfLine(k) = IF k <= Len(msg) THEN 1 ELSE 0
        BY <1>6, <2>1, EndsWithLF
      <3>2. QED
        BY <2>1, <3>1
    <2>2. CASE w[k] # LF
      <3>1. EndOfLine(k) = IF k <= Len(msg) THEN -1 ELSE 0
        BY <1>4, <1>6, <2>2, EndsNot
      <3>2. QED
        BY <3>1
    <2>3. QED
      BY <2>1, <2>2
  <1>8. EndOfLine(cursor + 1) = n
    BY <1>3, <1>7
  <1>9. n = 1 \/ n = 0
    BY <1>1, <1>7, <1>8
  <1>10. CASE n = 1
    <2>1. /\ cursor' = cursor + n /\ position' = "entity"
          /\ UNCHANGED <<answer, stream, step, method, msg, headers, start, entityLength,
                         chunkSize, entityOffset, okOnClose>>
      BY <1>1, <1>8, <1>10 DEF EndHeaders
    <2>2. cursor' = k /\ k = TopLen(answer) /\ headers = Told(answer) /\ k <= Len(msg)
      BY <1>3, <1>5, <1>7, <1>10, <2>1
    <2>3. AnswerTypes'
      BY <2>1, <2>2 DEF AnswerTypes
    <2>4. Early(w)'
      BY <1>1, <2>1, <2>2 DEF Early
    <2>5. QED
      BY <1>1, <2>1, <2>3, <2>4
  <1>11. CASE n = 0
    <2>1. NotMatched(n)
      BY <1>8, <1>11 DEF EndHeaders
    <2>2. /\ step' = "receive"
          /\ UNCHANGED <<answer, stream, position, method, msg, cursor, headers, start,
                         entityLength, chunkSize, entityOffset, okOnClose>>
      BY <1>11, <2>1 DEF NotMatched, EndHeaders, Incomplete
    <2>3. QED
      BY <1>1, <2>2, EarlyWaits
  <1>12. QED
    BY <1>9, <1>10, <1>11

(* How the entity is read is known from the headers.                        *)
LEMMA MethodKnown ==
  ASSUME AnswerTypes, NEW w, Received(w), Early(w), GetEntityReadMethod
  PROVE  step' # "failed" /\ AnswerTypes' /\ Late(w)'
  <1>1. /\ position = "entity" /\ step = "parse"
        /\ cursor = TopLen(answer) /\ headers = Told(answer) /\ cursor <= Len(msg)
        /\ RestAt(w, answer, cursor, 0) /\ entityOffset = 0 /\ okOnClose = FALSE
        /\ method = "unknown"
    BY DEF GetEntityReadMethod, Reading, Parsing, Early
  <1>2. AnswerOK(answer) /\ cursor \in Nat /\ Len(msg) \in Nat
    BY DEF AnswerTypes, Received
  <1>3. /\ start' = cursor /\ entityLength' = 0 /\ step' = "opened"
        /\ UNCHANGED <<answer, stream, msg, cursor, headers, chunkSize, entityOffset,
                       okOnClose>>
    BY DEF GetEntityReadMethod
  <1>4. AnswerTypes'
    BY <1>3 DEF AnswerTypes
  <1>5. PICK l \in Nat : l = Len(answer.body)
    BY <1>2, AnswerFacts
  <1>6. Known(w)'
    <2>1. BytesAt(w, start', answer'.body, 0, entityLength')
      BY <1>3 DEF BytesAt
    <2>2. start' = TopLen(answer') /\ entityLength' <= Len(answer'.body)
      BY <1>1, <1>3, <1>5
    <2>3. entityOffset' <= entityLength' /\ start' + entityLength' <= Len(msg')
      BY <1>1, <1>2, <1>3
    <2>4. QED
      BY <2>1, <2>2, <2>3 DEF Known
  <1>7. CASE answer.form = "none"
    <2>1. Line(0) \in headers
      <3>1. Status(answer) = Line(0)
        BY <1>7 DEF Status
      <3>2. QED
        BY <1>1, <3>1 DEF Told
    <2>2. position' = "complete" /\ method' = "unknown"
      BY <1>1, <2>1 DEF GetEntityReadMethod
    <2>3. entityLength' = Len(answer'.body)
      <3>1. answer.body = << >>
        BY <1>2, <1>7 DEF AnswerOK
      <3>2. Len(<< >>) = 0
        OBVIOUS
      <3>3. QED
        BY <1>3, <3>1, <3>2
    <2>4. Ways(w)'
      BY <1>3, <1>7, <2>2 DEF Ways
    <2>5. QED
      BY <1>1, <1>3, <1>4, <1>6, <2>2, <2>3, <2>4 DEF Late
  <1>8. CASE answer.form # "none"
    <2>1. /\ Line(0) \notin headers
          /\ Chunked \in headers <=> answer.form \in {"chunked", "wrong"}
          /\ (\E h \in headers : h.is = "length") <=> answer.form = "length"
      <3>1. Line(1).is = "line" /\ Line(1) # Line(0)
        BY DEF Line, Token
      <3>2. Length(Len(answer.body)).is = "length"
        BY DEF Length, Token
      <3>3. Chunked.is = "chunked" /\ Line(0).is = "line"
        BY DEF Chunked, Line, Token
      <3>4. headers = IF Named(answer) THEN {Line(1), Header(answer)} ELSE {Line(1)}
        BY <1>1, <1>8 DEF Told, Status
      <3>5. CASE answer.form = "length"
        <4>1. headers = {Line(1), Length(Len(answer.body))}
          BY <3>4, <3>5 DEF Named, Header
        <4>2. QED
          BY <3>1, <3>2, <3>3, <3>5, <4>1
      <3>6. CASE answer.form \in {"chunked", "wrong"}
        <4>1. headers = {Line(1), Chunked}
          BY <3>4, <3>6 DEF Named, Header
        <4>2. QED
          BY <3>1, <3>3, <3>6, <4>1
      <3>7. CASE answer.form = "close"
        <4>1. headers = {Line(1)}
          BY <3>4, <3>7 DEF Named
        <4>2. QED
          BY <3>1, <3>3, <3>7, <4>1
      <3>8. QED
        BY <1>2, <1>8, <3>5, <3>6, <3>7 DEF AnswerOK
    <2>2. /\ position' = position
          /\ method' = CASE answer.form \in {"chunked", "wrong"} -> "chunked"
                         [] answer.form = "length" -> "length"
                         [] OTHER -> "close"
      BY <2>1 DEF GetEntityReadMethod
    <2>3. Ways(w)'
      <3>1. CASE answer.form = "length"
        <4>1. method' = "length" /\ Whole(w, answer)
          BY <1>1, <2>2, <3>1 DEF RestAt
        <4>2. QED
          BY <1>1, <1>3, <3>1, <4>1 DEF Ways
      <3>2. CASE answer.form \in {"chunked", "wrong"}
        <4>1. method' = "chunked" /\ cursor' = start' + entityLength'
          BY <1>2, <1>3, <2>2, <3>2
        <4>2. RestAt(w, answer', cursor', entityLength')
          BY <1>1, <1>3
        <4>3. QED
          BY <1>1, <1>3, <2>2, <3>2, <4>1, <4>2 DEF Ways
      <3>3. CASE answer.form = "close"
        <4>1. method' = "close" /\ Whole(w, answer)
          BY <1>1, <2>2, <3>3 DEF RestAt
        <4>2. QED
          BY <1>3, <3>3, <4>1 DEF Ways
      <3>4. QED
        BY <1>2, <1>8, <3>1, <3>2, <3>3 DEF AnswerOK
    <2>4. QED
      BY <1>1, <1>3, <1>4, <1>6, <2>2, <2>3 DEF Late
  <1>9. QED
    BY <1>7, <1>8

(* While the entity is received nothing else changes.                       *)
LEMMA LateWaits ==
  ASSUME AnswerTypes, NEW w, Late(w), method # "close", step' = "receive",
         UNCHANGED <<answer, stream, position, method, msg, cursor, headers, start,
                     entityLength, chunkSize, entityOffset, okOnClose>>
  PROVE  AnswerTypes' /\ Late(w)'
  <1>1. AnswerTypes'
    BY DEF AnswerTypes
  <1>2. Known(w)'
    BY DEF Late, Known
  <1>3. Ways(w)'
    BY DEF Late, Ways
  <1>4. Late(w)'
    BY <1>2, <1>3 DEF Late
  <1>5. QED
    BY <1>1, <1>4

(* A header after the last chunk is parsed.                                 *)
LEMMA TrailerParsed ==
  ASSUME AnswerTypes, NEW w, Received(w), Late(w), ParseHeader
  PROVE  step' \in {"parse", "receive"} /\ AnswerTypes' /\ Late(w)'
  <1>1. /\ position = "entity" /\ method = "trailer" /\ step = "parse"
        /\ EndOfLine(cursor + 1) = -1
    BY DEF ParseHeader, InHeaders, Parsing, Reading, Late, NoMatch
  <1>2. cursor \in Nat
    BY DEF AnswerTypes
  <1>3. PICK k \in Nat : k = cursor + 1
    BY <1>2
  <1>4. /\ answer.form = "chunked" /\ answer.ended
        /\ entityLength = Len(answer.body) /\ EndAt(w, cursor)
    BY <1>1 DEF Late, Ways
  <1>5. 0 < k /\ Len(msg) \in Nat /\ EndOfLine(k) = -1
    BY <1>1, <1>2, <1>3 DEF Received
  <1>6. ~(w[k] = CR /\ w[k + 1] = LF)
    <2>1. SUFFICES ASSUME w[k] = CR, w[k + 1] = LF PROVE FALSE
      OBVIOUS
    <2>2. EndOfLine(k) = IF k + 1 <= Len(msg) THEN 2 ELSE 0
      BY <1>5, <2>1, EndsWithCRLF
    <2>3. QED
      BY <1>5, <2>2
  <1>7. /\ Len(w) = cursor + 5 /\ w[k] = Other
        /\ w[k + 1] = CR /\ w[k + 2] = LF /\ w[k + 3] = CR /\ w[k + 4] = LF
    <2>1. /\ cursor + 2 = k + 1 /\ cursor + 3 = k + 2
          /\ cursor + 4 = k + 3 /\ cursor + 5 = k + 4
      BY <1>2, <1>3
    <2>2. QED
      BY <1>3, <1>4, <1>6, <2>1 DEF EndAt
  <1>8. HeaderLine(k) = IF k + 4 <= Len(msg) THEN 3 ELSE 0
    BY <1>5, <1>7, TrailerScanned
  <1>9. PICK n \in Int : n = HeaderLine(k)
    BY <1>8
  <1>10. n = IF k + 4 <= Len(msg) THEN 3 ELSE 0
    BY <1>8, <1>9
  <1>11. HeaderLine(cursor + 1) = n
    BY <1>3, <1>9
  <1>12. CASE n > 0
    <2>1. n = 3
      BY <1>10, <1>12
    <2>2. /\ cursor' = cursor + n
          /\ UNCHANGED <<answer, stream, step, position, method, msg, start, entityLength,
                         chunkSize, entityOffset, okOnClose>>
      BY <1>11, <1>12 DEF ParseHeader
    <2>3. PICK c \in Nat : c = cursor + 3
      BY <1>2
    <2>4. cursor' = c
      BY <2>1, <2>2, <2>3
    <2>5. EndAt(w, c)
      <3>1. c + 1 = k + 3 /\ c + 2 = k + 4 /\ c + 2 = cursor + 5
        BY <1>2, <1>3, <2>3
      <3>2. QED
        BY <1>7, <3>1 DEF EndAt
    <2>6. AnswerTypes'
      BY <2>2, <2>4 DEF AnswerTypes
    <2>7. Known(w)'
      BY <2>2 DEF Late, Known
    <2>8. Ways(w)'
      BY <1>1, <1>4, <2>2, <2>4, <2>5 DEF Ways
    <2>9. Late(w)'
      BY <1>1, <2>2, <2>7, <2>8 DEF Late
    <2>10. QED
      BY <1>1, <2>2, <2>6, <2>9
  <1>13. CASE ~(n > 0)
    <2>1. n = 0
      BY <1>10, <1>13
    <2>2. NotMatched(n)
      BY <1>11, <1>13 DEF ParseHeader
    <2>3. /\ step' = "receive"
          /\ UNCHANGED <<answer, stream, position, method, msg, cursor, headers, start,
                         entityLength, chunkSize, entityOffset, okOnClose>>
      BY <2>1, <2>2 DEF NotMatched, ParseHeader, Incomplete
    <2>4. QED
      BY <1>1, <2>3, LateWaits
  <1>14. QED
    BY <1>12, <1>13

(* The headers after the last chunk end: the entity is complete.            *)
LEMMA TrailerEnded ==
  ASSUME AnswerTypes, NEW w, Received(w), Late(w), EndHeaders
  PROVE  step' \in {"parse", "receive"} /\ AnswerTypes' /\ Late(w)'
  <1>1. /\ position = "entity" /\ method = "trailer" /\ step = "parse"
        /\ EndOfLine(cursor + 1) # -1
    BY DEF EndHeaders, InHeaders, Parsing, Reading, Late, NoMatch
  <1>2. cursor \in Nat
    BY DEF AnswerTypes
  <1>3. PICK k \in Nat : k = cursor + 1
    BY <1>2
  <1>4. /\ answer.form = "chunked" /\ answer.ended
        /\ entityLength = Len(answer.body) /\ EndAt(w, cursor)
    BY <1>1 DEF Late, Ways
  <1>5. 0 < k /\ Len(msg) \in Nat /\ EndOfLine(k) # -1
    BY <1>1, <1>2, <1>3 DEF Received
  <1>6. PICK n \in Nat : n = EndOfLine(k)
    <2>1. CASE w[k] = CR /\ w[k + 1] = LF
      <3>1. EndOfLine(k) = IF k + 1 <= Len(msg) THEN 2 ELSE 0
        BY <1>5, <2>1, EndsWithCRLF
      <3>2. QED
        BY <3>1
    <2>2. CASE w[k] = Other
      <3>1. w[k] \notin {CR, LF}
        BY <2>2 DEF Other, CR, LF, Token
      <3>2. EndOfLine(k) = IF k <= Len(msg) THEN -1 ELSE 0
        BY <1>5, <3>1, EndsNot
      <3>3. QED
        BY <1>5, <3>2
    <2>3. cursor + 2 = k + 1
      BY <1>2, <1>3
    <2>4. QED
      BY <1>3, <1>4, <2>1, <2>2, <2>3 DEF EndAt
  <1>7. EndOfLine(cursor + 1) = n
    BY <1>3, <1>6
  <1>8. CASE n > 0
    <2>1. /\ cursor' = cursor + n /\ position' = "complete" /\ step' = "receive"
          /\ UNCHANGED <<answer, stream, method, msg, headers, start, entityLength,
                         chunkSize, entityOffset, okOnClose>>
      BY <1>1, <1>7, <1>8 DEF EndHeaders
    <2>2. cursor' \in Nat
      BY <1>2, <2>1
    <2>3. AnswerTypes'
      BY <2>1, <2>2 DEF AnswerTypes
    <2>4. Known(w)'
      BY <2>1 DEF Late, Known
    <2>5. Ways(w)'
      BY <1>1, <1>4, <2>1 DEF Ways
    <2>6. Late(w)'
      BY <1>1, <1>4, <2>1, <2>4, <2>5 DEF Late
    <2>7. QED
      BY <2>1, <2>3, <2>6
  <1>9. CASE ~(n > 0)
    <2>1. n = 0
      BY <1>9
    <2>2. NotMatched(n)
      BY <1>7, <1>9 DEF EndHeaders
    <2>3. /\ step' = "receive"
          /\ UNCHANGED <<answer, stream, position, method, msg, cursor, headers, start,
                         entityLength, chunkSize, entityOffset, okOnClose>>
      BY <2>1, <2>2 DEF NotMatched, EndHeaders, Incomplete
    <2>4. QED
      BY <1>1, <2>3, LateWaits
  <1>10. QED
    BY <1>8, <1>9

(* As much of an entity that is sent at once as is received is known.       *)
LEMMA LengthParsed ==
  ASSUME AnswerTypes, NEW w, Received(w), Late(w), ParseUsingLength
  PROVE  step' = "receive" /\ AnswerTypes' /\ Late(w)'
  <1>1. /\ position = "entity" /\ method = "length"
        /\ answer.form = "length" /\ headers = Told(answer) /\ Whole(w, answer)
    BY DEF ParseUsingLength, Reading, Parsing, Late, Ways
  <1>2. PICK l \in Nat : l = Len(answer.body)
    BY AnswerFacts DEF AnswerTypes
  <1>3. ContentLength = l
    <2>1. headers = {Line(1), Length(l)}
      BY <1>1, <1>2 DEF Told, Named, Status, Header
    <2>2. Length(l).is = "length" /\ Length(l).of = l /\ Line(1).is = "line"
      BY DEF Length, Line, Token
    <2>3. \A h \in headers : h.is = "length" => h = Length(l)
      BY <2>1, <2>2
    <2>4. Length(l) \in headers
      BY <2>1
    <2>5. (CHOOSE h \in headers : h.is = "length") = Length(l)
      BY <2>2, <2>3, <2>4
    <2>6. QED
      BY <2>2, <2>5 DEF ContentLength
  <1>4. PICK m \in Nat : m = Len(msg)
    BY DEF Received
  <1>5. /\ start = 5 /\ entityLength \in Nat /\ entityOffset \in Nat
        /\ entityLength <= l /\ entityOffset <= entityLength
        /\ start + entityLength <= m /\ start = TopLen(answer)
    <2>1. TopLen(answer) = 5
      BY <1>1 DEF TopLen, Named
    <2>2. QED
      BY <1>2, <1>4, <2>1 DEF AnswerTypes, Late, Known
  <1>6. PICK n \in Nat : n = m - start
    <2>1. m - start \in Nat
      BY <1>5
    <2>2. QED
      BY <2>1
  <1>7. /\ step' = "receive"
        /\ UNCHANGED <<answer, stream, method, msg, cursor, headers, start, chunkSize,
                       entityOffset, okOnClose>>
    BY DEF ParseUsingLength
  <1>8. PICK e \in Nat : /\ entityLength' = e /\ e <= l /\ e <= n /\ entityLength <= e
                         /\ position' \in {"entity", "complete"}
                         /\ position' = "complete" => e = l
    <2>1. CASE n < l
      <3>1. entityLength' = n /\ position' = position
        BY <1>3, <1>4, <1>6, <2>1 DEF ParseUsingLength
      <3>2. n <= l /\ n <= n /\ entityLength <= n
        BY <1>5, <1>6, <2>1
      <3>3. QED
        BY <1>1, <3>1, <3>2
    <2>2. CASE ~(n < l)
      <3>1. entityLength' = l /\ position' = "complete"
        BY <1>3, <1>4, <1>6, <2>2 DEF ParseUsingLength
      <3>2. l <= n /\ l <= l
        BY <2>2
      <3>3. QED
        BY <1>5, <3>1, <3>2
    <2>3. QED
      BY <2>1, <2>2
  <1>9. AnswerTypes'
    BY <1>7, <1>8 DEF AnswerTypes
  <1>10. Known(w)'
    <2>1. BytesAt(w, start, answer.body, 0, e)
      <3>1. \A i \in 1 .. l : w[start + i] = ByteToken(answer.body[0 + i])
        BY <1>1, <1>2, <1>5 DEF Whole, BytesAt
      <3>2. QED
        BY <1>8, <3>1 DEF BytesAt
    <2>2. e <= l /\ entityOffset <= e /\ start + e <= m
      BY <1>5, <1>6, <1>8
    <2>3. QED
      BY <1>2, <1>4, <1>5, <1>7, <1>8, <2>1, <2>2 DEF Known
  <1>11. Ways(w)'
    BY <1>1, <1>7 DEF Ways
  <1>12. Late(w)'
    <2>1. okOnClose => method = "close"
      BY DEF Late
    <2>2. QED
      BY <1>2, <1>7, <1>8, <1>10, <1>11, <2>1 DEF Late
  <1>13. QED
    BY <1>7, <1>9, <1>12

(* All that was received is of an entity that the connection ends.          *)
LEMMA CloseParsed ==
  ASSUME AnswerTypes, NEW w, Received(w), Late(w), ParseUntilClose
  PROVE  step' = "receive" /\ AnswerTypes' /\ Late(w)'
  <1>1. /\ position = "entity" /\ method = "close"
        /\ answer.form = "close" /\ Whole(w, answer)
    BY DEF ParseUntilClose, Reading, Parsing, Late, Ways
  <1>2. PICK l \in Nat : l = Len(answer.body)
    BY AnswerFacts DEF AnswerTypes
  <1>3. PICK m \in Nat : m = Len(msg)
    BY DEF Received
  <1>4. /\ start = 3 /\ entityLength \in Nat /\ entityOffset \in Nat
        /\ entityOffset <= entityLength
        /\ start + entityLength <= m /\ start = TopLen(answer)
    <2>1. TopLen(answer) = 3
      BY <1>1 DEF TopLen, Named
    <2>2. QED
      BY <1>2, <1>3, <2>1 DEF AnswerTypes, Late, Known
  <1>5. PICK n \in Nat : n = m - start
    <2>1. m - start \in Nat
      BY <1>4
    <2>2. QED
      BY <2>1
  <1>6. /\ step' = "receive" /\ cursor' = m /\ entityLength' = n
        /\ UNCHANGED <<answer, stream, position, method, msg, headers, start, chunkSize,
                       entityOffset>>
    BY <1>3, <1>5 DEF ParseUntilClose
  <1>7. n <= l /\ entityOffset <= n /\ start + n <= m
    <2>1. m <= Len(w)
      BY <1>3 DEF Received
    <2>2. Len(w) = 3 + l
      BY <1>1, <1>2, <1>4 DEF Whole
    <2>3. QED
      BY <1>4, <1>5, <2>1, <2>2
  <1>8. AnswerTypes'
    BY <1>6 DEF AnswerTypes
  <1>9. Known(w)'
    <2>1. BytesAt(w, start, answer.body, 0, n)
      <3>1. \A i \in 1 .. l : w[start + i] = ByteToken(answer.body[0 + i])
        BY <1>1, <1>2, <1>4 DEF Whole, BytesAt
      <3>2. QED
        BY <1>7, <3>1 DEF BytesAt
    <2>2. QED
      BY <1>2, <1>3, <1>4, <1>6, <1>7, <2>1 DEF Known
  <1>10. Ways(w)'
    BY <1>1, <1>3, <1>5, <1>6 DEF Ways
  <1>11. Late(w)'
    BY <1>1, <1>6, <1>9, <1>10 DEF Late
  <1>12. QED
    BY <1>6, <1>8, <1>11

(* What is taken out of the buffer is taken out of all that is sent.        *)
LEMMA DeletedRest ==
  ASSUME NEW f \in Nat, NEW n \in Nat, NEW d, d = Deleted(f + 1, n)
  PROVE  IsRest(d, msg, f, n)
  <1>1. PICK c \in Nat : c = f + 1
    OBVIOUS
  <1>2. PICK e \in Nat : e = f + n + 1
    OBVIOUS
  <1>3. c - 1 = f /\ c + n = e
    BY <1>1, <1>2
  <1>4. d = SubSeq(msg, 1, c - 1) \o SubSeq(msg, c + n, Len(msg))
    BY <1>1, Zenon DEF Deleted
  <1>5. d = SubSeq(msg, 1, f) \o SubSeq(msg, e, Len(msg))
    BY <1>3, <1>4, Zenon
  <1>6. QED
    BY <1>2, <1>5, Zenon DEF IsRest

(* d is the buffer without the n places that follow the first f, and v what  *)
(* is then received in all.                                                 *)
IsTaken(d, v, w, f, n) ==
  /\ d \in Seq(Toks) /\ Len(d) \in Nat /\ Len(d) = Len(msg) - n /\ f <= Len(d)
  /\ Len(v) \in Nat /\ Len(v) = Len(w) - n
  /\ Same(v, w, f) /\ Shifted(v, w, f + n, n)

LEMMA Taken ==
  ASSUME AnswerTypes, NEW w, w = msg \o stream, NEW f \in Nat, NEW n \in Nat,
         f + n <= Len(msg), NEW d, d = Deleted(f + 1, n), NEW v, v = d \o stream
  PROVE  IsTaken(d, v, w, f, n)
  <1>1. msg \in Seq(Toks) /\ stream \in Seq(Toks)
    BY DEF AnswerTypes
  <1>2. IsRest(d, msg, f, n)
    BY DeletedRest
  <1>3. /\ d \in Seq(Toks) /\ Len(d) = Len(msg) - n
        /\ Len(v) = Len(w) - n
    BY <1>1, <1>2, DeleteFacts
  <1>4. Same(v, w, f) /\ Shifted(v, w, f + n, n)
    <2>1. Same(d \o stream, msg \o stream, f) /\ Shifted(d \o stream, msg \o stream, f + n, n)
      BY <1>1, <1>2, DeleteFacts
    <2>2. QED
      BY <2>1
  <1>5. Len(w) \in Nat /\ Len(msg) \in Nat /\ Len(msg) <= Len(w)
    BY BufferFacts DEF Received
  <1>6. Len(d) \in Nat /\ Len(v) \in Nat /\ f <= Len(d)
    BY <1>3, <1>5
  <1>7. QED
    BY <1>1, <1>3, <1>4, <1>5, <1>6 DEF IsTaken

(* The bytes known of the entity stay where they are.                       *)
LEMMA BytesStay ==
  ASSUME NEW w, NEW v, NEW f \in Nat, Same(v, w, f),
         NEW p \in Nat, NEW b, NEW n \in Nat, p + n <= f, BytesAt(w, p, b, 0, n)
  PROVE  BytesAt(v, p, b, 0, n)
  <1>1. ASSUME NEW i \in 1 .. n PROVE v[p + i] = ByteToken(b[0 + i])
    <2>1. PICK j \in Nat : j = p + i
      OBVIOUS
    <2>2. j \in 1 .. f
      BY <2>1
    <2>3. v[j] = w[j]
      BY <2>2 DEF Same
    <2>4. w[p + i] = ByteToken(b[0 + i])
      BY DEF BytesAt
    <2>5. QED
      BY <2>1, <2>3, <2>4
  <1>2. QED
    BY <1>1 DEF BytesAt

(* The head of a chunk, or of the last one, is taken out of the buffer.     *)
LEMMA ChunkSizeParsed ==
  ASSUME AnswerTypes, NEW w, w = msg \o stream, Late(w), ParseChunkSize
  PROVE  /\ step' # "opened"
         /\ step' = "failed" => answer.form = "wrong"
         /\ step' # "failed" => AnswerTypes' /\ Late(msg \o stream)'
  <1>1. /\ position = "entity" /\ method = "chunked" /\ step = "parse"
        /\ answer.form \in {"chunked", "wrong"} /\ cursor = start + entityLength
        /\ RestAt(w, answer, cursor, entityLength) /\ ~okOnClose
    BY DEF ParseChunkSize, Reading, Parsing, Late, Ways
  <1>2. Received(w) /\ Len(w) \in Nat
    BY BufferFacts
  <1>3. /\ AnswerOK(answer) /\ cursor \in Nat /\ start \in Nat /\ entityLength \in Nat
        /\ entityOffset \in Nat
    BY DEF AnswerTypes
  <1>4. PICK k \in Nat : k = cursor + 1
    BY <1>3
  <1>5. 0 < k
    BY <1>3, <1>4
  <1>6. PICK m \in Nat : m = Len(msg)
    BY <1>2 DEF Received
  <1>7. /\ start = 5 /\ start = TopLen(answer) /\ entityLength <= Len(answer.body)
        /\ entityOffset <= entityLength /\ BytesAt(w, start, answer.body, 0, entityLength)
    <2>1. TopLen(answer) = 5
      BY <1>1 DEF TopLen, Named
    <2>2. QED
      BY <2>1 DEF Late, Known
  (* More is waited for.                                                    *)
  <1>8. ASSUME SizeLine(k) = 0
        PROVE  step' = "receive" /\ AnswerTypes' /\ Late(w)' /\ (msg \o stream)' = w
    <2>1. NotMatched(0)
      BY <1>4, <1>8 DEF ParseChunkSize
    <2>2. /\ step' = "receive"
          /\ UNCHANGED <<answer, stream, position, method, msg, cursor, headers, start,
                         entityLength, chunkSize, entityOffset, okOnClose>>
      BY <2>1 DEF NotMatched, ParseChunkSize, Incomplete
    <2>3. QED
      BY <1>1, <2>2, LateWaits
  (* A head of f bytes is read, of a chunk of x.                            *)
  <1>9. ASSUME NEW x \in Nat, NEW f \in Nat, HeadAt(w, cursor, x), f = Width(x) + 2,
               SizeLine(k) # 0
        PROVE  /\ cursor + f <= m
               /\ msg' = Deleted(cursor + 1, f) /\ chunkSize' = x
               /\ x = 0 => method' = "trailer" /\ entityLength' = cursor - start
               /\ x # 0 => method' = "chunk" /\ entityLength' = entityLength
               /\ UNCHANGED <<answer, stream, step, position, cursor, headers, start,
                              entityOffset, okOnClose>>
    <2>1. PICK h \in {1, 2} : h = Width(x)
      BY WidthFacts
    <2>2. SizeLine(k) = IF cursor + h + 2 <= m THEN h + 2 ELSE 0
      BY <1>2, <1>3, <1>4, <1>6, <1>9, <2>1, HeadScanned
    <2>3. cursor + h + 2 <= m /\ SizeLine(k) = h + 2
      BY <1>9, <2>2
    <2>4. Value(k) = x
      BY <1>2, <1>3, <1>4, <1>6, <1>9, <2>1, <2>3, HeadScanned
    <2>5. h + 2 = f /\ f > 0 /\ cursor + f <= m
      BY <1>3, <1>9, <2>1, <2>3
    <2>6. SizeLine(cursor + 1) = f /\ Value(cursor + 1) = x
      BY <1>4, <2>3, <2>4, <2>5
    <2>7. QED
      BY <2>5, <2>6 DEF ParseChunkSize
  <1>10. CASE answer.form = "wrong"
    <2>1. Len(w) = 6 /\ w[6] = Other /\ entityLength = 0
      BY <1>1, <1>10 DEF RestAt, NoSize
    <2>2. k = 6
      BY <1>1, <1>4, <1>7, <2>1
    <2>3. SizeLine(k) = IF k <= m THEN -1 ELSE 0
      BY <1>2, <1>5, <1>6, <2>1, <2>2, WrongScanned
    <2>4. CASE SizeLine(k) = 0
      BY <1>8, <2>4
    <2>5. CASE SizeLine(k) = -1
      <3>1. NotMatched(-1)
        BY <1>4, <2>5 DEF ParseChunkSize
      <3>2. step' = "failed"
        BY <3>1 DEF NotMatched, Incomplete
      <3>3. QED
        BY <1>10, <3>2
    <2>6. QED
      BY <2>3, <2>4, <2>5
  <1>11. CASE answer.form = "chunked" /\ SizeLine(k) = 0
    BY <1>8, <1>11
  <1>12. CASE answer.form = "chunked" /\ SizeLine(k) # 0 /\ entityLength = answer.sent
    <2>1. PICK sent \in Nat : sent = answer.sent
      BY <1>3 DEF AnswerOK
    <2>2. Stop(w, answer.body, sent, answer.ended, cursor)
      <3>1. Chain(w, answer.body, sent, answer.ended, cursor, sent)
        BY <1>1, <1>12, <2>1 DEF RestAt
      <3>2. QED
        BY <1>3, <3>1, ChainEnds
    <2>3. CASE ~answer.ended
      <3>1. Len(w) = cursor
        BY <2>2, <2>3 DEF Stop
      <3>2. k > m
        BY <1>2, <1>4, <1>6, <3>1 DEF Received
      <3>3. SizeLine(k) = 0
        BY <1>6, <3>2 DEF SizeLine, Incomplete
      <3>4. QED
        BY <1>12, <3>3
    <2>4. CASE answer.ended
      <3>1. sent = Len(answer.body) /\ HeadAt(w, cursor, 0) /\ EndAt(w, cursor + 3)
        BY <2>2, <2>4 DEF Stop
      <3>2. PICK x \in Nat : x = 0
        OBVIOUS
      <3>3. PICK f \in Nat : f = 3
        OBVIOUS
      <3>4. f = Width(x) + 2
        BY <3>2, <3>3, BaseAssumption DEF Width
      <3>5. HeadAt(w, cursor, x)
        BY <3>1, <3>2
      <3>6. /\ cursor + f <= m
            /\ msg' = Deleted(cursor + 1, f) /\ chunkSize' = x
            /\ method' = "trailer" /\ entityLength' = cursor - start
            /\ UNCHANGED <<answer, stream, step, position, cursor, headers, start,
                           entityOffset, okOnClose>>
        BY <1>9, <1>12, <3>2, <3>4, <3>5
      <3>7. PICK d : d = Deleted(cursor + 1, f)
        OBVIOUS
      <3>8. PICK v : v = d \o stream
        OBVIOUS
      <3>9. /\ d \in Seq(Toks) /\ Len(d) \in Nat /\ cursor <= Len(d)
            /\ Len(v) = Len(w) - f /\ Len(v) \in Nat
            /\ Same(v, w, cursor) /\ Shifted(v, w, cursor + f, f)
        <4>1. cursor \in Nat /\ cursor + f <= Len(msg)
          BY <1>3, <1>6, <3>6
        <4>2. IsTaken(d, v, w, cursor, f)
          BY <3>7, <3>8, <4>1, Taken
        <4>3. QED
          BY <4>2 DEF IsTaken
      <3>10. PICK p \in Nat : p = cursor + f
        BY <1>3
      <3>11. EndAt(v, cursor)
        <4>1. EndAt(w, p)
          BY <3>1, <3>3, <3>10
        <4>2. Shifted(v, w, p, f) /\ Len(v) = Len(w) - f /\ p <= p
          BY <3>9, <3>10
        <4>3. EndAt(v, p - f)
          BY <4>1, <4>2, EndShift
        <4>4. p - f = cursor
          BY <1>3, <3>10
        <4>5. QED
          BY <4>3, <4>4
      <3>12. entityLength' = entityLength
        BY <1>1, <1>3, <3>6
      <3>13. BytesAt(v, start, answer.body, 0, entityLength)
        <4>1. start + entityLength <= cursor /\ Same(v, w, cursor)
          BY <1>1, <1>3, <3>9
        <4>2. QED
          BY <1>3, <1>7, <4>1, BytesStay
      <3>14. AnswerTypes'
        BY <3>2, <3>6, <3>7, <3>9, <3>12 DEF AnswerTypes
      <3>15. Known(v)'
        BY <1>1, <1>7, <3>6, <3>7, <3>9, <3>12, <3>13 DEF Known
      <3>16. Ways(v)'
        BY <1>12, <2>1, <2>4, <3>1, <3>6, <3>11, <3>12 DEF Ways
      <3>17. Late(v)'
        BY <1>1, <3>6, <3>15, <3>16 DEF Late
      <3>18. (msg \o stream)' = v
        BY <3>6, <3>7, <3>8
      <3>19. QED
        BY <1>1, <3>6, <3>14, <3>17, <3>18
    <2>5. QED
      BY <2>3, <2>4
  <1>13. CASE answer.form = "chunked" /\ SizeLine(k) # 0 /\ entityLength # answer.sent
    <2>1. PICK sent \in Nat : sent = answer.sent
      BY <1>3 DEF AnswerOK
    <2>2. sent <= Len(answer.body)
      BY <1>3, <2>1 DEF AnswerOK
    <2>3. PICK g \in Nat : g = entityLength
      BY <1>3
    <2>4. Chain(w, answer.body, sent, answer.ended, cursor, g) /\ g # sent
      BY <1>1, <1>13, <2>1, <2>3 DEF RestAt
    <2>5. PICK e \in Nat, q \in Nat :
            /\ g < e /\ e <= sent /\ q <= Len(w)
            /\ LinkAt(w, answer.body, cursor, q, g, e)
            /\ Chain(w, answer.body, sent, answer.ended, q, e)
      BY <1>2, <1>3, <2>4, ChainGoesOn
    <2>6. PICK x \in Nat : x = e - g
      <3>1. e - g \in Nat
        BY <2>5
      <3>2. QED
        BY <3>1
    <2>7. PICK f \in Nat : f = Width(x) + 2
      BY WidthFacts
    <2>8. PICK p \in Nat : p = cursor + f
      BY <1>3
    <2>9. /\ HeadAt(w, cursor, x) /\ ChunkAt(w, p, answer.body, g, x)
          /\ q = p + x + 2 /\ x > 0 /\ g + x = e
      <3>1. PICK h \in {1, 2} : h = Width(x)
        BY WidthFacts
      <3>2. cursor + h + 2 = p
        BY <1>3, <2>7, <2>8, <3>1
      <3>3. HeadAt(w, cursor, x) /\ ChunkAt(w, p, answer.body, g, x) /\ q = p + x + 2
        BY <2>5, <2>6, <3>1, <3>2 DEF LinkAt
      <3>4. x > 0 /\ g + x = e
        BY <2>5, <2>6
      <3>5. QED
        BY <3>3, <3>4
    <2>10. /\ cursor + f <= m
           /\ msg' = Deleted(cursor + 1, f) /\ chunkSize' = x
           /\ method' = "chunk" /\ entityLength' = entityLength
           /\ UNCHANGED <<answer, stream, step, position, cursor, headers, start,
                          entityOffset, okOnClose>>
      <3>1. x # 0
        BY <2>9
      <3>2. QED
        BY <1>9, <1>13, <2>7, <2>9, <3>1
    <2>11. PICK d : d = Deleted(cursor + 1, f)
      OBVIOUS
    <2>12. PICK v : v = d \o stream
      OBVIOUS
    <2>13. /\ d \in Seq(Toks) /\ Len(d) \in Nat /\ cursor <= Len(d)
           /\ Len(v) = Len(w) - f /\ Len(v) \in Nat
           /\ Same(v, w, cursor) /\ Shifted(v, w, cursor + f, f)
      <3>1. cursor \in Nat /\ cursor + f <= Len(msg)
        BY <1>3, <1>6, <2>10
      <3>2. IsTaken(d, v, w, cursor, f)
        BY <2>11, <2>12, <3>1, Taken
      <3>3. QED
        BY <3>2 DEF IsTaken
    <2>14. Shifted(v, w, p, f)
      BY <2>8, <2>13
    <2>15. ChunkAt(v, cursor, answer.body, g, x)
      <3>1. p + x + 2 <= Len(w)
        BY <2>5, <2>9
      <3>2. ChunkAt(v, p - f, answer.body, g, x)
        <4>1. ChunkAt(w, p, answer.body, g, x) /\ p <= p
          BY <2>9
        <4>2. QED
          BY <2>14, <3>1, <4>1, ChunkShift
      <3>3. p - f = cursor
        BY <1>3, <2>8
      <3>4. QED
        BY <3>2, <3>3
    <2>16. Chain(v, answer.body, sent, answer.ended, cursor + x + 2, e)
      <3>1. p <= q
        BY <2>9
      <3>2. Chain(v, answer.body, sent, answer.ended, q - f, e)
        BY <2>5, <2>13, <2>14, <3>1, ChainShift
      <3>3. q - f = cursor + x + 2
        BY <1>3, <2>8, <2>9
      <3>4. QED
        BY <3>2, <3>3
    <2>17. BytesAt(v, start, answer.body, 0, entityLength)
      <3>1. start + entityLength <= cursor /\ Same(v, w, cursor)
        BY <1>1, <1>3, <2>13
      <3>2. QED
        BY <1>3, <1>7, <3>1, BytesStay
    <2>18. AnswerTypes'
      BY <2>10, <2>11, <2>13 DEF AnswerTypes
    <2>19. Known(v)'
      BY <1>1, <1>7, <2>10, <2>11, <2>13, <2>17 DEF Known
    <2>20. RestAt(v, answer, cursor + x + 2, e) /\ e <= Len(answer.body)
      <3>1. Len(answer.body) \in Nat
        BY <1>3, AnswerFacts
      <3>2. e <= Len(answer.body)
        BY <2>2, <2>5, <3>1
      <3>3. QED
        BY <1>13, <2>1, <2>16, <3>2 DEF RestAt
    <2>21. Ways(v)'
      BY <1>1, <1>13, <2>3, <2>9, <2>10, <2>15, <2>20 DEF Ways
    <2>22. Late(v)'
      BY <1>1, <2>10, <2>19, <2>21 DEF Late
    <2>23. (msg \o stream)' = v
      BY <2>10, <2>11, <2>12
    <2>24. QED
      BY <1>1, <2>10, <2>18, <2>22, <2>23
  <1>14. QED
    BY <1>1, <1>10, <1>11, <1>12, <1>13

(* A chunk counts, and its end of line is taken out of the buffer.          *)
LEMMA ChunkParsed ==
  ASSUME AnswerTypes, NEW w, w = msg \o stream, Late(w), ParseChunk
  PROVE  step' \in {"parse", "receive"} /\ AnswerTypes' /\ Late(msg \o stream)'
  <1>1. /\ position = "entity" /\ method = "chunk" /\ step = "parse" /\ ~okOnClose
        /\ answer.form = "chunked" /\ cursor = start + entityLength
        /\ chunkSize > 0 /\ entityLength + chunkSize <= Len(answer.body)
        /\ ChunkAt(w, cursor, answer.body, entityLength, chunkSize)
        /\ RestAt(w, answer, cursor + chunkSize + 2, entityLength + chunkSize)
    BY DEF ParseChunk, Reading, Parsing, Late, Ways
  <1>2. Received(w) /\ Len(w) \in Nat
    BY BufferFacts
  <1>3. /\ AnswerOK(answer) /\ cursor \in Nat /\ start \in Nat /\ entityLength \in Nat
        /\ entityOffset \in Nat /\ chunkSize \in Nat
    BY DEF AnswerTypes
  <1>4. PICK end \in Nat : end = cursor + chunkSize
    BY <1>3
  <1>5. PICK k \in Nat : k = end + 1
    OBVIOUS
  <1>6. PICK m \in Nat : m = Len(msg)
    BY <1>2 DEF Received
  <1>7. /\ start = TopLen(answer) /\ entityOffset <= entityLength
        /\ BytesAt(w, start, answer.body, 0, entityLength)
    BY DEF Late, Known
  <1>8. PICK e \in Nat : e = entityLength + chunkSize
    BY <1>3
  <1>9. EndOfLine(k) = IF k + 1 <= m THEN 2 ELSE 0
    <2>1. w[k] = CR /\ w[k + 1] = LF
      <3>1. k = cursor + chunkSize + 1 /\ k + 1 = cursor + chunkSize + 2
        BY <1>3, <1>4, <1>5
      <3>2. QED
        BY <1>1, <3>1 DEF ChunkAt
    <2>2. 0 < k
      BY <1>5
    <2>3. QED
      BY <1>2, <1>6, <2>1, <2>2, EndsWithCRLF
  <1>10. PICK n \in Nat : n = EndOfLine(k)
    BY <1>9
  <1>11. n = (IF k + 1 <= m THEN 2 ELSE 0) /\ EndOfLine(cursor + chunkSize + 1) = n
    BY <1>4, <1>5, <1>9, <1>10
  <1>12. CASE k + 1 <= m
    <2>1. n = 2 /\ end + n <= m /\ Len(msg) >= cursor + chunkSize
      BY <1>4, <1>5, <1>6, <1>11, <1>12
    <2>2. /\ msg' = Deleted(cursor + chunkSize + 1, n)
          /\ cursor' = cursor + chunkSize /\ entityLength' = entityLength + chunkSize
          /\ method' = "chunked"
          /\ UNCHANGED <<answer, stream, step, position, headers, chunkSize, start,
                         entityOffset, okOnClose>>
      <3>1. Len(msg) >= cursor + chunkSize /\ EndOfLine(cursor + chunkSize + 1) > 0
        BY <1>11, <2>1
      <3>2. QED
        BY <1>11, <3>1 DEF ParseChunk
    <2>3. msg' = Deleted(end + 1, n) /\ cursor' = end /\ entityLength' = e
      BY <1>4, <1>8, <2>2
    <2>4. PICK d : d = Deleted(end + 1, n)
      OBVIOUS
    <2>5. PICK v : v = d \o stream
      OBVIOUS
    <2>6. IsTaken(d, v, w, end, n)
      <3>1. end + n <= Len(msg)
        BY <1>6, <2>1
      <3>2. QED
        BY <2>4, <2>5, <3>1, Taken
    <2>7. /\ d \in Seq(Toks) /\ end <= Len(d) /\ Len(v) \in Nat /\ Len(v) = Len(w) - n
          /\ Same(v, w, end) /\ Shifted(v, w, end + n, n)
      BY <2>6 DEF IsTaken
    <2>8. BytesAt(w, start, answer.body, 0, e)
      <3>1. ASSUME NEW i \in 1 .. e PROVE w[start + i] = ByteToken(answer.body[0 + i])
        <4>1. CASE i <= entityLength
          <5>1. i \in 1 .. entityLength
            BY <1>3, <4>1
          <5>2. QED
            BY <1>7, <5>1 DEF BytesAt
        <4>2. CASE i > entityLength
          <5>1. PICK j \in Nat : j = i - entityLength
            <6>1. i - entityLength \in Nat
              BY <1>3, <4>2
            <6>2. QED
              BY <6>1
          <5>2. j \in 1 .. chunkSize
            BY <1>3, <1>8, <4>2, <5>1
          <5>3. w[cursor + j] = ByteToken(answer.body[entityLength + j])
            BY <1>1, <5>2 DEF ChunkAt, BytesAt
          <5>4. cursor + j = start + i /\ entityLength + j = 0 + i
            BY <1>1, <1>3, <5>1
          <5>5. QED
            BY <5>3, <5>4
        <4>3. i <= entityLength \/ i > entityLength
          BY <1>3
        <4>4. QED
          BY <4>1, <4>2, <4>3
      <3>2. QED
        BY <3>1 DEF BytesAt
    <2>9. start + e = end
      BY <1>1, <1>3, <1>4, <1>8
    <2>10. BytesAt(v, start, answer.body, 0, e)
      <3>1. start + e <= end
        BY <2>9
      <3>2. QED
        BY <1>3, <2>7, <2>8, <3>1, BytesStay
    <2>11. RestAt(v, answer, end, e)
      <3>1. PICK p \in Nat : p = cursor + chunkSize + 2
        BY <1>3
      <3>2. p = end + n /\ p - n = end /\ p <= p
        BY <1>3, <1>4, <2>1, <3>1
      <3>3. answer.sent \in Nat /\ Chain(w, answer.body, answer.sent, answer.ended, p, e)
        BY <1>1, <1>3, <1>8, <3>1 DEF RestAt, AnswerOK
      <3>4. Shifted(v, w, p, n)
        BY <2>7, <3>2
      <3>5. Chain(v, answer.body, answer.sent, answer.ended, p - n, e)
        BY <2>7, <3>2, <3>3, <3>4, ChainShift
      <3>6. QED
        BY <1>1, <3>2, <3>5 DEF RestAt
    <2>12. AnswerTypes'
      BY <2>2, <2>3, <2>4, <2>7 DEF AnswerTypes
    <2>13. Known(v)'
      <3>1. e <= Len(answer.body) /\ entityOffset <= e /\ start + e <= Len(d)
        BY <1>1, <1>3, <1>7, <1>8, <2>7, <2>9
      <3>2. QED
        BY <1>7, <2>2, <2>3, <2>4, <2>10, <3>1 DEF Known
    <2>14. Ways(v)'
      BY <1>1, <2>2, <2>3, <2>9, <2>11 DEF Ways
    <2>15. Late(v)'
      BY <1>1, <2>2, <2>13, <2>14 DEF Late
    <2>16. (msg \o stream)' = v
      BY <2>2, <2>3, <2>4, <2>5
    <2>17. QED
      BY <1>1, <2>2, <2>12, <2>15, <2>16
  <1>13. CASE ~(k + 1 <= m)
    <2>1. n = 0 /\ EndOfLine(cursor + chunkSize + 1) = 0
      BY <1>11, <1>13
    <2>2. NotMatched(0)
      BY <2>1 DEF ParseChunk
    <2>3. /\ step' = "receive"
          /\ UNCHANGED <<answer, stream, position, method, msg, cursor, headers, start,
                         entityLength, chunkSize, entityOffset, okOnClose>>
      BY <2>2 DEF NotMatched, ParseChunk, Incomplete
    <2>4. QED
      BY <1>1, <2>3, LateWaits
  <1>14. QED
    BY <1>12, <1>13

(* Whatever the parser does next.                                           *)
LEMMA Parsed ==
  ASSUME AnswerTypes, Early(msg \o stream) \/ Late(msg \o stream), Parse
  PROVE  /\ step = "parse" /\ UNCHANGED <<answer, entityOffset>>
         /\ step' \in {"parse", "receive", "opened", "failed"}
         /\ step' = "failed" => answer.form = "wrong"
         /\ step' # "failed" =>
              AnswerTypes' /\ (Early(msg \o stream)' \/ Late(msg \o stream)')
         /\ Late(msg \o stream) =>
              step' # "opened" /\ (step' # "failed" => Late(msg \o stream)')
  <1>1. step = "parse" /\ UNCHANGED <<answer, entityOffset>>
    BY DEF Parse, ParseResponseLine, ParseHeader, EndHeaders, GetEntityReadMethod,
           ParseUsingLength, ParseChunkSize, ParseChunk, ParseUntilClose,
           InHeaders, Reading, Parsing
  <1>2. step' \in {"parse", "receive", "opened", "failed"}
    BY <1>1 DEF Parse, ParseResponseLine, ParseHeader, EndHeaders, GetEntityReadMethod,
           ParseUsingLength, ParseChunkSize, ParseChunk, ParseUntilClose, NotMatched
  <1>3. PICK w : w = msg \o stream
    OBVIOUS
  <1>4. Received(w)
    BY <1>3, BufferFacts
  <1>5. ASSUME ~ParseChunkSize, ~ParseChunk PROVE (msg \o stream)' = w
    BY <1>3, <1>5 DEF Parse, ParseResponseLine, ParseHeader, EndHeaders, GetEntityReadMethod,
                      ParseUsingLength, ParseUntilClose, NotMatched
  <1>6. CASE Late(w)
    <2>1. step' # "opened" /\ (step' = "failed" => answer.form = "wrong")
          /\ (step' # "failed" => AnswerTypes' /\ Late(msg \o stream)')
      <3>1. CASE ParseChunkSize
        BY <1>3, <1>6, <3>1, ChunkSizeParsed
      <3>2. CASE ParseChunk
        <4>1. step' \in {"parse", "receive"} /\ AnswerTypes' /\ Late(msg \o stream)'
          BY <1>3, <1>6, <3>2, ChunkParsed
        <4>2. QED
          BY <4>1
      <3>3. CASE ~ParseChunkSize /\ ~ParseChunk
        <4>1. step' \in {"parse", "receive"} /\ AnswerTypes' /\ Late(w)'
          <5>1. CASE ParseHeader
            BY <1>4, <1>6, <5>1, TrailerParsed
          <5>2. CASE EndHeaders
            BY <1>4, <1>6, <5>2, TrailerEnded
          <5>3. CASE ParseUsingLength
            BY <1>4, <1>6, <5>3, LengthParsed
          <5>4. CASE ParseUntilClose
            BY <1>4, <1>6, <5>4, CloseParsed
          <5>5. ~ParseResponseLine /\ ~GetEntityReadMethod
            BY <1>6 DEF Late, Ways, ParseResponseLine, GetEntityReadMethod, Reading, Parsing
          <5>6. QED
            BY <3>3, <5>1, <5>2, <5>3, <5>4, <5>5 DEF Parse
        <4>2. QED
          BY <1>5, <3>3, <4>1
      <3>4. QED
        BY <3>1, <3>2, <3>3
    <2>2. QED
      BY <1>1, <1>2, <1>3, <1>6, <2>1
  <1>7. CASE Early(w) /\ ~Late(w)
    <2>1. step' # "failed" /\ AnswerTypes' /\ (Early(w)' \/ Late(w)')
      <3>1. CASE ParseResponseLine
        BY <1>4, <1>7, <3>1, LineParsed
      <3>2. CASE ParseHeader
        BY <1>4, <1>7, <3>2, HeaderParsed
      <3>3. CASE EndHeaders
        BY <1>4, <1>7, <3>3, HeadersEnded
      <3>4. CASE GetEntityReadMethod
        BY <1>4, <1>7, <3>4, MethodKnown
      <3>5. ~ParseUsingLength /\ ~ParseChunkSize /\ ~ParseChunk /\ ~ParseUntilClose
        BY <1>7 DEF Early, ParseUsingLength, ParseChunkSize, ParseChunk, ParseUntilClose,
                    Reading
      <3>6. QED
        BY <3>1, <3>2, <3>3, <3>4, <3>5 DEF Parse
    <2>2. ~ParseChunkSize /\ ~ParseChunk
      BY <1>7 DEF Early, ParseChunkSize, ParseChunk, Reading
    <2>3. (msg \o stream)' = w
      BY <1>5, <2>2
    <2>4. QED
      BY <1>1, <1>2, <1>3, <1>7, <2>1, <2>3
  <1>8. QED
    BY <1>3, <1>6, <1>7

(* A request is sent: nothing of the answer is received or parsed.          *)
LEMMA Connects ==
  ASSUME Released0, NEW b \in Seq(Byte), Connect(b)
  PROVE  step' = "parse" /\ answer'.body = b /\ Live'
  <1>1. PICK form \in Forms(b) :
          /\ answer' = [body |-> b, form |-> form, sent |-> 0, ended |-> form # "chunked"]
          /\ stream' = Beginning(b, form)
    BY DEF Connect
  <1>2. /\ step' = "parse"
        /\ UNCHANGED <<position, method, msg, cursor, headers, start, entityLength,
                       chunkSize, entityOffset, okOnClose>>
    BY DEF Connect
  <1>3. /\ position' = "line" /\ method' = "unknown" /\ msg' = << >> /\ cursor' = 0
        /\ start' = 0 /\ entityLength' = 0 /\ chunkSize' = 0
        /\ entityOffset' = 0 /\ okOnClose' = FALSE
    BY <1>2 DEF Released0
  <1>4. /\ form \in {"length", "close", "chunked", "wrong", "none"}
        /\ form = "none" => b = << >>
    BY DEF Forms
  <1>5. PICK l \in Nat : l = Len(b)
    BY LenProperties
  <1>6. PICK a : a = answer'
    OBVIOUS
  <1>7. a.body = b /\ a.form = form /\ a.sent = 0 /\ a.ended = (form # "chunked")
    BY <1>1, <1>6
  <1>8. AnswerOK(a)
    BY <1>4, <1>5, <1>7 DEF AnswerOK
  <1>9. PICK s : s = Beginning(b, form)
    OBVIOUS
  <1>10. s \in Seq(Toks) /\ TopAt(s, a) /\ RestAt(s, a, TopLen(a), 0)
    <2>1. /\ CR \in Toks /\ LF \in Toks /\ Chunked \in Toks /\ Other \in Toks
          /\ Line(0) \in Toks /\ Line(1) \in Toks /\ Length(l) \in Toks
      BY TokenFacts DEF Byte
    <2>2. PICK y : y = BytesOf(b)
      OBVIOUS
    <2>3. y \in Seq(Toks) /\ Len(y) = l /\ \A i \in 1 .. l : y[i] = ByteToken(b[i])
      BY <1>5, <2>2, BytesOfFacts
    <2>4. CASE form = "length"
      <3>1. PICK t : t = <<Line(1), LF, Length(l), LF, LF>>
        OBVIOUS
      <3>2. /\ t \in Seq(Toks) /\ Len(t) = 5 /\ t[1] = Line(1) /\ t[2] = LF
            /\ t[3] = Length(l) /\ t[4] = LF /\ t[5] = LF
        BY <2>1, <3>1
      <3>3. s = t \o y
        BY <1>5, <1>9, <2>2, <2>4, <3>1 DEF Beginning
      <3>4. /\ s \in Seq(Toks) /\ Len(s) = 5 + l /\ \A i \in 1 .. 5 : s[i] = t[i]
            /\ \A i \in 1 .. l : s[5 + i] = y[i]
        <4>1. s \in Seq(Toks) /\ IsJoin(s, t, y)
          BY <2>3, <3>2, <3>3, PieceTypes
        <4>2. IsJoin(s, t, y)
          BY <4>1
        <4>3. /\ Len(s) = Len(t) + Len(y) /\ \A i \in 1 .. Len(t) : s[i] = t[i]
              /\ \A i \in 1 .. Len(y) : s[Len(t) + i] = y[i]
          BY <4>2, JoinFacts
        <4>4. QED
          BY <2>3, <3>2, <4>1, <4>3
      <3>5. Named(a) /\ TopLen(a) = 5 /\ Status(a) = Line(1) /\ Header(a) = Length(l)
        BY <1>5, <1>7, <2>4 DEF Named, TopLen, Status, Header
      <3>6. TopAt(s, a)
        <4>1. s[1] = t[1] /\ s[2] = t[2] /\ s[3] = t[3] /\ s[4] = t[4] /\ s[5] = t[5]
          BY <3>4
        <4>2. QED
          BY <3>2, <3>5, <4>1 DEF TopAt
      <3>7. Whole(s, a)
        <4>1. \A i \in 1 .. l : s[5 + i] = ByteToken(b[0 + i])
          BY <2>3, <3>4
        <4>2. QED
          BY <1>5, <1>7, <3>4, <3>5, <4>1 DEF Whole, BytesAt
      <3>8. QED
        BY <1>7, <2>4, <3>4, <3>6, <3>7 DEF RestAt
    <2>5. CASE form = "close"
      <3>1. PICK t : t = <<Line(1), LF, LF>>
        OBVIOUS
      <3>2. /\ t \in Seq(Toks) /\ Len(t) = 3
            /\ t[1] = Line(1) /\ t[2] = LF /\ t[3] = LF
        BY <2>1, <3>1
      <3>3. s = t \o y
        BY <1>9, <2>2, <2>5, <3>1 DEF Beginning
      <3>4. /\ s \in Seq(Toks) /\ Len(s) = 3 + l /\ \A i \in 1 .. 3 : s[i] = t[i]
            /\ \A i \in 1 .. l : s[3 + i] = y[i]
        <4>1. s \in Seq(Toks) /\ IsJoin(s, t, y)
          BY <2>3, <3>2, <3>3, PieceTypes
        <4>2. IsJoin(s, t, y)
          BY <4>1
        <4>3. /\ Len(s) = Len(t) + Len(y) /\ \A i \in 1 .. Len(t) : s[i] = t[i]
              /\ \A i \in 1 .. Len(y) : s[Len(t) + i] = y[i]
          BY <4>2, JoinFacts
        <4>4. QED
          BY <2>3, <3>2, <4>1, <4>3
      <3>5. ~Named(a) /\ TopLen(a) = 3 /\ Status(a) = Line(1)
        BY <1>7, <2>5 DEF Named, TopLen, Status
      <3>6. TopAt(s, a)
        <4>1. s[1] = t[1] /\ s[2] = t[2] /\ s[3] = t[3]
          BY <3>4
        <4>2. QED
          BY <3>2, <3>5, <4>1 DEF TopAt
      <3>7. Whole(s, a)
        <4>1. \A i \in 1 .. l : s[3 + i] = ByteToken(b[0 + i])
          BY <2>3, <3>4
        <4>2. QED
          BY <1>5, <1>7, <3>4, <3>5, <4>1 DEF Whole, BytesAt
      <3>8. QED
        BY <1>7, <2>5, <3>4, <3>6, <3>7 DEF RestAt
    <2>6. CASE form = "chunked"
      <3>1. s = <<Line(1), LF, Chunked, LF, LF>>
        BY <1>9, <2>6 DEF Beginning
      <3>2. /\ s \in Seq(Toks) /\ Len(s) = 5 /\ s[1] = Line(1) /\ s[2] = LF
            /\ s[3] = Chunked /\ s[4] = LF /\ s[5] = LF
        BY <2>1, <3>1
      <3>3. Named(a) /\ TopLen(a) = 5 /\ Status(a) = Line(1) /\ Header(a) = Chunked
        BY <1>7, <2>6 DEF Named, TopLen, Status, Header
      <3>4. Chain(s, b, 0, FALSE, 5, 0)
        <4>1. PICK p \in Nat : p = 5
          OBVIOUS
        <4>2. Len(s) = p
          BY <3>2, <4>1
        <4>3. Chain(s, b, 0, FALSE, p, 0)
          BY <4>2, ChainNone
        <4>4. QED
          BY <4>1, <4>3
      <3>5. RestAt(s, a, TopLen(a), 0)
        BY <1>7, <2>6, <3>3, <3>4 DEF RestAt
      <3>6. TopAt(s, a)
        BY <3>2, <3>3 DEF TopAt
      <3>7. QED
        BY <3>2, <3>5, <3>6
    <2>7. CASE form = "wrong"
      <3>1. s = <<Line(1), LF, Chunked, LF, LF, Other>>
        BY <1>9, <2>7 DEF Beginning
      <3>2. /\ s \in Seq(Toks) /\ Len(s) = 6 /\ s[1] = Line(1) /\ s[2] = LF
            /\ s[3] = Chunked /\ s[4] = LF /\ s[5] = LF /\ s[6] = Other
        BY <2>1, <3>1
      <3>3. Named(a) /\ TopLen(a) = 5 /\ Status(a) = Line(1) /\ Header(a) = Chunked
        BY <1>7, <2>7 DEF Named, TopLen, Status, Header
      <3>4. RestAt(s, a, TopLen(a), 0)
        BY <1>7, <2>7, <3>2 DEF RestAt, NoSize
      <3>5. TopAt(s, a)
        BY <3>2, <3>3 DEF TopAt
      <3>6. QED
        BY <3>2, <3>4, <3>5
    <2>8. CASE form = "none"
      <3>1. s = <<Line(0), LF, LF>>
        BY <1>9, <2>8 DEF Beginning
      <3>2. s \in Seq(Toks) /\ s[1] = Line(0) /\ s[2] = LF /\ s[3] = LF
        BY <2>1, <3>1
      <3>3. ~Named(a) /\ Status(a) = Line(0)
        BY <1>7, <2>8 DEF Named, Status
      <3>4. RestAt(s, a, TopLen(a), 0)
        BY <1>7, <2>8 DEF RestAt
      <3>5. TopAt(s, a)
        BY <3>2, <3>3 DEF TopAt
      <3>6. QED
        BY <3>2, <3>4, <3>5
    <2>9. QED
      BY <1>4, <2>4, <2>5, <2>6, <2>7, <2>8
  <1>11. (msg \o stream)' = s
    <2>1. s \in Seq(Toks)
      BY <1>10
    <2>2. << >> \o s = s
      BY <2>1, ConcatEmptySeq
    <2>3. QED
      BY <1>1, <1>3, <1>9, <2>2
  <1>12. AnswerTypes'
    <2>1. << >> \in Seq(Toks)
      OBVIOUS
    <2>2. msg' \in Seq(Toks) /\ stream' \in Seq(Toks)
      BY <1>1, <1>3, <1>9, <1>10, <2>1
    <2>3. QED
      BY <1>3, <1>6, <1>8, <2>2 DEF AnswerTypes
  <1>13. Early(s)'
    BY <1>2, <1>3, <1>6, <1>10 DEF Early
  <1>14. QED
    BY <1>2, <1>6, <1>7, <1>11, <1>12, <1>13 DEF Live

(* A server sends more chunks: what is known of those sent before is still   *)
(* true of all.                                                             *)
LEMMA SentMore ==
  ASSUME AnswerTypes, NEW w, Len(w) \in Nat, Received(w), NEW v, Len(v) \in Nat,
         Len(w) <= Len(v), NEW z \in Nat, z = 0, Shifted(v, w, z, z),
         step = "receive", answer.form = "chunked", ~answer.ended,
         AnswerOK(answer'), answer'.body = answer.body, answer'.form = answer.form,
         \A p, g \in Nat : Chain(w, answer.body, answer.sent, answer.ended, p, g) =>
           Chain(v, answer.body, answer'.sent, answer'.ended, p, g),
         UNCHANGED <<step, position, method, msg, cursor, headers, start, entityLength,
                     chunkSize, entityOffset, okOnClose>>
  PROVE  /\ Early(w) => Early(v)'
         /\ Late(w) => Late(v)'
  <1>1. PICK l \in Nat : l = Len(w)
    OBVIOUS
  <1>2. \A i \in 1 .. l : v[i] = w[i]
    <2>1. ASSUME NEW i \in 1 .. l PROVE v[i] = w[i]
      <3>1. z < i /\ i <= Len(w) /\ i \in Nat /\ i - z = i
        BY <1>1
      <3>2. v[i - z] = w[i]
        BY <3>1, PlaceShift
      <3>3. QED
        BY <3>1, <3>2
    <2>2. QED
      BY <2>1
  <1>3. /\ Named(answer) /\ Named(answer') /\ TopLen(answer) = 5 /\ TopLen(answer') = 5
        /\ Status(answer') = Status(answer) /\ Header(answer') = Header(answer)
        /\ Told(answer') = Told(answer)
    BY DEF Named, TopLen, Status, Header, Told
  <1>4. AnswerOK(answer) /\ answer.sent \in Nat /\ Len(answer.body) \in Nat
    <2>1. AnswerOK(answer)
      BY DEF AnswerTypes
    <2>2. QED
      BY <2>1, AnswerFacts DEF AnswerOK
  <1>5. ASSUME NEW p \in Nat, NEW g \in Nat, RestAt(w, answer, p, g)
        PROVE  RestAt(v, answer', p, g) /\ p <= l
    <2>1. Chain(w, answer.body, answer.sent, answer.ended, p, g)
      BY <1>5 DEF RestAt
    <2>2. Chain(v, answer'.body, answer'.sent, answer'.ended, p, g)
      BY <2>1
    <2>3. p <= l
      BY <1>1, <1>4, <2>1, ChainBounds
    <2>4. QED
      BY <2>2, <2>3 DEF RestAt
  <1>6. ASSUME Early(w) PROVE Early(v)'
    <2>1. PICK p \in Nat : p = 5
      OBVIOUS
    <2>2. RestAt(w, answer, p, z)
      BY <1>3, <1>6, <2>1 DEF Early
    <2>3. RestAt(v, answer', p, z) /\ p <= l
      BY <1>5, <2>2
    <2>4. TopAt(v, answer')
      <3>1. v[1] = w[1] /\ v[2] = w[2] /\ v[3] = w[3] /\ v[4] = w[4] /\ v[5] = w[5]
        BY <1>2, <2>1, <2>3
      <3>2. TopAt(w, answer)
        BY <1>6 DEF Early
      <3>3. QED
        BY <1>3, <3>1, <3>2 DEF TopAt
    <2>5. RestAt(v, answer', TopLen(answer'), 0)
      BY <1>3, <2>1, <2>3
    <2>6. QED
      BY <1>3, <1>6, <2>4, <2>5 DEF Early
  <1>7. ASSUME Late(w) PROVE Late(v)'
    <2>1. /\ cursor \in Nat /\ start \in Nat /\ entityLength \in Nat /\ chunkSize \in Nat
          /\ start = 5
      BY <1>3, <1>7 DEF AnswerTypes, Late, Known
    <2>2. Known(v)'
      <3>1. Same(v, w, l)
        BY <1>2 DEF Same
      <3>2. start + entityLength <= l /\ BytesAt(w, start, answer.body, 0, entityLength)
        <4>1. start + entityLength <= Len(msg) /\ Len(msg) <= l /\ Len(msg) \in Nat
          BY <1>1, <1>7 DEF Late, Known, Received
        <4>2. QED
          BY <1>7, <2>1, <4>1 DEF Late, Known
      <3>3. BytesAt(v, start, answer.body, 0, entityLength)
        BY <2>1, <3>1, <3>2, BytesStay
      <3>4. QED
        BY <1>3, <1>7, <3>3 DEF Late, Known
    <2>3. Ways(v)'
      <3>1. CASE /\ method = "chunked" /\ position = "entity" /\ cursor = start + entityLength
                 /\ RestAt(w, answer, cursor, entityLength)
        <4>1. RestAt(v, answer', cursor, entityLength)
          BY <1>5, <2>1, <3>1
        <4>2. QED
          BY <3>1, <4>1 DEF Ways
      <3>2. CASE /\ method = "chunk"
                 /\ position = "entity" /\ cursor = start + entityLength
                 /\ chunkSize > 0 /\ entityLength + chunkSize <= Len(answer.body)
                 /\ ChunkAt(w, cursor, answer.body, entityLength, chunkSize)
                 /\ RestAt(w, answer, cursor + chunkSize + 2, entityLength + chunkSize)
        <4>1. PICK p \in Nat : p = cursor + chunkSize + 2
          BY <2>1
        <4>2. PICK g \in Nat : g = entityLength + chunkSize
          BY <2>1
        <4>3. RestAt(v, answer', p, g) /\ p <= l
          BY <1>5, <3>2, <4>1, <4>2
        <4>4. ChunkAt(v, cursor, answer.body, entityLength, chunkSize)
          <5>1. z <= cursor /\ cursor + chunkSize + 2 <= Len(w) /\ cursor - z = cursor
            BY <1>1, <2>1, <4>1, <4>3
          <5>2. ChunkAt(v, cursor - z, answer.body, entityLength, chunkSize)
            BY <2>1, <3>2, <5>1, ChunkShift
          <5>3. QED
            BY <5>1, <5>2
        <4>5. QED
          BY <3>2, <4>1, <4>2, <4>3, <4>4 DEF Ways
      <3>3. QED
        BY <1>7, <3>1, <3>2 DEF Late, Ways
    <2>4. QED
      BY <1>7, <2>2, <2>3 DEF Late
  <1>8. QED
    BY <1>6, <1>7

(* A server may send chunks at any time that it is waited for.              *)
LEMMA Sends ==
  ASSUME Live, SendChunk \/ SendLastChunk
  PROVE  /\ step = "receive" /\ UNCHANGED <<step, entityOffset>>
         /\ answer'.body = answer.body /\ Live'
         /\ Late(msg \o stream) => Late(msg \o stream)'
  <1>1. /\ AnswerTypes /\ AnswerOK(answer) /\ msg \in Seq(Toks) /\ stream \in Seq(Toks)
    BY DEF Live, AnswerTypes
  <1>2. /\ step = "receive" /\ answer.form = "chunked" /\ ~answer.ended
        /\ UNCHANGED <<step, position, method, msg, cursor, headers, start, entityLength,
                       chunkSize, entityOffset, okOnClose>>
    BY DEF SendChunk, SendLastChunk, InChunks
  <1>3. PICK w : w = msg \o stream
    OBVIOUS
  <1>4. w \in Seq(Toks) /\ Received(w)
    BY <1>1, <1>3, BufferFacts
  <1>5. PICK l \in Nat : l = Len(w)
    BY <1>1, <1>3, BufferFacts
  <1>6. PICK b : b = answer.body
    OBVIOUS
  <1>7. PICK sent \in Nat : sent = answer.sent
    BY <1>1 DEF AnswerOK
  <1>8. b \in Seq(Byte) /\ sent <= Len(b) /\ Len(b) \in Nat
    BY <1>1, <1>6, <1>7, AnswerFacts DEF AnswerOK
  <1>9. answer.ended = FALSE
    BY <1>1, <1>2 DEF AnswerOK
  <1>10. PICK z \in Nat : z = 0
    OBVIOUS
  <1>11. ASSUME NEW c \in Seq(Toks), stream' = stream \o c, NEW v, v = w \o c
         PROVE  /\ stream' \in Seq(Toks) /\ (msg \o stream)' = v
                /\ IsJoin(v, w, c) /\ Len(v) = l + Len(c) /\ Len(v) \in Nat /\ l <= Len(v)
                /\ \A i \in 1 .. Len(c) : v[l + i] = c[i]
                /\ Shifted(v, w, z, z)
    <2>1. stream' \in Seq(Toks)
      BY <1>1, <1>11, ConcatProperties
    <2>2. msg \o (stream \o c) = (msg \o stream) \o c
      <3>1. msg \in Seq(Toks) /\ stream \in Seq(Toks) /\ c \in Seq(Toks)
        BY <1>1, <1>11
      <3>2. Joined(msg, stream, c)
        BY <3>1, JoinsOn
      <3>3. QED
        BY <3>2, Zenon DEF Joined
    <2>3. (msg \o stream)' = v
      BY <1>2, <1>3, <1>11, <2>2
    <2>4. IsJoin(v, w, c)
      BY <1>4, <1>11, PieceTypes
    <2>5. Len(c) \in Nat
      BY <2>4, JoinFacts
    <2>6. Len(v) = l + Len(c) /\ \A i \in 1 .. Len(c) : v[l + i] = c[i]
      <3>1. Len(v) = Len(w) + Len(c)
        BY <2>4, JoinFacts
      <3>2. \A i \in 1 .. Len(c) : v[Len(w) + i] = c[i]
        BY <2>4, JoinFacts
      <3>3. QED
        BY <1>5, <3>1, <3>2
    <2>7. Shifted(v, w, z, z)
      BY <1>10, <2>4, JoinShifts
    <2>8. Len(v) \in Nat /\ l <= Len(v)
      BY <2>5, <2>6
    <2>9. QED
      BY <2>1, <2>3, <2>4, <2>6, <2>7, <2>8
  <1>12. ASSUME stream' \in Seq(Toks), AnswerOK(answer'), answer'.body = b,
                NEW v, (msg \o stream)' = v,
                Early(w) => Early(v)', Late(w) => Late(v)'
         PROVE  answer'.body = answer.body /\ Live' /\ (Late(w) => Late(msg \o stream)')
    <2>1. AnswerTypes'
      BY <1>1, <1>2, <1>12 DEF AnswerTypes
    <2>2. Early(w) \/ Late(w)
      BY <1>3 DEF Live
    <2>3. QED
      BY <1>6, <1>12, <2>1, <2>2 DEF Live
  <1>13. CASE SendChunk
    <2>1. PICK to \in answer.sent + 1 .. Len(answer.body) :
            /\ to - answer.sent <= MaxChunk
            /\ stream' = stream \o Chunk(SubSeq(answer.body, answer.sent + 1, to))
            /\ answer' = [answer EXCEPT !.sent = to]
      BY <1>13 DEF SendChunk
    <2>2. to \in Nat /\ sent < to /\ to <= Len(b) /\ to - sent <= MaxChunk
      BY <1>6, <1>7, <1>8, <2>1
    <2>3. PICK c : c = Chunk(SubSeq(b, sent + 1, to))
      OBVIOUS
    <2>4. PICK v : v = w \o c
      OBVIOUS
    <2>5. c \in Seq(Toks)
      <3>1. PICK a : a = SubSeq(b, sent + 1, to)
        OBVIOUS
      <3>2. sent <= to /\ to <= Len(b)
        BY <2>2
      <3>3. a \in Seq(Byte)
        BY <1>8, <2>2, <3>1, <3>2, SubSeqFacts
      <3>4. PICK n \in Nat : n = Len(a)
        BY <3>3, LenProperties
      <3>5. QED
        BY <2>3, <3>1, <3>3, <3>4, ChunkFacts
    <2>6. stream' = stream \o c
      BY <1>6, <1>7, <2>1, <2>3
    <2>7. /\ stream' \in Seq(Toks) /\ (msg \o stream)' = v
          /\ Len(v) = l + Len(c) /\ Len(v) \in Nat /\ l <= Len(v)
          /\ \A i \in 1 .. Len(c) : v[l + i] = c[i]
          /\ Shifted(v, w, z, z)
      BY <1>11, <2>4, <2>5, <2>6
    <2>8. LinkAt(v, b, l, Len(v), sent, to)
      BY <1>8, <2>2, <2>3, <2>7, ChunkJoins
    <2>9. /\ answer'.body = b /\ answer'.form = answer.form
          /\ answer'.sent = to /\ answer'.ended = FALSE
      BY <1>6, <1>9, <2>1
    <2>10. AnswerOK(answer')
      BY <1>1, <1>6, <2>2, <2>9 DEF AnswerOK
    <2>11. ASSUME NEW p \in Nat, NEW g \in Nat, Chain(w, b, sent, FALSE, p, g)
           PROVE  Chain(v, b, to, FALSE, p, g)
      <3>1. PICK k \in Nat : k = Len(v)
        BY <2>7
      <3>2. Len(w) = l /\ Len(v) = k /\ l <= k /\ LinkAt(v, b, l, k, sent, to)
        BY <1>5, <2>7, <2>8, <3>1
      <3>3. QED
        BY <1>10, <2>2, <2>7, <2>11, <3>2, ChainGrows
    <2>12. /\ Early(w) => Early(v)'
           /\ Late(w) => Late(v)'
      <3>1. \A p, g \in Nat : Chain(w, answer.body, answer.sent, answer.ended, p, g) =>
              Chain(v, answer.body, answer'.sent, answer'.ended, p, g)
        BY <1>6, <1>7, <1>9, <2>9, <2>11
      <3>2. /\ Len(w) \in Nat /\ Len(v) \in Nat /\ Len(w) <= Len(v)
            /\ answer'.body = answer.body /\ answer'.form = answer.form
        BY <1>5, <1>6, <2>7, <2>9
      <3>3. QED
        BY <1>1, <1>2, <1>4, <1>10, <2>7, <2>10, <3>1, <3>2, SentMore
    <2>13. QED
      BY <1>2, <1>3, <1>12, <2>7, <2>9, <2>10, <2>12
  <1>14. CASE SendLastChunk
    <2>1. PICK c \in LastChunk : stream' = stream \o c
      BY <1>14 DEF SendLastChunk
    <2>2. answer.sent = Len(answer.body) /\ answer' = [answer EXCEPT !.ended = TRUE]
      BY <1>14 DEF SendLastChunk
    <2>3. PICK v : v = w \o c
      OBVIOUS
    <2>4. c \in Seq(Toks)
      BY LastFacts
    <2>5. /\ stream' \in Seq(Toks) /\ (msg \o stream)' = v
          /\ Len(v) = l + Len(c) /\ Len(v) \in Nat /\ l <= Len(v)
          /\ \A i \in 1 .. Len(c) : v[l + i] = c[i]
          /\ Shifted(v, w, z, z)
      BY <1>11, <2>1, <2>3, <2>4
    <2>6. HeadAt(v, l, 0) /\ EndAt(v, l + 3)
      BY <2>5, LastJoins
    <2>7. /\ answer'.body = b /\ answer'.form = answer.form
          /\ answer'.sent = sent /\ answer'.ended = TRUE /\ sent = Len(b)
      BY <1>1, <1>6, <1>7, <2>2 DEF AnswerOK
    <2>8. AnswerOK(answer')
      BY <1>1, <1>6, <1>8, <2>7 DEF AnswerOK
    <2>9. ASSUME NEW p \in Nat, NEW g \in Nat, Chain(w, b, sent, FALSE, p, g)
          PROVE  Chain(v, b, sent, TRUE, p, g)
      <3>1. Len(w) = l
        BY <1>5
      <3>2. QED
        BY <1>10, <2>5, <2>6, <2>7, <2>9, <3>1, ChainCloses
    <2>10. /\ Early(w) => Early(v)'
           /\ Late(w) => Late(v)'
      <3>1. \A p, g \in Nat : Chain(w, answer.body, answer.sent, answer.ended, p, g) =>
              Chain(v, answer.body, answer'.sent, answer'.ended, p, g)
        BY <1>6, <1>7, <1>9, <2>7, <2>9
      <3>2. /\ Len(w) \in Nat /\ Len(v) \in Nat /\ Len(w) <= Len(v)
            /\ answer'.body = answer.body /\ answer'.form = answer.form
        BY <1>5, <1>6, <2>5, <2>7
      <3>3. QED
        BY <1>1, <1>2, <1>4, <1>10, <2>5, <2>8, <3>1, <3>2, SentMore
    <2>11. QED
      BY <1>2, <1>3, <1>12, <2>5, <2>7, <2>8, <2>10
  <1>15. QED
    BY <1>13, <1>14

(* More is received, which changes nothing of what is known of the whole.   *)
LEMMA Receives ==
  ASSUME Live, NEW want, Receive(want)
  PROVE  /\ step' = "parse" /\ UNCHANGED <<answer, entityOffset>> /\ Live'
         /\ Late(msg \o stream) => Late(msg \o stream)'
  <1>1. /\ AnswerTypes /\ msg \in Seq(Toks) /\ stream \in Seq(Toks)
    BY DEF Live, AnswerTypes
  <1>2. /\ step = "receive" /\ step' = "parse"
        /\ UNCHANGED <<answer, position, method, cursor, headers, start, entityLength,
                       chunkSize, entityOffset, okOnClose>>
    BY DEF Receive, Waiting
  <1>3. PICK l \in Nat : l = Len(stream)
    BY <1>1, LenProperties
  <1>4. PICK n \in 1 .. l : /\ msg' = msg \o SubSeq(stream, 1, n)
                            /\ stream' = SubSeq(stream, n + 1, Len(stream))
    BY <1>3 DEF Receive
  <1>5. n \in Nat /\ n <= Len(stream)
    BY <1>3, <1>4
  <1>6. /\ msg' \in Seq(Toks) /\ stream' \in Seq(Toks) /\ Len(msg') = Len(msg) + n
        /\ msg' \o stream' = msg \o stream
    <2>1. msg \in Seq(Toks) /\ stream \in Seq(Toks)
      BY <1>1
    <2>2. IsMoved(msg', stream', msg, stream, n)
      BY <1>4 DEF IsMoved
    <2>3. n \in Nat /\ n <= Len(stream)
      BY <1>5
    <2>4. msg' \in Seq(Toks)
      BY <2>1, <2>2, <2>3, MoveFacts
    <2>5. stream' \in Seq(Toks)
      BY <2>1, <2>2, <2>3, MoveFacts
    <2>6. Len(msg') = Len(msg) + n
      BY <2>1, <2>2, <2>3, MoveFacts
    <2>7. SameJoin(msg', stream', msg, stream)
      BY <2>1, <2>2, <2>3, MoveFacts
    <2>8. QED
      BY <2>4, <2>5, <2>6, <2>7 DEF SameJoin
  <1>7. AnswerTypes'
    BY <1>1, <1>2, <1>6 DEF AnswerTypes
  <1>8. PICK w : w = msg \o stream
    OBVIOUS
  <1>9. (msg \o stream)' = w
    BY <1>6, <1>8
  <1>10. PICK m \in Nat : m = Len(msg)
    BY <1>1, LenProperties
  <1>11. Len(msg') = m + n
    BY <1>6, <1>10
  <1>12. Early(w) => Early(w)'
    BY <1>2 DEF Early
  <1>13. ASSUME Late(w) PROVE Late(w)'
    <2>1. Known(w)'
      <3>1. start \in Nat /\ entityLength \in Nat /\ start + entityLength <= m
        BY <1>1, <1>10, <1>13 DEF AnswerTypes, Late, Known
      <3>2. start + entityLength <= m + n
        BY <1>5, <3>1
      <3>3. (start + entityLength <= Len(msg))'
        BY <1>2, <1>11, <3>2
      <3>4. QED
        BY <1>2, <1>13, <3>3 DEF Late, Known
    <2>2. Ways(w)'
      BY <1>2, <1>13 DEF Late, Ways
    <2>3. QED
      BY <1>2, <1>13, <2>1, <2>2 DEF Late
  <1>14. Early(w) \/ Late(w)
    BY <1>8 DEF Live
  <1>15. QED
    BY <1>2, <1>7, <1>8, <1>9, <1>12, <1>13, <1>14 DEF Live

(* The end of the connection is the end of an entity that nothing else ends, *)
(* when all of it was received.                                             *)
LEMMA Closes ==
  ASSUME Live, NEW want, ServerCloses(want), step' # "failed"
  PROVE  /\ step' = "receive" /\ UNCHANGED <<answer, entityOffset>> /\ Live'
         /\ Late(msg \o stream) /\ Late(msg \o stream)'
  <1>1. /\ position = "entity" /\ okOnClose /\ position' = "complete" /\ step = "receive"
        /\ answer.form # "close" \/ stream = << >>
        /\ UNCHANGED <<answer, stream, step, method, msg, cursor, headers, start,
                       entityLength, chunkSize, entityOffset, okOnClose>>
    BY DEF ServerCloses, Released, Waiting
  <1>2. AnswerTypes /\ AnswerTypes'
    BY <1>1 DEF Live, AnswerTypes
  <1>3. PICK w : w = msg \o stream
    OBVIOUS
  <1>4. (msg \o stream)' = w
    BY <1>1, <1>3
  <1>5. Late(w)
    BY <1>1, <1>3 DEF Live, Early
  <1>6. /\ method = "close" /\ answer.form = "close" /\ Whole(w, answer)
        /\ entityLength = Len(msg) - start
    BY <1>1, <1>5 DEF Late, Ways
  <1>7. stream = << >>
    BY <1>1, <1>6
  <1>8. PICK l \in Nat : l = Len(answer.body)
    BY <1>2, AnswerFacts DEF AnswerTypes
  <1>9. Len(w) = Len(msg) + Len(stream) /\ Len(msg) \in Nat
    BY <1>2, <1>3, BufferFacts
  <1>10. Len(stream) = 0
    BY <1>7
  <1>11. TopLen(answer) = 3 /\ start = 3
    BY <1>5, <1>6 DEF Late, Known, TopLen, Named
  <1>12. Len(w) = 3 + l
    BY <1>6, <1>8, <1>11 DEF Whole
  <1>13. entityLength = Len(answer.body)
    BY <1>6, <1>8, <1>9, <1>10, <1>11, <1>12
  <1>14. Known(w)'
    BY <1>1, <1>5 DEF Late, Known
  <1>15. Ways(w)'
    BY <1>1, <1>6 DEF Ways
  <1>16. Late(w)'
    BY <1>1, <1>6, <1>13, <1>14, <1>15 DEF Late
  <1>17. QED
    BY <1>1, <1>2, <1>3, <1>4, <1>5, <1>16 DEF Live

(* A read begins: it does not matter what was left of the time.             *)
LEMMA ReadsOn ==
  ASSUME AnswerTypes, NEW w, Received(w), Late(w), NEW given \in Nat,
         given <= entityLength, ReadAgain(given)
  PROVE  /\ step' \in {"receive", "parse"} /\ entityOffset' = given
         /\ UNCHANGED <<answer, msg, stream>> /\ AnswerTypes' /\ Late(w)'
  <1>1. /\ step' = IF position = "complete" THEN "receive" ELSE "parse"
        /\ entityOffset' = given /\ okOnClose' = FALSE
        /\ UNCHANGED <<answer, stream, position, method, msg, cursor, headers, start,
                       entityLength, chunkSize>>
    BY DEF ReadAgain
  <1>2. AnswerTypes'
    BY <1>1 DEF AnswerTypes
  <1>3. Known(w)'
    BY <1>1 DEF Late, Known
  <1>4. Ways(w)'
    <2>1. CASE method # "close"
      BY <1>1, <2>1 DEF Late, Ways
    <2>2. CASE method = "close"
      <3>1. answer.form = "close" /\ Whole(w, answer)
        BY <2>2 DEF Late, Ways
      <3>2. CASE position # "complete"
        BY <1>1, <2>2, <3>1, <3>2 DEF Ways
      <3>3. CASE position = "complete"
        <4>1. PICK l \in Nat : l = Len(answer.body)
          BY AnswerFacts DEF AnswerTypes
        <4>2. TopLen(answer) = 3 /\ start = 3 /\ entityLength = l
          BY <3>1, <3>3, <4>1 DEF Late, Known, TopLen, Named
        <4>3. Len(w) = 3 + l
          BY <3>1, <4>1, <4>2 DEF Whole
        <4>4. Len(msg) \in Nat /\ Len(msg) <= Len(w) /\ 3 + l <= Len(msg)
          BY <4>2 DEF Late, Known, Received
        <4>5. entityLength = Len(msg) - start
          BY <4>2, <4>3, <4>4
        <4>6. QED
          BY <1>1, <2>2, <3>1, <4>5 DEF Ways
      <3>4. QED
        BY <3>2, <3>3
    <2>3. QED
      BY <2>1, <2>2
  <1>5. QED
    BY <1>1, <1>2, <1>3, <1>4 DEF Late

-----------------------------------------------------------------------------
(***************************************************************************)
(* A read of a file over the answer.                                        *)
(***************************************************************************)

(* What is given to the caller are the next bytes of the entity.            *)
IsEnd(e, b, o) == e = SubSeq(b, o + 1, Len(b))

LEMMA GivenFacts ==
  ASSUME AnswerTypes, NEW w, Received(w), Known(w), NEW n \in Nat,
         entityOffset + n <= entityLength,
         NEW e, IsEnd(e, answer.body, entityOffset)
  PROVE  /\ e \in Seq(Byte) /\ Len(e) = Len(answer.body) - entityOffset /\ n <= Len(e)
         /\ Given(n) = SubSeq(e, 1, n)
         /\ IsEnd(SubSeq(e, n + 1, Len(e)), answer.body, entityOffset + n)
  <1>1. PICK l \in Nat : l = Len(answer.body)
    BY AnswerFacts DEF AnswerTypes
  <1>2. PICK b : b = answer.body
    OBVIOUS
  <1>3. b \in Seq(Byte) /\ Len(b) = l
    BY <1>1, <1>2 DEF AnswerTypes, AnswerOK
  <1>4. PICK o \in Nat : o = entityOffset
    BY DEF AnswerTypes
  <1>5. PICK p \in Nat : p = start
    BY DEF AnswerTypes
  <1>6. PICK k \in Nat : k = entityLength
    BY DEF AnswerTypes
  <1>7. o + n <= k /\ k <= l /\ p + k <= Len(msg) /\ BytesAt(w, p, b, 0, k)
    BY <1>1, <1>2, <1>4, <1>5, <1>6 DEF Known
  <1>8. e = SubSeq(b, o + 1, l)
    BY <1>1, <1>2, <1>4 DEF IsEnd
  <1>9. /\ e \in Seq(Byte) /\ Len(e) = l - o
        /\ \A i \in 1 .. l - o : e[i] = b[o + i]
    <2>1. o <= l /\ l <= Len(b)
      BY <1>3, <1>7
    <2>2. /\ SubSeq(b, o + 1, l) \in Seq(Byte) /\ Len(SubSeq(b, o + 1, l)) = l - o
          /\ \A i \in 1 .. l - o : SubSeq(b, o + 1, l)[i] = b[o + i]
      BY <1>3, <2>1, SubSeqFacts
    <2>3. QED
      BY <1>8, <2>2, Zenon
  <1>10. PICK h \in Nat : h = l - o
    <2>1. l - o \in Nat
      BY <1>7
    <2>2. QED
      BY <2>1
  <1>11. Len(e) = h /\ n <= h
    BY <1>7, <1>9, <1>10
  <1>12. PICK c : c = SubSeq(e, 1, n)
    OBVIOUS
  <1>13. c \in Seq(Byte) /\ Len(c) = n /\ \A i \in 1 .. n : c[i] = e[i]
    <2>1. PICK z \in Nat : z = 0
      OBVIOUS
    <2>2. z <= n /\ n <= Len(e)
      BY <1>11, <2>1
    <2>3. e \in Seq(Byte)
      BY <1>9
    <2>4. /\ SubSeq(e, z + 1, n) \in Seq(Byte) /\ Len(SubSeq(e, z + 1, n)) = n - z
          /\ \A i \in 1 .. n - z : SubSeq(e, z + 1, n)[i] = e[z + i]
      BY <2>3, <2>2, SubSeqFacts
    <2>5. c = SubSeq(e, z + 1, n)
      BY <1>12, <2>1
    <2>6. QED
      BY <2>1, <2>4, <2>5
  <1>14. ASSUME NEW i \in 1 .. n PROVE msg[start + entityOffset + i].of = c[i]
    <2>1. PICK j : j = o + i
      OBVIOUS
    <2>2. j \in 1 .. k /\ i \in 1 .. l - o
      BY <1>7, <2>1
    <2>3. w[p + j] = ByteToken(b[0 + j])
      BY <1>7, <2>2 DEF BytesAt
    <2>4. p + j \in 1 .. Len(msg)
      BY <1>7, <2>2 DEF Received
    <2>5. msg[p + j] = w[p + j]
      BY <2>4 DEF Received
    <2>6. 0 + j = j
      BY <2>2
    <2>7. msg[p + j].of = b[j]
      BY <2>3, <2>5, <2>6 DEF ByteToken, Token
    <2>8. c[i] = b[j]
      BY <1>9, <1>13, <2>1, <2>2
    <2>9. start + entityOffset + i = p + j
      BY <1>4, <1>5, <2>1
    <2>10. QED
      BY <2>7, <2>8, <2>9
  <1>15. Given(n) = c
    <2>1. Given(n) = [i \in 1 .. n |-> c[i]]
      BY <1>14 DEF Given
    <2>2. c = [i \in 1 .. n |-> c[i]]
      <3>1. c \in [1 .. n -> Byte]
        BY <1>13, LenProperties
      <3>2. QED
        BY <3>1
    <2>3. QED
      BY <2>1, <2>2
  <1>16. PICK d : d = SubSeq(e, n + 1, h)
    OBVIOUS
  <1>17. PICK f : f = SubSeq(b, o + n + 1, l)
    OBVIOUS
  <1>18. d = f
    <2>1. n <= h /\ h <= Len(e)
      BY <1>11
    <2>2. /\ d \in Seq(Byte) /\ Len(d) = h - n
          /\ \A i \in 1 .. h - n : d[i] = e[n + i]
      <3>1. e \in Seq(Byte)
        BY <1>9
      <3>2. /\ SubSeq(e, n + 1, h) \in Seq(Byte) /\ Len(SubSeq(e, n + 1, h)) = h - n
            /\ \A i \in 1 .. h - n : SubSeq(e, n + 1, h)[i] = e[n + i]
        BY <3>1, <2>1, SubSeqFacts
      <3>3. QED
        BY <1>16, <3>2, Zenon
    <2>3. PICK q \in Nat : q = o + n
      OBVIOUS
    <2>4. q <= l /\ l <= Len(b)
      BY <1>3, <1>7, <2>3
    <2>5. f = SubSeq(b, q + 1, l)
      BY <1>17, <2>3
    <2>6. /\ f \in Seq(Byte) /\ Len(f) = l - q
          /\ \A i \in 1 .. l - q : f[i] = b[q + i]
      BY <1>3, <2>4, <2>5, SubSeqFacts
    <2>7. PICK r \in Nat : r = h - n
      <3>1. h - n \in Nat
        BY <1>11
      <3>2. QED
        BY <3>1
    <2>8. l - q = r
      BY <1>10, <2>3, <2>7
    <2>9. ASSUME NEW i \in 1 .. r PROVE d[i] = f[i]
      <3>1. PICK j : j = n + i
        OBVIOUS
      <3>2. j \in 1 .. l - o /\ o + j = q + i
        BY <1>10, <2>3, <2>7, <3>1
      <3>3. d[i] = e[j]
        BY <2>2, <2>7, <3>1
      <3>4. e[j] = b[o + j]
        BY <1>9, <3>2
      <3>5. f[i] = b[q + i]
        BY <2>6, <2>8
      <3>6. QED
        BY <3>2, <3>3, <3>4, <3>5
    <2>10. d \in Seq(Byte) /\ f \in Seq(Byte) /\ Len(d) = r /\ Len(f) = r
      BY <2>2, <2>6, <2>7, <2>8
    <2>11. d = f
      <3>1. \A i \in 1 .. Len(d) : d[i] = f[i]
        BY <2>9, <2>10
      <3>2. Len(d) = Len(f)
        BY <2>10
      <3>3. QED
        BY <2>10, <3>1, <3>2, SeqEqual
    <2>12. QED
      BY <2>11
  <1>19. QED
    <2>1. IsEnd(SubSeq(e, n + 1, Len(e)), answer.body, entityOffset + n)
      BY <1>1, <1>2, <1>4, <1>11, <1>16, <1>17, <1>18, Zenon DEF IsEnd
    <2>2. QED
      BY <1>1, <1>4, <1>9, <1>10, <1>11, <1>12, <1>15, <2>1

(* What the caller has when it does not wait is all that it can have.       *)
LEMMA AvailableFacts ==
  ASSUME AnswerTypes, NEW w, Late(w), NEW want \in Nat, step = "receive", ~Waiting(want)
  PROVE  /\ Available(want) \in Nat
         /\ entityOffset + Available(want) <= entityLength
         /\ Available(want) = Smaller(want, Len(answer.body) - entityOffset)
  <1>1. Len(answer.body) \in Nat
    BY AnswerFacts DEF AnswerTypes
  <1>2. /\ entityOffset \in Nat /\ entityLength \in Nat
        /\ entityOffset <= entityLength /\ entityLength <= Len(answer.body)
        /\ position = "complete" => entityLength = Len(answer.body)
    BY DEF AnswerTypes, Late, Known
  <1>3. position = "complete" \/ entityOffset + want <= entityLength
    BY <1>2 DEF Waiting, Late
  <1>4. QED
    BY <1>1, <1>2, <1>3 DEF Available, Smaller

(* The invariant of the file buffer and of the answer it reads.             *)
ReadInv == IInv /\ HttpInv /\ GetInv

(* An answer that is released, or is not understood, has nothing to keep.   *)
LEMMA ClosedInv ==
  ASSUME step' = "closed", Released0', pc' # "read" PROVE HttpInv' /\ GetInv'
  BY DEF HttpInv, GetInv, Connected

LEMMA FailedInv ==
  ASSUME step' = "failed", pc' \in {"open", "read"} PROVE HttpInv' /\ GetInv'
  BY DEF HttpInv, GetInv, Connected

(* The read waits for what was asked, or reads what the server sends.       *)
LEMMA ConnectedInv ==
  ASSUME step' \in {"parse", "receive", "opened"}, Live', pc' \in {"open", "read"},
         pc' = "open" => (answer.body \in Entities /\ offset <= LastByte)',
         pc' = "read" => /\ step' # "opened" /\ Late(msg \o stream)'
                         /\ IsEnd(entity', answer'.body, entityOffset')
  PROVE  HttpInv' /\ GetInv'
  <1>1. HttpInv'
    BY DEF HttpInv
  <1>2. GetInv'
    BY DEF GetInv, IsEnd, Connected
  <1>3. QED
    BY <1>1, <1>2

(* The request of a read does not change while it waits.                    *)
LEMMA FileStays ==
  ASSUME UNCHANGED vars
  PROVE  /\ UNCHANGED <<pc, offset, entity>>
         /\ Entities' = Entities /\ LastByte' = LastByte
  BY DEF vars, file, Entities, RangeAsked, Content, LastByte

(* What is known while an answer is read.                                   *)
LEMMA WhileConnected ==
  ASSUME ReadInv, Connected
  PROVE  /\ Live /\ pc \in {"open", "read"}
         /\ pc = "open" => answer.body \in Entities /\ offset <= LastByte
         /\ pc = "read" => /\ step # "opened" /\ Late(msg \o stream)
                           /\ IsEnd(entity, answer.body, entityOffset)
  <1>1. step # "closed" /\ Live /\ GetInv /\ TypeOK
    BY DEF ReadInv, IInv, HttpInv, Connected
  <1>2. pc \in {"open", "read"}
    BY <1>1 DEF GetInv, TypeOK
  <1>3. QED
    BY <1>1, <1>2 DEF GetInv, IsEnd

(* A call does not touch the connection.                                    *)
LEMMA CallStep ==
  ASSUME ReadInv, GetCall PROVE Next /\ Understood /\ HttpInv' /\ GetInv'
  <1>1. PICK off \in 0 .. OffMax, sz \in Asked :
          ReadText(off, sz) \/ Overflow(off, sz) \/ ReadURL(off, sz)
    BY DEF GetCall
  <1>2. pc \in {"idle", "done"} /\ pc' \in {"open", "done"}
    BY <1>1 DEF ReadText, Overflow, ReadURL, Call, Return
  <1>3. step = "closed" /\ Released0
    BY <1>2 DEF ReadInv, GetInv, HttpInv
  <1>4. step' = "closed" /\ Released0'
    BY <1>3 DEF GetCall, httpVars, Released0
  <1>5. HttpInv' /\ GetInv'
    BY <1>2, <1>4, ClosedInv
  <1>6. Next
    BY <1>1 DEF Next
  <1>7. QED
    BY <1>4, <1>5, <1>6 DEF Understood

(* A request is sent once the last answer is released.                      *)
LEMMA ConnectStep ==
  ASSUME ReadInv, GetConnect
  PROVE  UNCHANGED vars /\ Understood /\ HttpInv' /\ GetInv'
  <1>1. pc = "open" /\ offset <= LastByte /\ UNCHANGED vars
    BY DEF GetConnect
  <1>2. PICK b \in Entities : Connect(b)
    BY DEF GetConnect
  <1>3. step = "closed" /\ Released0
    BY <1>2 DEF Connect, ReadInv, HttpInv
  <1>4. b \in Seq(Byte)
    BY <1>1, EntitiesFacts DEF ReadInv
  <1>5. step' = "parse" /\ answer'.body = b /\ Live'
    BY <1>2, <1>3, <1>4, Connects
  <1>6. (answer.body \in Entities /\ offset <= LastByte)' /\ pc' = "open"
    BY <1>1, <1>2, <1>5, FileStays
  <1>7. HttpInv' /\ GetInv'
    BY <1>5, <1>6, ConnectedInv
  <1>8. QED
    BY <1>1, <1>3, <1>7 DEF Understood

(* A step of the connection that changes neither the entity of the answer    *)
(* nor what was given of it.                                                *)
LEMMA ConnectedStep ==
  ASSUME ReadInv, Connected, UNCHANGED vars, UNCHANGED entityOffset,
         answer'.body = answer.body, step' \in {"parse", "receive", "opened"}, Live',
         Late(msg \o stream) => step' # "opened" /\ Late(msg \o stream)'
  PROVE  HttpInv' /\ GetInv'
  <1>1. /\ pc \in {"open", "read"}
        /\ pc = "open" => answer.body \in Entities /\ offset <= LastByte
        /\ pc = "read" => /\ step # "opened" /\ Late(msg \o stream)
                          /\ IsEnd(entity, answer.body, entityOffset)
    BY WhileConnected
  <1>2. /\ UNCHANGED <<pc, offset, entity>>
        /\ Entities' = Entities /\ LastByte' = LastByte
    BY FileStays
  <1>3. pc' = "open" => (answer.body \in Entities /\ offset <= LastByte)'
    BY <1>1, <1>2
  <1>4. pc' = "read" => /\ step' # "opened" /\ Late(msg \o stream)'
                        /\ IsEnd(entity', answer'.body, entityOffset')
    BY <1>1, <1>2
  <1>5. QED
    BY <1>1, <1>2, <1>3, <1>4, ConnectedInv

(* Each step of the connection, which the read does not see.                *)
LEMMA SendStep ==
  ASSUME ReadInv, GetSend
  PROVE  UNCHANGED vars /\ Understood /\ HttpInv' /\ GetInv'
  <1>1. UNCHANGED vars /\ (SendChunk \/ SendLastChunk)
    BY DEF GetSend
  <1>2. step = "receive" /\ Connected
    BY <1>1 DEF SendChunk, SendLastChunk, InChunks, Connected
  <1>3. Live
    BY <1>2, WhileConnected
  <1>4. /\ UNCHANGED <<step, entityOffset>> /\ answer'.body = answer.body /\ Live'
        /\ Late(msg \o stream) => Late(msg \o stream)'
    BY <1>1, <1>3, Sends
  <1>5. HttpInv' /\ GetInv'
    BY <1>1, <1>2, <1>4, ConnectedStep
  <1>6. QED
    BY <1>1, <1>2, <1>5 DEF Understood

LEMMA ReceiveStep ==
  ASSUME ReadInv, GetReceive
  PROVE  UNCHANGED vars /\ Understood /\ HttpInv' /\ GetInv'
  <1>1. UNCHANGED vars /\ (Receive(Want) \/ ServerCloses(Want) \/ ReceiveFails(Want))
    BY DEF GetReceive
  <1>2. step = "receive" /\ Connected
    BY <1>1 DEF Receive, ServerCloses, ReceiveFails, Waiting, Connected
  <1>3. Live /\ pc \in {"open", "read"}
    BY <1>2, WhileConnected
  <1>4. HttpInv' /\ GetInv'
    <2>1. CASE step' = "failed"
      <3>1. pc' \in {"open", "read"}
        BY <1>1, <1>3, FileStays
      <3>2. QED
        BY <2>1, <3>1, FailedInv
    <2>2. CASE step' # "failed"
      <3>1. ~ReceiveFails(Want)
        BY <2>2 DEF ReceiveFails, Released
      <3>2. CASE Receive(Want)
        <4>1. /\ step' = "parse" /\ UNCHANGED <<answer, entityOffset>> /\ Live'
              /\ Late(msg \o stream) => Late(msg \o stream)'
          BY <1>3, <3>2, Receives
        <4>2. QED
          BY <1>1, <1>2, <4>1, ConnectedStep
      <3>3. CASE ServerCloses(Want)
        <4>1. /\ step' = "receive" /\ UNCHANGED <<answer, entityOffset>> /\ Live'
              /\ Late(msg \o stream)'
          BY <1>3, <2>2, <3>3, Closes
        <4>2. QED
          BY <1>1, <1>2, <4>1, ConnectedStep
      <3>4. QED
        BY <1>1, <3>1, <3>2, <3>3
    <2>3. QED
      BY <2>1, <2>2
  <1>5. QED
    BY <1>1, <1>2, <1>4 DEF Understood

LEMMA ParseStep ==
  ASSUME ReadInv, GetParse
  PROVE  UNCHANGED vars /\ Understood /\ HttpInv' /\ GetInv'
  <1>1. UNCHANGED vars /\ Parse
    BY DEF GetParse
  <1>2. step = "parse" /\ Connected
    BY <1>1 DEF Parse, ParseResponseLine, ParseHeader, EndHeaders, GetEntityReadMethod,
                ParseUsingLength, ParseChunkSize, ParseChunk, ParseUntilClose,
                InHeaders, Reading, Parsing, Connected
  <1>3. Live /\ pc \in {"open", "read"}
    BY <1>2, WhileConnected
  <1>4. /\ UNCHANGED <<answer, entityOffset>>
        /\ step' \in {"parse", "receive", "opened", "failed"}
        /\ step' = "failed" => answer.form = "wrong"
        /\ step' # "failed" => Live'
        /\ Late(msg \o stream) =>
             step' # "opened" /\ (step' # "failed" => Late(msg \o stream)')
    <2>1. AnswerTypes /\ (Early(msg \o stream) \/ Late(msg \o stream))
      BY <1>3 DEF Live
    <2>2. QED
      BY <1>1, <2>1, Parsed DEF Live
  <1>5. HttpInv' /\ GetInv'
    <2>1. CASE step' = "failed"
      <3>1. pc' \in {"open", "read"}
        BY <1>1, <1>3, FileStays
      <3>2. QED
        BY <2>1, <3>1, FailedInv
    <2>2. CASE step' # "failed"
      <3>1. /\ step' \in {"parse", "receive", "opened"} /\ answer'.body = answer.body
            /\ UNCHANGED entityOffset /\ Live'
            /\ Late(msg \o stream) => step' # "opened" /\ Late(msg \o stream)'
        BY <1>4, <2>2
      <3>2. QED
        BY <1>1, <1>2, <3>1, ConnectedStep
    <2>3. QED
      BY <2>1, <2>2
  <1>6. QED
    BY <1>1, <1>4, <1>5 DEF Understood

(* The first read begins with nothing given of the entity.                  *)
LEMMA OpenedStep ==
  ASSUME ReadInv, GetOpened PROVE Next /\ Understood /\ HttpInv' /\ GetInv'
  <1>1. /\ pc = "open" /\ step = "opened" /\ pc' = "read" /\ entity' = answer.body
        /\ ReadAgain(0) /\ UNCHANGED <<file, offset, asked, size, buffer, rc>>
    BY DEF GetOpened
  <1>2. Connected
    BY <1>1 DEF Connected
  <1>3. Live /\ answer.body \in Entities /\ offset <= LastByte
    BY <1>1, <1>2, WhileConnected
  <1>4. PICK w : w = msg \o stream
    OBVIOUS
  <1>5. AnswerTypes /\ Late(w)
    BY <1>1, <1>3, <1>4 DEF Live, Early
  <1>6. Received(w)
    BY <1>4, <1>5, BufferFacts
  <1>7. PICK z \in Nat : z = 0
    OBVIOUS
  <1>8. z <= entityLength /\ ReadAgain(z)
    BY <1>1, <1>5, <1>7 DEF AnswerTypes
  <1>9. /\ step' \in {"receive", "parse"} /\ entityOffset' = z
        /\ UNCHANGED <<answer, msg, stream>> /\ AnswerTypes' /\ Late(w)'
    BY <1>5, <1>6, <1>8, ReadsOn
  <1>10. (msg \o stream)' = w
    BY <1>4, <1>9
  <1>11. Live' /\ Late(msg \o stream)'
    BY <1>9, <1>10 DEF Live
  <1>12. IsEnd(entity', answer'.body, entityOffset')
    <2>1. answer.body \in Seq(Byte)
      BY <1>5 DEF AnswerTypes, AnswerOK
    <2>2. SubSeq(answer.body, 1, Len(answer.body)) = answer.body
      BY <2>1, SubSeqFull
    <2>3. z + 1 = 1
      BY <1>7
    <2>4. QED
      BY <1>1, <1>9, <2>2, <2>3, Zenon DEF IsEnd
  <1>13. HttpInv' /\ GetInv'
    BY <1>1, <1>9, <1>11, <1>12, ConnectedInv
  <1>14. Open
    BY <1>1, <1>3 DEF Open
  <1>15. QED
    BY <1>1, <1>13, <1>14 DEF Next, Understood

(* A failure releases the answer.                                           *)
LEMMA FailsStep ==
  ASSUME ReadInv, GetFails PROVE Next /\ Understood /\ HttpInv' /\ GetInv'
  <1>1. OpenFails \/ ReadFails
    BY DEF GetFails
  <1>2. pc' = "done"
    BY <1>1 DEF OpenFails, ReadFails, Fails, Return
  <1>3. step \in {"closed", "failed"} /\ step' = "closed" /\ Released0'
    BY DEF GetFails, CloseHttpGet, Released, Released0
  <1>4. HttpInv' /\ GetInv'
    BY <1>2, <1>3, ClosedInv
  <1>5. QED
    BY <1>1, <1>3, <1>4 DEF Next, Understood

(* A read of the answer is one of the entity: it gives as many bytes as can  *)
(* be given, and no less of the entity comes after.                         *)
LEMMA GivenStep ==
  ASSUME ReadInv, GetRead PROVE Next /\ Understood /\ HttpInv' /\ GetInv'
  <1>1. pc = "read" /\ step = "receive" /\ ~Waiting(Want)
    BY DEF GetRead
  <1>2. PICK n : n = Available(Want)
    OBVIOUS
  <1>3. /\ buffer' = buffer \o Given(n)
        /\ entity' = SubSeq(entity, n + 1, Len(entity))
        /\ IF Finished(n) THEN Return(Len(buffer) + n) /\ CloseHttpGet
                          ELSE ReadAgain(entityOffset + n) /\ UNCHANGED <<pc, rc>>
        /\ UNCHANGED <<file, offset, asked, size>>
    BY <1>2 DEF GetRead
  <1>4. Connected
    BY <1>1 DEF Connected
  <1>5. /\ Late(msg \o stream) /\ IsEnd(entity, answer.body, entityOffset)
        /\ AnswerTypes
    BY <1>1, <1>4, WhileConnected DEF Live
  <1>6. PICK w : w = msg \o stream
    OBVIOUS
  <1>7. Late(w) /\ Received(w)
    BY <1>5, <1>6, BufferFacts
  <1>8. PICK want \in Nat : want = Want
    <2>1. size \in Nat /\ buffer \in Seq(Nat \cup {Garbage}) /\ Len(buffer) <= size
      BY <1>1 DEF ReadInv, IInv, TypeOK, Progress
    <2>2. Len(buffer) \in Nat
      BY <2>1, LenProperties
    <2>3. size - Len(buffer) \in Nat
      BY <2>1, <2>2
    <2>4. QED
      BY <2>3 DEF Want
  <1>9. /\ n \in Nat /\ entityOffset + n <= entityLength
        /\ n = Smaller(want, Len(answer.body) - entityOffset)
    BY <1>1, <1>2, <1>5, <1>7, <1>8, AvailableFacts
  <1>10. /\ entity \in Seq(Byte) /\ Len(entity) = Len(answer.body) - entityOffset
         /\ n <= Len(entity) /\ Given(n) = SubSeq(entity, 1, n)
         /\ IsEnd(SubSeq(entity, n + 1, Len(entity)), answer.body, entityOffset + n)
    <2>1. Known(w)
      BY <1>7 DEF Late
    <2>2. QED
      BY <1>5, <1>7, <1>9, <2>1, GivenFacts
  <1>11. n \in Chunks
    <2>1. PICK k \in Nat : k = Len(entity)
      BY <1>10, LenProperties
    <2>2. n = Smaller(want, k)
      BY <1>9, <1>10, <2>1
    <2>3. Chunks = IF n = 0 THEN {0} ELSE 1 .. n
      BY <1>8, <2>1, <2>2 DEF Chunks, Want
    <2>4. QED
      BY <1>9, <2>3
  <1>12. Read
    <2>1. buffer' = buffer \o SubSeq(entity, 1, n)
      BY <1>3, <1>10, Zenon
    <2>2. IF Finished(n) THEN Return(Len(buffer) + n) ELSE UNCHANGED <<pc, rc>>
      BY <1>3
    <2>3. QED
      BY <1>1, <1>3, <1>11, <2>1, <2>2 DEF Read
  <1>13. HttpInv' /\ GetInv'
    <2>1. CASE Finished(n)
      <3>1. pc' = "done" /\ step' = "closed" /\ Released0'
        BY <1>3, <2>1 DEF Return, CloseHttpGet, Released, Released0
      <3>2. QED
        BY <3>1, ClosedInv
    <2>2. CASE ~Finished(n)
      <3>1. ReadAgain(entityOffset + n) /\ pc' = "read"
        BY <1>1, <1>3, <2>2
      <3>2. PICK given \in Nat : given = entityOffset + n
        BY <1>5, <1>9 DEF AnswerTypes
      <3>3. given <= entityLength /\ ReadAgain(given)
        BY <1>9, <3>1, <3>2
      <3>4. /\ step' \in {"receive", "parse"} /\ entityOffset' = given
            /\ UNCHANGED <<answer, msg, stream>> /\ AnswerTypes' /\ Late(w)'
        BY <1>5, <1>7, <3>3, ReadsOn
      <3>5. (msg \o stream)' = w
        BY <1>6, <3>4
      <3>6. Live' /\ Late(msg \o stream)'
        BY <3>4, <3>5 DEF Live
      <3>7. IsEnd(entity', answer'.body, entityOffset')
        BY <1>3, <1>10, <3>2, <3>4, Zenon
      <3>8. QED
        BY <3>1, <3>4, <3>6, <3>7, ConnectedInv
    <2>3. QED
      BY <2>1, <2>2
  <1>14. QED
    BY <1>1, <1>12, <1>13 DEF Next, Understood

(* Nothing happens.                                                         *)
LEMMA StutterStep ==
  ASSUME ReadInv, UNCHANGED allVars
  PROVE  UNCHANGED vars /\ UNCHANGED httpVars /\ HttpInv' /\ GetInv'
  <1>1. UNCHANGED vars /\ UNCHANGED httpVars
    BY DEF allVars
  <1>2. UNCHANGED <<pc, offset, entity>> /\ Entities' = Entities /\ LastByte' = LastByte
    BY <1>1, FileStays
  <1>3. /\ UNCHANGED <<answer, stream, step, position, method, msg, cursor, headers, start,
                       entityLength, chunkSize, entityOffset, okOnClose>>
    BY <1>1 DEF httpVars
  <1>4. (msg \o stream)' = msg \o stream
    BY <1>3
  <1>5. Late(msg \o stream) => Late(msg \o stream)'
    BY <1>3, <1>4 DEF Late, Known, Ways
  <1>6. Early(msg \o stream) => Early(msg \o stream)'
    BY <1>3, <1>4 DEF Early
  <1>7. Live => Live'
    BY <1>3, <1>5, <1>6 DEF Live, AnswerTypes
  <1>8. HttpInv'
    BY <1>3, <1>7 DEF ReadInv, HttpInv, Connected, Released0
  <1>9. GetInv'
    BY <1>2, <1>3, <1>5 DEF ReadInv, GetInv, Connected
  <1>10. QED
    BY <1>1, <1>8, <1>9

(* Every step is one of FileBuffer_Read as it was specified, or none, and    *)
(* refuses no good answer.                                                  *)
LEMMA GetStep ==
  ASSUME ReadInv, [GetNext]_allVars
  PROVE  [Next]_vars /\ [Understood]_httpVars /\ ReadInv'
  <1>1. [Next]_vars /\ [Understood]_httpVars /\ HttpInv' /\ GetInv'
    BY CallStep, ConnectStep, SendStep, ReceiveStep, ParseStep, OpenedStep, GivenStep,
       FailsStep, StutterStep DEF GetNext
  <1>2. IInv'
    BY <1>1, NextInv DEF ReadInv
  <1>3. QED
    BY <1>1, <1>2 DEF ReadInv

(* At the beginning there is no answer.                                     *)
LEMMA GetInit0 ==
  ASSUME GetInit PROVE Init /\ ReadInv
  <1>1. Init /\ IInv
    BY InitInv DEF GetInit
  <1>2. HttpInv
    BY DEF GetInit, HttpInit, HttpInv, Released0, Connected
  <1>3. GetInv
    BY DEF GetInit, Init, HttpInit, GetInv, Connected
  <1>4. QED
    BY <1>1, <1>2, <1>3 DEF ReadInv

(* So it is known at every step.                                            *)
LEMMA GetInvariance == GetSpec => []ReadInv
  <1>1. GetInit => ReadInv
    BY GetInit0
  <1>2. ReadInv /\ [GetNext]_allVars => ReadInv'
    BY GetStep
  <1>3. QED
    BY <1>1, <1>2, PTL DEF GetSpec

-----------------------------------------------------------------------------
(* FileBuffer_Read over http_OpenHttpGetEx and http_ReadHttpGet reads what   *)
(* it is specified to read: however the network cuts an answer, and in       *)
(* whatever form its entity is sent, the bytes copied are those of the       *)
(* entity, without the sizes, the ends of lines and the headers around them; *)
(* an entity that breaks off before the end that was told fails the read,    *)
(* and no answer that a server may send is refused.                         *)
THEOREM AnswersAreRead == GetSpec => ReadsAsPromised
  <1>1. GetInit => Init
    BY GetInit0
  <1>2. ReadInv /\ [GetNext]_allVars => [Next]_vars /\ [Understood]_httpVars
    BY GetStep
  <1>3. QED
    BY <1>1, <1>2, GetInvariance, PTL DEF GetSpec, Spec, ReadsAsPromised

(* So what is read through the parser are the bytes of the file.            *)
THEOREM FileIsRead == GetSpec => []ReadsFile
  <1>1. QED
    BY AnswersAreRead, ReadIsExact, PTL DEF ReadsAsPromised
=============================================================================
