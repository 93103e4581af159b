---------------------------- MODULE ProfileWriter ----------------------------
(***************************************************************************)
(* ProfileWriter<Version, Writer> (profile_writer.h) and its Checksum      *)
(* (checksum.h, checksum.cpp): messages are serialised into a buffer that  *)
(* is flushed when the next one might not fit and replaced when it can     *)
(* never fit.                                                              *)
(*                                                                         *)
(* A message is its number and its size. What is written of it are pieces: *)
(* the version (of the header), the length, the object, and a checksum     *)
(* that carries the pieces it was computed from. A varint takes any number *)
(* of bytes up to MaxVarint. Offsets and capacities are uint32_t: they     *)
(* wrap at Word.                                                           *)
(***************************************************************************)
EXTENDS Integers, Sequences

CONSTANTS
    Word,       \* 2^32 in the code
    BUFF_SZ, MIN_FREE_BUFF,
    MaxVarint,  \* the longest varint32, 5 bytes in the code
    ByteSizes,  \* sizes of serialised messages
    MaxMessages \* bound: messages written

(***************************************************************************)
(* MIN_FREE_BUFF "should accomodate atleast 4 varint32 values". The sizes  *)
(* are far enough from Word: a buffer of twice the largest request, filled *)
(* up, and another such request must not wrap. The code does not check it. *)
(***************************************************************************)
ASSUME BuffAssumption ==
    /\ MaxVarint \in Nat \ {0} /\ MIN_FREE_BUFF \in Nat /\ 4 * MaxVarint <= MIN_FREE_BUFF
    /\ BUFF_SZ \in Nat /\ Word \in Nat /\ ByteSizes \subseteq Nat
    /\ \A sz \in ByteSizes : /\ 3 * (sz + MIN_FREE_BUFF) < Word
                             /\ BUFF_SZ + sz + MIN_FREE_BUFF < Word

VARIABLES
    data_capacity, data_offset, header_written,
    data,    \* the pieces in the buffer since offset 0
    adler,   \* the pieces the running checksum covers
    file,    \* the pieces given to write_unbuffered
    count,   \* messages given to write_header and append_wse
    open     \* the destructor has not run

fileVars == <<data_capacity, data_offset, header_written, data, adler, file, count, open>>

FileInit ==
    /\ data_capacity = BUFF_SZ /\ data_offset = 0 /\ header_written = FALSE
    /\ data = <<>> /\ adler = <<>> /\ file = <<>> /\ count = 0 /\ open = TRUE

Piece(i, part) == [of |-> i, part |-> part, covers |-> <<>>]
Sum(i, pieces) == [of |-> i, part |-> "checksum", covers |-> pieces]

\* The buffer after ensure_freebuff(value) for a value of sz bytes.
\* Mutant: room for the object alone, not for the varints around it.
EnsureBare(sz) ==
    IF (data_offset + sz) % Word > data_capacity
    THEN [file |-> file \o data, data |-> <<>>, offset |-> 0,
          capacity |-> IF sz > data_capacity THEN (2 * sz) % Word ELSE data_capacity]
    ELSE [file |-> file, data |-> data, offset |-> data_offset, capacity |-> data_capacity]
\* Mutant: the old buffer is replaced without a flush.
EnsureUnflushed(sz) ==
    LET min_reqired == (sz + MIN_FREE_BUFF) % Word
    IN  IF (data_offset + min_reqired) % Word > data_capacity
        THEN [file |-> file, data |-> <<>>, offset |-> 0,
              capacity |-> IF min_reqired > data_capacity
                           THEN (min_reqired * 2) % Word ELSE data_capacity]
        ELSE [file |-> file, data |-> data, offset |-> data_offset, capacity |-> data_capacity]
ensure_freebuff(sz) ==
    LET min_reqired == (sz + MIN_FREE_BUFF) % Word
    IN  IF (data_offset + min_reqired) % Word > data_capacity
        THEN [file |-> file \o data, data |-> <<>>, offset |-> 0,
              capacity |-> IF min_reqired > data_capacity
                           THEN (min_reqired * 2) % Word ELSE data_capacity]
        ELSE [file |-> file, data |-> data, offset |-> data_offset, capacity |-> data_capacity]

\* The pieces and bytes go to the buffer that ensure_freebuff left.
write_unchecked(buff, pieces, bytes) ==
    /\ file' = buff.file
    /\ data' = buff.data \o pieces
    /\ data_offset' = (buff.offset + bytes) % Word
    /\ data_capacity' = buff.capacity

\* The checksum is taken of the buffer from its start, and not reset before.
write_header(sz) ==
    /\ open /\ ~header_written /\ count < MaxMessages
    /\ LET i == count + 1
           buff == ensure_freebuff(sz)
           body == <<Piece(i, "version"), Piece(i, "size"), Piece(i, "object")>>
           csum == adler \o buff.data \o body
       IN  /\ adler' = csum
           /\ \E varints \in 3..(3 * MaxVarint) :
                  write_unchecked(buff, Append(body, Sum(i, csum)), sz + varints)
           /\ count' = i
    /\ header_written' = TRUE
    /\ UNCHANGED open

\* The callers write the header first; append_wse does not look.
append_wse(sz) ==
    /\ open /\ header_written /\ count < MaxMessages
    /\ LET i == count + 1
           buff == ensure_freebuff(sz)
           body == <<Piece(i, "size"), Piece(i, "object")>>
       IN  /\ adler' = body
           /\ \E varints \in 2..(2 * MaxVarint) :
                  write_unchecked(buff, Append(body, Sum(i, body)), sz + varints)
           /\ count' = i
    /\ UNCHANGED <<header_written, open>>

\* The destructor: a last flush.
Close ==
    /\ open
    /\ open' = FALSE
    /\ file' = file \o data
    /\ UNCHANGED <<data_capacity, data_offset, header_written, data, adler, count>>

FileNext == Close \/ \E sz \in ByteSizes : write_header(sz) \/ append_wse(sz)
FileSpec == FileInit /\ [][FileNext]_fileVars

-----------------------------------------------------------------------------
(* Properties *)

\* Nothing is written past the buffer: what ensure_freebuff reserves covers
\* the object and every varint around it, also for a message larger than the
\* buffer, and the uint32_t arithmetic does not wrap.
WithinBuffer == data_offset <= data_capacity

\* What a reader gets: the messages in the order of the calls, none lost or
\* torn by a flush or by the replacement of the buffer, each with a checksum
\* of its own bytes alone. The destructor leaves nothing in the buffer.
Message(i) ==
    LET head == IF i = 1 THEN <<Piece(i, "version")>> ELSE <<>>
        body == head \o <<Piece(i, "size"), Piece(i, "object")>>
    IN  Append(body, Sum(i, body))
\* The pieces before those of message i: four of the header, three of others.
Before(i) == IF i = 1 THEN 0 ELSE 3 * i - 2
Written == IF open THEN file \o data ELSE file
ReadBack ==
    /\ Len(Written) = Before(count + 1)
    /\ \A i \in 1..count : \A j \in DOMAIN Message(i) : Written[Before(i) + j] = Message(i)[j]
=============================================================================
