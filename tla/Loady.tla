------------------------------- MODULE Loady --------------------------------
(***************************************************************************)
(* The command `loady': load_serial_ymodem (common/cmd_load.c) and the     *)
(* receiver of common/xyzModem.c, with the sender (external) at the other  *)
(* end of the serial line.                                                 *)
(*                                                                         *)
(* A byte of the file is its position, 1 .. FileLen; what follows it in    *)
(* the last block is padding.  Of its value only this is told apart: is it *)
(* ^Z, as the padding is?  On the line to the board a block, an EOT, three *)
(* CANs in a row and a stray character are one item each; a block of which *)
(* characters are missing ends in the same time-out as none at all.  What  *)
(* xyzModem_flush throws away, after a time-out and a block whose two      *)
(* numbers do not fit, is not modelled there: it is lost to Noise, which   *)
(* takes any item at any time, and is counted by it.                       *)
(***************************************************************************)
EXTENDS Integers, Sequences, SequencesExt

CONSTANTS
  MAX_RETRIES, MAX_RETRIES_WITH_CRC,
  SeqSize,       \* block numbers, 256 in the code
  BLOCK,         \* bytes in a block, 128 or 1024
  BUFFER,        \* bytes asked of stream_read, 1024
  FileLen,
  Eofs,          \* the bytes of the file that are ^Z, 0x1A, themselves
  PadMin,        \* ^Z that are taken for padding, 3
  Announced,     \* whether block 0 may, or may not, tell the length: a set
  CanCancel,     \* may the user cancel at the sender's end?
  MaxNoise,      \* bound: characters and blocks that the line spoils
  MaxCross       \* bound: time-outs while the sender's answer is due

ASSUME LoadyAssumption ==
  /\ {MAX_RETRIES, MAX_RETRIES_WITH_CRC, BLOCK, FileLen, PadMin} \subseteq Nat \ {0}
  /\ SeqSize \in Nat \ {0, 1} /\ BUFFER \in Nat /\ BLOCK <= BUFFER
  /\ Eofs \subseteq 1 .. FileLen /\ PadMin <= BLOCK
  /\ Announced \subseteq BOOLEAN /\ CanCancel \in BOOLEAN
  /\ MaxNoise \in Nat /\ MaxCross \in Nat

VARIABLES
  pc,            \* "open", "read", "final": where xyzModem_get_hdr is called;
                 \* "store": stream_read has returned; "done"; "overrun"
  in_hdr,        \* the call has begun
  hdr_chars,     \* it has read something already
  retries, crc_retries,
  crc_mode, tx_ack, next_blk, file_length, at_eof,
  read_length,   \* counted here whether or not a length is known
  len,           \* xyz.len when a call of stream_read is to read: 0 or -1
  buf,           \* ymodemBuf, as far as it is filled, and behind it what is
                 \* left of the block in pkt for the next call
  mem,           \* at the load address
  at, hold,      \* the sender: its step, and whether it waits for 'C' there
  started, announces, scrc,
  toSender, toBoard,
  noise, cross, cancelled

board == <<pc, in_hdr, hdr_chars, retries, crc_retries, crc_mode, tx_ack, next_blk,
           file_length, read_length, at_eof, len, buf, mem>>
sender == <<at, hold, started, announces, scrc, cancelled>>
vars == <<board, sender, toSender, toBoard, noise, cross>>

\* The sender's steps: 0 the header, then the blocks, EOT, the empty header.
Blocks == (FileLen + BLOCK - 1) \div BLOCK
EOTStep == Blocks + 1
FinStep == Blocks + 2

Block(k, crc) == [op |-> "blk", k |-> k, ok |-> TRUE, crc |-> crc]
EOT   == [op |-> "EOT"]
CAN   == [op |-> "CAN"]
Stray == [op |-> "stray"]

\* The number that a block carries; the empty header is a block 0.
blk(m) == IF m.k = FinStep THEN 0 ELSE m.k % SeqSize

\* What the board puts on the line; nobody listens unless the sender runs.
Runs    == started /\ at <= FinStep
PUTC(s) == toSender' = IF Runs THEN toSender \o s ELSE <<>>
Please  == IF crc_mode' THEN <<"C">> ELSE <<"NAK">>

-----------------------------------------------------------------------------
(* xyzModem_get_hdr. *)
GetHdr ==
  /\ pc \in {"open", "read", "final"} /\ ~in_hdr
  /\ in_hdr' = TRUE /\ hdr_chars' = FALSE /\ tx_ack' = FALSE
  /\ PUTC(IF tx_ack THEN <<"ACK">> ELSE <<>>)
  /\ UNCHANGED <<pc, retries, crc_retries, crc_mode, next_blk, file_length, read_length,
                 at_eof, len, buf, mem, sender, toBoard, noise, cross>>

Skipped(m) == m.op = "stray" \/ (m.op = "EOT" /\ hdr_chars)

\* Characters that are not the start of a header; an EOT behind them is one too.
HdrSkips ==
  /\ in_hdr /\ toBoard # <<>> /\ Skipped(Head(toBoard))
  /\ hdr_chars' = TRUE
  /\ toBoard' = Tail(toBoard)
  /\ UNCHANGED <<pc, in_hdr, retries, crc_retries, crc_mode, tx_ack, next_blk, file_length,
                 read_length, at_eof, len, buf, mem, sender, toSender, noise, cross>>

\* A block in the other mode has a check that does not fit, and one in CRC mode
\* a character more than is read.
stat(m) ==
  CASE m.op = "EOT" -> "eof"
    [] m.op = "CAN" -> "cancel"
    [] m.op = "blk" /\ crc_mode /\ ~m.crc -> "timeout"
    [] m.op = "blk" /\ (~m.ok \/ m.crc # crc_mode) -> "cksum"
    [] OTHER -> "ok"

Rest(m) == IF m.op = "blk" /\ m.crc /\ ~crc_mode THEN <<Stray>> ELSE <<>>

-----------------------------------------------------------------------------
(* What the callers make of its result r, m being the block.  They go on    *)
(* with another call, or leave.                                             *)

\* xyzModem_stream_open.
Opened(r, m) ==
  /\ r = "ok"
  /\ pc' = "read" /\ retries' = MAX_RETRIES
  /\ tx_ack' = (blk(m) = 0)
  /\ file_length' = IF blk(m) = 0 /\ announces THEN FileLen ELSE file_length
  /\ next_blk' = 1
  /\ PUTC(<<>>)
  /\ UNCHANGED <<crc_retries, crc_mode>>

\* Mutant of OpenGoesOn: the time-outs are not counted among the retries.
OpenGoesOnFree(r) ==
  /\ r # "ok"
  /\ retries' = IF r = "timeout" THEN retries ELSE retries - 1
  /\ pc' = IF r = "cancel" \/ retries' = 0 THEN "done" ELSE "open"
  /\ crc_retries' = crc_retries
  /\ crc_mode' = crc_mode
  /\ PUTC(CASE r = "timeout" -> Please [] r = "eof" -> <<"ACK">> [] OTHER -> <<>>)
  /\ UNCHANGED <<tx_ack, file_length, next_blk>>

OpenGoesOn(r) ==
  /\ r # "ok"
  /\ retries' = retries - 1
  /\ pc' = IF r = "cancel" \/ retries' = 0 THEN "done" ELSE "open"
  /\ crc_retries' = IF r = "timeout" THEN crc_retries - 1 ELSE crc_retries
  /\ crc_mode' = (crc_mode /\ crc_retries' > 0)
  /\ PUTC(CASE r = "timeout" -> Please [] r = "eof" -> <<"ACK">> [] OTHER -> <<>>)
  /\ UNCHANGED <<tx_ack, file_length, next_blk>>

Open(r, m) ==
  /\ pc = "open"
  /\ Opened(r, m) \/ OpenGoesOn(r)
  /\ UNCHANGED <<read_length, at_eof, len, buf>>

\* Is the byte at a position of the file, or of the padding behind it, ^Z?
IsEof(p) == p \in Eofs \/ p > FileLen

\* The shortest beginning of a block behind which there is nothing but ^Z.
\* The headers hold none.
Kept(m) ==
  Min({n \in 0 .. BLOCK :
         \A i \in n + 1 .. BLOCK : m.k \in 1 .. Blocks /\ IsEof((m.k - 1) * BLOCK + i)})

\* How much of a block counts, read bytes having come with it.  What goes beyond
\* the length of the file is cut off.  If that is not known, the ^Z at the end of
\* any block that has PadMin of them are, be they padding or not.
Cut(m, read) ==
  IF file_length # 0 THEN BLOCK - (IF read > file_length THEN read - file_length ELSE 0)
  ELSE IF BLOCK - Kept(m) >= PadMin THEN Kept(m) ELSE BLOCK

Data(m, n) == [i \in 1 .. n |-> (m.k - 1) * BLOCK + i]

\* The buffer is filled with n bytes of m, a negative number of them too;
\* stream_read returns when it is full, be there some of them left.
Copied(m, n) ==
  /\ buf' = buf \o Data(m, n)
  /\ pc' = IF n < 0 THEN "overrun" ELSE IF Len(buf') >= BUFFER THEN "store" ELSE "read"
  /\ retries' = MAX_RETRIES

\* Mutant of After: the number has no width.
AfterUnbounded(n) == n + 1

After(n) == (n + 1) % SeqSize

\* The block that is due.
ReadNext(m) ==
  /\ blk(m) = next_blk
  /\ tx_ack' = TRUE /\ next_blk' = After(next_blk)
  /\ read_length' = read_length + BLOCK
  /\ Copied(m, Cut(m, read_length'))
  /\ PUTC(<<>>)
  /\ UNCHANGED <<at_eof, len>>

\* The block before, again: "Just re-ACK this".  When the retries end here, it
\* is copied a second time.
ReadAgain(m) ==
  /\ blk(m) # next_blk /\ blk(m) = (next_blk - 1) % SeqSize
  /\ PUTC(<<"ACK">>)
  /\ \/ retries > 1 /\ retries' = retries - 1 /\ UNCHANGED <<pc, buf>>
     \/ retries = 1 /\ Copied(m, BLOCK)
  /\ UNCHANGED <<tx_ack, next_blk, read_length, at_eof, len>>

\* stream_read returns what it has, with xyz.len = -1.
ReadFails ==
  /\ len' = -1
  /\ pc' = IF buf = <<>> THEN "done" ELSE "store"

\* Mutant of ReadRetries: the block is not asked for again.
ReadRetriesSilent(r) ==
  /\ retries' = retries - 1
  /\ PUTC(<<>>)
  /\ IF r = "cancel" \/ retries' = 0 THEN ReadFails ELSE UNCHANGED <<len, pc>>
  /\ UNCHANGED <<tx_ack, next_blk, read_length, at_eof, buf>>

ReadRetries(r) ==
  /\ retries' = retries - 1
  /\ PUTC(IF r = "cancel" THEN <<>> ELSE Please)
  /\ IF r = "cancel" \/ retries' = 0 THEN ReadFails ELSE UNCHANGED <<len, pc>>
  /\ UNCHANGED <<tx_ack, next_blk, read_length, at_eof, buf>>

\* Acknowledged by xyzModem_get_hdr and here.
ReadEOT ==
  /\ PUTC(<<"ACK", "ACK">> \o Please)
  /\ pc' = "final"
  /\ UNCHANGED <<retries, tx_ack, next_blk, read_length, at_eof, len, buf>>

\* xyzModem_stream_read.
Read(r, m) ==
  /\ pc = "read"
  /\ UNCHANGED <<crc_mode, crc_retries, file_length>>
  /\ \/ r = "ok" /\ (ReadNext(m) \/ ReadAgain(m))
     \/ r = "ok" /\ blk(m) \notin {next_blk, (next_blk - 1) % SeqSize} /\ ReadRetries("sequence")
     \/ r = "eof" /\ ReadEOT
     \/ r \notin {"ok", "eof"} /\ ReadRetries(r)

\* The header behind the EOT: any result will do.
Final(r, m) ==
  /\ pc = "final"
  /\ PUTC(IF r = "eof" THEN <<"ACK", "ACK">> ELSE <<"ACK">>)
  /\ at_eof' = TRUE
  /\ IF r = "ok" THEN UNCHANGED len ELSE len' = -1
  /\ pc' = IF buf = <<>> THEN "done" ELSE "store"
  /\ UNCHANGED <<retries, crc_retries, crc_mode, tx_ack, next_blk, file_length,
                 read_length, buf>>

Caller(r, m) ==
  /\ in_hdr' = FALSE /\ UNCHANGED <<hdr_chars, mem>>
  /\ Open(r, m) \/ Read(r, m) \/ Final(r, m)

HdrReturns ==
  /\ in_hdr /\ toBoard # <<>> /\ ~Skipped(Head(toBoard))
  /\ Caller(stat(Head(toBoard)), Head(toBoard))
  /\ toBoard' = Rest(Head(toBoard)) \o Tail(toBoard)
  /\ UNCHANGED <<sender, noise, cross>>

\* Nothing comes for two seconds.  By rights the sender has nothing to do then;
\* or it is late.
HdrTimesOut ==
  /\ in_hdr /\ toBoard = <<>>
  /\ IF toSender = <<>> \/ ~Runs THEN UNCHANGED cross
     ELSE cross < MaxCross /\ cross' = cross + 1
  /\ Caller("timeout", Stray)
  /\ UNCHANGED <<toBoard, sender, noise>>

\* What stream_read returns, its total.
Returned == IF Len(buf) < BUFFER THEN Len(buf) ELSE BUFFER

\* Mutant of Store: what is left of a block is lost.
StoreLosesRest ==
  /\ pc = "store"
  /\ mem' = mem \o SubSeq(buf, 1, Returned) /\ buf' = <<>>
  /\ pc' = IF at_eof THEN "done" ELSE IF len = -1 THEN "overrun" ELSE "read"
  /\ retries' = MAX_RETRIES
  /\ UNCHANGED <<in_hdr, hdr_chars, crc_retries, crc_mode, tx_ack, next_blk, file_length,
                 read_length, at_eof, len, sender, toSender, toBoard, noise, cross>>

\* load_serial_ymodem: the bytes read are stored and more are asked for.  The next
\* call begins with what is left of the block; with xyz.len = -1 it copies -1 bytes.
Store ==
  /\ pc = "store"
  /\ mem' = mem \o SubSeq(buf, 1, Returned)
  /\ buf' = SubSeq(buf, Returned + 1, Len(buf))
  /\ pc' = IF at_eof THEN "done" ELSE IF len = -1 THEN "overrun" ELSE "read"
  /\ retries' = MAX_RETRIES
  /\ UNCHANGED <<in_hdr, hdr_chars, crc_retries, crc_mode, tx_ack, next_blk, file_length,
                 read_length, at_eof, len, sender, toSender, toBoard, noise, cross>>

-----------------------------------------------------------------------------
(* The sender and the line (external). *)
Item(k, crc) == IF k = EOTStep THEN EOT ELSE Block(k, crc)

SenderStarts ==
  /\ ~started /\ pc # "done"
  /\ started' = TRUE
  /\ UNCHANGED <<board, at, hold, announces, scrc, cancelled, toSender, toBoard, noise, cross>>

\* A block is sent when it is asked for, the next when it is acknowledged.
SenderSteps ==
  /\ toSender # <<>> /\ Runs
  /\ toSender' = Tail(toSender)
  /\ LET c == Head(toSender)
     IN  IF c = "ACK"
         THEN /\ at' = IF hold THEN at ELSE at + 1
              /\ hold' = (hold \/ at' \in {1, FinStep, FinStep + 1})
              /\ toBoard' = IF hold' THEN toBoard ELSE Append(toBoard, Item(at', scrc))
              /\ UNCHANGED scrc
         ELSE /\ hold' = FALSE
              /\ scrc' = IF at = 0 THEN c = "C" ELSE scrc
              /\ toBoard' = Append(toBoard, Item(at, scrc'))
              /\ UNCHANGED at
  /\ UNCHANGED <<board, started, announces, cancelled, noise, cross>>

SenderCancels ==
  /\ CanCancel /\ Runs
  /\ cancelled' = TRUE /\ at' = FinStep + 1
  /\ toBoard' = Append(toBoard, CAN)
  /\ UNCHANGED <<board, hold, started, announces, scrc, toSender, noise, cross>>

Noise ==
  /\ noise < MaxNoise /\ noise' = noise + 1
  /\ \/ \E i \in DOMAIN toSender : toSender' = RemoveAt(toSender, i) /\ UNCHANGED toBoard
     \/ /\ UNCHANGED toSender
        /\ \E i \in DOMAIN toBoard :
             \/ toBoard' = RemoveAt(toBoard, i)
             \/ toBoard' = InsertAt(toBoard, i, Stray)
             \/ toBoard[i].op = "blk" /\ toBoard' = [toBoard EXCEPT ![i].ok = FALSE]
  /\ UNCHANGED <<board, sender, cross>>

-----------------------------------------------------------------------------
Init ==
  /\ pc = "open" /\ in_hdr = FALSE /\ hdr_chars = FALSE
  /\ retries = MAX_RETRIES /\ crc_retries = MAX_RETRIES_WITH_CRC
  /\ crc_mode = TRUE /\ tx_ack = FALSE /\ next_blk = 0
  /\ file_length = 0 /\ read_length = 0 /\ at_eof = FALSE
  /\ len = 0 /\ buf = <<>> /\ mem = <<>>
  /\ at = 0 /\ hold = TRUE /\ started \in BOOLEAN /\ announces \in Announced /\ scrc = TRUE
  /\ toSender = IF started THEN <<"C">> ELSE <<>>
  /\ toBoard = <<>>
  /\ noise = 0 /\ cross = 0 /\ cancelled = FALSE

Board == GetHdr \/ HdrSkips \/ HdrReturns \/ HdrTimesOut \/ Store

Next == Board \/ SenderStarts \/ SenderSteps \/ SenderCancels \/ Noise

Spec == Init /\ [][Next]_vars

\* The board polls the line, and a sender that runs answers.
FairSpec == Spec /\ WF_vars(Board) /\ WF_vars(SenderSteps)

-----------------------------------------------------------------------------
(* Properties. *)

\* The type of every variable.
TypeOK ==
  /\ pc \in {"open", "read", "final", "store", "done", "overrun"}
  /\ {in_hdr, hdr_chars, crc_mode, tx_ack, at_eof} \subseteq BOOLEAN
  /\ retries \in 0 .. MAX_RETRIES
  /\ next_blk \in 0 .. SeqSize - 1
  /\ file_length \in {0, FileLen} /\ len \in {0, -1}
  /\ read_length \in Nat /\ read_length % BLOCK = 0
  /\ Len(buf) \in 0 .. BUFFER + BLOCK - 1 /\ mem \in Seq(Nat)
  /\ at \in 0 .. FinStep + 1 /\ {hold, started, announces, scrc, cancelled} \subseteq BOOLEAN
  /\ noise \in 0 .. MaxNoise /\ cross \in 0 .. MaxCross

\* The ^Z at the end of a block that ends in PadMin of them: taken for padding
\* where they are not, if the sender does not tell the length of the file.
Stripped(p) ==
  \E k \in 1 .. Blocks :
    /\ p \in (k - 1) * BLOCK + 1 .. k * BLOCK
    /\ \A q \in (p .. k * BLOCK) \cup (k * BLOCK - PadMin + 1 .. k * BLOCK) : IsEof(q)

\* The bytes that loady is to store: those of the file if it knows the length.
\* If not, it loses the Stripped ones, and keeps less than PadMin of padding.
Wanted ==
  {p \in 1 .. Blocks * BLOCK : IF announces THEN p <= FileLen ELSE ~Stripped(p)}

\* Whatever the line does: what loady has stored, and is about to store, are the
\* first of these bytes, each once and in order, although only the last bits of
\* a block's number are sent, a block may come again and again, and a shortened
\* block leaves the next one cut in two by the end of the buffer.
Loaded == mem \o buf
InSequence ==
  /\ \A i, j \in DOMAIN Loaded : i < j => Loaded[i] < Loaded[j]
  /\ ToSet(Loaded) \subseteq Wanted
  /\ \A q \in ToSet(Loaded), p \in Wanted : p < q => p \in ToSet(Loaded)

\* stream_read copies no more than its caller asked for: xyz.len = -1 is never
\* the number of bytes to copy.
NoOverrun == pc # "overrun"

\* A sender that is started in time and not cancelled gets the whole file over
\* (but for the ^Z above, if it does not tell the length),
\* by all that can happen on the line: the retries suffice, also where one call
\* of xyzModem_get_hdr is for a spoilt block and another to run out of time, and
\* neither side waits for the other.  The exception is a line that spoils a block
\* when the sender has been late: it takes the second ACK of a block that came
\* twice for that of the spoilt one, and never sends it again.
InTime == started /\ pc = "open" /\ retries > 2 * MaxNoise + 1
Whole  == {p \in Wanted : p <= FileLen} \subseteq ToSet(mem)
Loads  == InTime ~> ((pc = "done" /\ Whole) \/ cancelled \/ (noise > 0 /\ cross > 0))

\* loady comes to an end, whoever is at the other end of the line.  The copy of
\* -1 bytes after a cancelled chunk, which NoOverrun is about, is an end too: what
\* the board does behind it is not known.
Returns == <>(pc \in {"done", "overrun"})
=============================================================================
