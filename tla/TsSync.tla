------------------------------- MODULE TsSync -------------------------------
(***************************************************************************)
(* The stream synchronizer of the PX-M1UR driver (m1ur_device.c):          *)
(* m1ur_device_stream_handler, called by the bridge's streaming layer with *)
(* each chunk of raw bytes, and m1ur_device_stream_process, the loop that  *)
(* finds runs of at least SyncCount packets whose first bytes are the      *)
(* marker 0x47, hands them to the character device and drops the bytes    *)
(* that are not part of such a run.                                        *)
(*                                                                         *)
(* Bytes are tracked by their position in the stream: `input` is the       *)
(* stream delivered so far and every buffer holds positions, so that a     *)
(* property can say which bytes of the stream were delivered, dropped or  *)
(* kept.  One invocation of the handler is a sequence of steps: its entry  *)
(* (the carry-over test and memcpy), one step per iteration of the outer   *)
(* loop of stream_process, and the code after each stream_process call.    *)
(***************************************************************************)
EXTENDS Naturals, Sequences

CONSTANTS
    PacketSize,  \* 188: the length of a transport packet
    SyncCount,   \* M1UR_DEVICE_TS_SYNC_COUNT = 4: packets needed for a lock
    SyncByte,    \* 0x47: the first byte of every packet
    Byte,        \* the byte values a chunk may hold
    StreamBytes, \* for each position of the stream, the bytes it may hold
    ChunkLens    \* the lengths of the chunks the bridge may cut it into

ASSUME Assumption ==
    /\ PacketSize \in Nat \ {0}
    /\ SyncCount \in Nat \ {0}
    /\ SyncByte \in Byte
    /\ StreamBytes \in Seq(SUBSET Byte)
    /\ ChunkLens \subseteq Nat \ {0}

\* M1UR_DEVICE_TS_SYNC_SIZE: the capacity of the carry-over buffer.
SyncSize == PacketSize * SyncCount

VARIABLES
    input,     \* the bytes delivered by the bridge so far, in order
    remainBuf, \* stream_ctx->remain_buf[0 .. remain_len - 1] (positions)
    hpc,       \* where the running handler invocation is
    win,       \* the window of the running stream_process call (*buf, *len)
    brk,       \* the loop of stream_process left through sync_remain
    chunk,     \* the chunk of the running invocation (buf, len)
    took,      \* t: the bytes of the chunk appended to the carry-over
    out        \* the blocks passed to ptx_chrdev_put_stream, in order

vars == <<input, remainBuf, hpc, win, brk, chunk, took, out>>

Pos == Nat \ {0}

\* The byte at a position of the stream.
ByteAt(q) == input[q]

\* The number of whole packet slots in window w, and whether slot n of w
\* (numbered from 0) starts with the marker: p[n * 188] == 0x47.
Slots(w) == Len(w) \div PacketSize
SyncAt(w, n) == ByteAt(w[n * PacketSize + 1]) = SyncByte

\* Mutant: the inner loop counts every slot that fits, without testing the
\* marker (the p[i * 188] != 0x47 test of line 125 lost).
LoopExitNoMarker(w, i) == i = Slots(w)

\* The count i with which the inner loop of stream_process (lines 123-132)
\* leaves: the slots 0 .. i-1 fit and start with the marker, and slot i
\* either does not fit in the window or does not start with the marker.
LoopExit(w, i) ==
    /\ \A n \in 0 .. i - 1 : SyncAt(w, n)
    /\ i < Slots(w) => ~SyncAt(w, i)

\* The positions p .. p + n - 1 of the stream, as a buffer.
Run(p, n) == [j \in 1 .. n |-> p + j - 1]

TypeOK ==
    /\ input \in Seq(Byte)
    /\ remainBuf \in Seq(Pos)
    /\ hpc \in {"Idle", "Carry", "Main"}
    /\ win \in Seq(Pos)
    /\ brk \in BOOLEAN
    /\ chunk \in Seq(Pos)
    /\ took \in Nat
    /\ out \in Seq(Seq(Pos))

Init ==
    /\ input = <<>>
    /\ remainBuf = <<>>       \* kzalloc'd stream context
    /\ hpc = "Idle"
    /\ win = <<>>
    /\ brk = FALSE
    /\ chunk = <<>>
    /\ took = 0
    /\ out = <<>>

\* Mutant: the top-up test of line 164 written with > instead of >=, so a
\* chunk that fills the carry-over exactly is appended to it.
FillsCarryGt(rl, len) == rl + len > SyncSize

\* Line 164: a chunk of len bytes tops a carry-over of rl bytes up to a
\* full lock window.
FillsCarry(rl, len) == rl + len >= SyncSize

\* Mutant: the operands of the subtraction of line 165 swapped.
TopUpSwapped(rl) == rl - SyncSize

\* Line 165: t, the bytes of the chunk needed to top up the carry-over.
TopUp(rl) == SyncSize - rl

(***************************************************************************)
(* m1ur_device_stream_handler, lines 155-187: a chunk of len bytes         *)
(* arrives.  With a carry-over of remain_len bytes that the chunk tops up  *)
(* to SyncSize, the first t bytes of the chunk are appended to it and the  *)
(* carry-over is processed first; with a carry-over it cannot top up, the  *)
(* whole chunk is appended to it and the handler returns; with no          *)
(* carry-over the chunk itself is processed.                               *)
(***************************************************************************)
StreamHandler(len, data) ==
    LET new == Run(Len(input) + 1, len)
        rl  == Len(remainBuf)
    IN
    /\ hpc = "Idle"
    /\ input' = input \o data
    /\ \/ /\ rl # 0
          /\ FillsCarry(rl, len)
          /\ took' = TopUp(rl)
          /\ win' = remainBuf \o SubSeq(new, 1, TopUp(rl))
          /\ chunk' = new
          /\ hpc' = "Carry"
          /\ UNCHANGED remainBuf
       \/ /\ rl # 0
          /\ ~FillsCarry(rl, len)
          /\ remainBuf' = remainBuf \o new
          /\ UNCHANGED <<hpc, win, chunk, took>>
       \/ /\ rl = 0
          /\ win' = new
          /\ chunk' = new
          /\ took' = 0
          /\ hpc' = "Main"
          /\ UNCHANGED remainBuf
    /\ brk' = FALSE
    /\ UNCHANGED out

(***************************************************************************)
(* One iteration of the outer loop of m1ur_device_stream_process, lines    *)
(* 119-147.  Resync: fewer than SyncCount marked slots, drop one byte.     *)
(* EmitRun: pass the i marked slots to the character device and skip      *)
(* them; if the loop stopped because slot i did not fit, leave the loop.  *)
(***************************************************************************)
Processing ==
    /\ hpc \in {"Carry", "Main"}
    /\ win # <<>>
    /\ ~brk

\* Mutant: the resync branch (lines 134-138) continues without p++ and
\* remain--.
ResyncStuck ==
    /\ Processing
    /\ \E i \in 0 .. Slots(win) :
          /\ LoopExit(win, i)
          /\ i < SyncCount
    /\ UNCHANGED vars

Resync ==
    /\ Processing
    /\ \E i \in 0 .. Slots(win) :
          /\ LoopExit(win, i)
          /\ i < SyncCount
    /\ win' = Tail(win)
    /\ UNCHANGED <<input, remainBuf, hpc, brk, chunk, took, out>>

EmitRun ==
    /\ Processing
    /\ \E i \in 0 .. Slots(win) :
          /\ LoopExit(win, i)
          /\ i >= SyncCount
          /\ out' = Append(out, SubSeq(win, 1, PacketSize * i))
          /\ win' = SubSeq(win, PacketSize * i + 1, Len(win))
          /\ brk' = ((i + 1) * PacketSize > Len(win))
    /\ UNCHANGED <<input, remainBuf, hpc, chunk, took>>

\* stream_process has returned.
LoopDone == (win = <<>> \/ brk) /\ hpc \in {"Carry", "Main"}

\* Mutant: the skip of line 174 lost, so the t bytes already processed in
\* the carry-over are processed again with the chunk.
CarryDoneNoSkip ==
    /\ hpc = "Carry"
    /\ LoopDone
    /\ win' = chunk
    /\ remainBuf' = <<>>
    /\ hpc' = "Main"
    /\ brk' = FALSE
    /\ UNCHANGED <<input, chunk, took, out>>

\* Mutant: the reset stream_ctx->remain_len = 0 of line 178 lost.
CarryDoneNoReset ==
    /\ hpc = "Carry"
    /\ LoopDone
    /\ win' = IF win = <<>> THEN SubSeq(chunk, took + 1, Len(chunk))
                            ELSE chunk
    /\ hpc' = "Main"
    /\ brk' = FALSE
    /\ UNCHANGED <<input, remainBuf, chunk, took, out>>

(***************************************************************************)
(* Lines 173-178: after the carry-over was processed the t bytes it took   *)
(* are skipped in the chunk if nothing of it is left, the carry-over is    *)
(* emptied, and the (rest of the) chunk is processed (line 187).           *)
(***************************************************************************)
CarryDone ==
    /\ hpc = "Carry"
    /\ LoopDone
    /\ win' = IF win = <<>> THEN SubSeq(chunk, took + 1, Len(chunk))
                            ELSE chunk
    /\ remainBuf' = <<>>
    /\ hpc' = "Main"
    /\ brk' = FALSE
    /\ UNCHANGED <<input, chunk, took, out>>

(***************************************************************************)
(* Lines 189-194: the bytes stream_process left of the chunk are copied    *)
(* to the carry-over and the handler returns.                              *)
(***************************************************************************)
MainDone ==
    /\ hpc = "Main"
    /\ LoopDone
    /\ remainBuf' = IF win # <<>> THEN win ELSE remainBuf
    /\ hpc' = "Idle"
    /\ UNCHANGED <<input, win, brk, chunk, took, out>>

HandlerStep == Resync \/ EmitRun \/ CarryDone \/ MainDone

Next ==
    \/ \E len \in ChunkLens :
          /\ Len(input) + len <= Len(StreamBytes)
          /\ \E data \in [1 .. len -> Byte] :
                /\ \A j \in 1 .. len : data[j] \in StreamBytes[Len(input) + j]
                /\ StreamHandler(len, data)
    \/ HandlerStep

Spec == Init /\ [][Next]_vars

(***************************************************************************)
(* An invocation of the handler runs on one CPU to its end: it neither     *)
(* blocks nor waits for anything (ptx_chrdev_put_stream only copies into   *)
(* a ring buffer), so its steps are weakly fair.                           *)
(***************************************************************************)
FairSpec == Spec /\ WF_vars(HandlerStep)

-----------------------------------------------------------------------------
(***************************************************************************)
(* Properties.                                                             *)
(***************************************************************************)

\* Memory safety of the memcpy calls at lines 167, 180 and 190: the
\* carry-over never holds SyncSize bytes or more (the spec's invariant of
\* the Stream Context), so it never overruns remain_buf.
CarryBound == Len(remainBuf) < SyncSize

\* The packet sink's contract: every block handed to ptx_chrdev_put_stream
\* is a run of at least SyncCount whole packets, each starting with the
\* marker byte.
PacketAligned ==
    \A k \in 1 .. Len(out) :
        /\ Len(out[k]) % PacketSize = 0
        /\ Slots(out[k]) >= SyncCount
        /\ \A n \in 0 .. Slots(out[k]) - 1 : SyncAt(out[k], n)

\* The character device receives the stream's own bytes: every block is a
\* contiguous stretch of the stream (no carry-over spliced onto unrelated
\* bytes), and the blocks follow one another in stream order without
\* overlap (no byte delivered twice, none delivered out of order).
InStreamOrder ==
    /\ \A k \in 1 .. Len(out) :
          out[k] # <<>> /\ out[k] = Run(out[k][1], Len(out[k]))
    /\ \A k \in 1 .. Len(out) - 1 :
          out[k][Len(out[k])] < out[k + 1][1]

\* Between invocations the carry-over holds exactly the newest bytes of the
\* stream, none of which has been delivered yet: the next chunk continues
\* it, and what was delivered is never delivered again.
CarryIsStreamTail ==
    hpc = "Idle" =>
        /\ remainBuf = Run(Len(input) - Len(remainBuf) + 1, Len(remainBuf))
        /\ \A k \in 1 .. Len(out), j \in 1 .. Len(remainBuf) :
              out[k][Len(out[k])] < remainBuf[j]

\* Every invocation of the handler returns: the loops of stream_process
\* always consume the window or leave it.
HandlerReturns == (hpc # "Idle") ~> (hpc = "Idle")

=============================================================================
