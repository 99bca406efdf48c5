---------------------------- MODULE TsSyncProofs ----------------------------
(***************************************************************************)
(* Proofs about the stream synchronizer: the type invariant and CarryBound *)
(* (the carry-over never reaches its capacity of SyncSize bytes, so the   *)
(* memcpy calls of m1ur_device_stream_handler stay inside remain_buf), for *)
(* every packet size, lock count, byte set and chunking.                   *)
(***************************************************************************)
EXTENDS TsSync, SequenceTheorems, TLAPS

(***************************************************************************)
(* CarryBound is not inductive: the carry-over is overwritten at line 190  *)
(* with what stream_process left of the chunk, and that is short only      *)
(* because the loop left through sync_remain with less than one packet.   *)
(* IInv records that fact about the window.                                *)
(***************************************************************************)
IInv ==
    /\ TypeOK
    /\ CarryBound
    /\ brk => Len(win) < PacketSize

USE Assumption

\* The slots the inner loop may count fit in the window.
LEMMA SlotsFit ==
    ASSUME NEW n \in Nat, NEW i \in 0 .. (n \div PacketSize)
    PROVE  PacketSize * i <= n
<1>1. PacketSize * (n \div PacketSize) <= n
  BY SMT
<1>2. PacketSize * i <= PacketSize * (n \div PacketSize)
  BY SMT
<1>3. QED
  BY <1>1, <1>2, SMT

\* The stretch p .. p + n - 1 of the stream is a buffer of positions.
LEMMA RunType ==
    ASSUME NEW p \in Pos, NEW n \in Nat
    PROVE  /\ Run(p, n) \in Seq(Pos)
           /\ Len(Run(p, n)) = n
<1>1. Run(p, n) \in [1 .. n -> Pos]
  BY DEF Run, Pos
<1>2. QED
  BY <1>1 DEF Run

LEMMA InitIInv == Init => IInv
<1> SUFFICES ASSUME Init PROVE IInv
  OBVIOUS
<1>1. SyncSize > 0
  BY SMT DEF SyncSize
<1>2. <<>> \in Seq(Byte) /\ <<>> \in Seq(Pos) /\ <<>> \in Seq(Seq(Pos))
  BY EmptySeq
<1>3. QED
  BY <1>1, <1>2, Zenon DEF Init, IInv, TypeOK, CarryBound

LEMMA NextIInv == IInv /\ [Next]_vars => IInv'
<1> SUFFICES ASSUME IInv, [Next]_vars PROVE IInv'
  OBVIOUS
<1>1. SyncSize \in Nat \ {0} /\ PacketSize <= SyncSize
  BY SMT DEF SyncSize
<1>2. CASE \E len \in ChunkLens :
             /\ Len(input) + len <= Len(StreamBytes)
             /\ \E data \in [1 .. len -> Byte] :
                   /\ \A j \in 1 .. len : data[j] \in StreamBytes[Len(input) + j]
                   /\ StreamHandler(len, data)
  <2>0. PICK len \in ChunkLens : \E data \in [1 .. len -> Byte] : StreamHandler(len, data)
    BY <1>2
  <2>1. PICK data \in [1 .. len -> Byte] : StreamHandler(len, data)
    BY <2>0
  <2> DEFINE new == Run(Len(input) + 1, len)
             rl  == Len(remainBuf)
  <2>2. /\ len \in Nat \ {0}
        /\ data \in Seq(Byte)
        /\ rl \in Nat /\ rl < SyncSize
        /\ Len(input) \in Nat
    BY DEF IInv, TypeOK, CarryBound, new, rl
  <2>3. new \in Seq(Pos) /\ Len(new) = len
    <3>1. Len(input) + 1 \in Pos
      BY <2>2 DEF Pos
    <3>2. QED
      BY <2>2, <3>1, RunType DEF new
  <2>4. /\ input' = input \o data
        /\ brk' = FALSE
        /\ out' = out
        /\ \/ /\ rl # 0
              /\ rl + len >= SyncSize
              /\ took' = SyncSize - rl
              /\ win' = remainBuf \o SubSeq(new, 1, SyncSize - rl)
              /\ chunk' = new
              /\ hpc' = "Carry"
              /\ UNCHANGED remainBuf
           \/ /\ rl # 0
              /\ ~(rl + len >= SyncSize)
              /\ remainBuf' = remainBuf \o new
              /\ UNCHANGED <<hpc, win, chunk, took>>
           \/ /\ rl = 0
              /\ win' = new
              /\ chunk' = new
              /\ took' = 0
              /\ hpc' = "Main"
              /\ UNCHANGED remainBuf
    BY <2>1, Zenon DEF StreamHandler, new, rl, FillsCarry, TopUp
  <2>5. input' \in Seq(Byte)
    BY <2>2, <2>4, ConcatProperties DEF IInv, TypeOK
  <2>6. CASE rl # 0 /\ rl + len >= SyncSize
    <3>1. SyncSize - rl \in 1 .. len
      BY <2>2, <2>6, <1>1
    <3>2. SubSeq(new, 1, SyncSize - rl) \in Seq(Pos)
      <4>1. \A k \in 1 .. len : new[k] \in Pos
        BY <2>3, ElementOfSeq
      <4>2. QED
        BY <2>3, <3>1, <4>1, SubSeqProperties
    <3>0. ~(rl + len < SyncSize)
      BY <2>2, <2>6, <1>1, SMT
    <3>3. win' = remainBuf \o SubSeq(new, 1, SyncSize - rl)
      BY <2>4, <2>6, <3>0, Zenon
    <3>4. win' \in Seq(Pos)
      BY <3>2, <3>3, ConcatProperties DEF IInv, TypeOK
    <3>5. /\ took' = SyncSize - rl /\ chunk' = new /\ hpc' = "Carry"
          /\ remainBuf' = remainBuf
      BY <2>4, <2>6, <3>0, Zenon
    <3>6. took' \in Nat
      BY <2>2, <3>1, <3>5, <1>1, SMT
    <3>7. chunk' \in Seq(Pos) /\ remainBuf' \in Seq(Pos) /\ CarryBound'
      BY <2>3, <3>5 DEF IInv, TypeOK, CarryBound
    <3>8. QED
      BY <2>4, <2>5, <3>4, <3>5, <3>6, <3>7, Zenon DEF IInv, TypeOK
  <2>7. CASE rl # 0 /\ rl + len < SyncSize
    <3>0. ~(rl + len >= SyncSize)
      BY <2>2, <2>7, <1>1, SMT
    <3>1. remainBuf' = remainBuf \o new
      BY <2>4, <2>7, <3>0, Zenon
    <3>2. remainBuf' \in Seq(Pos) /\ Len(remainBuf') = rl + len
      <4>1. remainBuf \in Seq(Pos)
        BY DEF IInv, TypeOK
      <4>2. QED
        BY <2>3, <3>1, <4>1, ConcatProperties, Zenon DEF rl
    <3>3. CarryBound'
      BY <2>7, <3>2 DEF CarryBound
    <3>4. UNCHANGED <<hpc, win, chunk, took>>
      BY <2>4, <2>7, <3>0, Zenon
    <3>5. QED
      BY <2>4, <2>5, <3>2, <3>3, <3>4, Zenon DEF IInv, TypeOK
  <2>8. CASE rl = 0
    <3>1. /\ win' = new /\ chunk' = new /\ took' = 0 /\ hpc' = "Main"
          /\ remainBuf' = remainBuf
      BY <2>4, <2>8, Zenon
    <3>2. CarryBound' /\ remainBuf' \in Seq(Pos)
      BY <3>1 DEF IInv, TypeOK, CarryBound
    <3>3. QED
      BY <2>3, <2>4, <2>5, <3>1, <3>2, Zenon DEF IInv, TypeOK
  <2>9. \/ rl # 0 /\ rl + len >= SyncSize
        \/ rl # 0 /\ rl + len < SyncSize
        \/ rl = 0
    BY <2>2, <1>1, SMT
  <2>10. QED
    BY <2>6, <2>7, <2>8, <2>9
<1>3. CASE Resync
  <2>1. win # <<>> /\ win \in Seq(Pos)
    BY <1>3 DEF Resync, Processing, IInv, TypeOK
  <2>2. Tail(win) \in Seq(Pos)
    BY <2>1, HeadTailProperties
  <2>3. QED
    BY <1>3, <2>2 DEF Resync, Processing, IInv, TypeOK, CarryBound
<1>4. CASE EmitRun
  <2>1. PICK i \in 0 .. Slots(win) :
          /\ out' = Append(out, SubSeq(win, 1, PacketSize * i))
          /\ win' = SubSeq(win, PacketSize * i + 1, Len(win))
          /\ brk' = ((i + 1) * PacketSize > Len(win))
    BY <1>4 DEF EmitRun
  <2>2. win \in Seq(Pos) /\ Len(win) \in Nat
    BY DEF IInv, TypeOK
  <2>3. PacketSize * i <= Len(win) /\ PacketSize * i \in Nat
    BY <2>2, SlotsFit DEF Slots
  <2>11. i \in Nat
    <3>1. Slots(win) \in Nat
      BY <2>2, SMT DEF Slots
    <3>2. QED
      BY <3>1, SMT
  <2>4. \A k \in 1 .. Len(win) : win[k] \in Pos
    BY <2>2, ElementOfSeq
  <2>5. SubSeq(win, 1, PacketSize * i) \in Seq(Pos)
    BY <2>3, <2>4, SubSeqProperties
  <2>6. /\ win' \in Seq(Pos)
        /\ Len(win') = Len(win) - PacketSize * i
    <3>1. \A k \in PacketSize * i + 1 .. Len(win) : win[k] \in Pos
      BY <2>3, <2>4
    <3>2. /\ SubSeq(win, PacketSize * i + 1, Len(win)) \in Seq(Pos)
          /\ Len(SubSeq(win, PacketSize * i + 1, Len(win)))
               = IF PacketSize * i + 1 <= Len(win)
                   THEN Len(win) - (PacketSize * i + 1) + 1 ELSE 0
      BY <2>2, <2>3, <3>1, SubSeqProperties
    <3> DEFINE ws == SubSeq(win, PacketSize * i + 1, Len(win))
               L  == Len(win)
               m  == PacketSize * i
    <3>3. Len(ws) = L - m
      <4>1. L \in Nat /\ m \in Nat /\ m <= L
        BY <2>2, <2>3 DEF L, m
      <4>2. Len(ws) = IF m + 1 <= L THEN L - (m + 1) + 1 ELSE 0
        BY <3>2 DEF ws, L, m
      <4>3. CASE m + 1 <= L
        <5>1. Len(ws) = L - (m + 1) + 1
          BY <4>2, <4>3, Zenon
        <5>2. L - (m + 1) + 1 = L - m
          BY <4>1, SMT
        <5>3. QED
          BY <5>1, <5>2, Zenon
      <4>4. CASE ~(m + 1 <= L)
        <5>1. Len(ws) = 0
          BY <4>2, <4>4, Zenon
        <5>2. L - m = 0
          BY <2>11, <4>1, <4>4, SMT
        <5>3. QED
          BY <5>1, <5>2, Zenon
      <4>5. QED
        BY <4>3, <4>4, Zenon
    <3>4. QED
      BY <2>1, <3>2, <3>3, Zenon DEF ws, L, m
  <2>7. out' \in Seq(Seq(Pos))
    BY <2>1, <2>5, AppendProperties DEF IInv, TypeOK
  <2>8. brk' => Len(win') < PacketSize
    <3>1. i \in Nat
      BY <2>11
    <3>2. (i + 1) * PacketSize = PacketSize * i + PacketSize
      BY <3>1, SMT
    <3>3. brk' = (PacketSize * i + PacketSize > Len(win))
      BY <2>1, <3>2, Zenon
    <3>4. SUFFICES ASSUME brk' PROVE Len(win') < PacketSize
      OBVIOUS
    <3>5. PacketSize * i + PacketSize > Len(win)
      BY <3>3, <3>4, Zenon
    <3>6. QED
      BY <2>2, <2>6, <2>3, <3>5, SMT
  <2>9. /\ brk' \in BOOLEAN
        /\ UNCHANGED <<input, remainBuf, hpc, chunk, took>>
    BY <1>4, <2>1 DEF EmitRun
  <2>10. QED
    BY <2>6, <2>7, <2>8, <2>9, Zenon DEF IInv, TypeOK, CarryBound
<1>5. CASE CarryDone
  <2>1. chunk \in Seq(Pos) /\ took \in Nat
    BY DEF IInv, TypeOK
  <2>2. SubSeq(chunk, took + 1, Len(chunk)) \in Seq(Pos)
    <3>1. \A k \in took + 1 .. Len(chunk) : chunk[k] \in Pos
      BY <2>1, ElementOfSeq
    <3>2. QED
      BY <2>1, <3>1, SubSeqProperties
  <2>3. win' \in Seq(Pos)
    BY <1>5, <2>1, <2>2 DEF CarryDone, IInv, TypeOK
  <2>4. /\ remainBuf' = <<>> /\ hpc' = "Main" /\ brk' = FALSE
        /\ UNCHANGED <<input, chunk, took, out>>
    BY <1>5 DEF CarryDone
  <2>5. <<>> \in Seq(Pos) /\ Len(<<>>) = 0
    BY EmptySeq
  <2>6. Len(remainBuf') < SyncSize
    BY <1>1, <2>4, <2>5, SMT
  <2>7. QED
    BY <2>3, <2>4, <2>5, <2>6, Zenon DEF IInv, TypeOK, CarryBound
<1>6. CASE MainDone
  <2>1. win # <<>> => Len(win) < SyncSize
    BY <1>6, <1>1 DEF MainDone, LoopDone, IInv, TypeOK
  <2>2. QED
    BY <1>6, <2>1 DEF MainDone, IInv, TypeOK, CarryBound
<1>7. CASE UNCHANGED vars
  BY <1>7 DEF vars, IInv, TypeOK, CarryBound
<1>8. QED
  BY <1>2, <1>3, <1>4, <1>5, <1>6, <1>7 DEF Next, HandlerStep

\* The type invariant holds in every reachable state.
THEOREM TypeCorrect == Spec => []TypeOK
<1>1. IInv => TypeOK
  BY DEF IInv
<1>2. QED
  BY InitIInv, NextIInv, <1>1, PTL DEF Spec

\* The carry-over of m1ur_device_stream_handler never holds SyncSize bytes
\* or more, whatever the chunking: remain_buf is never overrun.
THEOREM CarryBounded == Spec => []CarryBound
<1>1. IInv => CarryBound
  BY DEF IInv
<1>2. QED
  BY InitIInv, NextIInv, <1>1, PTL DEF Spec

=============================================================================
