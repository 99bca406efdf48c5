------------------------- MODULE TsSyncOrderProofs -------------------------
(***************************************************************************)
(* Proofs that m1ur_device_stream_handler passes the character device the *)
(* stream's own bytes: every block is a run of at least SyncCount marked  *)
(* packets (PacketAligned), the blocks are contiguous stretches of the    *)
(* stream in stream order (InStreamOrder), and between invocations the    *)
(* carry-over is the undelivered tail of the stream (CarryIsStreamTail).  *)
(*                                                                         *)
(* None of the three is inductive.  StreamInv says where every buffer of  *)
(* the handler sits in the stream in each of its phases, as a Run of       *)
(* positions with a known end, and that everything delivered lies before  *)
(* the window (OutEnd, the last position delivered).  The fact that makes *)
(* it hold is in the Carry phase: a run found in the carry-over window of  *)
(* SyncSize bytes is the whole window, so the window is empty when         *)
(* stream_process returns, and the chunk resumes right after the t bytes  *)
(* it gave to the carry-over.                                              *)
(***************************************************************************)
EXTENDS TsSyncProofs

\* The last element of a sequence.
LastPos(s) == s[Len(s)]

\* The last stream position handed to the character device (0: none yet).
OutEnd == IF out = <<>> THEN 0 ELSE LastPos(out[Len(out)])

\* Where the carry-over window of the running invocation ends: after the
\* t bytes of the chunk that topped it up.
CarryEnd == Len(input) - Len(chunk) + took

-----------------------------------------------------------------------------
(***************************************************************************)
(* Lemmas about Run.                                                       *)
(***************************************************************************)

LEMMA RunEmpty ==
    ASSUME NEW p \in Int
    PROVE  Run(p, 0) = <<>>
BY DEF Run

\* A nonempty run: its first and last positions and its elements.
LEMMA RunEnds ==
    ASSUME NEW p \in Int, NEW n \in Nat \ {0}
    PROVE  /\ Run(p, n) # <<>>
           /\ Run(p, n)[1] = p
           /\ LastPos(Run(p, n)) = p + n - 1
           /\ Len(Run(p, n)) = n
           /\ \A j \in 1 .. n : Run(p, n)[j] = p + j - 1
BY SMT DEF Run, LastPos

\* A stretch of a run is a run.
LEMMA RunSubSeq ==
    ASSUME NEW p \in Int, NEW n \in Nat, NEW a \in 1 .. n + 1,
           NEW b \in a - 1 .. n
    PROVE  SubSeq(Run(p, n), a, b) = Run(p + a - 1, b - a + 1)
BY SMT DEF Run

\* A run less its first position.
LEMMA RunTail ==
    ASSUME NEW p \in Int, NEW n \in Nat \ {0}
    PROVE  Tail(Run(p, n)) = Run(p + 1, n - 1)
BY SMT DEF Run

\* Two adjacent runs make one.
LEMMA RunConcat ==
    ASSUME NEW p \in Int, NEW n \in Nat, NEW m \in Nat
    PROVE  Run(p, n) \o Run(p + n, m) = Run(p, n + m)
BY SMT DEF Run

-----------------------------------------------------------------------------
(***************************************************************************)
(* The inductive invariant.                                                *)
(***************************************************************************)

\* Every block is a nonempty run of positions ending at or before OutEnd.
OutRuns ==
    \A k \in 1 .. Len(out) :
        /\ out[k] # <<>>
        /\ out[k] = Run(out[k][1], Len(out[k]))
        /\ LastPos(out[k]) <= OutEnd

\* Consecutive blocks follow one another in the stream.
OutOrdered == \A k \in 1 .. Len(out) - 1 : LastPos(out[k]) < out[k + 1][1]

\* Between invocations the carry-over is the tail of the stream, after
\* everything delivered.
IdleTail ==
    hpc = "Idle" =>
        /\ remainBuf = Run(Len(input) - Len(remainBuf) + 1, Len(remainBuf))
        /\ OutEnd <= Len(input) - Len(remainBuf)

\* While the chunk is processed, the carry-over is empty and the window is
\* the tail of the stream, after everything delivered.
MainWin ==
    hpc = "Main" =>
        /\ remainBuf = <<>>
        /\ win = Run(Len(input) - Len(win) + 1, Len(win))
        /\ OutEnd <= Len(input) - Len(win)

\* While the carry-over is processed, the chunk is the tail of the stream,
\* the window ends at CarryEnd after everything delivered, and the window
\* is empty once the loop has left through sync_remain.
CarryWin ==
    hpc = "Carry" =>
        /\ chunk = Run(Len(input) - Len(chunk) + 1, Len(chunk))
        /\ took <= Len(chunk)
        /\ win = Run(CarryEnd - Len(win) + 1, Len(win))
        /\ OutEnd <= CarryEnd - Len(win)
        /\ Len(win) <= SyncSize
        /\ brk => win = <<>>

StreamInv ==
    /\ OutRuns /\ OutOrdered /\ PacketAligned
    /\ IdleTail /\ MainWin /\ CarryWin

\* The handler starts with nothing delivered and an empty carry-over.
LEMMA InitStreamInv == Init => StreamInv
<1> SUFFICES ASSUME Init PROVE StreamInv
  OBVIOUS
<1>1. out = <<>> /\ remainBuf = <<>> /\ input = <<>> /\ hpc = "Idle"
  BY DEF Init
<1>2. Run(1, 0) = <<>> /\ OutEnd = 0
  BY <1>1, RunEmpty DEF OutEnd
<1>3. QED
  BY <1>1, <1>2, SMT DEF StreamInv, OutRuns, OutOrdered, PacketAligned,
                          IdleTail, MainWin, CarryWin

\* The types of the buffers, without the Boolean brk, which the SMT
\* backend is given only where it is needed.
Types ==
    /\ input \in Seq(Byte)
    /\ remainBuf \in Seq(Pos)
    /\ win \in Seq(Pos)
    /\ chunk \in Seq(Pos)
    /\ took \in Nat
    /\ out \in Seq(Seq(Pos))

USE Assumption

\* The lock window holds at least one packet.
LEMMA SyncSizeFacts == SyncSize \in Nat \ {0} /\ PacketSize <= SyncSize
BY SMT DEF SyncSize

\* The first byte of slot n of a window lies in the window.
LEMMA SlotIndex ==
    ASSUME NEW w \in Seq(Pos), NEW n \in 0 .. Slots(w) - 1
    PROVE  n * PacketSize + 1 \in 1 .. Len(w)
<1>1. n + 1 \in 0 .. (Len(w) \div PacketSize)
  BY SMT DEF Slots
<1>0. Len(w) \in Nat
  BY LenProperties
<1>2. PacketSize * (n + 1) <= Len(w)
  BY <1>0, <1>1, SlotsFit, Zenon
<1>3. QED
  BY <1>2, SMT

\* A block is a run: its elements and its end.
LEMMA BlockFacts ==
    ASSUME NEW b \in Seq(Pos), b # <<>>, b = Run(b[1], Len(b))
    PROVE  /\ Len(b) \in Nat \ {0}
           /\ b[1] \in Pos
           /\ LastPos(b) = b[1] + Len(b) - 1
           /\ \A j \in 1 .. Len(b) : b[j] = b[1] + j - 1 /\ b[j] \in b[1] .. LastPos(b)
<1>1. Len(b) \in Nat \ {0}
  BY EmptySeq, LenProperties
<1>2. b[1] \in Pos /\ b[1] \in Int
  BY <1>1, ElementOfSeq DEF Pos
<1>3. LastPos(Run(b[1], Len(b))) = b[1] + Len(b) - 1
      /\ \A j \in 1 .. Len(b) : Run(b[1], Len(b))[j] = b[1] + j - 1
  BY <1>1, <1>2, RunEnds, Zenon
<1>4. QED
  BY <1>1, <1>2, <1>3, SMT DEF Pos

\* A run of positions that is not empty starts at a position.
LEMMA RunStart ==
    ASSUME NEW s \in Seq(Pos), NEW p \in Int, s = Run(p, Len(s))
    PROVE  Len(s) # 0 => p \in Pos
<1>1. Len(s) \in Nat
  BY LenProperties
<1>3. CASE Len(s) # 0
  <2>1. 1 \in 1 .. Len(s) /\ Len(s) \in 1 .. Len(s)
    BY <1>1, <1>3, SMT
  <2>2. s[1] \in Pos /\ s[Len(s)] \in Pos
    BY <2>1, ElementOfSeq
  <2>3. s[1] = p /\ s[Len(s)] = p + Len(s) - 1
    BY <1>1, <2>1, SMT DEF Run
  <2>4. QED
    BY <2>2, <2>3, SMT DEF Pos
<1>4. QED
  BY <1>3

\* Every block ends at a position of the stream, and so does OutEnd.
LEMMA OutEndNat ==
    ASSUME Types, OutRuns
    PROVE  /\ \A k \in 1 .. Len(out) : LastPos(out[k]) \in Pos
           /\ OutEnd \in Nat
<1>1. \A k \in 1 .. Len(out) : LastPos(out[k]) \in Pos
  <2>1. TAKE k \in 1 .. Len(out)
  <2>2. out[k] \in Seq(Pos) /\ out[k] # <<>>
    BY ElementOfSeq DEF Types, OutRuns
  <2>3. Len(out[k]) \in 1 .. Len(out[k])
    BY <2>2, EmptySeq, SMT
  <2>4. QED
    BY <2>2, <2>3, ElementOfSeq DEF LastPos
<1>2. CASE out = <<>>
  BY <1>2 DEF OutEnd
<1>3. CASE out # <<>>
  <2>1. Len(out) \in 1 .. Len(out)
    BY <1>3, EmptySeq, SMT DEF Types
  <2>2. QED
    BY <1>1, <1>3, <2>1, SMT DEF OutEnd, Pos
<1>4. QED
  BY <1>1, <1>2, <1>3

\* Appending bytes to the stream keeps the bytes of every block delivered
\* before the end of the old stream, and so keeps PacketAligned.
LEMMA ExtendAligned ==
    ASSUME Types, out' = out, NEW data \in Seq(Byte), input' = input \o data,
           OutRuns, OutEnd <= Len(input), PacketAligned
    PROVE  PacketAligned'
<1>0. OutEnd \in Nat /\ \A k \in 1 .. Len(out) : LastPos(out[k]) \in Pos
  BY OutEndNat
<1>1. \A k \in 1 .. Len(out) : \A j \in 1 .. Len(out[k]) : out[k][j] \in 1 .. Len(input)
  <2>1. TAKE k \in 1 .. Len(out)
  <2>2. TAKE j \in 1 .. Len(out[k])
  <2>3. out[k] \in Seq(Pos) /\ out[k] # <<>> /\ out[k] = Run(out[k][1], Len(out[k]))
        /\ LastPos(out[k]) <= OutEnd
    BY ElementOfSeq DEF Types, OutRuns
  <2>4. out[k][j] \in out[k][1] .. LastPos(out[k]) /\ out[k][1] \in Pos
    BY <2>3, BlockFacts
  <2>5. out[k][j] \in Pos /\ out[k][j] <= OutEnd
    BY <1>0, <2>3, <2>4, SMT DEF Pos
  <2>6. QED
    BY <1>0, <2>5, SMT DEF Pos
<1>2. \A q \in 1 .. Len(input) : input'[q] = input[q]
  <2>1. input \in Seq(Byte)
    BY DEF Types
  <2>2. \A i \in 1 .. Len(input) + Len(data) :
           (input \o data)[i] = IF i <= Len(input) THEN input[i] ELSE data[i - Len(input)]
    BY <2>1, ConcatProperties
  <2>3. Len(input) \in Nat
    BY <2>1, LenProperties
  <2>4. QED
    BY <2>2, <2>3, SMT
<1>3. SUFFICES ASSUME NEW k \in 1 .. Len(out)
               PROVE  (/\ Len(out[k]) % PacketSize = 0
                       /\ Slots(out[k]) >= SyncCount
                       /\ \A n \in 0 .. Slots(out[k]) - 1 : SyncAt(out[k], n))'
  BY Zenon DEF PacketAligned
<1>4. /\ Len(out[k]) % PacketSize = 0
      /\ Slots(out[k]) >= SyncCount
      /\ \A n \in 0 .. Slots(out[k]) - 1 : SyncAt(out[k], n)
  BY Zenon DEF PacketAligned
<1>5. ASSUME NEW n \in 0 .. Slots(out[k]) - 1
      PROVE  input'[out[k][n * PacketSize + 1]] = input[out[k][n * PacketSize + 1]]
  <2>1. out[k] \in Seq(Pos)
    BY ElementOfSeq DEF Types
  <2>2. n * PacketSize + 1 \in 1 .. Len(out[k])
    BY <2>1, SlotIndex
  <2>3. QED
    BY <1>1, <1>2, <2>2, Zenon
<1>6. QED
  BY <1>4, <1>5, Zenon DEF SyncAt, ByteAt

\* A chunk arrives (lines 155-187): it continues the stream right after
\* the carry-over, whichever of the three branches the handler takes.
LEMMA HandlerStream ==
    ASSUME IInv, StreamInv, NEW len \in ChunkLens,
           NEW data \in [1 .. len -> Byte], StreamHandler(len, data)
    PROVE  StreamInv'
<1> DEFINE L   == Len(input)
           new == Run(L + 1, len)
           rl  == Len(remainBuf)
<1> USE DEF L, new, rl
<1>1. Types /\ rl < SyncSize
  BY DEF IInv, TypeOK, Types, CarryBound
<1>2. len \in Nat \ {0} /\ data \in Seq(Byte) /\ Len(data) = len
  BY SMT
<1>0. brk' = FALSE
  BY DEF StreamHandler
<1>3. /\ hpc = "Idle" /\ input' = input \o data /\ out' = out
      /\ \/ /\ rl # 0 /\ rl + len >= SyncSize
            /\ took' = SyncSize - rl
            /\ win' = remainBuf \o SubSeq(new, 1, SyncSize - rl)
            /\ chunk' = new /\ hpc' = "Carry" /\ remainBuf' = remainBuf
         \/ /\ rl # 0 /\ ~(rl + len >= SyncSize)
            /\ remainBuf' = remainBuf \o new /\ hpc' = hpc
         \/ /\ rl = 0 /\ win' = new /\ hpc' = "Main" /\ remainBuf' = remainBuf
  BY Zenon DEF StreamHandler, FillsCarry, TopUp
<1>4. L \in Nat /\ rl \in Nat /\ Len(input') = L + len
  <2>1. input \in Seq(Byte) /\ remainBuf \in Seq(Pos)
    BY <1>1 DEF Types
  <2>2. Len(input \o data) = Len(input) + Len(data)
    BY <1>2, <2>1, ConcatProperties, Zenon
  <2>3. QED
    BY <1>2, <1>3, <2>1, <2>2, LenProperties
<1>5. remainBuf = Run(L - rl + 1, rl) /\ OutEnd <= L - rl /\ OutEnd \in Nat
  <2>1. OutEnd \in Nat
    BY <1>1, OutEndNat DEF StreamInv
  <2>2. QED
    BY <1>3, <2>1 DEF StreamInv, IdleTail
<1>5a. L - rl + 1 \in Pos
  <2>1. L - rl + 1 \in Int
    BY <1>4, SMT
  <2>2. rl # 0 => L - rl + 1 \in Pos
    BY <1>1, <1>5, <2>1, RunStart DEF Types
  <2>3. QED
    BY <1>4, <2>2, SMT DEF Pos
<1>6. OutRuns' /\ OutOrdered' /\ OutEnd' = OutEnd
  BY <1>3 DEF StreamInv, OutRuns, OutOrdered, OutEnd
<1>7. PacketAligned'
  <2>1. OutEnd <= L
    BY <1>4, <1>5, SMT
  <2>2. QED
    BY <1>1, <1>2, <1>3, <2>1, ExtendAligned, Zenon DEF StreamInv
<1>8. new = Run(Len(input') - len + 1, len) /\ Len(new) = len /\ new \in Seq(Pos)
  <2>1. L + 1 \in Pos
    BY <1>4 DEF Pos
  <2>2. QED
    BY <1>2, <1>4, <2>1, RunType, SMT
<1>9. CASE rl # 0 /\ rl + len >= SyncSize
  <2>1. /\ took' = SyncSize - rl /\ chunk' = new /\ hpc' = "Carry"
        /\ win' = remainBuf \o SubSeq(new, 1, SyncSize - rl)
    BY <1>3, <1>9, Zenon
  <2>2. SyncSize - rl \in 1 .. len
    BY <1>1, <1>2, <1>4, <1>9, SyncSizeFacts, SMT
  <2>3. SubSeq(new, 1, SyncSize - rl) = Run(L + 1, SyncSize - rl)
    <3>0. L + 1 \in Int /\ len \in Nat /\ 1 \in 1 .. len + 1
          /\ SyncSize - rl \in 1 - 1 .. len
      BY <1>2, <1>4, <2>2, SyncSizeFacts, SMT
    <3>1. SubSeq(Run(L + 1, len), 1, SyncSize - rl)
          = Run(L + 1 + 1 - 1, SyncSize - rl - 1 + 1)
      BY <3>0, RunSubSeq, Zenon
    <3>2. L + 1 + 1 - 1 = L + 1 /\ SyncSize - rl - 1 + 1 = SyncSize - rl
      BY <1>4, SyncSizeFacts, SMT
    <3>3. QED
      BY <3>1, <3>2
  <2>4. win' = Run(L - rl + 1, SyncSize)
    <3>0. L - rl + 1 + rl = L + 1 /\ rl + (SyncSize - rl) = SyncSize
          /\ L - rl + 1 \in Int /\ SyncSize - rl \in Nat
      BY <1>4, <2>2, SyncSizeFacts, SMT
    <3>1. win' = Run(L - rl + 1, rl) \o Run(L - rl + 1 + rl, SyncSize - rl)
      BY <3>0, <1>5, <2>1, <2>3, Zenon
    <3>2. Run(L - rl + 1, rl) \o Run(L - rl + 1 + rl, SyncSize - rl)
          = Run(L - rl + 1, rl + (SyncSize - rl))
      BY <3>0, <1>4, RunConcat, Zenon
    <3>3. QED
      BY <3>0, <3>1, <3>2, Zenon
  <2>5. Len(win') = SyncSize /\ L - rl + 1 \in Pos
    <3>1. L - rl + 1 \in Pos
      BY <1>5a
    <3>2. Len(Run(L - rl + 1, SyncSize)) = SyncSize
      BY <3>1, SyncSizeFacts, RunType
    <3>3. QED
      BY <2>4, <3>1, <3>2
  <2>6. /\ chunk' = Run(Len(input') - Len(chunk') + 1, Len(chunk'))
        /\ took' <= Len(chunk')
        /\ win' = Run(CarryEnd' - Len(win') + 1, Len(win'))
        /\ OutEnd' <= CarryEnd' - Len(win')
        /\ Len(win') <= SyncSize
    <3>1. Len(chunk') = len /\ chunk' = Run(Len(input') - len + 1, len)
      BY <1>8, <2>1
    <3>2. CarryEnd' = L + SyncSize - rl
      <4>1. took' = SyncSize - rl /\ Len(chunk') = len
        BY <2>1, <3>1
      <4>2. len \in Nat /\ L \in Nat /\ rl \in Nat /\ Len(input') = L + len
        BY <1>2, <1>4
      <4>3. QED
        BY <4>1, <4>2, SyncSizeFacts, SMT DEF CarryEnd
    <3>3. CarryEnd' - Len(win') + 1 = L - rl + 1 /\ CarryEnd' - Len(win') = L - rl
      BY <1>4, <2>5, <3>2, SyncSizeFacts, SMT
    <3>4. took' <= Len(chunk') /\ OutEnd' <= CarryEnd' - Len(win')
          /\ Len(win') <= SyncSize
      <4>1. took' = SyncSize - rl /\ Len(chunk') = len /\ SyncSize - rl \in 1 .. len
        BY <2>1, <2>2, <3>1
      <4>2. took' <= Len(chunk')
        BY ONLY <4>1, SMT
      <4>3. OutEnd' = OutEnd /\ OutEnd <= L - rl /\ OutEnd \in Nat /\ L \in Nat
            /\ rl \in Nat /\ CarryEnd' - Len(win') = L - rl
        BY <1>4, <1>5, <1>6, <3>3
      <4>4. OutEnd' <= CarryEnd' - Len(win')
        BY ONLY <4>3, SMT
      <4>5. Len(win') <= SyncSize
        BY ONLY <2>5, SyncSizeFacts, SMT
      <4>6. QED
        BY <4>2, <4>4, <4>5
    <3>5. QED
      BY <2>4, <2>5, <3>1, <3>3, <3>4, Zenon
  <2>7. CarryWin'
    BY <1>0, <2>1, <2>6, Zenon DEF CarryWin
  <2>8. QED
    BY <1>6, <1>7, <2>1, <2>7 DEF StreamInv, IdleTail, MainWin
<1>10. CASE rl # 0 /\ rl + len < SyncSize
  <2>0. ~(rl + len >= SyncSize) /\ rl # 0
    BY <1>2, <1>4, <1>10, SyncSizeFacts, SMT
  <2>1. remainBuf' = remainBuf \o new /\ hpc' = "Idle"
    BY <1>3, <2>0, Zenon
  <2>2. remainBuf' = Run(L - rl + 1, rl + len) /\ Len(remainBuf') = rl + len
    <3>0. L - rl + 1 + rl = L + 1 /\ L - rl + 1 \in Pos
      BY <1>4, <1>5a, SMT
    <3>1. remainBuf' = Run(L - rl + 1, rl) \o Run(L - rl + 1 + rl, len)
      BY <3>0, <1>5, <2>1, Zenon
    <3>2. Run(L - rl + 1, rl) \o Run(L - rl + 1 + rl, len) = Run(L - rl + 1, rl + len)
      <4>1. L - rl + 1 \in Int /\ rl \in Nat /\ len \in Nat
        BY <3>0, <1>2, <1>4, SMT
      <4>2. QED
        BY <4>1, RunConcat, Zenon
    <3>3. Len(Run(L - rl + 1, rl + len)) = rl + len
      <4>1. rl + len \in Nat
        BY <1>2, <1>4, SMT
      <4>2. QED
        BY <3>0, <4>1, RunType
    <3>4. QED
      BY <3>1, <3>2, <3>3, Zenon
  <2>3. IdleTail'
    <3>1. Len(input') - Len(remainBuf') + 1 = L - rl + 1
          /\ Len(input') - Len(remainBuf') = L - rl
      BY <1>2, <1>4, <2>2, SMT
    <3>2. OutEnd' <= Len(input') - Len(remainBuf')
      BY <1>5, <1>6, <3>1
    <3>3. QED
      BY <2>1, <2>2, <3>1, <3>2, Zenon DEF IdleTail
  <2>4. QED
    BY <1>6, <1>7, <2>1, <2>3 DEF StreamInv, MainWin, CarryWin
<1>11. CASE rl = 0
  <2>1. win' = new /\ hpc' = "Main" /\ remainBuf' = remainBuf
    BY <1>3, <1>11, Zenon
  <2>2. remainBuf = <<>>
    BY <1>1, <1>11, EmptySeq DEF Types
  <2>3. MainWin'
    BY <1>4, <1>5, <1>6, <1>8, <1>11, <2>1, <2>2, SMT DEF MainWin
  <2>4. QED
    BY <1>6, <1>7, <2>1, <2>3 DEF StreamInv, IdleTail, CarryWin
<1>12. QED
  <2>1. rl # 0 => (rl + len >= SyncSize \/ rl + len < SyncSize)
    BY <1>2, <1>4, SyncSizeFacts, SMT
  <2>2. QED
    BY <2>1, <1>9, <1>10, <1>11

\* A window that ends at E, less its first byte, still ends at E.
LEMMA TailRun ==
    ASSUME NEW E \in Int, NEW w \in Seq(Pos), w # <<>>,
           w = Run(E - Len(w) + 1, Len(w))
    PROVE  /\ Tail(w) = Run(E - Len(Tail(w)) + 1, Len(Tail(w)))
           /\ Len(Tail(w)) = Len(w) - 1
<1>1. Len(w) \in Nat \ {0} /\ E - Len(w) + 1 \in Int
  BY EmptySeq, SMT
<1>2. Len(Tail(w)) = Len(w) - 1
  BY HeadTailProperties
<1>3. Tail(w) = Run(E - Len(w) + 1 + 1, Len(w) - 1)
  BY <1>1, RunTail
<1>4. E - Len(w) + 1 + 1 = E - (Len(w) - 1) + 1
  BY <1>1, SMT
<1>5. QED
  BY <1>2, <1>3, <1>4

\* A window that ends at E, less its first m bytes, still ends at E.
LEMMA DropRun ==
    ASSUME NEW E \in Int, NEW w \in Seq(Pos), NEW m \in 0 .. Len(w),
           w = Run(E - Len(w) + 1, Len(w))
    PROVE  /\ SubSeq(w, m + 1, Len(w)) = Run(E - (Len(w) - m) + 1, Len(w) - m)
           /\ Len(SubSeq(w, m + 1, Len(w))) = Len(w) - m
           /\ SubSeq(w, 1, m) = Run(E - Len(w) + 1, m)
<1>1. Len(w) \in Nat /\ E - Len(w) + 1 \in Int
  BY LenProperties, SMT
<1>2. /\ m + 1 \in 1 .. Len(w) + 1 /\ Len(w) \in m + 1 - 1 .. Len(w)
      /\ 1 \in 1 .. Len(w) + 1 /\ m \in 1 - 1 .. Len(w)
  BY <1>1, SMT
<1>3. SubSeq(w, m + 1, Len(w)) = Run(E - Len(w) + 1 + (m + 1) - 1, Len(w) - (m + 1) + 1)
  <2>1. SubSeq(Run(E - Len(w) + 1, Len(w)), m + 1, Len(w))
        = Run(E - Len(w) + 1 + (m + 1) - 1, Len(w) - (m + 1) + 1)
    <3>1. E - Len(w) + 1 \in Int /\ Len(w) \in Nat /\ m + 1 \in 1 .. Len(w) + 1
          /\ Len(w) \in (m + 1) - 1 .. Len(w)
      BY <1>1, <1>2
    <3>2. QED
      BY ONLY <3>1, RunSubSeq, Zenon
  <2>2. QED
    BY <2>1
<1>4. SubSeq(w, 1, m) = Run(E - Len(w) + 1 + 1 - 1, m - 1 + 1)
  <2>1. SubSeq(Run(E - Len(w) + 1, Len(w)), 1, m)
        = Run(E - Len(w) + 1 + 1 - 1, m - 1 + 1)
    BY <1>1, <1>2, RunSubSeq, Zenon
  <2>2. QED
    BY <2>1
<1>5. /\ E - Len(w) + 1 + (m + 1) - 1 = E - (Len(w) - m) + 1
      /\ Len(w) - (m + 1) + 1 = Len(w) - m
      /\ E - Len(w) + 1 + 1 - 1 = E - Len(w) + 1 /\ m - 1 + 1 = m
      /\ Len(w) - m \in Nat
  BY <1>1, SMT
<1>6. Len(Run(E - (Len(w) - m) + 1, Len(w) - m)) = Len(w) - m
  BY <1>5, SMT DEF Run
<1>7. QED
  BY <1>3, <1>4, <1>5, <1>6, Zenon

\* The resync branch drops the first byte of the window.
LEMMA ResyncStream ==
    ASSUME IInv, StreamInv, Resync
    PROVE  StreamInv'
<1>1. Types
  BY DEF IInv, TypeOK, Types
<1>2. /\ win # <<>> /\ hpc \in {"Carry", "Main"} /\ win' = Tail(win)
      /\ hpc' = hpc /\ out' = out /\ input' = input /\ remainBuf' = remainBuf
      /\ chunk' = chunk /\ took' = took
  BY DEF Resync, Processing
<1>3. ~brk /\ brk' = brk
  BY DEF Resync, Processing
<1>4. OutRuns' /\ OutOrdered' /\ PacketAligned' /\ OutEnd' = OutEnd
  BY <1>2, Zenon DEF StreamInv, OutRuns, OutOrdered, PacketAligned, OutEnd, SyncAt,
              ByteAt, Slots
<1>5. OutEnd \in Nat /\ Len(input) \in Nat /\ Len(win) \in Nat
      /\ Len(input) \in Int /\ win \in Seq(Pos)
  BY <1>1, LenProperties, OutEndNat DEF StreamInv, Types
<1>6. CASE hpc = "Main"
  <2>1. remainBuf = <<>> /\ win = Run(Len(input) - Len(win) + 1, Len(win))
        /\ OutEnd <= Len(input) - Len(win)
    BY <1>6 DEF StreamInv, MainWin
  <2>2. win' = Run(Len(input) - Len(win') + 1, Len(win'))
        /\ Len(win') = Len(win) - 1
    BY <1>2, <1>5, <2>1, TailRun, Zenon
  <2>3. OutEnd' <= Len(input') - Len(win')
    BY <1>2, <1>4, <1>5, <2>1, <2>2, SMT
  <2>4. MainWin'
    BY <1>2, <2>1, <2>2, <2>3 DEF MainWin
  <2>5. QED
    BY <1>2, <1>4, <1>6, <2>4 DEF StreamInv, IdleTail, CarryWin
<1>7. CASE hpc = "Carry"
  <2>1. /\ chunk = Run(Len(input) - Len(chunk) + 1, Len(chunk))
        /\ took <= Len(chunk)
        /\ win = Run(CarryEnd - Len(win) + 1, Len(win))
        /\ OutEnd <= CarryEnd - Len(win)
        /\ Len(win) <= SyncSize
    BY <1>7 DEF StreamInv, CarryWin
  <2>2. CarryEnd' = CarryEnd /\ CarryEnd \in Int
    BY <1>1, <1>2, LenProperties, SMT DEF CarryEnd, Types
  <2>3. win' = Run(CarryEnd - Len(win') + 1, Len(win'))
        /\ Len(win') = Len(win) - 1
    BY <1>1, <1>2, <2>1, <2>2, TailRun, Zenon DEF Types
  <2>4. OutEnd' <= CarryEnd' - Len(win') /\ Len(win') <= SyncSize
    BY <1>4, <1>5, <2>1, <2>2, <2>3, SyncSizeFacts, SMT
  <2>5. CarryWin'
    BY <1>2, <1>3, <2>1, <2>2, <2>3, <2>4, Zenon DEF CarryWin
  <2>6. QED
    BY <1>2, <1>4, <1>7, <2>5 DEF StreamInv, IdleTail, MainWin
<1>8. QED
  BY <1>2, <1>6, <1>7

\* What stream_process left of the chunk becomes the carry-over.
LEMMA MainDoneStream ==
    ASSUME IInv, StreamInv, MainDone
    PROVE  StreamInv'
<1>1. /\ hpc = "Main" /\ hpc' = "Idle"
      /\ remainBuf' = IF win # <<>> THEN win ELSE remainBuf
      /\ out' = out /\ input' = input
  BY DEF MainDone
<1>2. /\ remainBuf = <<>> /\ win = Run(Len(input) - Len(win) + 1, Len(win))
      /\ OutEnd <= Len(input) - Len(win)
  BY <1>1 DEF StreamInv, MainWin
<1>3. remainBuf' = win
  BY <1>1, <1>2
<1>4. OutRuns' /\ OutOrdered' /\ PacketAligned' /\ OutEnd' = OutEnd
  BY <1>1, Zenon DEF StreamInv, OutRuns, OutOrdered, PacketAligned, OutEnd, SyncAt,
              ByteAt, Slots
<1>5. IdleTail'
  BY <1>1, <1>2, <1>3, <1>4, Zenon DEF IdleTail
<1>6. QED
  BY <1>1, <1>4, <1>5 DEF StreamInv, MainWin, CarryWin

\* The carry-over is done and the chunk resumes after the t bytes it gave.
LEMMA CarryDoneStream ==
    ASSUME IInv, StreamInv, CarryDone
    PROVE  StreamInv'
<1>1. Types
  BY DEF IInv, TypeOK, Types
<1>2. /\ hpc = "Carry" /\ hpc' = "Main" /\ remainBuf' = <<>>
      /\ win' = IF win = <<>> THEN SubSeq(chunk, took + 1, Len(chunk)) ELSE chunk
      /\ out' = out /\ input' = input /\ chunk' = chunk /\ took' = took
  BY DEF CarryDone
\* stream_process returned: the window is used up, or the loop left it
\* through sync_remain, which a carry-over window never does with bytes
\* left.
<1>3. win = <<>>
  <2>1. win = <<>> \/ brk
    BY DEF CarryDone, LoopDone
  <2>2. brk => win = <<>>
    BY <1>2 DEF StreamInv, CarryWin
  <2>3. QED
    BY <2>1, <2>2
<1>4. /\ chunk = Run(Len(input) - Len(chunk) + 1, Len(chunk))
      /\ took <= Len(chunk)
      /\ OutEnd <= CarryEnd - Len(win)
  BY <1>2 DEF StreamInv, CarryWin
<1>5. /\ Len(input) \in Nat /\ Len(chunk) \in Nat /\ took \in 0 .. Len(chunk)
      /\ Len(win) = 0 /\ OutEnd \in Nat
  BY <1>1, <1>3, <1>4, LenProperties, OutEndNat, SMT DEF StreamInv, Types
<1>6. /\ win' = Run(Len(input) - (Len(chunk) - took) + 1, Len(chunk) - took)
      /\ Len(win') = Len(chunk) - took
  <2>1. win' = SubSeq(chunk, took + 1, Len(chunk))
    BY <1>2, <1>3
  <2>2. Len(input) \in Int /\ chunk \in Seq(Pos) /\ took \in 0 .. Len(chunk)
    BY <1>1, <1>5, SMT DEF Types
  <2>3. QED
    BY <1>4, <2>1, <2>2, DropRun, Zenon
<1>7. OutRuns' /\ OutOrdered' /\ PacketAligned' /\ OutEnd' = OutEnd
  BY <1>2, Zenon DEF StreamInv, OutRuns, OutOrdered, PacketAligned, OutEnd, SyncAt,
              ByteAt, Slots
<1>8. OutEnd' <= Len(input') - Len(win')
  BY <1>2, <1>4, <1>5, <1>6, <1>7, SMT DEF CarryEnd
<1>9. MainWin'
  BY <1>2, <1>6, <1>8, Zenon DEF MainWin
<1>10. QED
  BY <1>2, <1>7, <1>9 DEF StreamInv, IdleTail, CarryWin

(***************************************************************************)
(* EmitRun, in either phase: the block handed to the character device is  *)
(* the first P * i positions of a window that ends at E, so it is a run   *)
(* that starts after everything delivered, its slots are the marked slots *)
(* of the window, and the window that remains still ends at E.           *)
(***************************************************************************)

\* The packet sink's contract for one block.
BlockAligned(blk) ==
    /\ Len(blk) % PacketSize = 0
    /\ Slots(blk) >= SyncCount
    /\ \A q \in 0 .. Slots(blk) - 1 : SyncAt(blk, q)

\* The block the inner loop found is aligned and fits in the window.
LEMMA EmitBlock ==
    ASSUME NEW w \in Seq(Pos), NEW i \in 0 .. Slots(w), LoopExit(w, i),
           i >= SyncCount
    PROVE  /\ PacketSize * i \in 1 .. Len(w)
           /\ BlockAligned(SubSeq(w, 1, PacketSize * i))
<1>1. i \in Nat \ {0} /\ Len(w) \in Nat
  BY LenProperties, SMT DEF Slots
<1>2. PacketSize * i \in 1 .. Len(w)
  <2>1. PacketSize * i <= Len(w)
    BY <1>1, SlotsFit DEF Slots
  <2>2. PacketSize * i >= 1
    BY ONLY <1>1, Assumption, SMT
  <2>3. QED
    BY <1>1, <2>1, <2>2, SMT
<1> DEFINE m == PacketSize * i
           b == SubSeq(w, 1, m)
<1>3. m \in Nat /\ Len(b) = m /\ \A j \in 1 .. m : b[j] = w[j]
  <2>1. \A j \in 1 .. m : w[j] \in Pos
    BY <1>2, ElementOfSeq
  <2>2. QED
    BY <1>2, <2>1, SubSeqProperties, SMT
<1>4. m % PacketSize = 0 /\ m \div PacketSize = i
  BY ONLY <1>1, Assumption, SMT
<1>5. \A q \in 0 .. i - 1 : q * PacketSize + 1 \in 1 .. m
  BY ONLY <1>1, Assumption, SMT
<1>6. \A q \in 0 .. i - 1 : SyncAt(w, q)
  BY DEF LoopExit
<1>7. \A q \in 0 .. Slots(b) - 1 : SyncAt(b, q)
  BY <1>3, <1>4, <1>5, <1>6 DEF SyncAt, ByteAt, Slots
<1>8. Len(b) % PacketSize = 0 /\ Slots(b) = i
  BY <1>3, <1>4 DEF Slots
<1>9. QED
  BY <1>2, <1>7, <1>8, Zenon DEF BlockAligned, m, b

\* Handing the first m positions of a window that ends at E to the
\* character device keeps the blocks in order, and the rest of the window
\* still ends at E.
LEMMA EmitCore ==
    ASSUME Types, OutRuns, OutOrdered, PacketAligned,
           NEW E \in Int, win = Run(E - Len(win) + 1, Len(win)),
           OutEnd <= E - Len(win),
           NEW m \in 1 .. Len(win), BlockAligned(SubSeq(win, 1, m)),
           out' = Append(out, SubSeq(win, 1, m)),
           win' = SubSeq(win, m + 1, Len(win)),
           input' = input
    PROVE  /\ OutRuns' /\ OutOrdered' /\ PacketAligned'
           /\ win' = Run(E - Len(win') + 1, Len(win'))
           /\ OutEnd' = E - Len(win') /\ OutEnd' <= E - Len(win')
           /\ Len(win') = Len(win) - m
<1> DEFINE n  == Len(win)
           p0 == E - n + 1
           b  == SubSeq(win, 1, m)
<1> USE DEF n, p0, b
<1>1. /\ n \in Nat /\ win \in Seq(Pos) /\ out \in Seq(Seq(Pos)) /\ Len(out) \in Nat
      /\ OutEnd \in Nat /\ \A k \in 1 .. Len(out) : LastPos(out[k]) \in Pos
      /\ m \in Nat \ {0}
  BY OutEndNat, LenProperties, SMT DEF Types
<1>3. /\ win' = Run(E - (n - m) + 1, n - m) /\ Len(win') = n - m
      /\ b = Run(p0, m)
  <2>1. m \in 0 .. Len(win)
    BY <1>1, SMT
  <2>2. QED
    BY <1>1, <2>1, DropRun, Zenon
<1>4. p0 \in Pos /\ b \in Seq(Pos) /\ Len(b) = m
  <2>1. p0 \in Pos
    <3>1. n # 0
      BY <1>1, SMT
    <3>2. QED
      BY <1>1, <3>1, RunStart
  <2>2. Run(p0, m) \in Seq(Pos) /\ Len(Run(p0, m)) = m
    BY ONLY <1>1, <2>1, RunType
  <2>3. QED
    BY <1>3, <2>1, <2>2
<1>5. /\ b # <<>> /\ b[1] = p0 /\ LastPos(b) = p0 + m - 1
  <2>1. p0 \in Int
    BY <1>4 DEF Pos
  <2>2. Run(p0, m) # <<>> /\ Run(p0, m)[1] = p0
        /\ LastPos(Run(p0, m)) = p0 + m - 1
    BY ONLY <1>1, <2>1, RunEnds, Zenon
  <2>3. QED
    BY <1>3, <2>2, Zenon
<1>6. /\ Len(out') = Len(out) + 1
      /\ \A k \in 1 .. Len(out) : out'[k] = out[k]
      /\ out'[Len(out) + 1] = b
      /\ out' # <<>>
  <2>1. out \in Seq(Seq(Pos)) /\ b \in Seq(Pos)
    BY <1>1, <1>4
  <2>2. /\ Len(Append(out, b)) = Len(out) + 1
        /\ \A k \in 1 .. Len(out) : Append(out, b)[k] = out[k]
        /\ Append(out, b)[Len(out) + 1] = b
        /\ Append(out, b) # <<>>
    BY ONLY <2>1, AppendProperties
  <2>3. QED
    BY <2>2
<1>7. OutEnd' = p0 + m - 1 /\ p0 + m - 1 = E - (n - m) /\ OutEnd < p0
  <2>1. OutEnd' = LastPos(b)
    BY <1>6 DEF OutEnd
  <2>2. QED
    BY <1>1, <1>5, <2>1, SMT
<1>8. OutRuns'
  <2>1. SUFFICES ASSUME NEW k \in 1 .. Len(out')
                 PROVE  /\ out'[k] # <<>>
                        /\ out'[k] = Run(out'[k][1], Len(out'[k]))
                        /\ LastPos(out'[k]) <= OutEnd'
    BY Zenon DEF OutRuns
  <2>2. CASE k \in 1 .. Len(out)
    <3>1. out'[k] = out[k]
      BY <1>6, <2>2
    <3>2. out[k] # <<>> /\ out[k] = Run(out[k][1], Len(out[k]))
          /\ LastPos(out[k]) <= OutEnd
      BY <2>2 DEF OutRuns
    <3>3. LastPos(out[k]) <= OutEnd'
      BY <1>1, <1>7, <2>2, <3>2, SMT DEF Pos
    <3>4. QED
      BY <3>1, <3>2, <3>3, Zenon
  <2>3. CASE k = Len(out) + 1
    <3>1. out'[k] = b
      BY <1>6, <2>3
    <3>2. b = Run(b[1], Len(b))
      BY <1>3, <1>4, <1>5
    <3>3. LastPos(b) <= OutEnd'
      BY <1>1, <1>5, <1>7, SMT
    <3>4. QED
      BY <1>5, <3>1, <3>2, <3>3, Zenon
  <2>0. k \in 1 .. Len(out) \/ k = Len(out) + 1
    <3>1. Len(out') = Len(out) + 1 /\ Len(out) \in Nat
      BY <1>1, <1>6
    <3>2. QED
      BY ONLY <3>1, SMT
  <2>4. QED
    BY <2>0, <2>2, <2>3
<1>9. OutOrdered'
  <2>1. SUFFICES ASSUME NEW k \in 1 .. Len(out') - 1
                 PROVE  LastPos(out'[k]) < out'[k + 1][1]
    BY DEF OutOrdered
  <2>2. k \in 1 .. Len(out) /\ k + 1 \in 1 .. Len(out) + 1
    BY <1>1, <1>6, SMT
  <2>3. CASE k < Len(out)
    <3>1. k + 1 \in 1 .. Len(out) /\ k \in 1 .. Len(out) - 1
      BY <1>1, <2>2, <2>3, SMT
    <3>2. out'[k] = out[k] /\ out'[k + 1] = out[k + 1]
      BY <1>6, <2>2, <3>1
    <3>3. QED
      BY <3>1, <3>2 DEF OutOrdered
  <2>4. CASE k = Len(out)
    <3>1. out'[k] = out[k] /\ out'[k + 1] = b
      BY <1>6, <2>2, <2>4
    <3>2. LastPos(out[k]) <= OutEnd /\ LastPos(out[k]) \in Pos
      BY <1>1, <2>2 DEF OutRuns
    <3>3. LastPos(out[k]) < b[1]
      BY <1>1, <1>5, <1>7, <3>2, SMT DEF Pos
    <3>4. QED
      BY <3>1, <3>3
  <2>0. k < Len(out) \/ k = Len(out)
    BY ONLY <2>2, SMT
  <2>5. QED
    BY <2>0, <2>3, <2>4
<1>10. PacketAligned'
  <2>1. SUFFICES ASSUME NEW k \in 1 .. Len(out')
                 PROVE  BlockAligned(out[k])'
    BY Zenon DEF PacketAligned, BlockAligned
  <2>2. CASE k \in 1 .. Len(out)
    <3>1. out'[k] = out[k]
      BY <1>6, <2>2
    <3>2. BlockAligned(out[k])
      BY <2>2, Zenon DEF PacketAligned, BlockAligned
    <3>3. QED
      BY <3>1, <3>2, Zenon DEF BlockAligned, SyncAt, ByteAt, Slots
  <2>3. CASE k = Len(out) + 1
    <3>1. out'[k] = b
      BY <1>6, <2>3
    <3>2. QED
      BY <3>1, Zenon DEF BlockAligned, SyncAt, ByteAt, Slots
  <2>0. k \in 1 .. Len(out) \/ k = Len(out) + 1
    <3>1. Len(out') = Len(out) + 1 /\ Len(out) \in Nat
      BY <1>1, <1>6
    <3>2. QED
      BY ONLY <3>1, SMT
  <2>4. QED
    BY <2>0, <2>2, <2>3
<1>11. QED
  <2>1. win' = Run(E - Len(win') + 1, Len(win')) /\ OutEnd' = E - Len(win')
    BY <1>3, <1>7, Zenon
  <2>2. OutEnd' <= E - Len(win')
    <3>1. E \in Int /\ n \in Nat /\ m \in Nat /\ Len(win') = n - m
      BY <1>1, <1>3
    <3>2. OutEnd' = E - Len(win') /\ E - Len(win') \in Int
      BY <2>1, <3>1, SMT
    <3>3. QED
      BY ONLY <3>2, SMT
  <2>3. QED
    BY <1>3, <1>8, <1>9, <1>10, <2>1, <2>2, Zenon

\* EmitRun in the chunk phase and in the carry-over phase.
LEMMA EmitStream ==
    ASSUME IInv, StreamInv, EmitRun
    PROVE  StreamInv'
<1>1. Types /\ Len(input) \in Int
  BY LenProperties DEF IInv, TypeOK, Types
<1>2. /\ hpc \in {"Carry", "Main"} /\ hpc' = hpc /\ input' = input
      /\ remainBuf' = remainBuf /\ chunk' = chunk /\ took' = took
  BY DEF EmitRun, Processing
<1>3. PICK i \in 0 .. Slots(win) :
         /\ LoopExit(win, i) /\ i >= SyncCount
         /\ out' = Append(out, SubSeq(win, 1, PacketSize * i))
         /\ win' = SubSeq(win, PacketSize * i + 1, Len(win))
  BY DEF EmitRun
<1>4. PacketSize * i \in 1 .. Len(win) /\ BlockAligned(SubSeq(win, 1, PacketSize * i))
  BY <1>1, <1>3, EmitBlock DEF Types
<1>5. OutRuns /\ OutOrdered /\ PacketAligned
  BY DEF StreamInv
<1>6. CASE hpc = "Main"
  <2>1. /\ remainBuf = <<>> /\ win = Run(Len(input) - Len(win) + 1, Len(win))
        /\ OutEnd <= Len(input) - Len(win)
    BY <1>6 DEF StreamInv, MainWin
  <2>2. /\ OutRuns' /\ OutOrdered' /\ PacketAligned'
        /\ win' = Run(Len(input) - Len(win') + 1, Len(win'))
        /\ OutEnd' <= Len(input) - Len(win')
    BY <1>1, <1>2, <1>3, <1>4, <1>5, <2>1, EmitCore, Zenon
  <2>3. MainWin'
    BY <1>2, <1>6, <2>1, <2>2 DEF MainWin
  <2>4. QED
    BY <1>2, <1>6, <2>2, <2>3 DEF StreamInv, IdleTail, CarryWin
<1>7. CASE hpc = "Carry"
  <2>1. /\ chunk = Run(Len(input) - Len(chunk) + 1, Len(chunk))
        /\ took <= Len(chunk)
        /\ win = Run(CarryEnd - Len(win) + 1, Len(win))
        /\ OutEnd <= CarryEnd - Len(win)
        /\ Len(win) <= SyncSize
    BY <1>7 DEF StreamInv, CarryWin
  <2>2. CarryEnd' = CarryEnd /\ CarryEnd \in Int
    BY <1>1, <1>2, LenProperties, SMT DEF CarryEnd, Types
  <2>3. /\ OutRuns' /\ OutOrdered' /\ PacketAligned'
        /\ win' = Run(CarryEnd - Len(win') + 1, Len(win'))
        /\ OutEnd' <= CarryEnd - Len(win')
        /\ Len(win') = Len(win) - PacketSize * i
    <3>1. PICK e \in Int : e = CarryEnd
      BY <2>2
    <3>2. win = Run(e - Len(win) + 1, Len(win)) /\ OutEnd <= e - Len(win)
      BY <2>1, <3>1
    <3>3. /\ OutRuns' /\ OutOrdered' /\ PacketAligned'
          /\ win' = Run(e - Len(win') + 1, Len(win'))
          /\ OutEnd' <= e - Len(win')
          /\ Len(win') = Len(win) - PacketSize * i
      BY <1>1, <1>2, <1>3, <1>4, <1>5, <3>2, EmitCore, Zenon
    <3>4. QED
      BY <3>1, <3>3
  \* The run fills the whole carry-over window: the window holds at most
  \* SyncSize = PacketSize * SyncCount bytes, and the run at least that.
  <2>4. SyncSize <= PacketSize * i
    <3>1. i \in Nat /\ i >= SyncCount
      BY <1>3, <1>4, SMT
    <3>2. QED
      BY ONLY <3>1, Assumption, SMT DEF SyncSize
  <2>5. Len(win') = 0 /\ win' = <<>>
    <3>1. Len(win') = 0
      BY <1>4, <2>1, <2>3, <2>4, SyncSizeFacts, SMT
    <3>2. CarryEnd - Len(win') + 1 \in Int
      BY <2>2, <3>1, SMT
    <3>3. QED
      BY <2>3, <3>1, <3>2, RunEmpty
  <2>6. CarryWin'
    <3>1. Len(win') <= SyncSize
      BY <2>5, SyncSizeFacts, SMT
    <3>2. QED
      BY <1>2, <1>7, <2>1, <2>2, <2>3, <2>5, <3>1, Zenon DEF CarryWin
  <2>7. QED
    BY <1>2, <1>7, <2>3, <2>6 DEF StreamInv, IdleTail, MainWin
<1>8. QED
  BY <1>2, <1>6, <1>7

\* Every step of the handler keeps StreamInv.
LEMMA NextStreamInv == IInv /\ StreamInv /\ [Next]_vars => StreamInv'
<1> SUFFICES ASSUME IInv, StreamInv, [Next]_vars PROVE StreamInv'
  OBVIOUS
<1>1. CASE \E len \in ChunkLens :
             /\ Len(input) + len <= Len(StreamBytes)
             /\ \E data \in [1 .. len -> Byte] :
                   /\ \A j \in 1 .. len : data[j] \in StreamBytes[Len(input) + j]
                   /\ StreamHandler(len, data)
  <2>1. PICK len \in ChunkLens : \E data \in [1 .. len -> Byte] : StreamHandler(len, data)
    BY <1>1
  <2>2. PICK data \in [1 .. len -> Byte] : StreamHandler(len, data)
    BY <2>1
  <2>3. QED
    BY <2>2, HandlerStream
<1>2. CASE Resync
  BY <1>2, ResyncStream
<1>3. CASE EmitRun
  BY <1>3, EmitStream
<1>4. CASE CarryDone
  BY <1>4, CarryDoneStream
<1>5. CASE MainDone
  BY <1>5, MainDoneStream
<1>6. CASE UNCHANGED vars
  BY <1>6, Zenon DEF vars, StreamInv, OutRuns, OutOrdered, PacketAligned, OutEnd,
             SyncAt, ByteAt, Slots, IdleTail, MainWin, CarryWin, CarryEnd
<1>7. QED
  BY <1>1, <1>2, <1>3, <1>4, <1>5, <1>6 DEF Next, HandlerStep

-----------------------------------------------------------------------------
(***************************************************************************)
(* The theorems.                                                           *)
(***************************************************************************)

\* IInv and StreamInv hold in every reachable state: every buffer of the
\* handler sits where StreamInv says in the stream, for every packet size,
\* lock count, marker byte and chunking.
THEOREM StreamInvariant == Spec => [](IInv /\ StreamInv)
<1>1. Init => IInv /\ StreamInv
  BY InitIInv, InitStreamInv
<1>2. IInv /\ StreamInv /\ [Next]_vars => IInv' /\ StreamInv'
  BY NextIInv, NextStreamInv
<1>3. QED
  BY <1>1, <1>2, PTL DEF Spec

\* The packet sink's contract holds in every reachable state: every block
\* m1ur_device_stream_process passes to ptx_chrdev_put_stream is a run of
\* at least SyncCount whole packets, each starting with the marker byte.
THEOREM Aligned == Spec => []PacketAligned
<1>1. IInv /\ StreamInv => PacketAligned
  BY DEF StreamInv
<1>2. QED
  BY StreamInvariant, <1>1, PTL

\* Every block the handler passes to the character device is a contiguous
\* stretch of the stream, and the blocks follow one another in stream
\* order without overlap, for every chunking of the stream.
THEOREM InOrder == Spec => []InStreamOrder
<1>1. IInv /\ StreamInv => InStreamOrder
  BY DEF StreamInv, OutRuns, OutOrdered, InStreamOrder, LastPos
<1>2. QED
  BY StreamInvariant, <1>1, PTL

\* Between invocations of m1ur_device_stream_handler the carry-over in
\* remain_buf is the newest stretch of the stream, after every byte
\* delivered.
LEMMA IdleCarryTail == IInv /\ StreamInv => CarryIsStreamTail
<1> SUFFICES ASSUME IInv, StreamInv, hpc = "Idle"
             PROVE  /\ remainBuf = Run(Len(input) - Len(remainBuf) + 1, Len(remainBuf))
                    /\ \A k \in 1 .. Len(out), j \in 1 .. Len(remainBuf) :
                          out[k][Len(out[k])] < remainBuf[j]
  BY DEF CarryIsStreamTail
<1>1. /\ remainBuf = Run(Len(input) - Len(remainBuf) + 1, Len(remainBuf))
      /\ OutEnd <= Len(input) - Len(remainBuf)
  BY DEF StreamInv, IdleTail
<1>2. /\ Types /\ OutEnd \in Nat /\ \A k \in 1 .. Len(out) : LastPos(out[k]) \in Pos
      /\ Len(input) \in Nat /\ Len(remainBuf) \in Nat
  BY OutEndNat, LenProperties DEF IInv, TypeOK, Types, StreamInv
<1>3. ASSUME NEW k \in 1 .. Len(out), NEW j \in 1 .. Len(remainBuf)
      PROVE  out[k][Len(out[k])] < remainBuf[j]
  <2>1. LastPos(out[k]) <= OutEnd
    BY DEF StreamInv, OutRuns
  <2>2. remainBuf[j] = Len(input) - Len(remainBuf) + j
    BY <1>1, <1>2, SMT DEF Run
  <2>3. LastPos(out[k]) < remainBuf[j]
    BY <1>1, <1>2, <2>1, <2>2, SMT DEF Pos
  <2>4. QED
    BY <2>3 DEF LastPos
<1>4. QED
  BY <1>1, <1>3

\* CarryIsStreamTail holds in every reachable state: between invocations
\* the carry-over is the undelivered tail of the stream.
THEOREM CarryTail == Spec => []CarryIsStreamTail
BY StreamInvariant, IdleCarryTail, PTL

=============================================================================
