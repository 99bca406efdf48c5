-------------------------- MODULE M1urAttachProofs --------------------------
(***************************************************************************)
(* Proofs about the attach and its undo ladder (M1urAttach): the ladder of *)
(* m1ur_device_init and the release undo the resources in reverse order of *)
(* acquisition, and leave nothing behind.                                  *)
(*                                                                         *)
(* UnwindInReverse and NothingLeaked are not inductive alone: they say     *)
(* nothing of what is held in the middle of an attach or of an unwind.    *)
(* IInv pins held down in every phase: it is always the first few         *)
(* resources in acquisition order (the ladder read backwards), and how    *)
(* many is fixed by the phase and k.  A failed call at k jumps to the      *)
(* rung whose resource is the last one acquired before k, so the unwind   *)
(* from rung k holds exactly 5 - k resources and undoes the last.         *)
(***************************************************************************)
EXTENDS M1urAttach, TLAPS

\* The first n resources in the order m1ur_device_init acquires them.
Held(n) == [j \in 1 .. n |-> Ladder[Len(Ladder) + 1 - j]]

\* How many resources an attach holds before its call k.
HeldBefore(c) == IF c <= Len(Ladder) THEN c - 1 ELSE Len(Ladder)

IInv ==
    /\ TypeOK
    /\ ~lifoBroken
    /\ phase \in {"Idle", "Failed", "Released"} => held = <<>>
    /\ phase = "Init" => held = Held(HeldBefore(k))
    /\ phase \in {"Unwind", "Releasing"} => held = Held(Len(Ladder) + 1 - k)
    /\ phase = "Live" => held = Held(Len(Ladder))

\* The calls of InitSteps: the first four acquire the resources in the
\* ladder's reverse order, get_device cannot fail, the next three jump to
\* the rung that undoes the last resource acquired before them, and the
\* rest acquire nothing and jump to fail_device.
LEMMA StepFacts ==
    /\ Len(Ladder) = 4 /\ Len(InitSteps) = 14
    /\ \A c \in 1 .. 4 : InitSteps[c].acq = Ladder[5 - c]
    /\ \A c \in 5 .. 14 : InitSteps[c].acq = "none" /\ InitSteps[c].fail = 1
    /\ InitSteps[1].fail = 0
    /\ \A c \in 2 .. 4 : InitSteps[c].fail = 6 - c
BY SMT DEF InitSteps, Call, Ladder

\* Held(n) is a sequence of n resources.
LEMMA HeldType ==
    ASSUME NEW n \in 0 .. 4
    PROVE  Held(n) \in Seq(Resources) /\ Len(Held(n)) = n
BY SMT DEF Held, Ladder, Resources

LEMMA HeldEnds ==
    /\ Held(0) = <<>>
    /\ Held(4) = <<"devref", "ctx", "bus", "bridge">>
BY SMT DEF Held, Ladder

\* Acquiring the next resource in order extends Held by one.
LEMMA HeldAppend ==
    ASSUME NEW n \in 0 .. 3
    PROVE  Append(Held(n), Ladder[4 - n]) = Held(n + 1)
BY SMT DEF Held, Ladder

\* The last resource held is the one rung 5 - n undoes, and undoing it
\* removes exactly that resource.
LEMMA HeldUndo ==
    ASSUME NEW n \in 1 .. 4
    PROVE  /\ Held(n)[Len(Held(n))] = Ladder[5 - n]
           /\ \E j \in 1 .. Len(Held(n)) : Held(n)[j] = Ladder[5 - n]
           /\ RemoveAt(Held(n), LastIndex(Held(n), Ladder[5 - n])) = Held(n - 1)
<1> DEFINE s == Held(n)
           r == Ladder[5 - n]
           P(j) == s[j] = r /\ \A m \in j + 1 .. Len(s) : s[m] # r
<1>1. Len(s) = n /\ s[n] = r
  BY HeldType, SMT DEF Held, Ladder
<1>2. \A j \in 1 .. n : s[j] = r => j = n
  BY SMT DEF Held, Ladder
<1>3. P(n)
  BY <1>1, SMT
<1>4. \A j \in 1 .. Len(s) : P(j) => j = n
  BY <1>1, <1>2
<1>5. LastIndex(s, r) = n
  <2>1. \E j \in 1 .. Len(s) : P(j)
    BY <1>1, <1>3, SMT
  <2>2. LastIndex(s, r) \in 1 .. Len(s) /\ P(LastIndex(s, r))
    BY <2>1, Zenon DEF LastIndex
  <2>3. QED
    BY <2>2, <1>4
<1>6. RemoveAt(s, n) = Held(n - 1)
  BY <1>1, SMT DEF RemoveAt, Held
<1>7. QED
  BY <1>1, <1>5, <1>6, SMT

LEMMA InitIInv == Init => IInv
<1> SUFFICES ASSUME Init PROVE IInv
  OBVIOUS
<1>1. 1 \in 1 .. Len(InitSteps) /\ HeldBefore(1) = 0
  BY StepFacts, SMT DEF HeldBefore
<1>2. <<>> \in Seq(Resources)
  BY SMT
<1>3. QED
  BY <1>1, <1>2, HeldEnds, Zenon DEF Init, IInv, TypeOK

LEMMA NextIInv == IInv /\ [Next]_vars => IInv'
<1> SUFFICES ASSUME IInv, [Next]_vars PROVE IInv'
  OBVIOUS
<1>0. /\ TypeOK /\ ~lifoBroken
      /\ Len(Ladder) = 4 /\ Len(InitSteps) = 14
  BY StepFacts DEF IInv
<1>1. CASE Attach
  <2>1. held = <<>> /\ held' = held /\ k' = 1 /\ lifoBroken' = lifoBroken
        /\ phase' \in {"Init", "Failed"}
        /\ result' \in {"None", "EINVAL"} /\ discard' = discard
        /\ configured' = FALSE /\ absent' = FALSE
    BY <1>1 DEF Attach, IInv
  <2>2. HeldBefore(1) = 0 /\ 1 \in 1 .. Len(InitSteps)
    BY <1>0, SMT DEF HeldBefore
  <2>3. <<>> \in Seq(Resources)
    BY SMT
  <2>4. QED
    BY <1>0, <2>1, <2>2, <2>3, HeldEnds, Zenon DEF IInv, TypeOK
<1>2. CASE InitCall
  <2> DEFINE st == InitSteps[k]
             fails(ok) == ~ok /\ st.fail # 0 /\ (st.name = "pid_filter" => discard)
  <2>1. phase = "Init" /\ k \in 1 .. 14 /\ held = Held(HeldBefore(k))
    BY <1>0, <1>2 DEF InitCall, IInv, TypeOK
  <2>2. PICK ok \in BOOLEAN, eeprom \in BOOLEAN :
          /\ IF st.name = "load_config" THEN LoadConfig(fails(ok), eeprom)
                                        ELSE UNCHANGED <<absent, configured>>
          /\ IF fails(ok)
             THEN phase' = "Unwind" /\ k' = st.fail /\ result' = "Err"
                  /\ UNCHANGED held
             ELSE /\ held' = IF st.acq = "none" THEN held ELSE Append(held, st.acq)
                  /\ IF k = Len(InitSteps)
                     THEN phase' = "Live" /\ k' = 1 /\ result' = "Ok"
                     ELSE phase' = phase /\ k' = k + 1 /\ result' = result
    BY <1>2, Zenon DEF InitCall
  <2>3. /\ discard' = discard /\ lifoBroken' = lifoBroken
        /\ absent' \in BOOLEAN /\ configured' \in BOOLEAN
    <3>1. absent \in BOOLEAN /\ configured \in BOOLEAN
      BY <1>0 DEF TypeOK
    <3>2. QED
      BY <1>2, <2>2, <3>1, Zenon DEF InitCall, LoadConfig
  <2>4. CASE fails(ok)
    <3>1. phase' = "Unwind" /\ k' = st.fail /\ result' = "Err" /\ held' = held
      BY <2>2, <2>4
    <3>2. k \in 2 .. 14
      BY <2>1, <2>4, StepFacts, SMT
    <3>3. st.fail \in 1 .. 4 /\ HeldBefore(k) = Len(Ladder) + 1 - st.fail
      BY <3>2, StepFacts, SMT DEF HeldBefore
    <3>4. QED
      BY <1>0, <2>1, <2>3, <3>1, <3>3, SMT DEF IInv, TypeOK
  <2>5. CASE ~fails(ok) /\ k \in 1 .. 4
    <3>1. st.acq = Ladder[5 - k] /\ st.acq # "none"
      BY <2>5, StepFacts DEF Ladder
    <3>2. held' = Append(Held(k - 1), Ladder[5 - k])
      <4>1. HeldBefore(k) = k - 1
        BY <1>0, <2>5, SMT DEF HeldBefore
      <4>2. held' = Append(held, st.acq)
        BY <2>2, <2>5, <3>1, Zenon
      <4>3. QED
        BY <2>1, <3>1, <4>1, <4>2, Zenon
    <3>3. held' = Held(k)
      BY <3>2, <2>5, HeldAppend, SMT
    <3>4. phase' = "Init" /\ k' = k + 1 /\ result' = result
      BY <1>0, <2>1, <2>2, <2>5, SMT
    <3>5. HeldBefore(k + 1) = k /\ Held(k) \in Seq(Resources)
      BY <1>0, <2>5, HeldType, SMT DEF HeldBefore
    <3>6. QED
      BY <1>0, <2>3, <3>3, <3>4, <3>5, <2>5, SMT DEF IInv, TypeOK
  <2>6. CASE ~fails(ok) /\ k \in 5 .. 14
    <3>1. st.acq = "none"
      BY <2>6, StepFacts
    <3>2. held' = held /\ held = Held(4)
      BY <1>0, <2>1, <2>2, <2>6, <3>1, SMT DEF HeldBefore
    <3>3. \/ k = 14 /\ phase' = "Live" /\ k' = 1 /\ result' = "Ok"
          \/ k < 14 /\ phase' = "Init" /\ k' = k + 1 /\ result' = result
      BY <1>0, <2>1, <2>2, <2>6, SMT
    <3>4. k < 14 => HeldBefore(k + 1) = 4
      BY <1>0, <2>6, SMT DEF HeldBefore
    <3>5. Held(4) \in Seq(Resources)
      BY HeldType
    <3>6. QED
      BY <1>0, <2>1, <2>3, <3>2, <3>3, <3>4, <3>5, <2>6, SMT DEF IInv, TypeOK
  <2>7. QED
    BY <2>1, <2>4, <2>5, <2>6, SMT
<1>3. CASE UnwindStep
  <2> DEFINE n == 5 - k
  <2>1. phase \in {"Unwind", "Releasing"} /\ k \in 1 .. 4 /\ held = Held(n)
    BY <1>0, <1>3 DEF UnwindStep, IInv, TypeOK
  <2>2. n \in 1 .. 4 /\ Ladder[k] = Ladder[5 - n] /\ n - 1 = 4 - k
    BY <2>1, SMT
  <2>3. /\ held[Len(held)] = Ladder[k]
        /\ \E j \in 1 .. Len(held) : held[j] = Ladder[k]
        /\ RemoveAt(held, LastIndex(held, Ladder[k])) = Held(4 - k)
    <3>1. /\ Held(n)[Len(Held(n))] = Ladder[5 - n]
          /\ \E j \in 1 .. Len(Held(n)) : Held(n)[j] = Ladder[5 - n]
          /\ RemoveAt(Held(n), LastIndex(Held(n), Ladder[5 - n])) = Held(n - 1)
      BY <2>2, HeldUndo
    <3>2. Held(n - 1) = Held(4 - k)
      BY <2>2
    <3>3. QED
      BY <2>1, <2>2, <3>1, <3>2, Zenon
  <2>4. held # <<>>
    <3>0. n \in 0 .. 4
      BY <2>2, SMT
    <3>1. Len(Held(n)) = n
      BY <3>0, HeldType, Zenon
    <3>2. QED
      BY <2>1, <2>2, <3>1, SMT
  <2>5. held' = Held(4 - k) /\ lifoBroken' = FALSE
    BY <1>0, <1>3, <2>3, <2>4, Zenon DEF UnwindStep, Undo
  <2>6. \/ k = 4 /\ phase' \in {"Failed", "Released"} /\ k' = 1
        \/ k < 4 /\ phase' = phase /\ k' = k + 1
    BY <1>0, <1>3, <2>1, SMT DEF UnwindStep
  <2>7. UNCHANGED <<result, discard, configured, absent>>
    BY <1>3 DEF UnwindStep
  <2>8. Held(4 - k) \in Seq(Resources) /\ Held(0) = <<>>
    BY <2>1, HeldType, HeldEnds, SMT
  <2>9. TypeOK'
    <3>1. k' \in 1 .. Len(Ladder) /\ k' \in 1 .. Len(InitSteps)
      BY <1>0, <2>1, <2>6, SMT
    <3>2. phase' \in {"Unwind", "Releasing", "Failed", "Released"}
      BY <2>1, <2>6
    <3>3. QED
      BY <1>0, <2>5, <2>7, <2>8, <3>1, <3>2, Zenon DEF TypeOK
  <2>10. CASE k = 4
    <3>1. phase' \in {"Failed", "Released"} /\ held' = <<>>
      BY <2>5, <2>6, <2>8, <2>10, SMT
    <3>2. QED
      BY <2>5, <2>9, <3>1 DEF IInv
  <2>11. CASE k # 4
    <3>1. phase' = phase /\ k' = k + 1
      BY <2>1, <2>6, <2>11, SMT
    <3>2. Held(4 - k) = Held(Len(Ladder) + 1 - k')
      <4>1. 4 - k = Len(Ladder) + 1 - k'
        BY <2>1, <3>1, StepFacts, SMT
      <4>2. QED
        BY <4>1
    <3>3. QED
      BY <2>1, <2>5, <2>9, <3>1, <3>2 DEF IInv
  <2>12. QED
    BY <2>10, <2>11
<1>4. CASE Release
  <2>1. held = Held(4) /\ phase' = "Releasing" /\ k' = 1
        /\ UNCHANGED <<held, result, discard, configured, absent, lifoBroken>>
    BY <1>0, <1>4 DEF Release, IInv
  <2>2. QED
    BY <1>0, <2>1, SMT DEF IInv, TypeOK
<1>5. CASE UNCHANGED vars
  BY <1>5 DEF vars, IInv, TypeOK
<1>6. QED
  BY <1>1, <1>2, <1>3, <1>4, <1>5 DEF Next

-----------------------------------------------------------------------------
\* The attach's and the release's state always has its type.
THEOREM AttachTypeCorrect == Spec => []TypeOK
<1>1. IInv => TypeOK
  BY DEF IInv
<1>2. QED
  BY InitIInv, NextIInv, <1>1, PTL DEF Spec

\* The goto ladder of m1ur_device_init and m1ur_device_release undo the
\* resources in the reverse order of their acquisition, each once, on
\* every path through the attach.
THEOREM UnwindReverse == Spec => []UnwindInReverse
<1>1. IInv => UnwindInReverse
  BY DEF IInv, UnwindInReverse
<1>2. QED
  BY InitIInv, NextIInv, <1>1, PTL DEF Spec

\* A failed attach and a release leave nothing acquired, and a live
\* device holds all four resources.
THEOREM NoLeak == Spec => []NothingLeaked
<1>1. IInv => NothingLeaked
  BY HeldEnds, StepFacts DEF IInv, NothingLeaked
<1>2. QED
  BY InitIInv, NextIInv, <1>1, PTL DEF Spec

=============================================================================
