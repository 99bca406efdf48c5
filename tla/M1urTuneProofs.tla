--------------------------- MODULE M1urTuneProofs ---------------------------
(***************************************************************************)
(* Proofs about the tune sequence of M1urTune.                             *)
(***************************************************************************)
EXTENDS M1urTune, TLAPS

USE PollAssumption

\* Where the calls that matter sit in the two sequences.
LEMMA StepFacts ==
    /\ Len(TSteps) = 16 /\ Len(SSteps) = 13
    /\ \A k \in 1 .. 16 : TSteps[k].kind = "poll" <=> k = 12
    /\ \A k \in 1 .. 13 : SSteps[k].kind = "poll" <=> k = 12
    /\ \A k \in 1 .. 16 : TSteps[k].kind = "sleep" => k \in {3, 7}
    /\ \A k \in 1 .. 13 : SSteps[k].kind = "sleep" => k \in {4, 7}
    /\ \A k \in 1 .. 16 : TSteps[k].kind = "agc" => k \in {2, 13}
    /\ \A k \in 1 .. 13 : SSteps[k].kind = "agc" => k \in {1, 13}
    /\ TSteps[3] = Sleep("S", TRUE) /\ TSteps[7] = Sleep("T", FALSE)
    /\ TSteps[13] = Agc("T", TRUE)
    /\ SSteps[4] = Sleep("T", TRUE) /\ SSteps[7] = Sleep("S", FALSE)
    /\ SSteps[13] = Agc("S", TRUE)
BY SMT DEF TSteps, SSteps, Reg, Agc, Sleep, Tuner, Poll, Step


\* Every step names a demodulator and a Boolean.
LEMMA StepFields ==
    /\ \A k \in 1 .. 16 : TSteps[k].dev \in Demods /\ TSteps[k].val \in BOOLEAN
    /\ \A k \in 1 .. 13 : SSteps[k].dev \in Demods /\ SSteps[k].val \in BOOLEAN
<1>1. /\ \A k \in 1 .. 16 : TSteps[k] \in [kind : {"reg", "agc", "sleep", "tuner", "poll"}, dev : Demods, val : BOOLEAN]
      /\ \A k \in 1 .. 13 : SSteps[k] \in [kind : {"reg", "agc", "sleep", "tuner", "poll"}, dev : Demods, val : BOOLEAN]
  BY SMT DEF Demods, TSteps, SSteps, Reg, Agc, Sleep, Tuner, Poll, Step
<1>2. QED
  BY <1>1

\* The index of the step that puts the other demodulator to sleep.
SleepIdx(s) == IF s = "T" THEN 3 ELSE 4

\* The state a successful tune leaves the demodulators in.
Ready == ~asleep[system] /\ agc[system] /\ asleep[Other(system)]

LEMMA StepsOf ==
    ASSUME NEW s \in {"T", "S"}
    PROVE  /\ Len(Steps(s)) \in {13, 16}
           /\ \A k \in 1 .. Len(Steps(s)) : Steps(s)[k].kind = "poll" <=> k = 12
           /\ \A k \in 1 .. Len(Steps(s)) :
                 Steps(s)[k].kind = "sleep" => k \in {SleepIdx(s), 7}
           /\ \A k \in 1 .. Len(Steps(s)) :
                 Steps(s)[k].kind = "agc" => k \in {1, 2, 13}
           /\ Steps(s)[SleepIdx(s)] = Sleep(Other(s), TRUE)
           /\ Steps(s)[7] = Sleep(s, FALSE)
           /\ Steps(s)[13] = Agc(s, TRUE)
           /\ \A k \in 1 .. Len(Steps(s)) :
                 Steps(s)[k].dev \in Demods /\ Steps(s)[k].val \in BOOLEAN
<1>1. CASE s = "T"
  BY <1>1, StepFacts, StepFields, Zenon DEF Steps, SleepIdx, Other
<1>2. CASE s = "S"
  BY <1>2, StepFacts, StepFields, Zenon DEF Steps, SleepIdx, Other
<1>3. QED
  BY <1>1, <1>2, Zenon

\* A call of step k that reached the chip moves the demodulators one step
\* towards Ready and never back.
LEMMA ApplyStep ==
    ASSUME NEW s \in {"T", "S"}, NEW k \in 1 .. Len(Steps(s)),
           asleep \in [Demods -> BOOLEAN], agc \in [Demods -> BOOLEAN],
           Apply(Steps(s)[k], TRUE)
    PROVE  /\ asleep' \in [Demods -> BOOLEAN] /\ agc' \in [Demods -> BOOLEAN]
           /\ k + 1 > SleepIdx(s) /\ (k > SleepIdx(s) => asleep[Other(s)])
                => asleep'[Other(s)]
           /\ k + 1 > 7 /\ (k > 7 => ~asleep[s]) => ~asleep'[s]
           /\ k + 1 > 13 /\ (k > 13 => agc[s]) => agc'[s]
<1> DEFINE st == Steps(s)[k]
<1>1. /\ Len(Steps(s)) \in {13, 16}
      /\ st.kind = "sleep" => k \in {SleepIdx(s), 7}
      /\ st.kind = "agc" => k \in {1, 2, 13}
      /\ Steps(s)[SleepIdx(s)] = Sleep(Other(s), TRUE)
      /\ Steps(s)[7] = Sleep(s, FALSE)
      /\ Steps(s)[13] = Agc(s, TRUE)
      /\ st.dev \in Demods /\ st.val \in BOOLEAN
  BY StepsOf, Zenon
<1>2. SleepIdx(s) \in {3, 4} /\ Other(s) \in Demods /\ Other(s) # s /\ s \in Demods
  BY DEF SleepIdx, Other, Demods
<1>3. /\ asleep' = IF st.kind = "sleep" THEN [asleep EXCEPT ![st.dev] = st.val] ELSE asleep
      /\ agc' = IF st.kind = "agc" THEN [agc EXCEPT ![st.dev] = st.val] ELSE agc
  BY DEF Apply
<1>4. asleep' \in [Demods -> BOOLEAN] /\ agc' \in [Demods -> BOOLEAN]
  BY <1>1, <1>3
<1>5. k + 1 > SleepIdx(s) /\ (k > SleepIdx(s) => asleep[Other(s)]) => asleep'[Other(s)]
  <2> SUFFICES ASSUME k + 1 > SleepIdx(s), k > SleepIdx(s) => asleep[Other(s)]
               PROVE  asleep'[Other(s)]
    OBVIOUS
  <2>1. CASE st.kind # "sleep"
    <3>1. k # SleepIdx(s)
      BY <2>1, <1>1 DEF Sleep, Step
    <3>2. asleep' = asleep
      BY <2>1, <1>3
    <3>3. QED
      BY <3>1, <3>2, <1>2, SMT
  <2>2. CASE st.kind = "sleep" /\ k = SleepIdx(s)
    BY <2>2, <1>1, <1>2, <1>3 DEF Sleep, Step
  <2>3. CASE st.kind = "sleep" /\ k # SleepIdx(s)
    <3>1. k = 7 /\ st = Sleep(s, FALSE)
      BY <2>3, <1>1, Zenon
    <3>2. asleep'[Other(s)] = asleep[Other(s)]
      BY <3>1, <2>3, <1>2, <1>3 DEF Sleep, Step
    <3>3. QED
      BY <3>1, <3>2, <1>2, SMT
  <2>4. QED
    BY <2>1, <2>2, <2>3
<1>6. k + 1 > 7 /\ (k > 7 => ~asleep[s]) => ~asleep'[s]
  <2> SUFFICES ASSUME k + 1 > 7, k > 7 => ~asleep[s]
               PROVE  ~asleep'[s]
    OBVIOUS
  <2>1. CASE k = 7
    BY <2>1, <1>1, <1>2, <1>3 DEF Sleep, Step
  <2>2. CASE k # 7
    <3>1. k > 7 /\ k # SleepIdx(s)
      BY <2>2, <1>2, SMT
    <3>2. st.kind # "sleep"
      BY <3>1, <1>1
    <3>3. QED
      BY <3>1, <3>2, <1>3
  <2>3. QED
    BY <2>1, <2>2
<1>7. k + 1 > 13 /\ (k > 13 => agc[s]) => agc'[s]
  <2> SUFFICES ASSUME k + 1 > 13, k > 13 => agc[s]
               PROVE  agc'[s]
    OBVIOUS
  <2>1. CASE k = 13
    BY <2>1, <1>1, <1>2, <1>3 DEF Agc, Step
  <2>2. CASE k # 13
    <3>1. k > 13 /\ k \notin {1, 2}
      BY <2>2, SMT
    <3>2. st.kind # "agc"
      BY <3>1, <1>1
    <3>3. QED
      BY <3>1, <3>2, <1>3
  <2>3. QED
    BY <2>1, <2>2
<1>8. QED
  BY <1>4, <1>5, <1>6, <1>7

(***************************************************************************)
(* The inductive invariant.  A tune that returns 0 has run every step of  *)
(* its sequence, so the invariant says what the steps done so far have    *)
(* established: past the sleep of the other demodulator it sleeps, past   *)
(* the wake of its own demodulator that one is awake, past the final AGC   *)
(* switch the AGC is on, past the poll the PLL was seen locked.  Inside    *)
(* the poll, once a call has been made, a successful call that reported   *)
(* lock has been seen.                                                     *)
(***************************************************************************)
IInv ==
    /\ TypeOK
    /\ pc # 0 => system \in {"T", "S"}
    /\ pc > 12 => lockSeen
    /\ pc = 12 /\ i < PollMax /\ ret = "Ok" /\ locked => lockSeen
    /\ pc > SleepIdx(system) => asleep[Other(system)]
    /\ pc > 7 => ~asleep[system]
    /\ pc > 13 => agc[system]
    /\ pc = 0 /\ result = "Ok" => lockSeen /\ Ready
    /\ pc = 0 /\ result = "EAGAIN" => i = -1

LEMMA InitIInv == Init => IInv
<1> SUFFICES ASSUME Init PROVE IInv
  OBVIOUS
<1>1. Len(Steps(system)) \in Nat
  <2>1. CASE system \in {"T", "S"}
    BY <2>1, StepsOf
  <2>2. CASE system = "Other"
    BY <2>2, StepFacts DEF Steps
  <2>3. QED
    BY <2>1, <2>2 DEF Init
<1>2. pc \in 0 .. Len(Steps(system)) /\ i \in -1 .. PollMax
  BY <1>1, SMT DEF Init
<1>3. TypeOK
  BY <1>2, Zenon DEF Init, TypeOK
<1>4. SleepIdx(system) \in Nat
  BY DEF SleepIdx
<1>5. QED
  BY <1>3, <1>4, SMT DEF Init, IInv

LEMMA NextIInv == IInv /\ [Next]_vars => IInv'
<1> SUFFICES ASSUME IInv, [Next]_vars PROVE IInv'
  OBVIOUS
<1>0. /\ TypeOK
      /\ SleepIdx(system) \in {3, 4}
  BY DEF IInv, SleepIdx
<1>1. CASE Tune
  <2>1. pc = 0
    BY <1>1 DEF Tune
  <2>2. PICK s \in {"T", "S", "Other"} :
          /\ system' = s
          /\ IF s = "Other" THEN result' = "EINVAL" /\ pc' = 0
                            ELSE result' = result /\ pc' = 1
    BY <1>1 DEF Tune
  <2>3. /\ lockSeen' = FALSE /\ accFail' = FALSE
        /\ UNCHANGED <<i, ret, locked, asleep, agc>>
    BY <1>1 DEF Tune
  <2>4. Len(Steps(s)) \in Nat
    <3>1. CASE s \in {"T", "S"}
      BY <3>1, StepsOf
    <3>2. CASE s = "Other"
      BY <3>2, StepFacts DEF Steps
    <3>3. QED
      BY <3>1, <3>2
  <2>5. SleepIdx(system') \in {3, 4}
    BY DEF SleepIdx
  <2>6. pc' \in {0, 1} /\ (pc' = 1 => s \in {"T", "S"})
    BY <2>2
  <2>7. TypeOK'
    <3>1. pc' \in 0 .. Len(Steps(system'))
      <4>1. CASE s = "Other"
        BY <2>2, <2>4, <4>1, SMT
      <4>2. CASE s # "Other"
        <5>1. Len(Steps(s)) \in {13, 16}
          BY <4>2, StepsOf
        <5>2. pc' = 1 /\ system' = s
          BY <2>2, <4>2
        <5>3. QED
          BY <5>1, <5>2, SMT
      <4>3. QED
        BY <4>1, <4>2
    <3>2. i' \in -1 .. PollMax /\ ret' \in {"Ok", "Err"}
      BY <1>0, <2>3, SMT DEF TypeOK
    <3>3. /\ system' \in {"T", "S", "Other"} /\ locked' \in BOOLEAN
          /\ asleep' \in [Demods -> BOOLEAN] /\ agc' \in [Demods -> BOOLEAN]
      BY <1>0, <2>2, <2>3 DEF TypeOK
    <3>4. /\ result' \in {"None", "Ok", "Err", "EAGAIN", "EINVAL"}
          /\ lockSeen' \in BOOLEAN /\ accFail' \in BOOLEAN
      BY <1>0, <2>2, <2>3, Zenon DEF TypeOK
    <3>5. QED
      BY <3>1, <3>2, <3>3, <3>4 DEF TypeOK
  <2>8. pc' = 0 => result' # "Ok" /\ result' # "EAGAIN"
    <3>1. CASE s = "Other"
      BY <2>2, <3>1
    <3>2. CASE s # "Other"
      <4>1. pc' = 1
        BY <2>2, <3>2
      <4>2. QED
        BY <4>1
    <3>3. QED
      BY <3>1, <3>2
  <2>9. system' = s
    BY <2>2
  <2>10. QED
    BY <2>5, <2>6, <2>7, <2>8, <2>9, SMT DEF IInv
<1>2. CASE CallStep
  <2>1. /\ system \in {"T", "S"}
        /\ pc \in 1 .. Len(Steps(system))
        /\ Steps(system)[pc].kind # "poll"
    <3>1. pc # 0 /\ Steps(system)[pc].kind # "poll"
      BY <1>2 DEF CallStep
    <3>2. QED
      BY <3>1, <1>0, SMT DEF IInv, TypeOK
  <2>2. Len(Steps(system)) \in {13, 16} /\ pc # 12
    BY <2>1, StepsOf
  <2>12. PICK n \in {13, 16} : n = Len(Steps(system))
    BY <2>2
  <2>3. PICK ok, took \in BOOLEAN :
          /\ Apply(Steps(system)[pc], ok \/ took)
          /\ ret' = IF ok THEN "Ok" ELSE "Err"
          /\ accFail' = (accFail \/ ~ok)
          /\ IF ~ok THEN pc' = 0 /\ result' = "Err"
             ELSE IF pc = Len(Steps(system)) THEN pc' = 0 /\ result' = "Ok"
             ELSE pc' = pc + 1 /\ result' = result
          /\ i' = IF ok /\ pc < Len(Steps(system))
                     /\ Steps(system)[pc + 1].kind = "poll"
                  THEN PollMax ELSE i
    BY <1>2 DEF CallStep
  <2>4. system' = system /\ locked' = locked /\ lockSeen' = lockSeen
    BY <1>2 DEF CallStep
  \* What the call did to the demodulators.
  <2>5. /\ asleep' \in [Demods -> BOOLEAN] /\ agc' \in [Demods -> BOOLEAN]
        /\ ok =>
           /\ pc + 1 > SleepIdx(system) /\ (pc > SleepIdx(system) => asleep[Other(system)])
                => asleep'[Other(system)]
           /\ pc + 1 > 7 /\ (pc > 7 => ~asleep[system]) => ~asleep'[system]
           /\ pc + 1 > 13 /\ (pc > 13 => agc[system]) => agc'[system]
    <3>1. asleep \in [Demods -> BOOLEAN] /\ agc \in [Demods -> BOOLEAN]
      BY <1>0 DEF TypeOK
    <3>2. CASE ok \/ took
      <4>1. Apply(Steps(system)[pc], TRUE)
        BY <2>3, <3>2 DEF Apply
      <4>2. QED
        BY <2>1, <3>1, <4>1, ApplyStep, Zenon
    <3>3. CASE ~ok /\ ~took
      <4>1. asleep' = asleep /\ agc' = agc
        BY <2>3, <3>3 DEF Apply
      <4>2. QED
        BY <3>1, <3>3, <4>1
    <3>4. QED
      BY <3>2, <3>3
  <2>6. /\ i' \in -1 .. PollMax
        /\ pc' \in 0 .. Len(Steps(system))
        /\ ret' \in {"Ok", "Err"} /\ accFail' \in BOOLEAN
        /\ result' \in {"None", "Ok", "Err", "EAGAIN", "EINVAL"}
    BY <1>0, <2>1, <2>2, <2>3, SMT DEF TypeOK
  <2>7. TypeOK'
    BY <1>0, <2>4, <2>5, <2>6 DEF TypeOK
  <2>8. CASE ~ok
    <3>1. pc' = 0 /\ result' = "Err"
      BY <2>3, <2>8
    <3>2. QED
      BY <2>4, <2>7, <3>1, <1>0, SMT DEF IInv
  <2>9. CASE ok /\ pc = Len(Steps(system))
    <3>1. pc' = 0 /\ result' = "Ok"
      BY <2>3, <2>9
    <3>2. lockSeen'
      <4>1. pc > 12
        <5>1. n \in {13, 16} /\ pc = n
          BY <2>12, <2>9
        <5>2. QED
          BY ONLY <5>1, SMT
      <4>2. QED
        BY <1>0, <2>4, <4>1 DEF IInv
    <3>3. Ready'
      <4>1. /\ pc + 1 > SleepIdx(system) /\ pc + 1 > 7 /\ pc + 1 > 13
            /\ pc > SleepIdx(system) /\ pc > 7
        <5>1. n \in {13, 16} /\ pc = n /\ SleepIdx(system) \in {3, 4}
          BY <2>12, <2>9 DEF SleepIdx
        <5>2. QED
          BY ONLY <5>1, SMT
      <4>2. asleep[Other(system)] /\ ~asleep[system] /\ (pc > 13 => agc[system])
        BY <4>1 DEF IInv
      <4>3. QED
        BY <2>4, <2>5, <2>9, <4>1, <4>2 DEF Ready
    <3>4. QED
      BY <2>4, <2>7, <3>1, <3>2, <3>3, <1>0, SMT DEF IInv
  <2>10. CASE ok /\ pc # Len(Steps(system))
    <3>1. pc' = pc + 1 /\ result' = result
      BY <2>3, <2>10
    <3>2. pc + 1 = 12 => i' = PollMax
      <4>1. pc + 1 = 12 => pc < Len(Steps(system)) /\ Steps(system)[pc + 1].kind = "poll"
        <5>1. SUFFICES ASSUME pc + 1 = 12
                       PROVE  pc < Len(Steps(system)) /\ Steps(system)[pc + 1].kind = "poll"
          OBVIOUS
        <5>2. \A k \in 1 .. Len(Steps(system)) : Steps(system)[k].kind = "poll" <=> k = 12
          BY <2>1, StepsOf
        <5>3. pc < Len(Steps(system)) /\ pc + 1 = 12 /\ 12 \in 1 .. Len(Steps(system))
          <6>1. n \in {13, 16} /\ pc \in 1 .. n
            BY <2>1, <2>12
          <6>2. pc < n /\ 12 \in 1 .. n
            BY ONLY <6>1, <5>1, SMT
          <6>3. QED
            BY <6>2, <5>1, <2>12, Zenon
        <5>4. QED
          BY <5>2, <5>3, Zenon
      <4>2. QED
        BY <2>3, <2>10, <4>1
    <3>3. pc + 1 > 12 => lockSeen'
      BY <2>1, <2>2, <2>4, SMT DEF IInv
    <3>4. /\ pc + 1 > SleepIdx(system) => asleep'[Other(system)]
          /\ pc + 1 > 7 => ~asleep'[system]
          /\ pc + 1 > 13 => agc'[system]
      BY <2>5, <2>10 DEF IInv
    <3>5. QED
      BY <1>0, <2>4, <2>7, <3>1, <3>2, <3>3, <3>4, <2>1, SMT DEF IInv
  <2>11. QED
    BY <2>8, <2>9, <2>10
\* The poll runs at step 12 of both sequences.
<1>3. CASE PollIter
  <2>1. system \in {"T", "S"} /\ pc = 12 /\ i > 0
    <3>1. pc # 0 /\ Steps(system)[pc].kind = "poll" /\ i > 0
      BY <1>3 DEF PollIter
    <3>2. system \in {"T", "S"} /\ pc \in 1 .. Len(Steps(system))
      BY <3>1, <1>0, SMT DEF IInv, TypeOK
    <3>3. QED
      BY <3>1, <3>2, StepsOf
  <2>2. PICK r \in {"Ok", "Err"}, l \in BOOLEAN :
          /\ ret' = r
          /\ locked' = l
          /\ lockSeen' = (lockSeen \/ (r = "Ok" /\ l))
          /\ accFail' = (accFail \/ r = "Err")
          /\ pc' = IF r = "Ok" /\ l THEN pc + 1 ELSE pc
    BY <1>3 DEF PollIter
  <2>3. /\ i' = i - 1
        /\ system' = system /\ asleep' = asleep /\ agc' = agc /\ result' = result
    BY <1>3 DEF PollIter
  <2>4. pc' \in {12, 13} /\ (pc' = 13 => lockSeen') /\ (ret' = "Ok" /\ locked' => lockSeen')
    BY <2>1, <2>2
  <2>5. Len(Steps(system)) \in {13, 16}
    BY <2>1, StepsOf
  <2>6. TypeOK'
    <3>0. i \in -1 .. PollMax
      BY <1>0 DEF TypeOK
    <3>1a. i' \in -1 .. PollMax
      BY <2>1, <2>3, <3>0, SMT
    <3>1b. Len(Steps(system')) \in {13, 16}
      BY <2>3, <2>5
    <3>1c. \A n \in {13, 16} : pc' \in 0 .. n
      BY <2>4, SMT
    <3>1. i' \in -1 .. PollMax /\ pc' \in 0 .. Len(Steps(system'))
      BY <3>1a, <3>1b, <3>1c, Zenon
    <3>2. QED
      BY <1>0, <2>2, <2>3, <3>1 DEF TypeOK
  <2>7. QED
    BY <1>0, <2>1, <2>3, <2>4, <2>6, SMT DEF IInv
<1>4. CASE PollExit
  <2>1. system \in {"T", "S"} /\ pc = 12 /\ i = 0
    <3>1. pc # 0 /\ Steps(system)[pc].kind = "poll" /\ i = 0
      BY <1>4 DEF PollExit
    <3>2. system \in {"T", "S"} /\ pc \in 1 .. Len(Steps(system))
      BY <3>1, <1>0, SMT DEF IInv, TypeOK
    <3>3. QED
      BY <3>1, <3>2, StepsOf
  <2>2. /\ i' = -1
        /\ IF ret = "Err" THEN pc' = 0 /\ result' = "Err"
           ELSE IF ~locked THEN pc' = 0 /\ result' = "EAGAIN"
           ELSE pc' = pc + 1 /\ result' = result
        /\ UNCHANGED <<system, ret, locked, asleep, agc, lockSeen, accFail>>
    BY <1>4 DEF PollExit
  <2>3. ret = "Ok" /\ locked => lockSeen
    BY <1>0, <2>1, SMT DEF IInv
  <2>4. \/ pc' = 0 /\ result' = "Err"
        \/ pc' = 0 /\ result' = "EAGAIN"
        \/ pc' = 13 /\ lockSeen' /\ result' = result
    <3>1. CASE ret = "Err"
      BY <2>2, <3>1
    <3>2. CASE ret # "Err" /\ ~locked
      BY <2>2, <3>2
    <3>3. CASE ret # "Err" /\ locked
      <4>1. ret = "Ok"
        BY <1>0, <3>3 DEF TypeOK
      <4>2. pc' = pc + 1 /\ result' = result /\ lockSeen' = lockSeen
        BY <2>2, <3>3
      <4>3. QED
        BY <2>1, <2>3, <3>3, <4>1, <4>2, SMT
    <3>4. QED
      BY <3>1, <3>2, <3>3
  <2>5. Len(Steps(system)) \in {13, 16} /\ system' = system
    BY <2>1, <2>2, StepsOf
  <2>6. TypeOK'
    <3>1a. Len(Steps(system')) \in {13, 16}
      BY <2>5
    <3>1b. pc' \in {0, 13} /\ i' = -1
      BY <2>2, <2>4
    <3>1c. \A n \in {13, 16} : pc' \in 0 .. n /\ i' \in -1 .. PollMax
      BY <3>1b, SMT
    <3>1. i' \in -1 .. PollMax /\ pc' \in 0 .. Len(Steps(system'))
      BY <3>1a, <3>1c, Zenon
    <3>2. result' \in {"None", "Ok", "Err", "EAGAIN", "EINVAL"}
      BY <1>0, <2>4 DEF TypeOK
    <3>3. QED
      BY <1>0, <2>2, <3>1, <3>2 DEF TypeOK
  <2>7. QED
    BY <1>0, <2>1, <2>2, <2>4, <2>5, <2>6, SMT DEF IInv
<1>6. CASE UNCHANGED vars
  <2>1. TypeOK'
    BY <1>0, <1>6 DEF vars, TypeOK
  <2>2. QED
    BY <1>6, <2>1 DEF vars, IInv, Ready
<1>5. QED
  BY <1>1, <1>2, <1>3, <1>4, <1>6 DEF Next, TuneStep

-----------------------------------------------------------------------------
\* Every tune keeps the locals and the demodulator state within their types.
THEOREM TuneTypeCorrect == Spec => []TypeOK
<1>1. IInv => TypeOK
  BY DEF IInv
<1>2. QED
  BY InitIInv, NextIInv, <1>1, PTL DEF Spec

\* m1ur_chrdev_tune returns 0 only after its poll saw the PLL locked, for
\* every poll budget.
THEOREM TuneLocked == Spec => []TunedOnlyWhenLocked
<1>1. IInv => TunedOnlyWhenLocked
  BY DEF IInv, TunedOnlyWhenLocked
<1>2. QED
  BY InitIInv, NextIInv, <1>1, PTL DEF Spec

\* A tune that returns 0 leaves its demodulator awake with AGC on and the
\* other asleep, whatever failed tunes before it left behind.
THEOREM TuneReady == Spec => []ReadyAfterTune
<1>1. IInv => ReadyAfterTune
  BY DEF IInv, ReadyAfterTune, Ready
<1>2. QED
  BY InitIInv, NextIInv, <1>1, PTL DEF Spec

\* m1ur_chrdev_tune returns -EAGAIN only with the poll budget spent.
THEOREM TuneBudgetSpent == Spec => []NotLockedAfterFullBudget
<1>1. IInv => NotLockedAfterFullBudget
  BY DEF IInv, NotLockedAfterFullBudget
<1>2. QED
  BY InitIInv, NextIInv, <1>1, PTL DEF Spec

-----------------------------------------------------------------------------
(***************************************************************************)
(* Refinement: M1urTune implements M1urTuneAbs under busy <- pc # 0 and   *)
(* sys <- system.  The call that starts a tune is a Request, a call of the *)
(* sequence that does not end it is a Program step, the call or poll exit *)
(* that ends it is a Return, and a poll iteration or the exit into the   *)
(* AGC step is a stutter.  The Return of 0 needs Ready in the state after *)
(* the last call, which IInv' supplies.                                    *)
(***************************************************************************)
LEMMA InitRefines == Init => TuneAbs!Init
BY DEF Init, TuneAbs!Init, TuneAbs!Demods, Demods

LEMMA NextRefines ==
    IInv /\ IInv' /\ [Next]_vars => [TuneAbs!Next]_TuneAbs!avars
<1> SUFFICES ASSUME IInv, IInv', [Next]_vars
             PROVE  [TuneAbs!Next]_TuneAbs!avars
  OBVIOUS
<1>0. TypeOK /\ TypeOK'
  BY DEF IInv
<1>1. CASE Tune
  <2>1. TuneAbs!Request
    BY <1>1 DEF Tune, TuneAbs!Request
  <2>2. QED
    BY <2>1 DEF TuneAbs!Next
<1>2. CASE CallStep
  <2>1. PICK ok, took \in BOOLEAN :
          IF ~ok THEN pc' = 0 /\ result' = "Err"
          ELSE IF pc = Len(Steps(system)) THEN pc' = 0 /\ result' = "Ok"
          ELSE pc' = pc + 1 /\ result' = result
    BY <1>2 DEF CallStep
  <2>2. pc # 0 /\ system' = system
    BY <1>2 DEF CallStep
  <2>3. asleep' \in [TuneAbs!Demods -> BOOLEAN]
        /\ agc' \in [TuneAbs!Demods -> BOOLEAN]
    BY <1>0 DEF TypeOK, TuneAbs!Demods, Demods
  <2>4. CASE ~ok
    <3>1. pc' = 0 /\ result' = "Err"
      BY <2>1, <2>4
    <3>2. TuneAbs!Return
      BY <2>2, <2>3, <3>1 DEF TuneAbs!Return
    <3>3. QED
      BY <3>2 DEF TuneAbs!Next
  <2>5. CASE ok /\ pc = Len(Steps(system))
    <3>1. pc' = 0 /\ result' = "Ok"
      BY <2>1, <2>5
    <3>2. Ready'
      BY <3>1 DEF IInv
    <3>3. TuneAbs!Ready(system, asleep', agc')
      BY <2>2, <3>2 DEF Ready, TuneAbs!Ready, Other, TuneAbs!Other
    <3>4. TuneAbs!Return
      BY <2>2, <2>3, <3>1, <3>3 DEF TuneAbs!Return
    <3>5. QED
      BY <3>4 DEF TuneAbs!Next
  <2>6. CASE ok /\ pc # Len(Steps(system))
    <3>1. pc' = pc + 1 /\ result' = result
      BY <2>1, <2>6
    <3>2. pc' # 0
      BY <1>0, <3>1, SMT DEF TypeOK
    <3>3. TuneAbs!Program
      BY <2>2, <2>3, <3>1, <3>2 DEF TuneAbs!Program
    <3>4. QED
      BY <3>3 DEF TuneAbs!Next
  <2>7. QED
    BY <2>4, <2>5, <2>6
<1>3. CASE PollIter
  <2>1. PICK r \in {"Ok", "Err"}, l \in BOOLEAN :
          pc' = IF r = "Ok" /\ l THEN pc + 1 ELSE pc
    BY <1>3 DEF PollIter
  <2>2. pc # 0 /\ UNCHANGED <<system, asleep, agc, result>>
    BY <1>3 DEF PollIter
  <2>3. pc' # 0
    BY <1>0, <2>1, <2>2, SMT DEF TypeOK
  <2>4. QED
    BY <2>2, <2>3 DEF TuneAbs!avars
<1>4. CASE PollExit
  <2>1. pc # 0 /\ UNCHANGED <<system, asleep, agc>>
    BY <1>4 DEF PollExit
  <2>2. \/ pc' = 0 /\ result' \in {"Err", "EAGAIN"}
        \/ pc' = pc + 1 /\ result' = result
    BY <1>4 DEF PollExit
  <2>3. CASE pc' = 0 /\ result' \in {"Err", "EAGAIN"}
    <3>1. TuneAbs!Return
      BY <1>0, <2>1, <2>3 DEF TuneAbs!Return, TypeOK, TuneAbs!Demods, Demods
    <3>2. QED
      BY <3>1 DEF TuneAbs!Next
  <2>4. CASE pc' = pc + 1 /\ result' = result
    <3>1. pc' # 0
      BY <1>0, <2>4, SMT DEF TypeOK
    <3>2. QED
      BY <2>1, <2>4, <3>1 DEF TuneAbs!avars
  <2>5. QED
    BY <2>2, <2>3, <2>4
<1>5. CASE UNCHANGED vars
  BY <1>5 DEF vars, TuneAbs!avars
<1>6. QED
  BY <1>1, <1>2, <1>3, <1>4, <1>5 DEF Next, TuneStep

\* Every behaviour of m1ur_chrdev_tune is a behaviour of the tune contract
\* M1urTuneAbs (its safety part; that every tune returns is TuneReturns,
\* checked by TLC): for every poll budget, a tune returns 0 only in a state
\* Ready for its system, and nothing outside a tune changes the demodulators.
THEOREM TuneRefines == Spec => TuneAbs!Spec
<1>1. Spec => []IInv
  BY InitIInv, NextIInv, PTL DEF Spec
<1>2. QED
  BY <1>1, InitRefines, NextRefines, PTL DEF Spec, TuneAbs!Spec

=============================================================================
