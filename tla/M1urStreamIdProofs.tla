------------------------- MODULE M1urStreamIdProofs -------------------------
(***************************************************************************)
(* Proofs for M1urStreamId, for every slot bound, TSID set and budget.    *)
(*                                                                         *)
(* SelectedWhenOk is not inductive: a verification poll starts with ret   *)
(* = 0 from tc90522_set_tsid_s and a garbage tsid2 that may equal tsid.    *)
(* What makes the final comparison safe is that, once the poll has made a *)
(* call, "ret = 0 and tsid2 = tsid" means that call succeeded with tsid   *)
(* (it would have broken out otherwise), and i < 100 tells that a call    *)
(* was made.                                                               *)
(***************************************************************************)
EXTENDS M1urStreamId, TLAPS

USE StreamIdAssumption

IInv ==
    /\ TypeOK
    /\ pc \in {"SetTsid", "Verify"} => tsid # 0
    /\ pc = "Verify" => programmed = tsid
    /\ pc = "Verify" /\ i < PollMax /\ ret = "Ok" /\ tsid2 = tsid => verified
    /\ pc = "Idle" /\ result = "Ok" => verified /\ programmed = tsid

\* The invariant holds in the initial states.
LEMMA InitIInv == Init => IInv
BY Zenon DEF Init, IInv, TypeOK

\* Every step preserves the invariant.
LEMMA NextIInv == IInv /\ [Next]_vars => IInv'
<1> SUFFICES ASSUME IInv, [Next]_vars PROVE IInv'
    OBVIOUS
<1>1. CASE SetStreamId
    <2>1. PICK isS \in BOOLEAN, sid \in StreamIds, g \in Values :
              \/ /\ ~isS
                 /\ result' = "EINVAL"
                 /\ UNCHANGED <<pc, i, tsid>>
              \/ /\ isS /\ sid < SlotCount
                 /\ pc' = "Tmcc" /\ i' = PollMax /\ tsid' = g
                 /\ UNCHANGED result
              \/ /\ isS /\ sid >= SlotCount
                 /\ pc' = "SetTsid" /\ tsid' = sid
                 /\ UNCHANGED <<i, result>>
        BY <1>1, Zenon DEF SetStreamId
    <2>2. pc = "Idle" /\ tsid2' \in Values /\ verified' = FALSE
          /\ ret' = ret /\ programmed' = programmed
        BY <1>1, Zenon DEF SetStreamId
    <2>3. sid >= SlotCount => sid \in Values /\ sid # 0
        BY SMT DEF StreamIds, Values
    <2>4. CASE ~isS
        <3>1. result' = "EINVAL" /\ pc' = pc /\ i' = i /\ tsid' = tsid
            BY <2>1, <2>4, Zenon
        <3>2. QED
            BY <2>2, <3>1, Zenon DEF IInv, TypeOK
    <2>5. CASE isS /\ sid < SlotCount
        <3>0. ~(sid >= SlotCount)
            BY <2>5, SMT DEF StreamIds
        <3>1. pc' = "Tmcc" /\ i' = PollMax /\ tsid' = g /\ result' = result
            BY <2>1, <2>5, <3>0, Zenon
        <3>2. PollMax \in -1 .. PollMax
            BY SMT
        <3>3. QED
            BY <2>2, <3>1, <3>2, Zenon DEF IInv, TypeOK
    <2>6. CASE isS /\ sid >= SlotCount
        <3>0. ~(sid < SlotCount)
            BY <2>6, SMT DEF StreamIds
        <3>1. pc' = "SetTsid" /\ tsid' = sid /\ i' = i /\ result' = result
            BY <2>1, <2>6, <3>0, Zenon
        <3>2. QED
            BY <2>2, <2>3, <2>6, <3>1, Zenon DEF IInv, TypeOK
    <2>7. QED
        BY <2>4, <2>5, <2>6, SMT DEF StreamIds
<1>2. CASE TmccIter
    <2>1. PICK r \in {"Ok", "Err", "EINVAL"}, t \in Values :
              /\ ret' = r /\ tsid' = t
              /\ IF (r = "Ok" /\ t # 0) \/ r = "EINVAL"
                 THEN AfterTmcc(r, t)
                 ELSE UNCHANGED <<pc, result>>
        BY <1>2, Zenon DEF TmccIter
    <2>2. CASE (r = "Ok" /\ t # 0) \/ r = "EINVAL"
        <3>1. AfterTmcc(r, t)
            BY <2>1, <2>2, Zenon
        <3>2. \/ r # "Ok" /\ pc' = "Idle" /\ result' = r
              \/ r = "Ok" /\ t # 0 /\ pc' = "SetTsid" /\ result' = result
            BY <3>1, <2>2, Zenon DEF AfterTmcc
        <3>3. QED
            BY <1>2, <2>1, <3>2, SMT DEF TmccIter, IInv, TypeOK, Values
    <2>3. CASE ~((r = "Ok" /\ t # 0) \/ r = "EINVAL")
        <3>1. pc' = pc /\ result' = result
            BY <2>1, <2>3, Zenon
        <3>2. QED
            BY <1>2, <2>1, <3>1, SMT DEF TmccIter, IInv, TypeOK, Values
    <2>4. QED
        BY <2>2, <2>3
<1>3. CASE TmccExit
    <2>1. \/ ret # "Ok" /\ pc' = "Idle" /\ result' = ret
          \/ ret = "Ok" /\ tsid = 0 /\ pc' = "Idle" /\ result' = "EAGAIN"
          \/ ret = "Ok" /\ tsid # 0 /\ pc' = "SetTsid" /\ result' = result
        BY <1>3, Zenon DEF TmccExit, AfterTmcc
    <2>2. QED
        BY <1>3, <2>1, SMT DEF TmccExit, IInv, TypeOK
<1>4. CASE SetTsid
    <2>1. PICK ok \in BOOLEAN, took \in BOOLEAN :
              /\ ret' = IF ok THEN "Ok" ELSE "Err"
              /\ programmed' = IF ok \/ took THEN tsid ELSE programmed
              /\ IF ok THEN pc' = "Verify" /\ i' = PollMax /\ result' = result
                       ELSE pc' = "Idle" /\ i' = i /\ result' = "Err"
        BY <1>4, Zenon DEF SetTsid
    <2>2. CASE ok
        <3>1. ret' = "Ok" /\ programmed' = tsid /\ pc' = "Verify"
              /\ i' = PollMax /\ result' = result
            BY <2>1, <2>2, Zenon
        <3>2. QED
            BY <1>4, <3>1, SMT DEF SetTsid, IInv, TypeOK, Values
    <2>3. CASE ~ok
        <3>1. ret' = "Err" /\ programmed' \in {tsid, programmed}
              /\ pc' = "Idle" /\ i' = i /\ result' = "Err"
            BY <2>1, <2>3, Zenon
        <3>2. QED
            BY <1>4, <3>1, SMT DEF SetTsid, IInv, TypeOK, Values
    <2>4. QED
        BY <2>2, <2>3
<1>5. CASE VerifyIter
    <2>1. PICK r \in {"Ok", "Err"}, t2 \in Values :
              /\ ret' = r /\ tsid2' = t2
              /\ verified' = (verified \/ (r = "Ok" /\ t2 = tsid))
              /\ IF r = "Ok" /\ t2 = tsid
                 THEN pc' = "Idle" /\ AfterVerify(r, t2)
                 ELSE UNCHANGED <<pc, result>>
        BY <1>5, Zenon DEF VerifyIter
    <2>2. CASE r = "Ok" /\ t2 = tsid
        <3>1. pc' = "Idle" /\ result' = "Ok" /\ verified'
            BY <2>1, <2>2, Zenon DEF AfterVerify
        <3>2. QED
            BY <1>5, <2>1, <3>1, SMT DEF VerifyIter, IInv, TypeOK, Values
    <2>3. CASE ~(r = "Ok" /\ t2 = tsid)
        <3>1. pc' = pc /\ result' = result
            BY <2>1, <2>3, Zenon
        <3>2. QED
            BY <1>5, <2>1, <2>3, <3>1, SMT DEF VerifyIter, IInv, TypeOK, Values
    <2>4. QED
        BY <2>2, <2>3
<1>6. CASE VerifyExit
    <2>1. pc' = "Idle" /\ result' = IF tsid2 # tsid THEN "EAGAIN" ELSE ret
        BY <1>6, Zenon DEF VerifyExit, AfterVerify
    <2>2. QED
        BY <1>6, <2>1, SMT DEF VerifyExit, IInv, TypeOK
<1>7. CASE UNCHANGED vars
    BY <1>7 DEF vars, IInv, TypeOK
<1>8. QED
    BY <1>1, <1>2, <1>3, <1>4, <1>5, <1>6, <1>7 DEF Next, CallStep

\* The call's variables always have their types.
THEOREM StreamIdTypeCorrect == Spec => []TypeOK
<1>1. IInv => TypeOK
    BY DEF IInv
<1>2. QED
    BY InitIInv, NextIInv, <1>1, PTL DEF Spec

\* set_stream_id returns 0 only after tc90522_set_tsid_s succeeded and a
\* read of the demodulator in the same call returned the TSID, whatever
\* garbage tsid2 held and however the reads failed.
THEOREM StreamIdSelected == Spec => []SelectedWhenOk
<1>1. IInv => SelectedWhenOk
    BY DEF IInv, SelectedWhenOk
<1>2. QED
    BY InitIInv, NextIInv, <1>1, PTL DEF Spec

\* TSID 0 from the TMCC table is never written to the demodulator.
THEOREM StreamIdNoZero == Spec => []NoZeroTsidWritten
<1>1. IInv => NoZeroTsidWritten
    BY DEF IInv, NoZeroTsidWritten
<1>2. QED
    BY InitIInv, NextIInv, <1>1, PTL DEF Spec

=============================================================================
