---------------------------- MODULE M1urStreamId ----------------------------
(***************************************************************************)
(* m1ur_chrdev_set_stream_id (m1ur_device.c lines 624-691): select the    *)
(* transport stream of an ISDB-S channel.  A stream id below 12 is a      *)
(* slot of the TMCC table, looked up by a poll of at most 100 calls of    *)
(* tc90522_tmcc_get_tsid_s; a larger id is the TSID itself.  The TSID is  *)
(* written with tc90522_set_tsid_s and then verified by a second poll of  *)
(* at most 100 calls of tc90522_get_tsid_s.                                *)
(*                                                                         *)
(* The chips' answers are free: any call may fail, the TMCC lookup may    *)
(* report an invalid slot or a TSID not yet known (0), and the TSID read   *)
(* back may be any TSID, the new one or a stale one.  A call that fails   *)
(* may or may not have written its output.                                 *)
(***************************************************************************)
EXTENDS Integers

CONSTANTS
    SlotCount,  \* 12: stream ids below it are TMCC slots
    Tsids,      \* the nonzero TSIDs the chips may report
    PollMax     \* 100: the budget of each poll

ASSUME StreamIdAssumption ==
    /\ SlotCount \in Nat \ {0}
    /\ PollMax \in Nat \ {0}
    /\ Tsids \subseteq Nat \ {0}

\* The u16 values of tsid and tsid2 that matter: no TSID yet, or one of
\* the TSIDs.
Values == {0} \cup Tsids

\* The stream ids a caller passes: a slot, or a TSID of at least SlotCount.
StreamIds == {0} \cup {t \in Tsids : t >= SlotCount}

VARIABLES
    pc,         \* "Idle", or where the running call is
    i,          \* the loop counter of the running poll
    ret,        \* ret of the last chip call
    tsid,       \* the local tsid
    tsid2,      \* the local tsid2
    programmed, \* the TSID the last successful tc90522_set_tsid_s wrote
    result,     \* what the last call returned ("None" before the first)
    verified    \* a tc90522_get_tsid_s of this call succeeded with tsid

vars == <<pc, i, ret, tsid, tsid2, programmed, result, verified>>

TypeOK ==
    /\ pc \in {"Idle", "Tmcc", "SetTsid", "Verify"}
    /\ i \in -1 .. PollMax
    /\ ret \in {"Ok", "Err", "EINVAL"}
    /\ tsid \in Values /\ tsid2 \in Values
    /\ programmed \in Values
    /\ result \in {"None", "Ok", "Err", "EINVAL", "EAGAIN"}
    /\ verified \in BOOLEAN

\* The locals hold garbage before the first call; the demodulator's TSID
\* register holds whatever it held.
Init ==
    /\ pc = "Idle"
    /\ i \in -1 .. PollMax
    /\ ret \in {"Ok", "Err", "EINVAL"}
    /\ tsid \in Values /\ tsid2 \in Values
    /\ programmed \in Values
    /\ result = "None"
    /\ verified = FALSE

(***************************************************************************)
(* The call (lines 637-662 and 664-665): -EINVAL unless the current       *)
(* system is ISDB-S; a slot starts the TMCC poll with i = 100, a TSID goes *)
(* straight to tc90522_set_tsid_s.  The locals are fresh garbage.          *)
(***************************************************************************)
SetStreamId ==
    /\ pc = "Idle"
    /\ \E isS \in BOOLEAN, sid \in StreamIds, g \in Values :
        \/ /\ ~isS
           /\ result' = "EINVAL"
           /\ UNCHANGED <<pc, i, tsid>>
        \/ /\ isS /\ sid < SlotCount
           /\ pc' = "Tmcc" /\ i' = PollMax /\ tsid' = g
           /\ UNCHANGED result
        \/ /\ isS /\ sid >= SlotCount
           /\ pc' = "SetTsid" /\ tsid' = sid
           /\ UNCHANGED <<i, result>>
    /\ \E g2 \in Values : tsid2' = g2
    /\ verified' = FALSE
    /\ UNCHANGED <<ret, programmed>>

\* Mutant: a TSID of 0 from the TMCC table is written like any other.
AfterTmccNoZeroCheck(r, t) ==
    IF r # "Ok" THEN pc' = "Idle" /\ result' = r
    ELSE pc' = "SetTsid" /\ result' = result

\* After the TMCC poll (lines 651-661): its last error is returned, and a
\* TSID still 0 is -EAGAIN.
AfterTmcc(r, t) ==
    IF r # "Ok" THEN pc' = "Idle" /\ result' = r
    ELSE IF t = 0 THEN pc' = "Idle" /\ result' = "EAGAIN"
    ELSE pc' = "SetTsid" /\ result' = result

(***************************************************************************)
(* One iteration of the TMCC poll (lines 643-650): break on a nonzero     *)
(* TSID or on -EINVAL (invalid slot), else msleep(10) and retry.           *)
(***************************************************************************)
TmccIter ==
    /\ pc = "Tmcc"
    /\ i > 0
    /\ i' = i - 1
    /\ \E r \in {"Ok", "Err", "EINVAL"}, t \in Values :
        /\ ret' = r /\ tsid' = t
        /\ IF (r = "Ok" /\ t # 0) \/ r = "EINVAL"
           THEN AfterTmcc(r, t)
           ELSE UNCHANGED <<pc, result>>
    /\ UNCHANGED <<tsid2, programmed, verified>>

\* The TMCC poll spent its budget.
TmccExit ==
    /\ pc = "Tmcc"
    /\ i = 0
    /\ i' = -1
    /\ AfterTmcc(ret, tsid)
    /\ UNCHANGED <<ret, tsid, tsid2, programmed, verified>>

\* Mutant: the verification poll is given one call more than its budget.
SetTsidOffByOne ==
    /\ pc = "SetTsid"
    /\ \E ok, took \in BOOLEAN :
        /\ ret' = IF ok THEN "Ok" ELSE "Err"
        /\ programmed' = IF ok \/ took THEN tsid ELSE programmed
        /\ IF ok THEN pc' = "Verify" /\ i' = PollMax + 1 /\ result' = result
                 ELSE pc' = "Idle" /\ i' = i /\ result' = "Err"
    /\ UNCHANGED <<tsid, tsid2, verified>>

(***************************************************************************)
(* tc90522_set_tsid_s (lines 667-673): on failure its error is returned;  *)
(* then the verification poll starts with i = 100.  A failed write may    *)
(* have reached the register.                                              *)
(***************************************************************************)
SetTsid ==
    /\ pc = "SetTsid"
    /\ \E ok, took \in BOOLEAN :
        /\ ret' = IF ok THEN "Ok" ELSE "Err"
        /\ programmed' = IF ok \/ took THEN tsid ELSE programmed
        /\ IF ok THEN pc' = "Verify" /\ i' = PollMax /\ result' = result
                 ELSE pc' = "Idle" /\ i' = i /\ result' = "Err"
    /\ UNCHANGED <<tsid, tsid2, verified>>

\* Mutant: the last ret is returned without comparing tsid2.
AfterVerifyNoCompare(r, t2) == result' = r

\* After the verification poll (lines 687-690): -EAGAIN unless tsid2 is
\* tsid, else the last ret.
AfterVerify(r, t2) == result' = IF t2 # tsid THEN "EAGAIN" ELSE r

\* Mutant: the verification poll does not count down.
VerifyIterNoCount ==
    /\ pc = "Verify"
    /\ i > 0
    /\ \E r \in {"Ok", "Err"}, t2 \in Values :
        /\ ret' = r /\ tsid2' = t2
        /\ verified' = (verified \/ (r = "Ok" /\ t2 = tsid))
        /\ IF r = "Ok" /\ t2 = tsid
           THEN pc' = "Idle" /\ AfterVerify(r, t2)
           ELSE UNCHANGED <<pc, result>>
    /\ UNCHANGED <<i, tsid, programmed>>

(***************************************************************************)
(* One iteration of the verification poll (lines 677-685): break when     *)
(* tc90522_get_tsid_s succeeds with tsid, else msleep(10) and retry.  A   *)
(* failed read may leave tsid2 as it was, garbage included.                *)
(***************************************************************************)
VerifyIter ==
    /\ pc = "Verify"
    /\ i > 0
    /\ i' = i - 1
    /\ \E r \in {"Ok", "Err"}, t2 \in Values :
        /\ ret' = r /\ tsid2' = t2
        /\ verified' = (verified \/ (r = "Ok" /\ t2 = tsid))
        /\ IF r = "Ok" /\ t2 = tsid
           THEN pc' = "Idle" /\ AfterVerify(r, t2)
           ELSE UNCHANGED <<pc, result>>
    /\ UNCHANGED <<tsid, programmed>>

\* The verification poll spent its budget.
VerifyExit ==
    /\ pc = "Verify"
    /\ i = 0
    /\ i' = -1
    /\ pc' = "Idle"
    /\ AfterVerify(ret, tsid2)
    /\ UNCHANGED <<ret, tsid, tsid2, programmed, verified>>

\* The steps of a running call, taken on the caller's thread.
CallStep == TmccIter \/ TmccExit \/ SetTsid \/ VerifyIter \/ VerifyExit

Next == SetStreamId \/ CallStep

Spec == Init /\ [][Next]_vars

\* The call runs to its return on the chrdev layer's thread: msleep and
\* the register accesses return.
FairSpec == Spec /\ WF_vars(CallStep)

-----------------------------------------------------------------------------
(***************************************************************************)
(* Properties.                                                             *)
(***************************************************************************)

\* set_stream_id returns 0 only when the TSID was written and a successful
\* read of the demodulator returned it in this call: a garbage or stale
\* tsid2 after a poll of failed reads never passes for a verified slot.
SelectedWhenOk ==
    pc = "Idle" /\ result = "Ok" => verified /\ programmed = tsid

\* A TSID of 0 from the TMCC table (slot not yet known) is never written
\* to the demodulator: such a lookup ends in -EAGAIN.
NoZeroTsidWritten == pc \in {"SetTsid", "Verify"} => tsid # 0

\* Every call returns: both polls are bounded by their budget.
SetStreamIdReturns == pc # "Idle" ~> pc = "Idle"

=============================================================================
