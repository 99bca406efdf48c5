------------------------------ MODULE M1urTune ------------------------------
(***************************************************************************)
(* m1ur_chrdev_tune (m1ur_device.c lines 358-598): the tune sequence of    *)
(* each broadcast system, step by step, with its bounded PLL-lock poll.    *)
(*                                                                         *)
(* A tune is a fixed sequence of hardware calls on the two demodulators   *)
(* (tc90522_t, tc90522_s) and the tuner of the system (r850 for ISDB-T,   *)
(* rt710 for ISDB-S).  Each call may fail; the first failure breaks out   *)
(* of the switch and is returned, and what the earlier calls did stays    *)
(* (no rollback).  Register values are abstracted: a step is a register   *)
(* write, an AGC or sleep switch of a demodulator, a tuner call, or the   *)
(* poll.  The chrdev layer calls tune again at will (re-tune to recover). *)
(***************************************************************************)
EXTENDS Integers, Sequences

CONSTANT PollMax    \* the budget i = 50 of the PLL-lock poll

ASSUME PollAssumption == PollMax \in Nat \ {0}

VARIABLES
    system,     \* params->system of the running (or last) tune
    pc,         \* the step of Steps(system) being executed; 0: not in tune
    i,          \* the loop counter of the poll
    ret,        \* ret of the last hardware call: "Ok" or "Err"
    locked,     \* tuner_locked as last written by *_is_pll_locked
    asleep,     \* asleep[d]: demodulator d is in sleep mode
    agc,        \* agc[d]: automatic gain control of demodulator d is on
    result,     \* what the last tune returned ("None" before the first)
    \* Observability variables of the running tune:
    lockSeen,   \* a poll call reported the PLL locked
    accFail     \* some hardware call failed

vars == <<system, pc, i, ret, locked, asleep, agc, result, lockSeen, accFail>>

Demods == {"T", "S"}
Other(d) == IF d = "T" THEN "S" ELSE "T"

\* A step of a tune: its kind, the demodulator it switches and to what.
Step(k, d, v) == [kind |-> k, dev |-> d, val |-> v]
Reg == Step("reg", "T", FALSE)
Agc(d, v) == Step("agc", d, v)
Sleep(d, v) == Step("sleep", d, v)
Tuner == Step("tuner", "T", FALSE)
Poll == Step("poll", "T", FALSE)

\* Mutant: the ISDB-T sequence does not put the satellite demodulator to
\* sleep.
TStepsNoSleepS ==
    <<Reg, Agc("T", FALSE), Reg, Reg, Reg, Reg, Sleep("T", FALSE), Reg, Reg,
      Tuner, Tuner, Poll, Agc("T", TRUE), Reg, Reg, Reg>>

\* ISDB-T (lines 374-498): write 0x47, AGC off, sleep the S demodulator,
\* three writes, wake the T demodulator, two writes, r850_wakeup,
\* r850_set_frequency, the poll, AGC on, three writes.
TSteps ==
    <<Reg, Agc("T", FALSE), Sleep("S", TRUE), Reg, Reg, Reg, Sleep("T", FALSE),
      Reg, Reg, Tuner, Tuner, Poll, Agc("T", TRUE), Reg, Reg, Reg>>

\* ISDB-S (lines 500-596): AGC off, two writes, sleep the T demodulator,
\* two writes, wake the S demodulator, three writes, rt710_set_params, the
\* poll, AGC on (rt710_get_rf_signal_strength only reads and its result is
\* ignored).
SSteps ==
    <<Agc("S", FALSE), Reg, Reg, Sleep("T", TRUE), Reg, Reg, Sleep("S", FALSE),
      Reg, Reg, Reg, Tuner, Poll, Agc("S", TRUE)>>

Steps(s) == IF s = "T" THEN TSteps ELSE SSteps

TypeOK ==
    /\ system \in {"T", "S", "Other"}
    /\ pc \in 0 .. Len(Steps(system))
    /\ i \in -1 .. PollMax
    /\ ret \in {"Ok", "Err"}
    /\ locked \in BOOLEAN
    /\ asleep \in [Demods -> BOOLEAN]
    /\ agc \in [Demods -> BOOLEAN]
    /\ result \in {"None", "Ok", "Err", "EAGAIN", "EINVAL"}
    /\ lockSeen \in BOOLEAN
    /\ accFail \in BOOLEAN

(***************************************************************************)
(* After a successful open both demodulators sleep (lines 276 and 315);   *)
(* their AGC is in whatever state the chips came up in.  The locals of    *)
(* the tune hold garbage until written.                                    *)
(***************************************************************************)
Init ==
    /\ system \in {"T", "S", "Other"}
    /\ pc = 0
    /\ i \in -1 .. PollMax
    /\ ret \in {"Ok", "Err"}
    /\ locked \in BOOLEAN
    /\ asleep = [d \in Demods |-> TRUE]
    /\ agc \in [Demods -> BOOLEAN]
    /\ result = "None"
    /\ lockSeen = FALSE
    /\ accFail = FALSE

\* The chrdev layer calls tune with a system; the default case of the
\* switch returns -EINVAL at once.
Tune ==
    /\ pc = 0
    /\ \E s \in {"T", "S", "Other"} :
        /\ system' = s
        /\ IF s = "Other" THEN result' = "EINVAL" /\ pc' = 0
                          ELSE result' = result /\ pc' = 1
    /\ lockSeen' = FALSE
    /\ accFail' = FALSE
    /\ UNCHANGED <<i, ret, locked, asleep, agc>>

\* The effect of a switch step on the demodulators; a failed call may or
\* may not have reached the chip.
Apply(st, took) ==
    /\ asleep' = IF st.kind = "sleep" /\ took
                 THEN [asleep EXCEPT ![st.dev] = st.val] ELSE asleep
    /\ agc' = IF st.kind = "agc" /\ took
              THEN [agc EXCEPT ![st.dev] = st.val] ELSE agc

\* Mutant: the sequence is not left after its last call.
CallStepNoEnd ==
    /\ pc # 0
    /\ Steps(system)[pc].kind # "poll"
    /\ \E ok, took \in BOOLEAN :
        /\ Apply(Steps(system)[pc], ok \/ took)
        /\ ret' = IF ok THEN "Ok" ELSE "Err"
        /\ accFail' = (accFail \/ ~ok)
        /\ IF ~ok THEN pc' = 0 /\ result' = "Err"
           ELSE pc' = pc + 1 /\ result' = result
        /\ i' = IF ok /\ pc < Len(Steps(system))
                   /\ Steps(system)[pc + 1].kind = "poll"
                THEN PollMax ELSE i
    /\ UNCHANGED <<system, locked, lockSeen>>

(***************************************************************************)
(* One call of the sequence other than the poll.  On failure the switch   *)
(* breaks and ret is returned; after the last step the tune returns 0.    *)
(* The step before the poll is followed by i = 50.                         *)
(***************************************************************************)
CallStep ==
    /\ pc # 0
    /\ Steps(system)[pc].kind # "poll"
    /\ \E ok, took \in BOOLEAN :
        /\ Apply(Steps(system)[pc], ok \/ took)
        /\ ret' = IF ok THEN "Ok" ELSE "Err"
        /\ accFail' = (accFail \/ ~ok)
        /\ IF ~ok THEN pc' = 0 /\ result' = "Err"
           ELSE IF pc = Len(Steps(system)) THEN pc' = 0 /\ result' = "Ok"
           ELSE pc' = pc + 1 /\ result' = result
        /\ i' = IF ok /\ pc < Len(Steps(system))
                   /\ Steps(system)[pc + 1].kind = "poll"
                THEN PollMax ELSE i
    /\ UNCHANGED <<system, locked, lockSeen>>

\* Mutant: the poll does not count its iterations down.
PollIterNoCount ==
    /\ pc # 0
    /\ Steps(system)[pc].kind = "poll"
    /\ i > 0
    /\ \E r \in {"Ok", "Err"}, l \in BOOLEAN :
        /\ ret' = r
        /\ locked' = l
        /\ lockSeen' = (lockSeen \/ (r = "Ok" /\ l))
        /\ accFail' = (accFail \/ r = "Err")
        /\ pc' = IF r = "Ok" /\ l THEN pc + 1 ELSE pc
    /\ UNCHANGED <<system, i, asleep, agc, result>>

(***************************************************************************)
(* One iteration of while (i--) { r850/rt710_is_pll_locked; break if it   *)
(* succeeded and reports lock; msleep(10); } (lines 439-446, 553-560).    *)
(* A failed call is retried like an unlocked one; whether it wrote        *)
(* tuner_locked is not known, so it may hold anything then.                *)
(***************************************************************************)
PollIter ==
    /\ pc # 0
    /\ Steps(system)[pc].kind = "poll"
    /\ i > 0
    /\ i' = i - 1
    /\ \E r \in {"Ok", "Err"}, l \in BOOLEAN :
        /\ ret' = r
        /\ locked' = l
        /\ lockSeen' = (lockSeen \/ (r = "Ok" /\ l))
        /\ accFail' = (accFail \/ r = "Err")
        /\ pc' = IF r = "Ok" /\ l THEN pc + 1 ELSE pc
    /\ UNCHANGED <<system, asleep, agc, result>>

\* Mutant: the exhausted poll falls through to the next step when the last
\* call succeeded, without looking at tuner_locked.
PollExitNoLockCheck ==
    /\ pc # 0
    /\ Steps(system)[pc].kind = "poll"
    /\ i = 0
    /\ i' = -1
    /\ IF ret = "Err" THEN pc' = 0 /\ result' = "Err"
       ELSE pc' = pc + 1 /\ result' = result
    /\ UNCHANGED <<system, ret, locked, asleep, agc, lockSeen, accFail>>

\* Mutant: while (--i), the loop is left one poll early.
PollExitOffByOne ==
    /\ pc # 0
    /\ Steps(system)[pc].kind = "poll"
    /\ i <= 1
    /\ i' = i - 1
    /\ IF ret = "Err" THEN pc' = 0 /\ result' = "Err"
       ELSE IF ~locked THEN pc' = 0 /\ result' = "EAGAIN"
       ELSE pc' = pc + 1 /\ result' = result
    /\ UNCHANGED <<system, ret, locked, asleep, agc, lockSeen, accFail>>

(***************************************************************************)
(* The loop test with i = 0 leaves the loop with i = -1; then ret of the   *)
(* last call is returned if it failed, -EAGAIN if the PLL did not lock     *)
(* (lines 448-461, 562-575).                                               *)
(***************************************************************************)
PollExit ==
    /\ pc # 0
    /\ Steps(system)[pc].kind = "poll"
    /\ i = 0
    /\ i' = -1
    /\ IF ret = "Err" THEN pc' = 0 /\ result' = "Err"
       ELSE IF ~locked THEN pc' = 0 /\ result' = "EAGAIN"
       ELSE pc' = pc + 1 /\ result' = result
    /\ UNCHANGED <<system, ret, locked, asleep, agc, lockSeen, accFail>>

\* The steps of a running tune, taken on the caller's thread.
TuneStep == CallStep \/ PollIter \/ PollExit

Next == Tune \/ TuneStep

Spec == Init /\ [][Next]_vars

(***************************************************************************)
(* The tune runs on the chrdev layer's thread to its return: msleep and   *)
(* the register accesses return, nothing waits on another thread.          *)
(***************************************************************************)
FairSpec == Spec /\ WF_vars(TuneStep)

-----------------------------------------------------------------------------
(***************************************************************************)
(* Properties.                                                             *)
(***************************************************************************)

\* A tune returns 0 only when the poll of lines 439-461 / 553-575 saw the
\* PLL of the tuner locked during this tune.
TunedOnlyWhenLocked == pc = 0 /\ result = "Ok" => lockSeen

\* A tune that returns 0 leaves the demodulator of its system awake with
\* its AGC on and the other demodulator asleep, whatever earlier tunes
\* that failed half way left behind (spec 4.4: selecting one standard
\* puts the other demodulator to sleep).
ReadyAfterTune ==
    pc = 0 /\ result = "Ok" =>
        /\ ~asleep[system] /\ agc[system]
        /\ asleep[Other(system)]

\* The retryable "not locked" error comes only after the whole budget of
\* PollMax polls (spec: 50 x 10 ms), never earlier.
NotLockedAfterFullBudget == pc = 0 /\ result = "EAGAIN" => i = -1

\* Every tune returns: the poll is bounded by its budget.
TuneReturns == pc # 0 ~> pc = 0

\* The tune as M1urTuneAbs sees it: a tune runs while pc # 0; the
\* demodulators' state and the result are the same variables.
TuneAbs == INSTANCE M1urTuneAbs WITH busy <- pc # 0, sys <- system

\* The detailed tune implements what a tune promises: every step of
\* m1ur_chrdev_tune is a request, a change of the demodulators, a return
\* (0 only when ready) or invisible, and every tune returns.
TuneImplementsAbs == TuneAbs!FairSpec

\* Spec 4.4 step 3: an individual hardware access that fails aborts the
\* tune with that error; so a tune that returns 0 had no access fail.
AbortOnAccessFailure == pc = 0 /\ result = "Ok" => ~accFail

=============================================================================
