----------------------------- MODULE M1urTuneAbs -----------------------------
(***************************************************************************)
(* What a tune promises (spec 4.4), with no register sequence and no poll. *)
(* A tune of an unknown system returns -EINVAL at once.  While a tune of  *)
(* ISDB-T or ISDB-S runs, the demodulators' sleep and AGC state may change *)
(* in any way.  Every tune returns.  It returns 0 only with the           *)
(* demodulator of its system awake with AGC on and the other asleep; else *)
(* it returns an error, leaving the demodulators in whatever state the    *)
(* calls made so far put them (no rollback).                               *)
(***************************************************************************)
VARIABLES
    busy,       \* a tune is running
    sys,        \* the system of the last tune
    asleep,     \* the sleep state of both demodulators
    agc,        \* the AGC state of both demodulators
    result      \* what the last tune returned ("None" before the first)

avars == <<busy, sys, asleep, agc, result>>

Demods == {"T", "S"}

Other(d) == IF d = "T" THEN "S" ELSE "T"

\* The demodulator states sl and ag are ready to receive system s.
Ready(s, sl, ag) == ~sl[s] /\ ag[s] /\ sl[Other(s)]

Init ==
    /\ busy = FALSE
    /\ sys \in {"T", "S", "Other"}
    /\ asleep \in [Demods -> BOOLEAN]
    /\ agc \in [Demods -> BOOLEAN]
    /\ result = "None"

\* The chrdev layer asks for a tune; an unknown system is -EINVAL.
Request ==
    /\ ~busy
    /\ \E s \in {"T", "S", "Other"} :
        /\ sys' = s
        /\ IF s = "Other" THEN busy' = FALSE /\ result' = "EINVAL"
                          ELSE busy' = TRUE /\ result' = result
    /\ UNCHANGED <<asleep, agc>>

\* The calls of a running tune put the demodulators to sleep or wake them
\* and switch their AGC.
Program ==
    /\ busy
    /\ asleep' \in [Demods -> BOOLEAN]
    /\ agc' \in [Demods -> BOOLEAN]
    /\ UNCHANGED <<busy, sys, result>>

\* The tune returns, possibly after a last call: 0 only when ready, else a
\* transport error or "not locked".
Return ==
    /\ busy
    /\ busy' = FALSE
    /\ asleep' \in [Demods -> BOOLEAN]
    /\ agc' \in [Demods -> BOOLEAN]
    /\ \/ result' = "Ok" /\ Ready(sys, asleep', agc')
       \/ result' \in {"Err", "EAGAIN"}
    /\ UNCHANGED sys

Next == Request \/ Program \/ Return

Spec == Init /\ [][Next]_avars

\* The caller's thread runs a tune to its return.
FairSpec == Spec /\ WF_avars(Return)

=============================================================================
