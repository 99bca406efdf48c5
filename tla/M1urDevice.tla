----------------------------- MODULE M1urDevice -----------------------------
(***************************************************************************)
(* The device handle of the PX-M1UR driver (m1ur_device.c) and the         *)
(* operations that change it: the power sequencer, the sub-device          *)
(* initializer, the open and release handlers of the character device,    *)
(* capture start and stop, the streaming callback, and the teardown path  *)
(* m1ur_device_term with the final m1ur_device_release.                    *)
(*                                                                         *)
(* The character-device layer calls open, release, tune and set_capture   *)
(* one at a time for the device (each is one step here); the streaming    *)
(* callback and the teardown path run beside them.  Every hardware call   *)
(* may fail: its outcome is a Boolean chosen by \E.                        *)
(***************************************************************************)
EXTENDS Naturals

VARIABLES
    available,  \* m1ur->available: 1 until m1ur_device_term clears it
    kref,       \* m1ur->kref
    released,   \* how often m1ur_device_release has run
    g2,         \* GPIO 2 (the enable line of the tuner/demod supply)
    g3,         \* GPIO 3 (the reset line)
    chips,      \* the sub-devices whose *_init has run and *_term has not
    pins,       \* the demodulators whose TS output pins are enabled
    sys,        \* chrdev->current_system, set by the chrdev layer's tune
    streaming,  \* the bridge delivers chunks to m1ur_device_stream_handler
    carryEmpty, \* stream_ctx->remain_len = 0
    file,       \* the character device is open (open returned 0)
    group,      \* the chrdev group exists (not yet destroyed)
    term,       \* where the teardown path m1ur_device_term is
    pinsStuck   \* a pin disable of this open session failed or was skipped

vars == <<available, kref, released, g2, g3, chips, pins, sys, streaming,
          carryEmpty, file, group, term, pinsStuck>>

\* The sub-devices in the order m1ur_backend_init initializes them.
Chip == <<"tc90522_t", "tc90522_s", "r850", "rt710">>
Chips == {Chip[j] : j \in 1 .. 4}

\* The demodulator whose pins serve a broadcast system.
PinsOf(s) == CASE s = "T" -> {"T"} [] s = "S" -> {"S"} [] OTHER -> {}

TypeOK ==
    /\ available \in {0, 1}
    /\ kref \in Nat
    /\ released \in Nat
    /\ g2 \in BOOLEAN /\ g3 \in BOOLEAN
    /\ chips \subseteq Chips
    /\ pins \subseteq {"T", "S"}
    /\ sys \in {"None", "T", "S"}
    /\ streaming \in BOOLEAN
    /\ carryEmpty \in BOOLEAN
    /\ file \in {"Closed", "Open"}
    /\ group \in {"Live", "Destroyed"}
    /\ term \in {"Live", "Flipped", "Destroyed", "Done"}
    /\ pinsStuck \in BOOLEAN

(***************************************************************************)
(* The state m1ur_device_init leaves a device in when it succeeds: kref    *)
(* initialized to 1, GPIO 3 high and GPIO 2 low, a zeroed stream context,  *)
(* the chrdev group added and available set.  The TS pins are in whatever  *)
(* state the demodulators came up in; the current system is whatever the  *)
(* last tune of the chrdev layer recorded, fixed in a behaviour here.      *)
(***************************************************************************)
Init ==
    /\ available = 1
    /\ kref = 1
    /\ released = 0
    /\ g2 = FALSE /\ g3 = TRUE
    /\ chips = {}
    /\ pins \in SUBSET {"T", "S"}
    /\ sys \in {"None", "T", "S"}
    /\ streaming = FALSE
    /\ carryEmpty = TRUE
    /\ file = "Closed"
    /\ group = "Live"
    /\ term = "Live"
    /\ pinsStuck = FALSE

\* Mutant: open returns without taking its reference.
KrefGetNone == kref' = kref

\* kref_get(&m1ur->kref) at the end of a successful open.
KrefGet == kref' = kref + 1

\* Mutant: kref_put drops the count without calling the release function.
KrefPutNoRelease == kref' = kref - 1 /\ UNCHANGED released

\* kref_put(&m1ur->kref, m1ur_device_release): the put that drops the last
\* reference runs the release function.
KrefPut ==
    /\ kref' = kref - 1
    /\ released' = IF kref = 1 THEN released + 1 ELSE released

(***************************************************************************)
(* m1ur_backend_set_power(m1ur, false), from GPIO lines a2 and a3: a no-op *)
(* once the device is unavailable, else GPIO 2 low then GPIO 3 high, each  *)
(* best effort (o2, o3: the writes succeed).                               *)
(***************************************************************************)
PowerOff(a2, a3, o2, o3) ==
    IF available = 0 THEN g2' = a2 /\ g3' = a3
    ELSE g2' = (a2 /\ ~o2) /\ g3' = (a3 \/ o3)

(***************************************************************************)
(* m1ur_chrdev_open.  set_power(true) (GPIO 3 low, GPIO 2 high) may fail   *)
(* at either write; m1ur_backend_init initializes the chips in order and   *)
(* stops at the first, k, that fails; then seven configuration steps s of  *)
(* which the first failure returns.  Only the first two failures unwind:  *)
(* goto fail_backend_init powers off, goto fail_backend (s = 1) also runs  *)
(* m1ur_backend_term; the failures of steps 2 .. 7 return at once.        *)
(* Steps 2 and 6 disable the T and S pins.                                 *)
(***************************************************************************)
OpenResult(o3, o2, f2, f3, k, s) ==
    LET inited == chips \cup {Chip[j] : j \in 1 .. k - 1}
        off    == {p \in {"T", "S"} : (p = "T" /\ s > 2) \/ (p = "S" /\ s > 6)}
    IN
    \/ /\ ~(o3 /\ o2)
       /\ g3' = (g3 /\ ~o3) /\ g2' = g2
       /\ UNCHANGED <<kref, chips, pins, file>>
    \/ /\ o3 /\ o2 /\ k < 5
       /\ chips' = inited
       /\ PowerOff(TRUE, FALSE, f2, f3)
       /\ UNCHANGED <<kref, pins, file>>
    \/ /\ o3 /\ o2 /\ k = 5 /\ s = 1
       /\ chips' = {}
       /\ PowerOff(TRUE, FALSE, f2, f3)
       /\ UNCHANGED <<kref, pins, file>>
    \/ /\ o3 /\ o2 /\ k = 5 /\ s \in 2 .. 7
       /\ chips' = Chips /\ pins' = pins \ off
       /\ g2' = TRUE /\ g3' = FALSE
       /\ UNCHANGED <<kref, file>>
    \/ /\ o3 /\ o2 /\ k = 5 /\ s = 8
       /\ chips' = Chips /\ pins' = pins \ off
       /\ g2' = TRUE /\ g3' = FALSE
       /\ KrefGet
       /\ file' = "Open"

\* The open handler runs for a closed file of a live chrdev group.
Open ==
    /\ file = "Closed"
    /\ group = "Live"
    /\ \E o3, o2, f2, f3 \in BOOLEAN, k \in 1 .. 5, s \in 1 .. 8 :
          OpenResult(o3, o2, f2, f3, k, s)
    /\ pinsStuck' = IF file' = "Open" THEN FALSE ELSE pinsStuck
    /\ UNCHANGED <<available, released, sys, streaming, carryEmpty, group, term>>

(***************************************************************************)
(* m1ur_chrdev_release, called when the open file is closed (the chrdev   *)
(* layer has stopped a running capture first): m1ur_backend_term, power   *)
(* off, and the file's reference put.                                      *)
(***************************************************************************)
Release ==
    /\ file = "Open"
    /\ ~streaming
    /\ \E o2, o3 \in BOOLEAN : PowerOff(g2, g3, o2, o3)
    /\ chips' = {}
    /\ KrefPut
    /\ file' = "Closed"
    /\ UNCHANGED <<available, pins, sys, streaming, carryEmpty, group, term,
                   pinsStuck>>

\* Mutant: the carry-over is not reset before streaming starts.
ResetCarryNone == UNCHANGED carryEmpty

\* stream_ctx->remain_len = 0 before itedtv_bus_start_streaming.
ResetCarry == carryEmpty' = TRUE

\* tc90522_enable_ts_pins_*(false) for the current system, best effort: od
\* says the write took effect.
DisablePins(from, od) ==
    /\ pins' = IF od THEN from \ PinsOf(sys) ELSE from
    /\ pinsStuck' = (pinsStuck \/ (~od /\ PinsOf(sys) # {}))

\* Mutant: a failed itedtv_bus_start_streaming returns without disabling
\* the pins (goto fail instead of fail_bus).
StartCaptureNoRollback ==
    /\ file = "Open"
    /\ ~streaming
    /\ \E op, oe, ob, od \in BOOLEAN :
        LET pinOk == oe \/ PinsOf(sys) = {}
            on    == pins \cup PinsOf(sys)
        IN
        \/ /\ ~op
           /\ UNCHANGED <<pins, pinsStuck, streaming, carryEmpty>>
        \/ /\ op /\ ~pinOk
           /\ DisablePins(pins, od)
           /\ UNCHANGED <<streaming, carryEmpty>>
        \/ /\ op /\ pinOk /\ ~ob
           /\ pins' = on /\ UNCHANGED pinsStuck
           /\ ResetCarry
           /\ UNCHANGED streaming
        \/ /\ op /\ pinOk /\ ob
           /\ pins' = on /\ UNCHANGED pinsStuck
           /\ ResetCarry
           /\ streaming' = TRUE
    /\ UNCHANGED <<available, kref, released, g2, g3, chips, sys, file, group, term>>

(***************************************************************************)
(* m1ur_chrdev_start_capture: purge the bridge's buffer, enable the pins   *)
(* of the current system, empty the carry-over, start streaming.  A       *)
(* failure of the pin write or of the start disables the pins again (best  *)
(* effort, od); a failed purge returns at once.                            *)
(***************************************************************************)
StartCapture ==
    /\ file = "Open"
    /\ ~streaming
    /\ \E op, oe, ob, od \in BOOLEAN :
        LET pinOk == oe \/ PinsOf(sys) = {}
            on    == pins \cup PinsOf(sys)
        IN
        \/ /\ ~op
           /\ UNCHANGED <<pins, pinsStuck, streaming, carryEmpty>>
        \/ /\ op /\ ~pinOk
           /\ DisablePins(pins, od)
           /\ UNCHANGED <<streaming, carryEmpty>>
        \/ /\ op /\ pinOk /\ ~ob
           /\ DisablePins(on, od)
           /\ ResetCarry
           /\ UNCHANGED streaming
        \/ /\ op /\ pinOk /\ ob
           /\ pins' = on /\ UNCHANGED pinsStuck
           /\ ResetCarry
           /\ streaming' = TRUE
    /\ UNCHANGED <<available, kref, released, g2, g3, chips, sys, file, group, term>>

(***************************************************************************)
(* m1ur_chrdev_stop_capture: stop streaming, then, only if the device is  *)
(* still available, disable the pins of the current system (best effort). *)
(***************************************************************************)
StopCapture ==
    /\ file = "Open"
    /\ streaming
    /\ streaming' = FALSE
    /\ \E od \in BOOLEAN :
          IF available = 1 THEN DisablePins(pins, od)
          ELSE pins' = pins /\ pinsStuck' = (pinsStuck \/ PinsOf(sys) # {})
    /\ UNCHANGED <<available, kref, released, g2, g3, chips, sys, carryEmpty,
                   file, group, term>>

\* m1ur_device_stream_handler runs on a chunk and leaves the carry-over
\* empty or not.
StreamChunk ==
    /\ streaming
    /\ carryEmpty' \in BOOLEAN
    /\ UNCHANGED <<available, kref, released, g2, g3, chips, pins, sys,
                   streaming, file, group, term, pinsStuck>>

(***************************************************************************)
(* m1ur_device_term, in its three steps: clear available, destroy the     *)
(* chrdev group (no open after it; an open file stays open), put the       *)
(* reference of m1ur_device_init.                                          *)
(***************************************************************************)
TermFlip ==
    /\ term = "Live"
    /\ available' = 0
    /\ term' = "Flipped"
    /\ UNCHANGED <<kref, released, g2, g3, chips, pins, sys, streaming,
                   carryEmpty, file, group, pinsStuck>>

TermDestroy ==
    /\ term = "Flipped"
    /\ group' = "Destroyed"
    /\ term' = "Destroyed"
    /\ UNCHANGED <<available, kref, released, g2, g3, chips, pins, sys,
                   streaming, carryEmpty, file, pinsStuck>>

TermPut ==
    /\ term = "Destroyed"
    /\ KrefPut
    /\ term' = "Done"
    /\ UNCHANGED <<available, g2, g3, chips, pins, sys, streaming, carryEmpty,
                   file, group, pinsStuck>>

Next ==
    \/ Open \/ Release \/ StartCapture \/ StopCapture \/ StreamChunk
    \/ TermFlip \/ TermDestroy \/ TermPut

Spec == Init /\ [][Next]_vars

-----------------------------------------------------------------------------
(***************************************************************************)
(* Properties.                                                             *)
(***************************************************************************)

\* The reference count of m1ur_device_init and open/release: kref counts
\* exactly the holders of the handle, the teardown path until its put and
\* the open file.
KrefCount ==
    kref = (IF term = "Done" THEN 0 ELSE 1) + (IF file = "Open" THEN 1 ELSE 0)

\* m1ur_device_release frees the stream context and signals quit_completion
\* exactly once, and exactly when the device is gone and the file closed:
\* never while the file is open (or capture running), never twice.
ReleasedExactlyWhenUnheld ==
    released = (IF term = "Done" /\ file = "Closed" THEN 1 ELSE 0)

\* A capture session never starts on the carry-over of an earlier one: when
\* m1ur_chrdev_start_capture starts streaming, stream_ctx is empty, so the
\* first chunk of the new session is not spliced onto stale bytes.
StreamStartsFresh == [][~streaming /\ streaming' => carryEmpty']_vars

\* The TS output pins follow the capture: while the file is open and every
\* best-effort pin disable of the session took effect, the pins of the
\* current system are on exactly while streaming and the other's are off.
\* Open disables both; a start_capture whose pin write or bus start fails
\* (fail_tc, fail_bus) disables them again; stop_capture disables them.
PinsFollowCapture ==
    file = "Open" /\ ~pinsStuck => pins = IF streaming THEN PinsOf(sys) ELSE {}

\* Spec 4.2 and 7: a failed open unwinds what it initialized, so whenever
\* no file is open no sub-device is left initialized.
ChipsTermedWhenClosed == file = "Closed" => chips = {}

=============================================================================
