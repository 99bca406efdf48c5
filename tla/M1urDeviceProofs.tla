-------------------------- MODULE M1urDeviceProofs --------------------------
(***************************************************************************)
(* Proofs about the device handle: the reference count of m1ur->kref       *)
(* counts its holders, and m1ur_device_release runs exactly once, exactly  *)
(* when the teardown path has put its reference and the file is closed.   *)
(***************************************************************************)
EXTENDS M1urDevice, TLAPS

(***************************************************************************)
(* KrefCount is not inductive alone: an open after the teardown path's put *)
(* would take a reference of a released handle.  The chrdev group is      *)
(* destroyed before that put, and no open follows the destruction; IInv    *)
(* records that.                                                           *)
(***************************************************************************)
GroupGone == group = "Destroyed" <=> term \in {"Destroyed", "Done"}

IInv ==
    /\ TypeOK
    /\ KrefCount
    /\ ReleasedExactlyWhenUnheld
    /\ GroupGone

LEMMA InitIInv == Init => IInv
<1> SUFFICES ASSUME Init PROVE IInv
  OBVIOUS
<1>1. TypeOK
  BY Zenon DEF Init, TypeOK
<1>2. KrefCount /\ ReleasedExactlyWhenUnheld
  BY SMT DEF Init, KrefCount, ReleasedExactlyWhenUnheld
<1>3. GroupGone
  BY DEF Init, GroupGone
<1>4. QED
  BY <1>1, <1>2, <1>3 DEF IInv

\* The chips m1ur_backend_init brings up before failing at chip k.
LEMMA InitedChips ==
    ASSUME NEW k \in 1 .. 5
    PROVE  {Chip[j] : j \in 1 .. k - 1} \subseteq Chips
<1>1. 1 .. k - 1 \subseteq 1 .. 4
  BY SMT
<1>2. QED
  BY <1>1 DEF Chips

\* The pins a broadcast system serves.
LEMMA PinsOfType ==
    ASSUME NEW x \in {"None", "T", "S"}
    PROVE  PinsOf(x) \subseteq {"T", "S"}
BY DEF PinsOf

\* set_power(false) leaves the GPIO lines Boolean.
LEMMA PowerOffType ==
    ASSUME NEW a2 \in BOOLEAN, NEW a3 \in BOOLEAN,
           NEW o2 \in BOOLEAN, NEW o3 \in BOOLEAN,
           PowerOff(a2, a3, o2, o3)
    PROVE  g2' \in BOOLEAN /\ g3' \in BOOLEAN
BY Zenon DEF PowerOff

\* Facts about the step of kref_put that every caller of it needs.
LEMMA KrefPutStep ==
    ASSUME IInv, KrefPut, kref >= 1
    PROVE  /\ kref' \in Nat
           /\ kref' = kref - 1
           /\ released' = IF kref = 1 THEN released + 1 ELSE released
BY DEF IInv, TypeOK, KrefPut

LEMMA NextIInv == IInv /\ [Next]_vars => IInv'
<1> SUFFICES ASSUME IInv, [Next]_vars PROVE IInv'
  OBVIOUS
<1>0. /\ kref \in Nat /\ released \in Nat
      /\ kref = (IF term = "Done" THEN 0 ELSE 1) + (IF file = "Open" THEN 1 ELSE 0)
      /\ released = (IF term = "Done" /\ file = "Closed" THEN 1 ELSE 0)
  BY DEF IInv, TypeOK, KrefCount, ReleasedExactlyWhenUnheld
<1>1. CASE Open
  <2>1. term \in {"Live", "Flipped"} /\ file = "Closed"
    BY <1>1 DEF Open, IInv, TypeOK, GroupGone
  <2>2. PICK o3, o2, f2, f3 \in BOOLEAN, k \in 1 .. 5, s \in 1 .. 8 :
               OpenResult(o3, o2, f2, f3, k, s)
    BY <1>1 DEF Open
  <2>3. /\ chips' \subseteq Chips /\ pins' \subseteq {"T", "S"}
        /\ g2' \in BOOLEAN /\ g3' \in BOOLEAN
        /\ file' \in {"Closed", "Open"}
        /\ kref' = kref + (IF file' = "Open" THEN 1 ELSE 0)
    <3>1. /\ chips \subseteq Chips /\ pins \subseteq {"T", "S"}
          /\ g2 \in BOOLEAN /\ g3 \in BOOLEAN
      BY DEF IInv, TypeOK
    <3>2. {Chip[j] : j \in 1 .. k - 1} \subseteq Chips
      BY InitedChips
    <3>3. CASE ~(o3 /\ o2)
      <4>1. /\ g3' = (g3 /\ ~o3) /\ g2' = g2
            /\ UNCHANGED <<kref, chips, pins, file>>
        BY <2>2, <3>3, Zenon DEF OpenResult
      <4>2. QED
        BY <2>1, <3>1, <4>1, <1>0, SMT
    <3>4. CASE o3 /\ o2 /\ k < 5
      <4>0. k # 5
        BY <3>4, SMT
      <4>1. /\ chips' = chips \cup {Chip[j] : j \in 1 .. k - 1}
            /\ PowerOff(TRUE, FALSE, f2, f3)
            /\ UNCHANGED <<kref, pins, file>>
        BY <2>2, <3>4, <4>0, Zenon DEF OpenResult
      <4>2. g2' \in BOOLEAN /\ g3' \in BOOLEAN
        BY <4>1, PowerOffType, Zenon
      <4>3. chips' \subseteq Chips
        BY <3>1, <3>2, <4>1
      <4>4. QED
        BY <2>1, <3>1, <4>1, <4>2, <4>3, <1>0, SMT
    <3>5. CASE o3 /\ o2 /\ k = 5 /\ s = 1
      <4>0. ~(k < 5) /\ s \notin 2 .. 7 /\ s # 8
        BY <3>5, SMT
      <4>1. /\ chips' = {}
            /\ PowerOff(TRUE, FALSE, f2, f3)
            /\ UNCHANGED <<kref, pins, file>>
        BY <2>2, <3>5, <4>0, Zenon DEF OpenResult
      <4>2. g2' \in BOOLEAN /\ g3' \in BOOLEAN
        BY <4>1, PowerOffType, Zenon
      <4>3. QED
        BY <2>1, <3>1, <4>1, <4>2, <1>0, SMT
    <3>6. CASE o3 /\ o2 /\ k = 5 /\ s \in 2 .. 7
      <4>0. ~(k < 5) /\ s # 1 /\ s # 8
        BY <3>6, SMT
      <4>1. /\ chips' = Chips /\ pins' \subseteq pins
            /\ g2' = TRUE /\ g3' = FALSE
            /\ UNCHANGED <<kref, file>>
        BY <2>2, <3>6, <4>0, Zenon DEF OpenResult
      <4>2. kref' = kref + 0 /\ file' = "Closed"
        BY <2>1, <4>1, <1>0, SMT
      <4>3. QED
        BY <3>1, <4>1, <4>2, Zenon
    <3>7. CASE o3 /\ o2 /\ k = 5 /\ s = 8
      <4>0. ~(k < 5) /\ s # 1 /\ s \notin 2 .. 7
        BY <3>7, SMT
      <4>1. /\ chips' = Chips /\ pins' \subseteq pins
            /\ g2' = TRUE /\ g3' = FALSE
            /\ kref' = kref + 1 /\ file' = "Open"
        BY <2>2, <3>7, <4>0, Zenon DEF OpenResult, KrefGet
      <4>2. kref' = kref + 1
        BY <4>1
      <4>3. QED
        BY <3>1, <4>1, <4>2, Zenon
    <3>9. \/ ~(o3 /\ o2)
          \/ o3 /\ o2 /\ k < 5
          \/ o3 /\ o2 /\ k = 5 /\ s = 1
          \/ o3 /\ o2 /\ k = 5 /\ s \in 2 .. 7
          \/ o3 /\ o2 /\ k = 5 /\ s = 8
      BY SMT
    <3>8. QED
      BY <3>3, <3>4, <3>5, <3>6, <3>7, <3>9
  <2>4. UNCHANGED <<available, released, sys, streaming, carryEmpty, group, term>>
    BY <1>1 DEF Open
  <2>5. kref' \in Nat
    BY <1>0, <2>3, SMT
  <2>8. pinsStuck' \in BOOLEAN
    BY <1>1, Zenon DEF Open, IInv, TypeOK
  <2>6. TypeOK'
    BY <2>3, <2>4, <2>5, <2>8 DEF IInv, TypeOK
  <2>7. QED
    BY <1>0, <2>1, <2>3, <2>4, <2>6, SMT
       DEF IInv, KrefCount, ReleasedExactlyWhenUnheld, GroupGone
<1>2. CASE Release
  <2>1. file = "Open" /\ kref >= 1
    BY <1>2, <1>0 DEF Release
  <2>2. /\ kref' \in Nat
        /\ kref' = kref - 1
        /\ released' = IF kref = 1 THEN released + 1 ELSE released
    BY <1>2, <2>1, KrefPutStep DEF Release
  <2>3. /\ file' = "Closed" /\ UNCHANGED <<term, group>>
        /\ chips' = {}
        /\ g2' \in BOOLEAN /\ g3' \in BOOLEAN
    BY <1>2 DEF Release, PowerOff, IInv, TypeOK
  <2>4. released' \in Nat
    BY <1>0, <2>2
  <2>5. QED
    BY <1>2, <1>0, <2>1, <2>2, <2>3, <2>4
       DEF Release, IInv, TypeOK, KrefCount, ReleasedExactlyWhenUnheld, GroupGone
<1>3. CASE StartCapture
  <2>1. PICK op, oe, ob, od \in BOOLEAN :
          LET pinOk == oe \/ PinsOf(sys) = {}
              on    == pins \cup PinsOf(sys)
          IN
          \/ /\ ~op
             /\ UNCHANGED <<pins, pinsStuck, streaming, carryEmpty>>
          \/ /\ op /\ ~pinOk
             /\ DisablePins(pins, od)
             /\ UNCHANGED <<streaming, carryEmpty>>
          \/ /\ op /\ pinOk /\ ~ob
             /\ DisablePins(on, od)
             /\ ResetCarry
             /\ UNCHANGED streaming
          \/ /\ op /\ pinOk /\ ob
             /\ pins' = on /\ UNCHANGED pinsStuck
             /\ ResetCarry
             /\ streaming' = TRUE
    BY <1>3 DEF StartCapture
  <2>2. PinsOf(sys) \subseteq {"T", "S"} /\ pins \subseteq {"T", "S"}
        /\ pinsStuck \in BOOLEAN
    BY PinsOfType DEF IInv, TypeOK
  <2>3. /\ pins' \subseteq {"T", "S"} /\ pinsStuck' \in BOOLEAN
        /\ streaming' \in BOOLEAN /\ carryEmpty' \in BOOLEAN
    BY <2>1, <2>2, Zenon DEF ResetCarry, DisablePins, IInv, TypeOK
  <2>4. UNCHANGED <<available, kref, released, g2, g3, chips, sys, file, group, term>>
    BY <1>3 DEF StartCapture
  <2>5. QED
    BY <2>3, <2>4 DEF IInv, TypeOK, KrefCount, ReleasedExactlyWhenUnheld, GroupGone
<1>4. CASE StopCapture
  BY <1>4, Zenon DEF StopCapture, DisablePins, PinsOf, IInv, TypeOK, KrefCount,
             ReleasedExactlyWhenUnheld, GroupGone
<1>5. CASE StreamChunk
  BY <1>5 DEF StreamChunk, IInv, TypeOK, KrefCount,
             ReleasedExactlyWhenUnheld, GroupGone
<1>6. CASE TermFlip
  BY <1>6 DEF TermFlip, IInv, TypeOK, KrefCount,
             ReleasedExactlyWhenUnheld, GroupGone
<1>7. CASE TermDestroy
  BY <1>7 DEF TermDestroy, IInv, TypeOK, KrefCount,
             ReleasedExactlyWhenUnheld, GroupGone
<1>8. CASE TermPut
  <2>1. term = "Destroyed" /\ kref >= 1
    BY <1>8, <1>0 DEF TermPut
  <2>2. /\ kref' \in Nat
        /\ kref' = kref - 1
        /\ released' = IF kref = 1 THEN released + 1 ELSE released
    BY <1>8, <2>1, KrefPutStep DEF TermPut
  <2>3. /\ term' = "Done" /\ UNCHANGED <<file, group>>
    BY <1>8 DEF TermPut
  <2>4. released' \in Nat
    BY <1>0, <2>2
  <2>5. QED
    BY <1>8, <1>0, <2>1, <2>2, <2>3, <2>4
       DEF TermPut, IInv, TypeOK, KrefCount, ReleasedExactlyWhenUnheld, GroupGone
<1>9. CASE UNCHANGED vars
  BY <1>9 DEF vars, IInv, TypeOK, KrefCount, ReleasedExactlyWhenUnheld, GroupGone
<1>10. QED
  BY <1>1, <1>2, <1>3, <1>4, <1>5, <1>6, <1>7, <1>8, <1>9 DEF Next

\* The kref of m1ur_device_init and of every successful open is put
\* exactly once: in every reachable state kref counts the holders.
THEOREM KrefCounted == Spec => []KrefCount
<1>1. IInv => KrefCount
  BY DEF IInv
<1>2. QED
  BY InitIInv, NextIInv, <1>1, PTL DEF Spec

\* m1ur_device_release runs exactly once, after the teardown path's put and
\* the file's close, whichever comes last, and never earlier.
THEOREM ReleasedOnce == Spec => []ReleasedExactlyWhenUnheld
<1>1. IInv => ReleasedExactlyWhenUnheld
  BY DEF IInv
<1>2. QED
  BY InitIInv, NextIInv, <1>1, PTL DEF Spec


(***************************************************************************)
(* PinsFollowCapture is not inductive alone: an open sets the pins off     *)
(* but leaves streaming as it is, so it needs that no capture runs while   *)
(* the file is closed (the chrdev layer stops a capture before release,    *)
(* and start_capture needs an open file).                                  *)
(***************************************************************************)
CaptureInv ==
    /\ streaming => file = "Open"
    /\ PinsFollowCapture

LEMMA InitCapture == Init => CaptureInv
BY DEF Init, CaptureInv, PinsFollowCapture

LEMMA NextCapture == IInv /\ CaptureInv /\ [Next]_vars => CaptureInv'
<1> SUFFICES ASSUME IInv, CaptureInv, [Next]_vars PROVE CaptureInv'
  OBVIOUS
<1>0. /\ pins \subseteq {"T", "S"} /\ pinsStuck \in BOOLEAN
      /\ file \in {"Closed", "Open"} /\ streaming \in BOOLEAN
  BY DEF IInv, TypeOK
<1>1. CASE Open
  <2>1. file = "Closed" /\ ~streaming /\ streaming' = streaming
    BY <1>1, <1>0 DEF Open, CaptureInv
  <2>2. PICK o3, o2, f2, f3 \in BOOLEAN, k \in 1 .. 5, s \in 1 .. 8 :
               OpenResult(o3, o2, f2, f3, k, s)
    BY <1>1 DEF Open
  <2>3. file' = "Open" => pins' = {}
    <3>1. CASE o3 /\ o2 /\ k = 5 /\ s = 8
      <4>0. ~(k < 5) /\ s # 1 /\ s \notin 2 .. 7
        BY <3>1, SMT
      <4>1. pins' = pins \ {"T", "S"}
        <5>1. {p \in {"T", "S"} : (p = "T" /\ s > 2) \/ (p = "S" /\ s > 6)}
                = {"T", "S"}
          BY <3>1, SMT
        <5>2. QED
          BY <2>2, <3>1, <4>0, <5>1, Zenon DEF OpenResult
      <4>2. QED
        BY <1>0, <4>1
    <3>2. CASE ~(o3 /\ o2 /\ k = 5 /\ s = 8)
      <4>1. file' = "Closed"
        <5>1. CASE ~(o3 /\ o2)
          BY <2>1, <2>2, <5>1, Zenon DEF OpenResult
        <5>2. CASE o3 /\ o2 /\ k < 5
          <6>0. k # 5
            BY <5>2, SMT
          <6>1. QED
            BY <2>1, <2>2, <5>2, <6>0, Zenon DEF OpenResult
        <5>3. CASE o3 /\ o2 /\ k = 5 /\ s # 8
          <6>0. ~(k < 5) /\ (s = 1 \/ s \in 2 .. 7)
            BY <5>3, SMT
          <6>1. QED
            BY <2>1, <2>2, <5>3, <6>0, Zenon DEF OpenResult
        <5>4. QED
          BY <3>2, <5>1, <5>2, <5>3, SMT
      <4>2. QED
        BY <4>1
    <3>3. QED
      BY <3>1, <3>2
  <2>4. QED
    BY <2>1, <2>3 DEF CaptureInv, PinsFollowCapture
<1>2. CASE Release
  BY <1>2 DEF Release, CaptureInv, PinsFollowCapture
<1>3. CASE StartCapture
  <2>1. file = "Open" /\ ~streaming /\ file' = file /\ sys' = sys
    BY <1>3 DEF StartCapture
  <2>2. ~pinsStuck => pins = {}
    BY <2>1 DEF CaptureInv, PinsFollowCapture
  <2>3. PICK op, oe, ob, od \in BOOLEAN :
          LET pinOk == oe \/ PinsOf(sys) = {}
              on    == pins \cup PinsOf(sys)
          IN
          \/ /\ ~op
             /\ UNCHANGED <<pins, pinsStuck, streaming, carryEmpty>>
          \/ /\ op /\ ~pinOk
             /\ DisablePins(pins, od)
             /\ UNCHANGED <<streaming, carryEmpty>>
          \/ /\ op /\ pinOk /\ ~ob
             /\ DisablePins(on, od)
             /\ ResetCarry
             /\ UNCHANGED streaming
          \/ /\ op /\ pinOk /\ ob
             /\ pins' = on /\ UNCHANGED pinsStuck
             /\ ResetCarry
             /\ streaming' = TRUE
    BY <1>3 DEF StartCapture
  <2>4. pinsStuck => pinsStuck'
    BY <2>3, Zenon DEF DisablePins
  <2>5. ASSUME ~pinsStuck' PROVE pins' = IF streaming' THEN PinsOf(sys) ELSE {}
    <3>0. ~pinsStuck /\ pins = {}
      BY <2>5, <2>4, <2>2, <1>0
    <3>1. CASE ~op
      <4>1. pins' = pins /\ streaming' = streaming
        BY <2>3, <3>1, Zenon
      <4>2. QED
        BY <2>1, <3>0, <4>1
    <3>2. CASE op /\ ~(oe \/ PinsOf(sys) = {})
      <4>1. DisablePins(pins, od) /\ streaming' = streaming
        BY <2>3, <3>2, Zenon
      <4>2. QED
        BY <2>1, <3>0, <4>1 DEF DisablePins
    <3>3. CASE op /\ (oe \/ PinsOf(sys) = {}) /\ ~ob
      <4>1. DisablePins(pins \cup PinsOf(sys), od) /\ streaming' = streaming
        BY <2>3, <3>3, Zenon
      <4>2. od \/ PinsOf(sys) = {}
        BY <2>5, <4>1, Zenon DEF DisablePins
      <4>3. QED
        BY <2>1, <3>0, <4>1, <4>2 DEF DisablePins
    <3>4. CASE op /\ (oe \/ PinsOf(sys) = {}) /\ ob
      <4>1. pins' = pins \cup PinsOf(sys) /\ streaming' = TRUE
        BY <2>3, <3>4, Zenon
      <4>2. QED
        BY <3>0, <4>1
    <3>5. QED
      BY <3>1, <3>2, <3>3, <3>4
  <2>6. QED
    BY <2>1, <2>5 DEF CaptureInv, PinsFollowCapture
<1>4. CASE StopCapture
  <2>1. file = "Open" /\ streaming /\ ~streaming' /\ file' = file /\ sys' = sys
    BY <1>4 DEF StopCapture
  <2>2. ~pinsStuck => pins = PinsOf(sys)
    BY <2>1 DEF CaptureInv, PinsFollowCapture
  <2>3. ~pinsStuck' => pins' = {}
    BY <1>4, <1>0, <2>2, Zenon DEF StopCapture, DisablePins
  <2>4. QED
    BY <2>1, <2>3 DEF CaptureInv, PinsFollowCapture
<1>5. CASE StreamChunk \/ TermFlip \/ TermDestroy \/ TermPut
  <2>1. UNCHANGED <<pins, pinsStuck, streaming, file, sys>>
    BY <1>5 DEF StreamChunk, TermFlip, TermDestroy, TermPut
  <2>2. QED
    BY <2>1 DEF CaptureInv, PinsFollowCapture
<1>6. CASE UNCHANGED vars
  BY <1>6 DEF vars, CaptureInv, PinsFollowCapture
<1>7. QED
  BY <1>1, <1>2, <1>3, <1>4, <1>5, <1>6 DEF Next

\* start_capture rolls back its pin enable on every failure path, and open
\* and stop_capture disable the pins, so while the file is open and no
\* best-effort disable failed, the current system's TS pins are on exactly
\* while a capture runs.
THEOREM PinsFollow == Spec => []PinsFollowCapture
<1>1. Init => IInv /\ CaptureInv
  BY InitIInv, InitCapture
<1>2. IInv /\ CaptureInv /\ [Next]_vars => IInv' /\ CaptureInv'
  BY NextIInv, NextCapture
<1>3. CaptureInv => PinsFollowCapture
  BY DEF CaptureInv
<1>4. QED
  BY <1>1, <1>2, <1>3, PTL DEF Spec

\* The handle's state (reference count, GPIO lines, chips, pins, capture
\* and teardown state) always has its type.
THEOREM DeviceTypeCorrect == Spec => []TypeOK
<1>1. IInv => TypeOK
  BY DEF IInv
<1>2. QED
  BY InitIInv, NextIInv, <1>1, PTL DEF Spec

(***************************************************************************)
(* StreamStartsFresh needs no invariant: the only step that turns          *)
(* streaming on is the success branch of start_capture, which empties the *)
(* carry-over in the same step.  The other branches, and every other      *)
(* handler, leave streaming as it is or turn it off.                       *)
(***************************************************************************)
LEMMA StartStep ==
    StartCapture => (~streaming /\ streaming' => carryEmpty')
<1> SUFFICES ASSUME StartCapture, streaming' PROVE carryEmpty'
  BY Zenon DEF StartCapture
<1>1. PICK op, oe, ob, od \in BOOLEAN :
        LET pinOk == oe \/ PinsOf(sys) = {}
            on    == pins \cup PinsOf(sys)
        IN
        \/ /\ ~op
           /\ UNCHANGED <<pins, pinsStuck, streaming, carryEmpty>>
        \/ /\ op /\ ~pinOk
           /\ DisablePins(pins, od)
           /\ UNCHANGED <<streaming, carryEmpty>>
        \/ /\ op /\ pinOk /\ ~ob
           /\ DisablePins(on, od)
           /\ ResetCarry
           /\ UNCHANGED streaming
        \/ /\ op /\ pinOk /\ ob
           /\ pins' = on /\ UNCHANGED pinsStuck
           /\ ResetCarry
           /\ streaming' = TRUE
  BY Zenon DEF StartCapture
<1>2. ~streaming
  BY DEF StartCapture
<1>3. QED
  BY <1>1, <1>2, Zenon DEF ResetCarry

\* m1ur_chrdev_start_capture never starts streaming on the carry-over of an
\* earlier capture session: whenever a step turns streaming on, the
\* carry-over is empty after it.
THEOREM StartsFresh == Spec => StreamStartsFresh
<1>1. [Next]_vars => [~streaming /\ streaming' => carryEmpty']_vars
  <2> SUFFICES ASSUME [Next]_vars, ~streaming, streaming' PROVE carryEmpty'
    OBVIOUS
  <2>1. CASE StartCapture
    BY <2>1, StartStep
  <2>2. CASE Open \/ Release \/ StopCapture \/ StreamChunk
         \/ TermFlip \/ TermDestroy \/ TermPut
    BY <2>2, Zenon DEF Open, Release, StopCapture, StreamChunk, TermFlip,
                TermDestroy, TermPut
  <2>3. CASE UNCHANGED vars
    BY <2>3 DEF vars
  <2>4. QED
    BY <2>1, <2>2, <2>3 DEF Next
<1>2. QED
  BY <1>1, PTL DEF Spec, StreamStartsFresh

=============================================================================
