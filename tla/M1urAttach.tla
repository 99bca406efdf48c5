------------------------------ MODULE M1urAttach ------------------------------
(***************************************************************************)
(* m1ur_device_init (m1ur_device.c lines 922-1060) with the configuration *)
(* check of m1ur_device_load_config (lines 852-920), and the resource half *)
(* of m1ur_device_release (lines 1062-1078).                               *)
(*                                                                         *)
(* The attach acquires four resources in order: the device reference      *)
(* (get_device), the stream context (kzalloc), the bus (itedtv_bus_init)  *)
(* and the bridge (it930x_init); then it configures and programs the      *)
(* bridge with calls that may fail.  A failure jumps into the ladder of    *)
(* labels fail_chrdev, fail_device, fail_bridge, fail_bus, fail, which    *)
(* fall through one to the next, each undoing one resource.  The release  *)
(* undoes all four in the same order.  held is the sequence of resources  *)
(* acquired and not yet undone, in the order they were acquired.          *)
(*                                                                         *)
(* Each attach is of a fresh m1ur_device; after it fails, or after the    *)
(* device it created is released, the next probe may attach again.       *)
(***************************************************************************)
EXTENDS Integers, Sequences

Resources == {"devref", "ctx", "bus", "bridge"}

\* The undo ladder: the resource each label undoes, fail_device (with
\* fail_chrdev, which falls into it) first and fail last.
Ladder == <<"bridge", "bus", "ctx", "devref">>

\* A call of the attach: the resource it acquires ("none") and the rung of
\* the ladder its failure jumps to (0: the call cannot fail).
Call(n, r, f) == [name |-> n, acq |-> r, fail |-> f]

\* Mutant: a failed itedtv_bus_init jumps to fail_bridge.
InitStepsBusToBridge ==
    << Call("get_device", "devref", 0), Call("kzalloc", "ctx", 4),
       Call("itedtv_bus_init", "bus", 2), Call("it930x_init", "bridge", 2),
       Call("it930x_raise", "none", 1), Call("load_config", "none", 1),
       Call("load_firmware", "none", 1), Call("init_warm", "none", 1),
       Call("gpio_mode_3", "none", 1), Call("write_gpio_3", "none", 1),
       Call("gpio_mode_2", "none", 1), Call("write_gpio_2", "none", 1),
       Call("pid_filter", "none", 1), Call("add_group", "none", 1) >>

\* The calls of m1ur_device_init from get_device (line 939) to
\* ptx_chrdev_context_add_group (line 1034), with their goto targets.
InitSteps ==
    << Call("get_device", "devref", 0), Call("kzalloc", "ctx", 4),
       Call("itedtv_bus_init", "bus", 3), Call("it930x_init", "bridge", 2),
       Call("it930x_raise", "none", 1), Call("load_config", "none", 1),
       Call("load_firmware", "none", 1), Call("init_warm", "none", 1),
       Call("gpio_mode_3", "none", 1), Call("write_gpio_3", "none", 1),
       Call("gpio_mode_2", "none", 1), Call("write_gpio_2", "none", 1),
       Call("pid_filter", "none", 1), Call("add_group", "none", 1) >>

VARIABLES
    phase,      \* "Idle", "Init", "Unwind", "Live", "Releasing", "Failed", "Released"
    k,          \* the next call of InitSteps, or the next rung of Ladder
    held,       \* the resources acquired and not undone, in order
    result,     \* what the last attach returned ("None" before it returns)
    discard,    \* px4_device_params.discard_null_packets
    configured, \* m1ur_device_load_config filled in the chip control blocks
    absent,     \* the EEPROM check (register 0x4979) read 0 in this attach
    lifoBroken  \* an undo of a resource that is not the last one held

vars == <<phase, k, held, result, discard, configured, absent, lifoBroken>>

TypeOK ==
    /\ phase \in {"Idle", "Init", "Unwind", "Live", "Releasing", "Failed",
                  "Released"}
    /\ k \in 1 .. Len(InitSteps)
    /\ phase \in {"Unwind", "Releasing"} => k \in 1 .. Len(Ladder)
    /\ held \in Seq(Resources)
    /\ result \in {"None", "Ok", "Err", "EINVAL"}
    /\ discard \in BOOLEAN /\ configured \in BOOLEAN /\ absent \in BOOLEAN
    /\ lifoBroken \in BOOLEAN

Init ==
    /\ phase = "Idle" /\ k = 1 /\ held = <<>> /\ result = "None"
    /\ discard \in BOOLEAN
    /\ configured = FALSE /\ absent = FALSE /\ lifoBroken = FALSE

\* The index of the last occurrence of r in sequence s.
LastIndex(s, r) ==
    CHOOSE j \in 1 .. Len(s) : s[j] = r /\ \A m \in j + 1 .. Len(s) : s[m] # r

\* Sequence s without its element at index j (written out rather than taken
\* from SequencesExt, whose Folds declare RECURSIVE operators).
RemoveAt(s, j) == [m \in 1 .. Len(s) - 1 |-> IF m < j THEN s[m] ELSE s[m + 1]]

\* Undo resource r: its last acquisition leaves held (nothing, if r is not
\* held); undoing anything but the last resource held (out of order, twice,
\* or never acquired) breaks the stack order.
Undo(r) ==
    /\ held' = IF \E j \in 1 .. Len(held) : held[j] = r
               THEN RemoveAt(held, LastIndex(held, r))
               ELSE held
    /\ lifoBroken' = (lifoBroken \/ held = <<>> \/ held[Len(held)] # r)

(***************************************************************************)
(* A probe calls m1ur_device_init (lines 934-935): -EINVAL at once if an  *)
(* argument is NULL, with nothing acquired.                                *)
(***************************************************************************)
Attach ==
    /\ phase \in {"Idle", "Failed", "Released"}
    /\ \E argsOk \in BOOLEAN :
        IF argsOk THEN phase' = "Init" /\ result' = "None"
                  ELSE phase' = "Failed" /\ result' = "EINVAL"
    /\ k' = 1
    /\ configured' = FALSE /\ absent' = FALSE
    /\ UNCHANGED <<held, discard, lifoBroken>>

(***************************************************************************)
(* m1ur_device_load_config (lines 852-920): it fails when the read of     *)
(* register 0x4979 fails; when it reads 0 (EEPROM error) it returns 0     *)
(* without filling in the chip control blocks; otherwise it fills them in *)
(* (lines 872-919).                                                        *)
(***************************************************************************)
LoadConfig(fails, eeprom) ==
    /\ absent' = (absent \/ (~fails /\ ~eeprom))
    /\ configured' = (configured \/ (~fails /\ eeprom))

\* Mutant: the last call does not end the attach.
InitCallNoEnd ==
    /\ phase = "Init"
    /\ LET st == InitSteps[k] IN
       \E ok \in BOOLEAN, eeprom \in BOOLEAN :
        LET fails == ~ok /\ st.fail # 0 /\ (st.name = "pid_filter" => discard)
        IN
        /\ IF st.name = "load_config" THEN LoadConfig(fails, eeprom)
                                      ELSE UNCHANGED <<absent, configured>>
        /\ IF fails
           THEN phase' = "Unwind" /\ k' = st.fail /\ result' = "Err"
                /\ UNCHANGED held
           ELSE /\ held' = IF st.acq = "none" THEN held ELSE Append(held, st.acq)
                /\ phase' = phase /\ k' = k + 1 /\ result' = result
    /\ UNCHANGED <<discard, lifoBroken>>

(***************************************************************************)
(* One call of m1ur_device_init.  Success acquires the call's resource and *)
(* goes on; the last success sets available and returns 0.  Failure jumps *)
(* to the call's label.  The null-packet filter is set only when the      *)
(* module parameter asks for it.                                          *)
(***************************************************************************)
InitCall ==
    /\ phase = "Init"
    /\ LET st == InitSteps[k] IN
       \E ok \in BOOLEAN, eeprom \in BOOLEAN :
        LET fails == ~ok /\ st.fail # 0 /\ (st.name = "pid_filter" => discard)
        IN
        /\ IF st.name = "load_config" THEN LoadConfig(fails, eeprom)
                                      ELSE UNCHANGED <<absent, configured>>
        /\ IF fails
           THEN phase' = "Unwind" /\ k' = st.fail /\ result' = "Err"
                /\ UNCHANGED held
           ELSE /\ held' = IF st.acq = "none" THEN held ELSE Append(held, st.acq)
                /\ IF k = Len(InitSteps)
                   THEN phase' = "Live" /\ k' = 1 /\ result' = "Ok"
                   ELSE phase' = phase /\ k' = k + 1 /\ result' = result
    /\ UNCHANGED <<discard, lifoBroken>>

\* Mutant: the ladder stops before fail (put_device).
UnwindStepShort ==
    /\ phase \in {"Unwind", "Releasing"}
    /\ Undo(Ladder[k])
    /\ IF k >= Len(Ladder) - 1
       THEN /\ phase' = IF phase = "Unwind" THEN "Failed" ELSE "Released"
            /\ k' = 1
       ELSE phase' = phase /\ k' = k + 1
    /\ UNCHANGED <<result, discard, configured, absent>>

(***************************************************************************)
(* One rung of the ladder: it930x_term, itedtv_bus_term, kfree of the     *)
(* stream context, put_device.  The failed attach returns its error after *)
(* the last (lines 1046-1059); the release signals quit_completion after  *)
(* it (lines 1070-1076).                                                   *)
(***************************************************************************)
UnwindStep ==
    /\ phase \in {"Unwind", "Releasing"}
    /\ Undo(Ladder[k])
    /\ IF k = Len(Ladder)
       THEN /\ phase' = IF phase = "Unwind" THEN "Failed" ELSE "Released"
            /\ k' = 1
       ELSE phase' = phase /\ k' = k + 1
    /\ UNCHANGED <<result, discard, configured, absent>>

\* The last kref_put (of m1ur_device_term or of the last release of the
\* character device) calls m1ur_device_release.
Release ==
    /\ phase = "Live"
    /\ phase' = "Releasing" /\ k' = 1
    /\ UNCHANGED <<held, result, discard, configured, absent, lifoBroken>>

Next == Attach \/ InitCall \/ UnwindStep \/ Release

Spec == Init /\ [][Next]_vars

-----------------------------------------------------------------------------
(***************************************************************************)
(* Properties.                                                             *)
(***************************************************************************)

\* The goto ladder of m1ur_device_init and the release undo resources in
\* the reverse order of their acquisition, each once and only if acquired:
\* no double free and no put of a reference never taken, on every path.
UnwindInReverse == ~lifoBroken

\* A failed attach, and the release of an attached device, leave nothing
\* acquired; a live device holds all four resources.
NothingLeaked ==
    /\ phase \in {"Idle", "Failed", "Released"} => held = <<>>
    /\ phase = "Live" => held = <<"devref", "ctx", "bus", "bridge">>

\* The spec (device configuration): when the presence check reports absence,
\* initialization fails without touching further hardware, so no device
\* goes live after the EEPROM check read 0.
AbsentFailsAttach == phase = "Live" => ~absent

=============================================================================
