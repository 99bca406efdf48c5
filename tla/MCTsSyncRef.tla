---------------------------- MODULE MCTsSyncRef ----------------------------
(***************************************************************************)
(* The synchronizer against a reference: the whole stream fed to           *)
(* m1ur_device_stream_process as a single window, the way the spec says    *)
(* the output must look whatever the chunking.                             *)
(***************************************************************************)
EXTENDS MCTsSync, FiniteSets

\* The set of elements of a buffer.
Elems(s) == {s[j] : j \in DOMAIN s}

\* The positions stream_process delivers when it is given window w in one
\* call, computed by following its loop to the end.
RECURSIVE OneShot(_)
OneShot(w) ==
    IF w = <<>> THEN {}
    ELSE LET i == CHOOSE n \in 0 .. Slots(w) : LoopExit(w, n)
         IN IF i < SyncCount THEN OneShot(Tail(w))
            ELSE Elems(SubSeq(w, 1, PacketSize * i))
                 \cup (IF (i + 1) * PacketSize > Len(w) THEN {}
                       ELSE OneShot(SubSeq(w, PacketSize * i + 1, Len(w))))

\* The positions delivered so far.
Delivered == UNION {Elems(out[k]) : k \in 1 .. Len(out)}

\* Spec, section 8: the bytes delivered do not depend on how the stream was
\* cut into chunks.  Between invocations, the handler has delivered
\* exactly the bytes the single-window run delivers, except those it still
\* holds in the carry-over.
ChunkingInvariant ==
    hpc = "Idle" =>
        Delivered = OneShot(Run(1, Len(input))) \ Elems(remainBuf)

\* Streams of the reference runs: a clean transport stream of 12 bytes
\* after 0 or 1 byte of garbage.
RefStreamBytes0 == CleanStream(0, 12)
RefStreamBytes1 == CleanStream(1, 12)

=============================================================================
