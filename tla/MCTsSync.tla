------------------------------ MODULE MCTsSync ------------------------------
(***************************************************************************)
(* TsSync on small instances: packets of 2 bytes and a lock after 2 marked *)
(* packets (a carry-over of 4 bytes), two byte values (the marker S and    *)
(* one other byte X).                                                      *)
(***************************************************************************)
EXTENDS TsSync

CONSTANTS S, X

MCByte == {S, X}

\* Any stream of n bytes: markers anywhere, in payload and garbage alike.
AnyStream(n) == [q \in 1 .. n |-> MCByte]

\* A transport stream of n bytes after g bytes of garbage: every packet
\* starts with the marker and no payload byte is a marker.
CleanStream(g, n) ==
    [q \in 1 .. n |-> IF q <= g THEN MCByte
                      ELSE IF (q - g - 1) % PacketSize = 0 THEN {S} ELSE {X}]

\* The stream of the runs of MCTsSync.cfg.
MCStreamBytes == AnyStream(9)

=============================================================================
