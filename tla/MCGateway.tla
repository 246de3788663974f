----------------------------- MODULE MCGateway -----------------------------
(***************************************************************************)
(* A small gateway for TLC: alice opens one socket, bob two, so that bob's *)
(* second login finds the first socket alive, closing or gone.             *)
(***************************************************************************)
EXTENDS Gateway, TLC

CONSTANTS alice, bob, phone, desk, ka, i1, i2, c1

MCOwnerOf == [d \in Device |-> IF d = desk THEN bob ELSE alice]
MCDeviceOf == [k \in Connection |-> IF k = ka THEN phone ELSE desk]

\* alice sends a text and a file, in either order and again; bob confirms.
MCFramesOf == [k \in Connection |-> {Login} \cup
    IF k = ka THEN {Send(c1, i1, "text"), Send(c1, i2, "file")} \cap ClientFrame
    ELSE {Receipts(t, c1, s) : t \in {"delivered", "read"}, s \in {MaxSequence}}]

\* bob's two sockets are interchangeable.
MCSymmetry == Permutations(Connection \ {ka})

=============================================================================
