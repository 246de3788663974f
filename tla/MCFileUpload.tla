---------------------------- MODULE MCFileUpload ----------------------------
(***************************************************************************)
(* Uploads for TLC: two keys, one chat and the file centre.                *)
(***************************************************************************)
EXTENDS FileUpload

CONSTANTS k1, k2, x, y, chat

\* Any key for any target with any content, the first key only with one content.
MCAnyRequests == {r \in Request : r.key = k1 => r.content = x}

\* A key always comes back with the target and the content it was made for.
MCFaithfulRequests ==
    {[key |-> k1, target |-> chat, content |-> x], [key |-> k2, target |-> FileCenter, content |-> y]}

=============================================================================
