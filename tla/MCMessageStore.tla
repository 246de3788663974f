--------------------------- MODULE MCMessageStore ---------------------------
(***************************************************************************)
(* A small store for TLC: alice has two devices, bob one; both can be in   *)
(* either of two conversations, join, leave and come back.  A behaviour    *)
(* takes the calls either as one step each or as the statements of two     *)
(* gateway processes.                                                      *)
(***************************************************************************)
EXTENDS Submissions, TLC

CONSTANTS alice, bob, phone, laptop, desk

VARIABLE calls
allVars == << submissionVars, calls >>

MCOwnerOf == [d \in Device |-> IF d = desk THEN bob ELSE alice]

(* Conversations and processes are alike.                                  *)
Alike == Permutations(Conversation) \cup Permutations(GatewayProcess)

(* What keeps the statements small: the laptop sends the file the phone    *)
(* sends too, the desk texts; alice stays where she is, and reading is     *)
(* confirmed between submissions.                                          *)
FewStatements ==
    /\ \A s \in submissions' : s.kind = IF s.device = laptop THEN "file"
                                        ELSE IF s.device = desk THEN "text" ELSE s.kind
    /\ \A c \in Conversation : membership'[c][alice] = membership[c][alice]
    /\ lastRead' # lastRead => submissions = {}

MCInit == SubmissionInit /\ calls \in {"one step", "statements"}
MCNext ==
    /\ UNCHANGED calls
    /\ \/ calls = "one step" /\ StoreNext /\ UNCHANGED submissions
       \/ calls = "statements" /\ SubmissionNext /\ FewStatements
MCSpec == MCInit /\ [][MCNext]_allVars
=============================================================================
