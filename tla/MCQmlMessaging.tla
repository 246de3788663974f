--------------------------- MODULE MCQmlMessaging ---------------------------
(***************************************************************************)
(* alice writes from her phone, bob reads on his desk and may sign in a    *)
(* second time.  They are members of one direct conversation from the      *)
(* start, unless a configuration lets people join.                         *)
(***************************************************************************)
EXTENDS QmlMessaging, TLC

CONSTANTS alice, bob, phone, ka

MCOwnerOf == [d \in Device |-> IF d = phone THEN alice ELSE bob]
MCDeviceOf == [k \in Connection |-> IF k = ka THEN phone ELSE CHOOSE d \in Device : d # phone]
MCComposedOn == [id \in ClientMessageId |-> phone]
MCFramesOf == [k \in Connection |-> {}]

\* The uuids are interchangeable, and so are bob's two sockets.
MCSymmetry == Permutations(ClientMessageId) \cup Permutations(Connection \ {ka})

=============================================================================
