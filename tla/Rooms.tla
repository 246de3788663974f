------------------------------- MODULE Rooms -------------------------------
(***************************************************************************)
(* Direct conversations and conference rooms of PostgresRuntimeStore.      *)
(* Both are found or made under an advisory lock, in a transaction that    *)
(* first reads whether its person may: with two gateways on one database a *)
(* transaction goes through three steps, and what the first has read may   *)
(* be old when the lock is there.  CURRENT_TIMESTAMP is the time the       *)
(* transaction began.                                                      *)
(***************************************************************************)
EXTENDS People

CONSTANTS
    GatewayProcess,       \* gateways on the database, each with one store call at a time
    MaxConversations,     \* bound on conversations, the group's included
    MaxRooms              \* bound on conference rooms

VARIABLES
    conversations,    \* rows: [pair, members]; the first is a group's, without a pair
    interactions,     \* contact_interactions: << owner, contact >>
    conferenceRooms,  \* rows: [conversation, expired, present]
    calls,            \* transaction of each gateway, or NoCall
    joined            \* ghost: rooms whose join material was issued while they lived
roomVars == << enabled, conversations, interactions, conferenceRooms, calls, joined >>

NoCall == [kind |-> "none", person |-> "", key |-> {}, phase |-> "", found |-> 0, expired |-> {}]
Live(k) == ~conferenceRooms[k].expired

-----------------------------------------------------------------------------
(* The first statement: may the person do this?                            *)
BeginCall(gateway, kind, p, key) ==
    /\ calls[gateway] = NoCall
    /\ calls' = [calls EXCEPT ![gateway] =
           [kind |-> kind, person |-> p, key |-> key, phase |-> "allowed", found |-> 0,
            expired |-> {k \in DOMAIN conferenceRooms : ~Live(k)}]]
    /\ UNCHANGED << enabled, conversations, interactions, conferenceRooms, joined >>

BeginConversation(gateway, p, q) ==
    /\ p # q /\ {p, q} \subseteq enabled /\ OrganizationOf[p] = OrganizationOf[q]
    /\ BeginCall(gateway, "direct", p, {p, q})

BeginConference(gateway, p, c) ==
    /\ p \in conversations[c].members /\ p \in enabled
    /\ BeginCall(gateway, "conference", p, {c})

\* Mutant: the lock is that of the gateway process, not of the database.
FreeInProcess(gateway) == calls[gateway].kind # "none"

(* pg_advisory_xact_lock, held until the transaction ends, and the lookup. *)
Free(gateway) ==
    \A other \in GatewayProcess \ {gateway} :
        calls[other].phase = "locked" =>
            << calls[other].kind, calls[other].key >> # << calls[gateway].kind, calls[gateway].key >>

Latest(found) == IF found = {} THEN 0 ELSE CHOOSE k \in found : \A j \in found : j <= k
Lookup(call) ==
    IF call.kind = "direct"
      THEN Latest({c \in DOMAIN conversations : conversations[c].pair = call.key})
      ELSE Latest({k \in DOMAIN conferenceRooms :
                      conferenceRooms[k].conversation \in call.key /\ k \notin call.expired})

TakeLock(gateway) ==
    /\ calls[gateway].phase = "allowed" /\ Free(gateway)
    /\ calls' = [calls EXCEPT ![gateway] =
           [@ EXCEPT !.phase = "locked", !.found = Lookup(calls[gateway])]]
    /\ UNCHANGED << enabled, conversations, interactions, conferenceRooms, joined >>

EndCall(gateway) == calls' = [calls EXCEPT ![gateway] = NoCall]

getOrCreateDirectConversation(gateway) ==
    LET call == calls[gateway]
        peer == CHOOSE q \in call.key : q # call.person IN
    /\ call.phase = "locked" /\ call.kind = "direct"
    /\ call.found = 0 => Len(conversations) < MaxConversations
    /\ conversations' = IF call.found # 0 THEN conversations
                        ELSE Append(conversations, [pair |-> call.key, members |-> call.key])
    /\ interactions' = interactions \cup {<< call.person, peer >>}
    /\ EndCall(gateway)
    /\ UNCHANGED << enabled, conferenceRooms, joined >>

(* issueJoinMaterial refuses a room whose time is over by now.             *)
joinConference(gateway) ==
    LET call == calls[gateway]
        room == IF call.found # 0 THEN call.found ELSE Len(conferenceRooms) + 1
        rooms == IF call.found # 0 THEN conferenceRooms
                 ELSE Append(conferenceRooms, [conversation |-> CHOOSE c \in call.key : TRUE,
                                               expired |-> FALSE, present |-> {}]) IN
    /\ call.phase = "locked" /\ call.kind = "conference"
    /\ room <= MaxRooms
    /\ conferenceRooms' = [rooms EXCEPT ![room].present = @ \cup {call.person}]
    /\ joined' = IF rooms[room].expired THEN joined ELSE joined \cup {room}
    /\ EndCall(gateway)
    /\ UNCHANGED << enabled, conversations, interactions >>

(* The gateway, its connection to the database or a statement fails.       *)
RollBack(gateway) ==
    /\ calls[gateway] # NoCall
    /\ EndCall(gateway)
    /\ UNCHANGED << enabled, conversations, interactions, conferenceRooms, joined >>

leaveConference(p, k) ==
    /\ k \in DOMAIN conferenceRooms
    /\ conferenceRooms' = [conferenceRooms EXCEPT ![k].present = @ \ {p}]
    /\ UNCHANGED << enabled, conversations, interactions, calls, joined >>

(* Two hours have passed.                                                  *)
Expire(k) ==
    /\ k \in DOMAIN conferenceRooms
    /\ conferenceRooms' = [conferenceRooms EXCEPT ![k].expired = TRUE]
    /\ UNCHANGED << enabled, conversations, interactions, calls, joined >>

(* GroupMembership removes somebody from the group, or takes him back.     *)
ChangeGroup(p) ==
    /\ conversations' = [conversations EXCEPT ![1].members =
                            IF p \in @ THEN @ \ {p} ELSE @ \cup {p}]
    /\ UNCHANGED << enabled, interactions, conferenceRooms, calls, joined >>

RoomsInit ==
    /\ PeopleInit
    /\ conversations = << [pair |-> {}, members |-> Person] >>
    /\ interactions = {} /\ conferenceRooms = << >> /\ joined = {}
    /\ calls = [gateway \in GatewayProcess |-> NoCall]
RoomsNext ==
    \/ \E gateway \in GatewayProcess :
          \/ \E p, q \in Person : BeginConversation(gateway, p, q)
          \/ \E p \in Person, c \in DOMAIN conversations : BeginConference(gateway, p, c)
          \/ TakeLock(gateway)
          \/ getOrCreateDirectConversation(gateway)
          \/ joinConference(gateway)
          \/ RollBack(gateway)
    \/ \E p \in Person, k \in DOMAIN conferenceRooms : leaveConference(p, k)
    \/ \E k \in DOMAIN conferenceRooms : Expire(k)
    \/ \E p \in Dismissible :
          \/ ChangeGroup(p)
          \/ updatePerson(p) /\ UNCHANGED << conversations, interactions, conferenceRooms,
                                             calls, joined >>
RoomsSpec == RoomsInit /\ [][RoomsNext]_roomVars

-----------------------------------------------------------------------------
(* Two people have one direct conversation, whoever of them asks first and *)
(* on whichever gateway, and it is theirs.                                 *)
OneConversationPerPair ==
    \A c, d \in DOMAIN conversations :
        conversations[c].pair # {} =>
            /\ conversations[c].members = conversations[c].pair
            /\ conversations[d].pair = conversations[c].pair => c = d

(* Everybody who is let into the conference of a conversation is let into  *)
(* the same room: at most one room of it lives, and a room that is over    *)
(* gives way to a new one.                                                 *)
OneLiveRoom ==
    \A j, k \in DOMAIN conferenceRooms :
        /\ conferenceRooms[j].conversation = conferenceRooms[k].conversation
           /\ Live(j) /\ Live(k) => j = k
        /\ Live(k) => k \in joined

(* Whoever meets meets in one place: both of the above.                    *)
MeetingPlacesAgree == OneConversationPerPair /\ OneLiveRoom
=============================================================================
