------------------------------ MODULE Channel ------------------------------
(***************************************************************************)
(* A Channel object with its ChannelModes (src/Channel.cpp,                *)
(* src/ChannelModes.cpp).  Members, operators and invited clients are sets *)
(* of pointers: nothing in the object keeps them valid when the Client     *)
(* they point to is deleted.                                               *)
(***************************************************************************)
EXTENDS IRCNames, FiniteSets

(* Cardinality counts members: an address space is finite.                 *)
ASSUME FiniteAddrAssumption == IsFiniteSet(Addr)

(* A stored limit is positive or the initial 0: the conversion of an int   *)
(* to size_t at the comparison would turn a negative one into no limit.    *)
MemberLimit == 0 .. MaxInt

ChannelObject ==
  [topic: Topic \cup {""},
   members: SUBSET Addr, operators: SUBSET Addr, invited: SUBSET Addr,
   inviteOnly: BOOLEAN, topicRestricted: BOOLEAN,
   channelProtected: BOOLEAN, channelPass: Param,
   memberLimited: BOOLEAN, maxMember: MemberLimit]

NewChannel ==
  [topic |-> "",
   members |-> {}, operators |-> {}, invited |-> {},
   inviteOnly |-> FALSE, topicRestricted |-> FALSE,
   channelProtected |-> FALSE, channelPass |-> "",
   memberLimited |-> FALSE, maxMember |-> 0]

SetTopic(ch, t) == [ch EXCEPT !.topic = t]

AddMember(ch, a)        == [ch EXCEPT !.members = @ \cup {a}]
AddOperator(ch, a)      == [ch EXCEPT !.operators = @ \cup {a}]
RemoveOperator(ch, a)   == [ch EXCEPT !.operators = @ \ {a}]
AddInvitedMember(ch, a) == [ch EXCEPT !.invited = @ \cup {a}]

(* Channel::removeClient forgets the pointer in all three sets.            *)
BadRemoveKeepsInvited(ch, a) ==
  [ch EXCEPT !.members = @ \ {a}, !.operators = @ \ {a}]
BadRemoveKeepsOperator(ch, a) ==
  [ch EXCEPT !.members = @ \ {a}, !.invited = @ \ {a}]
RemoveFromChannel(ch, a) ==
  [ch EXCEPT !.members = @ \ {a}, !.operators = @ \ {a}, !.invited = @ \ {a}]

(***************************************************************************)
(* Modes.                                                                  *)
(***************************************************************************)
SetFlag(ch, m, on) ==
  IF m = "i" THEN [ch EXCEPT !.inviteOnly = on]
             ELSE [ch EXCEPT !.topicRestricted = on]

SetProtected(ch, key) ==
  [ch EXCEPT !.channelProtected = TRUE, !.channelPass = key]
UnsetProtected(ch) ==
  [ch EXCEPT !.channelProtected = FALSE, !.channelPass = ""]

SetLimit(ch, n) == [ch EXCEPT !.memberLimited = TRUE, !.maxMember = n]
UnsetLimit(ch)  == [ch EXCEPT !.memberLimited = FALSE]

(* _joinSingleChannel converts the stored int to size_t and refuses once   *)
(* as many members are in.                                                 *)
BadFull(ch) == ch.memberLimited /\ Cardinality(ch.members) > ch.maxMember
Full(ch)    == ch.memberLimited /\ Cardinality(ch.members) >= ch.maxMember
=============================================================================
