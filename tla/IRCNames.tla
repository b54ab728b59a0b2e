------------------------------ MODULE IRCNames ------------------------------
(***************************************************************************)
(* The values the server's state is made of.  Strings of the program are   *)
(* members of small sets here: what a handler can tell apart about a       *)
(* string is which of these sets it belongs to.                            *)
(***************************************************************************)
EXTENDS Integers, Sequences

CONSTANTS
  Fd,              \* socket descriptors the kernel hands out (and reuses)
  Addr,            \* heap addresses of Client objects (reused after delete)
  NULL,            \* the null pointer, and "no such entry" of a std::map
  Nick,            \* the nicknames _isValidNick accepts
  Chan,            \* the channel names _isValidChannelName accepts
  Word,            \* other parameters: keys, numbers, invalid names; no '#' first
  UserName,        \* non-empty user names
  Topic,           \* non-empty topics
  ServerPassword,  \* the password given on the command line
  Atoi,            \* std::atoi on a parameter, a C int
  MaxInt,          \* INT_MAX of the build
  Missing,         \* stands for a parameter the command did not carry
  Query            \* stands for the one-parameter form of TOPIC and MODE

(* The characters of a MODE string: two signs, the five modes, and one     *)
(* character that stands for every other one.                              *)
ModeChar == {"+", "-", "i", "t", "k", "l", "o", "b"}

(* A parameter of a command where a nickname or a key is expected.         *)
Param == Nick \cup Word \cup {""}

(* One element of a list a handler walks through.                          *)
Token == Param \cup Chan \cup ModeChar

(* An int of the build, two's complement.                                  *)
CInt == (-MaxInt - 1) .. MaxInt

ASSUME NamesAssumption ==
  /\ "" \notin Nick \cup Chan \cup Word \cup UserName \cup Topic
  /\ NULL \notin Fd \cup Addr \cup Chan
  /\ Nick \cap Word = {}
  /\ {Missing, Query} \cap (Token \cup UserName \cup Topic) = {}
  /\ ServerPassword \in Param
  /\ MaxInt \in Nat \ {0}
  /\ Atoi \in [Param -> CInt]
=============================================================================
