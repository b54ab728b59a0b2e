---------------------------- MODULE ReplyBuilder ----------------------------
(***************************************************************************)
(* ReplyBuilder: the lines the server sends.  A line is a sequence of      *)
(* characters, as in Parser; a fixed word of a reply counts as one         *)
(* character.                                                              *)
(***************************************************************************)
EXTENDS Sequences

EndOfLine == <<"\r", "\n">>

(* What stands in for a name a client has not given yet.                   *)
BadDefault(name, instead) == name
Default(name, instead) == IF name = <<>> THEN <<instead>> ELSE name

(* buildPrefix and getValidTargetName.                                     *)
Prefix(from) ==
  <<":">> \o Default(from.nick, "*") \o <<"!">> \o Default(from.user, "unknown")
          \o <<"@ircServ">>
TargetName(client) == Default(client.nick, "*")

(* " " and a word; " :" and a text of any kind.                            *)
Word(w) == <<" ">> \o w
BadText(t) == <<" ">> \o t
Text(t) == <<" ", ":">> \o t
TextIfAny(t) == IF t = <<>> THEN <<>> ELSE Text(t)

Line(from, command) == Prefix(from) \o Word(<<command>>)

Join(from, channel) == Line(from, "JOIN") \o Word(channel) \o EndOfLine

PrivMsg(from, to, msg) ==
  Line(from, "PRIVMSG") \o Word(to) \o TextIfAny(msg) \o EndOfLine

Kick(from, target, channel, reason) ==
  Line(from, "KICK") \o Word(channel) \o Word(TargetName(target))
                     \o TextIfAny(reason) \o EndOfLine

Invite(from, target, channel) ==
  Line(from, "INVITE") \o Word(TargetName(target)) \o Word(channel) \o EndOfLine

Topic(from, channel, topic) ==
  Line(from, "TOPIC") \o Word(channel) \o Text(topic) \o EndOfLine

(* The parameters follow the modes as they are, each behind a space.       *)
BadMode(from, channel, modeStr) ==
  Line(from, "MODE") \o Word(channel) \o Text(modeStr) \o EndOfLine
Mode(from, channel, modeStr) ==
  Line(from, "MODE") \o Word(channel) \o Word(modeStr) \o EndOfLine

-----------------------------------------------------------------------------
(* getNumericMessage: no text for the replies that are all data, nothing at*)
(* all for a number it does not know.  Only the text of 004 has no colon.  *)
NoText  == {"324", "332", "341", "353"}
AllText == {"331", "366", "401", "403", "404", "411", "412", "421", "431", "432",
            "433", "441", "442", "443", "451", "461", "462", "464", "471", "472",
            "473", "475", "482", "001", "002", "003", "004", "467"}

NumericMessage(num) ==
  IF num \in NoText THEN <<>>
  ELSE IF num = "004" THEN <<"ircServ", " ", "text">>
  ELSE <<":", num, " ", "text">>

Numeric(target, num, msg) ==
  IF num \notin NoText \cup AllText THEN <<>>
  ELSE <<":", "ircServ">> \o Word(<<num>>) \o Word(Default(target, "*"))
         \o (IF msg = <<>> THEN <<>> ELSE Word(msg))
         \o (IF NumericMessage(num) = <<>> THEN <<>> ELSE Word(NumericMessage(num)))
         \o EndOfLine
=============================================================================
