------------------------- MODULE ModeAnnouncements -------------------------
(***************************************************************************)
(* What the members of a channel can make of the announcement of a MODE    *)
(* line.  The history variable holds the channel as it was when the line   *)
(* began.                                                                  *)
(***************************************************************************)
EXTENDS IRCSafety

VARIABLE before   \* the channel of the MODE line in progress, at its start

InLine == job.cmd = "MODE"

LineInit == Init /\ before = NULL
LineNext ==
  /\ Next
  /\ before' = IF job'.cmd # "MODE" THEN NULL
               ELSE IF InLine THEN before ELSE channels[job'.chan]
LineSpec == LineInit /\ [][LineNext]_<<vars, before>>

(***************************************************************************)
(* A reader of an announcement.  It keeps a sign, and takes a parameter for*)
(* +k, +l, +o and -o; a +k without one sets the empty key.                 *)
(***************************************************************************)
Reader == [ch |-> before, on |-> TRUE, left |-> job.finalParams]

TakesParam(c, on) == c = "o" \/ (on /\ c \in {"k", "l"})
Given(r)          == IF r.left = <<>> THEN "" ELSE Head(r.left)

Applied(r, c) ==
  CASE c \in {"i", "t"}    -> SetFlag(r.ch, c, r.on)
    [] c = "k" /\ r.on     -> SetProtected(r.ch, Given(r))
    [] c = "k" /\ ~r.on    -> UnsetProtected(r.ch)
    [] c = "l" /\ r.on     -> SetLimit(r.ch, Atoi[Given(r)])
    [] c = "l" /\ ~r.on    -> UnsetLimit(r.ch)
    [] c = "o"             -> SetRank(r.ch, FindNick(Given(r)), r.on)

Read(c, r) ==
  IF c \in {"+", "-"} THEN [r EXCEPT !.on = (c = "+")]
  ELSE [ch |-> Applied(r, c), on |-> r.on,
        left |-> IF TakesParam(c, r.on) THEN TailOf(r.left) ELSE r.left]

Replayed ==
  LET reading[n \in 0..Len(job.finalModes)] ==
        IF n = 0 THEN Reader ELSE Read(job.finalModes[n], reading[n - 1])
  IN  reading[Len(job.finalModes)]

(* The announcement collected so far, read by somebody who knows the       *)
(* channel as it was before the line, gives the channel as it is now, with *)
(* no parameter left over: whatever the line skipped, refused or repeated, *)
(* no member's picture of the modes and operators drifts.                  *)
AnnouncementReplays ==
  InLine => Replayed.ch = ModeChannel /\ Replayed.left = <<>>
=============================================================================
