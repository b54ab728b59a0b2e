---------------------------- MODULE MemberViews ----------------------------
(***************************************************************************)
(* What each client can know of the members of a channel from the replies  *)
(* it is sent: the names list when it joins, then every JOIN and KICK.     *)
(* The server announces no lost connection, so a picture may keep a client *)
(* that is gone.                                                           *)
(***************************************************************************)
EXTENDS IRCSafety

VARIABLE view   \* whom the client of a socket believes to be in a channel

AfterJoin(f) ==
  IF "353" \in New(f) THEN channels'[Current].members
  ELSE IF "JOIN" \in New(f) THEN view[f][Current] \cup {Self}
  ELSE view[f][Current]

AfterKick(f) ==
  LET t == FindNick(Current)
  IN  IF "KICK" \notin New(f) THEN view[f][job.chan]
      ELSE IF clientsByFd[f] = t THEN {} ELSE view[f][job.chan] \ {t}

ViewTurn ==
  /\ Turn
  /\ view' = [f \in Fd |->
       IF InLoop("JOIN") /\ Current \in Chan
         THEN [view[f] EXCEPT ![Current] = AfterJoin(f)]
       ELSE IF InLoop("KICK") THEN [view[f] EXCEPT ![job.chan] = AfterKick(f)]
       ELSE view[f]]

(* A client that is gone knows nothing; the others are not told.           *)
ViewCommand(f) ==
  /\ Command(f)
  /\ view' = IF clientsByFd'[f] = NULL
               THEN [view EXCEPT ![f] = [c \in Chan |-> {}]] ELSE view

ViewInit == Init /\ view = [f \in Fd |-> [c \in Chan |-> {}]]
ViewNext == (\E f \in Fd : ViewCommand(f)) \/ ViewTurn
ViewSpec == ViewInit /\ [][ViewNext]_<<vars, view>>

-----------------------------------------------------------------------------
(* A client outside a channel knows that it is outside.  A client inside   *)
(* knows every member, itself included, whatever joins and kicks it has    *)
(* lived through, in lists and of others as well.                          *)
ViewsComplete ==
  \A f \in Fd, c \in Chan :
    IF clientsByFd[f] \in Members(c) THEN Members(c) \subseteq view[f][c]
                                     ELSE view[f][c] = {}

(* No command makes a picture stale: whom a client wrongly takes for a     *)
(* member has lost the connection, of which no handler tells.              *)
Stale(f, c) == view[f][c] \ Members(c)
OnlyLossesUnheard ==
  [][clientsByFd' = clientsByFd =>
       \A f \in Fd, c \in Chan : Stale(f, c)' \subseteq Stale(f, c)]_<<vars, view>>
=============================================================================
