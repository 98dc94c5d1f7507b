---------------------------- MODULE LeaseService ----------------------------
(***************************************************************************)
(* What the board-lease core promises its clients (docs/api.md, sessions): *)
(* a session holds one board from its creation until its release is        *)
(* complete, a board has one holder, a session that was told to stop never *)
(* comes back, and only a session that is closing gives its board up.      *)
(***************************************************************************)
CONSTANTS Boards, Sessions, NoSession

VARIABLES
  holder,    \* who holds each board
  granted,   \* every session id that was ever given a board
  closing    \* the sessions whose release has begun

vars == <<holder, granted, closing>>

Init ==
  /\ holder = [b \in Boards |-> NoSession]
  /\ granted = {}
  /\ closing = {}

\* A free board goes to a session id that was never used before.
Acquire(b, s) ==
  /\ holder[b] = NoSession
  /\ s \notin granted
  /\ holder' = [holder EXCEPT ![b] = s]
  /\ granted' = granted \cup {s}
  /\ UNCHANGED closing

\* The holder of a board begins its release.
Close(b) ==
  /\ holder[b] # NoSession
  /\ closing' = closing \cup {holder[b]}
  /\ UNCHANGED <<holder, granted>>

\* The release of a closing holder completes.
Free(b) ==
  /\ holder[b] \in closing
  /\ holder' = [holder EXCEPT ![b] = NoSession]
  /\ UNCHANGED <<granted, closing>>

\* The server process restarts: every lease ends.
Reset ==
  /\ holder' = [b \in Boards |-> NoSession]
  /\ closing' = {}
  /\ UNCHANGED granted

Next ==
  \/ \E b \in Boards, s \in Sessions : Acquire(b, s)
  \/ \E b \in Boards : Close(b) \/ Free(b)
  \/ Reset

Spec == Init /\ [][Next]_vars
=============================================================================
