---------------------------- MODULE ChatHistory ----------------------------
(***************************************************************************)
(* ChatServer with a history of what can make its promises to a person     *)
(* void. The variables of this module guard nothing: a behaviour of HSpec  *)
(* without them is one of Spec, and every behaviour of Spec has them.      *)
(***************************************************************************)
EXTENDS ChatServer

VARIABLES
  ended,   \* people who have lost a connection, by leaving or by a restart
  guessed, \* people who were sent a message before they had an account
  muddled  \* people whose notices changed under a request that reads them

histVars == <<ended, guessed, muddled>>
hvars == <<vars, histVars>>

\* Handler w has selected notices of account a and not yet marked them.
Reading(w, a) ==
  /\ job[w].op \in {"READ_ALL_INFO", "READ_GINGLE_INFO"}
  /\ job[w].from = a
  /\ job[w].pc \in {"send", "mark"}

\* Handler w sends a message to account a.
Writing(w, a) ==
  \/ At(w, "SEND_MESSAGE", "send") /\ job[w].to = a
  \/ At(w, "GROUP_SEND_MESSAGE", "send") /\ a \in job[w].val

\* Whom this step takes a connection from.
Parted == {p \in Account : \E fd \in FD : conn[fd] = p /\ conn'[fd] # p}

\* Who is sent a message without an account, to a descriptor read from nowhere
\* (lines 225 and 441).
Unregistered ==
  {a \in Account : ~HasRow(a) /\ \E w \in Worker : Writing(w, a) \/ Writing(w, a)'}

\* Whose notices are read by two handlers at once.
Crossed == {a \in Account : \E v, w \in Worker :
              v # w /\ Reading(v, a)' /\ Reading(w, a)'}

\* Who is stored a notice while all are read, or while one is read and not after
\* the others: its time has more digits or fewer (line 245).
Overtaken ==
  {a \in Account :
     /\ inform[a] # None
     /\ Len(inform'[a]) > Len(inform[a])
     /\ \E w \in Worker :
          /\ Reading(w, a)
          /\ job[w].op = "READ_ALL_INFO" \/ Front(inform'[a]) # inform[a]}

HInit == Init /\ ended = {} /\ guessed = {} /\ muddled = {}

HNext ==
  /\ Next
  /\ ended' = ended \cup Parted
  /\ guessed' = guessed \cup Unregistered
  /\ muddled' = muddled \cup Crossed \cup Overtaken

HSpec == HInit /\ [][HNext]_hvars
-----------------------------------------------------------------------------
(* Properties *)

\* A chat message that reaches another person was for somebody who has lost a
\* connection, so that column sock keeps a number which is given to others (lines
\* 206-207, 571), or who was written to before he registered (line 225). Nobody
\* else's messages go astray, whoever leaves and whether or not the server is
\* started again on its database ("by the name find the socket", line 84).
StraysAreExplained == \A m \in stray : m[1] \in ended \cup guessed

\* A notice marked as read was sent to its addressee, unless he has lost a
\* connection or his notices have changed while they were read to him: by a second
\* request of his own (lines 339 and 353), by a notice stored while all are read
\* (306 and 326), or by one that is sorted in before others (245). Notices stored
\* after the others while one is read do no harm, nor do crashes.
ReadMeansShownOrMuddled ==
  \A a \in Account \ (ended \cup muddled) : inform[a] # None =>
    \A i \in DOMAIN inform[a] :
      inform[a][i].read => inform[a][i].id \in shown[a]
=============================================================================
