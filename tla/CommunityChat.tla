--------------------------- MODULE CommunityChat ---------------------------
(***************************************************************************)
(* The chat of one community: the sockets in its room and the messages.    *)
(*                                                                         *)
(* Membership is asked when a socket joins the room and when a message is  *)
(* sent, in a look-up that comes before what it allows; a member who goes  *)
(* keeps the seat in the room.  A message is saved first and emitted to    *)
(* the room after that, so a process lost in between leaves a message that *)
(* only the history shows, and two messages may be emitted in either order.*)
(***************************************************************************)
EXTENDS Naturals, Sequences

CONSTANTS Users,        \* each with one socket, authenticated by its token
          Sends,        \* messages that may be on their way at the same time
          MaxMessages   \* bound: messages ever saved

VARIABLES standing,   \* of each user: never a member, ACTIVE, or gone (left or banned)
          socket,     \* of each user: out of the room, let in by the check, in the room
          history,    \* community_chat_messages: the senders, in the order of createdAt
          heard,      \* what each socket has received
          sending

chatVars == <<standing, socket, history, heard, sending>>

Silent == [pc |-> "idle", user |-> {}, message |-> 0]

ChatInit ==
  /\ standing = [u \in Users |-> "none"]
  /\ socket = [u \in Users |-> "out"]
  /\ history = <<>>
  /\ heard = [u \in Users |-> {}]
  /\ sending = [s \in Sends |-> Silent]

\* assertActiveMember.
ActiveMember(u) == standing[u] = "ACTIVE"

\* A join, or a leave or a ban.
ChangeStanding(u) ==
  /\ standing' = [standing EXCEPT ![u] = IF ActiveMember(u) THEN "gone" ELSE "ACTIVE"]
  /\ UNCHANGED <<socket, history, heard, sending>>

\* Mutant of AdmitToRoom: any authenticated socket.
AdmitAnyone(u) ==
  /\ socket[u] = "out"
  /\ socket' = [socket EXCEPT ![u] = "admitted"]
  /\ UNCHANGED <<standing, history, heard, sending>>

AdmitToRoom(u) ==
  /\ socket[u] = "out" /\ ActiveMember(u)
  /\ socket' = [socket EXCEPT ![u] = "admitted"]
  /\ UNCHANGED <<standing, history, heard, sending>>

EnterRoom(u) ==
  /\ socket[u] = "admitted"
  /\ socket' = [socket EXCEPT ![u] = "in"]
  /\ UNCHANGED <<standing, history, heard, sending>>

\* leave_community, or the socket disconnects.
LeaveRoom(u) ==
  /\ socket[u] # "out"
  /\ socket' = [socket EXCEPT ![u] = "out"]
  /\ UNCHANGED <<standing, history, heard, sending>>

CheckSender(s, u) ==
  /\ sending[s] = Silent /\ ActiveMember(u)
  /\ sending' = [sending EXCEPT ![s] = [pc |-> "checked", user |-> {u}, message |-> 0]]
  /\ UNCHANGED <<standing, socket, history, heard>>

SaveMessage(s) ==
  /\ sending[s].pc = "checked" /\ Len(history) < MaxMessages
  /\ history' = Append(history, sending[s].user)
  /\ sending' = [sending EXCEPT ![s].pc = "saved", ![s].message = Len(history) + 1]
  /\ UNCHANGED <<standing, socket, heard>>

Emit(s) ==
  /\ sending[s].pc = "saved"
  /\ heard' = [u \in Users |-> heard[u] \cup {m \in {sending[s].message} : socket[u] = "in"}]
  /\ sending' = [sending EXCEPT ![s] = Silent]
  /\ UNCHANGED <<standing, socket, history>>

SendFails(s) ==
  /\ sending[s] # Silent
  /\ sending' = [sending EXCEPT ![s] = Silent]
  /\ UNCHANGED <<standing, socket, history, heard>>

ChatNext ==
  \/ \E u \in Users : ChangeStanding(u) \/ AdmitToRoom(u) \/ EnterRoom(u) \/ LeaveRoom(u)
  \/ \E s \in Sends : SaveMessage(s) \/ Emit(s) \/ SendFails(s) \/ \E u \in Users : CheckSender(s, u)

ChatSpec == ChatInit /\ [][ChatNext]_chatVars

-----------------------------------------------------------------------------
\* The chat stays among members: who has never been one hears nothing and has
\* said nothing, and what anybody hears is in the history, said by a member.
ChatStaysInside ==
  /\ \A u \in Users : standing[u] = "none" => heard[u] = {} /\ \A m \in DOMAIN history : u \notin history[m]
  /\ \A u \in Users : heard[u] \subseteq DOMAIN history
=============================================================================
