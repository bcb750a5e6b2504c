---------------------------- MODULE SocketGateway ----------------------------
(***************************************************************************)
(* socket/socket.gateway.ts: the connections, their rooms and the events   *)
(* bridged to them; modules/notification: the notifications.               *)
(*                                                                         *)
(* The event bus calls its listeners at once, and socket.io sends to the   *)
(* sockets that are in the room at that time.  Of the bridged events,      *)
(* seat.locked and bus.status_changed are never emitted, and no socket is  *)
(* ever in the booking:<id> room of the payment events: they reach nobody. *)
(***************************************************************************)
EXTENDS DeliveryState

Connected == {s \in Sockets : socket[s].connected}

\* A connection with a valid token joins its user's room; one without is anonymous.
\* No event is sent to the tenant's room.
Connect(s, u) ==
  /\ "sockets" \in ops
  /\ s \notin Connected
  /\ socket' = [socket EXCEPT ![s] = [Disconnected EXCEPT
                  !.connected = TRUE, !.user = u,
                  !.rooms = IF u = NoUser THEN {} ELSE {<<"user", u>>}]]
  /\ UNCHANGED <<bookingVars, jobVars, outputVars, address, dayVars, notice, budget>>

Disconnect(s) ==
  /\ s \in Connected
  /\ socket' = [socket EXCEPT ![s] = Disconnected]
  /\ UNCHANGED <<bookingVars, jobVars, outputVars, address, dayVars, notice, budget>>

JoinBus(s, x) ==
  /\ s \in Connected
  /\ socket' = [socket EXCEPT ![s].rooms = @ \cup {<<"bus", x>>}]
  /\ UNCHANGED <<bookingVars, jobVars, outputVars, address, dayVars, notice, budget>>

LeaveBus(s, x) ==
  /\ s \in Connected
  /\ socket' = [socket EXCEPT ![s].rooms = @ \ {<<"bus", x>>}]
  /\ UNCHANGED <<bookingVars, jobVars, outputVars, address, dayVars, notice, budget>>

\* Mutant: to every socket, as for notifications.
EmitToAll(room, b, update) ==
  socket' = [s \in Sockets |->
               IF s \in Connected THEN [socket[s] EXCEPT !.heard[b] = update] ELSE socket[s]]

\* io.to(room).emit(booking:update).
Emit(room, b, update) ==
  socket' = [s \in Sockets |->
               IF s \in Connected /\ room \in socket[s].rooms
               THEN [socket[s] EXCEPT !.heard[b] = update] ELSE socket[s]]

-----------------------------------------------------------------------------
(* Notifications *)

\* The insert, and notification.created, which is sent to every socket.
CreateNotice(n) ==
  /\ "notices" \in ops
  /\ notice[n].state = "unborn"
  /\ notice' = [notice EXCEPT ![n].state = "live"]
  /\ socket' = [s \in Sockets |->
                  IF s \in Connected THEN [socket[s] EXCEPT !.news = @ \cup {n}]
                  ELSE socket[s]]
  /\ UNCHANGED <<bookingVars, jobVars, outputVars, address, dayVars, budget>>

\* updateOne with $addToSet; of a notification that is gone it changes nothing.
MarkAsRead(n, u) ==
  /\ notice[n].state = "live"
  /\ notice' = [notice EXCEPT ![n].readBy = @ \cup {u}]
  /\ UNCHANGED <<bookingVars, jobVars, outputVars, address, dayVars, socket, budget>>

\* delete, and the TTL index on expiresAt.
RemoveNotice(n) ==
  /\ notice[n].state = "live"
  /\ notice' = [notice EXCEPT ![n] = [state |-> "gone", readBy |-> {}]]
  /\ UNCHANGED <<bookingVars, jobVars, outputVars, address, dayVars, socket, budget>>
=============================================================================
