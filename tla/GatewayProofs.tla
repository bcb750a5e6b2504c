---------------------------- MODULE GatewayProofs ----------------------------
(***************************************************************************)
(* What the sockets are told of the bookings: who hears of a change, and   *)
(* that what was heard last is true.                                       *)
(***************************************************************************)
EXTENDS DeliveryProofs

-----------------------------------------------------------------------------
(* The steps, as the sockets see them *)

\* A socket after a step that tells it nothing of booking b.
Deaf(s, b) ==
  /\ socket'[s].connected = socket[s].connected /\ socket'[s].user = socket[s].user
  /\ \A u \in Users : <<"user", u>> \in socket'[s].rooms <=> <<"user", u>> \in socket[s].rooms
  /\ socket'[s].heard[b] = socket[s].heard[b]
  /\ ~ socket[s].connected => socket'[s] = socket[s]

\* A socket that has just been connected or disconnected.
Fresh(s) ==
  /\ ~ socket'[s].connected => socket'[s] = Disconnected
  /\ \A u \in Users : <<"user", u>> \in socket'[s].rooms <=> socket'[s].user = u
  /\ \A b \in Bookings : socket'[s].heard[b] = "none"

\* The tails of a booking that have written the status and not announced it.
Loud(b) == {k \in Tails : request[b][k] \in Unannounced}

\* Whoever starts to cancel b may do so.
CancellerKept(b) ==
  request'[b].cancel # "idle" =>
    \/ request[b].cancel # "idle" /\ request'[b].canceller = request[b].canceller
    \/ request'[b].canceller = Owner[b] \/ request'[b].canceller \in Admins

\* A step that leaves the status of b alone, but for its creation, and what is to be
\* announced of it.
Silent(b) ==
  /\ booking'[b].status # booking[b].status => booking[b].status = "none" /\ request[b] = NoRequests
  /\ booking'[b].undisturbed => booking[b].undisturbed /\ Loud(b)' = Loud(b)
  /\ CancellerKept(b)

\* A tail writes the status of b, which is now to be announced.
Writes(b, kind, status) ==
  /\ booking'[b].status = status
  /\ booking'[b].undisturbed => Loud(b)' = {kind}
  /\ CancellerKept(b)

\* A booking whose document and requests stay the same.
LEMMA SameIsSilent ==
  ASSUME NEW b \in Bookings, booking'[b] = booking[b], request'[b] = request[b]
  PROVE  Silent(b)
  BY DEF Silent, Loud, CancellerKept

\* The point a tail goes to, or comes from, is unannounced news only after its write.
LEMMA TailIsSilent ==
  ASSUME NEW b \in Bookings, NEW c \in Bookings, NEW kind \in Tails,
         NEW pc \in TailPCs[kind] \ Unannounced, TypeOK, Tail(c, kind, pc), kind # "cancel",
         request[c][kind] \notin Unannounced,
         \/ UNCHANGED booking
         \/ /\ booking[c].status = "none" /\ request[c] = NoRequests
            /\ booking'[c].undisturbed = booking[c].undisturbed
            /\ \A d \in Bookings \ {c} : booking'[d] = booking[d]
  PROVE  Silent(b)
  <1>1. /\ request'[c][kind] = pc /\ request'[c].canceller = request[c].canceller
        /\ \A k \in Tails \ {kind} : request'[c][k] = request[c][k]
        /\ \A d \in Bookings \ {c} : request'[d] = request[d]
    BY TailMoves
  <1>2. CASE b # c
    BY <1>1, <1>2, SameIsSilent
  <1>3. CASE b = c
    <2>1. Loud(b)' = Loud(b)
      BY <1>1, <1>3 DEF Loud
    <2>2. request'[b].cancel = request[b].cancel
      BY <1>1, <1>3 DEF Tails
    <2>. QED
      BY <1>1, <1>3, <2>1, <2>2 DEF Silent, CancellerKept
  <1>. QED
    BY <1>2, <1>3

\* The steps of requests that neither write a confirmed or cancelled status nor announce.
LEMMA RequestIsSilent ==
  ASSUME NEW b \in Bookings, NEW c \in Bookings, DeliveryInv,
         \/ CreateBooking(c) \/ AddCreated(c)
         \/ \E v \in Verifications :
              ConfirmBooking(c, v) \/ AddTicket(c, v) \/ AddInvoice(c, v) \/ AddReceipt(c, v)
  PROVE  Silent(b) /\ UNCHANGED socket
  <1>1. TypeOK
    BY DEF DeliveryInv
  <1>2. UNCHANGED socket
    BY DEF CreateBooking, AddCreated, ConfirmBooking, AddTicket, AddInvoice, AddReceipt, socketVars
  <1>3. CASE CreateBooking(c)
    <2>1. "create" \in Tails /\ "addCreated" \in TailPCs["create"] \ Unannounced
      BY DEF Tails, TailPCs, Unannounced
    <2>2. booking[c].status = "none" /\ request[c] = NoRequests
      BY <1>3 DEF CreateBooking, DeliveryInv, TailSound
    <2>3. request[c].create \notin Unannounced
      BY <2>2 DEF NoRequests, Unannounced
    <2>4. /\ booking'[c].undisturbed = booking[c].undisturbed
          /\ \A d \in Bookings \ {c} : booking'[d] = booking[d]
      BY <1>1, <1>3 DEF CreateBooking, TypeOK, BookingDocs
    <2>5. Tail(c, "create", "addCreated")
      BY <1>3 DEF CreateBooking
    <2>. QED
      BY <1>1, <1>2, <2>1, <2>2, <2>3, <2>4, <2>5, TailIsSilent
  <1>4. CASE AddCreated(c)
    <2>1. "create" \in Tails /\ "over" \in TailPCs["create"] \ Unannounced
      BY DEF Tails, TailPCs, Unannounced
    <2>2. Tail(c, "create", "over") /\ request[c].create \notin Unannounced /\ UNCHANGED booking
      BY <1>4 DEF AddCreated, HasTail, Unannounced
    <2>. QED
      BY <1>1, <1>2, <2>1, <2>2, TailIsSilent
  <1>5. ASSUME NEW v \in Verifications,
               ConfirmBooking(c, v) \/ AddTicket(c, v) \/ AddInvoice(c, v) \/ AddReceipt(c, v)
        PROVE  Silent(b)
    <2>1. /\ v \in Tails /\ v # "cancel" /\ TailPCs[v] = ConfirmPCs
          /\ {"setConfirmed", "addInvoice", "addReceipt", "over"} \subseteq ConfirmPCs \ Unannounced
      BY VerificationTail DEF ConfirmPCs, Unannounced
    <2>2. PICK pc \in {"setConfirmed", "addInvoice", "addReceipt", "over"} : Tail(c, v, pc)
      BY <1>5 DEF ConfirmBooking, AddTicket, AddInvoice, AddReceipt
    <2>3. request[c][v] \notin Unannounced /\ UNCHANGED booking
      BY <1>5 DEF ConfirmBooking, AddTicket, AddInvoice, AddReceipt, HasTail, Unannounced
    <2>. QED
      BY <1>1, <2>1, <2>2, <2>3, TailIsSilent
  <1>. QED
    BY <1>2, <1>3, <1>4, <1>5

\* Whoever starts to cancel a booking owns it or is an administrator.
LEMMA CancelIsSilent ==
  ASSUME NEW b \in Bookings, NEW c \in Bookings, NEW u \in Users, DeliveryInv, CancelBooking(c, u)
  PROVE  Silent(b) /\ UNCHANGED socket
  <1>1. TypeOK
    BY DEF DeliveryInv
  <1>2. UNCHANGED <<booking, socket>>
    BY DEF CancelBooking, socketVars
  <1>3. /\ request'[c].cancel = "setCancelled" /\ request'[c].canceller = u
        /\ \A k \in Tails \ {"cancel"} : request'[c][k] = request[c][k]
        /\ \A d \in Bookings \ {c} : request'[d] = request[d]
    BY <1>1 DEF CancelBooking, TypeOK, Tails, Verifications, RequestDocs
  <1>4. u = Owner[c] \/ u \in Admins
    BY DEF CancelBooking
  <1>5. Loud(c)' = Loud(c)
    BY <1>3 DEF Loud, CancelBooking, HasTail, Unannounced
  <1>6. CASE b = c
    BY <1>2, <1>3, <1>4, <1>5, <1>6 DEF Silent, CancellerKept
  <1>7. CASE b # c
    BY <1>2, <1>3, <1>7, SameIsSilent
  <1>. QED
    BY <1>2, <1>6, <1>7

\* A tail whose news is dropped makes the history of the booking disturbed.
LEMMA FailureIsSilent ==
  ASSUME NEW b \in Bookings, NEW c \in Bookings, NEW kind \in Tails, DeliveryInv, TailFails(c, kind)
  PROVE  Silent(b) /\ UNCHANGED socket
  <1>1. UNCHANGED socket
    BY DEF TailFails, socketVars
  <1>2. /\ request'[c][kind] = IF kind = "cancel" THEN "idle" ELSE "over"
        /\ kind # "cancel" => request'[c].canceller = request[c].canceller
        /\ \A k \in Tails \ {kind} : request'[c][k] = request[c][k]
        /\ booking'[c].status = booking[c].status
        /\ booking'[c].undisturbed <=>
              booking[c].undisturbed /\ request[c][kind] \notin Unannounced
        /\ \A d \in Bookings \ {c} : booking'[d] = booking[d] /\ request'[d] = request[d]
    BY TailFailed
  <1>3. CASE b = c
    <2>1. booking'[c].undisturbed => Loud(c)' = Loud(c)
      BY <1>2 DEF Loud, Unannounced
    <2>2. CancellerKept(c)
      BY <1>2 DEF CancellerKept, Tails
    <2>. QED
      BY <1>1, <1>2, <1>3, <2>1, <2>2 DEF Silent
  <1>4. CASE b # c
    BY <1>1, <1>2, <1>4, SameIsSilent
  <1>. QED
    BY <1>3, <1>4

\* The write of a status; of another booking it changes nothing.
LEMMA StatusWrites ==
  ASSUME NEW b \in Bookings, NEW c \in Bookings, NEW kind \in Tails, DeliveryInv,
         \/ kind \in Verifications /\ SetConfirmed(c, kind)
         \/ kind = "cancel" /\ SetCancelled(c)
  PROVE  /\ UNCHANGED socket
         /\ b # c => Silent(b)
         /\ b = c => Writes(b, kind, IF kind = "cancel" THEN "cancelled" ELSE "confirmed")
  <1>1. TypeOK
    BY DEF DeliveryInv
  <1>2. UNCHANGED socket
    BY DEF SetConfirmed, SetCancelled, socketVars
  <1>. DEFINE st == IF kind = "cancel" THEN "cancelled" ELSE "confirmed"
              pc == IF kind = "cancel" THEN "unlockCancelled" ELSE "unlockConfirmed"
  <1>3. /\ SetStatus(c, st, kind) /\ st \in Statuses
        /\ Tail(c, kind, pc) /\ pc \in TailPCs[kind] /\ pc \in Unannounced
    <2>1. CASE kind \in Verifications
      <3>1. kind # "cancel" /\ TailPCs[kind] = ConfirmPCs
        BY <2>1, VerificationTail
      <3>. QED
        BY <2>1, <3>1 DEF SetConfirmed, Statuses, ConfirmPCs, Unannounced
    <2>2. CASE kind = "cancel"
      BY <2>2 DEF SetCancelled, SetConfirmed, Statuses, TailPCs, Unannounced, Verifications
    <2>. QED
      BY <2>1, <2>2
  <1>. HIDE DEF st, pc
  <1>4. /\ booking'[c].status = st
        /\ booking'[c].undisturbed <=> NewsUnderWay(c, kind) = {}
        /\ \A d \in Bookings \ {c} : booking'[d] = booking[d]
    BY <1>1, <1>3, StatusSet
  <1>5. /\ request'[c][kind] = pc /\ request'[c].canceller = request[c].canceller
        /\ \A k \in Tails \ {kind} : request'[c][k] = request[c][k]
        /\ \A d \in Bookings \ {c} : request'[d] = request[d]
    BY <1>1, <1>3, TailMoves
  <1>6. NewsUnderWay(c, kind) = {} => Loud(c)' = {kind}
    BY <1>3, <1>5 DEF NewsUnderWay, Loud
  <1>7. CancellerKept(c)
    <2>1. request'[c].cancel # "idle" => request[c].cancel # "idle"
      <3>1. CASE kind = "cancel"
        BY <3>1 DEF SetCancelled, HasTail, Verifications
      <3>2. CASE kind # "cancel"
        BY <1>5, <3>2 DEF Tails
      <3>. QED
        BY <3>1, <3>2
    <2>. QED
      BY <1>5, <2>1 DEF CancellerKept
  <1>8. b # c => Silent(b)
    BY <1>4, <1>5, SameIsSilent
  <1>. QED
    BY <1>2, <1>4, <1>6, <1>7, <1>8 DEF Writes, st

\* An announcement tells the sockets nothing of another booking.
LEMMA OtherAnnounced ==
  ASSUME NEW b \in Bookings, NEW c \in Bookings, DeliveryInv, b # c,
         AnnounceCancelled(c) \/ \E v \in Verifications : AnnounceConfirmed(c, v)
  PROVE  Silent(b) /\ \A s \in Sockets : Deaf(s, b)
  <1>1. TypeOK /\ {"confirmed", "cancelled"} \subseteq Updates
    BY DEF DeliveryInv, Updates
  <1>2. CASE AnnounceCancelled(c)
    <2>1. Silent(b)
      BY <1>2, CancelledAnnounced, SameIsSilent
    <2>2. PICK room : Emit(room, c, "cancelled")
      BY <1>2 DEF AnnounceCancelled
    <2>. QED
      BY <1>1, <2>1, <2>2, EmitReaches DEF Deaf
  <1>3. ASSUME NEW v \in Verifications, AnnounceConfirmed(c, v)
        PROVE  Silent(b) /\ \A s \in Sockets : Deaf(s, b)
    <2>1. v \in Tails /\ "addTicket" \in TailPCs[v]
      BY VerificationTail DEF ConfirmPCs
    <2>2. Silent(b)
      BY <1>1, <1>3, <2>1, TailMoves, SameIsSilent DEF AnnounceConfirmed
    <2>3. PICK room : Emit(room, c, "confirmed")
      BY <1>3 DEF AnnounceConfirmed
    <2>. QED
      BY <1>1, <2>2, <2>3, EmitReaches DEF Deaf
  <1>. QED
    BY <1>2, <1>3

\* Connections and notifications tell the sockets nothing of the bookings.
LEMMA GatewayIsDeaf ==
  ASSUME NEW b \in Bookings, DeliveryInv, Gateway
  PROVE  UNCHANGED <<booking, request>> /\ \A s \in Sockets : Deaf(s, b) \/ Fresh(s)
  <1>1. TypeOK
    BY DEF DeliveryInv
  <1>2. UNCHANGED <<booking, request>>
    BY DEF Gateway, Connect, Disconnect, JoinBus, LeaveBus, CreateNotice, RemoveNotice,
           MarkAsRead, bookingVars
  <1>3. \A s \in Sockets : socket'[s] = socket[s] => Deaf(s, b)
    BY DEF Deaf
  <1>4. ASSUME NEW s \in Sockets, NEW u \in Users \cup {NoUser}, Connect(s, u)
        PROVE  \A t \in Sockets : Deaf(t, b) \/ Fresh(t)
    <2>1. /\ socket'[s].connected /\ socket'[s].user = u
          /\ socket'[s].rooms = IF u = NoUser THEN {} ELSE {<<"user", u>>}
          /\ \A c \in Bookings : socket'[s].heard[c] = "none"
          /\ \A t \in Sockets \ {s} : socket'[t] = socket[t]
      BY <1>1, <1>4, ConnectJoins
    <2>2. Fresh(s)
      BY <2>1, DeliveryConstants DEF Fresh
    <2>. QED
      BY <1>3, <2>1, <2>2
  <1>5. ASSUME NEW s \in Sockets, Disconnect(s)
        PROVE  \A t \in Sockets : Deaf(t, b) \/ Fresh(t)
    <2>1. socket'[s] = Disconnected /\ \A t \in Sockets \ {s} : socket'[t] = socket[t]
      BY <1>1, <1>5 DEF Disconnect, TypeOK
    <2>2. Fresh(s)
      BY <2>1, DeliveryConstants DEF Fresh, Disconnected
    <2>. QED
      BY <1>3, <2>1, <2>2
  <1>6. ASSUME NEW s \in Sockets, NEW x \in Buses, JoinBus(s, x) \/ LeaveBus(s, x)
        PROVE  \A t \in Sockets : Deaf(t, b) \/ Fresh(t)
    <2>1. /\ socket'[s].connected = socket[s].connected /\ socket'[s].user = socket[s].user
          /\ \A u \in Users : <<"user", u>> \in socket'[s].rooms <=> <<"user", u>> \in socket[s].rooms
          /\ socket'[s].heard = socket[s].heard
          /\ \A t \in Sockets \ {s} : socket'[t] = socket[t]
      BY <1>1, <1>6, BusRooms
    <2>2. socket[s].connected
      BY <1>6 DEF JoinBus, LeaveBus, Connected
    <2>. QED
      BY <1>3, <2>1, <2>2 DEF Deaf
  <1>7. ASSUME NEW n \in Notices, CreateNotice(n)
        PROVE  \A t \in Sockets : Deaf(t, b) \/ Fresh(t)
    BY <1>1, <1>7, NoticeReaches DEF Deaf
  <1>8. ASSUME NEW n \in Notices, RemoveNotice(n) \/ \E u \in Users : MarkAsRead(n, u)
        PROVE  \A t \in Sockets : Deaf(t, b) \/ Fresh(t)
    BY <1>3, <1>8 DEF RemoveNotice, MarkAsRead
  <1>. QED
    BY <1>2, <1>4, <1>5, <1>6, <1>7, <1>8 DEF Gateway

\* A crash drops every connection and every cancellation, and leaves no news.
LEMMA CrashIsFresh ==
  ASSUME NEW b \in Bookings, DeliveryInv, Crash
  PROVE  /\ UNCHANGED booking /\ Loud(b)' = {} /\ request'[b].cancel = "idle"
         /\ \A s \in Sockets : Fresh(s)
  <1>1. TypeOK
    BY DEF DeliveryInv
  <1>2. /\ request'[b].create = Dropped(request[b].create)
        /\ \A v \in Verifications : request'[b][v] = Dropped(request[b][v])
        /\ request'[b].cancel = "idle"
    BY <1>1, CrashDrops
  <1>3. Loud(b)' = {}
    BY <1>2 DEF Loud, Tails, Dropped, Unannounced
  <1>4. \A s \in Sockets : Fresh(s)
    BY DeliveryConstants DEF Crash, Fresh, Disconnected
  <1>. QED
    BY <1>2, <1>3, <1>4 DEF Crash

\* Every step, as far as booking b and the sockets are concerned.
LEMMA NewsSteps ==
  ASSUME NEW b \in Bookings, DeliveryInv, [Next]_vars
  PROVE  \/ Silent(b) /\ \A s \in Sockets : Deaf(s, b) \/ Fresh(s)
         \/ \E kind \in Verifications \cup {"cancel"} :
              /\ UNCHANGED socket
              /\ Writes(b, kind, IF kind = "cancel" THEN "cancelled" ELSE "confirmed")
         \/ \E v \in Verifications : AnnounceConfirmed(b, v)
         \/ AnnounceCancelled(b)
         \/ Crash
  <1>1. UNCHANGED socket => \A s \in Sockets : Deaf(s, b)
    BY DEF Deaf
  <1>. DEFINE Goal ==
         \/ Silent(b) /\ \A s \in Sockets : Deaf(s, b) \/ Fresh(s)
         \/ \E kind \in Verifications \cup {"cancel"} :
              /\ UNCHANGED socket
              /\ Writes(b, kind, IF kind = "cancel" THEN "cancelled" ELSE "confirmed")
         \/ \E v \in Verifications : AnnounceConfirmed(b, v)
         \/ AnnounceCancelled(b)
         \/ Crash
  <1>2. CASE UNCHANGED <<booking, request, socket>>
    BY <1>1, <1>2, SameIsSilent
  <1>3. ASSUME NEW c \in Bookings,
               \/ CreateBooking(c) \/ AddCreated(c)
               \/ \E v \in Verifications :
                    ConfirmBooking(c, v) \/ AddTicket(c, v) \/ AddInvoice(c, v) \/ AddReceipt(c, v)
        PROVE  Goal
    BY <1>1, <1>3, RequestIsSilent
  <1>4. ASSUME NEW c \in Bookings,
               \/ \E u \in Users : CancelBooking(c, u)
               \/ \E kind \in Tails : TailFails(c, kind)
        PROVE  Goal
    BY <1>1, <1>4, CancelIsSilent, FailureIsSilent
  <1>5. ASSUME NEW c \in Bookings, NEW kind \in Tails,
               \/ kind \in Verifications /\ SetConfirmed(c, kind)
               \/ kind = "cancel" /\ SetCancelled(c)
        PROVE  Goal
    BY <1>1, <1>5, StatusWrites
  <1>6. ASSUME NEW c \in Bookings,
               AnnounceCancelled(c) \/ \E v \in Verifications : AnnounceConfirmed(c, v)
        PROVE  Goal
    BY <1>6, OtherAnnounced
  <1>7. CASE Gateway
    BY <1>7, GatewayIsDeaf, SameIsSilent
  <1>8. ASSUME NEW c \in Bookings, Announce(c)
        PROVE  Goal
    <2>1. Verifications \subseteq Tails /\ "cancel" \in Tails
      BY DEF Tails
    <2>. QED
      BY <1>3, <1>5, <1>6, <1>8, <2>1 DEF Announce
  <1>9. ASSUME Step
        PROVE  Goal
    <2>1. CASE \/ \E j \in Jobs : Retry(j) \/ Stalled(j) \/ \E r \in Runners : Take(r, j)
               \/ \E r \in Runners :
                    Process(r) \/ WriteSome(r) \/ RunFails(r) \/ Unanswered(r) \/ LoseLock(r)
      <3>1. UNCHANGED <<booking, request, socket>>
        BY <2>1 DEF Retry, Stalled, Take, Process, WriteSome, Unanswered, SendUnanswered,
               SaveUrlUnanswered, CacheReportUnanswered, RunFails, LoseLock,
               FindUser, FindBooking, SendMail, Load, OpenFile, WriteFile, SaveUrl, Aggregate,
               CacheReport, Complete, bookingVars, socketVars
      <3>. QED
        BY <1>2, <3>1
    <2>2. CASE \/ Midnight \/ BookToday \/ MidnightFails
               \/ \E u \in Users : GiveAddress(u) \/ DropAddress(u)
      <3>1. UNCHANGED <<booking, request, socket>>
        BY <2>2 DEF Midnight, BookToday, MidnightFails, GiveAddress, DropAddress, bookingVars,
                    socketVars
      <3>. QED
        BY <1>2, <3>1
    <2>. QED
      BY <1>3, <1>4, <1>7, <1>8, <1>9, <2>1, <2>2 DEF Step
  <1>10. CASE UNCHANGED vars
    BY <1>2, <1>10 DEF vars
  <1>. QED
    BY <1>9, <1>10 DEF Next

-----------------------------------------------------------------------------
(* Who is told *)

\* A socket is in the room of the user whose token it brought, and in no other's; one that
\* is not connected is in none and has heard of nothing.
SocketSound(s) ==
  /\ ~ socket[s].connected => socket[s] = Disconnected
  /\ \A u \in Users : <<"user", u>> \in socket[s].rooms <=> socket[s].user = u

\* A booking is being cancelled by its owner or an administrator.
CancellerSound(b) ==
  request[b].cancel # "idle" =>
    request[b].canceller = Owner[b] \/ request[b].canceller \in Admins

\* What a socket has heard of b was meant for its user.
HeardByRight(s, b) ==
  socket[s].heard[b] # "none" =>
    \/ socket[s].user = Owner[b]
    \/ socket[s].user \in Admins /\ socket[s].heard[b] = "cancelled"

AudienceInv ==
  \A s \in Sockets, b \in Bookings : SocketSound(s) /\ CancellerSound(b) /\ HeardByRight(s, b)

\* The announcement of b reaches the sockets of the user it is for.
LEMMA AnnouncementReaches ==
  ASSUME NEW b \in Bookings, NEW u \in Users, NEW update \in Updates, DeliveryInv, AudienceInv,
         Emit(<<"user", u>>, b, update), NEW s \in Sockets
  PROVE  /\ socket'[s].user = socket[s].user
         /\ socket'[s].heard[b] = IF socket[s].user = u THEN update ELSE socket[s].heard[b]
         /\ SocketSound(s)'
  <1>1. TypeOK
    BY DEF DeliveryInv
  <1>2. /\ socket'[s].connected = socket[s].connected /\ socket'[s].user = socket[s].user
        /\ socket'[s].rooms = socket[s].rooms
        /\ socket'[s].heard[b] =
             IF s \in Connected /\ <<"user", u>> \in socket[s].rooms
             THEN update ELSE socket[s].heard[b]
        /\ ~ socket[s].connected => socket'[s] = socket[s]
    BY <1>1, EmitReaches
  <1>3. SocketSound(s)
    BY DEF AudienceInv
  <1>4. socket[s].user = u => s \in Connected
    BY <1>3, DeliveryConstants DEF SocketSound, Disconnected, Connected
  <1>5. <<"user", u>> \in socket[s].rooms <=> socket[s].user = u
    BY <1>3 DEF SocketSound
  <1>. QED
    BY <1>2, <1>3, <1>4, <1>5 DEF SocketSound

\* A socket that is told nothing, or was just connected, stays sound.
LEMMA DeafIsSound ==
  ASSUME NEW b \in Bookings, NEW s \in Sockets, SocketSound(s), HeardByRight(s, b),
         Deaf(s, b) \/ Fresh(s)
  PROVE  SocketSound(s)' /\ HeardByRight(s, b)'
  BY DEF SocketSound, HeardByRight, Deaf, Fresh

\* The owner of a booking is a user.
LEMMA OwnersAndCancellers ==
  ASSUME NEW b \in Bookings, DeliveryInv
  PROVE  /\ Owner[b] \in Users /\ Owner[b] # NoUser
         /\ request[b] \in RequestDocs
  BY DeliveryConstants DEF DeliveryInv, TypeOK

\* Every step preserves what concerns booking b and a socket.
LEMMA AudienceNext ==
  ASSUME NEW b \in Bookings, NEW s \in Sockets, DeliveryInv, [Next]_vars, AudienceInv
  PROVE  SocketSound(s)' /\ CancellerSound(b)' /\ HeardByRight(s, b)'
  <1>1. SocketSound(s) /\ CancellerSound(b) /\ HeardByRight(s, b)
    BY DEF AudienceInv
  <1>2. {"confirmed", "cancelled"} \subseteq Updates
    BY DEF Updates
  <1>3. CancellerKept(b) => CancellerSound(b)'
    BY <1>1 DEF CancellerKept, CancellerSound
  <1>4. CASE Silent(b) /\ (Deaf(s, b) \/ Fresh(s))
    BY <1>1, <1>3, <1>4, DeafIsSound DEF Silent
  <1>5. ASSUME NEW kind, NEW status, UNCHANGED socket, Writes(b, kind, status)
        PROVE  SocketSound(s)' /\ CancellerSound(b)' /\ HeardByRight(s, b)'
    BY <1>1, <1>3, <1>5 DEF Writes, SocketSound, HeardByRight
  <1>6. ASSUME NEW v \in Verifications, AnnounceConfirmed(b, v)
        PROVE  SocketSound(s)' /\ CancellerSound(b)' /\ HeardByRight(s, b)'
    <2>1. Owner[b] \in Users /\ Emit(<<"user", Owner[b]>>, b, "confirmed")
      BY <1>6, OwnersAndCancellers DEF AnnounceConfirmed, OwnerRoom
    <2>2. SocketSound(s)' /\ HeardByRight(s, b)'
      BY <1>1, <1>2, <2>1, AnnouncementReaches DEF HeardByRight
    <2>3. v \in Tails \ {"cancel"} /\ "addTicket" \in TailPCs[v] /\ "cancel" \in Tails
      BY VerificationTail DEF ConfirmPCs, Tails
    <2>4. request'[b].cancel = request[b].cancel /\ request'[b].canceller = request[b].canceller
      BY <1>6, <2>3, TailMoves DEF AnnounceConfirmed, DeliveryInv
    <2>. QED
      BY <1>1, <2>2, <2>4 DEF CancellerSound
  <1>7. CASE AnnounceCancelled(b)
    <2>1. PICK u : u = request[b].canceller
      OBVIOUS
    <2>2. u = Owner[b] \/ u \in Admins
      BY <1>1, <1>7, <2>1 DEF AnnounceCancelled, HasTail, CancellerSound
    <2>3. u \in Users
      BY <2>2, OwnersAndCancellers, DeliveryConstants
    <2>4. Emit(<<"user", u>>, b, "cancelled")
      BY <1>7, <2>1 DEF AnnounceCancelled
    <2>5. SocketSound(s)' /\ HeardByRight(s, b)'
      BY <1>1, <1>2, <2>2, <2>3, <2>4, AnnouncementReaches DEF HeardByRight
    <2>6. CancellerSound(b)'
      BY <1>7, CancelledAnnounced DEF CancellerSound
    <2>. QED
      BY <2>5, <2>6
  <1>8. CASE Crash
    BY <1>1, <1>8, CrashIsFresh, DeafIsSound DEF CancellerSound
  <1>. QED
    BY <1>4, <1>5, <1>6, <1>7, <1>8, NewsSteps

\* At the start nobody is connected and nothing is cancelled.
LEMMA AudienceInit == Init => AudienceInv
  <1>. SUFFICES ASSUME Init, NEW s \in Sockets, NEW b \in Bookings
                PROVE  SocketSound(s) /\ CancellerSound(b) /\ HeardByRight(s, b)
    BY DEF AudienceInv
  <1>1. socket[s] = Disconnected /\ request[b] = NoRequests
    BY DEF Init
  <1>. QED
    BY <1>1, DeliveryConstants DEF SocketSound, CancellerSound, HeardByRight, Disconnected,
       NoRequests

\* A booking:update reaches the sockets of the booking's owner, or those of the
\* administrator that cancelled it, and nobody else's (socket.gateway.ts).
THEOREM UpdatesReachOnlyTheirAudience == Spec => []UpdatesReachTheirAudience
  <1>1. Init => AudienceInv
    BY AudienceInit
  <1>2. DeliveryInv /\ AudienceInv /\ [Next]_vars => AudienceInv'
    BY AudienceNext DEF AudienceInv
  <1>3. AudienceInv => UpdatesReachTheirAudience
    BY DEF AudienceInv, HeardByRight, UpdatesReachTheirAudience
  <1>. QED
    BY <1>1, <1>2, <1>3, DeliveryInvHolds, PTL DEF Spec

-----------------------------------------------------------------------------
(* What was heard last is true *)

\* What the news about b is once its tail has written the status.
News(kind) == IF kind = "cancel" THEN "cancelled" ELSE "confirmed"

\* Of a booking whose changes did not overlap one change at most is still to be announced,
\* and it is the status; when there is none, the owner's sockets have heard the status.
NewsSound(b) ==
  booking[b].undisturbed =>
    /\ \A k1, k2 \in Loud(b) : k1 = k2
    /\ \A k \in Loud(b) : booking[b].status = News(k)
    /\ Loud(b) = {} =>
         \A s \in Sockets : socket[s].user = Owner[b] /\ socket[s].heard[b] # "none" =>
           socket[s].heard[b] = booking[b].status

\* A tail that has announced its news leaves none behind, and the owner has heard it.
LEMMA Announced ==
  ASSUME NEW b \in Bookings, NEW kind \in Tails, DeliveryInv, AudienceInv, NewsSound(b),
         request[b][kind] \in Unannounced,
         request'[b][kind] \notin Unannounced,
         \A k \in Tails \ {kind} : request'[b][k] = request[b][k],
         booking'[b].status = booking[b].status,
         booking'[b].undisturbed =>
           booking[b].undisturbed /\ Emit(<<"user", Owner[b]>>, b, News(kind))
  PROVE  NewsSound(b)'
  <1>. SUFFICES ASSUME booking'[b].undisturbed
                PROVE  /\ Loud(b)' = {}
                       /\ \A s \in Sockets : socket'[s].user = Owner[b] =>
                            socket'[s].heard[b] = booking'[b].status
    BY DEF NewsSound
  <1>1. kind \in Loud(b) /\ \A k \in Loud(b) : k = kind
    BY DEF Loud, NewsSound
  <1>2. Loud(b)' = {}
    BY <1>1 DEF Loud
  <1>3. booking'[b].status = News(kind)
    BY <1>1 DEF NewsSound
  <1>4. \A s \in Sockets : socket'[s].user = Owner[b] => socket'[s].heard[b] = News(kind)
    BY OwnersAndCancellers, AnnouncementReaches DEF News, Updates
  <1>. QED
    BY <1>2, <1>3, <1>4

\* Every step preserves NewsSound.
LEMMA NewsNext ==
  ASSUME NEW b \in Bookings, DeliveryInv, [Next]_vars, AudienceInv, NewsSound(b)
  PROVE  NewsSound(b)'
  <1>1. \A s \in Sockets : Fresh(s) => socket'[s].heard[b] = "none"
    BY DEF Fresh
  <1>2. CASE Silent(b) /\ \A s \in Sockets : Deaf(s, b) \/ Fresh(s)
    <2>. SUFFICES ASSUME booking'[b].undisturbed
                  PROVE  NewsSound(b)'
      BY DEF NewsSound
    <2>1. booking[b].undisturbed /\ Loud(b)' = Loud(b)
      BY <1>2 DEF Silent
    <2>2. \A s \in Sockets : socket'[s].heard[b] # "none" =>
            socket'[s].user = socket[s].user /\ socket'[s].heard[b] = socket[s].heard[b]
      BY <1>1, <1>2 DEF Deaf
    <2>3. CASE booking'[b].status = booking[b].status
      BY <2>1, <2>2, <2>3 DEF NewsSound
    <2>4. CASE booking[b].status = "none" /\ request[b] = NoRequests
      <3>1. Loud(b) = {}
        BY <2>4 DEF Loud, NoRequests, Tails, Verifications, Unannounced
      <3>. QED
        BY <2>1, <2>2, <2>4, <3>1 DEF NewsSound
    <2>. QED
      BY <1>2, <2>3, <2>4 DEF Silent
  <1>3. ASSUME NEW kind \in Verifications \cup {"cancel"}, Writes(b, kind, News(kind))
        PROVE  NewsSound(b)'
    <2>1. /\ booking'[b].status = News(kind)
          /\ booking'[b].undisturbed => Loud(b)' = {kind}
      BY <1>3 DEF Writes
    <2>. QED
      BY <2>1 DEF NewsSound
  <1>4. ASSUME NEW v \in Verifications, AnnounceConfirmed(b, v)
        PROVE  NewsSound(b)'
    <2>1. v \in Tails /\ v # "cancel" /\ "addTicket" \in TailPCs[v] \ Unannounced
      BY VerificationTail DEF ConfirmPCs, Unannounced
    <2>2. /\ request'[b][v] = "addTicket"
          /\ \A k \in Tails \ {v} : request'[b][k] = request[b][k]
      BY <1>4, <2>1, TailMoves DEF AnnounceConfirmed, DeliveryInv
    <2>3. UNCHANGED booking /\ Emit(<<"user", Owner[b]>>, b, News(v))
      BY <1>4, <2>1 DEF AnnounceConfirmed, OwnerRoom, News
    <2>4. request[b][v] \in Unannounced
      BY <1>4 DEF AnnounceConfirmed, HasTail, Unannounced
    <2>. QED
      BY <2>1, <2>2, <2>3, <2>4, Announced
  <1>5. CASE AnnounceCancelled(b)
    <2>1. "cancel" \in Tails /\ request[b]["cancel"] \in Unannounced
      BY <1>5 DEF AnnounceCancelled, HasTail, Unannounced, Tails
    <2>2. /\ request'[b]["cancel"] \notin Unannounced
          /\ \A k \in Tails \ {"cancel"} : request'[b][k] = request[b][k]
          /\ booking'[b].status = booking[b].status
          /\ booking'[b].undisturbed => booking[b].undisturbed /\ request[b].canceller = Owner[b]
      BY <1>5, CancelledAnnounced DEF Unannounced
    <2>3. Emit(<<"user", request[b].canceller>>, b, News("cancel"))
      BY <1>5 DEF AnnounceCancelled, News
    <2>4. booking'[b].undisturbed => Emit(<<"user", Owner[b]>>, b, News("cancel"))
      BY <2>2, <2>3
    <2>. QED
      BY <2>1, <2>2, <2>4, Announced
  <1>6. CASE Crash
    <2>1. Loud(b)' = {} /\ \A s \in Sockets : socket'[s].heard[b] = "none"
      BY <1>1, <1>6, CrashIsFresh
    <2>. QED
      BY <2>1 DEF NewsSound
  <1>. QED
    BY <1>2, <1>3, <1>4, <1>5, <1>6, NewsSteps DEF News

\* What the owner's socket heard last of a booking is its status, except while the news is
\* on its way, and unless two changes overlapped, an announcement failed, or somebody else
\* cancelled the booking.
THEOREM LastUpdateHeardIsTrue == Spec => []LastUpdateIsTrue
  <1>. DEFINE NewsInv == AudienceInv /\ \A b \in Bookings : NewsSound(b)
  <1>1. Init => NewsInv
    <2>. SUFFICES ASSUME Init PROVE NewsInv
      OBVIOUS
    <2>1. \A s \in Sockets : socket[s] = Disconnected
      BY DEF Init
    <2>2. AudienceInv
      BY AudienceInit
    <2>3. \A b \in Bookings : Loud(b) = {}
      BY DEF Init, Loud, NoRequests, Tails, Verifications, Unannounced
    <2>. QED
      BY <2>1, <2>2, <2>3 DEF NewsSound, Disconnected
  <1>2. DeliveryInv /\ NewsInv /\ [Next]_vars => NewsInv'
    BY AudienceNext, NewsNext DEF AudienceInv
  <1>3. NewsInv => LastUpdateIsTrue
    BY DEF NewsSound, Loud, LastUpdateIsTrue
  <1>. QED
    BY <1>1, <1>2, <1>3, DeliveryInvHolds, PTL DEF Spec
=============================================================================
