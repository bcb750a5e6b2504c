------------------------------ MODULE Workers ------------------------------
(***************************************************************************)
(* The processors of jobs/workers/*.ts, one action per awaited call, and   *)
(* the midnight job of jobs/scheduler.ts.                                  *)
(***************************************************************************)
EXTENDS JobQueue

At(r, pc) == run[r].pc = pc
Goto(r, pc) == run' = [run EXCEPT ![r].pc = pc]
JobOf(r) == run[r].job
BookingOf(r) == run[r].job[2]

Smtp == "smtp" \in ops

(* email.worker.ts *)

\* buildEmailContent.  A user without an address, or no SMTP server: nothing to send.
FindUser(r) ==
  /\ At(r, "findUser")
  /\ Goto(r, IF Owner[BookingOf(r)] \notin address THEN "finish"
             ELSE IF JobOf(r)[1] = "booking_confirmed" THEN "findBooking"
             ELSE IF Smtp THEN "sendMail" ELSE "finish")
  /\ UNCHANGED <<bookingVars, job, outputVars, address, dayVars, socketVars, budget>>

FindBooking(r) ==
  /\ At(r, "findBooking")
  /\ Goto(r, IF Smtp THEN "sendMail" ELSE "finish")
  /\ UNCHANGED <<bookingVars, job, outputVars, address, dayVars, socketVars, budget>>

Sent(r) == mails' = [mails EXCEPT ![JobOf(r)] = @ + 1]

SendMail(r) ==
  /\ At(r, "sendMail")
  /\ Sent(r)
  /\ Goto(r, "finish")
  /\ UNCHANGED <<bookingVars, job, ticket, address, dayVars, socketVars, budget>>

\* Mutant: the processor sends again by itself when there is no answer.
SendUntilAnswered(r) ==
  /\ Fault("failing")
  /\ At(r, "sendMail")
  /\ Sent(r)
  /\ UNCHANGED <<bookingVars, jobVars, ticket, address, dayVars, socketVars>>

\* The server takes the mail and its answer is lost.
SendUnanswered(r) ==
  /\ Fault("failing")
  /\ At(r, "sendMail")
  /\ Sent(r)
  /\ Throw(r)
  /\ UNCHANGED <<bookingVars, ticket, address, dayVars, socketVars>>

-----------------------------------------------------------------------------
(* invoice.worker.ts *)

\* The booking, its payment and its user are found.
Load(r) ==
  /\ At(r, "load")
  /\ Goto(r, "open")
  /\ UNCHANGED <<bookingVars, job, outputVars, address, dayVars, socketVars, budget>>

\* The runs whose streams on the file of booking b are open.
Writers(b) == {r \in Runners : At(r, "write") /\ BookingOf(r) = b}

\* createWriteStream truncates the file, and the streams that are open on it stay open.
Truncated(b) == [ticket[b] EXCEPT !.file = "torn", !.shared = Writers(b) # {}]

\* Mutant: the url is saved before the file is written.
OpenFileAndSave(r) ==
  /\ At(r, "open")
  /\ ticket' = [ticket EXCEPT ![BookingOf(r)] =
                  [Truncated(BookingOf(r)) EXCEPT !.url = @ \cup {JobOf(r)[3]}]]
  /\ Goto(r, "write")
  /\ UNCHANGED <<bookingVars, job, mails, address, dayVars, socketVars, budget>>

\* Mutant: nothing waits for the stream to finish.
OpenFileUnawaited(r) ==
  /\ At(r, "open")
  /\ ticket' = [ticket EXCEPT ![BookingOf(r)] = Truncated(BookingOf(r))]
  /\ Goto(r, "saveUrl")
  /\ UNCHANGED <<bookingVars, job, mails, address, dayVars, socketVars, budget>>

OpenFile(r) ==
  /\ At(r, "open")
  /\ ticket' = [ticket EXCEPT ![BookingOf(r)] = Truncated(BookingOf(r))]
  /\ Goto(r, "write")
  /\ UNCHANGED <<bookingVars, job, mails, address, dayVars, socketVars, budget>>

\* Bytes of a stream land in a file that another stream has written.
WriteSome(r) ==
  /\ At(r, "write")
  /\ ticket[BookingOf(r)].file = "whole"
  /\ ticket' = [ticket EXCEPT ![BookingOf(r)].file = "torn"]
  /\ UNCHANGED <<bookingVars, jobVars, mails, address, dayVars, socketVars, budget>>

\* The stream has written everything.  The file is whole if it was the only one.
WriteFile(r) ==
  LET b == BookingOf(r) IN
  /\ At(r, "write")
  /\ \E file \in IF ticket[b].shared THEN {"torn", "whole"} ELSE {"whole"} :
       ticket' = [ticket EXCEPT ![b].file = file]
  /\ Goto(r, "saveUrl")
  /\ UNCHANGED <<bookingVars, job, mails, address, dayVars, socketVars, budget>>

SaveUrl(r) ==
  /\ At(r, "saveUrl")
  /\ ticket' = [ticket EXCEPT ![BookingOf(r)].url = @ \cup {JobOf(r)[3]}]
  /\ Goto(r, "finish")
  /\ UNCHANGED <<bookingVars, job, mails, address, dayVars, socketVars, budget>>

\* findByIdAndUpdate saves the url and its answer is lost.
SaveUrlUnanswered(r) ==
  /\ Fault("failing")
  /\ At(r, "saveUrl")
  /\ ticket' = [ticket EXCEPT ![BookingOf(r)].url = @ \cup {JobOf(r)[3]},
                             ![BookingOf(r)].unanswered = TRUE]
  /\ Throw(r)
  /\ UNCHANGED <<bookingVars, mails, address, dayVars, socketVars>>

-----------------------------------------------------------------------------
(* analytics.worker.ts and scheduler.ts *)

\* The scheduler's midnight: the job is for the day that begins.
Midnight ==
  /\ "days" \in ops
  /\ today < MaxDay
  /\ today' = today + 1
  /\ Add(Daily(today + 1), FALSE)
  /\ UNCHANGED <<bookingVars, run, outputVars, address, made, report, socketVars, budget>>

\* Another booking of today.
BookToday ==
  /\ "days" \in ops
  /\ made[today] < MaxPerDay
  /\ made' = [made EXCEPT ![today] = @ + 1]
  /\ UNCHANGED <<bookingVars, jobVars, outputVars, address, today, report, socketVars, budget>>

Aggregate(r) ==
  /\ At(r, "aggregate")
  /\ run' = [run EXCEPT ![r].pc = "cacheSet", ![r].count = made[BookingOf(r)]]
  /\ UNCHANGED <<bookingVars, job, outputVars, address, dayVars, socketVars, budget>>

CacheReport(r) ==
  /\ At(r, "cacheSet")
  /\ report' = [report EXCEPT ![BookingOf(r)] = run[r].count]
  /\ Goto(r, "finish")
  /\ UNCHANGED <<bookingVars, job, outputVars, address, today, made, socketVars, budget>>

\* SETEX stores the report and its answer is lost.
CacheReportUnanswered(r) ==
  /\ Fault("failing")
  /\ At(r, "cacheSet")
  /\ report' = [report EXCEPT ![BookingOf(r)] = run[r].count]
  /\ Throw(r)
  /\ UNCHANGED <<bookingVars, outputVars, address, today, made, socketVars>>
=============================================================================
