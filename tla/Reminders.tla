------------------------------- MODULE Reminders -------------------------------
(***************************************************************************)
(* Appointments and their reminders: POST api/appointments inserts the     *)
(* appointment and then, in another transaction, a job for the reminder    *)
(* (lib/appointments/reminders.ts); the handler reads, sends by WhatsApp   *)
(* and records.  The job runs again after an error while the queue allows  *)
(* it (JobQueue.tla: never twice at once, stuck after a crash).            *)
(* api/webhooks/n8n/due-appointments lists what was missed.                *)
(***************************************************************************)
EXTENDS Naturals, FiniteSets

CONSTANTS Appointments,
          MaxRuns  \* max_attempts of a job

ASSUME MaxRunsAssumption == MaxRuns \in Nat \ {0}

VARIABLES appointment, \* appointments: absent, upcoming, cancelled, past
          reminded,    \* appointments.reminder_sent_at is set
          job,         \* the reminder's job
          messages,    \* whatsapp_messages rows of each appointment
          sends,       \* history: messages the provider accepted
          lapses       \* history: what went wrong after a message was accepted

remindersVars == <<appointment, reminded, job, messages, sends, lapses>>

\* none: not enqueued; queued; read, sent: where the handler is; over: completed,
\* failed for good, or left processing by a crash.
JobStates == {"none", "queued", "read", "sent", "over"}

RemindersTypeOK ==
  /\ appointment \in [Appointments -> {"absent", "upcoming", "cancelled", "past"}]
  /\ reminded \subseteq Appointments
  /\ job \in [Appointments -> [at : JobStates, runs : 0 .. MaxRuns]]
  /\ messages \in [Appointments -> Nat]
  /\ sends \in [Appointments -> Nat]
  /\ lapses \in [Appointments -> Nat]

RemindersInit ==
  /\ appointment = [a \in Appointments |-> "absent"]
  /\ reminded = {}
  /\ job = [a \in Appointments |-> [at |-> "none", runs |-> 0]]
  /\ messages = [a \in Appointments |-> 0]
  /\ sends = [a \in Appointments |-> 0]
  /\ lapses = [a \in Appointments |-> 0]

CreateAppointment(a) ==
  /\ appointment[a] = "absent"
  /\ appointment' = [appointment EXCEPT ![a] = "upcoming"]
  /\ UNCHANGED <<reminded, job, messages, sends, lapses>>

\* scheduleAppointmentReminder(): an hour before, or at once.  When it fails the
\* request is answered with an error and the appointment stays without a job.
ScheduleReminder(a) ==
  /\ appointment[a] # "absent"
  /\ job[a].at = "none"
  /\ job' = [job EXCEPT ![a].at = "queued"]
  /\ UNCHANGED <<appointment, reminded, messages, sends, lapses>>

\* Mutant: the handler trusts that its job runs once.
ReadyToRemindAlways(a) == appointment[a] # "cancelled"

\* The handler's early return, negated but for the lead's number.  An appointment
\* that is past is reminded of.
ReadyToRemind(a) == a \notin reminded /\ appointment[a] # "cancelled"

\* The handler starts: it goes on to send unless ReadyToRemind fails, or the lead
\* has no phone number (leads.phone_number may be NULL).
StartReminder(a) ==
  /\ job[a].at = "queued"
  /\ \E at \in IF ReadyToRemind(a) THEN {"read", "over"} ELSE {"over"} :
       job' = [job EXCEPT ![a].runs = @ + 1, ![a].at = at]
  /\ UNCHANGED <<appointment, reminded, messages, sends, lapses>>

\* Mutant: one run too many.
AfterErrorOnceMore(a) == IF job[a].runs <= MaxRuns THEN "queued" ELSE "over"

\* The queue after an error of the handler.
AfterError(a) == IF job[a].runs < MaxRuns THEN "queued" ELSE "over"

\* provider.sendReminder().
SendReminder(a) ==
  /\ job[a].at = "read"
  /\ sends' = [sends EXCEPT ![a] = @ + 1]
  /\ job' = [job EXCEPT ![a].at = "sent"]
  /\ UNCHANGED <<appointment, reminded, messages, lapses>>

\* No provider, or it refuses the message: nothing is recorded.
SendFails(a) ==
  /\ job[a].at = "read"
  /\ job' = [job EXCEPT ![a].at = AfterError(a)]
  /\ UNCHANGED <<appointment, reminded, messages, sends, lapses>>

\* Accepted, but the answer is lost or cannot be read.
AcceptanceLost(a) ==
  /\ job[a].at = "read"
  /\ sends' = [sends EXCEPT ![a] = @ + 1]
  /\ lapses' = [lapses EXCEPT ![a] = @ + 1]
  /\ job' = [job EXCEPT ![a].at = AfterError(a)]
  /\ UNCHANGED <<appointment, reminded, messages>>

\* The message's row and reminder_sent_at, in one transaction; then the queue
\* completes the job, or fails to and runs it again.
MarkReminded(a) ==
  /\ job[a].at = "sent"
  /\ messages' = [messages EXCEPT ![a] = @ + 1]
  /\ reminded' = reminded \union {a}
  /\ \E at \in {"over", AfterError(a)} : job' = [job EXCEPT ![a].at = at]
  /\ UNCHANGED <<appointment, sends, lapses>>

MarkFails(a) ==
  /\ job[a].at = "sent"
  /\ lapses' = [lapses EXCEPT ![a] = @ + 1]
  /\ job' = [job EXCEPT ![a].at = AfterError(a)]
  /\ UNCHANGED <<appointment, reminded, messages, sends>>

\* A crash leaves the job 'processing' for ever.
WorkerCrashes(a) ==
  /\ job[a].at \in {"read", "sent"}
  /\ lapses' = IF job[a].at = "sent" THEN [lapses EXCEPT ![a] = @ + 1] ELSE lapses
  /\ job' = [job EXCEPT ![a].at = "over"]
  /\ UNCHANGED <<appointment, reminded, messages, sends>>

\* The appointment's own life; nothing in src/ cancels one yet.
CancelOrPass(a) ==
  /\ appointment[a] = "upcoming"
  /\ \E s \in {"cancelled", "past"} : appointment' = [appointment EXCEPT ![a] = s]
  /\ UNCHANGED <<reminded, job, messages, sends, lapses>>

\* GET due-appointments, for a window that reaches to the appointment.
DueUnsent == {a \in Appointments : appointment[a] = "upcoming" /\ a \notin reminded}

RemindersNext == \E a \in Appointments :
  \/ CreateAppointment(a) \/ ScheduleReminder(a) \/ StartReminder(a) \/ SendReminder(a)
  \/ SendFails(a) \/ AcceptanceLost(a) \/ MarkReminded(a) \/ MarkFails(a)
  \/ WorkerCrashes(a) \/ CancelOrPass(a)

RemindersSpec == RemindersInit /\ [][RemindersNext]_remindersVars
------------------------------------------------------------------------------
(* Properties.                                                             *)

\* reminders.ts: "a redelivered/duplicate job never double-sends".  It does, but
\* only when something failed between the provider's acceptance and the commit of
\* reminder_sent_at; a message beyond the recorded ones has such a cause, and an
\* upcoming appointment with no job to come and no message is on the failsafe list.
RemindersHaveCause == \A a \in Appointments :
  /\ messages[a] <= 1
  /\ sends[a] <= messages[a] + lapses[a] + (IF job[a].at = "sent" THEN 1 ELSE 0)
  /\ (a \in reminded) <=> (messages[a] > 0)
  /\ appointment[a] = "upcoming" /\ job[a].at \in {"none", "over"} /\ sends[a] = 0 => a \in DueUnsent
==============================================================================
