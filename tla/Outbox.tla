------------------------------- MODULE Outbox -------------------------------
(***************************************************************************)
(* The outbox and its mailers (outbox.service.ts): every replica of the    *)
(* API claims due events every five seconds and mails them one at a time.  *)
(* A replica is a process: the claim is one statement, then each claimed   *)
(* event takes a call to the mail server and an update of its row, and the *)
(* replica may stop or lose its database between any two of them.          *)
(*                                                                         *)
(* Times are countdowns: a row's `wait' is availableAt - NOW(), a          *)
(* replica's `paused' is smtpPausedUntil - Date.now(), both 0 when past.   *)
(***************************************************************************)
EXTENDS Integers, FiniteSets

CONSTANTS
    Events,         \* the rows that are ever written
    Replicas,       \* processes of the API, each with its own mailer
    kindOf,         \* [Events -> Kinds]
    AttemptLimit,   \* 10 in the code
    Batch,          \* LIMIT of one claim: 20 in the code
    Cooldown,       \* SMTP_DAILY_LIMIT_COOLDOWN_MS
    MaxDelay,       \* 3600 s, where the back-off stops growing
    Limits,         \* bound: daily limits the mail server reports
    Stops,          \* bound: stops of a replica and failed updates
    Resends         \* bound: requests for another verification mail

Kinds == {"ORDER_CREATED", "PAYMENT_APPROVED", "TRANSFER_PROOF_RECEIVED",
          "CUSTOMER_PASSWORD_RESET_REQUESTED",
          "CUSTOMER_EMAIL_VERIFICATION_REQUESTED", "LOW_STOCK_ALERT",
          "SHIPMENT_UPDATED", "ORDER_STATUS_UPDATED", "SPECIAL_REQUEST_CREATED"}

OutboxAssumption ==
    /\ kindOf \in [Events -> Kinds] /\ IsFiniteSet(Replicas)
    /\ {AttemptLimit, Batch, Cooldown, MaxDelay} \subseteq Nat \ {0}
    /\ {Limits, Stops, Resends} \subseteq Nat

VARIABLES
    row,        \* [Events -> the event's row]
    outdated,   \* the events whose mail would say what is no longer so
    mailer,     \* [Replicas -> what the replica is doing]
    mails,      \* [Events -> the mails of this event that left]
    tried,      \* [Events -> the tries that failed]
    spent       \* the bounded faults that have happened

outboxVars == <<row, outdated, mailer, mails, tried, spent>>
-----------------------------------------------------------------------------
(* Rows, mailers and messages.                                             *)

NoRow == [status |-> "NONE", attempts |-> 0, wait |-> 0]
pendingRow == [status |-> "PENDING", attempts |-> 0, wait |-> 0]

\* A mailer that waits, and one that has the events of `claimed' left to send,
\* the domain of a function to the attempts RETURNING gave, `sending' the one
\* whose call to the mail server has returned as `step' says.
waiting == [step |-> "IDLE", sending |-> {}, claimed |-> <<>>, paused |-> 0]
Holds(r, e) == e \in DOMAIN mailer[r].claimed
At(r, step, e) == mailer[r].step = step /\ mailer[r].sending = {e}
Without(f, e) == [x \in DOMAIN f \ {e} |-> f[x]]
isSmtpPaused(r) == mailer[r].paused > 0

\* To whom buildMessage writes, by the kind of the event.
recipients(kind) ==
    CASE kind = "PAYMENT_APPROVED" -> {"ADMIN", "CUSTOMER"}
      [] kind \in {"CUSTOMER_PASSWORD_RESET_REQUESTED",
                   "CUSTOMER_EMAIL_VERIFICATION_REQUESTED",
                   "SHIPMENT_UPDATED", "ORDER_STATUS_UPDATED"} -> {"CUSTOMER"}
      [] OTHER -> {"ADMIN"}

\* buildMessage throws for a reset that was used or has expired, and for the
\* verification of an address that is verified.
CanOutdate(e) == kindOf[e] \in {"CUSTOMER_PASSWORD_RESET_REQUESTED",
                                "CUSTOMER_EMAIL_VERIFICATION_REQUESTED"}
buildMessage_Throws(e) == e \in outdated

\* 30 s, the unit of time here, doubled with each attempt up to an hour.
backoff(attempts) ==
    LET delay == 2 ^ attempts IN IF delay < MaxDelay THEN delay ELSE MaxDelay
-----------------------------------------------------------------------------
(* The rest of the shop.                                                   *)

OutboxInit ==
    /\ row = [e \in Events |-> NoRow]
    /\ outdated = {}
    /\ mailer = [r \in Replicas |-> waiting]
    /\ mails = [e \in Events |-> 0]
    /\ tried = [e \in Events |-> 0]
    /\ spent = [limits |-> 0, stops |-> 0, resends |-> 0]

\* A transaction that writes the event commits.
Write(e) ==
    /\ row[e] = NoRow
    /\ row' = [row EXCEPT ![e] = pendingRow]
    /\ UNCHANGED <<outdated, mailer, mails, tried, spent>>

\* The reset is used or expires, the address is verified.
Outdate(e) ==
    /\ CanOutdate(e) /\ row[e] # NoRow /\ e \notin outdated
    /\ outdated' = outdated \cup {e}
    /\ UNCHANGED <<row, mailer, mails, tried, spent>>

\* resendVerification upserts the event of the current five minutes: whatever
\* state its row is in, it is as good as new.
ResendVerification(e) ==
    /\ kindOf[e] = "CUSTOMER_EMAIL_VERIFICATION_REQUESTED"
    /\ row[e] # NoRow /\ e \notin outdated /\ spent.resends < Resends
    /\ row' = [row EXCEPT ![e] = pendingRow]
    /\ spent' = [spent EXCEPT !.resends = @ + 1]
    /\ UNCHANGED <<outdated, mailer, mails, tried>>

Tick ==
    /\ \/ \E e \in Events : row[e].wait > 0
       \/ \E r \in Replicas : mailer[r].paused > 0
    /\ row' = [e \in Events |-> [row[e] EXCEPT !.wait = IF @ > 0 THEN @ - 1 ELSE 0]]
    /\ mailer' = [r \in Replicas |->
                    [mailer[r] EXCEPT !.paused = IF @ > 0 THEN @ - 1 ELSE 0]]
    /\ UNCHANGED <<outdated, mails, tried, spent>>
-----------------------------------------------------------------------------
(* The mailer.                                                             *)

claimableRow(e) == row[e].status = "PENDING" /\ row[e].wait = 0
                    /\ row[e].attempts < AttemptLimit

\* claimEvents: the statement skips the rows another claim has locked and takes
\* the oldest, so that any of them can be left for later.
claimEvents_KeepsPending(es) == [e \in Events |-> IF e \in es
    THEN [row[e] EXCEPT !.attempts = @ + 1] ELSE row[e]]
claimEvents(es) == [e \in Events |-> IF e \in es
    THEN [row[e] EXCEPT !.status = "PROCESSING", !.attempts = @ + 1] ELSE row[e]]

Process(r) ==
    /\ mailer[r].step = "IDLE" /\ ~isSmtpPaused(r)
    /\ \E es \in SUBSET {e \in Events : claimableRow(e)} \ {{}} :
          /\ Cardinality(es) <= Batch
          /\ row' = claimEvents(es)
          /\ mailer' = [mailer EXCEPT ![r].step = "NEXT",
                            ![r].claimed = [e \in es |-> row'[e].attempts]]
    /\ UNCHANGED <<outdated, mails, tried, spent>>

\* The replica is done with e: the next of its batch, or the end of process.
NextOf_StaysRunning(m, e) == [m EXCEPT !.claimed = Without(@, e), !.sending = {},
                                       !.step = "NEXT"]
NextOf(m, e) ==
    [m EXCEPT !.claimed = Without(@, e), !.sending = {},
              !.step = IF DOMAIN m.claimed = {e} THEN "IDLE" ELSE "NEXT"]

\* deferClaimedEvent gives the attempt of the claim back.
deferred(e, r) ==
    [row[e] EXCEPT !.status = "PENDING", !.attempts = @ - 1, !.wait = mailer[r].paused]

DeferClaimedEvent(r, e) ==
    /\ mailer[r].step = "NEXT" /\ Holds(r, e) /\ isSmtpPaused(r)
    /\ row' = [row EXCEPT ![e] = deferred(e, r)]
    /\ mailer' = [mailer EXCEPT ![r] = NextOf(@, e)]
    /\ UNCHANGED <<outdated, mails, tried, spent>>

\* sendNotification: the mail leaves, or the message cannot be built or sent,
\* or the server answers that the daily limit is reached.
SendNotification(r, e) ==
    /\ mailer[r].step = "NEXT" /\ Holds(r, e) /\ ~isSmtpPaused(r)
    /\ \/ /\ ~buildMessage_Throws(e)
          /\ mailer' = [mailer EXCEPT ![r].step = "SENT", ![r].sending = {e}]
          /\ mails' = [mails EXCEPT ![e] = @ + 1]
          /\ UNCHANGED <<tried, spent>>
       \/ /\ mailer' = [mailer EXCEPT ![r].step = "ERROR", ![r].sending = {e}]
          /\ tried' = [tried EXCEPT ![e] = @ + 1]
          /\ UNCHANGED <<mails, spent>>
       \/ /\ ~buildMessage_Throws(e) /\ spent.limits < Limits
          /\ mailer' = [mailer EXCEPT ![r].step = "LIMIT", ![r].sending = {e}]
          /\ spent' = [spent EXCEPT !.limits = @ + 1]
          /\ UNCHANGED <<mails, tried>>
    /\ UNCHANGED <<row, outdated>>

MarkSent(r, e) ==
    /\ At(r, "SENT", e)
    /\ row' = [row EXCEPT ![e].status = "SENT"]
    /\ mailer' = [mailer EXCEPT ![r] = NextOf(@, e)]
    /\ UNCHANGED <<outdated, mails, tried, spent>>

\* The update that marks the event as sent fails inside the same try: the mail
\* counts as not sent.
MarkSentFails(r, e) ==
    /\ At(r, "SENT", e) /\ spent.stops < Stops
    /\ mailer' = [mailer EXCEPT ![r].step = "ERROR", ![r].sending = {e}]
    /\ tried' = [tried EXCEPT ![e] = @ + 1]
    /\ spent' = [spent EXCEPT !.stops = @ + 1]
    /\ UNCHANGED <<row, outdated, mails>>

\* The daily limit pauses this replica, not the others, and is no attempt.
PauseSmtp(r, e) ==
    /\ At(r, "LIMIT", e)
    /\ row' = [row EXCEPT ![e].status = "PENDING", ![e].attempts = @ - 1,
                          ![e].wait = Cooldown]
    /\ mailer' = [mailer EXCEPT ![r] = [NextOf(@, e) EXCEPT !.paused = Cooldown]]
    /\ UNCHANGED <<outdated, mails, tried, spent>>

exhausted_Late(attempts) == attempts > AttemptLimit
exhausted(attempts) == attempts >= AttemptLimit

MarkFailed(r, e) ==
    /\ At(r, "ERROR", e)
    /\ LET attempts == mailer[r].claimed[e] IN
         row' = [row EXCEPT
            ![e].status = IF exhausted(attempts) THEN "FAILED" ELSE "PENDING",
            ![e].wait = backoff(attempts)]
    /\ mailer' = [mailer EXCEPT ![r] = NextOf(@, e)]
    /\ UNCHANGED <<outdated, mails, tried, spent>>

\* A replica stops, and starts again with nothing in memory.
Stop(r) ==
    /\ spent.stops < Stops /\ mailer[r] # waiting
    /\ mailer' = [mailer EXCEPT ![r] = waiting]
    /\ spent' = [spent EXCEPT !.stops = @ + 1]
    /\ UNCHANGED <<row, outdated, mails, tried>>

\* An update outside the try fails: process ends there, whatever it had claimed.
UpdateFails(r) ==
    /\ spent.stops < Stops
    /\ \/ mailer[r].step = "NEXT" /\ isSmtpPaused(r)
       \/ mailer[r].step \in {"ERROR", "LIMIT"}
    /\ mailer' = [mailer EXCEPT ![r] = [@ EXCEPT !.step = "IDLE", !.claimed = <<>>,
            !.sending = {},
            !.paused = IF mailer[r].step = "LIMIT" THEN Cooldown
                       ELSE mailer[r].paused]]
    /\ spent' = [spent EXCEPT !.stops = @ + 1]
    /\ UNCHANGED <<row, outdated, mails, tried>>

\* What a replica does of its own accord.
MailerStep(r) ==
    \/ Process(r)
    \/ \E e \in Events : \/ DeferClaimedEvent(r, e) \/ SendNotification(r, e)
                         \/ MarkSent(r, e) \/ PauseSmtp(r, e) \/ MarkFailed(r, e)

OutboxNext ==
    \/ \E e \in Events : Write(e) \/ Outdate(e) \/ ResendVerification(e)
    \/ Tick
    \/ \E r \in Replicas : \/ MailerStep(r) \/ Stop(r) \/ UpdateFails(r)
                           \/ \E e \in Events : MarkSentFails(r, e)

OutboxSpec == OutboxInit /\ [][OutboxNext]_outboxVars

\* The interval fires again whatever happened to the last one, and time passes.
FairOutboxSpec == OutboxSpec /\ WF_outboxVars(Tick) /\ \A r \in Replicas : WF_outboxVars(MailerStep(r))
-----------------------------------------------------------------------------
(* Properties.                                                             *)

RowsOK ==
    /\ row \in [Events -> [status : {"NONE", "PENDING", "PROCESSING", "SENT", "FAILED"},
                           attempts : Int, wait : Nat]]
    /\ outdated \subseteq {e \in Events : CanOutdate(e)}
    /\ \A r \in Replicas :
          /\ DOMAIN mailer[r].claimed \subseteq Events
          /\ mailer[r].step = "IDLE" <=> DOMAIN mailer[r].claimed = {}
    /\ mails \in [Events -> Nat] /\ tried \in [Events -> Nat]

Asked(e) == kindOf[e] = "CUSTOMER_EMAIL_VERIFICATION_REQUESTED"

\* Two replicas that claim at the same moment do not send the same event, and
\* what a replica holds is claimed in the table: unless it is a verification
\* mail, which may be asked for again in the meantime.
OneMailerEach ==
    \A e \in Events : ~Asked(e) =>
        /\ Cardinality({r \in Replicas : Holds(r, e)}) <= 1
        /\ \A r \in Replicas : Holds(r, e) => row[e].status = "PROCESSING"

\* A mail that left is not sent again, but for an update that failed, a replica
\* that stopped or a request for it.
SentOnce == \A e \in Events : mails[e] <= 1 + spent.stops + spent.resends

\* An event is given up only after all of its tries failed: neither a daily
\* limit nor the wait for its end uses any of them up.
GivenUpAfterAllTries ==
    \A e \in Events : row[e].status = "FAILED" =>
        tried[e] >= AttemptLimit

\* What waits can still be claimed: no event is left with its tries used up and
\* no one to say that it failed.  (A verification mail asked for again while a
\* replica has it may be failed by that replica and held by another.)
PendingIsClaimable ==
    \A e \in Events : row[e].status = "PENDING" /\ ~Asked(e) =>
        row[e].attempts < AttemptLimit

\* All of these: whatever two replicas claim, pause and lose, an event is mailed
\* once for every try that was not recorded and every request for it.
EveryMailOnce == OneMailerEach /\ SentOnce /\ GivenUpAfterAllTries /\ PendingIsClaimable

Owed(e) == row[e] # NoRow /\ ~Asked(e)
Ended(e) == row[e].status \in {"SENT", "FAILED"}

\* Without stops every event is mailed or given up, across daily limits and
\* failures of the server, by whatever replica gets to it.  (Two replicas that
\* hold one verification mail can leave it waiting with its tries used up.)
EventsSettle == \A e \in Events : Owed(e) ~> Ended(e)
=============================================================================
