----------------------------- MODULE OrderMail ------------------------------
(***************************************************************************)
(* Purchase orders that are sent to their vendor: the order is marked sent *)
(* in one transaction and its e-mail queued in another, and MailWorker     *)
(* drains the queue in the background, one drain at a time.  A drain works *)
(* on the rows it read when it began, publishes the order and hands the    *)
(* mail to the server, and both are awaited: the order may be cancelled,   *)
(* the mail asked for again, the account removed or the manager killed     *)
(* meanwhile.                                                              *)
(***************************************************************************)
EXTENDS BuyingList, Sequences

CONSTANTS
    MaxAttempts,      \* MAX_ATTEMPTS, 8 in the code
    MaxMails,         \* bound: mails ever queued
    MaxRetries,       \* bound: mails the operator asks for again
    MaxLost,          \* bound: answers of the mail server that are lost
    MaxCrashes,       \* bound: crashes of the manager
    MaxConfigEdits,   \* bound: changes of the mail account
    CloudSync         \* the cloud account is connected

MailAssumption ==
    /\ MaxAttempts \in Nat \ {0}
    /\ {MaxMails, MaxRetries, MaxLost, MaxCrashes, MaxConfigEdits} \subseteq Nat
    /\ CloudSync \in BOOLEAN

VARIABLES
    mail,         \* outbound_emails in the order of created_at
    account,      \* an e-mail account is configured
    up,           \* the manager runs
    worker,       \* "idle", or where the drain is: "next", "publishing", "sending"
    todo,         \* the rest of the rows the drain read: [mail, attempts]
    unqueued,     \* an order marked sent whose mail is queued next, or None
    delivered,    \* delivered[m]: times the vendor got mail m (history)
    retried,      \* times the operator asked for a mail again
    lost,         \* answers lost after the vendor got the mail (history)
    crashes, configEdits

queueVars == <<mail, delivered, retried, lost>>
workerVars == <<worker, todo>>
mailVars == <<queueVars, account, up, workerVars, unqueued, crashes, configEdits>>
vars == <<buyingVars, mailVars>>

Mails == DOMAIN mail
Pending == {m \in Mails : mail[m].status = "pending"}
Current == Head(todo)

(* ------------------------- Sending and cancelling ----------------------- *)

(* What OrderModal and purchaseOrders:send ask for.                        *)
Mailable(o) == order[o].mailable /\ account

(* purchaseOrders:send by mail, up to the marking of the order.            *)
SendByMail(o) ==
    /\ up /\ unqueued = None
    /\ o \in Drafted
    /\ Mailable(o)
    /\ Len(mail) < MaxMails
    /\ MarkSent(o, "email")
    /\ unqueued' = o
    /\ UNCHANGED <<stock, sold, listVars, rows, sheet, listEdits, queueVars,
                   account, up, workerVars, crashes, configEdits>>

(* enqueueEmail, and a drain is started unless one runs.                   *)
EnqueueEmail ==
    /\ up /\ unqueued # None
    /\ mail' = Append(mail, [order |-> unqueued, status |-> "pending", attempts |-> 0])
    /\ delivered' = Append(delivered, 0)
    /\ unqueued' = None
    /\ UNCHANGED <<buyingVars, account, up, workerVars, retried, lost,
                   crashes, configEdits>>

(* The order was placed by phone: it is published in the background.       *)
SendByHand(o) ==
    /\ up /\ unqueued = None
    /\ MarkSent(o, "manual")
    /\ UNCHANGED <<stock, sold, listVars, rows, sheet, listEdits, mailVars>>

PublishByHand(o) ==
    /\ up /\ CloudSync
    /\ o \in Drafted
    /\ order[o].via = "manual" /\ ~order[o].published
    /\ MarkPublished(o)
    /\ UNCHANGED <<stock, sold, listVars, rows, sheet, listEdits, mailVars>>

(* cancel: mails of the order that are waiting will not be sent.           *)
CancelPurchaseOrder(o) ==
    /\ up /\ unqueued = None
    /\ Cancel(o)
    /\ mail' = [m \in Mails |-> IF m \in Pending /\ mail[m].order = o
                                THEN [mail[m] EXCEPT !.status = "failed"]
                                ELSE mail[m]]
    /\ UNCHANGED <<stock, sold, listVars, sheet, listEdits, delivered, retried,
                   lost, account, up, workerVars, unqueued, crashes, configEdits>>

(* latestEmailForOrder; PurchaseOrderHistory offers "Retry email" if it     *)
(* failed, for an order that was cancelled too.                            *)
Newest(o) == {m \in Mails : /\ mail[m].order = o
                            /\ \A n \in m + 1..Len(mail) : mail[n].order # o}

(* retryEmail.                                                             *)
RetryEmail(o) ==
    \E m \in Newest(o) :
        /\ up /\ unqueued = None
        /\ mail[m].status = "failed"
        /\ retried < MaxRetries
        /\ retried' = retried + 1
        /\ mail' = [mail EXCEPT ![m].status = "pending", ![m].attempts = 0]
        /\ UNCHANGED <<buyingVars, delivered, lost, account, up, workerVars,
                       unqueued, crashes, configEdits>>

(* email:save and email:clear.                                             *)
SetEmailConfig ==
    /\ up /\ unqueued = None
    /\ configEdits < MaxConfigEdits
    /\ configEdits' = configEdits + 1
    /\ account' = ~account
    /\ UNCHANGED <<buyingVars, queueVars, up, workerVars, unqueued, crashes>>

(* ------------------------------- The worker ----------------------------- *)

(* kick, by the 60 second timer, at the start or after a change: without a *)
(* mail account every waiting mail fails for good.                         *)
Kick ==
    /\ up /\ unqueued = None /\ worker = "idle"
    /\ Pending # {}
    /\ IF account
       THEN /\ \E ids \in [1..Cardinality(Pending) -> Pending] :
                 /\ \A i, j \in DOMAIN ids : i < j => ids[i] < ids[j]
                 /\ todo' = [i \in DOMAIN ids |->
                              [mail |-> ids[i], attempts |-> mail[ids[i]].attempts]]
            /\ worker' = "next"
            /\ UNCHANGED mail
       ELSE /\ mail' = [m \in Mails |->
                 IF m \in Pending
                 THEN [mail[m] EXCEPT !.status = "failed", !.attempts = @ + 1]
                 ELSE mail[m]]
            /\ UNCHANGED workerVars
    /\ UNCHANGED <<buyingVars, delivered, retried, lost, account, up, unqueued,
                   crashes, configEdits>>

(* ensurePublished.                                                        *)
TakeNext ==
    /\ up /\ unqueued = None /\ worker = "next"
    /\ worker' = IF ~order[mail[Current.mail].order].published /\ CloudSync
                 THEN "publishing" ELSE "sending"
    /\ UNCHANGED <<buyingVars, queueVars, account, up, todo, unqueued,
                   crashes, configEdits>>

Published ==
    /\ up /\ unqueued = None /\ worker = "publishing"
    /\ MarkPublished(mail[Current.mail].order)
    /\ worker' = "sending"
    /\ UNCHANGED <<stock, sold, listVars, rows, sheet, listEdits, queueVars,
                   account, up, todo, unqueued, crashes, configEdits>>

Advance ==
    /\ todo' = Tail(todo)
    /\ worker' = IF Len(todo) = 1 THEN "idle" ELSE "next"
    /\ UNCHANGED <<buyingVars, retried, account, up, unqueued, crashes, configEdits>>

(* markEmailSent.                                                          *)
MailSent ==
    /\ up /\ unqueued = None /\ worker = "sending"
    /\ delivered' = [delivered EXCEPT ![Current.mail] = @ + 1]
    /\ mail' = [mail EXCEPT ![Current.mail].status = "sent",
                            ![Current.mail].attempts = @ + 1]
    /\ Advance
    /\ UNCHANGED lost

(* Fault: the count of attempts is not looked at.                          *)
NeverFinal(permanent) == permanent

Final(permanent) == permanent \/ Current.attempts + 1 >= MaxAttempts

(* markEmailFailed, whatever the row says by now; the vendor may have the  *)
(* mail although the connection ended before its answer.                   *)
MailFailed(permanent, arrived) ==
    /\ up /\ unqueued = None
    /\ worker \in {"publishing", "sending"}
    /\ arrived => ~permanent /\ worker = "sending" /\ lost < MaxLost
    /\ lost' = IF arrived THEN lost + 1 ELSE lost
    /\ delivered' = [delivered EXCEPT ![Current.mail] = IF arrived THEN @ + 1 ELSE @]
    /\ mail' = [mail EXCEPT
         ![Current.mail].status = IF Final(permanent) THEN "failed" ELSE "pending",
         ![Current.mail].attempts = @ + 1]
    /\ Advance

(* The manager dies; the mail that is being sent may still arrive.         *)
Crash ==
    /\ up
    /\ crashes < MaxCrashes
    /\ crashes' = crashes + 1
    /\ up' = FALSE
    /\ worker' = "idle"
    /\ todo' = <<>>
    /\ unqueued' = None
    /\ \/ UNCHANGED delivered
       \/ /\ worker = "sending"
          /\ delivered' = [delivered EXCEPT ![Current.mail] = @ + 1]
    /\ UNCHANGED <<buyingVars, mail, retried, lost, account, configEdits>>

Restart ==
    /\ ~up
    /\ up' = TRUE
    /\ UNCHANGED <<buyingVars, queueVars, account, workerVars, unqueued,
                   crashes, configEdits>>

Init ==
    /\ BuyingInit
    /\ mail = <<>>
    /\ account = TRUE
    /\ up = TRUE
    /\ worker = "idle"
    /\ todo = <<>>
    /\ unqueued = None
    /\ delivered = <<>>
    /\ retried = 0
    /\ lost = 0
    /\ crashes = 0
    /\ configEdits = 0

WorkerStep ==
    \/ Kick
    \/ TakeNext
    \/ Published
    \/ MailSent
    \/ \E permanent, arrived \in BOOLEAN : MailFailed(permanent, arrived)

Next ==
    \/ up /\ unqueued = None /\ BuyingNext /\ UNCHANGED mailVars
    \/ \E o \in Orders :
         \/ SendByMail(o) \/ SendByHand(o) \/ PublishByHand(o)
         \/ CancelPurchaseOrder(o) \/ RetryEmail(o)
    \/ EnqueueEmail
    \/ SetEmailConfig
    \/ WorkerStep
    \/ Crash
    \/ Restart

Spec == Init /\ [][Next]_vars

(* The timer fires and every request to the mail server or the cloud ends  *)
(* (the mail server's after 30 seconds at the latest); a manager that died *)
(* is started again.                                                       *)
Fairness == WF_vars(WorkerStep) /\ WF_vars(EnqueueEmail) /\ WF_vars(Restart)

-----------------------------------------------------------------------------
MailTypeOK ==
    /\ \A m \in Mails : /\ mail[m].order \in Drafted
                        /\ mail[m].status \in {"pending", "sent", "failed"}
                        /\ mail[m].attempts \in Nat
    /\ DOMAIN delivered = Mails
    /\ worker \in {"idle", "next", "publishing", "sending"}
    /\ worker = "idle" <=> todo = <<>>
    /\ unqueued \in Drafted \cup {None}

(* The vendor gets an order once, and once more at most for each answer    *)
(* that was lost and each crash during a transmission, however often the   *)
(* order is sent, cancelled or its mail asked for again, and nobody gets   *)
(* an order that was not sent by mail (send, MailWorker, requeueEmail).    *)
MailedOnce ==
    /\ \A o \in Drafted :
         SumFunction([m \in {n \in Mails : mail[n].order = o} |-> delivered[m]])
             <= 1 + lost + crashes
    /\ \A m \in Mails : order[mail[m].order].via = "email"
    /\ \A m \in Mails : mail[m].status = "sent" => delivered[m] > 0

(* A queued mail does not wait for ever: it is sent, or given up where the *)
(* operator sees it (MailWorker, MAX_ATTEMPTS).                            *)
MailEnds == \A m \in 1..MaxMails : m \in Pending ~> m \notin Pending
=============================================================================
