------------------------------- MODULE Ingest -------------------------------
(***************************************************************************)
(* The Mailgun webhook of internal/ingest.  A request is served by three   *)
(* separate autocommitted statements: look the owner up, upsert the        *)
(* sender, insert the email.  Mailgun (external) delivers at least once:   *)
(* it posts again after a failure or a timeout, also while an earlier      *)
(* request for the same message is still being served.                     *)
(*                                                                         *)
(* A message stands for its form.  A retry repeats the form, timestamp and *)
(* token included: Mailgun's part of the idempotency of header-less mail.  *)
(***************************************************************************)
EXTENDS Naturals

CONSTANTS
    Messages,
    Users,
    Froms,         \* addressOf(from)
    MessageIds,    \* contents of a Message-Id header between its brackets
    Owner,         \* user whose inbound_address is addressed, NULL if none
    From,          \* addressOf(from) of each message
    MessageId,     \* Message-Id without brackets, NULL if there is no header
    Empty,         \* the Message-Id that is left of "<>"
    Unsubscribe,   \* whether the message has a List-Unsubscribe header
    MaxPosts,      \* bound: times Mailgun tries a message
    MaxFaults,     \* bound: failures in a behaviour
    NULL

\* The hash that replaces a missing Message-Id, one per form.
Synthetic(m) == [synthetic |-> m]

Keys == MessageIds \cup {Empty} \cup {Synthetic(m) : m \in Messages}

\* The message a sender's list_unsubscribe was last taken from.  list_id and
\* list_unsubscribe_post merge alike, and display_name nothing depends on.
Sender == [unsubscribe : Messages \cup {NULL}]

Row == [user : Users, from : Froms, message : Messages]

ASSUME MailAssumption ==
    /\ Owner \in [Messages -> Users \cup {NULL}]
    /\ From \in [Messages -> Froms]
    /\ MessageId \in [Messages -> MessageIds \cup {Empty, NULL}]
    /\ Unsubscribe \in [Messages -> BOOLEAN]
    /\ NULL \notin Users \cup Messages \cup MessageIds \cup {Empty}
    /\ NULL \notin Sender \cup Row
    /\ \A m \in Messages : Synthetic(m) \notin MessageIds \cup {Empty, NULL}
    /\ MaxPosts \in Nat \ {0}
    /\ MaxFaults \in Nat

Attempts == 1..MaxPosts

VARIABLES
    senders,   \* senders[u][f]: the row of uq_senders_user_email, or NULL
    rows,      \* rows[k]: the inbound_emails row with mailgun_message_id k
    pc,        \* pc[m][n]: the goroutine serving post n of message m
    mailgun,   \* what Mailgun does about each message
    tries,     \* posts of each message so far
    faults     \* failures so far

db_vars == <<senders, rows>>
mailgun_vars == <<mailgun, tries>>
vars == <<db_vars, pc, mailgun_vars, faults>>

\* "unknown", "dropped" and "stored" answer 200, "refused" 4xx, "failed" 500.
Serving == {"received", "routed", "upserted"}
Accepting == {"unknown", "dropped", "stored"}
Rejecting == {"refused", "failed"}

TypeOK ==
    /\ senders \in [Users -> [Froms -> Sender \cup {NULL}]]
    /\ rows \in [Keys -> Row \cup {NULL}]
    /\ pc \in [Messages -> [Attempts ->
                  {"unsent", "gone"} \cup Serving \cup Accepting \cup Rejecting]]
    /\ \A m \in Messages, n \in Attempts :
          pc[m][n] \in {"routed", "upserted", "stored"} => Owner[m] # NULL
    /\ mailgun \in [Messages -> {"due", "waiting", "accepted", "gave_up"}]
    /\ tries \in [Messages -> 0..MaxPosts]
    /\ \A m \in Messages : mailgun[m] \in {"waiting", "accepted"} => tries[m] # 0
    /\ faults \in 0..MaxFaults

Init ==
    /\ senders = [u \in Users |-> [f \in Froms |-> NULL]]
    /\ rows = [k \in Keys |-> NULL]
    /\ pc = [m \in Messages |-> [n \in Attempts |-> "unsent"]]
    /\ mailgun = [m \in Messages |-> "due"]
    /\ tries = [m \in Messages |-> 0]
    /\ faults = 0

-----------------------------------------------------------------------------
(* Mailgun.                                                                *)

Post(m) ==
    /\ mailgun[m] = "due"
    /\ tries[m] < MaxPosts
    /\ tries' = [tries EXCEPT ![m] = @ + 1]
    /\ pc' = [pc EXCEPT ![m][tries[m] + 1] = "received"]
    /\ mailgun' = [mailgun EXCEPT ![m] = "waiting"]
    /\ UNCHANGED <<db_vars, faults>>

Retry(m) ==
    mailgun' = [mailgun EXCEPT ![m] = IF tries[m] = MaxPosts THEN "gave_up" ELSE "due"]

Hear(m) ==
    /\ mailgun[m] = "waiting"
    /\ \/ /\ pc[m][tries[m]] \in Accepting
          /\ mailgun' = [mailgun EXCEPT ![m] = "accepted"]
       \/ /\ pc[m][tries[m]] \in Rejecting
          /\ Retry(m)
    /\ UNCHANGED <<db_vars, pc, tries, faults>>

Fault == faults < MaxFaults /\ faults' = faults + 1

\* No answer in time, though the request may still be served: a slow handler
\* or a lost answer.
TimeOut(m) ==
    /\ mailgun[m] = "waiting"
    /\ pc[m][tries[m]] # "gone"
    /\ Fault
    /\ Retry(m)
    /\ UNCHANGED <<db_vars, pc, tries>>

\* No answer because the process that served the request is gone.
Disconnect(m) ==
    /\ mailgun[m] = "waiting"
    /\ pc[m][tries[m]] = "gone"
    /\ Retry(m)
    /\ UNCHANGED <<db_vars, pc, tries, faults>>

-----------------------------------------------------------------------------
(* ServeHTTP, once per post.                                               *)

Goto(m, n, to) == pc' = [pc EXCEPT ![m][n] = to]

\* A statement, or the whole request, fails.  Once Mailgun has hung up the
\* request's context is cancelled and statements fail for that reason.
Trouble(m, n) == IF n = tries[m] /\ mailgun[m] = "waiting" THEN Fault
                 ELSE UNCHANGED faults

\* Method, form and signature are checked before anything is read or written.
Refuse(m, n) ==
    /\ pc[m][n] = "received"
    /\ Trouble(m, n)
    /\ Goto(m, n, "refused")
    /\ UNCHANGED <<db_vars, mailgun_vars>>

\* Mutant: the look-up's error is not looked at.
LookUpUnchecked(m, n) ==
    /\ pc[m][n] = "received"
    /\ Goto(m, n, "routed")
    /\ UNCHANGED <<db_vars, mailgun_vars, faults>>

\* UserByInboundAddress.  Any error is answered like an unknown address.
LookUp(m, n) ==
    /\ pc[m][n] = "received"
    /\ \/ Owner[m] # NULL /\ Goto(m, n, "routed") /\ UNCHANGED faults
       \/ Owner[m] = NULL /\ Goto(m, n, "unknown") /\ UNCHANGED faults
       \/ Trouble(m, n) /\ Goto(m, n, "dropped")
    /\ UNCHANGED <<db_vars, mailgun_vars>>

\* Mutant: the newest message's headers overwrite.
MergedOverwriting(old, m) == [unsubscribe |-> IF Unsubscribe[m] THEN m ELSE NULL]

\* ON CONFLICT DO UPDATE: a NULL header keeps the stored one.
Merged(old, m) ==
    [unsubscribe |-> IF Unsubscribe[m] THEN m
                     ELSE IF old = NULL THEN NULL ELSE old.unsubscribe]

UpsertSender(m, n) ==
    /\ pc[m][n] = "routed"
    /\ \/ /\ senders' = [senders EXCEPT ![Owner[m]][From[m]] = Merged(@, m)]
          /\ Goto(m, n, "upserted")
          /\ UNCHANGED faults
       \/ /\ Trouble(m, n)
          /\ Goto(m, n, "failed")
          /\ UNCHANGED senders
    /\ UNCHANGED <<rows, mailgun_vars>>

\* Mutant: Message-Id alone, without the fallback.
KeyNoFallback(m) == IF MessageId[m] = NULL THEN CHOOSE k \in MessageIds : TRUE
                    ELSE MessageId[m]

\* messageID: only an absent header is replaced, not one that trims to nothing.
Key(m) == IF MessageId[m] = NULL THEN Synthetic(m) ELSE MessageId[m]

InboundRow(m) == [user |-> Owner[m], from |-> From[m], message |-> m]

\* Mutant: ON CONFLICT DO UPDATE.
StoreReplacing(m) == rows' = [rows EXCEPT ![Key(m)] = InboundRow(m)]

\* ON CONFLICT (mailgun_message_id) DO NOTHING
Store(m) ==
    rows' = [rows EXCEPT ![Key(m)] = IF @ = NULL THEN InboundRow(m) ELSE @]

\* Mutant: an insert error is logged and answered 200.
InsertInboundAcking(m, n) ==
    /\ pc[m][n] = "upserted"
    /\ \/ Store(m) /\ Goto(m, n, "stored") /\ UNCHANGED faults
       \/ Trouble(m, n) /\ Goto(m, n, "stored") /\ UNCHANGED rows
    /\ UNCHANGED <<senders, mailgun_vars>>

InsertInbound(m, n) ==
    /\ pc[m][n] = "upserted"
    /\ \/ Store(m) /\ Goto(m, n, "stored") /\ UNCHANGED faults
       \/ Trouble(m, n) /\ Goto(m, n, "failed") /\ UNCHANGED rows
    /\ UNCHANGED <<senders, mailgun_vars>>

\* The process stops while it serves the post.
Crash(m, n) ==
    /\ pc[m][n] \in Serving
    /\ Trouble(m, n)
    /\ Goto(m, n, "gone")
    /\ UNCHANGED <<db_vars, mailgun_vars>>

ServeHTTP(m, n) ==
    Refuse(m, n) \/ LookUp(m, n) \/ UpsertSender(m, n) \/ InsertInbound(m, n)

Next ==
    \/ \E m \in Messages : Post(m) \/ Hear(m) \/ TimeOut(m) \/ Disconnect(m)
    \/ \E m \in Messages, n \in Attempts : ServeHTTP(m, n) \/ Crash(m, n)

Spec == Init /\ [][Next]_vars

\* Mailgun goes on until it is answered 200 or out of tries, net/http serves
\* every accepted request, and neither chooses to fail: TimeOut and Crash have
\* no fairness and faults are bounded by MaxFaults.
Fairness ==
    /\ \A m \in Messages : WF_vars(Post(m)) /\ WF_vars(Hear(m)) /\ WF_vars(Disconnect(m))
    /\ \A m \in Messages, n \in Attempts : WF_vars(ServeHTTP(m, n))

FairSpec == Spec /\ Fairness

-----------------------------------------------------------------------------
(* Properties.                                                             *)

Answer(m) == IF tries[m] = 0 THEN "unsent" ELSE pc[m][tries[m]]

\* A message Mailgun has been told to forget is stored, unless nobody owns its
\* address or the look-up failed: no 200 precedes the insert, whichever of the
\* concurrent and repeated posts of the message it answers.
AcceptedIsStored ==
    \A m \in Messages :
        mailgun[m] = "accepted" /\ Owner[m] # NULL /\ Answer(m) # "dropped"
            => rows[Key(m)] # NULL

\* Every email has the sender row its sender_id names, of the same user: posts
\* that race or fail in between never leave an email the parse stage has to
\* fail on ("email has no sender").
SenderStored ==
    \A k \in Keys : rows[k] # NULL => senders[rows[k].user][rows[k].from] # NULL

\* What was first stored under a key is never rewritten by another post.
FirstCopyKept == [][\A k \in Keys : rows[k] # NULL => rows'[k] = rows[k]]_vars

\* What Mailgun makes of its answers.
Fate(m) ==
    IF mailgun[m] = "gave_up" THEN "gave_up"
    ELSE IF mailgun[m] # "accepted" THEN "open"
    ELSE IF Answer(m) = "stored" THEN "kept"
    ELSE IF Answer(m) = "unknown" THEN "unroutable" ELSE "dropped"

Fates == [m \in Messages |-> Fate(m)]
Mail == [k \in Keys |-> IF rows[k] = NULL THEN NULL ELSE rows[k].message]

Box == INSTANCE Mailbox WITH
    KeyOf <- [m \in Messages |-> Key(m)],
    Routable <- {m \in Messages : Owner[m] # NULL},
    mail <- Mail,
    fate <- Fates

\* The webhook is a mailbox: whichever posts overlap, repeat, fail, crash or
\* are answered too late, mail is kept once and never replaced, and a 200 that
\* Mailgun hears is true of the mail kept at that moment and for ever.
MailboxSpec == Box!Spec

\* A sender's unsubscribe header, once seen, survives mail that lacks it, in
\* whatever order posts are served (the COALESCE of UpsertSender).
UnsubscribeKept ==
    [][\A u \in Users, f \in Froms :
          senders[u][f] # NULL /\ senders[u][f].unsubscribe # NULL
              => senders'[u][f].unsubscribe # NULL]_vars

\* Two messages share a row only if their Message-Id headers are the same: mail
\* without one is never taken for a duplicate of other mail.
SharedOnlyById ==
    \A l, m \in Messages :
        /\ l # m
        /\ rows[Key(m)] # NULL
        /\ rows[Key(m)].message = l
        => MessageId[m] # NULL /\ MessageId[l] = MessageId[m]

\* With fewer faults than tries every message to a known address is stored in
\* the end, or was dropped by a failed look-up.
EventuallyStored ==
    \A m \in Messages : Owner[m] # NULL =>
        <>(rows[Key(m)] # NULL \/ (mailgun[m] = "accepted" /\ Answer(m) = "dropped"))

-----------------------------------------------------------------------------
(* What comments and documents say of the webhook, and its code does not.  *)

\* ingest.go: "Unknown address: 200 so Mailgun stops retrying a message that
\* can never be routed", and of errors that "Returning 200 here would lose the
\* email silently".
AcceptedUnstoredIsUnroutable ==
    \A m \in Messages :
        mailgun[m] = "accepted" /\ rows[Key(m)] = NULL => Owner[m] = NULL

\* README.md, zero omission: "every newsletter received in a given period must
\* appear in that period's digest".  Each addressed user needs a row.
EveryOwnerServed ==
    \A m \in Messages :
        mailgun[m] = "accepted" /\ rows[Key(m)] # NULL
            => Owner[m] \in {NULL, rows[Key(m)].user}
=============================================================================
