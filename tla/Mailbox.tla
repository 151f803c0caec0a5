------------------------------ MODULE Mailbox -------------------------------
(***************************************************************************)
(* What the webhook promises a sender of mail, without posts, goroutines,  *)
(* retries or statements: mail is kept once under its key and never        *)
(* replaced, and what a message's sender is told in the end is true.       *)
(***************************************************************************)
CONSTANTS
    Messages,
    Keys,
    KeyOf,     \* the idempotency key of each message
    Routable,  \* the messages somebody's address owns
    NULL

VARIABLES
    mail,      \* mail[k]: the message kept under k, NULL if none
    fate       \* what the sender believes

Init ==
    /\ mail = [k \in Keys |-> NULL]
    /\ fate = [m \in Messages |-> "open"]

\* Also for a message whose fate is sealed: an earlier post of it may be late.
Keep(m) ==
    /\ m \in Routable
    /\ mail[KeyOf[m]] = NULL
    /\ mail' = [mail EXCEPT ![KeyOf[m]] = m]
    /\ UNCHANGED fate

Close(m) ==
    /\ fate[m] = "open"
    /\ \E end \in {"kept", "unroutable", "dropped", "gave_up"} :
          /\ end = "kept" => m \in Routable /\ mail[KeyOf[m]] # NULL
          /\ end = "unroutable" => m \notin Routable
          /\ fate' = [fate EXCEPT ![m] = end]
    /\ UNCHANGED mail

Next == \E m \in Messages : Keep(m) \/ Close(m)

Spec == Init /\ [][Next]_<<mail, fate>>
=============================================================================
