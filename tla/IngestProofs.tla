---------------------------- MODULE IngestProofs ----------------------------
(***************************************************************************)
(* Theorems about Ingest for any mail, any number of posts per message and *)
(* any number of faults.                                                   *)
(***************************************************************************)
EXTENDS Ingest, TLAPS

\* Every row, answer and counter keeps its type; Mailgun only listens to posts
\* it has made.
THEOREM TypeCorrect == Spec => []TypeOK
<1>1. Init => TypeOK
  BY MailAssumption DEF Init, TypeOK, Attempts
<1>2. TypeOK /\ [Next]_vars => TypeOK'
  <2>. SUFFICES ASSUME TypeOK, [Next]_vars PROVE TypeOK'
    OBVIOUS
  <2>. USE MailAssumption DEF TypeOK, Attempts
  <2>1. CASE UNCHANGED vars
    BY <2>1 DEF vars, db_vars, mailgun_vars
  <2>2. ASSUME NEW m \in Messages, Post(m) PROVE TypeOK'
    BY <2>2 DEF Post, db_vars, Serving
  <2>3. ASSUME NEW m \in Messages, Hear(m) PROVE TypeOK'
    BY <2>3 DEF Hear, Retry, db_vars
  <2>4. ASSUME NEW m \in Messages, TimeOut(m) PROVE TypeOK'
    BY <2>4 DEF TimeOut, Retry, Fault, db_vars
  <2>5. ASSUME NEW m \in Messages, Disconnect(m) PROVE TypeOK'
    BY <2>5 DEF Disconnect, Retry, db_vars
  <2>6. ASSUME NEW m \in Messages, NEW n \in Attempts, NEW to,
               Goto(m, n, to),
               to \in {"gone"} \cup Serving \cup Accepting \cup Rejecting,
               to \in {"routed", "upserted", "stored"} => Owner[m] # NULL,
               Trouble(m, n) \/ UNCHANGED faults,
               UNCHANGED mailgun_vars,
               senders' \in [Users -> [Froms -> Sender \cup {NULL}]],
               rows' \in [Keys -> Row \cup {NULL}]
        PROVE  TypeOK'
    <3>1. faults' \in 0..MaxFaults
      BY <2>6 DEF Trouble, Fault
    <3>2. pc' \in [Messages -> [Attempts ->
             {"unsent", "gone"} \cup Serving \cup Accepting \cup Rejecting]]
      BY <2>6 DEF Goto
    <3>3. \A l \in Messages, k \in Attempts :
             pc'[l][k] \in {"routed", "upserted", "stored"} => Owner[l] # NULL
      BY <2>6 DEF Goto
    <3>. QED  BY <2>6, <3>1, <3>2, <3>3 DEF mailgun_vars
  <2>7. ASSUME NEW m \in Messages, NEW n \in Attempts, Refuse(m, n)
        PROVE  TypeOK'
    BY <2>6, <2>7 DEF Refuse, Rejecting, db_vars
  <2>8. ASSUME NEW m \in Messages, NEW n \in Attempts, LookUp(m, n)
        PROVE  TypeOK'
    <3>1. CASE Owner[m] # NULL /\ Goto(m, n, "routed") /\ UNCHANGED faults
      BY <2>6, <2>8, <3>1 DEF LookUp, Serving, db_vars
    <3>2. CASE Owner[m] = NULL /\ Goto(m, n, "unknown") /\ UNCHANGED faults
      BY <2>6, <2>8, <3>2 DEF LookUp, Accepting, db_vars
    <3>3. CASE Trouble(m, n) /\ Goto(m, n, "dropped")
      BY <2>6, <2>8, <3>3 DEF LookUp, Accepting, db_vars
    <3>. QED  BY <2>8, <3>1, <3>2, <3>3 DEF LookUp
  <2>9. ASSUME NEW m \in Messages, NEW n \in Attempts, UpsertSender(m, n)
        PROVE  TypeOK'
    <3>1. Owner[m] \in Users
      BY <2>9 DEF UpsertSender
    <3>2. CASE /\ senders' = [senders EXCEPT ![Owner[m]][From[m]] = Merged(@, m)]
               /\ Goto(m, n, "upserted")
               /\ UNCHANGED faults
      <4>1. \A old \in Sender \cup {NULL} : Merged(old, m) \in Sender
        BY DEF Merged, Sender
      <4>2. senders' \in [Users -> [Froms -> Sender \cup {NULL}]]
        BY <3>1, <3>2, <4>1
      <4>. QED  BY <2>6, <2>9, <3>1, <3>2, <4>2 DEF UpsertSender, Serving
    <3>3. CASE Trouble(m, n) /\ Goto(m, n, "failed") /\ UNCHANGED senders
      BY <2>6, <2>9, <3>3 DEF UpsertSender, Rejecting
    <3>. QED  BY <2>9, <3>2, <3>3 DEF UpsertSender
  <2>10. ASSUME NEW m \in Messages, NEW n \in Attempts, InsertInbound(m, n)
         PROVE  TypeOK'
    <3>1. Owner[m] \in Users
      BY <2>10 DEF InsertInbound
    <3>2. CASE Store(m) /\ Goto(m, n, "stored") /\ UNCHANGED faults
      <4>1. InboundRow(m) \in Row
        BY <3>1 DEF InboundRow, Row
      <4>2. rows' \in [Keys -> Row \cup {NULL}]
        BY <3>2, <4>1 DEF Store
      <4>. QED  BY <2>6, <2>10, <3>1, <3>2, <4>2 DEF InsertInbound, Accepting
    <3>3. CASE Trouble(m, n) /\ Goto(m, n, "failed") /\ UNCHANGED rows
      BY <2>6, <2>10, <3>3 DEF InsertInbound, Rejecting
    <3>. QED  BY <2>10, <3>2, <3>3 DEF InsertInbound
  <2>11. ASSUME NEW m \in Messages, NEW n \in Attempts, Crash(m, n)
         PROVE  TypeOK'
    BY <2>6, <2>11 DEF Crash, db_vars
  <2>. QED
    BY <2>1, <2>2, <2>3, <2>4, <2>5, <2>7, <2>8, <2>9, <2>10, <2>11
       DEF Next, ServeHTTP
<1>. QED  BY <1>1, <1>2, PTL DEF Spec
-----------------------------------------------------------------------------
(* Only one statement writes rows, and it fills an empty key or nothing.   *)

LEMMA OnlyInsertStores ==
    ASSUME [Next]_vars
    PROVE  \/ UNCHANGED rows
           \/ \E m \in Messages, n \in Attempts : InsertInbound(m, n) /\ Store(m)
<1>1. CASE UNCHANGED vars
  BY <1>1 DEF vars, db_vars
<1>2. ASSUME NEW m \in Messages, Post(m) \/ Hear(m) \/ TimeOut(m) \/ Disconnect(m)
      PROVE  UNCHANGED rows
  BY <1>2 DEF Post, Hear, TimeOut, Disconnect, db_vars
<1>3. ASSUME NEW m \in Messages, NEW n \in Attempts,
             Refuse(m, n) \/ LookUp(m, n) \/ UpsertSender(m, n) \/ Crash(m, n)
      PROVE  UNCHANGED rows
  BY <1>3 DEF Refuse, LookUp, UpsertSender, Crash, db_vars
<1>4. ASSUME NEW m \in Messages, NEW n \in Attempts, InsertInbound(m, n)
      PROVE  UNCHANGED rows \/ Store(m)
  BY <1>4 DEF InsertInbound
<1>. QED  BY <1>1, <1>2, <1>3, <1>4 DEF Next, ServeHTTP

LEMMA StoreEffect ==
    ASSUME TypeOK, NEW m \in Messages, Store(m)
    PROVE  /\ Key(m) \in Keys
           /\ \A k \in Keys : k # Key(m) \/ rows[k] # NULL => rows'[k] = rows[k]
           /\ rows[Key(m)] = NULL => rows'[Key(m)] = InboundRow(m)
<1>1. Key(m) \in Keys
  BY MailAssumption DEF Key, Keys
<1>. QED  BY <1>1 DEF TypeOK, Store

LEMMA RowsKept ==
    ASSUME TypeOK, [Next]_vars, NEW k \in Keys, rows[k] # NULL
    PROVE  rows'[k] = rows[k]
  BY OnlyInsertStores, StoreEffect

\* The first copy of a message is never rewritten.
THEOREM FirstCopiesKept == Spec => FirstCopyKept
<1>1. TypeOK /\ [Next]_vars =>
        [\A k \in Keys : rows[k] # NULL => rows'[k] = rows[k]]_vars
  BY RowsKept
<1>. QED  BY <1>1, TypeCorrect, PTL DEF Spec, FirstCopyKept

-----------------------------------------------------------------------------
(* What an answer means.                                                   *)

AnswersHonest ==
    \A m \in Messages, n \in Attempts :
        /\ pc[m][n] = "stored" => rows[Key(m)] # NULL
        /\ pc[m][n] = "unknown" => Owner[m] = NULL

\* "accepted" is Mailgun's record of a 200 to its latest post.
Heard ==
    \A m \in Messages :
        mailgun[m] = "accepted" => pc[m][tries[m]] \in Accepting

HonestInv == AnswersHonest /\ Heard

LEMMA AnswersStep ==
    ASSUME TypeOK, AnswersHonest, [Next]_vars PROVE AnswersHonest'
<1>. SUFFICES ASSUME NEW m \in Messages, NEW n \in Attempts
              PROVE  /\ pc'[m][n] = "stored" => rows'[Key(m)] # NULL
                     /\ pc'[m][n] = "unknown" => Owner[m] = NULL
  BY DEF AnswersHonest, Key
<1>. USE MailAssumption DEF TypeOK, Attempts
<1>1. Key(m) \in Keys
  BY DEF Key, Keys
<1>2. CASE pc'[m][n] = pc[m][n]
  <2>1. rows[Key(m)] # NULL => rows'[Key(m)] = rows[Key(m)]
    BY <1>1, RowsKept
  <2>. QED  BY <1>2, <2>1 DEF AnswersHonest
<1>3. CASE pc'[m][n] # pc[m][n]
  <2>1. pc' # pc
    BY <1>3
  <2>2. ASSUME NEW l \in Messages, Post(l)
        PROVE  pc'[m][n] \in {pc[m][n], "received"}
    BY <2>2 DEF Post
  <2>3. ASSUME NEW l \in Messages, Hear(l) \/ TimeOut(l) \/ Disconnect(l)
        PROVE  pc' = pc
    BY <2>3 DEF Hear, TimeOut, Disconnect
  <2>4. ASSUME NEW l \in Messages, NEW k \in Attempts, NEW to, Goto(l, k, to)
        PROVE  l = m /\ k = n /\ pc'[m][n] = to
    BY <1>3, <2>4 DEF Goto
  <2>5. ASSUME NEW l \in Messages, NEW k \in Attempts,
               Refuse(l, k) \/ UpsertSender(l, k) \/ Crash(l, k)
        PROVE  pc'[m][n] \notin {"stored", "unknown"}
    BY <2>4, <2>5 DEF Refuse, UpsertSender, Crash
  <2>6. ASSUME NEW l \in Messages, NEW k \in Attempts, LookUp(l, k)
        PROVE  pc'[m][n] # "stored" /\ (pc'[m][n] = "unknown" => Owner[m] = NULL)
    BY <2>4, <2>6 DEF LookUp
  <2>7. ASSUME NEW l \in Messages, NEW k \in Attempts, InsertInbound(l, k)
        PROVE  pc'[m][n] # "unknown" /\ (pc'[m][n] = "stored" => rows'[Key(m)] # NULL)
    <3>1. CASE Store(l) /\ Goto(l, k, "stored")
      <4>1. l = m /\ k = n /\ pc'[m][n] = "stored"
        BY <2>4, <3>1
      <4>2. InboundRow(m) \in Row
        <5>1. Owner[m] # NULL
          BY <2>4, <2>7, <3>1, <4>1 DEF InsertInbound
        <5>. QED  BY <5>1 DEF InboundRow, Row
      <4>3. rows'[Key(m)] # NULL
        BY <3>1, <4>1, <4>2, StoreEffect
      <4>. QED  BY <4>1, <4>3
    <3>2. CASE Goto(l, k, "failed")
      BY <2>4, <3>2
    <3>. QED  BY <2>7, <3>1, <3>2 DEF InsertInbound
  <2>. QED
    BY <1>3, <2>1, <2>2, <2>3, <2>5, <2>6, <2>7 DEF Next, ServeHTTP, vars
<1>. QED  BY <1>2, <1>3

LEMMA HeardStep ==
    ASSUME TypeOK, Heard, [Next]_vars PROVE Heard'
<1>. SUFFICES ASSUME NEW m \in Messages, mailgun'[m] = "accepted"
              PROVE  pc'[m][tries'[m]] \in Accepting
  BY DEF Heard
<1>. USE MailAssumption DEF TypeOK, Attempts
<1>1. CASE UNCHANGED vars
  BY <1>1 DEF vars, mailgun_vars, Heard
<1>2. ASSUME NEW l \in Messages, Post(l)
      PROVE  pc'[m][tries'[m]] \in Accepting
  BY <1>2 DEF Post, Heard
<1>3. ASSUME NEW l \in Messages, Hear(l)
      PROVE  pc'[m][tries'[m]] \in Accepting
  BY <1>3 DEF Hear, Retry, Heard
<1>4. ASSUME NEW l \in Messages, TimeOut(l) \/ Disconnect(l)
      PROVE  pc'[m][tries'[m]] \in Accepting
  BY <1>4 DEF TimeOut, Disconnect, Retry, Heard
<1>5. ASSUME NEW l \in Messages, NEW k \in Attempts, NEW to,
             pc[l][k] \in Serving, Goto(l, k, to), UNCHANGED mailgun_vars
      PROVE  pc'[m][tries'[m]] \in Accepting
  <2>1. pc[m][tries[m]] \in Accepting /\ tries'[m] = tries[m]
    BY <1>5 DEF Heard, mailgun_vars
  <2>2. pc'[m][tries[m]] = pc[m][tries[m]]
    BY <1>5, <2>1 DEF Goto, Serving, Accepting
  <2>. QED  BY <2>1, <2>2
<1>6. ASSUME NEW l \in Messages, NEW k \in Attempts, ServeHTTP(l, k) \/ Crash(l, k)
      PROVE  pc'[m][tries'[m]] \in Accepting
  BY <1>5, <1>6 DEF ServeHTTP, Refuse, LookUp, UpsertSender, InsertInbound, Crash,
                    Serving
<1>. QED  BY <1>1, <1>2, <1>3, <1>4, <1>6 DEF Next

THEOREM HonestInvariant == Spec => []HonestInv
<1>1. Init => HonestInv
  BY DEF Init, HonestInv, AnswersHonest, Heard
<1>2. TypeOK /\ HonestInv /\ [Next]_vars => HonestInv'
  BY AnswersStep, HeardStep DEF HonestInv
<1>. QED  BY <1>1, <1>2, TypeCorrect, PTL DEF Spec

\* A message Mailgun has been told to forget is stored, unknown to the system,
\* or was answered 200 after a failed look-up.
THEOREM AcceptedMailStored == Spec => []AcceptedIsStored
<1>1. TypeOK /\ HonestInv => AcceptedIsStored
  <2>. SUFFICES ASSUME TypeOK, HonestInv, NEW m \in Messages,
                       mailgun[m] = "accepted", Owner[m] # NULL,
                       Answer(m) # "dropped"
                PROVE  rows[Key(m)] # NULL
    BY DEF AcceptedIsStored
  <2>1. tries[m] \in Attempts
    BY MailAssumption DEF TypeOK, Attempts
  <2>2. pc[m][tries[m]] \in Accepting \ {"dropped"}
    BY <2>1 DEF HonestInv, Heard, Answer, Attempts
  <2>. QED  BY <2>1, <2>2 DEF HonestInv, AnswersHonest, Accepting
<1>. QED  BY <1>1, TypeCorrect, HonestInvariant, PTL

-----------------------------------------------------------------------------
(* Senders come first.                                                     *)

SendersFirst ==
    /\ SenderStored
    /\ \A m \in Messages, n \in Attempts :
          pc[m][n] = "upserted" => senders[Owner[m]][From[m]] # NULL

\* Every stored email has the sender row its sender_id names.
THEOREM SendersStored == Spec => []SenderStored
<1>1. Init => SendersFirst
  BY DEF Init, SendersFirst, SenderStored
<1>2. TypeOK /\ SendersFirst /\ [Next]_vars => SendersFirst'
  <2>. SUFFICES ASSUME TypeOK, SendersFirst, [Next]_vars PROVE SendersFirst'
    OBVIOUS
  <2>. USE MailAssumption DEF TypeOK, Attempts
  <2>1. ASSUME NEW u \in Users, NEW f \in Froms, senders[u][f] # NULL
        PROVE  senders'[u][f] # NULL
    <3>1. CASE UNCHANGED senders
      BY <2>1, <3>1
    <3>2. ASSUME NEW m \in Messages, NEW n \in Attempts, UpsertSender(m, n)
          PROVE  senders'[u][f] # NULL
      <4>1. CASE senders' = [senders EXCEPT ![Owner[m]][From[m]] = Merged(@, m)]
        <5>1. \A old \in Sender \cup {NULL} : Merged(old, m) \in Sender
          BY DEF Merged, Sender
        <5>2. Owner[m] \in Users
          BY <3>2 DEF UpsertSender
        <5>. QED  BY <2>1, <4>1, <5>1, <5>2
      <4>2. CASE UNCHANGED senders
        BY <2>1, <4>2
      <4>. QED  BY <3>2, <4>1, <4>2 DEF UpsertSender
    <3>. QED
      BY <3>1, <3>2
         DEF Next, ServeHTTP, Post, Hear, TimeOut, Disconnect, Refuse, LookUp,
             InsertInbound, Crash, db_vars, vars
  <2>2. SenderStored'
    <3>. SUFFICES ASSUME NEW k \in Keys, rows'[k] # NULL
                  PROVE  senders'[rows'[k].user][rows'[k].from] # NULL
      BY DEF SenderStored, Keys, Synthetic
    <3>1. CASE rows'[k] = rows[k]
      <4>1. rows[k].user \in Users /\ rows[k].from \in Froms
        BY <3>1 DEF Row
      <4>. QED  BY <2>1, <3>1, <4>1 DEF SendersFirst, SenderStored
    <3>2. ASSUME NEW m \in Messages, NEW n \in Attempts,
                 InsertInbound(m, n), Store(m), rows'[k] # rows[k]
          PROVE  senders'[rows'[k].user][rows'[k].from] # NULL
      <4>1. rows'[k] = InboundRow(m)
        BY <3>2, StoreEffect
      <4>2. senders[Owner[m]][From[m]] # NULL /\ Owner[m] \in Users
        BY <3>2 DEF InsertInbound, SendersFirst
      <4>. QED  BY <2>1, <4>1, <4>2 DEF InboundRow
    <3>. QED  BY <3>1, <3>2, OnlyInsertStores
  <2>3. ASSUME NEW m \in Messages, NEW n \in Attempts, pc'[m][n] = "upserted"
        PROVE  senders'[Owner[m]][From[m]] # NULL
    <3>1. CASE pc[m][n] = "upserted"
      BY <2>1, <3>1 DEF SendersFirst
    <3>2. CASE pc[m][n] # "upserted"
      <4>1. ASSUME NEW l \in Messages, NEW k \in Attempts, UpsertSender(l, k)
            PROVE  senders'[Owner[m]][From[m]] # NULL
        <5>1. ASSUME NEW to, Goto(l, k, to)
              PROVE  l = m /\ k = n /\ to = "upserted"
          BY <2>3, <3>2, <5>1 DEF Goto
        <5>2. /\ l = m
              /\ Owner[m] \in Users
              /\ senders' = [senders EXCEPT ![Owner[m]][From[m]] = Merged(@, m)]
          BY <4>1, <5>1 DEF UpsertSender
        <5>3. \A old \in Sender \cup {NULL} : Merged(old, m) \in Sender
          BY DEF Merged, Sender
        <5>. QED  BY <5>2, <5>3
      <4>2. ASSUME NEW l \in Messages, Post(l) PROVE FALSE
        BY <2>3, <3>2, <4>2 DEF Post
      <4>3. ASSUME NEW l \in Messages, NEW k \in Attempts, NEW to,
                   Goto(l, k, to), to # "upserted"
            PROVE  FALSE
        BY <2>3, <3>2, <4>3 DEF Goto
      <4>. QED
        BY <2>3, <3>2, <4>1, <4>2, <4>3
           DEF Next, ServeHTTP, Hear, TimeOut, Disconnect, Refuse, LookUp,
               InsertInbound, Crash, vars
    <3>. QED  BY <3>1, <3>2
  <2>. QED  BY <2>2, <2>3 DEF SendersFirst
<1>3. SendersFirst => SenderStored
  BY DEF SendersFirst
<1>. QED  BY <1>1, <1>2, <1>3, TypeCorrect, PTL DEF Spec
-----------------------------------------------------------------------------
(* Keys.                                                                   *)

RowsKeyed ==
    \A k \in Keys : rows[k] # NULL => Key(rows[k].message) = k

\* Mail without a Message-Id is never taken for a duplicate of other mail.
THEOREM SharedRowsHaveOneId == Spec => []SharedOnlyById
<1>1. Init => RowsKeyed
  BY DEF Init, RowsKeyed
<1>2. TypeOK /\ RowsKeyed /\ [Next]_vars => RowsKeyed'
  <2>. SUFFICES ASSUME TypeOK, RowsKeyed, [Next]_vars,
                       NEW k \in Keys, rows'[k] # NULL
                PROVE  Key(rows'[k].message) = k
    BY DEF RowsKeyed, Key, Keys, Synthetic
  <2>1. CASE rows'[k] = rows[k]
    BY <2>1 DEF RowsKeyed
  <2>2. ASSUME NEW m \in Messages, Store(m), rows'[k] # rows[k]
        PROVE  Key(rows'[k].message) = k
    <3>1. k = Key(m) /\ rows'[k] = InboundRow(m)
      BY <2>2, StoreEffect
    <3>. QED  BY <3>1 DEF InboundRow
  <2>. QED  BY <2>1, <2>2, OnlyInsertStores
<1>3. TypeOK /\ RowsKeyed => SharedOnlyById
  <2>. SUFFICES ASSUME TypeOK, RowsKeyed,
                       NEW l \in Messages, NEW m \in Messages, l # m,
                       rows[Key(m)] # NULL, rows[Key(m)].message = l
                PROVE  MessageId[m] # NULL /\ MessageId[l] = MessageId[m]
    BY DEF SharedOnlyById
  <2>1. Key(l) = Key(m)
    <3>1. Key(m) \in Keys
      BY MailAssumption DEF Key, Keys
    <3>. QED  BY <3>1 DEF RowsKeyed
  <2>2. Synthetic(l) # Synthetic(m)
    BY DEF Synthetic
  <2>3. \A i \in Messages : MessageId[i] # NULL => MessageId[i] \in MessageIds \cup {Empty}
    BY MailAssumption
  <2>. QED  BY <2>1, <2>2, <2>3, MailAssumption DEF Key
<1>. QED  BY <1>1, <1>2, <1>3, TypeCorrect, PTL DEF Spec
-----------------------------------------------------------------------------
(* Unsubscribe headers.                                                    *)

\* A stored unsubscribe header is never erased by mail without one.
THEOREM UnsubscribesKept == Spec => UnsubscribeKept
<1>. DEFINE Kept(u, f) ==
       senders[u][f] # NULL /\ senders[u][f].unsubscribe # NULL
           => senders'[u][f].unsubscribe # NULL
<1>1. TypeOK /\ [Next]_vars => [\A u \in Users, f \in Froms : Kept(u, f)]_vars
  <2>. SUFFICES ASSUME TypeOK, [Next]_vars, NEW u \in Users, NEW f \in Froms
                PROVE  Kept(u, f)
    OBVIOUS
  <2>1. CASE UNCHANGED senders
    BY <2>1
  <2>2. ASSUME NEW m \in Messages, NEW n \in Attempts, UpsertSender(m, n)
        PROVE  Kept(u, f)
    <3>1. Owner[m] \in Users /\ From[m] \in Froms /\ NULL \notin Messages
      BY <2>2, MailAssumption DEF UpsertSender, TypeOK
    <3>2. CASE senders' = [senders EXCEPT ![Owner[m]][From[m]] = Merged(@, m)]
      <4>1. CASE u = Owner[m] /\ f = From[m]
        <5>1. senders'[u][f] = Merged(senders[u][f], m)
          BY <3>1, <3>2, <4>1 DEF TypeOK
        <5>. QED  BY <3>1, <5>1 DEF Merged
      <4>2. CASE ~(u = Owner[m] /\ f = From[m])
        <5>1. senders'[u][f] = senders[u][f]
          BY <3>1, <3>2, <4>2 DEF TypeOK
        <5>. QED  BY <5>1
      <4>. QED  BY <4>1, <4>2
    <3>. QED  BY <2>1, <2>2, <3>2 DEF UpsertSender
  <2>. QED
    BY <2>1, <2>2
       DEF Next, ServeHTTP, Post, Hear, TimeOut, Disconnect, Refuse, LookUp,
           InsertInbound, Crash, vars, db_vars
<1>. QED  BY <1>1, TypeCorrect, PTL DEF Spec, UnsubscribeKept

-----------------------------------------------------------------------------
(* The webhook is a mailbox.                                               *)

LEMMA KeyedMail ==
    ASSUME TypeOK, NEW m \in Messages
    PROVE  /\ Key(m) \in Keys
           /\ rows[Key(m)] # NULL => Mail[Key(m)] # NULL
           /\ rows[Key(m)] = NULL => Mail[Key(m)] = NULL
<1>1. Key(m) \in Keys
  BY MailAssumption DEF Key, Keys
<1>2. rows[Key(m)] # NULL => rows[Key(m)].message \in Messages
  BY <1>1 DEF TypeOK, Row
<1>. QED  BY <1>1, <1>2, MailAssumption DEF Mail

\* Serving a post moves nothing that Mailgun has already acted upon.
LEMMA ServingKeepsFates ==
    ASSUME TypeOK, Heard, UNCHANGED mailgun_vars,
           NEW l \in Messages, NEW k \in Attempts, NEW to,
           pc[l][k] \in Serving, Goto(l, k, to)
    PROVE  Fates' = Fates
<1>. SUFFICES ASSUME NEW m \in Messages PROVE Fate(m)' = Fate(m)
  BY DEF Fates
<1>1. CASE mailgun[m] = "accepted"
  <2>1. tries[m] \in Attempts /\ pc[m][tries[m]] \in Accepting
    BY <1>1, MailAssumption DEF Heard, TypeOK, Attempts
  <2>2. pc'[m][tries[m]] = pc[m][tries[m]]
    BY <2>1 DEF Goto, Serving, Accepting, TypeOK
  <2>. QED  BY <1>1, <2>2 DEF Fate, Answer, mailgun_vars
<1>2. CASE mailgun[m] # "accepted"
  BY <1>2 DEF Fate, mailgun_vars
<1>. QED  BY <1>1, <1>2

LEMMA InsertKeeps ==
    ASSUME TypeOK, HonestInv, NEW m \in Messages, NEW n \in Attempts,
           InsertInbound(m, n)
    PROVE  Box!Keep(m) \/ UNCHANGED <<Mail, Fates>>
<1>1. Fates' = Fates
  BY ServingKeepsFates DEF InsertInbound, HonestInv, Serving
<1>2. CASE UNCHANGED rows
  BY <1>1, <1>2 DEF Mail
<1>3. CASE Store(m)
  <2>1. Key(m) \in Keys /\ Owner[m] # NULL
    BY StoreEffect, <1>3 DEF InsertInbound, TypeOK
  <2>2. CASE rows[Key(m)] # NULL
    <3>1. rows' = rows
      BY <1>3, <2>1, <2>2 DEF Store, TypeOK
    <3>. QED  BY <1>1, <3>1 DEF Mail
  <2>3. CASE rows[Key(m)] = NULL
    <3>1. InboundRow(m) # NULL
      BY <2>1, MailAssumption DEF InboundRow, Row
    <3>2. rows' = [rows EXCEPT ![Key(m)] = InboundRow(m)]
      BY <1>3, <2>3, <2>1 DEF Store, TypeOK
    <3>3. Mail' = [Mail EXCEPT ![Key(m)] = m]
      <4>1. ASSUME NEW k \in Keys PROVE Mail'[k] = [Mail EXCEPT ![Key(m)] = m][k]
        <5>1. CASE k = Key(m)
          <6>1. rows'[k] = InboundRow(m) /\ InboundRow(m).message = m
            BY <3>2, <5>1 DEF TypeOK, InboundRow
          <6>. QED  BY <3>1, <5>1, <6>1 DEF Mail
        <5>2. CASE k # Key(m)
          <6>1. rows'[k] = rows[k]
            BY <3>2, <5>2 DEF TypeOK
          <6>. QED  BY <5>2, <6>1 DEF Mail
        <5>. QED  BY <5>1, <5>2
      <4>. QED  BY <4>1 DEF Mail
    <3>4. Mail[Key(m)] = NULL
      BY <2>3, KeyedMail
    <3>. QED  BY <1>1, <2>1, <3>3, <3>4 DEF Box!Keep
  <2>. QED  BY <2>2, <2>3
<1>. QED  BY <1>2, <1>3 DEF InsertInbound

\* Hearing an answer, or giving up on one, is what seals a fate.
LEMMA MailgunCloses ==
    ASSUME TypeOK, HonestInv, NEW m \in Messages,
           Hear(m) \/ TimeOut(m) \/ Disconnect(m)
    PROVE  Box!Close(m) \/ UNCHANGED <<Mail, Fates>>
<1>. USE MailAssumption
<1>1. Mail' = Mail /\ pc' = pc /\ tries' = tries
  BY DEF Hear, TimeOut, Disconnect, Mail, db_vars
<1>2. \A l \in Messages \ {m} : mailgun'[l] = mailgun[l]
  BY DEF Hear, TimeOut, Disconnect, Retry, TypeOK
<1>3. \A l \in Messages \ {m} : Fate(l)' = Fate(l)
  BY <1>1, <1>2 DEF Fate, Answer
<1>4. Fate(m) = "open"
  BY DEF Hear, TimeOut, Disconnect, Fate
<1>5. Fates' = [Fates EXCEPT ![m] = Fate(m)']
  BY <1>3 DEF Fates
<1>6. CASE mailgun'[m] = "due"
  <2>1. Fate(m)' = "open"
    BY <1>6 DEF Fate
  <2>2. Fates' = Fates
    BY <1>4, <1>5, <2>1 DEF Fates
  <2>. QED  BY <1>1, <2>2
<1>7. CASE mailgun'[m] = "gave_up"
  <2>1. Fate(m)' = "gave_up"
    BY <1>7 DEF Fate
  <2>. QED  BY <1>1, <1>4, <1>5, <2>1 DEF Box!Close, Fates
<1>8. CASE mailgun'[m] = "accepted"
  <2>1. tries[m] \in Attempts /\ pc[m][tries[m]] \in Accepting
    <3>1. mailgun[m] = "waiting" /\ pc[m][tries[m]] \in Accepting
      BY <1>8 DEF Hear, TimeOut, Disconnect, Retry, TypeOK
    <3>. QED  BY <3>1 DEF TypeOK, Attempts
  <2>2. Answer(m)' = pc[m][tries[m]]
    BY <1>1, <2>1 DEF Answer, Attempts
  <2>3. CASE pc[m][tries[m]] = "stored"
    <3>1. Fate(m)' = "kept"
      BY <1>8, <2>2, <2>3 DEF Fate
    <3>2. Owner[m] # NULL /\ rows[Key(m)] # NULL
      BY <2>1, <2>3 DEF HonestInv, AnswersHonest, TypeOK
    <3>3. Mail[Key(m)] # NULL
      BY <3>2, KeyedMail
    <3>. QED  BY <1>1, <1>4, <1>5, <3>1, <3>2, <3>3 DEF Box!Close, Fates
  <2>4. CASE pc[m][tries[m]] = "unknown"
    <3>1. Fate(m)' = "unroutable"
      BY <1>8, <2>2, <2>4 DEF Fate
    <3>2. Owner[m] = NULL
      BY <2>1, <2>4 DEF HonestInv, AnswersHonest
    <3>. QED  BY <1>1, <1>4, <1>5, <3>1, <3>2 DEF Box!Close, Fates
  <2>5. CASE pc[m][tries[m]] = "dropped"
    <3>1. Fate(m)' = "dropped"
      BY <1>8, <2>2, <2>5 DEF Fate
    <3>. QED  BY <1>1, <1>4, <1>5, <3>1 DEF Box!Close, Fates
  <2>. QED  BY <2>1, <2>3, <2>4, <2>5 DEF Accepting
<1>. QED
  BY <1>6, <1>7, <1>8 DEF Hear, TimeOut, Disconnect, Retry, TypeOK

\* Every behaviour of the webhook is one of the mailbox: mail is kept once,
\* and every 200 that Mailgun acts upon is true.
THEOREM ImplementsMailbox == Spec => MailboxSpec
<1>1. Init => Box!Init
  BY DEF Init, Box!Init, Mail, Fates, Fate
<1>2. TypeOK /\ HonestInv /\ [Next]_vars => [Box!Next]_<<Mail, Fates>>
  <2>. SUFFICES ASSUME TypeOK, HonestInv, [Next]_vars
                PROVE  Box!Next \/ UNCHANGED <<Mail, Fates>>
    OBVIOUS
  <2>1. CASE UNCHANGED vars
    BY <2>1 DEF vars, db_vars, mailgun_vars, Mail, Fates, Fate, Answer
  <2>2. ASSUME NEW m \in Messages, Post(m) PROVE UNCHANGED <<Mail, Fates>>
    <3>1. Mail' = Mail
      BY <2>2 DEF Post, db_vars, Mail
    <3>2. ASSUME NEW l \in Messages PROVE Fate(l)' = Fate(l)
      <4>1. CASE l = m
        BY <2>2, <4>1 DEF Post, Fate, TypeOK
      <4>2. CASE l # m
        BY <2>2, <4>2 DEF Post, Fate, Answer, TypeOK
      <4>. QED  BY <4>1, <4>2
    <3>. QED  BY <3>1, <3>2 DEF Fates
  <2>3. ASSUME NEW m \in Messages, NEW n \in Attempts,
               Refuse(m, n) \/ LookUp(m, n) \/ UpsertSender(m, n) \/ Crash(m, n)
        PROVE  UNCHANGED <<Mail, Fates>>
    <3>1. Mail' = Mail
      BY <2>3 DEF Refuse, LookUp, UpsertSender, Crash, db_vars, Mail
    <3>2. /\ UNCHANGED mailgun_vars
          /\ pc[m][n] \in Serving
          /\ \E to : Goto(m, n, to)
      BY <2>3 DEF Refuse, LookUp, UpsertSender, Crash, Serving
    <3>. QED  BY <3>1, <3>2, ServingKeepsFates DEF HonestInv
  <2>. QED
    BY <2>1, <2>2, <2>3, InsertKeeps, MailgunCloses
       DEF Next, ServeHTTP, Box!Next
<1>. QED
  BY <1>1, <1>2, TypeCorrect, HonestInvariant, PTL DEF Spec, MailboxSpec, Box!Spec
=============================================================================
