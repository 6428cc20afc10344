------------------------- MODULE TelegramLinkProofs -------------------------
(***************************************************************************)
(* Proofs about TelegramLink, for any number of accounts, chats, codes,    *)
(* requests and messages and any clock: the types of what is read, that    *)
(* unexpired codes are distinct while RequestsApart, and that AccountLinks *)
(* is implemented while ChatsApart.                                        *)
(***************************************************************************)
EXTENDS TelegramLink, TLAPS

-----------------------------------------------------------------------------
(***************************************************************************)
(* The rows.                                                               *)
(***************************************************************************)

\* What an UPDATE makes of a row is a row.
LEMMA WrittenIsRow ==
  ASSUME NEW row \in Row, NEW read \in Row, NEW new \in Row
  PROVE  Written(row, read, new) \in Row
BY DEF Written, Row

\* An UPDATE changes the row it names and no other.
LEMMA UpdateOfOne ==
  ASSUME NEW u \in Users, NEW read \in Row, NEW new \in Row,
         users \in [Users -> Row], Update(u, read, new)
  PROVE  /\ users' \in [Users -> Row]
         /\ users'[u] = Written(users[u], read, new)
         /\ \A v \in Users : v # u => users'[v] = users[v]
<1>1. users' = [users EXCEPT ![u] = Written(users[u], read, new)]
  BY DEF Update
<1>2. Written(users[u], read, new) \in Row
  BY WrittenIsRow
<1> QED
  BY <1>1, <1>2

\* A code that is live is live at every earlier instant.
LEMMA LiveEarlier ==
  ASSUME NEW row \in Row, Dated(row), NEW at \in Nat, NEW later \in Nat,
         at <= later, Live(row, later)
  PROVE  Live(row, at)
<1>1. MaxNow \in Nat /\ TTL \in Nat
  BY LinkConstants
<1>2. row.expires \in Nat
  BY <1>1 DEF Live, Dated, Row
<1> QED
  BY <1>2 DEF Live

-----------------------------------------------------------------------------
(***************************************************************************)
(* The types, and the code of a row that the bot has found.                *)
(***************************************************************************)
LEMMA ReadInitially == Init => ReadInv
<1> SUFFICES ASSUME Init PROVE ReadInv
  OBVIOUS
<1>1. users \in [Users -> Row]
  BY DEF Init, Unlinked, Row
<1>2. request \in [Requests -> Request \cup {NULL}] /\ message \in [Messages -> Link \cup {NULL}]
  BY DEF Init
<1>3. waiting \subseteq Chats /\ exhausted \in BOOLEAN
  BY DEF Init
<1>4. now \in 0..MaxNow
  <2>1. now = 0
    BY DEF Init
  <2> QED
    BY <2>1, LinkConstants
<1>5. \A m \in Messages : message[m] = NULL
  BY DEF Init
<1> QED
  BY <1>1, <1>2, <1>3, <1>4, <1>5 DEF ReadInv, LinkTypeOK

\* A step that leaves the row of one user in order and sets one request, or none.
LEMMA RequestTyped ==
  ASSUME ReadInv, NEW r \in Requests, NEW q \in Request \cup {NULL},
         users' \in [Users -> Row],
         request' = [request EXCEPT ![r] = q],
         exhausted' \in BOOLEAN, UNCHANGED <<waiting, message, now>>
  PROVE  ReadInv'
BY DEF ReadInv, LinkTypeOK, MessageRead

LEMMA MessageTyped ==
  ASSUME ReadInv, NEW m \in Messages, NEW q \in Link \cup {NULL}, q # NULL => MessageRead(q),
         users' \in [Users -> Row], waiting' \subseteq Chats,
         message' = [message EXCEPT ![m] = q],
         UNCHANGED <<request, now, exhausted>>
  PROVE  ReadInv'
<1>1. LinkTypeOK'
  BY DEF ReadInv, LinkTypeOK
<1>2. ASSUME NEW n \in Messages, message'[n] # NULL PROVE MessageRead(message'[n])
  <2>1. message'[n] = IF n = m THEN q ELSE message[n]
    BY DEF ReadInv, LinkTypeOK
  <2> QED
    BY <1>2, <2>1 DEF ReadInv
<1> QED
  BY <1>1, <1>2 DEF ReadInv, MessageRead

\* What a request is when it begins.
LEMMA Begun ==
  ASSUME ReadInv, NEW r \in Requests, NEW u \in Users,
         NEW stage \in {"generate", "unlink"}, Begin(r, u, stage)
  PROVE  \E q \in Request :
           /\ q.user = u /\ q.read = users[u] /\ q.at = now /\ q.stage = stage
           /\ request[r] = NULL /\ request' = [request EXCEPT ![r] = q]
           /\ UNCHANGED <<users, waiting, message, now, exhausted>>
<1> DEFINE q == [user |-> u, read |-> users[u], at |-> now, tries |-> 0,
                 stage |-> stage, code |-> NULL]
<1>1. q \in Request
  BY LinkConstants DEF ReadInv, LinkTypeOK, Request
<1>2. request[r] = NULL /\ request' = [request EXCEPT ![r] = q]
      /\ UNCHANGED <<users, waiting, message, now, exhausted>>
  BY DEF Begin
<1> QED
  BY <1>1, <1>2

\* One turn of the loop: a code no row holds unexpired, or one taken unseen; or
\* another turn; or an error.
LEMMA Tried ==
  ASSUME ReadInv, NEW r \in Requests, TryCode(r)
  PROVE  LET p == request[r] IN
         /\ p # NULL /\ p \in Request /\ p.stage = "generate"
         /\ UNCHANGED <<users, waiting, message, now>>
         /\ exhausted' \in BOOLEAN /\ (exhausted => exhausted')
         /\ \E q \in Request \cup {NULL} :
              /\ request' = [request EXCEPT ![r] = q]
              /\ q # NULL =>
                   /\ q.at = p.at /\ q.read = p.read /\ q.user = p.user
                   /\ q.stage \in {"generate", "commit"}
                   /\ q.stage = "commit" /\ ~exhausted' =>
                        \A v \in Users : Live(users[v], q.at) => users[v].code # q.code
<1>1. request[r] # NULL /\ request[r].stage = "generate" /\ request[r] \in Request
  BY DEF TryCode, ReadInv, LinkTypeOK
<1>2. /\ UNCHANGED <<users, waiting, message, now>>
      /\ exhausted' = (exhausted \/ request[r].tries = Attempts)
      /\ exhausted' \in BOOLEAN /\ (exhausted => exhausted')
  BY DEF TryCode, ReadInv, LinkTypeOK
<1>3. PICK code \in Codes :
        LET live == {u \in Holders(code) : Live(users[u], request[r].at)} IN
        IF request[r].tries = Attempts \/ live = {}
          THEN request' = [request EXCEPT ![r].stage = "commit", ![r].code = code]
          ELSE IF Cardinality(live) = 1
            THEN request' = [request EXCEPT ![r].tries = @ + 1]
            ELSE request' = [request EXCEPT ![r] = NULL]
  BY DEF TryCode
<1> DEFINE live == {u \in Holders(code) : Live(users[u], request[r].at)}
           q == [request[r] EXCEPT !.stage = "commit", !.code = code]
           p == [request[r] EXCEPT !.tries = @ + 1]
<1>4. \/ /\ request' = [request EXCEPT ![r] = q]
         /\ request[r].tries = Attempts \/ live = {}
      \/ /\ request' = [request EXCEPT ![r] = p] /\ request[r].tries # Attempts
      \/ request' = [request EXCEPT ![r] = NULL]
  BY <1>3
<1>5. CASE /\ request' = [request EXCEPT ![r] = q]
           /\ request[r].tries = Attempts \/ live = {}
  <2>1. q \in Request /\ q.at = request[r].at /\ q.read = request[r].read
        /\ q.user = request[r].user /\ q.code = code /\ q.stage = "commit"
    BY <1>1 DEF Request
  <2>2. ~exhausted' => live = {}
    BY <1>2, <1>5
  <2>3. live = {} => \A v \in Users : Live(users[v], request[r].at) => users[v].code # code
    BY DEF Holders
  <2> HIDE DEF q, live
  <2> QED
    BY <1>1, <1>2, <1>5, <2>1, <2>2, <2>3
<1>6. CASE request' = [request EXCEPT ![r] = p] /\ request[r].tries # Attempts
  <2>1. p \in Request /\ p.at = request[r].at /\ p.read = request[r].read
        /\ p.user = request[r].user /\ p.stage = "generate"
    BY <1>1, <1>6, LinkConstants DEF Request
  <2> HIDE DEF p
  <2> QED
    BY <1>1, <1>2, <1>6, <2>1
<1>7. CASE request' = [request EXCEPT ![r] = NULL]
  BY <1>1, <1>2, <1>7
<1> QED
  BY <1>4, <1>5, <1>6, <1>7

\* The row after the code is committed.
LEMMA CodeCommitted ==
  ASSUME ReadInv, NEW r \in Requests, CommitCode(r)
  PROVE  LET q == request[r] IN
         /\ q # NULL /\ q \in Request /\ q.stage = "commit" /\ q.user \in Users
         /\ q.at \in Nat /\ q.at + TTL \in Nat /\ NULL \notin Nat
         /\ request' = [request EXCEPT ![r] = NULL]
         /\ UNCHANGED <<waiting, message, now, exhausted>>
         /\ users' \in [Users -> Row]
         /\ users'[q.user].chat = users[q.user].chat
         /\ users'[q.user].code = (IF q.code = q.read.code THEN users[q.user].code ELSE q.code)
         /\ users'[q.user].expires = q.at + TTL
         /\ \A v \in Users : v # q.user => users'[v] = users[v]
<1> DEFINE q == request[r]
           new == [q.read EXCEPT !.code = q.code, !.expires = q.at + TTL]
<1>1. q # NULL /\ q.stage = "commit" /\ q \in Request /\ users \in [Users -> Row]
  BY DEF CommitCode, ReadInv, LinkTypeOK
<1>2. /\ Update(q.user, q.read, new) /\ request' = [request EXCEPT ![r] = NULL]
      /\ UNCHANGED <<waiting, message, now, exhausted>>
  BY DEF CommitCode
<1>3. q.user \in Users /\ q.read \in Row /\ q.code \in Codes \cup {NULL} /\ q.at \in 0..MaxNow
  BY <1>1 DEF Request
<1>4. /\ q.at + TTL \in 0..(MaxNow + TTL) /\ q.at + TTL \in Nat /\ q.at \in Nat
      /\ NULL \notin Nat
  BY <1>3, LinkConstants
<1>5. new \in Row /\ new.chat = q.read.chat /\ new.code = q.code /\ new.expires = q.at + TTL
  BY <1>3, <1>4 DEF Row
<1> HIDE DEF new
<1>6. /\ users' \in [Users -> Row]
      /\ users'[q.user] = Written(users[q.user], q.read, new)
      /\ \A v \in Users : v # q.user => users'[v] = users[v]
  BY <1>1, <1>2, <1>3, <1>5, UpdateOfOne
<1>7. /\ users'[q.user].chat = users[q.user].chat
      /\ users'[q.user].code = (IF q.code = q.read.code THEN users[q.user].code ELSE q.code)
      /\ users'[q.user].expires = q.at + TTL
  BY <1>4, <1>5, <1>6 DEF Written
<1> HIDE DEF q
<1> QED
  BY <1>1, <1>2, <1>3, <1>4, <1>6, <1>7 DEF q

\* The row after it is unlinked.
LEMMA Unlinking ==
  ASSUME ReadInv, NEW r \in Requests, CommitUnlink(r)
  PROVE  LET q == request[r] IN
         /\ q # NULL /\ q \in Request /\ q.user \in Users
         /\ request' = [request EXCEPT ![r] = NULL]
         /\ UNCHANGED <<waiting, message, now, exhausted>>
         /\ users' \in [Users -> Row]
         /\ users'[q.user].chat \in {NULL, users[q.user].chat}
         /\ users'[q.user].code = (IF q.read.code = NULL THEN users[q.user].code ELSE NULL)
         /\ \A v \in Users : v # q.user => users'[v] = users[v]
<1> DEFINE q == request[r]
<1>1. q # NULL /\ q \in Request /\ users \in [Users -> Row]
  BY DEF CommitUnlink, ReadInv, LinkTypeOK
<1>2. /\ Update(q.user, q.read, Unlinked) /\ request' = [request EXCEPT ![r] = NULL]
      /\ UNCHANGED <<waiting, message, now, exhausted>>
  BY DEF CommitUnlink
<1>3. q.user \in Users /\ q.read \in Row /\ Unlinked \in Row
  BY <1>1 DEF Request, Row, Unlinked
<1>4. /\ users' \in [Users -> Row]
      /\ users'[q.user] = Written(users[q.user], q.read, Unlinked)
      /\ \A v \in Users : v # q.user => users'[v] = users[v]
  BY <1>1, <1>2, <1>3, UpdateOfOne
<1>5. /\ users'[q.user].chat \in {NULL, users[q.user].chat}
      /\ users'[q.user].code = (IF q.read.code = NULL THEN users[q.user].code ELSE NULL)
  BY <1>4 DEF Written, Unlinked
<1> HIDE DEF q
<1> QED
  BY <1>1, <1>2, <1>3, <1>4, <1>5 DEF q

\* The row that is found holds the code that was typed.
LEMMA Found ==
  ASSUME ReadInv, NEW m \in Messages, NEW c \in Chats, NEW code \in Codes, FindCode(m, c, code)
  PROVE  \E q \in Link :
           /\ MessageRead(q) /\ q.read = users[q.user] /\ q.stage = "found"
           /\ message' = [message EXCEPT ![m] = q]
           /\ UNCHANGED <<users, waiting, request, now, exhausted>>
<1>1. PICK u \in Users :
        /\ Holders(code) = {u} /\ users[u].expires # NULL
        /\ message' = [message EXCEPT ![m] = [chat |-> c, user |-> u, read |-> users[u],
                                              stage |-> "found"]]
  BY DEF FindCode
<1> DEFINE q == [chat |-> c, user |-> u, read |-> users[u], stage |-> "found"]
<1>2. users[u].code = code /\ code # NULL /\ users[u] \in Row
  BY <1>1, LinkConstants DEF Holders, ReadInv, LinkTypeOK
<1>3. q \in Link /\ q.read = users[q.user] /\ q.stage = "found" /\ MessageRead(q)
  BY <1>1, <1>2 DEF Link, MessageRead
<1>4. message' = [message EXCEPT ![m] = q] /\ UNCHANGED <<users, waiting, request, now, exhausted>>
  BY <1>1 DEF FindCode
<1> QED
  BY <1>3, <1>4

\* An account or a chat that is linked elsewhere ends the handler.
LEMMA Checked ==
  ASSUME ReadInv, NEW m \in Messages, CheckLinks(m)
  PROVE  LET p == message[m] IN
         /\ p # NULL /\ p \in Link
         /\ UNCHANGED <<users, waiting, request, now, exhausted>>
         /\ \E q \in Link \cup {NULL} :
              /\ message' = [message EXCEPT ![m] = q]
              /\ q # NULL => /\ q.chat = p.chat /\ q.read = p.read /\ q.user = p.user
                             /\ q.read.chat \in {NULL, q.chat} /\ MessageRead(q)
<1> DEFINE q == [message[m] EXCEPT !.stage = "clear"]
<1>1. message[m] # NULL /\ message[m] \in Link /\ MessageRead(message[m])
  BY DEF CheckLinks, ReadInv, LinkTypeOK
<1>2. /\ q \in Link /\ q.chat = message[m].chat /\ q.read = message[m].read
      /\ q.user = message[m].user
  BY <1>1 DEF Link
<1>3. /\ \/ message' = [message EXCEPT ![m] = q] /\ message[m].read.chat \in {NULL, message[m].chat}
         \/ message' = [message EXCEPT ![m] = NULL]
      /\ UNCHANGED <<users, waiting, request, now, exhausted>>
  BY DEF CheckLinks
<1> HIDE DEF q
<1>4. MessageRead(q)
  BY <1>1, <1>2 DEF MessageRead
<1> QED
  BY <1>1, <1>2, <1>3, <1>4

\* What linking makes of the row: it has no code, and the chat unless it was
\* unlinked since it was read.
LEMMA LinkedRow ==
  ASSUME ReadInv, NEW m \in Messages, CommitLink(m)
  PROVE  LET q == message[m] IN
         /\ q \in Link /\ q # NULL /\ users' \in [Users -> Row]
         /\ users' = users
            \/ /\ LinkedTo(q.chat) \subseteq {q.user}
               /\ users'[q.user].code = NULL
               /\ users'[q.user].chat = (IF q.read.chat = q.chat THEN users[q.user].chat ELSE q.chat)
               /\ \A v \in Users : v # q.user => users'[v] = users[v]
<1> DEFINE q == message[m]
           new == [chat |-> q.chat, code |-> NULL, expires |-> NULL]
<1>1. q # NULL /\ q \in Link /\ MessageRead(q) /\ users \in [Users -> Row]
  BY DEF CommitLink, ReadInv, LinkTypeOK
<1>2. q.user \in Users /\ q.read \in Row /\ q.chat \in Chats
  BY <1>1 DEF Link
<1>3. new \in Row /\ new.chat = q.chat /\ new.code = NULL
  BY <1>2 DEF Row
<1>4. \/ LinkedTo(q.chat) \subseteq {q.user} /\ Update(q.user, q.read, new)
      \/ users' = users
  BY DEF CommitLink
<1> HIDE DEF new
<1>5. CASE LinkedTo(q.chat) \subseteq {q.user} /\ Update(q.user, q.read, new)
  <2>1. /\ users' \in [Users -> Row]
        /\ users'[q.user] = Written(users[q.user], q.read, new)
        /\ \A v \in Users : v # q.user => users'[v] = users[v]
    BY <1>1, <1>2, <1>3, <1>5, UpdateOfOne
  <2>2. /\ users'[q.user].code = NULL
        /\ users'[q.user].chat = (IF q.read.chat = q.chat THEN users[q.user].chat ELSE q.chat)
    BY <1>1, <1>3, <2>1 DEF Written, MessageRead
  <2> QED
    BY <1>1, <1>5, <2>1, <2>2
<1>6. CASE users' = users
  BY <1>1, <1>6
<1> QED
  BY <1>4, <1>5, <1>6

LEMMA ReadStep == ReadInv /\ [Next]_vars => ReadInv'
<1> SUFFICES ASSUME ReadInv, [Next]_vars PROVE ReadInv'
  OBVIOUS
<1>1. ASSUME NEW r \in Requests, NEW u \in Users, BeginCode(r, u) \/ BeginUnlink(r, u)
      PROVE  ReadInv'
  <2>1. PICK stage \in {"generate", "unlink"} : Begin(r, u, stage)
    BY <1>1 DEF BeginCode, BeginUnlink
  <2>2. PICK q \in Request : /\ request' = [request EXCEPT ![r] = q]
                             /\ UNCHANGED <<users, waiting, message, now, exhausted>>
    BY <2>1, Begun
  <2> QED
    BY <2>2, RequestTyped DEF ReadInv, LinkTypeOK
<1>2. ASSUME NEW r \in Requests, TryCode(r) PROVE ReadInv'
  <2>1. PICK q \in Request \cup {NULL} : request' = [request EXCEPT ![r] = q]
    BY <1>2, Tried
  <2>2. exhausted' \in BOOLEAN /\ UNCHANGED <<users, waiting, message, now>>
    BY <1>2, Tried
  <2> QED
    BY <2>1, <2>2, RequestTyped DEF ReadInv, LinkTypeOK
<1>3. ASSUME NEW r \in Requests, CommitCode(r) \/ CommitUnlink(r) PROVE ReadInv'
  <2>1. /\ users' \in [Users -> Row] /\ request' = [request EXCEPT ![r] = NULL]
        /\ UNCHANGED <<waiting, message, now, exhausted>>
    BY <1>3, CodeCommitted, Unlinking
  <2> QED
    BY <2>1, RequestTyped DEF ReadInv, LinkTypeOK
<1>4. ASSUME NEW m \in Messages, NEW c \in Chats, NEW code \in Codes, FindCode(m, c, code)
      PROVE  ReadInv'
  BY <1>4, Found, MessageTyped DEF ReadInv, LinkTypeOK
<1>5. ASSUME NEW m \in Messages, CheckLinks(m) PROVE ReadInv'
  BY <1>5, Checked, MessageTyped DEF ReadInv, LinkTypeOK
<1>6. ASSUME NEW m \in Messages, CommitLink(m) PROVE ReadInv'
  <2>1. /\ message' = [message EXCEPT ![m] = NULL] /\ waiting' \subseteq waiting
        /\ UNCHANGED <<request, now, exhausted>>
    BY <1>6 DEF CommitLink
  <2>2. users' \in [Users -> Row]
    BY <1>6, LinkedRow
  <2> QED
    BY <2>1, <2>2, MessageTyped DEF ReadInv, LinkTypeOK
<1>7. ASSUME NEW c \in Chats, Start(c) PROVE ReadInv'
  BY <1>7 DEF Start, ReadInv, LinkTypeOK, MessageRead
<1>8. CASE Restart
  BY <1>8 DEF Restart, ReadInv, LinkTypeOK, MessageRead
<1>9. CASE Tick
  <2>1. now' \in 0..MaxNow
    BY <1>9, LinkConstants DEF Tick, ReadInv, LinkTypeOK
  <2> QED
    BY <1>9, <2>1 DEF Tick, ReadInv, LinkTypeOK, MessageRead
<1>10. CASE UNCHANGED vars
  BY <1>10 DEF vars, ReadInv, LinkTypeOK, MessageRead
<1> QED
  BY <1>1, <1>2, <1>3, <1>4, <1>5, <1>6, <1>7, <1>8, <1>9, <1>10 DEF Next

(***************************************************************************)
(* Rows, requests and messages are of their types, and the bot handles no  *)
(* row without a code (handle_link_code), however they overlap.            *)
(***************************************************************************)
THEOREM ReadsTyped == Spec => []ReadInv
BY ReadInitially, ReadStep, PTL DEF Spec

-----------------------------------------------------------------------------
(***************************************************************************)
(* The codes, while RequestsApart.                                         *)
(***************************************************************************)
LEMMA CodeInitially == Init => CodeInv
<1> SUFFICES ASSUME Init PROVE CodeInv
  OBVIOUS
<1>1. \A u \in Users : users[u].code = NULL
  BY DEF Init, Unlinked
<1>2. \A r \in Requests : request[r] = NULL
  BY DEF Init
<1> QED
  BY <1>1, <1>2 DEF CodeInv, LiveCodesDistinct, Live, Dated

\* Nothing but the clock, a request or a row disturbs it.
LEMMA CodeUnchanged ==
  ASSUME CodeInv, UNCHANGED <<users, request, now, exhausted>>
  PROVE  CodeInv'
BY DEF CodeInv, LiveCodesDistinct, Live, Dated, RequestSound

\* One request is set, and the rows are left alone.
LEMMA RequestKeepsCodes ==
  ASSUME ReadInv, CodeInv, NEW r \in Requests, NEW q \in Request \cup {NULL},
         request' = [request EXCEPT ![r] = q],
         exhausted => exhausted',
         UNCHANGED <<users, now>>,
         q # NULL => /\ q.at <= now /\ Dated(q.read) /\ users[q.user].code \in {NULL, q.read.code}
                     /\ q.stage = "commit" /\ ~exhausted' =>
                          \A v \in Users : Live(users[v], q.at) => users[v].code # q.code
  PROVE  CodeInv'
<1>1. LiveCodesDistinct' /\ \A v \in Users : Dated(users'[v])
  BY DEF CodeInv, LiveCodesDistinct, Live
<1>2. ASSUME NEW s \in Requests, request'[s] # NULL PROVE RequestSound(request[s])'
  <2>1. CASE s = r
    <3>1. request'[s] = q /\ q # NULL
      BY <1>2, <2>1 DEF ReadInv, LinkTypeOK
    <3> QED
      BY <3>1 DEF RequestSound, Live
  <2>2. CASE s # r
    <3>1. request'[s] = request[s]
      BY <2>2 DEF ReadInv, LinkTypeOK
    <3> QED
      BY <1>2, <3>1 DEF RequestSound, CodeInv, Live
  <2> QED
    BY <2>1, <2>2
<1> QED
  BY <1>1, <1>2 DEF CodeInv

LEMMA BeginKeepsCodes ==
  ASSUME ReadInv, CodeInv, NEW r \in Requests, NEW u \in Users,
         BeginCode(r, u) \/ BeginUnlink(r, u)
  PROVE  CodeInv'
<1>1. PICK stage \in {"generate", "unlink"} : Begin(r, u, stage)
  BY DEF BeginCode, BeginUnlink
<1>2. PICK q \in Request :
        /\ q.user = u /\ q.read = users[u] /\ q.at = now /\ q.stage = stage
        /\ request' = [request EXCEPT ![r] = q] /\ UNCHANGED <<users, waiting, message, now, exhausted>>
  BY <1>1, Begun
<1>3. now <= now /\ Dated(users[u])
  BY LinkConstants DEF ReadInv, LinkTypeOK, CodeInv
<1>4. q.stage # "commit"
  BY <1>2
<1> QED
  BY <1>2, <1>3, <1>4, RequestKeepsCodes

LEMMA TryKeepsCodes ==
  ASSUME ReadInv, CodeInv, NEW r \in Requests, TryCode(r)
  PROVE  CodeInv'
<1> DEFINE p == request[r]
<1>1. /\ p # NULL /\ UNCHANGED <<users, waiting, message, now>>
      /\ exhausted => exhausted'
  BY Tried
<1>2. PICK q \in Request \cup {NULL} :
        /\ request' = [request EXCEPT ![r] = q]
        /\ q # NULL =>
             /\ q.at = p.at /\ q.read = p.read /\ q.user = p.user
             /\ q.stage = "commit" /\ ~exhausted' =>
                  \A v \in Users : Live(users[v], q.at) => users[v].code # q.code
  BY Tried
<1>3. p.at <= now /\ Dated(p.read) /\ users[p.user].code \in {NULL, p.read.code}
  BY <1>1 DEF CodeInv, RequestSound
<1> HIDE DEF p
<1> QED
  BY <1>1, <1>2, <1>3, RequestKeepsCodes

\* Codes are only taken away: by the bot, or by the site that unlinks.
LEMMA FewerCodes ==
  ASSUME ReadInv, CodeInv, users' \in [Users -> Row],
         \A v \in Users : users'[v].code = NULL \/ users'[v] = users[v],
         \A r \in Requests : request'[r] \in {NULL, request[r]},
         UNCHANGED <<now, exhausted>>
  PROVE  CodeInv'
<1>1. LiveCodesDistinct' /\ \A v \in Users : Dated(users'[v])
  BY DEF CodeInv, LiveCodesDistinct, Live, Dated
<1>2. ASSUME NEW r \in Requests, request'[r] # NULL PROVE RequestSound(request[r])'
  <2>1. request'[r] = request[r] /\ request[r] # NULL /\ request[r] \in Request
    BY <1>2 DEF ReadInv, LinkTypeOK
  <2>2. request[r].user \in Users /\ RequestSound(request[r])
    BY <2>1 DEF CodeInv, Request
  <2> QED
    BY <2>1, <2>2 DEF RequestSound, Live
<1> QED
  BY <1>1, <1>2 DEF CodeInv

LEMMA UnlinkKeepsCodes ==
  ASSUME ReadInv, CodeInv, NEW r \in Requests, CommitUnlink(r)
  PROVE  CodeInv'
<1> DEFINE q == request[r]
<1>1. /\ q # NULL /\ q.user \in Users /\ users' \in [Users -> Row]
      /\ request' = [request EXCEPT ![r] = NULL]
      /\ UNCHANGED <<waiting, message, now, exhausted>>
      /\ users'[q.user].code = (IF q.read.code = NULL THEN users[q.user].code ELSE NULL)
      /\ \A v \in Users : v # q.user => users'[v] = users[v]
  BY Unlinking
<1>2. users[q.user].code \in {NULL, q.read.code}
  BY <1>1 DEF CodeInv, RequestSound
<1>3. \A v \in Users : users'[v].code = NULL \/ users'[v] = users[v]
  BY <1>1, <1>2
<1>4. \A s \in Requests : request'[s] \in {NULL, request[s]}
  BY <1>1 DEF ReadInv, LinkTypeOK
<1> QED
  BY <1>1, <1>3, <1>4, FewerCodes

LEMMA LinkKeepsCodes ==
  ASSUME ReadInv, CodeInv, NEW m \in Messages, CommitLink(m)
  PROVE  CodeInv'
<1>1. /\ users' \in [Users -> Row]
      /\ \A v \in Users : users'[v].code = NULL \/ users'[v] = users[v]
  BY LinkedRow DEF Link
<1>2. UNCHANGED <<request, now, exhausted>>
  BY DEF CommitLink
<1> QED
  BY <1>1, <1>2, FewerCodes

\* The code that is committed is still free.  No other request has read the row,
\* nor has one tried a code.
LEMMA CodeKeepsCodes ==
  ASSUME RequestsApart, ReadInv, CodeInv, NEW r \in Requests, CommitCode(r)
  PROVE  CodeInv'
<1> DEFINE q == request[r]
<1>1. /\ q # NULL /\ q \in Request /\ q.stage = "commit" /\ q.user \in Users
      /\ q.at \in Nat /\ q.at + TTL \in Nat /\ NULL \notin Nat
      /\ request' = [request EXCEPT ![r] = NULL]
      /\ UNCHANGED <<waiting, message, now, exhausted>>
      /\ users' \in [Users -> Row]
      /\ users'[q.user].code = (IF q.code = q.read.code THEN users[q.user].code ELSE q.code)
      /\ users'[q.user].expires = q.at + TTL
      /\ \A v \in Users : v # q.user => users'[v] = users[v]
  BY CodeCommitted
<1>2. RequestSound(q)
  BY <1>1 DEF CodeInv
<1> HIDE DEF q
<1>3. users'[q.user].code \in {NULL, q.code}
  BY <1>1, <1>2 DEF RequestSound
<1>4. \A v \in Users : Dated(users'[v])
  BY <1>1 DEF Dated, CodeInv
<1>5. LiveCodesDistinct'
  <2> SUFFICES ASSUME ~exhausted, NEW u \in Users, NEW v \in Users, u # v,
                      Live(users'[u], now), Live(users'[v], now),
                      users'[u].code = users'[v].code
               PROVE  FALSE
    BY <1>1 DEF LiveCodesDistinct
  <2>1. ASSUME NEW w \in Users, w # q.user, Live(users'[w], now) PROVE users'[w].code # q.code
    <3>1. users'[w] = users[w] /\ users[w] \in Row /\ Dated(users[w])
      BY <1>1, <2>1 DEF ReadInv, LinkTypeOK, CodeInv
    <3>2. now \in Nat /\ q.at <= now
      BY <1>2, LinkConstants DEF RequestSound, ReadInv, LinkTypeOK
    <3>3. Live(users[w], q.at)
      BY <1>1, <2>1, <3>1, <3>2, LiveEarlier
    <3> QED
      BY <1>1, <1>2, <3>1, <3>3 DEF RequestSound
  <2>2. CASE u # q.user /\ v # q.user
    BY <1>1, <2>2 DEF CodeInv, LiveCodesDistinct
  <2>3. CASE u = q.user \/ v = q.user
    BY <1>3, <2>1, <2>3 DEF Live
  <2> QED
    BY <2>2, <2>3
<1>6. ASSUME NEW s \in Requests, request'[s] # NULL PROVE RequestSound(request[s])'
  <2>1. s # r /\ request'[s] = request[s] /\ request[s] # NULL /\ request[s] \in Request
    BY <1>1, <1>6 DEF ReadInv, LinkTypeOK
  <2>2. request[s].stage = "unlink" /\ request[s].user # q.user
    BY <1>1, <2>1 DEF RequestsApart, q
  <2>3. request[s].user \in Users /\ RequestSound(request[s])
    BY <2>1 DEF CodeInv, Request
  <2>4. users'[request[s].user] = users[request[s].user]
    BY <1>1, <2>2, <2>3
  <2> QED
    BY <1>1, <2>1, <2>2, <2>3, <2>4 DEF RequestSound
<1> QED
  BY <1>4, <1>5, <1>6 DEF CodeInv

\* Time takes codes away.
LEMMA TickKeepsCodes ==
  ASSUME ReadInv, CodeInv, Tick
  PROVE  CodeInv'
<1>1. /\ now \in Nat /\ now + 1 \in Nat /\ now' = now + 1
      /\ UNCHANGED <<users, waiting, request, message, exhausted>>
  BY LinkConstants DEF Tick, ReadInv, LinkTypeOK
<1>2. LiveCodesDistinct'
  <2>1. \A v \in Users : Live(users[v], now + 1) => Live(users[v], now)
    BY <1>1, LiveEarlier DEF ReadInv, LinkTypeOK, CodeInv
  <2> QED
    BY <1>1, <2>1 DEF CodeInv, LiveCodesDistinct
<1>3. ASSUME NEW r \in Requests, request'[r] # NULL PROVE RequestSound(request[r])'
  <2>1. request[r] \in Request /\ RequestSound(request[r])
    BY <1>1, <1>3 DEF ReadInv, LinkTypeOK, CodeInv
  <2>2. request[r].at \in 0..MaxNow /\ request[r].at <= now
    BY <2>1 DEF Request, RequestSound
  <2>3. request[r].at <= now'
    BY <1>1, <2>2, LinkConstants
  <2> QED
    BY <1>1, <2>1, <2>3 DEF RequestSound
<1> QED
  BY <1>1, <1>2, <1>3 DEF CodeInv

LEMMA CodeStep == RequestsApart /\ ReadInv /\ CodeInv /\ [Next]_vars => CodeInv'
<1> SUFFICES ASSUME RequestsApart, ReadInv, CodeInv, [Next]_vars PROVE CodeInv'
  OBVIOUS
<1>1. ASSUME NEW r \in Requests, NEW u \in Users, BeginCode(r, u) \/ BeginUnlink(r, u)
      PROVE  CodeInv'
  BY <1>1, BeginKeepsCodes
<1>2. ASSUME NEW r \in Requests, TryCode(r) \/ CommitCode(r) \/ CommitUnlink(r)
      PROVE  CodeInv'
  BY <1>2, TryKeepsCodes, CodeKeepsCodes, UnlinkKeepsCodes
<1>3. ASSUME NEW m \in Messages, CommitLink(m) PROVE CodeInv'
  BY <1>3, LinkKeepsCodes
<1>4. CASE Tick
  BY <1>4, TickKeepsCodes
<1>5. CASE UNCHANGED <<users, request, now, exhausted>>
  BY <1>5, CodeUnchanged
<1> QED
  BY <1>1, <1>2, <1>3, <1>4, <1>5 DEF Next, vars, Start, Restart, FindCode, CheckLinks

(***************************************************************************)
(* Two accounts do not hold the same code unexpired unless a request ran   *)
(* out of attempts (generate_telegram_link_code), while an account asks    *)
(* for a code alone.  The bot may handle any codes beside it.              *)
(***************************************************************************)
THEOREM CodesDistinct == Spec /\ []RequestsApart => []LiveCodesDistinct
<1>1. CodeInv => LiveCodesDistinct
  BY DEF CodeInv
<1> QED
  BY <1>1, ReadsTyped, CodeInitially, CodeStep, PTL DEF Spec

-----------------------------------------------------------------------------
(***************************************************************************)
(* The chats, while ChatsApart.                                            *)
(***************************************************************************)

\* No step but that of a message gives an account a chat.
LEMMA FewerChats ==
  ASSUME ReadInv, ChatInv,
         \A v \in Users : users'[v].chat \in {NULL, users[v].chat},
         \A m \in Messages : message'[m] \in {NULL, message[m]}
  PROVE  ChatInv'
<1> SUFFICES ASSUME NEW m \in Messages, message'[m] # NULL PROVE MessageSound(message[m])'
  BY DEF ChatInv
<1>1. message'[m] = message[m] /\ message[m].user \in Users /\ MessageSound(message[m])
  BY DEF ReadInv, LinkTypeOK, Link, ChatInv
<1> QED
  BY <1>1 DEF MessageSound

\* A message that leaves the rows alone.
LEMMA MessageKeepsChats ==
  ASSUME ReadInv, ChatInv, NEW m \in Messages, NEW q \in Link \cup {NULL},
         q # NULL => MessageSound(q),
         message' = [message EXCEPT ![m] = q], users' = users
  PROVE  ChatInv'
<1> SUFFICES ASSUME NEW n \in Messages, message'[n] # NULL PROVE MessageSound(message[n])'
  BY DEF ChatInv
<1>1. message'[n] = IF n = m THEN q ELSE message[n]
  BY DEF ReadInv, LinkTypeOK
<1> QED
  BY <1>1 DEF ChatInv, MessageSound

\* Whoever else handles the code of the account does so for the same chat.
LEMMA LinkKeepsChats ==
  ASSUME ChatsApart, ReadInv, ChatInv, NEW m \in Messages, CommitLink(m)
  PROVE  ChatInv'
<1> DEFINE q == message[m]
<1>1. /\ q \in Link /\ q # NULL
      /\ users' = users
         \/ /\ users'[q.user].chat \in {users[q.user].chat, q.chat}
            /\ \A v \in Users : v # q.user => users'[v] = users[v]
  BY LinkedRow
<1>2. message' = [message EXCEPT ![m] = NULL]
  BY DEF CommitLink
<1> SUFFICES ASSUME NEW n \in Messages, message'[n] # NULL PROVE MessageSound(message[n])'
  BY DEF ChatInv
<1>3. message'[n] = message[n] /\ message[n] # NULL /\ message[n].user \in Users
  BY <1>2 DEF ReadInv, LinkTypeOK, Link
<1>4. MessageSound(message[n])
  BY <1>3 DEF ChatInv
<1>5. message[n].user = q.user => message[n].chat = q.chat
  BY <1>1, <1>3 DEF ChatsApart
<1>6. users'[message[n].user].chat \in {users[message[n].user].chat, message[n].chat}
  BY <1>1, <1>3, <1>5
<1> QED
  BY <1>3, <1>4, <1>6 DEF MessageSound

LEMMA ChatStep == ChatsApart /\ ReadInv /\ ChatInv /\ [Next]_vars => ChatInv'
<1> SUFFICES ASSUME ChatsApart, ReadInv, ChatInv, [Next]_vars PROVE ChatInv'
  OBVIOUS
<1>1. ASSUME NEW r \in Requests, CommitCode(r) \/ CommitUnlink(r) PROVE ChatInv'
  <2> DEFINE u == request[r].user
  <2>1. /\ u \in Users /\ message' = message
        /\ users'[u].chat \in {NULL, users[u].chat}
        /\ \A v \in Users : v # u => users'[v] = users[v]
    BY <1>1, CodeCommitted, Unlinking
  <2> HIDE DEF u
  <2> QED
    BY <2>1, FewerChats
<1>2. ASSUME NEW m \in Messages, NEW c \in Chats, NEW code \in Codes, FindCode(m, c, code)
      PROVE  ChatInv'
  <2>1. PICK q \in Link :
          /\ q.read = users[q.user] /\ q.stage = "found"
          /\ message' = [message EXCEPT ![m] = q] /\ users' = users
    BY <1>2, Found
  <2>2. MessageSound(q)
    BY <2>1 DEF MessageSound
  <2> QED
    BY <2>1, <2>2, MessageKeepsChats
<1>3. ASSUME NEW m \in Messages, CheckLinks(m) PROVE ChatInv'
  <2> DEFINE p == message[m]
  <2>1. p # NULL /\ users' = users
    BY <1>3, Checked
  <2>2. PICK q \in Link \cup {NULL} :
          /\ message' = [message EXCEPT ![m] = q]
          /\ q # NULL => /\ q.chat = p.chat /\ q.read = p.read /\ q.user = p.user
                         /\ q.read.chat \in {NULL, q.chat}
    BY <1>3, Checked
  <2>3. MessageSound(p)
    BY <2>1 DEF ChatInv
  <2>4. q # NULL => MessageSound(q)
    BY <2>2, <2>3 DEF MessageSound
  <2> HIDE DEF p
  <2> QED
    BY <2>1, <2>2, <2>4, MessageKeepsChats
<1>4. ASSUME NEW m \in Messages, CommitLink(m) PROVE ChatInv'
  BY <1>4, LinkKeepsChats
<1>5. CASE Restart
  BY <1>5, FewerChats DEF Restart
<1>6. CASE UNCHANGED <<users, message>>
  BY <1>6, FewerChats
<1>7. \/ UNCHANGED <<users, message>>
      \/ \E r \in Requests : CommitCode(r) \/ CommitUnlink(r)
      \/ Restart
      \/ \E m \in Messages, c \in Chats, code \in Codes : FindCode(m, c, code)
      \/ \E m \in Messages : CheckLinks(m) \/ CommitLink(m)
  BY DEF Next, vars, BeginCode, BeginUnlink, Begin, TryCode, Start, Tick
<1> QED
  BY <1>1, <1>2, <1>3, <1>4, <1>5, <1>6, <1>7

LEMMA ChatsKept == Spec /\ []ChatsApart => []ChatInv
<1>1. Init => ChatInv
  BY DEF Init, ChatInv
<1> QED
  BY <1>1, ReadsTyped, ChatStep, PTL DEF Spec

(***************************************************************************)
(* The invariant of linking: codes that are free when they are committed,  *)
(* and rows that no other chat is linked to under the bot that reads them. *)
(***************************************************************************)
THEOREM LinkInvariant == Spec /\ []RequestsApart /\ []ChatsApart => []LinkInv
<1>1. ReadInv /\ ChatInv /\ CodeInv => LinkInv
  BY DEF LinkInv
<1> QED
  BY <1>1, ReadsTyped, ChatsKept, CodeInitially, CodeStep, PTL DEF Spec

-----------------------------------------------------------------------------
(***************************************************************************)
(* The refinement.  The chats of the rows are the links of the abstract    *)
(* specification.                                                          *)
(***************************************************************************)
linkOf == [u \in Users |-> users[u].chat]

\* A link of the abstract specification is a step of it.
LEMMA LinkMaps ==
  ASSUME NEW u \in Users, NEW c \in Chats,
         linkOf[u] = NULL, \A v \in Users : linkOf[v] # c,
         linkOf' = [linkOf EXCEPT ![u] = c]
  PROVE  Links!Next
BY DEF linkOf, Links!Next, Links!LinkTo

\* A row that changes no chat, or loses its own, is a step of the abstract
\* specification or none.
LEMMA RowMaps ==
  ASSUME NEW u \in Users,
         \A v \in Users : v # u => users'[v] = users[v],
         users'[u].chat \in {NULL, users[u].chat}
  PROVE  Links!Next \/ UNCHANGED linkOf
<1>1. CASE users'[u].chat = users[u].chat
  BY <1>1 DEF linkOf
<1>2. CASE users'[u].chat = NULL
  <2>1. linkOf' = [linkOf EXCEPT ![u] = NULL]
    BY <1>2 DEF linkOf
  <2> QED
    BY <2>1 DEF linkOf, Links!Next, Links!Unlink
<1> QED
  BY <1>1, <1>2

LEMMA RequestMaps ==
  ASSUME ReadInv, NEW r \in Requests, CommitCode(r) \/ CommitUnlink(r)
  PROVE  Links!Next \/ UNCHANGED linkOf
<1> DEFINE u == request[r].user
<1>1. /\ u \in Users
      /\ users'[u].chat \in {NULL, users[u].chat}
      /\ \A v \in Users : v # u => users'[v] = users[v]
  BY CodeCommitted, Unlinking
<1> HIDE DEF u
<1> QED
  BY <1>1, RowMaps

\* The account of the code that is committed has no chat yet, or that one; and
\* the chat has no other account.
LEMMA CommitLinkMaps ==
  ASSUME ReadInv, ChatInv, NEW m \in Messages, CommitLink(m)
  PROVE  Links!Next \/ UNCHANGED linkOf
<1> DEFINE q == message[m]
<1>1. /\ q \in Link /\ q # NULL
      /\ users' = users
         \/ /\ LinkedTo(q.chat) \subseteq {q.user}
            /\ users'[q.user].chat = (IF q.read.chat = q.chat THEN users[q.user].chat ELSE q.chat)
            /\ \A v \in Users : v # q.user => users'[v] = users[v]
  BY LinkedRow
<1>2. MessageSound(q) /\ q.stage = "clear"
  BY <1>1 DEF ChatInv, CommitLink
<1>3. /\ q.user \in Users /\ q.chat \in Chats /\ q.chat # NULL
      /\ users[q.user].chat \in {NULL, q.chat}
  BY <1>1, <1>2, LinkConstants DEF Link, MessageSound
<1>4. CASE users' = users
  BY <1>4 DEF linkOf
<1>5. CASE users' # users /\ users'[q.user].chat \in {NULL, users[q.user].chat}
  BY <1>1, <1>3, <1>5, RowMaps
<1>6. CASE users' # users /\ users'[q.user].chat \notin {NULL, users[q.user].chat}
  <2>1. users[q.user].chat = NULL /\ users'[q.user].chat = q.chat
    BY <1>1, <1>3, <1>6
  <2>2. \A v \in Users : users[v].chat # q.chat
    BY <1>1, <1>3, <1>6, <2>1 DEF LinkedTo
  <2>3. linkOf' = [linkOf EXCEPT ![q.user] = q.chat]
    <3>1. \A v \in Users : users'[v].chat = IF v = q.user THEN q.chat ELSE users[v].chat
      BY <1>1, <1>6, <2>1
    <3> HIDE DEF q
    <3> QED
      BY <3>1 DEF linkOf
  <2>4. linkOf[q.user] = NULL /\ \A v \in Users : linkOf[v] # q.chat
    BY <1>3, <2>1, <2>2 DEF linkOf
  <2> HIDE DEF q
  <2> QED
    BY <1>3, <2>3, <2>4, LinkMaps
<1> QED
  BY <1>4, <1>5, <1>6

LEMMA NextMaps ==
  ASSUME ReadInv, ChatInv, [Next]_vars
  PROVE  Links!Next \/ UNCHANGED linkOf
<1>1. ASSUME NEW r \in Requests, CommitCode(r) \/ CommitUnlink(r)
      PROVE  Links!Next \/ UNCHANGED linkOf
  BY <1>1, RequestMaps
<1>2. ASSUME NEW m \in Messages, CommitLink(m)
      PROVE  Links!Next \/ UNCHANGED linkOf
  BY <1>2, CommitLinkMaps
<1>3. CASE UNCHANGED users
  BY <1>3 DEF linkOf
<1>4. \/ UNCHANGED users
      \/ \E r \in Requests : CommitCode(r) \/ CommitUnlink(r)
      \/ \E m \in Messages : CommitLink(m)
  BY DEF Next, vars, BeginCode, BeginUnlink, Begin, TryCode, Start, Restart, FindCode, CheckLinks, Tick
<1> QED
  BY <1>1, <1>2, <1>3, <1>4

(***************************************************************************)
(* Linking by codes implements AccountLinks, whatever the site does        *)
(* meanwhile, while no account is linked from two chats together: it keeps *)
(* its chat until it is unlinked, and no chat has two accounts             *)
(* (handle_link_code, unlink_telegram).                                    *)
(***************************************************************************)
THEOREM LinksImplemented == Spec /\ []ChatsApart => ImplementsLinks
<1>1. Init => Links!Init
  BY DEF Init, Links!Init, Unlinked
<1>2. ReadInv /\ ChatInv /\ [Next]_vars => [Links!Next]_linkOf
  BY NextMaps
<1> QED
  BY <1>1, <1>2, ReadsTyped, ChatsKept, PTL DEF Spec, ImplementsLinks, Links!Spec, linkOf
=============================================================================
