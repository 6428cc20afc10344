---------------------------- MODULE TelegramLink ----------------------------
(***************************************************************************)
(* Linking an account to a Telegram chat: the site hands out a short code  *)
(* (auth_service.generate_telegram_link_code), the bot looks it up in the  *)
(* users table (telegram_bot/handlers/start.py), the site unlinks again    *)
(* (auth.unlink_telegram).  Backend and bot are two processes on one       *)
(* database; every SELECT and every COMMIT is a step of its own, and an    *)
(* UPDATE writes the columns that differ from what was read.               *)
(***************************************************************************)
EXTENDS Naturals, FiniteSets

CONSTANTS
  Users, Chats, Codes,
  Requests,             \* bound: requests to the site open at once
  Messages,             \* bound: messages the bot handles at once
  NULL,
  TTL,                  \* TELEGRAM_LINK_CODE_TTL_MINUTES, in instants
  Attempts,             \* candidates tried before any code is taken
  MaxNow                \* bound: the clock stops at this instant

VARIABLES
  users,                \* the three link columns of each row
  waiting,              \* chats in LinkStates.waiting_for_code
  request,              \* the open requests to the site
  message,              \* the codes the bot is handling
  now,
  exhausted             \* history: a request took a code without a check

vars == <<users, waiting, request, message, now, exhausted>>

ASSUME LinkConstants ==
  /\ TTL \in Nat \ {0} /\ Attempts \in Nat \ {0} /\ MaxNow \in Nat
  /\ NULL \notin Chats \cup Codes \cup Nat

Row == [chat : Chats \cup {NULL}, code : Codes \cup {NULL}, expires : (0..(MaxNow + TTL)) \cup {NULL}]

Unlinked == [chat |-> NULL, code |-> NULL, expires |-> NULL]

\* read: the row as the session loaded it.
Request == [user : Users, read : Row, at : 0..MaxNow, tries : 0..Attempts,
            stage : {"generate", "commit", "unlink"}, code : Codes \cup {NULL}]
Link    == [chat : Chats, user : Users, read : Row, stage : {"found", "clear"}]

LinkTypeOK ==
  /\ users \in [Users -> Row]
  /\ waiting \subseteq Chats
  /\ request \in [Requests -> Request \cup {NULL}]
  /\ message \in [Messages -> Link \cup {NULL}]
  /\ now \in 0..MaxNow /\ exhausted \in BOOLEAN

Init ==
  /\ users = [u \in Users |-> Unlinked]
  /\ waiting = {} /\ now = 0 /\ exhausted = FALSE
  /\ request = [r \in Requests |-> NULL]
  /\ message = [m \in Messages |-> NULL]

Live(row, at) == row.code # NULL /\ row.expires > at
Holders(code) == {u \in Users : users[u].code = code}
LinkedTo(chat) == {u \in Users : users[u].chat = chat}

-----------------------------------------------------------------------------
(***************************************************************************)
(* The site.                                                               *)
(***************************************************************************)
Begin(r, u, stage) ==
  /\ request[r] = NULL
  /\ request' = [request EXCEPT ![r] = [user |-> u, read |-> users[u], at |-> now, tries |-> 0,
                                        stage |-> stage, code |-> NULL]]
  /\ UNCHANGED <<users, waiting, message, now, exhausted>>

BeginCode(r, u)   == Begin(r, u, "generate")
BeginUnlink(r, u) == Begin(r, u, "unlink")

\* Mutant: the fallback's code is taken at the first collision.
TryAnyCode(r) ==
  /\ request[r] # NULL /\ request[r].stage = "generate"
  /\ \E code \in Codes :
       request' = [request EXCEPT ![r].stage = "commit", ![r].code = code]
  /\ UNCHANGED <<users, waiting, message, now, exhausted>>

\* One turn of the loop: a code that no row holds unexpired is taken, one that
\* two rows hold raises (scalar_one_or_none).  The code after the loop is taken
\* unseen.
TryCode(r) ==
  /\ request[r] # NULL /\ request[r].stage = "generate"
  /\ \E code \in Codes :
       LET live == {u \in Holders(code) : Live(users[u], request[r].at)} IN
       IF request[r].tries = Attempts \/ live = {}
         THEN request' = [request EXCEPT ![r].stage = "commit", ![r].code = code]
         ELSE IF Cardinality(live) = 1
           THEN request' = [request EXCEPT ![r].tries = @ + 1]
           ELSE request' = [request EXCEPT ![r] = NULL]
  /\ exhausted' = (exhausted \/ request[r].tries = Attempts)
  /\ UNCHANGED <<users, waiting, message, now>>

\* The columns of an UPDATE: those whose value is not the one that was read.  (Two
\* codes never expire at the same microsecond: a new expiry is always written.)
Written(row, read, new) ==
  [chat    |-> IF new.chat = read.chat THEN row.chat ELSE new.chat,
   code    |-> IF new.code = read.code THEN row.code ELSE new.code,
   expires |-> IF new.expires = NULL /\ read.expires = NULL THEN row.expires ELSE new.expires]

Update(u, read, new) == users' = [users EXCEPT ![u] = Written(@, read, new)]

CommitCode(r) ==
  LET q == request[r] IN
  /\ q # NULL /\ q.stage = "commit"
  /\ Update(q.user, q.read, [q.read EXCEPT !.code = q.code, !.expires = q.at + TTL])
  /\ request' = [request EXCEPT ![r] = NULL]
  /\ UNCHANGED <<waiting, message, now, exhausted>>

CommitUnlink(r) ==
  LET q == request[r] IN
  /\ q # NULL /\ q.stage = "unlink"
  /\ Update(q.user, q.read, Unlinked)
  /\ request' = [request EXCEPT ![r] = NULL]
  /\ UNCHANGED <<waiting, message, now, exhausted>>

-----------------------------------------------------------------------------
(***************************************************************************)
(* The bot.                                                                *)
(***************************************************************************)
Start(c) ==
  /\ waiting' = IF LinkedTo(c) = {} THEN waiting \cup {c} ELSE waiting \ {c}
  /\ waiting' # waiting
  /\ UNCHANGED <<users, request, message, now, exhausted>>

\* A restart of the bot loses the states of its dialogues and what it handles.
Restart ==
  /\ waiting # {}
  /\ waiting' = {}
  /\ message' = [m \in Messages |-> NULL]
  /\ UNCHANGED <<users, request, now, exhausted>>

\* handle_link_code: the row by its code.  Two rows raise, no row or an expired
\* code is answered; neither changes anything.
FindCode(m, c, code) ==
  /\ message[m] = NULL /\ c \in waiting
  /\ \E u \in Users :
       /\ Holders(code) = {u}
       /\ users[u].expires # NULL /\ users[u].expires >= now
       /\ message' = [message EXCEPT ![m] = [chat |-> c, user |-> u, read |-> users[u],
                                             stage |-> "found"]]
  /\ UNCHANGED <<users, waiting, request, now, exhausted>>

\* Mutant: the account's own link is not looked at.
CheckChatOnly(m) ==
  LET q == message[m] IN
  /\ q # NULL /\ q.stage = "found"
  /\ message' = [message EXCEPT ![m] = IF LinkedTo(q.chat) \subseteq {q.user}
                                       THEN [q EXCEPT !.stage = "clear"] ELSE NULL]
  /\ UNCHANGED <<users, waiting, request, now, exhausted>>

\* The chat belongs to no other account and the account to no other chat.
CheckLinks(m) ==
  LET q == message[m] IN
  /\ q # NULL /\ q.stage = "found"
  /\ message' = [message EXCEPT ![m] = IF LinkedTo(q.chat) \subseteq {q.user}
                                          /\ q.read.chat \in {NULL, q.chat}
                                       THEN [q EXCEPT !.stage = "clear"] ELSE NULL]
  /\ UNCHANGED <<users, waiting, request, now, exhausted>>

\* telegram_chat_id is unique: a chat linked meanwhile raises.
CommitLink(m) ==
  LET q == message[m] IN
  /\ q # NULL /\ q.stage = "clear"
  /\ message' = [message EXCEPT ![m] = NULL]
  /\ IF LinkedTo(q.chat) \subseteq {q.user}
       THEN /\ Update(q.user, q.read, [chat |-> q.chat, code |-> NULL, expires |-> NULL])
            /\ waiting' = waiting \ {q.chat}
       ELSE UNCHANGED <<users, waiting>>
  /\ UNCHANGED <<request, now, exhausted>>

Tick ==
  /\ now < MaxNow /\ now' = now + 1
  /\ UNCHANGED <<users, waiting, request, message, exhausted>>

Next ==
  \/ \E r \in Requests, u \in Users : BeginCode(r, u) \/ BeginUnlink(r, u)
  \/ \E r \in Requests : TryCode(r) \/ CommitCode(r) \/ CommitUnlink(r)
  \/ \E c \in Chats : Start(c)
  \/ Restart
  \/ \E m \in Messages, c \in Chats, code \in Codes : FindCode(m, c, code)
  \/ \E m \in Messages : CheckLinks(m) \/ CommitLink(m)
  \/ Tick

Spec == Init /\ [][Next]_vars

-----------------------------------------------------------------------------
(***************************************************************************)
(* What two of the properties suppose of a behaviour; nothing in the code  *)
(* sees to either.  While an account asks for a code no other request asks *)
(* for one, and the account is not unlinked; and the code of an account is *)
(* not typed in two chats together.                                        *)
(***************************************************************************)
RequestsApart ==
  \A r, s \in Requests :
    /\ r # s /\ request[r] # NULL /\ request[s] # NULL
    /\ request[r].stage # "unlink"
    => request[s].stage = "unlink" /\ request[s].user # request[r].user

ChatsApart ==
  \A m, n \in Messages :
    message[m] # NULL /\ message[n] # NULL /\ message[m].user = message[n].user
    => message[m].chat = message[n].chat

(***************************************************************************)
(* Two accounts do not hold the same code unexpired, unless a request ran  *)
(* out of attempts (generate_telegram_link_code, "guard against a          *)
(* currently-active duplicate").  True while RequestsApart: nothing but    *)
(* the odds keeps two overlapping requests from taking the same code.      *)
(***************************************************************************)
LiveCodesDistinct ==
  ~exhausted => \A u, v \in Users :
    u # v /\ Live(users[u], now) /\ Live(users[v], now) => users[u].code # users[v].code

(***************************************************************************)
(* The three columns, the codes and the two processes implement            *)
(* AccountLinks: a linked account stays with its chat until it is          *)
(* unlinked, and a chat never has two accounts (handle_link_code answers   *)
(* that the account, or the chat, is linked already).  True while          *)
(* ChatsApart: two chats that type one code together are both told that    *)
(* they are linked, and the second one takes the account over.             *)
(***************************************************************************)
Links == INSTANCE AccountLinks WITH link <- [u \in Users |-> users[u].chat]

ImplementsLinks == Links!Spec

(***************************************************************************)
(* The bot's look-up of an unexpired code finds its account                *)
(* (generate_telegram_link_code: it "must resolve to exactly one user").   *)
(* An expired code stays in its row, and the look-up does not skip it.     *)
(***************************************************************************)
LinkCodeResolves ==
  ~exhausted => \A u \in Users : Live(users[u], now) => Holders(users[u].code) = {u}

-----------------------------------------------------------------------------
(***************************************************************************)
(* The inductive invariants behind the two.  Under an account that is      *)
(* read the code of its row is only ever taken away, so a code that was    *)
(* free when it was tried is free when it is committed; and an account     *)
(* whose code is handled has the chat that was read with it, the chat that *)
(* typed the code, or none.                                                *)
(***************************************************************************)
Dated(row) == row.code # NULL => row.expires # NULL

RequestSound(q) ==
  /\ q.at <= now /\ Dated(q.read)
  /\ users[q.user].code \in {NULL, q.read.code}
  /\ q.stage = "commit" /\ ~exhausted =>
       \A v \in Users : Live(users[v], q.at) => users[v].code # q.code

\* The bot found the row by its code.
MessageRead(q) == q.read.code # NULL /\ q.read.expires # NULL

MessageSound(q) ==
  /\ users[q.user].chat \in {NULL, q.read.chat, q.chat}
  /\ q.stage = "clear" => q.read.chat \in {NULL, q.chat}

ReadInv ==
  /\ LinkTypeOK
  /\ \A m \in Messages : message[m] # NULL => MessageRead(message[m])

\* The bot's half, which the refinement rests on.
ChatInv == \A m \in Messages : message[m] # NULL => MessageSound(message[m])

\* The site's half.
CodeInv ==
  /\ LiveCodesDistinct
  /\ \A u \in Users : Dated(users[u])
  /\ \A r \in Requests : request[r] # NULL => RequestSound(request[r])

(***************************************************************************)
(* The types, codes that are free when they are committed, and rows that   *)
(* no other chat is linked to under the bot that reads them                *)
(* (generate_telegram_link_code, handle_link_code).                        *)
(***************************************************************************)
LinkInv == ReadInv /\ ChatInv /\ CodeInv

=============================================================================
