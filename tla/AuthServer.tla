----------------------------- MODULE AuthServer -----------------------------
(***************************************************************************)
(* The AuthServer of AuthServer/server.cpp and db_handler.cpp: one thread  *)
(* runs a select loop over the connections of chat servers, takes a        *)
(* request from one of them, works through its SQL statements and answers  *)
(* it before it looks at the next.  Every statement is committed by        *)
(* itself, so a process that dies in between leaves what it has done.      *)
(*                                                                         *)
(* Chat servers, MySQL and the operator who restarts the process are the   *)
(* environment.  A connection belongs to one run of a chat server.  The    *)
(* salted hash of a password is abstracted to the password.                *)
(***************************************************************************)
EXTENDS Integers, Sequences, FiniteSets

CONSTANTS
    Conns,          \* connections of chat servers, one for each run of one
    Emails,
    Key,            \* the emails the collation of web_auth considers equal have the same key
    Passwords,
    ShortPasswords, \* those of less than 8 characters
    InitialRows,    \* the rows web_auth holds when the system is first started
    InitialMaxId,   \* the highest id in table user then
    IdModulus,      \* 2^16: ReadUserMaxIdInUser() keeps the id in a uint16_t
    NoAccount,
    NoJob,
    MaxBurst,       \* the most packets one recv() may return
    MaxRequests,    \* bound: requests sent on each connection
    MaxCrashes      \* bound: deaths of the process other than the end of its loop

Keys == {Key[e] : e \in Emails}

Row == [email : Emails, password : Passwords, userId : Nat]

ASSUME DataAssumption ==
    /\ Key \in [Emails -> Keys]
    /\ ShortPasswords \subseteq Passwords
    /\ NoAccount \notin [password : Passwords, userId : Nat]
    /\ IdModulus \in Nat \ {0}

\* The rows have different keys, and user ids that user has a row for.
ASSUME TableAssumption ==
    /\ InitialRows \in Seq(Row) /\ InitialMaxId \in Nat
    /\ \A i, j \in 1..Len(InitialRows) :
          /\ Key[InitialRows[i].email] = Key[InitialRows[j].email] => i = j
          /\ InitialRows[i].userId = InitialRows[j].userId => i = j
    /\ \A i \in 1..Len(InitialRows) : InitialRows[i].userId \in 1..InitialMaxId

ASSUME BoundAssumption ==
    /\ MaxBurst \in Nat \ {0}
    /\ MaxRequests \in Nat /\ MaxCrashes \in Nat

Request == [type : {"CREATE", "AUTHENTICATE"}, email : Emails, password : Passwords,
            requestId : 1..MaxRequests]

\* What HandleMessage() has read and where it stands.
Step == {"insert_user", "insert_web_auth", "answer"}
Outcome == {"OPEN", "SUCCESS", "ACCOUNT_ALREADY_EXISTS", "INVALID_PASSWORD",
            "INVALID_CREDENTIALS", "INTERNAL_SERVER_ERROR"}
Job == [conn : Conns, request : Request, step : Step, verdict : Outcome, userId : Nat]

\* An answer, of one of the classes of auth.proto.
Reply == [type : {"CREATE", "AUTHENTICATE"}, requestId : 1..MaxRequests, verdict : Outcome,
          userId : Nat]

\* A job as the AccountStore knows it.
Pending == [conn : Conns, request : Request, verdict : Outcome, userId : Nat]

ASSUME JobAssumption == NoJob \notin Job /\ NoJob \notin Pending

VARIABLES
    up,         \* the process is running
    winsock,    \* WSAStartup() calls not yet matched by a WSACleanup(): that of Initialize()
                \* and, if it makes one, that of the MySQL connector
    maxUserId,  \* MySQL: the highest id in table user, whose rows have the ids 1..maxUserId
    webAuth,    \* MySQL: the rows of table web_auth in the order they were inserted
    job,        \* the request being handled
    link,       \* each connection: "new", "open", "half" (the chat server is gone) or "gone"
    requests,   \* the packets on their way to the AuthServer
    answers,    \* the answers sent on each connection
    sent,       \* requests sent on each connection
    crashes     \* history: number of crashes

vars == <<up, winsock, maxUserId, webAuth, job, link, requests, answers, sent, crashes>>

dbVars == <<maxUserId, webAuth>>
procVars == <<up, winsock, crashes>>
netVars == <<link, requests, sent>>

Init ==
    /\ up = TRUE
    /\ winsock \in 1..2
    /\ maxUserId = InitialMaxId
    /\ webAuth = InitialRows
    /\ job = NoJob
    /\ link = [c \in Conns |-> "new"]
    /\ requests = [c \in Conns |-> <<>>]
    /\ answers = [c \in Conns |-> <<>>]
    /\ sent = [c \in Conns |-> 0]
    /\ crashes = 0
-----------------------------------------------------------------------------
(***************************************************************************)
(* DBHandler.                                                              *)
(***************************************************************************)
\* Mutated form of RowsOf: emails are compared letter by letter.
RowsOfExactly(e) == {i \in 1..Len(webAuth) : webAuth[i].email = e}

\* ReadUserInWebAuth(): of the rows with this email the last one counts.
RowsOf(e) == {i \in 1..Len(webAuth) : Key[webAuth[i].email] = Key[e]}
RowFor(e) == webAuth[CHOOSE i \in RowsOf(e) : \A j \in RowsOf(e) : j <= i]

\* CreateAccount() up to its first INSERT.
CreateVerdict(r) ==
    IF r.password \in ShortPasswords THEN "INVALID_PASSWORD"
    ELSE IF RowsOf(r.email) # {} THEN "ACCOUNT_ALREADY_EXISTS" ELSE "OPEN"

\* Mutated form of AuthenticateVerdict: the password is not compared.
AuthenticateByEmail(r) ==
    IF r.password \notin ShortPasswords /\ RowsOf(r.email) # {}
    THEN "SUCCESS" ELSE "INVALID_CREDENTIALS"

\* AuthenticateAccount().
AuthenticateVerdict(r) ==
    IF /\ r.password \notin ShortPasswords
       /\ RowsOf(r.email) # {}
       /\ RowFor(r.email).password = r.password
    THEN "SUCCESS" ELSE "INVALID_CREDENTIALS"

Verdict(r) == IF r.type = "CREATE" THEN CreateVerdict(r) ELSE AuthenticateVerdict(r)

\* The loop takes the next request.  Of the packets of one recv() only the first is read.
Receive(c) ==
    /\ up /\ winsock > 0 /\ job = NoJob
    /\ link[c] \in {"open", "half"} /\ requests[c] # <<>>
    /\ \E n \in 1..MaxBurst :
          /\ n <= Len(requests[c])
          /\ requests' = [requests EXCEPT ![c] = SubSeq(@, n + 1, Len(@))]
    /\ LET r == Head(requests[c])
           v == Verdict(r)
       IN  job' = [conn |-> c, request |-> r, verdict |-> v,
                   step |-> IF v = "OPEN" THEN "insert_user" ELSE "answer",
                   userId |-> IF v = "SUCCESS" THEN RowFor(r.email).userId ELSE 0]
    /\ UNCHANGED <<procVars, dbVars, link, answers, sent>>

At(step) == up /\ job # NoJob /\ job.step = step

\* Mutated forms of InsertUser: the statement is rolled back, or executed twice.
InsertUserInVain ==
    /\ At("insert_user")
    /\ job' = [job EXCEPT !.step = "insert_web_auth"]
    /\ UNCHANGED <<procVars, dbVars, netVars, answers>>
InsertUserTwice ==
    /\ At("insert_user")
    /\ maxUserId' = maxUserId + 2
    /\ job' = [job EXCEPT !.step = "insert_web_auth"]
    /\ UNCHANGED <<procVars, webAuth, netVars, answers>>

\* CreateUserInUser(): MySQL numbers the row.
InsertUser ==
    /\ At("insert_user")
    /\ maxUserId' = maxUserId + 1
    /\ job' = [job EXCEPT !.step = "insert_web_auth"]
    /\ UNCHANGED <<procVars, webAuth, netVars, answers>>

\* Mutated forms of ReadUserMaxId: int16_t in place of uint16_t, and the id to come.
ReadUserMaxIdSigned ==
    LET id == maxUserId % IdModulus IN IF 2 * id < IdModulus THEN id ELSE id - IdModulus
ReadNextUserId == (maxUserId + 1) % IdModulus

\* ReadUserMaxIdInUser(): what fits into 16 bits of MAX(id).
ReadUserMaxId == maxUserId % IdModulus

\* CreateUserInWebAuth(), unless the id just read is 0.
InsertWebAuth ==
    /\ At("insert_web_auth")
    /\ IF ReadUserMaxId = 0
       THEN /\ job' = [job EXCEPT !.step = "answer", !.verdict = "INTERNAL_SERVER_ERROR"]
            /\ UNCHANGED webAuth
       ELSE /\ webAuth' = Append(webAuth, [email |-> job.request.email,
                                           password |-> job.request.password,
                                           userId |-> ReadUserMaxId])
            /\ job' = [job EXCEPT !.step = "answer", !.verdict = "SUCCESS",
                                  !.userId = ReadUserMaxId]
    /\ UNCHANGED <<procVars, maxUserId, netVars, answers>>

\* Mutated forms of AnswerTo: the latest user id, and no request id.
AnswerWithLatestId(j) == [type |-> j.request.type, requestId |-> j.request.requestId,
                          verdict |-> j.verdict, userId |-> ReadUserMaxId]
AnswerWithoutId(j) == [type |-> j.request.type, requestId |-> 0,
                       verdict |-> j.verdict, userId |-> j.userId]

AnswerTo(j) == [type |-> j.request.type, requestId |-> j.request.requestId,
                verdict |-> j.verdict, userId |-> j.userId]

\* Ack...() and SendResponse().  A send to a chat server that is gone may fail, and then
\* WSACleanup() is called; the last such call ends Winsock for the whole process.
Answer ==
    /\ At("answer")
    /\ job' = NoJob
    /\ \/ /\ answers' = [answers EXCEPT ![job.conn] = Append(@, AnswerTo(job))]
          /\ UNCHANGED winsock
       \/ /\ link[job.conn] = "half"
          /\ winsock' = winsock - 1
          /\ UNCHANGED answers
    /\ UNCHANGED <<up, crashes, dbVars, netVars>>
-----------------------------------------------------------------------------
(***************************************************************************)
(* Connections and the process.                                            *)
(***************************************************************************)
\* recv() returns 0 or an error: the socket is closed.
Disconnect(c) ==
    /\ up /\ winsock > 0 /\ job = NoJob
    /\ link[c] = "half"
    /\ link' = [link EXCEPT ![c] = "gone"]
    /\ requests' = [requests EXCEPT ![c] = <<>>]
    /\ UNCHANGED <<procVars, dbVars, job, answers, sent>>

\* The connections a process that ends takes along.
DropConnections ==
    /\ link' = [c \in Conns |-> IF link[c] = "new" THEN "new" ELSE "gone"]
    /\ requests' = [c \in Conns |-> <<>>]

\* select() fails after the last WSACleanup(): RunLoop() returns, and with it the process.
LoopEnds ==
    /\ up /\ winsock = 0
    /\ up' = FALSE
    /\ DropConnections
    /\ UNCHANGED <<winsock, crashes, dbVars, job, answers, sent>>

\* The process is killed, or a statement throws an SQLException, which nobody catches.
Crash ==
    /\ up /\ crashes < MaxCrashes
    /\ crashes' = crashes + 1
    /\ up' = FALSE
    /\ job' = NoJob
    /\ DropConnections
    /\ UNCHANGED <<winsock, dbVars, answers, sent>>

Restart ==
    /\ ~up
    /\ up' = TRUE
    /\ winsock' \in 1..2
    /\ UNCHANGED <<crashes, dbVars, job, netVars, answers>>

\* InitAuthConn() of a chat server.
Connect(c) ==
    /\ up /\ winsock > 0 /\ link[c] = "new"
    /\ link' = [link EXCEPT ![c] = "open"]
    /\ UNCHANGED <<procVars, dbVars, job, requests, answers, sent>>

\* The chat server does not wait for an answer before it sends the next request.
SendRequest(c, t, e, p) ==
    /\ link[c] = "open" /\ sent[c] < MaxRequests
    /\ sent' = [sent EXCEPT ![c] = @ + 1]
    /\ requests' = [requests EXCEPT ![c] =
                      Append(@, [type |-> t, email |-> e, password |-> p,
                                 requestId |-> sent[c] + 1])]
    /\ UNCHANGED <<procVars, dbVars, job, link, answers>>

\* The chat server ends.
Leave(c) ==
    /\ link[c] = "open"
    /\ link' = [link EXCEPT ![c] = "half"]
    /\ UNCHANGED <<procVars, dbVars, job, requests, answers, sent>>

Next ==
    \/ \E c \in Conns : Receive(c) \/ Disconnect(c) \/ Connect(c) \/ Leave(c)
    \/ \E c \in Conns, t \in {"CREATE", "AUTHENTICATE"}, e \in Emails, p \in Passwords :
          SendRequest(c, t, e, p)
    \/ InsertUser \/ InsertWebAuth \/ Answer
    \/ LoopEnds \/ Crash \/ Restart

Spec == Init /\ [][Next]_vars

\* A running process goes on with the request in hand, and its loop serves every ready
\* connection.  Nobody has to crash, leave or restart it.
Fairness ==
    /\ \A c \in Conns : WF_vars(Receive(c)) /\ WF_vars(Disconnect(c))
    /\ WF_vars(InsertUser) /\ WF_vars(InsertWebAuth) /\ WF_vars(Answer) /\ WF_vars(LoopEnds)

FairSpec == Spec /\ Fairness
-----------------------------------------------------------------------------
(***************************************************************************)
(* Properties.                                                             *)
(***************************************************************************)
\* Every variable keeps to the values its declaration or table definition allows.
TypeOK ==
    /\ up \in BOOLEAN /\ winsock \in 0..2
    /\ maxUserId \in Nat
    /\ webAuth \in Seq(Row)
    /\ job \in Job \cup {NoJob}
    /\ link \in [Conns -> {"new", "open", "half", "gone"}]
    /\ requests \in [Conns -> Seq(Request)]
    /\ answers \in [Conns -> Seq(Reply)]
    /\ sent \in [Conns -> 0..MaxRequests]
    /\ crashes \in 0..MaxCrashes

\* web_auth never has two rows for one email, although the table does not forbid it and
\* the check for the email and the INSERT are separate statements with a crash between.
EmailsUnique ==
    \A i, j \in 1..Len(webAuth) : Key[webAuth[i].email] = Key[webAuth[j].email] => i = j

\* The user id of an account always is the id of a row of user: no foreign key says so.
UserRowsExist == \A i \in 1..Len(webAuth) : webAuth[i].userId \in 1..maxUserId

\* No two accounts have the same user id, as long as ids fit into 16 bits: a row that a
\* crash has left in user without an account is skipped, not given to the next account.
UserIdsUnique ==
    maxUserId < IdModulus =>
        \A i, j \in 1..Len(webAuth) : webAuth[i].userId = webAuth[j].userId => i = j

\* Rows of user without an account come only from crashes and from ids that are 0 in 16
\* bits: nothing else leaves a request half done.
OrphansOnlyFromCrashes ==
    (maxUserId - InitialMaxId) - (Len(webAuth) - Len(InitialRows))
        <= crashes + (IF job = NoJob THEN 0 ELSE 1)
           + Cardinality({n \in InitialMaxId + 1..maxUserId : n % IdModulus = 0})

\* A success answer is never given before the account is in the table, whatever crashes
\* follow: every user id ever reported belongs to an account.
ReportedIdsAreStored ==
    \A c \in Conns : \A k \in 1..Len(answers[c]) :
        answers[c][k].verdict = "SUCCESS" =>
            \E i \in 1..Len(webAuth) : webAuth[i].userId = answers[c][k].userId

\* Every request a connected chat server sends is answered, unless the chat server leaves
\* or the AuthServer goes down.
RequestsAreAnswered ==
    \A c \in Conns, n \in 1..MaxRequests :
        sent[c] >= n ~> \/ link[c] # "open"
                        \/ \E k \in 1..Len(answers[c]) : answers[c][k].requestId = n

(***************************************************************************)
(* Refinement: the rows of web_auth, seen by email, are an AccountStore.   *)
(***************************************************************************)
AccountFor(k) ==
    LET rows == {i \in 1..Len(webAuth) : Key[webAuth[i].email] = k}
        row == webAuth[CHOOSE i \in rows : \A j \in rows : j <= i]
    IN  IF rows = {} THEN NoAccount
        ELSE [password |-> row.password, userId |-> row.userId]

Accounts == INSTANCE AccountStore WITH
    RequestIds <- 1..MaxRequests,
    accounts <- [k \in Keys |-> AccountFor(k)],
    job <- IF job = NoJob THEN NoJob
           ELSE [conn |-> job.conn, request |-> job.request, verdict |-> job.verdict,
                 userId |-> job.userId]

\* However the statements are interleaved with crashes, the AuthServer is an AccountStore.
ImplementsAccountStore == Accounts!Spec
=============================================================================
