---------------------------- MODULE AccountStore ----------------------------
(***************************************************************************)
(* What the AuthServer promises to the chat servers connected to it: a     *)
(* table of accounts, one per email, and for each request at most one      *)
(* answer, which tells the truth about the table.  Tables, statements,     *)
(* sockets and processes are left to AuthServer.                           *)
(***************************************************************************)
EXTENDS Naturals, Sequences

CONSTANTS
    Conns,          \* connections of chat servers
    Emails,
    Key,            \* the emails the database considers equal have the same key
    Passwords,
    ShortPasswords, \* those of less than 8 characters
    RequestIds,
    NoAccount,
    NoJob

Request == [type : {"CREATE", "AUTHENTICATE"}, email : Emails, password : Passwords,
            requestId : RequestIds]

VARIABLES
    accounts,       \* for each key its account, or NoAccount
    job,            \* the request in hand and the verdict on it, if reached
    answers         \* the answers sent on each connection

vars == <<accounts, job, answers>>

Keys == {Key[e] : e \in Emails}

\* The account of an email is there and has this password.
Matches(e, p) ==
    /\ accounts[Key[e]] # NoAccount
    /\ accounts[Key[e]].password = p

\* The verdicts that can be given without changing the table.
Verdicts(r) ==
    IF r.type = "CREATE"
    THEN IF r.password \in ShortPasswords THEN {"INVALID_PASSWORD"}
         ELSE IF accounts[Key[r.email]] # NoAccount THEN {"ACCOUNT_ALREADY_EXISTS"} ELSE {}
    ELSE IF r.password \notin ShortPasswords /\ Matches(r.email, r.password)
         THEN {"SUCCESS"} ELSE {"INVALID_CREDENTIALS"}

Init ==
    /\ accounts \in [Keys -> {NoAccount} \cup [password : Passwords, userId : Nat]]
    /\ job = NoJob
    /\ answers = [c \in Conns |-> <<>>]

\* A request is taken on and decided at once.
Judge(c, r) ==
    /\ job = NoJob
    /\ \E v \in Verdicts(r) :
          job' = [conn |-> c, request |-> r, verdict |-> v,
                  userId |-> IF v = "SUCCESS" THEN accounts[Key[r.email]].userId ELSE 0]
    /\ UNCHANGED <<accounts, answers>>

\* A request for a new account is taken on.
Begin(c, r) ==
    /\ job = NoJob
    /\ r.type = "CREATE" /\ Verdicts(r) = {}
    /\ job' = [conn |-> c, request |-> r, verdict |-> "OPEN", userId |-> 0]
    /\ UNCHANGED <<accounts, answers>>

\* The new account is stored, under a user id that is not 0.
Commit ==
    /\ job # NoJob /\ job.verdict = "OPEN"
    /\ LET k == Key[job.request.email]
       IN  /\ accounts' = [accounts EXCEPT ![k] = accounts'[k]]
           /\ accounts'[k] \in [password : {job.request.password}, userId : Nat \ {0}]
           /\ job' = [job EXCEPT !.verdict = "SUCCESS", !.userId = accounts'[k].userId]
    /\ UNCHANGED answers

\* No account is stored.
GiveUp ==
    /\ job # NoJob /\ job.verdict = "OPEN"
    /\ job' = [job EXCEPT !.verdict = "INTERNAL_SERVER_ERROR"]
    /\ UNCHANGED <<accounts, answers>>

Answer ==
    /\ job # NoJob /\ job.verdict # "OPEN"
    /\ answers' = [answers EXCEPT ![job.conn] =
                     Append(@, [type |-> job.request.type, requestId |-> job.request.requestId,
                                verdict |-> job.verdict, userId |-> job.userId])]
    /\ job' = NoJob
    /\ UNCHANGED accounts

\* The server or the connection fails: the request gets no answer.
Forget ==
    /\ job # NoJob
    /\ job' = NoJob
    /\ UNCHANGED <<accounts, answers>>

Next ==
    \/ \E c \in Conns, r \in Request : Judge(c, r) \/ Begin(c, r)
    \/ Commit \/ GiveUp \/ Answer \/ Forget

Spec == Init /\ [][Next]_vars
=============================================================================
