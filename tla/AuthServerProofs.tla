-------------------------- MODULE AuthServerProofs ---------------------------
(***************************************************************************)
(* Proofs about AuthServer, for every set of connections, emails and       *)
(* passwords, every collation, every contents of the tables at the start,  *)
(* any number of packets coalesced and any number of crashes.              *)
(***************************************************************************)
EXTENDS AuthServer, SequenceTheorems, FiniteSetTheorems, TLAPS

\* What is left of an id in a narrower integer.
LEMMA Modulo ==
    ASSUME NEW n \in Nat, NEW m \in Nat \ {0}
    PROVE  n % m \in 0..n /\ (n < m => n % m = n)
OBVIOUS

\* What is left of a queue after a receive.
LEMMA RestOfQueue ==
    ASSUME NEW S, NEW q \in Seq(S), NEW n \in Nat
    PROVE  SubSeq(q, n + 1, Len(q)) \in Seq(S)
<1>1. Len(q) \in Nat /\ \A i \in 1..Len(q) : q[i] \in S
  BY ElementOfSeq, LenProperties
<1>2. \A i \in n + 1..Len(q) : q[i] \in S
  BY <1>1
<1> QED
  BY <1>1, <1>2, SubSeqProperties

\* Elements of a sequence and of what Append makes of it.
LEMMA Appended ==
    ASSUME NEW S, NEW q \in Seq(S), NEW e \in S
    PROVE  /\ Append(q, e) \in Seq(S)
           /\ Len(q) \in Nat /\ Len(Append(q, e)) = Len(q) + 1
           /\ \A i \in 1..Len(q) : q[i] \in S /\ Append(q, e)[i] = q[i]
           /\ Append(q, e)[Len(q) + 1] = e
BY AppendProperties, LenProperties, ElementOfSeq

LEMMA EmptyQueue == \A S : <<>> \in Seq(S) /\ Len(<<>>) = 0
BY EmptySeq
\* EXCEPT on the job, written out.
LEMMA JobAnswered ==
    ASSUME NEW j \in Job, NEW v \in Outcome
    PROVE  [j EXCEPT !.step = "answer", !.verdict = v]
             = [conn |-> j.conn, request |-> j.request, step |-> "answer", verdict |-> v,
                userId |-> j.userId]
<1> DEFINE k == [j EXCEPT !.step = "answer"]
<1>1. /\ k \in Job
      /\ k = [conn |-> j.conn, request |-> j.request, step |-> "answer",
              verdict |-> j.verdict, userId |-> j.userId]
  BY DEF Job, Step
<1> HIDE DEF k
<1>2. [k EXCEPT !.verdict = v]
        = [conn |-> j.conn, request |-> j.request, step |-> "answer", verdict |-> v,
           userId |-> j.userId]
  BY <1>1 DEF Job
<1> QED
  BY <1>2 DEF k

LEMMA JobCommitted ==
    ASSUME NEW j \in Job, NEW v \in Outcome, NEW u \in Nat
    PROVE  [j EXCEPT !.step = "answer", !.verdict = v, !.userId = u]
             = [conn |-> j.conn, request |-> j.request, step |-> "answer", verdict |-> v,
                userId |-> u]
<1> DEFINE k == [j EXCEPT !.step = "answer", !.verdict = v]
<1>1. k = [conn |-> j.conn, request |-> j.request, step |-> "answer", verdict |-> v,
           userId |-> j.userId]
  BY JobAnswered
<1> HIDE DEF k
<1>2. k \in Job
  BY <1>1 DEF Job, Step
<1>3. [k EXCEPT !.userId = u]
        = [conn |-> j.conn, request |-> j.request, step |-> "answer", verdict |-> v,
           userId |-> u]
  BY <1>1, <1>2 DEF Job
<1> QED
  BY <1>3 DEF k
-----------------------------------------------------------------------------
(***************************************************************************)
(* The tables and the request in hand.                                     *)
(***************************************************************************)
\* A request is in hand only while the process runs with Winsock.  Until the account is
\* stored there is no row for its email, and once the row of user is, none for its id.
JobInv ==
    job # NoJob =>
        /\ up /\ winsock > 0
        /\ job.step # "answer" =>
              /\ job.request.type = "CREATE" /\ job.verdict = "OPEN" /\ job.userId = 0
              /\ RowsOf(job.request.email) = {}
        /\ job.step = "insert_web_auth" =>
              \A i \in 1..Len(webAuth) : webAuth[i].userId < maxUserId
        /\ job.step = "answer" => job.verdict # "OPEN"
        /\ job.verdict = "SUCCESS" => \E i \in 1..Len(webAuth) : webAuth[i].userId = job.userId

TablesOK == EmailsUnique /\ UserRowsExist /\ UserIdsUnique

Inv == TypeOK /\ JobInv /\ TablesOK /\ ReportedIdsAreStored

\* An email that has rows has one, and it is the one that is read.
LEMMA RowForIsARow ==
    ASSUME TypeOK, EmailsUnique, NEW e \in Emails, RowsOf(e) # {}
    PROVE  /\ RowFor(e) \in Row
           /\ \E i \in 1..Len(webAuth) : RowFor(e) = webAuth[i]
<1>1. Len(webAuth) \in Nat /\ \A i \in 1..Len(webAuth) : webAuth[i] \in Row
  BY ElementOfSeq, LenProperties DEF TypeOK
<1>2. PICK i \in 1..Len(webAuth) : i \in RowsOf(e)
  BY DEF RowsOf
<1>3. \A j \in RowsOf(e) : j = i
  BY <1>2 DEF RowsOf, EmailsUnique
<1>4. \A j \in RowsOf(e) : j <= i
  BY <1>1, <1>2, <1>3
<1> DEFINE last == CHOOSE k \in RowsOf(e) : \A j \in RowsOf(e) : j <= k
<1>5. last \in RowsOf(e)
  BY <1>2, <1>4
<1>6. last = i
  BY <1>3, <1>5
<1> QED
  BY <1>1, <1>6 DEF RowFor

\* What a receive puts in hand.
LEMMA ReceiveEffect ==
    ASSUME TypeOK, EmailsUnique, NEW c \in Conns, Receive(c)
    PROVE  LET r == Head(requests[c])
           IN  /\ r \in Request
               /\ requests' \in [Conns -> Seq(Request)]
               /\ job' \in Job
               /\ job'.conn = c /\ job'.request = r /\ job'.verdict = Verdict(r)
               /\ job'.userId = IF Verdict(r) = "SUCCESS" THEN RowFor(r.email).userId ELSE 0
               /\ job'.step = IF Verdict(r) = "OPEN" THEN "insert_user" ELSE "answer"
               /\ Verdict(r) = "OPEN" => r.type = "CREATE" /\ RowsOf(r.email) = {}
               /\ Verdict(r) = "SUCCESS" => RowsOf(r.email) # {}
<1> DEFINE r == Head(requests[c])
<1>1. requests[c] \in Seq(Request) /\ requests[c] # <<>>
  BY DEF Receive, TypeOK
<1>2. r \in Request
  BY <1>1, HeadTailProperties
<1>3. requests' \in [Conns -> Seq(Request)]
  <2>1. PICK n \in 1..MaxBurst :
           requests' = [requests EXCEPT ![c] = SubSeq(requests[c], n + 1, Len(requests[c]))]
    BY DEF Receive
  <2>2. n \in Nat
    BY BoundAssumption
  <2>3. SubSeq(requests[c], n + 1, Len(requests[c])) \in Seq(Request)
    BY <1>1, <2>2, RestOfQueue
  <2> QED
    BY <2>1, <2>3 DEF TypeOK
<1>4. /\ Verdict(r) \in Outcome
      /\ Verdict(r) = "OPEN" => r.type = "CREATE" /\ RowsOf(r.email) = {}
      /\ Verdict(r) = "SUCCESS" => RowsOf(r.email) # {}
  <2> HIDE DEF r
  <2>1. CASE r.type = "CREATE"
    BY <2>1 DEF Verdict, CreateVerdict, Outcome
  <2>2. CASE r.type # "CREATE"
    BY <2>2 DEF Verdict, AuthenticateVerdict, Outcome
  <2> QED
    BY <2>1, <2>2
<1>5. Verdict(r) = "SUCCESS" => RowFor(r.email).userId \in Nat
  <2>1. r.email \in Emails
    BY <1>2 DEF Request
  <2> QED
    BY <1>4, <2>1, RowForIsARow DEF Row
<1>6. job' = [conn |-> c, request |-> r, verdict |-> Verdict(r),
              step |-> IF Verdict(r) = "OPEN" THEN "insert_user" ELSE "answer",
              userId |-> IF Verdict(r) = "SUCCESS" THEN RowFor(r.email).userId ELSE 0]
  BY DEF Receive
<1> HIDE DEF r
<1>7. job' \in Job
  BY <1>2, <1>4, <1>5, <1>6 DEF Job, Step
<1> QED
  BY <1>2, <1>3, <1>4, <1>6, <1>7 DEF r

\* What InsertWebAuth adds to the table is a row for an email and, while ids fit, an id
\* that have none.
LEMMA InsertWebAuthEffect ==
    ASSUME Inv, InsertWebAuth, ReadUserMaxId # 0
    PROVE  LET row == [email |-> job.request.email, password |-> job.request.password,
                       userId |-> ReadUserMaxId]
           IN  /\ row \in Row /\ webAuth' = Append(webAuth, row)
               /\ ReadUserMaxId \in 1..maxUserId
               /\ maxUserId < IdModulus => ReadUserMaxId = maxUserId
               /\ job \in Job /\ job' \in Job
               /\ job' = [conn |-> job.conn, request |-> job.request, step |-> "answer",
                          verdict |-> "SUCCESS", userId |-> ReadUserMaxId]
<1>1. job \in Job
  BY DEF Inv, TypeOK, InsertWebAuth, At
<1>2. /\ ReadUserMaxId \in 0..maxUserId
      /\ maxUserId < IdModulus => ReadUserMaxId = maxUserId
  BY Modulo, DataAssumption DEF Inv, TypeOK, ReadUserMaxId
<1>3. ReadUserMaxId \in 1..maxUserId /\ ReadUserMaxId \in Nat
  BY <1>2 DEF Inv, TypeOK
<1>4. job.request \in Request
  BY <1>1 DEF Job
<1>5. job.request.email \in Emails /\ job.request.password \in Passwords
  BY <1>4 DEF Request
<1>6. /\ webAuth' = Append(webAuth, [email |-> job.request.email,
                                     password |-> job.request.password,
                                     userId |-> ReadUserMaxId])
      /\ job' = [job EXCEPT !.step = "answer", !.verdict = "SUCCESS", !.userId = ReadUserMaxId]
  BY DEF InsertWebAuth
<1>7. job' = [conn |-> job.conn, request |-> job.request, step |-> "answer",
              verdict |-> "SUCCESS", userId |-> ReadUserMaxId]
  <2>1. "SUCCESS" \in Outcome
    BY DEF Outcome
  <2>2. [job EXCEPT !.step = "answer", !.verdict = "SUCCESS", !.userId = ReadUserMaxId]
          = [conn |-> job.conn, request |-> job.request, step |-> "answer",
             verdict |-> "SUCCESS", userId |-> ReadUserMaxId]
    BY <1>1, <1>3, <2>1, JobCommitted, Zenon
  <2> QED
    BY <1>6, <2>2, Zenon
<1>8. job' \in Job
  <2> DEFINE u == ReadUserMaxId
  <2>1. u \in Nat /\ job'.userId = u
    BY <1>3, <1>7
  <2> HIDE DEF u
  <2>2. job' = [conn |-> job.conn, request |-> job.request, step |-> "answer",
                verdict |-> "SUCCESS", userId |-> u]
    BY <1>7 DEF u
  <2> QED
    BY <1>1, <2>1, <2>2 DEF Job, Step, Outcome
<1> QED
  BY <1>1, <1>2, <1>3, <1>5, <1>6, <1>7, <1>8 DEF Row
-----------------------------------------------------------------------------
(***************************************************************************)
(* The invariant.                                                          *)
(***************************************************************************)
LEMMA InitInv == Init => Inv
<1> SUFFICES ASSUME Init PROVE Inv
  OBVIOUS
<1>1. TypeOK
  BY TableAssumption, BoundAssumption, EmptyQueue DEF Init, TypeOK
<1>2. EmailsUnique /\ UserRowsExist /\ UserIdsUnique
  BY TableAssumption DEF Init, EmailsUnique, UserRowsExist, UserIdsUnique
<1>3. JobInv
  BY DEF Init, JobInv
<1>4. ReportedIdsAreStored
  BY EmptyQueue DEF Init, ReportedIdsAreStored
<1> QED
  BY <1>1, <1>2, <1>3, <1>4 DEF Inv, TablesOK

\* A step that leaves the tables alone keeps what is said of them.
LEMMA TablesUnchanged ==
    ASSUME TablesOK, UNCHANGED dbVars
    PROVE  TablesOK'
BY DEF TablesOK, EmailsUnique, UserRowsExist, UserIdsUnique, dbVars

\* A step that leaves the tables and the request in hand alone keeps JobInv.
LEMMA JobUnchanged ==
    ASSUME JobInv, UNCHANGED <<dbVars, job, up, winsock>>
    PROVE  JobInv'
BY DEF JobInv, RowsOf, dbVars

LEMMA NoJobInv == job = NoJob => JobInv
BY DEF JobInv

\* Answers and rows stay: so does what was reported.
LEMMA ReportsUnchanged ==
    ASSUME ReportedIdsAreStored, UNCHANGED <<webAuth, answers>>
    PROVE  ReportedIdsAreStored'
BY DEF ReportedIdsAreStored

LEMMA ReceiveInv == ASSUME Inv, NEW c \in Conns, Receive(c) PROVE Inv'
<1> DEFINE r == Head(requests[c])
<1>1. /\ UNCHANGED <<procVars, dbVars, link, answers, sent>>
      /\ up /\ winsock > 0
  BY DEF Receive
<1>2. /\ requests' \in [Conns -> Seq(Request)]
      /\ job' \in Job
      /\ job'.conn = c /\ job'.request = r /\ job'.verdict = Verdict(r)
      /\ job'.userId = IF Verdict(r) = "SUCCESS" THEN RowFor(r.email).userId ELSE 0
      /\ job'.step = IF Verdict(r) = "OPEN" THEN "insert_user" ELSE "answer"
      /\ r \in Request
      /\ Verdict(r) = "OPEN" => r.type = "CREATE" /\ RowsOf(r.email) = {}
      /\ Verdict(r) = "SUCCESS" => RowsOf(r.email) # {}
  BY ReceiveEffect DEF Inv, TablesOK
<1> HIDE DEF r
<1>3. TypeOK'
  BY <1>1, <1>2 DEF Inv, TypeOK, procVars, dbVars
<1>4. Verdict(r) = "SUCCESS" => \E i \in 1..Len(webAuth) : webAuth[i].userId = RowFor(r.email).userId
  <2>1. r.email \in Emails
    BY <1>2 DEF Request
  <2> QED
    BY <1>2, <2>1, RowForIsARow DEF Inv, TablesOK
<1>5. RowsOf(r.email)' = RowsOf(r.email)'
  OBVIOUS
<1>6. JobInv'
  <2>1. webAuth' = webAuth /\ up' = up /\ winsock' = winsock
    BY <1>1 DEF dbVars, procVars
  <2>2. \A e : (RowsOf(e) = {}) => {i \in 1..Len(webAuth') : Key[webAuth'[i].email] = Key[e]} = {}
    BY <2>1 DEF RowsOf
  <2>3. job'.step # "insert_web_auth"
    BY <1>2
  <2> QED
    BY <1>1, <1>2, <1>4, <2>1, <2>2, <2>3 DEF JobInv, RowsOf
<1>7. ReportedIdsAreStored' /\ TablesOK'
  BY <1>1, ReportsUnchanged, TablesUnchanged DEF Inv, dbVars
<1> QED
  BY <1>3, <1>6, <1>7 DEF Inv

LEMMA InsertUserInv == ASSUME Inv, InsertUser PROVE Inv'
<1> USE DEF Inv
<1>1. /\ job \in Job /\ job # NoJob /\ job.step = "insert_user"
      /\ maxUserId' = maxUserId + 1
      /\ job' = [job EXCEPT !.step = "insert_web_auth"]
      /\ UNCHANGED <<procVars, webAuth, netVars, answers>>
  BY DEF InsertUser, At, TypeOK
<1>2. /\ job' \in Job /\ job'.step = "insert_web_auth" /\ job'.request = job.request
      /\ job'.verdict = job.verdict /\ job'.userId = job.userId
  BY <1>1 DEF Job, Step
<1>3. TypeOK'
  BY <1>1, <1>2 DEF TypeOK, procVars, netVars
<1>4. TablesOK'
  <2>1. maxUserId \in Nat /\ webAuth' = webAuth /\ IdModulus \in Nat
    BY <1>1, DataAssumption DEF TypeOK
  <2>2. EmailsUnique'
    BY <2>1 DEF TablesOK, EmailsUnique
  <2>3. UserRowsExist'
    BY <1>1, <2>1 DEF TablesOK, UserRowsExist
  <2>4. UserIdsUnique'
    BY <1>1, <2>1 DEF TablesOK, UserIdsUnique
  <2> QED
    BY <2>2, <2>3, <2>4 DEF TablesOK
<1>5. JobInv'
  <2>1. up' = up /\ winsock' = winsock /\ webAuth' = webAuth
    BY <1>1 DEF procVars
  <2>2. \A i \in 1..Len(webAuth) : webAuth[i].userId < maxUserId'
    BY <1>1 DEF TablesOK, UserRowsExist, TypeOK
  <2>3. /\ up /\ winsock > 0 /\ job.request.type = "CREATE" /\ job.verdict = "OPEN"
        /\ job.userId = 0 /\ RowsOf(job.request.email) = {}
    BY <1>1 DEF JobInv
  <2>4. RowsOf(job.request.email)' = {}
    BY <1>2, <2>1, <2>3 DEF RowsOf
  <2> QED
    BY <1>2, <2>1, <2>2, <2>3, <2>4 DEF JobInv
<1>6. ReportedIdsAreStored'
  BY <1>1, ReportsUnchanged
<1> QED
  BY <1>3, <1>4, <1>5, <1>6
LEMMA InsertWebAuthInv == ASSUME Inv, InsertWebAuth PROVE Inv'
<1> USE DEF Inv
<1>1. /\ job \in Job /\ job # NoJob /\ job.step = "insert_web_auth"
      /\ UNCHANGED <<procVars, maxUserId, netVars, answers>>
      /\ up /\ winsock > 0 /\ job.verdict = "OPEN" /\ job.userId = 0
      /\ RowsOf(job.request.email) = {}
      /\ \A i \in 1..Len(webAuth) : webAuth[i].userId < maxUserId
  BY DEF InsertWebAuth, At, TypeOK, JobInv
<1>2. CASE ReadUserMaxId = 0
  <2>1. /\ webAuth' = webAuth
        /\ job' = [job EXCEPT !.step = "answer", !.verdict = "INTERNAL_SERVER_ERROR"]
    BY <1>2 DEF InsertWebAuth
  <2>2. job' = [conn |-> job.conn, request |-> job.request, step |-> "answer",
                verdict |-> "INTERNAL_SERVER_ERROR", userId |-> job.userId]
    <3>1. "INTERNAL_SERVER_ERROR" \in Outcome
      BY DEF Outcome
    <3>2. [job EXCEPT !.step = "answer", !.verdict = "INTERNAL_SERVER_ERROR"]
            = [conn |-> job.conn, request |-> job.request, step |-> "answer",
               verdict |-> "INTERNAL_SERVER_ERROR", userId |-> job.userId]
      BY <1>1, <3>1, JobAnswered, Zenon
    <3> QED
      BY <2>1, <3>2, Zenon
  <2>3. job' \in Job /\ job'.step = "answer" /\ job'.verdict = "INTERNAL_SERVER_ERROR"
    BY <1>1, <2>2 DEF Job, Step, Outcome
  <2>4. TypeOK'
    BY <1>1, <2>1, <2>3 DEF TypeOK, procVars, netVars
  <2>5. TablesOK'
    BY <1>1, <2>1, TablesUnchanged DEF dbVars
  <2>6. JobInv'
    BY <1>1, <2>3 DEF JobInv, procVars
  <2>7. ReportedIdsAreStored'
    BY <1>1, <2>1, ReportsUnchanged
  <2> QED
    BY <2>4, <2>5, <2>6, <2>7
<1>3. CASE ReadUserMaxId # 0
  <2> DEFINE u == ReadUserMaxId
             row == [email |-> job.request.email, password |-> job.request.password,
                     userId |-> u]
             n == Len(webAuth)
  <2>1. /\ row \in Row /\ webAuth' = Append(webAuth, row)
        /\ u \in 1..maxUserId
        /\ maxUserId < IdModulus => u = maxUserId
        /\ job' \in Job
        /\ job' = [conn |-> job.conn, request |-> job.request, step |-> "answer",
                   verdict |-> "SUCCESS", userId |-> u]
    BY <1>3, InsertWebAuthEffect
  <2>2. row.email = job.request.email /\ row.userId = u
    OBVIOUS
  <2> HIDE DEF u, row
  <2>3. webAuth \in Seq(Row) /\ maxUserId \in Nat
    BY DEF TypeOK
  <2>4. /\ webAuth' \in Seq(Row)
        /\ n \in Nat /\ Len(webAuth') = n + 1
        /\ \A i \in 1..n : webAuth[i] \in Row /\ webAuth'[i] = webAuth[i]
        /\ webAuth'[n + 1] = row
    BY <2>1, <2>3, Appended
  <2> HIDE DEF n
  <2>5. TypeOK'
    BY <1>1, <2>1, <2>4 DEF TypeOK, procVars, netVars
  <2>6. \A i \in 1..n : Key[webAuth[i].email] # Key[row.email]
    BY <1>1, <2>2 DEF RowsOf, n
  <2>7. \A i \in 1..n + 1 : i \in 1..n \/ i = n + 1
    BY <2>4
  <2>8. EmailsUnique'
    <3>1. \A i, j \in 1..n : Key[webAuth[i].email] = Key[webAuth[j].email] => i = j
      BY DEF TablesOK, EmailsUnique, n
    <3> SUFFICES ASSUME NEW i \in 1..n + 1, NEW j \in 1..n + 1,
                        Key[webAuth'[i].email] = Key[webAuth'[j].email]
                 PROVE  i = j
      BY <2>4 DEF EmailsUnique
    <3> QED
      BY <2>4, <2>6, <2>7, <3>1
  <2>9. UserRowsExist'
    <3>1. \A i \in 1..n : webAuth[i].userId \in 1..maxUserId
      BY DEF TablesOK, UserRowsExist, n
    <3> QED
      BY <1>1, <2>1, <2>2, <2>4, <2>7, <3>1 DEF UserRowsExist
  <2>10. UserIdsUnique'
    <3>1. maxUserId < IdModulus =>
             \A i, j \in 1..n : webAuth[i].userId = webAuth[j].userId => i = j
      BY DEF TablesOK, UserIdsUnique, n
    <3>2. \A i \in 1..n : webAuth[i].userId \in Nat /\ webAuth[i].userId < maxUserId
      BY <1>1, <2>4 DEF n, Row
    <3> SUFFICES ASSUME maxUserId < IdModulus, NEW i \in 1..n + 1, NEW j \in 1..n + 1,
                        webAuth'[i].userId = webAuth'[j].userId
                 PROVE  i = j
      BY <1>1, <2>4 DEF UserIdsUnique
    <3>3. row.userId = maxUserId
      BY <2>1, <2>2
    <3>4. CASE i \in 1..n /\ j \in 1..n
      BY <2>4, <3>1, <3>4
    <3>5. CASE i = n + 1 /\ j = n + 1
      BY <3>5
    <3>6. CASE i = n + 1 /\ j \in 1..n
      BY <2>3, <2>4, <3>2, <3>3, <3>6
    <3>7. CASE i \in 1..n /\ j = n + 1
      BY <2>3, <2>4, <3>2, <3>3, <3>7
    <3> QED
      BY <2>7, <3>4, <3>5, <3>6, <3>7
  <2>11. JobInv'
    <3>1. n + 1 \in 1..Len(webAuth') /\ webAuth'[n + 1].userId = u
      BY <2>2, <2>4
    <3>2. job'.step = "answer" /\ job'.verdict = "SUCCESS" /\ job'.userId = u
      BY <2>1
    <3> QED
      BY <1>1, <3>1, <3>2 DEF JobInv, procVars
  <2>12. ReportedIdsAreStored'
    <3> SUFFICES ASSUME NEW c \in Conns, NEW k \in 1..Len(answers[c]),
                        answers[c][k].verdict = "SUCCESS"
                 PROVE  \E i \in 1..n + 1 : webAuth'[i].userId = answers[c][k].userId
      BY <1>1, <2>4 DEF ReportedIdsAreStored
    <3>1. PICK i \in 1..n : webAuth[i].userId = answers[c][k].userId
      BY DEF ReportedIdsAreStored, n
    <3> QED
      BY <2>4, <3>1
  <2> QED
    BY <2>5, <2>8, <2>9, <2>10, <2>11, <2>12 DEF TablesOK
<1> QED
  BY <1>2, <1>3

LEMMA AnswerInv == ASSUME Inv, Answer PROVE Inv'
<1> USE DEF Inv
<1>1. /\ job \in Job /\ job # NoJob /\ job' = NoJob
      /\ UNCHANGED <<up, crashes, dbVars, netVars>>
      /\ job.conn \in Conns /\ AnswerTo(job) \in Reply
      /\ winsock \in 1..2
  BY DEF Answer, At, TypeOK, JobInv, Job, Request, Reply, AnswerTo
<1>2. JobInv'
  BY <1>1 DEF JobInv
<1>3. TablesOK'
  BY <1>1, TablesUnchanged
<1>4. CASE /\ answers' = [answers EXCEPT ![job.conn] = Append(@, AnswerTo(job))]
           /\ UNCHANGED winsock
  <2> DEFINE q == answers[job.conn]
  <2>1. q \in Seq(Reply)
    BY <1>1 DEF TypeOK
  <2>2. /\ Append(q, AnswerTo(job)) \in Seq(Reply)
        /\ Len(q) \in Nat /\ Len(Append(q, AnswerTo(job))) = Len(q) + 1
        /\ \A i \in 1..Len(q) : Append(q, AnswerTo(job))[i] = q[i]
        /\ Append(q, AnswerTo(job))[Len(q) + 1] = AnswerTo(job)
    BY <1>1, <2>1, Appended
  <2>3. answers' = [answers EXCEPT ![job.conn] = Append(q, AnswerTo(job))]
    BY <1>4
  <2>4. TypeOK'
    BY <1>1, <1>4, <2>2, <2>3 DEF TypeOK, dbVars, netVars
  <2>5. /\ AnswerTo(job).verdict = "SUCCESS" =>
             \E i \in 1..Len(webAuth) : webAuth[i].userId = AnswerTo(job).userId
        /\ webAuth' = webAuth
    BY <1>1 DEF AnswerTo, JobInv, dbVars
  <2>6. ReportedIdsAreStored'
    <3> SUFFICES ASSUME NEW c \in Conns, NEW k \in 1..Len(answers'[c]),
                        answers'[c][k].verdict = "SUCCESS"
                 PROVE  \E i \in 1..Len(webAuth) : webAuth[i].userId = answers'[c][k].userId
      BY <2>5 DEF ReportedIdsAreStored
    <3>1. CASE c # job.conn
      BY <2>3, <3>1 DEF ReportedIdsAreStored, TypeOK
    <3>2. CASE c = job.conn
      <4>1. answers'[c] = Append(q, AnswerTo(job))
        BY <1>1, <2>3, <3>2 DEF TypeOK
      <4>2. CASE k \in 1..Len(q)
        BY <1>1, <2>2, <3>2, <4>1, <4>2 DEF ReportedIdsAreStored
      <4>3. CASE k = Len(q) + 1
        BY <2>2, <2>5, <4>1, <4>3
      <4> QED
        BY <2>2, <4>1, <4>2, <4>3
    <3> QED
      BY <3>1, <3>2
  <2> QED
    BY <1>2, <1>3, <2>4, <2>6
<1>5. CASE winsock' = winsock - 1 /\ UNCHANGED answers
  <2>1. TypeOK'
    BY <1>1, <1>5 DEF TypeOK, dbVars, netVars
  <2>2. ReportedIdsAreStored'
    BY <1>1, <1>5, ReportsUnchanged DEF dbVars
  <2> QED
    BY <1>2, <1>3, <2>1, <2>2
<1> QED
  BY <1>4, <1>5 DEF Answer
\* The steps of the network and of the process.
LEMMA OtherInv ==
    ASSUME Inv,
           \/ \E c \in Conns : Disconnect(c) \/ Connect(c) \/ Leave(c)
           \/ \E c \in Conns, t \in {"CREATE", "AUTHENTICATE"}, e \in Emails, p \in Passwords :
                 SendRequest(c, t, e, p)
           \/ LoopEnds \/ Crash \/ Restart \/ UNCHANGED vars
    PROVE  Inv'
<1> USE DEF Inv
<1>1. UNCHANGED <<dbVars, answers>>
  BY DEF Disconnect, Connect, Leave, SendRequest, LoopEnds, Crash, Restart, vars, dbVars
<1>2. TablesOK' /\ ReportedIdsAreStored'
  BY <1>1, TablesUnchanged, ReportsUnchanged DEF dbVars
<1>3. ASSUME NEW c \in Conns, Disconnect(c) \/ Connect(c) \/ Leave(c)
      PROVE  TypeOK' /\ JobInv'
  <2>1. UNCHANGED <<dbVars, job, up, winsock, crashes>>
    BY <1>3 DEF Disconnect, Connect, Leave, procVars
  <2>2. TypeOK'
    BY <1>1, <1>3, <2>1, EmptyQueue DEF TypeOK, Disconnect, Connect, Leave, dbVars
  <2> QED
    BY <2>1, <2>2, JobUnchanged
<1>4. ASSUME NEW c \in Conns, NEW t \in {"CREATE", "AUTHENTICATE"}, NEW e \in Emails,
             NEW p \in Passwords, SendRequest(c, t, e, p)
      PROVE  TypeOK' /\ JobInv'
  <2>1. UNCHANGED <<dbVars, job, up, winsock, crashes, link>>
    BY <1>4 DEF SendRequest, procVars
  <2> DEFINE r == [type |-> t, email |-> e, password |-> p, requestId |-> sent[c] + 1]
  <2>2. sent[c] \in 0..MaxRequests /\ sent[c] < MaxRequests /\ MaxRequests \in Nat
    BY <1>4, BoundAssumption DEF SendRequest, TypeOK
  <2>3. r \in Request
    BY <2>2 DEF Request
  <2>4. Append(requests[c], r) \in Seq(Request)
    BY <2>3, Appended DEF TypeOK
  <2>5. /\ requests' = [requests EXCEPT ![c] = Append(requests[c], r)]
        /\ sent' = [sent EXCEPT ![c] = sent[c] + 1]
    BY <1>4 DEF SendRequest
  <2>6. requests' \in [Conns -> Seq(Request)] /\ sent' \in [Conns -> 0..MaxRequests]
    BY <2>2, <2>4, <2>5 DEF TypeOK
  <2>7. TypeOK'
    BY <1>1, <2>1, <2>6 DEF TypeOK, dbVars
  <2> QED
    BY <2>1, <2>7, JobUnchanged
<1>5. CASE LoopEnds
  <2>1. /\ UNCHANGED <<winsock, crashes, dbVars, job, sent>>
        /\ up' = FALSE /\ winsock = 0
        /\ link' = [c \in Conns |-> IF link[c] = "new" THEN "new" ELSE "gone"]
        /\ requests' = [c \in Conns |-> <<>>]
    BY <1>5 DEF LoopEnds, DropConnections
  <2>2. TypeOK'
    BY <1>1, <2>1, EmptyQueue DEF TypeOK, dbVars
  <2>3. job = NoJob
    BY <2>1 DEF JobInv
  <2> QED
    BY <1>2, <2>1, <2>2, <2>3 DEF JobInv
<1>6. CASE Crash
  <2>1. /\ UNCHANGED <<winsock, dbVars, sent>>
        /\ up' = FALSE /\ job' = NoJob /\ crashes < MaxCrashes /\ crashes' = crashes + 1
        /\ link' = [c \in Conns |-> IF link[c] = "new" THEN "new" ELSE "gone"]
        /\ requests' = [c \in Conns |-> <<>>]
    BY <1>6 DEF Crash, DropConnections
  <2>2. crashes' \in 0..MaxCrashes
    BY <2>1, BoundAssumption DEF TypeOK
  <2>3. TypeOK'
    BY <1>1, <2>1, <2>2, EmptyQueue DEF TypeOK, dbVars
  <2> QED
    BY <1>2, <2>1, <2>3 DEF JobInv
<1>7. CASE Restart
  <2>1. UNCHANGED <<crashes, dbVars, job, netVars>> /\ ~up /\ up' = TRUE /\ winsock' \in 1..2
    BY <1>7 DEF Restart
  <2>2. TypeOK'
    BY <1>1, <2>1 DEF TypeOK, dbVars, netVars
  <2>3. job = NoJob
    BY <2>1 DEF JobInv
  <2> QED
    BY <1>2, <2>1, <2>2, <2>3 DEF JobInv
<1>8. CASE UNCHANGED vars
  <2>1. TypeOK'
    BY <1>8 DEF TypeOK, vars
  <2>2. JobInv'
    BY <1>8, JobUnchanged DEF vars, dbVars
  <2> QED
    BY <1>2, <2>1, <2>2
<1> QED
  BY <1>2, <1>3, <1>4, <1>5, <1>6, <1>7, <1>8

LEMMA NextInv == Inv /\ [Next]_vars => Inv'
<1> SUFFICES ASSUME Inv, [Next]_vars PROVE Inv'
  OBVIOUS
<1>1. CASE \E c \in Conns : Receive(c)
  BY <1>1, ReceiveInv
<1>2. CASE InsertUser
  BY <1>2, InsertUserInv
<1>3. CASE InsertWebAuth
  BY <1>3, InsertWebAuthInv
<1>4. CASE Answer
  BY <1>4, AnswerInv
<1> QED
  BY <1>1, <1>2, <1>3, <1>4, OtherInv DEF Next

THEOREM Invariance == Spec => []Inv
BY InitInv, NextInv, PTL DEF Spec

\* The AuthServer's variables and tables keep their types.
THEOREM TypeCorrect == Spec => []TypeOK
<1>1. Inv => TypeOK
  BY DEF Inv
<1> QED
  BY <1>1, Invariance, PTL

\* web_auth never has two rows for one email, whatever crashes between its statements.
THEOREM OneAccountPerEmail == Spec => []EmailsUnique
<1>1. Inv => EmailsUnique
  BY DEF Inv, TablesOK
<1> QED
  BY <1>1, Invariance, PTL

\* Every account names a row of user.
THEOREM AccountsNameUsers == Spec => []UserRowsExist
<1>1. Inv => UserRowsExist
  BY DEF Inv, TablesOK
<1> QED
  BY <1>1, Invariance, PTL

\* As long as ids fit into 16 bits, no two accounts share one.
THEOREM OneAccountPerUser == Spec => []UserIdsUnique
<1>1. Inv => UserIdsUnique
  BY DEF Inv, TablesOK
<1> QED
  BY <1>1, Invariance, PTL

\* An id that was ever reported with a success belongs to a stored account.
THEOREM ReportsAreTrue == Spec => []ReportedIdsAreStored
<1>1. Inv => ReportedIdsAreStored
  BY DEF Inv
<1> QED
  BY <1>1, Invariance, PTL
-----------------------------------------------------------------------------
(***************************************************************************)
(* Rows of user without an account.                                        *)
(***************************************************************************)
\* The ids given since the start that read as 0.
ZeroIds(last) == {n \in InitialMaxId + 1..last : n % IdModulus = 0}

LEMMA ZeroIdsGrow ==
    ASSUME NEW last \in Nat, last >= InitialMaxId
    PROVE  /\ Cardinality(ZeroIds(last)) \in Nat
           /\ Cardinality(ZeroIds(last + 1))
                = Cardinality(ZeroIds(last)) + (IF (last + 1) % IdModulus = 0 THEN 1 ELSE 0)
<1>1. InitialMaxId \in Nat
  BY TableAssumption
<1>2. IsFiniteSet(ZeroIds(last))
  <2>1. IsFiniteSet(InitialMaxId + 1..last)
    BY <1>1, FS_Interval
  <2> QED
    BY <2>1, FS_Subset DEF ZeroIds
<1>3. last + 1 \notin ZeroIds(last)
  BY DEF ZeroIds
<1>4. CASE (last + 1) % IdModulus = 0
  <2>1. ZeroIds(last + 1) = ZeroIds(last) \cup {last + 1}
    BY <1>1, <1>4 DEF ZeroIds
  <2> QED
    BY <1>2, <1>3, <1>4, <2>1, FS_AddElement, FS_CardinalityType
<1>5. CASE (last + 1) % IdModulus # 0
  <2>1. ZeroIds(last + 1) = ZeroIds(last)
    BY <1>1, <1>5 DEF ZeroIds
  <2> QED
    BY <1>2, <1>5, <2>1, FS_CardinalityType
<1> QED
  BY <1>4, <1>5

\* The request in hand accounts for one row, until web_auth has its row or its id has
\* turned out to be 0.
Unfinished == IF job # NoJob /\ job.step = "insert_web_auth" /\ ReadUserMaxId # 0 THEN 1 ELSE 0

OrphanInv ==
    /\ maxUserId >= InitialMaxId
    /\ (maxUserId - InitialMaxId) - (Len(webAuth) - Len(InitialRows))
         <= crashes + Unfinished + Cardinality(ZeroIds(maxUserId))

LEMMA InitOrphanInv == Init => OrphanInv
<1> SUFFICES ASSUME Init PROVE OrphanInv
  OBVIOUS
<1>1. /\ maxUserId = InitialMaxId /\ webAuth = InitialRows /\ job = NoJob /\ crashes = 0
      /\ InitialMaxId \in Nat /\ Len(InitialRows) \in Nat
  BY TableAssumption, LenProperties DEF Init
<1>2. Unfinished = 0 /\ Cardinality(ZeroIds(maxUserId)) \in Nat
  BY <1>1, ZeroIdsGrow DEF Unfinished
<1> HIDE DEF Init
<1> QED
  BY <1>1, <1>2 DEF OrphanInv

LEMMA NextOrphanInv == Inv /\ OrphanInv /\ [Next]_vars => OrphanInv'
<1> SUFFICES ASSUME Inv, OrphanInv, [Next]_vars PROVE OrphanInv'
  OBVIOUS
<1> DEFINE zeros == Cardinality(ZeroIds(maxUserId))
<1>1. /\ maxUserId \in Nat /\ InitialMaxId \in Nat /\ maxUserId >= InitialMaxId
      /\ Len(webAuth) \in Nat /\ Len(InitialRows) \in Nat /\ crashes \in Nat
      /\ zeros \in Nat /\ Unfinished \in 0..1
  BY TableAssumption, BoundAssumption, LenProperties, ZeroIdsGrow
     DEF Inv, TypeOK, OrphanInv, Unfinished
<1>2. (maxUserId - InitialMaxId) - (Len(webAuth) - Len(InitialRows)) <= crashes + Unfinished + zeros
  BY DEF OrphanInv
<1>3. CASE InsertUser
  <2>1. /\ job \in Job /\ job.step = "insert_user"
        /\ maxUserId' = maxUserId + 1 /\ webAuth' = webAuth /\ crashes' = crashes
        /\ job' = [job EXCEPT !.step = "insert_web_auth"]
    BY <1>3 DEF InsertUser, At, Inv, TypeOK, procVars
  <2>2. job' \in Job /\ job'.step = "insert_web_auth"
    BY <2>1 DEF Job, Step
  <2>3. Unfinished = 0
    BY <2>1 DEF Unfinished
  <2>4. Unfinished' = IF (maxUserId + 1) % IdModulus # 0 THEN 1 ELSE 0
    BY <2>1, <2>2, JobAssumption DEF Unfinished, ReadUserMaxId
  <2>5. Cardinality(ZeroIds(maxUserId))' = zeros + (IF (maxUserId + 1) % IdModulus = 0 THEN 1 ELSE 0)
    BY <1>1, <2>1, ZeroIdsGrow DEF ZeroIds
  <2> HIDE DEF zeros
  <2>6. Unfinished' + Cardinality(ZeroIds(maxUserId))' = zeros + 1
    BY <1>1, <2>4, <2>5
  <2>7. (maxUserId + 1 - InitialMaxId) - (Len(webAuth) - Len(InitialRows))
          <= crashes + (Unfinished' + Cardinality(ZeroIds(maxUserId))')
    <3> HIDE DEF OrphanInv
    <3> QED
      BY <1>1, <1>2, <2>3, <2>6
  <2>8. Unfinished' \in Nat /\ Cardinality(ZeroIds(maxUserId))' \in Nat
    BY <1>1, <2>4, <2>5
  <2> QED
    BY <1>1, <2>1, <2>7, <2>8 DEF OrphanInv
<1>4. CASE InsertWebAuth
  <2>1. /\ job \in Job /\ job # NoJob /\ job.step = "insert_web_auth"
        /\ maxUserId' = maxUserId /\ crashes' = crashes
    BY <1>4 DEF InsertWebAuth, At, Inv, TypeOK, procVars
  <2>2. Cardinality(ZeroIds(maxUserId))' = zeros
    BY <2>1 DEF ZeroIds
  <2>3. Unfinished' \in 0..1
    BY DEF Unfinished
  <2>4. CASE ReadUserMaxId = 0
    <3>1. webAuth' = webAuth /\ Unfinished = 0
      BY <1>4, <2>4 DEF InsertWebAuth, Unfinished
    <3> HIDE DEF zeros
    <3> QED
      BY <1>1, <1>2, <2>1, <2>2, <2>3, <3>1 DEF OrphanInv
  <2>5. CASE ReadUserMaxId # 0
    <3> DEFINE row == [email |-> job.request.email, password |-> job.request.password,
                       userId |-> ReadUserMaxId]
    <3>1. row \in Row /\ webAuth' = Append(webAuth, row)
      BY <1>4, <2>5, InsertWebAuthEffect
    <3>2. Len(webAuth') = Len(webAuth) + 1
      BY <3>1, Appended DEF Inv, TypeOK
    <3>3. Unfinished = 1
      BY <2>1, <2>5 DEF Unfinished
    <3> HIDE DEF zeros
    <3> QED
      BY <1>1, <1>2, <2>1, <2>2, <2>3, <3>2, <3>3 DEF OrphanInv
  <2> QED
    BY <2>4, <2>5
<1>5. CASE Crash
  <2>1. maxUserId' = maxUserId /\ webAuth' = webAuth /\ crashes' = crashes + 1 /\ job' = NoJob
    BY <1>5 DEF Crash, dbVars
  <2>2. Cardinality(ZeroIds(maxUserId))' = zeros /\ Unfinished' = 0
    BY <2>1 DEF ZeroIds, Unfinished
  <2> HIDE DEF zeros
  <2> QED
    BY <1>1, <1>2, <2>1, <2>2 DEF OrphanInv
<1>6. CASE (\E c \in Conns : Receive(c)) \/ Answer
  <2>1. maxUserId' = maxUserId /\ webAuth' = webAuth /\ crashes' = crashes
    BY <1>6 DEF Receive, Answer, dbVars, procVars
  <2>2. Unfinished = 0
    BY <1>6 DEF Receive, Answer, At, Unfinished
  <2>3. Cardinality(ZeroIds(maxUserId))' = zeros /\ Unfinished' \in 0..1
    BY <2>1 DEF ZeroIds, Unfinished
  <2> HIDE DEF zeros
  <2> QED
    BY <1>1, <1>2, <2>1, <2>2, <2>3 DEF OrphanInv
<1>7. CASE \/ \E c \in Conns : Disconnect(c) \/ Connect(c) \/ Leave(c)
           \/ \E c \in Conns, t \in {"CREATE", "AUTHENTICATE"}, e \in Emails, p \in Passwords :
                 SendRequest(c, t, e, p)
           \/ LoopEnds \/ Restart \/ UNCHANGED vars
  <2>1. UNCHANGED <<maxUserId, webAuth, crashes, job>>
    BY <1>7 DEF Disconnect, Connect, Leave, SendRequest, LoopEnds, Restart, vars, dbVars, procVars
  <2>2. UNCHANGED OrphanInv
    BY <2>1 DEF OrphanInv, Unfinished, ReadUserMaxId, ZeroIds
  <2> QED
    BY <2>2
<1> QED
  BY <1>3, <1>4, <1>5, <1>6, <1>7 DEF Next

\* Apart from the request in hand and from ids that read as 0, only a crash leaves a row of
\* user without an account.
THEOREM OrphansAreExplained == Spec => []OrphansOnlyFromCrashes
<1>1. Inv /\ OrphanInv => OrphansOnlyFromCrashes
  <2> SUFFICES ASSUME Inv, OrphanInv PROVE OrphansOnlyFromCrashes
    OBVIOUS
  <2> DEFINE zeros == Cardinality(ZeroIds(maxUserId))
             held == IF job = NoJob THEN 0 ELSE 1
  <2>1. /\ maxUserId \in Nat /\ InitialMaxId \in Nat
        /\ Len(webAuth) \in Nat /\ Len(InitialRows) \in Nat /\ crashes \in Nat
        /\ zeros \in Nat
    BY TableAssumption, BoundAssumption, LenProperties, ZeroIdsGrow DEF Inv, TypeOK, OrphanInv
  <2>2. (maxUserId - InitialMaxId) - (Len(webAuth) - Len(InitialRows))
          <= crashes + Unfinished + zeros
    BY DEF OrphanInv
  <2> HIDE DEF zeros
  <2>3. Unfinished \in 0..1 /\ held \in 0..1 /\ Unfinished <= held
    BY DEF Unfinished
  <2> HIDE DEF held
  <2>4. (maxUserId - InitialMaxId) - (Len(webAuth) - Len(InitialRows))
          <= crashes + held + zeros
    BY <2>1, <2>2, <2>3
  <2> QED
    BY <2>4 DEF OrphansOnlyFromCrashes, ZeroIds, zeros, held
<1> QED
  BY <1>1, InitOrphanInv, NextOrphanInv, Invariance, PTL DEF Spec
-----------------------------------------------------------------------------
(***************************************************************************)
(* The refinement.                                                         *)
(***************************************************************************)
Account == [password : Passwords, userId : Nat]

AbstractAccounts == [k \in Keys |-> AccountFor(k)]
AbstractJob == IF job = NoJob THEN NoJob
               ELSE [conn |-> job.conn, request |-> job.request, verdict |-> job.verdict,
                     userId |-> job.userId]

LEMMA NoRowsNoAccount ==
    ASSUME NEW e \in Emails, RowsOf(e) = {}
    PROVE  AccountFor(Key[e]) = NoAccount
BY DEF RowsOf, AccountFor

LEMMA RowsAreAccounts ==
    ASSUME TypeOK, EmailsUnique, NEW e \in Emails, RowsOf(e) # {}
    PROVE  /\ AccountFor(Key[e])
                = [password |-> RowFor(e).password, userId |-> RowFor(e).userId]
           /\ AccountFor(Key[e]) \in Account
           /\ AccountFor(Key[e]) # NoAccount
<1>1. AccountFor(Key[e]) = [password |-> RowFor(e).password, userId |-> RowFor(e).userId]
  BY DEF AccountFor, RowsOf, RowFor
<1>2. RowFor(e).password \in Passwords /\ RowFor(e).userId \in Nat
  BY RowForIsARow DEF Row
<1> QED
  BY <1>1, <1>2, DataAssumption DEF Account

LEMMA AccountsHaveTypes ==
    ASSUME TypeOK, EmailsUnique
    PROVE  AbstractAccounts \in [Keys -> {NoAccount} \cup Account]
<1>1. ASSUME NEW k \in Keys PROVE AccountFor(k) \in {NoAccount} \cup Account
  <2>1. PICK e \in Emails : k = Key[e]
    BY DEF Keys
  <2> QED
    BY <2>1, NoRowsNoAccount, RowsAreAccounts
<1> QED
  BY <1>1 DEF AbstractAccounts

LEMMA AccountsUnchanged ==
    ASSUME UNCHANGED webAuth
    PROVE  UNCHANGED AbstractAccounts
BY DEF AbstractAccounts, AccountFor

\* A row for an email without one gives it an account and leaves the others alone.
LEMMA AccountAdded ==
    ASSUME TypeOK, EmailsUnique, NEW e \in Emails, RowsOf(e) = {}, NEW row \in Row, row.email = e,
           webAuth' = Append(webAuth, row)
    PROVE  /\ AbstractAccounts'
                = [AbstractAccounts EXCEPT ![Key[e]] = AbstractAccounts'[Key[e]]]
           /\ AbstractAccounts'[Key[e]] = [password |-> row.password, userId |-> row.userId]
<1> DEFINE n == Len(webAuth)
           Rows(k) == {i \in 1..Len(webAuth) : Key[webAuth[i].email] = k}
           Rows1(k) == {i \in 1..Len(webAuth') : Key[webAuth'[i].email] = k}
<1>1. /\ n \in Nat /\ Len(webAuth') = n + 1
      /\ \A i \in 1..n : webAuth'[i] = webAuth[i]
      /\ webAuth'[n + 1] = row
  BY Appended DEF TypeOK
<1>2. \A i \in 1..n + 1 : i \in 1..n \/ i = n + 1
  BY <1>1
<1>3. ASSUME NEW k, k # Key[e]
      PROVE  AccountFor(k)' = AccountFor(k)
  <2>1. Rows1(k) = Rows(k)
    BY <1>1, <1>2, <1>3
  <2> DEFINE last == CHOOSE i \in Rows(k) : \A j \in Rows(k) : j <= i
             last1 == CHOOSE i \in Rows1(k) : \A j \in Rows1(k) : j <= i
  <2>2. last1 = last
    BY <2>1
  <2>3. /\ AccountFor(k) = IF Rows(k) = {} THEN NoAccount
                           ELSE [password |-> webAuth[last].password,
                                 userId |-> webAuth[last].userId]
        /\ AccountFor(k)' = IF Rows1(k) = {} THEN NoAccount
                            ELSE [password |-> webAuth'[last1].password,
                                  userId |-> webAuth'[last1].userId]
    BY DEF AccountFor
  <2>4. CASE Rows(k) = {}
    BY <2>1, <2>4, <2>3
  <2>5. CASE Rows(k) # {}
    <3>1. PICK m \in Rows(k) : TRUE
      BY <2>5
    <3>2. m \in 1..n /\ \A j \in Rows(k) : j = m
      BY <3>1 DEF EmailsUnique
    <3>3. \A j \in Rows(k) : j <= m
      BY <1>1, <3>2
    <3>4. last \in Rows(k)
      BY <3>1, <3>3
    <3>5. last = m
      BY <3>2, <3>4
    <3>6. webAuth'[last1] = webAuth[last]
      <4> HIDE DEF last, last1, Rows
      <4> QED
        BY <1>1, <2>2, <3>2, <3>5
    <3>7. Rows1(k) # {}
      BY <2>1, <2>5
    <3> QED
      <4> HIDE DEF last, last1, Rows, Rows1
      <4> QED
        BY <2>5, <2>3, <3>6, <3>7
  <2> QED
    BY <2>4, <2>5
<1>4. AccountFor(Key[e])' = [password |-> row.password, userId |-> row.userId]
  <2>1. Rows1(Key[e]) = {n + 1}
    BY <1>1, <1>2 DEF RowsOf
  <2>2. (CHOOSE i \in {n + 1} : \A j \in {n + 1} : j <= i) = n + 1
    BY <1>1
  <2> DEFINE last1 == CHOOSE i \in Rows1(Key[e]) : \A j \in Rows1(Key[e]) : j <= i
  <2>3. last1 = n + 1
    BY <2>1, <2>2
  <2>4. AccountFor(Key[e])' = IF Rows1(Key[e]) = {} THEN NoAccount
                              ELSE [password |-> webAuth'[last1].password,
                                    userId |-> webAuth'[last1].userId]
    BY DEF AccountFor
  <2> QED
    <3> HIDE DEF last1, Rows1
    <3> QED
      BY <1>1, <2>1, <2>3, <2>4
<1>5. Key[e] \in Keys
  BY DEF Keys
<1> QED
  BY <1>3, <1>4, <1>5 DEF AbstractAccounts

\* The initial tables are some table of accounts.
LEMMA InitRefines == Init => Accounts!Init
<1> SUFFICES ASSUME Init PROVE Accounts!Init
  OBVIOUS
<1>1. TypeOK /\ EmailsUnique
  BY InitInv DEF Inv, TablesOK
<1>2. AbstractAccounts \in [Keys -> {NoAccount} \cup Account]
  BY <1>1, AccountsHaveTypes
<1>3. job = NoJob /\ answers = [c \in Conns |-> <<>>]
  BY DEF Init
<1> QED
  BY <1>2, <1>3 DEF Accounts!Init, Accounts!Keys, Keys, AbstractAccounts, Account

LEMMA JobIsNotNoJob == (\A j \in Job : j # NoJob) /\ (\A j \in Pending : j # NoJob)
BY JobAssumption

LEMMA PendingCommitted ==
    ASSUME NEW j \in Pending, NEW v \in Outcome, NEW u \in Nat
    PROVE  [j EXCEPT !.verdict = v, !.userId = u]
             = [conn |-> j.conn, request |-> j.request, verdict |-> v, userId |-> u]
<1> DEFINE k == [j EXCEPT !.verdict = v]
<1>1. /\ k \in Pending
      /\ k = [conn |-> j.conn, request |-> j.request, verdict |-> v, userId |-> j.userId]
  BY DEF Pending
<1> HIDE DEF k
<1>2. [k EXCEPT !.userId = u]
        = [conn |-> j.conn, request |-> j.request, verdict |-> v, userId |-> u]
  BY <1>1 DEF Pending
<1> QED
  BY <1>2 DEF k

\* A request is taken on and decided, or, for a new account, taken on.
LEMMA ReceiveRefines ==
    ASSUME Inv, NEW c \in Conns, Receive(c)
    PROVE  \E r \in Accounts!Request : Accounts!Judge(c, r) \/ Accounts!Begin(c, r)
<1> DEFINE r == Head(requests[c])
<1>1. TypeOK /\ EmailsUnique
  BY DEF Inv, TablesOK
<1>2. /\ r \in Request
      /\ job' \in Job /\ job'.conn = c /\ job'.request = r /\ job'.verdict = Verdict(r)
      /\ job'.userId = IF Verdict(r) = "SUCCESS" THEN RowFor(r.email).userId ELSE 0
      /\ Verdict(r) = "OPEN" => r.type = "CREATE" /\ RowsOf(r.email) = {}
      /\ Verdict(r) = "SUCCESS" => RowsOf(r.email) # {}
  BY <1>1, ReceiveEffect
<1>3. job = NoJob /\ UNCHANGED <<webAuth, answers>>
  BY DEF Receive, dbVars
<1> HIDE DEF r
<1>4. r.email \in Emails /\ Key[r.email] \in Keys
  BY <1>2 DEF Request, Keys
<1>5. UNCHANGED AbstractAccounts
  BY <1>3, AccountsUnchanged
<1>6. AbstractAccounts[Key[r.email]] = AccountFor(Key[r.email])
  BY <1>4 DEF AbstractAccounts
<1>7. RowsOf(r.email) = {} => AbstractAccounts[Key[r.email]] = NoAccount
  BY <1>4, <1>6, NoRowsNoAccount
<1>8. RowsOf(r.email) # {} =>
         /\ AbstractAccounts[Key[r.email]]
              = [password |-> RowFor(r.email).password, userId |-> RowFor(r.email).userId]
         /\ AbstractAccounts[Key[r.email]] # NoAccount
  BY <1>1, <1>4, <1>6, RowsAreAccounts
<1>9. /\ AbstractJob = NoJob
      /\ AbstractJob' = [conn |-> c, request |-> r, verdict |-> Verdict(r),
                         userId |-> job'.userId]
  BY <1>2, <1>3, JobIsNotNoJob DEF AbstractJob
<1>10. r \in Accounts!Request
  BY <1>2 DEF Accounts!Request, Request
<1>11. CASE Verdict(r) = "OPEN"
  <2>1. r.password \notin ShortPasswords
    BY <1>2, <1>11 DEF Verdict, CreateVerdict
  <2>2. Accounts!Verdicts(r) = {}
    BY <1>2, <1>7, <1>11, <2>1 DEF Accounts!Verdicts, AbstractAccounts
  <2>3. job'.userId = 0
    BY <1>2, <1>11
  <2>4. Accounts!Begin(c, r)
    BY <1>2, <1>3, <1>5, <1>9, <1>11, <2>2, <2>3
       DEF Accounts!Begin, AbstractAccounts, AbstractJob
  <2> QED
    BY <1>10, <2>4
<1>12. CASE Verdict(r) # "OPEN"
  <2>1. Verdict(r) \in Accounts!Verdicts(r)
    <3>1. CASE r.type = "CREATE"
      BY <1>7, <1>8, <1>12, <3>1
         DEF Verdict, CreateVerdict, Accounts!Verdicts, AbstractAccounts
    <3>2. CASE r.type # "CREATE"
      BY <1>7, <1>8, <3>2
         DEF Verdict, AuthenticateVerdict, Accounts!Verdicts, Accounts!Matches, AbstractAccounts
    <3> QED
      BY <3>1, <3>2
  <2>2. job'.userId = IF Verdict(r) = "SUCCESS" THEN AbstractAccounts[Key[r.email]].userId
                      ELSE 0
    BY <1>2, <1>8
  <2>3. Accounts!Judge(c, r)
    BY <1>3, <1>5, <1>9, <2>1, <2>2 DEF Accounts!Judge, AbstractAccounts, AbstractJob
  <2> QED
    BY <1>10, <2>3
<1> QED
  BY <1>11, <1>12

\* The INSERT into user is not seen.
LEMMA InsertUserRefines ==
    ASSUME Inv, InsertUser
    PROVE  UNCHANGED <<AbstractAccounts, AbstractJob, answers>>
<1>1. /\ job \in Job /\ job # NoJob
      /\ job' = [job EXCEPT !.step = "insert_web_auth"]
      /\ UNCHANGED <<webAuth, answers>>
  BY DEF InsertUser, At, Inv, TypeOK
<1>2. /\ job' \in Job
      /\ job'.conn = job.conn /\ job'.request = job.request
      /\ job'.verdict = job.verdict /\ job'.userId = job.userId
  BY <1>1 DEF Job, Step
<1> QED
  BY <1>1, <1>2, AccountsUnchanged, JobIsNotNoJob DEF AbstractJob

\* The INSERT into web_auth stores the account; it is left out if the id reads as 0.
LEMMA InsertWebAuthRefines ==
    ASSUME Inv, InsertWebAuth
    PROVE  Accounts!Commit \/ Accounts!GiveUp
<1>1. /\ job \in Job /\ job # NoJob /\ job.step = "insert_web_auth"
      /\ UNCHANGED answers
      /\ job.verdict = "OPEN" /\ job.userId = 0 /\ RowsOf(job.request.email) = {}
      /\ TypeOK /\ EmailsUnique
  BY DEF InsertWebAuth, At, Inv, TypeOK, JobInv, TablesOK
<1>2. job.request.email \in Emails
  BY <1>1 DEF Job, Request
<1>3. AbstractJob = [conn |-> job.conn, request |-> job.request, verdict |-> "OPEN", userId |-> 0]
  BY <1>1 DEF AbstractJob
<1>5. AbstractJob \in Pending /\ AbstractJob # NoJob /\ AbstractJob.verdict = "OPEN"
  <2>1. job.conn \in Conns /\ job.request \in Request
    BY <1>1 DEF Job
  <2>2. AbstractJob \in Pending
    BY <1>3, <2>1 DEF Pending, Outcome
  <2> QED
    BY <1>3, <2>2, JobIsNotNoJob
<1>4. CASE ReadUserMaxId = 0
  <2>1. /\ webAuth' = webAuth
        /\ job' = [job EXCEPT !.step = "answer", !.verdict = "INTERNAL_SERVER_ERROR"]
    BY <1>4 DEF InsertWebAuth
  <2>2. job' = [conn |-> job.conn, request |-> job.request, step |-> "answer",
                verdict |-> "INTERNAL_SERVER_ERROR", userId |-> job.userId]
    <3>1. "INTERNAL_SERVER_ERROR" \in Outcome
      BY DEF Outcome
    <3>2. [job EXCEPT !.step = "answer", !.verdict = "INTERNAL_SERVER_ERROR"]
            = [conn |-> job.conn, request |-> job.request, step |-> "answer",
               verdict |-> "INTERNAL_SERVER_ERROR", userId |-> job.userId]
      BY <1>1, <3>1, JobAnswered, Zenon
    <3> QED
      BY <2>1, <3>2, Zenon
  <2>3. job' \in Job
    BY <1>1, <2>2 DEF Job, Step, Outcome
  <2>4. AbstractJob' = [conn |-> job.conn, request |-> job.request,
                        verdict |-> "INTERNAL_SERVER_ERROR", userId |-> 0]
    BY <1>1, <2>2, <2>3, JobIsNotNoJob DEF AbstractJob
  <2>5. AbstractJob' = [AbstractJob EXCEPT !.verdict = "INTERNAL_SERVER_ERROR"]
    BY <1>3, <2>4
  <2>6. UNCHANGED AbstractAccounts
    BY <2>1, AccountsUnchanged
  <2>7. Accounts!GiveUp
    BY <1>1, <1>5, <2>5, <2>6 DEF Accounts!GiveUp, AbstractAccounts, AbstractJob
  <2> QED
    BY <2>7
<1>6. CASE ReadUserMaxId # 0
  <2> DEFINE u == ReadUserMaxId
             e == job.request.email
             p == job.request.password
             row == [email |-> e, password |-> p, userId |-> u]
  <2>1. /\ row \in Row /\ webAuth' = Append(webAuth, row)
        /\ u \in 1..maxUserId
        /\ job' \in Job
        /\ job' = [conn |-> job.conn, request |-> job.request, step |-> "answer",
                   verdict |-> "SUCCESS", userId |-> u]
    BY <1>6, InsertWebAuthEffect
  <2>2. row.email = e /\ row.password = p /\ row.userId = u
    OBVIOUS
  <2> HIDE DEF u, row
  <2>3. u \in Nat \ {0}
    BY <1>1, <2>1 DEF TypeOK
  <2>4. /\ AbstractAccounts'
             = [AbstractAccounts EXCEPT ![Key[e]] = AbstractAccounts'[Key[e]]]
        /\ AbstractAccounts'[Key[e]] = [password |-> p, userId |-> u]
    BY <1>1, <1>2, <2>1, <2>2, AccountAdded
  <2>5. AbstractJob' = [conn |-> job.conn, request |-> job.request, verdict |-> "SUCCESS",
                        userId |-> u]
    BY <2>1, JobIsNotNoJob DEF AbstractJob
  <2>6. /\ AbstractAccounts'[Key[e]].userId = u
        /\ AbstractAccounts'[Key[e]] \in [password : {p}, userId : Nat \ {0}]
    BY <2>3, <2>4
  <2>7. AbstractJob' = [AbstractJob EXCEPT !.verdict = "SUCCESS",
                                          !.userId = AbstractAccounts'[Key[e]].userId]
    <3>1. "SUCCESS" \in Outcome /\ u \in Nat
      BY <2>3 DEF Outcome
    <3>2. AbstractJob.conn = job.conn /\ AbstractJob.request = job.request
      BY <1>3
    <3>3. [AbstractJob EXCEPT !.verdict = "SUCCESS", !.userId = u]
            = [conn |-> AbstractJob.conn, request |-> AbstractJob.request,
               verdict |-> "SUCCESS", userId |-> u]
      BY <1>5, <3>1, PendingCommitted, Zenon
    <3> QED
      BY <2>5, <2>6, <3>2, <3>3, Zenon
  <2>8. Accounts!Commit
    BY <1>1, <1>3, <1>5, <2>4, <2>6, <2>7 DEF Accounts!Commit, AbstractAccounts, AbstractJob
  <2> QED
    BY <2>8
<1> QED
  BY <1>4, <1>6

LEMMA AnswerRefines ==
    ASSUME Inv, Answer
    PROVE  Accounts!Answer \/ Accounts!Forget
<1>1. /\ job \in Job /\ job # NoJob /\ job' = NoJob /\ job.verdict # "OPEN"
      /\ UNCHANGED webAuth
  BY DEF Answer, At, Inv, TypeOK, JobInv, dbVars
<1>2. UNCHANGED AbstractAccounts
  BY <1>1, AccountsUnchanged
<1>3. AbstractJob = [conn |-> job.conn, request |-> job.request, verdict |-> job.verdict,
                     userId |-> job.userId]
  BY <1>1 DEF AbstractJob
<1>4. AbstractJob # NoJob /\ AbstractJob' = NoJob
  <2>1. AbstractJob \in Pending
    BY <1>1, <1>3 DEF Job, Pending
  <2> QED
    BY <1>1, <2>1, JobIsNotNoJob DEF AbstractJob
<1>5. CASE answers' = [answers EXCEPT ![job.conn] = Append(@, AnswerTo(job))]
  <2>1. Accounts!Answer
    BY <1>1, <1>2, <1>3, <1>4, <1>5
       DEF Accounts!Answer, AnswerTo, AbstractAccounts, AbstractJob
  <2> QED
    BY <2>1
<1>6. CASE UNCHANGED answers
  <2>1. Accounts!Forget
    BY <1>2, <1>4, <1>6 DEF Accounts!Forget, AbstractAccounts, AbstractJob
  <2> QED
    BY <2>1
<1> QED
  BY <1>5, <1>6 DEF Answer

LEMMA CrashRefines ==
    ASSUME Inv, Crash
    PROVE  Accounts!Forget \/ UNCHANGED <<AbstractAccounts, AbstractJob, answers>>
<1>1. job' = NoJob /\ UNCHANGED <<webAuth, answers>>
  BY DEF Crash, dbVars
<1>2. UNCHANGED AbstractAccounts /\ AbstractJob' = NoJob
  BY <1>1, AccountsUnchanged DEF AbstractJob
<1>3. CASE AbstractJob = NoJob
  BY <1>1, <1>2, <1>3
<1>4. CASE AbstractJob # NoJob
  <2>1. Accounts!Forget
    BY <1>1, <1>2, <1>4 DEF Accounts!Forget, AbstractAccounts, AbstractJob
  <2> QED
    BY <2>1
<1> QED
  BY <1>3, <1>4

\* The network and the start of the process are not seen.
LEMMA OthersAreNotSeen ==
    ASSUME \/ \E c \in Conns : Disconnect(c) \/ Connect(c) \/ Leave(c)
           \/ \E c \in Conns, t \in {"CREATE", "AUTHENTICATE"}, e \in Emails, p \in Passwords :
                 SendRequest(c, t, e, p)
           \/ LoopEnds \/ Restart \/ UNCHANGED vars
    PROVE  UNCHANGED <<AbstractAccounts, AbstractJob, answers>>
<1>1. UNCHANGED <<webAuth, job, answers>>
  BY DEF Disconnect, Connect, Leave, SendRequest, LoopEnds, Restart, vars, dbVars
<1> QED
  BY <1>1, AccountsUnchanged DEF AbstractJob

LEMMA NextRefines == Inv /\ [Next]_vars => [Accounts!Next]_Accounts!vars
<1> SUFFICES ASSUME Inv, [Next]_vars PROVE [Accounts!Next]_Accounts!vars
  OBVIOUS
<1>1. UNCHANGED <<AbstractAccounts, AbstractJob, answers>> => UNCHANGED Accounts!vars
  BY DEF Accounts!vars, AbstractAccounts, AbstractJob
<1>2. CASE \E c \in Conns : Receive(c)
  BY <1>2, ReceiveRefines DEF Accounts!Next
<1>3. CASE InsertUser
  BY <1>1, <1>3, InsertUserRefines
<1>4. CASE InsertWebAuth
  BY <1>4, InsertWebAuthRefines DEF Accounts!Next
<1>5. CASE Answer
  BY <1>5, AnswerRefines DEF Accounts!Next
<1>6. CASE Crash
  BY <1>1, <1>6, CrashRefines DEF Accounts!Next
<1>7. CASE \/ \E c \in Conns : Disconnect(c) \/ Connect(c) \/ Leave(c)
           \/ \E c \in Conns, t \in {"CREATE", "AUTHENTICATE"}, e \in Emails, p \in Passwords :
                 SendRequest(c, t, e, p)
           \/ LoopEnds \/ Restart \/ UNCHANGED vars
  BY <1>1, <1>7, OthersAreNotSeen
<1> QED
  BY <1>2, <1>3, <1>4, <1>5, <1>6, <1>7 DEF Next

\* The AuthServer with its statements, crashes and restarts implements the account store.
THEOREM Refinement == Spec => ImplementsAccountStore
<1>1. Spec => Accounts!Spec
  BY InitRefines, NextRefines, Invariance, PTL DEF Spec, Accounts!Spec
<1> QED
  BY <1>1 DEF ImplementsAccountStore
=============================================================================
