---------------------------- MODULE SessionProofs ----------------------------
(* Safety of Session: for every traffic, any set of messages and any bounds,
   and then what the log promises of polite traffic.                       *)
EXTENDS Traffic, SumsProofs, SequenceTheorems

\* What the bodies and the time marks need in addition to the properties.
Marks == s.status_time <= now
Lengths == /\ cp.st = "body" => cp.left > 0
           /\ sp.st = "body" => sp.left > 0

\* The part of the inductive invariant that is about the program's own state.
Core == /\ cp \in ParserType /\ sp \in ParserType /\ s \in SessionType
        /\ hits \in Nat /\ now \in Nat /\ heap \in Nat /\ log \in Seq(LineType)
        /\ NothingUnreported
        /\ HitsCoverLog
        /\ Owned(s) <= heap
        /\ Marks
        /\ Lengths

\* The inductive invariant.
IInv == /\ req \in [k : Nat, meth : Words, host : BOOLEAN, todo : Seq(Token)]
        /\ rsp \in [k : Nat, sent : Nat, code : Nat, eof : BOOLEAN, todo : Seq(Token)]
        /\ open \in BOOLEAN
        /\ Core

-----------------------------------------------------------------------------
(* What each callback leaves in the session.                               *)

\* A session whose time marks are not in the future.
Sane(x) == x \in SessionType /\ x.status_time <= now

\* y holds what x holds on behalf of the request.
SameRequest(x, y) ==
  /\ y.need_report = x.need_report
  /\ y.path = x.path /\ y.host = x.host /\ y.cur_field = x.cur_field
  /\ y.last_request_header = x.last_request_header /\ y.req_time = x.req_time

\* What a session owns is counted by numbers.
LEMMA OwnedLemma ==
  ASSUME NEW x \in SessionType
  PROVE  /\ Strings(x) \in Nat /\ Headers(x) \in Nat /\ Len(x.body) \in Nat
         /\ Owned(x) \in Nat
<1>1. Strings(x) \in Nat
  BY DEF Strings
<1>2. Headers(x) \in Nat
  BY DEF SessionType, Headers
<1>3. Len(x.body) \in Nat
  BY DEF SessionType
<1> QED  BY <1>1, <1>2, <1>3 DEF Owned

\* A time reported is not negative.
LEMMA ElapsedLemma ==
  ASSUME NEW x, Sane(x), now \in Nat
  PROVE  Elapsed(x) \in Nat
  BY DEF Sane, SessionType, Elapsed

\* session_start leaves an empty session and two parsers between messages.
LEMMA StartLemma ==
  ASSUME now \in Nat
  PROVE  /\ Sane(session_init)
         /\ session_init.need_report = 0
         /\ session_init.path = None /\ session_init.host = None
         /\ session_init.cur_field = "none"
         /\ session_init.last_request_header = 0 /\ session_init.req_time = 0
         /\ Owned(session_init) = 0
         /\ http_parser_init \in ParserType
         /\ http_parser_init.st = "start"
<1>1. session_init \in SessionType
  <2>1. None \in Value  BY DEF None, Value
  <2> QED  BY <2>1, SMTT(30) DEF SessionType, session_init, Words
<1>2. session_init.status_time <= now
  BY DEF session_init
<1>3. Owned(session_init) = 0
  BY DEF session_init, Owned, Strings, Headers
<1>4. http_parser_init \in ParserType
  BY DEF ParserType, http_parser_init, Words
<1>5. http_parser_init.st = "start"
  BY DEF http_parser_init
<1> QED  BY <1>1, <1>2, <1>3, <1>4, <1>5 DEF Sane, session_init

\* request_begin opens the exchange and allocates nothing.
LEMMA BeginLemma ==
  ASSUME NEW x, Sane(x), now \in Nat
  PROVE  /\ Sane(request_begin(x))
         /\ request_begin(x).need_report = 1
         /\ Owned(request_begin(x)) = Owned(x)
<1>1. request_begin(x) \in SessionType
  BY Zenon DEF Sane, SessionType, request_begin
<1>2. /\ request_begin(x).status_time <= now
      /\ request_begin(x).need_report = 1
  BY DEF Sane, SessionType, request_begin
<1>3. Owned(request_begin(x)) = Owned(x)
  BY DEF Sane, SessionType, request_begin, Owned, Strings, Headers
<1> QED  BY <1>1, <1>2, <1>3 DEF Sane

\* request_url stores one string.
LEMMA UrlLemma ==
  ASSUME NEW x, Sane(x), now \in Nat, NEW k \in Nat, NEW tok \in Token
  PROVE  LET y == request_url(x, k, tok)
         IN  Sane(y) /\ y.need_report = x.need_report /\ Owned(y) <= Owned(x) + 1
<1> DEFINE y == request_url(x, k, tok)
<1>0. <<k, tok.part>> \in Value
  BY DEF Value, Token
<1>1. y \in SessionType
  BY <1>0, Zenon DEF Sane, SessionType, request_url
<1>2. y.status_time = x.status_time /\ y.need_report = x.need_report /\ y.body = x.body
  BY DEF Sane, SessionType, request_url
<1>3. Strings(y) <= Strings(x) + 1
  BY DEF Sane, SessionType, request_url, Strings
<1>4. Headers(y) = Headers(x)
  BY DEF Sane, SessionType, request_url, Headers
<1> HIDE DEF y
<1>5. Owned(y) <= Owned(x) + 1
  <2>1. /\ Strings(x) \in Nat /\ Headers(x) \in Nat /\ Len(x.body) \in Nat
        /\ Strings(y) \in Nat /\ Headers(y) \in Nat /\ Len(y.body) = Len(x.body)
    BY <1>1, <1>2, OwnedLemma DEF Sane
  <2>2. /\ Owned(x) = Strings(x) + Headers(x) + Len(x.body)
        /\ Owned(y) = Strings(y) + Headers(y) + Len(x.body)
    BY <2>1 DEF Owned
  <2> QED BY <1>3, <1>4, <2>1, <2>2
<1> QED  BY <1>1, <1>2, <1>5 DEF Sane, y

\* request_header_field stores a name only if the name is caught.
LEMMA FieldLemma ==
  ASSUME NEW x, Sane(x), now \in Nat, NEW tok \in Token
  PROVE  LET y == request_header_field(x, tok)
         IN  /\ Sane(y) /\ y.need_report = x.need_report
             /\ Owned(y) <= Owned(x) + (IF IsCaught(tok) THEN 1 ELSE 0)
<1> DEFINE y == request_header_field(x, tok)
<1>1. y \in SessionType
  BY Zenon DEF Sane, SessionType, request_header_field
<1>2. y.status_time = x.status_time /\ y.need_report = x.need_report /\ y.body = x.body
  BY DEF Sane, SessionType, request_header_field
<1>3. Strings(y) = Strings(x)
  BY DEF Sane, SessionType, request_header_field, Strings
<1>4. Headers(y) <= Headers(x) + (IF IsCaught(tok) THEN 1 ELSE 0)
  BY DEF Sane, SessionType, request_header_field, Headers
<1> HIDE DEF y
<1>5. Owned(y) <= Owned(x) + (IF IsCaught(tok) THEN 1 ELSE 0)
  <2>1. /\ Strings(x) \in Nat /\ Headers(x) \in Nat /\ Len(x.body) \in Nat
        /\ Strings(y) \in Nat /\ Headers(y) \in Nat /\ Len(y.body) = Len(x.body)
    BY <1>1, <1>2, OwnedLemma DEF Sane
  <2>2. /\ Owned(x) = Strings(x) + Headers(x) + Len(x.body)
        /\ Owned(y) = Strings(y) + Headers(y) + Len(x.body)
    BY <2>1 DEF Owned
  <2> QED BY <1>3, <1>4, <2>1, <2>2
<1> QED  BY <1>1, <1>2, <1>5 DEF Sane, y

\* request_header_value turns a caught name into a kv, and may store Host.
LEMMA ValueLemma ==
  ASSUME NEW x, Sane(x), now \in Nat, NEW k \in Nat, NEW tok \in Token
  PROVE  LET y == request_header_value(x, k, tok)
         IN  /\ Sane(y) /\ y.need_report = x.need_report
             /\ Owned(y) <= Owned(x) + (IF x.cur_field = "host" THEN 1 ELSE 0)
<1> DEFINE y == request_header_value(x, k, tok)
<1>0. <<k, tok.part>> \in Value
  BY DEF Value, Token
<1>a. x.props + x.last_request_header \in Nat
  BY DEF Sane, SessionType
<1>1. y \in SessionType
  BY <1>0, <1>a, Zenon DEF Sane, SessionType, request_header_value
<1>2. y.status_time = x.status_time /\ y.need_report = x.need_report /\ y.body = x.body
  BY DEF Sane, SessionType, request_header_value
<1>3. Strings(y) <= Strings(x) + (IF x.cur_field = "host" THEN 1 ELSE 0)
  BY DEF Sane, SessionType, request_header_value, Strings
<1>4. Headers(y) = Headers(x)
  BY DEF Sane, SessionType, request_header_value, Headers
<1> HIDE DEF y
<1>5. Owned(y) <= Owned(x) + (IF x.cur_field = "host" THEN 1 ELSE 0)
  <2>1. /\ Strings(x) \in Nat /\ Headers(x) \in Nat /\ Len(x.body) \in Nat
        /\ Strings(y) \in Nat /\ Headers(y) \in Nat /\ Len(y.body) = Len(x.body)
    BY <1>1, <1>2, OwnedLemma DEF Sane
  <2>2. /\ Owned(x) = Strings(x) + Headers(x) + Len(x.body)
        /\ Owned(y) = Strings(y) + Headers(y) + Len(x.body)
    BY <2>1 DEF Owned
  <2> QED BY <1>3, <1>4, <2>1, <2>2
<1> QED  BY <1>1, <1>2, <1>5 DEF Sane, y

\* request_headers_complete and request_complete allocate nothing.
LEMMA CompleteLemma ==
  ASSUME NEW x, Sane(x), now \in Nat, NEW p \in ParserType
  PROVE  /\ LET y == request_headers_complete(x, p)
            IN  Sane(y) /\ y.need_report = x.need_report /\ Owned(y) = Owned(x)
         /\ LET y == request_complete(x)
            IN  Sane(y) /\ y.need_report = x.need_report /\ Owned(y) = Owned(x)
<1>1. LET y == request_headers_complete(x, p)
      IN  Sane(y) /\ y.need_report = x.need_report /\ Owned(y) = Owned(x)
  <2>1. p.method \in Words
    BY DEF ParserType
  <2>2. request_headers_complete(x, p) \in SessionType
    BY <2>1, Zenon DEF Sane, SessionType, request_headers_complete
  <2> QED  BY <2>2 DEF Sane, SessionType, request_headers_complete, Owned, Strings, Headers
<1>2. LET y == request_complete(x)
      IN  Sane(y) /\ y.need_report = x.need_report /\ Owned(y) = Owned(x)
  <2>1. x.req_time + Elapsed(x) \in Nat
    BY ElapsedLemma DEF Sane, SessionType
  <2>2. request_complete(x) \in SessionType
    BY <2>1, Zenon DEF Sane, SessionType, request_complete
  <2> QED  BY <2>2 DEF Sane, SessionType, request_complete, Owned, Strings, Headers
<1> QED  BY <1>1, <1>2

\* The response callbacks leave the request's part of the session alone.
LEMMA ResponseLemma ==
  ASSUME NEW x, Sane(x), now \in Nat, NEW p \in ParserType
  PROVE  /\ LET y == response_begin(x)
            IN  Sane(y) /\ SameRequest(x, y) /\ Owned(y) = Owned(x)
         /\ LET y == response_headers_complete(x, p)
            IN  Sane(y) /\ SameRequest(x, y) /\ Owned(y) = Owned(x)
         /\ LET y == reponse_header_value(x)
            IN  Sane(y) /\ SameRequest(x, y) /\ Owned(y) = Owned(x)
         /\ LET y == [x EXCEPT !.rep_time = @ + Elapsed(x), !.status_time = now]
            IN  Sane(y) /\ SameRequest(x, y) /\ Owned(y) = Owned(x)
<1>1. LET y == response_begin(x)
      IN  Sane(y) /\ SameRequest(x, y) /\ Owned(y) = Owned(x)
  <2>1. x.server_time + Elapsed(x) \in Nat
    BY ElapsedLemma DEF Sane, SessionType
  <2>2. response_begin(x) \in SessionType
    BY <2>1, Zenon DEF Sane, SessionType, response_begin
  <2> QED
    BY <2>2 DEF Sane, SessionType, response_begin, SameRequest, Owned, Strings, Headers
<1>2. LET y == response_headers_complete(x, p)
      IN  Sane(y) /\ SameRequest(x, y) /\ Owned(y) = Owned(x)
  <2>1. p.code \in Nat /\ (p.code \in CatchCodes) \in BOOLEAN
    BY DEF ParserType
  <2>2. response_headers_complete(x, p) \in SessionType
    BY <2>1, Zenon DEF Sane, SessionType, response_headers_complete
  <2> QED
    BY <2>2 DEF Sane, SessionType, response_headers_complete, SameRequest, Owned, Strings, Headers
<1>3. LET y == reponse_header_value(x)
      IN  Sane(y) /\ SameRequest(x, y) /\ Owned(y) = Owned(x)
  <2> DEFINE y == reponse_header_value(x)
  <2>1. x.props + x.last_response_header \in Nat
    BY DEF Sane, SessionType
  <2>2. y \in SessionType
    BY <2>1, Zenon DEF Sane, SessionType, reponse_header_value
  <2>3. y.status_time = x.status_time /\ SameRequest(x, y) /\ y.body = x.body
    BY DEF Sane, SessionType, reponse_header_value, SameRequest
  <2>4. Headers(y) = Headers(x)
    BY DEF Sane, SessionType, reponse_header_value, Headers
  <2>5. Strings(y) = Strings(x)
    BY DEF Sane, SessionType, reponse_header_value, Strings
  <2> HIDE DEF y
  <2>6. Owned(y) = Owned(x)
    BY <2>3, <2>4, <2>5 DEF Owned
  <2>7. Sane(y)
    BY <2>2, <2>3 DEF Sane
  <2> QED  BY <2>3, <2>6, <2>7 DEF y
<1>4. LET y == [x EXCEPT !.rep_time = @ + Elapsed(x), !.status_time = now]
      IN  Sane(y) /\ SameRequest(x, y) /\ Owned(y) = Owned(x)
  <2>1. x.rep_time + Elapsed(x) \in Nat
    BY ElapsedLemma DEF Sane, SessionType
  <2>2. [x EXCEPT !.rep_time = @ + Elapsed(x), !.status_time = now] \in SessionType
    BY <2>1, Zenon DEF Sane, SessionType
  <2> QED
    BY <2>2 DEF Sane, SessionType, SameRequest, Owned, Strings, Headers
<1> QED  BY <1>1, <1>2, <1>3, <1>4

\* The name of a response header, which may be caught.
LEMMA ResponseFieldLemma ==
  ASSUME NEW x, Sane(x), now \in Nat, NEW tok \in Token
  PROVE  LET y == reponse_header_field(x, tok)
         IN  /\ Sane(y) /\ SameRequest(x, y)
             /\ Owned(y) <= Owned(x) + (IF IsCaught(tok) THEN 1 ELSE 0)
<1> DEFINE y == reponse_header_field(x, tok)
<1>1. y \in SessionType
  BY Zenon DEF Sane, SessionType, reponse_header_field
<1>2. y.status_time = x.status_time /\ SameRequest(x, y) /\ y.body = x.body
  BY DEF Sane, SessionType, reponse_header_field, SameRequest
<1>3. Strings(y) = Strings(x)
  BY DEF Sane, SessionType, reponse_header_field, Strings
<1>4. Headers(y) <= Headers(x) + (IF IsCaught(tok) THEN 1 ELSE 0)
  BY DEF Sane, SessionType, reponse_header_field, Headers
<1> HIDE DEF y
<1>5. Owned(y) <= Owned(x) + (IF IsCaught(tok) THEN 1 ELSE 0)
  <2>1. /\ Strings(x) \in Nat /\ Headers(x) \in Nat /\ Len(x.body) \in Nat
        /\ Strings(y) \in Nat /\ Headers(y) \in Nat /\ Len(y.body) = Len(x.body)
    BY <1>1, <1>2, OwnedLemma DEF Sane
  <2>2. /\ Owned(x) = Strings(x) + Headers(x) + Len(x.body)
        /\ Owned(y) = Strings(y) + Headers(y) + Len(x.body)
    BY <2>1 DEF Owned
  <2> QED BY <1>3, <1>4, <2>1, <2>2
<1> QED  BY <1>1, <1>2, <1>5 DEF Sane, y

\* response_body allocates exactly the buffers it links into the list.
LEMMA ResponseBodyLemma ==
  ASSUME NEW x, Sane(x), now \in Nat, NEW len \in Nat
  PROVE  LET y == response_body(x, len)
         IN  /\ Sane(y) /\ SameRequest(x, y)
             /\ Len(y.body) >= Len(x.body)
             /\ Owned(y) = Owned(x) + (Len(y.body) - Len(x.body))
<1>1. CASE x.is_catch /\ x.body_size + len < BodyLimit
  <2> DEFINE y == [x EXCEPT !.body = Append(@, len), !.body_size = @ + len]
  <2>1. /\ Append(x.body, len) \in Seq(Nat) /\ x.body_size + len \in Nat
        /\ Len(Append(x.body, len)) = Len(x.body) + 1
    BY DEF Sane, SessionType
  <2>2. y \in SessionType
    BY <2>1, Zenon DEF Sane, SessionType
  <2>3. /\ y.status_time = x.status_time /\ SameRequest(x, y)
        /\ y.body = Append(x.body, len)
    BY DEF Sane, SessionType, SameRequest
  <2>4. Headers(y) = Headers(x) /\ Strings(y) = Strings(x)
    BY DEF Sane, SessionType, Headers, Strings
  <2>5. response_body(x, len) = y
    BY <1>1 DEF response_body
  <2> HIDE DEF y
  <2>6. Owned(y) = Owned(x) + (Len(y.body) - Len(x.body)) /\ Len(y.body) >= Len(x.body)
    <3>1. Strings(x) \in Nat /\ Headers(x) \in Nat /\ Len(x.body) \in Nat
      BY OwnedLemma DEF Sane
    <3>2. Len(y.body) = Len(x.body) + 1
      BY <2>1, <2>3
    <3>3. /\ Owned(x) = Strings(x) + Headers(x) + Len(x.body)
          /\ Owned(y) = Strings(x) + Headers(x) + Len(y.body)
      BY <2>4 DEF Owned
    <3> QED BY <3>1, <3>2, <3>3
  <2> QED  BY <2>2, <2>3, <2>5, <2>6 DEF Sane
<1>2. CASE ~(x.is_catch /\ x.body_size + len < BodyLimit)
  <2>1. response_body(x, len) = x
    BY <1>2 DEF response_body
  <2> QED  BY <2>1, OwnedLemma DEF Sane, SameRequest
<1> QED  BY <1>1, <1>2

-----------------------------------------------------------------------------
(* What the parser's steps leave.                                          *)

\* After the headers, and inside a body, the parser is well-typed, and it is
\* back between messages, or dead, exactly when the message is complete.
LEMMA HeadersDoneLemma ==
  ASSUME NEW p \in ParserType, NEW tok \in Token, NEW type
  PROVE  LET q == HeadersDone(type, p, tok)
         IN  q \in ParserType /\ (q.st = "body" => q.left > 0) /\ q.st # "error"
<1> DEFINE st == CASE tok.x = "chunked"          -> "chunk"
                   [] tok.x = "len" /\ tok.n > 0 -> "body"
                   [] http_message_needs_eof(type, p.code, tok.x) -> "eof"
                   [] OTHER                      -> NewMessage(tok.ka)
<1>1. /\ st \in {"chunk", "body", "eof", "start", "dead"}
      /\ st = "body" => tok.n > 0
  BY DEF NewMessage
<1>2. tok.n \in Nat /\ tok.ka \in BOOLEAN
  BY DEF Token
<1>3. HeadersDone(type, p, tok) =
        [p EXCEPT !.st = st, !.left = IF st = "body" THEN tok.n ELSE 0, !.ka = tok.ka]
  BY DEF HeadersDone
<1> DEFINE left == IF st = "body" THEN tok.n ELSE 0
<1>4. left \in Nat /\ (st = "body" => left > 0)
  BY <1>1, <1>2
<1> HIDE DEF st, left
<1> DEFINE q == [p EXCEPT !.st = st, !.left = left, !.ka = tok.ka]
<1>5. q \in ParserType
  BY <1>1, <1>2, <1>4, Zenon DEF ParserType
<1>6. q.st = st /\ q.left = left
  BY DEF ParserType
<1>7. HeadersDone(type, p, tok) = q
  BY <1>3 DEF left
<1> QED  BY <1>1, <1>4, <1>5, <1>6, <1>7

\* A piece of body leaves a parser that still has something to read.
LEMMA BodyStepLemma ==
  ASSUME NEW p \in ParserType, NEW tok \in Token, p.st = "body" => p.left > 0
  PROVE  LET q == BodyStep(p, tok)
         IN  q \in ParserType /\ (q.st = "body" => q.left > 0)
<1> DEFINE over == \/ p.st = "body"  /\ p.left = 1
                   \/ p.st = "chunk" /\ tok.t = "last"
<1> DEFINE st == IF over THEN NewMessage(p.ka) ELSE p.st
<1> DEFINE left == IF p.st = "body" THEN p.left - 1 ELSE p.left
<1>1. /\ st \in {"start", "url", "hdr", "val", "body", "chunk", "eof", "dead", "error"}
      /\ st = "body" => p.st = "body" /\ p.left # 1
  BY DEF ParserType, NewMessage
<1>2. left \in Nat /\ (st = "body" => left > 0)
  BY <1>1 DEF ParserType
<1>3. BodyStep(p, tok) = [p EXCEPT !.st = st, !.left = left]
  BY DEF BodyStep, ParserType
<1> HIDE DEF st, left
<1> DEFINE q == [p EXCEPT !.st = st, !.left = left]
<1>4. q \in ParserType
  BY <1>1, <1>2, Zenon DEF ParserType
<1>5. q.st = st /\ q.left = left
  BY DEF ParserType
<1> QED  BY <1>2, <1>3, <1>4, <1>5

-----------------------------------------------------------------------------
(* Every step keeps the program's part of the invariant.                   *)

\* Reporting a transaction: bs_report and the session that is left.
LEMMA ReportLemma ==
  ASSUME Core, NEW x, Sane(x), SameRequest(s, x), NEW p \in ParserType,
         p.st = "body" => p.left > 0,
         NEW h \in Nat, Owned(x) <= h,
         NEW status \in Closings \cup {"success"},
         session_report(x, p, h, status),
         UNCHANGED <<hits, now>>
  PROVE  Core'
<1> USE DEF Core
<1>1. CASE x.need_report = 1
  <2>1. /\ log' = Append(log, LogLine(x, status)) /\ heap' = h - Owned(x)
        /\ s' = session_init /\ cp' = http_parser_init /\ sp' = http_parser_init
    BY <1>1 DEF session_report, Reported
  <2>2. LogLine(x, status) \in LineType
    <3>0. x.req_time \in Nat /\ x.server_time \in Nat /\ x.rep_time \in Nat
      BY DEF Sane, SessionType
    <3>1. x.req_time + x.server_time + x.rep_time \in Nat
      BY <3>0
    <3>2. /\ x.path \in Value /\ x.host \in Value /\ x.method \in Words
          /\ x.status_code \in Nat /\ x.start_time \in Nat
      BY DEF Sane, SessionType
    <3> QED  BY <3>1, <3>2, Zenon DEF LogLine, LineType
  <2>3. log' \in Seq(LineType) /\ Len(log') = Len(log) + 1
    BY <2>1, <2>2
  <2>4. heap' \in Nat /\ Owned(s') <= heap'
    BY <2>1, StartLemma, OwnedLemma DEF Sane
  <2>5. HitsCoverLog'
    BY <1>1, <2>1, <2>3, StartLemma DEF HitsCoverLog, SameRequest
  <2>6. NothingUnreported' /\ Lengths'
    BY <2>1, StartLemma DEF NothingUnreported, Lengths
  <2>7. cp' \in ParserType /\ sp' \in ParserType /\ s' \in SessionType /\ Marks'
    BY <2>1, StartLemma DEF Sane, Marks
  <2> QED  BY <2>3, <2>4, <2>5, <2>6, <2>7
<1>2. CASE x.need_report # 1
  <2>1. s' = x /\ sp' = p /\ heap' = h /\ UNCHANGED <<cp, log>>
    BY <1>2 DEF session_report, NotReported
  <2>2. NothingUnreported'
    BY <2>1 DEF NothingUnreported, SameRequest
  <2>3. HitsCoverLog'
    BY <2>1 DEF HitsCoverLog, SameRequest
  <2>4. s' \in SessionType /\ Marks' /\ Lengths' /\ Owned(s') <= heap'
    BY <2>1 DEF Sane, Marks, Lengths
  <2> QED  BY <2>1, <2>2, <2>3, <2>4
<1> QED  BY <1>1, <1>2

\* A request callback that runs while a report is due and allocates what the
\* step accounts for keeps the invariant.
LEMMA DueLemma ==
  ASSUME Core, UNCHANGED <<sp, log, hits, now>>,
         cp' \in ParserType, cp'.st = "body" => cp'.left > 0,
         s.need_report = 1, Sane(s'), s'.need_report = s.need_report,
         NEW d \in Nat, heap' = heap + d, Owned(s') <= Owned(s) + d
  PROVE  Core'
<1>1. s' \in SessionType /\ Marks' /\ Lengths'
  BY DEF Core, Sane, Marks, Lengths
<1>2. NothingUnreported' /\ HitsCoverLog'
  BY DEF Core, NothingUnreported, HitsCoverLog
<1>3. heap' \in Nat /\ Owned(s') <= heap'
  BY <1>1, OwnedLemma DEF Core
<1> QED  BY <1>1, <1>2, <1>3 DEF Core

\* A request_begin, of a real or a phantom request, keeps the invariant.
LEMMA BeganLemma ==
  ASSUME Core, UNCHANGED <<sp, log, heap, now>>,
         cp' \in ParserType, cp'.st # "body",
         s' = request_begin(s), hits' = hits + 1
  PROVE  Core'
<1>1. Sane(s') /\ s'.need_report = 1 /\ Owned(s') = Owned(s)
  BY BeginLemma DEF Core, Sane, Marks
<1>2. s' \in SessionType /\ Marks' /\ Lengths'
  BY <1>1 DEF Core, Sane, Marks, Lengths
<1>3. s.need_report \in {0, 1}
  BY DEF Core, SessionType
<1>4. NothingUnreported' /\ HitsCoverLog'
  BY <1>1, <1>3 DEF Core, NothingUnreported, HitsCoverLog
<1> QED  BY <1>1, <1>2, <1>4 DEF Core

\* A response callback that ends no exchange keeps the invariant.
LEMMA UnderWayLemma ==
  ASSUME Core, UNCHANGED <<cp, log, hits, now>>,
         sp' \in ParserType, sp'.st = "body" => sp'.left > 0,
         Sane(s'), SameRequest(s, s'), heap' \in Nat, Owned(s') <= heap'
  PROVE  Core'
<1>1. s' \in SessionType /\ Marks' /\ Lengths'
  BY DEF Core, Sane, Marks, Lengths
<1>2. NothingUnreported' /\ HitsCoverLog'
  BY DEF Core, NothingUnreported, HitsCoverLog, SameRequest
<1> QED  BY <1>1, <1>2 DEF Core

\* response_complete logs the exchange or, for 1xx, leaves it open.
LEMMA ResponseCompleteLemma ==
  ASSUME Core, NEW x, Sane(x), SameRequest(s, x), NEW p \in ParserType,
         p.st = "body" => p.left > 0, NEW h \in Nat, Owned(x) <= h,
         response_complete(x, p, h), UNCHANGED <<hits, now>>
  PROVE  Core'
<1>1. CASE p.code \div 100 = 1
  <2>1. s' = x /\ sp' = p /\ heap' = h /\ UNCHANGED <<cp, log>>
    BY <1>1 DEF response_complete, NotReported
  <2> QED  BY <2>1, UnderWayLemma
<1>2. CASE p.code \div 100 # 1
  <2> DEFINE y == [x EXCEPT !.rep_time = @ + Elapsed(x), !.status_time = now]
  <2>1. session_report(y, p, h, "success")
    BY <1>2 DEF response_complete
  <2>2. Sane(y) /\ SameRequest(x, y) /\ Owned(y) = Owned(x)
    BY ResponseLemma DEF Core
  <2> HIDE DEF y
  <2>3. SameRequest(s, y)
    BY <2>2 DEF SameRequest
  <2> QED  BY <2>1, <2>2, <2>3, ReportLemma
<1> QED  BY <1>1, <1>2

\* The request callbacks only run while a report is due, except request_begin.
LEMMA ClientLemma ==
  ASSUME Core, NEW k \in Nat, NEW tok \in Token,
         ClientExecute(k, tok), UNCHANGED now
  PROVE  Core'
<1> USE DEF Core
<1>0. Sane(s)
  BY DEF Sane, Marks
<1>1. CASE ClientIgnores
  BY <1>1 DEF ClientIgnores, NothingUnreported, HitsCoverLog, Marks, Lengths
<1>2. CASE ClientRefuses(tok)
  <2>1. cp' \in ParserType /\ cp'.st = "error" /\ UNCHANGED <<sp, log, heap>>
    BY <1>2 DEF ClientRefuses, Error, ParserType
  <2>2. CASE s' = s /\ hits' = hits
    BY <2>1, <2>2 DEF NothingUnreported, HitsCoverLog, Marks, Lengths
  <2>3. CASE s' = request_begin(s) /\ hits' = hits + 1
    BY <2>1, <2>3, BeganLemma
  <2> QED  BY <1>2, <2>2, <2>3 DEF ClientRefuses
<1>3. CASE ClientStart(tok)
  <2>1. /\ cp' \in ParserType /\ cp'.st # "body" /\ UNCHANGED <<sp, log, heap>>
        /\ s' = request_begin(s) /\ hits' = hits + 1
    BY <1>3 DEF ClientStart, ParserType, Token
  <2> QED  BY <2>1, BeganLemma
<1>4. CASE ClientUrl(k, tok)
  <2>1. /\ cp' \in ParserType /\ cp'.st # "body" /\ UNCHANGED <<sp, log, hits>>
        /\ s' = request_url(s, k, tok) /\ heap' = heap + 1 /\ s.need_report = 1
    BY <1>4 DEF ClientUrl, ParserType, NothingUnreported, SessionType
  <2>2. Sane(s') /\ s'.need_report = s.need_report
        /\ Owned(s') <= Owned(s) + 1
    BY <2>1, <1>0, UrlLemma
  <2> QED  BY <2>1, <2>2, DueLemma
<1>5. CASE ClientName(tok)
  <2>1. /\ cp' \in ParserType /\ cp'.st # "body" /\ UNCHANGED <<sp, log, hits>>
        /\ s' = request_header_field(s, tok) /\ s.need_report = 1
        /\ heap' = heap + (IF IsCaught(tok) THEN 1 ELSE 0)
    BY <1>5 DEF ClientName, ParserType, NothingUnreported, SessionType
  <2>2. Sane(s') /\ s'.need_report = s.need_report
        /\ Owned(s') <= Owned(s) + (IF IsCaught(tok) THEN 1 ELSE 0)
    BY <2>1, <1>0, FieldLemma
  <2> QED  BY <2>1, <2>2, DueLemma
<1>6. CASE ClientValue(k, tok)
  <2>1. /\ cp' \in ParserType /\ cp'.st # "body" /\ UNCHANGED <<sp, log, hits>>
        /\ s' = request_header_value(s, k, tok) /\ s.need_report = 1
        /\ heap' = heap + (IF s.cur_field = "host" THEN 1 ELSE 0)
    BY <1>6 DEF ClientValue, ParserType, NothingUnreported, SessionType
  <2>2. Sane(s') /\ s'.need_report = s.need_report
        /\ Owned(s') <= Owned(s) + (IF s.cur_field = "host" THEN 1 ELSE 0)
    BY <2>1, <1>0, ValueLemma
  <2> QED  BY <2>1, <2>2, DueLemma
<1>7. CASE ClientHeaders(tok)
  <2>1. /\ cp' \in ParserType /\ (cp'.st = "body" => cp'.left > 0)
        /\ UNCHANGED <<sp, log, hits, heap>> /\ s.need_report = 1
    BY <1>7, HeadersDoneLemma DEF ClientHeaders, NothingUnreported, SessionType
  <2>2. Sane(s') /\ s'.need_report = 1 /\ Owned(s') = Owned(s)
    BY <1>7, <2>1, <1>0, CompleteLemma DEF ClientHeaders
  <2> QED  BY <2>1, <2>2, OwnedLemma, DueLemma
<1>8. CASE ClientBody(tok)
  <2>1. /\ cp' \in ParserType /\ (cp'.st = "body" => cp'.left > 0)
        /\ UNCHANGED <<sp, log, hits, heap>> /\ s.need_report = 1
    BY <1>8, BodyStepLemma
    DEF ClientBody, InBody, NothingUnreported, SessionType, Lengths
  <2>2. Sane(s') /\ s'.need_report = 1 /\ Owned(s') = Owned(s)
    BY <1>8, <2>1, <1>0, CompleteLemma DEF ClientBody
  <2> QED  BY <2>1, <2>2, OwnedLemma, DueLemma
<1> QED
  BY <1>1, <1>2, <1>3, <1>4, <1>5, <1>6, <1>7, <1>8 DEF ClientExecute

\* A token of the server keeps the core of the invariant.
LEMMA ServerLemma ==
  ASSUME Core, NEW tok \in Token, ServerExecute(tok), UNCHANGED <<hits, now>>
  PROVE  Core'
<1>0. /\ Sane(s) /\ SameRequest(s, s) /\ Owned(s) <= heap
      /\ now \in Nat /\ heap \in Nat /\ sp \in ParserType
      /\ sp.st = "body" => sp.left > 0
  BY DEF Core, Sane, Marks, SameRequest, Lengths
<1>1. CASE ServerIgnores
  BY <1>0, <1>1, UnderWayLemma DEF ServerIgnores, SameRequest, Sane
<1>2. CASE ServerRefuses(tok)
  <2>1. sp' \in ParserType /\ sp'.st = "error" /\ UNCHANGED <<cp, log, heap>>
    BY <1>0, <1>2 DEF ServerRefuses, Error, ParserType
  <2>2. s' = s \/ s' = response_begin(s)
    BY <1>2 DEF ServerRefuses
  <2>3. Sane(s') /\ SameRequest(s, s') /\ Owned(s') = Owned(s)
    BY <1>0, <2>2, ResponseLemma
  <2> QED  BY <1>0, <2>1, <2>3, UnderWayLemma
<1>3. CASE ServerStart(tok)
  <2>1. sp' \in ParserType /\ sp'.st # "body" /\ UNCHANGED <<cp, log, heap>>
    BY <1>0, <1>3 DEF ServerStart, ParserType, Token
  <2>2. Sane(s') /\ SameRequest(s, s') /\ Owned(s') = Owned(s)
    BY <1>0, <1>3, ResponseLemma DEF ServerStart
  <2> QED  BY <1>0, <2>1, <2>2, UnderWayLemma
<1>4. CASE ServerName(tok)
  <2>1. /\ sp' \in ParserType /\ sp'.st # "body" /\ UNCHANGED <<cp, log>>
        /\ s' = reponse_header_field(s, tok)
        /\ heap' = heap + (IF IsCaught(tok) THEN 1 ELSE 0)
    BY <1>0, <1>4 DEF ServerName, ParserType
  <2>2. /\ Sane(s') /\ SameRequest(s, s')
        /\ Owned(s') <= Owned(s) + (IF IsCaught(tok) THEN 1 ELSE 0)
    BY <1>0, <2>1, ResponseFieldLemma
  <2>3. heap' \in Nat /\ Owned(s') <= heap'
    <3>1. Owned(s) \in Nat /\ Owned(s') \in Nat
      BY <1>0, <2>2, OwnedLemma DEF Sane
    <3> QED  BY <1>0, <2>1, <2>2, <3>1
  <2> QED  BY <2>1, <2>2, <2>3, UnderWayLemma
<1>5. CASE ServerValue(tok)
  <2>1. sp' \in ParserType /\ sp'.st # "body" /\ UNCHANGED <<cp, log, heap>>
    BY <1>0, <1>5 DEF ServerValue, ParserType
  <2>2. Sane(s') /\ SameRequest(s, s') /\ Owned(s') = Owned(s)
    BY <1>0, <1>5, ResponseLemma DEF ServerValue
  <2> QED  BY <1>0, <2>1, <2>2, UnderWayLemma
<1>6. CASE ServerHeaders(tok)
  <2> DEFINE p == HeadersDone("response", sp, tok)
  <2> DEFINE x == response_headers_complete(s, sp)
  <2>1. p \in ParserType /\ (p.st = "body" => p.left > 0)
    BY <1>0, HeadersDoneLemma
  <2>2. Sane(x) /\ SameRequest(s, x) /\ Owned(x) <= heap
    BY <1>0, ResponseLemma
  <2>3. \/ response_complete(x, p, heap)
        \/ NotReported(x, p, heap)
    BY <1>6 DEF ServerHeaders
  <2> HIDE DEF p, x
  <2>4. CASE response_complete(x, p, heap)
    BY <1>0, <2>1, <2>2, <2>4, ResponseCompleteLemma
  <2>5. CASE NotReported(x, p, heap)
    BY <1>0, <2>1, <2>2, <2>5, UnderWayLemma DEF NotReported
  <2> QED  BY <2>3, <2>4, <2>5
<1>7. CASE ServerBody(tok)
  <2> DEFINE p == BodyStep(sp, tok)
  <2> DEFINE x == IF sp.st = "chunk" /\ tok.t = "last" THEN s
                                                       ELSE response_body(s, Length(tok))
  <2> DEFINE h == heap + (Len(x.body) - Len(s.body))
  <2>1. p \in ParserType /\ (p.st = "body" => p.left > 0)
    BY <1>0, BodyStepLemma
  <2>2. Length(tok) \in Nat
    BY DEF Length, Token
  <2>3. /\ Sane(x) /\ SameRequest(s, x)
        /\ Len(x.body) >= Len(s.body)
        /\ Owned(x) = Owned(s) + (Len(x.body) - Len(s.body))
    <3>1. CASE sp.st = "chunk" /\ tok.t = "last"
      BY <1>0, <3>1, OwnedLemma DEF Sane
    <3>2. CASE ~(sp.st = "chunk" /\ tok.t = "last")
      BY <1>0, <2>2, <3>2, ResponseBodyLemma
    <3> QED  BY <3>1, <3>2
  <2>4. \/ response_complete(x, p, h)
        \/ NotReported(x, p, h)
    BY <1>7 DEF ServerBody
  <2> HIDE DEF p, x
  <2>5. h \in Nat /\ Owned(x) <= h
    <3>1. /\ Owned(s) \in Nat /\ Owned(x) \in Nat
          /\ Len(s.body) \in Nat /\ Len(x.body) \in Nat
      BY <1>0, <2>3, OwnedLemma DEF Sane
    <3> DEFINE d == Len(x.body) - Len(s.body)
    <3>2. d \in Nat /\ Owned(x) = Owned(s) + d
      BY <2>3, <3>1
    <3> HIDE DEF d
    <3>3. heap + d \in Nat /\ Owned(x) <= heap + d
      BY <1>0, <3>1, <3>2
    <3> QED  BY <3>3 DEF d
  <2> HIDE DEF h
  <2>6. CASE response_complete(x, p, h)
    BY <1>0, <2>1, <2>3, <2>5, <2>6, ResponseCompleteLemma
  <2>7. CASE NotReported(x, p, h)
    BY <1>0, <2>1, <2>3, <2>5, <2>7, UnderWayLemma DEF NotReported
  <2> QED  BY <2>4, <2>6, <2>7
<1> QED
  BY <1>1, <1>2, <1>3, <1>4, <1>5, <1>6, <1>7 DEF ServerExecute

-----------------------------------------------------------------------------
(* The theorems.                                                           *)

\* A new session is in the invariant.
LEMMA InitIInv == Init => IInv
<1> SUFFICES ASSUME Init PROVE IInv
  OBVIOUS
<1>1. /\ req \in [k : Nat, meth : Words, host : BOOLEAN, todo : Seq(Token)]
      /\ rsp \in [k : Nat, sent : Nat, code : Nat, eof : BOOLEAN, todo : Seq(Token)]
      /\ open \in BOOLEAN /\ now \in Nat /\ hits \in Nat /\ heap \in Nat
      /\ log \in Seq(LineType) /\ Len(log) = 0
  BY DEF Init, Words
<1>2. cp \in ParserType /\ sp \in ParserType /\ s \in SessionType /\ Marks /\ Lengths
  BY <1>1, StartLemma DEF Init, Sane, Marks, Lengths
<1>3. NothingUnreported /\ HitsCoverLog /\ Owned(s) <= heap
  BY <1>1, StartLemma DEF Init, NothingUnreported, HitsCoverLog
<1> QED  BY <1>1, <1>2, <1>3 DEF IInv, Core

\* No token, close or tick breaks the invariant.
LEMMA NextIInv == IInv /\ [Next]_vars => IInv'
<1> SUFFICES ASSUME IInv, [Next]_vars PROVE IInv'
  OBVIOUS
<1> DEFINE ReqType == [k : Nat, meth : Words, host : BOOLEAN, todo : Seq(Token)]
<1> DEFINE RspType == [k : Nat, sent : Nat, code : Nat, eof : BOOLEAN, todo : Seq(Token)]
<1>0. req \in ReqType /\ rsp \in RspType /\ open \in BOOLEAN /\ Core
  BY DEF IInv
<1>a. ASSUME UNCHANGED <<cp, sp, s, log, hits, heap>>, now' \in Nat, now <= now'
      PROVE  Core'
  <2>1. s.status_time \in Nat /\ now \in Nat
    BY <1>0 DEF Core, SessionType
  <2> QED
    BY <1>0, <1>a, <2>1 DEF Core, NothingUnreported, HitsCoverLog, Marks, Lengths
<1>1. ASSUME NEW m \in Requests, NewRequest(m) PROVE IInv'
  <2>1. req' \in ReqType
    BY <1>0, <1>1, SessionAssumption DEF NewRequest
  <2>2. Core'
    BY <1>0, <1>1, <1>a DEF NewRequest, Core
  <2> QED  BY <1>0, <1>1, <2>1, <2>2 DEF NewRequest, IInv
<1>2. ASSUME NEW m \in Responses, NewResponse(m) PROVE IInv'
  <2>1. rsp' \in RspType
    BY <1>0, <1>2, SessionAssumption DEF NewResponse
  <2>2. Core'
    BY <1>0, <1>2, <1>a DEF NewResponse, Core
  <2> QED  BY <1>0, <1>2, <2>1, <2>2 DEF NewResponse, IInv
<1>3. CASE ClientData
  <2>a. req.todo \in Seq(Token) /\ req.todo # <<>> /\ req.k \in Nat
    BY <1>0, <1>3 DEF ClientData
  <2>b. Head(req.todo) \in Token /\ Tail(req.todo) \in Seq(Token)
    BY <2>a
  <2>c. req' = [req EXCEPT !.todo = Tail(req.todo)]
    BY <1>3 DEF ClientData
  <2>1. req' \in ReqType
    BY <1>0, <2>b, <2>c, Zenon
  <2>2. Core'
    BY <1>0, <1>3, <2>a, <2>b, ClientLemma DEF ClientData
  <2> QED  BY <1>0, <1>3, <2>1, <2>2 DEF ClientData, IInv
<1>4. CASE ServerData
  <2>a. rsp.todo \in Seq(Token) /\ rsp.todo # <<>>
    BY <1>0, <1>4 DEF ServerData
  <2>b. Head(rsp.todo) \in Token /\ Tail(rsp.todo) \in Seq(Token)
    BY <2>a
  <2>c. rsp' = [rsp EXCEPT !.todo = Tail(rsp.todo)]
    BY <1>4 DEF ServerData
  <2>1. rsp' \in RspType
    BY <1>0, <2>b, <2>c, Zenon
  <2>2. Core'
    BY <1>0, <1>4, <2>a, <2>b, ServerLemma DEF ServerData
  <2> QED  BY <1>0, <1>4, <2>1, <2>2 DEF ServerData, IInv
<1>5. ASSUME NEW status \in Closings, session_close(status) PROVE IInv'
  <2>1. Sane(s) /\ SameRequest(s, s) /\ sp \in ParserType /\ heap \in Nat
        /\ Owned(s) <= heap /\ (sp.st = "body" => sp.left > 0)
    BY <1>0 DEF Core, Sane, SameRequest, Marks, Lengths
  <2>2. Core'
    BY <1>0, <1>5, <2>1, ReportLemma DEF session_close
  <2> QED  BY <1>0, <1>5, <2>2 DEF session_close, IInv
<1>6. CASE Tick
  <2>1. Core'
    BY <1>0, <1>6, <1>a DEF Tick, Core
  <2> QED  BY <1>0, <1>6, <2>1 DEF Tick, IInv
<1>7. CASE UNCHANGED vars
  <2>1. Core'
    BY <1>0, <1>7, <1>a DEF vars, Core
  <2> QED  BY <1>0, <1>7, <2>1 DEF vars, IInv
<1> QED
  BY <1>1, <1>2, <1>3, <1>4, <1>5, <1>6, <1>7 DEF Next, Gone

\* Every reachable state is well-typed for any traffic and any bounds: in
\* particular no phase time is negative and session_clean never frees more
\* than the callbacks allocated.
THEOREM TypeCorrect == Spec => []TypeOK
<1>1. IInv => TypeOK
  BY DEF IInv, Core, TypeOK
<1> QED  BY InitIInv, NextIInv, <1>1, PTL DEF Spec

\* No interleaving of the two directions leaves request data in a session
\* that has no report due: session_close and the next report rely on it.
THEOREM NothingUnreportedAlways == Spec => []NothingUnreported
<1>1. IInv => NothingUnreported
  BY DEF IInv, Core
<1> QED  BY InitIInv, NextIInv, <1>1, PTL DEF Spec

\* Every line session_log writes was announced by a request_begin of its own.
THEOREM HitsCoverLogAlways == Spec => []HitsCoverLog
<1>1. IInv => HitsCoverLog
  BY DEF IInv, Core
<1> QED  BY InitIInv, NextIInv, <1>1, PTL DEF Spec

\* What session_clean frees was allocated and has not been freed before.
THEOREM NoDoubleFree == Spec => []OwnedIsAllocated
<1>1. IInv => OwnedIsAllocated
  BY DEF IInv, Core, OwnedIsAllocated
<1> QED  BY InitIInv, NextIInv, <1>1, PTL DEF Spec
\* With nothing to report session_report only stores what it was given.
LEMMA NothingReported ==
  ASSUME NEW x, NEW p, NEW h, NEW status, x.need_report = 0,
         session_report(x, p, h, status)
  PROVE  s' = x /\ UNCHANGED <<cp, log>>
BY DEF session_report, NotReported

\* The same when a response is complete.
LEMMA NothingCompleted ==
  ASSUME NEW x \in SessionType, NEW p, NEW h, x.need_report = 0, response_complete(x, p, h)
  PROVE  s'.need_report = 0 /\ UNCHANGED <<cp, log>>
<1>1. CASE p.code \div 100 = 1
  BY <1>1 DEF response_complete, NotReported
<1>2. CASE p.code \div 100 # 1
  <2> DEFINE y == [x EXCEPT !.rep_time = x.rep_time + Elapsed(x), !.status_time = now]
  <2>1. session_report(y, p, h, "success")
    BY <1>2 DEF response_complete
  <2>2. y.need_report = 0
    BY DEF SessionType
  <2> HIDE DEF y
  <2> QED BY <2>1, <2>2, NothingReported
<1> QED BY <1>1, <1>2

\* A session whose request parser failed with no exchange open stays blind:
\* its parsers are re-initialised only by session_report, session_report does
\* so only with a request to report, and only the request parser brings one.
THEOREM BlindForeverAlways == Spec => BlindForever
<1>1. ASSUME IInv, [Next]_vars, Blind
      PROVE  (Blind' \/ ~open') /\ UNCHANGED <<log, hits>>
  <2>1. cp.st = "error" /\ s \in SessionType /\ s.need_report = 0
    BY <1>1 DEF IInv, Core, Blind
  <2>6. Sane(s) /\ sp \in ParserType /\ now \in Nat
    BY <1>1 DEF IInv, Core, Sane, Marks
  <2>2. CASE UNCHANGED <<cp, s, log, hits>>
    BY <2>2, <1>1 DEF Blind
  <2>3. CASE ClientData
    <3>1. ClientIgnores
      BY <2>1, <2>3 DEF ClientData, ClientExecute, ClientRefuses, ClientStart, ClientUrl,
         ClientName, ClientValue, ClientHeaders, ClientBody, InBody
    <3> QED BY <3>1, <2>2 DEF ClientIgnores
  <2>4. CASE ServerData
    <3>1. hits' = hits
      BY <2>4 DEF ServerData
    <3>2. s'.need_report = 0 /\ UNCHANGED <<cp, log>>
      <4> DEFINE tok == Head(rsp.todo)
      <4>0. ServerExecute(tok)
        BY <2>4 DEF ServerData
      <4> HIDE DEF tok
      <4>1. CASE \/ ServerIgnores \/ ServerRefuses(tok) \/ ServerStart(tok)
                 \/ ServerName(tok) \/ ServerValue(tok)
        BY <4>1, <2>1 DEF ServerIgnores, ServerRefuses, ServerStart, ServerName, ServerValue,
           response_begin, reponse_header_field, reponse_header_value, SessionType
      <4>2. CASE ServerHeaders(tok)
        <5> DEFINE p == HeadersDone("response", sp, tok)
                   x == response_headers_complete(s, sp)
        <5>1. x.need_report = 0 /\ x \in SessionType
          BY <2>1, <2>6, ResponseLemma DEF Sane, SameRequest
        <5>2. response_complete(x, p, heap) \/ NotReported(x, p, heap)
          BY <4>2 DEF ServerHeaders
        <5> HIDE DEF p, x
        <5> QED BY <5>1, <5>2, NothingCompleted DEF NotReported
      <4>3. CASE ServerBody(tok)
        <5> DEFINE p == BodyStep(sp, tok)
                   x == IF sp.st = "chunk" /\ tok.t = "last" THEN s
                                                             ELSE response_body(s, Length(tok))
                   h == heap + (Len(x.body) - Len(s.body))
        <5>1. response_complete(x, p, h) \/ NotReported(x, p, h)
          BY <4>3 DEF ServerBody
        <5>2. tok \in Token
          BY <1>1, <2>4 DEF IInv, ServerData, tok
        <5>3. Length(tok) \in Nat
          BY <5>2 DEF Length, Token
        <5>4. x.need_report = 0 /\ x \in SessionType
          <6>1. CASE sp.st = "chunk" /\ tok.t = "last"
            BY <6>1, <2>1
          <6>2. CASE ~(sp.st = "chunk" /\ tok.t = "last")
            BY <6>2, <5>3, <2>1, <2>6, ResponseBodyLemma DEF Sane, SameRequest
          <6> QED BY <6>1, <6>2
        <5> HIDE DEF p, x, h
        <5> QED BY <5>1, <5>4, NothingCompleted DEF NotReported
      <4> QED BY <4>0, <4>1, <4>2, <4>3 DEF ServerExecute
    <3> QED BY <3>1, <3>2, <2>1 DEF Blind
  <2>5. ASSUME NEW status \in Closings, session_close(status)
        PROVE  ~open' /\ UNCHANGED <<log, hits>>
    BY <2>1, <2>5, NothingReported DEF session_close
  <2> QED
    BY <1>1, <2>2, <2>3, <2>4, <2>5 DEF Next, NewRequest, NewResponse, Tick, Gone, vars
<1>2. IInv /\ [Next]_vars => [Blind => (Blind' \/ ~open') /\ UNCHANGED <<log, hits>>]_vars
  BY <1>1
<1> QED BY InitIInv, NextIInv, <1>2, PTL DEF Spec, BlindForever

-----------------------------------------------------------------------------
(* The captured body.                                                      *)

\* body_size is what the pieces kept add up to, below the limit.
Bodies == s.body_size = SumOf(s.body) /\ s.body_size < BodyLimit

\* y holds the body x holds.
SameBody(x, y) == y.body = x.body /\ y.body_size = x.body_size

\* No request callback and no header callback touches the body.
LEMMA ClientKeepsBody ==
  ASSUME s \in SessionType, NEW k, NEW tok, ClientExecute(k, tok)
  PROVE  SameBody(s, s')
<1> USE DEF SessionType, SameBody
<1>1. CASE ClientIgnores
  BY <1>1 DEF ClientIgnores
<1>2. CASE ClientRefuses(tok)
  BY <1>2 DEF ClientRefuses, request_begin
<1>3. CASE ClientStart(tok)
  BY <1>3 DEF ClientStart, request_begin
<1>4. CASE ClientUrl(k, tok)
  BY <1>4 DEF ClientUrl, request_url
<1>5. CASE ClientName(tok)
  BY <1>5 DEF ClientName, request_header_field
<1>6. CASE ClientValue(k, tok)
  BY <1>6 DEF ClientValue, request_header_value
<1>7. CASE ClientHeaders(tok)
  <2> DEFINE x == request_headers_complete(s, cp)
  <2>1. s' = request_complete(x) \/ s' = x
    BY <1>7 DEF ClientHeaders
  <2> QED BY <2>1 DEF request_headers_complete, request_complete
<1>8. CASE ClientBody(tok)
  BY <1>8 DEF ClientBody, request_complete
<1> QED BY <1>1, <1>2, <1>3, <1>4, <1>5, <1>6, <1>7, <1>8 DEF ClientExecute

\* A report starts with an empty body again.
LEMMA ReportedBody ==
  ASSUME NEW x, x.body_size = SumOf(x.body), x.body_size < BodyLimit, NEW p, NEW h, NEW status,
         session_report(x, p, h, status)
  PROVE  Bodies'
<1>1. CASE s' = x
  BY <1>1 DEF Bodies
<1>2. CASE s' = session_init
  <2>1. s'.body = <<>> /\ s'.body_size = 0
    BY <1>2 DEF session_init
  <2> QED BY <2>1, SumEmpty, SessionAssumption DEF Bodies
<1> QED BY <1>1, <1>2 DEF session_report, Reported, NotReported

\* The same through response_complete.
LEMMA CompletedBody ==
  ASSUME NEW x \in SessionType, x.body_size = SumOf(x.body), x.body_size < BodyLimit, NEW p, NEW h,
         response_complete(x, p, h) \/ NotReported(x, p, h)
  PROVE  Bodies'
<1> DEFINE y == [x EXCEPT !.rep_time = x.rep_time + Elapsed(x), !.status_time = now]
<1>1. y.body = x.body /\ y.body_size = x.body_size
  BY DEF SessionType
<1>2. NotReported(x, p, h) \/ session_report(y, p, h, "success")
  BY DEF response_complete
<1> HIDE DEF y
<1> QED BY <1>1, <1>2, ReportedBody DEF NotReported, Bodies

\* A piece of a body is added while it fits, and counted.
LEMMA AddedBody ==
  ASSUME NEW x \in SessionType, x.body_size = SumOf(x.body), x.body_size < BodyLimit, NEW n \in Nat
  PROVE  LET y == response_body(x, n) IN y.body_size = SumOf(y.body) /\ y.body_size < BodyLimit
<1>1. CASE x.is_catch /\ x.body_size + n < BodyLimit
  <2> DEFINE y == [x EXCEPT !.body = Append(x.body, n), !.body_size = x.body_size + n]
  <2>1. response_body(x, n) = y
    BY <1>1 DEF response_body
  <2>2. y.body = Append(x.body, n) /\ y.body_size = x.body_size + n
    BY DEF SessionType
  <2>3. x.body \in Seq(Nat)
    BY DEF SessionType
  <2>4. SumOf(Append(x.body, n)) = SumOf(x.body) + n
    BY <2>3, SumAppend
  <2> HIDE DEF y
  <2> QED BY <1>1, <2>1, <2>2, <2>4
<1>2. CASE ~(x.is_catch /\ x.body_size + n < BodyLimit)
  BY <1>2 DEF response_body
<1> QED BY <1>1, <1>2

\* Every step keeps the account of the body.
LEMMA BodiesKept == IInv /\ Bodies /\ [Next]_vars => Bodies'
<1> SUFFICES ASSUME IInv, Bodies, [Next]_vars PROVE Bodies'
  OBVIOUS
<1>1. s \in SessionType /\ Sane(s) /\ sp \in ParserType /\ now \in Nat
  BY DEF IInv, Core, Sane, Marks
<1>2. CASE UNCHANGED s
  BY <1>2 DEF Bodies
<1>3. CASE ClientData
  <2>1. SameBody(s, s')
    BY <1>1, <1>3, ClientKeepsBody DEF ClientData
  <2> QED BY <2>1 DEF SameBody, Bodies
<1>4. CASE ServerData
  <2> DEFINE tok == Head(rsp.todo)
  <2>1. ServerExecute(tok) /\ tok \in Token
    BY <1>4 DEF ServerData, IInv
  <2> HIDE DEF tok
  <2>2. CASE \/ ServerIgnores \/ ServerRefuses(tok) \/ ServerStart(tok)
             \/ ServerName(tok) \/ ServerValue(tok)
    <3>1. s'.body = s.body /\ s'.body_size = s.body_size
      BY <2>2, <1>1 DEF ServerIgnores, ServerRefuses, ServerStart, ServerName, ServerValue,
         response_begin, reponse_header_field, reponse_header_value, SessionType
    <3> QED BY <3>1 DEF Bodies
  <2>3. CASE ServerHeaders(tok)
    <3> DEFINE p == HeadersDone("response", sp, tok)
               x == response_headers_complete(s, sp)
    <3>1. x \in SessionType
      BY <1>1, ResponseLemma DEF Sane
    <3>2. x.body = s.body /\ x.body_size = s.body_size
      BY <1>1 DEF response_headers_complete, SessionType
    <3>3. response_complete(x, p, heap) \/ NotReported(x, p, heap)
      BY <2>3 DEF ServerHeaders
    <3> HIDE DEF p, x
    <3> QED BY <3>1, <3>2, <3>3, CompletedBody DEF Bodies
  <2>4. CASE ServerBody(tok)
    <3> DEFINE p == BodyStep(sp, tok)
               x == IF sp.st = "chunk" /\ tok.t = "last" THEN s
                                                         ELSE response_body(s, Length(tok))
               h == heap + (Len(x.body) - Len(s.body))
    <3>1. response_complete(x, p, h) \/ NotReported(x, p, h)
      BY <2>4 DEF ServerBody
    <3>2. Length(tok) \in Nat
      BY <2>1 DEF Length, Token
    <3>3. x \in SessionType /\ x.body_size = SumOf(x.body) /\ x.body_size < BodyLimit
      <4>1. CASE sp.st = "chunk" /\ tok.t = "last"
        BY <4>1, <1>1 DEF Bodies
      <4>2. CASE ~(sp.st = "chunk" /\ tok.t = "last")
        BY <4>2, <3>2, <1>1, ResponseBodyLemma, AddedBody DEF Sane, Bodies
      <4> QED BY <4>1, <4>2
    <3> HIDE DEF p, x, h
    <3> QED BY <3>1, <3>3, CompletedBody
  <2> QED BY <2>1, <2>2, <2>3, <2>4 DEF ServerExecute
<1>5. ASSUME NEW status \in Closings, session_close(status) PROVE Bodies'
  BY <1>5, ReportedBody DEF session_close, Bodies
<1> QED
  BY <1>2, <1>3, <1>4, <1>5 DEF Next, NewRequest, NewResponse, Tick, Gone, vars

\* What session_report announces to msgpack is the exact sum of the pieces it
\* appends, and always below the limit of the raw-16 header, for any traffic.
THEOREM BodyAlwaysAccounted == Spec => []BodyAccounted
<1>1. Init => Bodies
  BY SumEmpty, SessionAssumption DEF Init, session_init, Bodies
<1>2. IInv /\ Bodies => BodyAccounted
  BY DEF IInv, Core, TypeOK, Bodies, BodyAccounted
<1> QED BY InitIInv, NextIInv, BodiesKept, <1>1, <1>2, PTL DEF Spec

-----------------------------------------------------------------------------
(* Half-duplex traffic: reading a message.                                 *)

\* Parsers as a message takes them: ParserType with any number left to read.
States == {"start", "url", "hdr", "val", "body", "chunk", "eof", "dead", "error"}
Parsers == [st : States, left : Int, ka : BOOLEAN, method : Words, code : Nat]

\* p goes through a message as q does.
Alike(type, p, q) ==
  /\ p.st = q.st
  /\ type = "response" /\ p.st # "start" => p.code = q.code
  /\ p.st \in {"body", "chunk"} => p.left = q.left /\ p.ka = q.ka

\* p reads the tokens to the end, and is then in one of ends.
Reads(type, p, toks, ends) ==
  \E g \in [0..Len(toks) -> Parsers] :
    /\ Alike(type, p, g[0])
    /\ \A i \in 1..Len(toks) : Fits(g[i - 1], toks[i]) /\ g[i] = Parsed(type, g[i - 1], toks[i])
    /\ g[Len(toks)].st \in ends

\* A parser stays a parser.
LEMMA HeadersType ==
  ASSUME NEW type, NEW p \in Parsers, NEW tok \in Token
  PROVE  HeadersDone(type, p, tok) \in Parsers
<1> DEFINE st == CASE tok.x = "chunked"          -> "chunk"
                   [] tok.x = "len" /\ tok.n > 0 -> "body"
                   [] http_message_needs_eof(type, p.code, tok.x) -> "eof"
                   [] OTHER                      -> NewMessage(tok.ka)
           left == IF st = "body" THEN tok.n ELSE 0
<1>1. st \in States
  BY DEF NewMessage, States
<1>2. left \in Int /\ tok.ka \in BOOLEAN
  BY DEF Token
<1>3. HeadersDone(type, p, tok) = [p EXCEPT !.st = st, !.left = left, !.ka = tok.ka]
  BY DEF HeadersDone
<1> HIDE DEF st, left
<1> QED BY <1>1, <1>2, <1>3, Zenon DEF Parsers

\* The same for a piece of a body.
LEMMA BodyType ==
  ASSUME NEW p \in Parsers, NEW tok
  PROVE  BodyStep(p, tok) \in Parsers
<1> DEFINE over == \/ p.st = "body"  /\ p.left = 1
                   \/ p.st = "chunk" /\ tok.t = "last"
           st == IF over THEN NewMessage(p.ka) ELSE p.st
           left == IF p.st = "body" THEN p.left - 1 ELSE p.left
<1>1. st \in States /\ left \in Int
  BY DEF NewMessage, States, Parsers
<1>2. BodyStep(p, tok) = [p EXCEPT !.st = st, !.left = left]
  BY DEF BodyStep, Parsers
<1> HIDE DEF st, left
<1> QED BY <1>1, <1>2, Zenon DEF Parsers

\* The same for every token.
LEMMA ParsedType ==
  ASSUME NEW type \in {"request", "response"}, NEW p \in Parsers, NEW tok \in Token
  PROVE  Parsed(type, p, tok) \in Parsers
<1>1. CASE p.st = "start" /\ type = "request"
  <2>1. Parsed(type, p, tok) = [p EXCEPT !.st = "url", !.method = tok.x]
    BY <1>1 DEF Parsed
  <2> QED BY <2>1 DEF Parsers, Token, States
<1>2. CASE p.st = "start" /\ type = "response"
  <2>1. Parsed(type, p, tok) = [p EXCEPT !.st = "hdr", !.code = tok.n]
    BY <1>2 DEF Parsed
  <2> QED BY <2>1 DEF Parsers, Token, States
<1>3. CASE p.st \in {"url", "val"}
  <2>1. Parsed(type, p, tok) = [p EXCEPT !.st = "hdr"]
    BY <1>3 DEF Parsed
  <2> QED BY <2>1 DEF Parsers, States
<1>4. CASE p.st = "hdr" /\ tok.t = "name"
  <2>1. Parsed(type, p, tok) = [p EXCEPT !.st = "val"]
    BY <1>4 DEF Parsed
  <2> QED BY <2>1 DEF Parsers, States
<1>5. CASE p.st = "hdr" /\ tok.t = "end"
  <2>1. Parsed(type, p, tok) = HeadersDone(type, p, tok)
    BY <1>5 DEF Parsed
  <2> QED BY <2>1, HeadersType
<1>6. CASE ~(p.st \in {"start", "url", "val"} \/ (p.st = "hdr" /\ tok.t \in {"name", "end"}))
  <2>1. Parsed(type, p, tok) = BodyStep(p, tok)
    BY <1>6 DEF Parsed
  <2> QED BY <2>1, BodyType
<1> QED BY <1>1, <1>2, <1>3, <1>4, <1>5, <1>6

\* Parsers that are alike take the same tokens and stay alike.
LEMMA AlikeParsed ==
  ASSUME NEW type \in {"request", "response"}, NEW p \in Parsers, NEW q \in Parsers,
         NEW tok \in Token, Alike(type, p, q), Fits(q, tok)
  PROVE  Fits(p, tok) /\ Alike(type, Parsed(type, p, tok), Parsed(type, q, tok))
<1>0. p.st = q.st
  BY DEF Alike
<1>1. Fits(p, tok)
  BY <1>0 DEF Fits, Accepts, InBody
<1>2. CASE p.st = "start"
  <2>1. CASE type = "request"
    <3>1. Parsed(type, p, tok).st = "url" /\ Parsed(type, q, tok).st = "url"
      BY <1>0, <1>2, <2>1 DEF Parsed, Parsers
    <3> QED BY <1>1, <2>1, <3>1 DEF Alike
  <2>2. CASE type = "response"
    <3>1. /\ Parsed(type, p, tok).st = "hdr" /\ Parsed(type, q, tok).st = "hdr"
          /\ Parsed(type, p, tok).code = tok.n /\ Parsed(type, q, tok).code = tok.n
      BY <1>0, <1>2, <2>2 DEF Parsed, Parsers
    <3> QED BY <1>1, <3>1 DEF Alike
  <2> QED BY <2>1, <2>2
<1>3. CASE p.st \in {"url", "val"}
  <2>1. Parsed(type, p, tok) = [p EXCEPT !.st = "hdr"] /\ Parsed(type, q, tok) = [q EXCEPT !.st = "hdr"]
    BY <1>0, <1>3 DEF Parsed
  <2> QED BY <1>1, <1>3, <2>1 DEF Alike, Parsers
<1>4. CASE p.st = "hdr" /\ tok.t = "name"
  <2>1. Parsed(type, p, tok) = [p EXCEPT !.st = "val"] /\ Parsed(type, q, tok) = [q EXCEPT !.st = "val"]
    BY <1>0, <1>4 DEF Parsed
  <2> QED BY <1>1, <1>4, <2>1 DEF Alike, Parsers
<1>5. CASE p.st = "hdr" /\ tok.t = "end"
  <2> DEFINE St(r) == CASE tok.x = "chunked"          -> "chunk"
                        [] tok.x = "len" /\ tok.n > 0 -> "body"
                        [] http_message_needs_eof(type, r.code, tok.x) -> "eof"
                        [] OTHER                      -> NewMessage(tok.ka)
             Left(r) == IF St(r) = "body" THEN tok.n ELSE 0
             Next1(r) == [r EXCEPT !.st = St(r), !.left = Left(r), !.ka = tok.ka]
  <2>1. Parsed(type, p, tok) = Next1(p) /\ Parsed(type, q, tok) = Next1(q)
    BY <1>0, <1>5 DEF Parsed, HeadersDone
  <2>2. St(p) = St(q)
    BY <1>5 DEF Alike, http_message_needs_eof
  <2> HIDE DEF St
  <2>3. /\ Next1(p).st = St(p) /\ Next1(p).left = Left(p) /\ Next1(p).ka = tok.ka
        /\ Next1(p).code = p.code
        /\ Next1(q).st = St(q) /\ Next1(q).left = Left(q) /\ Next1(q).ka = tok.ka
        /\ Next1(q).code = q.code
    BY DEF Parsers
  <2> HIDE DEF Next1
  <2> QED BY <1>1, <1>5, <2>1, <2>2, <2>3 DEF Alike
<1>6. CASE ~(p.st \in {"start", "url", "val", "hdr"})
  <2> DEFINE Over(r) == \/ r.st = "body"  /\ r.left = 1
                        \/ r.st = "chunk" /\ tok.t = "last"
             St(r) == IF Over(r) THEN NewMessage(r.ka) ELSE r.st
             Left(r) == IF r.st = "body" THEN r.left - 1 ELSE r.left
             Next1(r) == [r EXCEPT !.st = St(r), !.left = Left(r)]
  <2>1. Parsed(type, p, tok) = Next1(p) /\ Parsed(type, q, tok) = Next1(q)
    BY <1>0, <1>6 DEF Parsed, BodyStep, Parsers
  <2>2. St(p) = St(q) /\ (St(p) \in {"body", "chunk"} => p.ka = q.ka /\ Left(p) = Left(q))
    BY <1>0, <1>6 DEF Alike, NewMessage
  <2> HIDE DEF St, Left
  <2>3. /\ Next1(p).st = St(p) /\ Next1(p).left = Left(p) /\ Next1(p).ka = p.ka
        /\ Next1(p).code = p.code
        /\ Next1(q).st = St(q) /\ Next1(q).left = Left(q) /\ Next1(q).ka = q.ka
        /\ Next1(q).code = q.code
    BY DEF Parsers
  <2> HIDE DEF Next1
  <2> QED BY <1>1, <1>6, <2>1, <2>2, <2>3 DEF Alike
<1>7. CASE p.st = "hdr" /\ tok.t \notin {"name", "end"}
  BY <1>1, <1>7 DEF Fits, Accepts, InBody
<1> QED BY <1>1, <1>2, <1>3, <1>4, <1>5, <1>6, <1>7

\* A parser that reads a message takes its next token, and reads the rest.
LEMMA ReadsOn ==
  ASSUME NEW type \in {"request", "response"}, NEW p \in Parsers, NEW toks \in Seq(Token),
         toks # <<>>, NEW ends, Reads(type, p, toks, ends)
  PROVE  /\ Fits(p, Head(toks))
         /\ Reads(type, Parsed(type, p, Head(toks)), Tail(toks), ends)
<1> DEFINE n == Len(toks)
           rest == Tail(toks)
<1>1. PICK g \in [0..n -> Parsers] :
        /\ Alike(type, p, g[0])
        /\ \A i \in 1..n : Fits(g[i - 1], toks[i]) /\ g[i] = Parsed(type, g[i - 1], toks[i])
        /\ g[n].st \in ends
  BY DEF Reads
<1>2. n \in Nat /\ n >= 1 /\ Head(toks) = toks[1] /\ toks[1] \in Token /\ rest \in Seq(Token)
      /\ Len(rest) = n - 1 /\ \A i \in 1..(n - 1) : rest[i] = toks[i + 1]
  OBVIOUS
<1> HIDE DEF n, rest
<1>3. 0 \in 0..n /\ 1 \in 0..n /\ 1 \in 1..n /\ 1 - 1 = 0
  BY <1>2
<1>4. g[0] \in Parsers /\ Fits(g[0], toks[1]) /\ g[1] = Parsed(type, g[0], toks[1])
  BY <1>1, <1>3
<1>5. Fits(p, toks[1]) /\ Alike(type, Parsed(type, p, toks[1]), g[1])
  BY <1>1, <1>2, <1>4, AlikeParsed
<1> DEFINE h == [i \in 0..(n - 1) |-> g[i + 1]]
<1>6. h \in [0..(n - 1) -> Parsers]
  <2>1. \A i \in 0..(n - 1) : i + 1 \in 0..n
    BY <1>2
  <2> QED BY <1>1, <2>1
<1>7. h[0] = g[1] /\ h[n - 1] = g[n]
  BY <1>2
<1>8. \A i \in 1..(n - 1) : Fits(h[i - 1], rest[i]) /\ h[i] = Parsed(type, h[i - 1], rest[i])
  <2> TAKE i \in 1..(n - 1)
  <2>1. i + 1 \in 1..n /\ (i + 1) - 1 = i /\ i - 1 \in 0..(n - 1) /\ i \in 0..(n - 1) /\ (i - 1) + 1 = i
    BY <1>2
  <2>2. h[i - 1] = g[i] /\ h[i] = g[i + 1] /\ rest[i] = toks[i + 1]
    BY <1>2, <2>1
  <2>3. Fits(g[(i + 1) - 1], toks[i + 1]) /\ g[i + 1] = Parsed(type, g[(i + 1) - 1], toks[i + 1])
    BY <1>1, <2>1
  <2> HIDE DEF h
  <2> QED BY <2>1, <2>2, <2>3
<1> HIDE DEF h
<1>9. Reads(type, Parsed(type, p, toks[1]), rest, ends)
  BY <1>1, <1>2, <1>5, <1>6, <1>7, <1>8 DEF Reads
<1> QED BY <1>2, <1>5, <1>9 DEF rest

\* A message that is read is over in one of its ends.
LEMMA ReadsNone ==
  ASSUME NEW type, NEW p, NEW ends, Reads(type, p, <<>>, ends)
  PROVE  p.st \in ends
BY DEF Reads, Alike

\* The tokens are a message from its beginning, or the rest of one.
Rest(toks) == \A i \in 1..Len(toks) : toks[i].t # "begin" /\ toks[i].part = "whole"
Fresh(toks) ==
  Len(toks) > 0 /\ \A i \in 1..Len(toks) : (toks[i].t = "begin" <=> i = 1) /\ toks[i].part = "whole"

\* f takes a new parser through the first n tokens.
Goes(type, toks, n, f) ==
  f = [i \in 0..n |-> IF i = 0 THEN http_parser_init ELSE Parsed(type, f[i - 1], toks[i])]

\* The course of a parser through a message is what its recursion says.
LEMMA CourseExists ==
  ASSUME NEW type \in {"request", "response"}, NEW toks \in Seq(Token)
  PROVE  /\ Course(type, toks) \in [0..Len(toks) -> Parsers]
         /\ Course(type, toks)[0] = http_parser_init
         /\ \A i \in 1..Len(toks) :
              Course(type, toks)[i] = Parsed(type, Course(type, toks)[i - 1], toks[i])
<1> DEFINE T == {n \in Nat : n <= Len(toks) => \E f \in [0..n -> Parsers] : Goes(type, toks, n, f)}
<1>0. Len(toks) \in Nat /\ http_parser_init \in Parsers
  BY DEF http_parser_init, Parsers, States, Words
<1>1. 0 \in T
  <2> DEFINE f == [i \in 0..0 |-> http_parser_init]
  <2>1. f \in [0..0 -> Parsers] /\ Goes(type, toks, 0, f)
    BY <1>0 DEF Goes
  <2> QED BY <2>1
<1>2. ASSUME NEW n \in T PROVE n + 1 \in T
  <2>0. n \in Nat /\ n + 1 \in Nat
    OBVIOUS
  <2>1. ASSUME n + 1 <= Len(toks)
        PROVE  \E f \in [0..(n + 1) -> Parsers] : Goes(type, toks, n + 1, f)
    <3>1. n <= Len(toks) /\ toks[n + 1] \in Token
      BY <1>0, <2>0, <2>1
    <3>2. PICK f \in [0..n -> Parsers] : Goes(type, toks, n, f)
      BY <3>1
    <3>3. f[n] \in Parsers
      BY <2>0, <3>2
    <3> DEFINE q == Parsed(type, f[n], toks[n + 1])
    <3>4. q \in Parsers
      BY <3>1, <3>3, ParsedType
    <3> HIDE DEF q
    <3> DEFINE h == [i \in 0..(n + 1) |-> IF i = n + 1 THEN q ELSE f[i]]
    <3>5. h \in [0..(n + 1) -> Parsers]
      BY <2>0, <3>2, <3>4
    <3>6. \A i \in 0..n : f[i] = IF i = 0 THEN http_parser_init ELSE Parsed(type, f[i - 1], toks[i])
      BY <3>2, Zenon DEF Goes
    <3>7. ASSUME NEW i \in 0..(n + 1)
          PROVE  h[i] = IF i = 0 THEN http_parser_init ELSE Parsed(type, h[i - 1], toks[i])
      <4>1. CASE i = n + 1
        <5>1. h[i] = q /\ i # 0 /\ i - 1 = n /\ h[i - 1] = f[n]
          BY <2>0, <4>1
        <5> QED BY <4>1, <5>1 DEF q
      <4>2. CASE i \in 1..n
        <5>1. h[i] = f[i] /\ h[i - 1] = f[i - 1] /\ i # 0 /\ i \in 0..n
          BY <2>0, <4>2
        <5> HIDE DEF h
        <5> QED BY <3>6, <5>1
      <4>3. CASE i = 0
        <5>1. h[0] = f[0] /\ 0 \in 0..n
          BY <2>0
        <5> HIDE DEF h
        <5> QED BY <3>6, <4>3, <5>1
      <4>4. i = n + 1 \/ i \in 1..n \/ i = 0
        BY <2>0
      <4> HIDE DEF h
      <4> QED BY <4>1, <4>2, <4>3, <4>4
    <3>8. Goes(type, toks, n + 1, h)
      <4> HIDE DEF h
      <4>1. h = [i \in 0..(n + 1) |-> h[i]]
        BY <3>5
      <4> QED BY <3>7, <4>1, Zenon DEF Goes
    <3> QED BY <3>5, <3>8
  <2> QED BY <2>0, <2>1
<1>3. T = Nat
  <2> HIDE DEF T
  <2>1. T \in SUBSET Nat
    BY DEF T
  <2> QED BY <1>1, <1>2, <2>1, SetInduction
<1>4. PICK f \in [0..Len(toks) -> Parsers] : Goes(type, toks, Len(toks), f)
  BY <1>0, <1>3
<1>5. Course(type, toks) = CHOOSE h : Goes(type, toks, Len(toks), h)
  BY DEF Course, Goes
<1> DEFINE c == Course(type, toks)
<1>6. Goes(type, toks, Len(toks), c)
  BY <1>4, <1>5
<1> HIDE DEF c
<1>7. \A i \in 0..Len(toks) :
        c[i] = IF i = 0 THEN http_parser_init ELSE Parsed(type, c[i - 1], toks[i])
  BY <1>6, Zenon DEF Goes
<1>8. c = f
  <2> DEFINE U == {n \in Nat : n <= Len(toks) => c[n] = f[n]}
  <2>1. \A i \in 0..Len(toks) :
          f[i] = IF i = 0 THEN http_parser_init ELSE Parsed(type, f[i - 1], toks[i])
    BY <1>4, Zenon DEF Goes
  <2>2. 0 \in U
    BY <1>0, <1>7, <2>1
  <2>3. ASSUME NEW n \in U PROVE n + 1 \in U
    <3>1. n \in Nat /\ n + 1 \in Nat
      OBVIOUS
    <3>2. ASSUME n + 1 <= Len(toks) PROVE c[n + 1] = f[n + 1]
      <4>1. n + 1 \in 0..Len(toks) /\ n + 1 # 0 /\ (n + 1) - 1 = n /\ n <= Len(toks)
        BY <1>0, <3>1, <3>2
      <4>2. c[n] = f[n]
        BY <4>1
      <4>3. /\ c[n + 1] = Parsed(type, c[(n + 1) - 1], toks[n + 1])
            /\ f[n + 1] = Parsed(type, f[(n + 1) - 1], toks[n + 1])
        BY <1>7, <2>1, <4>1
      <4> QED BY <4>1, <4>2, <4>3
    <3> QED BY <3>1, <3>2
  <2>4. U = Nat
    <3> HIDE DEF U
    <3>1. U \in SUBSET Nat
      BY DEF U
    <3> QED BY <2>2, <2>3, <3>1, SetInduction
  <2>5. \A i \in 0..Len(toks) : c[i] = f[i]
    BY <1>0, <2>4
  <2>6. c = [i \in 0..Len(toks) |-> c[i]]
    BY <1>6, Zenon DEF Goes
  <2>7. f = [i \in 0..Len(toks) |-> f[i]]
    OBVIOUS
  <2> QED BY <2>5, <2>6, <2>7
<1>9. \A i \in 1..Len(toks) : i \in 0..Len(toks) /\ i # 0
  BY <1>0
<1>10. 0 \in 0..Len(toks)
  BY <1>0
<1> QED BY <1>4, <1>7, <1>8, <1>9, <1>10 DEF c

\* A parser that waits for a message reads a well-formed one.
LEMMA WellFormedReads ==
  ASSUME NEW type \in {"request", "response"}, NEW toks \in Seq(Token), NEW ends,
         WellFormed(type, toks, ends), NEW p \in Parsers, p.st = "start"
  PROVE  Fresh(toks) /\ Reads(type, p, toks, ends)
<1> DEFINE g == Course(type, toks)
<1>1. /\ g \in [0..Len(toks) -> Parsers] /\ g[0] = http_parser_init
      /\ \A i \in 1..Len(toks) : g[i] = Parsed(type, g[i - 1], toks[i])
  BY CourseExists
<1>2. /\ \A i \in 1..Len(toks) : Fits(g[i - 1], toks[i])
      /\ g[Len(toks)].st \in ends
  BY DEF WellFormed
<1>3. Alike(type, p, http_parser_init)
  BY DEF Alike, http_parser_init
<1>4. Fresh(toks)
  BY DEF WellFormed, Fresh
<1> HIDE DEF g
<1> QED BY <1>1, <1>2, <1>3, <1>4 DEF Reads

\* What is left of a message when its first token is gone.
LEMMA TailLemma ==
  ASSUME NEW toks \in Seq(Token), toks # <<>>
  PROVE  /\ Head(toks) \in Token /\ Tail(toks) \in Seq(Token) /\ Head(toks) = toks[1]
         /\ Rest(toks) => Rest(Tail(toks)) /\ Head(toks).t # "begin" /\ Head(toks).part = "whole"
         /\ Fresh(toks) => Rest(Tail(toks)) /\ Head(toks).t = "begin" /\ Head(toks).part = "whole"
<1>1. /\ Head(toks) = toks[1] /\ toks[1] \in Token /\ Tail(toks) \in Seq(Token)
      /\ Len(Tail(toks)) = Len(toks) - 1 /\ Len(toks) \in Nat /\ Len(toks) >= 1
      /\ \A i \in 1..(Len(toks) - 1) : Tail(toks)[i] = toks[i + 1]
  OBVIOUS
<1>2. 1 \in 1..Len(toks) /\ \A i \in 1..(Len(toks) - 1) : i + 1 \in 1..Len(toks) /\ i + 1 # 1
  BY <1>1
<1> QED BY <1>1, <1>2 DEF Rest, Fresh

\* The Host names that are left.
LEMMA HostNamesLemma ==
  ASSUME NEW toks \in Seq(Token), toks # <<>>, \A i, j \in HostNames(toks) : i = j
  PROVE  /\ \A i, j \in HostNames(Tail(toks)) : i = j
         /\ IF Head(toks).t = "name" /\ Head(toks).x = "host"
              THEN HostNames(toks) # {} /\ HostNames(Tail(toks)) = {}
              ELSE HostNames(toks) # {} <=> HostNames(Tail(toks)) # {}
<1> DEFINE n == Len(toks)
           rest == Tail(toks)
<1>1. /\ Head(toks) = toks[1] /\ Len(rest) = n - 1 /\ n \in Nat /\ n >= 1
      /\ \A i \in 1..(n - 1) : rest[i] = toks[i + 1]
  OBVIOUS
<1> HIDE DEF n, rest
<1>2. \A i \in HostNames(rest) : i \in 1..(n - 1) /\ i + 1 \in HostNames(toks) /\ i + 1 # 1
  BY <1>1 DEF HostNames, n
<1>3. \A i \in HostNames(toks) : i = 1 \/ i - 1 \in HostNames(rest)
  <2> TAKE i \in HostNames(toks)
  <2>1. i \in 1..n /\ toks[i].t = "name" /\ toks[i].x = "host"
    BY DEF HostNames, n
  <2>2. CASE i # 1
    <3>1. i - 1 \in 1..(n - 1) /\ (i - 1) + 1 = i
      BY <1>1, <2>1, <2>2
    <3>2. rest[i - 1] = toks[i]
      BY <1>1, <3>1
    <3> QED BY <1>1, <2>1, <3>1, <3>2 DEF HostNames
  <2> QED BY <2>2
<1>4. \A i, j \in HostNames(rest) : i = j
  <2> TAKE i, j \in HostNames(rest)
  <2>1. i + 1 = j + 1
    BY <1>2
  <2> QED BY <1>2, <2>1
<1>5. CASE Head(toks).t = "name" /\ Head(toks).x = "host"
  <2>1. 1 \in HostNames(toks)
    BY <1>1, <1>5 DEF HostNames, n
  <2>2. HostNames(rest) = {}
    BY <1>2, <2>1
  <2> QED BY <1>4, <1>5, <2>1, <2>2 DEF rest
<1>6. CASE ~(Head(toks).t = "name" /\ Head(toks).x = "host")
  <2>1. 1 \notin HostNames(toks)
    BY <1>1, <1>6 DEF HostNames
  <2> QED BY <1>2, <1>3, <1>4, <1>6, <2>1 DEF rest
<1> QED BY <1>5, <1>6

-----------------------------------------------------------------------------
(* Half-duplex traffic: the invariant.                                     *)

\* The Host a request has, or has yet to send.
HostKnown ==
  /\ \A i, j \in HostNames(req.todo) : i = j
  /\ HostNames(req.todo) # {} => req.host /\ s.host = None /\ s.cur_field = "none"
  /\ s.cur_field = "host" => req.host /\ s.host = None
  /\ s.host # None => req.host /\ s.host = <<req.k, "whole">>
  /\ req.host => s.host # None \/ s.cur_field = "host" \/ HostNames(req.todo) # {}

\* No exchange is open; the next request may be under way to the parser.
Resting ==
  /\ s = session_init /\ cp = http_parser_init /\ sp = http_parser_init
  /\ rsp.todo = <<>> /\ ~rsp.eof /\ rsp.k = hits
  /\ \/ req.k = hits /\ req.todo = <<>>
     \/ /\ req.k = hits + 1
        /\ Fresh(req.todo) /\ req.todo[1].x = req.meth
        /\ Reads("request", cp, req.todo, {"start", "dead"})
        /\ HostKnown

\* What the request of the open exchange has stored so far.
Asking ==
  /\ req.k = hits
  /\ Rest(req.todo) /\ Reads("request", cp, req.todo, {"start", "dead"})
  /\ cp.method = req.meth
  /\ s.path = IF cp.st = "url" THEN None ELSE <<req.k, "whole">>
  /\ s.method = IF cp.st \in {"url", "hdr", "val"} THEN "DELETE" ELSE req.meth
  /\ s.last_request_header = 1 => cp.st = "val"
  /\ s.cur_field = "host" => cp.st = "val"
  /\ HostKnown

\* What its response has stored, and how far it has got.
Answering ==
  /\ s.last_response_header = 1 => sp.st = "val"
  /\ s.status_code \in {0} \cup Codes(TRUE) \cup (IF rsp.k = req.k THEN {rsp.code} ELSE {})
  /\ \/ rsp.k = req.k - 1 /\ ~rsp.eof
     \/ rsp.k = req.k /\ req.todo = <<>> /\ ~Interim(rsp) /\ rsp.code # 0
  /\ rsp.todo = <<>> /\ rsp.k < req.k => sp.st = "start"
  /\ rsp.todo = <<>> /\ rsp.k = req.k => rsp.eof /\ sp.st = "eof"
  /\ rsp.todo # <<>> =>
       /\ Reads("response", sp, rsp.todo, Ending(rsp))
       /\ rsp.k < req.k => rsp.code \in Codes(TRUE)
       /\ IF sp.st = "start"
            THEN Fresh(rsp.todo) /\ rsp.todo[1].n = rsp.code
            ELSE Rest(rsp.todo) /\ sp.code = rsp.code
  /\ sp.st \in {"body", "chunk", "eof"} => s.status_code = rsp.code

\* The time marks of the open exchange follow each other without a gap.
Timed == s.need_report = 1 => s.req_time + s.server_time + s.rep_time = s.status_time - s.start_time

PInv ==
  /\ hits = Len(log) + (IF open THEN s.need_report ELSE 0)
  /\ NoLeak /\ TimesAddUp
  /\ ~open => rsp.k <= Len(log)
  /\ open => /\ Timed
             /\ s.need_report = 0 => Resting
             /\ s.need_report = 1 => Asking /\ Answering

\* Nothing of the session is left from one exchange to the next.
LEMMA EmptySession ==
  /\ session_init.need_report = 0 /\ session_init.path = None /\ session_init.host = None
  /\ session_init.cur_field = "none" /\ session_init.method = "DELETE"
  /\ session_init.last_request_header = 0 /\ session_init.last_response_header = 0
  /\ session_init.status_code = 0
  /\ session_init.req_time = 0 /\ session_init.server_time = 0 /\ session_init.rep_time = 0
  /\ session_init.start_time = 0 /\ session_init.status_time = 0
  /\ Owned(session_init) = 0
  /\ http_parser_init.st = "start" /\ http_parser_init.method = "DELETE"
  /\ http_parser_init \in Parsers
BY DEF session_init, http_parser_init, Owned, Strings, Headers, Parsers, States, Words

\* The parsers of the model are parsers.
LEMMA ParserIsOne == ParserType \subseteq Parsers
BY DEF ParserType, Parsers, States

\* Inside a message the parser is neither idle nor finished.
LEMMA Unfinished ==
  ASSUME NEW type \in {"request", "response"}, NEW p \in Parsers, NEW toks \in Seq(Token),
         NEW ends, Reads(type, p, toks, ends), Rest(toks)
  PROVE  IF toks = <<>> THEN p.st \in ends
         ELSE ~Completed(p) /\ p.st # "error" /\ Fits(p, Head(toks))
<1>1. CASE toks = <<>>
  BY <1>1, ReadsNone
<1>2. CASE toks # <<>>
  <2>1. Fits(p, Head(toks)) /\ Head(toks).t # "begin"
    BY <1>2, ReadsOn, TailLemma
  <2> QED BY <1>2, <2>1 DEF Fits, Accepts, InBody, Completed
<1> QED BY <1>1, <1>2

-----------------------------------------------------------------------------
(* Half-duplex traffic: the client's tokens.                               *)

\* The parser's next state in each request action.
LEMMA RequestParsed ==
  ASSUME NEW k, NEW tok \in Token, ClientExecute(k, tok), cp \in ParserType, Fits(cp, tok),
         tok.part = "whole"
  PROVE  /\ cp' = Parsed("request", cp, tok)
         /\ \/ cp.st = "start" /\ tok.t = "begin" /\ ClientStart(tok)
            \/ cp.st = "url" /\ cp'.st = "hdr" /\ ClientUrl(k, tok)
            \/ cp.st = "hdr" /\ cp'.st = "val" /\ tok.t = "name" /\ ClientName(tok)
            \/ cp.st = "val" /\ cp'.st = "hdr" /\ ClientValue(k, tok)
            \/ cp.st = "hdr" /\ cp'.st \notin {"url", "hdr", "val"} /\ tok.t = "end" /\ ClientHeaders(tok)
            \/ cp.st \in {"body", "chunk"} /\ cp'.st \notin {"url", "hdr", "val"} /\ ClientBody(tok)
            \/ cp.st = "eof" /\ cp'.st = "eof" /\ ClientBody(tok)
         /\ cp.st # "start" => cp'.method = cp.method
<1> USE DEF ParserType
<1>1. ~ClientIgnores
  BY DEF ClientIgnores, Fits, Accepts, InBody
<1>2. ~ClientRefuses(tok)
  BY DEF ClientRefuses, Fits
<1>3. CASE ClientStart(tok)
  BY <1>3 DEF ClientStart, Parsed
<1>4. CASE ClientUrl(k, tok)
  <2>1. cp' = [cp EXCEPT !.st = "hdr"]
    BY <1>4 DEF ClientUrl
  <2> QED BY <1>4, <2>1 DEF ClientUrl, Parsed
<1>5. CASE ClientName(tok)
  <2>1. cp' = [cp EXCEPT !.st = "val"]
    BY <1>5 DEF ClientName
  <2> QED BY <1>5, <2>1 DEF ClientName, Parsed
<1>6. CASE ClientValue(k, tok)
  <2>1. cp' = [cp EXCEPT !.st = "hdr"]
    BY <1>6 DEF ClientValue
  <2> QED BY <1>6, <2>1 DEF ClientValue, Parsed
<1>7. CASE ClientHeaders(tok)
  <2>1. cp' = HeadersDone("request", cp, tok) /\ cp.st = "hdr" /\ tok.t = "end"
    BY <1>7 DEF ClientHeaders
  <2>2. cp'.st \notin {"url", "hdr", "val"} /\ cp'.method = cp.method
    BY <2>1 DEF HeadersDone, NewMessage
  <2> QED BY <1>7, <2>1, <2>2 DEF Parsed
<1>8. CASE ClientBody(tok)
  <2>1. cp' = BodyStep(cp, tok) /\ cp.st \in {"body", "chunk", "eof"}
    BY <1>8 DEF ClientBody, InBody
  <2>2. cp'.st \notin {"url", "hdr", "val"} /\ cp'.method = cp.method /\ (cp.st = "eof" => cp'.st = "eof")
    BY <2>1 DEF BodyStep, NewMessage
  <2> QED BY <1>8, <2>1, <2>2 DEF Parsed
<1> QED BY <1>1, <1>2, <1>3, <1>4, <1>5, <1>6, <1>7, <1>8 DEF ClientExecute

\* The first token of a request opens its exchange.
LEMMA RequestBegins ==
  ASSUME IInv, PInv, open, ClientData, s.need_report = 0
  PROVE  /\ PInv' /\ hits' = hits + 1 /\ UNCHANGED <<rsp, open, log>>
         /\ req'.meth = req.meth /\ req'.host = req.host
<1> DEFINE tok == Head(req.todo)
<1>1. /\ s = session_init /\ cp = http_parser_init /\ sp = http_parser_init
      /\ rsp.todo = <<>> /\ ~rsp.eof /\ rsp.k = hits
      /\ req.k = hits + 1
      /\ Fresh(req.todo) /\ req.todo[1].x = req.meth
      /\ Reads("request", cp, req.todo, {"start", "dead"})
      /\ HostKnown
  BY DEF PInv, Resting, ClientData
<1>2. /\ req.todo \in Seq(Token) /\ req.todo # <<>> /\ req.k \in Nat /\ hits \in Nat /\ now \in Nat
      /\ cp \in ParserType /\ cp \in Parsers /\ log \in Seq(LineType) /\ rsp.k \in Nat
      /\ req \in [k : Nat, meth : Words, host : BOOLEAN, todo : Seq(Token)]
  BY ParserIsOne DEF IInv, Core, ClientData
<1>3. /\ tok \in Token /\ tok.t = "begin" /\ tok.part = "whole" /\ tok.x = req.meth
      /\ Rest(Tail(req.todo))
  BY <1>1, <1>2, TailLemma
<1>4. Fits(cp, tok) /\ Reads("request", Parsed("request", cp, tok), Tail(req.todo), {"start", "dead"})
  BY <1>1, <1>2, ReadsOn
<1>5. ClientExecute(req.k, tok) /\ UNCHANGED <<rsp, open, now>>
      /\ req' = [req EXCEPT !.todo = Tail(req.todo)]
  BY DEF ClientData
<1>6. req'.k = req.k /\ req'.meth = req.meth /\ req'.host = req.host /\ req'.todo = Tail(req.todo)
  BY <1>2, <1>5
<1> HIDE DEF tok
<1>7. ClientStart(tok) /\ cp' = Parsed("request", cp, tok)
  BY <1>1, <1>2, <1>3, <1>4, <1>5, EmptySession, RequestParsed
<1>8. /\ cp' = [cp EXCEPT !.st = "url", !.method = tok.x] /\ s' = request_begin(s)
      /\ hits' = hits + 1 /\ UNCHANGED <<sp, log, heap>>
  BY <1>7 DEF ClientStart
<1>9. cp'.st = "url" /\ cp'.method = req.meth
  BY <1>2, <1>3, <1>8 DEF ParserType
<1>10. s' = [session_init EXCEPT !.need_report = 1, !.status_time = now, !.start_time = now]
  BY <1>1, <1>8 DEF request_begin
<1>11. /\ s'.need_report = 1 /\ s'.path = None /\ s'.host = None /\ s'.cur_field = "none"
       /\ s'.method = "DELETE" /\ s'.last_request_header = 0 /\ s'.last_response_header = 0
       /\ s'.status_code = 0 /\ s'.req_time = 0 /\ s'.server_time = 0 /\ s'.rep_time = 0
       /\ s'.start_time = now /\ s'.status_time = now /\ Owned(s') = 0
  BY <1>10 DEF session_init, Owned, Strings, Headers
<1>12. /\ \A i, j \in HostNames(Tail(req.todo)) : i = j
       /\ HostNames(req.todo) # {} <=> HostNames(Tail(req.todo)) # {}
  <2>1. tok.t # "name"
    BY <1>3
  <2> QED BY <1>1, <1>2, <2>1, HostNamesLemma DEF HostKnown, tok
<1>13. HostKnown'
  BY <1>1, <1>6, <1>11, <1>12, EmptySession DEF HostKnown
<1>14. Asking'
  BY <1>1, <1>2, <1>3, <1>4, <1>6, <1>7, <1>8, <1>9, <1>11, <1>13 DEF Asking
<1>15. Answering'
  <2>1. rsp'.k = req'.k - 1 /\ ~rsp'.eof /\ rsp'.todo = <<>> /\ sp'.st = "start" /\ rsp'.k # req'.k
    BY <1>1, <1>2, <1>5, <1>6, <1>8, EmptySession
  <2> QED BY <1>2, <1>11, <2>1 DEF Answering
<1>16. Timed'
  BY <1>2, <1>5, <1>11 DEF Timed
<1>17. NoLeak' /\ TimesAddUp'
  BY <1>1, <1>5, <1>8, <1>11, EmptySession DEF PInv, NoLeak, TimesAddUp
<1>18. hits' = Len(log') + s'.need_report
  BY <1>1, <1>8, <1>11, EmptySession DEF PInv
<1>19. PInv'
  BY <1>5, <1>11, <1>14, <1>15, <1>16, <1>17, <1>18 DEF PInv
<1> QED BY <1>5, <1>6, <1>8, <1>19

\* What a token inside a request finds.
LEMMA RequestToken ==
  ASSUME IInv, PInv, open, ClientData, s.need_report = 1, NEW tok, tok = Head(req.todo)
  PROVE  /\ tok \in Token /\ tok.part = "whole" /\ tok.t # "begin"
         /\ cp' = Parsed("request", cp, tok) /\ cp'.method = cp.method
         /\ ClientExecute(req.k, tok) /\ UNCHANGED <<rsp, open, now, sp, log, hits>>
         /\ req'.k = req.k /\ req'.meth = req.meth /\ req'.host = req.host
         /\ req'.todo = Tail(req.todo)
         /\ Rest(req'.todo) /\ Reads("request", cp', req'.todo, {"start", "dead"})
         /\ req.todo \in Seq(Token) /\ req.todo # <<>> /\ cp' \in Parsers
         /\ rsp.k = req.k - 1 /\ ~rsp.eof
         /\ \/ cp.st = "url" /\ cp'.st = "hdr" /\ ClientUrl(req.k, tok)
            \/ cp.st = "hdr" /\ cp'.st = "val" /\ tok.t = "name" /\ ClientName(tok)
            \/ cp.st = "val" /\ cp'.st = "hdr" /\ ClientValue(req.k, tok)
            \/ cp.st = "hdr" /\ cp'.st \notin {"url", "hdr", "val"} /\ tok.t = "end" /\ ClientHeaders(tok)
            \/ /\ cp.st \notin {"url", "hdr", "val"} /\ cp'.st \notin {"url", "hdr", "val"}
               /\ ClientBody(tok)
         /\ tok.t = "name" => cp.st = "hdr"
<1>1. Asking /\ Answering
  BY DEF PInv
<1>2. /\ req.todo \in Seq(Token) /\ req.todo # <<>>
      /\ cp \in ParserType /\ cp \in Parsers
      /\ req \in [k : Nat, meth : Words, host : BOOLEAN, todo : Seq(Token)]
  BY ParserIsOne DEF IInv, Core, ClientData
<1>3. tok \in Token /\ tok.part = "whole" /\ tok.t # "begin" /\ Rest(Tail(req.todo))
  BY <1>1, <1>2, TailLemma DEF Asking
<1>4. Fits(cp, tok) /\ Reads("request", Parsed("request", cp, tok), Tail(req.todo), {"start", "dead"})
  BY <1>1, <1>2, ReadsOn DEF Asking
<1>5. ClientExecute(req.k, tok) /\ UNCHANGED <<rsp, open, now>>
      /\ req' = [req EXCEPT !.todo = Tail(req.todo)]
  BY DEF ClientData
<1>6. req'.k = req.k /\ req'.meth = req.meth /\ req'.host = req.host /\ req'.todo = Tail(req.todo)
  BY <1>2, <1>5
<1>7. cp.st # "start" /\ (tok.t = "name" => cp.st = "hdr")
  BY <1>3, <1>4 DEF Fits, Accepts, InBody
<1>8. /\ cp' = Parsed("request", cp, tok) /\ cp'.method = cp.method
      /\ \/ cp.st = "url" /\ cp'.st = "hdr" /\ ClientUrl(req.k, tok)
         \/ cp.st = "hdr" /\ cp'.st = "val" /\ tok.t = "name" /\ ClientName(tok)
         \/ cp.st = "val" /\ cp'.st = "hdr" /\ ClientValue(req.k, tok)
         \/ cp.st = "hdr" /\ cp'.st \notin {"url", "hdr", "val"} /\ tok.t = "end" /\ ClientHeaders(tok)
         \/ /\ cp.st \notin {"url", "hdr", "val"} /\ cp'.st \notin {"url", "hdr", "val"}
            /\ ClientBody(tok)
  BY <1>2, <1>3, <1>4, <1>5, <1>7, RequestParsed
<1>9. UNCHANGED <<sp, log, hits>>
  BY <1>8 DEF ClientUrl, ClientName, ClientValue, ClientHeaders, ClientBody
<1>10. cp' \in Parsers
  BY <1>2, <1>3, <1>8, ParsedType
<1>11. rsp.k = req.k - 1 /\ ~rsp.eof
  BY <1>1, <1>2 DEF Answering
<1> QED BY <1>2, <1>3, <1>4, <1>5, <1>6, <1>7, <1>8, <1>9, <1>10, <1>11

\* A token that does to the session what its state asks for.
LEMMA RequestGoesOn ==
  ASSUME IInv, PInv, open, ClientData, s.need_report = 1, IInv',
         s'.need_report = 1, heap' = heap + (Owned(s') - Owned(s)),
         s'.last_response_header = s.last_response_header, s'.status_code = s.status_code,
         Timed', HostKnown',
         s'.path = IF cp'.st = "url" THEN None ELSE <<req.k, "whole">>,
         s'.method = IF cp'.st \in {"url", "hdr", "val"} THEN "DELETE" ELSE req.meth,
         s'.last_request_header = 1 => cp'.st = "val",
         s'.cur_field = "host" => cp'.st = "val"
  PROVE  PInv'
<1> DEFINE tok == Head(req.todo)
<1>1. /\ UNCHANGED <<rsp, open, now, sp, log, hits>>
      /\ cp'.method = cp.method
      /\ req'.k = req.k /\ req'.meth = req.meth /\ req'.host = req.host
      /\ req'.todo = Tail(req.todo)
      /\ Rest(req'.todo) /\ Reads("request", cp', req'.todo, {"start", "dead"})
      /\ rsp.k = req.k - 1 /\ ~rsp.eof
  BY RequestToken
<1>2. Asking /\ Answering /\ NoLeak /\ TimesAddUp /\ req.k \in Nat
  BY DEF PInv, IInv
<1>3. Asking'
  BY <1>1, <1>2 DEF Asking
<1>4. Answering'
  <2>1. rsp'.k # req'.k /\ rsp.k # req.k
    BY <1>1, <1>2
  <2> QED BY <1>1, <1>2, <2>1 DEF Answering
<1>5. NoLeak'
  <2>1. Owned(s) \in Nat /\ Owned(s') \in Nat
    BY OwnedLemma DEF IInv, Core
  <2>2. heap = Owned(s)
    BY <1>2 DEF NoLeak
  <2> QED BY <1>1, <2>1, <2>2 DEF NoLeak
<1>6. TimesAddUp'
  BY <1>1, <1>2 DEF TimesAddUp
<1> QED BY <1>1, <1>3, <1>4, <1>5, <1>6 DEF PInv

\* A token that is no Host name changes nothing in what is known of Host.
LEMMA HostUntouched ==
  ASSUME IInv, HostKnown, req.todo # <<>>, req'.k = req.k, req'.host = req.host,
         req'.todo = Tail(req.todo),
         ~(Head(req.todo).t = "name" /\ Head(req.todo).x = "host"),
         s'.host = s.host, s'.cur_field = s.cur_field
  PROVE  HostKnown'
<1>1. req.todo \in Seq(Token)
  BY DEF IInv
<1>2. /\ \A i, j \in HostNames(Tail(req.todo)) : i = j
      /\ HostNames(req.todo) # {} <=> HostNames(Tail(req.todo)) # {}
  BY <1>1, HostNamesLemma DEF HostKnown
<1> QED BY <1>2 DEF HostKnown

\* request_url: the whole path, stored once.
LEMMA UrlStored ==
  ASSUME IInv, PInv, open, ClientData, s.need_report = 1, IInv',
         cp.st = "url", cp'.st = "hdr", ClientUrl(req.k, Head(req.todo))
  PROVE  PInv'
<1> DEFINE tok == Head(req.todo)
<1>1. /\ tok.part = "whole" /\ tok.t # "name" /\ UNCHANGED now
      /\ req'.k = req.k /\ req'.host = req.host /\ req'.todo = Tail(req.todo) /\ req.todo # <<>>
  BY RequestToken DEF ClientUrl
<1>2. Asking /\ Timed /\ s \in SessionType
  BY DEF PInv, IInv, Core
<1>3. s' = [s EXCEPT !.path = <<req.k, "whole">>] /\ heap' = heap + 1
  BY <1>1 DEF ClientUrl, request_url
<1>4. <<req.k, "whole">> # None /\ s.path = None
  BY <1>2 DEF None, Asking
<1>5. /\ s'.need_report = 1 /\ s'.path = <<req.k, "whole">> /\ s'.host = s.host
      /\ s'.method = s.method /\ s'.cur_field = s.cur_field
      /\ s'.last_request_header = s.last_request_header
      /\ s'.last_response_header = s.last_response_header /\ s'.status_code = s.status_code
      /\ s'.req_time = s.req_time /\ s'.server_time = s.server_time /\ s'.rep_time = s.rep_time
      /\ s'.start_time = s.start_time /\ s'.status_time = s.status_time
      /\ s'.props = s.props /\ s'.body = s.body
  BY <1>2, <1>3 DEF SessionType
<1>6. Owned(s') = Owned(s) + 1
  <2>1. Strings(s') = Strings(s) + 1 /\ Headers(s') = Headers(s) /\ Len(s'.body) = Len(s.body)
    BY <1>4, <1>5 DEF Strings, Headers
  <2>2. Strings(s) \in Nat /\ Headers(s) \in Nat /\ Len(s.body) \in Nat
    BY <1>2, OwnedLemma
  <2> QED BY <2>1, <2>2 DEF Owned
<1>7. heap' = heap + (Owned(s') - Owned(s))
  <2>1. Owned(s) \in Nat
    BY <1>2, OwnedLemma
  <2> QED BY <1>3, <1>6, <2>1
<1>8. Timed' /\ HostKnown'
  BY <1>1, <1>2, <1>5, HostUntouched DEF Timed, Asking
<1>9. s'.last_request_header # 1 /\ s'.cur_field # "host"
  BY <1>2, <1>5 DEF Asking
<1> QED BY <1>2, <1>5, <1>7, <1>8, <1>9, RequestGoesOn DEF Asking

\* request_header_field: the name is stored if it is caught, marked if Host.
LEMMA NameStored ==
  ASSUME IInv, PInv, open, ClientData, s.need_report = 1, IInv',
         cp.st = "hdr", cp'.st = "val", ClientName(Head(req.todo))
  PROVE  PInv'
<1> DEFINE tok == Head(req.todo)
           caught == IF IsCaught(tok) THEN 1 ELSE 0
<1>1. /\ tok.part = "whole" /\ tok.t = "name" /\ UNCHANGED now
      /\ req'.k = req.k /\ req'.host = req.host /\ req'.todo = Tail(req.todo)
      /\ req.todo # <<>> /\ req.todo \in Seq(Token)
  BY RequestToken DEF ClientName
<1>2. Asking /\ Timed /\ s \in SessionType /\ HostKnown
  BY DEF PInv, IInv, Core, Asking
<1>3. s.last_request_header = 0 /\ s.cur_field = "none"
  BY <1>2 DEF Asking, SessionType
<1>4. IsHost(tok) <=> tok.x = "host"
  BY <1>1 DEF IsHost
<1>5. /\ s' = [s EXCEPT !.last_request_header = caught,
                        !.cur_field = IF tok.x = "host" THEN "host" ELSE "none"]
      /\ heap' = heap + caught
  BY <1>3, <1>4 DEF ClientName, request_header_field
<1>a. caught \in {0, 1}
  OBVIOUS
<1> HIDE DEF caught
<1>6. /\ s'.need_report = 1 /\ s'.path = s.path /\ s'.host = s.host
      /\ s'.method = s.method /\ s'.cur_field = (IF tok.x = "host" THEN "host" ELSE "none")
      /\ s'.last_request_header = caught
      /\ s'.last_response_header = s.last_response_header /\ s'.status_code = s.status_code
      /\ s'.req_time = s.req_time /\ s'.server_time = s.server_time /\ s'.rep_time = s.rep_time
      /\ s'.start_time = s.start_time /\ s'.status_time = s.status_time
      /\ s'.props = s.props /\ s'.body = s.body
  BY <1>2, <1>5 DEF SessionType
<1>7. heap' = heap + (Owned(s') - Owned(s))
  <2>1. /\ Strings(s') = Strings(s) /\ Len(s'.body) = Len(s.body)
        /\ Headers(s') = Headers(s) + caught
    BY <1>2, <1>3, <1>6, <1>a DEF Strings, Headers, SessionType
  <2>2. Strings(s) \in Nat /\ Headers(s) \in Nat /\ Len(s.body) \in Nat /\ heap \in Nat
    BY <1>2, OwnedLemma DEF IInv, Core
  <2> QED BY <1>5, <1>a, <2>1, <2>2 DEF Owned
<1>8. Timed'
  BY <1>2, <1>6 DEF Timed
<1>9. HostKnown'
  <2>1. CASE tok.x = "host"
    <3>1. HostNames(req.todo) # {} /\ HostNames(Tail(req.todo)) = {}
      BY <1>1, <1>2, <2>1, HostNamesLemma DEF HostKnown
    <3> HIDE DEF tok
    <3> QED BY <1>1, <1>2, <1>6, <2>1, <3>1 DEF HostKnown
  <2>2. CASE tok.x # "host"
    BY <1>1, <1>2, <1>3, <1>6, <2>2, HostUntouched
  <2> QED BY <2>1, <2>2
<1> QED BY <1>2, <1>6, <1>7, <1>8, <1>9, RequestGoesOn DEF Asking

\* request_header_value: a caught name becomes a property, and a value of Host
\* is stored, once.
LEMMA ValueStored ==
  ASSUME IInv, PInv, open, ClientData, s.need_report = 1, IInv',
         cp.st = "val", cp'.st = "hdr", ClientValue(req.k, Head(req.todo))
  PROVE  PInv'
<1> DEFINE tok == Head(req.todo)
           host == IF s.cur_field = "host" THEN 1 ELSE 0
<1>1. /\ tok.part = "whole" /\ tok.t # "name" /\ UNCHANGED now
      /\ req'.k = req.k /\ req'.host = req.host /\ req'.todo = Tail(req.todo)
      /\ req.todo # <<>> /\ req.todo \in Seq(Token)
  BY RequestToken DEF ClientValue
<1>2. Asking /\ Timed /\ s \in SessionType /\ HostKnown
  BY DEF PInv, IInv, Core, Asking
<1>3. /\ s' = [s EXCEPT !.props = s.props + s.last_request_header, !.last_request_header = 0,
                        !.host = IF s.cur_field = "host" THEN <<req.k, "whole">> ELSE s.host,
                        !.cur_field = "none"]
      /\ heap' = heap + host
  BY <1>1 DEF ClientValue, request_header_value
<1>a. host \in {0, 1} /\ <<req.k, "whole">> # None
  BY DEF None
<1>6. /\ s'.need_report = 1 /\ s'.path = s.path
      /\ s'.host = (IF s.cur_field = "host" THEN <<req.k, "whole">> ELSE s.host)
      /\ s'.method = s.method /\ s'.cur_field = "none"
      /\ s'.last_request_header = 0
      /\ s'.last_response_header = s.last_response_header /\ s'.status_code = s.status_code
      /\ s'.req_time = s.req_time /\ s'.server_time = s.server_time /\ s'.rep_time = s.rep_time
      /\ s'.start_time = s.start_time /\ s'.status_time = s.status_time
      /\ s'.props = s.props + s.last_request_header /\ s'.body = s.body
  BY <1>2, <1>3 DEF SessionType
<1>7. heap' = heap + (Owned(s') - Owned(s))
  <2>1. /\ Strings(s') = Strings(s) + host /\ Len(s'.body) = Len(s.body)
    BY <1>2, <1>6, <1>a DEF Strings, HostKnown
  <2>2. Headers(s') = Headers(s)
    BY <1>2, <1>6 DEF Headers, SessionType
  <2>3. Strings(s) \in Nat /\ Headers(s) \in Nat /\ Len(s.body) \in Nat /\ heap \in Nat
    BY <1>2, OwnedLemma DEF IInv, Core
  <2> HIDE DEF host
  <2> QED BY <1>3, <1>a, <2>1, <2>2, <2>3 DEF Owned
<1>8. Timed'
  BY <1>2, <1>6 DEF Timed
<1>9. HostKnown'
  <2>1. /\ \A i, j \in HostNames(Tail(req.todo)) : i = j
        /\ HostNames(req.todo) # {} <=> HostNames(Tail(req.todo)) # {}
    BY <1>1, <1>2, HostNamesLemma DEF HostKnown
  <2> HIDE DEF tok, host
  <2>2. CASE s.cur_field = "host"
    BY <1>1, <1>2, <1>6, <1>a, <2>1, <2>2 DEF HostKnown
  <2>3. CASE s.cur_field # "host"
    BY <1>1, <1>2, <1>6, <2>1, <2>3 DEF HostKnown
  <2> QED BY <2>2, <2>3
<1> QED BY <1>2, <1>6, <1>7, <1>8, <1>9, RequestGoesOn DEF Asking

\* A mark adds to one phase what has passed since the last one.
LEMMA MarkLemma ==
  ASSUME NEW a \in Nat, NEW b \in Nat, NEW c \in Nat, NEW status \in Nat, NEW start \in Nat,
         NEW t \in Nat, a + b + c = status - start
  PROVE  /\ (a + (t - status)) + b + c = t - start
         /\ a + (b + (t - status)) + c = t - start
         /\ a + b + (c + (t - status)) = t - start
OBVIOUS

\* request_headers_complete and request_complete: the method, and the time
\* the request took.
LEMMA RequestComplete ==
  ASSUME IInv, PInv, open, ClientData, s.need_report = 1, IInv',
         cp.st \notin {"url", "val"}, cp'.st \notin {"url", "hdr", "val"}, heap' = heap,
         ~(Head(req.todo).t = "name" /\ Head(req.todo).x = "host"),
         NEW x, x \in {s, [s EXCEPT !.method = req.meth]}, x.method = req.meth,
         s' \in {x, request_complete(x)}
  PROVE  PInv'
<1>1. /\ UNCHANGED now /\ now \in Nat /\ req'.k = req.k /\ req'.host = req.host
      /\ req'.todo = Tail(req.todo) /\ req.todo # <<>>
  BY RequestToken DEF IInv, Core
<1>2. Asking /\ Timed /\ s \in SessionType /\ HostKnown
  BY DEF PInv, IInv, Core, Asking
<1>3. /\ x.need_report = 1 /\ x.path = s.path /\ x.host = s.host /\ x.cur_field = s.cur_field
      /\ x.last_request_header = s.last_request_header
      /\ x.last_response_header = s.last_response_header /\ x.status_code = s.status_code
      /\ x.req_time = s.req_time /\ x.server_time = s.server_time /\ x.rep_time = s.rep_time
      /\ x.start_time = s.start_time /\ x.status_time = s.status_time
      /\ x.props = s.props /\ x.body = s.body
      /\ DOMAIN x = DOMAIN s
  BY <1>2 DEF SessionType
<1>a. /\ x.req_time \in Nat /\ x.server_time \in Nat /\ x.rep_time \in Nat
      /\ x.start_time \in Nat /\ x.status_time \in Nat
  BY <1>2, <1>3 DEF SessionType
<1>4. /\ s'.need_report = 1 /\ s'.path = s.path /\ s'.host = s.host /\ s'.cur_field = s.cur_field
      /\ s'.method = req.meth
      /\ s'.last_request_header = s.last_request_header
      /\ s'.last_response_header = s.last_response_header /\ s'.status_code = s.status_code
      /\ s'.props = s.props /\ s'.body = s.body
      /\ s'.req_time + s'.server_time + s'.rep_time = s'.status_time - s'.start_time
  <2>0. x.req_time + x.server_time + x.rep_time = x.status_time - x.start_time
    BY <1>2, <1>3 DEF Timed
  <2>1. CASE s' = x
    BY <1>3, <2>0, <2>1
  <2>2. CASE s' = request_complete(x)
    <3>0. x \in SessionType
      <4>1. req.meth \in Words
        BY DEF IInv
      <4> QED BY <1>2, <4>1 DEF SessionType
    <3>1. s' = [x EXCEPT !.req_time = x.req_time + (now - x.status_time), !.status_time = now]
      BY <2>2 DEF request_complete, Elapsed
    <3>2. /\ s'.req_time = x.req_time + (now - x.status_time) /\ s'.status_time = now
          /\ s'.server_time = x.server_time /\ s'.rep_time = x.rep_time
          /\ s'.start_time = x.start_time
      BY <3>0, <3>1 DEF SessionType
    <3>3. /\ s'.need_report = x.need_report /\ s'.path = x.path /\ s'.host = x.host
          /\ s'.cur_field = x.cur_field /\ s'.method = x.method
          /\ s'.last_request_header = x.last_request_header
          /\ s'.last_response_header = x.last_response_header /\ s'.status_code = x.status_code
          /\ s'.props = x.props /\ s'.body = x.body
      BY <3>0, <3>1 DEF SessionType
    <3>4. s'.req_time + s'.server_time + s'.rep_time = s'.status_time - s'.start_time
      <4> DEFINE a == x.req_time
                 b == x.server_time
                 c == x.rep_time
                 status == x.status_time
                 start == x.start_time
      <4>1. /\ a \in Nat /\ b \in Nat /\ c \in Nat /\ status \in Nat /\ start \in Nat
            /\ a + b + c = status - start
            /\ s'.req_time + s'.server_time + s'.rep_time = (a + (now - status)) + b + c
            /\ s'.status_time - s'.start_time = now - start
        BY <1>a, <2>0, <3>2
      <4> HIDE DEF a, b, c, status, start
      <4> QED BY <1>1, <4>1
    <3> QED BY <1>3, <3>3, <3>4
  <2> QED BY <2>1, <2>2
<1>5. Owned(s') = Owned(s) /\ Owned(s) \in Nat /\ heap \in Nat
  BY <1>2, <1>4, OwnedLemma DEF Owned, Strings, Headers, IInv, Core
<1>6. heap' = heap + (Owned(s') - Owned(s))
  BY <1>5
<1>7. Timed'
  BY <1>4 DEF Timed
<1>8. HostKnown'
  BY <1>1, <1>2, <1>4, HostUntouched
<1>9. s'.last_request_header # 1 /\ s'.cur_field # "host"
  BY <1>2, <1>4 DEF Asking
<1> QED BY <1>2, <1>4, <1>6, <1>7, <1>8, <1>9, RequestGoesOn DEF Asking

\* Every token of the client keeps the invariant.
LEMMA ClientPolite ==
  ASSUME IInv, PInv, ClientData, IInv'
  PROVE  PInv'
<1>0. open /\ s.need_report \in {0, 1} /\ s \in SessionType
  BY DEF ClientData, IInv, Core, SessionType
<1>1. CASE s.need_report = 0
  BY <1>0, <1>1, RequestBegins
<1>2. CASE s.need_report = 1
  <2> DEFINE tok == Head(req.todo)
  <2>1. Asking /\ cp.method = req.meth
    BY <1>0, <1>2 DEF PInv, Asking
  <2>2. CASE cp.st = "url" /\ cp'.st = "hdr" /\ ClientUrl(req.k, tok)
    BY <1>0, <1>2, <2>2, UrlStored
  <2>3. CASE cp.st = "hdr" /\ cp'.st = "val" /\ ClientName(tok)
    BY <1>0, <1>2, <2>3, NameStored
  <2>4. CASE cp.st = "val" /\ cp'.st = "hdr" /\ ClientValue(req.k, tok)
    BY <1>0, <1>2, <2>4, ValueStored
  <2>5. CASE cp.st = "hdr" /\ cp'.st \notin {"url", "hdr", "val"} /\ tok.t = "end" /\ ClientHeaders(tok)
    <3> DEFINE x == [s EXCEPT !.method = req.meth]
    <3>1. s' \in {x, request_complete(x)} /\ heap' = heap
      BY <2>1, <2>5 DEF ClientHeaders, request_headers_complete
    <3>2. x.method = req.meth
      BY <1>0 DEF SessionType
    <3> HIDE DEF tok
    <3>3. ~(Head(req.todo).t = "name" /\ Head(req.todo).x = "host")
      BY <2>5 DEF tok
    <3>4. x \in {s, [s EXCEPT !.method = req.meth]}
      OBVIOUS
    <3> HIDE DEF x
    <3> QED BY <1>0, <1>2, <2>5, <3>1, <3>2, <3>3, <3>4, RequestComplete
  <2>6. CASE /\ cp.st \notin {"url", "hdr", "val"} /\ cp'.st \notin {"url", "hdr", "val"}
             /\ ClientBody(tok)
    <3>1. s' \in {s, request_complete(s)} /\ heap' = heap
      BY <2>6 DEF ClientBody
    <3>2. s.method = req.meth
      BY <2>1, <2>6 DEF Asking
    <3>3. tok.t # "name"
      BY <1>0, <1>2, <2>6, RequestToken
    <3> QED BY <1>0, <1>2, <2>6, <3>1, <3>2, <3>3, RequestComplete
  <2> QED BY <1>0, <1>2, <2>2, <2>3, <2>4, <2>5, <2>6, RequestToken
<1> QED BY <1>0, <1>1, <1>2

-----------------------------------------------------------------------------
(* Half-duplex traffic: the server's tokens.                               *)

\* y holds what x holds, of the request and of the time, but for the code,
\* the headers and the body of the response.
SameExchange(x, y) ==
  /\ SameRequest(x, y)
  /\ y.method = x.method /\ y.start_time = x.start_time /\ y.status_time = x.status_time
  /\ y.server_time = x.server_time /\ y.rep_time = x.rep_time

\* What a token that may end the message does.
Outcome(x, p, h) == IF Completed(p) THEN response_complete(x, p, h) ELSE NotReported(x, p, h)

\* The exchange is over, and its line says what was asked and answered.
Recorded ==
  /\ rsp.k = req.k /\ req.k = Len(log) + 1
  /\ \E l \in LineType :
       /\ log' = Append(log, l)
       /\ l.path = <<req.k, "whole">>
       /\ l.host = IF req.host THEN <<req.k, "whole">> ELSE None
       /\ l.method = req.meth /\ l.code = rsp.code /\ l.status = "success"

\* The parser's next state in each response action.
LEMMA ResponseParsed ==
  ASSUME NEW tok \in Token, ServerExecute(tok), sp \in ParserType, Fits(sp, tok),
         tok.part = "whole", NEW q, q = Parsed("response", sp, tok)
  PROVE  /\ \/ sp.st = "start" /\ q.st = "hdr" /\ sp' = q /\ ServerStart(tok)
            \/ sp.st = "hdr" /\ q.st = "val" /\ sp' = q /\ ServerName(tok)
            \/ sp.st = "val" /\ q.st = "hdr" /\ sp' = q /\ ServerValue(tok)
            \/ sp.st = "hdr" /\ q = HeadersDone("response", sp, tok) /\ ServerHeaders(tok)
            \/ sp.st \in {"body", "chunk", "eof"} /\ q = BodyStep(sp, tok) /\ ServerBody(tok)
         /\ q.code = IF sp.st = "start" THEN tok.n ELSE sp.code
<1> USE DEF ParserType
<1>1. ~ServerIgnores
  BY DEF ServerIgnores, Fits, Accepts, InBody
<1>2. ~ServerRefuses(tok)
  BY DEF ServerRefuses, Fits
<1>3. CASE ServerStart(tok)
  <2>1. sp' = [sp EXCEPT !.st = "hdr", !.code = tok.n] /\ sp.st = "start"
    BY <1>3 DEF ServerStart
  <2> QED BY <1>3, <2>1 DEF Parsed
<1>4. CASE ServerName(tok)
  <2>1. sp' = [sp EXCEPT !.st = "val"] /\ sp.st = "hdr" /\ tok.t = "name"
    BY <1>4 DEF ServerName
  <2> QED BY <1>4, <2>1 DEF Parsed
<1>5. CASE ServerValue(tok)
  <2>1. sp' = [sp EXCEPT !.st = "hdr"] /\ sp.st = "val"
    BY <1>5 DEF ServerValue
  <2> QED BY <1>5, <2>1 DEF Parsed
<1>6. CASE ServerHeaders(tok)
  <2>1. q = HeadersDone("response", sp, tok) /\ sp.st = "hdr"
    BY <1>6 DEF ServerHeaders, Parsed
  <2>2. q.code = sp.code
    BY <2>1 DEF HeadersDone
  <2> QED BY <1>6, <2>1, <2>2
<1>7. CASE ServerBody(tok)
  <2>1. sp.st \in {"body", "chunk", "eof"}
    BY <1>7 DEF ServerBody, InBody
  <2>2. q = BodyStep(sp, tok)
    BY <2>1 DEF Parsed
  <2>3. q.code = sp.code
    BY <2>2 DEF BodyStep
  <2> QED BY <1>7, <2>1, <2>2, <2>3
<1> QED BY <1>1, <1>2, <1>3, <1>4, <1>5, <1>6, <1>7 DEF ServerExecute

\* What a token of a response finds.
LEMMA ResponseToken ==
  ASSUME IInv, PInv, ServerData, NEW tok, tok = Head(rsp.todo),
         NEW q, q = Parsed("response", sp, tok)
  PROVE  /\ open /\ s.need_report = 1 /\ Asking /\ Answering /\ Timed /\ s \in SessionType
         /\ tok \in Token /\ tok.part = "whole" /\ rsp.todo # <<>>
         /\ UNCHANGED <<req, open, hits, now>>
         /\ rsp'.k = rsp.k /\ rsp'.code = rsp.code /\ rsp'.eof = rsp.eof
         /\ rsp'.todo = Tail(rsp.todo)
         /\ Rest(rsp'.todo) /\ Reads("response", q, rsp'.todo, Ending(rsp))
         /\ q \in Parsers /\ q.code = rsp.code
         /\ \/ sp.st = "start" /\ q.st = "hdr" /\ sp' = q /\ ServerStart(tok)
            \/ sp.st = "hdr" /\ q.st = "val" /\ sp' = q /\ ServerName(tok)
            \/ sp.st = "val" /\ q.st = "hdr" /\ sp' = q /\ ServerValue(tok)
            \/ sp.st = "hdr" /\ q = HeadersDone("response", sp, tok) /\ ServerHeaders(tok)
            \/ sp.st \in {"body", "chunk", "eof"} /\ q = BodyStep(sp, tok) /\ ServerBody(tok)
<1>1. /\ open /\ rsp.todo # <<>> /\ ServerExecute(tok) /\ UNCHANGED <<req, open, hits, now>>
      /\ rsp' = [rsp EXCEPT !.todo = Tail(rsp.todo)]
  BY DEF ServerData
<1>2. /\ rsp \in [k : Nat, sent : Nat, code : Nat, eof : BOOLEAN, todo : Seq(Token)]
      /\ rsp.todo \in Seq(Token) /\ sp \in ParserType /\ sp \in Parsers /\ s \in SessionType
  BY ParserIsOne DEF IInv, Core
<1>3. s.need_report = 1
  <2>1. s.need_report # 0
    BY <1>1 DEF PInv, Resting
  <2> QED BY <1>2, <2>1 DEF SessionType
<1>4. Asking /\ Answering /\ Timed
  BY <1>1, <1>3 DEF PInv
<1>5. rsp'.k = rsp.k /\ rsp'.code = rsp.code /\ rsp'.eof = rsp.eof /\ rsp'.todo = Tail(rsp.todo)
  BY <1>1, <1>2
<1>6. /\ Reads("response", sp, rsp.todo, Ending(rsp))
      /\ IF sp.st = "start"
           THEN Fresh(rsp.todo) /\ rsp.todo[1].n = rsp.code
           ELSE Rest(rsp.todo) /\ sp.code = rsp.code
  BY <1>1, <1>4 DEF Answering
<1>7. /\ tok \in Token /\ tok.part = "whole" /\ Rest(Tail(rsp.todo))
      /\ sp.st = "start" => tok.n = rsp.code
  BY <1>1, <1>2, <1>6, TailLemma
<1>8. Fits(sp, tok) /\ Reads("response", q, Tail(rsp.todo), Ending(rsp)) /\ q \in Parsers
  BY <1>1, <1>2, <1>6, <1>7, ReadsOn, ParsedType
<1>9. /\ q.code = IF sp.st = "start" THEN tok.n ELSE sp.code
      /\ \/ sp.st = "start" /\ q.st = "hdr" /\ sp' = q /\ ServerStart(tok)
         \/ sp.st = "hdr" /\ q.st = "val" /\ sp' = q /\ ServerName(tok)
         \/ sp.st = "val" /\ q.st = "hdr" /\ sp' = q /\ ServerValue(tok)
         \/ sp.st = "hdr" /\ q = HeadersDone("response", sp, tok) /\ ServerHeaders(tok)
         \/ sp.st \in {"body", "chunk", "eof"} /\ q = BodyStep(sp, tok) /\ ServerBody(tok)
  BY <1>1, <1>2, <1>7, <1>8, ResponseParsed
<1> QED BY <1>1, <1>2, <1>3, <1>4, <1>5, <1>6, <1>7, <1>8, <1>9

\* A token that does not end the exchange keeps the invariant.
LEMMA ResponseGoesOn ==
  ASSUME IInv, PInv, ServerData, IInv', UNCHANGED <<cp, log>>,
         sp' = Parsed("response", sp, Head(rsp.todo)),
         SameRequest(s, s'), s'.method = s.method,
         Timed', heap' = heap + (Owned(s') - Owned(s)),
         s'.last_response_header = 1 => sp'.st = "val",
         s'.status_code \in {s.status_code, rsp.code},
         sp'.st \in {"body", "chunk", "eof"} => s'.status_code = rsp.code,
         Completed(sp') => Interim(rsp)
  PROVE  PInv'
<1>1. /\ open /\ s.need_report = 1 /\ Asking /\ Answering /\ rsp.todo # <<>>
      /\ UNCHANGED <<req, open, hits, now>>
      /\ rsp'.k = rsp.k /\ rsp'.code = rsp.code /\ rsp'.eof = rsp.eof
      /\ Rest(rsp'.todo) /\ Reads("response", sp', rsp'.todo, Ending(rsp))
      /\ sp' \in Parsers /\ sp'.code = rsp.code
  BY ResponseToken
<1>2. /\ s'.need_report = 1 /\ s'.path = s.path /\ s'.host = s.host /\ s'.cur_field = s.cur_field
      /\ s'.last_request_header = s.last_request_header
  BY <1>1 DEF SameRequest
<1>3. Asking'
  <2>1. HostKnown'
    BY <1>1, <1>2 DEF Asking, HostKnown
  <2> QED BY <1>1, <1>2, <2>1 DEF Asking
<1>4. rsp'.todo \in Seq(Token)
  BY DEF IInv
<1>5. (Interim(rsp') <=> Interim(rsp)) /\ Ending(rsp') = Ending(rsp)
  BY <1>1 DEF Interim, Ending
<1>6. rsp.k < req.k => rsp.code \in Codes(TRUE) /\ Interim(rsp)
  BY <1>1 DEF Answering, Codes, Interim
<1>7. /\ rsp.k \in Nat /\ req.k \in Nat
      /\ rsp.k < req.k \/ (rsp.k = req.k /\ ~Interim(rsp))
  BY <1>1 DEF Answering, IInv
<1>8. rsp'.todo = <<>> => sp'.st \in Ending(rsp)
  BY <1>1, ReadsNone
<1>9. rsp'.todo # <<>> => ~Completed(sp')
  BY <1>1, <1>4, Unfinished
<1>10. rsp'.todo = <<>> => IF rsp.k < req.k THEN sp'.st = "start" ELSE rsp.eof /\ sp'.st = "eof"
  <2>1. CASE rsp.k < req.k
    BY <1>6, <1>8, <2>1 DEF Ending
  <2>2. CASE ~(rsp.k < req.k)
    BY <1>7, <1>8, <2>2 DEF Ending, Completed
  <2> QED BY <2>1, <2>2
<1>11. s'.status_code \in {0} \cup Codes(TRUE) \cup (IF rsp.k = req.k THEN {rsp.code} ELSE {})
  BY <1>1, <1>6, <1>7 DEF Answering
<1>12. Answering'
  <2>1. \/ rsp'.k = req'.k - 1 /\ ~rsp'.eof
        \/ rsp'.k = req'.k /\ req'.todo = <<>> /\ ~Interim(rsp') /\ rsp'.code # 0
    <3>1. \/ rsp.k = req.k - 1 /\ ~rsp.eof
          \/ rsp.k = req.k /\ req.todo = <<>> /\ ~Interim(rsp) /\ rsp.code # 0
      BY <1>1 DEF Answering
    <3> QED BY <1>1, <1>5, <3>1
  <2>2. rsp'.todo # <<>> =>
          /\ Reads("response", sp', rsp'.todo, Ending(rsp'))
          /\ rsp'.k < req'.k => rsp'.code \in Codes(TRUE)
          /\ sp'.st # "start" /\ Rest(rsp'.todo) /\ sp'.code = rsp'.code
    BY <1>1, <1>5, <1>6, <1>9 DEF Completed
  <2>3. /\ rsp'.todo = <<>> /\ rsp'.k < req'.k => sp'.st = "start"
        /\ rsp'.todo = <<>> /\ rsp'.k = req'.k => rsp'.eof /\ sp'.st = "eof"
    BY <1>1, <1>7, <1>10
  <2>4. s'.status_code \in {0} \cup Codes(TRUE) \cup (IF rsp'.k = req'.k THEN {rsp'.code} ELSE {})
    BY <1>1, <1>11
  <2>5. sp'.st \in {"body", "chunk", "eof"} => s'.status_code = rsp'.code
    BY <1>1
  <2>6. Codes(TRUE)' = Codes(TRUE)
    BY DEF Codes, Interim
  <2> QED BY <2>1, <2>2, <2>3, <2>4, <2>5, <2>6, Zenon DEF Answering
<1>13. NoLeak'
  <2>1. Owned(s) \in Nat /\ Owned(s') \in Nat /\ heap = Owned(s)
    BY <1>1, OwnedLemma DEF IInv, Core, PInv, NoLeak
  <2> QED BY <1>1, <2>1 DEF NoLeak
<1>14. TimesAddUp'
  BY DEF PInv, TimesAddUp
<1>15. hits = Len(log) + 1
  BY <1>1 DEF PInv
<1> QED BY <1>1, <1>2, <1>3, <1>12, <1>13, <1>14, <1>15 DEF PInv

\* The token that ends the exchange logs all of it, and nothing is left.
LEMMA ResponseEnds ==
  ASSUME IInv, PInv, ServerData, IInv', NEW q, q = Parsed("response", sp, Head(rsp.todo)),
         Completed(q), ~Interim(rsp),
         NEW x \in SessionType, SameRequest(s, x), x.method = s.method,
         x.status_code = rsp.code,
         x.req_time + x.server_time + x.rep_time = now - x.start_time,
         NEW h \in Nat, h = heap + (Owned(x) - Owned(s)),
         session_report(x, q, h, "success")
  PROVE  PInv' /\ Recorded
<1>1. /\ open /\ s.need_report = 1 /\ Asking /\ Answering /\ rsp.todo # <<>> /\ s \in SessionType
      /\ UNCHANGED <<req, open, hits, now>>
      /\ rsp'.k = rsp.k /\ rsp'.code = rsp.code /\ rsp'.eof = rsp.eof
      /\ Rest(rsp'.todo) /\ Reads("response", q, rsp'.todo, Ending(rsp))
      /\ q \in Parsers
  BY ResponseToken
<1>2. /\ x.need_report = 1 /\ x.path = s.path /\ x.host = s.host
  BY <1>1 DEF SameRequest
<1>3. /\ rsp'.todo \in Seq(Token) /\ req.k \in Nat /\ rsp.k \in Nat /\ log \in Seq(LineType)
      /\ heap \in Nat /\ log' \in Seq(LineType)
  BY DEF IInv, Core
<1>4. rsp'.todo = <<>> /\ ~rsp.eof
  <2>1. rsp'.todo = <<>>
    BY <1>1, <1>3, Unfinished
  <2>2. q.st \in Ending(rsp)
    BY <1>1, <2>1, ReadsNone
  <2> QED BY <2>1, <2>2 DEF Ending, Completed
<1>5. rsp.k = req.k /\ req.todo = <<>>
  <2>1. rsp.k = req.k - 1 => Interim(rsp)
    BY <1>1, <1>3 DEF Answering, Codes, Interim
  <2> QED BY <1>1, <2>1 DEF Answering
<1>6. hits = Len(log) + 1 /\ req.k = hits
  BY <1>1 DEF PInv, Asking
<1>7. cp.st \in {"start", "dead"}
  BY <1>1, <1>5, ReadsNone DEF Asking
<1>8. /\ s.path = <<req.k, "whole">> /\ s.method = req.meth
      /\ s.host = IF req.host THEN <<req.k, "whole">> ELSE None
  <2>1. HostNames(req.todo) = {} /\ s.cur_field # "host"
    BY <1>1, <1>5, <1>7 DEF HostNames, Asking
  <2>2. HostKnown
    BY <1>1 DEF Asking
  <2>3. s.host = IF req.host THEN <<req.k, "whole">> ELSE None
    BY <2>1, <2>2 DEF HostKnown
  <2> QED BY <1>1, <1>7, <2>3 DEF Asking
<1> DEFINE l == LogLine(x, "success")
<1>9. /\ log' = Append(log, l) /\ heap' = h - Owned(x)
      /\ s' = session_init /\ cp' = http_parser_init /\ sp' = http_parser_init
  BY <1>2 DEF session_report, Reported
<1>10. /\ l.path = <<req.k, "whole">> /\ l.method = req.meth /\ l.code = rsp.code
       /\ l.host = IF req.host THEN <<req.k, "whole">> ELSE None
       /\ l.status = "success" /\ l.start = x.start_time /\ l.end = now
       /\ l.time = x.req_time + x.server_time + x.rep_time
  BY <1>2, <1>8 DEF LogLine
<1>11. l \in LineType
  <2>1. x.req_time \in Nat /\ x.server_time \in Nat /\ x.rep_time \in Nat /\ now \in Nat
    BY DEF SessionType, IInv, Core
  <2>2. x.req_time + x.server_time + x.rep_time \in Nat
    BY <2>1
  <2>3. /\ x.path \in Value /\ x.host \in Value /\ x.method \in Words
        /\ x.status_code \in Nat /\ x.start_time \in Nat
    BY DEF SessionType
  <2> QED  BY <2>1, <2>2, <2>3, Zenon DEF LogLine, LineType
<1> HIDE DEF l
<1>12. Recorded
  BY <1>5, <1>6, <1>9, <1>10, <1>11 DEF Recorded
<1>13. Len(log') = Len(log) + 1
  BY <1>3, <1>9
<1>14. TimesAddUp'
  <2> SUFFICES ASSUME NEW i \in 1..Len(log'), log'[i].status = "success"
               PROVE  log'[i].time = log'[i].end - log'[i].start
    BY DEF TimesAddUp
  <2>1. CASE i = Len(log) + 1
    <3>1. log'[i] = l
      BY <1>3, <1>9, <1>11, <2>1
    <3> QED BY <1>10, <3>1
  <2>2. CASE i # Len(log) + 1
    <3>1. i \in 1..Len(log) /\ log'[i] = log[i]
      BY <1>3, <1>9, <1>11, <1>13, <2>2
    <3> QED BY <3>1 DEF PInv, TimesAddUp
  <2> QED BY <2>1, <2>2
<1>15. heap' = 0 /\ NoLeak'
  <2>1. Owned(x) \in Nat /\ Owned(s) \in Nat /\ heap = Owned(s)
    BY <1>1, OwnedLemma DEF PInv, NoLeak
  <2>2. heap' = 0
    BY <1>3, <1>9, <2>1
  <2> QED BY <1>1, <1>9, <2>2, EmptySession DEF NoLeak
<1>16. Timed' /\ s'.need_report = 0
  BY <1>9, EmptySession DEF Timed
<1>17. Resting'
  BY <1>1, <1>4, <1>5, <1>6, <1>9 DEF Resting
<1> QED BY <1>1, <1>3, <1>6, <1>12, <1>13, <1>14, <1>15, <1>16, <1>17 DEF PInv

\* response_complete, when a token may end the message.
LEMMA ResponseFinishes ==
  ASSUME IInv, PInv, ServerData, IInv', NEW q, q = Parsed("response", sp, Head(rsp.todo)),
         NEW x \in SessionType, SameExchange(s, x), x.status_code = rsp.code,
         x.last_response_header = 0, q.st # "val",
         NEW h \in Nat, h = heap + (Owned(x) - Owned(s)),
         Outcome(x, q, h)
  PROVE  PInv' /\ (Recorded \/ log' = log)
<1>1. /\ open /\ s.need_report = 1 /\ Timed /\ s \in SessionType /\ q.code = rsp.code
      /\ UNCHANGED <<req, open, hits, now>>
  BY ResponseToken
<1>2. /\ SameRequest(s, x) /\ x.method = s.method /\ x.start_time = s.start_time
      /\ x.status_time = s.status_time /\ x.req_time = s.req_time
      /\ x.server_time = s.server_time /\ x.rep_time = s.rep_time
      /\ x.need_report = 1
  BY <1>1 DEF SameExchange, SameRequest
<1>3. x.req_time + x.server_time + x.rep_time = x.status_time - x.start_time
  BY <1>1, <1>2 DEF Timed
<1>4. ASSUME NotReported(x, q, h), Completed(q) => Interim(rsp)
      PROVE  PInv' /\ log' = log
  <2>1. s' = x /\ sp' = q /\ heap' = h /\ UNCHANGED <<cp, log>>
    BY <1>4 DEF NotReported
  <2>2. Timed'
    BY <1>3, <2>1 DEF Timed
  <2> QED BY <1>2, <1>4, <2>1, <2>2, ResponseGoesOn
<1>5. CASE ~Completed(q) \/ q.code \div 100 = 1
  <2>1. NotReported(x, q, h)
    BY <1>5 DEF Outcome, response_complete
  <2>2. Completed(q) => Interim(rsp)
    BY <1>1, <1>5 DEF Interim
  <2> QED BY <1>4, <2>1, <2>2
<1>6. CASE Completed(q) /\ q.code \div 100 # 1
  <2> DEFINE rep == x.rep_time + (now - x.status_time)
             y == [x EXCEPT !.rep_time = rep, !.status_time = now]
  <2>1. session_report(y, q, h, "success")
    BY <1>6 DEF Outcome, response_complete, Elapsed
  <2>2. Sane(x) /\ now \in Nat /\ sp \in ParserType
    BY <1>2 DEF Sane, IInv, Core, Marks
  <2>3. y = [x EXCEPT !.rep_time = @ + Elapsed(x), !.status_time = now]
    BY DEF Elapsed
  <2>4. Sane(y) /\ SameRequest(x, y) /\ Owned(y) = Owned(x)
    BY <2>2, <2>3, ResponseLemma
  <2>5. /\ y.method = x.method /\ y.status_code = x.status_code /\ y.start_time = x.start_time
        /\ y.req_time = x.req_time /\ y.server_time = x.server_time
        /\ y.rep_time = rep
    BY DEF SessionType
  <2>6. y.req_time + y.server_time + y.rep_time = now - y.start_time
    <3> DEFINE a == x.req_time
               b == x.server_time
               c == x.rep_time
               status == x.status_time
               start == x.start_time
    <3>1. /\ a \in Nat /\ b \in Nat /\ c \in Nat /\ status \in Nat /\ start \in Nat
          /\ a + b + c = status - start
          /\ y.req_time + y.server_time + y.rep_time = a + b + (c + (now - status))
          /\ y.start_time = start
      BY <1>3, <2>5 DEF SessionType
    <3> HIDE DEF a, b, c, status, start, y, rep
    <3> QED BY <2>2, <3>1, MarkLemma
  <2>7. ~Interim(rsp)
    BY <1>1, <1>6 DEF Interim
  <2> HIDE DEF y
  <2>8. y \in SessionType /\ SameRequest(s, y)
    BY <1>2, <2>4 DEF Sane, SameRequest
  <2>9. h = heap + (Owned(y) - Owned(s))
    BY <2>4
  <2>10. y.method = s.method /\ y.status_code = rsp.code
    BY <1>2, <2>5
  <2> QED BY <1>6, <2>1, <2>6, <2>7, <2>8, <2>9, <2>10, ResponseEnds
<1> QED BY <1>5, <1>6

\* response_begin marks the time the server took, once or once more.
LEMMA ResponseBegins ==
  ASSUME IInv, PInv, ServerData, IInv', sp.st = "start", sp' = Parsed("response", sp, Head(rsp.todo)),
         sp'.st = "hdr", ServerStart(Head(rsp.todo))
  PROVE  PInv' /\ log' = log
<1>1. /\ s.need_report = 1 /\ Answering /\ Timed /\ s \in SessionType /\ UNCHANGED now
  BY ResponseToken
<1>2. s' = [s EXCEPT !.server_time = s.server_time + (now - s.status_time), !.status_time = now]
      /\ UNCHANGED <<cp, log, heap>>
  BY DEF ServerStart, response_begin, Elapsed
<1>3. Sane(s) /\ now \in Nat /\ sp \in ParserType
  BY <1>1 DEF Sane, IInv, Core, Marks
<1>4. s' = response_begin(s)
  BY DEF ServerStart
<1>5. SameRequest(s, s') /\ Owned(s') = Owned(s)
  BY <1>3, <1>4, ResponseLemma
<1>6. /\ s'.method = s.method /\ s'.status_code = s.status_code
      /\ s'.last_response_header = s.last_response_header
      /\ s'.req_time = s.req_time /\ s'.rep_time = s.rep_time /\ s'.start_time = s.start_time
      /\ s'.server_time = s.server_time + (now - s.status_time) /\ s'.status_time = now
  BY <1>1, <1>2 DEF SessionType
<1>7. s.last_response_header # 1
  BY <1>1 DEF Answering
<1>8. heap' = heap + (Owned(s') - Owned(s))
  <2>1. Owned(s) \in Nat /\ heap \in Nat
    BY <1>1, OwnedLemma DEF IInv, Core
  <2> QED BY <1>2, <1>5, <2>1
<1>9. Timed'
  <2> DEFINE a == s.req_time
             b == s.server_time
             c == s.rep_time
             status == s.status_time
             start == s.start_time
  <2>1. /\ a \in Nat /\ b \in Nat /\ c \in Nat /\ status \in Nat /\ start \in Nat
        /\ a + b + c = status - start
        /\ s'.req_time + s'.server_time + s'.rep_time = a + (b + (now - status)) + c
        /\ s'.status_time - s'.start_time = now - start
    BY <1>1, <1>6 DEF SessionType, Timed
  <2> HIDE DEF a, b, c, status, start
  <2>2. s'.req_time + s'.server_time + s'.rep_time = s'.status_time - s'.start_time
    BY <1>3, <2>1, MarkLemma
  <2> QED BY <2>2 DEF Timed
<1>10. ~Completed(sp') /\ sp'.st \notin {"body", "chunk", "eof"}
  BY DEF Completed
<1> QED BY <1>2, <1>5, <1>6, <1>7, <1>8, <1>9, <1>10, ResponseGoesOn

\* reponse_header_field stores a caught name.
LEMMA ResponseNamed ==
  ASSUME IInv, PInv, ServerData, IInv', sp.st = "hdr", sp' = Parsed("response", sp, Head(rsp.todo)),
         sp'.st = "val", ServerName(Head(rsp.todo))
  PROVE  PInv' /\ log' = log
<1> DEFINE caught == IF IsCaught(Head(rsp.todo)) THEN 1 ELSE 0
<1>1. /\ s.need_report = 1 /\ Answering /\ Timed /\ s \in SessionType /\ UNCHANGED now
  BY ResponseToken
<1>2. s.last_response_header = 0
  BY <1>1 DEF Answering, SessionType
<1>3. s' = [s EXCEPT !.last_response_header = caught] /\ heap' = heap + caught
      /\ UNCHANGED <<cp, log>>
  BY <1>2 DEF ServerName, reponse_header_field
<1>4. caught \in {0, 1}
  OBVIOUS
<1> HIDE DEF caught
<1>5. /\ s'.need_report = s.need_report /\ s'.path = s.path /\ s'.host = s.host
      /\ s'.cur_field = s.cur_field /\ s'.last_request_header = s.last_request_header
      /\ s'.method = s.method /\ s'.status_code = s.status_code
      /\ s'.last_response_header = caught
      /\ s'.req_time = s.req_time /\ s'.rep_time = s.rep_time /\ s'.start_time = s.start_time
      /\ s'.server_time = s.server_time /\ s'.status_time = s.status_time
      /\ s'.props = s.props /\ s'.body = s.body
  BY <1>1, <1>3 DEF SessionType
<1>6. heap' = heap + (Owned(s') - Owned(s))
  <2>1. Strings(s') = Strings(s) /\ Headers(s') = Headers(s) + caught /\ Len(s'.body) = Len(s.body)
    BY <1>1, <1>2, <1>4, <1>5 DEF Strings, Headers, SessionType
  <2>2. Strings(s) \in Nat /\ Headers(s) \in Nat /\ Len(s.body) \in Nat /\ heap \in Nat
    BY <1>1, OwnedLemma DEF IInv, Core
  <2> QED BY <1>3, <1>4, <2>1, <2>2 DEF Owned
<1>7. Timed'
  BY <1>1, <1>5 DEF Timed
<1>8. SameRequest(s, s') /\ ~Completed(sp') /\ sp'.st \notin {"body", "chunk", "eof"}
  BY <1>5 DEF SameRequest, Completed
<1> QED BY <1>3, <1>5, <1>6, <1>7, <1>8, ResponseGoesOn

\* reponse_header_value makes a property of it.
LEMMA ResponseValued ==
  ASSUME IInv, PInv, ServerData, IInv', sp.st = "val", sp' = Parsed("response", sp, Head(rsp.todo)),
         sp'.st = "hdr", ServerValue(Head(rsp.todo))
  PROVE  PInv' /\ log' = log
<1>1. /\ s.need_report = 1 /\ Timed /\ s \in SessionType /\ UNCHANGED now
  BY ResponseToken
<1>2. Sane(s) /\ now \in Nat /\ sp \in ParserType
  BY <1>1 DEF Sane, IInv, Core, Marks
<1>3. s' = reponse_header_value(s) /\ UNCHANGED <<cp, log, heap>>
  BY DEF ServerValue
<1>4. SameRequest(s, s') /\ Owned(s') = Owned(s)
  BY <1>2, <1>3, ResponseLemma
<1>5. /\ s'.method = s.method /\ s'.status_code = s.status_code /\ s'.need_report = s.need_report
      /\ s'.last_response_header = 0
      /\ s'.req_time = s.req_time /\ s'.rep_time = s.rep_time /\ s'.start_time = s.start_time
      /\ s'.server_time = s.server_time /\ s'.status_time = s.status_time
  BY <1>1, <1>3 DEF SessionType, reponse_header_value
<1>6. heap' = heap + (Owned(s') - Owned(s))
  BY <1>1, <1>3, <1>4, OwnedLemma DEF IInv, Core
<1>7. Timed'
  BY <1>1, <1>5 DEF Timed
<1>8. ~Completed(sp') /\ sp'.st \notin {"body", "chunk", "eof"}
  BY DEF Completed
<1> QED BY <1>3, <1>4, <1>5, <1>6, <1>7, <1>8, ResponseGoesOn

\* Every token of the server keeps the invariant, and the last one of a
\* final response is recorded.
LEMMA ServerPolite ==
  ASSUME IInv, PInv, ServerData, IInv'
  PROVE  PInv' /\ (Recorded \/ log' = log)
<1> DEFINE tok == Head(rsp.todo)
           q == Parsed("response", sp, tok)
<1>1. /\ s.need_report = 1 /\ Answering /\ Timed /\ s \in SessionType /\ UNCHANGED now
      /\ rsp.todo # <<>> /\ tok \in Token
      /\ \/ sp.st = "start" /\ q.st = "hdr" /\ sp' = q /\ ServerStart(tok)
         \/ sp.st = "hdr" /\ q.st = "val" /\ sp' = q /\ ServerName(tok)
         \/ sp.st = "val" /\ q.st = "hdr" /\ sp' = q /\ ServerValue(tok)
         \/ sp.st = "hdr" /\ q = HeadersDone("response", sp, tok) /\ ServerHeaders(tok)
         \/ sp.st \in {"body", "chunk", "eof"} /\ q = BodyStep(sp, tok) /\ ServerBody(tok)
  BY ResponseToken
<1>2. Sane(s) /\ now \in Nat /\ sp \in ParserType /\ heap \in Nat
  BY <1>1 DEF Sane, IInv, Core, Marks
<1>3. CASE sp.st = "start" /\ q.st = "hdr" /\ sp' = q /\ ServerStart(tok)
  BY <1>3, ResponseBegins
<1>4. CASE sp.st = "hdr" /\ q.st = "val" /\ sp' = q /\ ServerName(tok)
  BY <1>4, ResponseNamed
<1>5. CASE sp.st = "val" /\ q.st = "hdr" /\ sp' = q /\ ServerValue(tok)
  BY <1>5, ResponseValued
<1>6. CASE sp.st = "hdr" /\ q = HeadersDone("response", sp, tok) /\ ServerHeaders(tok)
  <2> DEFINE x == response_headers_complete(s, sp)
  <2>1. Outcome(x, q, heap)
    BY <1>6 DEF ServerHeaders, Outcome
  <2>2. Sane(x) /\ SameRequest(s, x) /\ Owned(x) = Owned(s)
    BY <1>2, ResponseLemma
  <2>3. sp.code = rsp.code /\ s.last_response_header = 0
    BY <1>1, <1>6 DEF Answering, SessionType
  <2>4. /\ x.method = s.method /\ x.start_time = s.start_time /\ x.status_time = s.status_time
        /\ x.server_time = s.server_time /\ x.rep_time = s.rep_time
        /\ x.status_code = rsp.code /\ x.last_response_header = 0
    BY <1>1, <2>3 DEF SessionType, response_headers_complete
  <2>5. q.st # "val"
    <3> HIDE DEF q
    <3> QED BY <1>2, <1>6 DEF HeadersDone, NewMessage, ParserType
  <2> HIDE DEF x, q
  <2>6. heap = heap + (Owned(x) - Owned(s)) /\ x \in SessionType
    BY <1>1, <1>2, <2>2, OwnedLemma DEF Sane
  <2>7. SameExchange(s, x)
    BY <2>2, <2>4 DEF SameExchange
  <2> QED BY <1>2, <2>1, <2>4, <2>5, <2>6, <2>7, ResponseFinishes DEF q
<1>7. CASE sp.st \in {"body", "chunk", "eof"} /\ q = BodyStep(sp, tok) /\ ServerBody(tok)
  <2> DEFINE x == IF sp.st = "chunk" /\ tok.t = "last" THEN s ELSE response_body(s, Length(tok))
             h == heap + (Len(x.body) - Len(s.body))
  <2>1. Outcome(x, q, h)
    BY <1>7 DEF ServerBody, Outcome
  <2>2. Length(tok) \in Nat
    BY <1>1 DEF Length, Token
  <2>3. /\ Sane(x) /\ SameRequest(s, x) /\ Len(x.body) >= Len(s.body)
        /\ Owned(x) = Owned(s) + (Len(x.body) - Len(s.body))
    <3>1. CASE sp.st = "chunk" /\ tok.t = "last"
      BY <1>1, <1>2, <3>1, OwnedLemma DEF SameRequest
    <3>2. CASE ~(sp.st = "chunk" /\ tok.t = "last")
      BY <1>2, <2>2, <3>2, ResponseBodyLemma
    <3> QED BY <3>1, <3>2
  <2>4. s.status_code = rsp.code /\ s.last_response_header = 0
    BY <1>1, <1>7 DEF Answering, SessionType
  <2>5. /\ x.method = s.method /\ x.start_time = s.start_time /\ x.status_time = s.status_time
        /\ x.server_time = s.server_time /\ x.rep_time = s.rep_time
        /\ x.status_code = rsp.code /\ x.last_response_header = 0
    <3>1. x \in {s, [s EXCEPT !.body = Append(@, Length(tok)), !.body_size = @ + Length(tok)]}
      BY DEF response_body
    <3> HIDE DEF x
    <3> QED BY <1>1, <2>4, <3>1 DEF SessionType
  <2>6. q.st # "val"
    <3> HIDE DEF q
    <3> QED BY <1>2, <1>7 DEF BodyStep, NewMessage, ParserType
  <2> HIDE DEF x, q
  <2>7. h \in Nat /\ h = heap + (Owned(x) - Owned(s)) /\ x \in SessionType
    <3>1. Owned(s) \in Nat /\ Owned(x) \in Nat /\ Len(s.body) \in Nat /\ Len(x.body) \in Nat
      BY <1>1, <2>3, OwnedLemma DEF Sane
    <3>2. x \in SessionType
      BY <2>3 DEF Sane
    <3> DEFINE d == Len(x.body) - Len(s.body)
    <3>3. d \in Nat /\ Owned(x) = Owned(s) + d
      BY <2>3, <3>1
    <3> HIDE DEF d
    <3>4. heap + d \in Nat /\ heap + d = heap + (Owned(x) - Owned(s))
      BY <1>2, <3>1, <3>3
    <3> QED BY <3>2, <3>4 DEF d
  <2> HIDE DEF h
  <2>8. SameExchange(s, x)
    BY <2>3, <2>5 DEF SameExchange
  <2> QED BY <2>1, <2>5, <2>6, <2>7, <2>8, ResponseFinishes DEF q
<1> QED BY <1>1, <1>3, <1>4, <1>5, <1>6, <1>7

-----------------------------------------------------------------------------
(* Half-duplex traffic: the endpoints and the end of the connection.       *)

\* The client's next request finds an empty session and a waiting parser.
LEMMA RequestFollows ==
  ASSUME IInv, PInv, Polite, NEW m \in Requests, NewRequest(m)
  PROVE  PInv' /\ s.need_report = 0
<1>1. /\ open /\ req.todo = <<>> /\ rsp.todo = <<>> /\ rsp.k = req.k /\ ~rsp.eof
      /\ req' = [k |-> req.k + 1, meth |-> m.meth, host |-> m.host, todo |-> m.toks]
      /\ UNCHANGED <<rsp, cp, sp, s, open, log, hits, heap, now>>
      /\ PoliteRequest(m)
  BY DEF NewRequest, Polite
<1>2. s.need_report = 0
  <2>1. s.need_report # 1
    BY <1>1 DEF PInv, Answering, IInv
  <2> QED BY <2>1 DEF IInv, Core, SessionType
<1>3. Resting /\ req.k = hits /\ req.k \in Nat
  <2>1. Resting
    BY <1>1, <1>2 DEF PInv
  <2>2. ~Fresh(<<>>)
    BY DEF Fresh
  <2> QED BY <1>1, <2>1, <2>2 DEF Resting, IInv
<1>4. /\ req'.k = hits + 1 /\ req'.meth = m.meth /\ req'.host = m.host /\ req'.todo = m.toks
  BY <1>1, <1>3
<1>5. m.toks \in Seq(Token) /\ WellFormed("request", m.toks, {"start", "dead"})
  BY <1>1, SessionAssumption DEF PoliteRequest
<1>6. Fresh(m.toks) /\ Reads("request", cp, m.toks, {"start", "dead"})
  BY <1>3, <1>5, EmptySession, WellFormedReads DEF Resting
<1>7. HostKnown'
  <2>1. s'.host = None /\ s'.cur_field = "none"
    BY <1>1, <1>3, EmptySession DEF Resting
  <2>2. (m.host <=> HostNames(m.toks) # {}) /\ \A i, j \in HostNames(m.toks) : i = j
    BY <1>1 DEF PoliteRequest
  <2> QED BY <1>4, <2>1, <2>2 DEF HostKnown
<1>8. Resting'
  <2>1. /\ req'.k = hits' + 1 /\ Fresh(req'.todo) /\ req'.todo[1].x = req'.meth
        /\ Reads("request", cp', req'.todo, {"start", "dead"})
    BY <1>1, <1>4, <1>6 DEF PoliteRequest
  <2> QED BY <1>1, <1>3, <1>7, <2>1 DEF Resting
<1> QED BY <1>1, <1>2, <1>8 DEF PInv, NoLeak, TimesAddUp, Timed

\* The server's next response is about the exchange that is open.
LEMMA ResponseFollows ==
  ASSUME IInv, PInv, Polite, NEW m \in Responses, NewResponse(m)
  PROVE  PInv' /\ s.need_report = 1 /\ rsp.k = Len(log) /\ m.code > 0
<1>1. /\ open /\ rsp.todo = <<>> /\ rsp.k < req.k
      /\ req.todo # <<>> => Interim(m) /\ Head(req.todo).t = "data"
      /\ rsp' = [k |-> IF Interim(m) THEN rsp.k ELSE rsp.k + 1, sent |-> rsp.sent + 1,
                 code |-> m.code, eof |-> m.eof, todo |-> m.toks]
      /\ UNCHANGED <<req, cp, sp, s, open, log, hits, heap, now>>
      /\ PoliteResponse(m)
  BY DEF NewResponse, Polite
<1>2. req.k \in Nat /\ rsp.k \in Nat /\ req.todo \in Seq(Token) /\ sp \in Parsers /\ hits \in Nat
  BY ParserIsOne DEF IInv, Core
<1>3. s.need_report = 1
  <2>1. ASSUME s.need_report = 0 PROVE FALSE
    <3>1. req.k # hits
      BY <1>1, <1>2, <2>1 DEF PInv, Resting
    <3>2. Fresh(req.todo) /\ req.todo # <<>>
      BY <1>1, <2>1, <3>1 DEF PInv, Resting, Fresh
    <3> QED BY <1>1, <1>2, <3>2, TailLemma
  <2> QED BY <2>1 DEF IInv, Core, SessionType
<1>4. Asking /\ Answering /\ rsp.k = req.k - 1 /\ sp.st = "start"
  BY <1>1, <1>2, <1>3 DEF PInv, Answering
<1>5. /\ rsp'.k = IF Interim(m) THEN rsp.k ELSE rsp.k + 1
      /\ rsp'.code = m.code /\ rsp'.eof = m.eof /\ rsp'.todo = m.toks
  BY <1>1
<1>6. /\ m.toks \in Seq(Token) /\ WellFormed("response", m.toks, Ending(m))
      /\ m.toks[1].n = m.code /\ m.code > 0 /\ (Interim(m) => ~m.eof) /\ m.code \in Nat
  BY <1>1, SessionAssumption DEF PoliteResponse
<1>7. Fresh(m.toks) /\ Reads("response", sp, m.toks, Ending(m)) /\ m.toks # <<>>
  BY <1>2, <1>4, <1>6, WellFormedReads DEF Fresh
<1>8. Interim(m) => m.code \in Codes(TRUE)
  BY DEF Codes
<1>9. (Interim(rsp') <=> Interim(m)) /\ Ending(rsp') = Ending(m)
  BY <1>5 DEF Interim, Ending
<1>10. rsp'.k < req.k <=> Interim(m)
  BY <1>2, <1>4, <1>5
<1>11. Answering'
  <2>1. s.status_code \in {0} \cup Codes(TRUE)
    <3>1. rsp.k # req.k
      BY <1>2, <1>4
    <3> QED BY <1>4, <3>1 DEF Answering
  <2>2. s'.status_code \in {0} \cup Codes(TRUE) \cup (IF rsp'.k = req'.k THEN {rsp'.code} ELSE {})
    BY <1>1, <2>1
  <2>3. \/ rsp'.k = req'.k - 1 /\ ~rsp'.eof
        \/ rsp'.k = req'.k /\ req'.todo = <<>> /\ ~Interim(rsp') /\ rsp'.code # 0
    BY <1>1, <1>2, <1>4, <1>5, <1>6, <1>9
  <2>4. rsp'.todo # <<>>
    BY <1>5, <1>7
  <2>5. /\ Reads("response", sp', rsp'.todo, Ending(rsp'))
        /\ rsp'.k < req'.k => rsp'.code \in Codes(TRUE)
        /\ sp'.st = "start" /\ Fresh(rsp'.todo) /\ rsp'.todo[1].n = rsp'.code
    BY <1>1, <1>4, <1>5, <1>6, <1>7, <1>8, <1>9, <1>10
  <2>6. s'.last_response_header = 1 => sp'.st = "val"
    BY <1>1, <1>4 DEF Answering
  <2>7. Codes(TRUE)' = Codes(TRUE)
    BY DEF Codes, Interim
  <2>8. sp'.st \notin {"body", "chunk", "eof"}
    BY <2>5
  <2> QED BY <2>2, <2>3, <2>4, <2>5, <2>6, <2>7, <2>8, Zenon DEF Answering
<1>12. Asking'
  <2>1. HostKnown'
    BY <1>1, <1>4 DEF Asking, HostKnown
  <2> QED BY <1>1, <1>4, <2>1 DEF Asking
<1>13. rsp.k = Len(log)
  <2>1. hits = Len(log) + 1 /\ req.k = hits
    BY <1>1, <1>3, <1>4 DEF PInv, Asking
  <2> QED BY <1>2, <1>4, <2>1
<1> QED BY <1>1, <1>3, <1>6, <1>11, <1>12, <1>13 DEF PInv, NoLeak, TimesAddUp, Timed

\* The end of the connection reports what is open, as far as it got.
LEMMA ClosePolite ==
  ASSUME IInv, PInv, IInv', NEW status \in Closings, session_close(status)
  PROVE  /\ PInv' /\ rsp.k <= hits
         /\ IF s.need_report = 1 THEN log' = Append(log, LogLine(s, status)) ELSE log' = log
<1>1. open /\ ~open' /\ session_report(s, sp, heap, status) /\ UNCHANGED <<req, rsp, hits, now>>
  BY DEF session_close
<1>2. /\ s \in SessionType /\ log \in Seq(LineType) /\ log' \in Seq(LineType) /\ hits \in Nat
      /\ rsp.k \in Nat /\ req.k \in Nat
  BY DEF IInv, Core
<1>3. heap = Owned(s) /\ Owned(s) \in Nat
  BY <1>1, <1>2, OwnedLemma DEF PInv, NoLeak
<1>4. CASE s.need_report = 1
  <2>1. log' = Append(log, LogLine(s, status)) /\ heap' = heap - Owned(s)
    BY <1>1, <1>4 DEF session_report, Reported
  <2>2. Len(log') = Len(log) + 1 /\ hits = Len(log) + 1 /\ req.k = hits /\ rsp.k <= req.k
    BY <1>1, <1>2, <1>4, <2>1 DEF PInv, Asking, Answering
  <2>3. heap' = 0
    BY <1>3, <2>1
  <2>4. TimesAddUp'
    <3> SUFFICES ASSUME NEW i \in 1..Len(log'), log'[i].status = "success"
                 PROVE  log'[i].time = log'[i].end - log'[i].start
      BY DEF TimesAddUp
    <3>1. CASE i = Len(log) + 1
      <4>1. log'[i] = LogLine(s, status)
        BY <1>2, <2>1, <3>1
      <4>2. log'[i].status = status
        BY <4>1 DEF LogLine
      <4> QED BY <4>2, SessionAssumption
    <3>2. CASE i # Len(log) + 1
      <4>1. i \in 1..Len(log) /\ log'[i] = log[i]
        BY <1>2, <2>1, <2>2, <3>2
      <4> QED BY <4>1 DEF PInv, TimesAddUp
    <3> QED BY <3>1, <3>2
  <2> QED BY <1>1, <1>2, <1>4, <2>1, <2>2, <2>3, <2>4 DEF PInv, NoLeak
<1>5. CASE s.need_report # 1
  <2>1. s.need_report = 0 /\ Resting
    BY <1>1, <1>2, <1>5 DEF PInv, SessionType
  <2>2. s' = s /\ heap' = heap /\ log' = log
    BY <1>1, <1>5 DEF session_report, NotReported
  <2>3. heap' = 0 /\ hits = Len(log) /\ rsp.k = hits
    BY <1>1, <1>3, <2>1, <2>2, EmptySession DEF Resting, PInv
  <2> QED BY <1>1, <1>2, <1>5, <2>1, <2>2, <2>3 DEF PInv, NoLeak, TimesAddUp
<1> QED BY <1>4, <1>5

\* A new connection is at rest.
LEMMA PoliteInit == Init => PInv
<1> SUFFICES ASSUME Init PROVE PInv
  OBVIOUS
<1>1. /\ s = session_init /\ cp = http_parser_init /\ sp = http_parser_init /\ open
      /\ rsp.todo = <<>> /\ ~rsp.eof /\ rsp.k = 0 /\ hits = 0 /\ req.k = 0 /\ req.todo = <<>>
      /\ log = <<>> /\ Len(log) = 0 /\ heap = 0
  BY DEF Init
<1>2. Resting
  BY <1>1 DEF Resting
<1>3. Timed /\ NoLeak /\ TimesAddUp /\ s.need_report = 0
  BY <1>1, EmptySession DEF Timed, NoLeak, TimesAddUp
<1> QED BY <1>1, <1>2, <1>3 DEF PInv

\* With polite traffic every step keeps the invariant.
LEMMA PoliteNext == Polite /\ IInv /\ PInv /\ [Next]_vars => PInv'
<1> SUFFICES ASSUME Polite, IInv, PInv, [Next]_vars PROVE PInv'
  OBVIOUS
<1>0. IInv'
  BY NextIInv
<1>1. ASSUME NEW m \in Requests, NewRequest(m) PROVE PInv'
  BY <1>1, RequestFollows
<1>2. ASSUME NEW m \in Responses, NewResponse(m) PROVE PInv'
  BY <1>2, ResponseFollows
<1>3. CASE ClientData
  BY <1>0, <1>3, ClientPolite
<1>4. CASE ServerData
  BY <1>0, <1>4, ServerPolite
<1>5. ASSUME NEW status \in Closings, session_close(status) PROVE PInv'
  BY <1>0, <1>5, ClosePolite
<1>6. CASE Tick \/ UNCHANGED vars
  <2>1. UNCHANGED <<req, rsp, cp, sp, s, open, log, hits, heap>>
    BY <1>6 DEF Tick, vars
  <2>2. HostKnown' = HostKnown
    BY <2>1 DEF HostKnown
  <2>3. Resting' = Resting /\ Asking' = Asking /\ Answering' = Answering
    BY <2>1, <2>2 DEF Resting, Asking, Answering
  <2> QED BY <2>1, <2>3 DEF PInv, NoLeak, TimesAddUp, Timed
<1> QED BY <1>1, <1>2, <1>3, <1>4, <1>5, <1>6 DEF Next, Gone

-----------------------------------------------------------------------------
(* Half-duplex traffic: the theorems.                                      *)

\* For polite traffic, any messages and any bounds, both invariants hold of
\* every reachable state.
LEMMA PoliteAlways == Polite => (Spec => [](IInv /\ PInv))
<1> SUFFICES ASSUME Polite PROVE Spec => [](IInv /\ PInv)
  OBVIOUS
<1>1. Init => IInv /\ PInv
  BY InitIInv, PoliteInit
<1>2. (IInv /\ PInv) /\ [Next]_vars => (IInv /\ PInv)'
  BY NextIInv, PoliteNext
<1> QED BY <1>1, <1>2, PTL DEF Spec

\* Nothing leaks: what the callbacks have allocated is what session_clean
\* will free, and a closed connection leaves nothing on the heap.
THEOREM NothingLeaks == Polite => (Spec => []NoLeak)
<1> SUFFICES ASSUME Polite PROVE Spec => []NoLeak
  OBVIOUS
<1>1. Spec => [](IInv /\ PInv)
  BY PoliteAlways
<1>2. IInv /\ PInv => NoLeak
  BY DEF PInv
<1> QED BY <1>1, <1>2, PTL

\* The phase times of a completed exchange are its whole duration: the marks
\* that callbacks of two parsers set leave no gap and count nothing twice.
THEOREM TimesAlwaysAddUp == Polite => (Spec => []TimesAddUp)
<1> SUFFICES ASSUME Polite PROVE Spec => []TimesAddUp
  OBVIOUS
<1>1. Spec => [](IInv /\ PInv)
  BY PoliteAlways
<1>2. IInv /\ PInv => TimesAddUp
  BY DEF PInv
<1> QED BY <1>1, <1>2, PTL

\* An exchange that is over on the wire is in the log.
THEOREM AnsweredAlwaysLogged == Polite => (Spec => []AnsweredIsLogged)
<1> SUFFICES ASSUME Polite PROVE Spec => []AnsweredIsLogged
  OBVIOUS
<1>1. Spec => [](IInv /\ PInv)
  BY PoliteAlways
<1>2. IInv /\ PInv => AnsweredIsLogged
  <2> SUFFICES ASSUME IInv, PInv, rsp.todo = <<>>, ~rsp.eof PROVE Len(log) >= rsp.k
    BY DEF AnsweredIsLogged
  <2>1. /\ s.need_report \in {0, 1} /\ rsp.k \in Nat /\ req.k \in Nat /\ hits \in Nat
        /\ log \in Seq(LineType) /\ Len(log) \in Nat
    BY DEF IInv, Core, SessionType
  <2>2. CASE ~open
    BY <2>1, <2>2 DEF PInv
  <2>3. CASE open /\ s.need_report = 0
    <3>1. rsp.k = hits /\ hits = Len(log)
      BY <2>1, <2>3 DEF PInv, Resting
    <3> QED BY <2>1, <3>1
  <2>4. CASE open /\ s.need_report = 1
    <3>1. rsp.k = req.k - 1 /\ req.k = hits /\ hits = Len(log) + 1
      BY <2>1, <2>4 DEF PInv, Asking, Answering
    <3> QED BY <2>1, <3>1
  <2> QED BY <2>1, <2>2, <2>3, <2>4
<1> QED BY <1>1, <1>2, PTL

-----------------------------------------------------------------------------
(* Half-duplex traffic: the log implements ExchangeLog.                    *)

\* The state of ExchangeLog, as LogsEveryExchange maps it.
Want == [meth |-> req.meth, host |-> req.host]
Answer == IF open /\ Len(log) < rsp.k THEN rsp.code ELSE 0
Shown(l) == [path |-> Whose(l.path), host |-> Whose(l.host),
             method |-> l.method, code |-> l.code, status |-> l.status]
Lines == [i \in 1..Len(log) |-> Shown(log[i])]

\* A line that is logged is shown behind the others.
LEMMA LinesGrow ==
  ASSUME log \in Seq(LineType), NEW l \in LineType, log' = Append(log, l)
  PROVE  Lines' = Append(Lines, Shown(l))
<1> DEFINE S == {Shown(x) : x \in LineType}
           n == Len(log)
           new == Lines'
           old == Append(Lines, Shown(l))
<1>1. /\ n \in Nat /\ Len(log') = n + 1 /\ log' \in Seq(LineType)
      /\ \A i \in 1..n : log'[i] = log[i] /\ log[i] \in LineType
      /\ log'[n + 1] = l
  OBVIOUS
<1>2. Lines \in Seq(S) /\ Len(Lines) = n /\ \A i \in 1..n : Lines[i] = Shown(log[i])
  <2>1. \A i \in 1..n : Shown(log[i]) \in S
    BY <1>1
  <2> HIDE DEF S
  <2> QED BY <1>1, <2>1 DEF Lines
<1>3. new \in Seq(S) /\ Len(new) = n + 1 /\ \A i \in 1..(n + 1) : new[i] = Shown(log'[i])
  <2>1. \A i \in 1..(n + 1) : log'[i] \in LineType
    BY <1>1
  <2>2. \A i \in 1..(n + 1) : Shown(log'[i]) \in S
    BY <2>1
  <2>3. new = [i \in 1..(n + 1) |-> Shown(log'[i])]
    BY <1>1 DEF Lines, Shown, Whose
  <2> HIDE DEF S, new
  <2> QED BY <1>1, <2>2, <2>3
<1>4. Shown(l) \in S
  OBVIOUS
<1> HIDE DEF S
<1>5. /\ old \in Seq(S) /\ Len(old) = n + 1
      /\ \A i \in 1..n : old[i] = Lines[i]
      /\ old[n + 1] = Shown(l)
  BY <1>2, <1>4
<1> HIDE DEF new, old
<1>6. ASSUME NEW i \in 1..Len(new) PROVE new[i] = old[i]
  <2>1. CASE i = n + 1
    BY <1>1, <1>3, <1>5, <2>1
  <2>2. CASE i # n + 1
    <3>1. i \in 1..n /\ i \in 1..(n + 1)
      BY <1>1, <1>3, <2>2
    <3> QED BY <1>1, <1>2, <1>3, <1>5, <3>1
  <2> QED BY <2>1, <2>2
<1>7. new = old
  BY <1>3, <1>5, <1>6, SeqEqual
<1> QED BY <1>7 DEF new, old

\* Whose request a whole string is, and that of no string.
LEMMA WhoseLemma ==
  ASSUME NEW k
  PROVE  Whose(None) = 0 /\ Whose(<<k, "whole">>) = k
BY DEF Whose, None

\* As many lines are shown as were logged.
LEMMA LinesLength == IInv => Len(Lines) = Len(log) /\ Len(log) \in Nat
<1> SUFFICES ASSUME IInv PROVE Len(Lines) = Len(log) /\ Len(log) \in Nat
  OBVIOUS
<1>1. log \in Seq(LineType)
  BY DEF IInv, Core
<1> QED BY <1>1 DEF Lines

\* What ExchangeLog sees of a step that logs and answers nothing.
LEMMA Unseen ==
  ASSUME UNCHANGED <<log, open>>, rsp'.k = rsp.k, rsp'.code = rsp.code
  PROVE  Lines' = Lines /\ Answer' = Answer
BY DEF Lines, Answer, Shown, Whose

\* Init is ExchangeLog's.
LEMMA ExchangesInit == Init => Exchanges!Init
<1> SUFFICES ASSUME Init PROVE Exchanges!Init
  OBVIOUS
<1>1. /\ hits = 0 /\ open = TRUE /\ log = <<>> /\ Len(log) = 0
      /\ rsp.k = 0 /\ req.meth = "GET" /\ req.host = FALSE
  BY DEF Init
<1>2. Lines = <<>>
  BY <1>1 DEF Lines
<1>3. Answer = 0
  BY <1>1 DEF Answer
<1>4. Want = [meth |-> "GET", host |-> FALSE]
  BY <1>1 DEF Want
<1> QED BY <1>1, <1>2, <1>3, <1>4 DEF Exchanges!Init, Lines, Shown, Answer, Want

\* A new request is one that is asked.
LEMMA AskStep ==
  ASSUME IInv, PInv, Polite, NEW m \in Requests, NewRequest(m)
  PROVE  Exchanges!Next
<1>1. s.need_report = 0 /\ open
  BY RequestFollows DEF NewRequest
<1>2. hits # Len(Lines) + 1
  <2>1. hits = Len(log)
    BY <1>1, LinesLength DEF PInv
  <2> QED BY <2>1, LinesLength
<1>3. /\ UNCHANGED <<rsp, open, log, hits>>
      /\ req'.meth = m.meth /\ req'.host = m.host
  BY DEF NewRequest
<1>4. Lines' = Lines /\ Answer' = Answer
  BY <1>3, Unseen
<1>5. m.meth \in Words /\ m.host \in BOOLEAN
  BY SessionAssumption
<1>6. Want' = [meth |-> m.meth, host |-> m.host]
  BY <1>3 DEF Want
<1>7. Exchanges!Ask([meth |-> m.meth, host |-> m.host])
  BY <1>1, <1>2, <1>3, <1>4, <1>6 DEF Exchanges!Ask, Exchanges!Pending, Lines, Answer, Want, Shown
<1> QED BY <1>5, <1>7 DEF Exchanges!Next

\* A new response is an answer, or is interim and no business of the log.
LEMMA AnswerStep ==
  ASSUME IInv, PInv, Polite, NEW m \in Responses, NewResponse(m)
  PROVE  Exchanges!Next \/ UNCHANGED Exchanges!vars
<1>1. s.need_report = 1 /\ open /\ rsp.k = Len(log) /\ m.code > 0
  BY ResponseFollows DEF NewResponse
<1>2. /\ UNCHANGED <<req, open, log, hits>>
      /\ rsp'.k = (IF Interim(m) THEN rsp.k ELSE rsp.k + 1) /\ rsp'.code = m.code
  BY DEF NewResponse
<1>3. Lines' = Lines /\ Want' = Want
  BY <1>2 DEF Lines, Want, Shown, Whose
<1>4. Len(log) \in Nat /\ Answer = 0
  BY <1>1, LinesLength DEF Answer
<1>5. CASE Interim(m)
  <2>1. Answer' = Answer
    BY <1>1, <1>2, <1>4, <1>5 DEF Answer
  <2> QED BY <1>2, <1>3, <2>1 DEF Exchanges!vars, Lines, Want, Answer, Shown
<1>6. CASE ~Interim(m)
  <2>1. Answer' = m.code
    BY <1>1, <1>2, <1>4, <1>6 DEF Answer
  <2>2. m.code \in Codes(FALSE)
    <3>1. Interim(m) = FALSE
      BY <1>6 DEF Interim
    <3> QED BY <3>1 DEF Codes
  <2>3. hits = Len(Lines) + 1
    BY <1>1, LinesLength DEF PInv
  <2>4. Exchanges!Answer(m.code)
    BY <1>1, <1>2, <1>3, <1>4, <2>1, <2>3
       DEF Exchanges!Answer, Exchanges!Pending, Lines, Want, Answer, Shown
  <2> QED BY <2>2, <2>4 DEF Exchanges!Next
<1> QED BY <1>5, <1>6

\* The first token of a request begins an exchange; no other one is seen.
LEMMA BeginStep ==
  ASSUME IInv, PInv, IInv', ClientData
  PROVE  Exchanges!Next \/ UNCHANGED Exchanges!vars
<1>0. open /\ s.need_report \in {0, 1}
  BY DEF ClientData, IInv, Core, SessionType
<1>1. /\ IF s.need_report = 0 THEN hits' = hits + 1 ELSE hits' = hits
      /\ UNCHANGED <<rsp, open, log>> /\ req'.meth = req.meth /\ req'.host = req.host
  BY <1>0, RequestBegins, RequestToken
<1>2. Lines' = Lines /\ Answer' = Answer /\ Want' = Want
  BY <1>1, Unseen DEF Want
<1>3. CASE s.need_report = 0
  <2>1. hits # Len(Lines) + 1
    <3>1. hits = Len(log)
      BY <1>0, <1>3, LinesLength DEF PInv
    <3> QED BY <3>1, LinesLength
  <2>2. Exchanges!Begin
    BY <1>0, <1>1, <1>2, <1>3, <2>1
       DEF Exchanges!Begin, Exchanges!Pending, Lines, Want, Answer, Shown
  <2> QED BY <2>2 DEF Exchanges!Next
<1>4. CASE s.need_report # 0
  BY <1>1, <1>2, <1>4 DEF Exchanges!vars, Lines, Want, Answer, Shown
<1> QED BY <1>3, <1>4

\* The last token of a final response records the exchange; no other one is
\* seen.
LEMMA RecordStep ==
  ASSUME IInv, PInv, IInv', ServerData
  PROVE  Exchanges!Next \/ UNCHANGED Exchanges!vars
<1>1. /\ open /\ UNCHANGED <<req, open, hits>> /\ s.need_report = 1 /\ Answering
      /\ rsp'.k = rsp.k /\ rsp'.code = rsp.code
  BY ResponseToken
<1>2. Recorded \/ log' = log
  BY ServerPolite
<1>3. CASE log' = log
  BY <1>1, <1>3, Unseen DEF Exchanges!vars, Lines, Want, Answer, Shown
<1>4. CASE Recorded
  <2>1. rsp.k = req.k /\ req.k = Len(log) + 1
    BY <1>4 DEF Recorded
  <2>2. PICK l \in LineType :
          /\ log' = Append(log, l)
          /\ l.path = <<req.k, "whole">>
          /\ l.host = IF req.host THEN <<req.k, "whole">> ELSE None
          /\ l.method = req.meth /\ l.code = rsp.code /\ l.status = "success"
    BY <1>4 DEF Recorded
  <2>3. /\ log \in Seq(LineType) /\ Len(log) \in Nat /\ Len(log') = Len(log) + 1
        /\ hits = req.k
    BY <1>1, <2>1, <2>2 DEF IInv, Core, PInv
  <2>4. Lines' = Append(Lines, Shown(l))
    BY <2>2, <2>3, LinesGrow
  <2>5. Shown(l) = [path |-> hits, host |-> IF req.host THEN hits ELSE 0,
                    method |-> req.meth, code |-> rsp.code, status |-> "success"]
    BY <2>2, <2>3, WhoseLemma DEF Shown
  <2>6. Answer = rsp.code /\ Answer' = 0 /\ rsp.code # 0 /\ Want' = Want
    <3>1. rsp.code # 0
      BY <1>1, <2>1, <2>3 DEF Answering
    <3> QED BY <1>1, <2>1, <2>3, <3>1 DEF Answer, Want
  <2>7. Want.meth = req.meth /\ Want.host = req.host /\ hits = Len(Lines) + 1
    BY <2>1, <2>3, LinesLength DEF Want
  <2>8. Lines' = Append(Lines, [path |-> hits, host |-> IF Want.host THEN hits ELSE 0,
                                method |-> Want.meth, code |-> Answer, status |-> "success"])
    BY <2>4, <2>5, <2>6, <2>7
  <2>9. Exchanges!Record
    BY <1>1, <2>6, <2>7, <2>8
       DEF Exchanges!Record, Exchanges!Pending, Exchanges!Line, Lines, Want, Answer, Shown
  <2> QED BY <2>9 DEF Exchanges!Next
<1> QED BY <1>2, <1>3, <1>4

\* The end of the connection records what is open, as far as it got.
LEMMA HangupStep ==
  ASSUME IInv, PInv, IInv', NEW status \in Closings, session_close(status)
  PROVE  Exchanges!Next
<1>1. /\ open /\ ~open' /\ UNCHANGED <<req, rsp, hits>>
      /\ IF s.need_report = 1 THEN log' = Append(log, LogLine(s, status)) ELSE log' = log
  BY ClosePolite DEF session_close
<1>2. Answer' = 0 /\ Want' = Want
  BY <1>1 DEF Answer, Want
<1>3. CASE s.need_report = 0
  <2>1. hits # Len(Lines) + 1
    <3>1. hits = Len(log)
      BY <1>1, <1>3, LinesLength DEF PInv
    <3> QED BY <3>1, LinesLength
  <2>2. Lines' = Lines
    BY <1>1, <1>3 DEF Lines, Shown, Whose
  <2>3. open' = FALSE
    BY <1>1 DEF session_close
  <2>4. Exchanges!Hangup
    BY <1>1, <1>2, <2>1, <2>2, <2>3
       DEF Exchanges!Hangup, Exchanges!Pending, Lines, Want, Answer, Shown
  <2> QED BY <2>4 DEF Exchanges!Next
<1>4. CASE s.need_report = 1
  <2> DEFINE l == LogLine(s, status)
  <2>1. Asking /\ Answering /\ s \in SessionType /\ log \in Seq(LineType) /\ log' \in Seq(LineType)
        /\ Len(log) \in Nat /\ req.k \in Nat /\ rsp.k \in Nat
    BY <1>1, <1>4 DEF PInv, IInv, Core
  <2>2. req.k = hits /\ hits = Len(log) + 1
    BY <1>1, <1>4, <2>1 DEF PInv, Asking
  <2>3. l \in LineType /\ log' = Append(log, l)
    <3>1. log' = Append(log, l)
      BY <1>1, <1>4
    <3> HIDE DEF l
    <3>2. log'[Len(log) + 1] = l /\ Len(log') = Len(log) + 1
      BY <2>1, <3>1
    <3> QED BY <2>1, <3>1, <3>2
  <2>4. /\ l.path = s.path /\ l.host = s.host /\ l.method = s.method
        /\ l.code = s.status_code /\ l.status = status
    BY DEF LogLine
  <2> HIDE DEF l
  <2>5. Whose(l.path) \in {0, hits}
    BY <2>1, <2>2, <2>4, WhoseLemma DEF Asking
  <2>6. Whose(l.host) \in {0, hits}
    BY <2>1, <2>2, <2>4, WhoseLemma DEF Asking, HostKnown
  <2>7. l.method \in {"DELETE", Want.meth}
    BY <2>1, <2>4 DEF Asking, Want
  <2>8. l.code \in {0, Answer} \cup Codes(TRUE)
    <3>1. rsp.k = req.k => Answer = rsp.code
      BY <1>1, <2>1, <2>2 DEF Answer
    <3> QED BY <2>1, <2>4, <3>1 DEF Answering
  <2>9. Lines' = Append(Lines, [path |-> Whose(l.path), host |-> Whose(l.host),
                                method |-> l.method, code |-> l.code, status |-> status])
    BY <2>1, <2>3, <2>4, LinesGrow DEF Shown
  <2>10. hits = Len(Lines) + 1
    BY <2>2, LinesLength
  <2>11. open' = FALSE
    BY <1>1 DEF session_close
  <2>12. \E path \in {0, hits}, host \in {0, hits}, meth \in {"DELETE", Want.meth},
            code \in {0, Answer} \cup Codes(TRUE), end \in Closings :
           Lines' = Append(Lines, [path |-> path, host |-> host, method |-> meth,
                                   code |-> code, status |-> end])
    BY <2>5, <2>6, <2>7, <2>8, <2>9, Zenon
  <2>13. Exchanges!Hangup
    BY <1>1, <1>2, <2>10, <2>11, <2>12
       DEF Exchanges!Hangup, Exchanges!Pending, Lines, Want, Answer, Shown
  <2> QED BY <2>13 DEF Exchanges!Next
<1>5. s.need_report \in {0, 1}
  BY DEF IInv, Core, SessionType
<1> QED BY <1>3, <1>4, <1>5

\* Every step is one of ExchangeLog, or none.
LEMMA ExchangesStep == Polite /\ IInv /\ PInv /\ [Next]_vars => [Exchanges!Next]_Exchanges!vars
<1> SUFFICES ASSUME Polite, IInv, PInv, [Next]_vars
             PROVE  Exchanges!Next \/ UNCHANGED Exchanges!vars
  OBVIOUS
<1>0. IInv'
  BY NextIInv
<1>1. ASSUME NEW m \in Requests, NewRequest(m) PROVE Exchanges!Next
  BY <1>1, AskStep
<1>2. ASSUME NEW m \in Responses, NewResponse(m) PROVE Exchanges!Next \/ UNCHANGED Exchanges!vars
  BY <1>2, AnswerStep
<1>3. CASE ClientData
  BY <1>0, <1>3, BeginStep
<1>4. CASE ServerData
  BY <1>0, <1>4, RecordStep
<1>5. ASSUME NEW status \in Closings, session_close(status) PROVE Exchanges!Next
  BY <1>0, <1>5, HangupStep
<1>6. CASE Tick \/ UNCHANGED vars
  <2>1. UNCHANGED <<req, rsp, open, log, hits>>
    BY <1>6 DEF Tick, vars
  <2> QED BY <2>1, Unseen DEF Exchanges!vars, Lines, Answer, Want, Shown
<1> QED BY <1>1, <1>2, <1>3, <1>4, <1>5, <1>6 DEF Next, Gone

\* The log of a connection with polite traffic is the one ExchangeLog
\* promises: every request once, in order, with its own path, Host, method
\* and code, though all exchanges share one struct session and two parsers.
THEOREM AlwaysLogsEveryExchange == Polite => (Spec => LogsEveryExchange)
<1> SUFFICES ASSUME Polite PROVE Spec => LogsEveryExchange
  OBVIOUS
<1>1. Spec => [](IInv /\ PInv)
  BY PoliteAlways
<1>2. Init => Exchanges!Init
  BY ExchangesInit
<1>3. IInv /\ PInv /\ [Next]_vars => [Exchanges!Next]_Exchanges!vars
  BY ExchangesStep
<1> QED BY <1>1, <1>2, <1>3, PTL DEF Spec, LogsEveryExchange, Exchanges!Spec

=============================================================================
