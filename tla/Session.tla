------------------------------- MODULE Session -------------------------------
(***************************************************************************)
(* One sniffed TCP connection, from the moment tcp_callback (main.c) built *)
(* a struct session for it to session_close.  Two http_parser instances,   *)
(* one per direction, drive the callbacks of callback.c; they share one    *)
(* struct session, and session_report (session.c) re-initialises BOTH of   *)
(* them whenever an exchange has been reported.                            *)
(*                                                                         *)
(* The bytes of a direction are abstracted to tokens: the start of a       *)
(* message, its URL, a header name, a header value, the end of the         *)
(* headers, body data.  A string that straddles two TCP segments is two    *)
(* tokens ("first" and "last"), because http_parser runs the data callback *)
(* once per segment.  A token is delivered and parsed in one step: libnids *)
(* hands over one segment at a time and a segment may be as short as one   *)
(* token, so every interleaving of the tokens of the two directions is one *)
(* the program can meet.                                                   *)
(***************************************************************************)
EXTENDS Sums

CONSTANTS
  MaxMsgs,     \* bound: messages each endpoint sends
  MaxNow,      \* bound: clock
  Requests,    \* the requests the client may send: [meth, host, toks]
  Responses,   \* the responses the server may send: [meth, code, eof, toks]
  BodyLimit,   \* 65535 in callback.c and session.c
  CatchCodes,  \* config.catch_code
  CatchNames,  \* config.catch_req_head and config.catch_rsp_head
  Closings,    \* close_status of NIDS_CLOSE, NIDS_RESET, NIDS_TIMED_OUT
  HalfDuplex   \* TRUE: no pipelining and no final response before its request

\* Methods, header names and framings.
Words == {"", "GET", "HEAD", "DELETE", "host", "xhost",
          "none", "len", "chunked", "upgrade"}

Token == [t    : {"begin", "url", "name", "value", "end", "data", "last", "junk"},
          x    : Words,                       \* method, header name or framing
          part : {"whole", "first", "last"},  \* which piece of a string
          n    : Nat,                         \* status code, or a length
          ka   : BOOLEAN]                     \* http_should_keep_alive

ASSUME SessionAssumption ==
  /\ MaxMsgs \in Nat /\ MaxNow \in Nat /\ BodyLimit \in Nat \ {0}
  /\ Requests \subseteq [meth : Words, host : BOOLEAN, toks : Seq(Token)]
  /\ Responses \subseteq [meth : Words, code : Nat, eof : BOOLEAN, toks : Seq(Token)]
  /\ CatchNames \subseteq Words /\ CatchCodes \subseteq Nat
  /\ Closings \subseteq {"tcp_closed", "tcp_reset", "tcp_timeout"}
  /\ HalfDuplex \in BOOLEAN

None == <<0, "none">>         \* a NULL char pointer

VARIABLES
  req, rsp,    \* the endpoints: messages begun and tokens still to send
  cp, sp,      \* session.client_parser, session.server_parser
  s,           \* the resettable part of struct session
  open,        \* FALSE once session_close has freed the session
  log,         \* the lines session_log has pushed
  hits,        \* request_begin calls, as counted in stat->rps
  heap,        \* heap objects the callbacks took and nobody freed yet
  now          \* gettimeofday

vars == <<req, rsp, cp, sp, s, open, log, hits, heap, now>>

-----------------------------------------------------------------------------
(* http_parser, as far as callback.c can tell its states apart.            *)

http_parser_init ==
  [st |-> "start", left |-> 0, ka |-> FALSE, method |-> "DELETE", code |-> 0]

\* NEW_MESSAGE: after Connection: close the parser only accepts silence.
NewMessage(ka) == IF ka THEN "start" ELSE "dead"

http_message_needs_eof(type, code, framing) ==
  /\ type = "response"
  /\ code \div 100 # 1 /\ code \notin {204, 304}
  /\ framing = "none"

\* s_headers_done: how the message goes on after its last header.
HeadersDone(type, p, tok) ==
  LET st == CASE tok.x = "chunked"          -> "chunk"
              [] tok.x = "len" /\ tok.n > 0 -> "body"
              [] http_message_needs_eof(type, p.code, tok.x) -> "eof"
              [] OTHER                      -> NewMessage(tok.ka)
  IN  [p EXCEPT !.st = st, !.left = IF st = "body" THEN tok.n ELSE 0, !.ka = tok.ka]

\* The message is over once the parser waits for the next one.
Completed(p) == p.st \in {"start", "dead"}

\* The body bytes a token stands for when the parser is inside a body.
Length(tok) == IF tok.t = "data" THEN tok.n ELSE 1

\* s_body_identity and s_chunk_data; an eof-delimited body never ends
\* because session_handle_data never reports the end of the stream.
BodyStep(p, tok) ==
  LET over == \/ p.st = "body"  /\ p.left = 1
              \/ p.st = "chunk" /\ tok.t = "last"
  IN  [p EXCEPT !.st   = IF over THEN NewMessage(p.ka) ELSE @,
                !.left = IF p.st = "body" THEN @ - 1 ELSE @]

InBody(p, tok) == \/ p.st \in {"body", "eof"}
                  \/ p.st = "chunk" /\ tok.t \in {"data", "last"}

\* The tokens the states of a message head accept.
Accepts(p, tok) ==
  \/ p.st = "start" /\ tok.t = "begin"
  \/ p.st = "url"   /\ tok.t = "url"
  \/ p.st = "hdr"   /\ tok.t \in {"name", "end"}
  \/ p.st = "val"   /\ tok.t = "value"

Error(p) == [p EXCEPT !.st = "error"]

-----------------------------------------------------------------------------
(* struct session and its callbacks.                                       *)

session_init ==
  [need_report |-> 0, is_catch |-> FALSE, cur_field |-> "none",
   method |-> "DELETE", status_code |-> 0, path |-> None, host |-> None,
   last_request_header |-> 0, last_response_header |-> 0,
   props |-> 0, body |-> <<>>, body_size |-> 0,
   req_time |-> 0, server_time |-> 0, rep_time |-> 0,
   start_time |-> 0, status_time |-> 0]

\* session_time_mark: what it adds to the phase it is called for.
Elapsed(x) == now - x.status_time

\* Mutant: request_begin forgets session_time_mark(s, NULL).
request_begin_unmarked(x) == [x EXCEPT !.need_report = 1, !.start_time = now]

request_begin(x) ==
  [x EXCEPT !.need_report = 1, !.status_time = now, !.start_time = now]

request_url(x, k, tok) == [x EXCEPT !.path = <<k, tok.part>>]

\* strncasecmp(.., length) compares the piece at hand with a prefix of the
\* known name: the first piece of "host" matches, and so does the last piece
\* of "xhost", a longer name that ends in "host".
IsHost(tok) == \/ tok.x = "host"  /\ tok.part # "last"
               \/ tok.x = "xhost" /\ tok.part = "last"

IsCaught(tok) == tok.x \in CatchNames /\ tok.part # "last"

request_header_field(x, tok) ==
  [x EXCEPT !.last_request_header = IF IsCaught(tok) THEN 1 ELSE @,
            !.cur_field = IF IsHost(tok) THEN "host" ELSE @]

request_header_value(x, k, tok) ==
  [x EXCEPT !.props = @ + x.last_request_header,
            !.last_request_header = 0,
            !.host = IF x.cur_field = "host" THEN <<k, tok.part>> ELSE @,
            !.cur_field = "none"]

request_headers_complete(x, p) == [x EXCEPT !.method = p.method]

request_complete(x) ==
  [x EXCEPT !.req_time = @ + Elapsed(x), !.status_time = now]

response_begin(x) ==
  [x EXCEPT !.server_time = @ + Elapsed(x), !.status_time = now]

reponse_header_field(x, tok) ==
  [x EXCEPT !.last_response_header = IF IsCaught(tok) THEN 1 ELSE @]

reponse_header_value(x) ==
  [x EXCEPT !.props = @ + x.last_response_header,
            !.last_response_header = 0]

response_headers_complete(x, p) ==
  [x EXCEPT !.status_code = p.code, !.is_catch = p.code \in CatchCodes]

\* Mutant: the capture limit is off by one.
response_body_atlimit(x, len) ==
  IF x.is_catch /\ x.body_size + len <= BodyLimit
    THEN [x EXCEPT !.body = Append(@, len), !.body_size = @ + len]
    ELSE x

response_body(x, len) ==
  IF x.is_catch /\ x.body_size + len < BodyLimit
    THEN [x EXCEPT !.body = Append(@, len), !.body_size = @ + len]
    ELSE x

\* The heap objects session_clean can reach.  A kv counts as one with its
\* key (the former last_request_header) and value, a body_buf with its data.
Strings(x) == (IF x.path = None THEN 0 ELSE 1) + (IF x.host = None THEN 0 ELSE 1)
Headers(x) == x.last_request_header + x.last_response_header + x.props
Owned(x) == Strings(x) + Headers(x) + Len(x.body)

\* The line session_log writes, with the times session_report packs.
LogLine(x, status) ==
  [path |-> x.path, host |-> x.host, method |-> x.method, code |-> x.status_code,
   status |-> status, start |-> x.start_time, end |-> now,
   time |-> x.req_time + x.server_time + x.rep_time]

Reported(x, h, status, next) ==
  /\ log' = Append(log, LogLine(x, status))
  /\ heap' = h - Owned(x)
  /\ s' = next /\ cp' = http_parser_init /\ sp' = http_parser_init

NotReported(x, p, h) == s' = x /\ sp' = p /\ heap' = h /\ UNCHANGED <<cp, log>>

\* Mutant: need_report stays set, and the freed fields stay in place.
session_report_again(x, p, h, status) ==
  IF x.need_report = 1 THEN Reported(x, h, status, x) ELSE NotReported(x, p, h)

\* Mutant: need_report is cleared but session_init is not called.
session_report_noinit(x, p, h, status) ==
  IF x.need_report = 1 THEN Reported(x, h, status, [x EXCEPT !.need_report = 0])
                   ELSE NotReported(x, p, h)

\* Mutant: one string pointer escapes session_init.
session_report_stalehost(x, p, h, status) ==
  IF x.need_report = 1 THEN Reported(x, h, status, [session_init EXCEPT !.host = x.host])
                   ELSE NotReported(x, p, h)

\* Mutant: session_start is also called when there was nothing to report.
session_report_restarts(x, p, h, status) ==
  IF x.need_report = 1 THEN Reported(x, h, status, session_init)
    ELSE /\ s' = session_init /\ cp' = http_parser_init /\ sp' = http_parser_init
         /\ heap' = h /\ UNCHANGED log

\* Mutant: session_clean is forgotten.
session_report_noclean(x, p, h, status) ==
  IF x.need_report = 1
    THEN /\ log' = Append(log, LogLine(x, status)) /\ heap' = h
         /\ s' = session_init /\ cp' = http_parser_init /\ sp' = http_parser_init
    ELSE NotReported(x, p, h)

\* session_report on session x, server parser p and h heap objects in use:
\* log the exchange, session_clean, session_start; nothing if none is open.
session_report(x, p, h, status) ==
  IF x.need_report = 1 THEN Reported(x, h, status, session_init) ELSE NotReported(x, p, h)

\* Mutant: only 2xx responses end the exchange.
response_complete_2xx(x, p, h) ==
  IF p.code \div 100 # 2
    THEN NotReported(x, p, h)
    ELSE session_report([x EXCEPT !.rep_time = @ + Elapsed(x), !.status_time = now],
                        p, h, "success")

\* response_complete: an interim (1xx) response does not end the exchange.
response_complete(x, p, h) ==
  IF p.code \div 100 = 1
    THEN NotReported(x, p, h)
    ELSE session_report([x EXCEPT !.rep_time = @ + Elapsed(x), !.status_time = now],
                        p, h, "success")

-----------------------------------------------------------------------------
(* http_parser_execute on the client's bytes.                              *)

\* Any byte the current state does not accept.  In s_start_req a letter that
\* opens some method name runs request_begin before the method is refuted.
ClientRefuses(tok) ==
  /\ cp.st \notin {"error", "body", "eof"} /\ ~InBody(cp, tok) /\ ~Accepts(cp, tok)
  /\ cp' = Error(cp)
  /\ \E phantom \in IF cp.st = "start" THEN {0, 1} ELSE {0} :
       /\ s' = IF phantom = 1 THEN request_begin(s) ELSE s
       /\ hits' = hits + phantom
  /\ UNCHANGED <<sp, log, heap>>

ClientStart(tok) ==
  /\ cp.st = "start" /\ tok.t = "begin"
  /\ cp' = [cp EXCEPT !.st = "url", !.method = tok.x]
  /\ s' = request_begin(s) /\ hits' = hits + 1
  /\ UNCHANGED <<sp, log, heap>>

ClientUrl(k, tok) ==
  /\ cp.st = "url" /\ tok.t = "url"
  /\ cp' = [cp EXCEPT !.st = IF tok.part = "first" THEN @ ELSE "hdr"]
  /\ s' = request_url(s, k, tok) /\ heap' = heap + 1
  /\ UNCHANGED <<sp, log, hits>>

ClientName(tok) ==
  /\ cp.st = "hdr" /\ tok.t = "name"
  /\ cp' = [cp EXCEPT !.st = IF tok.part = "first" THEN @ ELSE "val"]
  /\ s' = request_header_field(s, tok) /\ heap' = heap + (IF IsCaught(tok) THEN 1 ELSE 0)
  /\ UNCHANGED <<sp, log, hits>>

ClientValue(k, tok) ==
  /\ cp.st = "val" /\ tok.t = "value"
  /\ cp' = [cp EXCEPT !.st = IF tok.part = "first" THEN @ ELSE "hdr"]
  /\ s' = request_header_value(s, k, tok)
  /\ heap' = heap + (IF s.cur_field = "host" THEN 1 ELSE 0)
  /\ UNCHANGED <<sp, log, hits>>

\* s_headers_almost_done and s_headers_done.
ClientHeaders(tok) ==
  /\ cp.st = "hdr" /\ tok.t = "end"
  /\ cp' = HeadersDone("request", cp, tok)
  /\ LET x == request_headers_complete(s, cp)
     IN  s' = IF Completed(cp') THEN request_complete(x) ELSE x
  /\ UNCHANGED <<sp, log, hits, heap>>

ClientBody(tok) ==
  /\ InBody(cp, tok)
  /\ cp' = BodyStep(cp, tok)
  /\ s' = IF Completed(cp') THEN request_complete(s) ELSE s
  /\ UNCHANGED <<sp, log, hits, heap>>

\* A parser that failed once swallows everything until it is re-initialised.
ClientIgnores == cp.st = "error" /\ UNCHANGED <<cp, sp, s, log, hits, heap>>

ClientExecute(k, tok) ==
  \/ ClientIgnores
  \/ ClientRefuses(tok)
  \/ ClientStart(tok)
  \/ ClientUrl(k, tok)
  \/ ClientName(tok)
  \/ ClientValue(k, tok)
  \/ ClientHeaders(tok)
  \/ ClientBody(tok)

-----------------------------------------------------------------------------
(* http_parser_execute on the server's bytes.                              *)

\* s_start_res runs response_begin on an 'H' before it knows more.
ServerRefuses(tok) ==
  /\ sp.st \notin {"error", "body", "eof"} /\ ~InBody(sp, tok) /\ ~Accepts(sp, tok)
  /\ sp' = Error(sp)
  /\ s' \in IF sp.st = "start" THEN {s, response_begin(s)} ELSE {s}
  /\ UNCHANGED <<cp, log, heap>>

ServerStart(tok) ==
  /\ sp.st = "start" /\ tok.t = "begin"
  /\ sp' = [sp EXCEPT !.st = "hdr", !.code = tok.n]
  /\ s' = response_begin(s)
  /\ UNCHANGED <<cp, log, heap>>

ServerName(tok) ==
  /\ sp.st = "hdr" /\ tok.t = "name"
  /\ sp' = [sp EXCEPT !.st = IF tok.part = "first" THEN @ ELSE "val"]
  /\ s' = reponse_header_field(s, tok) /\ heap' = heap + (IF IsCaught(tok) THEN 1 ELSE 0)
  /\ UNCHANGED <<cp, log>>

ServerValue(tok) ==
  /\ sp.st = "val" /\ tok.t = "value"
  /\ sp' = [sp EXCEPT !.st = IF tok.part = "first" THEN @ ELSE "hdr"]
  /\ s' = reponse_header_value(s)
  /\ UNCHANGED <<cp, log, heap>>

ServerHeaders(tok) ==
  /\ sp.st = "hdr" /\ tok.t = "end"
  /\ LET p == HeadersDone("response", sp, tok)
         x == response_headers_complete(s, sp)
     IN  IF Completed(p)
           THEN response_complete(x, p, heap)
           ELSE NotReported(x, p, heap)

\* The chunked terminator ("last") carries no data.
ServerBody(tok) ==
  /\ InBody(sp, tok)
  /\ LET p == BodyStep(sp, tok)
         x == IF sp.st = "chunk" /\ tok.t = "last" THEN s ELSE response_body(s, Length(tok))
         h == heap + (Len(x.body) - Len(s.body))
     IN  IF Completed(p)
           THEN response_complete(x, p, h)
           ELSE NotReported(x, p, h)

ServerIgnores == sp.st = "error" /\ UNCHANGED <<cp, sp, s, log, heap>>

ServerExecute(tok) ==
  \/ ServerIgnores
  \/ ServerRefuses(tok)
  \/ ServerStart(tok)
  \/ ServerName(tok)
  \/ ServerValue(tok)
  \/ ServerHeaders(tok)
  \/ ServerBody(tok)

-----------------------------------------------------------------------------
(* The endpoints, libnids and the clock.                                   *)

Interim(m) == m.code \div 100 = 1

\* The client starts another request (external).  Half duplex: the last one
\* is answered, and not by a body that only the end of the connection ends.
NewRequest(m) ==
  /\ open /\ req.todo = <<>> /\ req.k < MaxMsgs
  /\ HalfDuplex => rsp.todo = <<>> /\ rsp.k = req.k /\ ~rsp.eof
  /\ req' = [k |-> req.k + 1, meth |-> m.meth, host |-> m.host, todo |-> m.toks]
  /\ UNCHANGED <<rsp, cp, sp, s, open, log, hits, heap, now>>

\* The server starts a response (external).  Half duplex: it answers a
\* request it has read in full, or sends 1xx while the body is on its way.
NewResponse(m) ==
  /\ open /\ rsp.todo = <<>> /\ rsp.sent <= MaxMsgs
  /\ ~Interim(m) => rsp.k < MaxMsgs
  /\ HalfDuplex => /\ rsp.k < req.k /\ m.meth = req.meth
                   /\ req.todo # <<>> => Interim(m) /\ Head(req.todo).t = "data"
  /\ rsp' = [k |-> IF Interim(m) THEN rsp.k ELSE rsp.k + 1, sent |-> rsp.sent + 1,
             code |-> m.code, eof |-> m.eof, todo |-> m.toks]
  /\ UNCHANGED <<req, cp, sp, s, open, log, hits, heap, now>>

\* tcp_callback with NIDS_DATA, and session_handle_data: server.count_new.
ClientData ==
  /\ open /\ req.todo # <<>>
  /\ req' = [req EXCEPT !.todo = Tail(@)]
  /\ ClientExecute(req.k, Head(req.todo))
  /\ UNCHANGED <<rsp, open, now>>

\* The same with client.count_new.
ServerData ==
  /\ open /\ rsp.todo # <<>>
  /\ rsp' = [rsp EXCEPT !.todo = Tail(@)]
  /\ ServerExecute(Head(rsp.todo))
  /\ UNCHANGED <<req, open, hits, now>>

\* Mutant: the session is freed without a last session_report.
session_close_silent(status) ==
  /\ open /\ open' = FALSE
  /\ UNCHANGED <<req, rsp, cp, sp, s, log, hits, heap, now>>

\* session_close: report what is pending, free the session.
session_close(status) ==
  /\ open /\ open' = FALSE
  /\ session_report(s, sp, heap, status)
  /\ UNCHANGED <<req, rsp, hits, now>>

Tick ==
  /\ open /\ now < MaxNow /\ now' = now + 1
  /\ UNCHANGED <<req, rsp, cp, sp, s, open, log, hits, heap>>

\* The session is gone; its stream is never called back again.
Gone == ~open /\ UNCHANGED vars

Init ==
  /\ req = [k |-> 0, meth |-> "GET", host |-> FALSE, todo |-> <<>>]
  /\ rsp = [k |-> 0, sent |-> 0, code |-> 0, eof |-> FALSE, todo |-> <<>>]
  /\ cp = http_parser_init /\ sp = http_parser_init
  /\ s = session_init
  /\ open = TRUE /\ log = <<>> /\ hits = 0 /\ heap = 0 /\ now = 1

Next ==
  \/ \E m \in Requests : NewRequest(m)
  \/ \E m \in Responses : NewResponse(m)
  \/ ClientData
  \/ ServerData
  \/ \E status \in Closings : session_close(status)
  \/ Tick
  \/ Gone

Spec == Init /\ [][Next]_vars

-----------------------------------------------------------------------------
(* Properties.                                                             *)

Value == Nat \X {"none", "whole", "first", "last"}
ParserType == [st : {"start", "url", "hdr", "val", "body", "chunk", "eof", "dead", "error"},
               left : Nat, ka : BOOLEAN, method : Words, code : Nat]
SessionType ==
  [need_report : {0, 1}, is_catch : BOOLEAN, cur_field : {"none", "host"},
   method : Words, status_code : Nat, path : Value, host : Value,
   last_request_header : {0, 1}, last_response_header : {0, 1},
   props : Nat, body : Seq(Nat), body_size : Nat,
   req_time : Nat, server_time : Nat, rep_time : Nat,
   start_time : Nat, status_time : Nat]

LineType ==
  [path : Value, host : Value, method : Words, code : Nat,
   status : Closings \cup {"success"}, start : Nat, end : Nat, time : Nat]

\* Type invariant; no elapsed time is negative, and no more is freed than
\* was allocated (a double free would make heap negative).
TypeOK ==
  /\ req \in [k : Nat, meth : Words, host : BOOLEAN, todo : Seq(Token)]
  /\ rsp \in [k : Nat, sent : Nat, code : Nat, eof : BOOLEAN, todo : Seq(Token)]
  /\ cp \in ParserType /\ sp \in ParserType
  /\ s \in SessionType
  /\ open \in BOOLEAN /\ hits \in Nat /\ now \in Nat /\ heap \in Nat
  /\ log \in Seq(LineType)

\* While no report is due (need_report = 0) the session holds nothing a
\* request callback stored and the request parser is between messages or
\* has failed: session_close may then skip session_clean without losing a
\* request, and the next report cannot show pieces of an earlier request.
NothingUnreported ==
  s.need_report = 0 =>
    /\ cp.st \in {"start", "error"}
    /\ s.path = None /\ s.host = None /\ s.cur_field = "none"
    /\ s.last_request_header = 0 /\ s.req_time = 0

\* Every log line, and the exchange that is still open, was announced by its
\* own request_begin, however the two directions interleave: the status
\* monitor (stat->rps) never counts fewer requests than the log shows.
HitsCoverLog == Len(log) + s.need_report <= hits

\* response_body_size is what session_report announces to msgpack before it
\* appends the buffers: it must be their exact sum, and below the 65535 that
\* an unsigned short and the raw-16 header can hold.
BodyAccounted == TypeOK /\ s.body_size = SumOf(s.body) /\ s.body_size < BodyLimit

\* A session never frees a block twice or frees what it does not own: what
\* session_clean would free is always still allocated.
OwnedIsAllocated == open => Owned(s) <= heap

\* Once the request parser has failed with no exchange open, the connection
\* is invisible for good: nothing re-initialises the parser, so no later
\* request is counted or logged, not even when the connection closes.
Blind == cp.st = "error" /\ s.need_report = 0
BlindForever == [][Blind => (Blind' \/ ~open') /\ UNCHANGED <<log, hits>>]_vars

-----------------------------------------------------------------------------
(* Half-duplex traffic: the client waits for each answer.                  *)

\* Which request a stored string belongs to: 0 if NULL; a piece of a string
\* belongs to no request at all.
Whose(v) == IF v = None THEN 0 ELSE IF v[2] = "whole" THEN v[1] ELSE MaxMsgs + 1

\* The codes of the final and of the interim responses.
Codes(interim) == {m.code : m \in {r \in Responses : Interim(r) = interim}}

Exchanges == INSTANCE ExchangeLog WITH
  Methods <- Words, Ends <- Closings, Finals <- Codes(FALSE), Interims <- Codes(TRUE),
  asked  <- hits,
  want   <- [meth |-> req.meth, host |-> req.host],
  answer <- IF open /\ Len(log) < rsp.k THEN rsp.code ELSE 0,
  out    <- [i \in 1..Len(log) |->
               [path |-> Whose(log[i].path), host |-> Whose(log[i].host),
                method |-> log[i].method, code |-> log[i].code,
                status |-> log[i].status]],
  up     <- open

\* The log is the one ExchangeLog promises: every request exactly once, in
\* order, with its own path, Host, method and code, across the re-use of one
\* struct session and of both parsers for all exchanges of a connection.
LogsEveryExchange == Exchanges!Spec

\* Once an exchange is over on the wire its line is in the log: no answered
\* request waits for the next one, or for the end of the connection.
AnsweredIsLogged == req.todo = <<>> /\ rsp.todo = <<>> /\ ~rsp.eof => Len(log) >= rsp.k

\* Every string in the log is the whole string, although http_parser passes
\* a string that straddles two segments to the callback in pieces.
LoggedWhole ==
  \A i \in 1..Len(log) : {log[i].path[2], log[i].host[2]} \subseteq {"none", "whole"}

\* The three phase times session_report packs (net-req-time, server-time,
\* net-rep-time) of a completed exchange are its whole duration, although
\* they are accumulated by marks in two parsers and interim responses.
TimesAddUp ==
  \A i \in 1..Len(log) :
    log[i].status = "success" => log[i].time = log[i].end - log[i].start

\* Nothing leaks: whatever is allocated is still reachable from the session,
\* and a closed session leaves nothing behind.
NoLeak == heap = IF open THEN Owned(s) ELSE 0

\* Fairness: the bytes of a message that was begun keep arriving, and a
\* connection on which nothing is sent any more is closed by its endpoints.
Quiet == req.todo = <<>> /\ rsp.todo = <<>>
FairSpec ==
  /\ Spec
  /\ WF_vars(ClientData) /\ WF_vars(ServerData)
  /\ WF_vars(Quiet /\ \E status \in Closings : session_close(status))

\* Every request that reached request_begin is eventually logged, also when
\* its response never ends (no length) or never comes.
EveryRequestLogged == \A n \in 1..MaxMsgs : hits = n ~> Len(log) >= n

=============================================================================
