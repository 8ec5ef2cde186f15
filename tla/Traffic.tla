------------------------------ MODULE Traffic ------------------------------
(***************************************************************************)
(* Polite traffic: the hypothesis under which the log of a Session is the  *)
(* one ExchangeLog promises.  Client and server take turns, every message  *)
(* is one that http_parser reads from its first byte to its last, no       *)
(* string straddles two segments and no request names its Host twice.      *)
(***************************************************************************)
EXTENDS Session

\* A token the parser goes on with, in a message or in its body.
Fits(p, tok) == Accepts(p, tok) \/ (InBody(p, tok) /\ tok.t \in {"data", "last"})

\* The parser after such a token.
Parsed(type, p, tok) ==
  CASE p.st = "start" /\ type = "request"  -> [p EXCEPT !.st = "url", !.method = tok.x]
    [] p.st = "start" /\ type = "response" -> [p EXCEPT !.st = "hdr", !.code = tok.n]
    [] p.st \in {"url", "val"}             -> [p EXCEPT !.st = "hdr"]
    [] p.st = "hdr" /\ tok.t = "name"      -> [p EXCEPT !.st = "val"]
    [] p.st = "hdr" /\ tok.t = "end"       -> HeadersDone(type, p, tok)
    [] OTHER                               -> BodyStep(p, tok)

\* The parser between the tokens of a message.
Course(type, toks) ==
  LET g[i \in 0..Len(toks)] ==
        IF i = 0 THEN http_parser_init ELSE Parsed(type, g[i - 1], toks[i])
  IN  g

\* One message, whole strings only, that leaves the parser in one of ends.
WellFormed(type, toks, ends) ==
  /\ Len(toks) > 0
  /\ \A i \in 1..Len(toks) : /\ toks[i].t = "begin" <=> i = 1
                             /\ toks[i].part = "whole"
                             /\ Fits(Course(type, toks)[i - 1], toks[i])
  /\ Course(type, toks)[Len(toks)].st \in ends

\* The header names of a message that are Host.
HostNames(toks) == {i \in 1..Len(toks) : toks[i].t = "name" /\ toks[i].x = "host"}

PoliteRequest(m) ==
  /\ WellFormed("request", m.toks, {"start", "dead"})
  /\ m.toks[1].x = m.meth
  /\ m.host <=> HostNames(m.toks) # {}
  /\ \A i, j \in HostNames(m.toks) : i = j

\* Where a response leaves the parser: an interim one does not close the
\* connection, and one without a length only ends with the connection.
Ending(m) == IF Interim(m) THEN {"start"} ELSE IF m.eof THEN {"eof"} ELSE {"start", "dead"}

PoliteResponse(m) ==
  /\ WellFormed("response", m.toks, Ending(m))
  /\ m.toks[1].n = m.code /\ m.code > 0
  /\ Interim(m) => ~m.eof

Polite ==
  /\ HalfDuplex
  /\ \A m \in Requests : PoliteRequest(m)
  /\ \A m \in Responses : PoliteResponse(m)
=============================================================================
