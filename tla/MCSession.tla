------------------------------ MODULE MCSession ------------------------------
(* Small instances of Session: what the two endpoints may send.            *)
EXTENDS Traffic

Tok(t, x, part, n, ka) == [t |-> t, x |-> x, part |-> part, n |-> n, ka |-> ka]
Plain(t) == Tok(t, "", "whole", 0, FALSE)

Start(meth) == Tok("begin", meth, "whole", 0, FALSE)
Status(code) == Tok("begin", "", "whole", code, FALSE)
Url(part) == Tok("url", "", part, 0, FALSE)
Name(x, part) == Tok("name", x, part, 0, FALSE)
Val(part) == Tok("value", "", part, 0, FALSE)
End(framing, n, ka) == Tok("end", framing, "whole", n, ka)
Data(n) == Tok("data", "", "whole", n, FALSE)
Last == Plain("last")
Junk == Plain("junk")

Header(x) == <<Name(x, "whole"), Val("whole")>>

Request(meth, toks) ==
  [meth |-> meth, toks |-> <<Start(meth)>> \o toks,
   host |-> \E i \in 1..Len(toks) : toks[i].x = "host"]
Response(meth, code, toks) ==
  [meth |-> meth, code |-> code, toks |-> <<Status(code)>> \o toks,
   eof |-> \E i \in 1..Len(toks) :
             toks[i].t = "end" /\ http_message_needs_eof("response", code, toks[i].x)]

\* Any traffic: requests with a body, chunked, closing, upgrading, broken.
AnyRequests ==
  { Request("GET", <<Url("whole")>> \o Header("host") \o <<End("none", 0, TRUE)>>),
    Request("GET", <<Url("first"), Url("last"), Name("xhost", "first"),
                     Name("xhost", "last"), Val("first"), Val("last"),
                     End("len", 1, FALSE), Data(1)>>),
    Request("GET", <<Url("whole"), End("chunked", 0, TRUE), Data(1), Last>>),
    Request("GET", <<Url("whole"), End("upgrade", 0, TRUE), Junk>>),
    Request("GET", <<Junk>>) }

AnyResponses ==
  { Response("GET", 200, <<End("len", 2, TRUE), Data(1), Data(2)>>),
    Response("GET", 500, Header("xhost") \o <<End("chunked", 0, FALSE), Data(2), Last>>),
    Response("GET", 500, <<End("none", 0, FALSE), Data(1)>>),
    Response("GET", 200, <<Name("xhost", "first"), Name("xhost", "last"), Junk>>),
    Response("GET", 100, <<End("none", 0, TRUE)>>) }

\* Well-formed half-duplex traffic, no string split over two segments.
PoliteRequests ==
  { Request("GET", <<Url("whole")>> \o Header("host") \o <<End("none", 0, TRUE)>>),
    Request("GET", <<Url("whole")>> \o Header("xhost")
                     \o <<End("len", 2, FALSE), Data(1), Data(1)>>),
    Request("GET", <<Url("whole")>> \o Header("xhost") \o Header("host")
                     \o <<End("chunked", 0, TRUE), Data(1), Last>>) }

PoliteResponses ==
  { Response("GET", 200, <<End("len", 2, TRUE), Data(1), Data(2)>>),
    Response("GET", 500, Header("xhost") \o <<End("chunked", 0, FALSE), Data(2), Data(3), Last>>),
    Response("GET", 500, <<End("none", 0, FALSE), Data(1)>>),
    Response("GET", 204, <<End("none", 0, TRUE)>>),
    Response("GET", 100, Header("xhost") \o <<End("none", 0, TRUE)>>) }

\* The hypothesis of the theorems about half-duplex traffic holds of it.
ASSUME PoliteTraffic ==
  /\ \A m \in PoliteRequests : PoliteRequest(m)
  /\ \A m \in PoliteResponses : PoliteResponse(m)

\* Requests whose strings straddle two segments.
SplitRequests ==
  { Request("GET", <<Url("whole"), Name("host", "whole"), Val("first"), Val("last"),
                     End("none", 0, TRUE)>>),
    Request("GET", <<Url("first"), Url("last")>> \o Header("host") \o <<End("none", 0, TRUE)>>) }

\* HEAD: the response announces a body that is never sent.
HeadRequests ==
  { Request("HEAD", <<Url("whole")>> \o Header("host") \o <<End("none", 0, TRUE)>>) }
HeadResponses ==
  { Response("HEAD", 200, <<End("len", 2, TRUE)>>) }
=============================================================================
