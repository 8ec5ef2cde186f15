------------------------------- MODULE Fields -------------------------------
(***************************************************************************)
(* The fields of one request that callback.c captures for its report: the  *)
(* query of the URL (request_url), the Cookie header (request_header_value) *)
(* and a POST body (request_body, request_complete), all with parse_string. *)
(*                                                                         *)
(* http_parser hands a string over in as many pieces as it has segments.   *)
(* A body is put together again over post_buf, which keeps what follows    *)
(* the start of the last name seen; a query and a Cookie are not.          *)
(*                                                                         *)
(* Characters: Letters are the ones above 'A', with which a name begins;   *)
(* Others ('A', digits, blanks) can only go on with one.  Case is left out: *)
(* names are compared without it.                                          *)
(***************************************************************************)
EXTENDS Integers, Sequences, SequencesExt

CONSTANTS
  Letters, Others,   \* the characters of names and values
  Names,             \* config.catch_get, catch_cookie and catch_post
  POST_BUF_LENGTH,
  MaxLen             \* bound: length of the string

Split == "split"     \* '&', or ';' in a Cookie
Equals == "="
NUL == "NUL"         \* ends the copy of the URL; no other string has one
Chars == Letters \cup Others \cup {Split, Equals}

ASSUME FieldsAssumption ==
  /\ {Split, Equals, NUL} \cap (Letters \cup Others) = {}
  /\ POST_BUF_LENGTH \in Nat \ {0} /\ MaxLen \in Nat
  /\ \A n \in Names : n \in Seq(Letters \cup Others)

VARIABLES
  kind,               \* the string at hand: "get", "cookie" or "post"
  request_multipart,  \* s->request_multipart: 0, IS_MULTIPART or 3
  sent,               \* the string as far as it was delivered
  post_buf,           \* s->post_buf[0..post_buf_len-1]
  proplist,           \* the fields captured of this request, oldest first
  done,               \* the string is complete
  left,               \* what post_buf held when the request began
  notes               \* where the pieces were cut (see Notes)

vars == <<kind, request_multipart, sent, post_buf, proplist, done, left, notes>>

-----------------------------------------------------------------------------
(* parse_string.                                                           *)

\* is_in_list compares as many characters as the name at hand has: it is
\* caught when a configured name begins with it.
is_in_list(name) == \E n \in Names : n = <<"*">> \/ IsPrefix(name, n)

\* text[i..j-1], with offsets from 0 as in C.
Slice(text, i, j) == SubSeq(text, i + 1, j)

Ready == [k |-> "ready", j |-> 0, kl |-> 0, ks |-> -1, props |-> <<>>, over |-> FALSE, ret |-> -1]

\* One character in state in_key.
InKey(x, text, i) ==
  CASE text[i + 1] = Equals ->
         IF is_in_list(Slice(text, x.j, i))
           THEN [x EXCEPT !.k = "value", !.kl = i - x.j, !.j = i + 1]
           ELSE [x EXCEPT !.k = "ignore", !.j = i + 1]
    [] text[i + 1] = Split -> [x EXCEPT !.k = "ready"]
    [] OTHER -> x

\* One character in state in_value or in_value_ignore.  At the end of the
\* length the character belongs to the value whatever it is.
InValue(x, text, l, i, catch_end) ==
  LET last == i = l - 1 /\ catch_end
      end  == IF last THEN i + 1 ELSE i
      item == [key |-> Slice(text, x.ks, x.ks + x.kl), value |-> Slice(text, x.j, end)]
  IN  IF last \/ text[i + 1] \in {Split, NUL}
        THEN [x EXCEPT !.k = "ready", !.over = last,
                       !.props = IF x.k = "value" THEN Append(@, item) ELSE @]
        ELSE x

\* One turn of the loop.  ret is the offset parse_string returns, -1 a NULL.
Turn(x, text, l, i, catch_end) ==
  LET y == CASE x.k = "ready" -> IF text[i + 1] \in Letters
                                   THEN [x EXCEPT !.k = "key", !.j = i, !.ks = i] ELSE x
             [] x.k = "key"   -> InKey(x, text, i)
             [] OTHER         -> InValue(x, text, l, i, catch_end)
  IN  IF y.over \/ (text[i + 1] # NUL /\ i < l - 1) THEN y
      ELSE [y EXCEPT !.over = TRUE, !.ret = IF text[i + 1] = NUL THEN @ ELSE y.ks]

\* parse_string on the first l characters at text.
parse_string(text, l, catch_end) ==
  FoldLeftDomain(LAMBDA x, i : IF x.over \/ i > l THEN x ELSE Turn(x, text, l, i - 1, catch_end),
                 Ready, text)

-----------------------------------------------------------------------------
(* The callbacks.                                                          *)

Drop(text, n) == SubSeq(text, n + 1, Len(text))

\* request_url: parse_string runs on past the '?' of a copy of the URL, with
\* the length of the whole URL; a piece without '?' is not looked at.
request_url(at) ==
  IF sent = <<>> THEN parse_string(at \o <<NUL>>, Len(at) + 2, TRUE).props ELSE <<>>

\* request_header_value after a name that began "cookie"; the first piece
\* clears cur_field.
Cookie(at) == IF sent = <<>> THEN parse_string(at, Len(at), TRUE).props ELSE <<>>

\* request_header_value after "content-type": what sorts before "multipart"
\* is no multipart.
IS_MULTIPART == 2
ContentType(value) == IF value = "application" THEN 3 ELSE IS_MULTIPART

buf_push(buf, at) ==
  LET room == POST_BUF_LENGTH - Len(buf) - 1
  IN  buf \o SubSeq(at, 1, IF Len(at) > room THEN room ELSE Len(at))

\* Mutant: the piece is parsed again from its start.
Refill_unmoved(at) ==
  LET pushed == buf_push(post_buf, at)
      y      == parse_string(pushed, Len(pushed), FALSE)
  IN  IF post_buf = <<>>
        THEN [y |-> Ready, again |-> TRUE, rest |-> at, buf |-> <<>>]
        ELSE [y |-> y, again |-> y.ret # 0, buf |-> pushed,
              rest |-> at]

\* Mutant: last_post_buf_len is not subtracted.
Refill_far(at) ==
  LET pushed == buf_push(post_buf, at)
      y      == parse_string(pushed, Len(pushed), FALSE)
  IN  IF post_buf = <<>>
        THEN [y |-> Ready, again |-> TRUE, rest |-> at, buf |-> <<>>]
        ELSE [y |-> y, again |-> y.ret # 0, buf |-> pushed,
              rest |-> IF y.ret > 0 THEN Drop(at, y.ret) ELSE at]

\* request_body up to the point where the buffer is given up (rest is what
\* is left to parse) or kept (again is FALSE).
Refill(at) ==
  LET pushed == buf_push(post_buf, at)
      y      == parse_string(pushed, Len(pushed), FALSE)
  IN  IF post_buf = <<>>
        THEN [y |-> Ready, again |-> TRUE, rest |-> at, buf |-> <<>>]
        ELSE [y |-> y, again |-> y.ret # 0, buf |-> pushed,
              rest |-> IF y.ret > 0 THEN Drop(at, y.ret - Len(post_buf)) ELSE at]

\* The rest of request_body: what begins with the last name is kept, unless
\* it is too long.
KeepTail(rest) ==
  LET y    == parse_string(rest, Len(rest), FALSE)
      more == Len(rest) - y.ret
  IN  [y |-> y, buf |-> IF y.ret >= 0 /\ more < POST_BUF_LENGTH
                          THEN buf_push(<<>>, Drop(rest, y.ret)) ELSE <<>>]

\* History.  "edge": the bytes parsed ended between two fields; "long": a
\* field did not fit in the buffer; "cut": the string came in pieces.
Edge(y) == IF y.k = "ready" /\ y.ret >= 0 THEN {"edge"} ELSE {}

request_body(at) ==
  LET r == Refill(at)
      t == KeepTail(r.rest)
  IN  IF request_multipart = IS_MULTIPART
        THEN UNCHANGED <<post_buf, proplist, notes>>
        ELSE IF r.again
          THEN /\ post_buf' = t.buf
               /\ proplist' = proplist \o r.y.props \o t.y.props
               /\ notes' = notes \cup Edge(r.y) \cup Edge(t.y)
                             \cup (IF t.y.ret >= 0 /\ t.buf = <<>> THEN {"long"} ELSE {})
          ELSE /\ post_buf' = r.buf
               /\ proplist' = proplist \o r.y.props
               /\ notes' = notes \cup Edge(r.y)
                             \cup (IF r.buf # post_buf \o at THEN {"long"} ELSE {})

Strings(n) == UNION {[1..k -> Chars] : k \in 1..n}

\* The next piece of the string.
Piece(at) ==
  /\ ~done /\ sent' = sent \o at
  /\ IF kind = "post"
       THEN request_body(at)
       ELSE /\ proplist' = proplist \o (IF kind = "get" THEN request_url(at) ELSE Cookie(at))
            /\ notes' = IF sent = <<>> THEN notes ELSE notes \cup {"cut"}
            /\ UNCHANGED post_buf
  /\ UNCHANGED <<kind, request_multipart, done, left>>

Header(value) ==
  /\ kind = "post" /\ sent = <<>> /\ ~done /\ request_multipart = 0
  /\ request_multipart' = ContentType(value)
  /\ UNCHANGED <<kind, sent, post_buf, proplist, done, left, notes>>

\* Mutant: what is still in the buffer is forgotten.
request_complete_idle ==
  /\ ~done /\ sent # <<>> /\ done' = TRUE
  /\ UNCHANGED <<kind, request_multipart, sent, post_buf, proplist, left, notes>>

\* request_complete; for a query or a Cookie nothing is left to do.
request_complete ==
  /\ ~done /\ sent # <<>> /\ done' = TRUE
  /\ proplist' = IF kind = "post" /\ post_buf # <<>>
                   THEN proplist \o parse_string(post_buf, Len(post_buf), TRUE).props
                   ELSE proplist
  /\ UNCHANGED <<kind, request_multipart, sent, post_buf, left, notes>>

\* The next request begins: after session_report, which frees post_buf, or,
\* when it is pipelined, before.
NextRequest(reported) ==
  /\ done /\ left = <<>> /\ kind = "post"
  /\ post_buf' = IF reported THEN <<>> ELSE post_buf
  /\ left' = post_buf'
  /\ request_multipart' = IF reported THEN 0 ELSE request_multipart
  /\ sent' = <<>> /\ proplist' = <<>> /\ done' = FALSE /\ notes' = {}
  /\ UNCHANGED kind

Init ==
  /\ kind \in {"get", "cookie", "post"} /\ request_multipart = 0
  /\ sent = <<>> /\ post_buf = <<>> /\ proplist = <<>> /\ done = FALSE
  /\ left = <<>> /\ notes = {}

Next ==
  \/ \E at \in Strings(MaxLen - Len(left) - Len(sent)) : Piece(at)
  \/ \E value \in {"application", "multipart", "text"} : Header(value)
  \/ request_complete
  \/ \E reported \in BOOLEAN : NextRequest(reported)

Spec == Init /\ [][Next]_vars

-----------------------------------------------------------------------------
(* Properties.                                                             *)

\* Type invariant; post_buf stays inside the POST_BUF_LENGTH bytes allocated.
TypeOK ==
  /\ kind \in {"get", "cookie", "post"} /\ request_multipart \in {0, IS_MULTIPART, 3}
  /\ done \in BOOLEAN /\ notes \subseteq {"edge", "long", "cut"}
  /\ Len(post_buf) < POST_BUF_LENGTH /\ Len(left) < POST_BUF_LENGTH

\* The parts of text between the split characters.
Parts(text) ==
  LET s == SelectSeq([i \in 1..(Len(text) + 2) |-> i - 1],
                     LAMBDA i : i \in {0, Len(text) + 1} \/ text[i] = Split)
  IN  [n \in 1..(Len(s) - 1) |-> SubSeq(text, s[n] + 1, s[n + 1] - 1)]

\* What a part says: the name runs from the first letter to the first '='
\* behind it, the value is the rest.
Named(part) == \E i \in 1..Len(part) : part[i] \in Letters /\ Equals \in Range(Drop(part, i))
Item(part) ==
  LET b == CHOOSE i \in 1..Len(part) : /\ part[i] \in Letters
                                      /\ \A h \in 1..(i - 1) : part[h] \notin Letters
      e == CHOOSE i \in (b + 1)..Len(part) : /\ part[i] = Equals
                                            /\ \A h \in b..(i - 1) : part[h] # Equals
  IN  [key |-> SubSeq(part, b, e - 1), value |-> Drop(part, e)]

Wanted(text) ==
  LET fields == SelectSeq(Parts(text), Named)
      items  == [n \in 1..Len(fields) |-> Item(fields[n])]
  IN  SelectSeq(items, LAMBDA x : is_in_list(x.key))

\* The field list of a request is exactly what its text says, however the
\* body was cut into pieces, unless a piece ended between two fields, a field
\* is longer than the buffer, a Cookie or a query was cut, or a Cookie or a
\* body ends with an '=' or a separator.  A pipelined request goes on with the
\* buffer of the one before.
FieldsExact ==
  done /\ notes = {} /\ request_multipart # IS_MULTIPART
       /\ (kind = "get" \/ Last(sent) \notin {Split, Equals})
    => proplist = Wanted(left \o sent)

\* However the pieces fall, a body loses no field, unless one does not fit in
\* the buffer or is empty at the very end.
NothingLost ==
  done /\ kind = "post" /\ notes \subseteq {"edge"} /\ request_multipart # IS_MULTIPART
       /\ Last(sent) # Equals
    => Range(Wanted(left \o sent)) \subseteq Range(proplist)

\* Nothing is made up: a captured field is one of the text, cut short where
\* the buffer or the piece ended, or with the separator it ran into.
NothingInvented ==
  /\ TypeOK
  /\ \A n \in 1..Len(proplist) : \E w \in Range(Wanted(left \o sent)) :
       /\ proplist[n].key = w.key
       /\ proplist[n].value = w.value \o <<Split>> \/ IsPrefix(proplist[n].value, w.value)
=============================================================================
