----------------------------- MODULE ExchangeLog -----------------------------
(***************************************************************************)
(* What the access log of one connection promises when the client waits    *)
(* for each answer: one line per request, in order, with the request's own *)
(* method, path and Host and the code of its own response.  A request cut  *)
(* short by the end of the connection gets one line too, which may lack    *)
(* what never arrived but never borrows it from another request.           *)
(***************************************************************************)
EXTENDS Naturals, Sequences

CONSTANTS
  Methods,  \* the methods a request may have
  Finals,   \* codes of final responses
  Interims, \* codes of interim responses
  Ends      \* how a connection may end

VARIABLES
  asked,    \* requests the client has begun
  want,     \* the last one: its method, and whether it names a Host
  answer,   \* code of the final response under way, 0 if none is
  out,      \* the lines logged
  up        \* the connection is still tracked

vars == <<asked, want, answer, out, up>>

Pending == asked = Len(out) + 1

Init == asked = 0 /\ answer = 0 /\ out = <<>> /\ up = TRUE /\ want = [meth |-> "GET", host |-> FALSE]

\* The client composes its next request once the last one was answered.
Ask(w) == up /\ ~Pending /\ want' = w /\ UNCHANGED <<asked, answer, out, up>>

Begin == up /\ ~Pending /\ asked' = asked + 1 /\ UNCHANGED <<want, answer, out, up>>

Answer(code) ==
  /\ up /\ Pending /\ answer = 0 /\ answer' = code
  /\ UNCHANGED <<asked, want, out, up>>

Line(host, code, status) ==
  [path |-> asked, host |-> host, method |-> want.meth, code |-> code, status |-> status]

\* The exchange is complete: its line says what was asked and answered.
Record ==
  /\ up /\ Pending /\ answer # 0
  /\ out' = Append(out, Line(IF want.host THEN asked ELSE 0, answer, "success"))
  /\ answer' = 0
  /\ UNCHANGED <<asked, want, up>>

\* The connection ends; a pending exchange is recorded as far as it got.
Hangup ==
  /\ up /\ up' = FALSE
  /\ IF Pending
       THEN \E path \in {0, asked}, host \in {0, asked},
               meth \in {"DELETE", want.meth}, code \in {0, answer} \cup Interims,
               status \in Ends :
              out' = Append(out, [path |-> path, host |-> host, method |-> meth,
                                  code |-> code, status |-> status])
       ELSE out' = out
  /\ answer' = 0
  /\ UNCHANGED <<asked, want>>

Next ==
  \/ \E m \in Methods, h \in BOOLEAN : Ask([meth |-> m, host |-> h])
  \/ Begin
  \/ \E code \in Finals : Answer(code)
  \/ Record
  \/ Hangup

Spec == Init /\ [][Next]_vars
=============================================================================
