--------------------------------- MODULE Api ----------------------------------
(***************************************************************************)
(* The requests of src/hashguard/api.py: a thread to a connection, the     *)
(* rate limiter before the token, the token before the body.               *)
(*                                                                         *)
(* What a request changes under AgentState.lock is in Console, Ledger and  *)
(* Agent; here are the connection and what it costs to be wrong.           *)
(***************************************************************************)
EXTENDS RateLimiter

CONSTANTS
  Connections,
  Requests,       \* the requests that are made: a method and the kind of body it is sent with
  Address,        \* of each connection: its "ip:..." key
  Presented,      \* the tokens that are sent, as their "tok:..." keys
  Expected        \* the agent's own

ASSUME ConnectionsAssumption == IsFiniteSet(Connections) /\ Address \in [Connections -> Keys]
ASSUME TokensAssumption ==
  Presented \subseteq Keys /\ \A c \in Connections : Address[c] \notin Presented

\* A body has its length in Content-Length, or comes in chunks without it.
Bodies == {"none", "sized", "chunked"}

ASSUME RequestsAssumption == Requests \subseteq {"GET", "POST", "OPTIONS"} \X Bodies

VARIABLE conn     \* each connection: where its thread is, and what it is at

vars == <<clock, limiter, conn>>

Free == [at |-> "free", method |-> "", token |-> "", now |-> 0, close |-> FALSE, unread |-> "none"]

Init == clock = 0 /\ records = <<>> /\ failedAt = [key \in Keys |-> <<>>]
        /\ conn = [c \in Connections |-> Free]

KeysOf(c) == {Address[c], conn[c].token}

Step(c, from, to) == conn[c].at = from /\ conn' = [conn EXCEPT ![c] = to]

\* A request is parsed, with its body still to be read; its thread reads the clock.  (Behind
\* a body that was not read, what is parsed may be that body.)
Request(c, method, body, token) ==
  /\ conn[c].at \in {"free", "waiting"} /\ method # "OPTIONS"
  /\ conn' = [conn EXCEPT ![c] = [at |-> "consume", method |-> method, token |-> token, now |-> clock,
                                  close |-> method = "POST", unread |-> body]]
  /\ UNCHANGED <<clock, limiter>>

\* _send, and the server after it: the connection waits for the next request or is closed.
Sent(request) ==
  IF request.close THEN Free
  ELSE [Free EXCEPT !.at = "waiting", !.method = request.method, !.unread = request.unread]

\* A preflight is answered without a token.
Options(c, body) ==
  /\ conn[c].at \in {"free", "waiting"}
  /\ conn' = [conn EXCEPT ![c] = Sent([Free EXCEPT !.method = "OPTIONS", !.unread = body])]
  /\ UNCHANGED <<clock, limiter>>

Refused(c) == Sent(conn[c])

Consume(c) ==
  /\ Step(c, "consume", IF Allowed(KeysOf(c), conn[c].now)
                        THEN [conn[c] EXCEPT !.at = "compare", !.now = 0]
                        ELSE Refused(c))
  /\ consume(KeysOf(c), conn[c].now)
  /\ UNCHANGED clock

\* Wrong: the thread reads the clock once more.
Wrong(c) ==
  /\ conn[c].token # Expected
  /\ Step(c, "compare", [conn[c] EXCEPT !.at = "failed", !.now = clock])
  /\ UNCHANGED <<clock, limiter>>

\* What failed() raises ends the connection without an answer.
Fail(c) ==
  LET keys == Reached(Address[c], conn[c].token) IN
  /\ Step(c, "failed", IF \E key \in keys : Raises(key) THEN Free ELSE Refused(c))
  /\ failed(keys, conn[c].now)
  /\ UNCHANGED clock

Right(c) ==
  /\ conn[c].token = Expected
  /\ Step(c, "compare", [conn[c] EXCEPT !.at = "serve", !.close = FALSE])
  /\ succeeded(KeysOf(c))
  /\ UNCHANGED clock

-----------------------------------------------------------------------------
(* do_GET and do_POST, once the token was right.                           *)

Get(c) == conn[c].method = "GET" /\ Step(c, "serve", Refused(c)) /\ UNCHANGED <<clock, limiter>>

\* Mutation: a write from an origin not listed is answered and the connection kept.
AnswerUnread(c) == Sent(conn[c])

\* An origin that is not listed, a length that is no number or out of bounds: not read.
Turned(c) == Sent([conn[c] EXCEPT !.close = TRUE])

PostTurned(c) ==
  conn[c].method = "POST" /\ Step(c, "serve", Turned(c)) /\ UNCHANGED <<clock, limiter>>

\* As many bytes as the header says are read, none without it: what is not a JSON object
\* is refused, the rest is served.
Post(c) ==
  /\ conn[c].method = "POST"
  /\ Step(c, "serve", Sent([conn[c] EXCEPT !.unread = IF @ = "sized" THEN "none" ELSE @]))
  /\ UNCHANGED <<clock, limiter>>

Next ==
  \/ Advance /\ UNCHANGED conn
  \/ \E c \in Connections :
       \/ \E r \in Requests, token \in Presented : Request(c, r[1], r[2], token)
       \/ \E r \in Requests : r[1] = "OPTIONS" /\ Options(c, r[2])
       \/ Consume(c) \/ Wrong(c) \/ Fail(c) \/ Right(c)
       \/ Get(c) \/ PostTurned(c) \/ Post(c)

Spec == Init /\ [][Next]_vars
=============================================================================
