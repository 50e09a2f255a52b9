--------------------------- MODULE TerminalContent ---------------------------
(* How the API serves the bytes of one terminal event part: conditional      *)
(* requests, single byte ranges, the checks made on what the object store     *)
(* answered and the streaming of the body in chunks                           *)
(* (domain/runtime/media.py, api/routes/runtime.py).                          *)
EXTENDS Integers

CONSTANTS
    Sizes,      \* sizes an object may have: a set of naturals
    Chunk       \* the most bytes one read of the store's body returns

ASSUME ContentAssumption == Sizes \subseteq Nat /\ Chunk \in Nat \ {0}

VARIABLES served    \* the one response being prepared or streamed

Idle == [status |-> 0, first |-> 0, last |-> -1, left |-> 0,
         asked |-> [kind |-> "none", a |-> 0, b |-> 0], size |-> 0, body |-> "closed"]

(* The headers a client can send.  "none": no Range header; "from": "a-";     *)
(* "span": "a-b"; "tail": "-a"; "bad": not a single byte range; "stale": a    *)
(* range under an If-Range that is not the current tag; "etag": If-None-Match *)
(* with the current tag.                                                      *)
Asks(limit) ==
    {[kind |-> k, a |-> 0, b |-> 0] : k \in {"none", "bad", "stale", "etag"}}
    \union {[kind |-> k, a |-> a, b |-> 0] : k \in {"from", "tail"}, a \in 0..limit}
    \union {[kind |-> "span", a |-> a, b |-> b] : a \in 0..limit, b \in 0..limit}

(* The syntax check accepts "-0" only as malformed: a suffix must be positive.*)
is_single_byte_range_syntax(ask) ==
    \/ ask.kind \in {"from", "span"}
    \/ ask.kind = "tail" /\ ask.a > 0

(* The closed interval the header selects from an object of this size; the    *)
(* empty interval <<0, -1>> when there is none to serve.                      *)
NoRange == <<0, -1>>

\* Mutant of parse_single_byte_range: an open end is one past the last byte.
EndPastTheLast(ask, size) ==
    IF size <= 0 \/ ~is_single_byte_range_syntax(ask) \/ (ask.kind # "tail" /\ ask.a >= size)
    THEN NoRange
    ELSE IF ask.kind = "tail" THEN <<IF ask.a > size THEN 0 ELSE size - ask.a, size - 1>>
         ELSE <<ask.a, IF ask.kind = "from" THEN size ELSE ask.b>>

parse_single_byte_range(ask, size) ==
    IF size <= 0 \/ ~is_single_byte_range_syntax(ask) THEN NoRange
    ELSE IF ask.kind = "tail"
         THEN <<IF ask.a > size THEN 0 ELSE size - ask.a, size - 1>>
         ELSE LET end == IF ask.kind = "from" THEN size - 1 ELSE ask.b
              IN  IF ask.a >= size \/ end < ask.a THEN NoRange
                  ELSE <<ask.a, IF end < size - 1 THEN end ELSE size - 1>>

(* An If-Range that does not name the current tag turns the request into one  *)
(* for the whole object; If-None-Match is answered before anything is read.   *)
Ranged(ask) == ask.kind \in {"bad", "from", "span", "tail"}
etag_matches(ask) == ask.kind = "etag"

Refusal(ask, size, code) ==
    [Idle EXCEPT !.status = code, !.asked = ask, !.size = size]

(* _stream_terminal_content_response.  A body whose stated length, or whose   *)
(* Content-Range for a partial request, does not agree with what was asked is *)
(* closed and never streamed.                                                 *)
Respond(ask, size, agrees) ==
    LET range == IF Ranged(ask) THEN parse_single_byte_range(ask, size) ELSE <<0, size - 1>>
    IN  IF etag_matches(ask) THEN Refusal(ask, size, 304)
        ELSE IF Ranged(ask) /\ range = NoRange THEN Refusal(ask, size, 416)
        ELSE IF ~agrees THEN Refusal(ask, size, 502)
        ELSE [status |-> IF Ranged(ask) THEN 206 ELSE 200,
              first |-> range[1], last |-> range[2], left |-> range[2] - range[1] + 1,
              asked |-> ask, size |-> size, body |-> "open"]

Serve(size) ==
    /\ served.body = "closed"
    /\ \E ask \in Asks(size + 1), agrees \in BOOLEAN : served' = Respond(ask, size, agrees)

(* _iterate_object_download: reads until the promised length has been sent; a *)
(* body that ends early breaks the connection, and both ways close the body.  *)
Stream ==
    /\ served.body = "open" /\ served.left > 0
    /\ \E n \in 0..Chunk :
         served' = IF n = 0 THEN [served EXCEPT !.body = "broken"]
                   ELSE [served EXCEPT !.left = @ - IF n > @ THEN @ ELSE n]

Close ==
    /\ served.body = "broken" \/ (served.body = "open" /\ served.left = 0)
    /\ served' = Idle

=============================================================================
