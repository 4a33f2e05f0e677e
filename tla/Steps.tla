------------------------------- MODULE Steps -------------------------------
(***************************************************************************)
(* The text of a C program as data: a function body is a sequence of       *)
(* steps, and If, While and Fn lay branches, loops and early returns out   *)
(* as relative jumps. Module Process gives the steps their meaning.        *)
(***************************************************************************)
EXTENDS Integers, Sequences

Blank == [op |-> "none", makes |-> {}, needs |-> {}, touches |-> {}, drops |-> {},
          fails |-> FALSE, to |-> "", or |-> FALSE, arg |-> "", skip |-> 0]

\* A call that may fail. If it succeeds, what it makes exists from then on; it
\* cannot succeed without what it needs. Its result is not looked at.
Call(makes, needs) ==
    [Blank EXCEPT !.op = "call", !.makes = makes, !.needs = needs, !.fails = TRUE]

Sure(call) == [call EXCEPT !.fails = FALSE]              \* cannot fail by itself
Into(v, call) == [call EXCEPT !.to = v]                  \* v = call
OrInto(v, call) == [call EXCEPT !.to = v, !.or = TRUE]   \* v |= call

\* Memory: a dereference, and free() or its like, which takes NULL too.
Deref(xs) == [Blank EXCEPT !.op = "call", !.touches = xs]
Free(xs) == [Blank EXCEPT !.op = "call", !.drops = xs]

\* A step that also reads what xs point to; the first step of a statement list.
Reads(xs, step) == [step EXCEPT !.touches = @ \cup xs]
ReadsFirst(xs, A) == <<Reads(xs, A[1])>> \o Tail(A)

\* v = n;  and a computation with a name of its own.
Put(v, n) == [Blank EXCEPT !.op = "put", !.to = v, !.skip = n]
Do(name) == [Blank EXCEPT !.op = "do", !.arg = name]

Signal == [Blank EXCEPT !.op = "signal"]                 \* signal(SIGINT, handler)
Spawn(t) == [Blank EXCEPT !.op = "spawn", !.arg = t]
Wait(v) == [Blank EXCEPT !.op = "wait", !.arg = v]        \* until v is 0
Join(t) == [Blank EXCEPT !.op = "join", !.arg = t]
Exit(v) == [Blank EXCEPT !.op = "exit", !.arg = v]       \* EXIT_SUCCESS iff v is 0

Jump(n) == [Blank EXCEPT !.op = "jump", !.skip = n]
Unless(c, n) == [Blank EXCEPT !.op = "unless", !.arg = c, !.skip = n]
Return == [Blank EXCEPT !.op = "return"]

If(c, A) == <<Unless(c, Len(A))>> \o A
IfNot(c, A) == <<Unless(c, 1), Jump(Len(A))>> \o A
IfElse(c, A, B) == <<Unless(c, Len(A) + 1)>> \o A \o <<Jump(Len(B))>> \o B
While(c, A) == <<Unless(c, Len(A) + 1)>> \o A \o <<Jump(-(Len(A) + 2))>>
Either(c, d, A) == <<Unless(c, 1), Jump(1), Unless(d, Len(A))>> \o A
WhileEither(c, d, A) == Either(c, d, A \o <<Jump(-(Len(A) + 4))>>)

\* Either way: a choice the program does not make (input, the peer, an option).
Maybe(A) == If("choice", A)

\* x = malloc(...), and a function that gives up without it.
New(x) == Call({x}, {})
Alloc(x) == <<New(x)>> \o IfNot(x, <<Return>>)

\* UA_Server_run(server, &flag): may fail to start, else serves until the flag
\* is cleared.
RunServer(v, flag) ==
    <<OrInto(v, Call({}, {"server"}))>> \o IfNot(v, <<Wait(flag)>>)

\* A function: its returns leave it.
Fn(A) == [i \in DOMAIN A |-> IF A[i].op = "return" THEN Jump(Len(A) - i) ELSE A[i]]

-----------------------------------------------------------------------------
(* What the example programs have in common: they set a server up step by  *)
(* step, run it until SIGINT and delete it.                                *)

\* for(i = 0; i < n; i++) with nothing in it that depends on i.
Times(n, A) == [i \in 1 .. n * Len(A) |-> A[((i - 1) % Len(A)) + 1]]

\* Nonsense or too few arguments, and -h.
ReadArguments == Maybe(<<Exit("failure")>>) \o Maybe(<<Exit("success")>>)

GiveUp(v) == If(v, <<Exit("failure")>>)

NewServer == <<New("server"), Call({"config"}, {"server"})>>
DeleteServer == <<Free({"server"})>>

\* The server still looks at values behind its nodes while it goes down.
DeleteReading(xs) == <<Reads(xs, Free({"server"}))>>

\* UA_Server_runUntilInterrupt() installs a handler of its own.
RunUntilInterrupt(v) == <<Signal>> \o RunServer(v, "running")

\* A slip: it runs as long as there is a server.
RunServingDeaf(v, body) ==
    <<OrInto(v, Call({}, {"server"}))>> \o IfNot(v, While("server", Maybe(body)))

\* A server whose repeated callbacks do body.
RunServing(v, body) ==
    <<OrInto(v, Call({}, {"server"}))>> \o IfNot(v, While("running", Maybe(body)))

\* A program of one thread.
Program(code, variables) ==
    [threads |-> [main |-> code], handler |-> [running |-> 0],
     data |-> [v \in variables \cup {"running", "retval"} |-> IF v = "running" THEN 1 ELSE 0]]
=============================================================================
