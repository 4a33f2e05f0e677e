------------------------------ MODULE Process ------------------------------
(***************************************************************************)
(* One process that runs a program written in Steps: its threads, what is  *)
(* alive, the values of its variables, SIGINT at any moment, and any of    *)
(* its calls failing, up to MaxFailures of them in a run.                  *)
(***************************************************************************)
EXTENDS Steps, FiniteSets

CONSTANTS
    Programs,        \* name |-> [threads, data, handler]
    Effect(_, _, _), \* the values a named computation of a program may leave
    MaxFailures(_)   \* bound: failed calls in a run of a program

ASSUME ProcessAssumption == \A p \in DOMAIN Programs : MaxFailures(p) \in Nat

VARIABLES
    prog,      \* the program
    pc,        \* thread |-> its next step; 0 before it is created
    live,      \* what has been made and not been released
    gone,      \* what has been released
    data,      \* the values of its variables; 0 is FALSE, NULL and GOOD
    handler,   \* the signal handler is installed
    signalled, \* SIGINT has come
    failures,  \* failed calls so far
    exit       \* "no" while it runs, then how it ended

vars == <<prog, pc, live, gone, data, handler, signalled, failures, exit>>

Threads(p) == DOMAIN Programs[p].threads
Code(t) == Programs[prog].threads[t]
Running(t) == exit = "no" /\ pc[t] \in DOMAIN Code(t)
Ended(t) == pc[t] > Len(Code(t))
Current(t) == Code(t)[pc[t]]

Init == /\ prog \in DOMAIN Programs
        /\ pc = [t \in Threads(prog) |-> IF t = "main" THEN 1 ELSE 0]
        /\ live = {} /\ gone = {} /\ data = Programs[prog].data
        /\ handler = FALSE /\ signalled = FALSE /\ failures = 0 /\ exit = "no"

\* The end of a loop or of a branch takes no step of its own.
Land(code, n) == IF n \in DOMAIN code /\ code[n].op = "jump" THEN n + 1 + code[n].skip ELSE n

Go(t, code, n) == pc' = [pc EXCEPT ![t] = Land(code, @ + 1 + n)]

\* A condition is a variable, or whether something is alive; "choice" is open.
Holds(c) == IF c \in DOMAIN data THEN data[c] # 0 ELSE c \in live \cup {"failure"}

\* Memory that was released, or never was there, is touched.
Broken(s) == \/ (s.needs \cup s.touches \cup s.drops) \cap gone # {}
             \/ ~(s.touches \subseteq live)

\* The next step of a thread is such a one, and will not touch what is not there.
Faces(t, Such(_)) == Running(t) /\ LET Safe(s) == ~Broken(s) /\ Such(s) IN Safe(Current(t))

Result(s, ok) ==
    IF s.to = "" THEN data
    ELSE [data EXCEPT ![s.to] = IF ok THEN (IF s.or THEN @ ELSE 0) ELSE 1]

\* One more call has failed.
Failure == failures < MaxFailures(prog) /\ failures' = failures + 1

-----------------------------------------------------------------------------
(* What thread t does, whose function is code, at the step s.              *)

Crash == /\ exit' = "crashed"
         /\ UNCHANGED <<prog, pc, live, gone, data, handler, signalled, failures>>

Succeed(t, code, s) ==
    /\ s.op = "call" /\ s.needs \subseteq live
    /\ live' = (live \ s.drops) \cup s.makes
    /\ gone' = (gone \cup (s.drops \cap live)) \ s.makes
    /\ data' = Result(s, TRUE) /\ Go(t, code, 0)
    /\ UNCHANGED <<prog, handler, signalled, failures, exit>>

Fail(t, code, s) ==
    /\ s.op = "call"
    /\ \/ s.needs \subseteq live /\ s.fails /\ Failure
       \/ ~(s.needs \subseteq live) /\ UNCHANGED failures
    /\ live' = live \ s.drops
    /\ gone' = gone \cup (s.drops \cap live)
    /\ data' = Result(s, FALSE) /\ Go(t, code, 0)
    /\ UNCHANGED <<prog, handler, signalled, exit>>

Compute(t, code, s) ==
    /\ \/ s.op = "put" /\ data' = [data EXCEPT ![s.to] = s.skip]
       \/ s.op = "do" /\ data' \in Effect(prog, s.arg, data)
    /\ Go(t, code, 0)
    /\ UNCHANGED <<prog, live, gone, handler, signalled, failures, exit>>

Branch(t, code, s) ==
    /\ \/ s.op = "jump" /\ Go(t, code, s.skip)
       \/ s.op = "unless" /\ (s.arg = "choice" \/ Holds(s.arg)) /\ Go(t, code, 0)
       \/ s.op = "unless" /\ (s.arg = "choice" \/ ~Holds(s.arg)) /\ Go(t, code, s.skip)
    /\ UNCHANGED <<prog, live, gone, data, handler, signalled, failures, exit>>

Install(t, code, s) ==
    /\ s.op = "signal" /\ handler' = TRUE /\ Go(t, code, 0)
    /\ UNCHANGED <<prog, live, gone, data, signalled, failures, exit>>

\* pthread_create, which may fail, and pthread_join.
Create(t, code, s) ==
    /\ s.op = "spawn"
    /\ \/ pc' = [pc EXCEPT ![t] = Land(code, @ + 1), ![s.arg] = 1] /\ UNCHANGED failures
       \/ Go(t, code, 0) /\ Failure
    /\ UNCHANGED <<prog, live, gone, data, handler, signalled, exit>>

Await(t, code, s) ==
    /\ \/ s.op = "join" /\ (pc[s.arg] = 0 \/ Ended(s.arg))
       \/ s.op = "wait" /\ ~Holds(s.arg)
    /\ Go(t, code, 0)
    /\ UNCHANGED <<prog, live, gone, data, handler, signalled, failures, exit>>

Finish(s) ==
    /\ s.op = "exit" /\ exit' = IF Holds(s.arg) THEN "failure" ELSE "success"
    /\ UNCHANGED <<prog, pc, live, gone, data, handler, signalled, failures>>

Perform(t, code, s) ==
    \/ Broken(s) /\ Crash
    \/ ~Broken(s) /\ (\/ Succeed(t, code, s) \/ Fail(t, code, s) \/ Compute(t, code, s)
                      \/ Branch(t, code, s) \/ Install(t, code, s) \/ Create(t, code, s)
                      \/ Await(t, code, s) \/ Finish(s))

Step(t) == Running(t) /\ Perform(t, Code(t), Current(t))

\* Without a handler the signal ends the process.
Sigint ==
    /\ exit = "no" /\ ~signalled /\ signalled' = TRUE
    /\ IF handler
       THEN /\ data' = [v \in DOMAIN data |-> IF v \in DOMAIN Programs[prog].handler
                                THEN Programs[prog].handler[v] ELSE data[v]]
            /\ UNCHANGED exit
       ELSE exit' = "killed" /\ UNCHANGED data
    /\ UNCHANGED <<prog, pc, live, gone, handler, failures>>

\* It stays as it ended; any other end of a behaviour is a deadlock.
Done == exit # "no" /\ UNCHANGED vars

Next == Sigint \/ Done \/ \E t \in DOMAIN pc : Step(t)

Spec == Init /\ [][Next]_vars

\* Every thread is scheduled; nothing makes a call fail or a signal come.
FairSpec == Spec /\ \A t \in UNION {Threads(p) : p \in DOMAIN Programs} :
                        WF_vars(t \in DOMAIN pc /\ Step(t))

\* Every name that a step of a program releases.
Released(steps) == UNION {steps[i].drops : i \in DOMAIN steps}
Owned == LET programs == Programs
         IN [p \in DOMAIN programs |->
               UNION {Released(programs[p].threads[t]) : t \in DOMAIN programs[p].threads}]

TypeOK ==
    /\ prog \in DOMAIN Programs
    /\ \A t \in DOMAIN pc : pc[t] \in 0 .. Len(Code(t)) + 1
    /\ live \cap gone = {}
    /\ DOMAIN data = DOMAIN Programs[prog].data
    /\ failures \in 0 .. MaxFailures(prog)
    /\ exit \in {"no", "success", "failure", "killed", "crashed"}
=============================================================================
