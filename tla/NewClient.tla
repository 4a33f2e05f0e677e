------------------------------ MODULE NewClient ------------------------------
(***************************************************************************)
(* main() of the current client (src/new_client.cpp) with the helpers it   *)
(* calls (src/new_client.hpp, include/common.h): read the two json files,  *)
(* build the secure client, connect once, list the address space, delete   *)
(* the client. The listing is BrowsingVars, step by step.                  *)
(*                                                                         *)
(* SIGINT may arrive between any two steps. An exception of the json       *)
(* library or of `new` is caught by nobody: the process aborts.            *)
(*                                                                         *)
(* A definition called "a slip" is a variant of the next one of its kind,  *)
(* a mistake the properties must catch; nothing uses it.                   *)
(***************************************************************************)
EXTENDS Integers, Sequences

CONSTANTS Nodes, Objects, Refs, Ns, IdType, Variables, Printable,
          Uninit, Blank, Garbage             \* as in BrowsingVars

CONSTANTS
    SecurePolicies,   \* the policies a key and a certificate are needed for
    NonePolicy,       \* the policy without security
    Endpoints,        \* what the server offers: [mode, policy] records
    OtherMode,        \* a messageSecurity setting that is none of the three
    NoSession

Modes == {"None", "Sign", "SignAndEncrypt"}
Policies == SecurePolicies \cup {NonePolicy}

ASSUME SecurityAssumption ==
    /\ NonePolicy \notin SecurePolicies
    /\ Endpoints \subseteq [mode : Modes, policy : Policies]
    /\ OtherMode \notin Modes
    /\ NoSession \notin [mode : Modes, policy : Policies]

VARIABLES
    stack, out, whole,   \* of the listing
    files,      \* what the working directory holds; constant during a run
    pc,         \* the line of main() that comes next
    running,    \* the global that stopHandler clears
    cc,         \* the client's configuration
    client,     \* "none", "live" or "deleted"
    retval,     \* the global: "good" or "bad"
    session,    \* history: what the connection was negotiated to
    stopped,    \* history: where main() was at the first SIGINT, or "never"
    exit        \* how the process ended, or "no"

listing == <<stack, out, whole>>
vars == <<stack, out, whole, files, pc, running, cc, client, retval, session,
          stopped, exit>>

B == INSTANCE BrowsingVars

ASSUME ListingAssumption == B!AddressSpaceAssumption /\ B!SentinelAssumption

-----------------------------------------------------------------------------
(* The files main() depends on.                                            *)

\* A settings file: does it parse, are the strings InitSecureClient needs
\* there, are those of the connection there, and what the first two say.
Settings == [parses : BOOLEAN, security : BOOLEAN, connection : BOOLEAN,
             mode : Modes \cup {OtherMode}, policy : Policies]

Files == [settings : Settings, variables : BOOLEAN, cert : BOOLEAN,
          key : {"missing", "short", "whole"}]

\* loadFile: a file that is missing or cannot be read to its end is empty.
LoadFile(file) == IF file = "whole" THEN "key" ELSE "empty"

\* UA_ClientConfig_setDefaultEncryption (its result is ignored): a key it
\* cannot use leaves the client with the policy None only.
DefaultEncryption(key) ==
    IF key = "empty" THEN {{NonePolicy}} ELSE {{NonePolicy}, Policies}

\* A slip: a misspelt string in the last comparison.
SecurityModeMisspelt(secMode) ==
    IF secMode \in {"None", "Sign"} THEN secMode ELSE "any"

\* The if-chain of InitSecureClient; another string leaves the library's
\* default, which accepts an endpoint of any mode.
SecurityMode(secMode) == IF secMode \in Modes THEN secMode ELSE "any"

Configs == [mode : Modes \cup {"any"}, policy : Policies,
            policies : SUBSET Policies]

NoConfig == [mode |-> "any", policy |-> NonePolicy, policies |-> {}]

\* The endpoints the library may choose for a client configured so.
Selectable(c) == {e \in Endpoints : /\ c.mode \in {"any", e.mode}
                                    /\ e.policy = c.policy
                                    /\ e.policy \in c.policies}

-----------------------------------------------------------------------------
(* main(), a step at a time.                                               *)

Init == /\ stack = <<>>
        /\ out = <<>>
        /\ whole = TRUE
        /\ files \in Files
        /\ pc = "handler"
        /\ running = TRUE
        /\ cc = NoConfig
        /\ client = "none"
        /\ retval = "bad"
        /\ session = NoSession
        /\ stopped = "never"
        /\ exit = "no"

At(line) == pc = line /\ exit = "no"

End(how) == /\ exit' = how
            /\ pc' = "end"

\* An exception that nobody catches.
Abort == /\ End("abort")
         /\ UNCHANGED <<listing, files, running, cc, client, retval, session, stopped>>

\* Line 5: from here on SIGINT calls stopHandler.
InstallHandler ==
    /\ At("handler")
    /\ pc' = "settings"
    /\ UNCHANGED <<listing, files, running, cc, client, retval, session, stopped, exit>>

\* Lines 7 and 8: the settings file; 10 and 11: the variables, not used later.
Parse(line, good, next) ==
    /\ At(line)
    /\ \/ /\ good
          /\ pc' = next
          /\ UNCHANGED <<listing, files, running, cc, client, retval, session,
                         stopped, exit>>
       \/ ~good /\ Abort

ParseSettings == Parse("settings", files.settings.parses, "variables")
ParseVariables == Parse("variables", files.variables, "secure")

\* Line 14: a missing setting throws, and so does the array of the size that
\* tellg() gives for a certificate file that is not there.
InitSecureClient ==
    /\ At("secure")
    /\ IF files.settings.security /\ files.cert
         THEN /\ \E policies \in DefaultEncryption(LoadFile(files.key)) :
                    cc' = [mode |-> SecurityMode(files.settings.mode),
                           policy |-> files.settings.policy,
                           policies |-> policies]
              /\ client' = "live"
              /\ pc' = "check"
              /\ UNCHANGED <<listing, files, running, retval, session, stopped, exit>>
         ELSE Abort

\* Lines 18 to 21: the only look main() takes at running. It returns -1
\* without deleting the client.
StopIgnored == FALSE   \* a slip

StopRequested == ~running

CheckRunning ==
    /\ At("check")
    /\ retval' = "bad"
    /\ IF StopRequested THEN End("-1") ELSE pc' = "connect" /\ exit' = exit
    /\ UNCHANGED <<listing, files, running, cc, client, session, stopped>>

\* Lines 22 to 25: the arguments are built first, and a missing one throws.
ConnectUsername ==
    /\ At("connect")
    /\ IF files.settings.connection
         THEN /\ \/ \E e \in Selectable(cc) : session' = e /\ retval' = "good"
                 \/ session' = session /\ retval' = "bad"
              /\ pc' = "sleep"
              /\ UNCHANGED <<listing, files, running, cc, client, stopped, exit>>
         ELSE Abort

\* A slip: the loop of line 19, commented out in the code, in force.
SleepAndRetry ==
    /\ At("sleep")
    /\ pc' = IF retval = "good" THEN "status" ELSE "check"
    /\ UNCHANGED <<listing, files, running, cc, client, retval, session, stopped, exit>>

\* Line 28.
Sleep ==
    /\ At("sleep")
    /\ pc' = "status"
    /\ UNCHANGED <<listing, files, running, cc, client, retval, session, stopped, exit>>

RefusedInverted == retval = "good"   \* a slip

Refused == retval # "good"

\* A slip: the return of line 35 forgotten.
GiveUpAndBrowse ==
    /\ At("status")
    /\ Refused
    /\ client' = "deleted"
    /\ pc' = "browsing"
    /\ stack' = <<B!Frame(Objects, 0, Uninit)>>
    /\ UNCHANGED <<out, whole, files, running, cc, retval, session, stopped, exit>>

\* Lines 31 to 36: not connected, delete the client and return 1.
GiveUp ==
    /\ At("status")
    /\ Refused
    /\ client' = "deleted"
    /\ End("1")
    /\ UNCHANGED <<listing, files, running, cc, retval, session, stopped>>

\* Line 38: the call of BrowsingVars.
CallBrowsingVars ==
    /\ At("status")
    /\ ~Refused
    /\ pc' = "browsing"
    /\ stack' = <<B!Frame(Objects, 0, Uninit)>>
    /\ UNCHANGED <<out, whole, files, running, cc, client, retval, session, stopped, exit>>

Browsing ==
    /\ At("browsing")
    /\ B!Next
    /\ pc' = IF stack' = <<>> THEN "delete" ELSE pc
    /\ UNCHANGED <<files, running, cc, client, retval, session, stopped, exit>>

\* Lines 39 and 41.
DeleteAndReturn ==
    /\ At("delete")
    /\ client' = "deleted"
    /\ End("0")
    /\ UNCHANGED <<listing, files, running, cc, retval, session, stopped>>

Main == \/ InstallHandler
        \/ ParseSettings
        \/ ParseVariables
        \/ InitSecureClient
        \/ CheckRunning
        \/ ConnectUsername
        \/ Sleep
        \/ GiveUp
        \/ CallBrowsingVars
        \/ Browsing
        \/ DeleteAndReturn

\* SIGINT before the handler is installed kills the process; later it only
\* clears running. Further ones change nothing.
Sigint ==
    /\ exit = "no"
    /\ stopped = "never"
    /\ stopped' = pc
    /\ IF pc = "handler"
         THEN End("killed") /\ running' = running
         ELSE running' = FALSE /\ UNCHANGED <<pc, exit>>
    /\ UNCHANGED <<listing, files, cc, client, retval, session>>

Next == Main \/ Sigint

\* One thread; every call of the library returns, if only by its time-out.
\* Nobody has to press Ctrl-C.
Spec == Init /\ [][Next]_vars
FairSpec == Spec /\ WF_vars(Main)

-----------------------------------------------------------------------------
(* Properties.                                                             *)

Lines == {"handler", "settings", "variables", "secure", "check", "connect",
          "sleep", "status", "browsing", "delete", "end"}

\* Every variable of main() and of the listing stays in its type.
TypeOK == /\ B!TypeOK
          /\ files \in Files
          /\ pc \in Lines
          /\ running \in BOOLEAN
          /\ cc \in Configs
          /\ client \in {"none", "live", "deleted"}
          /\ retval \in {"good", "bad"}
          /\ session \in Endpoints \cup {NoSession}
          /\ stopped \in Lines \cup {"never"}
          /\ exit \in {"no", "abort", "killed", "-1", "0", "1"}

\* A session has the policy of the settings file, and its message security
\* mode if the file names one of the three: no key file, however damaged, and
\* no offer of the server makes the client settle for less.
SecureAsConfigured ==
    session # NoSession =>
        /\ session.policy = files.settings.policy
        /\ files.settings.mode \in Modes => session.mode = files.settings.mode

\* The client handle is live wherever main() hands it to the library, and a
\* process that reports a result, 0 or 1, has deleted it.
HandleLive ==
    /\ pc \in {"check", "connect", "sleep", "status", "browsing", "delete"}
          => client = "live"
    /\ exit \in {"0", "1"} => client = "deleted"

\* Exit code 0 means that there was a session and that the listing was made,
\* whole unless the server cut it short; 1 that there was none and nothing
\* was printed.
ExitCodeMeaning ==
    /\ exit = "0" => /\ session # NoSession
                     /\ B!Done
                     /\ whole => B!Listed = B!Expected
    /\ exit = "1" => session = NoSession /\ out = <<>>

\* The handle, the exit code and the types, in every state of main().
EndsCleanly == TypeOK /\ HandleLive /\ ExitCodeMeaning

\* A SIGINT that main() could have seen before it connects is honoured:
\* there is no session and no result, however far main() gets.
StopBeforeConnect ==
    stopped \in {"settings", "variables", "secure", "check"} =>
        session = NoSession /\ out = <<>> /\ exit \notin {"0", "1"}

\* The client always ends: a refused connection, a lost one in the middle of
\* the listing, a missing file or a SIGINT included.
Terminates == <>(exit # "no")
=============================================================================
