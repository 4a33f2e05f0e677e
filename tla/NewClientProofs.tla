--------------------------- MODULE NewClientProofs ---------------------------
(***************************************************************************)
(* What a session of the current client was negotiated to, what its exit   *)
(* code means and that a SIGINT before the connection is honoured, for     *)
(* every configuration, every offer of the server and every address space. *)
(*                                                                         *)
(* The listing's part is taken from BrowsingVarsProofs: the call stack and *)
(* the rows of main()'s listing are those of the traversal proved there.   *)
(***************************************************************************)
EXTENDS NewClient, TLAPS

BP == INSTANCE BrowsingVarsProofs

\* Outside the listing: the types of main()'s own variables.
OwnTypes ==
    /\ files \in Files
    /\ pc \in Lines
    /\ running \in BOOLEAN
    /\ cc \in Configs
    /\ client \in {"none", "live", "deleted"}
    /\ retval \in {"good", "bad"}
    /\ session \in Endpoints \cup {NoSession}
    /\ stopped \in Lines \cup {"never"}
    /\ exit \in {"no", "abort", "killed", "-1", "0", "1"}

\* main() is at its end exactly when the process has ended.
Ended == pc = "end" <=> exit # "no"

\* Once there is a client it is configured as the settings file says.
Configured ==
    pc \in {"check", "connect"} =>
        /\ cc.policy = files.settings.policy
        /\ cc.mode = SecurityMode(files.settings.mode)

\* The lines at which main() has not yet connected.
Early == {"handler", "settings", "variables", "secure", "check", "connect"}

\* retval tells whether there is a session, from the connection to its use.
Connected ==
    /\ pc \in Early => session = NoSession
    /\ pc \in {"sleep", "status"} => (retval = "good" <=> session # NoSession)
    /\ pc \in {"browsing", "delete"} \/ exit = "0" => session # NoSession
    /\ exit \in {"abort", "killed", "-1", "1"} => session = NoSession
    /\ session # NoSession /\ files.settings.mode \in Modes =>
          session.mode = files.settings.mode
    /\ session # NoSession => session.policy = files.settings.policy

\* A SIGINT is remembered in running, and past CheckRunning there is none
\* that came before it.
Remembered ==
    /\ stopped \in {"settings", "variables", "secure", "check"} =>
          /\ ~running
          /\ pc \in {"settings", "variables", "secure", "check", "end"}
          /\ session = NoSession
          /\ exit \notin {"0", "1"}
    /\ stopped = "handler" => exit = "killed"

\* Before the listing nothing is printed; from its start its stack and rows
\* are those of the traversal; and it is over where the client is deleted.
Listing ==
    /\ pc \in Early \cup {"sleep", "status"} \/ session = NoSession =>
          stack = <<>> /\ out = <<>> /\ whole = TRUE
    /\ pc \in {"browsing", "delete"} \/ exit = "0" => BP!TInv /\ BP!Progress
    /\ pc = "delete" \/ exit = "0" => stack = <<>>
    /\ pc = "browsing" => stack # <<>>

IInv == OwnTypes /\ Ended /\ HandleLive /\ Configured /\ Connected
        /\ Remembered /\ Listing

-----------------------------------------------------------------------------
(* The two instances of the listing are one: B of the model, BP of the     *)
(* proofs.                                                                 *)

LEMMA SameState ==
    /\ B!Frame(Objects, 0, Uninit) = BP!Frame(Objects, 0, Uninit)
    /\ B!TypeOK <=> BP!TypeOK
    /\ B!Done <=> BP!Done
    /\ B!Listed = BP!Listed
    /\ B!Expected = BP!Expected
BY DEF B!Frame, BP!Frame, B!TypeOK, BP!TypeOK, B!Frames, BP!Frames, B!Rows,
       BP!Rows, B!Done, BP!Done, B!Listed, BP!Listed, B!Position, BP!Position,
       B!Expected, BP!Expected, B!ExpectedTop, BP!ExpectedTop, B!ExpectedSub,
       BP!ExpectedSub, B!Named, BP!Named, B!Expanded, BP!Expanded

LEMMA SameNext == B!Next <=> BP!Next
BY DEF B!Next, BP!Next, B!Browse, BP!Browse, B!ListObject, BP!ListObject,
       B!SkipUnnamed, BP!SkipUnnamed, B!SkipNamespace0, BP!SkipNamespace0,
       B!ReadReference, BP!ReadReference, B!Return, BP!Return, B!Active,
       BP!Active, B!Top, BP!Top, B!Ref, BP!Ref, B!Looping, BP!Looping,
       B!Named, BP!Named, B!Expanded, BP!Expanded, B!Skipped, BP!Skipped,
       B!WithTop, BP!WithTop, B!Advance, BP!Advance, B!Call, BP!Call,
       B!TooDeep, BP!TooDeep, B!Frame, BP!Frame, B!Pop, BP!Pop, B!Callers,
       BP!Callers, B!Left, BP!Left, B!ReadInto, BP!ReadInto, B!ReadOutcomes, BP!ReadOutcomes, B!PrintVariant,
       BP!PrintVariant, B!Row, BP!Row

\* A listing that starts is well formed, and nothing is listed yet.
LEMMA StartsWell == BP!Init => BP!TInv /\ BP!Progress
BY BP!InitTyped, BP!InitProgress, ListingAssumption

LEMMA ListingStarts ==
    ASSUME out = <<>>, whole = TRUE, stack' = <<B!Frame(Objects, 0, Uninit)>>,
           UNCHANGED <<out, whole>>
    PROVE  BP!TInv' /\ BP!Progress'
<1>1. BP!Init'
  BY SameState DEF BP!Init
<1> QED BY <1>1, StartsWell, PTL

LEMMA ListingGoesOn ==
    ASSUME BP!TInv, BP!Progress, B!Next \/ UNCHANGED listing
    PROVE  BP!TInv' /\ BP!Progress'
BY SameNext, BP!NextTyped, BP!NextProgress, ListingAssumption
   DEF BP!vars, listing

-----------------------------------------------------------------------------
(* Each step keeps the invariant.                                          *)

LEMMA InitInv == Init => IInv
BY SecurityAssumption
   DEF Init, IInv, OwnTypes, Ended, HandleLive, Configured, Connected, Early,
       Remembered, Listing, Lines, Configs, NoConfig, Policies

LEMMA HandlerKeeps == IInv /\ InstallHandler => IInv'
BY DEF InstallHandler, At, IInv, OwnTypes, Ended, HandleLive, Configured,
       Connected, Early, Remembered, Listing, Lines, listing

LEMMA ParseKeeps == IInv /\ (ParseSettings \/ ParseVariables) => IInv'
BY DEF ParseSettings, ParseVariables, Parse, Abort, End, At, IInv, OwnTypes, Ended,
       HandleLive, Configured, Connected, Early, Remembered, Listing, Lines, listing

LEMMA SecureKeeps == IInv /\ InitSecureClient => IInv'
<1> SUFFICES ASSUME IInv, InitSecureClient PROVE IInv'
  OBVIOUS
<1>1. CASE Abort
  BY <1>1 DEF InitSecureClient, Abort, End, At, IInv, OwnTypes, Ended, HandleLive,
         Configured, Connected, Early, Remembered, Listing, Lines, listing
<1>2. CASE ~Abort
  <2>1. PICK policies \in DefaultEncryption(LoadFile(files.key)) :
              cc' = [mode |-> SecurityMode(files.settings.mode),
                     policy |-> files.settings.policy,
                     policies |-> policies]
    BY <1>2 DEF InitSecureClient
  <2>2. policies \subseteq Policies
    BY DEF DefaultEncryption, Policies
  <2>3. cc' \in Configs
    BY <2>1, <2>2 DEF IInv, OwnTypes, Files, Settings, Configs, SecurityMode
  <2> QED BY <1>2, <2>1, <2>3
          DEF InitSecureClient, At, IInv, OwnTypes, Ended, HandleLive, Configured,
              Connected, Early, Remembered, Listing, Lines, listing
<1> QED BY <1>1, <1>2

LEMMA CheckKeeps == IInv /\ CheckRunning => IInv'
BY DEF CheckRunning, StopRequested, End, At, IInv, OwnTypes, Ended, HandleLive,
       Configured, Connected, Early, Remembered, Listing, Lines, listing

\* The only step that makes a session: the library keeps to the configuration.
LEMMA ConnectKeeps == IInv /\ ConnectUsername => IInv'
<1> SUFFICES ASSUME IInv, ConnectUsername PROVE IInv'
  OBVIOUS
<1>1. CASE Abort
  BY <1>1 DEF ConnectUsername, Abort, End, At, IInv, OwnTypes, Ended, HandleLive,
         Configured, Connected, Early, Remembered, Listing, Lines, listing
<1>2. CASE session' = session /\ retval' = "bad" /\ ~Abort
  BY <1>2 DEF ConnectUsername, At, IInv, OwnTypes, Ended, HandleLive,
         Configured, Connected, Early, Remembered, Listing, Lines, listing
<1>3. ASSUME NEW e \in Selectable(cc), session' = e, retval' = "good", ~Abort
      PROVE  IInv'
  <2>1. e \in Endpoints /\ e # NoSession
    BY SecurityAssumption DEF Selectable
  <2>2. e.policy = files.settings.policy
        /\ (files.settings.mode \in Modes => e.mode = files.settings.mode)
    BY DEF Selectable, ConnectUsername, At, IInv, Configured, SecurityMode, Modes
  <2> QED BY <1>3, <2>1, <2>2
          DEF ConnectUsername, At, IInv, OwnTypes, Ended, HandleLive, Configured,
              Connected, Early, Remembered, Listing, Lines, listing
<1> QED BY <1>1, <1>2, <1>3 DEF ConnectUsername

LEMMA SleepKeeps == IInv /\ Sleep => IInv'
BY DEF Sleep, At, IInv, OwnTypes, Ended, HandleLive, Configured, Connected,
       Early, Remembered, Listing, Lines, listing

LEMMA GiveUpKeeps == IInv /\ GiveUp => IInv'
BY DEF GiveUp, Refused, End, At, IInv, OwnTypes, Ended, HandleLive, Configured,
       Connected, Early, Remembered, Listing, Lines, listing

LEMMA CallKeeps == IInv /\ CallBrowsingVars => IInv'
<1> SUFFICES ASSUME IInv, CallBrowsingVars PROVE IInv'
  OBVIOUS
<1>1. BP!TInv' /\ BP!Progress'
  BY ListingStarts DEF CallBrowsingVars, At, IInv, Listing, Early
<1>2. stack' # <<>>
  BY DEF CallBrowsingVars
<1> QED BY <1>1, <1>2
        DEF CallBrowsingVars, Refused, At, IInv, OwnTypes, Ended, HandleLive,
            Configured, Connected, Early, Remembered, Listing, Lines, listing

LEMMA BrowsingKeeps == IInv /\ Browsing => IInv'
<1> SUFFICES ASSUME IInv, Browsing PROVE IInv'
  OBVIOUS
<1>1. BP!TInv' /\ BP!Progress'
  BY ListingGoesOn DEF Browsing, At, IInv, Listing
<1> QED BY <1>1 DEF Browsing, At, IInv, OwnTypes, Ended, HandleLive, Configured,
            Connected, Early, Remembered, Listing, Lines

LEMMA DeleteKeeps == IInv /\ DeleteAndReturn => IInv'
<1> SUFFICES ASSUME IInv, DeleteAndReturn PROVE IInv'
  OBVIOUS
<1>1. BP!TInv' /\ BP!Progress'
  BY ListingGoesOn DEF DeleteAndReturn, At, IInv, Listing
<1> QED BY <1>1
        DEF DeleteAndReturn, End, At, IInv, OwnTypes, Ended, HandleLive, Configured,
            Connected, Early, Remembered, Listing, Lines, listing

\* SIGINT, and a step that changes nothing.
LEMMA SigintKeeps == IInv /\ (Sigint \/ UNCHANGED vars) => IInv'
<1> SUFFICES ASSUME IInv, Sigint \/ UNCHANGED vars PROVE IInv'
  OBVIOUS
<1>1. UNCHANGED listing
  BY DEF Sigint, vars, listing
<1>2. pc \in {"browsing", "delete"} \/ exit = "0" => BP!TInv' /\ BP!Progress'
  BY <1>1, ListingGoesOn DEF IInv, Listing
<1>3. CASE Sigint
  BY <1>2, <1>3
  DEF Sigint, End, IInv, OwnTypes, Ended, HandleLive, Configured, Connected, Early,
      Remembered, Listing, Lines, listing
<1>4. CASE UNCHANGED vars
  BY <1>2, <1>4
  DEF vars, IInv, OwnTypes, Ended, HandleLive, Configured, Connected, Early,
      Remembered, Listing, Lines
<1> QED BY <1>3, <1>4

LEMMA Inductive == Spec => []IInv
<1>1. IInv /\ [Next]_vars => IInv'
  BY HandlerKeeps, ParseKeeps, SecureKeeps, CheckKeeps, ConnectKeeps, SleepKeeps,
     GiveUpKeeps, CallKeeps, BrowsingKeeps, DeleteKeeps, SigintKeeps DEF Next, Main
<1> QED BY <1>1, InitInv, PTL DEF Spec

-----------------------------------------------------------------------------
(* The theorems.                                                           *)

\* A session never has another policy than the settings file names, nor
\* another of the three modes, whatever the server offers and whatever became
\* of the key file.
THEOREM SecureAlways == Spec => []SecureAsConfigured
<1>1. IInv => SecureAsConfigured
  BY DEF IInv, Connected, SecureAsConfigured
<1> QED BY <1>1, Inductive, PTL

\* A SIGINT that came before the check of running ends the process without a
\* connection.
THEOREM StopsBeforeConnecting == Spec => []StopBeforeConnect
<1>1. IInv => StopBeforeConnect
  BY DEF IInv, Remembered, Listing, StopBeforeConnect
<1> QED BY <1>1, Inductive, PTL

\* In every state the handle is live where it is used, the types hold, those
\* of the listing included, and the exit code tells the truth: 0 only after a
\* session and a listing that is complete unless an answer was cut short.
THEOREM EndsCleanlyAlways == Spec => []EndsCleanly
<1>1. IInv => TypeOK
  <2> SUFFICES ASSUME IInv PROVE B!TypeOK
    BY DEF IInv, OwnTypes, TypeOK
  <2>1. CASE BP!TInv
    BY <2>1, SameState DEF BP!TInv
  <2>2. CASE ~BP!TInv
    <3>1. session = NoSession \/ pc \in Early \cup {"sleep", "status"}
      BY <2>2 DEF IInv, Listing, Connected, Ended, OwnTypes, Lines, Early
    <3>2. stack = <<>> /\ out = <<>> /\ whole = TRUE
      BY <3>1 DEF IInv, Listing
    <3> QED BY <3>2 DEF B!TypeOK
  <2> QED BY <2>1, <2>2
<1>2. IInv => ExitCodeMeaning
  <2>1. IInv /\ exit = "0" => /\ session # NoSession
                              /\ stack = <<>> /\ BP!Progress
    BY DEF IInv, Listing, Connected
  <2>2. stack = <<>> /\ BP!Progress /\ whole => BP!Listed = BP!Expected
    BY DEF BP!Progress, BP!Passed
  <2>3. IInv /\ exit = "1" => session = NoSession /\ out = <<>>
    BY DEF IInv, Listing, Connected
  <2> QED BY <2>1, <2>2, <2>3, SameState DEF ExitCodeMeaning, B!Done
<1> QED BY <1>1, <1>2, Inductive, PTL DEF EndsCleanly, IInv
=============================================================================
