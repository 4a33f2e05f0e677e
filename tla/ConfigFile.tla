----------------------------- MODULE ConfigFile -----------------------------
(***************************************************************************)
(* server_pubsub_file_configuration.c with loadFile() and writeFile() of   *)
(* common.h: the PubSub configuration is loaded from a file when the       *)
(* server starts and written back to it, byte by byte, after it has        *)
(* stopped. The server is started again and again; it may crash anywhere.  *)
(***************************************************************************)
EXTENDS Integers, SequencesExt

CONSTANTS
    Configurations,  \* what a server may be configured with
    Nothing,         \* a server that has not been configured
    Length,          \* of an encoded configuration, in bytes
    MaxAccidents     \* bound: crashes and failed calls

VARIABLES
    pc,         \* what main() does next
    file,       \* its bytes: of which configuration each is
    contents,   \* what loadFile() returned; empty for UA_STRING_NULL
    config,     \* what the server runs with
    written,    \* how many bytes of the configuration have been written
    last,       \* the last configuration somebody chose
    accidents,  \* how much has gone wrong so far
    where       \* and during what

vars == <<pc, file, contents, config, written, last, accidents, where>>

Encoded(c) == [i \in 1 .. Length |-> c]

Accident == /\ accidents < MaxAccidents /\ accidents' = accidents + 1
            /\ where' = where \cup {pc}
Fine == UNCHANGED <<accidents, where>>

Init == /\ pc = "load" /\ contents = <<>> /\ config = Nothing /\ written = 0
        /\ accidents = 0 /\ where = {}
        /\ last \in Configurations /\ file = Encoded(last)

\* A file that cannot be opened or read, or memory for it, is like an empty one.
loadFile == /\ pc = "load" /\ pc' = "configure"
            /\ \/ contents' = file /\ Fine
               \/ contents' = <<>> /\ Accident
            /\ UNCHANGED <<file, config, written, last>>

\* The result of UA_PubSubManager_loadPubSubConfigFromByteString is not looked at.
main_configure ==
    /\ pc = "configure" /\ pc' = "run"
    /\ \/ config' = (IF \E c \in Configurations : contents = Encoded(c) THEN contents[1]
                     ELSE Nothing) /\ Fine
       \/ config' = Nothing /\ Accident
    /\ UNCHANGED <<file, contents, written, last>>

\* While it runs its clients configure it.
Reconfigure == /\ pc = "run" /\ \E c \in Configurations : config' = c /\ last' = c
               /\ Fine /\ UNCHANGED <<pc, file, contents, written>>

\* A slip: SIGINT ends it without saving.
main_stoppedUnsaved == /\ pc = "run" /\ written' = 0 /\ pc' = "ended" /\ Fine
                       /\ UNCHANGED <<file, contents, config, last>>

\* SIGINT. After a run that failed nothing is saved.
main_stopped == /\ pc = "run" /\ written' = 0
                /\ \/ pc' = "encode" /\ Fine
                   \/ pc' = "ended" /\ Accident
                /\ UNCHANGED <<file, contents, config, last>>

main_save == /\ pc = "encode"
             /\ \/ pc' = "open" /\ Fine
                \/ pc' = "ended" /\ Accident
             /\ UNCHANGED <<file, contents, config, written, last>>

\* A slip: "r+b", which leaves the old bytes there.
writeFile_openOver == /\ pc = "open" /\ pc' = "write" /\ Fine
                      /\ UNCHANGED <<file, contents, config, written, last>>

\* fopen(path, "wb") empties the file.
writeFile_open == /\ pc = "open"
                  /\ \/ pc' = "write" /\ file' = <<>> /\ Fine
                     \/ pc' = "ended" /\ file' = file /\ Accident
                  /\ UNCHANGED <<contents, config, written, last>>

\* One byte after the other, up to the first that cannot be written.
writeFile_put ==
    /\ pc = "write" /\ written < Length
    /\ \/ /\ written' = written + 1
          /\ file' = SubSeq(file, 1, written) \o <<config>> \o SubSeq(file, written + 2, Len(file))
          /\ Fine /\ UNCHANGED pc
       \/ pc' = "ended" /\ UNCHANGED <<file, written>> /\ Accident
    /\ UNCHANGED <<contents, config, last>>

\* A slip: closed after any byte.
writeFile_closeEarly == /\ pc = "write" /\ written > 0 /\ pc' = "ended" /\ Fine
                        /\ UNCHANGED <<file, contents, config, written, last>>

writeFile_close == /\ pc = "write" /\ written = Length /\ pc' = "ended" /\ Fine
                   /\ UNCHANGED <<file, contents, config, written, last>>

Crash == /\ pc # "ended" /\ pc' = "ended" /\ Accident
         /\ UNCHANGED <<file, contents, config, written, last>>

Restart == /\ pc = "ended" /\ pc' = "load" /\ contents' = <<>> /\ config' = Nothing
           /\ Fine /\ UNCHANGED <<file, written, last>>

Next == \/ loadFile \/ main_configure \/ Reconfigure \/ main_stopped \/ main_save
        \/ writeFile_open \/ writeFile_put \/ writeFile_close \/ Crash \/ Restart

Spec == Init /\ [][Next]_vars

TypeOK == /\ pc \in {"load", "configure", "run", "encode", "open", "write", "ended"}
          /\ file \in BoundedSeq(Configurations \cup {Nothing}, Length)
          /\ contents \in BoundedSeq(Configurations \cup {Nothing}, Length)
          /\ config \in Configurations \cup {Nothing} /\ last \in Configurations
          /\ written \in 0 .. Length /\ accidents \in 0 .. MaxAccidents

-----------------------------------------------------------------------------

\* As long as nothing goes wrong a server finds the configuration that was last
\* chosen, by whomever and in whichever run ("save current configuration to file",
\* line 136).
FindsTheLast == (accidents = 0 /\ pc = "run") => config = last

\* The file is never a mixture of two configurations, whatever was interrupted
\* (writeFile opens with "wb").
OneConfiguration == \A i, j \in DOMAIN file : file[i] = file[j]

\* A whole configuration that somebody chose is there for the next run unless a run
\* ended while it was writing it, or had not got it when it started: crashes and
\* failures elsewhere lose at most what was not yet saved.
WholeUnlessWriting ==
    (pc = "load" /\ where \cap {"load", "configure", "write"} = {})
        => \E c \in Configurations : file = Encoded(c)

\* All of it in every state.
Inv == TypeOK /\ FindsTheLast /\ OneConfiguration /\ WholeUnlessWriting
=============================================================================
