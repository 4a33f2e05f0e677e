---------------------------- MODULE TpmKeyStore -----------------------------
(***************************************************************************)
(* The four *_tpm_keystore.c programs: two sealed files are checked and    *)
(* decrypted with a key that a security token keeps, one after the other;  *)
(* then a server or a client works with what was in them. Memory does not  *)
(* run out where the code does not look.                                   *)
(***************************************************************************)
EXTENDS Process

Pub == INSTANCE PubSubPublishers
Sub == INSTANCE PubSubSubscribers

CONSTANT Lengths   \* of the decrypted files, in bytes

\* A sealed file is one or more whole blocks of CKM_AES_CBC. decrypt_data relies on it:
\* with less than a block clear_data_length - 16 wraps around. 8 bits stand for 64.
ASSUME LengthsAssumption == \A n \in Lengths : n \in 16 .. 255 /\ n % 16 = 0

\* What is decrypted, and what is allocated on the way, by name.
EncryptOut ==
    [self |-> "encrypt_out_data", data |-> "encrypt_out_data.data",
     md_value |-> "encrypt_out_data.md_value",
     pSlotList |-> "encrypt_out_data.pSlotList",
     ptr_encrypted_data |-> "encrypt_out_data.ptr_encrypted_data",
     data_clear |-> "encrypt_out_data.data_clear"]
SignOut ==
    [self |-> "sign_out_data", data |-> "sign_out_data.data",
     md_value |-> "sign_out_data.md_value",
     pSlotList |-> "sign_out_data.pSlotList",
     ptr_encrypted_data |-> "sign_out_data.ptr_encrypted_data",
     data_clear |-> "sign_out_data.data_clear"]
CertificateOut ==
    [self |-> "certificate_out_data", data |-> "certificate_out_data.data",
     md_value |-> "certificate_out_data.md_value",
     pSlotList |-> "certificate_out_data.pSlotList",
     ptr_encrypted_data |-> "certificate_out_data.ptr_encrypted_data",
     data_clear |-> "certificate_out_data.data_clear"]

Malloc(x) == <<Sure(New(x))>>
Try(call) == <<Into("rv", call)>> \o If("rv", <<Return>>)

\* Without a digest, md_value and md_len are what they were before.
get_MAC(out) ==
    Fn(<<Put("digest", 0)>> \o Alloc("md_ctx")
       \o Try(Call({}, {"md_ctx"})) \o Try(Call({}, {"md_ctx"})) \o Alloc(out.md_value)
       \o <<Put("strayDigest", 0)>> \o Try(Call({}, {"md_ctx"})) \o <<Put("digest", 1), Free({"md_ctx"})>>)

\* A slip: the last object will do.
find_any_object ==
    <<Put("searching", 1)>>
    \o While("searching", <<Into("failed", Call({}, {"search"})), Do("any")>>)

\* One object after the other until one has the label.
find_object_by_label ==
    <<Put("searching", 1)>>
    \o While("searching", <<Into("failed", Call({}, {"search"})), Do("object")>>)

\* A slip: no program initialises it.
DeclaredUnset(stray, unset) == <<Put(stray, 0)>> \o Maybe(<<Put(stray, 1)>>)

\* A pointer that is not initialised may be anything; one to nowhere is freed too.
Declared(stray, unset) == <<Put(stray, 0)>> \o If(unset, Maybe(<<Put(stray, 1)>>))
FreeIfSet(x, stray) == IfElse(stray, <<Deref({"nothing"})>>, <<Free({x})>>)

\* C_Initialize refuses when it has been called before.
Initialize == If("library", <<Put("rv", 1), Return>>) \o Try(Call({"library"}, {}))

\* No slot at all, like no such key, is a return with rv still good.
Slots(out) == Try(Call({}, {"library"})) \o Maybe(<<Return>>)
              \o <<New(out.pSlotList)>>
              \o IfNot(out.pSlotList, <<Put("rv", 1), Return>>) \o Try(Call({}, {"library"}))

\* The last slot is taken if none is the one that was asked for.
ChooseSlot(out) == <<Deref({out.pSlotList})>> \o Maybe(Try(Call({}, {"library"})))

LogIn == Try(Call({"session"}, {"library"})) \o Try(Call({}, {"session"}))
         \o Maybe(Try(Call({"login"}, {"session"})))

FindKey(find) == Try(Call({"search"}, {"session"})) \o find
           \o IfNot("found", <<Return>>) \o Try([Call({}, {"search"}) EXCEPT !.drops = {"search"}])

\* All blocks but the last one, and that with C_DecryptFinal.
Decrypt(out) ==
    Malloc(out.ptr_encrypted_data) \o <<Put("strayEncrypted", 0)>>
    \o Try(Call({"decryption"}, {"session"})) \o Malloc(out.data_clear) \o <<Put("strayClear", 0)>>
    \o <<Do("blocks")>>
    \o While("more", Try(Reads({out.data_clear}, Call({}, {"decryption"}))) \o <<Do("next")>>)
    \o Try(Reads({out.data_clear}, Call({}, {"decryption"})))

LogOut == If("login", <<Free({"login"})>>)
          \o <<Free({"decryption"}), Free({"session"}), Free({"library"})>>

\* goto cleanup leaves the library and the session as they are.
decrypt_data(out, find) ==
    <<Put("found", 0)>> \o Declared("strayEncrypted", "unset") \o Declared("strayClear", "unset")
    \o Fn(Initialize \o Slots(out) \o ChooseSlot(out) \o LogIn \o FindKey(find) \o Decrypt(out)
          \o <<Free({out.data})>> \o Malloc(out.data) \o LogOut)
    \o FreeIfSet(out.data_clear, "strayClear") \o <<Free({out.pSlotList})>>
    \o FreeIfSet(out.ptr_encrypted_data, "strayEncrypted")

\* A slip: the result of the comparison is not looked at.
decrypt_unchecked(out, mac, clear) ==
    Malloc("enc_data") \o Malloc("iv_data") \o mac \o <<Do("compare")>>
    \o clear \o <<Free({"iv_data"}), Free({"enc_data"}), Free({out.md_value})>>

\* The digest at the end of the file must be that of the rest of it.
decrypt(out, mac, clear) ==
    Declared("strayDigest", "unset") \o Malloc("enc_data") \o Malloc("iv_data") \o mac
    \o IfElse("digest", <<Deref({out.md_value})>>,
                        Maybe(<<Deref({"nothing"})>>))
    \o <<Do("compare")>>
    \o IfElse("same", clear \o <<Free({"iv_data"}), Free({"enc_data"})>>
                      \o FreeIfSet(out.md_value, "strayDigest"),
                      <<Put("rv", 1)>>)

Unseal(out, decrypted) == Malloc(out.self) \o decrypted \o GiveUp("rv")
Forget(out) == <<Deref({out.self}), Free({out.data}), Free({out.self})>>

-----------------------------------------------------------------------------
(* encryption/server_encryption_tpm_keystore.c                             *)

server_get_MAC(out) == get_MAC(out)
server_find_object_by_label == find_object_by_label
server_decrypt_data(out) == decrypt_data(out, server_find_object_by_label)
server_decrypt(out) == decrypt(out, server_get_MAC(out), server_decrypt_data(out))

Files == Malloc("certificate_in_date") \o Malloc("encrypt_in_data")

\* The private key is released before the server runs, the certificate never is.
server_main ==
    <<Signal>> \o Maybe(<<Exit("failure")>>) \o Files
    \o Unseal(EncryptOut, server_decrypt(EncryptOut))
    \o Unseal(CertificateOut, server_decrypt(CertificateOut))
    \o <<New("server"),
         Into("retval", Call({"config"}, {"server", "encrypt_out_data.data",
                                          "certificate_out_data.data"}))>>
    \o Forget(EncryptOut) \o <<Free({"certificate_in_date"}), Free({"encrypt_in_data"})>>
    \o IfNot("retval", RunServer("retval", "running")) \o DeleteServer \o <<Exit("retval")>>

-----------------------------------------------------------------------------
(* encryption/client_encryption_tpm_keystore.c                             *)

client_get_MAC(out) == get_MAC(out)
client_find_object_by_label == find_object_by_label
client_decrypt_data(out) == decrypt_data(out, client_find_object_by_label)
client_decrypt(out) == decrypt(out, client_get_MAC(out), client_decrypt_data(out))

client_main ==
    Maybe(<<Exit("failure")>>) \o Files
    \o Unseal(EncryptOut, client_decrypt(EncryptOut))
    \o Unseal(CertificateOut, client_decrypt(CertificateOut))
    \o <<New("client"),
         Call({"config"}, {"client", "encrypt_out_data.data", "certificate_out_data.data"})>>
    \o Forget(EncryptOut) \o <<Free({"certificate_in_date"}), Free({"encrypt_in_data"})>>
    \o <<Into("retval", Call({"connected"}, {"client"}))>>
    \o If("retval", <<Free({"client"}), Exit("failure")>>)
    \o <<Into("retval", Call({"value"}, {"connected"})), Free({"value"}), Free({"client"}),
         Exit("retval")>>

-----------------------------------------------------------------------------
(* pubsub/pubsub_publish_encrypted_tpm_keystore.c and its subscriber, whose*)
(* set-up is that of the other encrypted programs.                         *)

publish_get_MAC(out) == get_MAC(out)
publish_find_object_by_label == find_object_by_label
publish_decrypt_data(out) == decrypt_data(out, publish_find_object_by_label)
publish_decrypt(out) == decrypt(out, publish_get_MAC(out), publish_decrypt_data(out))
publish_addPubSubConnection == Pub!addPubSubConnection
publish_addPublishedDataSet == Pub!addPublishedDataSet
publish_addDataSetField == Pub!tpm_addDataSetField
publish_addWriterGroup == Pub!encrypted_addWriterGroup
publish_addDataSetWriter == Pub!addDataSetWriter
publish_run == Pub!SecuredRun(publish_addPubSubConnection, publish_addPublishedDataSet,
    publish_addDataSetField, publish_addWriterGroup, publish_addDataSetWriter)

KeyFile(in) == Malloc(in) \o Maybe(<<Exit("failure")>>)

\* The bytes of the two files are stored one past the end of the two keys, which stay
\* as they were.
publish_main ==
    ReadArguments \o <<Put("unset", 1)>> \o KeyFile("encrypt_in_data") \o KeyFile("sign_in_data")
    \o Unseal(EncryptOut, publish_decrypt(EncryptOut))
    \o Unseal(SignOut, publish_decrypt(SignOut))
    \o <<Deref({"sign_out_data", "sign_out_data.data"}),
                 Deref({"encrypt_out_data", "encrypt_out_data.data"}),
                 Free({"encrypt_in_data"}), Free({"sign_in_data"})>>
    \o Forget(SignOut) \o Forget(EncryptOut) \o publish_run

subscribe_get_MAC(out) == get_MAC(out)
subscribe_find_object_by_label == find_object_by_label
subscribe_decrypt_data(out) == decrypt_data(out, subscribe_find_object_by_label)
subscribe_decrypt(out) == decrypt(out, subscribe_get_MAC(out), subscribe_decrypt_data(out))
subscribe_addPubSubConnection == Sub!addPubSubConnection
subscribe_addReaderGroup == Sub!encrypted_addReaderGroup
subscribe_fillTestDataSetMetaData == Sub!fillTestDataSetMetaData
subscribe_addDataSetReader == subscribe_fillTestDataSetMetaData \o Sub!Reader
subscribe_addSubscribedVariables == Sub!addSubscribedVariables
subscribe_run == Sub!SecuredRun(subscribe_addPubSubConnection, subscribe_addReaderGroup,
    subscribe_addDataSetReader, subscribe_addSubscribedVariables)

subscribe_main ==
    ReadArguments \o <<Put("unset", 1)>> \o KeyFile("encrypt_in_data") \o KeyFile("sign_in_data")
    \o Unseal(EncryptOut, subscribe_decrypt(EncryptOut))
    \o Unseal(SignOut, subscribe_decrypt(SignOut))
    \o <<Deref({"sign_out_data", "sign_out_data.data"}),
                 Deref({"encrypt_out_data", "encrypt_out_data.data"}),
                 Free({"encrypt_in_data"}), Free({"sign_in_data"})>>
    \o Forget(SignOut) \o Forget(EncryptOut) \o subscribe_run

Settings == {"unset", "strayEncrypted", "strayClear", "strayDigest", "rv", "digest", "same",
             "intact", "searching", "failed", "found", "handle", "more", "part", "length", "added"}

KeyStorePrograms ==
    [keyServer |-> Program(server_main, Settings), keyClient |-> Program(client_main, Settings),
     keyPublisher |-> Program(publish_main, Settings),
     keySubscriber |-> Program(subscribe_main, Settings)]

Outs == {EncryptOut, SignOut, CertificateOut}

KeyStores == {"keyServer", "keyClient", "keyPublisher", "keySubscriber"}

ASSUME KeyTableAssumption ==
    \A p \in KeyStores \cap DOMAIN Programs : Programs[p] = KeyStorePrograms[p]

\* A slip: one block more.
MoreByOne(part, length) == IF part * 16 <= (length - 16) % 2^8 THEN 1 ELSE 0

\* part_number * 16 < clear_data_length - 16, unsigned.
More(part, length) == IF part * 16 < (length - 16) % 2^8 THEN 1 ELSE 0

Compare(d) == {r \in {[d EXCEPT !.intact = i, !.same = s] : i, s \in {0, 1}} :
                 d.digest = 1 => r.same = r.intact}
NextObject(d) == {[d EXCEPT !.searching = 0]}
                 \cup IF d.failed = 1 THEN {} ELSE {[d EXCEPT !.handle = 2],
                        [d EXCEPT !.handle = 1, !.found = 1, !.searching = 0]}
Blocks(d) == {[d EXCEPT !.length = n, !.part = 0, !.more = More(0, n)] : n \in Lengths}

KeyStoreEffect(name, d) ==
    CASE name = "compare" -> Compare(d)
      [] name = "object" -> NextObject(d)
      [] name = "any" -> {[d EXCEPT !.handle = h, !.found = 1, !.searching = 0] : h \in {1, 2}}
      [] name = "blocks" -> Blocks(d)
      [] name = "next" -> {[d EXCEPT !.part = @ + 1, !.more = More(d.part + 1, d.length)]}

-----------------------------------------------------------------------------

\* "if they match continue to decrypt the input" (decrypt): the token is asked only
\* about a file that is as it was sealed, unless its digest could not be computed.
TokenSeesIntact ==
    (prog \in KeyStores /\ Faces("main", LAMBDA s : s.op = "call" /\ "library" \in s.makes))
        => (data.intact = 1 \/ data.digest = 0)

\* What is decrypted with is the object whose label was asked for, not the last one
\* that was looked at (find_object_by_label, decrypt_data).
AskedForKey == (prog \in KeyStores /\ "decryption" \in live) => (data.handle = 1 /\ data.found = 1)

\* Every block is written inside the buffer (decrypt_data's loop and C_DecryptFinal).
InsideBuffer ==
    (prog \in KeyStores
     /\ Faces("main", LAMBDA s : s.op = "call" /\ \E out \in Outs : out.data_clear \in s.touches))
        => data.part * 16 + 16 <= data.length

\* The token decrypts only what is intact, with the key that was asked for, into memory
\* that is large enough (decrypt and decrypt_data of the key stores).
TokenRespected == TokenSeesIntact /\ AskedForKey /\ InsideBuffer

\* Only two things bring a program down: a digest that could not be computed, and, in the
\* two whose pointers are not initialised, a token without the key or a failed call.
CrashesExplained ==
    (prog \in KeyStores /\ exit = "crashed") =>
        \/ data.digest = 0
        \/ (data.unset = 1 /\ (data.found = 0 \/ failures > 0))
=============================================================================
