--------------------------- MODULE DaemonSecrets ---------------------------
(***************************************************************************)
(* Encryption at rest (crates/daemon/src/security.rs): the master key in   *)
(* the keychain, made at first use and cached by each daemon process, and  *)
(* the frames a write-ahead log (store/wal.rs) keeps under it in a file    *)
(* only its owner may read.                                                *)
(*                                                                         *)
(* A key is a number.  The keychain is external: reading and writing it    *)
(* may fail at any time.  Two daemons run together while one takes over    *)
(* from the other (DaemonStartup).  The key that tests set with            *)
(* SCRIPTUM_DAEMON_MASTER_KEY_BASE64 is left out, and so is a change of    *)
(* the file's mode between ensure_owner_only_file and the write.           *)
(***************************************************************************)
EXTENDS Integers, Sequences, FiniteSets

CONSTANTS
    KeyDaemons, KeyMaxFrames,
    KeyMaxStarts, KeyMaxFailures, KeyMaxLoosened

VARIABLES
    keychain,    \* the stored master key, or NoKey
    daemon,      \* the processes
    walFrames,   \* the frames on disk: [key, mode]; NoKey is plaintext
    walMode,     \* permissions of the file: "absent", "owner" or "others"
    keysMade,
    forked,      \* two processes made a key at the same time
    keyCount     \* [starts, failures, loosened]

keyVars == <<keychain, daemon, walFrames, walMode, keysMade, forked, keyCount>>

NoKey == 0
KeyError == -1   \* the cached error

Stopped == [up |-> FALSE, cache |-> NoKey, pc |-> "idle", key |-> NoKey]

KeyInit ==
    /\ keychain = NoKey
    /\ daemon = [d \in KeyDaemons |-> Stopped]
    /\ \E legacy \in BOOLEAN :    \* a log written before encryption came
          /\ walFrames = IF legacy THEN <<[key |-> NoKey, mode |-> "others"]>> ELSE <<>>
          /\ walMode = IF legacy THEN "others" ELSE "absent"
    /\ keysMade = 0
    /\ forked = FALSE
    /\ keyCount = [starts |-> 0, failures |-> 0, loosened |-> 0]

KeyFails ==
    /\ keyCount.failures < KeyMaxFailures
    /\ keyCount' = [keyCount EXCEPT !.failures = @ + 1]

daemon_starts(d) ==
    /\ ~daemon[d].up /\ keyCount.starts < KeyMaxStarts
    /\ keyCount' = [keyCount EXCEPT !.starts = @ + 1]
    /\ daemon' = [daemon EXCEPT ![d] = [Stopped EXCEPT !.up = TRUE]]
    /\ UNCHANGED <<keychain, walFrames, walMode, keysMade, forked>>

daemon_stops(d) ==
    /\ daemon[d].up
    /\ daemon' = [daemon EXCEPT ![d] = Stopped]
    /\ UNCHANGED <<keychain, walFrames, walMode, keysMade, forked, keyCount>>

-----------------------------------------------------------------------------
(* master_key: one thread initialises the cache while the others wait; an  *)
(* error is cached like a key.                                             *)

\* The keychain is read; without an entry a key is made up.
load_or_create_master_key(d) ==
    /\ daemon[d].up /\ daemon[d].pc = "idle" /\ daemon[d].cache = NoKey
    /\ \/ /\ keychain # NoKey
          /\ daemon' = [daemon EXCEPT ![d].cache = keychain]
          /\ UNCHANGED <<keysMade, forked, keyCount>>
       \/ /\ keychain = NoKey
          /\ keysMade' = keysMade + 1
          /\ daemon' = [daemon EXCEPT ![d].pc = "store", ![d].key = keysMade + 1]
          /\ forked' = (forked \/ \E e \in KeyDaemons \ {d} : daemon[e].pc = "store")
          /\ UNCHANGED keyCount
       \/ /\ KeyFails
          /\ daemon' = [daemon EXCEPT ![d].cache = KeyError]
          /\ UNCHANGED <<keysMade, forked>>
    /\ UNCHANGED <<keychain, walFrames, walMode>>

\* Mutant: the key is used whether or not the keychain has it.
StoreMasterKeyIgnoresError(d, stored) ==
    /\ keychain' = IF stored THEN daemon[d].key ELSE keychain
    /\ daemon' = [daemon EXCEPT ![d].pc = "idle", ![d].key = NoKey, ![d].cache = daemon[d].key]

\* The key is used only once the keychain has it.
store_master_key(d, stored) ==
    /\ keychain' = IF stored THEN daemon[d].key ELSE keychain
    /\ daemon' = [daemon EXCEPT ![d].pc = "idle", ![d].key = NoKey,
                                ![d].cache = IF stored THEN daemon[d].key ELSE KeyError]

persist_master_key(d) ==
    /\ daemon[d].up /\ daemon[d].pc = "store"
    /\ \/ store_master_key(d, TRUE) /\ UNCHANGED keyCount
       \/ store_master_key(d, FALSE) /\ KeyFails
    /\ UNCHANGED <<walFrames, walMode, keysMade, forked>>

-----------------------------------------------------------------------------
(* The file *)

\* encrypt_at_rest; without a key the append fails.  open_private_append
\* creates the file for its owner and leaves the mode of one that is there.
encrypt_at_rest(d) ==
    /\ daemon[d].up /\ daemon[d].pc = "idle" /\ daemon[d].cache > NoKey
    /\ Len(walFrames) < KeyMaxFrames
    /\ daemon' = [daemon EXCEPT ![d].pc = "secure", ![d].key = daemon[d].cache]
    /\ walMode' = IF walMode = "absent" THEN "owner" ELSE walMode
    /\ UNCHANGED <<keychain, walFrames, keysMade, forked, keyCount>>

ensure_owner_only_file(d) ==
    /\ daemon[d].up /\ daemon[d].pc = "secure"
    /\ walMode' = "owner"
    /\ daemon' = [daemon EXCEPT ![d].pc = "write"]
    /\ UNCHANGED <<keychain, walFrames, keysMade, forked, keyCount>>

write_frame(d) ==
    /\ daemon[d].up /\ daemon[d].pc = "write"
    /\ walFrames' = Append(walFrames, [key |-> daemon[d].key, mode |-> walMode])
    /\ daemon' = [daemon EXCEPT ![d].pc = "idle", ![d].key = NoKey]
    /\ UNCHANGED <<keychain, walMode, keysMade, forked, keyCount>>

\* Somebody changes the mode of the file.
loosen_mode ==
    /\ walMode = "owner" /\ keyCount.loosened < KeyMaxLoosened
    /\ \A d \in KeyDaemons : daemon[d].pc # "write"
    /\ walMode' = "others"
    /\ keyCount' = [keyCount EXCEPT !.loosened = @ + 1]
    /\ UNCHANGED <<keychain, daemon, walFrames, keysMade, forked>>

KeyNext ==
    \/ \E d \in KeyDaemons :
          \/ daemon_starts(d) \/ daemon_stops(d)
          \/ load_or_create_master_key(d) \/ persist_master_key(d)
          \/ encrypt_at_rest(d) \/ ensure_owner_only_file(d) \/ write_frame(d)
    \/ loosen_mode

KeySpec == KeyInit /\ [][KeyNext]_keyVars

-----------------------------------------------------------------------------
(* Properties *)

\* A payload without the envelope is from before encryption.
decrypt_at_rest(d, frame) == frame.key = NoKey \/ frame.key = daemon[d].cache

\* load_or_create_master_key, encrypt_at_rest and WalStore::append_update:
\* unless two daemons made the first key at the same time, a daemon that has a
\* key reads every frame any daemon ever wrote, through failures of the
\* keychain, restarts and a stop between making the key and storing it; and no
\* encrypted frame is written while others may read the file.
KeysReadable ==
    /\ ~forked => \A d \in KeyDaemons :
          daemon[d].up /\ daemon[d].cache > NoKey =>
             \A i \in DOMAIN walFrames : decrypt_at_rest(d, walFrames[i])
    /\ \A i \in DOMAIN walFrames : walFrames[i].key # NoKey => walFrames[i].mode = "owner"
=============================================================================
