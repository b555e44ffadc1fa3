--------------------------- MODULE SampleTrustlet ---------------------------
(***************************************************************************)
(* The AES sample trustlet, which keeps keys sealed under a PIN, and the    *)
(* encrypter, the command line program that uses it.  A key file is one     *)
(* block of the encrypted file system, which is written whole or not at     *)
(* all (module CryptoFs).                                                   *)
(***************************************************************************)
EXTENDS Integers

CONSTANTS
  NULL,
  KeyIds,    \* numbers of keys, each with a file key_<number>
  Pins,      \* what may be typed at the terminal, as numbers
  Messages,  \* texts, as numbers from 1 on
  Padded,    \* the texts whose length is a multiple of the AES block
  IVs,       \* values platform_pseudo_entropy may give an IV, from 1 on
  MAX_KEYS,  \* keys made in a behaviour
  TRIES      \* the bound on tries, 3 in the code

VARIABLES
  file,    \* the keystore_t in each key file, NULL where none can be read
  masters, \* master keys generated so far
  ta,      \* the command the trustlet works on, NULL when none
  pack,    \* the encrypter's crypt_pack_t, NULL before the first message
  shown,   \* what the encrypter printed last, and for which key
  created, \* history: per number, the master key whose creation was reported
  sealed,  \* history: the PIN under which each master key was sealed
  typed    \* history: the PINs typed since the trustlet began its command

vars == <<file, masters, ta, pack, shown, created, sealed, typed>>

-----------------------------------------------------------------------------
(* AES in CBC mode.  A ciphertext is described by what it was made of; any  *)
(* other key or IV turns it into Junk.  The call leaves the last block of   *)
(* the ciphertext where the IV was.                                         *)

Junk == 0
LastBlock == -1

aes_encrypt(key, iv, text) == [key |-> key, iv |-> iv, text |-> text]

aes_decrypt(c, key, iv) == IF c.key = key /\ c.iv = iv THEN c.text ELSE Junk

Nothing == [ok |-> FALSE, key |-> 0, text |-> Junk]

-----------------------------------------------------------------------------
\* The store of a key file as read_key has it, and the commands the trustlet works
\* on.
Stores == [iv : IVs \cup {LastBlock}, crypted_key : [key : Pins, iv : IVs, text : 1..MAX_KEYS],
           hash : 1..MAX_KEYS]
Commands == [op : {"encrypt", "decrypt"}, k : KeyIds, text : Messages \cup {Junk},
             store : Stores, tries : 0..TRIES]

\* What the constants are.
SampleAssumption ==
  /\ Messages \subseteq Nat \ {0} /\ Padded \subseteq Messages /\ IVs \subseteq Nat \ {0}
  /\ Pins \subseteq Nat /\ MAX_KEYS \in Nat /\ TRIES \in Nat
  /\ NULL \notin Commands

-----------------------------------------------------------------------------
(* The trustlet. *)

\* sample_new_key: master key and IV are random, the PIN is typed.  What
\* write returns is not looked at: the block may not have reached the file,
\* or only part of it.
sample_new_key(k, pin, iv) ==
  /\ masters < MAX_KEYS
  /\ masters' = masters + 1
  /\ sealed' = [sealed EXCEPT ![masters'] = pin]
  /\ \/ file' = [file EXCEPT ![k] =
                   [iv |-> iv, crypted_key |-> aes_encrypt(pin, iv, masters'), hash |-> masters']]
     \/ UNCHANGED file
     \/ file' = [file EXCEPT ![k] = NULL]
  /\ created' = [created EXCEPT ![k] = masters']

\* sample_encrypt and sample_decrypt, up to read_key: the sizes, and the
\* store in the key file.
begin(op, k, size_ok, text) ==
  /\ size_ok /\ file[k] # NULL
  /\ ta' = [op |-> op, k |-> k, text |-> text, store |-> file[k], tries |-> 0]
  /\ typed' = {}

\* A version that goes on with what it has after the last try.
outcome_lenient(pin) ==
  LET masterkey == aes_decrypt(ta.store.crypted_key, pin, ta.store.iv)
  IN  [masterkey |-> IF masterkey = ta.store.hash \/ ta.tries = TRIES THEN ta.store.hash ELSE Junk,
       over |-> masterkey = ta.store.hash \/ ta.tries + 1 > TRIES]

\* One round of the loop of read_key: the master key if its hash is right,
\* and whether the loop ends.
outcome(pin) ==
  LET masterkey == aes_decrypt(ta.store.crypted_key, pin, ta.store.iv)
  IN  [masterkey |-> IF masterkey = ta.store.hash THEN masterkey ELSE Junk,
       over |-> masterkey = ta.store.hash \/ ta.tries + 1 > TRIES]

\* The IV is in the pack before malloc may refuse the memory to encrypt in.
sample_encrypt(masterkey, iv) ==
  \/ /\ pack' = [iv |-> iv, data |-> aes_encrypt(masterkey, iv, ta.text)]
     /\ shown' = [ok |-> TRUE, key |-> masterkey, text |-> ta.text]
  \/ /\ pack' = [pack EXCEPT !.iv = iv]
     /\ shown' = Nothing

sample_decrypt(masterkey) == aes_decrypt(pack.data, masterkey, pack.iv)

\* A PIN is typed.  The round decrypts with store.crypted_iv itself, so the
\* next one has another IV.
read_key(pin) ==
  LET o == outcome(pin)
  IN  /\ ta # NULL
      /\ typed' = typed \cup {pin}
      /\ ta' = IF o.over THEN NULL
               ELSE [ta EXCEPT !.tries = @ + 1, !.store.iv = LastBlock]
      /\ IF o.masterkey = Junk
         THEN pack' = pack /\ shown' = IF o.over THEN Nothing ELSE shown
         ELSE IF ta.op = "encrypt"
         THEN \E iv \in IVs : sample_encrypt(o.masterkey, iv)
         ELSE /\ pack' = pack
              /\ shown' = [ok |-> TRUE, key |-> o.masterkey, text |-> sample_decrypt(o.masterkey)]
      /\ UNCHANGED <<file, masters, created, sealed>>

-----------------------------------------------------------------------------
(* The encrypter. *)

initialize_key(k) ==
  /\ ta = NULL
  /\ \E pin \in Pins, iv \in IVs : sample_new_key(k, pin, iv)
  /\ UNCHANGED <<ta, pack, shown, typed>>

\* enc: the pack of the message before is replaced by one not yet filled.
encrypt(k, msg) ==
  /\ ta = NULL
  /\ pack' = [iv |-> Junk, data |-> aes_encrypt(Junk, Junk, IF msg \in Padded THEN Junk ELSE LastBlock)]
  /\ \/ begin("encrypt", k, msg \in Padded, msg) /\ shown' = shown
     \/ /\ msg \notin Padded \/ file[k] = NULL
        /\ shown' = Nothing
        /\ UNCHANGED <<ta, typed>>
  /\ UNCHANGED <<file, masters, created, sealed>>

\* dec: the size in the pack is that of its message.
decrypt(k) ==
  /\ ta = NULL /\ pack # NULL
  /\ \/ begin("decrypt", k, pack.data.text # LastBlock, Junk) /\ shown' = shown
     \/ /\ pack.data.text = LastBlock \/ file[k] = NULL
        /\ shown' = Nothing
        /\ UNCHANGED <<ta, typed>>
  /\ UNCHANGED <<file, masters, pack, created, sealed>>

-----------------------------------------------------------------------------

Init ==
  /\ file = [k \in KeyIds |-> NULL]
  /\ masters = 0
  /\ ta = NULL /\ pack = NULL /\ shown = Nothing
  /\ created = [k \in KeyIds |-> 0]
  /\ sealed = [i \in 1..MAX_KEYS |-> -1]
  /\ typed = {}

Next ==
  \/ \E k \in KeyIds : initialize_key(k) \/ decrypt(k) \/ \E msg \in Messages : encrypt(k, msg)
  \/ \E pin \in Pins : read_key(pin)

Spec == Init /\ [][Next]_vars

-----------------------------------------------------------------------------

\* A message that the encrypter shows as decrypted by the key that encrypted
\* it is the message: the pack carries the IV that sample_encrypt used.
DecryptsToMessage ==
  [][\A pin \in Pins :
       read_key(pin) /\ ta.op = "decrypt" /\ shown'.ok /\ pack.data.key = shown'.key
         => shown'.text = pack.data.text /\ shown'.text \in Messages]_vars

\* Neither encryption nor decryption with a key happens unless the PIN it was
\* sealed with was typed during the command, whatever happened to its file.
NoKeyWithoutPin ==
  [][\A pin \in Pins : read_key(pin) /\ ta'= NULL /\ shown'.ok
       => sealed[shown'.key] \in typed']_vars

\* The loop of read_key lets the PIN be typed again, and each time decides
\* with "check if key is correct" (sample_trustlet/main.c:209): the right PIN
\* is accepted whenever it is typed.
RightPinAccepted ==
  [][\A pin \in Pins :
       read_key(pin) /\ ta.store.crypted_key.key = pin => shown'.ok /\ ta' = NULL]_vars

\* A key that was reported as created is the one in the file ("store
\* generated key to file", sample_trustlet/main.c:151).
NewKeyStored ==
  \A k \in KeyIds : created[k] # 0 => file[k] # NULL /\ file[k].hash = created[k]
=============================================================================
