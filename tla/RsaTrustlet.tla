---------------------------- MODULE RsaTrustlet ----------------------------
(***************************************************************************)
(* The RSA trustlet, which keeps key pairs in files of the encrypted file   *)
(* system, and its client, the OpenSSL engine.  A key file is a row of      *)
(* lines, one per number of the key, each written by a call of its own.     *)
(* The trustlet serves one command at a time; the file operations of a      *)
(* command are those of CryptoFs.                                           *)
(***************************************************************************)
EXTENDS CryptoFs

CONSTANTS
  Sessions,   \* sessions with the trustlet, one per RSA object of the engine
  Keys,       \* key pairs rsa_gen_key may come up with, numbers from 1 on
  PARTS,      \* numbers of a key, 8 in the code
  CHECKED,    \* those that rsa_check_privkey looks at, the first 5 in the code
  LineLength, \* per key, the bytes of each of its lines
  AnyClient   \* TRUE: a client may use its session after a command failed

ASSUME RsaAssumption ==
  /\ Keys \subseteq Nat \ {0} /\ PARTS \in Nat /\ CHECKED \in 1..PARTS /\ AnyClient \in BOOLEAN
  /\ LineLength \in [Keys -> Nat \ {0}]

VARIABLES
  rsa,      \* the context of a session: the numbers loaded, and len
  ta,       \* the command in progress, NULL when the trustlet waits for one
  object,   \* what the engine knows of a session
  stored    \* history: the key whose creation in a file was last reported,
            \* if no request of that creation failed unseen

rvars == <<rsa, ta, object, stored>>

-----------------------------------------------------------------------------
(* Lines.  Byte q of the file of key k is the end of a line if it is a     *)
(* multiple of the line's length; a zero ends a line wherever it is.        *)

EndsLine(b) == b = Zero \/ (b.pos + 1) % LineLength[b.version] = 0

\* The ends of the lines in a buffer, in order.
LineEnds(buf) == SetToSortSeq({j \in DOMAIN buf : EndsLine(buf[j])}, <)

\* The key of which the bytes of buf from..to are line i, or 0.
LineOf(buf, i, from, to) ==
  LET k == buf[from].version
  IN  IF /\ k \in Keys /\ to - from + 1 = LineLength[k]
         /\ \A j \in from..to : buf[j].version = k /\ buf[j].pos = (i - 1) * LineLength[k] + j - from
      THEN k ELSE 0

Empty == [parts |-> [i \in 1..PARTS |-> 0], len |-> FALSE]
Whole(k) == [parts |-> [i \in 1..PARTS |-> k], len |-> TRUE]

\* N = PQ, DE = 1 modulo (P-1)(Q-1) and gcd(E, (P-1)(Q-1)) = 1 hold of N, E, D,
\* P and Q of one key; DP, DQ and QP are not looked at.
rsa_check_privkey(c) == \E k \in Keys : \A i \in 1..CHECKED : c.parts[i] = k

\* read_mpi_buf for each number in turn, into the context of the session; a
\* buffer with too few lines ends it half way.
read_mpis(c, buf) ==
  LET ends == LineEnds(buf)
  IN  [parts |-> [i \in 1..PARTS |->
                    IF i <= Len(ends)
                    THEN LineOf(buf, i, IF i = 1 THEN 1 ELSE ends[i - 1] + 1, ends[i])
                    ELSE c.parts[i]],
       len |-> c.len \/ Len(ends) >= PARTS]

-----------------------------------------------------------------------------
(* Commands. *)

Command(cmd, s, f, k) ==
  [cmd |-> cmd, s |-> s, file |-> f, key |-> k, at |-> "open",
   fd |-> NULL, line |-> 1, fault |-> FALSE, ok |-> FALSE]

Ready(at) == ta # NULL /\ ta.at = at /\ call = NULL

\* The command has its answer; the client's side decides what follows.
Finish(ok) == ta' = [ta EXCEPT !.at = "done", !.ok = ok, !.fault = @ \/ reply'.fault]

\* createKeyPair: the new key is in the context before it is in the file.
TA_createKeyPair(s, f, k) ==
  /\ ta = NULL
  /\ ta' = Command("new", s, f, k)
  /\ rsa' = [rsa EXCEPT ![s] = Whole(k)]
  /\ stored' = [stored EXCEPT ![f] = NULL]
  /\ UNCHANGED <<object, vars>>

TA_readKeyPair(s, f) ==
  /\ ta = NULL
  /\ ta' = Command("load", s, f, 0)
  /\ UNCHANGED <<rsa, object, stored, vars>>

\* open, of writeKey and of readKey.
key_open ==
  /\ Ready("open")
  /\ swi_open(ta.file) \/ swi_open_refused
  /\ IF reply'.ret = -1 THEN Finish(FALSE)
     ELSE ta' = [ta EXCEPT !.at = IF ta.cmd = "new" THEN "write" ELSE "fstat", !.fd = reply'.ret]
  /\ UNCHANGED <<rsa, object, stored>>

\* write_mpi_fd, one line at a time.
write_mpi_fd ==
  /\ Ready("write")
  /\ swi_write(ta.fd, LineLength[ta.key], ta.key)
  /\ ta' = [ta EXCEPT !.at = "written"]
  /\ UNCHANGED <<rsa, object, stored>>

\* A version that does not look at what write returned.
writeKey_unchecked ==
  /\ Ready("written")
  /\ ta' = IF ta.line = PARTS THEN [ta EXCEPT !.at = "close", !.ok = TRUE]
           ELSE [ta EXCEPT !.at = "write", !.line = @ + 1]
  /\ UNCHANGED <<rsa, object, stored, vars>>

writeKey ==
  /\ Ready("written")
  /\ LET told == [ta EXCEPT !.fault = @ \/ reply.fault]
     IN  ta' = IF reply.ret < 0 THEN [told EXCEPT !.at = "close"]
               ELSE IF ta.line = PARTS THEN [told EXCEPT !.at = "close", !.ok = TRUE]
               ELSE [told EXCEPT !.at = "write", !.line = @ + 1]
  /\ UNCHANGED <<rsa, object, stored, vars>>

\* readKey: the size, then as many bytes, then the lines among them.
readKey_fstat ==
  /\ Ready("fstat")
  /\ swi_fstat(ta.fd)
  /\ ta' = [ta EXCEPT !.at = IF reply'.ret > 0 THEN "read" ELSE "close", !.fault = reply'.fault]
  /\ UNCHANGED <<rsa, object, stored>>

readKey_read ==
  /\ Ready("read")
  /\ swi_read(ta.fd, reply.ret)
  /\ ta' = [ta EXCEPT !.at = "parse"]
  /\ UNCHANGED <<rsa, object, stored>>

readKey ==
  /\ Ready("parse")
  /\ IF reply.ret # reply.asked
     THEN /\ ta' = [ta EXCEPT !.at = "close", !.fault = reply.fault]
          /\ UNCHANGED rsa
     ELSE /\ rsa' = [rsa EXCEPT ![ta.s] = read_mpis(@, reply.data)]
          /\ ta' = [ta EXCEPT !.at = "close",
                              !.ok = Len(LineEnds(reply.data)) >= PARTS /\ rsa_check_privkey(rsa'[ta.s])]
  /\ UNCHANGED <<object, stored, vars>>

key_close ==
  /\ Ready("close")
  /\ swi_close(ta.fd)
  /\ Finish(ta.ok)
  /\ stored' = IF ta.cmd = "new" /\ ta.ok /\ ~ta.fault THEN [stored EXCEPT ![ta.file] = ta.key]
               ELSE stored
  /\ UNCHANGED <<rsa, object>>

\* The file system's side of a call.
file_step ==
  /\ call # NULL
  /\ fs_write \/ fs_read
  /\ UNCHANGED rvars

-----------------------------------------------------------------------------
(* The engine.  An RSA object is the key whose public part it was given;    *)
(* before that there is none, or a session just opened, or one that a load  *)
(* that failed has left open.                                               *)

None == 0
Opened == -1
Left == -2

TA_OpenSessionEntryPoint(s) ==
  /\ rsa[s] = NULL /\ ta = NULL
  /\ rsa' = [rsa EXCEPT ![s] = Empty]

tz_openSession(s) ==
  /\ object[s] = None
  /\ TA_OpenSessionEntryPoint(s)
  /\ object' = [object EXCEPT ![s] = Opened]
  /\ UNCHANGED <<ta, stored, vars>>

TA_CloseSessionEntryPoint(s) == rsa' = [rsa EXCEPT ![s] = NULL]

\* tz_rsa_ex_free, for an object that is no longer needed.
tz_closeSession(s) ==
  /\ object[s] \in Keys /\ ta = NULL
  /\ TA_CloseSessionEntryPoint(s)
  /\ object' = [object EXCEPT ![s] = None]
  /\ UNCHANGED <<ta, stored, vars>>

\* tz_rsa_new_key ends with its session, whatever came of it.
tz_rsa_new_key_done ==
  /\ Ready("done") /\ ta.cmd = "new"
  /\ TA_CloseSessionEntryPoint(ta.s)
  /\ object' = [object EXCEPT ![ta.s] = None]
  /\ ta' = NULL
  /\ UNCHANGED <<stored, vars>>

\* A version that builds the object before it looks at the answer.
tz_loadKey_done_unchecked ==
  /\ Ready("done") /\ ta.cmd = "load"
  /\ object' = [object EXCEPT ![ta.s] = rsa[ta.s].parts[1]]
  /\ ta' = NULL
  /\ UNCHANGED <<rsa, stored, vars>>

\* tz_loadKey: with the key loaded, TZ_RSA_GET_PUBLIC_KEY gives N and E.  If
\* the load failed the function returns and its session stays.
tz_loadKey_done ==
  /\ Ready("done") /\ ta.cmd = "load"
  /\ object' = [object EXCEPT ![ta.s] = IF ta.ok THEN rsa[ta.s].parts[1] ELSE Left]
  /\ ta' = NULL
  /\ UNCHANGED <<rsa, stored, vars>>

\* The sessions in which TA_applyRSAKey would be called: those of objects,
\* and, by a client of another kind, those where a command failed.
MayApply(s) == object[s] \in Keys \/ (AnyClient /\ object[s] = Left)

\* TA_applyRSAKey refuses a context with len 0.
Applied(s) == rsa[s].len

\* Power is lost in both worlds.
restart ==
  /\ power_off
  /\ rsa' = [s \in Sessions |-> NULL]
  /\ ta' = NULL
  /\ object' = [s \in Sessions |-> None]
  /\ UNCHANGED stored

RsaInit ==
  /\ rsa = [s \in Sessions |-> NULL]
  /\ ta = NULL
  /\ object = [s \in Sessions |-> None]
  /\ stored = [f \in Files |-> NULL]

RInit == Init /\ RsaInit

RNext ==
  \/ \E s \in Sessions :
       \/ tz_openSession(s) \/ tz_closeSession(s)
       \/ object[s] = Opened /\ \E f \in Files :
            TA_readKeyPair(s, f) \/ \E k \in Keys : TA_createKeyPair(s, f, k)
  \/ key_open \/ write_mpi_fd \/ writeKey
  \/ readKey_fstat \/ readKey_read \/ readKey \/ key_close \/ file_step
  \/ tz_rsa_new_key_done \/ tz_loadKey_done \/ restart

RSpec == RInit /\ [][RNext]_<<vars, rvars>>

-----------------------------------------------------------------------------

\* The file ends where the key's last line ends: nothing longer was in it when
\* the key was written.  writeKey does not truncate the file.
EndsWith(f, k) == FileSize(dir[f]) = PARTS * LineLength[k]

\* A key whose creation was reported as successful can be loaded, if the file
\* held nothing longer before and no read error was hidden from its creation:
\* a load none of whose requests fails brings that key, all of its numbers
\* ("Create a new key with the given name and length", eng_main.c).  Lines
\* begin and end within blocks and cross them, over what earlier keys left.
CreatedKeyLoads ==
  (/\ ta # NULL /\ ta.at = "done" /\ ta.cmd = "load" /\ ~ta.fault
   /\ stored[ta.file] # NULL /\ EndsWith(ta.file, stored[ta.file]))
    => ta.ok /\ rsa[ta.s] = Whole(stored[ta.file])

\* The numbers of an RSA object that rsa_check_privkey looks at are those of
\* the key whose public part the engine handed out with the object, whatever
\* became of the file before it was loaded.  The numbers it does not look at
\* may be another key's, where a later creation was cut short after them.
ObjectKeyMatches ==
  \A s \in Sessions : object[s] \in Keys =>
    Applied(s) /\ \A i \in 1..CHECKED : rsa[s].parts[i] = object[s]

\* TA_applyRSAKey tells by len whether a key is loaded ("no key loaded"): it
\* never computes with numbers that are not a key.
UsedKeyWhole ==
  \A s \in Sessions : MayApply(s) /\ Applied(s) => rsa_check_privkey(rsa[s])
=============================================================================
