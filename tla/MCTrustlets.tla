---------------------------- MODULE MCTrustlets ----------------------------
(***************************************************************************)
(* The trustlets and their files, for one run: the RSA trustlet over the   *)
(* encrypted file system, the sample trustlet, and any trustlet's files    *)
(* while the daemon is restarted.  No two of them are looked at together;  *)
(* part says which one moves.                                              *)
(***************************************************************************)
EXTENDS TrustletParts, TLC

VARIABLE part

\* Two keys of different length, whose lines do not fit the blocks.
TwoLengths == 1 :> 2 @@ 2 :> 3

\* A name that is removed and created again, two descriptors, and a daemon
\* that forgets what it had open.
Restarted == INSTANCE CryptoFs WITH
               Inodes <- {1, 2}, UserFds <- {100, 101}, CFS_BLK_SIZE <- 1, Versions <- {1},
               Lengths <- {1}, Counts <- {2}, Offsets <- {1}, MAX_POS <- 2

-----------------------------------------------------------------------------
TInit ==
  /\ part \in {"rsa", "sample", "restarts"}
  /\ RsaInit /\ Sample!Init
  /\ IF part = "restarts" THEN Restarted!Init ELSE Init

TNext ==
  \/ part = "rsa" /\ RNext /\ UNCHANGED <<part, sample_vars>>
  \/ part = "sample" /\ Sample!Next /\ UNCHANGED <<part, vars, rvars>>
  \/ part = "restarts" /\ Restarted!RestartNext /\ UNCHANGED <<part, rvars, sample_vars>>

TSpec == TInit /\ [][TNext]_<<part, vars, rvars, sample_vars>>
=============================================================================
