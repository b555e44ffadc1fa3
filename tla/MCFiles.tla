------------------------------ MODULE MCFiles ------------------------------
(***************************************************************************)
(* The encrypted file system, for one run: what happens to the bytes of one *)
(* file under one handle, and what happens to the handles of two files with *)
(* hardly any bytes in them; part says which of the two is looked at.       *)
(***************************************************************************)
EXTENDS CryptoFs

VARIABLE part

\* One name, one file object and one handle.
OneFile ==
  /\ dir'["b"] = NULL
  /\ \A i \in Inodes \ {1} : disk'[i].hdr = NULL
  /\ \A u \in UserFds \ {Lowest(UserFds)} : files'[u] = NULL

\* Files of one byte.
OneByte ==
  /\ \A u \in UserFds : files'[u] # NULL => files'[u].filepos <= 1
  /\ call' # NULL => IF call'.op = "read" THEN call'.count = 1
                     ELSE \E k \in Inodes : call'.buf = <<Byte(k, 0, 1)>>

FInit == part \in {"bytes", "handles"} /\ Init

FNext ==
  /\ Next
  /\ part = "bytes" => OneFile
  /\ part = "handles" => OneByte
  /\ UNCHANGED part

FSpec == FInit /\ [][FNext]_<<vars, part>>
=============================================================================
