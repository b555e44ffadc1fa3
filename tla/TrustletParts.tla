--------------------------- MODULE TrustletParts ---------------------------
(***************************************************************************)
(* The trustlets of the image side by side: the RSA trustlet over the       *)
(* encrypted file system, and the sample trustlet.  They share no state.    *)
(***************************************************************************)
EXTENDS RsaTrustlet

CONSTANTS KeyIds, Pins, Messages, Padded, IVs, MAX_KEYS, TRIES   \* SampleTrustlet

VARIABLES file, masters, cmd, pack, shown, created, sealed, typed   \* SampleTrustlet

sample_vars == <<file, masters, cmd, pack, shown, created, sealed, typed>>

Sample == INSTANCE SampleTrustlet WITH ta <- cmd

ASSUME TrustletsAssumption == Sample!SampleAssumption

-----------------------------------------------------------------------------
\* What the key that encrypted a message decrypts is the message, and no key
\* works in a command in which its PIN was not typed, whatever happened to its
\* file (sample_trustlet/main.c:206).
KeysUnderPin == Sample!DecryptsToMessage /\ Sample!NoKeyWithoutPin
=============================================================================
