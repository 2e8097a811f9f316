-------------------------------- MODULE Store --------------------------------
(* What saving to one path promises (RecordReplayRunner::save): a reader finds *)
(* a complete file or none, one save replaces it as a whole, and what a save   *)
(* confirmed does not go away, not even when the power does.                   *)
EXTENDS Naturals, Sequences

CONSTANT Torn  \* a file of which a part is missing

VARIABLES versions, \* the files a loss of power may leave; a reader finds the last
          kept      \* the file the last save to return Ok has written

storeVars == <<versions, kept>>

StoreInit == versions = <<kept>> /\ kept # Torn

Install == /\ \E f \in {versions'[i] : i \in DOMAIN versions'} \ {Torn} :
                versions' = Append(versions, f)
           /\ UNCHANGED kept

\* Of several, the disk comes to hold one: the last once it has caught up, any of
\* them when the power is lost.
Settle == /\ \E i \in DOMAIN versions : versions' = <<versions[i]>>
          /\ UNCHANGED kept

\* Only what no loss of power can undo is confirmed.
Confirm == /\ \A i \in DOMAIN versions : versions[i] = kept'
           /\ UNCHANGED versions

StoreNext == Install \/ Settle \/ Confirm

StoreSpec == StoreInit /\ [][StoreNext]_storeVars
==============================================================================
