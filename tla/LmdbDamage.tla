----------------------------- MODULE LmdbDamage -----------------------------
(***************************************************************************)
(* LmdbStore when entries of its tables are lost, the case verify() and    *)
(* repair() exist for.  Nothing in the store loses an entry by itself      *)
(* (LmdbStoreProofs): the loss is the environment's, one entry at a time,  *)
(* at any point of the store's life, and callers go on using the store.    *)
(***************************************************************************)
EXTENDS LmdbStore

VARIABLES
  damaged   \* an entry was lost since the store was opened or repaired

dvars == <<vars, damaged>>

LoseRow ==
  \E b \in Stored :
    /\ blocks_by_id' = [blocks_by_id EXCEPT ![b] = None]
    /\ UNCHANGED <<blocks_by_hash, blocks_by_session>>

LoseHashEntry ==
  \E h \in Hash :
    /\ blocks_by_hash[h] # None
    /\ blocks_by_hash' = [blocks_by_hash EXCEPT ![h] = None]
    /\ UNCHANGED <<blocks_by_id, blocks_by_session>>

LoseSessionEntry ==
  \E r \in blocks_by_session :
    /\ blocks_by_session' = blocks_by_session \ {r}
    /\ UNCHANGED <<blocks_by_id, blocks_by_hash>>

Damage ==
  /\ LoseRow \/ LoseHashEntry \/ LoseSessionEntry
  /\ damaged' = TRUE
  /\ Reply("damage", FALSE)
  /\ UNCHANGED edgeVars

DInit == Init /\ damaged = FALSE

Operation ==
  \/ Repair /\ damaged' = FALSE
  \/ /\ \/ \E s \in Session, b \in BlockId : PutDedup(s, b) \/ PutFresh(s, b)
        \/ \E b \in BlockId : DeleteAbsent(b) \/ DeletePresent(b)
        \/ \E s \in Session : Purge(s)
        \/ \E e \in Edge : PutEdge(e)
        \/ Verify
     /\ UNCHANGED damaged

DNext == Operation \/ Damage

DSpec == DInit /\ [][DNext]_dvars

-----------------------------------------------------------------------------
(* Properties *)

(* What a put relies on: the id it is deduplicated to is stored, with that *)
(* content, and whatever a session lists can be fetched.                   *)
DedupIsSafe ==
  \A h \in Hash : blocks_by_hash[h] # None => blocks_by_id[blocks_by_hash[h]] = h

SessionsAreSafe == \A r \in blocks_by_session : r[2] \in Stored

(***************************************************************************)
(* Whatever was lost and whatever callers did to the damaged store before, *)
(* once repair() has run, and until the next loss, no put is deduplicated  *)
(* onto a missing block and no session lists one.                          *)
(***************************************************************************)
RepairedStoreIsSafe == ~damaged => DedupIsSafe /\ SessionsAreSafe

=============================================================================
